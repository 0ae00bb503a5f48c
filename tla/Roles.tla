------------------------------- MODULE Roles -------------------------------
(***************************************************************************)
(* From role slices to accounts and groups (model.rs, rolestore.rs), and   *)
(* the commands that only look: compile, its lint, and the plan diff.      *)
(*                                                                         *)
(* A composition is the payload of a role slice: raw primitives and a list *)
(* of permission references.  Warnings are pairs <<code, what>>.           *)
(***************************************************************************)
EXTENDS Catalog, L10n

CONSTANTS RootEquivalent,   \* ROOT_EQUIVALENT_RW_PREFIXES
          SecretPaths,      \* SECRET_PATH_PREFIXES
          HostKeyDir,       \* SSH_HOST_KEY_DIR
          HostKeyNames,     \* names that start with SSH_HOST_KEY_PREFIX
          ShellSpawners     \* ESCALATION_CAPABLE_SUDO_BASENAMES

BlankComp == [groups |-> {}, sudo_role |-> "none", limits |-> NoLimits, files |-> {},
              sudo |-> {}, perms |-> <<>>]
Ref(id, params) == [id |-> id, params |-> params]

\* read_composition: a missing slice is an error, a missing payload is empty.
ReadComposition(store, role) ==
  IF role \notin DOMAIN store THEN Fail("RoleNotFound") ELSE [ok |-> TRUE, comp |-> store[role]]

InlineSudoDefect(t) ==
  t.atoms = <<>> \/ Len(t.atoms) > 1 \/ ~t.abs \/ HasDotDot(t) \/ HasPlaceholder(t)
  \/ t.marks \cap {"ctl", "blank", "meta", "star", "bracket"} # {}

\* A raw file grant has no parameters to fill a placeholder with.
RawGrantDefect(g) == HasPlaceholder(g.path) \/ StaticPathDefect(g)

MergeLimitsFirstWins(acc, l) ==
  [acc EXCEPT !.nofile = IF @ = NoLimit THEN l.nofile ELSE @,
              !.nproc = IF @ = NoLimit THEN l.nproc ELSE @]

\* The permissions of a composition, resolved in order: all of them, or the
\* first error.
AllOrError(ex) ==
  IF AnyFails(ex) THEN Fail(FirstError(ex)) ELSE [ok |-> TRUE, perms |-> [i \in DOMAIN ex |-> ex[i].perm]]
Resolutions(L, comp) ==
  [i \in DOMAIN comp.perms |-> ResolveWithParams(L, comp.perms[i].id, comp.perms[i].params)]
Expanded(L, comp) == AllOrError(Resolutions(L, comp))

RawWarnings(comp, fields) ==
  IF comp.perms = <<>> THEN {}
  ELSE {<<"raw", f>> : f \in {g \in fields :
          CASE g = "groups" -> comp.groups # {}
            [] g = "sudo_role" -> comp.sudo_role # "none"
            [] g = "limits" -> comp.limits # NoLimits
            [] g = "files" -> comp.files # {}}}
InlineWarning(comp) == IF comp.sudo = {} THEN {} ELSE {<<"raw", "sudo">>}
UnusedWarnings(perms) == UNION {{<<"unused-param", p>> : p \in q.unused} : q \in Range(perms)}
MergeLimits(first, perms) == FoldLeft(LAMBDA acc, p : MergeLimitsFirstWins(acc, p.limits), first, perms)

(***************************************************************************)
(* resolve: one role account.                                              *)
(***************************************************************************)
AccountOf(comp, ex) ==
  IF ~ex.ok THEN ex
  ELSE [ok |-> TRUE,
        acct |-> [groups |-> comp.groups \cup UNION {{g.value : g \in p.groups} : p \in Range(ex.perms)},
                  sudo |-> {Prim(t, NoRunas) : t \in comp.sudo} \cup UNION {p.sudo : p \in Range(ex.perms)},
                  sudo_role |-> comp.sudo_role,
                  limits |-> IF comp.limits # NoLimits THEN comp.limits ELSE MergeLimits(NoLimits, ex.perms),
                  files |-> UnionGrants(comp.files \cup UNION {p.files : p \in Range(ex.perms)})],
        warnings |-> RawWarnings(comp, {"groups", "sudo_role", "limits", "files"})
                     \cup InlineWarning(comp) \cup UnusedWarnings(ex.perms)]

ResolveAccount(L, comp) ==
  CASE \E t \in comp.sudo : InlineSudoDefect(t) -> Fail("InvalidInlineSudo")
    [] (\A t \in comp.sudo : ~InlineSudoDefect(t)) /\ (\E g \in comp.files : RawGrantDefect(g)) ->
         Fail("InvalidFileGrant")
    [] OTHER -> AccountOf(comp, Expanded(L, comp))

(***************************************************************************)
(* resolve_groups: the [[group]] entries, then each [[role_group]] binding *)
(* adds the permissions and raw files of its role.  A raw sudo command and *)
(* a group membership do not apply to a group; they only warn.             *)
(***************************************************************************)
DeclaredGroup(g) ==
  [provenance |-> IF g.adopt THEN "adopted" ELSE "created", gid |-> IF g.adopt THEN 0 ELSE g.gid,
   members |-> g.members, sudo |-> {}, files |-> {}, limits |-> NoLimits, roles |-> {}]

BindWarnings(rg, comp, perms) ==
  UnusedWarnings(perms)
  \cup (IF comp.perms # <<>> /\ comp.files # {} THEN {<<"raw", "files">>} ELSE {})
  \cup (IF comp.sudo # {} THEN {<<"inline-dropped", rg.group>>} ELSE {})
  \cup (IF \E p \in Range(perms) : p.groups # {} THEN {<<"groups-dropped", rg.group>>} ELSE {})
WithRole(g, rg, comp, perms) ==
  [g EXCEPT !.sudo = @ \cup UNION {p.sudo : p \in Range(perms)},
            !.files = UnionGrants(@ \cup comp.files \cup UNION {p.files : p \in Range(perms)}),
            !.limits = MergeLimits(@, perms),
            !.roles = @ \cup {rg.role}]
BindPerms(acc, rg, comp, ex) ==
  IF ~ex.ok THEN ex
  ELSE [acc EXCEPT !.warnings = @ \cup BindWarnings(rg, comp, ex.perms),
                   !.groups[rg.group] = WithRole(@, rg, comp, ex.perms)]
BindComposition(L, acc, rg, read) ==
  CASE ~acc.ok -> acc
    [] acc.ok /\ rg.group \notin DOMAIN acc.groups -> Fail("UndeclaredGroup")
    [] acc.ok /\ rg.group \in DOMAIN acc.groups /\ ~read.ok -> read
    [] OTHER -> IF \E g \in read.comp.files : RawGrantDefect(g) THEN Fail("InvalidFileGrant")
                ELSE BindPerms(acc, rg, read.comp, Expanded(L, read.comp))
BindRole(L, store, acc, rg) == BindComposition(L, acc, rg, ReadComposition(store, rg.role))

DeclaredGroups(groups) ==
  [ok |-> TRUE, warnings |-> {}, groups |-> [n \in DOMAIN groups |-> DeclaredGroup(groups[n])]]
ResolveGroups(L, store, groups, bindings) ==
  LET bound[k \in 0..Len(bindings)] ==
        IF k = 0 THEN DeclaredGroups(groups) ELSE BindRole(L, store, bound[k - 1], bindings[k])
  IN bound[Len(bindings)]

(***************************************************************************)
(* compile: the same expansion for a reader.  It neither checks the raw    *)
(* commands nor looks at the raw files.                                    *)
(***************************************************************************)
Compiled(comp, ex) ==
  IF ~ex.ok THEN ex
  ELSE [ok |-> TRUE, perms |-> ex.perms, raw |-> comp,
        warnings |-> RawWarnings(comp, {"groups", "sudo_role", "limits"})
                     \cup InlineWarning(comp) \cup UnusedWarnings(ex.perms)]
CompileRole(L, comp) == Compiled(comp, Expanded(L, comp))

FlatGroups(c) == c.raw.groups \cup UNION {{g.value : g \in p.groups} : p \in Range(c.perms)}

\* Mutant: the run-as account is lost on the way to the reader.
FlatSudo_Root(c) ==
  {Prim(v, NoRunas) : v \in c.raw.sudo \cup UNION {{p.value : p \in q.sudo} : q \in Range(c.perms)}}

\* Commands are told apart by value alone: the first permission that has one
\* says under which account it runs.
FlatSudo(c) ==
  LET values(i) == {p.value : p \in c.perms[i].sudo}
      first(v) == CHOOSE i \in DOMAIN c.perms :
                    v \in values(i) /\ \A j \in 1..(i - 1) : v \notin values(j)
      runas(v) == (CHOOSE p \in c.perms[first(v)].sudo : p.value = v).runas
  IN {Prim(v, NoRunas) : v \in c.raw.sudo}
     \cup {Prim(v, runas(v)) : v \in (UNION {values(i) : i \in DOMAIN c.perms}) \ c.raw.sudo}

FlatFileGrants(c) == UnionGrants(UNION {p.files : p \in Range(c.perms)})

EffectiveLimits(c) ==
  IF c.raw.limits # NoLimits THEN c.raw.limits ELSE MergeLimits(NoLimits, c.perms)

(***************************************************************************)
(* The risk lint.                                                          *)
(***************************************************************************)
PathBoundaryOverlaps(p, q) == PathAtOrUnder(p, q) \/ PathAtOrUnder(q, p)
OverlapsAny(S, path) == \E p \in S : PathBoundaryOverlaps(p, path)

PathIsSecret(path) ==
  \/ OverlapsAny(SecretPaths, path)
  \/ PathAtOrUnder(path, HostKeyDir)
  \/ Len(path.atoms) = Len(HostKeyDir.atoms) + 1 /\ PathAtOrUnder(HostKeyDir, path)
     /\ Last(path.atoms) \in HostKeyNames

GrantFindings(files, who) ==
  {<<who, "rw-root-equivalent", g.path>> :
     g \in {h \in files : "write" \in h.access /\ OverlapsAny(RootEquivalent, h.path)}}
  \cup {<<who, "secret-path-access", g.path>> : g \in {h \in files : PathIsSecret(h.path)}}

\* The binary of a command is its first word; a contained permission that runs a
\* known shell spawner is labelled too low.
SudoRiskFindings(c) ==
  {<<"role", "sudo-risk-understated", x[2].value>> :
     x \in {y \in UNION {{<<p, s>> : s \in p.sudo} : p \in Range(c.perms)} :
              y[1].risk = "contained" /\ y[2].value.atoms # <<>>
              /\ Head(y[2].value.atoms) \in ShellSpawners}}

\* A command whose arguments name a root-equivalent path.
EditsRootEquivalent(t, paths) == \E a \in Range(Tail(t.atoms)) : a \in DOMAIN paths /\ OverlapsAny(RootEquivalent, paths[a])

GroupRiskFindings(groups, paths) ==
  UNION {GrantFindings(groups[n].files, "group")
         \cup {<<"group", "sudo-escalation", s.value>> :
                 s \in {t \in groups[n].sudo : EditsRootEquivalent(t.value, paths)}} : n \in DOMAIN groups}

\* lint_role: the texts are checked for the permissions of this role only.
LintRole(c, texts) ==
  LET ids == {p.id : p \in Range(c.perms)}
      locales == {"en", "ru", "zh"} \cup AvailableLocales(texts)
  IN c.warnings \cup GrantFindings(FlatFileGrants(c), "role") \cup SudoRiskFindings(c)
     \cup {<<"missing-translation", x>> : x \in MissingTranslations(texts, locales, ids)}
     \cup {<<"orphan-translation", x>> : x \in OrphanTranslations(texts, locales, ids)}

(***************************************************************************)
(* The plan diff: fragments by line, grants by path.                       *)
(***************************************************************************)
\* Mutant: a common line is not counted.
LcsTable_NoStep(a, b) ==
  LET t[i \in 0..Len(a), j \in 0..Len(b)] ==
        IF i = 0 \/ j = 0 THEN 0
        ELSE IF a[i] = b[j] THEN t[i - 1, j - 1]
        ELSE IF t[i - 1, j] > t[i, j - 1] THEN t[i - 1, j] ELSE t[i, j - 1]
  IN t

LcsTable(a, b) ==
  LET t[i \in 0..Len(a), j \in 0..Len(b)] ==
        IF i = 0 \/ j = 0 THEN 0
        ELSE IF a[i] = b[j] THEN t[i - 1, j - 1] + 1
        ELSE IF t[i - 1, j] > t[i, j - 1] THEN t[i - 1, j] ELSE t[i, j - 1]
  IN t

Minus(x) == <<"-", x>>
Plus(x) == <<"+", x>>

\* Walks both texts from their ends; a line common to both is not shown.
DiffLines(a, b) ==
  LET t == LcsTable(a, b)
      walk[i \in 0..Len(a), j \in 0..Len(b)] ==
        IF i > 0 /\ j > 0
        THEN IF a[i] = b[j] THEN walk[i - 1, j - 1]
             ELSE IF t[i - 1, j] > t[i, j - 1] THEN walk[i - 1, j] \o <<Minus(a[i])>>
             ELSE walk[i, j - 1] \o <<Plus(b[j])>>
        ELSE IF j > 0 THEN walk[0, j - 1] \o <<Plus(b[j])>>
        ELSE IF i > 0 THEN walk[i - 1, 0] \o <<Minus(a[i])>>
        ELSE <<>>
  IN walk[Len(a), Len(b)]

FileGrantDelta(before, after) == [revoke |-> before \ after, setfacl |-> after \ before]
=============================================================================
