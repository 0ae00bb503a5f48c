------------------------------ MODULE Exposure ------------------------------
(***************************************************************************)
(* What the exposure audit computes from a permission index                *)
(* (src/exposure): the acl(5) access check, reachability, object classes,  *)
(* risk and severity, the per-principal report and the posture map.        *)
(*                                                                         *)
(* A path is the sequence of its names, permissions are subsets of         *)
(* {"r","w","x"}, and a mode is [dir, setid, owner, group, other].  An     *)
(* index is a function from paths to records [uid, gid, mode, acl, class]; *)
(* acl is a sequence of entries [tag, who, perms], empty unless extended.  *)
(* A glob is a sequence of segments, each the set of names it matches, or  *)
(* AnyDepth.                                                               *)
(***************************************************************************)
EXTENDS Naturals, Sequences, FiniteSets, SequencesExt, Sequencing

CONSTANTS HighGlobs,         \* CLASS_GLOBS_HIGH, as <<glob, class>> in order
          LowGlobs,          \* CLASS_GLOBS_LOW
          SecurityRelevant,  \* the prefixes of is_security_relevant_config
          NoName,            \* stands for None where a name is expected
          Digits(_)          \* a number as to_string spells it

ObjectClasses == {"Cron", "Sudoers", "SystemdUnit", "PathBinary", "SetuidBinary", "Config", "Secret", "Generic"}

\* The tables name classes of their own: not what the mode or nothing at all says.
ASSUME ExposureAssumption ==
  /\ IsSeq(HighGlobs) /\ IsSeq(LowGlobs)
  /\ \A g \in Range(HighGlobs) \cup Range(LowGlobs) : g[2] \in ObjectClasses \ {"SetuidBinary", "Generic"}

AllPerms == {"r", "w", "x"}
AnyDepth == {"**"}
AtOrUnder(prefix, path) == IsPrefix(prefix, path)
ParentOf(path) == IF path = <<>> THEN path ELSE Front(path)

-----------------------------------------------------------------------------
(* POSIX ACLs.                                                             *)

IsExtended(acl) == \E e \in Range(acl) : e.tag \in {"user", "group", "mask"}

\* parse_acl_entry drops default entries and lines it cannot read.
ParseGetfacl(dump) ==
  Chosen(dump, {i \in DOMAIN dump : dump[i].tag \in {"user_obj", "user", "group_obj", "group", "mask", "other"}})

\* The entries of the user or group class that are about this name.
Named(acl, tag, names) == Chosen(acl, {i \in DOMAIN acl : acl[i].tag = tag /\ acl[i].who \in names})

\* find_perms: the first entry with the tag, else the default.
Tagged(acl, tag) == Chosen(acl, {i \in DOMAIN acl : acl[i].tag = tag})
FindPerms(acl, tag, default) ==
  LET hits == Tagged(acl, tag)
  IN IF hits = <<>> THEN default ELSE Head(hits).perms

AclMask(acl) == FindPerms(acl, "mask", AllPerms)

-----------------------------------------------------------------------------
(* Principals.  A passwd entry is [uid, gid, home, groups], groups being   *)
(* the names in whose member lists the user is; groupDb maps names to gids.*)

PushUnique(groups, g) == IF \E h \in Range(groups) : h.gid = g.gid THEN groups ELSE Append(groups, g)

\* resolve_principal: a login name, or a number that is taken for a uid; a uid
\* without an account owns files all the same, under its digits as a name; a
\* name without one is nobody.
ResolvePrincipal(passwd, groupDb, arg) ==
  LET byUid == {n \in DOMAIN passwd : passwd[n].uid = arg.uid}
      named(gid) == {n \in DOMAIN groupDb : groupDb[n] = gid}
      of(n) ==
        LET entry == passwd[n]
            primary == [name |-> IF named(entry.gid) = {} THEN Digits(entry.gid) ELSE CHOOSE g \in named(entry.gid) : TRUE,
                        gid |-> entry.gid]
            known == SelectSeq(entry.groups, LAMBDA g : g \in DOMAIN groupDb)
        IN [name |-> n, uid |-> entry.uid, home |-> entry.home,
            groups |-> FoldLeft(LAMBDA gs, g : PushUnique(gs, [name |-> g, gid |-> groupDb[g]]),
                                <<primary>>, known)]
  IN IF arg.numeric
     THEN IF byUid # {} THEN {of(CHOOSE n \in byUid : TRUE)}
          ELSE {[name |-> Digits(arg.uid), uid |-> arg.uid, groups |-> <<>>, home |-> <<>>]}
     ELSE {of(n) : n \in DOMAIN passwd \cap {arg.name}}

MemberOf(p, gid) == \E g \in Range(p.groups) : g.gid = gid
GroupNameFor(p, gid) == (CHOOSE g \in Range(p.groups) : g.gid = gid).name
InNamedGroup(p, name) == \E g \in Range(p.groups) : g.name = name

-----------------------------------------------------------------------------
(* The access check.                                                       *)

Via(kind, name) == [kind |-> kind, name |-> name]
Effectively(access, via) == [access |-> access, via |-> via]

EffectiveMode(rec, p) ==
  CASE p.uid = rec.uid -> Effectively(rec.mode.owner, Via("owner", NoName))
    [] p.uid # rec.uid /\ MemberOf(p, rec.gid) ->
         Effectively(rec.mode.group, Via("group", GroupNameFor(p, rec.gid)))
    [] OTHER -> Effectively(rec.mode.other, Via("other_bits", NoName))

\* The group class: every entry that applies, the owning group first.
Applying(rec, p) ==
  LET own == IF MemberOf(p, rec.gid)
             THEN [i \in DOMAIN Tagged(rec.acl, "group_obj") |->
                     Effectively(FindPerms(rec.acl, "group_obj", {}), Via("group", GroupNameFor(p, rec.gid)))]
             ELSE <<>>
      named == Named(rec.acl, "group", {g.name : g \in Range(p.groups)})
  IN own \o [i \in DOMAIN named |-> Effectively(named[i].perms, Via("acl_group", named[i].who))]

\* Access is the union of what the entries grant under the mask; the first
\* one that grants anything is named, else the first.
GroupClass(applying, mask) ==
  LET granting == SelectSeq(applying, LAMBDA a : a.access \cap mask # {})
  IN Effectively(UNION {a.access \cap mask : a \in Range(applying)},
                 IF granting = <<>> THEN Head(applying).via ELSE Head(granting).via)

\* Mutant: a group class that grants nothing falls through to other.
EffectiveAcl_FallsThrough(rec, p) ==
  LET mask == AclMask(rec.acl)
      user == Named(rec.acl, "user", {p.name})
      applying == Applying(rec, p)
  IN CASE p.uid = rec.uid -> Effectively(FindPerms(rec.acl, "user_obj", rec.mode.owner), Via("owner", NoName))
       [] p.uid # rec.uid /\ user # <<>> -> Effectively(Head(user).perms \cap mask, Via("acl_user", p.name))
       [] p.uid # rec.uid /\ user = <<>> /\ applying # <<>> /\ GroupClass(applying, mask).access # {} ->
            GroupClass(applying, mask)
       [] OTHER -> Effectively(FindPerms(rec.acl, "other", rec.mode.other), Via("other_bits", NoName))

\* Owner, then named user, then group class, then other; the mask caps the
\* two in the middle.
EffectiveAcl(rec, p) ==
  LET mask == AclMask(rec.acl)
      user == Named(rec.acl, "user", {p.name})
      applying == Applying(rec, p)
  IN CASE p.uid = rec.uid -> Effectively(FindPerms(rec.acl, "user_obj", rec.mode.owner), Via("owner", NoName))
       [] p.uid # rec.uid /\ user # <<>> -> Effectively(Head(user).perms \cap mask, Via("acl_user", p.name))
       [] p.uid # rec.uid /\ user = <<>> /\ applying # <<>> -> GroupClass(applying, mask)
       [] OTHER -> Effectively(FindPerms(rec.acl, "other", rec.mode.other), Via("other_bits", NoName))

Effective(rec, p) ==
  IF p.uid = 0 THEN Effectively(AllPerms, Via("owner", NoName))
  ELSE IF IsExtended(rec.acl) THEN EffectiveAcl(rec, p) ELSE EffectiveMode(rec, p)

-----------------------------------------------------------------------------
(* Reachability: every directory from the scan root to the parent can be   *)
(* searched; one that is not in the index blocks, one above every root     *)
(* does not.                                                               *)

WithinScope(path, roots) == \E r \in roots : AtOrUnder(r, path)
HasSearch(index, p, dir) == dir \in DOMAIN index /\ "x" \in Effective(index[dir], p).access

ReachableDir(index, p, roots, dir) ==
  \A n \in 0..Len(dir) : LET d == SubSeq(dir, 1, n) IN WithinScope(d, roots) => HasSearch(index, p, d)

Reachable(index, p, roots) ==
  {q \in DOMAIN index : p.uid = 0 \/ ReachableDir(index, p, roots, ParentOf(q))}

-----------------------------------------------------------------------------
(* Object classes.  At most one AnyDepth per glob (ExposureConfig refuses  *)
(* more).                                                                  *)

SegMatches(seg, name) == name \in seg
GlobMatch(glob, path) ==
  LET star == {i \in DOMAIN glob : glob[i] = AnyDepth}
      n == Len(glob)  m == Len(path)
  IN IF star = {}
     THEN n = m /\ \A i \in 1..n : SegMatches(glob[i], path[i])
     ELSE LET k == CHOOSE i \in star : TRUE
          IN /\ m >= n - 1
             /\ \A i \in 1..(k - 1) : SegMatches(glob[i], path[i])
             /\ \A i \in 1..(n - k) : SegMatches(glob[n + 1 - i], path[m + 1 - i])

Classify(secretGlobs, path, mode) ==
  LET table(globs) == Chosen(globs, {i \in DOMAIN globs : GlobMatch(globs[i][1], path)})
  IN CASE ~mode.dir /\ mode.setid -> "SetuidBinary"
       [] (mode.dir \/ ~mode.setid) /\ table(HighGlobs) # <<>> -> Head(table(HighGlobs))[2]
       [] OTHER ->
            IF \E g \in Range(secretGlobs) : GlobMatch(g, path) THEN "Secret"
            ELSE IF table(LowGlobs) # <<>> THEN Head(table(LowGlobs))[2]
            ELSE IF \E r \in SecurityRelevant : AtOrUnder(r, path) THEN "Config" ELSE "Generic"

Privileged == {"Cron", "Sudoers", "SystemdUnit", "PathBinary", "SetuidBinary", "Secret"}

DeriveRisk(access, class) ==
  CASE "w" \in access -> IF class \in Privileged THEN "escalation" ELSE "tamper"
    [] "w" \notin access /\ "r" \in access /\ class = "Secret" -> "leak"
    [] OTHER -> "none"

DeriveSeverity(class, risk) ==
  IF risk \in {"escalation", "leak"} THEN 3 ELSE IF class = "Config" THEN 2 ELSE 1

-----------------------------------------------------------------------------
(* The managed context of a principal.  Grants are [path, recursive].      *)

Covers(prefixes, path) ==
  \E g \in prefixes : g.path = path \/ (g.recursive /\ AtOrUnder(g.path, path))

\* valid_baseline_prefix: the root or nothing would cover every path.
ValidPrefixes(S) == {g \in S : g.path # <<>>}

Baseline(account, p) ==
  ValidPrefixes(account.grants \cup {[path |-> p.home, recursive |-> TRUE]})

\* for_principal: the account with this name and uid, else with the name,
\* else with the uid.
Bound(accounts, p) ==
  LET exact == {a \in accounts : a.name = p.name /\ a.uid = p.uid}
      byName == {a \in accounts : a.name = p.name}
      byUid == {a \in accounts : a.uid = p.uid}
  IN IF exact # {} THEN exact ELSE IF byName # {} THEN byName ELSE byUid

ForPrincipal(reg, p) ==
  LET bound == Bound(reg.accounts, p)
  IN IF bound = {} THEN [managed |-> FALSE, baseline |-> {}, grants |-> {}, groups |-> reg.groups]
     ELSE LET a == CHOOSE x \in bound : TRUE
          IN [managed |-> TRUE, baseline |-> Baseline(a, p), grants |-> ValidPrefixes(a.grants),
              groups |-> reg.groups]

GlobalContext(reg) == [managed |-> FALSE, baseline |-> {}, grants |-> {}, groups |-> reg.groups]

Remediation(via, path, ctx) ==
  IF \/ via.kind \in {"group", "acl_group"} /\ via.name \in ctx.groups
     \/ via.kind \in {"acl_user", "acl_group"} /\ Covers(ctx.grants, path)
  THEN "in-model" ELSE "ambient"

\* finding_for and push_table_finding: nothing, or one finding.
FindingFor(path, class, access, via, ctx) ==
  LET risk == DeriveRisk(access, class)
  IN IF risk = "none" THEN {}
     ELSE {[path |-> path, class |-> class, access |-> access, via |-> via, risk |-> risk,
            severity |-> DeriveSeverity(class, risk), remediation |-> Remediation(via, path, ctx),
            mac |-> {}]}

-----------------------------------------------------------------------------
(* The per-principal report.                                               *)

Expose(index, p, roots, ctx) ==
  UNION {LET e == Effective(index[q], p) IN FindingFor(q, index[q].class, e.access, e.via, ctx) :
           q \in {r \in Reachable(index, p, roots) : WithinScope(r, roots)}}

\* A MAC provider: [active, labels (path -> label), contexts (uid -> set),
\* permits (set of <<context, label, kind>>)].
NullMac == [active |-> FALSE, labels |-> <<>>, contexts |-> <<>>, permits |-> {}]
MacKind(risk) == IF risk = "leak" THEN "read" ELSE "write"

\* refine_with_mac: missing labels or contexts are no proof of anything.
RefineWithMac(findings, uid, mac) ==
  LET contexts == IF uid \in DOMAIN mac.contexts THEN mac.contexts[uid] ELSE {}
      labelled(f) == f.path \in DOMAIN mac.labels
      reachableIn(f) == {c \in contexts : <<c, mac.labels[f.path], MacKind(f.risk)>> \in mac.permits}
  IN IF ~mac.active \/ contexts = {} THEN findings
     ELSE {f \in findings : ~labelled(f)}
            \cup {[f EXCEPT !.mac = reachableIn(f)] : f \in {g \in findings : labelled(g) /\ reachableIn(g) # {}}}

ExposureReport(index, p, roots, reg, mac) ==
  LET ctx == ForPrincipal(reg, p)
      raw == Expose(index, p, roots, ctx)
  IN [managed |-> ctx.managed,
      findings |-> RefineWithMac({f \in raw : ~Covers(ctx.baseline, f.path)}, p.uid, mac)]

-----------------------------------------------------------------------------
(* The posture map.                                                        *)

\* Mutant: binaries on the PATH are forgotten.
SensitiveWritable_NoBinaries == {"Cron", "Sudoers", "SystemdUnit", "Config", "Secret"}

SensitiveWritable == {"Cron", "Sudoers", "SystemdUnit", "Config", "PathBinary", "Secret"}

WorldWritable(path, rec, ctx) ==
  IF rec.class \in SensitiveWritable /\ "w" \in rec.mode.other
  THEN FindingFor(path, rec.class, rec.mode.other, Via("other_bits", NoName), ctx) ELSE {}

CollectSetuid(path, rec) ==
  IF rec.class = "SetuidBinary"
  THEN {[path |-> path, class |-> rec.class, access |-> rec.mode.other, via |-> Via("other_bits", NoName),
         risk |-> "escalation", severity |-> IF "w" \in rec.mode.other THEN 3 ELSE 2,
         remediation |-> "ambient", mac |-> {}]}
  ELSE {}

WorldReadableSecret(path, rec, ctx) ==
  IF rec.class = "Secret" /\ "r" \in rec.mode.other
  THEN FindingFor(path, rec.class, {"r"}, Via("other_bits", NoName), ctx) ELSE {}

\* With an extended ACL the mode's group bits are the mask.
OwningGroupPerms(rec) == FindPerms(rec.acl, "group_obj", rec.mode.group) \cap AclMask(rec.acl)

BroadGroupWritable(path, rec, ctx, broad, groupDb) ==
  LET named == {n \in DOMAIN groupDb : groupDb[n] = rec.gid}
  IN UNION {FindingFor(path, rec.class, OwningGroupPerms(rec), Via("group", n), ctx) :
              n \in IF "w" \in OwningGroupPerms(rec) THEN named \cap broad ELSE {}}

\* dedup_keep_severest, by (path, via, risk).
KeepSeverest(F) ==
  {f \in F : \A g \in F : g.path = f.path /\ g.via = f.via /\ g.risk = f.risk => g.severity <= f.severity}

AnnotatePosture(F, mac) ==
  {IF mac.active /\ f.path \in DOMAIN mac.labels THEN [f EXCEPT !.mac = {mac.labels[f.path]}] ELSE f : f \in F}

AuditFs(index, reg, broad, groupDb, mac) ==
  LET ctx == GlobalContext(reg)
      on(q) == WorldWritable(q, index[q], ctx) \cup CollectSetuid(q, index[q])
                 \cup WorldReadableSecret(q, index[q], ctx)
                 \cup BroadGroupWritable(q, index[q], ctx, broad, groupDb)
  IN AnnotatePosture(KeepSeverest(UNION {on(q) : q \in DOMAIN index}), mac)

AuditExitCode(findings) == IF \E f \in findings : f.severity >= 3 THEN "failure" ELSE "success"
=============================================================================
