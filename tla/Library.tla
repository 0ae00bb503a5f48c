------------------------------ MODULE Library ------------------------------
(***************************************************************************)
(* A catalog and a role slice that change while Census runs over them:     *)
(* packages install and remove policy files and an administrator edits the *)
(* slice.  The commands only read, so they are operators of this state.    *)
(***************************************************************************)
EXTENDS Coverage

CONSTANTS Drafts,    \* the policy files that may be installed
          Comps,     \* the compositions the slice may have
          Values,    \* every text a parameter or a literal binding may hold
          Surface,   \* the privileged surface of the device
          Texts,     \* the installed translations
          MaxFiles   \* bound on the files installed at a time

\* A file of the catalog: its texts are sequences, its includes name permissions.
DraftTexts(def) == def.groups.vals \cup def.sudo.vals \cup {g.path : g \in def.files} \cup BindingTemplates(def)
DraftOk(f) ==
  /\ f.root \in 1..NumRoots /\ f.def.id \in Ids
  /\ f.def.risk \in {NoRisk, "contained", "escalation"}
  /\ IsSeq(f.def.includes) /\ \A inc \in Range(f.def.includes) : inc.id \in Ids
  /\ \A t \in DraftTexts(f.def) : IsSeq(t.atoms)
  /\ \A p \in DOMAIN f.def.params : IsConstraint(f.def.params[p])

\* The braces of a placeholder are metacharacters in a value (param_value_defect).
ValueOk(v) == IsSeq(v.atoms) /\ (HasPlaceholder(v) => "meta" \in v.marks)
ParamOk(a) ==
  /\ IsSeq(a.items) /\ (a.form = "scalar" => Len(a.items) = 1)
  /\ a.form \in {"scalar", "list", "other"} /\ \A v \in Range(a.items) : ValueOk(v)
CompOk(c) ==
  /\ IsSeq(c.perms)
  /\ \A q \in Range(c.perms) : q.id \in Ids /\ \A p \in DOMAIN q.params : ParamOk(q.params[p])

ASSUME LibraryAssumption ==
  /\ \A o \in Surface : IsText(o.key)
  /\ \A f \in Drafts : DraftOk(f)
  /\ \A c \in Comps : CompOk(c)

\* Values has what a role passes, and what an include's bindings spell from it.
ValuesOf(params) == UNION {Range(params[p].items) : p \in DOMAIN params}
Passed == UNION {ValuesOf(q.params) : q \in UNION {Range(c.perms) : c \in Comps}}
Spelled(t, V) == {Substitute(t, f) : f \in [Placeholders(t) -> V]}
BindingsStated == UNION {BindingTemplates(f.def) : f \in Drafts}

ASSUME ValuesAssumption ==
  Passed \subseteq Values /\ \A t \in BindingsStated : Spelled(t, Passed) \subseteq Values

VARIABLES lib,       \* the installed files
          comp       \* the composition in the role slice

vars == <<lib, comp>>

Init == lib = {} /\ comp = BlankComp

Publish(f) ==
  /\ f \notin lib /\ Cardinality(lib) < MaxFiles
  /\ lib' = lib \cup {f}
  /\ UNCHANGED comp

Withdraw(f) ==
  /\ f \in lib
  /\ lib' = lib \ {f}
  /\ UNCHANGED comp

EditRole(c) ==
  /\ c # comp
  /\ comp' = c
  /\ UNCHANGED lib

Next == \/ \E f \in Drafts : Publish(f) \/ Withdraw(f)
        \/ \E c \in Comps : EditRole(c)

Spec == Init /\ [][Next]_vars

\* The account that an apply of the slice as it stands would build, and the group
\* that two bindings of it would.
Account == ResolveAccount(lib, comp)
Bindings == <<[role |-> "slice", group |-> "staff"], [role |-> "slice", group |-> "staff"]>>
Bound ==
  ResolveGroups(lib, [r \in {"slice"} |-> comp],
                [n \in {"staff"} |-> [adopt |-> TRUE, gid |-> 7, members |-> {}]], Bindings)

(***************************************************************************)
(* Reference definitions.                                                  *)
(***************************************************************************)
Direct(id) == {inc.id : inc \in Range(Includes(lib, id))} \cup CategoryMembers(lib, id)
\* The ids that id reaches, itself among them only when it lies on a loop: those of
\* every set that has its members, and the members of its own.
Closed(direct, S) == \A d \in S : direct[d] \subseteq S
Reach(direct, id) ==
  {d \in Ids : \A S \in SUBSET Ids : direct[id] \subseteq S /\ Closed(direct, S) => d \in S}
Below(id) == Reach([i \in Ids |-> Direct(i)], id)
Stated(id) == Stating(lib, id) # <<>>
IsLeaf(id) == Includes(lib, id) = <<>> /\ Categories(lib, id) = {}

\* The instances of a template whose values a permission's own constraints accept.
Sanctioned(t, params) ==
  {Substitute(t, f) :
     f \in {g \in [Placeholders(t) -> Values] :
              \A p \in Placeholders(t) : p \in DOMAIN params /\ ~ValueDefect(params[p], g[p])
                                         /\ ~ParamValueDefect(g[p])}}
\* The commands and paths a permission states on the layers that survive.
Instances(leaf) ==
  UNION {Sanctioned(t, leaf.params) : t \in {x.value : x \in leaf.sudo} \cup {x.path : x \in leaf.files}}

(***************************************************************************)
(* Properties.  The ones that read lib alone are evaluated once per lib,   *)
(* in the state where the slice is blank.                                  *)
(***************************************************************************)
\* An account holds only finished texts: no placeholder is left, every command
\* and path is absolute without "..", and a group that a permission gives is a
\* plain name.  (The slice's own groups are checked by required_groups.)
TextsFinished ==
  \A r \in {Account} : r.ok =>
    /\ \A s \in r.acct.sudo : ~SudoCommandDefect(s.value) /\ ~HasPlaceholder(s.value)
    /\ \A g \in r.acct.files : ~FilePathDefect(g.path) /\ ~HasPlaceholder(g.path)
    /\ \A g \in r.acct.groups \ comp.groups : ~GroupNameDefect(g) /\ ~HasPlaceholder(g)

\* A permission that reaches an include loop is refused, and a loop is never
\* reported where there is none (catalog.rs:2880, the path stack).
CyclesRefused ==
  comp = BlankComp /\ ~ReadFails(lib) =>
    \A below \in {[i \in Ids |-> Below(i)]} : \A id \in {i \in Ids : Stated(i)} :
      \A r \in {Resolve(lib, id)}, loop \in {\E d \in below[id] \cup {id} : d \in below[d]} :
        /\ loop => ~r.ok
        /\ (~r.ok /\ r.err = "Cycle") => loop

\* A bundle of bare includes grants exactly what the ids it reaches state, each
\* command under the run-as account of the permission that states it
\* (catalog.rs:3250, a member's narrowing is never widened).
ClosureExact ==
  comp = BlankComp => \A id \in Ids : \A r \in {Resolve(lib, id)}, all \in {Below(id) \cup {id}} :
    r.ok /\ (\A d \in all : Stated(d) /\ \A inc \in Range(Includes(lib, d)) : ~IsBound(inc)) =>
      \A leaves \in {{ResolveLeaf(lib, d).perm : d \in all}} :
        /\ r.perm.sudo = UNION {p.sudo : p \in leaves}
        /\ r.perm.groups = UNION {p.groups : p \in leaves}
        /\ r.perm.files = UnionGrants(UNION {p.files : p \in leaves})

\* A bundle is never rated below a leaf it reaches, deferred or not, and an
\* unlabelled leaf counts as escalation-capable (catalog.rs:2988).
RiskHonest ==
  comp = BlankComp => \A id \in Ids : \A r \in {Resolve(lib, id)} :
    r.ok => \A d \in Below(id) :
      Stated(d) /\ IsLeaf(d) /\ ResolveLeaf(lib, d).perm.risk # "contained" => r.perm.risk = "escalation"

\* Every command and path of the account is raw, or an instance of a template
\* of a permission the role reaches whose own constraints accept each value:
\* a bundle's constraint never stands in for its member's (catalog.rs:3640).
ValuesSanctioned ==
  \A r \in {Account} : r.ok =>
    \A reached \in {UNION {{q.id} \cup Below(q.id) : q \in Range(comp.perms)}} :
      \A texts \in {UNION {Instances(ResolveLeaf(lib, d).perm) : d \in reached}} :
        /\ \A s \in r.acct.sudo : s.value \in comp.sudo \cup texts
        /\ \A g \in r.acct.files : g.path \in {h.path : h \in comp.files} \cup texts

\* What compile shows is what the account gets: it invents no group, no command,
\* no run-as account and no grant wider than the resolved one (compile.rs:61).
\* A group bound to the same slice gets the same grants, raw commands and
\* memberships aside, whose loss is always said (model.rs:955); and no grant of
\* theirs that writes to a root-equivalent path escapes the lint, a raw grant of
\* a role aside, which compile does not look at (lint.rs:169).
RiskyGrants(files) == {g \in files : "write" \in g.access /\ OverlapsAny(RootEquivalent, g.path)}
\* c is what compile shows, a the account, b the groups that the bindings give.
CompileAgrees(c, a) ==
  /\ c.ok
  /\ FlatGroups(c) = a.groups
  /\ FlatSudo(c) \subseteq a.sudo
  /\ {s.value : s \in FlatSudo(c)} = {s.value : s \in a.sudo}
  /\ EffectiveLimits(c) = a.limits
  /\ \A g \in FlatFileGrants(c) : \E h \in a.files :
       g.path = h.path /\ g.access \subseteq h.access /\ (g.recursive => h.recursive)
BindingAgrees(b, staff, a) ==
  /\ staff.sudo \subseteq a.sudo
  /\ a.sudo \ staff.sudo \subseteq {Prim(t, NoRunas) : t \in comp.sudo}
  /\ staff.files = a.files
  /\ a.groups # comp.groups => <<"groups-dropped", "staff">> \in b.warnings
  /\ comp.sudo # {} => <<"inline-dropped", "staff">> \in b.warnings
LintSees(lint, groupLint, c, a) ==
  /\ \A g \in RiskyGrants(a.files) :
       /\ <<"group", "rw-root-equivalent", g.path>> \in groupLint
       /\ <<"role", "rw-root-equivalent", g.path>> \in lint \/ \E h \in comp.files : h.path = g.path
  /\ \A p \in Range(c.perms) : \A x \in lint : x[1] = "orphan-translation" => x[2][2] # p.id
PreviewSound ==
  \A r \in {Account} : r.ok => \A c \in {CompileRole(lib, comp)}, b \in {Bound} :
    /\ b.ok /\ BindingAgrees(b, b.groups["staff"], r.acct)
    /\ CompileAgrees(c, r.acct)
    /\ LintSees(LintRole(c, Texts), GroupRiskFindings(b.groups, <<>>), c, r.acct)

\* The plan diff replays: what is left of the old fragment without the "-" lines
\* is what is left of the new one without the "+" lines, and no shorter list of
\* lines would do (plandiff.rs:228); revoking a path and then granting it anew, as
\* the grant lines say, ends in the new grants (plandiff.rs:328).
Kept(s, I) == LET idx == SetToSortSeq(I, LAMBDA i, j : i < j) IN [k \in DOMAIN idx |-> s[idx[k]]]
CommonParts(a, b) == {Kept(a, I) : I \in SUBSET DOMAIN a} \cap {Kept(b, J) : J \in SUBSET DOMAIN b}
Without(s, gone) == {Kept(s, I) : I \in {J \in SUBSET DOMAIN s : Kept(s, DOMAIN s \ J) = gone}}
Lines(d, sign) == [i \in DOMAIN SelectSeq(d, LAMBDA x : x[1] = sign) |->
                     SelectSeq(d, LAMBDA x : x[1] = sign)[i][2]]
LinesReplay(old, new, d) ==
  \E rest \in Without(old, Lines(d, "-")) \cap Without(new, Lines(d, "+")) :
    \A c \in CommonParts(old, new) : Len(c) <= Len(rest)
GrantsReplay(before, after, delta) ==
  {g \in before : \A x \in delta.revoke : x.path # g.path} \cup delta.setfacl = after
DiffReplays ==
  \A r \in {Account} : r.ok => \A other \in Comps : \A q \in {ResolveAccount(lib, other)} : q.ok =>
    /\ GrantsReplay(q.acct.files, r.acct.files, FileGrantDelta(q.acct.files, r.acct.files))
    /\ \A old \in {SetToSeq(q.acct.sudo)}, new \in {SetToSeq(r.acct.sudo)} :
         LinesReplay(old, new, DiffLines(old, new))

\* The reverse lookup answers as the audit does: a binary is covered exactly when
\* some permission is listed for it, a config under a listed grant is no gap, and
\* a covered one has a listing (coverage.rs:1374, "mirroring the forward coverage
\* match exactly").  A group counts as covered exactly when a permission puts its
\* holder there, or when it is not left out by policy and the lookup has grants
\* for it.
Staff == {Object("Group", Word("staff"), "orphan")}
StrictReport(surface, roles, bound) ==
  CoverageScoped(surface, lib, roles, [strict |-> TRUE, bound |-> bound], TRUE)
Listed(o, kind, sources) == \E m \in WhichGrants(o.key, Last(o.key.atoms), sources) : m.kind = kind
WhichMirrors ==
  ~ReadFails(lib) =>
    /\ \A b \in {Bound} : b.ok => \A r \in {StrictReport(Staff, {}, BoundGroups(b.groups))} :
         r.covered # {} <=>
           \/ StrictReport(Staff, {}, {}).covered # {}
           \/ r.excluded = {} /\ \E s \in BuildGroupGrantSources(b.groups) : s.id = "staff"
    /\ comp = BlankComp =>
         \A r \in {StrictReport(Surface, {}, {})}, sources \in {BuildGrantSources(lib)} : \A o \in Surface :
           /\ o.class = "SudoBin" /\ o \notin r.excluded => (o \in r.covered <=> Listed(o, "sudo", sources))
           /\ o.class = "Config" => /\ o \in r.covered => Listed(o, "file", sources)
                                    /\ Listed(o, "file", sources) => o \notin r.gaps

\* What a slice adds to the strict audit is what an apply of the slice grants:
\* the binary, the group, the unit under either of its names, or a directory
\* grant over the config; and a slice never takes cover away (coverage.rs:515).
RestartsUnit(t, base) ==
  /\ Head(t.atoms) \in Systemctl
  /\ Last(t.atoms) = base \/ \E w \in DOMAIN ServiceName : Last(t.atoms) = w /\ ServiceName[w] = base
GrantedTo(a, o) ==
  CASE o.class = "SudoBin" -> \E s \in a.sudo : Head(s.value.atoms) = Last(o.key.atoms)
    [] o.class = "Group" -> o.key \in a.groups
    [] o.class = "Unit" -> \E s \in a.sudo : RestartsUnit(s.value, Last(o.key.atoms))
    [] o.class = "Config" -> \E g \in a.files : GrantCoversPath(g, o.key) /\ Enforceable(g)
    [] OTHER -> FALSE
CoverageHonest ==
  ~ReadFails(lib) =>
    \A none \in {StrictReport(Surface, {}, {}).covered},
       with \in {StrictReport(Surface, {ResolveRole(lib, comp)}, {}).covered}, r \in {Account} :
      /\ none \subseteq with
      /\ r.ok => \A o \in with \ none : GrantedTo(r.acct, o)

\* "A site dir given on the CLI wins over the defaults (later wins on a
\* permission-id collision)" (main.rs, LiveCatalog, the getting-started guide):
\* where a layer has a file of a higher root for an id, taking the file of the
\* lower root away changes nothing.  The code does not keep it: resolve_leaf
\* takes the first match of a list that begins with the lowest root.
LaterRootWins ==
  \A f, g \in lib :
    f.layer = g.layer /\ f.def.id = g.def.id /\ f.root < g.root /\ ~f.link /\ ~g.link /\ ~ReadFails(lib)
      => ResolveLeaf(lib, f.def.id) = ResolveLeaf(lib \ {f}, f.def.id)
=============================================================================
