------------------------------ MODULE Coverage ------------------------------
(***************************************************************************)
(* The coverage audit and its reverse lookup (coverage.rs): what of the    *)
(* privileged surface of a device the catalog and the roles grant, and     *)
(* which permission grants a given object.                                 *)
(*                                                                         *)
(* An object of the surface is [class, key, prov] with a text for its key; *)
(* a unit name that carries its .service suffix has the mark "service".    *)
(***************************************************************************)
EXTENDS Roles

CONSTANTS ServiceName,          \* the words of a command that end in .service, with their base
          Systemctl,            \* the words that name the systemctl binary
          SystemctlVerbs,
          SecurityRelevant,     \* SECURITY_RELEVANT_CONFIG_PREFIXES
          NonGrantable,         \* NON_GRANTABLE_PARENTS
          ServiceAdmin, CapabilityAdmin,   \* permission ids
          ExcludedBins, ExcludedGroups,    \* last path words and groups left out by policy
          Suggested             \* last path words and groups with a suggested permission

GrantClasses == {"SudoBin", "Config", "Unit", "Group", "CapFile"}
AllClasses == GrantClasses \cup {"Setuid"}
Object(class, key, prov) == [class |-> class, key |-> key, prov |-> prov]

SudoBinary(t) == Head(t.atoms)
StaticBinaryPrefix(t) == {SudoBinary(t)} \ Params

(***************************************************************************)
(* The covered set.                                                        *)
(***************************************************************************)
Unit(base, suffix) == Text(FALSE, <<base>>, IF suffix THEN {"service"} ELSE {})
UnitName(w) == IF w \in DOMAIN ServiceName THEN Unit(ServiceName[w], TRUE) ELSE Unit(w, FALSE)

\* Mutant: the last word of any command counts as a unit.
ServiceRestartUnit_Any(t) ==
  {UnitName(Last(t.atoms))}

\* The unit a systemctl command names, as a set of at most one.
ServiceRestartUnit(t) ==
  LET last == Last(t.atoms)
  IN {u \in {UnitName(last)} :
        SudoBinary(t) \in Systemctl /\ Len(t.atoms) > 1 /\ last \notin SystemctlVerbs}
FoldUnitForms(u) == {[u EXCEPT !.marks = {}], [u EXCEPT !.marks = {"service"}]}

\* The permissions the catalog states, with what each resolves to.
StatedIds(L) == {id \in Ids : Stating(L, id) # <<>>}
ResolveCatalog(L) == {[id |-> id, r |-> Resolve(L, id)] : id \in StatedIds(L)}

\* resolve_roles: a permission that does not resolve is left out of its role.
RoleOf(comp, ok) ==
  [sudo |-> UNION {{s.value : s \in r.perm.sudo} : r \in ok},
   groups |-> comp.groups \cup UNION {{g.value : g \in r.perm.groups} : r \in ok},
   files |-> UNION {r.perm.files : r \in ok}]
ResolveRole(L, comp) == RoleOf(comp, {r \in Range(Resolutions(L, comp)) : r.ok})

\* The covered set over the permissions that resolve, their texts, and the
\* commands of the roles.
CoveredSet(perms, texts, commands, roles, ctx, unresolved) ==
  [sudo_binaries |-> {SudoBinary(t) : t \in {u \in texts : ~HasPlaceholder(u)} \cup commands}
                     \cup (IF ctx.strict THEN {} ELSE UNION {StaticBinaryPrefix(t) : t \in texts}),
   groups |-> (UNION {{g.value : g \in p.groups} : p \in perms})
             \cup (UNION {r.groups : r \in roles}) \cup ctx.bound,
   units |-> UNION {FoldUnitForms(u) : u \in UNION {ServiceRestartUnit(t) : t \in commands}},
   files |-> UnionGrants({g \in UNION {p.files : p \in perms} : ~HasPlaceholder(g.path)}
                         \cup UNION {r.files : r \in roles}),
   service_admin |-> \E p \in perms : p.id = ServiceAdmin,
   capability_admin |-> \E p \in perms : p.id = CapabilityAdmin,
   warnings |-> unresolved]
CoverPerms(perms, roles, ctx, unresolved) ==
  CoveredSet(perms, UNION {{s.value : s \in p.sudo} : p \in perms}, UNION {r.sudo : r \in roles},
             roles, ctx, unresolved)
CoverResolved(R, roles, ctx) ==
  CoverPerms({x.r.perm : x \in {y \in R : y.r.ok}}, roles, ctx, {x.id : x \in {y \in R : ~y.r.ok}})
BuildCoveredSet(L, roles, ctx) == CoverResolved(ResolveCatalog(L), roles, ctx)

(***************************************************************************)
(* The verdict on an object.                                               *)
(***************************************************************************)
GrantCoversPath(g, path) == g.path = path \/ (g.recursive /\ PathAtOrUnder(g.path, path))

IsSecurityRelevant(path) == \E p \in SecurityRelevant : PathAtOrUnder(p, path)
ConfigInScope(path, files) == IsSecurityRelevant(path) \/ \E g \in files : GrantCoversPath(g, path)

\* (push_unique_grant makes a repeated recursive pattern a Dir; no object of a
\* surface lies at or under a path with a glob in it, so no verdict depends on it.)
Enforceable(g) == Shape(g) = "dir"
\* config_grant_cover: "acl" when some covering grant has a directory for its
\* unit, "paper" when every covering grant needs a backend that is not there.
ConfigGrantCover(path, files) ==
  LET covers == {g \in files : GrantCoversPath(g, path)}
  IN IF \E g \in covers : Enforceable(g) THEN "acl" ELSE IF covers # {} THEN "paper" ELSE "none"

ParentDir(path) == [path EXCEPT !.atoms = Front(@), !.slash = FALSE]
BackendLimited(path) == ParentDir(path) \in NonGrantable

UnitCovered(u, units) == FoldUnitForms(u) \cap units # {} \/ u \in units

ObjectCovered(o, c) ==
  \/ o.class = "SudoBin" /\ Last(o.key.atoms) \in c.sudo_binaries
  \/ o.class = "Group" /\ o.key \in c.groups
  \/ o.class = "Unit" /\ (c.service_admin \/ UnitCovered(o.key, c.units))
  \/ o.class = "CapFile" /\ c.capability_admin

IntentionalExclusion(o) ==
  \/ o.class \in {"SudoBin", "Setuid"} /\ Last(o.key.atoms) \in ExcludedBins
  \/ o.class = "Group" /\ o.key \in ExcludedGroups

SuggestPermission(o) ==
  CASE o.class = "Config" -> {<<"file grant on", ParentDir(o.key)>>}
    [] o.class = "CapFile" -> {CapabilityAdmin}
    [] o.class \in {"SudoBin", "Group"} -> {Suggested[w] : w \in DOMAIN Suggested \cap {Last(o.key.atoms)}}
    [] OTHER -> {}

\* Which bucket of the report an object falls into.
ConfigVerdict(o, cover, inScope) ==
  CASE ~inScope -> "dropped"
    [] inScope /\ cover = "acl" -> "covered"
    [] inScope /\ (cover = "paper" \/ (cover = "none" /\ BackendLimited(o.key))) -> "limited"
    [] OTHER -> "gap"
Verdict(o, c, lowPriority) ==
  CASE o.class = "Setuid" -> "inventory"
    [] o.class = "Config" -> ConfigVerdict(o, ConfigGrantCover(o.key, c.files),
                                           lowPriority \/ ConfigInScope(o.key, c.files))
    [] OTHER -> IF IntentionalExclusion(o) THEN "excluded"
                ELSE IF ObjectCovered(o, c) THEN "covered" ELSE "gap"

\* run_coverage: the groups of the declaration that a binding grants something.
BoundGroups(groups) == {Word(n) : n \in {m \in DOMAIN groups : groups[m].sudo # {} \/ groups[m].files # {}}}

\* coverage_scoped over a covered set c; v[o] is the verdict on o.
Buckets(surface, v, c) ==
  [covered |-> {o \in surface : v[o] = "covered"}, gaps |-> {o \in surface : v[o] = "gap"},
   limited |-> {o \in surface : v[o] = "limited"}, excluded |-> {o \in surface : v[o] = "excluded"},
   inventory |-> {o \in surface : v[o] = "inventory"},
   anomalies |-> {o \in surface : o.class \in {"Setuid", "CapFile"} /\ o.prov = "orphan"},
   suggested |-> [o \in {p \in surface : v[p] = "gap"} |-> SuggestPermission(o)],
   catalog_warnings |-> c.warnings]
ReportOn(surface, c, lowPriority) ==
  Buckets(surface, [o \in surface |-> Verdict(o, c, lowPriority)], c)
CoverageScoped(surface, L, roles, ctx, lowPriority) ==
  ReportOn(surface, BuildCoveredSet(L, roles, ctx), lowPriority)

\* Nothing to cover counts as fully covered; the threshold is a whole percentage.
WeightedBelow(report, min) ==
  LET covered == Cardinality(report.covered)
      total == covered + Cardinality(report.gaps)
  IN IF total = 0 THEN 100 < min ELSE covered * 100 < min * total

\* coverage_exit_code: without --min-coverage nothing is gated.
NoMinimum == 101
CoverageExit(report, min, degraded) ==
  IF min # NoMinimum /\ (degraded \/ WeightedBelow(report, min)) THEN "gate" ELSE "success"

(***************************************************************************)
(* The reverse lookup.                                                     *)
(***************************************************************************)
Source(id, target, risk, sudo, files) ==
  [id |-> id, target |-> target, risk |-> risk, sudo |-> sudo, files |-> files]

SourceOf(p) == Source(p.id, "account", p.risk, {s.value : s \in p.sudo}, p.files)

\* Mutant: a template is listed as if it were a command.
Concrete_Templates(s) == s

\* The texts that are no templates.
Concrete(s) ==
  [s EXCEPT !.sudo = {t \in @ : ~HasPlaceholder(t)}, !.files = {g \in @ : ~HasPlaceholder(g.path)}]

Granting(sources) == {s \in sources : s.sudo # {} \/ s.files # {}}
BuildGrantSources(L) ==
  Granting({Concrete(SourceOf(x.r.perm)) : x \in {y \in ResolveCatalog(L) : y.r.ok}})

BuildGroupGrantSources(groups) ==
  Granting({Source(n, "group", "none", {p.value : p \in groups[n].sudo}, groups[n].files) : n \in DOMAIN groups})

Match(s, kind, detail) == [permission |-> s.id, target |-> s.target, kind |-> kind, detail |-> detail, risk |-> s.risk]

WhichGrants(arg, bin, sources) ==
  UNION {{Match(s, "sudo", t) : t \in {c \in s.sudo : SudoBinary(c) = bin}}
         \cup {Match(s, "file", g) : g \in {h \in s.files : GrantCoversPath(h, arg)}} : s \in sources}
=============================================================================
