--------------------------- MODULE LibraryProofs ---------------------------
(***************************************************************************)
(* What the catalog's resolver and the commands that only look promise,    *)
(* for every catalog, every slice and every device.                        *)
(***************************************************************************)
EXTENDS Library, SequenceLemmas, FiniteSetTheorems

-----------------------------------------------------------------------------
(* Grants on one path become one.                                          *)

Merged(S, p) ==
  [path |-> p, access |-> UNION {g.access : g \in {h \in S : h.path = p}},
   recursive |-> \E g \in S : g.path = p /\ g.recursive]

LEMMA UnionIsMerged ==
  ASSUME NEW S
  PROVE  UnionGrants(S) = {Merged(S, p) : p \in {g.path : g \in S}}
BY DEF UnionGrants, Merged

LEMMA MergedFrom ==
  ASSUME NEW S, NEW g \in UnionGrants(S)
  PROVE  /\ \E h \in S : h.path = g.path
         /\ g.access = UNION {h.access : h \in {x \in S : x.path = g.path}}
         /\ g.recursive \in BOOLEAN
         /\ g.recursive <=> \E h \in S : h.path = g.path /\ h.recursive
         /\ g = Merged(S, g.path)
<1>1. PICK p \in {h.path : h \in S} : g = Merged(S, p)
  BY UnionIsMerged
<1>2. g.path = p
  BY <1>1 DEF Merged
<1>3. g.access = UNION {h.access : h \in {x \in S : x.path = p}}
  BY <1>1 DEF Merged
<1>4. g.recursive = \E h \in S : h.path = p /\ h.recursive
  BY <1>1 DEF Merged
<1> QED
  BY <1>1, <1>2, <1>3, <1>4

LEMMA MergedInto ==
  ASSUME NEW S, NEW h \in S
  PROVE  /\ Merged(S, h.path) \in UnionGrants(S)
         /\ Merged(S, h.path).path = h.path
         /\ h.access \subseteq Merged(S, h.path).access
         /\ h.recursive => Merged(S, h.path).recursive
<1>1. Merged(S, h.path) \in UnionGrants(S)
  BY UnionIsMerged
<1>2. Merged(S, h.path).path = h.path
  BY DEF Merged
<1>3. h.access \subseteq Merged(S, h.path).access
  <2>1. Merged(S, h.path).access = UNION {g.access : g \in {x \in S : x.path = h.path}}
    BY DEF Merged
  <2> QED
    BY <2>1
<1>4. h.recursive => Merged(S, h.path).recursive
  BY DEF Merged
<1> QED
  BY <1>1, <1>2, <1>3, <1>4

LEMMA MergeOnce ==
  ASSUME NEW S
  PROVE  UnionGrants(UnionGrants(S) \cup S) = UnionGrants(S)
<1> DEFINE T == UnionGrants(S) \cup S
<1>1. {g.path : g \in T} = {g.path : g \in S}
  BY MergedFrom
<1>2. ASSUME NEW p PROVE Merged(T, p) = Merged(S, p)
  <2>1. UNION {g.access : g \in {h \in T : h.path = p}} = UNION {g.access : g \in {h \in S : h.path = p}}
    <3>1. ASSUME NEW b, b \in UNION {g.access : g \in {h \in T : h.path = p}}
          PROVE  b \in UNION {g.access : g \in {h \in S : h.path = p}}
      BY <3>1, MergedFrom
    <3> QED
      BY <3>1
  <2>2. (\E g \in T : g.path = p /\ g.recursive) = (\E g \in S : g.path = p /\ g.recursive)
    BY MergedFrom
  <2> QED
    BY <2>1, <2>2 DEF Merged
<1> HIDE DEF T
<1>3. UnionGrants(T) = {Merged(T, p) : p \in {g.path : g \in T}}
  BY UnionIsMerged
<1>4. UnionGrants(T) = UnionGrants(S)
  BY <1>1, <1>2, <1>3, UnionIsMerged
<1> QED
  BY <1>4 DEF T

-----------------------------------------------------------------------------
(* The strict audit: what a report calls covered.                          *)

Grants(L) == {x.r.perm : x \in {y \in ResolveCatalog(L) : y.r.ok}}
Unresolved(L) == {x.id : x \in {y \in ResolveCatalog(L) : ~y.r.ok}}
Strict(bound) == [strict |-> TRUE, bound |-> bound]
Covering(roles, bound) == BuildCoveredSet(lib, roles, Strict(bound))

CatalogTexts == UNION {{s.value : s \in p.sudo} : p \in Grants(lib)}
CatalogGroups == UNION {{g.value : g \in p.groups} : p \in Grants(lib)}
FinishedFiles(perms) == {g \in UNION {p.files : p \in perms} : ~HasPlaceholder(g.path)}
CatalogFiles == FinishedFiles(Grants(lib))

LEMMA CoveringFields ==
  ASSUME NEW roles, NEW bound
  PROVE  LET c == Covering(roles, bound)
             commands == UNION {r.sudo : r \in roles}
         IN /\ c.sudo_binaries =
                 {SudoBinary(t) : t \in {u \in CatalogTexts : ~HasPlaceholder(u)} \cup commands}
            /\ c.groups = CatalogGroups \cup (UNION {r.groups : r \in roles}) \cup bound
            /\ c.units = UNION {FoldUnitForms(u) : u \in UNION {ServiceRestartUnit(t) : t \in commands}}
            /\ c.files = UnionGrants(CatalogFiles \cup UNION {r.files : r \in roles})
            /\ c.service_admin = (\E p \in Grants(lib) : p.id = ServiceAdmin)
            /\ c.capability_admin = (\E p \in Grants(lib) : p.id = CapabilityAdmin)
<1> DEFINE commands == UNION {r.sudo : r \in roles}
<1> DEFINE perms == Grants(lib)
<1>1. Covering(roles, bound) = CoveredSet(perms, CatalogTexts, commands, roles, Strict(bound), Unresolved(lib))
  BY DEF Covering, BuildCoveredSet, CoverResolved, CoverPerms, CatalogTexts, Grants, Unresolved
<1>2. Strict(bound).strict = TRUE /\ Strict(bound).bound = bound
  BY DEF Strict
<1> HIDE DEF commands, perms
<1>3. /\ Covering(roles, bound).sudo_binaries =
           {SudoBinary(t) : t \in {u \in CatalogTexts : ~HasPlaceholder(u)} \cup commands}
      /\ Covering(roles, bound).units =
           UNION {FoldUnitForms(u) : u \in UNION {ServiceRestartUnit(t) : t \in commands}}
  BY <1>1, <1>2 DEF CoveredSet
<1>4. Covering(roles, bound).groups =
        (UNION {{g.value : g \in p.groups} : p \in perms}) \cup (UNION {r.groups : r \in roles}) \cup bound
  BY <1>1, <1>2 DEF CoveredSet
<1>5. Covering(roles, bound).files =
        UnionGrants(FinishedFiles(perms) \cup UNION {r.files : r \in roles})
  BY <1>1 DEF CoveredSet, FinishedFiles
<1>6. /\ Covering(roles, bound).service_admin = (\E p \in perms : p.id = ServiceAdmin)
      /\ Covering(roles, bound).capability_admin = (\E p \in perms : p.id = CapabilityAdmin)
  BY <1>1 DEF CoveredSet
<1>0. perms = Grants(lib)
  BY DEF perms
<1>7. CatalogGroups = UNION {{g.value : g \in p.groups} : p \in perms}
  BY <1>0 DEF CatalogGroups
<1>11. CatalogFiles = FinishedFiles(perms)
  BY <1>0 DEF CatalogFiles
<1>8. Covering(roles, bound).groups = CatalogGroups \cup (UNION {r.groups : r \in roles}) \cup bound
  BY <1>4, <1>7
<1>9. Covering(roles, bound).files = UnionGrants(CatalogFiles \cup UNION {r.files : r \in roles})
  BY <1>5, <1>11
<1> QED
  BY <1>3, <1>6, <1>8, <1>9, <1>0 DEF commands

\* A directory grant lies over the path.
DirOver(files, path) == \E g \in files : GrantCoversPath(g, path) /\ Enforceable(g)

LEMMA VerdictCovered ==
  ASSUME NEW o, NEW c
  PROVE  Verdict(o, c, TRUE) = "covered" <=>
           /\ o.class # "Setuid"
           /\ o.class = "Config" => DirOver(c.files, o.key)
           /\ o.class # "Config" => ~IntentionalExclusion(o) /\ ObjectCovered(o, c)
<1>1. CASE o.class = "Setuid"
  BY <1>1 DEF Verdict
<1>2. CASE o.class = "Config"
  <2>1. Verdict(o, c, TRUE) = ConfigVerdict(o, ConfigGrantCover(o.key, c.files), TRUE)
    BY <1>2 DEF Verdict
  <2>2. ConfigGrantCover(o.key, c.files) = "acl" <=> DirOver(c.files, o.key)
    BY DEF ConfigGrantCover, DirOver
  <2>3. ASSUME NEW cover PROVE ConfigVerdict(o, cover, TRUE) = "covered" <=> cover = "acl"
    BY DEF ConfigVerdict
  <2> QED
    BY <1>2, <2>1, <2>2, <2>3
<1>3. CASE o.class # "Setuid" /\ o.class # "Config"
  BY <1>3 DEF Verdict
<1> QED
  BY <1>1, <1>2, <1>3

CoveredBy(S, roles, bound) == {o \in S : Verdict(o, Covering(roles, bound), TRUE) = "covered"}

LEMMA ReportCovered ==
  ASSUME NEW S, NEW roles, NEW bound
  PROVE  StrictReport(S, roles, bound).covered = CoveredBy(S, roles, bound)
BY DEF CoveredBy, StrictReport, CoverageScoped, ReportOn, Buckets, Covering, Strict

\* A directory grant stays one when another grant on the path joins it.
LEMMA WiderGrant ==
  ASSUME NEW g, NEW h, g.path = h.path, g.recursive => h.recursive
  PROVE  /\ \A path : GrantCoversPath(g, path) => GrantCoversPath(h, path)
         /\ Enforceable(g) => Enforceable(h)
<1>1. ASSUME NEW path, GrantCoversPath(g, path) PROVE GrantCoversPath(h, path)
  BY <1>1 DEF GrantCoversPath
<1>2. ASSUME Enforceable(g) PROVE Enforceable(h)
  BY <1>2 DEF Enforceable, Shape
<1> QED
  BY <1>1, <1>2

LEMMA DirOverMonotone ==
  ASSUME NEW S, NEW T, S \subseteq T, NEW path, DirOver(UnionGrants(S), path)
  PROVE  DirOver(UnionGrants(T), path)
<1>1. PICK g \in UnionGrants(S) : GrantCoversPath(g, path) /\ Enforceable(g)
  BY DEF DirOver
<1>2. PICK x \in S : x.path = g.path
  BY <1>1, MergedFrom
<1> DEFINE h == Merged(T, g.path)
<1>3. x \in T
  BY <1>2
<1>4. h \in UnionGrants(T) /\ h.path = g.path
  BY <1>2, <1>3, MergedInto
<1>5. g.recursive => h.recursive
  <2>1. SUFFICES ASSUME g.recursive PROVE h.recursive
    OBVIOUS
  <2>2. PICK y \in S : y.path = g.path /\ y.recursive
    BY <2>1, MergedFrom
  <2> QED
    BY <2>2, MergedInto
<1> QED
  BY <1>1, <1>4, <1>5, WiderGrant DEF DirOver

\* A directory grant over the path among two sets of grants lies in one of them.
LEMMA DirOverSplit ==
  ASSUME NEW S, NEW T, NEW path, DirOver(UnionGrants(S \cup T), path)
  PROVE  DirOver(UnionGrants(S), path) \/ DirOver(UnionGrants(T), path)
<1>1. PICK g \in UnionGrants(S \cup T) : GrantCoversPath(g, path) /\ Enforceable(g)
  BY DEF DirOver
<1>2. PICK x \in S \cup T : x.path = g.path /\ (g.recursive => x.recursive)
  <2>1. CASE g.recursive
    BY <2>1, MergedFrom
  <2>2. CASE ~g.recursive
    BY <2>2, MergedFrom
  <2> QED
    BY <2>1, <2>2
<1>3. ASSUME NEW U, x \in U PROVE DirOver(UnionGrants(U), path)
  <2>1. /\ Merged(U, x.path) \in UnionGrants(U) /\ Merged(U, x.path).path = g.path
        /\ g.recursive => Merged(U, x.path).recursive
    BY <1>2, <1>3, MergedInto
  <2> QED
    BY <1>1, <2>1, WiderGrant DEF DirOver
<1> QED
  BY <1>2, <1>3

-----------------------------------------------------------------------------
(* From permissions to an account.                                         *)

ExpandedPerms(L, c) == Expanded(L, c).perms

LEMMA ExpandedOk ==
  ASSUME NEW L, NEW c, Expanded(L, c).ok
  PROVE  /\ DOMAIN Expanded(L, c).perms = DOMAIN c.perms
         /\ \A i \in DOMAIN c.perms :
              /\ Resolutions(L, c)[i].ok
              /\ Expanded(L, c).perms[i] = Resolutions(L, c)[i].perm
<1> DEFINE ex == Resolutions(L, c)
<1>1. DOMAIN ex = DOMAIN c.perms
  BY DEF Resolutions
<1> HIDE DEF ex
<1>2. Expanded(L, c) = AllOrError(ex)
  BY DEF Expanded, ex
<1>3. ~AnyFails(ex)
  BY <1>2 DEF AllOrError, Fail
<1>4. Expanded(L, c).perms = [i \in DOMAIN ex |-> ex[i].perm]
  BY <1>2, <1>3 DEF AllOrError
<1> QED
  BY <1>1, <1>3, <1>4 DEF AnyFails, ex

AccountIs(a, c, perms) ==
  /\ a.groups = c.groups \cup UNION {{g.value : g \in p.groups} : p \in perms}
  /\ a.sudo = {Prim(t, NoRunas) : t \in c.sudo} \cup UNION {p.sudo : p \in perms}
  /\ a.files = UnionGrants(c.files \cup UNION {p.files : p \in perms})

LEMMA AccountOk ==
  ASSUME NEW L, NEW c, ResolveAccount(L, c).ok
  PROVE  /\ Expanded(L, c).ok
         /\ \A t \in c.sudo : ~InlineSudoDefect(t)
         /\ \A g \in c.files : ~RawGrantDefect(g)
         /\ AccountIs(ResolveAccount(L, c).acct, c, Range(Expanded(L, c).perms))
         /\ ResolveAccount(L, c).acct.limits =
              IF c.limits # NoLimits THEN c.limits ELSE MergeLimits(NoLimits, Expanded(L, c).perms)
<1>1. ASSUME NEW e PROVE ~Fail(e).ok
  BY DEF Fail
<1>2. \A t \in c.sudo : ~InlineSudoDefect(t)
  BY <1>1 DEF ResolveAccount
<1>3. \A g \in c.files : ~RawGrantDefect(g)
  BY <1>1, <1>2 DEF ResolveAccount
<1> DEFINE ex == Expanded(L, c)
<1>4. ResolveAccount(L, c) = AccountOf(c, ex)
  BY <1>2, <1>3 DEF ResolveAccount
<1> HIDE DEF ex
<1>5. ex.ok
  BY <1>4 DEF AccountOf
<1>6. ResolveAccount(L, c).acct =
        [groups |-> c.groups \cup UNION {{g.value : g \in p.groups} : p \in Range(ex.perms)},
         sudo |-> {Prim(t, NoRunas) : t \in c.sudo} \cup UNION {p.sudo : p \in Range(ex.perms)},
         sudo_role |-> c.sudo_role,
         limits |-> IF c.limits # NoLimits THEN c.limits ELSE MergeLimits(NoLimits, ex.perms),
         files |-> UnionGrants(c.files \cup UNION {p.files : p \in Range(ex.perms)})]
  BY <1>4, <1>5 DEF AccountOf
<1>7. AccountIs(ResolveAccount(L, c).acct, c, Range(ex.perms))
  BY <1>6 DEF AccountIs
<1>8. ResolveAccount(L, c).acct.limits =
        IF c.limits # NoLimits THEN c.limits ELSE MergeLimits(NoLimits, ex.perms)
  BY <1>6
<1> QED
  BY <1>2, <1>3, <1>5, <1>7, <1>8 DEF ex

\* When every permission resolves, the audit sees the same ones as apply.
LEMMA RoleSeesAll ==
  ASSUME NEW L, NEW c, Expanded(L, c).ok
  PROVE  ResolveRole(L, c) =
           [sudo |-> UNION {{s.value : s \in p.sudo} : p \in Range(Expanded(L, c).perms)},
            groups |-> c.groups \cup UNION {{g.value : g \in p.groups} : p \in Range(Expanded(L, c).perms)},
            files |-> UNION {p.files : p \in Range(Expanded(L, c).perms)}]
<1> DEFINE ok == {r \in Range(Resolutions(L, c)) : r.ok}
<1> DEFINE perms == Range(Expanded(L, c).perms)
<1>1. DOMAIN Resolutions(L, c) = DOMAIN c.perms
  BY DEF Resolutions
<1>2. perms = {r.perm : r \in ok}
  BY <1>1, ExpandedOk DEF Range
<1> HIDE DEF ok, perms
<1>3. UNION {{s.value : s \in r.perm.sudo} : r \in ok} = UNION {{s.value : s \in p.sudo} : p \in perms}
  BY <1>2
<1>4. UNION {{g.value : g \in r.perm.groups} : r \in ok} = UNION {{g.value : g \in p.groups} : p \in perms}
  BY <1>2
<1>5. UNION {r.perm.files : r \in ok} = UNION {p.files : p \in perms}
  BY <1>2
<1>6. ResolveRole(L, c) = RoleOf(c, ok)
  BY DEF ResolveRole, ok
<1>7. ResolveRole(L, c) = [sudo |-> UNION {{s.value : s \in p.sudo} : p \in perms},
                          groups |-> c.groups \cup UNION {{g.value : g \in p.groups} : p \in perms},
                          files |-> UNION {p.files : p \in perms}]
  BY <1>3, <1>4, <1>5, <1>6 DEF RoleOf
<1> QED
  BY <1>7 DEF perms

-----------------------------------------------------------------------------
(* What a slice adds to the audit.                                         *)

\* A role adds to the covered set and takes nothing away.
LEMMA RoleAdds ==
  ASSUME NEW role, NEW o, Verdict(o, Covering({}, {}), TRUE) = "covered"
  PROVE  Verdict(o, Covering({role}, {}), TRUE) = "covered"
<1> DEFINE c == Covering({}, {})
<1> DEFINE d == Covering({role}, {})
<1>1. c.sudo_binaries \subseteq d.sudo_binaries
  <2>1. c.sudo_binaries = {SudoBinary(t) : t \in {u \in CatalogTexts : ~HasPlaceholder(u)} \cup UNION {r.sudo : r \in {}}}
    BY CoveringFields
  <2>2. d.sudo_binaries = {SudoBinary(t) : t \in {u \in CatalogTexts : ~HasPlaceholder(u)} \cup UNION {r.sudo : r \in {role}}}
    BY CoveringFields
  <2> QED
    BY <2>1, <2>2
<1>2. c.groups \subseteq d.groups
  <2>1. c.groups = CatalogGroups \cup (UNION {r.groups : r \in {}}) \cup {}
    BY CoveringFields
  <2>2. d.groups = CatalogGroups \cup (UNION {r.groups : r \in {role}}) \cup {}
    BY CoveringFields
  <2> QED
    BY <2>1, <2>2
<1>3. c.units = {}
  <2>1. c.units = UNION {FoldUnitForms(u) : u \in UNION {ServiceRestartUnit(t) : t \in UNION {r.sudo : r \in {}}}}
    BY CoveringFields
  <2> QED
    BY <2>1
<1>4. \A path : DirOver(c.files, path) => DirOver(d.files, path)
  <2>1. c.files = UnionGrants(CatalogFiles \cup UNION {r.files : r \in {}})
    BY CoveringFields
  <2>2. d.files = UnionGrants(CatalogFiles \cup UNION {r.files : r \in {role}})
    BY CoveringFields
  <2>3. CatalogFiles \cup UNION {r.files : r \in {}} \subseteq CatalogFiles \cup UNION {r.files : r \in {role}}
    OBVIOUS
  <2> QED
    BY <2>1, <2>2, <2>3, DirOverMonotone
<1>5. c.service_admin = d.service_admin /\ c.capability_admin = d.capability_admin
  BY CoveringFields
<1> HIDE DEF c, d
<1>6. ObjectCovered(o, c) => ObjectCovered(o, d)
  BY <1>1, <1>2, <1>3, <1>5 DEF ObjectCovered, UnitCovered
<1>7. Verdict(o, c, TRUE) = "covered"
  BY DEF c
<1>8. Verdict(o, d, TRUE) = "covered"
  BY <1>4, <1>6, <1>7, VerdictCovered
<1> QED
  BY <1>8 DEF d

\* Folding the forms of a unit's name keeps its base.
LEMMA UnitBase ==
  ASSUME NEW key, IsText(key), NEW base, NEW suffix \in BOOLEAN, NEW w,
         w \in FoldUnitForms(key) \cup {key}, w \in FoldUnitForms(Unit(base, suffix))
  PROVE  Last(key.atoms) = base
<1>1. \A u \in FoldUnitForms(Unit(base, suffix)) : u.atoms = <<base>>
  BY DEF FoldUnitForms, Unit, Text
<1>2. \A u \in FoldUnitForms(key) : u.atoms = key.atoms
  BY DEF FoldUnitForms, IsText
<1>3. key.atoms = <<base>>
  BY <1>1, <1>2
<1> QED
  BY <1>3 DEF Last

\* What a role adds to the covered set, an account of the role is granted.
LEMMA RoleGrants ==
  ASSUME NEW role, NEW a, NEW o, IsText(o.key),
         \A t \in role.sudo : \E s \in a.sudo : s.value = t,
         role.groups \subseteq a.groups,
         \A path : DirOver(UnionGrants(role.files), path) => DirOver(a.files, path),
         Verdict(o, Covering({role}, {}), TRUE) = "covered",
         Verdict(o, Covering({}, {}), TRUE) # "covered"
  PROVE  GrantedTo(a, o)
<1> DEFINE c == Covering({}, {})
<1> DEFINE d == Covering({role}, {})
<1>1. \A b \in d.sudo_binaries : b \in c.sudo_binaries \/ \E t \in role.sudo : b = SudoBinary(t)
  <2>1. c.sudo_binaries = {SudoBinary(t) : t \in {u \in CatalogTexts : ~HasPlaceholder(u)} \cup UNION {r.sudo : r \in {}}}
    BY CoveringFields
  <2>2. d.sudo_binaries = {SudoBinary(t) : t \in {u \in CatalogTexts : ~HasPlaceholder(u)} \cup UNION {r.sudo : r \in {role}}}
    BY CoveringFields
  <2> HIDE DEF c, d
  <2>3. SUFFICES ASSUME NEW b \in d.sudo_binaries PROVE b \in c.sudo_binaries \/ \E t \in role.sudo : b = SudoBinary(t)
    OBVIOUS
  <2>4. PICK t \in {u \in CatalogTexts : ~HasPlaceholder(u)} \cup UNION {r.sudo : r \in {role}} : b = SudoBinary(t)
    BY <2>2
  <2>5. t \in {u \in CatalogTexts : ~HasPlaceholder(u)} \/ t \in role.sudo
    OBVIOUS
  <2> QED
    BY <2>1, <2>4, <2>5
<1>2. d.groups = c.groups \cup role.groups
  <2>1. c.groups = CatalogGroups \cup (UNION {r.groups : r \in {}}) \cup {}
    BY CoveringFields
  <2>2. d.groups = CatalogGroups \cup (UNION {r.groups : r \in {role}}) \cup {}
    BY CoveringFields
  <2> QED
    BY <2>1, <2>2
<1>3. d.units = UNION {FoldUnitForms(u) : u \in UNION {ServiceRestartUnit(t) : t \in role.sudo}}
  <2>1. d.units = UNION {FoldUnitForms(u) : u \in UNION {ServiceRestartUnit(t) : t \in UNION {r.sudo : r \in {role}}}}
    BY CoveringFields
  <2>2. UNION {r.sudo : r \in {role}} = role.sudo
    OBVIOUS
  <2> QED
    BY <2>1, <2>2
<1>4. \A path : DirOver(d.files, path) => DirOver(c.files, path) \/ DirOver(UnionGrants(role.files), path)
  <2>1. c.files = UnionGrants(CatalogFiles \cup UNION {r.files : r \in {}})
    BY CoveringFields
  <2>2. d.files = UnionGrants(CatalogFiles \cup UNION {r.files : r \in {role}})
    BY CoveringFields
  <2>3. CatalogFiles \cup UNION {r.files : r \in {}} = CatalogFiles
    OBVIOUS
  <2>4. UNION {r.files : r \in {role}} = role.files
    OBVIOUS
  <2> QED
    BY <2>1, <2>2, <2>3, <2>4, DirOverSplit
<1>5. c.service_admin = d.service_admin /\ c.capability_admin = d.capability_admin
  <2>1. /\ c.service_admin = (\E p \in Grants(lib) : p.id = ServiceAdmin)
        /\ c.capability_admin = (\E p \in Grants(lib) : p.id = CapabilityAdmin)
    BY CoveringFields
  <2>2. /\ d.service_admin = (\E p \in Grants(lib) : p.id = ServiceAdmin)
        /\ d.capability_admin = (\E p \in Grants(lib) : p.id = CapabilityAdmin)
    BY CoveringFields
  <2> QED
    BY <2>1, <2>2
<1>6. /\ o.class # "Setuid"
      /\ o.class = "Config" => DirOver(d.files, o.key)
      /\ o.class # "Config" => ~IntentionalExclusion(o) /\ ObjectCovered(o, d)
  BY VerdictCovered
<1>7. \/ o.class = "Config" /\ ~DirOver(c.files, o.key)
      \/ o.class # "Config" /\ ~ObjectCovered(o, c)
  BY <1>6, VerdictCovered
<1> HIDE DEF c, d
<1>8. CASE o.class = "Config"
  <2>1. DirOver(a.files, o.key)
    BY <1>4, <1>6, <1>7, <1>8
  <2> QED
    BY <1>8, <2>1 DEF GrantedTo, DirOver
<1>9. CASE o.class # "Config"
  <2>1. ObjectCovered(o, d) /\ ~ObjectCovered(o, c)
    BY <1>6, <1>7, <1>9
  <2>2. CASE o.class = "SudoBin"
    <3>1. PICK t \in role.sudo : Last(o.key.atoms) = SudoBinary(t)
      BY <1>1, <2>1, <2>2 DEF ObjectCovered
    <3> QED
      BY <2>2, <3>1 DEF GrantedTo, SudoBinary
  <2>3. CASE o.class = "Group"
    BY <1>2, <2>1, <2>3 DEF ObjectCovered, GrantedTo
  <2>4. CASE o.class = "Unit"
    <3>1. UnitCovered(o.key, d.units)
      BY <1>5, <2>1, <2>4 DEF ObjectCovered
    <3>2. PICK w \in d.units : w \in FoldUnitForms(o.key) \cup {o.key}
      BY <3>1 DEF UnitCovered
    <3>7. PICK t \in role.sudo : \E u \in ServiceRestartUnit(t) : w \in FoldUnitForms(u)
      BY <1>3, <3>2
    <3>3. PICK u \in ServiceRestartUnit(t) : w \in FoldUnitForms(u)
      BY <3>7
    <3>4. SudoBinary(t) \in Systemctl /\ u = UnitName(Last(t.atoms))
      BY <3>3 DEF ServiceRestartUnit
    <3>5. RestartsUnit(t, Last(o.key.atoms))
      <4>1. CASE Last(t.atoms) \in DOMAIN ServiceName
        <5>1. u = Unit(ServiceName[Last(t.atoms)], TRUE)
          BY <3>4, <4>1 DEF UnitName
        <5>2. Last(o.key.atoms) = ServiceName[Last(t.atoms)]
          BY <3>2, <3>3, <5>1, UnitBase
        <5> QED
          BY <3>4, <4>1, <5>2 DEF RestartsUnit, SudoBinary
      <4>2. CASE Last(t.atoms) \notin DOMAIN ServiceName
        <5>1. u = Unit(Last(t.atoms), FALSE)
          BY <3>4, <4>2 DEF UnitName
        <5>2. Last(o.key.atoms) = Last(t.atoms)
          BY <3>2, <3>3, <5>1, UnitBase
        <5> QED
          BY <3>4, <5>2 DEF RestartsUnit, SudoBinary
      <4> QED
        BY <4>1, <4>2
    <3>6. PICK s \in a.sudo : s.value = t
      BY <3>3
    <3> QED
      BY <2>4, <3>5, <3>6 DEF GrantedTo
  <2> QED
    BY <1>5, <2>1, <2>2, <2>3, <2>4 DEF ObjectCovered
<1> QED
  BY <1>8, <1>9

LEMMA HonestAlways ==
  CoverageHonest
<1> DEFINE role == ResolveRole(lib, comp)
<1> DEFINE none == StrictReport(Surface, {}, {}).covered
<1> DEFINE with == StrictReport(Surface, {role}, {}).covered
<1>1. none = {o \in Surface : Verdict(o, Covering({}, {}), TRUE) = "covered"}
  <2>1. none = CoveredBy(Surface, {}, {})
    BY ReportCovered
  <2> QED
    BY <2>1 DEF CoveredBy
<1>2. with = {o \in Surface : Verdict(o, Covering({role}, {}), TRUE) = "covered"}
  <2> HIDE DEF role
  <2>1. with = CoveredBy(Surface, {role}, {})
    BY ReportCovered
  <2> QED
    BY <2>1 DEF CoveredBy
<1> HIDE DEF none, with
<1>3. none \subseteq with
  BY <1>1, <1>2, RoleAdds
<1>4. ASSUME Account.ok, NEW o \in with \ none PROVE GrantedTo(Account.acct, o)
  <2> DEFINE a == Account.acct
  <2> DEFINE perms == Range(Expanded(lib, comp).perms)
  <2>1. Expanded(lib, comp).ok /\ AccountIs(a, comp, perms)
    BY <1>4, AccountOk DEF Account
  <2>2. /\ role.sudo = UNION {{s.value : s \in p.sudo} : p \in perms}
        /\ role.groups = comp.groups \cup UNION {{g.value : g \in p.groups} : p \in perms}
        /\ role.files = UNION {p.files : p \in perms}
    <3>1. role = [sudo |-> UNION {{s.value : s \in p.sudo} : p \in perms},
                  groups |-> comp.groups \cup UNION {{g.value : g \in p.groups} : p \in perms},
                  files |-> UNION {p.files : p \in perms}]
      BY <2>1, RoleSeesAll
    <3> HIDE DEF role, perms
    <3> QED
      BY <3>1
  <2> HIDE DEF role, a, perms
  <2>3. \A t \in role.sudo : \E s \in a.sudo : s.value = t
    BY <2>1, <2>2 DEF AccountIs
  <2>4. role.groups \subseteq a.groups
    BY <2>1, <2>2 DEF AccountIs
  <2>5. ASSUME NEW path, DirOver(UnionGrants(role.files), path) PROVE DirOver(a.files, path)
    <3>1. role.files \subseteq comp.files \cup UNION {p.files : p \in perms}
      BY <2>2
    <3> QED
      BY <2>1, <2>5, <3>1, DirOverMonotone DEF AccountIs
  <2>6. /\ o \in Surface /\ Verdict(o, Covering({role}, {}), TRUE) = "covered"
        /\ Verdict(o, Covering({}, {}), TRUE) # "covered"
    BY <1>1, <1>2, <1>4 DEF role
  <2>7. IsText(o.key)
    BY <2>6, LibraryAssumption
  <2>8. GrantedTo(a, o)
    BY <2>3, <2>4, <2>5, <2>6, <2>7, RoleGrants
  <2> QED
    BY <2>8 DEF a
<1> QED
  BY <1>3, <1>4 DEF CoverageHonest, none, with

\* For every catalog, slice and device: what a slice adds to the strict audit is
\* what an apply of the slice grants, and a slice never takes cover away.
THEOREM CoverageIsHonest == Spec => []CoverageHonest
<1>1. CoverageHonest
  BY HonestAlways
<1> QED
  BY <1>1, PTL

-----------------------------------------------------------------------------
(* The reverse lookup and the audit.                                       *)

LEMMA VerdictGap ==
  ASSUME NEW o, NEW c, o.class = "Config", Verdict(o, c, TRUE) = "gap"
  PROVE  \A g \in c.files : ~GrantCoversPath(g, o.key)
<1>1. Verdict(o, c, TRUE) = ConfigVerdict(o, ConfigGrantCover(o.key, c.files), TRUE)
  BY DEF Verdict
<1>2. ASSUME NEW cover PROVE ConfigVerdict(o, cover, TRUE) = "gap" => cover # "acl" /\ cover # "paper"
  BY DEF ConfigVerdict
<1>3. ConfigGrantCover(o.key, c.files) # "acl" /\ ConfigGrantCover(o.key, c.files) # "paper"
  BY <1>1, <1>2
<1> QED
  BY <1>3 DEF ConfigGrantCover

\* What the sources say: the finished texts of the permissions that resolve.
LEMMA SourceTexts ==
  ASSUME NEW s
  PROVE  s \in BuildGrantSources(lib) <=>
           \E p \in Grants(lib) :
             /\ s = Concrete(SourceOf(p))
             /\ s.sudo # {} \/ s.files # {}
BY DEF BuildGrantSources, Granting, Grants

LEMMA ConcreteFields ==
  ASSUME NEW p
  PROVE  /\ Concrete(SourceOf(p)).sudo = {t \in {s.value : s \in p.sudo} : ~HasPlaceholder(t)}
         /\ Concrete(SourceOf(p)).files = {g \in p.files : ~HasPlaceholder(g.path)}
BY DEF Concrete, SourceOf, Source

LEMMA ListedSudo ==
  ASSUME NEW o
  PROVE  Listed(o, "sudo", BuildGrantSources(lib)) <=>
           \E t \in CatalogTexts : ~HasPlaceholder(t) /\ SudoBinary(t) = Last(o.key.atoms)
<1> DEFINE sources == BuildGrantSources(lib)
<1> DEFINE bin == Last(o.key.atoms)
<1>1. Listed(o, "sudo", sources) <=> \E s \in sources : \E t \in s.sudo : SudoBinary(t) = bin
  <2>1. ASSUME NEW s, NEW x PROVE Match(s, "sudo", x).kind = "sudo" /\ Match(s, "file", x).kind = "file"
    BY DEF Match
  <2>2. ASSUME NEW m \in WhichGrants(o.key, bin, sources), m.kind = "sudo"
        PROVE  \E s \in sources : \E t \in s.sudo : SudoBinary(t) = bin
    BY <2>1, <2>2 DEF WhichGrants
  <2>3. ASSUME NEW s \in sources, NEW t \in s.sudo, SudoBinary(t) = bin
        PROVE  Match(s, "sudo", t) \in WhichGrants(o.key, bin, sources)
    BY <2>3 DEF WhichGrants
  <2> QED
    BY <2>1, <2>2, <2>3 DEF Listed
<1>2. ASSUME NEW s \in sources, NEW t \in s.sudo
      PROVE  t \in CatalogTexts /\ ~HasPlaceholder(t)
  <2>1. PICK p \in Grants(lib) : s = Concrete(SourceOf(p))
    BY <1>2, SourceTexts
  <2>2. t \in {x.value : x \in p.sudo} /\ ~HasPlaceholder(t)
    BY <1>2, <2>1, ConcreteFields
  <2> QED
    BY <2>1, <2>2 DEF CatalogTexts
<1>3. ASSUME NEW t \in CatalogTexts, ~HasPlaceholder(t)
      PROVE  \E s \in sources : t \in s.sudo
  <2>1. PICK p \in Grants(lib) : t \in {x.value : x \in p.sudo}
    BY <1>3 DEF CatalogTexts
  <2>2. t \in Concrete(SourceOf(p)).sudo
    BY <1>3, <2>1, ConcreteFields
  <2>3. Concrete(SourceOf(p)) \in sources
    BY <2>1, <2>2, SourceTexts
  <2> QED
    BY <2>2, <2>3
<1> HIDE DEF sources, bin
<1>4. Listed(o, "sudo", sources) <=> \E t \in CatalogTexts : ~HasPlaceholder(t) /\ SudoBinary(t) = bin
  BY <1>1, <1>2, <1>3
<1> QED
  BY <1>4 DEF sources, bin

LEMMA ListedFile ==
  ASSUME NEW o
  PROVE  Listed(o, "file", BuildGrantSources(lib)) <=> \E g \in CatalogFiles : GrantCoversPath(g, o.key)
<1> DEFINE sources == BuildGrantSources(lib)
<1> DEFINE bin == Last(o.key.atoms)
<1>1. Listed(o, "file", sources) <=> \E s \in sources : \E g \in s.files : GrantCoversPath(g, o.key)
  <2>1. ASSUME NEW s, NEW x PROVE Match(s, "sudo", x).kind = "sudo" /\ Match(s, "file", x).kind = "file"
    BY DEF Match
  <2>2. ASSUME NEW m \in WhichGrants(o.key, bin, sources), m.kind = "file"
        PROVE  \E s \in sources : \E g \in s.files : GrantCoversPath(g, o.key)
    BY <2>1, <2>2 DEF WhichGrants
  <2>3. ASSUME NEW s \in sources, NEW g \in s.files, GrantCoversPath(g, o.key)
        PROVE  Match(s, "file", g) \in WhichGrants(o.key, bin, sources)
    BY <2>3 DEF WhichGrants
  <2> QED
    BY <2>1, <2>2, <2>3 DEF Listed
<1>2. ASSUME NEW s \in sources, NEW g \in s.files
      PROVE  g \in CatalogFiles
  <2>1. PICK p \in Grants(lib) : s = Concrete(SourceOf(p))
    BY <1>2, SourceTexts
  <2>2. g \in p.files /\ ~HasPlaceholder(g.path)
    BY <1>2, <2>1, ConcreteFields
  <2> QED
    BY <2>1, <2>2 DEF CatalogFiles, FinishedFiles
<1>3. ASSUME NEW g \in CatalogFiles
      PROVE  \E s \in sources : g \in s.files
  <2>1. PICK p \in Grants(lib) : g \in p.files
    BY <1>3 DEF CatalogFiles, FinishedFiles
  <2>2. ~HasPlaceholder(g.path)
    BY <1>3 DEF CatalogFiles, FinishedFiles
  <2>3. g \in Concrete(SourceOf(p)).files
    BY <2>1, <2>2, ConcreteFields
  <2>4. Concrete(SourceOf(p)) \in sources
    BY <2>1, <2>3, SourceTexts
  <2> QED
    BY <2>3, <2>4
<1> HIDE DEF sources, bin
<1>4. Listed(o, "file", sources) <=> \E g \in CatalogFiles : GrantCoversPath(g, o.key)
  BY <1>1, <1>2, <1>3
<1> QED
  BY <1>4 DEF sources

\* The second half: the lookup and the audit of the catalog alone.
LEMMA CatalogMirrors ==
  ASSUME NEW o \in Surface
  PROVE  LET r == StrictReport(Surface, {}, {})
             sources == BuildGrantSources(lib)
         IN /\ o.class = "SudoBin" /\ o \notin r.excluded => (o \in r.covered <=> Listed(o, "sudo", sources))
            /\ o.class = "Config" => /\ o \in r.covered => Listed(o, "file", sources)
                                     /\ Listed(o, "file", sources) => o \notin r.gaps
<1> DEFINE c == Covering({}, {})
<1> DEFINE r == StrictReport(Surface, {}, {})
<1>1. o \in r.covered <=> Verdict(o, c, TRUE) = "covered"
  <2>1. r.covered = CoveredBy(Surface, {}, {})
    BY ReportCovered
  <2> QED
    BY <2>1 DEF CoveredBy
<1>2. /\ o \in r.excluded <=> Verdict(o, c, TRUE) = "excluded"
      /\ o \in r.gaps <=> Verdict(o, c, TRUE) = "gap"
  BY DEF StrictReport, CoverageScoped, ReportOn, Buckets, Covering, Strict
<1>3. c.sudo_binaries = {SudoBinary(t) : t \in {u \in CatalogTexts : ~HasPlaceholder(u)} \cup UNION {x.sudo : x \in {}}}
  BY CoveringFields
<1>4. c.files = UnionGrants(CatalogFiles \cup UNION {x.files : x \in {}})
  BY CoveringFields
<1>5. CatalogFiles \cup UNION {x.files : x \in {}} = CatalogFiles
  OBVIOUS
<1>6. c.files = UnionGrants(CatalogFiles)
  BY <1>4, <1>5
<1> HIDE DEF c, r
<1>7. ASSUME o.class = "SudoBin", o \notin r.excluded
      PROVE  o \in r.covered <=> Listed(o, "sudo", BuildGrantSources(lib))
  <2>1. Last(o.key.atoms) \in c.sudo_binaries <=>
          \E t \in CatalogTexts : ~HasPlaceholder(t) /\ SudoBinary(t) = Last(o.key.atoms)
    <3>1. {u \in CatalogTexts : ~HasPlaceholder(u)} \cup UNION {x.sudo : x \in {}} = {u \in CatalogTexts : ~HasPlaceholder(u)}
      OBVIOUS
    <3> QED
      BY <1>3, <3>1
  <2>2. ~IntentionalExclusion(o)
    BY <1>2, <1>7 DEF Verdict
  <2>3. o \in r.covered <=> Last(o.key.atoms) \in c.sudo_binaries
    BY <1>1, <1>7, <2>2, VerdictCovered DEF ObjectCovered
  <2> QED
    BY <2>1, <2>3, ListedSudo
<1>8. ASSUME o.class = "Config", o \in r.covered PROVE Listed(o, "file", BuildGrantSources(lib))
  <2>1. DirOver(c.files, o.key)
    BY <1>1, <1>8, VerdictCovered
  <2>2. PICK g \in UnionGrants(CatalogFiles) : GrantCoversPath(g, o.key)
    BY <1>6, <2>1 DEF DirOver
  <2>3. \E h \in CatalogFiles : h.path = g.path /\ (g.recursive => h.recursive)
    <3>1. CASE g.recursive
      BY <3>1, MergedFrom
    <3>2. CASE ~g.recursive
      BY <3>2, MergedFrom
    <3> QED
      BY <3>1, <3>2
  <2>4. \E h \in CatalogFiles : GrantCoversPath(h, o.key)
    BY <2>2, <2>3 DEF GrantCoversPath
  <2> QED
    BY <2>4, ListedFile
<1>9. ASSUME o.class = "Config", Listed(o, "file", BuildGrantSources(lib)) PROVE o \notin r.gaps
  <2>1. PICK g \in CatalogFiles : GrantCoversPath(g, o.key)
    BY <1>9, ListedFile
  <2>2. Merged(CatalogFiles, g.path) \in c.files /\ GrantCoversPath(Merged(CatalogFiles, g.path), o.key)
    <3>1. /\ Merged(CatalogFiles, g.path) \in UnionGrants(CatalogFiles)
          /\ Merged(CatalogFiles, g.path).path = g.path
          /\ g.recursive => Merged(CatalogFiles, g.path).recursive
      BY MergedInto
    <3> QED
      BY <1>6, <2>1, <3>1 DEF GrantCoversPath
  <2> QED
    BY <1>2, <1>9, <2>2, VerdictGap
<1> QED
  BY <1>7, <1>8, <1>9 DEF r

\* The first half: a group of the declaration.
LEMMA GroupMirrors ==
  ASSUME NEW groups
  PROVE  LET r == StrictReport(Staff, {}, BoundGroups(groups))
         IN r.covered # {} <=>
              \/ StrictReport(Staff, {}, {}).covered # {}
              \/ r.excluded = {} /\ \E s \in BuildGroupGrantSources(groups) : s.id = "staff"
<1> DEFINE r == StrictReport(Staff, {}, BoundGroups(groups))
<1> DEFINE o == Object("Group", Word("staff"), "orphan")
<1> DEFINE c == Covering({}, BoundGroups(groups))
<1> DEFINE d == Covering({}, {})
<1>1. o.class = "Group" /\ o.key = Word("staff")
  BY DEF Object
<1>2. r.covered # {} <=> Verdict(o, c, TRUE) = "covered"
  <2>1. r.covered = CoveredBy(Staff, {}, BoundGroups(groups))
    BY ReportCovered
  <2> QED
    BY <2>1 DEF CoveredBy, Staff
<1>3. StrictReport(Staff, {}, {}).covered # {} <=> Verdict(o, d, TRUE) = "covered"
  <2>1. StrictReport(Staff, {}, {}).covered = CoveredBy(Staff, {}, {})
    BY ReportCovered
  <2> QED
    BY <2>1 DEF CoveredBy, Staff
<1>4. r.excluded = {} <=> Verdict(o, c, TRUE) # "excluded"
  BY DEF StrictReport, CoverageScoped, ReportOn, Buckets, Covering, Strict, Staff
<1>5. c.groups = CatalogGroups \cup (UNION {x.groups : x \in {}}) \cup BoundGroups(groups)
  BY CoveringFields
<1>6. d.groups = CatalogGroups \cup (UNION {x.groups : x \in {}}) \cup {}
  BY CoveringFields
<1>7. Word("staff") \in BoundGroups(groups) <=> \E s \in BuildGroupGrantSources(groups) : s.id = "staff"
  <2>1. Word("staff") \in BoundGroups(groups) <=>
          "staff" \in DOMAIN groups /\ (groups["staff"].sudo # {} \/ groups["staff"].files # {})
    <3>1. ASSUME NEW n PROVE Word(n) = Word("staff") <=> n = "staff"
      BY DEF Word, Text
    <3> QED
      BY <3>1 DEF BoundGroups
  <2> DEFINE src(n) == Source(n, "group", "none", {p.value : p \in groups[n].sudo}, groups[n].files)
  <2>2. ASSUME NEW n
        PROVE  /\ src(n).id = n
               /\ src(n).sudo # {} <=> groups[n].sudo # {}
               /\ src(n).files # {} <=> groups[n].files # {}
    BY DEF Source
  <2>3. BuildGroupGrantSources(groups) = {s \in {src(n) : n \in DOMAIN groups} : s.sudo # {} \/ s.files # {}}
    BY DEF BuildGroupGrantSources, Granting
  <2> HIDE DEF src
  <2> QED
    BY <2>1, <2>2, <2>3
<1> HIDE DEF r, o, c, d
<1>8. ASSUME NEW e
      PROVE  /\ Verdict(o, e, TRUE) = "covered" <=> ~IntentionalExclusion(o) /\ o.key \in e.groups
             /\ Verdict(o, e, TRUE) = "excluded" <=> IntentionalExclusion(o)
  BY <1>1 DEF Verdict, ObjectCovered
<1>9. r.covered # {} <=> \/ StrictReport(Staff, {}, {}).covered # {}
                         \/ r.excluded = {} /\ \E s \in BuildGroupGrantSources(groups) : s.id = "staff"
  BY <1>1, <1>2, <1>3, <1>4, <1>5, <1>6, <1>7, <1>8
<1> QED
  BY <1>9 DEF r

\* For every catalog, slice and device: the reverse lookup lists a permission for
\* a binary or a config exactly where the audit counts on one, and grants for a
\* group exactly where the audit counts the group as bound.
THEOREM LookupMirrors == Spec => []WhichMirrors
<1>1. WhichMirrors
  BY CatalogMirrors, GroupMirrors DEF WhichMirrors
<1> QED
  BY <1>1, PTL

-----------------------------------------------------------------------------
(* Rendering makes commands anew.                                          *)

Prims(S) == \A s \in S : s = Prim(s.value, s.runas)

LEMMA RenderedPrims ==
  ASSUME NEW S, NEW params, NEW constraints, RenderPrimitives(S, params, constraints).ok
  PROVE  Prims(RenderPrimitives(S, params, constraints).items)
<1> DEFINE out == [p \in S |-> Render(p.value, params, constraints)]
<1> HIDE DEF out
<1> DEFINE r == RenderPrimitives(S, params, constraints)
<1>1. r = IF \E x \in S : ~out[x].ok THEN Fail(out[CHOOSE x \in S : ~out[x].ok].err)
          ELSE [ok |-> TRUE, items |-> UNION {{Prim(t, x.runas) : t \in Range(out[x].texts)} : x \in S}]
  BY DEF RenderPrimitives, Gather, out
<1> HIDE DEF r
<1>2. ~(\E x \in S : ~out[x].ok)
  BY <1>1 DEF Fail, r
<1>3. r.items = UNION {{Prim(t, x.runas) : t \in Range(out[x].texts)} : x \in S}
  BY <1>1, <1>2
<1>4. Prims(r.items)
  BY <1>3 DEF Prims, Prim
<1> QED
  BY <1>4 DEF r

LEMMA GateKeeps ==
  ASSUME NEW r, NEW bad, NEW kind, Gated(r, bad, kind).ok
  PROVE  r.ok /\ Gated(r, bad, kind) = r /\ bad = {}
BY DEF Gated, Fail

LEMMA ListsOk ==
  ASSUME NEW g, NEW s, NEW f, Lists(g, s, f).ok
  PROVE  /\ g.ok /\ s.ok /\ f.ok
         /\ Lists(g, s, f).groups = g.items
         /\ Lists(g, s, f).sudo = s.items
         /\ Lists(g, s, f).files = UnionGrants(f.items)
<1>1. ~AnyFails(<<g, s, f>>)
  BY DEF Lists, Fail
<1>2. DOMAIN <<g, s, f>> = 1..3 /\ <<g, s, f>>[1] = g /\ <<g, s, f>>[2] = s /\ <<g, s, f>>[3] = f
  OBVIOUS
<1>3. g.ok /\ s.ok /\ f.ok
  BY <1>1, <1>2 DEF AnyFails
<1> QED
  BY <1>1, <1>3 DEF Lists

LEMMA SubstitutedOk ==
  ASSUME NEW perm, NEW params, NEW constraints, SubstituteAll(perm, params, constraints).ok
  PROVE  LET own == SubstituteAll(perm, params, constraints)
             g == RenderPrimitives(perm.groups, params, constraints)
             s == RenderPrimitives(perm.sudo, params, constraints)
             f == RenderGrants(perm.files, params, constraints)
         IN /\ g.ok /\ own.groups = g.items /\ \A x \in g.items : ~GroupNameDefect(x.value)
            /\ s.ok /\ own.sudo = s.items /\ \A x \in s.items : ~SudoCommandDefect(x.value)
            /\ f.ok /\ own.files = UnionGrants(f.items) /\ \A x \in f.items : ~FilePathDefect(x.path)
<1> DEFINE own == SubstituteAll(perm, params, constraints)
<1> DEFINE g == RenderPrimitives(perm.groups, params, constraints)
<1> DEFINE s == RenderPrimitives(perm.sudo, params, constraints)
<1> DEFINE f == RenderGrants(perm.files, params, constraints)
<1>1. own = Lists(GateGroups(g), GateSudo(s), GateGrants(f))
  BY DEF SubstituteAll
<1> HIDE DEF g, s, f
<1>2. /\ GateGroups(g).ok /\ GateSudo(s).ok /\ GateGrants(f).ok
      /\ own.groups = GateGroups(g).items /\ own.sudo = GateSudo(s).items
      /\ own.files = UnionGrants(GateGrants(f).items)
  BY <1>1, ListsOk
<1> HIDE DEF own
<1>3. g.ok /\ own.groups = g.items /\ \A x \in g.items : ~GroupNameDefect(x.value)
  <2>1. g.ok /\ GateGroups(g) = g /\ {p \in Items(g) : GroupNameDefect(p.value)} = {}
    BY <1>2, GateKeeps DEF GateGroups
  <2> QED
    BY <1>2, <2>1 DEF Items
<1>4. s.ok /\ own.sudo = s.items /\ \A x \in s.items : ~SudoCommandDefect(x.value)
  <2>1. s.ok /\ GateSudo(s) = s /\ {p \in Items(s) : SudoCommandDefect(p.value)} = {}
    BY <1>2, GateKeeps DEF GateSudo
  <2> QED
    BY <1>2, <2>1 DEF Items
<1>5. f.ok /\ own.files = UnionGrants(f.items) /\ \A x \in f.items : ~FilePathDefect(x.path)
  <2>1. f.ok /\ GateGrants(f) = f /\ {p \in Items(f) : FilePathDefect(p.path) \/ TrailingSlashDefect(p)} = {}
    BY <1>2, GateKeeps DEF GateGrants
  <2> QED
    BY <1>2, <2>1 DEF Items
<1> QED
  BY <1>3, <1>4, <1>5 DEF own, g, s, f

LEMMA SubstitutedPrims ==
  ASSUME NEW perm, NEW params, NEW constraints, SubstituteAll(perm, params, constraints).ok
  PROVE  Prims(SubstituteAll(perm, params, constraints).sudo)
BY SubstitutedOk, RenderedPrims

LEMMA MemberPartsOk ==
  ASSUME NEW parts, MemberParts(parts).ok
  PROVE  /\ \A k \in DOMAIN parts : parts[k].ok
         /\ MemberParts(parts).groups = UNION {p.groups : p \in Range(parts)}
         /\ MemberParts(parts).sudo = UNION {p.sudo : p \in Range(parts)}
         /\ MemberParts(parts).files = UNION {p.files : p \in Range(parts)}
<1>1. ~AnyFails(parts)
  BY DEF MemberParts, Fail
<1>2. MemberParts(parts) = Union(parts)
  BY <1>1 DEF MemberParts
<1>3. \A k \in DOMAIN parts : parts[k].ok
  BY <1>1 DEF AnyFails
<1> QED
  BY <1>2, <1>3 DEF Union

\* What an expanded member has comes from its own texts, rendered once per map.
LEMMA ExpandedMember ==
  ASSUME NEW bm, NEW params, NEW constraints, ExpandBoundMember(bm, params, constraints).ok
  PROVE  LET r == ExpandBoundMember(bm, params, constraints)
             fanned == RenderBindings(bm.include.bindings, params, constraints)
             part(k) == SubstituteAll(bm.member, fanned.maps[k], bm.member.params)
         IN /\ fanned.ok
            /\ \A k \in DOMAIN fanned.maps : part(k).ok
            /\ r.groups = UNION {part(k).groups : k \in DOMAIN fanned.maps}
            /\ r.sudo = UNION {part(k).sudo : k \in DOMAIN fanned.maps}
            /\ r.files = UNION {part(k).files : k \in DOMAIN fanned.maps}
<1> DEFINE r == ExpandBoundMember(bm, params, constraints)
<1> DEFINE fanned == RenderBindings(bm.include.bindings, params, constraints)
<1> DEFINE part(k) == SubstituteAll(bm.member, fanned.maps[k], bm.member.params)
<1> DEFINE parts == [k \in DOMAIN fanned.maps |-> part(k)]
<1>1. r = ExpandFanned(bm.member, fanned)
  BY DEF ExpandBoundMember, Fail
<1> HIDE DEF fanned
<1>2. fanned.ok
  BY <1>1 DEF ExpandFanned
<1>3. r = MemberParts(parts)
  BY <1>1, <1>2 DEF ExpandFanned
<1>4. DOMAIN parts = DOMAIN fanned.maps /\ \A k \in DOMAIN fanned.maps : parts[k] = part(k)
  OBVIOUS
<1> HIDE DEF r, part, parts
<1>5. /\ \A k \in DOMAIN parts : parts[k].ok
      /\ r.groups = UNION {p.groups : p \in Range(parts)}
      /\ r.sudo = UNION {p.sudo : p \in Range(parts)}
      /\ r.files = UNION {p.files : p \in Range(parts)}
  BY <1>3, MemberPartsOk DEF r
<1>6. Range(parts) = {part(k) : k \in DOMAIN fanned.maps}
  BY <1>4 DEF Range
<1>7. /\ r.groups = UNION {part(k).groups : k \in DOMAIN fanned.maps}
      /\ r.sudo = UNION {part(k).sudo : k \in DOMAIN fanned.maps}
      /\ r.files = UNION {part(k).files : k \in DOMAIN fanned.maps}
  BY <1>5, <1>6
<1>8. \A k \in DOMAIN fanned.maps : part(k).ok
  BY <1>4, <1>5
<1> QED
  BY <1>2, <1>7, <1>8 DEF r, part, fanned

LEMMA ExpandedPrims ==
  ASSUME NEW bm, NEW params, NEW constraints, ExpandBoundMember(bm, params, constraints).ok
  PROVE  Prims(ExpandBoundMember(bm, params, constraints).sudo)
<1> DEFINE fanned == RenderBindings(bm.include.bindings, params, constraints)
<1> DEFINE part(k) == SubstituteAll(bm.member, fanned.maps[k], bm.member.params)
<1>1. /\ \A k \in DOMAIN fanned.maps : part(k).ok
      /\ ExpandBoundMember(bm, params, constraints).sudo = UNION {part(k).sudo : k \in DOMAIN fanned.maps}
  BY ExpandedMember
<1>2. \A k \in DOMAIN fanned.maps : Prims(part(k).sudo)
  BY <1>1, SubstitutedPrims
<1> HIDE DEF fanned, part
<1> QED
  BY <1>1, <1>2 DEF Prims

\* What a permission with its parameters filled in has.
LEMMA FilledOk ==
  ASSUME NEW r, NEW params, FillParams(r, params).ok
  PROVE  LET own == SubstituteAll(r.perm, params, r.perm.params)
             part(i) == ExpandBoundMember(r.perm.bound[i], params, r.perm.params)
             perm == FillParams(r, params).perm
             bound == DOMAIN r.perm.bound
         IN /\ r.ok /\ own.ok /\ \A i \in bound : part(i).ok
            /\ perm.groups = own.groups \cup UNION {part(i).groups : i \in bound}
            /\ perm.sudo = own.sudo \cup UNION {part(i).sudo : i \in bound}
            /\ perm.files = UnionGrants(own.files \cup UNION {part(i).files : i \in bound})
<1> DEFINE own == SubstituteAll(r.perm, params, r.perm.params)
<1> DEFINE part(i) == ExpandBoundMember(r.perm.bound[i], params, r.perm.params)
<1> DEFINE parts == [i \in DOMAIN r.perm.bound |-> part(i)]
<1> DEFINE perm == FillParams(r, params).perm
<1> DEFINE unused == DOMAIN params \ UsedParams(r.perm)
<1>1. r.ok
  BY DEF FillParams
<1>2. ~TwoLists(r.perm, params)
  BY <1>1 DEF FillParams, Fail
<1>3. FillParams(r, params) = JoinOwn(r.perm, own, parts, unused)
  BY <1>1, <1>2 DEF FillParams
<1>4. DOMAIN parts = DOMAIN r.perm.bound /\ \A i \in DOMAIN r.perm.bound : parts[i] = part(i)
  OBVIOUS
<1> HIDE DEF own, part, parts, unused
<1>5. own.ok
  BY <1>3 DEF JoinOwn
<1>6. ~AnyFails(parts)
  BY <1>3, <1>5 DEF JoinOwn, Fail
<1>7. FillParams(r, params) = [ok |-> TRUE, perm |-> JoinParts(r.perm, own, Union(parts), unused)]
  BY <1>3, <1>5, <1>6 DEF JoinOwn
<1>8. perm = JoinParts(r.perm, own, Union(parts), unused)
  BY <1>7
<1> HIDE DEF perm
<1>9. Range(parts) = {part(i) : i \in DOMAIN r.perm.bound}
  BY <1>4 DEF Range
<1>10. /\ Union(parts).groups = UNION {part(i).groups : i \in DOMAIN r.perm.bound}
       /\ Union(parts).sudo = UNION {part(i).sudo : i \in DOMAIN r.perm.bound}
       /\ Union(parts).files = UNION {part(i).files : i \in DOMAIN r.perm.bound}
  BY <1>9 DEF Union
<1>11. /\ perm.groups = own.groups \cup UNION {part(i).groups : i \in DOMAIN r.perm.bound}
       /\ perm.sudo = own.sudo \cup UNION {part(i).sudo : i \in DOMAIN r.perm.bound}
       /\ perm.files = UnionGrants(own.files \cup UNION {part(i).files : i \in DOMAIN r.perm.bound})
  BY <1>8, <1>10 DEF JoinParts
<1>12. \A i \in DOMAIN r.perm.bound : part(i).ok
  BY <1>4, <1>6 DEF AnyFails
<1> QED
  BY <1>1, <1>5, <1>11, <1>12 DEF own, part, perm

LEMMA FilledPrims ==
  ASSUME NEW r, NEW params, FillParams(r, params).ok
  PROVE  Prims(FillParams(r, params).perm.sudo)
<1> DEFINE own == SubstituteAll(r.perm, params, r.perm.params)
<1> DEFINE part(i) == ExpandBoundMember(r.perm.bound[i], params, r.perm.params)
<1> DEFINE bound == DOMAIN r.perm.bound
<1>1. /\ own.ok /\ \A i \in bound : part(i).ok
      /\ FillParams(r, params).perm.sudo = own.sudo \cup UNION {part(i).sudo : i \in bound}
  BY FilledOk
<1>2. Prims(own.sudo) /\ \A i \in bound : Prims(part(i).sudo)
  BY <1>1, SubstitutedPrims, ExpandedPrims
<1> HIDE DEF own, part, bound
<1> QED
  BY <1>1, <1>2 DEF Prims

LEMMA AccountPrims ==
  ASSUME NEW L, NEW c, Expanded(L, c).ok, NEW i \in DOMAIN c.perms
  PROVE  Prims(Expanded(L, c).perms[i].sudo)
<1> DEFINE r == Resolve(L, c.perms[i].id)
<1>1. Resolutions(L, c)[i] = FillParams(r, c.perms[i].params)
  BY DEF Resolutions, ResolveWithParams
<1>2. FillParams(r, c.perms[i].params).ok
  BY <1>1, ExpandedOk
<1>3. Expanded(L, c).perms[i] = FillParams(r, c.perms[i].params).perm
  BY <1>1, ExpandedOk
<1> QED
  BY <1>2, <1>3, FilledPrims

-----------------------------------------------------------------------------
(* What compile shows.                                                     *)

LEMMA LeastIndex ==
  ASSUME NEW n \in Nat, NEW T \in SUBSET (1..n), T # {}
  PROVE  \E i \in T : \A j \in 1..(i - 1) : j \notin T
<1>1. T \subseteq Nat
  OBVIOUS
<1>2. PICK i \in T : \A j \in T : ~(<<j, i>> \in OpToRel(<, Nat))
  BY <1>1, NatLessThanWellFounded, WFMin
<1>3. \A j \in T : ~(j < i)
  BY <1>1, <1>2 DEF OpToRel
<1> QED
  BY <1>1, <1>3

\* The first permission with a command says under which account it runs, and
\* the account has the command under that account.
LEMMA FlatSudoSound ==
  ASSUME NEW c, NEW n \in Nat, DOMAIN c.perms = 1..n,
         \A i \in DOMAIN c.perms : Prims(c.perms[i].sudo)
  PROVE  LET all == {Prim(t, NoRunas) : t \in c.raw.sudo} \cup UNION {p.sudo : p \in Range(c.perms)}
         IN /\ FlatSudo(c) \subseteq all
            /\ {s.value : s \in FlatSudo(c)} = {s.value : s \in all}
<1> DEFINE all == {Prim(t, NoRunas) : t \in c.raw.sudo} \cup UNION {p.sudo : p \in Range(c.perms)}
<1> DEFINE values(i) == {p.value : p \in c.perms[i].sudo}
<1> DEFINE first(v) == CHOOSE i \in DOMAIN c.perms : v \in values(i) /\ \A j \in 1..(i - 1) : v \notin values(j)
<1> DEFINE runas(v) == (CHOOSE p \in c.perms[first(v)].sudo : p.value = v).runas
<1> DEFINE granted == UNION {values(i) : i \in DOMAIN c.perms}
<1>1. FlatSudo(c) = {Prim(v, NoRunas) : v \in c.raw.sudo} \cup {Prim(v, runas(v)) : v \in granted \ c.raw.sudo}
  BY DEF FlatSudo
<1>2. ASSUME NEW v \in granted
      PROVE  first(v) \in DOMAIN c.perms /\ v \in values(first(v))
  <2> DEFINE T == {i \in 1..n : v \in values(i)}
  <2>1. T \in SUBSET (1..n) /\ T # {}
    BY <1>2
  <2> HIDE DEF T
  <2>2. PICK i \in T : \A j \in 1..(i - 1) : j \notin T
    BY <2>1, LeastIndex
  <2>3. i \in DOMAIN c.perms /\ v \in values(i)
    BY <2>2 DEF T
  <2>4. \A j \in 1..(i - 1) : j \in 1..n
    BY <2>3
  <2>5. \A j \in 1..(i - 1) : v \notin values(j)
    BY <2>2, <2>4 DEF T
  <2> QED
    BY <2>3, <2>5
<1> HIDE DEF first
<1>3. ASSUME NEW v \in granted
      PROVE  Prim(v, runas(v)) \in c.perms[first(v)].sudo
  <2>1. first(v) \in DOMAIN c.perms /\ \E p \in c.perms[first(v)].sudo : p.value = v
    BY <1>2, <1>3
  <2> DEFINE q == CHOOSE p \in c.perms[first(v)].sudo : p.value = v
  <2>2. q \in c.perms[first(v)].sudo /\ q.value = v
    BY <2>1
  <2>3. runas(v) = q.runas
    OBVIOUS
  <2> HIDE DEF q, runas
  <2>4. q = Prim(q.value, q.runas)
    BY <2>1, <2>2 DEF Prims
  <2> QED
    BY <2>2, <2>3, <2>4
<1> HIDE DEF runas
<1>4. ASSUME NEW v \in granted PROVE Prim(v, runas(v)) \in all
  BY <1>2, <1>3, <1>4 DEF Range
<1>5. FlatSudo(c) \subseteq all
  BY <1>1, <1>4
<1>6. ASSUME NEW v, NEW u PROVE Prim(v, u).value = v
  BY DEF Prim
<1>7. {s.value : s \in FlatSudo(c)} = c.raw.sudo \cup granted
  BY <1>1, <1>6
<1>8. {s.value : s \in all} = c.raw.sudo \cup granted
  <2>1. \A s \in all : s.value \in c.raw.sudo \cup granted
    BY <1>6 DEF Range
  <2>2. \A v \in c.raw.sudo : \E s \in all : s.value = v
    BY <1>6
  <2>3. \A v \in granted : \E s \in all : s.value = v
    BY <1>4, <1>6
  <2> HIDE DEF all, granted
  <2> QED
    BY <2>1, <2>2, <2>3
<1> QED
  BY <1>5, <1>7, <1>8

\* A slice that is known lists its permissions in order.
CompKnown == comp \in Comps \cup {BlankComp}

LEMMA CompPerms ==
  ASSUME CompKnown
  PROVE  \E n \in Nat : DOMAIN comp.perms = 1..n
<1>1. CASE comp \in Comps
  BY <1>1, LibraryAssumption DEF CompOk, IsSeq
<1>2. CASE comp = BlankComp
  <2>1. comp.perms = <<>>
    BY <1>2 DEF BlankComp
  <2> QED
    BY <2>1
<1> QED
  BY <1>1, <1>2 DEF CompKnown

LEMMA CompileShows ==
  ASSUME CompKnown, Account.ok
  PROVE  CompileAgrees(CompileRole(lib, comp), Account.acct)
<1> DEFINE a == Account.acct
<1> DEFINE ex == Expanded(lib, comp)
<1> DEFINE c == CompileRole(lib, comp)
<1>1. /\ ex.ok /\ AccountIs(a, comp, Range(ex.perms))
      /\ a.limits = IF comp.limits # NoLimits THEN comp.limits ELSE MergeLimits(NoLimits, ex.perms)
  BY AccountOk DEF Account
<1>2. \A i \in DOMAIN ex.perms : Prims(ex.perms[i].sudo)
  BY <1>1, ExpandedOk, AccountPrims
<1>3. PICK n \in Nat : DOMAIN ex.perms = 1..n
  BY <1>1, CompPerms, ExpandedOk
<1>4. c.ok /\ c.perms = ex.perms /\ c.raw = comp
  <2> HIDE DEF ex
  <2>1. c = Compiled(comp, ex)
    BY DEF CompileRole, ex
  <2> QED
    BY <1>1, <2>1 DEF Compiled
<1> HIDE DEF a, ex, c
<1>5. FlatGroups(c) = a.groups
  BY <1>1, <1>4 DEF FlatGroups, AccountIs
<1>6. a.sudo = {Prim(t, NoRunas) : t \in c.raw.sudo} \cup UNION {p.sudo : p \in Range(c.perms)}
  BY <1>1, <1>4 DEF AccountIs
<1>7. FlatSudo(c) \subseteq a.sudo /\ {s.value : s \in FlatSudo(c)} = {s.value : s \in a.sudo}
  <2>1. DOMAIN c.perms = 1..n /\ \A i \in DOMAIN c.perms : Prims(c.perms[i].sudo)
    BY <1>2, <1>3, <1>4
  <2> QED
    BY <1>6, <2>1, FlatSudoSound
<1>8. EffectiveLimits(c) = a.limits
  BY <1>1, <1>4 DEF EffectiveLimits
<1>9. ASSUME NEW g \in FlatFileGrants(c)
      PROVE  \E h \in a.files : g.path = h.path /\ g.access \subseteq h.access /\ (g.recursive => h.recursive)
  <2> DEFINE S == UNION {p.files : p \in Range(c.perms)}
  <2> DEFINE T == comp.files \cup S
  <2>1. g \in UnionGrants(S) /\ a.files = UnionGrants(T) /\ S \subseteq T
    BY <1>1, <1>4, <1>9 DEF FlatFileGrants, AccountIs
  <2> HIDE DEF S, T
  <2>2. PICK x \in S : x.path = g.path
    BY <2>1, MergedFrom
  <2> DEFINE h == Merged(T, g.path)
  <2>3. h \in a.files /\ h.path = g.path
    BY <2>1, <2>2, MergedInto
  <2>4. ASSUME NEW b \in g.access PROVE b \in h.access
    <3>1. PICK y \in S : y.path = g.path /\ b \in y.access
      BY <2>1, <2>4, MergedFrom
    <3> QED
      BY <2>1, <3>1, MergedInto
  <2>5. ASSUME g.recursive PROVE h.recursive
    <3>1. PICK y \in S : y.path = g.path /\ y.recursive
      BY <2>1, <2>5, MergedFrom
    <3> QED
      BY <2>1, <3>1, MergedInto
  <2> QED
    BY <2>3, <2>4, <2>5
<1>10. CompileAgrees(c, a)
  BY <1>4, <1>5, <1>7, <1>8, <1>9 DEF CompileAgrees
<1> QED
  BY <1>10 DEF a, c

-----------------------------------------------------------------------------
(* The group that two bindings build.                                      *)

Store == [r \in {"slice"} |-> comp]
Base == DeclaredGroups([n \in {"staff"} |-> [adopt |-> TRUE, gid |-> 7, members |-> {}]])
Binding == [role |-> "slice", group |-> "staff"]

\* The recursion over the bindings, unfolded.
LEMMA BoundTwice ==
  Bound = BindRole(lib, Store, BindRole(lib, Store, Base, Binding), Binding)
<1> DEFINE B == Bindings
<1> DEFINE one == BindRole(lib, Store, Base, Binding)
<1> DEFINE two == BindRole(lib, Store, one, Binding)
<1> DEFINE body(f) == [k \in 0..2 |-> IF k = 0 THEN Base ELSE BindRole(lib, Store, f[k - 1], B[k])]
<1>1. Len(B) = 2 /\ B[1] = Binding /\ B[2] = Binding
  BY DEF Bindings, Binding
<1> HIDE DEF B
<1>2. Bound = (CHOOSE f : f = body(f))[2]
  BY <1>1 DEF Bound, ResolveGroups, Store, Base, B
<1> DEFINE g == [k \in 0..2 |-> IF k = 0 THEN Base ELSE IF k = 1 THEN one ELSE two]
<1>3. g = body(g)
  <2>1. g[0] = Base /\ g[1] = one /\ g[2] = two
    OBVIOUS
  <2> HIDE DEF one, two
  <2>2. ASSUME NEW k \in 0..2 PROVE g[k] = body(g)[k]
    <3>1. CASE k = 0
      BY <3>1
    <3>2. CASE k = 1
      BY <1>1, <3>2, <2>1 DEF one
    <3>3. CASE k = 2
      BY <1>1, <3>3, <2>1 DEF two
    <3> QED
      BY <3>1, <3>2, <3>3
  <2> QED
    BY <2>2
<1> DEFINE h == CHOOSE f : f = body(f)
<1>4. h = body(h)
  <2> HIDE DEF body, g
  <2> QED
    BY <1>3
<1> HIDE DEF h
<1>5. h[0] = Base
  BY <1>4
<1>6. h[1] = one
  <2>1. h[1] = BindRole(lib, Store, h[1 - 1], B[1])
    BY <1>4
  <2> QED
    BY <1>1, <1>5, <2>1
<1>7. h[2] = two
  <2>1. h[2] = BindRole(lib, Store, h[2 - 1], B[2])
    BY <1>4
  <2> HIDE DEF one
  <2> QED
    BY <1>1, <1>6, <2>1
<1> QED
  BY <1>2, <1>7 DEF h

\* A group under construction.
GroupShape(acc) ==
  /\ acc.ok = TRUE
  /\ acc = [ok |-> acc.ok, warnings |-> acc.warnings, groups |-> acc.groups]
  /\ acc.groups = [n \in {"staff"} |-> acc.groups["staff"]]
  /\ LET g == acc.groups["staff"]
     IN g = [provenance |-> g.provenance, gid |-> g.gid, members |-> g.members, sudo |-> g.sudo,
             files |-> g.files, limits |-> g.limits, roles |-> g.roles]

LEMMA BaseShape == GroupShape(Base) /\ Base.groups["staff"].sudo = {} /\ Base.groups["staff"].files = {}
BY DEF GroupShape, Base, DeclaredGroups, DeclaredGroup

LEMMA BindAdds ==
  ASSUME NEW acc, GroupShape(acc), Expanded(lib, comp).ok, \A g \in comp.files : ~RawGrantDefect(g)
  PROVE  LET b == BindRole(lib, Store, acc, Binding)
             perms == Range(Expanded(lib, comp).perms)
         IN /\ GroupShape(b)
            /\ b.groups["staff"].sudo = acc.groups["staff"].sudo \cup UNION {p.sudo : p \in perms}
            /\ b.groups["staff"].files =
                 UnionGrants(acc.groups["staff"].files \cup comp.files \cup UNION {p.files : p \in perms})
            /\ comp.sudo # {} => <<"inline-dropped", "staff">> \in b.warnings
            /\ (\E p \in perms : p.groups # {}) => <<"groups-dropped", "staff">> \in b.warnings
<1> DEFINE ex == Expanded(lib, comp)
<1> DEFINE perms == Range(ex.perms)
<1> DEFINE b == BindRole(lib, Store, acc, Binding)
<1>1. Binding.group = "staff" /\ Binding.role = "slice"
  BY DEF Binding
<1>2. ReadComposition(Store, "slice") = [ok |-> TRUE, comp |-> comp]
  BY DEF ReadComposition, Store
<1>3. "staff" \in DOMAIN acc.groups
  BY DEF GroupShape
<1>0. ex.ok
  OBVIOUS
<1> HIDE DEF ex
<1>4. b = BindPerms(acc, Binding, comp, ex)
  BY <1>1, <1>2, <1>3 DEF BindRole, BindComposition, GroupShape, ex
<1> DEFINE old == acc.groups["staff"]
<1> DEFINE new == WithRole(old, Binding, comp, ex.perms)
<1> DEFINE warnings == acc.warnings \cup BindWarnings(Binding, comp, ex.perms)
<1>5. b = [acc EXCEPT !.warnings = warnings, !.groups["staff"] = new]
  BY <1>0, <1>1, <1>4 DEF BindPerms
<1>6. /\ new.sudo = old.sudo \cup UNION {p.sudo : p \in perms}
      /\ new.files = UnionGrants(old.files \cup comp.files \cup UNION {p.files : p \in perms})
      /\ new = [provenance |-> new.provenance, gid |-> new.gid, members |-> new.members, sudo |-> new.sudo,
                files |-> new.files, limits |-> new.limits, roles |-> new.roles]
  <2> DEFINE s == old.sudo \cup UNION {p.sudo : p \in perms}
  <2> DEFINE f == UnionGrants(old.files \cup comp.files \cup UNION {p.files : p \in perms})
  <2> DEFINE l == MergeLimits(old.limits, ex.perms)
  <2> DEFINE r == old.roles \cup {"slice"}
  <2>1. new = [old EXCEPT !.sudo = s, !.files = f, !.limits = l, !.roles = r]
    BY <1>1 DEF WithRole
  <2>2. old = [provenance |-> old.provenance, gid |-> old.gid, members |-> old.members, sudo |-> old.sudo,
               files |-> old.files, limits |-> old.limits, roles |-> old.roles]
    BY DEF GroupShape
  <2>3. /\ s = old.sudo \cup UNION {p.sudo : p \in perms}
        /\ f = UnionGrants(old.files \cup comp.files \cup UNION {p.files : p \in perms})
    OBVIOUS
  <2> HIDE DEF new, old, s, f, l, r, perms
  <2> QED
    BY <2>1, <2>2, <2>3
<1> HIDE DEF new, warnings, b
<1>7. b.ok = TRUE /\ b.warnings = warnings /\ b.groups = [acc.groups EXCEPT !["staff"] = new]
  BY <1>5 DEF GroupShape
<1>8. b = [ok |-> b.ok, warnings |-> b.warnings, groups |-> b.groups]
  BY <1>5 DEF GroupShape
<1>9. b.groups["staff"] = new /\ b.groups = [n \in {"staff"} |-> b.groups["staff"]]
  BY <1>7 DEF GroupShape
<1>10. GroupShape(b)
  BY <1>6, <1>7, <1>8, <1>9 DEF GroupShape
<1>11. /\ comp.sudo # {} => <<"inline-dropped", "staff">> \in b.warnings
       /\ (\E p \in perms : p.groups # {}) => <<"groups-dropped", "staff">> \in b.warnings
  BY <1>1, <1>7 DEF warnings, BindWarnings
<1> QED
  BY <1>6, <1>9, <1>10, <1>11 DEF b, ex

LEMMA BindingShows ==
  ASSUME Account.ok
  PROVE  /\ Bound.ok /\ BindingAgrees(Bound, Bound.groups["staff"], Account.acct)
         /\ DOMAIN Bound.groups = {"staff"}
<1> DEFINE a == Account.acct
<1> DEFINE perms == Range(Expanded(lib, comp).perms)
<1> DEFINE one == BindRole(lib, Store, Base, Binding)
<1> DEFINE two == BindRole(lib, Store, one, Binding)
<1> DEFINE S == comp.files \cup UNION {p.files : p \in perms}
<1>1. /\ Expanded(lib, comp).ok /\ AccountIs(a, comp, perms)
      /\ \A g \in comp.files : ~RawGrantDefect(g)
  BY AccountOk DEF Account
<1>2. /\ GroupShape(one)
      /\ one.groups["staff"].sudo = Base.groups["staff"].sudo \cup UNION {p.sudo : p \in perms}
      /\ one.groups["staff"].files =
           UnionGrants(Base.groups["staff"].files \cup comp.files \cup UNION {p.files : p \in perms})
  BY <1>1, BaseShape, BindAdds
<1> HIDE DEF one
<1>3. /\ GroupShape(two)
      /\ two.groups["staff"].sudo = one.groups["staff"].sudo \cup UNION {p.sudo : p \in perms}
      /\ two.groups["staff"].files =
           UnionGrants(one.groups["staff"].files \cup comp.files \cup UNION {p.files : p \in perms})
      /\ comp.sudo # {} => <<"inline-dropped", "staff">> \in two.warnings
      /\ (\E p \in perms : p.groups # {}) => <<"groups-dropped", "staff">> \in two.warnings
  BY <1>1, <1>2, BindAdds
<1>4. Bound = two
  BY BoundTwice DEF one
<1> HIDE DEF a, perms, two
<1>5. two.groups["staff"].sudo = UNION {p.sudo : p \in perms}
  BY <1>2, <1>3, BaseShape
<1>6. two.groups["staff"].files = a.files
  <2>1. one.groups["staff"].files = UnionGrants(S)
    <3>1. Base.groups["staff"].files \cup comp.files \cup UNION {p.files : p \in perms} = S
      BY BaseShape
    <3> QED
      BY <1>2, <3>1
  <2>2. two.groups["staff"].files = UnionGrants(UnionGrants(S) \cup S)
    <3>1. UnionGrants(S) \cup comp.files \cup UNION {p.files : p \in perms} = UnionGrants(S) \cup S
      OBVIOUS
    <3> QED
      BY <1>3, <2>1, <3>1
  <2>3. a.files = UnionGrants(S)
    BY <1>1 DEF AccountIs
  <2> QED
    BY <2>2, <2>3, MergeOnce
<1>7. a.groups # comp.groups => \E p \in perms : p.groups # {}
  BY <1>1 DEF AccountIs
<1>8. /\ two.groups["staff"].sudo \subseteq a.sudo
      /\ a.sudo \ two.groups["staff"].sudo \subseteq {Prim(t, NoRunas) : t \in comp.sudo}
  BY <1>1, <1>5 DEF AccountIs
<1>9. two.ok /\ BindingAgrees(two, two.groups["staff"], a)
  BY <1>3, <1>6, <1>7, <1>8 DEF BindingAgrees, GroupShape
<1>10. DOMAIN two.groups = {"staff"}
  BY <1>3 DEF GroupShape
<1> QED
  BY <1>4, <1>9, <1>10 DEF a

\* The finding a risky grant gives rise to.
LEMMA RiskyIsFound ==
  ASSUME NEW files, NEW who, NEW g \in files, "write" \in g.access, OverlapsAny(RootEquivalent, g.path)
  PROVE  <<who, "rw-root-equivalent", g.path>> \in GrantFindings(files, who)
BY DEF GrantFindings

LEMMA LintShows ==
  ASSUME Account.ok
  PROVE  LET c == CompileRole(lib, comp)
         IN LintSees(LintRole(c, Texts), GroupRiskFindings(Bound.groups, <<>>), c, Account.acct)
<1> DEFINE a == Account.acct
<1> DEFINE ex == Expanded(lib, comp)
<1> DEFINE c == CompileRole(lib, comp)
<1> DEFINE lint == LintRole(c, Texts)
<1>1. ex.ok /\ AccountIs(a, comp, Range(ex.perms))
  BY AccountOk DEF Account
<1>2. /\ c.perms = ex.perms
      /\ c.warnings = RawWarnings(comp, {"groups", "sudo_role", "limits"})
                      \cup InlineWarning(comp) \cup UnusedWarnings(ex.perms)
  <2> HIDE DEF ex
  <2>1. c = Compiled(comp, ex)
    BY DEF CompileRole, ex
  <2> QED
    BY <1>1, <2>1 DEF Compiled
<1>3. Bound.groups["staff"].files = a.files /\ DOMAIN Bound.groups = {"staff"}
  BY BindingShows DEF BindingAgrees
<1> HIDE DEF a, ex, c
<1>4. GrantFindings(FlatFileGrants(c), "role") \subseteq lint
  BY DEF LintRole
<1> HIDE DEF lint
<1>5. ASSUME NEW g \in RiskyGrants(a.files)
      PROVE  <<"group", "rw-root-equivalent", g.path>> \in GroupRiskFindings(Bound.groups, <<>>)
  <2>1. g \in a.files /\ "write" \in g.access /\ OverlapsAny(RootEquivalent, g.path)
    BY <1>5 DEF RiskyGrants
  <2>2. <<"group", "rw-root-equivalent", g.path>> \in GrantFindings(Bound.groups["staff"].files, "group")
    BY <1>3, <2>1, RiskyIsFound
  <2> QED
    BY <1>3, <2>2 DEF GroupRiskFindings
<1>6. ASSUME NEW g \in RiskyGrants(a.files), \A h \in comp.files : h.path # g.path
      PROVE  <<"role", "rw-root-equivalent", g.path>> \in lint
  <2> DEFINE S == UNION {p.files : p \in Range(c.perms)}
  <2> DEFINE T == comp.files \cup S
  <2>1. g \in UnionGrants(T) /\ "write" \in g.access /\ OverlapsAny(RootEquivalent, g.path)
    BY <1>1, <1>2, <1>6 DEF RiskyGrants, AccountIs
  <2>2. PICK x \in T : x.path = g.path /\ "write" \in x.access
    BY <2>1, MergedFrom
  <2>3. x \in S
    BY <1>6, <2>2
  <2>4. FlatFileGrants(c) = UnionGrants(S)
    BY DEF FlatFileGrants
  <2> HIDE DEF S, T
  <2> DEFINE h == Merged(S, x.path)
  <2>5. h \in FlatFileGrants(c) /\ h.path = g.path /\ "write" \in h.access
    BY <2>2, <2>3, <2>4, MergedInto
  <2> HIDE DEF h
  <2>6. <<"role", "rw-root-equivalent", h.path>> \in GrantFindings(FlatFileGrants(c), "role")
    BY <2>1, <2>5, RiskyIsFound
  <2> QED
    BY <1>4, <2>5, <2>6
<1>7. ASSUME NEW p \in Range(c.perms), NEW x \in lint, x[1] = "orphan-translation"
      PROVE  x[2][2] # p.id
  <2> DEFINE ids == {q.id : q \in Range(c.perms)}
  <2> DEFINE locales == {"en", "ru", "zh"} \cup AvailableLocales(Texts)
  <2>1. \/ x \in c.warnings
        \/ x \in GrantFindings(FlatFileGrants(c), "role")
        \/ x \in SudoRiskFindings(c)
        \/ \E y : x = <<"missing-translation", y>>
        \/ \E y \in OrphanTranslations(Texts, locales, ids) : x = <<"orphan-translation", y>>
    BY <1>7 DEF LintRole, lint
  <2>2. x \notin c.warnings
    <3>1. ASSUME NEW F, NEW w \in RawWarnings(comp, F) PROVE w[1] = "raw"
      <4>1. \E f \in F : w = <<"raw", f>>
        BY <3>1 DEF RawWarnings
      <4> QED
        BY <4>1
    <3>2. ASSUME NEW w \in InlineWarning(comp) PROVE w[1] = "raw"
      BY <3>2 DEF InlineWarning
    <3>3. ASSUME NEW w \in UnusedWarnings(ex.perms) PROVE w[1] = "unused-param"
      BY <3>3 DEF UnusedWarnings
    <3> QED
      BY <1>2, <1>7, <3>1, <3>2, <3>3
  <2>3. x \notin GrantFindings(FlatFileGrants(c), "role")
    BY <1>7 DEF GrantFindings
  <2>4. x \notin SudoRiskFindings(c)
    BY <1>7 DEF SudoRiskFindings
  <2>5. PICK y \in OrphanTranslations(Texts, locales, ids) : x = <<"orphan-translation", y>>
    <3> HIDE DEF ids, locales
    <3>1. ASSUME NEW y, x = <<"missing-translation", y>> PROVE FALSE
      BY <1>7, <3>1
    <3> QED
      BY <2>1, <2>2, <2>3, <2>4, <3>1
  <2> HIDE DEF locales
  <2>6. y[2] \notin ids
    BY <2>5 DEF OrphanTranslations
  <2>7. x[2] = y
    BY <2>5
  <2> QED
    BY <2>6, <2>7
<1>8. LintSees(lint, GroupRiskFindings(Bound.groups, <<>>), c, a)
  BY <1>5, <1>6, <1>7 DEF LintSees
<1> QED
  BY <1>8 DEF lint, c, a

LEMMA CompStaysKnown ==
  /\ Init => CompKnown
  /\ CompKnown /\ [Next]_vars => CompKnown'
<1>1. Init => CompKnown
  BY DEF Init, CompKnown
<1>2. ASSUME CompKnown, [Next]_vars PROVE CompKnown'
  BY <1>2 DEF CompKnown, Next, Publish, Withdraw, EditRole, vars
<1> QED
  BY <1>1, <1>2

\* For every catalog and every slice: compile shows what the account gets, a
\* group bound to the slice gets the same grants with every loss said, and no
\* grant that writes to a root-equivalent path escapes the lint.
THEOREM PreviewIsSound == Spec => []PreviewSound
<1>1. CompKnown => PreviewSound
  <2>1. ASSUME CompKnown, Account.ok
        PROVE  /\ Bound.ok /\ BindingAgrees(Bound, Bound.groups["staff"], Account.acct)
               /\ CompileAgrees(CompileRole(lib, comp), Account.acct)
               /\ LintSees(LintRole(CompileRole(lib, comp), Texts), GroupRiskFindings(Bound.groups, <<>>),
                           CompileRole(lib, comp), Account.acct)
    BY <2>1, BindingShows, CompileShows, LintShows
  <2> QED
    BY <2>1 DEF PreviewSound
<1> QED
  BY <1>1, CompStaysKnown, PTL DEF Spec

-----------------------------------------------------------------------------
(* Grants merged twice are merged once.                                    *)

\* T has merges of parts of S, and no grant of S is lost in it.
LEMMA MergeEqual ==
  ASSUME NEW S, NEW T,
         \A g \in T : g \in S \/ \E B \in SUBSET S : g \in UnionGrants(B),
         \A h \in S : \E g \in T : g.path = h.path /\ h.access \subseteq g.access /\ (h.recursive => g.recursive)
  PROVE  UnionGrants(T) = UnionGrants(S)
<1>0. ASSUME NEW g \in T
      PROVE  /\ \E h \in S : h.path = g.path
             /\ \A b \in g.access : \E h \in S : h.path = g.path /\ b \in h.access
             /\ g.recursive => \E h \in S : h.path = g.path /\ h.recursive
  <2>1. CASE g \in S
    BY <2>1
  <2>2. CASE \E B \in SUBSET S : g \in UnionGrants(B)
    <3>1. PICK B \in SUBSET S : g \in UnionGrants(B)
      BY <2>2
    <3>2. /\ \E h \in B : h.path = g.path
          /\ g.access = UNION {h.access : h \in {x \in B : x.path = g.path}}
          /\ g.recursive <=> \E h \in B : h.path = g.path /\ h.recursive
      BY <3>1, MergedFrom
    <3> QED
      BY <3>1, <3>2
  <2> QED
    BY <2>1, <2>2
<1>1. {g.path : g \in T} = {g.path : g \in S}
  BY <1>0
<1>2. ASSUME NEW p PROVE Merged(T, p) = Merged(S, p)
  <2>1. (UNION {g.access : g \in {h \in T : h.path = p}}) = UNION {g.access : g \in {h \in S : h.path = p}}
    BY <1>0
  <2>2. (\E g \in T : g.path = p /\ g.recursive) = (\E g \in S : g.path = p /\ g.recursive)
    BY <1>0
  <2> QED
    BY <2>1, <2>2 DEF Merged
<1>4. UnionGrants(T) = {Merged(T, p) : p \in {g.path : g \in T}}
  BY UnionIsMerged
<1>5. UnionGrants(S) = {Merged(S, p) : p \in {g.path : g \in S}}
  BY UnionIsMerged
<1> QED
  BY <1>1, <1>2, <1>4, <1>5

AllOf(M, X) == UNION {X[m] : m \in M}
MergedAll(M, X) == UNION {UnionGrants(X[m]) : m \in M}

LEMMA MergeMany ==
  ASSUME NEW A, NEW M, NEW X
  PROVE  UnionGrants(A \cup MergedAll(M, X)) = UnionGrants(A \cup AllOf(M, X))
<1> DEFINE S == A \cup UNION {X[m] : m \in M}
<1> DEFINE T == A \cup UNION {UnionGrants(X[m]) : m \in M}
<1>1. ASSUME NEW g \in T PROVE g \in S \/ \E B \in SUBSET S : g \in UnionGrants(B)
  <2>1. CASE g \in A
    BY <2>1
  <2>2. CASE g \notin A
    <3>1. PICK m \in M : g \in UnionGrants(X[m])
      BY <2>2
    <3>2. X[m] \in SUBSET S
      OBVIOUS
    <3> QED
      BY <3>1, <3>2
  <2> QED
    BY <2>1, <2>2
<1>2. ASSUME NEW h \in S
      PROVE  \E g \in T : g.path = h.path /\ h.access \subseteq g.access /\ (h.recursive => g.recursive)
  <2>1. CASE h \in A
    BY <2>1
  <2>2. CASE h \notin A
    <3>1. PICK m \in M : h \in X[m]
      BY <2>2
    <3> DEFINE g == Merged(X[m], h.path)
    <3>2. g \in UnionGrants(X[m]) /\ g.path = h.path /\ h.access \subseteq g.access /\ (h.recursive => g.recursive)
      BY <3>1, MergedInto
    <3> HIDE DEF g
    <3> QED
      BY <3>2
  <2> QED
    BY <2>1, <2>2
<1> HIDE DEF S, T
<1>3. UnionGrants(T) = UnionGrants(S)
  BY <1>1, <1>2, MergeEqual
<1> QED
  BY <1>3 DEF S, T, AllOf, MergedAll

LEMMA MergeLeft ==
  ASSUME NEW A, NEW B
  PROVE  UnionGrants(UnionGrants(A) \cup B) = UnionGrants(A \cup B)
<1> DEFINE X == [i \in {0} |-> A]
<1>1. X[0] = A
  OBVIOUS
<1> HIDE DEF X
<1>2. UnionGrants(B \cup MergedAll({0}, X)) = UnionGrants(B \cup AllOf({0}, X))
  BY MergeMany
<1>3. B \cup MergedAll({0}, X) = UnionGrants(A) \cup B
  BY <1>1 DEF MergedAll
<1>4. B \cup AllOf({0}, X) = A \cup B
  BY <1>1 DEF AllOf
<1> QED
  BY <1>2, <1>3, <1>4, Zenon

LEMMA MergeIdempotent ==
  ASSUME NEW S
  PROVE  UnionGrants(UnionGrants(S)) = UnionGrants(S)
<1>1. UnionGrants(UnionGrants(S) \cup {}) = UnionGrants(S \cup {})
  BY MergeLeft
<1>2. S \cup {} = S /\ UnionGrants(S) \cup {} = UnionGrants(S)
  OBVIOUS
<1> QED
  BY <1>1, <1>2, Zenon

-----------------------------------------------------------------------------
(* The recursion over the path of open bundles.                            *)

InnerTo(L, F, path) == [id \in Ids |-> ResolveAt(L, path, id, F[Append(path, id)])]
Inner(L, F) == F = [path \in Seq(Ids) |-> InnerTo(L, F, path)]
InnerFrom(L, F, n) == \A path \in Seq(Ids) : Len(path) + n >= MaxIncludeDepth => F[path] = InnerTo(L, F, path)

LEMMA TooDeep ==
  ASSUME NEW L, NEW path \in Seq(Ids), Len(path) >= MaxIncludeDepth, NEW id \in Ids, NEW m
  PROVE  ResolveAt(L, path, id, m) = IF id \in Range(path) THEN Fail("Cycle") ELSE Fail("IncludeTooDeep")
BY DEF ResolveAt

LEMMA InnerExists ==
  ASSUME NEW L
  PROVE  \E F : Inner(L, F)
<1> DEFINE P == {n \in Nat : \E F : DOMAIN F = Seq(Ids) /\ InnerFrom(L, F, n)}
<1>1. 0 \in P
  <2> DEFINE F == [path \in Seq(Ids) |->
                     [id \in Ids |-> IF id \in Range(path) THEN Fail("Cycle") ELSE Fail("IncludeTooDeep")]]
  <2>1. ASSUME NEW path \in Seq(Ids), Len(path) + 0 >= MaxIncludeDepth PROVE F[path] = InnerTo(L, F, path)
    <3>1. F[path] = [id \in Ids |-> IF id \in Range(path) THEN Fail("Cycle") ELSE Fail("IncludeTooDeep")]
      OBVIOUS
    <3> HIDE DEF F
    <3>2. Len(path) >= MaxIncludeDepth
      BY <2>1
    <3>3. \A id \in Ids : ResolveAt(L, path, id, F[Append(path, id)])
                          = IF id \in Range(path) THEN Fail("Cycle") ELSE Fail("IncludeTooDeep")
      BY <3>2, TooDeep
    <3> QED
      BY <3>1, <3>3 DEF InnerTo
  <2>2. DOMAIN F = Seq(Ids)
    OBVIOUS
  <2> HIDE DEF F
  <2>3. InnerFrom(L, F, 0)
    BY <2>1 DEF InnerFrom
  <2> QED
    BY <2>2, <2>3
<1>2. ASSUME NEW n \in Nat, n \in P PROVE n + 1 \in P
  <2>1. PICK F : DOMAIN F = Seq(Ids) /\ InnerFrom(L, F, n)
    BY <1>2
  <2> DEFINE G == [path \in Seq(Ids) |-> IF Len(path) + n >= MaxIncludeDepth THEN F[path] ELSE InnerTo(L, F, path)]
  <2>2. \A path \in Seq(Ids) : Len(path) + n >= MaxIncludeDepth => G[path] = F[path]
    OBVIOUS
  <2>3. \A path \in Seq(Ids) : Len(path) + n < MaxIncludeDepth => G[path] = InnerTo(L, F, path)
    BY CatalogAssumption
  <2>4. DOMAIN G = Seq(Ids)
    OBVIOUS
  <2> HIDE DEF G
  <2>5. ASSUME NEW path \in Seq(Ids), Len(path) + (n + 1) >= MaxIncludeDepth
        PROVE  G[path] = InnerTo(L, G, path)
    <3>1. ASSUME NEW id \in Ids PROVE G[Append(path, id)] = F[Append(path, id)]
      <4>1. Append(path, id) \in Seq(Ids) /\ Len(Append(path, id)) + n >= MaxIncludeDepth
        BY <2>5, CatalogAssumption
      <4> QED
        BY <4>1, <2>2
    <3>2. InnerTo(L, G, path) = InnerTo(L, F, path)
      BY <3>1 DEF InnerTo
    <3>3. CASE Len(path) + n >= MaxIncludeDepth
      BY <3>2, <3>3, <2>1, <2>2 DEF InnerFrom
    <3>4. CASE Len(path) + n < MaxIncludeDepth
      BY <3>2, <3>4, <2>3
    <3> QED
      BY <3>3, <3>4, CatalogAssumption
  <2>6. InnerFrom(L, G, n + 1)
    BY <2>5 DEF InnerFrom
  <2> QED
    BY <2>4, <2>6
<1> HIDE DEF P
<1>3. MaxIncludeDepth \in P
  BY <1>1, <1>2, SetInduction, CatalogAssumption
<1>4. PICK F : DOMAIN F = Seq(Ids) /\ InnerFrom(L, F, MaxIncludeDepth)
  BY <1>3 DEF P
<1>5. \A path \in Seq(Ids) : F[path] = InnerTo(L, F, path)
  BY <1>4, CatalogAssumption DEF InnerFrom
<1> DEFINE G == [path \in Seq(Ids) |-> F[path]]
<1>6. \A path \in Seq(Ids) : G[path] = F[path]
  OBVIOUS
<1> HIDE DEF G
<1>7. ASSUME NEW path \in Seq(Ids) PROVE InnerTo(L, G, path) = F[path]
  <2>1. ASSUME NEW id \in Ids PROVE G[Append(path, id)] = F[Append(path, id)]
    <3>1. Append(path, id) \in Seq(Ids)
      OBVIOUS
    <3> QED
      BY <3>1, <1>6, Zenon
  <2> QED
    BY <2>1, <1>5 DEF InnerTo
<1>8. Inner(L, G)
  BY <1>7 DEF Inner, G
<1> QED
  BY <1>8

\* What every id resolves to below every path.
InnerOf(L) == CHOOSE F : Inner(L, F)

LEMMA InnerUnfolds ==
  ASSUME NEW L
  PROVE  /\ ResolveInner(L) = InnerOf(L)[<<>>]
         /\ \A path \in Seq(Ids), id \in Ids :
              InnerOf(L)[path][id] = ResolveAt(L, path, id, InnerOf(L)[Append(path, id)])
<1>1. ResolveInner(L) = InnerOf(L)[<<>>]
  BY DEF ResolveInner, InnerOf, Inner, InnerTo
<1>2. Inner(L, InnerOf(L))
  BY InnerExists DEF InnerOf
<1> DEFINE F == InnerOf(L)
<1> HIDE DEF F
<1>3. \A path \in Seq(Ids) : F[path] = InnerTo(L, F, path)
  BY <1>2, Zenon DEF Inner, F
<1>4. \A path \in Seq(Ids), id \in Ids : InnerTo(L, F, path)[id] = ResolveAt(L, path, id, F[Append(path, id)])
  BY DEF InnerTo
<1> QED
  BY <1>1, <1>3, <1>4 DEF F

-----------------------------------------------------------------------------
(* The members of a bundle, taken one after the other.                     *)

TakenTo(first, takes, members, f, k) ==
  IF k = 0 THEN first
  ELSE IF Repeated(takes, k) THEN f[k - 1]
  ELSE Take(f[k - 1], takes[k], members[takes[k].id])
Taken(first, takes, members, f, n) == f = [k \in 0..n |-> TakenTo(first, takes, members, f, k)]

LEMMA TakenAt ==
  ASSUME NEW first, NEW takes, NEW members, NEW f, NEW n, Taken(first, takes, members, f, n)
  PROVE  \A k \in 0..n : f[k] = TakenTo(first, takes, members, f, k)
BY Zenon DEF Taken

LEMMA TakenExists ==
  ASSUME NEW first, NEW takes, NEW members, NEW n \in Nat
  PROVE  \E f : Taken(first, takes, members, f, n)
<1> DEFINE P == {m \in Nat : \E f : Taken(first, takes, members, f, m)}
<1>1. 0 \in P
  <2> DEFINE f == [k \in 0..0 |-> first]
  <2>1. \A k \in 0..0 : first = TakenTo(first, takes, members, f, k)
    BY DEF TakenTo
  <2>2. f = [k \in 0..0 |-> TakenTo(first, takes, members, f, k)]
    BY <2>1
  <2> HIDE DEF f
  <2>3. Taken(first, takes, members, f, 0)
    BY <2>2 DEF Taken
  <2> QED
    BY <2>3
<1>2. ASSUME NEW m \in Nat, m \in P PROVE m + 1 \in P
  <2>1. PICK f : Taken(first, takes, members, f, m)
    BY <1>2
  <2> DEFINE g == [k \in 0..(m + 1) |-> IF k <= m THEN f[k] ELSE TakenTo(first, takes, members, f, k)]
  <2>2. ASSUME NEW k \in 0..(m + 1) PROVE g[k] = TakenTo(first, takes, members, g, k)
    <3>1. k # 0 => g[k - 1] = f[k - 1]
      OBVIOUS
    <3>2. g[k] = TakenTo(first, takes, members, f, k)
      <4>1. CASE k <= m
        <5>1. f[k] = TakenTo(first, takes, members, f, k)
          BY <4>1, <2>1, TakenAt
        <5> QED
          BY <5>1, <4>1
      <4>2. CASE ~(k <= m)
        BY <4>2
      <4> QED
        BY <4>1, <4>2
    <3> HIDE DEF g
    <3> QED
      BY <3>1, <3>2, Zenon DEF TakenTo
  <2>3. g = [k \in 0..(m + 1) |-> TakenTo(first, takes, members, g, k)]
    BY <2>2
  <2> HIDE DEF g
  <2>4. Taken(first, takes, members, g, m + 1)
    BY <2>3 DEF Taken
  <2> QED
    BY <2>4
<1> HIDE DEF P
<1>3. Nat \subseteq P
  BY <1>1, <1>2, SetInduction
<1> QED
  BY <1>3 DEF P

\* The steps of the loop over the members.
Steps(first, takes, members, f, n) ==
  /\ n \in Nat /\ n = Len(takes) /\ DOMAIN takes = 1..n
  /\ f[0] = first
  /\ \A k \in 1..n : f[k] = IF Repeated(takes, k) THEN f[k - 1]
                            ELSE Take(f[k - 1], takes[k], members[takes[k].id])
  /\ TakeAll(first, takes, members) = f[n]

LEMMA TakenIs ==
  ASSUME NEW first, NEW takes, NEW members, IsSeq(takes)
  PROVE  \E f : Steps(first, takes, members, f, Len(takes))
<1> DEFINE n == Len(takes)
<1>1. n \in Nat /\ DOMAIN takes = 1..n
  BY DEF IsSeq
<1> DEFINE f == CHOOSE g : Taken(first, takes, members, g, n)
<1>2. TakeAll(first, takes, members) = f[n]
  BY DEF TakeAll, Taken, TakenTo
<1>3. Taken(first, takes, members, f, n)
  BY <1>1, TakenExists
<1>4. n = Len(takes)
  OBVIOUS
<1> HIDE DEF f, n
<1>5. \A k \in 0..n : f[k] = TakenTo(first, takes, members, f, k)
  BY <1>3, TakenAt
<1>6. f[0] = first
  <2>1. 0 \in 0..n
    BY <1>1
  <2> QED
    BY <2>1, <1>5, Zenon DEF TakenTo
<1>7. ASSUME NEW k \in 1..n
      PROVE  f[k] = IF Repeated(takes, k) THEN f[k - 1] ELSE Take(f[k - 1], takes[k], members[takes[k].id])
  <2>1. k \in 0..n /\ k # 0
    BY <1>1
  <2> QED
    BY <2>1, <1>5, Zenon DEF TakenTo
<1>8. Steps(first, takes, members, f, n)
  BY <1>1, <1>2, <1>4, <1>6, <1>7 DEF Steps
<1> QED
  BY <1>4, <1>8

-----------------------------------------------------------------------------
(* The layers of one id, merged bottom to top.                             *)

MergedTo(L, id, f, k) ==
  IF k = 0 THEN Blank(id)
  ELSE IF DefFiles(L, Layers[k], id) = <<>> THEN f[k - 1]
  ELSE MergeLayer(f[k - 1], DefOn(L, Layers[k], id))
MergedBy(L, id, f, n) == f = [k \in 0..n |-> MergedTo(L, id, f, k)]

LEMMA MergedAt ==
  ASSUME NEW L, NEW id, NEW f, NEW n, MergedBy(L, id, f, n)
  PROVE  \A k \in 0..n : f[k] = MergedTo(L, id, f, k)
BY Zenon DEF MergedBy

LEMMA MergedExists ==
  ASSUME NEW L, NEW id, NEW n \in Nat
  PROVE  \E f : MergedBy(L, id, f, n)
<1> DEFINE P == {m \in Nat : \E f : MergedBy(L, id, f, m)}
<1>1. 0 \in P
  <2> DEFINE f == [k \in 0..0 |-> Blank(id)]
  <2>1. \A k \in 0..0 : Blank(id) = MergedTo(L, id, f, k)
    BY DEF MergedTo
  <2>2. f = [k \in 0..0 |-> MergedTo(L, id, f, k)]
    BY <2>1
  <2> HIDE DEF f
  <2>3. MergedBy(L, id, f, 0)
    BY <2>2 DEF MergedBy
  <2> QED
    BY <2>3
<1>2. ASSUME NEW m \in Nat, m \in P PROVE m + 1 \in P
  <2>1. PICK f : MergedBy(L, id, f, m)
    BY <1>2
  <2> DEFINE g == [k \in 0..(m + 1) |-> IF k <= m THEN f[k] ELSE MergedTo(L, id, f, k)]
  <2>2. ASSUME NEW k \in 0..(m + 1) PROVE g[k] = MergedTo(L, id, g, k)
    <3>1. k # 0 => g[k - 1] = f[k - 1]
      OBVIOUS
    <3>2. g[k] = MergedTo(L, id, f, k)
      <4>1. CASE k <= m
        <5>1. f[k] = MergedTo(L, id, f, k)
          BY <4>1, <2>1, MergedAt
        <5> QED
          BY <5>1, <4>1
      <4>2. CASE ~(k <= m)
        BY <4>2
      <4> QED
        BY <4>1, <4>2
    <3> HIDE DEF g
    <3> QED
      BY <3>1, <3>2, Zenon DEF MergedTo
  <2>3. g = [k \in 0..(m + 1) |-> MergedTo(L, id, g, k)]
    BY <2>2
  <2> HIDE DEF g
  <2>4. MergedBy(L, id, g, m + 1)
    BY <2>3 DEF MergedBy
  <2> QED
    BY <2>4
<1> HIDE DEF P
<1>3. Nat \subseteq P
  BY <1>1, <1>2, SetInduction
<1> QED
  BY <1>3 DEF P

LEMMA MergedIs ==
  ASSUME NEW L, NEW id
  PROVE  \E f : /\ MergeLayers(L, id) = f[Len(Layers)]
                /\ \A k \in 0..Len(Layers) : f[k] = MergedTo(L, id, f, k)
<1> DEFINE n == Len(Layers)
<1>1. n \in Nat
  BY CatalogAssumption
<1> DEFINE f == CHOOSE g : MergedBy(L, id, g, n)
<1>2. MergeLayers(L, id) = f[n]
  BY DEF MergeLayers, MergedBy, MergedTo
<1>3. MergedBy(L, id, f, n)
  BY <1>1, MergedExists
<1> HIDE DEF f, n
<1>4. \A k \in 0..n : f[k] = MergedTo(L, id, f, k)
  BY <1>3, MergedAt
<1> QED
  BY <1>2, <1>4 DEF n

-----------------------------------------------------------------------------
(* What the files of the catalog name.                                     *)

KnownLib == lib \subseteq Drafts

LEMMA SetSequence ==
  ASSUME NEW S, IsFiniteSet(S)
  PROVE  IsSeq(SetToSeq(S)) /\ Range(SetToSeq(S)) = S
<1> DEFINE n == Cardinality(S)
<1> DEFINE s == SetToSeq(S)
<1>1. n \in Nat /\ ExistsBijection(1..n, S)
  BY FS_CardinalityType
<1>2. \E f \in [1..n -> S] : IsInjective(f)
  BY <1>1 DEF ExistsBijection, Bijection, Injection
<1>3. s \in [1..n -> S] /\ IsInjective(s)
  BY <1>2 DEF SetToSeq
<1>4. s \in Injection(1..n, S)
  BY <1>3 DEF Injection
<1>5. Cardinality(1..n) = n
  BY <1>1, FS_Interval
<1>6. s \in Surjection(1..n, S)
  BY <1>1, <1>4, <1>5, FS_Injection
<1> HIDE DEF s, n
<1>7. Range(s) = S
  BY <1>6 DEF Surjection, Range
<1>8. s \in Seq(S)
  BY <1>1, <1>3
<1> QED
  BY <1>7, <1>8 DEF IsSeq, s

LEMMA FilesOnLayer ==
  ASSUME NEW L, NEW layer, NEW id
  PROVE  /\ IsSeq(DefFiles(L, layer, id))
         /\ Range(DefFiles(L, layer, id)) \subseteq {f \in L : f.def.id = id /\ f.layer = layer /\ ~f.link}
<1> DEFINE F(root) == {f \in LayerFiles(L, layer) : f.root = root /\ f.def.id = id}
<1> DEFINE ss == [root \in 1..NumRoots |-> OneOf(F(root))]
<1>1. DefFiles(L, layer, id) = FlattenSeq(ss)
  BY DEF DefFiles
<1>2. DOMAIN ss = 1..NumRoots /\ \A i \in 1..NumRoots : ss[i] = OneOf(F(i))
  OBVIOUS
<1>3. IsSeq(ss)
  BY <1>2, FunctionSeq, CatalogAssumption
<1> HIDE DEF ss
<1>4. ASSUME NEW G PROVE IsSeq(OneOf(G)) /\ Range(OneOf(G)) \subseteq G
  <2>1. CASE G = {}
    BY <2>1, Singles DEF OneOf
  <2>2. CASE G # {}
    <3>1. (CHOOSE f \in G : TRUE) \in G
      BY <2>2
    <3> QED
      BY <3>1, <2>2, Singles DEF OneOf
  <2> QED
    BY <2>1, <2>2
<1>7. \A i \in DOMAIN ss : F(i) \subseteq {f \in L : f.def.id = id /\ f.layer = layer /\ ~f.link}
  BY DEF LayerFiles
<1> HIDE DEF F
<1>5. \A i \in DOMAIN ss : IsSeq(ss[i]) /\ Range(ss[i]) \subseteq F(i)
  BY <1>2, <1>4
<1>6. IsSeq(FlattenSeq(ss)) /\ Range(FlattenSeq(ss)) = UNION {Range(ss[i]) : i \in DOMAIN ss}
  BY <1>3, <1>5, Flattened
<1> QED
  BY <1>1, <1>5, <1>6, <1>7

LEMMA StatingFiles ==
  ASSUME NEW L, NEW id
  PROVE  /\ IsSeq(Stating(L, id))
         /\ \A f \in Range(Stating(L, id)) : f \in L /\ f.def.id = id
         /\ Stating(L, id) # <<>> <=> \E layer \in Range(Layers) : DefFiles(L, layer, id) # <<>>
<1> DEFINE ss == [i \in DOMAIN Layers |-> DefFiles(L, Layers[i], id)]
<1>1. Stating(L, id) = FlattenSeq(ss)
  BY DEF Stating
<1>2. DOMAIN Layers = 1..Len(Layers) /\ Len(Layers) \in Nat
  BY CatalogAssumption
<1>3. DOMAIN ss = 1..Len(Layers) /\ \A i \in 1..Len(Layers) : ss[i] = DefFiles(L, Layers[i], id)
  BY <1>2
<1>4. IsSeq(ss)
  BY <1>2, <1>3, FunctionSeq
<1> HIDE DEF ss
<1>5. \A i \in DOMAIN ss : /\ IsSeq(ss[i])
                           /\ Range(ss[i]) \subseteq {f \in L : f.def.id = id /\ f.layer = Layers[i] /\ ~f.link}
  BY <1>3, FilesOnLayer
<1>6. IsSeq(FlattenSeq(ss)) /\ Range(FlattenSeq(ss)) = UNION {Range(ss[i]) : i \in DOMAIN ss}
  BY <1>4, <1>5, Flattened
<1>7. \A f \in Range(Stating(L, id)) : f \in L /\ f.def.id = id
  BY <1>1, <1>5, <1>6
<1>8. ASSUME NEW s, IsSeq(s) PROVE s # <<>> <=> Range(s) # {}
  BY <1>8 DEF IsSeq, Range
<1>9. Range(Stating(L, id)) # {} <=> \E i \in DOMAIN ss : Range(ss[i]) # {}
  BY <1>1, <1>6
<1>10. Stating(L, id) # <<>> <=> \E i \in DOMAIN ss : ss[i] # <<>>
  BY <1>1, <1>5, <1>6, <1>8, <1>9
<1>11. (\E i \in DOMAIN ss : ss[i] # <<>>) <=> \E layer \in Range(Layers) : DefFiles(L, layer, id) # <<>>
  BY <1>2, <1>3 DEF Range
<1> QED
  BY <1>1, <1>6, <1>7, <1>10, <1>11

IncludeOk(inc) ==
  /\ inc.id \in Ids /\ Range(inc.bindings) \subseteq BindingsStated
  /\ \A t \in Range(inc.bindings) : IsSeq(t.atoms)

LEMMA IncludesKnown ==
  ASSUME KnownLib, NEW id
  PROVE  IsSeq(Includes(lib, id)) /\ \A inc \in Range(Includes(lib, id)) : IncludeOk(inc)
<1> DEFINE files == Stating(lib, id)
<1> DEFINE ss == [i \in DOMAIN files |-> files[i].def.includes]
<1>1. IsSeq(files) /\ \A f \in Range(files) : f \in Drafts
  BY StatingFiles DEF KnownLib
<1>2. Includes(lib, id) = FlattenSeq(ss)
  BY DEF Includes, IncludesOf
<1> HIDE DEF files
<1>3. DOMAIN files = 1..Len(files) /\ Len(files) \in Nat
  BY <1>1 DEF IsSeq
<1>4. DOMAIN ss = 1..Len(files) /\ \A i \in 1..Len(files) : ss[i] = files[i].def.includes
  BY <1>3
<1>5. IsSeq(ss)
  BY <1>3, <1>4, FunctionSeq
<1> HIDE DEF ss
<1>6. ASSUME NEW i \in DOMAIN ss PROVE IsSeq(ss[i]) /\ \A inc \in Range(ss[i]) : IncludeOk(inc)
  <2>1. files[i] \in Drafts /\ ss[i] = files[i].def.includes
    BY <1>1, <1>3, <1>4 DEF Range
  <2>2. DraftOk(files[i])
    BY <2>1, LibraryAssumption
  <2>3. \A inc \in Range(ss[i]) : Range(inc.bindings) \subseteq BindingTemplates(files[i].def)
    BY <2>1 DEF BindingTemplates
  <2>4. BindingTemplates(files[i].def) \subseteq DraftTexts(files[i].def) \cap BindingsStated
    BY <2>1 DEF DraftTexts, BindingsStated
  <2> QED
    BY <2>1, <2>2, <2>3, <2>4 DEF DraftOk, IncludeOk
<1>7. IsSeq(FlattenSeq(ss)) /\ Range(FlattenSeq(ss)) = UNION {Range(ss[i]) : i \in DOMAIN ss}
  BY <1>5, <1>6, Flattened
<1> QED
  BY <1>2, <1>6, <1>7

LEMMA MembersKnown ==
  ASSUME KnownLib, NEW id
  PROVE  /\ CategoryMembers(lib, id) \subseteq Ids
         /\ Direct(id) \subseteq Ids
         /\ IsLeaf(id) => Direct(id) = {}
<1>1. \A d \in AllDefs(lib) : d.id \in Ids
  BY LibraryAssumption DEF AllDefs, KnownLib, DraftOk
<1>2. CategoryMembers(lib, id) \subseteq Ids
  BY <1>1 DEF CategoryMembers, DefsIn
<1>3. Direct(id) \subseteq Ids
  BY <1>2, IncludesKnown DEF Direct, IncludeOk
<1>4. ASSUME IsLeaf(id) PROVE Direct(id) = {}
  <2>1. Includes(lib, id) = <<>> /\ Categories(lib, id) = {}
    BY <1>4 DEF IsLeaf
  <2>2. Range(Includes(lib, id)) = {}
    BY <2>1, Singles
  <2>3. CategoryMembers(lib, id) = {}
    BY <2>1 DEF CategoryMembers, DefsIn
  <2> QED
    BY <2>2, <2>3 DEF Direct
<1> QED
  BY <1>2, <1>3, <1>4

LEMMA ThoseAre ==
  ASSUME NEW incs, IsSeq(incs), NEW b
  PROVE  IsSeq(Those(incs, b)) /\ Range(Those(incs, b)) = {x \in Range(incs) : IsBound(x) = b}
<1> DEFINE ss == [i \in DOMAIN incs |-> IF IsBound(incs[i]) = b THEN <<incs[i]>> ELSE <<>>]
<1>1. DOMAIN incs = 1..Len(incs) /\ Len(incs) \in Nat
  BY DEF IsSeq
<1>2. DOMAIN ss = 1..Len(incs)
      /\ \A i \in 1..Len(incs) : ss[i] = IF IsBound(incs[i]) = b THEN <<incs[i]>> ELSE <<>>
  BY <1>1
<1>3. IsSeq(ss)
  BY <1>1, <1>2, FunctionSeq
<1>4. Those(incs, b) = FlattenSeq(ss)
  BY DEF Those
<1> HIDE DEF ss
<1>5. \A i \in DOMAIN ss : IsSeq(ss[i]) /\ Range(ss[i]) = IF IsBound(incs[i]) = b THEN {incs[i]} ELSE {}
  BY <1>2, Singles
<1>6. IsSeq(FlattenSeq(ss)) /\ Range(FlattenSeq(ss)) = UNION {Range(ss[i]) : i \in DOMAIN ss}
  BY <1>3, <1>5, Flattened
<1>7. (UNION {Range(ss[i]) : i \in DOMAIN ss}) = {x \in Range(incs) : IsBound(x) = b}
  BY <1>1, <1>2, <1>5 DEF Range
<1> QED
  BY <1>4, <1>6, <1>7

\* The includes and the category members of an id, as they are taken.
TakesOf(id) == Takes(Includes(lib, id), SetToSeq(CategoryMembers(lib, id)))

LEMMA TakesKnown ==
  ASSUME KnownLib, NEW id
  PROVE  /\ IsSeq(TakesOf(id))
         /\ \A x \in Range(TakesOf(id)) : IncludeOk(x)
         /\ {x.id : x \in Range(TakesOf(id))} = Direct(id)
         /\ (\A inc \in Range(Includes(lib, id)) : ~IsBound(inc)) => \A x \in Range(TakesOf(id)) : ~IsBound(x)
<1> DEFINE incs == Includes(lib, id)
<1> DEFINE cats == CategoryMembers(lib, id)
<1> DEFINE ids == SetToSeq(cats)
<1>1. IsSeq(incs) /\ \A inc \in Range(incs) : IncludeOk(inc)
  BY IncludesKnown
<1>2. cats \subseteq Ids
  BY MembersKnown
<1>3. IsFiniteSet(cats)
  BY <1>2, FS_Subset, CatalogAssumption
<1> HIDE DEF cats
<1>4. IsSeq(ids) /\ Range(ids) = cats
  BY <1>3, SetSequence
<1>5. Direct(id) = {inc.id : inc \in Range(incs)} \cup cats
  BY DEF Direct, cats
<1>6. TakesOf(id) = Those(incs, FALSE) \o BareOnes(ids) \o Those(incs, TRUE)
  BY DEF TakesOf, Takes, cats
<1> HIDE DEF incs, ids
<1> DEFINE a == Those(incs, FALSE)
<1> DEFINE b == BareOnes(ids)
<1> DEFINE c == Those(incs, TRUE)
<1>7. /\ IsSeq(a) /\ Range(a) = {x \in Range(incs) : ~IsBound(x)}
      /\ IsSeq(c) /\ Range(c) = {x \in Range(incs) : IsBound(x)}
  <2>1. \A x : IsBound(x) \in BOOLEAN
    BY DEF IsBound
  <2>2. IsSeq(a) /\ Range(a) = {x \in Range(incs) : IsBound(x) = FALSE}
    BY <1>1, ThoseAre
  <2>3. IsSeq(c) /\ Range(c) = {x \in Range(incs) : IsBound(x) = TRUE}
    BY <1>1, ThoseAre
  <2> HIDE DEF a, c
  <2>4. {x \in Range(incs) : IsBound(x) = FALSE} = {x \in Range(incs) : ~IsBound(x)}
    BY <2>1, Zenon
  <2>5. {x \in Range(incs) : IsBound(x) = TRUE} = {x \in Range(incs) : IsBound(x)}
    BY <2>1, Zenon
  <2> QED
    BY <2>2, <2>3, <2>4, <2>5, Zenon
<1>8. IsSeq(b) /\ Range(b) = {Bare(i) : i \in cats}
  <2>1. DOMAIN ids = 1..Len(ids) /\ Len(ids) \in Nat
    BY <1>4 DEF IsSeq
  <2>2. DOMAIN b = 1..Len(ids) /\ \A i \in 1..Len(ids) : b[i] = Bare(ids[i])
    BY <2>1 DEF BareOnes
  <2>3. b = [i \in 1..Len(ids) |-> b[i]]
    BY <2>1 DEF BareOnes
  <2> HIDE DEF b
  <2>4. IsSeq(b)
    BY <2>1, <2>2, <2>3, FunctionSeq
  <2>5. Range(b) = {Bare(i) : i \in Range(ids)}
    BY <2>1, <2>2 DEF Range
  <2> QED
    BY <2>4, <2>5, <1>4
<1> HIDE DEF a, b, c
<1>9. IsSeq(a \o b) /\ Range(a \o b) = Range(a) \cup Range(b)
  BY <1>7, <1>8, Concatenated
<1>10. IsSeq((a \o b) \o c) /\ Range((a \o b) \o c) = Range(a \o b) \cup Range(c)
  BY <1>7, <1>9, Concatenated
<1>11. TakesOf(id) = (a \o b) \o c
  BY <1>6 DEF a, b, c
<1>12. Range(TakesOf(id)) = Range(incs) \cup {Bare(i) : i \in cats}
  <2>1. Range(a) \cup Range(c) = Range(incs)
    BY <1>7
  <2> QED
    BY <2>1, <1>8, <1>9, <1>10, <1>11
<1>13. \A i \in cats : IncludeOk(Bare(i)) /\ Bare(i).id = i /\ ~IsBound(Bare(i))
  BY <1>2, Singles DEF IncludeOk, Bare, IsBound
<1>14. {x.id : x \in Range(TakesOf(id))} = Direct(id)
  BY <1>5, <1>12, <1>13
<1> QED
  BY <1>1, <1>10, <1>11, <1>12, <1>13, <1>14 DEF incs

-----------------------------------------------------------------------------
(* The ids that an id reaches.                                             *)

LEMMA BelowGrows ==
  ASSUME KnownLib, NEW id \in Ids
  PROVE  /\ Below(id) \subseteq Ids
         /\ Direct(id) \subseteq Below(id)
         /\ \A d \in Below(id) : Direct(d) \subseteq Below(id)
         /\ \A S \in SUBSET Ids : Direct(id) \subseteq S /\ (\A d \in S : Direct(d) \subseteq S) => Below(id) \subseteq S
<1> DEFINE direct == [i \in Ids |-> Direct(i)]
<1>1. \A i \in Ids : direct[i] = Direct(i) /\ Direct(i) \subseteq Ids
  BY MembersKnown
<1>2. Below(id) = {d \in Ids : \A S \in SUBSET Ids : direct[id] \subseteq S /\ Closed(direct, S) => d \in S}
  BY DEF Below, Reach
<1> HIDE DEF direct
<1>3. \A S \in SUBSET Ids : Closed(direct, S) <=> \A d \in S : Direct(d) \subseteq S
  BY <1>1 DEF Closed
<1>4. Below(id) \subseteq Ids
  BY <1>2
<1>5. Direct(id) \subseteq Below(id)
  BY <1>1, <1>2
<1>6. ASSUME NEW d \in Below(id), NEW e \in Direct(d) PROVE e \in Below(id)
  <2>1. d \in Ids /\ e \in Ids
    BY <1>4, <1>1, <1>6
  <2>2. ASSUME NEW S \in SUBSET Ids, direct[id] \subseteq S, Closed(direct, S) PROVE e \in S
    <3>1. d \in S
      BY <1>2, <1>6, <2>2
    <3> QED
      BY <3>1, <1>3, <1>6, <2>2
  <2> QED
    BY <2>1, <2>2, <1>2
<1>7. ASSUME NEW S \in SUBSET Ids, Direct(id) \subseteq S, \A d \in S : Direct(d) \subseteq S
      PROVE  Below(id) \subseteq S
  <2>1. direct[id] \subseteq S /\ Closed(direct, S)
    BY <1>1, <1>3, <1>7
  <2> QED
    BY <2>1, <1>2
<1> QED
  BY <1>4, <1>5, <1>6, <1>7

\* What id reaches is its members, and what they reach.
LEMMA BelowStep ==
  ASSUME KnownLib, NEW id \in Ids
  PROVE  Below(id) = Direct(id) \cup UNION {Below(m) : m \in Direct(id)}
<1> DEFINE S == Direct(id) \cup UNION {Below(m) : m \in Direct(id)}
<1>1. Direct(id) \subseteq Ids
  BY MembersKnown
<1>2. ASSUME NEW m \in Direct(id)
      PROVE  /\ Below(m) \subseteq Ids /\ Direct(m) \subseteq Below(m) /\ \A d \in Below(m) : Direct(d) \subseteq Below(m)
             /\ Below(m) \subseteq Below(id)
  <2>1. m \in Ids /\ m \in Below(id)
    BY <1>1, <1>2, BelowGrows
  <2>2. Below(id) \in SUBSET Ids /\ Direct(m) \subseteq Below(id) /\ \A d \in Below(id) : Direct(d) \subseteq Below(id)
    BY <2>1, BelowGrows
  <2>3. Below(m) \subseteq Below(id)
    BY <2>1, <2>2, BelowGrows
  <2> QED
    BY <2>1, <2>3, BelowGrows
<1>3. S \in SUBSET Ids
  BY <1>1, <1>2
<1>4. \A d \in S : Direct(d) \subseteq S
  BY <1>2
<1>5. Direct(id) \subseteq S
  OBVIOUS
<1>6. S \subseteq Below(id)
  BY <1>2, BelowGrows
<1> HIDE DEF S
<1>7. Below(id) \subseteq S
  BY <1>3, <1>4, <1>5, BelowGrows
<1>8. Below(id) = S
  BY <1>6, <1>7
<1> QED
  BY <1>8 DEF S

-----------------------------------------------------------------------------
(* The fields of a permission, through each step of its resolution.        *)

PermFields == {"id", "risk", "runas", "groups", "sudo", "files", "limits", "params", "bound", "unused"}
Risks == {NoRisk, "contained", "escalation"}

\* q is p with the groups, commands and grants of m.
Grown(q, p, m) ==
  /\ DOMAIN q = PermFields /\ q.risk = p.risk /\ q.bound = p.bound
  /\ q.groups = p.groups \cup m.groups /\ q.sudo = p.sudo \cup m.sudo
  /\ q.files = UnionGrants(p.files \cup m.files)

LEMMA AbsorbFields ==
  ASSUME NEW p, DOMAIN p = PermFields, NEW m
  PROVE  Grown(Absorb(p, m), p, m)
BY DEF Absorb, PermFields, Grown

LEMMA JoinedFields ==
  ASSUME NEW p, DOMAIN p = PermFields, NEW m
  PROVE  Grown(Joined(p, m), p, m)
<1> DEFINE a == Absorb(p, m)
<1>1. Grown(a, p, m)
  BY AbsorbFields
<1> HIDE DEF a
<1>2. Joined(p, m) = [a EXCEPT !.params = Over(@, m.params), !.limits = IF @ = NoLimits THEN m.limits ELSE @]
  BY DEF Joined, a
<1> QED
  BY <1>1, <1>2 DEF PermFields, Grown

LEMMA MergeFields ==
  ASSUME NEW p, DOMAIN p = PermFields, NEW d
  PROVE  LET q == MergeLayer(p, d)
         IN /\ DOMAIN q = PermFields /\ q.bound = p.bound
            /\ q.risk = IF d.risk = NoRisk THEN p.risk ELSE d.risk
            /\ q.groups \subseteq p.groups \cup d.groups.vals
            /\ q.sudo \subseteq p.sudo \cup d.sudo.vals
            /\ q.files \subseteq p.files \cup d.files
<1> DEFINE b == [p EXCEPT !.groups = {}, !.sudo = {}, !.files = {}, !.limits = NoLimits, !.params = <<>>]
<1> DEFINE base == IF d.replace THEN b ELSE p
<1>1. /\ DOMAIN b = PermFields /\ b.bound = p.bound /\ b.risk = p.risk
      /\ b.groups = {} /\ b.sudo = {} /\ b.files = {}
  BY DEF PermFields
<1> HIDE DEF b
<1>2. /\ DOMAIN base = PermFields /\ base.bound = p.bound /\ base.risk = p.risk
      /\ base.groups \subseteq p.groups /\ base.sudo \subseteq p.sudo /\ base.files \subseteq p.files
  BY <1>1
<1>3. MergeLayer(p, d) =
        [base EXCEPT
           !.groups = ApplyListOverride(@, d.groups), !.sudo = ApplyListOverride(@, d.sudo),
           !.files = @ \cup d.files, !.params = Over(d.params, @),
           !.risk = IF d.risk = NoRisk THEN @ ELSE d.risk,
           !.runas = IF d.runas = NoRunas THEN @ ELSE d.runas,
           !.limits = IF d.limits = NoLimits THEN @ ELSE d.limits]
  BY DEF MergeLayer, b
<1> HIDE DEF base
<1> DEFINE q == MergeLayer(p, d)
<1>4. /\ DOMAIN q = PermFields /\ q.bound = base.bound
      /\ q.risk = IF d.risk = NoRisk THEN base.risk ELSE d.risk
      /\ q.groups = ApplyListOverride(base.groups, d.groups)
      /\ q.sudo = ApplyListOverride(base.sudo, d.sudo)
      /\ q.files = base.files \cup d.files
  BY <1>2, <1>3 DEF PermFields
<1> HIDE DEF q
<1>5. \A acc, ov : ApplyListOverride(acc, ov) \subseteq acc \cup ov.vals
  BY DEF ApplyListOverride
<1>6. q.groups \subseteq p.groups \cup d.groups.vals
  BY <1>2, <1>4, <1>5
<1>7. q.sudo \subseteq p.sudo \cup d.sudo.vals
  BY <1>2, <1>4, <1>5
<1>8. q.files \subseteq p.files \cup d.files
  BY <1>2, <1>4
<1>9. q.risk = IF d.risk = NoRisk THEN p.risk ELSE d.risk
  BY <1>2, <1>4
<1>10. q.bound = p.bound
  BY <1>2, <1>4
<1> QED
  BY <1>4, <1>6, <1>7, <1>8, <1>9, <1>10 DEF q

LEMMA StampedFields ==
  ASSUME NEW p, DOMAIN p = PermFields
  PROVE  LET q == Stamped(p)
         IN /\ DOMAIN q = PermFields /\ q.bound = p.bound /\ q.risk = p.risk
            /\ q.files = UnionGrants(p.files)
            /\ q.sudo = {Prim(c, p.runas) : c \in p.sudo} /\ q.groups = {Prim(c, NoRunas) : c \in p.groups}
BY DEF Stamped, PermFields

\* The texts of the primitives of a permission are sequences of atoms.
WellWritten(p) ==
  /\ \A x \in p.groups \cup p.sudo : IsSeq(x.value.atoms)
  /\ \A g \in p.files : IsSeq(g.path.atoms)

LEMMA GrantsWritten ==
  ASSUME NEW S, \A g \in S : IsSeq(g.path.atoms)
  PROVE  \A g \in UnionGrants(S) : IsSeq(g.path.atoms)
BY DEF UnionGrants

\* A leaf that some file states, and none other.
LEMMA LeafKnown ==
  ASSUME KnownLib, NEW id
  PROVE  LET r == ResolveLeaf(lib, id)
         IN /\ r.ok <=> Stated(id)
            /\ ~r.ok => r = Fail("UnknownPermission")
            /\ r.ok => /\ r = [ok |-> TRUE, perm |-> r.perm]
                       /\ DOMAIN r.perm = PermFields /\ r.perm.bound = <<>> /\ r.perm.risk \in Risks
                       /\ WellWritten(r.perm) /\ UnionGrants(r.perm.files) = r.perm.files
<1> DEFINE n == Len(Layers)
<1>1. PICK f : MergeLayers(lib, id) = f[n] /\ \A k \in 0..n : f[k] = MergedTo(lib, id, f, k)
  BY MergedIs
<1>2. n \in Nat /\ DOMAIN Layers = 1..n
  BY CatalogAssumption
<1> DEFINE Fine(q) == /\ DOMAIN q = PermFields /\ q.bound = <<>> /\ q.risk \in Risks
                      /\ \A t \in q.groups \cup q.sudo : IsSeq(t.atoms)
                      /\ \A g \in q.files : IsSeq(g.path.atoms)
<1> DEFINE P == {k \in Nat : k <= n => Fine(f[k])}
<1>3. 0 \in P
  <2>1. f[0] = Blank(id)
    BY <1>1, <1>2 DEF MergedTo
  <2> QED
    BY <2>1 DEF Blank, PermFields, Risks
<1>4. ASSUME NEW j \in Nat, j \in P PROVE j + 1 \in P
  <2> SUFFICES ASSUME j + 1 <= n PROVE Fine(f[j + 1])
    OBVIOUS
  <2>1. PICK k \in 1..n : k = j + 1
    BY <1>2
  <2>2. Fine(f[j])
    BY <1>2, <1>4
  <2>3. k \in 0..n /\ k # 0 /\ k - 1 = j
    BY <2>1, <1>2
  <2>4. f[k] = MergedTo(lib, id, f, k)
    BY <2>3, <1>1
  <2>5. f[k] = IF DefFiles(lib, Layers[k], id) = <<>> THEN f[j] ELSE MergeLayer(f[j], DefOn(lib, Layers[k], id))
    BY <2>3, <2>4 DEF MergedTo
  <2>6. CASE DefFiles(lib, Layers[k], id) = <<>>
    BY <2>1, <2>2, <2>5, <2>6
  <2>7. CASE DefFiles(lib, Layers[k], id) # <<>>
    <3> DEFINE files == DefFiles(lib, Layers[k], id)
    <3>1. IsSeq(files) /\ Range(files) \subseteq lib
      BY FilesOnLayer
    <3> HIDE DEF files
    <3>2. files # <<>>
      BY <2>7 DEF files
    <3>3. files[1] \in Range(files)
      BY <3>1, <3>2 DEF IsSeq, Range
    <3>4. DraftOk(files[1])
      BY <3>1, <3>3, LibraryAssumption DEF KnownLib
    <3> DEFINE d == files[1].def
    <3>5. DefOn(lib, Layers[k], id) = d
      BY DEF DefOn, files
    <3>6. d.risk \in Risks /\ \A t \in d.groups.vals \cup d.sudo.vals \cup {g.path : g \in d.files} : IsSeq(t.atoms)
      BY <3>4 DEF DraftOk, DraftTexts, Risks
    <3> HIDE DEF d
    <3> DEFINE p == f[j]
    <3> DEFINE q == MergeLayer(p, d)
    <3>7. Fine(p)
      BY <2>2
    <3> HIDE DEF p
    <3>8. /\ DOMAIN q = PermFields /\ q.bound = p.bound
          /\ q.risk = IF d.risk = NoRisk THEN p.risk ELSE d.risk
          /\ q.groups \subseteq p.groups \cup d.groups.vals
          /\ q.sudo \subseteq p.sudo \cup d.sudo.vals
          /\ q.files \subseteq p.files \cup d.files
      BY <3>7, MergeFields
    <3> HIDE DEF q
    <3>9. Fine(q)
      BY <3>6, <3>7, <3>8
    <3> QED
      BY <3>9, <3>5, <2>1, <2>5, <2>7 DEF p, q
  <2> QED
    BY <2>6, <2>7
<1> HIDE DEF P
<1>5. n \in P
  BY <1>2, <1>3, <1>4, SetInduction
<1> DEFINE leaf == MergeLayers(lib, id)
<1>6. Fine(leaf)
  BY <1>1, <1>2, <1>5 DEF P
<1> HIDE DEF leaf, n
<1> DEFINE r == ResolveLeaf(lib, id)
<1>7. Stated(id) <=> \E layer \in Range(Layers) : DefFiles(lib, layer, id) # <<>>
  BY StatingFiles DEF Stated
<1>8. r = IF Stated(id) THEN [ok |-> TRUE, perm |-> Stamped(leaf)] ELSE Fail("UnknownPermission")
  BY <1>7 DEF ResolveLeaf, leaf
<1> DEFINE q == Stamped(leaf)
<1>9. /\ DOMAIN q = PermFields /\ q.bound = leaf.bound /\ q.risk = leaf.risk
      /\ q.files = UnionGrants(leaf.files)
      /\ q.sudo = {Prim(c, leaf.runas) : c \in leaf.sudo} /\ q.groups = {Prim(c, NoRunas) : c \in leaf.groups}
  BY <1>6, StampedFields
<1> HIDE DEF q
<1>10. WellWritten(q)
  <2>1. \A x \in q.groups \cup q.sudo : IsSeq(x.value.atoms)
    BY <1>6, <1>9 DEF Prim
  <2>2. \A g \in q.files : IsSeq(g.path.atoms)
    BY <1>6, <1>9, GrantsWritten
  <2> QED
    BY <2>1, <2>2 DEF WellWritten
<1>11. UnionGrants(q.files) = q.files
  BY <1>9, MergeIdempotent
<1>12. q.bound = <<>> /\ q.risk \in Risks
  BY <1>6, <1>9
<1>13. r = IF Stated(id) THEN [ok |-> TRUE, perm |-> q] ELSE Fail("UnknownPermission")
  BY <1>8 DEF q
<1> HIDE DEF r
<1>14. CASE Stated(id)
  BY <1>9, <1>10, <1>11, <1>12, <1>13, <1>14 DEF r
<1>15. CASE ~Stated(id)
  BY <1>13, <1>15 DEF Fail, r
<1> QED
  BY <1>14, <1>15

-----------------------------------------------------------------------------
(* One member joins a bundle.                                              *)

LEMMA FailFields == \A e : ~Fail(e).ok /\ Fail(e).ok = FALSE /\ Fail(e).err = e
BY DEF Fail

LEMMA TakingFields == \A p, s : Taking(p, s).ok /\ Taking(p, s).ok = TRUE /\ Taking(p, s).perm = p /\ Taking(p, s).risks = s
BY DEF Taking

\* The bundle after a member that has been taken.
TookBare(acc, m) == Taking(Joined(acc.perm, m.perm), acc.risks \cup {m.perm.risk})
TookRendered(acc, x, m) ==
  LET now == ExpandBoundMember([include |-> x, member |-> m.perm], <<>>, <<>>)
  IN Taking(Absorb(acc.perm, now), acc.risks \cup {m.perm.risk})
TookBound(acc, x, m) ==
  Taking([acc.perm EXCEPT !.bound = Append(@, [include |-> x, member |-> m.perm])],
         acc.risks \cup {m.perm.risk})

LEMMA TakeCases ==
  ASSUME NEW acc, NEW x, NEW m, Take(acc, x, m).ok
  PROVE  /\ acc.ok /\ m.ok /\ m.perm.bound = <<>>
         /\ \/ ~IsBound(x) /\ Take(acc, x, m) = TookBare(acc, m)
            \/ /\ IsBound(x) /\ ExpandBoundMember([include |-> x, member |-> m.perm], <<>>, <<>>).ok
               /\ Take(acc, x, m) = TookRendered(acc, x, m)
            \/ IsBound(x) /\ Take(acc, x, m) = TookBound(acc, x, m)
<1> DEFINE now == ExpandBoundMember([include |-> x, member |-> m.perm], <<>>, <<>>)
<1>1. CASE ~IsBound(x)
  <2>1. Take(acc, x, m) = TakeMember(acc, m)
    BY <1>1 DEF Take
  <2> QED
    BY <1>1, <2>1, FailFields DEF TakeMember, TookBare
<1>2. CASE IsBound(x)
  <2>1. Take(acc, x, m) = TakeBound(acc, x, m)
    BY <1>2 DEF Take
  <2>2. \/ ~acc.ok /\ Take(acc, x, m) = acc
        \/ acc.ok /\ ~m.ok /\ Take(acc, x, m) = m
        \/ acc.ok /\ m.ok /\ m.perm.bound # <<>> /\ Take(acc, x, m) = Fail("NestedParamMapping")
        \/ acc.ok /\ m.ok /\ m.perm.bound = <<>> /\ Take(acc, x, m) = TookBound(acc, x, m)
        \/ acc.ok /\ m.ok /\ m.perm.bound = <<>> /\ Take(acc, x, m) = TakeRendered(acc, m, now)
    BY <2>1 DEF TakeBound, TookBound
  <2>3. TakeRendered(acc, m, now).ok => now.ok /\ TakeRendered(acc, m, now) = TookRendered(acc, x, m)
    BY DEF TakeRendered, TookRendered
  <2> QED
    BY <1>2, <2>2, <2>3, FailFields
<1> QED
  BY <1>1, <1>2

\* t is acc with m taken; a bare one brings its primitives.
Took(t, acc, x, m) ==
  /\ DOMAIN t.perm = PermFields /\ t.perm.risk = acc.perm.risk
  /\ t.risks = acc.risks \cup {m.perm.risk}
  /\ ~IsBound(x) => Grown(t.perm, acc.perm, m.perm)

LEMMA TakeFields ==
  ASSUME NEW acc, DOMAIN acc.perm = PermFields, NEW x, NEW m, Take(acc, x, m).ok
  PROVE  Took(Take(acc, x, m), acc, x, m)
<1> DEFINE t == Take(acc, x, m)
<1> DEFINE now == ExpandBoundMember([include |-> x, member |-> m.perm], <<>>, <<>>)
<1>1. CASE ~IsBound(x)
  <2>1. t = TookBare(acc, m)
    BY <1>1, TakeCases
  <2> HIDE DEF t
  <2>2. t.perm = Joined(acc.perm, m.perm) /\ t.risks = acc.risks \cup {m.perm.risk}
    BY <2>1, TakingFields DEF TookBare
  <2>3. Grown(Joined(acc.perm, m.perm), acc.perm, m.perm)
    BY JoinedFields
  <2>4. Grown(t.perm, acc.perm, m.perm)
    BY <2>2, <2>3, Zenon
  <2> QED
    BY <2>2, <2>4 DEF t, Took, Grown
<1>2. CASE IsBound(x) /\ t = TookRendered(acc, x, m)
  <2> HIDE DEF t
  <2>2. t.perm = Absorb(acc.perm, now) /\ t.risks = acc.risks \cup {m.perm.risk}
    BY <1>2, TakingFields DEF TookRendered
  <2>3. Grown(Absorb(acc.perm, now), acc.perm, now)
    BY AbsorbFields
  <2> QED
    BY <1>2, <2>2, <2>3 DEF t, Took, Grown
<1>3. CASE IsBound(x) /\ t = TookBound(acc, x, m)
  <2> HIDE DEF t
  <2> DEFINE q == [acc.perm EXCEPT !.bound = Append(@, [include |-> x, member |-> m.perm])]
  <2>2. t.perm = q /\ t.risks = acc.risks \cup {m.perm.risk}
    BY <1>3, TakingFields DEF TookBound
  <2>3. DOMAIN q = PermFields /\ q.risk = acc.perm.risk
    BY DEF PermFields
  <2> QED
    BY <1>3, <2>2, <2>3 DEF t, Took
<1> QED
  BY <1>1, <1>2, <1>3, TakeCases

-----------------------------------------------------------------------------
(* A bundle that resolves has taken all of its members.                    *)

AllTaken(takes, members, a, k) ==
  \A j \in 1..k : LET m == members[takes[j].id] IN m.ok /\ m.perm.bound = <<>> /\ m.perm.risk \in a.risks

LEMMA LoopTakes ==
  ASSUME NEW first, first.ok => DOMAIN first.perm = PermFields,
         NEW takes, NEW members, NEW f, NEW n, Steps(first, takes, members, f, n)
  PROVE  \A k \in 0..n : f[k].ok => /\ first.ok /\ DOMAIN f[k].perm = PermFields
                                    /\ f[k].perm.risk = first.perm.risk
                                    /\ AllTaken(takes, members, f[k], k)
<1>1. n \in Nat /\ f[0] = first
  BY DEF Steps
<1> DEFINE Fine(k) == f[k].ok => /\ first.ok /\ DOMAIN f[k].perm = PermFields
                                 /\ f[k].perm.risk = first.perm.risk
                                 /\ AllTaken(takes, members, f[k], k)
<1> DEFINE P == {k \in Nat : k <= n => Fine(k)}
<1>2. 0 \in P
  BY <1>1 DEF AllTaken
<1>3. ASSUME NEW j \in Nat, j \in P PROVE j + 1 \in P
  <2> SUFFICES ASSUME j + 1 <= n, f[j + 1].ok PROVE Fine(j + 1)
    OBVIOUS
  <2>1. PICK k \in 1..n : k = j + 1
    BY <1>1
  <2>2. Fine(j)
    BY <1>1, <1>3
  <2>3. k - 1 = j
    BY <2>1
  <2> DEFINE m == members[takes[k].id]
  <2>4. f[k] = IF Repeated(takes, k) THEN f[j] ELSE Take(f[j], takes[k], m)
    BY <2>3 DEF Steps
  <2>5. CASE Repeated(takes, k)
    <3>1. f[k] = f[j] /\ f[j].ok
      BY <2>1, <2>4, <2>5
    <3>2. PICK i \in 1..j : takes[i] = takes[k]
      BY <2>3, <2>5 DEF Repeated
    <3>3. AllTaken(takes, members, f[j], j)
      BY <2>2, <3>1
    <3>4. AllTaken(takes, members, f[k], k)
      <4>1. \A l \in 1..k : l \in 1..j \/ l = k
        BY <2>1
      <4> QED
        BY <3>1, <3>2, <3>3, <4>1 DEF AllTaken
    <3> QED
      BY <2>1, <2>2, <3>1, <3>4
  <2>6. CASE ~Repeated(takes, k)
    <3> DEFINE a == f[j]
    <3> DEFINE t == Take(a, takes[k], m)
    <3>1. f[k] = t /\ t.ok
      BY <2>1, <2>4, <2>6
    <3>2. a.ok /\ m.ok /\ m.perm.bound = <<>>
      BY <3>1, TakeCases
    <3>3. DOMAIN a.perm = PermFields /\ first.ok /\ a.perm.risk = first.perm.risk /\ AllTaken(takes, members, a, j)
      BY <2>2, <3>2
    <3>4. DOMAIN t.perm = PermFields /\ t.perm.risk = a.perm.risk /\ t.risks = a.risks \cup {m.perm.risk}
      <4>1. DOMAIN a.perm = PermFields
        BY <3>3
      <4>2. Took(t, a, takes[k], m)
        BY <3>1, <4>1, TakeFields
      <4> HIDE DEF a, t, m
      <4> QED
        BY <4>2 DEF Took
    <3> HIDE DEF a, t
    <3>5. AllTaken(takes, members, t, k)
      <4>1. \A l \in 1..k : l \in 1..j \/ l = k
        BY <2>1
      <4> QED
        BY <3>2, <3>3, <3>4, <4>1 DEF AllTaken
    <3>6. Fine(k)
      BY <3>1, <3>3, <3>4, <3>5
    <3> QED
      BY <2>1, <3>6
  <2> QED
    BY <2>5, <2>6
<1> HIDE DEF P
<1>4. Nat \subseteq P
  BY <1>2, <1>3, SetInduction
<1> QED
  BY <1>1, <1>4 DEF P

-----------------------------------------------------------------------------
(* Induction over what is left of the include depth.                       *)

LEMMA PathInduction ==
  ASSUME NEW Good,
         \A path \in Seq(Ids), id \in Ids :
           (Len(path) < MaxIncludeDepth => \A m \in Ids : <<Append(path, id), m>> \in Good)
             => <<path, id>> \in Good
  PROVE  \A path \in Seq(Ids), id \in Ids : <<path, id>> \in Good
<1> DEFINE P == {n \in Nat : \A path \in Seq(Ids), id \in Ids : Len(path) + n >= MaxIncludeDepth => <<path, id>> \in Good}
<1>1. 0 \in P
  BY CatalogAssumption
<1>2. ASSUME NEW n \in Nat, n \in P PROVE n + 1 \in P
  <2>1. ASSUME NEW path \in Seq(Ids), NEW id \in Ids, Len(path) + (n + 1) >= MaxIncludeDepth
        PROVE  <<path, id>> \in Good
    <3>1. Append(path, id) \in Seq(Ids) /\ Len(Append(path, id)) + n >= MaxIncludeDepth
      BY <2>1, CatalogAssumption
    <3>2. \A m \in Ids : <<Append(path, id), m>> \in Good
      BY <1>2, <3>1
    <3> QED
      BY <3>2
  <2> QED
    BY <2>1
<1> HIDE DEF P
<1>3. MaxIncludeDepth \in P
  BY <1>1, <1>2, SetInduction, CatalogAssumption
<1> SUFFICES ASSUME NEW path \in Seq(Ids), NEW id \in Ids PROVE <<path, id>> \in Good
  OBVIOUS
<1>4. Len(path) + MaxIncludeDepth >= MaxIncludeDepth
  BY CatalogAssumption
<1> QED
  BY <1>3, <1>4 DEF P

-----------------------------------------------------------------------------
(* What an id resolves to below a path.                                    *)

Leaf(id) == ResolveLeaf(lib, id)
At(path, id) == InnerOf(lib)[path][id]
Under(path, id) == InnerOf(lib)[Append(path, id)]
Open(path, id) == id \notin Range(path) /\ Len(path) < MaxIncludeDepth

LEMMA AtIs ==
  ASSUME KnownLib, NEW path \in Seq(Ids), NEW id \in Ids
  PROVE  /\ id \in Range(path) => At(path, id) = Fail("Cycle")
         /\ id \notin Range(path) /\ Len(path) >= MaxIncludeDepth => At(path, id) = Fail("IncludeTooDeep")
         /\ Open(path, id) /\ IsLeaf(id) => At(path, id) = Leaf(id)
         /\ Open(path, id) /\ ~IsLeaf(id) =>
              At(path, id) = FinishBundle(TakeAll(Opened(Leaf(id)), TakesOf(id), Under(path, id)))
<1>1. At(path, id) = ResolveAt(lib, path, id, Under(path, id))
  BY InnerUnfolds DEF At, Under
<1>2. Len(path) \in Nat
  OBVIOUS
<1>3. Open(path, id) => ~(Len(path) >= MaxIncludeDepth)
  BY <1>2, CatalogAssumption DEF Open
<1>4. Open(path, id) => At(path, id) = ResolveOver(lib, Leaf(id), Includes(lib, id), Categories(lib, id), Under(path, id))
  BY <1>1, <1>3 DEF ResolveAt, Open, Leaf
<1>5. \A own, members : ResolveOver(lib, own, Includes(lib, id), Categories(lib, id), members) =
        IF IsLeaf(id) THEN own ELSE FinishBundle(TakeAll(Opened(own), TakesOf(id), members))
  BY DEF ResolveOver, ResolveBundle, TakesOf, IsLeaf, CategoryMembers
<1> QED
  BY <1>1, <1>4, <1>5 DEF ResolveAt

LEMMA RiskKinds ==
  \A declared, risks : declared \in Risks => BundleRisk(declared, risks) \in Risks
<1>1. \A risks : ComputedRisk(risks) \in Risks
  BY DEF ComputedRisk, Risks
<1> QED
  BY <1>1 DEF BundleRisk, RiskMax, Risks

\* The bundle before it is closed: a is what its members came to.
Closes(path, id, a, r) ==
  /\ a.ok /\ DOMAIN a.perm = PermFields /\ a.perm.risk = Leaf(id).perm.risk
  /\ AllTaken(TakesOf(id), Under(path, id), a, Len(TakesOf(id)))
  /\ ~(a.risks # {} /\ a.perm.risk # NoRisk /\ Rank(a.perm.risk) < Rank(ComputedRisk(a.risks)))
  /\ r = [ok |-> TRUE, perm |-> [a.perm EXCEPT !.risk = BundleRisk(@, a.risks)]]
  /\ DOMAIN r.perm = PermFields /\ r.perm.risk = BundleRisk(a.perm.risk, a.risks)
  /\ r.perm.groups = a.perm.groups /\ r.perm.sudo = a.perm.sudo /\ r.perm.files = a.perm.files
  /\ r.perm.bound = a.perm.bound /\ r.perm.params = a.perm.params

LEMMA BundleCloses ==
  ASSUME KnownLib, NEW path \in Seq(Ids), NEW id \in Ids, At(path, id).ok, ~IsLeaf(id)
  PROVE  /\ Open(path, id) /\ Leaf(id).ok
         /\ Closes(path, id, TakeAll(Opened(Leaf(id)), TakesOf(id), Under(path, id)), At(path, id))
<1> DEFINE own == Leaf(id)
<1> DEFINE first == Opened(own)
<1> DEFINE takes == TakesOf(id)
<1> DEFINE members == Under(path, id)
<1> DEFINE a == TakeAll(first, takes, members)
<1> DEFINE r == At(path, id)
<1>1. Open(path, id)
  <2>1. ~(id \notin Range(path) /\ Len(path) >= MaxIncludeDepth) /\ id \notin Range(path)
    BY AtIs, FailFields
  <2> QED
    BY <2>1, CatalogAssumption DEF Open
<1>2. r = FinishBundle(a)
  BY <1>1, AtIs
<1>3. IsSeq(takes)
  BY TakesKnown
<1>4. PICK f : Steps(first, takes, members, f, Len(takes))
  BY <1>3, TakenIs
<1>5. Len(takes) \in Nat /\ a = f[Len(takes)]
  BY <1>4 DEF Steps
<1>6. own.ok => first.ok /\ first.perm = own.perm /\ DOMAIN first.perm = PermFields
  <2>1. own.ok => DOMAIN own.perm = PermFields
    BY LeafKnown DEF Leaf
  <2> QED
    BY <2>1, TakingFields DEF Opened
<1>7. first.ok => own.ok
  BY DEF Opened
<1> HIDE DEF a, first, takes, members, own, r
<1>8. a.ok /\ ~(a.risks # {} /\ a.perm.risk # NoRisk /\ Rank(a.perm.risk) < Rank(ComputedRisk(a.risks)))
      /\ r = [ok |-> TRUE, perm |-> [a.perm EXCEPT !.risk = BundleRisk(@, a.risks)]]
  <2>1. r.ok
    BY DEF r
  <2> QED
    BY <2>1, <1>2, FailFields DEF FinishBundle
<1>9. first.ok /\ DOMAIN a.perm = PermFields /\ a.perm.risk = first.perm.risk /\ AllTaken(takes, members, a, Len(takes))
  <2>1. Len(takes) \in 0..Len(takes)
    BY <1>5
  <2> QED
    BY <2>1, <1>4, <1>5, <1>6, <1>7, <1>8, LoopTakes
<1>10. /\ DOMAIN r.perm = PermFields /\ r.perm.risk = BundleRisk(a.perm.risk, a.risks)
       /\ r.perm.groups = a.perm.groups /\ r.perm.sudo = a.perm.sudo /\ r.perm.files = a.perm.files
       /\ r.perm.bound = a.perm.bound /\ r.perm.params = a.perm.params
  BY <1>8, <1>9 DEF PermFields
<1>11. Closes(path, id, a, r)
  BY <1>6, <1>7, <1>8, <1>9, <1>10 DEF Closes, own, takes, members
<1> QED
  BY <1>1, <1>7, <1>9, <1>11 DEF own, first, takes, members, a, r

-----------------------------------------------------------------------------
(* Risk.                                                                   *)

\* An id below this one that is not contained.
Risky(d) == Stated(d) /\ IsLeaf(d) /\ Leaf(d).perm.risk # "contained"

LEMMA RiskyBundle ==
  ASSUME NEW declared, declared \in Risks, NEW risks, NoRisk \in risks \/ "escalation" \in risks,
         ~(risks # {} /\ declared # NoRisk /\ Rank(declared) < Rank(ComputedRisk(risks)))
  PROVE  BundleRisk(declared, risks) = "escalation"
<1>1. ComputedRisk(risks) = "escalation" /\ risks # {}
  BY DEF ComputedRisk
<1> QED
  BY <1>1 DEF BundleRisk, RiskMax, Rank, Risks, NoRisk

LEMMA MembersTaken ==
  ASSUME KnownLib, NEW path, NEW id, NEW a, AllTaken(TakesOf(id), Under(path, id), a, Len(TakesOf(id))),
         NEW m \in Direct(id)
  PROVE  /\ m \in Ids /\ At(Append(path, id), m).ok /\ At(Append(path, id), m).perm.bound = <<>>
         /\ At(Append(path, id), m).perm.risk \in a.risks
<1>1. PICK x \in Range(TakesOf(id)) : x.id = m
  BY TakesKnown
<1>2. PICK j \in 1..Len(TakesOf(id)) : TakesOf(id)[j] = x
  <2>1. IsSeq(TakesOf(id))
    BY TakesKnown
  <2>2. DOMAIN TakesOf(id) = 1..Len(TakesOf(id))
    BY <2>1 DEF IsSeq
  <2> QED
    BY <1>1, <2>2 DEF Range
<1>3. m \in Ids
  BY MembersKnown
<1> DEFINE q == Under(path, id)[TakesOf(id)[j].id]
<1>4. q.ok /\ q.perm.bound = <<>> /\ q.perm.risk \in a.risks
  BY DEF AllTaken
<1>5. q = At(Append(path, id), m)
  BY <1>1, <1>2 DEF At, Under
<1> QED
  BY <1>3, <1>4, <1>5, Zenon

LEMMA OpenIs ==
  ASSUME KnownLib, NEW path \in Seq(Ids), NEW id \in Ids, At(path, id).ok
  PROVE  Open(path, id) /\ (IsLeaf(id) => At(path, id) = Leaf(id)) /\ Leaf(id).ok
<1>1. Open(path, id)
  <2>1. ~(id \notin Range(path) /\ Len(path) >= MaxIncludeDepth) /\ id \notin Range(path)
    BY AtIs, FailFields
  <2> QED
    BY <2>1, CatalogAssumption DEF Open
<1>2. IsLeaf(id) => At(path, id) = Leaf(id)
  BY <1>1, AtIs
<1> QED
  BY <1>1, <1>2, BundleCloses

\* What a permission resolves to below a path has the shape of a permission and is
\* rated for the leaves it reaches.
Rated(path, id) ==
  At(path, id).ok =>
    /\ DOMAIN At(path, id).perm = PermFields /\ At(path, id).perm.risk \in Risks
    /\ \A d \in Below(id) : Risky(d) => At(path, id).perm.risk = "escalation"

LEMMA RatedStep ==
  ASSUME KnownLib, NEW path \in Seq(Ids), NEW id \in Ids,
         Len(path) < MaxIncludeDepth => \A m \in Ids : Rated(Append(path, id), m)
  PROVE  Rated(path, id)
<1> SUFFICES ASSUME At(path, id).ok PROVE Rated(path, id)
  BY DEF Rated
<1>1. CASE IsLeaf(id)
  <2>2. At(path, id) = Leaf(id)
    BY <1>1, OpenIs
  <2>3. DOMAIN Leaf(id).perm = PermFields /\ Leaf(id).perm.risk \in Risks
    BY <2>2, LeafKnown DEF Leaf
  <2>4. Direct(id) = {}
    BY <1>1, MembersKnown
  <2>5. Below(id) = {}
    BY <2>4, BelowStep
  <2> QED
    BY <2>2, <2>3, <2>5 DEF Rated
<1>2. CASE ~IsLeaf(id)
  <2> DEFINE a == TakeAll(Opened(Leaf(id)), TakesOf(id), Under(path, id))
  <2> DEFINE r == At(path, id)
  <2>1. Open(path, id) /\ Leaf(id).ok /\ Closes(path, id, a, r)
    BY <1>2, BundleCloses
  <2> HIDE DEF a, r
  <2>2. /\ DOMAIN r.perm = PermFields /\ r.perm.risk = BundleRisk(a.perm.risk, a.risks)
        /\ a.perm.risk = Leaf(id).perm.risk
        /\ ~(a.risks # {} /\ a.perm.risk # NoRisk /\ Rank(a.perm.risk) < Rank(ComputedRisk(a.risks)))
        /\ AllTaken(TakesOf(id), Under(path, id), a, Len(TakesOf(id)))
    BY <2>1 DEF Closes
  <2>3. a.perm.risk \in Risks
    BY <2>1, <2>2, LeafKnown DEF Leaf
  <2>4. r.perm.risk \in Risks
    BY <2>2, <2>3, RiskKinds
  <2>5. ASSUME NEW m \in Direct(id)
        PROVE  m \in Ids /\ At(Append(path, id), m).ok /\ At(Append(path, id), m).perm.risk \in a.risks
    BY <2>2, <2>5, MembersTaken
  <2>6. ASSUME NEW d \in Below(id), Risky(d) PROVE r.perm.risk = "escalation"
    <3>1. NoRisk \in a.risks \/ "escalation" \in a.risks
      <4>1. CASE d \in Direct(id)
        <5>1. d \in Ids /\ At(Append(path, id), d).ok /\ At(Append(path, id), d).perm.risk \in a.risks
          BY <4>1, <2>5
        <5>2. Append(path, id) \in Seq(Ids)
          OBVIOUS
        <5>4. At(Append(path, id), d) = Leaf(d)
          BY <2>6, <5>1, <5>2, OpenIs DEF Risky
        <5>5. Leaf(d).ok /\ Leaf(d).perm.risk \in a.risks
          BY <5>1, <5>4, Zenon
        <5>6. Leaf(d).perm.risk \in Risks
          BY <5>5, LeafKnown DEF Leaf
        <5> QED
          BY <2>6, <5>5, <5>6 DEF Risky, Risks
      <4>2. CASE d \notin Direct(id)
        <5>1. PICK m \in Direct(id) : d \in Below(m)
          BY <2>6, <4>2, BelowStep
        <5>2. m \in Ids /\ At(Append(path, id), m).ok /\ At(Append(path, id), m).perm.risk \in a.risks
          BY <5>1, <2>5
        <5>3. Rated(Append(path, id), m)
          BY <2>1, <5>2 DEF Open
        <5>4. At(Append(path, id), m).perm.risk = "escalation"
          BY <2>6, <5>1, <5>2, <5>3 DEF Rated
        <5> QED
          BY <5>2, <5>4
      <4> QED
        BY <4>1, <4>2
    <3>2. BundleRisk(a.perm.risk, a.risks) = "escalation"
      BY <2>2, <2>3, <3>1, RiskyBundle
    <3> QED
      BY <2>2, <3>2
  <2> QED
    BY <2>2, <2>4, <2>6 DEF Rated, r
<1> QED
  BY <1>1, <1>2

LEMMA AllRated ==
  ASSUME KnownLib
  PROVE  \A path \in Seq(Ids), id \in Ids : Rated(path, id)
<1> DEFINE Good == {x \in Seq(Ids) \X Ids : Rated(x[1], x[2])}
<1>1. \A path \in Seq(Ids), id \in Ids : <<path, id>> \in Good <=> Rated(path, id)
  OBVIOUS
<1> HIDE DEF Good
<1>2. ASSUME NEW path \in Seq(Ids), NEW id \in Ids,
             Len(path) < MaxIncludeDepth => \A m \in Ids : <<Append(path, id), m>> \in Good
      PROVE  <<path, id>> \in Good
  <2>1. Append(path, id) \in Seq(Ids)
    OBVIOUS
  <2>2. Len(path) < MaxIncludeDepth => \A m \in Ids : Rated(Append(path, id), m)
    BY <1>1, <1>2, <2>1
  <2>3. Rated(path, id)
    BY <2>2, RatedStep
  <2> QED
    BY <1>1, <2>3
<1>3. \A path \in Seq(Ids), id \in Ids : <<path, id>> \in Good
  BY <1>2, PathInduction
<1> QED
  BY <1>1, <1>3

LEMMA ResolveIs ==
  ASSUME NEW id \in Ids, Resolve(lib, id).ok
  PROVE  ~ReadFails(lib) /\ Resolve(lib, id) = At(<<>>, id)
<1>1. ~ReadFails(lib)
  BY FailFields DEF Resolve
<1>2. Resolve(lib, id) = ResolveInner(lib)[id]
  BY <1>1 DEF Resolve
<1> QED
  BY <1>1, <1>2, InnerUnfolds DEF At

LEMMA RiskIsRated ==
  ASSUME KnownLib
  PROVE  RiskHonest
<1> SUFFICES ASSUME NEW id \in Ids, Resolve(lib, id).ok, NEW d \in Below(id), Risky(d)
             PROVE  Resolve(lib, id).perm.risk = "escalation"
  BY DEF RiskHonest, Risky, Leaf
<1>1. Resolve(lib, id) = At(<<>>, id)
  BY ResolveIs
<1>2. <<>> \in Seq(Ids)
  OBVIOUS
<1>3. Rated(<<>>, id)
  BY <1>2, AllRated
<1> QED
  BY <1>1, <1>3 DEF Rated

LEMMA LibStaysKnown ==
  Spec => []KnownLib
<1>1. Init => KnownLib
  BY DEF Init, KnownLib
<1>2. ASSUME KnownLib, [Next]_vars PROVE KnownLib'
  <2>1. CASE \E f \in Drafts : Publish(f)
    BY <1>2, <2>1 DEF Publish, KnownLib
  <2>2. CASE \E f \in Drafts : Withdraw(f)
    BY <1>2, <2>2 DEF Withdraw, KnownLib
  <2>3. CASE \E c \in Comps : EditRole(c)
    BY <1>2, <2>3 DEF EditRole, KnownLib
  <2>4. CASE UNCHANGED vars
    BY <1>2, <2>4 DEF vars, KnownLib
  <2> QED
    BY <1>2, <2>1, <2>2, <2>3, <2>4 DEF Next
<1> QED
  BY <1>1, <1>2, PTL DEF Spec

\* For every catalog: a bundle that resolves is never rated below a leaf it
\* reaches, however deep and whether its include binds parameters or not, and a
\* leaf of undeclared risk counts as an escalation (resolve_inner's fold of risk).
THEOREM BundleRiskIsHonest == Spec => []RiskHonest
<1>1. KnownLib => RiskHonest
  BY RiskIsRated
<1> QED
  BY <1>1, LibStaysKnown, PTL

-----------------------------------------------------------------------------
(* What a bundle of bare includes grants.                                  *)

\* An id that reaches stated ids alone, and by bare includes.
AllBare(id) == \A d \in Below(id) \cup {id} : Stated(d) /\ \A inc \in Range(Includes(lib, d)) : ~IsBound(inc)

\* p grants what the permissions perms[d] state, d in all.
SumOf(p, perms, all) ==
  /\ p.sudo = UNION {perms[d].sudo : d \in all}
  /\ p.groups = UNION {perms[d].groups : d \in all}
  /\ p.files = UnionGrants(UNION {perms[d].files : d \in all})

\* After k members: a is the sum of what the bundle states and of those members.
SoFar(a, own, members, takes, k) ==
  /\ a.perm.sudo = own.sudo \cup UNION {members[takes[j].id].perm.sudo : j \in 1..k}
  /\ a.perm.groups = own.groups \cup UNION {members[takes[j].id].perm.groups : j \in 1..k}
  /\ a.perm.files = UnionGrants(own.files \cup UNION {members[takes[j].id].perm.files : j \in 1..k})

LEMMA LoopSums ==
  ASSUME NEW first, first.ok => DOMAIN first.perm = PermFields, UnionGrants(first.perm.files) = first.perm.files,
         NEW takes, NEW members, NEW f, NEW n, Steps(first, takes, members, f, n),
         \A x \in Range(takes) : ~IsBound(x)
  PROVE  \A k \in 0..n : f[k].ok => SoFar(f[k], first.perm, members, takes, k)
<1> DEFINE own == first.perm
<1> DEFINE part(j) == members[takes[j].id].perm
<1>1. n \in Nat /\ f[0] = first /\ DOMAIN takes = 1..n
  BY DEF Steps
<1> DEFINE Fine(k) == f[k].ok => SoFar(f[k], own, members, takes, k)
<1> DEFINE P == {k \in Nat : k <= n => Fine(k)}
<1>2. 0 \in P
  <2>1. 1..0 = {}
    OBVIOUS
  <2>2. /\ own.sudo = own.sudo \cup UNION {part(j).sudo : j \in 1..0}
        /\ own.groups = own.groups \cup UNION {part(j).groups : j \in 1..0}
        /\ own.files \cup UNION {part(j).files : j \in 1..0} = own.files
    BY <2>1
  <2>3. own.files = UnionGrants(own.files \cup UNION {part(j).files : j \in 1..0})
    BY <2>2, Zenon
  <2>4. SoFar(first, own, members, takes, 0)
    BY <2>2, <2>3, Zenon DEF SoFar
  <2> QED
    BY <1>1, <2>4
<1>3. ASSUME NEW j \in Nat, j \in P PROVE j + 1 \in P
  <2> SUFFICES ASSUME j + 1 <= n, f[j + 1].ok PROVE SoFar(f[j + 1], own, members, takes, j + 1)
    OBVIOUS
  <2>1. PICK k \in 1..n : k = j + 1
    BY <1>1
  <2>2. Fine(j)
    BY <1>1, <1>3
  <2>3. k - 1 = j /\ 1..k = (1..j) \cup {k}
    BY <2>1
  <2> DEFINE m == members[takes[k].id]
  <2> DEFINE s == UNION {part(i).sudo : i \in 1..j}
  <2> DEFINE g == UNION {part(i).groups : i \in 1..j}
  <2> DEFINE h == UNION {part(i).files : i \in 1..j}
  <2>9. /\ (UNION {part(i).sudo : i \in 1..k}) = s \cup m.perm.sudo
        /\ (UNION {part(i).groups : i \in 1..k}) = g \cup m.perm.groups
        /\ (UNION {part(i).files : i \in 1..k}) = h \cup m.perm.files
    BY <2>3
  <2>4. f[k] = IF Repeated(takes, k) THEN f[j] ELSE Take(f[j], takes[k], m)
    BY <2>3 DEF Steps
  <2>5. CASE Repeated(takes, k)
    <3>1. f[k] = f[j] /\ f[j].ok
      BY <2>1, <2>4, <2>5
    <3>2. PICK i \in 1..j : takes[i] = takes[k]
      BY <2>3, <2>5 DEF Repeated
    <3>3. m.perm.sudo \subseteq s /\ m.perm.groups \subseteq g /\ m.perm.files \subseteq h
      BY <3>2
    <3> DEFINE a == f[j]
    <3>4. /\ a.perm.sudo = own.sudo \cup s
          /\ a.perm.groups = own.groups \cup g
          /\ a.perm.files = UnionGrants(own.files \cup h)
      BY <2>2, <3>1, Zenon DEF SoFar
    <3>5. f[k] = a
      BY <3>1
    <3> HIDE DEF a, s, g, h, m, own
    <3>6. /\ a.perm.sudo = own.sudo \cup (s \cup m.perm.sudo)
          /\ a.perm.groups = own.groups \cup (g \cup m.perm.groups)
      BY <3>3, <3>4
    <3>7. a.perm.files = UnionGrants(own.files \cup (h \cup m.perm.files))
      <4>1. own.files \cup (h \cup m.perm.files) = own.files \cup h
        BY <3>3
      <4> QED
        BY <4>1, <3>4, Zenon
    <3>8. SoFar(f[k], own, members, takes, k)
      BY <3>5, <3>6, <3>7, <2>9, Zenon DEF SoFar
    <3> QED
      BY <2>1, <3>8
  <2>6. CASE ~Repeated(takes, k)
    <3> DEFINE a == f[j]
    <3> DEFINE t == Take(a, takes[k], m)
    <3>1. f[k] = t /\ t.ok
      BY <2>1, <2>4, <2>6
    <3>2. a.ok
      BY <3>1, TakeCases
    <3>3. DOMAIN a.perm = PermFields
      <4>1. j \in 0..n
        BY <1>1
      <4> QED
        BY <3>2, <4>1, LoopTakes
    <3>4. Took(t, a, takes[k], m)
      BY <3>1, <3>3, TakeFields
    <3>5. ~IsBound(takes[k])
      BY <1>1 DEF Range
    <3>6. Grown(t.perm, a.perm, m.perm)
      BY <3>4, <3>5 DEF Took
    <3>7. /\ a.perm.sudo = own.sudo \cup s
          /\ a.perm.groups = own.groups \cup g
          /\ a.perm.files = UnionGrants(own.files \cup h)
      BY <2>2, <3>2, Zenon DEF SoFar
    <3>8. f[k] = t
      BY <3>1
    <3> HIDE DEF a, t, s, g, h, m, own
    <3>9. /\ t.perm.sudo = own.sudo \cup (s \cup m.perm.sudo)
          /\ t.perm.groups = own.groups \cup (g \cup m.perm.groups)
      BY <3>6, <3>7 DEF Grown
    <3>10. t.perm.files = UnionGrants(own.files \cup (h \cup m.perm.files))
      <4> DEFINE A == own.files \cup h
      <4>1. t.perm.files = UnionGrants(UnionGrants(A) \cup m.perm.files)
        BY <3>6, <3>7 DEF Grown
      <4>2. UnionGrants(UnionGrants(A) \cup m.perm.files) = UnionGrants(A \cup m.perm.files)
        BY MergeLeft
      <4>3. A \cup m.perm.files = own.files \cup (h \cup m.perm.files)
        OBVIOUS
      <4> QED
        BY <4>1, <4>2, <4>3, Zenon
    <3>11. SoFar(f[k], own, members, takes, k)
      BY <3>8, <3>9, <3>10, <2>9, Zenon DEF SoFar
    <3> QED
      BY <2>1, <3>11
  <2> QED
    BY <2>5, <2>6
<1> HIDE DEF P
<1>4. Nat \subseteq P
  BY <1>2, <1>3, SetInduction
<1> QED
  BY <1>1, <1>4 DEF P

LEMMA BareBelow ==
  ASSUME KnownLib, NEW id \in Ids, AllBare(id), NEW m \in Direct(id)
  PROVE  AllBare(m)
<1>1. Below(m) \cup {m} \subseteq Below(id)
  BY BelowStep
<1> QED
  BY <1>1 DEF AllBare

Leaves == [d \in Ids |-> Leaf(d).perm]
Summed(path, id) ==
  At(path, id).ok /\ AllBare(id) => SumOf(At(path, id).perm, Leaves, Below(id) \cup {id})

LEMMA SummedStep ==
  ASSUME KnownLib, NEW path \in Seq(Ids), NEW id \in Ids,
         Len(path) < MaxIncludeDepth => \A m \in Ids : Summed(Append(path, id), m)
  PROVE  Summed(path, id)
<1> SUFFICES ASSUME At(path, id).ok, AllBare(id) PROVE SumOf(At(path, id).perm, Leaves, Below(id) \cup {id})
  BY DEF Summed
<1> DEFINE r == At(path, id).perm
<1> DEFINE own == Leaf(id).perm
<1>0. Open(path, id) /\ Leaf(id).ok /\ UnionGrants(own.files) = own.files /\ DOMAIN own = PermFields
  BY OpenIs, LeafKnown DEF Leaf
<1>1. CASE IsLeaf(id)
  <2>1. r = own
    BY <1>1, OpenIs
  <2>2. Below(id) \cup {id} = {id}
    BY <1>1, MembersKnown, BelowStep
  <2>3. Leaves[id] = own
    BY DEF Leaves
  <2> HIDE DEF own, r
  <2>4. /\ (UNION {Leaves[d].sudo : d \in {id}}) = own.sudo
        /\ (UNION {Leaves[d].groups : d \in {id}}) = own.groups
        /\ (UNION {Leaves[d].files : d \in {id}}) = own.files
    BY <2>3
  <2>5. SumOf(r, Leaves, {id})
    BY <1>0, <2>1, <2>4, Zenon DEF SumOf
  <2> QED
    BY <2>2, <2>5, Zenon DEF r
<1>2. CASE ~IsLeaf(id)
  <2> DEFINE first == Opened(Leaf(id))
  <2> DEFINE takes == TakesOf(id)
  <2> DEFINE members == Under(path, id)
  <2> DEFINE a == TakeAll(first, takes, members)
  <2> DEFINE n == Len(takes)
  <2>1. Closes(path, id, a, At(path, id))
    BY <1>2, BundleCloses
  <2>2. IsSeq(takes) /\ \A x \in Range(takes) : ~IsBound(x)
    BY TakesKnown DEF AllBare
  <2>3. PICK f : Steps(first, takes, members, f, n)
    BY <2>2, TakenIs
  <2>4. n \in Nat /\ a = f[n] /\ DOMAIN takes = 1..n
    BY <2>3 DEF Steps
  <2>5. first.perm = own
    BY <1>0, TakingFields DEF Opened
  <2>6. SoFar(a, own, members, takes, n)
    <3>1. n \in 0..n /\ f[n].ok
      BY <2>1, <2>4 DEF Closes
    <3> HIDE DEF first, takes, members, a, n
    <3>2. SoFar(f[n], first.perm, members, takes, n)
      BY <3>1, <2>2, <2>3, <2>5, <1>0, LoopSums
    <3> QED
      BY <3>2, <2>4, <2>5, Zenon
  <2> DEFINE M == Direct(id)
  <2> DEFINE q(m) == At(Append(path, id), m).perm
  <2> DEFINE X(m) == Below(m) \cup {m}
  <2>7. M \subseteq Ids /\ \A m \in M : SumOf(q(m), Leaves, X(m))
    <3>1. AllTaken(takes, members, a, n)
      BY <2>1 DEF Closes
    <3>2. ASSUME NEW m \in M PROVE m \in Ids /\ SumOf(q(m), Leaves, X(m))
      <4>1. m \in Ids /\ At(Append(path, id), m).ok
        BY <3>1, <3>2, MembersTaken
      <4>2. AllBare(m)
        BY <3>2, BareBelow
      <4>3. Summed(Append(path, id), m)
        BY <1>0, <4>1 DEF Open
      <4> QED
        BY <4>1, <4>2, <4>3 DEF Summed
    <3> QED
      BY <3>2
  <2>8. M = {takes[j].id : j \in 1..n} /\ \A m : members[m].perm = q(m)
    <3>1. M = {x.id : x \in Range(takes)}
      BY TakesKnown
    <3>2. \A m : members[m].perm = q(m)
      BY DEF At, Under
    <3> HIDE DEF M, takes, n, q, members
    <3>3. M = {takes[j].id : j \in 1..n}
      BY <3>1, <2>4 DEF Range
    <3> QED
      BY <3>2, <3>3
  <2>9. r.sudo = a.perm.sudo /\ r.groups = a.perm.groups /\ r.files = a.perm.files
    BY <2>1 DEF Closes
  <2>10. Leaves[id] = own
    BY DEF Leaves
  <2>11. Below(id) \cup {id} = {id} \cup UNION {X(m) : m \in M}
    BY BelowStep
  <2> HIDE DEF own, r, first, takes, members, a, n, M, q, X
  <2>12. /\ (UNION {members[takes[j].id].perm.sudo : j \in 1..n}) = UNION {q(m).sudo : m \in M}
         /\ (UNION {members[takes[j].id].perm.groups : j \in 1..n}) = UNION {q(m).groups : m \in M}
         /\ (UNION {members[takes[j].id].perm.files : j \in 1..n}) = UNION {q(m).files : m \in M}
    BY <2>8
  <2> DEFINE all == {id} \cup UNION {X(m) : m \in M}
  <2>13. r.sudo = UNION {Leaves[d].sudo : d \in all}
    <3>1. r.sudo = own.sudo \cup UNION {q(m).sudo : m \in M}
      BY <2>6, <2>9, <2>12, Zenon DEF SoFar
    <3>2. \A m \in M : q(m).sudo = UNION {Leaves[d].sudo : d \in X(m)}
      BY <2>7 DEF SumOf
    <3> QED
      BY <3>1, <3>2, <2>10
  <2>14. r.groups = UNION {Leaves[d].groups : d \in all}
    <3>1. r.groups = own.groups \cup UNION {q(m).groups : m \in M}
      BY <2>6, <2>9, <2>12, Zenon DEF SoFar
    <3>2. \A m \in M : q(m).groups = UNION {Leaves[d].groups : d \in X(m)}
      BY <2>7 DEF SumOf
    <3> QED
      BY <3>1, <3>2, <2>10
  <2>15. r.files = UnionGrants(UNION {Leaves[d].files : d \in all})
    <3>1. r.files = UnionGrants(own.files \cup UNION {q(m).files : m \in M})
      BY <2>6, <2>9, <2>12, Zenon DEF SoFar
    <3> DEFINE Y == [m \in M |-> UNION {Leaves[d].files : d \in X(m)}]
    <3>2. \A m \in M : q(m).files = UnionGrants(Y[m])
      BY <2>7 DEF SumOf
    <3>3. \A m \in M : Y[m] = UNION {Leaves[d].files : d \in X(m)}
      OBVIOUS
    <3> HIDE DEF Y
    <3>4. (UNION {q(m).files : m \in M}) = MergedAll(M, Y)
      BY <3>2 DEF MergedAll
    <3>5. UnionGrants(own.files \cup MergedAll(M, Y)) = UnionGrants(own.files \cup AllOf(M, Y))
      BY MergeMany
    <3>6. own.files \cup AllOf(M, Y) = UNION {Leaves[d].files : d \in all}
      BY <3>3, <2>10 DEF AllOf
    <3> QED
      BY <3>1, <3>4, <3>5, <3>6, Zenon
  <2>16. SumOf(r, Leaves, all)
    BY <2>13, <2>14, <2>15, Zenon DEF SumOf
  <2> QED
    BY <2>11, <2>16, Zenon DEF r
<1> QED
  BY <1>1, <1>2

LEMMA AllSummed ==
  ASSUME KnownLib
  PROVE  \A path \in Seq(Ids), id \in Ids : Summed(path, id)
<1> DEFINE Good == {x \in Seq(Ids) \X Ids : Summed(x[1], x[2])}
<1>1. \A path \in Seq(Ids), id \in Ids : <<path, id>> \in Good <=> Summed(path, id)
  OBVIOUS
<1> HIDE DEF Good
<1>2. ASSUME NEW path \in Seq(Ids), NEW id \in Ids,
             Len(path) < MaxIncludeDepth => \A m \in Ids : <<Append(path, id), m>> \in Good
      PROVE  <<path, id>> \in Good
  <2>1. Append(path, id) \in Seq(Ids)
    OBVIOUS
  <2>2. Len(path) < MaxIncludeDepth => \A m \in Ids : Summed(Append(path, id), m)
    BY <1>1, <1>2, <2>1
  <2>3. Summed(path, id)
    BY <2>2, SummedStep
  <2> QED
    BY <1>1, <2>3
<1>3. \A path \in Seq(Ids), id \in Ids : <<path, id>> \in Good
  BY <1>2, PathInduction
<1> QED
  BY <1>1, <1>3

LEMMA ClosureIsExact ==
  ASSUME KnownLib
  PROVE  ClosureExact
<1> SUFFICES ASSUME NEW id \in Ids, Resolve(lib, id).ok, AllBare(id)
             PROVE  LET r == Resolve(lib, id)
                        leaves == {ResolveLeaf(lib, d).perm : d \in Below(id) \cup {id}}
                    IN /\ r.perm.sudo = UNION {p.sudo : p \in leaves}
                       /\ r.perm.groups = UNION {p.groups : p \in leaves}
                       /\ r.perm.files = UnionGrants(UNION {p.files : p \in leaves})
  BY DEF ClosureExact, AllBare
<1> DEFINE r == Resolve(lib, id)
<1> DEFINE all == Below(id) \cup {id}
<1> DEFINE leaves == {ResolveLeaf(lib, d).perm : d \in all}
<1>1. r = At(<<>>, id)
  BY ResolveIs
<1>2. <<>> \in Seq(Ids)
  OBVIOUS
<1>3. Summed(<<>>, id)
  BY <1>2, AllSummed
<1>4. SumOf(r.perm, Leaves, all)
  BY <1>1, <1>3 DEF Summed
<1>5. all \subseteq Ids
  BY BelowGrows
<1> HIDE DEF r, all
<1>6. leaves = {Leaves[d] : d \in all}
  BY <1>5 DEF Leaves, Leaf
<1> HIDE DEF leaves
<1>7. /\ (UNION {Leaves[d].sudo : d \in all}) = UNION {p.sudo : p \in leaves}
      /\ (UNION {Leaves[d].groups : d \in all}) = UNION {p.groups : p \in leaves}
      /\ (UNION {Leaves[d].files : d \in all}) = UNION {p.files : p \in leaves}
  BY <1>6
<1>8. /\ r.perm.sudo = UNION {p.sudo : p \in leaves}
      /\ r.perm.groups = UNION {p.groups : p \in leaves}
      /\ r.perm.files = UnionGrants(UNION {p.files : p \in leaves})
  BY <1>4, <1>7, Zenon DEF SumOf
<1> QED
  BY <1>8 DEF r, leaves, all

\* For every catalog: a bundle of bare includes grants exactly what the leaves of
\* its include closure grant, files merged by path once, whatever the order and
\* the nesting in which resolve_inner walks them.
THEOREM BundlesGrantTheirClosure == Spec => []ClosureExact
<1>1. KnownLib => ClosureExact
  BY ClosureIsExact
<1> QED
  BY <1>1, LibStaysKnown, PTL

-----------------------------------------------------------------------------
(* Rendering a text.                                                       *)

Finished(x) == IsSeq(x.atoms) /\ ~HasPlaceholder(x)
ParamsOk(params) == \A p \in DOMAIN params : ParamOk(params[p])

LEMMA SubstituteFinishes ==
  ASSUME NEW t, IsSeq(t.atoms), NEW f, Placeholders(t) \subseteq DOMAIN f, \A p \in DOMAIN f : Finished(f[p])
  PROVE  Finished(Substitute(t, f))
<1> DEFINE s == t.atoms
<1> DEFINE ss == [i \in DOMAIN s |-> IF s[i] \in DOMAIN f THEN f[s[i]].atoms ELSE <<s[i]>>]
<1>1. Substitute(t, f).atoms = FlattenSeq(ss)
  BY DEF Substitute
<1>2. DOMAIN s = 1..Len(s) /\ Len(s) \in Nat
  BY DEF IsSeq
<1>3. DOMAIN ss = 1..Len(s) /\ \A i \in 1..Len(s) : ss[i] = IF s[i] \in DOMAIN f THEN f[s[i]].atoms ELSE <<s[i]>>
  BY <1>2
<1>4. IsSeq(ss)
  BY <1>2, <1>3, FunctionSeq
<1> HIDE DEF ss
<1>5. ASSUME NEW i \in DOMAIN ss PROVE IsSeq(ss[i]) /\ Range(ss[i]) \cap Params = {}
  <2>1. CASE s[i] \in DOMAIN f
    <3>1. ss[i] = f[s[i]].atoms /\ Finished(f[s[i]])
      BY <1>3, <2>1
    <3>2. Range(f[s[i]].atoms) \cap Params = {}
      BY <3>1 DEF Finished, HasPlaceholder, Placeholders
    <3>3. IsSeq(f[s[i]].atoms)
      BY <3>1 DEF Finished
    <3> QED
      BY <3>1, <3>2, <3>3, Zenon
  <2>2. CASE s[i] \notin DOMAIN f
    <3>1. ss[i] = <<s[i]>>
      BY <1>3, <2>2
    <3>2. s[i] \in Range(t.atoms)
      BY <1>2, <1>3 DEF Range
    <3>3. s[i] \notin Params
      BY <2>2, <3>2 DEF Placeholders
    <3>4. IsSeq(<<s[i]>>) /\ Range(<<s[i]>>) = {s[i]}
      BY Singles
    <3> QED
      BY <3>1, <3>3, <3>4
  <2> QED
    BY <2>1, <2>2
<1>6. IsSeq(FlattenSeq(ss)) /\ Range(FlattenSeq(ss)) = UNION {Range(ss[i]) : i \in DOMAIN ss}
  BY <1>4, <1>5, Flattened
<1>7. Range(FlattenSeq(ss)) \cap Params = {}
  BY <1>5, <1>6
<1> QED
  BY <1>1, <1>6, <1>7 DEF Finished, HasPlaceholder, Placeholders

\* A value that a placeholder may take.
LEMMA ValueFinished ==
  ASSUME NEW params, ParamsOk(params), NEW constraints, NEW p, ParamError(p, params, constraints) = "none"
  PROVE  /\ p \in DOMAIN params /\ params[p].form # "other" /\ IsSeq(params[p].items)
         /\ params[p].form # "list" => Len(params[p].items) = 1
         /\ \A v \in Range(params[p].items) : Finished(v)
<1>1. p \in DOMAIN params /\ params[p].form # "other" /\ \A v \in Range(params[p].items) : ~ParamValueDefect(v)
  BY DEF ParamError
<1>2. ParamOk(params[p])
  BY <1>1 DEF ParamsOk
<1>3. /\ IsSeq(params[p].items) /\ (params[p].form = "scalar" => Len(params[p].items) = 1)
      /\ params[p].form \in {"scalar", "list", "other"} /\ \A v \in Range(params[p].items) : ValueOk(v)
  BY <1>2 DEF ParamOk
<1>4. ASSUME NEW v \in Range(params[p].items) PROVE Finished(v)
  <2>1. IsSeq(v.atoms) /\ (HasPlaceholder(v) => "meta" \in v.marks)
    BY <1>3 DEF ValueOk
  <2>2. ~ParamValueDefect(v)
    BY <1>1
  <2>3. v.marks \cap {"ctl", "blank", "meta", "star"} = {}
    BY <2>2 DEF ParamValueDefect
  <2>4. "meta" \notin v.marks
    BY <2>3
  <2> QED
    BY <2>1, <2>4 DEF Finished
<1> QED
  BY <1>1, <1>3, <1>4

LEMMA RenderIs ==
  ASSUME NEW t, NEW params, NEW constraints, Render(t, params, constraints).ok
  PROVE  LET lists == ListsAmong(Placeholders(t), params)
         IN /\ \A p \in Placeholders(t) : ParamError(p, params, constraints) = "none"
            /\ \A p, q \in lists : p = q
            /\ Render(t, params, constraints) = RenderWith(t, lists, params)
<1> DEFINE lists == ListsAmong(Placeholders(t), params)
<1>1. Render(t, params, constraints) = RenderOver(t, lists, params, constraints)
  BY DEF Render
<1> HIDE DEF lists
<1>2. Renderable(t, lists, params, constraints) /\ RenderOver(t, lists, params, constraints) = RenderWith(t, lists, params)
  BY <1>1, FailFields DEF RenderOver
<1> QED
  BY <1>1, <1>2 DEF Renderable, lists

\* Each text of a rendering takes one of the values of each placeholder.
PickedFrom(f, names, params) == f \in [names -> ValuesOf(params)] /\ \A p \in names : f[p] \in Range(params[p].items)

LEMMA RenderPicks ==
  ASSUME NEW t, NEW params, ParamsOk(params), NEW constraints, Render(t, params, constraints).ok,
         NEW x \in Range(Render(t, params, constraints).texts)
  PROVE  /\ \A p \in Placeholders(t) : ParamError(p, params, constraints) = "none"
         /\ \E f : PickedFrom(f, Placeholders(t), params) /\ x = Substitute(t, f)
<1> DEFINE names == Placeholders(t)
<1> DEFINE lists == ListsAmong(names, params)
<1> DEFINE n == IF lists = {} THEN 1 ELSE Len(params[CHOOSE p \in lists : TRUE].items)
<1> DEFINE texts == Render(t, params, constraints).texts
<1>1. /\ \A p \in names : ParamError(p, params, constraints) = "none"
      /\ \A p, q \in lists : p = q
      /\ Render(t, params, constraints) = RenderWith(t, lists, params)
  BY RenderIs
<1>2. texts = [k \in 1..n |-> Substitute(t, Picked(names, lists, params, k))]
  BY <1>1 DEF RenderWith
<1>3. \A p \in names : /\ p \in DOMAIN params /\ IsSeq(params[p].items)
                       /\ params[p].form # "list" => Len(params[p].items) = 1
  BY <1>1, ValueFinished
<1>4. \A p \in lists : p \in names /\ params[p].form = "list"
  BY DEF ListsAmong
<1>5. \A p \in names : p \notin lists => params[p].form # "list"
  BY <1>3 DEF ListsAmong
<1>6. \A p \in lists : n = Len(params[p].items)
  <2> SUFFICES ASSUME NEW p \in lists PROVE n = Len(params[p].items)
    OBVIOUS
  <2>1. (CHOOSE q \in lists : TRUE) \in lists
    OBVIOUS
  <2>2. (CHOOSE q \in lists : TRUE) = p
    BY <2>1, <1>1
  <2> HIDE DEF lists
  <2>3. lists # {}
    OBVIOUS
  <2> QED
    BY <2>2, <2>3
<1>7. x \in Range(texts)
  OBVIOUS
<1> HIDE DEF texts, n, lists, names
<1>8. PICK k \in 1..n : x = Substitute(t, Picked(names, lists, params, k))
  BY <1>2, <1>7 DEF Range
<1> DEFINE f == Picked(names, lists, params, k)
<1>9. f = [p \in names |-> params[p].items[IF p \in lists THEN k ELSE 1]]
  BY DEF Picked
<1>10. DOMAIN f = names /\ \A p \in names : f[p] = params[p].items[IF p \in lists THEN k ELSE 1]
  BY <1>9
<1>11. ASSUME NEW p \in names PROVE f[p] \in Range(params[p].items) /\ p \in DOMAIN params
  <2> DEFINE s == params[p].items
  <2>1. IsSeq(s) /\ (p \notin lists => Len(s) = 1) /\ (p \in lists => Len(s) = n)
    BY <1>3, <1>5, <1>6
  <2>2. f[p] = s[IF p \in lists THEN k ELSE 1]
    BY <1>10
  <2> HIDE DEF s, f
  <2>3. DOMAIN s = 1..Len(s)
    BY <2>1 DEF IsSeq
  <2>4. CASE p \in lists
    BY <2>4, <2>1, <2>2, <2>3, <1>3 DEF Range, s
  <2>5. CASE p \notin lists
    BY <2>5, <2>1, <2>2, <2>3, <1>3 DEF Range, s
  <2> QED
    BY <2>4, <2>5
<1>12. f \in [names -> ValuesOf(params)]
  <2>1. f = [p \in names |-> f[p]]
    BY <1>9
  <2>2. \A p \in names : f[p] \in ValuesOf(params)
    BY <1>11 DEF ValuesOf
  <2> HIDE DEF f
  <2> QED
    BY <2>1, <2>2, Zenon
<1>13. PickedFrom(f, names, params)
  <2> HIDE DEF f
  <2> QED
    BY <1>11, <1>12 DEF PickedFrom
<1> QED
  BY <1>1, <1>8, <1>13 DEF names

LEMMA RenderFinishes ==
  ASSUME NEW t, IsSeq(t.atoms), NEW params, ParamsOk(params), NEW constraints, Render(t, params, constraints).ok
  PROVE  \A x \in Range(Render(t, params, constraints).texts) : Finished(x)
<1> DEFINE texts == Range(Render(t, params, constraints).texts)
<1>1. ASSUME NEW x \in texts PROVE Finished(x)
  <2>1. /\ \A p \in Placeholders(t) : ParamError(p, params, constraints) = "none"
        /\ \E f : PickedFrom(f, Placeholders(t), params) /\ x = Substitute(t, f)
    BY RenderPicks
  <2>2. PICK f : PickedFrom(f, Placeholders(t), params) /\ x = Substitute(t, f)
    BY <2>1
  <2>3. ASSUME NEW p \in Placeholders(t) PROVE Finished(f[p])
    <3>1. \A v \in Range(params[p].items) : Finished(v)
      BY <2>1, ValueFinished
    <3> QED
      BY <2>2, <3>1 DEF PickedFrom
  <2>4. DOMAIN f = Placeholders(t)
    BY <2>2 DEF PickedFrom
  <2>5. Finished(Substitute(t, f))
    BY <2>3, <2>4, SubstituteFinishes
  <2> QED
    BY <2>2, <2>5
<1> QED
  BY <1>1

\* The instances of a template that a set of values allows.
Accepted(t, constraints, V) ==
  {Substitute(t, f) :
     f \in {g \in [Placeholders(t) -> V] :
              \A p \in Placeholders(t) : p \in DOMAIN constraints /\ ~ValueDefect(constraints[p], g[p])
                                         /\ ~ParamValueDefect(g[p])}}

LEMMA AcceptedWithin ==
  ASSUME NEW t, NEW constraints, NEW V, NEW W, V \subseteq W
  PROVE  /\ Accepted(t, constraints, V) \subseteq Accepted(t, constraints, W)
         /\ Accepted(t, constraints, V) \subseteq Spelled(t, W)
         /\ Accepted(t, constraints, Values) = Sanctioned(t, constraints)
<1>1. [Placeholders(t) -> V] \subseteq [Placeholders(t) -> W]
  OBVIOUS
<1>2. Accepted(t, constraints, Values) = Sanctioned(t, constraints)
  BY DEF Accepted, Sanctioned
<1> QED
  BY <1>1, <1>2 DEF Accepted, Spelled

LEMMA ValueAccepted ==
  ASSUME NEW params, NEW constraints, NEW p, ParamError(p, params, constraints) = "none",
         NEW v \in Range(params[p].items)
  PROVE  p \in DOMAIN constraints /\ ~ValueDefect(constraints[p], v) /\ ~ParamValueDefect(v)
<1>1. p \in DOMAIN params /\ params[p].form # "other" /\ \A w \in Range(params[p].items) : ~ParamValueDefect(w)
  BY DEF ParamError
<1>2. params[p].items # <<>>
  BY Singles
<1>3. p \in DOMAIN constraints
  BY <1>1, <1>2 DEF ParamError
<1>4. \A w \in Range(params[p].items) : ~ValueDefect(constraints[p], w)
  BY <1>1, <1>3 DEF ParamError
<1> QED
  BY <1>1, <1>3, <1>4

LEMMA RenderAccepted ==
  ASSUME NEW t, NEW params, ParamsOk(params), NEW constraints, Render(t, params, constraints).ok,
         NEW x \in Range(Render(t, params, constraints).texts)
  PROVE  x \in Accepted(t, constraints, ValuesOf(params))
<1> DEFINE names == Placeholders(t)
<1>1. \A p \in names : ParamError(p, params, constraints) = "none"
  BY RenderPicks
<1>2. PICK f : PickedFrom(f, names, params) /\ x = Substitute(t, f)
  BY RenderPicks
<1>3. \A p \in names : p \in DOMAIN constraints /\ ~ValueDefect(constraints[p], f[p]) /\ ~ParamValueDefect(f[p])
  BY <1>1, <1>2, ValueAccepted DEF PickedFrom
<1>4. f \in [names -> ValuesOf(params)]
  BY <1>2 DEF PickedFrom
<1> QED
  BY <1>2, <1>3, <1>4 DEF Accepted

-----------------------------------------------------------------------------
(* No rendering reports a cycle.                                           *)

Quiet(r) == ~r.ok => r.err # "Cycle"

LEMMA FirstIsOne ==
  ASSUME NEW errors, NEW n \in Nat, DOMAIN errors = 1..n, \A i \in 1..n : errors[i] # "Cycle"
  PROVE  FirstOf(errors) # "Cycle"
<1>1. CASE \A i \in DOMAIN errors : errors[i] = "none"
  BY <1>1 DEF FirstOf
<1>2. CASE ~(\A i \in DOMAIN errors : errors[i] = "none")
  <2> DEFINE T == {i \in 1..n : errors[i] # "none"}
  <2>1. T \in SUBSET (1..n) /\ T # {}
    BY <1>2
  <2>2. PICK i \in T : \A j \in 1..(i - 1) : j \notin T
    BY <2>1, LeastIndex
  <2>3. \A j \in 1..(i - 1) : errors[j] = "none"
    BY <2>2
  <2> DEFINE least(k) == errors[k] # "none" /\ \A j \in 1..(k - 1) : errors[j] = "none"
  <2>4. \E k \in DOMAIN errors : least(k)
    BY <2>2, <2>3
  <2>5. (CHOOSE k \in DOMAIN errors : least(k)) \in DOMAIN errors
    BY <2>4
  <2>6. FirstOf(errors) = errors[CHOOSE k \in DOMAIN errors : least(k)]
    BY <1>2 DEF FirstOf
  <2> HIDE DEF least
  <2> QED
    BY <2>5, <2>6
<1> QED
  BY <1>1, <1>2

LEMMA RenderQuiet ==
  ASSUME NEW t, IsSeq(t.atoms), NEW params, NEW constraints
  PROVE  Quiet(Render(t, params, constraints))
<1> DEFINE lists == ListsAmong(Placeholders(t), params)
<1> DEFINE errors == PlaceholderErrors(t, lists, params, constraints)
<1>1. \A p : ParamError(p, params, constraints) # "Cycle"
  BY DEF ParamError
<1>2. DOMAIN t.atoms = 1..Len(t.atoms) /\ Len(t.atoms) \in Nat
  BY DEF IsSeq
<1>3. Render(t, params, constraints) = RenderOver(t, lists, params, constraints)
  BY DEF Render
<1> HIDE DEF lists
<1>4. DOMAIN errors = 1..Len(t.atoms) /\ \A i \in 1..Len(t.atoms) : errors[i] # "Cycle"
  BY <1>1, <1>2 DEF PlaceholderErrors, OrElse
<1> HIDE DEF errors
<1>5. FirstOf(errors) # "Cycle"
  BY <1>2, <1>4, FirstIsOne
<1>6. RenderWith(t, lists, params).ok
  BY DEF RenderWith
<1> QED
  BY <1>3, <1>5, <1>6, FailFields DEF Quiet, RenderOver, errors

-----------------------------------------------------------------------------
(* Rendering a permission: finished texts, and no cycle reported.          *)

\* The primitives of an expanded part: each has passed the gate of its kind.
Sound(p) ==
  /\ \A x \in p.groups : Finished(x.value) /\ ~GroupNameDefect(x.value)
  /\ \A x \in p.sudo : Finished(x.value) /\ ~SudoCommandDefect(x.value)
  /\ \A g \in p.files : Finished(g.path) /\ ~FilePathDefect(g.path)

LEMMA SoundWritten ==
  ASSUME NEW p, Sound(p)
  PROVE  WellWritten(p)
BY DEF Sound, WellWritten, Finished

\* Each of them comes from one text.
LEMMA PrimitivesRendered ==
  ASSUME NEW S, NEW params, NEW constraints, RenderPrimitives(S, params, constraints).ok
  PROVE  \A x \in RenderPrimitives(S, params, constraints).items : \E s \in S :
           LET r == Render(s.value, params, constraints) IN r.ok /\ x.value \in Range(r.texts)
<1> DEFINE out == [p \in S |-> Render(p.value, params, constraints)]
<1> DEFINE r == RenderPrimitives(S, params, constraints)
<1>0. \A x \in S : out[x] = Render(x.value, params, constraints)
  OBVIOUS
<1> HIDE DEF out
<1>1. r = IF \E x \in S : ~out[x].ok THEN Fail(out[CHOOSE x \in S : ~out[x].ok].err)
          ELSE [ok |-> TRUE, items |-> UNION {{Prim(t, x.runas) : t \in Range(out[x].texts)} : x \in S}]
  BY DEF RenderPrimitives, Gather, out
<1> HIDE DEF r
<1>2. ~(\E x \in S : ~out[x].ok)
  BY <1>1 DEF Fail, r
<1>3. r.items = UNION {{Prim(t, x.runas) : t \in Range(out[x].texts)} : x \in S}
  BY <1>1, <1>2
<1>4. \A x \in r.items : \E s \in S : out[s].ok /\ x.value \in Range(out[s].texts)
  BY <1>2, <1>3 DEF Prim
<1> QED
  BY <1>0, <1>4 DEF r

LEMMA PrimitivesFinish ==
  ASSUME NEW S, \A x \in S : IsSeq(x.value.atoms), NEW params, ParamsOk(params), NEW constraints,
         RenderPrimitives(S, params, constraints).ok
  PROVE  \A x \in RenderPrimitives(S, params, constraints).items : Finished(x.value)
BY PrimitivesRendered, RenderFinishes

LEMMA GrantsRendered ==
  ASSUME NEW S, NEW params, NEW constraints, RenderGrants(S, params, constraints).ok
  PROVE  \A x \in RenderGrants(S, params, constraints).items : \E s \in S :
           LET r == Render(s.path, params, constraints) IN r.ok /\ x.path \in Range(r.texts)
<1> DEFINE out == [g \in S |-> Render(g.path, params, constraints)]
<1> DEFINE r == RenderGrants(S, params, constraints)
<1>0. \A x \in S : out[x] = Render(x.path, params, constraints)
  OBVIOUS
<1> HIDE DEF out
<1>1. r = IF \E x \in S : ~out[x].ok THEN Fail(out[CHOOSE x \in S : ~out[x].ok].err)
          ELSE [ok |-> TRUE, items |-> UNION {{Grant(t, x.access, x.recursive) : t \in Range(out[x].texts)} : x \in S}]
  BY DEF RenderGrants, Gather, out
<1> HIDE DEF r
<1>2. ~(\E x \in S : ~out[x].ok)
  BY <1>1 DEF Fail, r
<1>3. r.items = UNION {{Grant(t, x.access, x.recursive) : t \in Range(out[x].texts)} : x \in S}
  BY <1>1, <1>2
<1>4. \A x \in r.items : \E s \in S : out[s].ok /\ x.path \in Range(out[s].texts)
  BY <1>2, <1>3 DEF Grant
<1> QED
  BY <1>0, <1>4 DEF r

LEMMA GrantsFinish ==
  ASSUME NEW S, \A g \in S : IsSeq(g.path.atoms), NEW params, ParamsOk(params), NEW constraints,
         RenderGrants(S, params, constraints).ok
  PROVE  \A g \in RenderGrants(S, params, constraints).items : Finished(g.path)
BY GrantsRendered, RenderFinishes

LEMMA SubstitutedSound ==
  ASSUME NEW perm, WellWritten(perm), NEW params, ParamsOk(params), NEW constraints,
         SubstituteAll(perm, params, constraints).ok
  PROVE  Sound(SubstituteAll(perm, params, constraints))
<1> DEFINE own == SubstituteAll(perm, params, constraints)
<1> DEFINE g == RenderPrimitives(perm.groups, params, constraints)
<1> DEFINE s == RenderPrimitives(perm.sudo, params, constraints)
<1> DEFINE f == RenderGrants(perm.files, params, constraints)
<1>1. /\ g.ok /\ own.groups = g.items /\ \A x \in g.items : ~GroupNameDefect(x.value)
      /\ s.ok /\ own.sudo = s.items /\ \A x \in s.items : ~SudoCommandDefect(x.value)
      /\ f.ok /\ own.files = UnionGrants(f.items) /\ \A x \in f.items : ~FilePathDefect(x.path)
  BY SubstitutedOk
<1>2. \A x \in g.items : Finished(x.value)
  BY <1>1, PrimitivesFinish DEF WellWritten
<1>3. \A x \in s.items : Finished(x.value)
  BY <1>1, PrimitivesFinish DEF WellWritten
<1>4. \A x \in f.items : Finished(x.path)
  BY <1>1, GrantsFinish DEF WellWritten
<1> HIDE DEF own, g, s, f
<1>5. \A x \in own.files : \E h \in f.items : h.path = x.path
  BY <1>1, MergedFrom
<1>6. Sound(own)
  BY <1>1, <1>2, <1>3, <1>4, <1>5 DEF Sound
<1> QED
  BY <1>6 DEF own

LEMMA GatherQuiet ==
  ASSUME NEW S, NEW out, \A x \in S : Quiet(out[x]), NEW r,
         (\E x \in S : ~out[x].ok) => r = Fail(out[CHOOSE x \in S : ~out[x].ok].err),
         ~(\E x \in S : ~out[x].ok) => r.ok
  PROVE  Quiet(r)
<1>1. CASE \E x \in S : ~out[x].ok
  <2> DEFINE c == CHOOSE x \in S : ~out[x].ok
  <2>1. c \in S /\ ~out[c].ok
    BY <1>1
  <2>2. r = Fail(out[c].err)
    BY <1>1
  <2> HIDE DEF c
  <2> QED
    BY <2>1, <2>2, FailFields DEF Quiet
<1> QED
  BY <1>1 DEF Quiet

LEMMA ErrorsQuiet ==
  ASSUME NEW results, NEW n \in Nat, DOMAIN results = 1..n, \A i \in 1..n : Quiet(results[i])
  PROVE  FirstError(results) # "Cycle"
<1> DEFINE errors == [i \in DOMAIN results |-> IF results[i].ok THEN "none" ELSE results[i].err]
<1>1. DOMAIN errors = 1..n /\ \A i \in 1..n : errors[i] # "Cycle"
  BY DEF Quiet
<1>2. FirstError(results) = FirstOf(errors)
  BY DEF FirstError
<1> HIDE DEF errors
<1> QED
  BY <1>1, <1>2, FirstIsOne

LEMMA SubstitutedQuiet ==
  ASSUME NEW perm, WellWritten(perm), NEW params, NEW constraints
  PROVE  Quiet(SubstituteAll(perm, params, constraints))
<1> DEFINE g == RenderPrimitives(perm.groups, params, constraints)
<1> DEFINE s == RenderPrimitives(perm.sudo, params, constraints)
<1> DEFINE f == RenderGrants(perm.files, params, constraints)
<1>1. ASSUME NEW S, \A x \in S : IsSeq(x.value.atoms) PROVE Quiet(RenderPrimitives(S, params, constraints))
  <2> DEFINE out == [p \in S |-> Render(p.value, params, constraints)]
  <2> DEFINE r == RenderPrimitives(S, params, constraints)
  <2>1. \A x \in S : out[x] = Render(x.value, params, constraints)
    OBVIOUS
  <2> HIDE DEF out
  <2>2. \A x \in S : Quiet(out[x])
    BY <1>1, <2>1, RenderQuiet
  <2>3. r = IF \E x \in S : ~out[x].ok THEN Fail(out[CHOOSE x \in S : ~out[x].ok].err)
            ELSE [ok |-> TRUE, items |-> UNION {{Prim(t, x.runas) : t \in Range(out[x].texts)} : x \in S}]
    BY DEF RenderPrimitives, Gather, out
  <2> HIDE DEF r
  <2>4. /\ (\E x \in S : ~out[x].ok) => r = Fail(out[CHOOSE x \in S : ~out[x].ok].err)
        /\ ~(\E x \in S : ~out[x].ok) => r.ok
    BY <2>3
  <2>5. Quiet(r)
    BY <2>2, <2>4, GatherQuiet
  <2> QED
    BY <2>5 DEF r
<1>2. Quiet(f)
  <2> DEFINE S == perm.files
  <2> DEFINE out == [x \in S |-> Render(x.path, params, constraints)]
  <2>1. \A x \in S : out[x] = Render(x.path, params, constraints)
    OBVIOUS
  <2>3. f = IF \E x \in S : ~out[x].ok THEN Fail(out[CHOOSE x \in S : ~out[x].ok].err)
            ELSE [ok |-> TRUE, items |-> UNION {{Grant(t, x.access, x.recursive) : t \in Range(out[x].texts)} : x \in S}]
    BY DEF RenderGrants, Gather
  <2> HIDE DEF out
  <2>2. \A x \in S : Quiet(out[x])
    BY <2>1, RenderQuiet DEF WellWritten
  <2> HIDE DEF f, S
  <2>4. /\ (\E x \in S : ~out[x].ok) => f = Fail(out[CHOOSE x \in S : ~out[x].ok].err)
        /\ ~(\E x \in S : ~out[x].ok) => f.ok
    BY <2>3
  <2> QED
    BY <2>2, <2>4, GatherQuiet
<1>3. Quiet(g) /\ Quiet(s)
  BY <1>1 DEF WellWritten
<1>4. SubstituteAll(perm, params, constraints) = Lists(GateGroups(g), GateSudo(s), GateGrants(f))
  BY DEF SubstituteAll
<1> HIDE DEF g, s, f
<1>5. \A r, bad, kind : Quiet(r) /\ kind # "Cycle" => Quiet(Gated(r, bad, kind))
  BY FailFields DEF Quiet, Gated
<1>6. Quiet(GateGroups(g)) /\ Quiet(GateSudo(s)) /\ Quiet(GateGrants(f))
  BY <1>2, <1>3, <1>5 DEF GateGroups, GateSudo, GateGrants
<1>7. ASSUME NEW a, NEW b, NEW c, Quiet(a), Quiet(b), Quiet(c) PROVE Quiet(Lists(a, b, c))
  <2> DEFINE results == <<a, b, c>>
  <2>1. DOMAIN results = 1..3 /\ \A i \in 1..3 : Quiet(results[i])
    BY <1>7
  <2>2. FirstError(results) # "Cycle"
    BY <2>1, ErrorsQuiet
  <2>3. ~Lists(a, b, c).ok => Lists(a, b, c) = Fail(FirstError(results))
    BY DEF Lists
  <2> QED
    BY <2>2, <2>3, FailFields DEF Quiet
<1> QED
  BY <1>4, <1>6, <1>7

-----------------------------------------------------------------------------
(* Expanding an include that binds its member's parameters.                *)

BindingsOk(bindings) == \A b \in DOMAIN bindings : IsSeq(bindings[b].atoms)

LEMMA RenderedTexts ==
  ASSUME NEW t, NEW params, ParamsOk(params), NEW constraints, Render(t, params, constraints).ok
  PROVE  LET texts == Render(t, params, constraints).texts
         IN Len(texts) = 1 => texts[1] \in Range(texts)
<1> DEFINE names == Placeholders(t)
<1> DEFINE lists == ListsAmong(names, params)
<1> DEFINE n == IF lists = {} THEN 1 ELSE Len(params[CHOOSE p \in lists : TRUE].items)
<1> DEFINE texts == Render(t, params, constraints).texts
<1>1. /\ \A p \in names : ParamError(p, params, constraints) = "none"
      /\ Render(t, params, constraints) = RenderWith(t, lists, params)
  BY RenderIs
<1>2. texts = [k \in 1..n |-> Substitute(t, Picked(names, lists, params, k))]
  BY <1>1 DEF RenderWith
<1>3. n \in Nat
  <2>1. CASE lists = {}
    BY <2>1
  <2>2. CASE lists # {}
    <3> DEFINE p == CHOOSE q \in lists : TRUE
    <3>1. p \in lists
      BY <2>2
    <3> HIDE DEF p
    <3>2. p \in names
      BY <3>1 DEF ListsAmong
    <3>3. IsSeq(params[p].items)
      BY <3>2, <1>1, ValueFinished
    <3>4. Len(params[p].items) \in Nat
      BY <3>3 DEF IsSeq
    <3> HIDE DEF lists
    <3>5. n = Len(params[p].items)
      BY <2>2 DEF p
    <3> QED
      BY <3>4, <3>5
  <2> QED
    BY <2>1, <2>2
<1> HIDE DEF texts, n, lists, names
<1>4. IsSeq(texts) /\ Len(texts) = n /\ DOMAIN texts = 1..n
  <2>1. DOMAIN texts = 1..n /\ texts = [i \in 1..n |-> texts[i]]
    BY <1>2
  <2> QED
    BY <1>3, <2>1, FunctionSeq
<1>5. Len(texts) = 1 => texts[1] \in Range(texts)
  BY <1>3, <1>4 DEF Range
<1> QED
  BY <1>5 DEF texts

LEMMA ScalarOk ==
  ASSUME NEW v, ValueOk(v)
  PROVE  ParamOk(Scalar(v))
<1>1. Scalar(v).items = <<v>> /\ Scalar(v).form = "scalar"
  BY DEF Scalar
<1>2. IsSeq(<<v>>) /\ Range(<<v>>) = {v} /\ Len(<<v>>) = 1
  BY Singles
<1> HIDE DEF Scalar
<1> QED
  BY <1>1, <1>2 DEF ParamOk

\* The values of each element of the list that fans a member out.
LEMMA ElementOk ==
  ASSUME NEW params, ParamsOk(params), NEW lists, lists \subseteq DOMAIN params,
         NEW k, \A p \in lists : k \in DOMAIN params[p].items
  PROVE  ParamsOk(Element(params, lists, k)) /\ ValuesOf(Element(params, lists, k)) \subseteq ValuesOf(params)
<1> DEFINE e == Element(params, lists, k)
<1>1. DOMAIN e = DOMAIN params
  BY DEF Element
<1>2. ASSUME NEW p \in DOMAIN params PROVE ParamOk(e[p]) /\ Range(e[p].items) \subseteq Range(params[p].items)
  <2>0. ParamOk(params[p])
    BY DEF ParamsOk
  <2>1. CASE p \in lists
    <3>1. e[p] = Scalar(params[p].items[k])
      BY <2>1 DEF Element
    <3>2. params[p].items[k] \in Range(params[p].items)
      BY <2>1 DEF Range
    <3>3. ValueOk(params[p].items[k])
      BY <2>0, <3>2 DEF ParamOk
    <3>4. ParamOk(Scalar(params[p].items[k]))
      BY <3>3, ScalarOk
    <3>5. Range(Scalar(params[p].items[k]).items) \subseteq Range(params[p].items)
      BY <3>2, Singles DEF Scalar
    <3> QED
      BY <3>1, <3>4, <3>5, Zenon
  <2>2. CASE p \notin lists
    <3>1. e[p] = params[p]
      BY <2>2 DEF Element
    <3> QED
      BY <3>1, <2>0, Zenon
  <2> QED
    BY <2>1, <2>2
<1> HIDE DEF e
<1>3. ParamsOk(e)
  BY <1>1, <1>2 DEF ParamsOk
<1>4. ValuesOf(e) \subseteq ValuesOf(params)
  BY <1>1, <1>2 DEF ValuesOf
<1> QED
  BY <1>3, <1>4 DEF e

\* The lists among the parameters that the bindings of an include use: at most one.
BindingLists(bindings, params) == ListsAmong(UNION {Placeholders(t) : t \in Range(bindings)}, params)
OneList(lists) == \A p, q \in lists : p = q

\* What the bindings of an include spell with the values of a role.
BindingValues(bindings, params) == UNION {Spelled(bindings[b], ValuesOf(params)) : b \in DOMAIN bindings}

LEMMA BindingsRender ==
  ASSUME NEW bindings, BindingsOk(bindings), NEW params, ParamsOk(params), NEW constraints,
         OneList(BindingLists(bindings, params))
  PROVE  LET r == RenderBindings(bindings, params, constraints)
         IN /\ Quiet(r)
            /\ r.ok => \E n \in Nat : /\ DOMAIN r.maps = 1..n
                                     /\ \A k \in 1..n : /\ ParamsOk(r.maps[k])
                                                        /\ ValuesOf(r.maps[k]) \subseteq BindingValues(bindings, params)
<1> DEFINE lists == BindingLists(bindings, params)
<1> DEFINE n == IF lists = {} THEN 1 ELSE Len(params[CHOOSE p \in lists : TRUE].items)
<1> DEFINE el(k) == Element(params, lists, k)
<1> DEFINE out == [k \in 1..n |-> [b \in DOMAIN bindings |-> Render(bindings[b], el(k), constraints)]]
<1> DEFINE errors == BindingErrors(out)
<1> DEFINE r == RenderBindings(bindings, params, constraints)
<1>1. r = BindingMaps(out, errors)
  BY DEF RenderBindings, FanOut, CollectBindings, BindingLists
<1>2. lists \subseteq DOMAIN params /\ \A p \in lists : IsSeq(params[p].items)
  BY DEF BindingLists, ListsAmong, ParamsOk, ParamOk
<1>3. \A p \in lists : n = Len(params[p].items)
  <2> SUFFICES ASSUME NEW p \in lists PROVE n = Len(params[p].items)
    OBVIOUS
  <2>1. (CHOOSE q \in lists : TRUE) \in lists
    OBVIOUS
  <2>2. (CHOOSE q \in lists : TRUE) = p
    BY <2>1 DEF OneList
  <2> HIDE DEF lists
  <2>3. lists # {}
    OBVIOUS
  <2> QED
    BY <2>2, <2>3
<1>4. n \in Nat
  <2> HIDE DEF lists
  <2>1. CASE lists = {}
    BY <2>1
  <2>2. CASE lists # {}
    <3>1. PICK p \in lists : TRUE
      BY <2>2
    <3>2. n = Len(params[p].items) /\ IsSeq(params[p].items)
      BY <1>2, <1>3
    <3> HIDE DEF n
    <3> QED
      BY <3>2 DEF IsSeq
  <2> QED
    BY <2>1, <2>2
<1> HIDE DEF n, lists
<1>5. ASSUME NEW k \in 1..n PROVE ParamsOk(el(k)) /\ ValuesOf(el(k)) \subseteq ValuesOf(params)
  <2>1. \A p \in lists : k \in DOMAIN params[p].items
    <3> SUFFICES ASSUME NEW p \in lists PROVE k \in DOMAIN params[p].items
      OBVIOUS
    <3>1. n = Len(params[p].items) /\ IsSeq(params[p].items)
      BY <1>2, <1>3
    <3> QED
      BY <3>1 DEF IsSeq
  <2> QED
    BY <1>2, <2>1, ElementOk
<1>6. /\ DOMAIN out = 1..n
      /\ \A k \in 1..n : /\ DOMAIN out[k] = DOMAIN bindings
                         /\ \A b \in DOMAIN bindings : out[k][b] = Render(bindings[b], el(k), constraints)
  OBVIOUS
<1> HIDE DEF out
<1>7. errors = UNION {{out[k][b].err : b \in {c \in DOMAIN out[k] : ~out[k][c].ok}} : k \in DOMAIN out}
  BY DEF BindingErrors
<1> HIDE DEF el, errors, r
<1>8. ASSUME NEW e \in errors PROVE e # "Cycle"
  <2>1. PICK k \in DOMAIN out : \E b \in DOMAIN out[k] : ~out[k][b].ok /\ e = out[k][b].err
    BY <1>7
  <2>2. PICK b \in DOMAIN out[k] : ~out[k][b].ok /\ e = out[k][b].err
    BY <2>1
  <2>3. k \in 1..n /\ b \in DOMAIN bindings /\ out[k][b] = Render(bindings[b], el(k), constraints)
    BY <1>6, <2>1, <2>2
  <2>4. Quiet(out[k][b])
    BY <2>3, RenderQuiet DEF BindingsOk
  <2> QED
    BY <2>2, <2>4 DEF Quiet
<1>9. Quiet(r)
  <2>1. errors # {} => (CHOOSE e \in errors : TRUE) # "Cycle"
    BY <1>8
  <2> QED
    BY <1>1, <2>1, FailFields DEF BindingMaps, Quiet
<1> DEFINE all == BindingValues(bindings, params)
<1>10. ASSUME r.ok
       PROVE  DOMAIN r.maps = 1..n /\ \A k \in 1..n : ParamsOk(r.maps[k]) /\ ValuesOf(r.maps[k]) \subseteq all
  <2>1. errors = {} /\ \A k \in DOMAIN out : \A b \in DOMAIN out[k] : Len(out[k][b].texts) = 1
    BY <1>1, <1>10, FailFields DEF BindingMaps
  <2>2. r.maps = [k \in DOMAIN out |-> [b \in DOMAIN out[k] |-> Scalar(out[k][b].texts[1])]]
    BY <1>1, <2>1 DEF BindingMaps
  <2>3. ASSUME NEW k \in 1..n PROVE ParamsOk(r.maps[k]) /\ ValuesOf(r.maps[k]) \subseteq all
    <3>1. DOMAIN r.maps[k] = DOMAIN bindings /\ \A b \in DOMAIN bindings : r.maps[k][b] = Scalar(out[k][b].texts[1])
      BY <1>6, <2>2, <2>3
    <3>2. ASSUME NEW b \in DOMAIN bindings
          PROVE  ParamOk(Scalar(out[k][b].texts[1])) /\ Range(Scalar(out[k][b].texts[1]).items) \subseteq all
      <4>1. out[k][b] = Render(bindings[b], el(k), constraints) /\ k \in DOMAIN out /\ b \in DOMAIN out[k]
        BY <1>6
      <4>2. out[k][b].ok
        <5>1. ~out[k][b].ok => out[k][b].err \in errors
          BY <1>7, <4>1
        <5> QED
          BY <2>1, <5>1
      <4>3. Len(out[k][b].texts) = 1
        BY <2>1, <4>1
      <4>4. ParamsOk(el(k)) /\ IsSeq(bindings[b].atoms)
        BY <1>5 DEF BindingsOk
      <4> DEFINE x == Render(bindings[b], el(k), constraints)
      <4>5. x.ok /\ Len(x.texts) = 1 /\ out[k][b] = x
        BY <4>1, <4>2, <4>3
      <4>6. x.texts[1] \in Range(x.texts)
        BY <4>4, <4>5, RenderedTexts
      <4>7. \A y \in Range(x.texts) : Finished(y)
        BY <4>4, <4>5, RenderFinishes
      <4>8. x.texts[1] \in Accepted(bindings[b], constraints, ValuesOf(el(k)))
        BY <4>4, <4>5, <4>6, RenderAccepted
      <4> HIDE DEF x
      <4>9. x.texts[1] \in Spelled(bindings[b], ValuesOf(params))
        <5>1. ValuesOf(el(k)) \subseteq ValuesOf(params)
          BY <1>5
        <5>2. Accepted(bindings[b], constraints, ValuesOf(el(k))) \subseteq Spelled(bindings[b], ValuesOf(params))
          BY <5>1, AcceptedWithin
        <5> QED
          BY <4>8, <5>2
      <4>10. Range(Scalar(x.texts[1]).items) \subseteq all
        BY <4>9, Singles DEF BindingValues, Scalar
      <4>11. ValueOk(x.texts[1])
        BY <4>6, <4>7 DEF ValueOk, Finished
      <4>12. ParamOk(Scalar(x.texts[1]))
        BY <4>11, ScalarOk
      <4> QED
        BY <4>5, <4>12, <4>10, Zenon
    <3>3. ParamsOk(r.maps[k])
      BY <3>1, <3>2 DEF ParamsOk
    <3> HIDE DEF all
    <3>4. ValuesOf(r.maps[k]) \subseteq all
      BY <3>1, <3>2 DEF ValuesOf
    <3> QED
      BY <3>3, <3>4
  <2>4. DOMAIN r.maps = 1..n
    BY <1>6, <2>2
  <2> QED
    BY <2>3, <2>4
<1> QED
  BY <1>4, <1>9, <1>10 DEF r

LEMMA ExpandSound ==
  ASSUME NEW bm, WellWritten(bm.member), BindingsOk(bm.include.bindings),
         NEW params, ParamsOk(params), NEW constraints, OneList(BindingLists(bm.include.bindings, params))
  PROVE  /\ Quiet(ExpandBoundMember(bm, params, constraints))
         /\ ExpandBoundMember(bm, params, constraints).ok => Sound(ExpandBoundMember(bm, params, constraints))
<1> DEFINE r == ExpandBoundMember(bm, params, constraints)
<1> DEFINE fanned == RenderBindings(bm.include.bindings, params, constraints)
<1> DEFINE part(k) == SubstituteAll(bm.member, fanned.maps[k], bm.member.params)
<1>1. /\ Quiet(fanned)
      /\ fanned.ok => \E n \in Nat : DOMAIN fanned.maps = 1..n /\ \A k \in 1..n : ParamsOk(fanned.maps[k])
  BY BindingsRender
<1>2. Quiet(r)
  <2>1. r = ExpandFanned(bm.member, fanned) \/ r = Fail("OrphanIncludeBinding") \/ r = Fail("UnboundMemberParam")
    BY DEF ExpandBoundMember
  <2> HIDE DEF r
  <2>2. CASE r = ExpandFanned(bm.member, fanned)
    <3> DEFINE parts == [k \in DOMAIN fanned.maps |-> part(k)]
    <3> HIDE DEF fanned
    <3>1. CASE ~fanned.ok
      BY <1>1, <2>2, <3>1 DEF ExpandFanned
    <3>2. CASE fanned.ok
      <4>1. r = MemberParts(parts)
        BY <2>2, <3>2 DEF ExpandFanned
      <4>2. PICK n \in Nat : DOMAIN fanned.maps = 1..n
        BY <1>1, <3>2
      <4>3. DOMAIN parts = 1..n /\ \A k \in 1..n : parts[k] = part(k)
        BY <4>2
      <4>4. \A k \in 1..n : Quiet(part(k))
        BY SubstitutedQuiet
      <4> HIDE DEF parts, part
      <4>5. FirstError(parts) # "Cycle"
        BY <4>2, <4>3, <4>4, ErrorsQuiet
      <4>6. Union(parts).ok
        BY DEF Union
      <4> QED
        BY <4>1, <4>5, <4>6, FailFields DEF MemberParts, Quiet
    <3> QED
      BY <3>1, <3>2
  <2> QED
    BY <2>1, <2>2, FailFields DEF Quiet
<1>3. ASSUME r.ok PROVE Sound(r)
  <2>1. /\ fanned.ok
        /\ \A k \in DOMAIN fanned.maps : part(k).ok
        /\ r.groups = UNION {part(k).groups : k \in DOMAIN fanned.maps}
        /\ r.sudo = UNION {part(k).sudo : k \in DOMAIN fanned.maps}
        /\ r.files = UNION {part(k).files : k \in DOMAIN fanned.maps}
    BY <1>3, ExpandedMember
  <2>2. \A k \in DOMAIN fanned.maps : ParamsOk(fanned.maps[k])
    BY <1>1, <2>1
  <2>3. \A k \in DOMAIN fanned.maps : Sound(part(k))
    <3> HIDE DEF fanned
    <3> QED
      BY <2>1, <2>2, SubstitutedSound
  <2> HIDE DEF fanned, part, r
  <2> QED
    BY <2>1, <2>3 DEF Sound
<1> QED
  BY <1>2, <1>3

-----------------------------------------------------------------------------
(* The texts of what resolves are sequences, those it carries too.         *)

BoundOk(bound) ==
  IsSeq(bound) /\ \A b \in Range(bound) : WellWritten(b.member) /\ BindingsOk(b.include.bindings)
PermOk(p) == DOMAIN p = PermFields /\ WellWritten(p) /\ BoundOk(p.bound)
Cyclic(r) == ~r.ok /\ r.err = "Cycle"

LEMMA GrownWritten ==
  ASSUME NEW q, NEW p, NEW m, Grown(q, p, m), WellWritten(p), WellWritten(m)
  PROVE  WellWritten(q)
<1>1. q.groups = p.groups \cup m.groups /\ q.sudo = p.sudo \cup m.sudo /\ q.files = UnionGrants(p.files \cup m.files)
  BY DEF Grown
<1>2. \A g \in p.files \cup m.files : IsSeq(g.path.atoms)
  BY DEF WellWritten
<1>3. \A g \in UnionGrants(p.files \cup m.files) : IsSeq(g.path.atoms)
  BY <1>2, GrantsWritten
<1> QED
  BY <1>1, <1>3 DEF WellWritten

\* A member whose bindings are literal is rendered on the spot.
LEMMA LiteralExpands ==
  ASSUME NEW x, IncludeOk(x), NEW p, WellWritten(p)
  PROVE  LET now == ExpandBoundMember([include |-> x, member |-> p], <<>>, <<>>)
         IN Quiet(now) /\ (now.ok => Sound(now))
<1> DEFINE bm == [include |-> x, member |-> p]
<1>1. bm.member = p /\ bm.include = x
  OBVIOUS
<1> HIDE DEF bm
<1>2. BindingsOk(bm.include.bindings)
  BY <1>1 DEF IncludeOk, BindingsOk, Range
<1>3. ParamsOk(<<>>)
  BY DEF ParamsOk
<1>4. OneList(BindingLists(bm.include.bindings, <<>>))
  <2>1. BindingLists(bm.include.bindings, <<>>) = {}
    BY DEF BindingLists, ListsAmong
  <2> QED
    BY <2>1 DEF OneList
<1>5. WellWritten(bm.member)
  BY <1>1
<1>6. /\ Quiet(ExpandBoundMember(bm, <<>>, <<>>))
      /\ ExpandBoundMember(bm, <<>>, <<>>).ok => Sound(ExpandBoundMember(bm, <<>>, <<>>))
  BY <1>2, <1>3, <1>4, <1>5, ExpandSound
<1> QED
  BY <1>6 DEF bm

LEMMA TakeWritten ==
  ASSUME NEW acc, acc.ok => PermOk(acc.perm), NEW x, IncludeOk(x), NEW m, m.ok => PermOk(m.perm),
         Take(acc, x, m).ok
  PROVE  PermOk(Take(acc, x, m).perm)
<1> DEFINE t == Take(acc, x, m)
<1> DEFINE p == acc.perm
<1> DEFINE n == m.perm
<1>1. PermOk(p) /\ PermOk(n)
  BY TakeCases
<1>2. DOMAIN p = PermFields /\ WellWritten(p) /\ BoundOk(p.bound) /\ WellWritten(n)
  BY <1>1 DEF PermOk
<1>3. Took(t, acc, x, m)
  BY <1>2, TakeFields
<1>4. CASE ~IsBound(x)
  <2>1. Grown(t.perm, p, n)
    BY <1>3, <1>4 DEF Took
  <2> HIDE DEF t, p, n
  <2>2. WellWritten(t.perm)
    BY <1>2, <2>1, GrownWritten
  <2> QED
    BY <1>2, <2>1, <2>2 DEF PermOk, Grown, t
<1>5. CASE t = TookRendered(acc, x, m) /\ ExpandBoundMember([include |-> x, member |-> n], <<>>, <<>>).ok
  <2> DEFINE now == ExpandBoundMember([include |-> x, member |-> n], <<>>, <<>>)
  <2>1. t.perm = Absorb(p, now)
    BY <1>5, TakingFields DEF TookRendered
  <2>2. Sound(now)
    BY <1>2, <1>5, LiteralExpands
  <2> HIDE DEF now, p, t
  <2>3. Grown(Absorb(p, now), p, now)
    BY <1>2, AbsorbFields
  <2>4. WellWritten(Absorb(p, now))
    BY <1>2, <2>2, <2>3, SoundWritten, GrownWritten
  <2>5. PermOk(Absorb(p, now))
    BY <1>2, <2>3, <2>4 DEF PermOk, Grown
  <2> QED
    BY <2>1, <2>5, Zenon DEF t
<1>6. CASE t = TookBound(acc, x, m)
  <2> DEFINE b == [include |-> x, member |-> n]
  <2> DEFINE q == [p EXCEPT !.bound = Append(@, b)]
  <2>1. t.perm = q
    BY <1>6, TakingFields DEF TookBound
  <2>2. b.include = x /\ b.member = n
    OBVIOUS
  <2> HIDE DEF p, b, t, n
  <2>3. DOMAIN q = PermFields /\ q.groups = p.groups /\ q.sudo = p.sudo /\ q.files = p.files /\ q.bound = Append(p.bound, b)
    BY <1>2 DEF PermFields
  <2> HIDE DEF q
  <2>4. WellWritten(q)
    BY <1>2, <2>3 DEF WellWritten
  <2>5. BoundOk(Append(p.bound, b))
    <3>1. IsSeq(p.bound) /\ \A c \in Range(p.bound) : WellWritten(c.member) /\ BindingsOk(c.include.bindings)
      BY <1>2 DEF BoundOk
    <3> DEFINE s == p.bound
    <3>2. IsSeq(s)
      BY <3>1
    <3> HIDE DEF s
    <3>3. Append(s, b) = s \o <<b>>
      BY <3>2 DEF IsSeq
    <3>4. IsSeq(s \o <<b>>) /\ Range(s \o <<b>>) = Range(s) \cup {b}
      BY <3>2, Singles, Concatenated
    <3>5. WellWritten(b.member) /\ BindingsOk(b.include.bindings)
      BY <1>2, <2>2 DEF IncludeOk, BindingsOk, Range
    <3> QED
      BY <3>1, <3>3, <3>4, <3>5 DEF BoundOk, s
  <2>6. PermOk(q)
    BY <2>3, <2>4, <2>5 DEF PermOk
  <2> QED
    BY <2>1, <2>6, Zenon DEF t
<1> QED
  BY <1>4, <1>5, <1>6, TakeCases

\* A cycle is only passed on.
LEMMA TakeCyclic ==
  ASSUME NEW acc, NEW x, IncludeOk(x), NEW m, m.ok => PermOk(m.perm), Cyclic(Take(acc, x, m))
  PROVE  Cyclic(acc) \/ Cyclic(m)
<1> DEFINE t == Take(acc, x, m)
<1> DEFINE now == ExpandBoundMember([include |-> x, member |-> m.perm], <<>>, <<>>)
<1>1. CASE ~IsBound(x)
  <2>1. t = TakeMember(acc, m)
    BY <1>1 DEF Take
  <2>2. \/ t = acc \/ t = m \/ t = Fail("NestedParamMapping") \/ t = Fail("ConflictingParamConstraint")
        \/ t = TookBare(acc, m)
    BY <2>1 DEF TakeMember, TookBare
  <2> HIDE DEF t
  <2>3. ~TookBare(acc, m).ok = FALSE
    BY TakingFields DEF TookBare
  <2> QED
    BY <2>2, <2>3, FailFields DEF Cyclic, t
<1>2. CASE IsBound(x)
  <2>1. t = TakeBound(acc, x, m)
    BY <1>2 DEF Take
  <2>2. \/ t = acc \/ t = m \/ t = Fail("NestedParamMapping") \/ t = TookBound(acc, x, m)
        \/ m.ok /\ t = TakeRendered(acc, m, now)
    BY <2>1 DEF TakeBound, TookBound
  <2> HIDE DEF t
  <2>3. TookBound(acc, x, m).ok
    BY TakingFields DEF TookBound
  <2>4. ASSUME m.ok, t = TakeRendered(acc, m, now) PROVE FALSE
    <3>1. WellWritten(m.perm)
      BY <2>4 DEF PermOk
    <3>2. Quiet(now)
      BY <3>1, LiteralExpands
    <3> HIDE DEF now
    <3>3. t.ok \/ (~now.ok /\ t = now)
      BY <2>4, TakingFields DEF TakeRendered
    <3> QED
      BY <3>2, <3>3 DEF Cyclic, Quiet, t
  <2> QED
    BY <2>2, <2>3, <2>4, FailFields DEF Cyclic, t
<1> QED
  BY <1>1, <1>2

LEMMA LoopWrites ==
  ASSUME NEW first, first.ok => PermOk(first.perm), NEW takes, NEW members, NEW f, NEW n,
         Steps(first, takes, members, f, n),
         \A x \in Range(takes) : IncludeOk(x) /\ (members[x.id].ok => PermOk(members[x.id].perm))
  PROVE  \A k \in 0..n : /\ f[k].ok => PermOk(f[k].perm)
                         /\ Cyclic(f[k]) => Cyclic(first) \/ \E j \in 1..k : Cyclic(members[takes[j].id])
<1>1. n \in Nat /\ f[0] = first /\ DOMAIN takes = 1..n
  BY DEF Steps
<1> DEFINE Fine(k) == /\ f[k].ok => PermOk(f[k].perm)
                      /\ Cyclic(f[k]) => Cyclic(first) \/ \E j \in 1..k : Cyclic(members[takes[j].id])
<1> DEFINE P == {k \in Nat : k <= n => Fine(k)}
<1>2. 0 \in P
  BY <1>1
<1>3. ASSUME NEW j \in Nat, j \in P PROVE j + 1 \in P
  <2> SUFFICES ASSUME j + 1 <= n PROVE Fine(j + 1)
    OBVIOUS
  <2>1. PICK k \in 1..n : k = j + 1
    BY <1>1
  <2>2. Fine(j)
    BY <1>1, <1>3
  <2>3. k - 1 = j /\ 1..j \subseteq 1..k
    BY <2>1
  <2> DEFINE m == members[takes[k].id]
  <2> DEFINE x == takes[k]
  <2> DEFINE a == f[j]
  <2>4. f[k] = IF Repeated(takes, k) THEN a ELSE Take(a, x, m)
    BY <2>3 DEF Steps
  <2>5. IncludeOk(x) /\ (m.ok => PermOk(m.perm))
    BY <1>1 DEF Range
  <2>6. a.ok => PermOk(a.perm)
    BY <2>2
  <2>7. Cyclic(a) => Cyclic(first) \/ \E i \in 1..k : Cyclic(members[takes[i].id])
    BY <2>2, <2>3
  <2>8. Cyclic(m) => \E i \in 1..k : Cyclic(members[takes[i].id])
    <3>1. k \in 1..k
      OBVIOUS
    <3> QED
      BY <3>1
  <2> HIDE DEF a, x, m
  <2>9. f[k].ok => PermOk(f[k].perm)
    BY <2>4, <2>5, <2>6, TakeWritten
  <2>10. Cyclic(f[k]) => Cyclic(a) \/ Cyclic(m)
    BY <2>4, <2>5, TakeCyclic
  <2>11. Fine(k)
    BY <2>7, <2>8, <2>9, <2>10
  <2> QED
    BY <2>1, <2>11
<1> HIDE DEF P
<1>4. Nat \subseteq P
  BY <1>2, <1>3, SetInduction
<1> QED
  BY <1>1, <1>4 DEF P

Written(path, id) == At(path, id).ok => PermOk(At(path, id).perm)

\* The loop over the members of a bundle, once they are all written.
LEMMA BundleLoop ==
  ASSUME KnownLib, NEW path \in Seq(Ids), NEW id \in Ids, \A m \in Ids : Written(Append(path, id), m)
  PROVE  LET a == TakeAll(Opened(Leaf(id)), TakesOf(id), Under(path, id))
         IN /\ a.ok => PermOk(a.perm)
            /\ Cyclic(a) => \E m \in Direct(id) : Cyclic(At(Append(path, id), m))
<1> DEFINE first == Opened(Leaf(id))
<1> DEFINE takes == TakesOf(id)
<1> DEFINE members == Under(path, id)
<1> DEFINE a == TakeAll(first, takes, members)
<1> DEFINE n == Len(takes)
<1>1. IsSeq(takes) /\ (\A x \in Range(takes) : IncludeOk(x)) /\ {x.id : x \in Range(takes)} = Direct(id)
  BY TakesKnown
<1>2. PICK f : Steps(first, takes, members, f, n)
  BY <1>1, TakenIs
<1>3. n \in Nat /\ a = f[n] /\ DOMAIN takes = 1..n
  BY <1>2 DEF Steps
<1>4. first.ok => PermOk(first.perm)
  <2>1. Leaf(id).ok => PermOk(Leaf(id).perm)
    <3>1. Leaf(id).ok => DOMAIN Leaf(id).perm = PermFields /\ WellWritten(Leaf(id).perm) /\ Leaf(id).perm.bound = <<>>
      BY LeafKnown DEF Leaf
    <3>2. BoundOk(<<>>)
      BY Singles DEF BoundOk
    <3> QED
      BY <3>1, <3>2 DEF PermOk
  <2> QED
    BY <2>1, TakingFields DEF Opened
<1>5. ~Cyclic(first)
  <2>1. ~Leaf(id).ok => Leaf(id).err = "UnknownPermission"
    BY LeafKnown, FailFields DEF Leaf
  <2> QED
    BY <2>1, TakingFields DEF Opened, Cyclic
<1>6. \A m : members[m] = At(Append(path, id), m)
  BY DEF Under, At
<1>7. \A x \in Range(takes) : IncludeOk(x) /\ (members[x.id].ok => PermOk(members[x.id].perm))
  BY <1>1, <1>6 DEF IncludeOk, Written
<1> HIDE DEF first, takes, members, a, n
<1>8. n \in 0..n
  BY <1>3
<1>9. (a.ok => PermOk(a.perm)) /\ (Cyclic(a) => \E j \in 1..n : Cyclic(members[takes[j].id]))
  BY <1>2, <1>3, <1>4, <1>5, <1>7, <1>8, LoopWrites
<1>10. \A j \in 1..n : takes[j].id \in Direct(id)
  BY <1>1, <1>3 DEF Range
<1>11. Cyclic(a) => \E m \in Direct(id) : Cyclic(At(Append(path, id), m))
  BY <1>6, <1>9, <1>10
<1> QED
  BY <1>9, <1>11 DEF a, first, takes, members

LEMMA WrittenStep ==
  ASSUME KnownLib, NEW path \in Seq(Ids), NEW id \in Ids,
         Len(path) < MaxIncludeDepth => \A m \in Ids : Written(Append(path, id), m)
  PROVE  Written(path, id)
<1> SUFFICES ASSUME At(path, id).ok PROVE PermOk(At(path, id).perm)
  BY DEF Written
<1>1. Open(path, id) /\ Leaf(id).ok
  BY OpenIs
<1>2. CASE IsLeaf(id)
  <2>1. At(path, id) = Leaf(id)
    BY <1>2, OpenIs
  <2>2. DOMAIN Leaf(id).perm = PermFields /\ WellWritten(Leaf(id).perm) /\ Leaf(id).perm.bound = <<>>
    BY <1>1, LeafKnown DEF Leaf
  <2>3. BoundOk(<<>>)
    BY Singles DEF BoundOk
  <2>4. PermOk(Leaf(id).perm)
    BY <2>2, <2>3 DEF PermOk
  <2> QED
    BY <2>1, <2>4, Zenon
<1>3. CASE ~IsLeaf(id)
  <2> DEFINE a == TakeAll(Opened(Leaf(id)), TakesOf(id), Under(path, id))
  <2> DEFINE r == At(path, id)
  <2>1. Closes(path, id, a, r)
    BY <1>3, BundleCloses
  <2>2. a.ok => PermOk(a.perm)
    BY <1>1, BundleLoop DEF Open
  <2> HIDE DEF a, r
  <2>3. PermOk(a.perm) /\ DOMAIN r.perm = PermFields /\ r.perm.groups = a.perm.groups
        /\ r.perm.sudo = a.perm.sudo /\ r.perm.files = a.perm.files /\ r.perm.bound = a.perm.bound
    BY <2>1, <2>2 DEF Closes
  <2>4. WellWritten(r.perm)
    BY <2>3 DEF PermOk, WellWritten
  <2>5. PermOk(r.perm)
    BY <2>3, <2>4 DEF PermOk
  <2> QED
    BY <2>5 DEF r
<1> QED
  BY <1>2, <1>3

LEMMA AllWritten ==
  ASSUME KnownLib
  PROVE  \A path \in Seq(Ids), id \in Ids : Written(path, id)
<1> DEFINE Good == {x \in Seq(Ids) \X Ids : Written(x[1], x[2])}
<1>1. \A path \in Seq(Ids), id \in Ids : <<path, id>> \in Good <=> Written(path, id)
  OBVIOUS
<1> HIDE DEF Good
<1>2. ASSUME NEW path \in Seq(Ids), NEW id \in Ids,
             Len(path) < MaxIncludeDepth => \A m \in Ids : <<Append(path, id), m>> \in Good
      PROVE  <<path, id>> \in Good
  <2>1. Append(path, id) \in Seq(Ids)
    OBVIOUS
  <2>2. Len(path) < MaxIncludeDepth => \A m \in Ids : Written(Append(path, id), m)
    BY <1>1, <1>2, <2>1
  <2>3. Written(path, id)
    BY <2>2, WrittenStep
  <2> QED
    BY <1>1, <2>3
<1>3. \A path \in Seq(Ids), id \in Ids : <<path, id>> \in Good
  BY <1>2, PathInduction
<1> QED
  BY <1>1, <1>3

-----------------------------------------------------------------------------
(* Loops.                                                                  *)

LEMMA Appended ==
  ASSUME NEW path \in Seq(Ids), NEW id \in Ids
  PROVE  Append(path, id) \in Seq(Ids) /\ Range(Append(path, id)) = Range(path) \cup {id}
<1>1. IsSeq(path)
  BY DEF IsSeq, Range
<1>2. Append(path, id) = path \o <<id>>
  OBVIOUS
<1>3. Range(path \o <<id>>) = Range(path) \cup {id}
  BY <1>1, Singles, Concatenated
<1> QED
  BY <1>2, <1>3

Looping(id) == \E d \in Below(id) \cup {id} : d \in Below(d)

\* What resolves below a path reaches neither the path nor itself, nor any loop.
Acyclic(path, id) ==
  At(path, id).ok => id \notin Range(path) /\ Below(id) \cap (Range(path) \cup {id}) = {} /\ ~Looping(id)

LEMMA AcyclicStep ==
  ASSUME KnownLib, NEW path \in Seq(Ids), NEW id \in Ids,
         Len(path) < MaxIncludeDepth => \A m \in Ids : Acyclic(Append(path, id), m)
  PROVE  Acyclic(path, id)
<1> SUFFICES ASSUME At(path, id).ok PROVE Acyclic(path, id)
  BY DEF Acyclic
<1>1. Open(path, id)
  BY OpenIs
<1>2. CASE IsLeaf(id)
  <2>1. Below(id) = {}
    BY <1>2, MembersKnown, BelowStep
  <2> QED
    BY <1>1, <2>1 DEF Acyclic, Looping, Open
<1>3. CASE ~IsLeaf(id)
  <2> DEFINE a == TakeAll(Opened(Leaf(id)), TakesOf(id), Under(path, id))
  <2>1. Closes(path, id, a, At(path, id))
    BY <1>3, BundleCloses
  <2>2. AllTaken(TakesOf(id), Under(path, id), a, Len(TakesOf(id)))
    BY <2>1 DEF Closes
  <2>3. ASSUME NEW m \in Direct(id)
        PROVE  m \notin Range(path) \cup {id} /\ Below(m) \cap (Range(path) \cup {id, m}) = {} /\ ~Looping(m)
    <3>1. m \in Ids /\ At(Append(path, id), m).ok
      BY <2>2, <2>3, MembersTaken
    <3>2. Acyclic(Append(path, id), m)
      BY <1>1, <3>1 DEF Open
    <3>3. Range(Append(path, id)) = Range(path) \cup {id}
      BY Appended
    <3> QED
      BY <3>1, <3>2, <3>3 DEF Acyclic
  <2>4. Below(id) = Direct(id) \cup UNION {Below(m) : m \in Direct(id)}
    BY BelowStep
  <2>5. Below(id) \cap (Range(path) \cup {id}) = {}
    BY <2>3, <2>4
  <2>6. ASSUME NEW d \in Below(id) PROVE d \notin Below(d)
    <3>1. PICK m \in Direct(id) : d \in Below(m) \cup {m}
      BY <2>4, <2>6
    <3> QED
      BY <2>3, <3>1 DEF Looping
  <2>7. ~Looping(id)
    BY <2>5, <2>6 DEF Looping
  <2> QED
    BY <1>1, <2>5, <2>7 DEF Acyclic, Open
<1> QED
  BY <1>2, <1>3

LEMMA AllAcyclic ==
  ASSUME KnownLib
  PROVE  \A path \in Seq(Ids), id \in Ids : Acyclic(path, id)
<1> DEFINE Good == {x \in Seq(Ids) \X Ids : Acyclic(x[1], x[2])}
<1>1. \A path \in Seq(Ids), id \in Ids : <<path, id>> \in Good <=> Acyclic(path, id)
  OBVIOUS
<1> HIDE DEF Good
<1>2. ASSUME NEW path \in Seq(Ids), NEW id \in Ids,
             Len(path) < MaxIncludeDepth => \A m \in Ids : <<Append(path, id), m>> \in Good
      PROVE  <<path, id>> \in Good
  <2>1. Append(path, id) \in Seq(Ids)
    OBVIOUS
  <2>2. Len(path) < MaxIncludeDepth => \A m \in Ids : Acyclic(Append(path, id), m)
    BY <1>1, <1>2, <2>1
  <2>3. Acyclic(path, id)
    BY <2>2, AcyclicStep
  <2> QED
    BY <1>1, <2>3
<1>3. \A path \in Seq(Ids), id \in Ids : <<path, id>> \in Good
  BY <1>2, PathInduction
<1> QED
  BY <1>1, <1>3

\* A cycle that is reported is one: every open bundle reaches id.
Blamed(path, id) ==
  Cyclic(At(path, id)) /\ (\A p \in Range(path) : id \in Below(p)) => Looping(id)

LEMMA BlamedStep ==
  ASSUME KnownLib, NEW path \in Seq(Ids), NEW id \in Ids,
         Len(path) < MaxIncludeDepth => \A m \in Ids : Blamed(Append(path, id), m)
  PROVE  Blamed(path, id)
<1> SUFFICES ASSUME Cyclic(At(path, id)), \A p \in Range(path) : id \in Below(p) PROVE Looping(id)
  BY DEF Blamed
<1>1. CASE id \in Range(path)
  BY <1>1 DEF Looping
<1>2. CASE id \notin Range(path) /\ Len(path) >= MaxIncludeDepth
  <2>1. At(path, id) = Fail("IncludeTooDeep")
    BY <1>2, AtIs
  <2> QED
    BY <2>1, FailFields DEF Cyclic
<1>3. CASE Open(path, id) /\ IsLeaf(id)
  <2>1. At(path, id) = Leaf(id)
    BY <1>3, AtIs
  <2>2. ~Leaf(id).ok => Leaf(id).err = "UnknownPermission"
    BY LeafKnown, FailFields DEF Leaf
  <2> QED
    BY <2>1, <2>2 DEF Cyclic
<1>4. CASE Open(path, id) /\ ~IsLeaf(id)
  <2> DEFINE a == TakeAll(Opened(Leaf(id)), TakesOf(id), Under(path, id))
  <2>1. At(path, id) = FinishBundle(a)
    BY <1>4, AtIs
  <2>2. Append(path, id) \in Seq(Ids) /\ Range(Append(path, id)) = Range(path) \cup {id}
    BY Appended
  <2>3. Cyclic(a) => \E m \in Direct(id) : Cyclic(At(Append(path, id), m))
    BY <2>2, AllWritten, BundleLoop
  <2> HIDE DEF a
  <2>4. Cyclic(a)
    BY <2>1, FailFields DEF FinishBundle, Cyclic
  <2>5. PICK m \in Direct(id) : Cyclic(At(Append(path, id), m))
    BY <2>3, <2>4
  <2>6. m \in Ids /\ m \in Below(id) /\ Below(m) \subseteq Below(id)
    BY <2>5, MembersKnown, BelowStep
  <2>7. ASSUME NEW p \in Range(path) PROVE m \in Below(p)
    <3>1. p \in Ids
      BY DEF Range
    <3>2. id \in Below(p)
      OBVIOUS
    <3> QED
      BY <2>5, <3>1, <3>2, BelowGrows
  <2>8. Blamed(Append(path, id), m)
    BY <1>4, <2>6 DEF Open
  <2>9. Looping(m)
    BY <2>2, <2>5, <2>6, <2>7, <2>8 DEF Blamed
  <2> QED
    BY <2>6, <2>9 DEF Looping
<1> QED
  BY <1>1, <1>2, <1>3, <1>4, CatalogAssumption DEF Open

LEMMA AllBlamed ==
  ASSUME KnownLib
  PROVE  \A path \in Seq(Ids), id \in Ids : Blamed(path, id)
<1> DEFINE Good == {x \in Seq(Ids) \X Ids : Blamed(x[1], x[2])}
<1>1. \A path \in Seq(Ids), id \in Ids : <<path, id>> \in Good <=> Blamed(path, id)
  OBVIOUS
<1> HIDE DEF Good
<1>2. ASSUME NEW path \in Seq(Ids), NEW id \in Ids,
             Len(path) < MaxIncludeDepth => \A m \in Ids : <<Append(path, id), m>> \in Good
      PROVE  <<path, id>> \in Good
  <2>1. Append(path, id) \in Seq(Ids)
    OBVIOUS
  <2>2. Len(path) < MaxIncludeDepth => \A m \in Ids : Blamed(Append(path, id), m)
    BY <1>1, <1>2, <2>1
  <2>3. Blamed(path, id)
    BY <2>2, BlamedStep
  <2> QED
    BY <1>1, <2>3
<1>3. \A path \in Seq(Ids), id \in Ids : <<path, id>> \in Good
  BY <1>2, PathInduction
<1> QED
  BY <1>1, <1>3

LEMMA LoopsAreRefused ==
  ASSUME KnownLib
  PROVE  CyclesRefused
<1>1. ASSUME NEW id \in Ids, ~ReadFails(lib)
      PROVE  LET r == Resolve(lib, id)
             IN (Looping(id) => ~r.ok) /\ (Cyclic(r) => Looping(id))
  <2>1. Resolve(lib, id) = At(<<>>, id)
    BY <1>1, InnerUnfolds DEF Resolve, At
  <2>2. <<>> \in Seq(Ids) /\ Range(<<>>) = {}
    BY Singles
  <2>3. Acyclic(<<>>, id) /\ Blamed(<<>>, id)
    BY <2>2, AllAcyclic, AllBlamed
  <2> QED
    BY <2>1, <2>2, <2>3 DEF Acyclic, Blamed
<1> SUFFICES ASSUME ~ReadFails(lib), NEW below \in {[i \in Ids |-> Below(i)]}, NEW id \in Ids,
                    NEW loop \in {\E d \in below[id] \cup {id} : d \in below[d]}
             PROVE  LET r == Resolve(lib, id)
                    IN (loop => ~r.ok) /\ ((~r.ok /\ r.err = "Cycle") => loop)
  BY DEF CyclesRefused
<1>2. \A i \in Ids : below[i] = Below(i)
  OBVIOUS
<1>3. Below(id) \subseteq Ids
  BY BelowGrows
<1>4. loop <=> Looping(id)
  BY <1>2, <1>3 DEF Looping
<1> QED
  BY <1>1, <1>4 DEF Cyclic

\* For every catalog: resolve_inner resolves no id that reaches an include loop,
\* and where there is no loop it never blames one, however deep the includes nest.
THEOREM IncludeLoopsAreRefused == Spec => []CyclesRefused
<1>1. KnownLib => CyclesRefused
  BY LoopsAreRefused
<1> QED
  BY <1>1, LibStaysKnown, PTL

-----------------------------------------------------------------------------
(* What an account holds.                                                  *)

LEMMA AtMostOne ==
  ASSUME NEW S, IsFiniteSet(S), ~(Cardinality(S) > 1)
  PROVE  OneList(S)
<1> SUFFICES ASSUME NEW p \in S, NEW q \in S, p # q PROVE FALSE
  BY DEF OneList
<1> DEFINE T == {p}
<1>1. T \subseteq S /\ q \notin T
  OBVIOUS
<1>2. IsFiniteSet(T) /\ Cardinality(T) = 1
  BY FS_Singleton
<1> HIDE DEF T
<1> DEFINE U == T \cup {q}
<1>3. Cardinality(U) = IF q \in T THEN Cardinality(T) ELSE Cardinality(T) + 1
  BY ONLY <1>2, FS_AddElement, Zenon
<1>4. Cardinality(U) = 2
  <2>1. Cardinality(U) = Cardinality(T) + 1
    BY <1>1, <1>3
  <2> QED
    BY <1>2, <2>1
<1>5. U \in SUBSET S
  BY <1>1
<1> HIDE DEF U
<1>6. Cardinality(U) <= Cardinality(S)
  BY <1>5, FS_Subset
<1>7. Cardinality(S) \in Nat
  BY FS_CardinalityType
<1> QED
  BY <1>4, <1>6, <1>7

\* At most one list is passed to the bindings that a bundle carries.
LEMMA CarriedList ==
  ASSUME NEW perm, NEW params, ~TwoLists(perm, params), NEW b \in Range(perm.bound)
  PROVE  OneList(BindingLists(b.include.bindings, params))
<1> DEFINE all == ListsAmong(UsedParams(perm), params)
<1>1. perm.bound # <<>>
  BY Singles
<1>2. ~(Cardinality(all) > 1)
  BY <1>1 DEF TwoLists
<1>3. UsedParams(perm) \subseteq Params
  BY DEF UsedParams, Placeholders
<1>4. IsFiniteSet(all)
  <2>1. all \subseteq Params
    BY <1>3 DEF ListsAmong
  <2> QED
    BY <2>1, FS_Subset, TextAssumption
<1>5. OneList(all)
  BY <1>2, <1>4, AtMostOne
<1>6. BindingLists(b.include.bindings, params) \subseteq all
  BY DEF BindingLists, ListsAmong, UsedParams
<1> QED
  BY <1>5, <1>6 DEF OneList

LEMMA FilledSound ==
  ASSUME NEW r, r.ok => PermOk(r.perm), NEW params, ParamsOk(params), FillParams(r, params).ok
  PROVE  Sound(FillParams(r, params).perm)
<1> DEFINE own == SubstituteAll(r.perm, params, r.perm.params)
<1> DEFINE part(i) == ExpandBoundMember(r.perm.bound[i], params, r.perm.params)
<1> DEFINE perm == FillParams(r, params).perm
<1> DEFINE bound == DOMAIN r.perm.bound
<1>1. /\ r.ok /\ own.ok /\ \A i \in bound : part(i).ok
      /\ perm.groups = own.groups \cup UNION {part(i).groups : i \in bound}
      /\ perm.sudo = own.sudo \cup UNION {part(i).sudo : i \in bound}
      /\ perm.files = UnionGrants(own.files \cup UNION {part(i).files : i \in bound})
  BY FilledOk
<1>2. ~TwoLists(r.perm, params)
  BY <1>1, FailFields DEF FillParams
<1>3. WellWritten(r.perm) /\ BoundOk(r.perm.bound)
  BY <1>1 DEF PermOk
<1>4. Sound(own)
  BY <1>1, <1>3, SubstitutedSound
<1>5. ASSUME NEW i \in bound PROVE Sound(part(i))
  <2> DEFINE b == r.perm.bound[i]
  <2>1. b \in Range(r.perm.bound)
    BY DEF Range
  <2>2. WellWritten(b.member) /\ BindingsOk(b.include.bindings)
    BY <1>3, <2>1 DEF BoundOk
  <2> HIDE DEF b
  <2>3. OneList(BindingLists(b.include.bindings, params))
    BY <1>2, <2>1, CarriedList
  <2>4. ExpandBoundMember(b, params, r.perm.params).ok => Sound(ExpandBoundMember(b, params, r.perm.params))
    BY <2>2, <2>3, ExpandSound
  <2> QED
    BY <1>1, <2>4 DEF b
<1> HIDE DEF own, part, perm, bound
<1>6. \A g \in perm.files : \E h \in own.files \cup UNION {part(i).files : i \in bound} : h.path = g.path
  BY <1>1, MergedFrom
<1>7. \A g \in perm.files : Finished(g.path) /\ ~FilePathDefect(g.path)
  BY <1>4, <1>5, <1>6 DEF Sound
<1>8. \A x \in perm.groups : Finished(x.value) /\ ~GroupNameDefect(x.value)
  BY <1>1, <1>4, <1>5 DEF Sound
<1>9. \A x \in perm.sudo : Finished(x.value) /\ ~SudoCommandDefect(x.value)
  BY <1>1, <1>4, <1>5 DEF Sound
<1>10. Sound(perm)
  BY <1>7, <1>8, <1>9 DEF Sound
<1> QED
  BY <1>10 DEF perm

LEMMA AccountSound ==
  ASSUME KnownLib, CompKnown, Expanded(lib, comp).ok, NEW p \in Range(Expanded(lib, comp).perms)
  PROVE  Sound(p)
<1>1. PICK i \in DOMAIN comp.perms : p = Expanded(lib, comp).perms[i]
  BY ExpandedOk DEF Range
<1> DEFINE q == comp.perms[i]
<1>2. q.id \in Ids /\ ParamsOk(q.params)
  <2>1. comp # BlankComp
    <3>1. BlankComp.perms = <<>>
      BY DEF BlankComp
    <3> QED
      BY <1>1, <3>1
  <2>2. CompOk(comp)
    BY <2>1, LibraryAssumption DEF CompKnown
  <2>3. q \in Range(comp.perms)
    BY <1>1 DEF Range
  <2> QED
    BY <2>2, <2>3 DEF CompOk, ParamsOk
<1> DEFINE r == Resolve(lib, q.id)
<1>3. FillParams(r, q.params).ok /\ p = FillParams(r, q.params).perm
  <2>1. Resolutions(lib, comp)[i] = FillParams(r, q.params)
    BY DEF Resolutions, ResolveWithParams
  <2> QED
    BY <1>1, <2>1, ExpandedOk
<1>4. r.ok => PermOk(r.perm)
  <2>1. r.ok => r = At(<<>>, q.id)
    BY <1>2, ResolveIs
  <2>2. <<>> \in Seq(Ids)
    OBVIOUS
  <2>3. Written(<<>>, q.id)
    BY <1>2, <2>2, AllWritten
  <2> QED
    BY <2>1, <2>3 DEF Written
<1> HIDE DEF r, q
<1>5. Sound(FillParams(r, q.params).perm)
  BY <1>2, <1>3, <1>4, FilledSound
<1> QED
  BY <1>3, <1>5, Zenon

LEMMA TextsAreFinished ==
  ASSUME KnownLib, CompKnown
  PROVE  TextsFinished
<1> SUFFICES ASSUME Account.ok
             PROVE  LET a == Account.acct
                    IN /\ \A s \in a.sudo : ~SudoCommandDefect(s.value) /\ ~HasPlaceholder(s.value)
                       /\ \A g \in a.files : ~FilePathDefect(g.path) /\ ~HasPlaceholder(g.path)
                       /\ \A g \in a.groups \ comp.groups : ~GroupNameDefect(g) /\ ~HasPlaceholder(g)
  BY DEF TextsFinished
<1> DEFINE a == Account.acct
<1> DEFINE perms == Range(Expanded(lib, comp).perms)
<1>1. /\ Expanded(lib, comp).ok /\ AccountIs(a, comp, perms)
      /\ \A t \in comp.sudo : ~InlineSudoDefect(t)
      /\ \A g \in comp.files : ~RawGrantDefect(g)
  BY AccountOk DEF Account
<1>2. \A p \in perms : Sound(p)
  BY <1>1, AccountSound
<1> HIDE DEF a, perms
<1>3. ASSUME NEW s \in a.sudo PROVE ~SudoCommandDefect(s.value) /\ ~HasPlaceholder(s.value)
  <2>1. CASE \E t \in comp.sudo : s = Prim(t, NoRunas)
    <3>1. PICK t \in comp.sudo : s = Prim(t, NoRunas)
      BY <2>1
    <3>2. ~InlineSudoDefect(t) /\ s.value = t
      BY <1>1, <3>1 DEF Prim
    <3>3. "ctl" \notin t.marks
      <4>1. t.marks \cap {"ctl", "blank", "meta", "star", "bracket"} = {}
        BY <3>2 DEF InlineSudoDefect
      <4> QED
        BY <4>1
    <3> QED
      BY <3>2, <3>3 DEF InlineSudoDefect, SudoCommandDefect, AlwaysIllegal, NotRooted
  <2>2. CASE \E p \in perms : s \in p.sudo
    BY <1>2, <2>2 DEF Sound, Finished
  <2> QED
    BY <1>1, <2>1, <2>2 DEF AccountIs
<1>4. ASSUME NEW g \in a.files PROVE ~FilePathDefect(g.path) /\ ~HasPlaceholder(g.path)
  <2>1. PICK h \in comp.files \cup UNION {p.files : p \in perms} : h.path = g.path
    BY <1>1, <1>4, MergedFrom DEF AccountIs
  <2>2. CASE h \in comp.files
    <3>1. ~RawGrantDefect(h)
      BY <1>1, <2>2
    <3> QED
      BY <2>1, <3>1 DEF RawGrantDefect, StaticPathDefect, FilePathStaticDefect, FilePathDefect
  <2>3. CASE h \in UNION {p.files : p \in perms}
    BY <1>2, <2>1, <2>3 DEF Sound, Finished
  <2> QED
    BY <2>1, <2>2, <2>3
<1>5. ASSUME NEW g \in a.groups \ comp.groups PROVE ~GroupNameDefect(g) /\ ~HasPlaceholder(g)
  <2>1. PICK p \in perms : \E x \in p.groups : g = x.value
    BY <1>1, <1>5 DEF AccountIs
  <2> QED
    BY <1>2, <2>1 DEF Sound, Finished
<1> QED
  BY <1>3, <1>4, <1>5 DEF a

\* For every catalog and every slice: no text an account gets from a permission
\* still holds a placeholder, and each has passed the gate of its own kind.
THEOREM AccountsHoldFinishedTexts == Spec => []TextsFinished
<1>1. KnownLib /\ CompKnown => TextsFinished
  BY TextsAreFinished
<1>2. Spec => []CompKnown
  BY CompStaysKnown, PTL DEF Spec
<1> QED
  BY <1>1, <1>2, LibStaysKnown, PTL

-----------------------------------------------------------------------------
(* Where the texts of an account come from.                                *)

\* A text that was rendered is spliced as it is.
LEMMA RenderedStays ==
  ASSUME NEW t, t = [abs |-> t.abs, atoms |-> t.atoms, marks |-> t.marks, slash |-> t.slash],
         IsSeq(t.atoms), NEW f, DOMAIN f = {}
  PROVE  Substitute(t, f) = t
<1> DEFINE s == t.atoms
<1> DEFINE ss == [i \in DOMAIN s |-> IF s[i] \in DOMAIN f THEN f[s[i]].atoms ELSE <<s[i]>>]
<1>1. ss = [i \in DOMAIN s |-> <<s[i]>>]
  OBVIOUS
<1>2. FlattenSeq(ss) = s
  BY <1>1, SinglesFlatten
<1> HIDE DEF ss
<1> DEFINE u == Substitute(t, f)
<1>3. u = [abs |-> u.abs, atoms |-> u.atoms, marks |-> u.marks, slash |-> u.slash]
  BY DEF Substitute
<1>4. u.atoms = FlattenSeq(ss)
  BY DEF Substitute, ss
<1>5. u.abs = t.abs /\ u.slash = t.slash /\ u.marks = t.marks
  BY DEF Substitute
<1> HIDE DEF u
<1>6. u = t
  BY <1>2, <1>3, <1>4, <1>5
<1> QED
  BY <1>6 DEF u

\* Two constraints that no member may disagree on judge a value alike.
SameConstraint(p, params, others) ==
  p \in DOMAIN params /\ p \in DOMAIN others /\ Normalized(params[p]) = Normalized(others[p])
ConstraintsOk(params) == \A p \in DOMAIN params : IsConstraint(params[p])

LEMMA JudgedAlike ==
  ASSUME NEW c, IsConstraint(c), NEW d, IsConstraint(d), Normalized(c) = Normalized(d), NEW v
  PROVE  ValueDefect(c, v) <=> ValueDefect(d, v)
<1> DEFINE nc == Normalized(c)
<1> DEFINE nd == Normalized(d)
<1>1. nc.kind = c.kind /\ nc.allow_prefix = c.allow_prefix /\ nc.values = c.values
  BY DEF Normalized, IsConstraint, Constraint
<1>2. nd.kind = d.kind /\ nd.allow_prefix = d.allow_prefix /\ nd.values = d.values
  BY DEF Normalized, IsConstraint, Constraint
<1>3. c.kind = d.kind /\ c.allow_prefix = d.allow_prefix /\ c.values = d.values
  BY <1>1, <1>2
<1>4. nc.max_len = nd.max_len /\ nc.deny_glob = nd.deny_glob
  OBVIOUS
<1>5. TooLong(c, v) <=> TooLong(d, v)
  BY <1>4 DEF TooLong
<1> HIDE DEF nc, nd
<1> QED
  BY <1>3, <1>4, <1>5 DEF ValueDefect, nc, nd

LEMMA AcceptedAlike ==
  ASSUME NEW t, NEW params, ConstraintsOk(params), NEW others, ConstraintsOk(others),
         \A p \in Placeholders(t) : SameConstraint(p, params, others), NEW V
  PROVE  Accepted(t, params, V) \subseteq Accepted(t, others, V)
<1>1. ASSUME NEW p \in Placeholders(t), NEW v
      PROVE  p \in DOMAIN params /\ p \in DOMAIN others /\ (ValueDefect(params[p], v) <=> ValueDefect(others[p], v))
  BY JudgedAlike DEF SameConstraint, ConstraintsOk
<1> QED
  BY <1>1 DEF Accepted

\* The templates of a permission, and their instances among a set of leaves.
TextsOf(p) == {s.value : s \in p.sudo} \cup {g.path : g \in p.files}
InstancesOf(ds) == UNION {Instances(Leaf(d).perm) : d \in ds}

\* A text of a bundle is the template of a leaf, each of whose parameters the bundle
\* constrains as the leaf does, or it has been rendered and allowed by a leaf.
Held(x, params, d) ==
  /\ x \in TextsOf(Leaf(d).perm) /\ ConstraintsOk(Leaf(d).perm.params)
  /\ \A p \in Placeholders(x) : SameConstraint(p, params, Leaf(d).perm.params)
Sourced(x, params, ds) == (x \in InstancesOf(ds) /\ Finished(x)) \/ \E d \in ds : Held(x, params, d)
OwnSourced(p, ds) == ConstraintsOk(p.params) /\ \A x \in TextsOf(p) : Sourced(x, p.params, ds)
CarriedSourced(bound, ds) ==
  \A b \in Range(bound) : OwnSourced(b.member, ds) /\ Range(b.include.bindings) \subseteq BindingsStated
PermSourced(p, ds) == OwnSourced(p, ds) /\ CarriedSourced(p.bound, ds)

LEMMA SourcedWithin ==
  ASSUME NEW p, NEW ds, NEW es, ds \subseteq es, PermSourced(p, ds)
  PROVE  PermSourced(p, es)
<1>1. InstancesOf(ds) \subseteq InstancesOf(es)
  BY DEF InstancesOf
<1>2. ASSUME NEW q, OwnSourced(q, ds) PROVE OwnSourced(q, es)
  BY <1>1, <1>2 DEF OwnSourced, Sourced
<1> QED
  BY <1>2 DEF PermSourced, CarriedSourced

LEMMA InstanceWhole ==
  ASSUME NEW ds, NEW x \in InstancesOf(ds)
  PROVE  x = [abs |-> x.abs, atoms |-> x.atoms, marks |-> x.marks, slash |-> x.slash]
<1>1. PICK d \in ds : x \in Instances(Leaf(d).perm)
  BY DEF InstancesOf
<1>2. PICK t, params : x \in Sanctioned(t, params)
  BY <1>1 DEF Instances
<1>3. PICK f : x = Substitute(t, f)
  BY <1>2 DEF Sanctioned
<1> QED
  BY <1>3 DEF Substitute

LEMMA TextSourced ==
  ASSUME NEW t, IsSeq(t.atoms), NEW constraints, ConstraintsOk(constraints), NEW ds, Sourced(t, constraints, ds),
         NEW params, ParamsOk(params), ValuesOf(params) \subseteq Values, Render(t, params, constraints).ok,
         NEW x \in Range(Render(t, params, constraints).texts)
  PROVE  x \in InstancesOf(ds)
<1>1. CASE t \in InstancesOf(ds) /\ Finished(t)
  <2>1. Placeholders(t) = {}
    BY <1>1 DEF Finished, HasPlaceholder
  <2>2. PICK f : PickedFrom(f, Placeholders(t), params) /\ x = Substitute(t, f)
    BY RenderPicks
  <2>3. DOMAIN f = {}
    BY <2>1, <2>2 DEF PickedFrom
  <2>4. t = [abs |-> t.abs, atoms |-> t.atoms, marks |-> t.marks, slash |-> t.slash]
    BY <1>1, InstanceWhole
  <2>5. Substitute(t, f) = t
    BY <2>3, <2>4, RenderedStays
  <2> QED
    BY <1>1, <2>2, <2>5
<1>2. ASSUME NEW d \in ds, Held(t, constraints, d) PROVE x \in InstancesOf(ds)
  <2> DEFINE others == Leaf(d).perm.params
  <2>1. x \in Accepted(t, constraints, ValuesOf(params))
    BY RenderAccepted
  <2>2. x \in Accepted(t, constraints, Values)
    BY <2>1, AcceptedWithin
  <2>3. /\ ConstraintsOk(others) /\ t \in TextsOf(Leaf(d).perm)
        /\ \A p \in Placeholders(t) : SameConstraint(p, constraints, others)
    BY <1>2 DEF Held
  <2> HIDE DEF others
  <2>4. x \in Accepted(t, others, Values)
    BY <2>2, <2>3, AcceptedAlike
  <2>5. x \in Sanctioned(t, others)
    BY <2>4, AcceptedWithin
  <2>6. x \in Instances(Leaf(d).perm)
    BY <2>3, <2>5 DEF Instances, TextsOf, others
  <2> QED
    BY <2>6 DEF InstancesOf
<1> QED
  BY <1>1, <1>2 DEF Sourced

LEMMA SubstitutedSourced ==
  ASSUME NEW perm, WellWritten(perm), NEW ds, OwnSourced(perm, ds),
         NEW params, ParamsOk(params), ValuesOf(params) \subseteq Values,
         SubstituteAll(perm, params, perm.params).ok
  PROVE  TextsOf(SubstituteAll(perm, params, perm.params)) \subseteq InstancesOf(ds)
<1> DEFINE constraints == perm.params
<1> DEFINE own == SubstituteAll(perm, params, constraints)
<1> DEFINE s == RenderPrimitives(perm.sudo, params, constraints)
<1> DEFINE f == RenderGrants(perm.files, params, constraints)
<1>1. s.ok /\ own.sudo = s.items /\ f.ok /\ own.files = UnionGrants(f.items)
  BY SubstitutedOk
<1>2. ConstraintsOk(constraints)
  BY DEF OwnSourced
<1>3. ASSUME NEW x \in s.items PROVE x.value \in InstancesOf(ds)
  <2>1. PICK y \in perm.sudo : LET r == Render(y.value, params, constraints) IN r.ok /\ x.value \in Range(r.texts)
    BY <1>1, PrimitivesRendered
  <2>2. IsSeq(y.value.atoms) /\ Sourced(y.value, constraints, ds)
    BY DEF WellWritten, OwnSourced, TextsOf
  <2> HIDE DEF constraints
  <2> QED
    BY <1>2, <2>1, <2>2, TextSourced
<1>4. ASSUME NEW x \in f.items PROVE x.path \in InstancesOf(ds)
  <2>1. PICK y \in perm.files : LET r == Render(y.path, params, constraints) IN r.ok /\ x.path \in Range(r.texts)
    BY <1>1, GrantsRendered
  <2>2. IsSeq(y.path.atoms) /\ Sourced(y.path, constraints, ds)
    BY DEF WellWritten, OwnSourced, TextsOf
  <2> HIDE DEF constraints
  <2> QED
    BY <1>2, <2>1, <2>2, TextSourced
<1> HIDE DEF own, s, f
<1>5. \A x \in own.files : \E h \in f.items : h.path = x.path
  BY <1>1, MergedFrom
<1>6. TextsOf(own) \subseteq InstancesOf(ds)
  BY <1>1, <1>3, <1>4, <1>5 DEF TextsOf
<1> QED
  BY <1>6 DEF own

\* Of a member's own texts, whose own constraints judge what is bound to them.
LEMMA ExpandSourced ==
  ASSUME NEW bm, WellWritten(bm.member), BindingsOk(bm.include.bindings),
         NEW ds, OwnSourced(bm.member, ds), Range(bm.include.bindings) \subseteq BindingsStated,
         NEW params, ParamsOk(params), ValuesOf(params) \subseteq Passed,
         NEW constraints, OneList(BindingLists(bm.include.bindings, params)),
         ExpandBoundMember(bm, params, constraints).ok
  PROVE  TextsOf(ExpandBoundMember(bm, params, constraints)) \subseteq InstancesOf(ds)
<1> DEFINE r == ExpandBoundMember(bm, params, constraints)
<1> DEFINE bindings == bm.include.bindings
<1> DEFINE fanned == RenderBindings(bindings, params, constraints)
<1> DEFINE part(k) == SubstituteAll(bm.member, fanned.maps[k], bm.member.params)
<1>1. /\ fanned.ok /\ \A k \in DOMAIN fanned.maps : part(k).ok
      /\ r.sudo = UNION {part(k).sudo : k \in DOMAIN fanned.maps}
      /\ r.files = UNION {part(k).files : k \in DOMAIN fanned.maps}
  BY ExpandedMember
<1>2. \A k \in DOMAIN fanned.maps : /\ ParamsOk(fanned.maps[k])
                                   /\ ValuesOf(fanned.maps[k]) \subseteq BindingValues(bindings, params)
  BY <1>1, BindingsRender
<1>3. BindingValues(bindings, params) \subseteq Values
  <2>1. ASSUME NEW b \in DOMAIN bindings PROVE Spelled(bindings[b], ValuesOf(params)) \subseteq Values
    <3>1. bindings[b] \in BindingsStated
      BY DEF Range
    <3>2. Spelled(bindings[b], Passed) \subseteq Values
      BY <3>1, ValuesAssumption
    <3>3. Spelled(bindings[b], ValuesOf(params)) \subseteq Spelled(bindings[b], Passed)
      BY DEF Spelled
    <3> QED
      BY <3>2, <3>3
  <2> QED
    BY <2>1 DEF BindingValues
<1> HIDE DEF bindings, fanned
<1>4. \A k \in DOMAIN fanned.maps : TextsOf(part(k)) \subseteq InstancesOf(ds)
  BY <1>1, <1>2, <1>3, SubstitutedSourced
<1> HIDE DEF part, r
<1>5. TextsOf(r) \subseteq InstancesOf(ds)
  BY <1>1, <1>4 DEF TextsOf
<1> QED
  BY <1>5 DEF r

\* The parameters of a bundle, once a member has joined it.
LEMMA JoinedParams ==
  ASSUME NEW p, DOMAIN p = PermFields, NEW m
  PROVE  Absorb(p, m).params = p.params /\ Joined(p, m).params = Over(p.params, m.params)
<1> DEFINE a == Absorb(p, m)
<1>1. DOMAIN a = PermFields /\ a.params = p.params
  BY DEF Absorb, PermFields
<1> HIDE DEF a
<1>2. Joined(p, m) = [a EXCEPT !.params = Over(@, m.params), !.limits = IF @ = NoLimits THEN m.limits ELSE @]
  BY DEF Joined, a
<1>3. Joined(p, m).params = Over(p.params, m.params)
  BY <1>1, <1>2 DEF PermFields
<1> QED
  BY <1>1, <1>3 DEF a

LEMMA OverIs ==
  ASSUME NEW f, NEW g
  PROVE  /\ DOMAIN Over(f, g) = DOMAIN f \cup DOMAIN g
         /\ \A x \in DOMAIN f : Over(f, g)[x] = f[x]
         /\ \A x \in DOMAIN g \ DOMAIN f : Over(f, g)[x] = g[x]
BY DEF Over

\* Texts stay sourced while the constraints on their parameters are only added to.
LEMMA SourcedJoins ==
  ASSUME NEW params, ConstraintsOk(params), NEW others, ConstraintsOk(others), ~Conflicting(params, others), NEW ds
  PROVE  /\ ConstraintsOk(Over(params, others))
         /\ \A x : Sourced(x, params, ds) \/ Sourced(x, others, ds) => Sourced(x, Over(params, others), ds)
<1> DEFINE all == Over(params, others)
<1>1. /\ DOMAIN all = DOMAIN params \cup DOMAIN others
      /\ \A p \in DOMAIN params : all[p] = params[p]
      /\ \A p \in DOMAIN others \ DOMAIN params : all[p] = others[p]
  BY OverIs
<1> HIDE DEF all
<1>2. ConstraintsOk(all)
  BY <1>1 DEF ConstraintsOk
<1>3. \A p \in DOMAIN params : Normalized(all[p]) = Normalized(params[p])
  BY <1>1
<1>4. \A p \in DOMAIN others : Normalized(all[p]) = Normalized(others[p])
  <2> SUFFICES ASSUME NEW p \in DOMAIN others PROVE Normalized(all[p]) = Normalized(others[p])
    OBVIOUS
  <2>1. CASE p \in DOMAIN params
    BY <1>3, <2>1 DEF Conflicting
  <2>2. CASE p \notin DOMAIN params
    BY <1>1, <2>2
  <2> QED
    BY <2>1, <2>2
<1>5. \A x, d : Held(x, params, d) \/ Held(x, others, d) => Held(x, all, d)
  BY <1>1, <1>3, <1>4 DEF Held, SameConstraint
<1>6. \A x : Sourced(x, params, ds) \/ Sourced(x, others, ds) => Sourced(x, all, ds)
  BY <1>5 DEF Sourced
<1> QED
  BY <1>2, <1>6 DEF all

LEMMA GrownTexts ==
  ASSUME NEW q, NEW p, NEW m, Grown(q, p, m)
  PROVE  TextsOf(q) \subseteq TextsOf(p) \cup TextsOf(m)
<1>1. q.sudo = p.sudo \cup m.sudo /\ q.files = UnionGrants(p.files \cup m.files)
  BY DEF Grown
<1>2. \A g \in q.files : \E h \in p.files \cup m.files : h.path = g.path
  BY <1>1, MergedFrom
<1> QED
  BY <1>1, <1>2 DEF TextsOf

LEMMA TakeSourced ==
  ASSUME NEW acc, acc.ok => PermOk(acc.perm), NEW x, IncludeOk(x), NEW m, m.ok => PermOk(m.perm),
         NEW ds, acc.ok => PermSourced(acc.perm, ds), m.ok => PermSourced(m.perm, ds), Take(acc, x, m).ok
  PROVE  PermSourced(Take(acc, x, m).perm, ds)
<1> DEFINE t == Take(acc, x, m)
<1> DEFINE p == acc.perm
<1> DEFINE n == m.perm
<1>1. PermOk(p) /\ PermOk(n) /\ PermSourced(p, ds) /\ PermSourced(n, ds)
  BY TakeCases
<1>2. DOMAIN p = PermFields /\ WellWritten(p) /\ WellWritten(n)
  BY <1>1 DEF PermOk
<1>3. OwnSourced(p, ds) /\ CarriedSourced(p.bound, ds) /\ OwnSourced(n, ds)
  BY <1>1 DEF PermSourced
<1>4. CASE ~IsBound(x)
  <2>1. t.perm = Joined(p, n)
    <3>1. t = TookBare(acc, m)
      BY <1>4, TakeCases
    <3> HIDE DEF t
    <3> QED
      BY <3>1, TakingFields DEF TookBare
  <2>2. ~Conflicting(p.params, n.params)
    <3>1. TakeMember(acc, m).ok
      BY <1>4 DEF Take
    <3> QED
      BY <3>1, FailFields DEF TakeMember
  <2> HIDE DEF t, p, n
  <2> DEFINE q == Joined(p, n)
  <2>3. Grown(q, p, n)
    BY <1>2, JoinedFields
  <2>4. q.params = Over(p.params, n.params)
    BY <1>2, JoinedParams
  <2> HIDE DEF q
  <2>5. /\ ConstraintsOk(q.params)
        /\ \A y : Sourced(y, p.params, ds) \/ Sourced(y, n.params, ds) => Sourced(y, q.params, ds)
    BY <1>3, <2>2, <2>4, SourcedJoins DEF OwnSourced
  <2>6. TextsOf(q) \subseteq TextsOf(p) \cup TextsOf(n)
    BY <2>3, GrownTexts
  <2>7. OwnSourced(q, ds)
    BY <1>3, <2>5, <2>6 DEF OwnSourced
  <2>8. q.bound = p.bound
    BY <2>3 DEF Grown
  <2>9. PermSourced(q, ds)
    BY <1>3, <2>7, <2>8 DEF PermSourced
  <2> QED
    BY <2>1, <2>9 DEF q, t
<1>5. CASE t = TookRendered(acc, x, m) /\ ExpandBoundMember([include |-> x, member |-> n], <<>>, <<>>).ok
  <2> DEFINE bm == [include |-> x, member |-> n]
  <2> DEFINE now == ExpandBoundMember(bm, <<>>, <<>>)
  <2> DEFINE q == Absorb(p, now)
  <2>1. t.perm = q
    BY <1>5, TakingFields DEF TookRendered
  <2>2. Sound(now)
    BY <1>2, <1>5, LiteralExpands
  <2>3. now.ok
    BY <1>5
  <2>4. bm.include = x /\ bm.member = n
    OBVIOUS
  <2> HIDE DEF now, p, t, n, bm
  <2>5. Grown(q, p, now) /\ q.params = p.params
    BY <1>2, AbsorbFields, JoinedParams
  <2> HIDE DEF q
  <2>6. TextsOf(now) \subseteq InstancesOf(ds)
    <3>1. BindingsOk(bm.include.bindings) /\ Range(bm.include.bindings) \subseteq BindingsStated
      BY <2>4 DEF IncludeOk, BindingsOk, Range
    <3>2. ParamsOk(<<>>) /\ ValuesOf(<<>>) \subseteq Passed
      BY DEF ParamsOk, ValuesOf
    <3>3. OneList(BindingLists(bm.include.bindings, <<>>))
      <4>1. BindingLists(bm.include.bindings, <<>>) = {}
        BY DEF BindingLists, ListsAmong
      <4> QED
        BY <4>1 DEF OneList
    <3>4. WellWritten(bm.member) /\ OwnSourced(bm.member, ds)
      BY <1>2, <1>3, <2>4
    <3> QED
      BY <2>3, <3>1, <3>2, <3>3, <3>4, ExpandSourced DEF now
  <2>7. \A y \in TextsOf(now) : Finished(y)
    BY <2>2 DEF Sound, TextsOf
  <2>8. TextsOf(q) \subseteq TextsOf(p) \cup TextsOf(now)
    BY <2>5, GrownTexts
  <2>9. OwnSourced(q, ds)
    BY <1>3, <2>5, <2>6, <2>7, <2>8 DEF OwnSourced, Sourced
  <2>10. q.bound = p.bound
    BY <2>5 DEF Grown
  <2>11. PermSourced(q, ds)
    BY <1>3, <2>9, <2>10 DEF PermSourced
  <2> QED
    BY <2>1, <2>11 DEF t
<1>6. CASE t = TookBound(acc, x, m)
  <2> DEFINE b == [include |-> x, member |-> n]
  <2> DEFINE q == [p EXCEPT !.bound = Append(@, b)]
  <2>1. t.perm = q
    BY <1>6, TakingFields DEF TookBound
  <2>2. b.include = x /\ b.member = n
    OBVIOUS
  <2>3. IsSeq(p.bound)
    BY <1>1 DEF PermOk, BoundOk
  <2> HIDE DEF p, b, t, n
  <2>4. q.sudo = p.sudo /\ q.files = p.files /\ q.params = p.params /\ q.bound = Append(p.bound, b)
    BY <1>2 DEF PermFields
  <2> HIDE DEF q
  <2>5. OwnSourced(q, ds)
    BY <1>3, <2>4 DEF OwnSourced, TextsOf
  <2>6. Range(q.bound) = Range(p.bound) \cup {b}
    <3> DEFINE s == p.bound
    <3>1. Append(s, b) = s \o <<b>>
      BY <2>3 DEF IsSeq
    <3>2. Range(s \o <<b>>) = Range(s) \cup {b}
      BY <2>3, Singles, Concatenated
    <3> QED
      BY <2>4, <3>1, <3>2
  <2>7. CarriedSourced(q.bound, ds)
    BY <1>3, <2>2, <2>6 DEF CarriedSourced, IncludeOk
  <2>8. PermSourced(q, ds)
    BY <2>5, <2>7 DEF PermSourced
  <2> QED
    BY <2>1, <2>8 DEF t
<1> QED
  BY <1>4, <1>5, <1>6, TakeCases

LEMMA LoopSourced ==
  ASSUME NEW first, first.ok => PermOk(first.perm), NEW takes, NEW members, NEW f, NEW n,
         Steps(first, takes, members, f, n),
         \A x \in Range(takes) : IncludeOk(x) /\ (members[x.id].ok => PermOk(members[x.id].perm)),
         NEW ds, first.ok => PermSourced(first.perm, ds),
         \A x \in Range(takes) : members[x.id].ok => PermSourced(members[x.id].perm, ds)
  PROVE  f[n].ok => PermSourced(f[n].perm, ds)
<1>1. n \in Nat /\ f[0] = first /\ DOMAIN takes = 1..n
  BY DEF Steps
<1> DEFINE Fine(k) == f[k].ok => PermSourced(f[k].perm, ds)
<1> DEFINE P == {k \in Nat : k <= n => Fine(k)}
<1>2. 0 \in P
  BY <1>1
<1>3. ASSUME NEW j \in Nat, j \in P PROVE j + 1 \in P
  <2> SUFFICES ASSUME j + 1 <= n PROVE Fine(j + 1)
    OBVIOUS
  <2>1. PICK k \in 1..n : k = j + 1
    BY <1>1
  <2>2. Fine(j) /\ j \in 0..n
    BY <1>1, <1>3
  <2>3. k - 1 = j
    BY <2>1
  <2> DEFINE m == members[takes[k].id]
  <2> DEFINE x == takes[k]
  <2> DEFINE a == f[j]
  <2>4. f[k] = IF Repeated(takes, k) THEN a ELSE Take(a, x, m)
    BY <2>3 DEF Steps
  <2>5. IncludeOk(x) /\ (m.ok => PermOk(m.perm)) /\ (m.ok => PermSourced(m.perm, ds))
    BY <1>1 DEF Range
  <2>6. (a.ok => PermOk(a.perm)) /\ (a.ok => PermSourced(a.perm, ds))
    BY <2>2, LoopWrites
  <2> HIDE DEF a, x, m
  <2>7. f[k].ok => PermSourced(f[k].perm, ds)
    BY <2>4, <2>5, <2>6, TakeSourced
  <2> QED
    BY <2>1, <2>7
<1> HIDE DEF P
<1>4. Nat \subseteq P
  BY <1>2, <1>3, SetInduction
<1> QED
  BY <1>1, <1>4 DEF P

\* Every placeholder of the commands and paths gathered so far has its constraint.
Declared(sudo, files, params) ==
  ConstraintsOk(params) /\ \A t \in sudo \cup {g.path : g \in files} : Placeholders(t) \subseteq DOMAIN params

LEMMA LayerDeclared ==
  ASSUME NEW p, DOMAIN p = PermFields, Declared(p.sudo, p.files, p.params),
         NEW d, Declared(d.sudo.vals, d.files, d.params)
  PROVE  LET q == MergeLayer(p, d) IN Declared(q.sudo, q.files, q.params)
<1> DEFINE b == [p EXCEPT !.groups = {}, !.sudo = {}, !.files = {}, !.limits = NoLimits, !.params = <<>>]
<1> DEFINE base == IF d.replace THEN b ELSE p
<1>1. DOMAIN b = PermFields /\ b.sudo = {} /\ b.files = {} /\ b.params = <<>>
  BY DEF PermFields
<1> HIDE DEF b
<1>2. ConstraintsOk(<<>>)
  BY DEF ConstraintsOk
<1>3. DOMAIN base = PermFields /\ Declared(base.sudo, base.files, base.params)
  BY <1>1, <1>2 DEF Declared
<1>4. MergeLayer(p, d) =
        [base EXCEPT
           !.groups = ApplyListOverride(@, d.groups), !.sudo = ApplyListOverride(@, d.sudo),
           !.files = @ \cup d.files, !.params = Over(d.params, @),
           !.risk = IF d.risk = NoRisk THEN @ ELSE d.risk,
           !.runas = IF d.runas = NoRunas THEN @ ELSE d.runas,
           !.limits = IF d.limits = NoLimits THEN @ ELSE d.limits]
  BY DEF MergeLayer, b
<1> HIDE DEF base
<1> DEFINE q == MergeLayer(p, d)
<1>5. /\ q.sudo = ApplyListOverride(base.sudo, d.sudo) /\ q.files = base.files \cup d.files
      /\ q.params = Over(d.params, base.params)
  BY <1>3, <1>4 DEF PermFields
<1> HIDE DEF q
<1>6. q.sudo \subseteq base.sudo \cup d.sudo.vals
  BY <1>5 DEF ApplyListOverride
<1>7. /\ DOMAIN q.params = DOMAIN d.params \cup DOMAIN base.params
      /\ \A x \in DOMAIN d.params : q.params[x] = d.params[x]
      /\ \A x \in DOMAIN base.params \ DOMAIN d.params : q.params[x] = base.params[x]
  <2> DEFINE dp == d.params
  <2> DEFINE bp == base.params
  <2> HIDE DEF dp, bp
  <2>1. /\ DOMAIN Over(dp, bp) = DOMAIN dp \cup DOMAIN bp
        /\ \A x \in DOMAIN dp : Over(dp, bp)[x] = dp[x]
        /\ \A x \in DOMAIN bp \ DOMAIN dp : Over(dp, bp)[x] = bp[x]
    BY OverIs
  <2>2. q.params = Over(dp, bp)
    BY <1>5 DEF dp, bp
  <2> QED
    BY <2>1, <2>2 DEF dp, bp
<1>8. ConstraintsOk(q.params)
  BY <1>3, <1>7 DEF Declared, ConstraintsOk
<1>9. Declared(q.sudo, q.files, q.params)
  BY <1>3, <1>5, <1>6, <1>7, <1>8 DEF Declared
<1> QED
  BY <1>9 DEF q

\* The record that a layer has for an id, in a catalog that reads.
LEMMA LayerReads ==
  ASSUME KnownLib, ~ReadFails(lib), NEW layer \in Range(Layers), NEW id, DefFiles(lib, layer, id) # <<>>
  PROVE  LET d == DefOn(lib, layer, id) IN Declared(d.sudo.vals, d.files, d.params)
<1> DEFINE files == DefFiles(lib, layer, id)
<1>1. IsSeq(files) /\ Range(files) \subseteq {f \in lib : f.def.id = id /\ f.layer = layer /\ ~f.link}
  BY FilesOnLayer
<1> HIDE DEF files
<1>2. files[1] \in Range(files)
  <2>1. files # <<>>
    BY DEF files
  <2> QED
    BY <1>1, <2>1 DEF IsSeq, Range
<1> DEFINE f == files[1]
<1>3. f \in LayerFiles(lib, layer) /\ f \in Drafts
  BY <1>1, <1>2 DEF LayerFiles, KnownLib
<1> DEFINE d == f.def
<1>4. DefOn(lib, layer, id) = d
  BY DEF DefOn, files
<1>5. ~Invalid(d)
  BY <1>3 DEF ReadFails, ReadLayerFails, FilesFail
<1>6. DraftOk(f)
  BY <1>3, LibraryAssumption
<1>7. ConstraintsOk(d.params)
  BY <1>6 DEF DraftOk, ConstraintsOk
<1> HIDE DEF d
<1>8. PlaceholderNames(d) = DOMAIN d.params
  BY <1>5 DEF Invalid
<1>9. \A t \in d.sudo.vals \cup {g.path : g \in d.files} : Placeholders(t) \subseteq PlaceholderNames(d)
  BY DEF PlaceholderNames
<1>10. Declared(d.sudo.vals, d.files, d.params)
  BY <1>7, <1>8, <1>9 DEF Declared
<1> QED
  BY <1>4, <1>10

LEMMA LeafSourced ==
  ASSUME KnownLib, ~ReadFails(lib), NEW id, Leaf(id).ok
  PROVE  OwnSourced(Leaf(id).perm, {id})
<1> DEFINE n == Len(Layers)
<1>1. PICK f : MergeLayers(lib, id) = f[n] /\ \A k \in 0..n : f[k] = MergedTo(lib, id, f, k)
  BY MergedIs
<1>2. n \in Nat /\ DOMAIN Layers = 1..n
  BY CatalogAssumption
<1> DEFINE Fine(q) == DOMAIN q = PermFields /\ Declared(q.sudo, q.files, q.params)
<1> DEFINE P == {k \in Nat : k <= n => Fine(f[k])}
<1>3. 0 \in P
  <2>1. f[0] = Blank(id)
    BY <1>1, <1>2 DEF MergedTo
  <2>2. Fine(Blank(id))
    BY DEF Blank, PermFields, Declared, ConstraintsOk
  <2> QED
    BY <2>1, <2>2
<1>4. ASSUME NEW j \in Nat, j \in P PROVE j + 1 \in P
  <2> SUFFICES ASSUME j + 1 <= n PROVE Fine(f[j + 1])
    OBVIOUS
  <2>1. PICK k \in 1..n : k = j + 1
    BY <1>2
  <2>2. Fine(f[j])
    BY <1>2, <1>4
  <2>3. k \in 0..n /\ k # 0 /\ k - 1 = j
    BY <2>1, <1>2
  <2>4. f[k] = MergedTo(lib, id, f, k)
    BY <2>3, <1>1
  <2> DEFINE layer == Layers[k]
  <2>5. f[k] = IF DefFiles(lib, layer, id) = <<>> THEN f[j] ELSE MergeLayer(f[j], DefOn(lib, layer, id))
    BY <2>3, <2>4 DEF MergedTo
  <2>6. layer \in Range(Layers)
    BY <1>2 DEF Range
  <2> HIDE DEF layer
  <2>7. CASE DefFiles(lib, layer, id) = <<>>
    BY <2>1, <2>2, <2>5, <2>7
  <2>8. CASE DefFiles(lib, layer, id) # <<>>
    <3> DEFINE d == DefOn(lib, layer, id)
    <3> DEFINE p == f[j]
    <3> DEFINE q == MergeLayer(p, d)
    <3>1. Declared(d.sudo.vals, d.files, d.params)
      BY <2>6, <2>8, LayerReads
    <3>2. DOMAIN p = PermFields /\ Declared(p.sudo, p.files, p.params)
      BY <2>2
    <3> HIDE DEF p, d
    <3>3. DOMAIN q = PermFields
      BY <3>2, MergeFields
    <3>4. Declared(q.sudo, q.files, q.params)
      BY <3>1, <3>2, LayerDeclared
    <3> HIDE DEF q
    <3>5. Fine(q)
      BY <3>3, <3>4
    <3> QED
      BY <2>1, <2>5, <2>8, <3>5 DEF p, d, q
  <2> QED
    BY <2>7, <2>8
<1> HIDE DEF P
<1>5. n \in P
  BY <1>2, <1>3, <1>4, SetInduction
<1> DEFINE leaf == MergeLayers(lib, id)
<1>6. Fine(leaf)
  BY <1>1, <1>2, <1>5 DEF P
<1> DEFINE q == Stamped(leaf)
<1>7. Leaf(id).perm = q
  BY DEF Leaf, ResolveLeaf, Fail
<1> HIDE DEF leaf, n
<1>8. q.params = leaf.params
  BY <1>6 DEF Stamped, PermFields
<1>9. q.files = UnionGrants(leaf.files) /\ q.sudo = {Prim(c, leaf.runas) : c \in leaf.sudo}
  BY <1>6, StampedFields
<1> HIDE DEF q
<1>10. \A g \in q.files : \E h \in leaf.files : h.path = g.path
  BY <1>9, MergedFrom
<1>11. \A t \in TextsOf(q) : Placeholders(t) \subseteq DOMAIN q.params
  <2>1. ASSUME NEW s \in q.sudo PROVE Placeholders(s.value) \subseteq DOMAIN q.params
    BY <1>6, <1>8, <1>9 DEF Declared, Prim
  <2>2. ASSUME NEW g \in q.files PROVE Placeholders(g.path) \subseteq DOMAIN q.params
    BY <1>6, <1>8, <1>10 DEF Declared
  <2> QED
    BY <2>1, <2>2 DEF TextsOf
<1>12. ConstraintsOk(q.params)
  BY <1>6, <1>8 DEF Declared
<1>13. \A t \in TextsOf(q) : Held(t, q.params, id)
  BY <1>7, <1>11, <1>12 DEF Held, SameConstraint
<1>14. OwnSourced(q, {id})
  BY <1>12, <1>13 DEF OwnSourced, Sourced
<1> QED
  BY <1>7, <1>14, Zenon

Origins(id) == {id} \cup Below(id)
Traced(path, id) == At(path, id).ok => PermSourced(At(path, id).perm, Origins(id))

LEMMA EmptySourced ==
  \A ds : CarriedSourced(<<>>, ds)
BY Singles DEF CarriedSourced

LEMMA TracedStep ==
  ASSUME KnownLib, ~ReadFails(lib), NEW path \in Seq(Ids), NEW id \in Ids,
         Len(path) < MaxIncludeDepth => \A m \in Ids : Traced(Append(path, id), m)
  PROVE  Traced(path, id)
<1> SUFFICES ASSUME At(path, id).ok PROVE PermSourced(At(path, id).perm, Origins(id))
  BY DEF Traced
<1>1. Open(path, id) /\ Leaf(id).ok
  BY OpenIs
<1>2. PermSourced(Leaf(id).perm, Origins(id))
  <2>1. OwnSourced(Leaf(id).perm, {id}) /\ Leaf(id).perm.bound = <<>>
    BY <1>1, LeafSourced, LeafKnown DEF Leaf
  <2>2. PermSourced(Leaf(id).perm, {id})
    BY <2>1, EmptySourced DEF PermSourced
  <2> QED
    BY <2>2, SourcedWithin DEF Origins
<1>3. CASE IsLeaf(id)
  <2>1. At(path, id) = Leaf(id)
    BY <1>3, OpenIs
  <2> QED
    BY <1>2, <2>1, Zenon
<1>4. CASE ~IsLeaf(id)
  <2> DEFINE first == Opened(Leaf(id))
  <2> DEFINE takes == TakesOf(id)
  <2> DEFINE members == Under(path, id)
  <2> DEFINE a == TakeAll(first, takes, members)
  <2> DEFINE n == Len(takes)
  <2> DEFINE ds == Origins(id)
  <2> DEFINE r == At(path, id)
  <2>1. Closes(path, id, a, r)
    BY <1>4, BundleCloses
  <2>2. IsSeq(takes) /\ (\A x \in Range(takes) : IncludeOk(x)) /\ {x.id : x \in Range(takes)} = Direct(id)
    BY TakesKnown
  <2>3. PICK f : Steps(first, takes, members, f, n)
    BY <2>2, TakenIs
  <2>4. n \in Nat /\ a = f[n]
    BY <2>3 DEF Steps
  <2>5. first.ok /\ first.perm = Leaf(id).perm
    BY <1>1, TakingFields DEF Opened
  <2>6. PermOk(first.perm)
    <3>1. DOMAIN Leaf(id).perm = PermFields /\ WellWritten(Leaf(id).perm) /\ Leaf(id).perm.bound = <<>>
      BY <1>1, LeafKnown DEF Leaf
    <3>2. BoundOk(<<>>)
      BY Singles DEF BoundOk
    <3> QED
      BY <2>5, <3>1, <3>2 DEF PermOk
  <2>7. \A m : members[m] = At(Append(path, id), m)
    BY DEF Under, At
  <2>8. Append(path, id) \in Seq(Ids)
    OBVIOUS
  <2>9. ASSUME NEW x \in Range(takes), members[x.id].ok
        PROVE  PermOk(members[x.id].perm) /\ PermSourced(members[x.id].perm, ds)
    <3>1. x.id \in Direct(id) /\ x.id \in Ids
      BY <2>2 DEF IncludeOk
    <3>2. Written(Append(path, id), x.id)
      BY <2>8, <3>1, AllWritten
    <3>3. Traced(Append(path, id), x.id)
      BY <1>1, <3>1 DEF Open
    <3>4. Origins(x.id) \subseteq ds
      BY <3>1, BelowStep DEF Origins
    <3>5. PermOk(members[x.id].perm) /\ PermSourced(members[x.id].perm, Origins(x.id))
      BY <2>7, <2>9, <3>2, <3>3 DEF Written, Traced
    <3> HIDE DEF members, ds
    <3> QED
      BY <3>4, <3>5, SourcedWithin
  <2>10. PermSourced(first.perm, ds)
    BY <1>2, <2>5
  <2> HIDE DEF first, takes, members, a, n, ds, r
  <2>11. a.ok => PermSourced(a.perm, ds)
    BY <2>2, <2>3, <2>4, <2>6, <2>9, <2>10, LoopSourced
  <2>12. a.ok /\ r.perm.sudo = a.perm.sudo /\ r.perm.files = a.perm.files
         /\ r.perm.bound = a.perm.bound /\ r.perm.params = a.perm.params
    BY <2>1 DEF Closes
  <2>13. PermSourced(r.perm, ds)
    BY <2>11, <2>12 DEF PermSourced, OwnSourced, TextsOf
  <2> QED
    BY <2>13 DEF r, ds
<1> QED
  BY <1>3, <1>4

LEMMA AllTraced ==
  ASSUME KnownLib, ~ReadFails(lib)
  PROVE  \A path \in Seq(Ids), id \in Ids : Traced(path, id)
<1> DEFINE Good == {x \in Seq(Ids) \X Ids : Traced(x[1], x[2])}
<1>1. \A path \in Seq(Ids), id \in Ids : <<path, id>> \in Good <=> Traced(path, id)
  OBVIOUS
<1> HIDE DEF Good
<1>2. ASSUME NEW path \in Seq(Ids), NEW id \in Ids,
             Len(path) < MaxIncludeDepth => \A m \in Ids : <<Append(path, id), m>> \in Good
      PROVE  <<path, id>> \in Good
  <2>1. Append(path, id) \in Seq(Ids)
    OBVIOUS
  <2>2. Len(path) < MaxIncludeDepth => \A m \in Ids : Traced(Append(path, id), m)
    BY <1>1, <1>2, <2>1
  <2>3. Traced(path, id)
    BY <2>2, TracedStep
  <2> QED
    BY <1>1, <2>3
<1>3. \A path \in Seq(Ids), id \in Ids : <<path, id>> \in Good
  BY <1>2, PathInduction
<1> QED
  BY <1>1, <1>3

LEMMA FilledSourced ==
  ASSUME NEW r, r.ok => PermOk(r.perm), NEW ds, r.ok => PermSourced(r.perm, ds),
         NEW params, ParamsOk(params), ValuesOf(params) \subseteq Passed, FillParams(r, params).ok
  PROVE  TextsOf(FillParams(r, params).perm) \subseteq InstancesOf(ds)
<1> DEFINE own == SubstituteAll(r.perm, params, r.perm.params)
<1> DEFINE part(i) == ExpandBoundMember(r.perm.bound[i], params, r.perm.params)
<1> DEFINE perm == FillParams(r, params).perm
<1> DEFINE bound == DOMAIN r.perm.bound
<1>1. /\ r.ok /\ own.ok /\ \A i \in bound : part(i).ok
      /\ perm.sudo = own.sudo \cup UNION {part(i).sudo : i \in bound}
      /\ perm.files = UnionGrants(own.files \cup UNION {part(i).files : i \in bound})
  BY FilledOk
<1>2. ~TwoLists(r.perm, params)
  BY <1>1, FailFields DEF FillParams
<1>3. /\ WellWritten(r.perm) /\ BoundOk(r.perm.bound)
      /\ OwnSourced(r.perm, ds) /\ CarriedSourced(r.perm.bound, ds)
  BY <1>1 DEF PermOk, PermSourced
<1>4. TextsOf(own) \subseteq InstancesOf(ds)
  <2>1. ValuesOf(params) \subseteq Values
    BY ValuesAssumption
  <2> QED
    BY <1>1, <1>3, <2>1, SubstitutedSourced
<1>5. ASSUME NEW i \in bound PROVE TextsOf(part(i)) \subseteq InstancesOf(ds)
  <2> DEFINE b == r.perm.bound[i]
  <2>1. b \in Range(r.perm.bound)
    BY DEF Range
  <2>2. /\ WellWritten(b.member) /\ BindingsOk(b.include.bindings)
        /\ OwnSourced(b.member, ds) /\ Range(b.include.bindings) \subseteq BindingsStated
    BY <1>3, <2>1 DEF BoundOk, CarriedSourced
  <2>3. ExpandBoundMember(b, params, r.perm.params).ok
    BY <1>1
  <2> HIDE DEF b
  <2>4. OneList(BindingLists(b.include.bindings, params))
    BY <1>2, <2>1, CarriedList
  <2>5. TextsOf(ExpandBoundMember(b, params, r.perm.params)) \subseteq InstancesOf(ds)
    BY <2>2, <2>3, <2>4, ExpandSourced
  <2> QED
    BY <2>5 DEF b
<1> HIDE DEF own, part, perm, bound
<1>6. \A g \in perm.files : \E h \in own.files \cup UNION {part(i).files : i \in bound} : h.path = g.path
  BY <1>1, MergedFrom
<1>7. TextsOf(perm) \subseteq InstancesOf(ds)
  BY <1>1, <1>4, <1>5, <1>6 DEF TextsOf
<1> QED
  BY <1>7 DEF perm

LEMMA AccountSourced ==
  ASSUME KnownLib, CompKnown, Expanded(lib, comp).ok, NEW p \in Range(Expanded(lib, comp).perms)
  PROVE  \E q \in Range(comp.perms) : TextsOf(p) \subseteq InstancesOf(Origins(q.id))
<1>1. PICK i \in DOMAIN comp.perms : p = Expanded(lib, comp).perms[i]
  BY ExpandedOk DEF Range
<1> DEFINE q == comp.perms[i]
<1>2. q \in Range(comp.perms)
  BY <1>1 DEF Range
<1>3. q.id \in Ids /\ ParamsOk(q.params) /\ ValuesOf(q.params) \subseteq Passed
  <2>1. comp # BlankComp
    <3>1. BlankComp.perms = <<>>
      BY DEF BlankComp
    <3> QED
      BY <1>1, <3>1
  <2>2. comp \in Comps /\ CompOk(comp)
    BY <2>1, LibraryAssumption DEF CompKnown
  <2>3. q.id \in Ids /\ ParamsOk(q.params)
    BY <1>2, <2>2 DEF CompOk, ParamsOk
  <2>4. ValuesOf(q.params) \subseteq Passed
    BY <1>2, <2>2 DEF Passed
  <2> QED
    BY <2>3, <2>4
<1> DEFINE r == Resolve(lib, q.id)
<1>4. FillParams(r, q.params).ok /\ p = FillParams(r, q.params).perm
  <2>1. Resolutions(lib, comp)[i] = FillParams(r, q.params)
    BY DEF Resolutions, ResolveWithParams
  <2> QED
    BY <1>1, <2>1, ExpandedOk
<1>5. ASSUME r.ok PROVE PermOk(r.perm) /\ PermSourced(r.perm, Origins(q.id))
  <2>1. r = At(<<>>, q.id) /\ ~ReadFails(lib)
    BY <1>3, <1>5, ResolveIs, FailFields DEF Resolve
  <2>2. <<>> \in Seq(Ids)
    OBVIOUS
  <2>3. Written(<<>>, q.id) /\ Traced(<<>>, q.id)
    BY <1>3, <2>1, <2>2, AllWritten, AllTraced
  <2> QED
    BY <1>5, <2>1, <2>3 DEF Written, Traced
<1> HIDE DEF r, q
<1>6. TextsOf(FillParams(r, q.params).perm) \subseteq InstancesOf(Origins(q.id))
  BY <1>3, <1>4, <1>5, FilledSourced
<1> QED
  BY <1>2, <1>4, <1>6, Zenon

LEMMA TextsAreSourced ==
  ASSUME KnownLib, CompKnown
  PROVE  ValuesSanctioned
<1> DEFINE reached == UNION {{q.id} \cup Below(q.id) : q \in Range(comp.perms)}
<1> DEFINE texts == UNION {Instances(ResolveLeaf(lib, d).perm) : d \in reached}
<1> SUFFICES ASSUME Account.ok
             PROVE  LET a == Account.acct
                    IN /\ \A s \in a.sudo : s.value \in comp.sudo \cup texts
                       /\ \A g \in a.files : g.path \in {h.path : h \in comp.files} \cup texts
  BY Zenon DEF ValuesSanctioned
<1> DEFINE a == Account.acct
<1> DEFINE perms == Range(Expanded(lib, comp).perms)
<1>1. Expanded(lib, comp).ok /\ AccountIs(a, comp, perms)
  BY AccountOk DEF Account
<1>2. \A q \in Range(comp.perms) : InstancesOf(Origins(q.id)) \subseteq texts
  BY DEF InstancesOf, Origins, Leaf
<1> HIDE DEF texts
<1>3. \A p \in perms : TextsOf(p) \subseteq texts
  BY <1>1, <1>2, AccountSourced
<1> HIDE DEF a, perms
<1>4. ASSUME NEW s \in a.sudo PROVE s.value \in comp.sudo \cup texts
  <2>1. CASE \E t \in comp.sudo : s = Prim(t, NoRunas)
    BY <2>1 DEF Prim
  <2>2. CASE \E p \in perms : s \in p.sudo
    BY <1>3, <2>2 DEF TextsOf
  <2> QED
    BY <1>1, <2>1, <2>2 DEF AccountIs
<1>5. ASSUME NEW g \in a.files PROVE g.path \in {h.path : h \in comp.files} \cup texts
  <2>1. PICK h \in comp.files \cup UNION {p.files : p \in perms} : h.path = g.path
    BY <1>1, <1>5, MergedFrom DEF AccountIs
  <2>2. CASE h \in comp.files
    BY <2>1, <2>2
  <2>3. CASE h \in UNION {p.files : p \in perms}
    BY <1>3, <2>1, <2>3 DEF TextsOf
  <2> QED
    BY <2>1, <2>2, <2>3
<1> QED
  BY <1>4, <1>5 DEF a

\* For every catalog and every slice: each command and path an account gets from a
\* permission is an instance of a template of a leaf that the slice reaches, and
\* that leaf's own constraints accept every value in it, through any nesting of
\* bundles and however the includes bind its parameters.
THEOREM EveryValueIsSanctioned == Spec => []ValuesSanctioned
<1>1. KnownLib /\ CompKnown => ValuesSanctioned
  BY TextsAreSourced
<1>2. Spec => []CompKnown
  BY CompStaysKnown, PTL DEF Spec
<1> QED
  BY <1>1, <1>2, LibStaysKnown, PTL

=============================================================================
