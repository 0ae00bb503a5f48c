------------------------------ MODULE Catalog ------------------------------
(***************************************************************************)
(* The permission catalog: policy files in layered directories, the checks *)
(* a file passes when it is read, and the resolution of a permission id to *)
(* groups, sudo commands and file grants.                                  *)
(*                                                                         *)
(* A library L is a set of files [root, layer, subdir, link, def].  Lists  *)
(* whose order only decides the order of the output are sets; provenance   *)
(* (layer, via, binding) is left out.                                      *)
(***************************************************************************)
EXTENDS Templates, TLC

CONSTANTS Ids,             \* permission ids
          Namespace,       \* [Ids -> directory name, or "top"]
          Layers,          \* OsTarget::layer_names, bottom to top
          NumRoots,        \* the catalog roots, 1 the lowest in precedence
          MaxIncludeDepth  \* MAX_INCLUDE_DEPTH

ASSUME CatalogAssumption ==
  /\ IsFiniteSet(Ids) /\ "top" \notin Ids
  /\ Layers \in Seq(Range(Layers))
  /\ NumRoots \in Nat /\ MaxIncludeDepth \in Nat

NoRisk == "unlabelled"
Rank(r) == IF r = "contained" THEN 0 ELSE 1
RiskMax(r, s) == IF Rank(r) >= Rank(s) THEN r ELSE s
NoRunas == "root"
NoLimit == 0
NoLimits == [nofile |-> NoLimit, nproc |-> NoLimit]

AppendList(vals) == [how |-> "append", vals |-> vals]
ReplaceList(vals) == [how |-> "replace", vals |-> vals]
Bare(id) == [id |-> id, bindings |-> <<>>]
IsBound(inc) == DOMAIN inc.bindings # {}

BlankDef(id) ==
  [id |-> id, replace |-> FALSE, groups |-> AppendList({}), sudo |-> AppendList({}), files |-> {},
   risk |-> NoRisk, runas |-> NoRunas, limits |-> NoLimits, params |-> <<>>,
   includes |-> <<>>, cats |-> <<>>, category |-> "none"]

(***************************************************************************)
(* Reading a library.                                                      *)
(***************************************************************************)
BindingTemplates(def) == UNION {Range(inc.bindings) : inc \in Range(def.includes)}
PlaceholderNames(def) ==
  UNION {Placeholders(t) :
           t \in def.groups.vals \cup def.sudo.vals \cup {g.path : g \in def.files}
                 \cup BindingTemplates(def)}

\* PermissionDef::validate: the records that never reach resolution.
Invalid(def) ==
  \/ def.replace /\ \E l \in {def.groups, def.sudo} : l.how = "append" /\ l.vals # {}
  \/ \E c \in def.sudo.vals : SudoStaticDefect(c)
  \/ def.runas # NoRunas /\ RunasDefect(def.runas)
  \/ \E g \in def.files : StaticPathDefect(g)
  \/ \E p \in DOMAIN def.params : DeclarationDefect(def.params[p])
  \/ PlaceholderNames(def) # DOMAIN def.params

\* read_policy_file: the id's namespace is the directory the file lies in.
Misfiled(f) == f.subdir # Namespace[f.def.id]

LayerFiles(L, layer) == {f \in L : f.layer = layer /\ ~f.link}

\* read_one_layer_dir and read_layer: one bad file fails every read of its layer.
FilesFail(F) ==
  \/ \E f \in F : Invalid(f.def) \/ Misfiled(f)
  \/ \E f, g \in F : f # g /\ f.root = g.root /\ f.def.id = g.def.id
ReadLayerFails(L, layer) == FilesFail(LayerFiles(L, layer))
ReadFails(L) == \E layer \in Range(Layers) : ReadLayerFails(L, layer)

\* The files that state an id on a layer: read_layer lists the roots in precedence
\* order, lowest first.  (A root states an id once, or the read fails.)
OneOf(F) == IF F = {} THEN <<>> ELSE <<CHOOSE f \in F : TRUE>>
DefFiles(L, layer, id) ==
  FlattenSeq([root \in 1..NumRoots |->
                OneOf({f \in LayerFiles(L, layer) : f.root = root /\ f.def.id = id})])
\* resolve_leaf takes the first.
DefOn(L, layer, id) == DefFiles(L, layer, id)[1].def

AllDefs(L) == {f.def : f \in {g \in L : g.layer \in Range(Layers) /\ ~g.link}}

(***************************************************************************)
(* Leaf resolution: the layers of one id merged bottom to top.             *)
(***************************************************************************)
\* union_file_grants and its three variants: grants on one path become one.
UnionGrants(S) ==
  {[path |-> p, access |-> UNION {g.access : g \in {h \in S : h.path = p}},
    recursive |-> \E g \in S : g.path = p /\ g.recursive] : p \in {g.path : g \in S}}

\* f laid over g: a name that both have keeps what f says.
Over(f, g) == [x \in DOMAIN f \cup DOMAIN g |-> IF x \in DOMAIN f THEN f[x] ELSE g[x]]

ApplyListOverride(acc, ov) == IF ov.how = "replace" THEN ov.vals ELSE acc \cup ov.vals

Blank(id) ==
  [id |-> id, risk |-> NoRisk, runas |-> NoRunas, groups |-> {}, sudo |-> {}, files |-> {},
   limits |-> NoLimits, params |-> <<>>, bound |-> <<>>, unused |-> {}]

\* A replacing layer drops the primitives, limits and params gathered below it;
\* risk and runas are whatever the topmost layer that sets them says.
MergeLayer(acc, def) ==
  LET base == IF def.replace
              THEN [acc EXCEPT !.groups = {}, !.sudo = {}, !.files = {},
                               !.limits = NoLimits, !.params = <<>>]
              ELSE acc
  IN [base EXCEPT
        !.groups = ApplyListOverride(@, def.groups),
        !.sudo = ApplyListOverride(@, def.sudo),
        !.files = @ \cup def.files,
        !.params = Over(def.params, @),
        !.risk = IF def.risk = NoRisk THEN @ ELSE def.risk,
        !.runas = IF def.runas = NoRunas THEN @ ELSE def.runas,
        !.limits = IF def.limits = NoLimits THEN @ ELSE def.limits]

Prim(value, runas) == [value |-> value, runas |-> runas]

\* The run-as account is stamped on each of the leaf's own commands.
Stamped(leaf) ==
  [leaf EXCEPT !.groups = {Prim(g, NoRunas) : g \in @},
               !.sudo = {Prim(c, leaf.runas) : c \in @},
               !.files = UnionGrants(@)]
MergeLayers(L, id) ==
  LET merged[k \in 0..Len(Layers)] ==
        IF k = 0 THEN Blank(id)
        ELSE IF DefFiles(L, Layers[k], id) = <<>> THEN merged[k - 1]
        ELSE MergeLayer(merged[k - 1], DefOn(L, Layers[k], id))
  IN merged[Len(Layers)]
ResolveLeaf(L, id) ==
  IF \A layer \in Range(Layers) : DefFiles(L, layer, id) = <<>> THEN Fail("UnknownPermission")
  ELSE [ok |-> TRUE, perm |-> Stamped(MergeLayers(L, id))]

\* aggregation_for: includes and categories of every file that states the id,
\* of every root and every layer, a replacing one or not.
Stating(L, id) == FlattenSeq([i \in DOMAIN Layers |-> DefFiles(L, Layers[i], id)])
IncludesOf(files) == FlattenSeq([i \in DOMAIN files |-> files[i].def.includes])
Includes(L, id) == IncludesOf(Stating(L, id))
Categories(L, id) == UNION {Range(f.def.cats) : f \in Range(Stating(L, id))}
DefsIn(L, cats) == {d.id : d \in {e \in AllDefs(L) : e.category \in cats}}
CategoryMembers(L, id) == DefsIn(L, Categories(L, id))

(***************************************************************************)
(* Substitution of parameters, and the two-stage expansion of an include   *)
(* that binds the member's parameters to templates over the bundle's.      *)
(***************************************************************************)
\* The texts rendered for a set of primitives or of grants, or an error among them.
\* out[x] is what x rendered to, put(x, t) is x with one of its texts.
Gather(S, out, put(_, _)) ==
  IF \E x \in S : ~out[x].ok THEN Fail(out[CHOOSE x \in S : ~out[x].ok].err)
  ELSE [ok |-> TRUE, items |-> UNION {{put(x, t) : t \in Range(out[x].texts)} : x \in S}]

Gated(r, bad, kind) == IF r.ok /\ bad # {} THEN Fail(kind) ELSE r

RenderPrimitives(S, params, constraints) ==
  Gather(S, [p \in S |-> Render(p.value, params, constraints)], LAMBDA p, t : Prim(t, p.runas))
RenderGrants(S, params, constraints) ==
  Gather(S, [g \in S |-> Render(g.path, params, constraints)],
         LAMBDA g, t : Grant(t, g.access, g.recursive))

\* The gate on what was rendered; a failed rendering has nothing to judge.
Items(r) == IF r.ok THEN r.items ELSE {}
GateGroups(r) == Gated(r, {p \in Items(r) : GroupNameDefect(p.value)}, "InvalidGroupName")
GateSudo(r) == Gated(r, {p \in Items(r) : SudoCommandDefect(p.value)}, "InvalidSudoCommand")

\* Mutant: the rendered path is trusted.
GateGrants_Open(r) == r

GateGrants(r) ==
  Gated(r, {g \in Items(r) : FilePathDefect(g.path) \/ TrailingSlashDefect(g)}, "InvalidFilePath")

FirstError(results) ==
  FirstOf([i \in DOMAIN results |-> IF results[i].ok THEN "none" ELSE results[i].err])

AnyFails(results) == \E i \in DOMAIN results : ~results[i].ok

Lists(g, s, f) ==
  IF AnyFails(<<g, s, f>>) THEN Fail(FirstError(<<g, s, f>>))
  ELSE [ok |-> TRUE, groups |-> g.items, sudo |-> s.items, files |-> UnionGrants(f.items)]

\* The three lists of a permission, rendered and gated in the code's order.
SubstituteAll(perm, params, constraints) ==
  Lists(GateGroups(RenderPrimitives(perm.groups, params, constraints)),
        GateSudo(RenderPrimitives(perm.sudo, params, constraints)),
        GateGrants(RenderGrants(perm.files, params, constraints)))

\* What each binding renders to for each element of the fanned-out list: out[k][b].
BindingMaps(out, errors) ==
  IF errors # {} THEN Fail(CHOOSE e \in errors : TRUE)
  ELSE IF \E k \in DOMAIN out : \E b \in DOMAIN out[k] : Len(out[k][b].texts) # 1
       THEN Fail("MultipleExpansionLists")
  ELSE [ok |-> TRUE,
        maps |-> [k \in DOMAIN out |-> [b \in DOMAIN out[k] |-> Scalar(out[k][b].texts[1])]]]
BindingErrors(out) ==
  UNION {{out[k][b].err : b \in {c \in DOMAIN out[k] : ~out[k][c].ok}} : k \in DOMAIN out}
CollectBindings(out) == BindingMaps(out, BindingErrors(out))

Element(params, lists, k) == [p \in DOMAIN params |-> IF p \in lists THEN Scalar(params[p].items[k]) ELSE params[p]]
FanOut(bindings, lists, params, constraints) ==
  CollectBindings([k \in 1..(IF lists = {} THEN 1 ELSE Len(params[CHOOSE p \in lists : TRUE].items)) |->
                     [b \in DOMAIN bindings |-> Render(bindings[b], Element(params, lists, k), constraints)]])

\* render_bindings: the list parameter a binding uses fans the member out.  (There
\* is at most one: enforce_single_expansion_list has seen to it.)
RenderBindings(bindings, params, constraints) ==
  FanOut(bindings, ListsAmong(UNION {Placeholders(t) : t \in Range(bindings)}, params), params, constraints)

Union(parts) ==
  [ok |-> TRUE, groups |-> UNION {p.groups : p \in Range(parts)},
   sudo |-> UNION {p.sudo : p \in Range(parts)}, files |-> UNION {p.files : p \in Range(parts)}]
MemberParts(parts) == IF AnyFails(parts) THEN Fail(FirstError(parts)) ELSE Union(parts)

\* Mutant: the member's texts are checked against the bundle's constraints.
ExpandFanned_BundleGuard(member, fanned) ==
  IF ~fanned.ok THEN fanned
  ELSE MemberParts([k \in DOMAIN fanned.maps |->
         SubstituteAll(member, fanned.maps[k],
                       [p \in DOMAIN member.params |-> Constraint("token", {}, {}, "unset", NoBound)])])

ExpandFanned(member, fanned) ==
  IF ~fanned.ok THEN fanned
  ELSE MemberParts([k \in DOMAIN fanned.maps |-> SubstituteAll(member, fanned.maps[k], member.params)])

\* Guard 1 renders the bindings under the bundle's constraints, guard 2 the
\* member's own texts under the member's.
ExpandBoundMember(bm, params, constraints) ==
  CASE DOMAIN bm.include.bindings \ DOMAIN bm.member.params # {} -> Fail("OrphanIncludeBinding")
    [] DOMAIN bm.include.bindings \subseteq DOMAIN bm.member.params
         /\ DOMAIN bm.member.params \ DOMAIN bm.include.bindings # {} -> Fail("UnboundMemberParam")
    [] OTHER -> ExpandFanned(bm.member, RenderBindings(bm.include.bindings, params, constraints))

\* Mutant: a command already there under another account is dropped.
Absorb_ByValue(acc, part) ==
  [acc EXCEPT !.groups = @ \cup part.groups,
              !.sudo = @ \cup {p \in part.sudo : \A q \in acc.sudo : q.value # p.value},
              !.files = UnionGrants(@ \cup part.files)]

\* union_member_primitives keeps one entry per (value, runas).
Absorb(acc, part) ==
  [acc EXCEPT !.groups = @ \cup part.groups, !.sudo = @ \cup part.sudo,
              !.files = UnionGrants(@ \cup part.files)]

(***************************************************************************)
(* Bundles.                                                                *)
(***************************************************************************)
Conflicting(p, q) ==
  \E n \in DOMAIN p \cap DOMAIN q : Normalized(p[n]) # Normalized(q[n])

\* A bundle on the way: what it has so far, and the risks of its members.
Taking(perm, risks) == [ok |-> TRUE, perm |-> perm, risks |-> risks]

\* A member's params and limits fill in what the bundle has not stated.
Joined(perm, m) ==
  [Absorb(perm, m) EXCEPT !.params = Over(@, m.params), !.limits = IF @ = NoLimits THEN m.limits ELSE @]

\* Mutant: a member that does not resolve is skipped.
TakeMember_Skip(acc, m) ==
  IF ~acc.ok \/ ~m.ok THEN acc
  ELSE Taking(Absorb(acc.perm, m.perm), acc.risks \cup {m.perm.risk})

\* One bare member joins the bundle.
TakeMember(acc, m) ==
  CASE ~acc.ok -> acc
    [] acc.ok /\ ~m.ok -> m
    [] acc.ok /\ m.ok /\ m.perm.bound # <<>> -> Fail("NestedParamMapping")
    [] acc.ok /\ m.ok /\ m.perm.bound = <<>> /\ Conflicting(acc.perm.params, m.perm.params) ->
         Fail("ConflictingParamConstraint")
    [] OTHER -> Taking(Joined(acc.perm, m.perm), acc.risks \cup {m.perm.risk})

\* One bound member: rendered now when its bindings are literal, else carried.
TakeRendered(acc, m, now) ==
  IF now.ok THEN Taking(Absorb(acc.perm, now), acc.risks \cup {m.perm.risk}) ELSE now
TakeBound(acc, inc, m) ==
  CASE ~acc.ok -> acc
    [] acc.ok /\ ~m.ok -> m
    [] acc.ok /\ m.ok /\ m.perm.bound # <<>> -> Fail("NestedParamMapping")
    [] acc.ok /\ m.ok /\ m.perm.bound = <<>>
         /\ (\E t \in Range(inc.bindings) : HasPlaceholder(t)) ->
         Taking([acc.perm EXCEPT !.bound = Append(@, [include |-> inc, member |-> m.perm])],
                acc.risks \cup {m.perm.risk})
    [] OTHER -> TakeRendered(acc, m, ExpandBoundMember([include |-> inc, member |-> m.perm], <<>>, <<>>))

\* Mutant: only the labels that are there count.
ComputedRisk_Known(risks) ==
  CASE risks \subseteq {NoRisk} -> NoRisk
    [] "escalation" \in risks -> "escalation"
    [] OTHER -> "contained"

\* The risk of the members: an unlabelled one counts as the highest.
ComputedRisk(risks) ==
  CASE risks = {} -> NoRisk
    [] "escalation" \in risks \/ NoRisk \in risks -> "escalation"
    [] OTHER -> "contained"

BundleRisk(declared, risks) ==
  CASE risks = {} -> declared
    [] risks # {} /\ declared = NoRisk -> ComputedRisk(risks)
    [] OTHER -> RiskMax(declared, ComputedRisk(risks))

FinishBundle(acc) ==
  LET declared == acc.perm.risk IN
  IF ~acc.ok THEN acc
  ELSE IF acc.risks # {} /\ declared # NoRisk /\ Rank(declared) < Rank(ComputedRisk(acc.risks))
       THEN Fail("LoweredBundleRisk")
  ELSE [ok |-> TRUE, perm |-> [acc.perm EXCEPT !.risk = BundleRisk(@, acc.risks)]]

Opened(own) == IF own.ok THEN Taking(own.perm, {}) ELSE own

\* The bare members of the includes and then of the categories, and last the bound
\* ones.
Those(incs, bound) ==
  FlattenSeq([i \in DOMAIN incs |-> IF IsBound(incs[i]) = bound THEN <<incs[i]>> ELSE <<>>])
BareOnes(ids) == [i \in DOMAIN ids |-> Bare(ids[i])]
Takes(incs, ids) == Those(incs, FALSE) \o BareOnes(ids) \o Those(incs, TRUE)

\* A member named again with the same bindings is taken once (aggregation_for's
\* binding-aware dedup, and the members list of resolve_inner).
Repeated(takes, k) == \E j \in 1..(k - 1) : takes[j] = takes[k]
Take(acc, x, m) == IF IsBound(x) THEN TakeBound(acc, x, m) ELSE TakeMember(acc, m)
TakeAll(first, takes, members) ==
  LET taken[k \in 0..Len(takes)] ==
        IF k = 0 THEN first
        ELSE IF Repeated(takes, k) THEN taken[k - 1]
        ELSE Take(taken[k - 1], takes[k], members[takes[k].id])
  IN taken[Len(takes)]

ResolveBundle(own, takes, members) == FinishBundle(TakeAll(Opened(own), takes, members))
ResolveOver(L, own, incs, cats, members) ==
  IF incs = <<>> /\ cats = {} THEN own
  ELSE ResolveBundle(own, Takes(incs, SetToSeq(DefsIn(L, cats))), members)

\* One id below the path of the bundles that are open; members[m] is what m
\* resolves to when this id is open too.
ResolveAt(L, path, id, members) ==
  CASE id \in Range(path) -> Fail("Cycle")
    [] id \notin Range(path) /\ Len(path) >= MaxIncludeDepth -> Fail("IncludeTooDeep")
    [] OTHER -> ResolveOver(L, ResolveLeaf(L, id), Includes(L, id), Categories(L, id), members)
ResolveInner(L) ==
  LET inner[path \in Seq(Ids)] == [id \in Ids |-> ResolveAt(L, path, id, inner[Append(path, id)])]
  IN inner[<<>>]

Resolve(L, id) == IF ReadFails(L) THEN Fail("Library") ELSE ResolveInner(L)[id]

\* The placeholders of a permission and of the bindings it carries.
UsedParams(perm) ==
  UNION {Placeholders(t) :
           t \in {x.value : x \in perm.groups \cup perm.sudo} \cup {g.path : g \in perm.files}
                 \cup UNION {Range(b.include.bindings) : b \in Range(perm.bound)}}

\* enforce_single_expansion_list, for a bundle that carries bound members.
TwoLists(perm, params) ==
  perm.bound # <<>> /\ Cardinality(ListsAmong(UsedParams(perm), params)) > 1

\* The permission with its own texts and those of the members it carried.
JoinParts(perm, own, part, unused) ==
  [id |-> perm.id, risk |-> perm.risk, runas |-> perm.runas,
   groups |-> own.groups \cup part.groups, sudo |-> own.sudo \cup part.sudo,
   files |-> UnionGrants(own.files \cup part.files),
   limits |-> perm.limits, params |-> perm.params, bound |-> <<>>, unused |-> unused]
JoinOwn(perm, own, parts, unused) ==
  CASE ~own.ok -> own
    [] own.ok /\ AnyFails(parts) -> Fail(FirstError(parts))
    [] OTHER -> [ok |-> TRUE, perm |-> JoinParts(perm, own, Union(parts), unused)]

FillParams(r, params) ==
  CASE ~r.ok -> r
    [] r.ok /\ TwoLists(r.perm, params) -> Fail("MultipleExpansionLists")
    [] OTHER ->
         JoinOwn(r.perm, SubstituteAll(r.perm, params, r.perm.params),
                 [i \in DOMAIN r.perm.bound |-> ExpandBoundMember(r.perm.bound[i], params, r.perm.params)],
                 DOMAIN params \ UsedParams(r.perm))

ResolveWithParams(L, id, params) == FillParams(Resolve(L, id), params)
=============================================================================
