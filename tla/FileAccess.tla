----------------------------- MODULE FileAccess -----------------------------
(***************************************************************************)
(* The file-access phases of an apply down to the ACL entries: AclBackend  *)
(* (fileaccess.rs) with its recursive setfacl passes over a directory      *)
(* tree, and the order in which apply::run asks for them.  Grants may lie  *)
(* one inside the other, others have entries of their own, and the files   *)
(* of the tree are created and rewritten all the while.                    *)
(*                                                                         *)
(* A grant is [path, access, shape].  Module Apply looks at the same       *)
(* phases with paths that have nothing to do with each other.              *)
(***************************************************************************)
EXTENDS Naturals, Sequences, FiniteSets, SequencesExt, Sequencing

CONSTANTS
    Users, Groups,   \* the principals grants are made to
    Kids,            \* directory -> the nodes in it; the tree of names
    Links,           \* the nodes that are symbolic links
    Paths,           \* path -> where it leads once its parents are resolved
    Nowhere,         \* stands for a path whose parent cannot be resolved
    Foreign,         \* the ACLs before Census comes
    Targets,         \* the declarations: principal -> sequence of grants
    MaxRuns, MaxFileWrites

VARIABLES
    live,            \* the nodes there are
    acl,             \* node -> [acc, def, mask]
    registry,        \* principal -> the grants recorded for it
    target,          \* the declaration being applied
    todo,            \* the setfacl passes still to run
    dump,            \* the rollback file: node -> ACL
    phase,           \* idle, run, rollback
    aclBefore, raced,  \* history: the ACLs at the start of the run, and the nodes
                     \* made while a run was in progress
    spoiled,         \* history: a run was killed, or its rollback failed
    runs, wrote      \* history, bounded by MaxRuns and MaxFileWrites

aclVars == <<live, acl, registry, target, todo, dump, phase, aclBefore, raced, spoiled, runs, wrote>>

Principals == Users \cup Groups
Bits == {"r", "w", "x"}

\* No entry for anybody, and hence no mask.
NoAcl == [acc |-> <<>>, def |-> <<>>, mask |-> Bits]

Directory(n) == n \in DOMAIN Kids
Subtree(n) == LET kids(S) == UNION {IF Directory(k) THEN Kids[k] ELSE {} : k \in S}
               level[d \in 0..Cardinality(DOMAIN Kids)] == IF d = 0 THEN {n} ELSE kids(level[d - 1])
           IN UNION {level[d] : d \in DOMAIN level}
Parent(n) == CHOOSE d \in DOMAIN Kids : n \in Kids[d]

\* A declaration lists what each of finitely many principals is granted, and what
\* there is at the start lies in the tree.
ASSUME FileAccessAssumption ==
    /\ IsFiniteSet(Users) /\ IsFiniteSet(Groups)
    /\ \A t \in Targets, p \in Principals : IsSeq(t[p])
    /\ DOMAIN Foreign \subseteq UNION {Subtree(d) : d \in DOMAIN Kids}

-----------------------------------------------------------------------------
(* setfacl.                                                                *)

\* acl_perm: the conditional X is execute on a directory and nothing on a
\* plain file.
AclPerm(access, n) ==
    (access \cap {"r", "w"}) \cup (IF "x" \in access \/ ("X" \in access /\ Directory(n)) THEN {"x"} ELSE {})

WithEntry(f, k, v) == [x \in DOMAIN f \cup {k} |-> IF x = k THEN v ELSE f[x]]
Drop(f, k) == [x \in DOMAIN f \ {k} |-> f[x]]

\* setfacl computes the mask anew from the entries it leaves; the owning group
\* is taken to have no permission of its own.
Masked(a) == [a EXCEPT !.mask = IF a.acc = <<>> THEN Bits ELSE UNION {a.acc[i] : i \in DOMAIN a.acc}]

\* One pass on one node; only directories have default entries.
OnNode(pass, n, a) ==
    CASE pass.op = "-m" /\ ~pass.def -> Masked([a EXCEPT !.acc = WithEntry(@, pass.who, AclPerm(pass.access, n))])
      [] pass.op = "-x" /\ ~pass.def -> Masked([a EXCEPT !.acc = Drop(@, pass.who)])
      [] pass.def /\ ~Directory(n) -> a
      [] pass.op = "-m" /\ pass.def /\ Directory(n) -> [a EXCEPT !.def = WithEntry(@, pass.who, AclPerm(pass.access, n))]
      [] OTHER -> [a EXCEPT !.def = Drop(@, pass.who)]

\* -R --physical: links in the tree are not followed.
Walked(pass) == (Subtree(pass.node) \cap live) \ Links

-----------------------------------------------------------------------------
(* AclBackend.                                                             *)

\* resolve_grant_path: the parents are resolved, a link at the end is refused.
Resolve(path) == Paths[path]
Unresolved(path) == Resolve(path) = Nowhere \/ Resolve(path) \in Links

\* setfacl_args and revoke_args: the access entries first, then the defaults.
Passes(op, who, grant) ==
    [i \in 1..2 |-> [op |-> op, def |-> i = 2, who |-> who, node |-> Resolve(grant.path), access |-> grant.access]]
Materialize(who, grants) == FlattenSeq([i \in DOMAIN grants |-> Passes("-m", who, grants[i])])
Revoke(who, grants) == FlattenSeq([i \in DOMAIN grants |-> Passes("-x", who, grants[i])])

\* route_grants: the open backend enforces directory grants only.
Routed(grants) == \A g \in Range(grants) : g.shape = "Dir"

-----------------------------------------------------------------------------
(* The file-access part of apply::run.                                     *)

\* removed_grants and removed_group_grants: by the text of the path.
RemovedGrants(who, grants) ==
    Chosen(registry[who], {i \in DOMAIN registry[who] : \A k \in Range(grants) : k.path # registry[who][i].path})

\* Mutant: the grants are materialized before the dropped ones are revoked.
AccountPasses_GrantFirst(u, grants) == Materialize(u, grants) \o Revoke(u, RemovedGrants(u, grants))

\* Phase 3b for an account, phase 6 for a group.
AccountPasses(u, grants) == Revoke(u, RemovedGrants(u, grants)) \o Materialize(u, grants)
GroupPasses(g, grants) == Materialize(g, grants) \o Revoke(g, RemovedGrants(g, grants))

\* file_grants_set_equal: who has the same grants, in whatever order, is in sync
\* and left alone.
Changed(t) == {p \in Principals : Range(t[p]) # Range(registry[p])}

Plan(t) ==
    LET users == SetToSeq(Changed(t) \cap Users)
        groups == SetToSeq(Changed(t) \cap Groups)
    IN FlattenSeq([i \in DOMAIN users |-> AccountPasses(users[i], t[users[i]])])
         \o FlattenSeq([i \in DOMAIN groups |-> GroupPasses(groups[i], t[groups[i]])])

\* Mutant: only what is to be granted is put in the rollback file.
TouchedPaths_Granted(t) == UNION {{g.path : g \in Range(t[p])} : p \in Users \cup Changed(t)}

\* file_access_touched_paths and group_file_access_touched_paths: what every
\* account is to have, and what changed groups are to have or changed principals
\* lose.
TouchedPaths(t) ==
    (UNION {{g.path : g \in Range(t[p])} : p \in Users \cup Changed(t)})
      \cup (UNION {{g.path : g \in Range(RemovedGrants(p, t[p]))} : p \in Changed(t)})

AclInit ==
    /\ live = DOMAIN Foreign
    /\ acl = [n \in UNION {Subtree(d) : d \in DOMAIN Kids} |-> IF n \in live THEN Foreign[n] ELSE NoAcl]
    /\ registry = [p \in Principals |-> <<>>] /\ target = registry
    /\ todo = <<>> /\ dump = <<>> /\ phase = "idle"
    /\ aclBefore = acl /\ raced = {} /\ spoiled = FALSE /\ runs = 0 /\ wrote = 0

\* Gating, the plan and the snapshot: an empty plan, a grant that cannot be enforced or a path
\* that cannot be resolved ends the run before anything is changed.
StartRun(t) ==
    /\ phase = "idle" /\ ~spoiled /\ runs < MaxRuns
    /\ runs' = runs + 1 /\ aclBefore' = acl
    /\ IF Changed(t) # {} /\ (\A p \in Principals : Routed(t[p])) /\ (\A q \in TouchedPaths(t) : ~Unresolved(q))
       THEN /\ phase' = "run" /\ target' = t /\ todo' = Plan(t)
            /\ dump' = [n \in UNION {(Subtree(Resolve(q)) \cap live) \ Links : q \in TouchedPaths(t)} |-> acl[n]]
       ELSE UNCHANGED <<phase, target, todo, dump>>
    /\ UNCHANGED <<live, acl, registry, raced, spoiled, wrote>>

Setfacl ==
    /\ phase = "run" /\ todo # <<>>
    /\ acl' = [n \in DOMAIN acl |-> IF n \in Walked(Head(todo)) THEN OnNode(Head(todo), n, acl[n]) ELSE acl[n]]
    /\ todo' = Tail(todo)
    /\ UNCHANGED <<live, registry, target, dump, phase, aclBefore, raced, spoiled, runs, wrote>>

\* setfacl gives up after any part of its walk.
SetfaclFails ==
    /\ phase = "run" /\ todo # <<>>
    /\ \E done \in SUBSET Walked(Head(todo)) :
         acl' = [n \in DOMAIN acl |-> IF n \in done THEN OnNode(Head(todo), n, acl[n]) ELSE acl[n]]
    /\ phase' = "rollback" /\ todo' = <<>>
    /\ UNCHANGED <<live, registry, target, dump, aclBefore, raced, spoiled, runs, wrote>>

\* setfacl --restore: by name, whatever lies under that name now.
RestoreAcls ==
    /\ phase = "rollback"
    /\ acl' = [n \in DOMAIN acl |-> IF n \in DOMAIN dump THEN dump[n] ELSE acl[n]]
    /\ phase' = "idle"
    /\ UNCHANGED <<live, registry, target, todo, dump, aclBefore, raced, spoiled, runs, wrote>>

\* The process is killed, or its restore fails, which is only logged.  Nobody
\* restores the ACLs later; what they are is left open, as such a device is not
\* followed further.
LeftHalfChanged ==
    /\ phase # "idle"
    /\ phase' = "idle" /\ todo' = <<>> /\ spoiled' = TRUE
    /\ UNCHANGED <<live, acl, registry, target, dump, aclBefore, raced, runs, wrote>>

Commit ==
    /\ phase = "run" /\ todo = <<>>
    /\ registry' = target /\ phase' = "idle"
    /\ UNCHANGED <<live, acl, target, todo, dump, aclBefore, raced, spoiled, runs, wrote>>

-----------------------------------------------------------------------------
(* The users of the tree.                                                  *)

\* A file is created, or replaced by a new one of the same name; with 0666 it
\* inherits what the default entries of its directory say, execute aside.
WriteFile(n) ==
    /\ ~spoiled /\ wrote < MaxFileWrites
    /\ ~Directory(n) /\ n \notin Links /\ Parent(n) \in live
    /\ live' = live \cup {n}
    /\ acl' = [acl EXCEPT ![n] =
                 LET d == acl[Parent(n)].def
                 IN [acc |-> d, def |-> <<>>, mask |-> IF d = <<>> THEN Bits ELSE {"r", "w"}]]
    /\ raced' = IF phase = "idle" THEN raced \ {n} ELSE raced \cup {n}
    /\ wrote' = wrote + 1
    /\ UNCHANGED <<registry, target, todo, dump, phase, aclBefore, spoiled, runs>>

AclNext ==
    \/ \E t \in Targets : StartRun(t)
    \/ Setfacl \/ SetfaclFails \/ RestoreAcls \/ LeftHalfChanged \/ Commit
    \/ \E n \in DOMAIN acl : WriteFile(n)

AclSpec == AclInit /\ [][AclNext]_aclVars

-----------------------------------------------------------------------------
(* Properties.                                                             *)

EntryOf(n, i) == IF i \in DOMAIN acl[n].acc THEN acl[n].acc[i] \cap acl[n].mask ELSE {}

\* What the record of p may give it on n: the access of a grant that covers n.
\* Where grants of different access overlap, the one applied last is in force,
\* and their order is not part of the comparison with the record.
Recorded(p, n) ==
    LET over == {g \in Range(registry[p]) : n \in Subtree(Resolve(g.path))}
    IN IF over = {} THEN {{}} ELSE {AclPerm(g.access, n) : g \in over}

\* Between runs the tree gives every account and group the access that is
\* recorded for it and no other, whatever grants were added, dropped, nested or
\* renamed before, whichever runs failed half-way and rolled back, and whatever
\* files were rewritten since (the default pass "is what makes a directory grant
\* rewrite-proof").  A file made while a run was in progress is left out: it may
\* come between the access pass and the default pass (removed_grants,
\* setfacl_args and the order of the phases).
GrantsInForce ==
    phase = "idle" /\ ~spoiled =>
      \A p \in Principals, n \in (live \ raced) \ Links :
        \E r \in Recorded(p, n) : \A b \in (IF Directory(n) THEN Bits ELSE {"r", "w"}) :
          b \in EntryOf(n, p) <=> b \in r

\* A run that fails after any part of any pass leaves the tree as it found it,
\* the entries, defaults and masks of everybody else included, on every node
\* that was there when it began (phase_failure_file_access undoes "any ACL
\* entries this phase managed to apply before failing").
AccessRolledBack ==
    [][RestoreAcls => \A n \in live \ raced : acl'[n] = aclBefore[n]]_aclVars
=============================================================================
