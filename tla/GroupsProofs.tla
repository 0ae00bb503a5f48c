---------------------------- MODULE GroupsProofs ----------------------------
(***************************************************************************)
(* Between runs no group holds a grant that the registry does not know of, *)
(* applying again what was just applied finds nothing to do, and doctor    *)
(* finds on the host what apply left there.                                *)
(*                                                                         *)
(* Grants are kept by the kernel under a gid and by the registry under a   *)
(* name.  What joins the two is that gids stay apart, that every entry     *)
(* belongs to a group that exists, and that a recorded group exists with   *)
(* the recorded gid; a run keeps this up step by step, group by group.     *)
(***************************************************************************)
EXTENDS AccountsProofs, Doctor

\* Two groups of the host do not share a gid before Census comes: if they did,
\* a grant to one would be a grant to the other, which no registry can tell.
\* What is said of gids and of ACL entries below depends on it; the rest, that
\* of fragments, records and plans, does not.
HostGidsDiffer ==
    \A g, k \in Present(HostGroups) : HostGroups[g].gid = HostGroups[k].gid => g = k

GidsDiffer(grp) ==
    HostGidsDiffer => \A g, k \in Groups : g # k /\ grp[g] # None /\ grp[k] # None
                            => grp[g].gid # grp[k].gid

-----------------------------------------------------------------------------
(* Agreement of a host with records of groups.                             *)

GroupPathsOf(h, gid) == {e.path : e \in {x \in h.acl : x.kind = "g" /\ x.id = gid}}

\* A group holds the grants of its record or, once torn down, none; every
\* entry is that of a group that exists.
SudoAgrees(h, R) ==
    \A g \in Groups : h.sudoG[g] # {} => R[g] # None /\ h.sudoG[g] = R[g].sudo
EntriesAgree(h, R) ==
    HostGidsDiffer => \A g \in Groups : h.group[g] # None /\ GroupPathsOf(h, h.group[g].gid) # {} =>
        R[g] # None /\ GroupPathsOf(h, h.group[g].gid) = R[g].files
EntriesOwned(h) ==
    HostGidsDiffer => \A e \in h.acl : e.kind = "g" =>
        \E g \in Groups : h.group[g] # None /\ h.group[g].gid = e.id

GrantsAgree(h, R) == SudoAgrees(h, R) /\ EntriesAgree(h, R) /\ EntriesOwned(h)

\* The group is there with this gid.
HasGid(h, g, gid) == h.group[g] # None /\ h.group[g].gid = gid

RecordsLive(h) ==
    \A g \in Groups : groupReg[g] # None => HasGid(h, g, groupReg[g].gid)

GroupsSettled(h) == GrantsAgree(h, groupReg) /\ RecordsLive(h)

-----------------------------------------------------------------------------
(* A run in progress.                                                      *)

\* The groups the run deletes.
Doomed == OrphanGroups(decl, groupReg) \ DeferredGroups(deferred, acctReg)

GroupStepsFit(g) ==
    /\ Pending("create_group", g) => g \in RequiredGroups(decl)
    /\ Pending("delete_group", g) => g \in Doomed
    /\ Pending("grant", g) => decl.groups[g] # None
    /\ Pending("teardown", g) => decl.groups[g] = None
    /\ g \in made => g \in RequiredGroups(decl) /\ ~Pending("create_group", g)

\* The record the host agrees with.
GrantRec == [g \in Groups |-> IF Pending("grant", g) \/ Pending("teardown", g)
                              THEN groupReg[g] ELSE decl.groups[g]]

\* A required group is there with its pinned gid, or still to be created.
RequiredLive(g) ==
    \/ Pending("create_group", g)
    \/ os.group[g] # None /\ Pin(decl, g) \in {None, os.group[g].gid}

GroupsInProgress ==
    /\ GrantsAgree(os, GrantRec)
    /\ \A g \in RequiredGroups(decl) : RequiredLive(g)
    /\ \A g \in Groups : groupReg[g] # None /\ (g \notin Doomed \/ Pending("delete_group", g))
          => HasGid(os, g, groupReg[g].gid)

-----------------------------------------------------------------------------
(* Nothing to do.                                                          *)

GidsOf(h) == [g \in Groups |-> IF h.group[g] = None THEN None ELSE h.group[g].gid]

\* ReapplyInSync, of any host, one part of the plan at a time.
InSync(h) ==
    applied # None =>
        /\ TouchedAccounts(applied, acctReg, {}) = {}
        /\ MissingGroups(applied, GidsOf(h)) = {}
        /\ DroppedGroups(applied, groupReg) \subseteq RequiredGroups(applied)
        /\ GrantedGroups(applied, groupReg) = {}
        /\ ~GroupPlanError(applied, groupReg, GidsOf(h))

-----------------------------------------------------------------------------
(* The invariant.                                                          *)

GidInv ==
    /\ GidsDiffer(os.group)
    /\ snap # None => GidsDiffer(snap.group)
    /\ pc = "idle" => made = {}
    /\ pc \in {"snapshot", "run", "write"} => \A g \in Groups : GroupStepsFit(g)

GrantInv ==
    ~torn =>
        /\ pc \in {"idle", "snapshot", "persist"} \/ (pc = "write" /\ snap = None)
              => GroupsSettled(os) /\ InSync(os)
        /\ pc \in {"run", "rollback", "write"} /\ snap # None
              => GroupsSettled(snap) /\ InSync(snap)
        /\ pc \in {"snapshot", "run", "write"} => GroupsInProgress

GroupsInv == GidInv /\ GrantInv

-----------------------------------------------------------------------------
(* The steps of a run.                                                     *)

\* What a new run will do for a group (diff_groups, diff_resolved_groups).
LEMMA GroupWork ==
    ASSUME NEW d, NEW late, NEW live, NEW g
    PROVE  LET work == WorkList(d, acctReg, groupReg, live, late)
               on(op) == [op |-> op, name |-> g] \in work
           IN  /\ on("create_group") <=> g \in MissingGroups(d, live)
               /\ on("grant") <=> g \in GrantedGroups(d, groupReg)
               /\ on("teardown") <=> g \in DroppedGroups(d, groupReg)
               /\ on("delete_group") <=>
                     g \in OrphanGroups(d, groupReg) \ DeferredGroups(late, acctReg)
<1> DEFINE work == WorkList(d, acctReg, groupReg, live, late)
           born == CreatedAccounts(d, acctReg)
           upd == UpdatedAccounts(d, acctReg)
           gone == VanishedAccounts(d, acctReg) \ late
           del == OrphanGroups(d, groupReg) \ DeferredGroups(late, acctReg)
<1>1. \A s : s \in work <=>
         \/ s \in Work("create_group", MissingGroups(d, live))
         \/ s \in Work("create", born)
         \/ s \in Work("update", upd)
         \/ s \in Work("delete", gone)
         \/ s \in Work("file_access", born \cup upd)
         \/ s \in Work("revoke_deleted", gone)
         \/ s \in Work("grant", GrantedGroups(d, groupReg))
         \/ s \in Work("teardown", DroppedGroups(d, groupReg))
         \/ s \in Work("delete_group", del)
  BY DEF WorkList
<1> HIDE DEF work, born, upd, gone, del
<1>2. /\ [op |-> "create_group", name |-> g] \in work <=> g \in MissingGroups(d, live)
      /\ [op |-> "grant", name |-> g] \in work <=> g \in GrantedGroups(d, groupReg)
      /\ [op |-> "teardown", name |-> g] \in work <=> g \in DroppedGroups(d, groupReg)
      /\ [op |-> "delete_group", name |-> g] \in work <=> g \in del
  BY <1>1, WorkPick
<1> QED
  BY <1>2 DEF work, del

\* Groups are there before they get their grants, and have lost them before
\* they go.
LEMMA GroupPhasesOver ==
    ASSUME NEW op, NEW n, Ready(op, n)
    PROVE  /\ Pending(op, n)
           /\ op \in {"grant", "teardown", "delete_group"} => \A g : ~Pending("create_group", g)
           /\ op = "delete_group" => \A g : ~Pending("grant", g) /\ ~Pending("teardown", g)
<1>1. \A s \in todo : Phase(s.op) >= Phase(op)
  BY DEF Ready
<1>2. \A o, b : Pending(o, b) => Phase(o) >= Phase(op)
  BY <1>1 DEF Pending
<1>3. /\ Phase("create_group") = 1 /\ Phase("grant") = 6 /\ Phase("teardown") = 7
      /\ Phase("delete_group") = 8
  BY DEF Phase
<1>4. Pending(op, n)
  BY DEF Ready, Pending
<1>5. op \in {"grant", "teardown", "delete_group"} => \A g : ~Pending("create_group", g)
  BY <1>2, <1>3
<1>6. op = "delete_group" => \A g : ~Pending("grant", g) /\ ~Pending("teardown", g)
  BY <1>2, <1>3
<1> QED
  BY <1>4, <1>5, <1>6

GroupAcl(h) == {e \in h.acl : e.kind = "g"}

\* The phases of the accounts leave groups and their grants alone.
LEMMA AfterAccountStep ==
    ASSUME Typed, PlanFits, NEW a \in Users,
           \/ CreateAccount(a) \/ UpdateAccount(a) \/ DeleteAccount(a)
           \/ AccountFiles(a) \/ RevokeDeleted(a)
    PROVE  /\ \E op \in AccountOps : Ready(op, a) /\ Done(op, a)
           /\ os'.group = os.group /\ os'.sudoG = os.sudoG
           /\ GroupAcl(os') = GroupAcl(os)
           /\ made' = made
<1>1. /\ \E op \in AccountOps : Ready(op, a) /\ Done(op, a)
      /\ made' = made
  BY DEF CreateAccount, UpdateAccount, DeleteAccount, AccountFiles, RevokeDeleted,
         AccountOps
<1>2. ASSUME NEW uid, NEW ps
      PROVE  \A e \in Acl("u", uid, ps) : e.kind # "g"
  BY DEF Acl
<1>3. CASE CreateAccount(a) \/ UpdateAccount(a) \/ DeleteAccount(a)
  BY <1>1, <1>3, AfterCreate, AfterUpdate, AfterDelete DEF GroupAcl
<1>4. CASE AccountFiles(a)
  <2> DEFINE keep == decl.accounts[a].files
             drop == RemovedFiles(acctReg, a, keep)
             uid == os.user[a].uid
  <2>1. /\ os'.group = os.group /\ os'.sudoG = os.sudoG
        /\ \/ os'.acl = os.acl
           \/ os'.acl = (os.acl \ Acl("u", uid, drop)) \cup Acl("u", uid, keep)
    BY <1>4, AfterFiles
  <2> HIDE DEF keep, drop, uid
  <2> QED
    BY <1>1, <1>2, <2>1 DEF GroupAcl
<1>5. CASE RevokeDeleted(a)
  BY <1>1, <1>2, <1>5, AfterRevoke DEF GroupAcl
<1> QED
  BY <1>3, <1>4, <1>5

\* Only a whole groupadd or groupdel changes the groups that exist: no part of
\* a failed step does.
LEMMA CutsKeepGroups ==
    ASSUME Typed, NEW op, NEW n, Ready(op, n), NEW h \in Cut(op, n)
    PROVE  h.group = os.group
<1>0. os \in Host /\ op \in AccountOps \cup GroupOps
  BY StepData DEF Typed, TypeOK
<1>1. CASE op = "create"
  BY <1>0, <1>1 DEF Cut, CreateCut, UserAdded, Host
<1>2. CASE op = "update"
  <2>1. h \in UpdateCut(n)
    BY <1>2 DEF Cut
  <2>2. h = ShellChanged(os, n) \/ h = GroupsReplaced(ShellChanged(os, n), n)
    BY <2>1 DEF UpdateCut
  <2>3. ShellChanged(os, n).group = os.group
    BY <1>0 DEF ShellChanged, Host
  <2>4. decl.accounts[n] \in Account /\ n \in Users /\ os.user[n] # None
    BY <1>2, <2>1, StepData DEF UpdateCut, AccountOps
  <2>5. ShellChanged(os, n) \in Host
    BY <1>0, <2>4, ShellChangedType
  <2>6. GroupsReplaced(ShellChanged(os, n), n).group = ShellChanged(os, n).group
    BY <2>5 DEF GroupsReplaced, Host
  <2> QED
    BY <2>2, <2>3, <2>6
<1>3. CASE op = "delete"
  BY <1>0, <1>3 DEF Cut, DeleteCut, WithSudo, Host
<1>4. CASE op = "file_access"
  <2>1. \E r, p : h = FileAccess(os, n, r, p)
    BY <1>4, Zenon DEF Cut, FileAccessCut
  <2> QED
    BY <1>0, <2>1 DEF FileAccess, Host
<1>5. CASE op = "revoke_deleted"
  <2>1. \E p : h = [os EXCEPT !.acl = @ \ Acl("u", acctReg[n].uid, p)]
    BY <1>5 DEF Cut, RevokeDeletedCut
  <2> QED
    BY <1>0, <2>1 DEF Host
<1>6. CASE op = "grant"
  <2>1. \E p, r, j, l : h = Granted(n, p, r, j, l)
    BY <1>6, Zenon DEF Cut, GrantCut
  <2> QED
    BY <1>0, <2>1 DEF Granted, Host
<1>7. CASE op = "teardown"
  <2>1. \E r, l : h = Torndown(n, r, l)
    BY <1>7, Zenon DEF Cut, TeardownCut
  <2> QED
    BY <1>0, <2>1 DEF Torndown, Host
<1>8. CASE op \in {"create_group", "delete_group"}
  BY <1>8 DEF Cut
<1> QED
  BY <1>0, <1>1, <1>2, <1>3, <1>4, <1>5, <1>6, <1>7, <1>8 DEF AccountOps, GroupOps

\* What the phases of the groups do to groups and grants.
LEMMA AfterCreateGroup ==
    ASSUME Typed, NEW g \in Groups, CreateGroup(g)
    PROVE  /\ os.group[g] = None /\ g \in made'
           /\ made' = made \cup {g}
           /\ os'.sudoG = os.sudoG /\ os'.acl = os.acl
           /\ \E id \in Gids :
                 /\ os'.group = [os.group EXCEPT ![g] = [gid |-> id, census |-> TRUE]]
                 /\ Pin(decl, g) \in {None, id}
                 /\ \A k \in Groups : os.group[k] # None => os.group[k].gid # id
<1>1. Ready("create_group", g) /\ CanCreateGroup(g)
  BY DEF CreateGroup
<1>2. Pin(decl, g) \in Maybe(Gids)
  BY <1>1, StepData, DeclType
<1>3. PICK id \in IF Pin(decl, g) # None THEN {Pin(decl, g)} ELSE Gids \ TakenGids :
         os' = GroupAdded(g, id)
  BY DEF CreateGroup
<1>4. id \in Gids /\ id \notin TakenGids /\ Pin(decl, g) \in {None, id}
  BY <1>1, <1>2, <1>3 DEF CanCreateGroup, Maybe
<1>5. os \in Host
  BY DEF Typed, TypeOK
<1>6. /\ os'.sudoG = os.sudoG /\ os'.acl = os.acl
      /\ os'.group = [os.group EXCEPT ![g] = [gid |-> id, census |-> TRUE]]
  BY <1>3, <1>5 DEF GroupAdded, Host
<1>7. \A k \in Groups : os.group[k] # None => os.group[k].gid # id
  BY <1>4, <1>5 DEF TakenGids, Present, Host
<1> QED
  BY <1>1, <1>4, <1>6, <1>7 DEF CreateGroup, CanCreateGroup

LEMMA AfterGrant ==
    ASSUME Typed, NEW g \in Groups, GrantGroup(g)
    PROVE  LET keep == decl.groups[g].files
               drop == RemovedFiles(groupReg, g, keep)
           IN  /\ decl.groups[g] # None /\ made' = made
               /\ os'.group = os.group
               /\ os'.sudoG = [os.sudoG EXCEPT ![g] = decl.groups[g].sudo]
               /\ os'.acl = IF keep \cup drop = {} THEN os.acl
                            ELSE (os.acl \cup Acl("g", os.group[g].gid, keep))
                                    \ Acl("g", os.group[g].gid, drop)
<1> DEFINE keep == decl.groups[g].files
           drop == RemovedFiles(groupReg, g, keep)
<1>1. Ready("grant", g) /\ os' = Granted(g, keep, drop, ToAdd(g), ToRemove(g))
  BY DEF GrantGroup
<1>2. os \in Host
  BY DEF Typed, TypeOK
<1>3. decl.groups[g] # None
  BY <1>1, StepData, NoneAssumption
<1> HIDE DEF keep, drop
<1>4. /\ os'.group = os.group
      /\ os'.sudoG = [os.sudoG EXCEPT ![g] = decl.groups[g].sudo]
      /\ os'.acl = IF keep \cup drop = {} THEN os.acl
                   ELSE (os.acl \cup Acl("g", os.group[g].gid, keep))
                           \ Acl("g", os.group[g].gid, drop)
  BY <1>1, <1>2 DEF Granted, GroupGid, Host
<1> QED
  BY <1>3, <1>4 DEF GrantGroup, keep, drop

LEMMA AfterTeardown ==
    ASSUME Typed, NEW g \in Groups, TeardownGroup(g)
    PROVE  /\ groupReg[g] # None /\ made' = made
           /\ os'.group = os.group
           /\ os'.sudoG = [os.sudoG EXCEPT ![g] = {}]
           /\ os'.acl = IF groupReg[g].files = {} THEN os.acl
                        ELSE os.acl \ Acl("g", os.group[g].gid, groupReg[g].files)
<1>1. /\ Ready("teardown", g)
      /\ os' = Torndown(g, groupReg[g].files, groupReg[g].members)
  BY DEF TeardownGroup
<1>2. os \in Host
  BY DEF Typed, TypeOK
<1>3. groupReg[g] # None
  BY <1>1, StepData, NoneAssumption
<1>4. /\ os'.group = os.group
      /\ os'.sudoG = [os.sudoG EXCEPT ![g] = {}]
      /\ os'.acl = IF groupReg[g].files = {} THEN os.acl
                   ELSE os.acl \ Acl("g", os.group[g].gid, groupReg[g].files)
  BY <1>1, <1>2 DEF Torndown, GroupGid, Host
<1> QED
  BY <1>3, <1>4 DEF TeardownGroup

LEMMA AfterDeleteGroup ==
    ASSUME Typed, NEW g \in Groups, DeleteGroup(g)
    PROVE  /\ os.group[g] # None /\ made' = made
           /\ os'.group = [os.group EXCEPT ![g] = None]
           /\ os'.sudoG = os.sudoG /\ os'.acl = os.acl
BY DEF DeleteGroup, CanDeleteGroup, Typed, TypeOK, Host

-----------------------------------------------------------------------------
(* GidInv is kept.                                                         *)

\* The steps of a new run fit.
LEMMA GroupStepsByBegin ==
    ASSUME Typed, GidInv, NEW d \in Declarations, NEW m, NEW r, Begin(d, m, r),
           NEW g \in Groups
    PROVE  GroupStepsFit(g)'
<1> DEFINE late == DeferredAccounts(d, acctReg, IF readable THEN sessions ELSE {})
           work == WorkList(d, acctReg, groupReg, LiveGids, late)
<1>1. /\ decl' = d /\ todo' = work /\ deferred' = late /\ made' = {}
      /\ UNCHANGED <<acctReg, groupReg>>
  BY DEF Begin, host, GidInv
<1>2. d \in Declaration /\ DOMAIN d.groups = Groups
  BY ApplyAssumption DEF Declaration
<1>3. /\ [op |-> "create_group", name |-> g] \in work <=> g \in MissingGroups(d, LiveGids)
      /\ [op |-> "grant", name |-> g] \in work <=> g \in GrantedGroups(d, groupReg)
      /\ [op |-> "teardown", name |-> g] \in work <=> g \in DroppedGroups(d, groupReg)
      /\ [op |-> "delete_group", name |-> g] \in work <=>
            g \in OrphanGroups(d, groupReg) \ DeferredGroups(late, acctReg)
  BY GroupWork
<1> HIDE DEF work, late
<1>4. Pending("create_group", g)' => g \in RequiredGroups(d)
  BY <1>1, <1>3 DEF Pending, MissingGroups
<1>5. /\ Pending("grant", g)' => d.groups[g] # None
      /\ Pending("teardown", g)' => d.groups[g] = None
  BY <1>1, <1>2, <1>3 DEF Pending, GrantedGroups, DroppedGroups, Present
<1>6. Pending("delete_group", g)' => g \in Doomed'
  BY <1>1, <1>3 DEF Pending, Doomed
<1> QED
  BY <1>1, <1>4, <1>5, <1>6 DEF GroupStepsFit

\* A step that is done: what has to be shown of the new host.
LEMMA GidByDone ==
    ASSUME Typed, GidInv, NEW op, NEW n, Ready(op, n), Done(op, n), GidsDiffer(os'.group),
           \/ made' = made
           \/ op = "create_group" /\ made' = made \cup {n}
    PROVE  GidInv'
<1>1. /\ UNCHANGED <<acctReg, groupReg, decl, deferred, pc, snap>> /\ pc = "run"
  BY DEF Done, Ready
<1>2. \A g \in Groups : GroupStepsFit(g)
  BY <1>1 DEF GidInv
<1>3. Doomed' = Doomed
  BY <1>1 DEF Doomed
<1>4. Pending(op, n)
  BY DEF Ready, Pending
<1>5. ASSUME NEW g \in Groups PROVE GroupStepsFit(g)'
  <2>1. \A o : Pending(o, g)' <=> Pending(o, g) /\ ~(o = op /\ g = n)
    BY PendingByDone
  <2>2. GroupStepsFit(g)
    BY <1>2
  <2> QED
    BY <1>1, <1>3, <1>4, <2>1, <2>2 DEF GroupStepsFit
<1>6. GidsDiffer(os.group)' /\ (snap # None => GidsDiffer(snap.group))'
  BY <1>1 DEF GidInv, GidsDiffer
<1> QED
  BY <1>1, <1>5, <1>6 DEF GidInv

\* The end of the process.
LEMMA GidByExit ==
    ASSUME Exit, GidsDiffer(os'.group)
    PROVE  GidInv'
<1>1. GidsDiffer(os.group)'
  BY DEF GidsDiffer
<1> QED
  BY <1>1 DEF GidInv, Exit

LEMMA GidByProgress ==
    ASSUME Typed, UidInv, GidInv, Progress PROVE GidInv'
<1>0. GidsDiffer(os.group) /\ os \in Host
  BY DEF GidInv, Typed, TypeOK
<1>1. CASE Snapshot
  <2>1. /\ UNCHANGED <<os, acctReg, groupReg, decl, deferred, todo, made>>
        /\ pc = "snapshot" /\ pc' = "run" /\ snap' = os
    BY <1>1 DEF Snapshot, host, run
  <2>2. \A g \in Groups : GroupStepsFit(g)' <=> GroupStepsFit(g)
    BY <2>1 DEF GroupStepsFit, Doomed, Pending
  <2> QED
    BY <1>0, <2>1, <2>2 DEF GidInv, GidsDiffer
<1>2. ASSUME NEW a \in Users,
             \/ CreateAccount(a) \/ UpdateAccount(a) \/ DeleteAccount(a)
             \/ AccountFiles(a) \/ RevokeDeleted(a)
      PROVE  GidInv'
  <2>1. PlanFits
    <3>1. \E op : Ready(op, a)
      BY <1>2 DEF CreateAccount, UpdateAccount, DeleteAccount, AccountFiles, RevokeDeleted
    <3> QED
      BY <3>1 DEF Ready, UidInv
  <2>2. /\ \E op : Ready(op, a) /\ Done(op, a)
        /\ os'.group = os.group /\ made' = made
    BY <1>2, <2>1, AfterAccountStep
  <2> QED
    BY <1>0, <2>2, GidByDone
<1>3. ASSUME NEW g \in Groups, CreateGroup(g) PROVE GidInv'
  <2>1. PICK id \in Gids :
           /\ os'.group = [os.group EXCEPT ![g] = [gid |-> id, census |-> TRUE]]
           /\ \A k \in Groups : os.group[k] # None => os.group[k].gid # id
    BY <1>3, AfterCreateGroup
  <2>2. GidsDiffer(os'.group)
    BY <1>0, <2>1 DEF GidsDiffer, Host
  <2> QED
    BY <1>3, <2>2, GidByDone DEF CreateGroup
<1>4. ASSUME NEW g \in Groups, GrantGroup(g) \/ TeardownGroup(g) PROVE GidInv'
  <2>1. os'.group = os.group
    BY <1>4, AfterGrant, AfterTeardown
  <2> QED
    BY <1>0, <1>4, <2>1, GidByDone DEF GrantGroup, TeardownGroup
<1>5. ASSUME NEW g \in Groups, DeleteGroup(g) PROVE GidInv'
  <2>0. os'.group = [os.group EXCEPT ![g] = None]
    BY <1>5, AfterDeleteGroup
  <2>1. GidsDiffer(os'.group)
    BY <1>0, <2>0 DEF GidsDiffer, Host
  <2> QED
    BY <1>5, <2>1, GidByDone DEF DeleteGroup
<1>6. CASE PhasesDone
  <2>1. /\ UNCHANGED <<os, acctReg, groupReg, decl, deferred, todo, made, snap>>
        /\ pc = "run" /\ pc' = "write"
    BY <1>6 DEF PhasesDone, host, run
  <2>2. \A g \in Groups : GroupStepsFit(g)' <=> GroupStepsFit(g)
    BY <2>1 DEF GroupStepsFit, Doomed, Pending
  <2> QED
    BY <2>1, <2>2 DEF GidInv, GidsDiffer
<1>7. CASE WriteRegistry
  BY <1>7 DEF WriteRegistry, GidInv, GidsDiffer
<1>8. CASE PersistVersion
  BY <1>0, <1>8, GidByExit DEF PersistVersion
<1>9. CASE Rollback
  <2>1. snap \in Host /\ snap # None
    BY <1>9, ApplyAssumption DEF Rollback, Typed, TypeOK, Maybe
  <2>2. os'.group = snap.group
    BY <1>0, <1>9, <2>1 DEF Rollback, RestoreAcl, RestoreAuth, Host
  <2> QED
    BY <1>9, <2>1, <2>2, GidByExit DEF Rollback, GidInv
<1> QED
  BY <1>1, <1>2, <1>3, <1>4, <1>5, <1>6, <1>7, <1>8, <1>9 DEF Progress

LEMMA GroupOfRestore ==
    ASSUME NEW h \in Host, snap \in Host, NEW p, NEW q, NEW us, NEW gs, NEW ps
    PROVE  RestoreAcl(RestoreAuth(h, p, q, us, gs), ps).group \in {h.group, snap.group}
BY DEF RestoreAcl, RestoreAuth, Host

LEMMA GidByFailure ==
    ASSUME Typed, GidInv, Failure PROVE GidInv'
<1>0. GidsDiffer(os.group) /\ os \in Host
  BY DEF GidInv, Typed, TypeOK
<1>1. ASSUME NEW s \in todo, StepFails(s.op, s.name) PROVE GidInv'
  <2>1. /\ Ready(s.op, s.name) /\ os' \in {os} \cup Cut(s.op, s.name)
        /\ pc' = "rollback" /\ UNCHANGED snap
    BY <1>1 DEF StepFails
  <2>2. os'.group = os.group
    BY <2>1, CutsKeepGroups
  <2> QED
    BY <1>0, <2>1, <2>2 DEF GidInv, GidsDiffer
<1>2. CASE RollbackLeavesFragment \/ RollbackFails
  <2>1. snap \in Host /\ GidsDiffer(snap.group)
    BY <1>2, ApplyAssumption
    DEF RollbackLeavesFragment, RollbackFails, Typed, TypeOK, Maybe, GidInv
  <2>2. PICK p, q, us, gs, ps :
           os' = RestoreAcl(RestoreAuth(os, p, q, us, gs), ps)
    <3>1. CASE RollbackLeavesFragment
      BY <3>1, Zenon DEF RollbackLeavesFragment
    <3>2. CASE RollbackFails
      BY <3>2, Zenon DEF RollbackFails
    <3> QED
      BY <1>2, <3>1, <3>2
  <2>3. GidsDiffer(os'.group)
    BY <1>0, <2>1, <2>2, GroupOfRestore
  <2> QED
    BY <1>2, <2>3, GidByExit DEF RollbackLeavesFragment, RollbackFails
<1>3. CASE SnapshotFails \/ WriteRegistryFails \/ PersistVersionFails \/ Crash
  <2>1. Exit /\ UNCHANGED os
    BY <1>3 DEF SnapshotFails, WriteRegistryFails, PersistVersionFails, Crash, host
  <2> QED
    BY <1>0, <2>1, GidByExit
<1> QED
  BY <1>1, <1>2, <1>3 DEF Failure

LEMMA GidByBegin ==
    ASSUME Typed, GidInv, NEW d \in Declarations, NEW m, NEW r, Begin(d, m, r)
    PROVE  GidInv'
<1>1. UNCHANGED <<os, snap>> /\ pc' # "idle"
  BY DEF Begin, host
<1>2. \A g \in Groups : GroupStepsFit(g)'
  BY GroupStepsByBegin
<1> QED
  BY <1>1, <1>2 DEF GidInv, GidsDiffer

LEMMA NextGid == Typed /\ UidInv /\ GidInv /\ [Next]_vars => GidInv'
<1> SUFFICES ASSUME Typed, UidInv, GidInv, [Next]_vars PROVE GidInv'
  OBVIOUS
<1>1. CASE Start
  BY <1>1, GidByBegin DEF Start
<1>2. CASE Progress
  BY <1>2, GidByProgress
<1>3. CASE Failure
  BY <1>3, GidByFailure
<1>4. CASE Sessions \/ UNCHANGED vars
  <2>1. UNCHANGED <<os, acctReg, groupReg, decl, deferred, todo, made, snap, pc>>
    BY <1>4 DEF Sessions, OpenSession, CloseSession, SpoilSessions, vars, host, run
  <2>2. \A g \in Groups : GroupStepsFit(g)' <=> GroupStepsFit(g)
    BY <2>1 DEF GroupStepsFit, Doomed, Pending
  <2> QED
    BY <2>1, <2>2 DEF GidInv, GidsDiffer
<1> QED
  BY <1>1, <1>2, <1>3, <1>4 DEF Next

-----------------------------------------------------------------------------
(* Grants.                                                                 *)

\* Membership in a group's paths, which spares unfolding them.
LEMMA PathsMember ==
    ASSUME NEW h, h.acl \subseteq AclEntry, NEW gid, NEW p
    PROVE  p \in GroupPathsOf(h, gid) <=>
              \E e \in h.acl : e.kind = "g" /\ e.id = gid /\ e.path = p
BY DEF GroupPathsOf

\* Who holds what depends on the entries of groups and on fragments only.
LEMMA GrantsBySame ==
    ASSUME NEW h, NEW k, NEW R, GrantsAgree(h, R), GroupAcl(k) = GroupAcl(h),
           k.sudoG = h.sudoG, k.group = h.group
    PROVE  GrantsAgree(k, R)
<1>1. \A gid : GroupPathsOf(k, gid) = GroupPathsOf(h, gid)
  BY DEF GroupPathsOf, GroupAcl
<1>2. EntriesOwned(k)
  BY DEF GrantsAgree, EntriesOwned, GroupAcl
<1> QED
  BY <1>1, <1>2 DEF GrantsAgree, SudoAgrees, EntriesAgree

\* A record with the same sudo rules and files will do, where there are any.
LEMMA GrantsBySameRecords ==
    ASSUME NEW h, NEW R, NEW S, GrantsAgree(h, R),
           \A g \in Groups : R[g] # None =>
              S[g] # None /\ S[g].sudo = R[g].sudo /\ S[g].files = R[g].files
    PROVE  GrantsAgree(h, S)
BY DEF GrantsAgree, SudoAgrees, EntriesAgree

\* A group that is created holds nothing: no entry waits for its gid.
LEMMA GrantsByCreated ==
    ASSUME NEW h \in Host, NEW k \in Host, NEW R, GrantsAgree(h, R), NEW g \in Groups,
           NEW id \in Gids, h.group[g] = None,
           \A x \in Groups : h.group[x] # None => h.group[x].gid # id,
           k.group = [h.group EXCEPT ![g] = [gid |-> id, census |-> TRUE]],
           k.sudoG = h.sudoG, k.acl = h.acl
    PROVE  GrantsAgree(k, R)
<1>1. /\ \A x \in Groups : x # g => k.group[x] = h.group[x]
      /\ k.group[g].gid = id
  BY DEF Host
<1>2. \A gid : GroupPathsOf(k, gid) = GroupPathsOf(h, gid)
  BY DEF GroupPathsOf
<1>3. HostGidsDiffer => GroupPathsOf(h, id) = {}
  BY DEF GrantsAgree, EntriesOwned, GroupPathsOf
<1>4. SudoAgrees(k, R)
  BY DEF GrantsAgree, SudoAgrees
<1>5. EntriesAgree(k, R)
  BY <1>1, <1>2, <1>3 DEF GrantsAgree, EntriesAgree
<1>6. EntriesOwned(k)
  BY <1>1 DEF GrantsAgree, EntriesOwned
<1> QED
  BY <1>4, <1>5, <1>6 DEF GrantsAgree

\* A group that holds nothing can go.
LEMMA GrantsByDeleted ==
    ASSUME NEW h \in Host, NEW k \in Host, NEW R, GrantsAgree(h, R), NEW g \in Groups,
           R[g] = None, k.group = [h.group EXCEPT ![g] = None],
           k.sudoG = h.sudoG, k.acl = h.acl
    PROVE  GrantsAgree(k, R)
<1>1. /\ \A x \in Groups : x # g => k.group[x] = h.group[x]
      /\ k.group[g] = None
  BY DEF Host
<1>2. \A gid : GroupPathsOf(k, gid) = GroupPathsOf(h, gid)
  BY DEF GroupPathsOf
<1>3. HostGidsDiffer /\ h.group[g] # None => GroupPathsOf(h, h.group[g].gid) = {}
  BY DEF GrantsAgree, EntriesAgree
<1>4. HostGidsDiffer => \A e \in h.acl : e.kind = "g" => ~(h.group[g] # None /\ h.group[g].gid = e.id)
  BY <1>3 DEF GroupPathsOf
<1>5. SudoAgrees(k, R)
  BY DEF GrantsAgree, SudoAgrees
<1>6. EntriesAgree(k, R)
  BY <1>1, <1>2 DEF GrantsAgree, EntriesAgree
<1>7. EntriesOwned(k)
  BY <1>1, <1>4 DEF GrantsAgree, EntriesOwned
<1> QED
  BY <1>5, <1>6, <1>7 DEF GrantsAgree

\* A group moves from its old record in R to its new one in S, and the host
\* from h to k: only the group's fragment and entries under its own gid change.
Moved(h, k, R, S, g) ==
    /\ k.group = h.group
    /\ \A x \in Groups : x # g => S[x] = R[x] /\ k.sudoG[x] = h.sudoG[x]
    /\ k.sudoG[g] # {} => S[g] # None /\ k.sudoG[g] = S[g].sudo
    /\ HostGidsDiffer /\ h.group[g] # None /\ GroupPathsOf(k, h.group[g].gid) # {} =>
          S[g] # None /\ GroupPathsOf(k, h.group[g].gid) = S[g].files
    /\ \A gid \in Gids : (h.group[g] = None \/ gid # h.group[g].gid) =>
          GroupPathsOf(k, gid) = GroupPathsOf(h, gid)
    /\ \A e \in k.acl : e \in h.acl \/ (h.group[g] # None /\ e.id = h.group[g].gid)

LEMMA GrantsByMoved ==
    ASSUME NEW h \in Host, NEW k \in Host, NEW R, NEW S, NEW g \in Groups,
           GrantsAgree(h, R), GidsDiffer(h.group), Moved(h, k, R, S, g)
    PROVE  GrantsAgree(k, S)
<1>0. /\ k.group = h.group
      /\ \A x \in Groups : x # g => S[x] = R[x]
      /\ \A gid \in Gids : (h.group[g] = None \/ gid # h.group[g].gid) =>
            GroupPathsOf(k, gid) = GroupPathsOf(h, gid)
      /\ HostGidsDiffer /\ h.group[g] # None /\ GroupPathsOf(k, h.group[g].gid) # {} =>
            S[g] # None /\ GroupPathsOf(k, h.group[g].gid) = S[g].files
  BY DEF Moved
<1>1. SudoAgrees(k, S)
  BY DEF GrantsAgree, SudoAgrees, Moved
<1>2. ASSUME HostGidsDiffer, NEW x \in Groups, k.group[x] # None,
             GroupPathsOf(k, k.group[x].gid) # {}
      PROVE  S[x] # None /\ GroupPathsOf(k, k.group[x].gid) = S[x].files
  <2>1. CASE x = g
    BY <1>0, <1>2, <2>1
  <2>2. CASE x # g
    <3>1. k.group[x].gid \in Gids
      BY <1>2 DEF Host, Maybe, GroupEntry
    <3>2. h.group[g] = None \/ k.group[x].gid # h.group[g].gid
      BY <1>0, <1>2, <2>2 DEF GidsDiffer
    <3>3. GroupPathsOf(k, k.group[x].gid) = GroupPathsOf(h, k.group[x].gid)
      BY <1>0, <3>1, <3>2
    <3> QED
      BY <1>0, <1>2, <2>2, <3>3 DEF GrantsAgree, EntriesAgree
  <2> QED
    BY <2>1, <2>2
<1>3. EntriesOwned(k)
  BY DEF GrantsAgree, EntriesOwned, Moved
<1> QED
  BY <1>1, <1>2, <1>3 DEF GrantsAgree, EntriesAgree

-----------------------------------------------------------------------------
(* A run in progress: every step moves one group from its old record to    *)
(* its new one.                                                            *)

\* A grant or a teardown that is done brings its group to the new record.
LEMMA GrantRecByDone ==
    ASSUME NEW op, NEW n, Ready(op, n), Done(op, n), NEW g \in Groups, GroupStepsFit(g)
    PROVE  GrantRec'[g] = IF op \in {"grant", "teardown"} /\ g = n
                          THEN decl.groups[g] ELSE GrantRec[g]
<1>1. UNCHANGED <<decl, groupReg>>
  BY DEF Done
<1>2. \A o : Pending(o, g)' <=> Pending(o, g) /\ ~(o = op /\ g = n)
  BY PendingByDone
<1>3. Pending(op, n)
  BY DEF Ready, Pending
<1>4. /\ GrantRec[g] = IF Pending("grant", g) \/ Pending("teardown", g)
                       THEN groupReg[g] ELSE decl.groups[g]
      /\ GrantRec'[g] = IF Pending("grant", g)' \/ Pending("teardown", g)'
                        THEN groupReg[g] ELSE decl.groups[g]
  BY <1>1 DEF GrantRec
<1> QED
  BY <1>2, <1>3, <1>4 DEF GroupStepsFit

LEMMA RequiredAreGroups ==
    ASSUME Typed, pc # "idle"
    PROVE  RequiredGroups(decl) \subseteq Groups
<1>1. /\ decl.groups \in [Groups -> Maybe(Group)]
      /\ DOMAIN decl.accounts = Users
      /\ \A a \in Users : decl.accounts[a] # None => decl.accounts[a] \in Account
  BY DeclType DEF Typed, TypeOK
<1> QED
  BY <1>1 DEF RequiredGroups, Present, Account

\* A step that is done: what has to be shown of the new host.
LEMMA GroupsByDone ==
    ASSUME Typed, GidInv, GroupsInProgress, NEW op, NEW n, Ready(op, n), Done(op, n),
           GrantsAgree(os', GrantRec'),
           \A k \in Groups : k # n => os'.group[k] = os.group[k],
           op \notin {"create_group", "delete_group"} => os'.group = os.group,
           op = "create_group" => /\ os.group[n] = None /\ os'.group[n] # None
                                  /\ Pin(decl, n) \in {None, os'.group[n].gid}
    PROVE  GroupsInProgress'
<1>1. UNCHANGED <<decl, acctReg, groupReg, deferred>> /\ pc = "run"
  BY DEF Done, Ready
<1>2. \A g \in Groups : GroupStepsFit(g)
  BY <1>1 DEF GidInv
<1>3. Doomed' = Doomed
  BY <1>1 DEF Doomed
<1>4. \A o, b : Pending(o, b)' <=> Pending(o, b) /\ ~(o = op /\ b = n)
  BY PendingByDone
<1>5. Pending(op, n)
  BY DEF Ready, Pending
<1>6. ASSUME NEW g \in Groups, g \in RequiredGroups(decl) PROVE RequiredLive(g)'
  <2>1. RequiredLive(g)
    BY <1>6 DEF GroupsInProgress
  <2>2. g \notin Doomed
    BY <1>6 DEF Doomed, OrphanGroups
  <2>3. Pending("create_group", g)' \/
           (os'.group[g] # None /\ Pin(decl, g) \in {None, os'.group[g].gid})
    BY <1>2, <1>4, <1>5, <2>1, <2>2 DEF RequiredLive, GroupStepsFit
  <2> QED
    BY <1>1, <2>3 DEF RequiredLive
<1>7. ASSUME NEW g \in Groups, groupReg[g] # None,
             g \notin Doomed \/ Pending("delete_group", g)'
      PROVE  HasGid(os', g, groupReg[g].gid)
  <2>1. HasGid(os, g, groupReg[g].gid)
    BY <1>4, <1>7 DEF GroupsInProgress
  <2>2. os'.group[g] = os.group[g]
    BY <1>2, <1>4, <1>5, <1>7, <2>1 DEF HasGid, GroupStepsFit
  <2> QED
    BY <2>1, <2>2 DEF HasGid
<1>8. RequiredGroups(decl)' = RequiredGroups(decl) /\ GrantsAgree(os, GrantRec)'
  BY <1>1 DEF GrantsAgree, SudoAgrees, EntriesAgree
<1>9. RequiredGroups(decl) \subseteq Groups
  BY <1>1, RequiredAreGroups
<1> QED
  BY <1>1, <1>3, <1>6, <1>7, <1>8, <1>9 DEF GroupsInProgress

LEMMA GroupsByAccountStep ==
    ASSUME Typed, PlanFits, GidInv, GroupsInProgress, NEW a \in Users,
           \/ CreateAccount(a) \/ UpdateAccount(a) \/ DeleteAccount(a)
           \/ AccountFiles(a) \/ RevokeDeleted(a)
    PROVE  GroupsInProgress'
<1>1. PICK op \in AccountOps : Ready(op, a) /\ Done(op, a)
  BY AfterAccountStep
<1>2. /\ os'.group = os.group /\ os'.sudoG = os.sudoG
      /\ GroupAcl(os') = GroupAcl(os)
  BY AfterAccountStep
<1>3. \A g \in Groups : GroupStepsFit(g)
  BY <1>1 DEF Ready, GidInv
<1>4. \A g \in Groups : GrantRec'[g] = GrantRec[g]
  BY <1>1, <1>3, GrantRecByDone DEF AccountOps
<1>5. GrantsAgree(os', GrantRec)
  BY <1>2, GrantsBySame DEF GroupsInProgress
<1>6. GrantsAgree(os', GrantRec')
  BY <1>4, <1>5, GrantsBySameRecords
<1> QED
  BY <1>1, <1>2, <1>6, GroupsByDone DEF AccountOps

LEMMA GroupsByCreateGroup ==
    ASSUME Typed, Typed', GidInv, GroupsInProgress, NEW g \in Groups, CreateGroup(g)
    PROVE  GroupsInProgress'
<1>0. os \in Host /\ os' \in Host
  BY DEF Typed, TypeOK
<1>1. Ready("create_group", g) /\ Done("create_group", g)
  BY DEF CreateGroup
<1>2. PICK id \in Gids :
         /\ os'.group = [os.group EXCEPT ![g] = [gid |-> id, census |-> TRUE]]
         /\ Pin(decl, g) \in {None, id}
         /\ \A k \in Groups : os.group[k] # None => os.group[k].gid # id
  BY AfterCreateGroup
<1>3. os.group[g] = None /\ os'.sudoG = os.sudoG /\ os'.acl = os.acl
  BY AfterCreateGroup
<1>4. \A k \in Groups : GroupStepsFit(k)
  BY <1>1 DEF Ready, GidInv
<1>5. \A k \in Groups : GrantRec'[k] = GrantRec[k]
  BY <1>1, <1>4, GrantRecByDone
<1>6. GrantsAgree(os', GrantRec)
  BY <1>0, <1>2, <1>3, GrantsByCreated DEF GroupsInProgress
<1>7. GrantsAgree(os', GrantRec')
  BY <1>5, <1>6, GrantsBySameRecords
<1>8. /\ \A k \in Groups : k # g => os'.group[k] = os.group[k]
      /\ os'.group[g] = [gid |-> id, census |-> TRUE]
  BY <1>0, <1>2 DEF Host
<1>9. os'.group[g] # None /\ os'.group[g].gid = id
  <2>1. os'.group[g] \in GroupEntry
    BY <1>8 DEF GroupEntry
  <2>2. os'.group[g] # None
    BY <2>1, ApplyAssumption
  <2> QED
    BY <1>8, <2>2
<1> QED
  BY <1>1, <1>2, <1>3, <1>7, <1>8, <1>9, GroupsByDone

LEMMA GroupsByDeleteGroup ==
    ASSUME Typed, Typed', GidInv, GroupsInProgress, NEW g \in Groups, DeleteGroup(g)
    PROVE  GroupsInProgress'
<1>0. os \in Host /\ os' \in Host /\ decl # None
  BY DEF Typed, TypeOK, DeleteGroup, Ready
<1>1. Ready("delete_group", g) /\ Done("delete_group", g)
  BY DEF DeleteGroup
<1>2. /\ os'.group = [os.group EXCEPT ![g] = None]
      /\ os'.sudoG = os.sudoG /\ os'.acl = os.acl
  BY AfterDeleteGroup
<1>3. \A k \in Groups : GroupStepsFit(k)
  BY <1>1 DEF Ready, GidInv
<1>4. \A k \in Groups : GrantRec'[k] = GrantRec[k]
  BY <1>1, <1>3, GrantRecByDone
<1>5. GrantRec[g] = None
  <2>1. /\ Pending("delete_group", g)
        /\ ~Pending("grant", g) /\ ~Pending("teardown", g)
    BY <1>1, GroupPhasesOver
  <2>2. g \notin RequiredGroups(decl)
    BY <1>3, <2>1 DEF GroupStepsFit, Doomed, OrphanGroups
  <2>3. DOMAIN decl.groups = Groups
    BY <1>0, DeclType
  <2>4. decl.groups[g] = None
    BY <2>2, <2>3 DEF RequiredGroups, Present
  <2> QED
    BY <2>1, <2>4 DEF GrantRec
<1>6. GrantsAgree(os', GrantRec)
  BY <1>0, <1>2, <1>5, GrantsByDeleted DEF GroupsInProgress
<1>7. GrantsAgree(os', GrantRec')
  BY <1>4, <1>6, GrantsBySameRecords
<1>8. \A k \in Groups : k # g => os'.group[k] = os.group[k]
  BY <1>0, <1>2 DEF Host
<1> QED
  BY <1>1, <1>7, <1>8, GroupsByDone

\* Entries of one group are added, then others of it are taken away.
LEMMA PathsByChange ==
    ASSUME NEW h, NEW k, h.acl \subseteq AclEntry, NEW gid, NEW keep, NEW drop,
           k.acl = (h.acl \cup Acl("g", gid, keep)) \ Acl("g", gid, drop)
    PROVE  /\ GroupPathsOf(k, gid) = (GroupPathsOf(h, gid) \cup keep) \ drop
           /\ \A id : id # gid => GroupPathsOf(k, id) = GroupPathsOf(h, id)
           /\ \A e \in k.acl : e \in h.acl \/ (e.kind = "g" /\ e.id = gid)
<1>1. \A ps, e : e \in Acl("g", gid, ps) =>
         e.kind = "g" /\ e.id = gid /\ e.path \in ps
  BY DEF Acl
<1>2. \A ps : \A p \in ps : [kind |-> "g", id |-> gid, path |-> p] \in Acl("g", gid, ps)
  BY DEF Acl
<1>3. \A e \in h.acl : e.kind = "g" /\ e.id = gid =>
         e = [kind |-> "g", id |-> gid, path |-> e.path]
  BY DEF AclEntry
<1>4. ASSUME NEW p PROVE p \in GroupPathsOf(k, gid)
                            <=> p \in (GroupPathsOf(h, gid) \cup keep) \ drop
  <2>1. ASSUME p \in GroupPathsOf(k, gid)
        PROVE  p \in (GroupPathsOf(h, gid) \cup keep) \ drop
    <3>1. PICK e \in k.acl : e.kind = "g" /\ e.id = gid /\ e.path = p
      BY <2>1 DEF GroupPathsOf
    <3>2. e \in h.acl \/ p \in keep
      BY <1>1, <3>1
    <3>3. p \notin drop
      BY <1>1, <1>2, <1>3, <3>1 DEF Acl
    <3> QED
      BY <3>1, <3>2, <3>3 DEF GroupPathsOf
  <2>2. ASSUME p \in (GroupPathsOf(h, gid) \cup keep) \ drop
        PROVE  p \in GroupPathsOf(k, gid)
    <3> DEFINE e == [kind |-> "g", id |-> gid, path |-> p]
    <3>1. e \in h.acl \cup Acl("g", gid, keep)
      BY <1>2, <1>3, <2>2 DEF GroupPathsOf
    <3>2. e \notin Acl("g", gid, drop)
      BY <1>1, <2>2
    <3>3. e.kind = "g" /\ e.id = gid /\ e.path = p
      OBVIOUS
    <3> QED
      BY <3>1, <3>2, <3>3 DEF GroupPathsOf
  <2> QED
    BY <2>1, <2>2
<1>5. ASSUME NEW id, id # gid PROVE GroupPathsOf(k, id) = GroupPathsOf(h, id)
  BY <1>1, <1>5 DEF GroupPathsOf
<1> QED
  BY <1>1, <1>4, <1>5

\* What is left for a group tells which record it still agrees with.
LEMMA OldGrants ==
    ASSUME GroupsInProgress, NEW op \in {"grant", "teardown"}, NEW g \in Groups,
           Ready(op, g)
    PROVE  HostGidsDiffer /\ os.group[g] # None /\ GroupPathsOf(os, os.group[g].gid) # {} =>
              groupReg[g] # None /\ GroupPathsOf(os, os.group[g].gid) = groupReg[g].files
<1>1. Pending(op, g)
  BY DEF Ready, Pending
<1>2. GrantRec[g] = groupReg[g]
  BY <1>1 DEF GrantRec
<1> QED
  BY <1>2 DEF GroupsInProgress, GrantsAgree, EntriesAgree

LEMMA GroupsByGrant ==
    ASSUME Typed, Typed', GidInv, GroupsInProgress, NEW g \in Groups, GrantGroup(g)
    PROVE  GroupsInProgress'
<1> DEFINE keep == decl.groups[g].files
           drop == RemovedFiles(groupReg, g, keep)
           gid == os.group[g].gid
<1>0. os \in Host /\ os' \in Host /\ decl # None /\ os.acl \subseteq AclEntry
  BY DEF Typed, TypeOK, GrantGroup, Ready, Host
<1>1. Ready("grant", g) /\ Done("grant", g)
  BY DEF GrantGroup
<1>2. /\ decl.groups[g] # None /\ os'.group = os.group
      /\ os'.sudoG = [os.sudoG EXCEPT ![g] = decl.groups[g].sudo]
      /\ os'.acl = IF keep \cup drop = {} THEN os.acl
                   ELSE (os.acl \cup Acl("g", gid, keep)) \ Acl("g", gid, drop)
  BY AfterGrant
<1>3. \A k \in Groups : GroupStepsFit(k)
  BY <1>1 DEF Ready, GidInv
<1>4. \A k \in Groups : GrantRec'[k] = IF k = g THEN decl.groups[k] ELSE GrantRec[k]
  BY <1>1, <1>3, GrantRecByDone
<1>5. os.group[g] # None
  <2>1. DOMAIN decl.groups = Groups
    BY <1>0, DeclType
  <2>2. g \in RequiredGroups(decl)
    BY <1>2, <2>1 DEF RequiredGroups, Present
  <2>3. ~Pending("create_group", g)
    BY <1>1, GroupPhasesOver
  <2> QED
    BY <2>2, <2>3 DEF GroupsInProgress, RequiredLive
<1>6. HostGidsDiffer /\ GroupPathsOf(os, gid) # {} =>
         groupReg[g] # None /\ GroupPathsOf(os, gid) = groupReg[g].files
  BY <1>1, <1>5, OldGrants
<1>7. HostGidsDiffer => (GroupPathsOf(os, gid) \cup keep) \ drop = keep
  BY <1>6 DEF RemovedFiles
<1> HIDE DEF keep, drop, gid
<1>8. os'.acl = (os.acl \cup Acl("g", gid, keep)) \ Acl("g", gid, drop)
  <2>1. Acl("g", gid, {}) = {}
    BY DEF Acl
  <2> QED
    BY <1>2, <2>1
<1>9. /\ HostGidsDiffer => GroupPathsOf(os', gid) = keep
      /\ \A id : id # gid => GroupPathsOf(os', id) = GroupPathsOf(os, id)
      /\ \A e \in os'.acl : e \in os.acl \/ (e.kind = "g" /\ e.id = gid)
  <2>1. /\ GroupPathsOf(os', gid) = (GroupPathsOf(os, gid) \cup keep) \ drop
        /\ \A id : id # gid => GroupPathsOf(os', id) = GroupPathsOf(os, id)
        /\ \A e \in os'.acl : e \in os.acl \/ (e.kind = "g" /\ e.id = gid)
    BY <1>0, <1>8, PathsByChange
  <2> QED
    BY <1>7, <2>1 DEF drop, keep, gid
<1>10. /\ os'.sudoG[g] = decl.groups[g].sudo
       /\ \A k \in Groups : k # g => os'.sudoG[k] = os.sudoG[k]
  BY <1>0, <1>2 DEF Host
<1>11. GrantsAgree(os', GrantRec')
  <2>1. GrantsAgree(os, GrantRec) /\ GidsDiffer(os.group)
    BY DEF GroupsInProgress, GidInv
  <2>2. \A k \in Groups : k # g => GrantRec'[k] = GrantRec[k] /\ os'.sudoG[k] = os.sudoG[k]
    BY <1>4, <1>10
  <2>3. GrantRec'[g] # None /\ os'.sudoG[g] = GrantRec'[g].sudo
    BY <1>2, <1>4, <1>10
  <2>4. HostGidsDiffer => GroupPathsOf(os', os.group[g].gid) = GrantRec'[g].files
    BY <1>4, <1>9 DEF gid, keep
  <2>5. \A id \in Gids : id # os.group[g].gid => GroupPathsOf(os', id) = GroupPathsOf(os, id)
    BY <1>9 DEF gid
  <2>6. \A e \in os'.acl : e \in os.acl
                              \/ (os.group[g] # None /\ e.id = os.group[g].gid)
    BY <1>5, <1>9 DEF gid
  <2>7. Moved(os, os', GrantRec, GrantRec', g)
    BY <1>2, <1>5, <2>2, <2>3, <2>4, <2>5, <2>6 DEF Moved
  <2> QED
    BY <1>0, <2>1, <2>7, GrantsByMoved
<1> QED
  BY <1>1, <1>2, <1>11, GroupsByDone

LEMMA GroupsByTeardown ==
    ASSUME Typed, Typed', GidInv, GroupsInProgress, NEW g \in Groups, TeardownGroup(g)
    PROVE  GroupsInProgress'
<1> DEFINE drop == groupReg[g].files
           gid == os.group[g].gid
<1>0. os \in Host /\ os' \in Host /\ decl # None /\ os.acl \subseteq AclEntry
  BY DEF Typed, TypeOK, TeardownGroup, Ready, Host
<1>1. Ready("teardown", g) /\ Done("teardown", g)
  BY DEF TeardownGroup
<1>2. /\ os'.group = os.group
      /\ os'.sudoG = [os.sudoG EXCEPT ![g] = {}]
      /\ os'.acl = IF drop = {} THEN os.acl ELSE os.acl \ Acl("g", gid, drop)
  BY AfterTeardown
<1>3. \A k \in Groups : GroupStepsFit(k)
  BY <1>1 DEF Ready, GidInv
<1>4. \A k \in Groups : GrantRec'[k] = IF k = g THEN decl.groups[k] ELSE GrantRec[k]
  BY <1>1, <1>3, GrantRecByDone
<1>5. drop # {} => os.group[g] # None
  BY DEF TeardownGroup, CanTeardown
<1>6. HostGidsDiffer /\ os.group[g] # None /\ GroupPathsOf(os, gid) # {} =>
         GroupPathsOf(os, gid) = drop
  BY <1>1, OldGrants
<1> HIDE DEF drop, gid
<1>7. os'.acl = (os.acl \cup Acl("g", gid, {})) \ Acl("g", gid, drop)
  <2>1. Acl("g", gid, {}) = {}
    BY DEF Acl
  <2> QED
    BY <1>2, <2>1
<1>8. /\ GroupPathsOf(os', gid) = GroupPathsOf(os, gid) \ drop
      /\ \A id : id # gid => GroupPathsOf(os', id) = GroupPathsOf(os, id)
      /\ \A e \in os'.acl : e \in os.acl \/ (e.kind = "g" /\ e.id = gid)
  <2>1. /\ GroupPathsOf(os', gid) = (GroupPathsOf(os, gid) \cup {}) \ drop
        /\ \A id : id # gid => GroupPathsOf(os', id) = GroupPathsOf(os, id)
        /\ \A e \in os'.acl : e \in os.acl \/ (e.kind = "g" /\ e.id = gid)
    BY <1>0, <1>7, PathsByChange
  <2> QED
    BY <2>1
<1>9. /\ os'.sudoG[g] = {}
      /\ \A k \in Groups : k # g => os'.sudoG[k] = os.sudoG[k]
  BY <1>0, <1>2 DEF Host
<1>10. GrantsAgree(os', GrantRec')
  <2>1. GrantsAgree(os, GrantRec) /\ GidsDiffer(os.group)
    BY DEF GroupsInProgress, GidInv
  <2>2. \A k \in Groups : k # g => GrantRec'[k] = GrantRec[k] /\ os'.sudoG[k] = os.sudoG[k]
    BY <1>4, <1>9
  <2>3. HostGidsDiffer /\ os.group[g] # None => GroupPathsOf(os', os.group[g].gid) = {}
    BY <1>6, <1>8 DEF gid
  <2>4. \A id \in Gids : (os.group[g] = None \/ id # os.group[g].gid) =>
           GroupPathsOf(os', id) = GroupPathsOf(os, id)
    <3>1. CASE drop = {}
      BY <1>2, <3>1 DEF GroupPathsOf
    <3>2. CASE drop # {}
      BY <1>5, <1>8, <3>2 DEF gid
    <3> QED
      BY <3>1, <3>2
  <2>5. \A e \in os'.acl : e \in os.acl
    BY <1>2
  <2>6. Moved(os, os', GrantRec, GrantRec', g)
    BY <1>2, <1>9, <2>2, <2>3, <2>4, <2>5 DEF Moved
  <2> QED
    BY <1>0, <2>1, <2>6, GrantsByMoved
<1> QED
  BY <1>1, <1>2, <1>10, GroupsByDone

-----------------------------------------------------------------------------
(* GrantInv is kept by every step.                                         *)

\* What is in progress depends on the run, the registry and the host only.
LEMMA SameGroups ==
    ASSUME UNCHANGED <<os, acctReg, groupReg, decl, deferred, todo, applied>>
    PROVE  /\ GroupsInProgress' <=> GroupsInProgress
           /\ GroupsSettled(os)' <=> GroupsSettled(os)
           /\ InSync(os)' <=> InSync(os)
<1>1. GroupsInProgress' <=> GroupsInProgress
  BY DEF GroupsInProgress, GrantRec, RequiredLive, Doomed, Pending, GrantsAgree,
         SudoAgrees, EntriesAgree
<1>2. GroupsSettled(os)' <=> GroupsSettled(os)
  BY DEF GroupsSettled, RecordsLive, GrantsAgree, SudoAgrees, EntriesAgree
<1>3. InSync(os)' <=> InSync(os)
  BY DEF InSync
<1> QED
  BY <1>1, <1>2, <1>3

\* So does what the registry says of the snapshot.
LEMMA SameSnapshot ==
    ASSUME UNCHANGED <<acctReg, groupReg, snap, applied>>
    PROVE  /\ GroupsSettled(snap)' <=> GroupsSettled(snap)
           /\ InSync(snap)' <=> InSync(snap)
BY DEF GroupsSettled, RecordsLive, GrantsAgree, SudoAgrees, EntriesAgree, InSync

\* A new run starts with every group at its old record, and one that finds
\* nothing to do has nothing to do.
LEMMA GrantByBegin ==
    ASSUME Typed, UidInv, GrantInv, NEW d \in Declarations, NEW m, NEW r, Begin(d, m, r)
    PROVE  GrantInv'
<1> DEFINE late == DeferredAccounts(d, acctReg, IF readable THEN sessions ELSE {})
           work == WorkList(d, acctReg, groupReg, LiveGids, late)
<1>0. /\ d \in Declaration /\ DOMAIN d.groups = Groups /\ DOMAIN d.accounts = Users
      /\ acctReg \in [Users -> Maybe(Account)] /\ DOMAIN groupReg = Groups
  BY ApplyAssumption DEF Typed, TypeOK, Declaration
<1>1. /\ decl' = d /\ todo' = work /\ deferred' = late
      /\ UNCHANGED <<os, acctReg, groupReg, snap, torn>> /\ pc = "idle" /\ snap = None
      /\ pc' \in {"snapshot", "write", "persist"}
      /\ ~GroupPlanError(d, groupReg, LiveGids)
      /\ applied' = applied \/ (applied' = d /\ work = {} /\ late = {})
  BY DEF Begin, host, UidInv, Record
<1>2. SUFFICES ASSUME ~torn PROVE GrantInv'
  BY <1>1 DEF GrantInv
<1>3. GroupsSettled(os) /\ InSync(os)
  BY <1>1, <1>2 DEF GrantInv
<1>4. \A g \in Groups :
         /\ [op |-> "create_group", name |-> g] \in work <=> g \in MissingGroups(d, LiveGids)
         /\ [op |-> "grant", name |-> g] \in work <=> g \in GrantedGroups(d, groupReg)
         /\ [op |-> "teardown", name |-> g] \in work <=> g \in DroppedGroups(d, groupReg)
         /\ [op |-> "delete_group", name |-> g] \in work <=>
               g \in OrphanGroups(d, groupReg) \ DeferredGroups(late, acctReg)
  BY GroupWork
<1>5. \A a \in Users :
         /\ [op |-> "create", name |-> a] \in work <=>
               d.accounts[a] # None /\ acctReg[a] = None
         /\ [op |-> "update", name |-> a] \in work <=>
               d.accounts[a] # None /\ acctReg[a] # None /\ d.accounts[a] # acctReg[a]
         /\ [op |-> "delete", name |-> a] \in work <=>
               d.accounts[a] = None /\ acctReg[a] # None /\ a \notin late
  BY <1>0, WorkExact
<1> HIDE DEF late, work
<1>6. GidsOf(os) = LiveGids
  BY DEF GidsOf, LiveGids
<1>7. RequiredGroups(d) \subseteq Groups
  BY <1>0 DEF RequiredGroups, Present, Declaration, Account, Maybe
<1>8. InSync(os)'
  <2>1. CASE applied' = applied
    BY <1>1, <1>3, <2>1 DEF InSync
  <2>2. CASE applied' = d /\ work = {} /\ late = {}
    <3>1. TouchedAccounts(d, acctReg, {}) = {}
      BY <1>0, <1>5, <2>2 DEF TouchedAccounts, CreatedAccounts, UpdatedAccounts,
                              VanishedAccounts, Present
    <3>2. MissingGroups(d, LiveGids) = {}
      BY <1>4, <1>7, <2>2 DEF MissingGroups
    <3>3. GrantedGroups(d, groupReg) = {}
      BY <1>0, <1>4, <2>2 DEF GrantedGroups, Present
    <3>4. DroppedGroups(d, groupReg) = {}
      BY <1>0, <1>4, <2>2 DEF DroppedGroups, Present
    <3> QED
      BY <1>1, <1>6, <2>2, <3>1, <3>2, <3>3, <3>4 DEF InSync
  <2> QED
    BY <1>1, <2>1, <2>2
<1>9. GroupsSettled(os)'
  BY <1>1, <1>3 DEF GroupsSettled, RecordsLive, GrantsAgree, SudoAgrees, EntriesAgree
<1>10. GrantsAgree(os', GrantRec')
  <2>1. ASSUME NEW g \in Groups, groupReg[g] # None
        PROVE  /\ GrantRec'[g] # None /\ GrantRec'[g].sudo = groupReg[g].sudo
               /\ GrantRec'[g].files = groupReg[g].files
    <3>1. GrantRec'[g] = IF Pending("grant", g)' \/ Pending("teardown", g)'
                         THEN groupReg[g] ELSE d.groups[g]
      BY <1>1 DEF GrantRec
    <3>2. Pending("grant", g)' \/ Pending("teardown", g)'
             \/ (d.groups[g] # None /\ SameGrants(d.groups[g], groupReg[g]))
      BY <1>0, <1>1, <1>4, <2>1 DEF Pending, GrantedGroups, DroppedGroups, Present
    <3> QED
      BY <2>1, <3>1, <3>2 DEF SameGrants
  <2>2. GrantsAgree(os', groupReg)
    BY <1>1, <1>3 DEF GroupsSettled
  <2> QED
    BY <2>1, <2>2, GrantsBySameRecords
<1>11. ASSUME NEW g \in RequiredGroups(d) PROVE RequiredLive(g)'
  <2>1. LiveGids[g] = IF os.group[g] = None THEN None ELSE os.group[g].gid
    BY <1>7 DEF LiveGids
  <2>2. CASE os.group[g] = None
    <3>1. Pending("create_group", g)'
      BY <1>1, <1>4, <1>7, <2>1, <2>2 DEF MissingGroups, Pending
    <3> QED
      BY <3>1 DEF RequiredLive
  <2>3. CASE os.group[g] # None
    <3>1. os.group[g].gid # None
      <4>1. os.group[g] \in GroupEntry
        BY <1>7, <2>3 DEF Typed, TypeOK, Host, Maybe
      <4> QED
        BY <4>1, NoneAssumption DEF GroupEntry
    <3>2. Pin(d, g) \in {None, os.group[g].gid}
      BY <1>1, <2>1, <2>3, <3>1 DEF GroupPlanError
    <3> QED
      BY <1>1, <2>3, <3>2 DEF RequiredLive
  <2> QED
    BY <2>2, <2>3
<1>12. GroupsInProgress'
  <2>1. \A g \in Groups : groupReg[g] # None => HasGid(os, g, groupReg[g].gid)
    BY <1>3 DEF GroupsSettled, RecordsLive
  <2>2. GrantsAgree(os, GrantRec)'
    BY <1>10 DEF GrantsAgree, SudoAgrees, EntriesAgree
  <2> QED
    BY <1>1, <1>11, <2>1, <2>2 DEF GroupsInProgress
<1> QED
  BY <1>1, <1>8, <1>9, <1>12 DEF GrantInv

\* The registry that is written knows every grant, and the declaration it was
\* written for is in force.
LEMMA GrantByWrite == ASSUME Typed, GidInv, GrantInv, WriteRegistry PROVE GrantInv'
<1>1. /\ pc = "write" /\ pc' = "persist" /\ todo = {} /\ decl # None
      /\ UNCHANGED <<os, torn>>
      /\ acctReg' = BuildManagedSet(decl, acctReg, deferred)
      /\ groupReg' = BuildManagedGroups(decl, acctReg, groupReg, LiveGids, deferred,
                                        made, baselines)
      /\ applied' = IF deferred = {} THEN decl ELSE None
  BY DEF WriteRegistry, Record, Typed, TypeOK, WorkOK
<1>2. SUFFICES ASSUME ~torn PROVE GrantInv'
  BY <1>1 DEF GrantInv
<1>3. /\ GroupsInProgress /\ \A g \in Groups : GroupStepsFit(g)
      /\ \A op, n : ~Pending(op, n)
  BY <1>1, <1>2 DEF GrantInv, GidInv, Pending
<1>4. /\ decl.groups \in [Groups -> Maybe(Group)] /\ DOMAIN decl.groups = Groups
      /\ DOMAIN decl.accounts = Users /\ RequiredGroups(decl) \subseteq Groups
  BY <1>1, DeclType, RequiredAreGroups
<1>5. \A g \in Groups : GrantRec[g] = decl.groups[g]
  BY <1>3 DEF GrantRec
<1>6. \A g \in RequiredGroups(decl) :
         os.group[g] # None /\ Pin(decl, g) \in {None, os.group[g].gid}
  BY <1>3 DEF GroupsInProgress, RequiredLive
<1>7. \A g \in Groups : groupReg[g] # None /\ g \notin Doomed
                           => HasGid(os, g, groupReg[g].gid)
  BY <1>3 DEF GroupsInProgress
<1>8. \A g \in Groups : LiveGids[g] = IF os.group[g] = None THEN None ELSE os.group[g].gid
  BY DEF LiveGids
<1>9. \A g \in Groups : os.group[g] # None => os.group[g].gid # None
  BY NoneAssumption DEF Typed, TypeOK, Host, Maybe, GroupEntry
<1>10. ASSUME NEW g \in Groups, decl.groups[g] # None
       PROVE  /\ groupReg'[g] # None /\ SameGrants(decl.groups[g], groupReg'[g])
              /\ HasGid(os, g, groupReg'[g].gid)
  <2>1. /\ groupReg'[g] \in ManagedGroup /\ SameGrants(decl.groups[g], groupReg'[g])
        /\ groupReg'[g].gid = RecordedGid(decl, groupReg, LiveGids, g)
    BY <1>1, <1>10, GroupRecorded
  <2>2. g \in RequiredGroups(decl)
    BY <1>4, <1>10 DEF RequiredGroups, Present
  <2>3. g \notin Doomed
    BY <2>2 DEF Doomed, OrphanGroups
  <2>4. RecordedGid(decl, groupReg, LiveGids, g) = os.group[g].gid
    BY <1>6, <1>7, <1>8, <1>10, <2>2, <2>3 DEF RecordedGid, Pin, HasGid
  <2>5. os.group[g] # None
    BY <1>6, <2>2
  <2>6. groupReg'[g] # None
    BY <2>1, NoneAssumption
  <2> QED
    BY <2>1, <2>4, <2>5, <2>6 DEF HasGid
<1>11. ASSUME NEW g \in Groups, decl.groups[g] = None, groupReg'[g] # None
       PROVE  /\ HasGid(os, g, groupReg'[g].gid)
              /\ g \in RequiredGroups(decl) \cup DeferredGroups(deferred, acctReg)
  <2>1. \/ /\ groupReg'[g] = groupReg[g] /\ groupReg[g] # None
           /\ g \in RequiredGroups(decl) \cup DeferredGroups(deferred, acctReg)
        \/ g \in made /\ groupReg'[g].gid = LiveGids[g]
    BY <1>1, <1>11, GroupRecorded
  <2>2. CASE /\ groupReg'[g] = groupReg[g] /\ groupReg[g] # None
             /\ g \in RequiredGroups(decl) \cup DeferredGroups(deferred, acctReg)
    <3>1. g \notin Doomed
      BY <2>2 DEF Doomed, OrphanGroups
    <3> QED
      BY <1>7, <2>2, <3>1
  <2>3. CASE g \in made /\ groupReg'[g].gid = LiveGids[g]
    <3>1. g \in RequiredGroups(decl)
      BY <1>3, <2>3 DEF GroupStepsFit
    <3> QED
      BY <1>6, <1>8, <2>3, <3>1 DEF HasGid
  <2> QED
    BY <2>1, <2>2, <2>3
<1>12. GroupsSettled(os)'
  <2>1. GrantsAgree(os', decl.groups)
    BY <1>1, <1>3, <1>5, GrantsBySameRecords DEF GroupsInProgress
  <2>2. GrantsAgree(os', groupReg')
    BY <1>10, <2>1, GrantsBySameRecords DEF SameGrants
  <2>3. \A g \in Groups : groupReg'[g] # None => HasGid(os', g, groupReg'[g].gid)
    BY <1>1, <1>10, <1>11
  <2> QED
    BY <2>2, <2>3 DEF GroupsSettled, RecordsLive, GrantsAgree, SudoAgrees, EntriesAgree
<1>13. InSync(os)'
  <2>1. SUFFICES ASSUME deferred = {}
                 PROVE  /\ TouchedAccounts(decl, acctReg', {}) = {}
                        /\ MissingGroups(decl, GidsOf(os)) = {}
                        /\ DroppedGroups(decl, groupReg') \subseteq RequiredGroups(decl)
                        /\ GrantedGroups(decl, groupReg') = {}
                        /\ ~GroupPlanError(decl, groupReg', GidsOf(os))
    BY <1>1 DEF InSync
  <2>2. \A g \in Groups : GidsOf(os)[g] = IF os.group[g] = None THEN None ELSE os.group[g].gid
    BY DEF GidsOf
  <2>3. DOMAIN groupReg' = Groups /\ DOMAIN acctReg' = Users
    BY <1>1 DEF BuildManagedGroups, BuildManagedSet
  <2>4. \A a \in Users : acctReg'[a] = decl.accounts[a]
    BY <1>1, <2>1 DEF BuildManagedSet
  <2>5. TouchedAccounts(decl, acctReg', {}) = {}
    BY <1>4, <2>3, <2>4 DEF TouchedAccounts, CreatedAccounts, UpdatedAccounts,
                            VanishedAccounts, Present
  <2>6. MissingGroups(decl, GidsOf(os)) = {}
    BY <1>4, <1>6, <1>9, <2>2 DEF MissingGroups
  <2>7. DeferredGroups(deferred, acctReg) = {}
    BY <2>1 DEF DeferredGroups
  <2>8. DroppedGroups(decl, groupReg') \subseteq RequiredGroups(decl)
    <3>1. \A g \in Groups : groupReg'[g] # None => g \in RequiredGroups(decl)
      BY <1>4, <1>11, <2>7 DEF RequiredGroups, Present
    <3> QED
      BY <2>3, <3>1 DEF DroppedGroups, Present
  <2>9. GrantedGroups(decl, groupReg') = {}
    BY <1>4, <1>10 DEF GrantedGroups, Present
  <2>10. ~GroupPlanError(decl, groupReg', GidsOf(os))
    <3>1. \A g \in RequiredGroups(decl) :
             GidsOf(os)[g] # None /\ Pin(decl, g) \in {None, GidsOf(os)[g]}
      BY <1>4, <1>6, <1>9, <2>2
    <3>2. \A g \in Present(groupReg') : GidsOf(os)[g] = groupReg'[g].gid
      BY <1>10, <1>11, <2>2, <2>3 DEF Present, HasGid
    <3> QED
      BY <3>1, <3>2 DEF GroupPlanError
  <2> QED
    BY <2>5, <2>6, <2>8, <2>9, <2>10
<1> QED
  BY <1>1, <1>12, <1>13 DEF GrantInv

\* A step that is done.
LEMMA GrantByDone ==
    ASSUME Typed, GrantInv, NEW op, NEW n, Ready(op, n), Done(op, n),
           GroupsInProgress => GroupsInProgress'
    PROVE  GrantInv'
<1>1. /\ UNCHANGED <<acctReg, groupReg, pc, snap, torn, applied>> /\ pc = "run"
  BY DEF Done, Ready, history
<1> QED
  BY <1>1, SameSnapshot DEF GrantInv

\* The end of the process.
LEMMA GrantByExit ==
    ASSUME Exit, UNCHANGED <<acctReg, groupReg, applied>>, NEW h,
           ~torn' => GroupsSettled(h) /\ InSync(h),
           os'.group = h.group, os'.sudoG = h.sudoG, os'.acl = h.acl
    PROVE  GrantInv'
<1>1. SUFFICES ASSUME ~torn' PROVE GroupsSettled(os)' /\ InSync(os)'
  BY DEF GrantInv, Exit
<1>2. GrantsAgree(os', groupReg)
  BY <1>1, GrantsBySame DEF GroupsSettled, GroupAcl
<1>3. GroupsSettled(os)'
  BY <1>1, <1>2 DEF GroupsSettled, RecordsLive, HasGid, GrantsAgree, SudoAgrees,
                    EntriesAgree
<1>4. GidsOf(os') = GidsOf(h)
  BY DEF GidsOf
<1>5. InSync(os)'
  BY <1>1, <1>4 DEF InSync
<1> QED
  BY <1>3, <1>5

LEMMA GrantByProgress ==
    ASSUME Typed, Typed', Covered, UidInv, GidInv, GrantInv, Progress PROVE GrantInv'
<1>1. CASE Snapshot
  <2>1. /\ UNCHANGED <<os, acctReg, groupReg, decl, deferred, todo, torn, applied>>
        /\ pc = "snapshot" /\ pc' = "run" /\ snap' = os
    BY <1>1 DEF Snapshot, host, run, history
  <2>2. ~torn => GroupsSettled(os) /\ InSync(os) /\ GroupsInProgress
    BY <2>1 DEF GrantInv
  <2>3. ~torn => GroupsSettled(snap)' /\ InSync(snap)'
    BY <2>1, <2>2 DEF GroupsSettled, RecordsLive, GrantsAgree, SudoAgrees,
                      EntriesAgree, InSync
  <2> QED
    BY <2>1, <2>2, <2>3, SameGroups DEF GrantInv
<1>2. ASSUME NEW a \in Users,
             \/ CreateAccount(a) \/ UpdateAccount(a) \/ DeleteAccount(a)
             \/ AccountFiles(a) \/ RevokeDeleted(a)
      PROVE  GrantInv'
  <2>1. \E op : Ready(op, a) /\ Done(op, a)
    BY <1>2 DEF CreateAccount, UpdateAccount, DeleteAccount, AccountFiles, RevokeDeleted
  <2>2. PlanFits
    BY <2>1 DEF Ready, UidInv
  <2>3. GroupsInProgress => GroupsInProgress'
    BY <1>2, <2>2, GroupsByAccountStep
  <2> QED
    BY <2>1, <2>3, GrantByDone
<1>3. ASSUME NEW g \in Groups,
             CreateGroup(g) \/ GrantGroup(g) \/ TeardownGroup(g) \/ DeleteGroup(g)
      PROVE  GrantInv'
  <2>1. GroupsInProgress => GroupsInProgress'
    BY <1>3, GroupsByCreateGroup, GroupsByGrant, GroupsByTeardown, GroupsByDeleteGroup
  <2>2. \E op : Ready(op, g) /\ Done(op, g)
    BY <1>3 DEF CreateGroup, GrantGroup, TeardownGroup, DeleteGroup
  <2> QED
    BY <2>1, <2>2, GrantByDone
<1>4. CASE PhasesDone
  <2>1. /\ UNCHANGED <<os, acctReg, groupReg, decl, deferred, todo, snap, torn, applied>>
        /\ pc = "run" /\ pc' = "write" /\ snap # None
    BY <1>4 DEF PhasesDone, host, run, history, Typed, TypeOK
  <2> QED
    BY <2>1, SameGroups, SameSnapshot DEF GrantInv
<1>5. CASE WriteRegistry
  BY <1>5, GrantByWrite
<1>6. CASE PersistVersion
  <2>1. pc = "persist" /\ Exit /\ UNCHANGED <<os, acctReg, groupReg, torn, applied>>
    BY <1>6 DEF PersistVersion, history
  <2>2. ~torn' => GroupsSettled(os) /\ InSync(os)
    BY <2>1 DEF GrantInv
  <2> QED
    BY <2>1, <2>2, GrantByExit
<1>7. CASE Rollback
  <2>1. /\ pc = "rollback" /\ Exit /\ UNCHANGED <<acctReg, groupReg, torn, applied>>
        /\ snap \in Host /\ snap # None
    BY <1>7 DEF Rollback, history, Typed, TypeOK, Maybe
  <2>2. os' = [snap EXCEPT !.home = os'.home]
    BY <1>7, RestoreIsExact
  <2>3. os'.group = snap.group /\ os'.sudoG = snap.sudoG /\ os'.acl = snap.acl
    BY <2>1, <2>2 DEF Host
  <2>4. ~torn' => GroupsSettled(snap) /\ InSync(snap)
    BY <2>1 DEF GrantInv
  <2> QED
    BY <2>1, <2>3, <2>4, GrantByExit
<1> QED
  BY <1>1, <1>2, <1>3, <1>4, <1>5, <1>6, <1>7 DEF Progress

LEMMA GrantByFailure ==
    ASSUME Typed, GrantInv, Failure PROVE GrantInv'
<1>1. ASSUME NEW s \in todo, StepFails(s.op, s.name) PROVE GrantInv'
  <2>1. /\ UNCHANGED <<acctReg, groupReg, snap, torn, applied>>
        /\ pc = "run" /\ pc' = "rollback"
    BY <1>1 DEF StepFails, Ready, history
  <2> QED
    BY <2>1, SameSnapshot DEF GrantInv
<1>2. CASE RollbackLeavesFragment \/ RollbackFails
  BY <1>2 DEF RollbackLeavesFragment, RollbackFails, GrantInv
<1>3. CASE SnapshotFails \/ WriteRegistryFails \/ PersistVersionFails \/ Crash
  <2>1. /\ Exit /\ UNCHANGED <<os, acctReg, groupReg, applied>>
    BY <1>3 DEF SnapshotFails, WriteRegistryFails, PersistVersionFails, Crash, host, history
  <2>2. ~torn' => /\ ~torn
                  /\ \/ pc \in {"idle", "snapshot", "persist"}
                     \/ pc = "write" /\ snap = None
    BY <1>3 DEF SnapshotFails, WriteRegistryFails, PersistVersionFails, Crash,
                history, Typed, TypeOK, PcValues
  <2>3. ~torn' => GroupsSettled(os) /\ InSync(os)
    BY <2>2 DEF GrantInv
  <2> QED
    BY <2>1, <2>3, GrantByExit
<1> QED
  BY <1>1, <1>2, <1>3 DEF Failure

-----------------------------------------------------------------------------
(* Together.                                                               *)

AllKnown == Known /\ GroupsInv

LEMMA InitAllKnown == Init => AllKnown
<1> SUFFICES ASSUME Init PROVE AllKnown
  OBVIOUS
<1>1. Known
  BY InitKnown
<1>2. /\ pc = "idle" /\ snap = None /\ made = {} /\ applied = None
      /\ groupReg = [g \in Groups |-> None] /\ os.group = HostGroups
      /\ os.sudoG = [g \in Groups |-> {}] /\ os.acl = {}
  BY DEF Init
<1>3. GidsDiffer(os.group)
  BY <1>2, ApplyAssumption DEF HostGidsDiffer, GidsDiffer, Present
<1>4. GidInv
  BY <1>2, <1>3 DEF GidInv
<1>5. GroupsSettled(os)
  BY <1>2 DEF GroupsSettled, RecordsLive, GrantsAgree, SudoAgrees, EntriesAgree,
              EntriesOwned, GroupPathsOf
<1>6. InSync(os)
  BY <1>2 DEF InSync
<1> QED
  BY <1>1, <1>2, <1>4, <1>5, <1>6 DEF AllKnown, GroupsInv, GrantInv

LEMMA NextAllKnown == AllKnown /\ [Next]_vars => AllKnown'
<1> SUFFICES ASSUME AllKnown, [Next]_vars PROVE AllKnown'
  OBVIOUS
<1>0. Known /\ Typed /\ Covered /\ UidInv /\ GidInv /\ GrantInv
  BY DEF AllKnown, GroupsInv, Known, AccountsInv
<1>1. Known' /\ Typed' /\ GidInv'
  BY <1>0, NextKnown, NextTyped, NextGid
<1>2. GrantInv'
  <2>1. CASE Start
    BY <1>0, <2>1, GrantByBegin DEF Start
  <2>2. CASE Progress
    BY <1>0, <1>1, <2>2, GrantByProgress
  <2>3. CASE Failure
    BY <1>0, <2>3, GrantByFailure
  <2>4. CASE Sessions \/ UNCHANGED vars
    <3>1. UNCHANGED <<os, acctReg, groupReg, decl, deferred, todo, snap, pc, torn, applied>>
      BY <2>4 DEF Sessions, OpenSession, CloseSession, SpoilSessions, vars, host,
                  run, history
    <3> QED
      BY <1>0, <3>1, SameGroups, SameSnapshot DEF GrantInv
  <2> QED
    BY <2>1, <2>2, <2>3, <2>4 DEF Next
<1> QED
  BY <1>1, <1>2 DEF AllKnown, GroupsInv

\* On a host whose groups have a gid each, no group holds, between two runs
\* that were not cut short, a sudo rule or an ACL entry that the registry does
\* not know of, whatever was granted, released, deleted or rolled back before
\* (phase 3c, phase 4, build_managed_groups).
THEOREM GrantsAreKnown == HostGidsDiffer => (Spec => []GroupGrantsKnown)
<1> SUFFICES ASSUME HostGidsDiffer PROVE Spec => []GroupGrantsKnown
  OBVIOUS
<1>1. AllKnown => GroupGrantsKnown
  <2> SUFFICES ASSUME AllKnown, Settled PROVE GroupGrantsKnown
    BY DEF GroupGrantsKnown
  <2>1. GrantsAgree(os, groupReg)
    BY DEF AllKnown, GroupsInv, GrantInv, GroupsSettled, Settled
  <2>2. \A gid : GroupPaths(gid) = GroupPathsOf(os, gid)
    BY DEF GroupPaths, GroupPathsOf
  <2> QED
    BY <2>1, <2>2 DEF GroupGrantsKnown, GrantsAgree, SudoAgrees, EntriesAgree
<1> QED
  BY <1>1, InitAllKnown, NextAllKnown, PTL DEF Spec

\* Planning again what was just applied in full meets no planning error and
\* finds nothing to do but the teardown of recorded groups that only roles ask
\* for: the registry written is the one the next diff compares equal (diff,
\* diff_groups, diff_resolved_groups, build_managed_set, build_managed_groups).
THEOREM ReapplyFindsNothing == Spec => []ReapplyInSync
<1>1. AllKnown => ReapplyInSync
  <2> SUFFICES ASSUME AllKnown, Settled, pc = "idle", applied # None PROVE ReapplyInSync
    BY DEF ReapplyInSync
  <2>1. InSync(os)
    BY DEF AllKnown, GroupsInv, GrantInv, Settled
  <2>2. GidsOf(os) = LiveGids
    BY DEF GidsOf, LiveGids
  <2>3. OrphanGroups(applied, groupReg) = {}
    BY <2>1 DEF InSync, DroppedGroups, OrphanGroups, RequiredGroups
  <2>4. /\ CreatedAccounts(applied, acctReg) = {}
        /\ UpdatedAccounts(applied, acctReg) = {}
        /\ VanishedAccounts(applied, acctReg) = {}
    BY <2>1 DEF InSync, TouchedAccounts
  <2>5. DroppedGroups(applied, groupReg)
          \subseteq RequiredGroups(applied) \ Present(applied.groups)
    BY <2>1 DEF InSync, DroppedGroups
  <2>6. WorkList(applied, acctReg, groupReg, LiveGids, {})
          = Work("teardown", DroppedGroups(applied, groupReg))
    BY <2>1, <2>2, <2>3, <2>4 DEF InSync, WorkList, Work
  <2> QED
    BY <2>1, <2>2, <2>5, <2>6 DEF InSync, ReapplyInSync, Work
<1> QED
  BY <1>1, InitAllKnown, NextAllKnown, PTL DEF Spec

-----------------------------------------------------------------------------
(* What doctor compares with the host, after every run that was not cut    *)
(* short, is what apply left there.                                        *)
(*                                                                         *)
(* Doctor looks at more than apply keeps records of: an account is to be   *)
(* in the groups of its record and in no other, and a recorded grant or    *)
(* membership is to be there still.  Both hold as long as role accounts    *)
(* and [[group]] entries stay out of each other's way, which is what the   *)
(* hypotheses below say; without them doctor does report what apply did.   *)

\* The accounts that declarations make, and the groups these are put in.
RoleNames == {a \in Users : \E d \in Declarations : d.accounts[a] # None}
RoleGroups ==
    {g \in Groups : \E d \in Declarations, a \in Users :
                       d.accounts[a] # None /\ g \in d.accounts[a].groups}

\* No role is put in a [[group]], and no [[group]] lists a role account.
RolesApart ==
    \A d \in Declarations, g \in Groups : d.groups[g] # None =>
        g \notin RoleGroups /\ d.groups[g].members \cap RoleNames = {}

\* The host's own group file lists members of groups it has, who exist.
HostMembersFit ==
    \A g \in Groups : \A u \in HostMembers[g] : HostGroups[g] # None /\ HostUsers[u] # None

KeptApart == RolesApart /\ HostMembersFit /\ HostGidsDiffer

-----------------------------------------------------------------------------
(* Agreement of a host with records of accounts A and of groups G.         *)

GroupsOf(h, a) == {g \in Groups : a \in h.mem[g]}

\* A group that is not there has no members.
MembersLive(h) == \A g \in Groups : h.group[g] = None => h.mem[g] = {}

\* A recorded role account is in the groups of its record, and one that is not
\* there is in none.
RoleAgrees(h, a, r) ==
    /\ r # None => GroupsOf(h, a) = r.groups
    /\ h.user[a] = None => GroupsOf(h, a) = {}

\* What the record of a group says was put on it is there.
GroupHolds(h, g, r) ==
    r # None =>
        /\ h.sudoG[g] = r.sudo
        /\ r.members \subseteq h.mem[g]
        /\ h.group[g] # None => r.files \subseteq GroupPathsOf(h, h.group[g].gid)

Kept(h, A, G) ==
    /\ MembersLive(h)
    /\ \A a \in RoleNames : RoleAgrees(h, a, A[a])
    /\ \A g \in Groups : GroupHolds(h, g, G[g])

-----------------------------------------------------------------------------
(* The invariant.                                                          *)

\* Records of accounts are those of roles, records of groups keep clear of
\* roles: one kept for a role's sake holds nothing.
RecordsApart ==
    /\ \A a \in Users : acctReg[a] # None =>
          a \in RoleNames /\ acctReg[a].groups \subseteq RoleGroups
    /\ \A g \in Groups : groupReg[g] # None =>
          /\ groupReg[g].members \cap RoleNames = {}
          /\ g \in RoleGroups => /\ groupReg[g].members = {} /\ groupReg[g].sudo = {}
                                 /\ groupReg[g].files = {}

\* A [[group]] that is still to be created has yet to get its grants.
GrantsFollow ==
    pc \in {"snapshot", "run", "write"} => \A g \in Groups :
        Pending("create_group", g) /\ decl.groups[g] # None
            => Pending("grant", g) \/ groupReg[g] # None

KeptInv ==
    ~torn =>
        /\ pc \in {"idle", "snapshot", "persist"} \/ (pc = "write" /\ snap = None)
              => Kept(os, acctReg, groupReg)
        /\ pc \in {"run", "rollback", "write"} /\ snap # None
              => Kept(snap, acctReg, groupReg)
        /\ pc \in {"snapshot", "run", "write"} => Kept(os, LoginRec, GrantRec)

DoctorInv == RecordsApart /\ GrantsFollow /\ KeptInv

-----------------------------------------------------------------------------
(* Records.                                                                *)

\* What the hypothesis says of the declaration that is applied.
LEMMA DeclApart ==
    ASSUME Typed, RolesApart, decl # None
    PROVE  /\ \A a \in Users : decl.accounts[a] # None =>
                 a \in RoleNames /\ decl.accounts[a].groups \subseteq RoleGroups
           /\ \A g \in Groups : decl.groups[g] # None =>
                 g \notin RoleGroups /\ decl.groups[g].members \cap RoleNames = {}
<1>1. decl \in Declarations
  BY DEF Typed, TypeOK, Maybe
<1>2. \A a \in Users : decl.accounts[a] # None => decl.accounts[a].groups \subseteq Groups
  BY DeclType DEF Account
<1>3. ASSUME NEW a \in Users, decl.accounts[a] # None
      PROVE  a \in RoleNames /\ decl.accounts[a].groups \subseteq RoleGroups
  BY <1>1, <1>2, <1>3 DEF RoleNames, RoleGroups
<1>4. ASSUME NEW g \in Groups, decl.groups[g] # None
      PROVE  g \notin RoleGroups /\ decl.groups[g].members \cap RoleNames = {}
  BY <1>1, <1>4 DEF RolesApart
<1> QED
  BY <1>3, <1>4

\* The registry that is written keeps clear of roles as the declaration does.
LEMMA ApartByWrite ==
    ASSUME Typed, RolesApart, RecordsApart, WriteRegistry
    PROVE  RecordsApart'
<1>1. /\ decl # None
      /\ acctReg' = BuildManagedSet(decl, acctReg, deferred)
      /\ groupReg' = BuildManagedGroups(decl, acctReg, groupReg, LiveGids, deferred,
                                        made, baselines)
  BY DEF WriteRegistry, Typed, TypeOK
<1>2. ASSUME NEW a \in Users, acctReg'[a] # None
      PROVE  a \in RoleNames /\ acctReg'[a].groups \subseteq RoleGroups
  <2>1. acctReg'[a] = IF a \in deferred THEN acctReg[a] ELSE decl.accounts[a]
    BY <1>1 DEF BuildManagedSet
  <2> QED
    BY <1>1, <1>2, <2>1, DeclApart DEF RecordsApart
<1>3. ASSUME NEW g \in Groups, groupReg'[g] # None
      PROVE  /\ groupReg'[g].members \cap RoleNames = {}
             /\ g \in RoleGroups => /\ groupReg'[g].members = {} /\ groupReg'[g].sudo = {}
                                    /\ groupReg'[g].files = {}
  <2>1. CASE decl.groups[g] # None
    <3>1. SameGrants(decl.groups[g], groupReg'[g])
      BY <1>1, <2>1, GroupRecorded
    <3> QED
      BY <1>1, <2>1, <3>1, DeclApart DEF SameGrants
  <2>2. CASE decl.groups[g] = None
    <3>1. \/ groupReg'[g] = groupReg[g]
          \/ /\ groupReg'[g].members = {} /\ groupReg'[g].sudo = {}
             /\ groupReg'[g].files = {}
      BY <1>1, <1>3, <2>2, GroupRecorded
    <3> QED
      BY <1>3, <3>1 DEF RecordsApart
  <2> QED
    BY <2>1, <2>2
<1> QED
  BY <1>2, <1>3 DEF RecordsApart

LEMMA NextApart ==
    ASSUME Typed, RolesApart, RecordsApart, [Next]_vars
    PROVE  RecordsApart'
<1>1. CASE WriteRegistry
  BY <1>1, ApartByWrite
<1>2. CASE ~WriteRegistry
  <2>1. UNCHANGED <<acctReg, groupReg>>
    BY <1>2 DEF Next, Start, Begin, Progress, Failure, Sessions, Snapshot, CreateGroup,
       GrantGroup, TeardownGroup, DeleteGroup, CreateAccount, UpdateAccount,
       DeleteAccount, AccountFiles, RevokeDeleted, Done, PhasesDone, PersistVersion,
       Rollback, SnapshotFails, StepFails, RollbackFails, RollbackLeavesFragment,
       WriteRegistryFails, PersistVersionFails, Crash, OpenSession, CloseSession,
       SpoilSessions, vars, host
  <2> QED
    BY <2>1 DEF RecordsApart
<1> QED
  BY <1>1, <1>2

\* The records the host is compared with during a run keep clear of roles too.
LEMMA GrantRecApart ==
    ASSUME Typed, RolesApart, RecordsApart, decl # None, NEW g \in Groups, GrantRec[g] # None
    PROVE  GrantRec[g].members \cap RoleNames = {}
<1>1. GrantRec[g] \in {groupReg[g], decl.groups[g]}
  BY DEF GrantRec
<1> QED
  BY <1>1, DeclApart DEF RecordsApart

-----------------------------------------------------------------------------
(* GrantsFollow.                                                           *)

LEMMA FollowByBegin ==
    ASSUME Typed, NEW d \in Declarations, NEW m, NEW r, Begin(d, m, r)
    PROVE  GrantsFollow'
<1> DEFINE late == DeferredAccounts(d, acctReg, IF readable THEN sessions ELSE {})
           work == WorkList(d, acctReg, groupReg, LiveGids, late)
<1>1. decl' = d /\ todo' = work /\ groupReg' = groupReg
  BY DEF Begin, host
<1>2. \A g \in Groups :
         [op |-> "grant", name |-> g] \in work <=> g \in GrantedGroups(d, groupReg)
  BY GroupWork
<1>3. DOMAIN d.groups = Groups
  BY ApplyAssumption DEF Declaration
<1> HIDE DEF work, late
<1> QED
  BY <1>1, <1>2, <1>3 DEF GrantsFollow, Pending, GrantedGroups, Present

\* Grants are made when every group has been created.
LEMMA FollowByDone ==
    ASSUME GrantsFollow, NEW op, NEW n, Ready(op, n), Done(op, n)
    PROVE  GrantsFollow'
<1>1. UNCHANGED <<groupReg, decl, pc>> /\ pc = "run"
  BY DEF Done, Ready
<1>2. op = "grant" => \A g : ~Pending("create_group", g)
  BY GroupPhasesOver
<1>3. \A o, b : Pending(o, b)' <=> Pending(o, b) /\ ~(o = op /\ b = n)
  BY PendingByDone
<1> QED
  BY <1>1, <1>2, <1>3 DEF GrantsFollow

LEMMA NextFollow ==
    ASSUME Typed, GrantsFollow, [Next]_vars
    PROVE  GrantsFollow'
<1>1. CASE Start
  BY <1>1, FollowByBegin DEF Start
<1>2. CASE \E op, n : Ready(op, n) /\ Done(op, n)
  BY <1>2, FollowByDone
<1>3. CASE Snapshot \/ PhasesDone \/ Sessions \/ UNCHANGED vars
  <2>1. UNCHANGED <<todo, decl, groupReg>> /\ (pc' = pc \/ pc \in {"snapshot", "run"})
    BY <1>3 DEF Snapshot, PhasesDone, Sessions, OpenSession, CloseSession, SpoilSessions,
                vars, host, run
  <2> QED
    BY <2>1 DEF GrantsFollow, Pending
<1>4. CASE Failure \/ WriteRegistry \/ PersistVersion \/ Rollback
  <2>1. pc' \in {"idle", "rollback", "persist"}
    BY <1>4 DEF Failure, SnapshotFails, StepFails, RollbackFails, RollbackLeavesFragment,
                WriteRegistryFails, PersistVersionFails, Crash, Exit, WriteRegistry,
                PersistVersion, Rollback
  <2> QED
    BY <2>1 DEF GrantsFollow
<1>5. ASSUME Progress
      PROVE  \/ Snapshot \/ PhasesDone \/ WriteRegistry \/ PersistVersion \/ Rollback
             \/ \E op, n : Ready(op, n) /\ Done(op, n)
  BY <1>5 DEF Progress, CreateGroup, GrantGroup, TeardownGroup, DeleteGroup,
     CreateAccount, UpdateAccount, DeleteAccount, AccountFiles, RevokeDeleted
<1> QED
  BY <1>1, <1>2, <1>3, <1>4, <1>5 DEF Next

-----------------------------------------------------------------------------
(* Members.                                                                *)

\* What each step does to the members of the groups.
LEMMA MembersAfterAccountStep ==
    ASSUME Typed, PlanFits, NEW a \in Users
    PROVE  /\ CreateAccount(a) =>
                 os'.mem = [g \in Groups |-> IF g \in decl.accounts[a].groups
                                             THEN os.mem[g] \cup {a} ELSE os.mem[g]]
           /\ UpdateAccount(a) =>
                 os'.mem = IF decl.accounts[a].groups = acctReg[a].groups THEN os.mem
                           ELSE [g \in Groups |-> IF g \in decl.accounts[a].groups
                                                  THEN os.mem[g] \cup {a}
                                                  ELSE os.mem[g] \ {a}]
           /\ DeleteAccount(a) => os'.mem = [g \in Groups |-> os.mem[g] \ {a}]
           /\ AccountFiles(a) \/ RevokeDeleted(a) => os'.mem = os.mem
<1>0. os \in Host
  BY DEF Typed, TypeOK
<1>1. ASSUME CreateAccount(a)
      PROVE  os'.mem = [g \in Groups |-> IF g \in decl.accounts[a].groups
                                         THEN os.mem[g] \cup {a} ELSE os.mem[g]]
  <2>1. os' = WithSudo(UserAdded(a), a, decl.accounts[a].sudo)
    BY <1>1 DEF CreateAccount
  <2>2. WithSudo(UserAdded(a), a, decl.accounts[a].sudo).mem = UserAdded(a).mem
    BY <1>0 DEF WithSudo, UserAdded, Host
  <2> QED
    BY <1>0, <2>1, <2>2 DEF UserAdded, Host
<1>2. ASSUME UpdateAccount(a)
      PROVE  os'.mem = IF decl.accounts[a].groups = acctReg[a].groups THEN os.mem
                       ELSE [g \in Groups |-> IF g \in decl.accounts[a].groups
                                              THEN os.mem[g] \cup {a}
                                              ELSE os.mem[g] \ {a}]
  <2> DEFINE h == ShellChanged(os, a)
             k == GroupsReplaced(h, a)
  <2>1. os' = WithSudo(k, a, decl.accounts[a].sudo)
    BY <1>2 DEF UpdateAccount
  <2>2. /\ decl.accounts[a] \in Account
        /\ decl.accounts[a].login # acctReg[a].login => os.user[a] # None
    BY <1>2, AfterUpdate
  <2>3. h \in Host
    BY <1>0, <2>2, ShellChangedType
  <2>4. h.mem = os.mem
    BY <1>0 DEF ShellChanged, Host
  <2> HIDE DEF h
  <2>5. k.mem = IF decl.accounts[a].groups = acctReg[a].groups THEN h.mem
                ELSE [g \in Groups |-> IF g \in decl.accounts[a].groups
                                       THEN h.mem[g] \cup {a} ELSE h.mem[g] \ {a}]
    BY <2>3 DEF GroupsReplaced, Host
  <2>6. WithSudo(k, a, decl.accounts[a].sudo).mem = k.mem
    BY <2>3 DEF WithSudo, GroupsReplaced, Host
  <2> HIDE DEF k
  <2> QED
    BY <2>1, <2>4, <2>5, <2>6
<1>3. ASSUME DeleteAccount(a) PROVE os'.mem = [g \in Groups |-> os.mem[g] \ {a}]
  BY <1>0, <1>3 DEF DeleteAccount, UserDeleted, WithSudo, Host
<1>4. ASSUME AccountFiles(a) \/ RevokeDeleted(a) PROVE os'.mem = os.mem
  BY <1>0, <1>4 DEF AccountFiles, RevokeDeleted, FileAccess, Host
<1> QED
  BY <1>1, <1>2, <1>3, <1>4

LEMMA MembersAfterGroupStep ==
    ASSUME Typed, NEW g \in Groups
    PROVE  /\ CreateGroup(g) => os'.mem = os.mem
           /\ GrantGroup(g) =>
                 os'.mem = [os.mem EXCEPT ![g] = (os.mem[g] \cup ToAdd(g)) \ ToRemove(g)]
           /\ TeardownGroup(g) =>
                 os'.mem = [os.mem EXCEPT ![g] = os.mem[g] \ groupReg[g].members]
           /\ DeleteGroup(g) => os'.mem = [os.mem EXCEPT ![g] = {}]
<1>0. os \in Host
  BY DEF Typed, TypeOK
<1>1. ASSUME CreateGroup(g) PROVE os'.mem = os.mem
  BY <1>0, <1>1 DEF CreateGroup, GroupAdded, Host
<1>2. ASSUME GrantGroup(g)
      PROVE  os'.mem = [os.mem EXCEPT ![g] = (os.mem[g] \cup ToAdd(g)) \ ToRemove(g)]
  <2>1. \E p, r : os' = Granted(g, p, r, ToAdd(g), ToRemove(g))
    BY <1>2, Zenon DEF GrantGroup
  <2> QED
    BY <1>0, <2>1 DEF Granted, Host
<1>3. ASSUME TeardownGroup(g)
      PROVE  os'.mem = [os.mem EXCEPT ![g] = os.mem[g] \ groupReg[g].members]
  <2>1. \E r : os' = Torndown(g, r, groupReg[g].members)
    BY <1>3, Zenon DEF TeardownGroup
  <2> QED
    BY <1>0, <2>1 DEF Torndown, Host
<1>4. ASSUME DeleteGroup(g) PROVE os'.mem = [os.mem EXCEPT ![g] = {}]
  BY <1>0, <1>4 DEF DeleteGroup, Host
<1> QED
  BY <1>1, <1>2, <1>3, <1>4

-----------------------------------------------------------------------------
(* A run in progress.                                                      *)

\* What is kept depends on accounts, groups, members and what groups hold.
LEMMA KeptBySame ==
    ASSUME NEW h, NEW k, NEW A, NEW B, NEW G, NEW H, Kept(h, A, G),
           k.user = h.user, k.group = h.group, k.mem = h.mem, k.sudoG = h.sudoG,
           GroupAcl(k) = GroupAcl(h),
           \A a \in Users : B[a] = A[a],
           \A g \in Groups : H[g] # None =>
              /\ G[g] # None /\ H[g].sudo = G[g].sudo /\ H[g].files = G[g].files
              /\ H[g].members = G[g].members
    PROVE  Kept(k, B, H)
<1>1. \A gid : GroupPathsOf(k, gid) = GroupPathsOf(h, gid)
  BY DEF GroupPathsOf, GroupAcl
<1>2. \A a \in RoleNames : a \in Users
  BY DEF RoleNames
<1>3. MembersLive(k)
  BY DEF Kept, MembersLive
<1>4. \A a \in RoleNames : RoleAgrees(k, a, B[a])
  BY <1>2 DEF Kept, RoleAgrees, GroupsOf
<1>5. \A g \in Groups : GroupHolds(k, g, H[g])
  BY <1>1 DEF Kept, GroupHolds
<1> QED
  BY <1>3, <1>4, <1>5 DEF Kept

\* One role account changes its groups.
LEMMA KeptByAccount ==
    ASSUME NEW h, NEW k, NEW A, NEW B, NEW G, NEW H, Kept(h, A, G), NEW a \in RoleNames,
           k.group = h.group, k.sudoG = h.sudoG, GroupAcl(k) = GroupAcl(h),
           \A b \in Users : b # a => k.user[b] = h.user[b] /\ B[b] = A[b],
           \A g \in Groups : \A b : b # a => (b \in k.mem[g] <=> b \in h.mem[g]),
           \A g \in Groups : H[g] = G[g],
           \A g \in Groups : G[g] # None => a \notin G[g].members,
           \A g \in Groups : h.group[g] = None => a \notin k.mem[g],
           RoleAgrees(k, a, B[a])
    PROVE  Kept(k, B, H)
<1>1. \A gid : GroupPathsOf(k, gid) = GroupPathsOf(h, gid)
  BY DEF GroupPathsOf, GroupAcl
<1>2. \A b \in RoleNames : b \in Users
  BY DEF RoleNames
<1>3. MembersLive(k)
  BY DEF Kept, MembersLive
<1>4. ASSUME NEW b \in RoleNames PROVE RoleAgrees(k, b, B[b])
  <2>1. b # a => GroupsOf(k, b) = GroupsOf(h, b)
    BY DEF GroupsOf
  <2> QED
    BY <1>2, <2>1 DEF Kept, RoleAgrees
<1>5. \A g \in Groups : GroupHolds(k, g, H[g])
  BY <1>1 DEF Kept, GroupHolds
<1> QED
  BY <1>3, <1>4, <1>5 DEF Kept

\* What the proofs about a step of a run in progress rest on.
Steady ==
    /\ Typed /\ PlanFits /\ GidInv /\ RecordsApart /\ GrantsFollow
    /\ InProgress /\ GroupsInProgress /\ Kept(os, LoginRec, GrantRec)

LEMMA KeptByAccountStep ==
    ASSUME Steady, Typed', RolesApart, NEW a \in Users,
           \/ CreateAccount(a) \/ UpdateAccount(a) \/ DeleteAccount(a)
           \/ AccountFiles(a) \/ RevokeDeleted(a)
    PROVE  Kept(os', LoginRec', GrantRec')
<1>0. /\ Typed /\ PlanFits /\ GidInv /\ RecordsApart /\ Kept(os, LoginRec, GrantRec)
      /\ \A b \in Users : LoginAgrees(os, b, LoginRec[b])
      /\ os \in Host /\ os' \in Host
  BY DEF Steady, InProgress, Typed, TypeOK
<1>1. PICK op \in AccountOps : Ready(op, a) /\ Done(op, a)
  BY <1>0, AfterAccountStep
<1>2. /\ os'.group = os.group /\ os'.sudoG = os.sudoG
      /\ GroupAcl(os') = GroupAcl(os) /\ decl # None
  BY <1>0, <1>1, AfterAccountStep, StepData
<1>3. \A g \in Groups : GrantRec'[g] = GrantRec[g]
  <2>1. \A g \in Groups : GroupStepsFit(g)
    BY <1>0, <1>1 DEF Ready, GidInv
  <2> QED
    BY <1>1, <2>1, GrantRecByDone DEF AccountOps
<1>4. \A g \in Groups : GrantRec[g] # None => GrantRec[g].members \cap RoleNames = {}
  BY <1>0, <1>2, GrantRecApart
<1>5. CASE AccountFiles(a) \/ RevokeDeleted(a)
  <2>1. os'.mem = os.mem /\ os'.user = os.user
    BY <1>0, <1>5, MembersAfterAccountStep, AfterFiles, AfterRevoke
  <2>2. PICK o \in {"file_access", "revoke_deleted"} : Ready(o, a) /\ Done(o, a)
    BY <1>5 DEF AccountFiles, RevokeDeleted
  <2>3. \A b \in Users : LoginRec'[b] = LoginRec[b]
    BY <1>0, <2>2, RecsByDone
  <2> QED
    BY <1>0, <1>2, <1>3, <2>1, <2>3, KeptBySame
<1>6. ASSUME NEW o \in {"create", "update", "delete"}, Ready(o, a), Done(o, a),
             a \in RoleNames,
             \A b \in Users : b # a => os'.user[b] = os.user[b],
             \A g \in Groups : \A b : b # a => (b \in os'.mem[g] <=> b \in os.mem[g]),
             \A g \in Groups : os.group[g] = None => a \notin os'.mem[g],
             RoleAgrees(os', a, NewReg[a])
      PROVE  Kept(os', LoginRec', GrantRec')
  <2>1. \A b \in Users : LoginRec'[b] = IF b = a THEN NewReg[b] ELSE LoginRec[b]
    BY <1>0, <1>6, RecsByDone
  <2> HIDE DEF LoginRec, GrantRec, NewReg
  <2>2. \A b \in Users : b # a => os'.user[b] = os.user[b] /\ LoginRec'[b] = LoginRec[b]
    BY <1>6, <2>1
  <2>3. \A g \in Groups : GrantRec[g] # None => a \notin GrantRec[g].members
    BY <1>4, <1>6
  <2>4. RoleAgrees(os', a, LoginRec'[a])
    BY <1>6, <2>1
  <2> QED
    BY <1>0, <1>2, <1>3, <1>6, <2>2, <2>3, <2>4, KeptByAccount
<1>7. \A g \in Groups : os.group[g] = None => os.mem[g] = {}
  BY <1>0 DEF Kept, MembersLive
<1>8. CASE CreateAccount(a)
  <2>1. /\ Declared(a) /\ ~Recorded(a) /\ a \notin deferred /\ CanCreate(a)
        /\ decl.accounts[a] \in Account
    BY <1>0, <1>8, AfterCreate
  <2>2. os'.mem = [g \in Groups |-> IF g \in decl.accounts[a].groups
                                    THEN os.mem[g] \cup {a} ELSE os.mem[g]]
    BY <1>0, <1>8, MembersAfterAccountStep
  <2>3. a \in RoleNames
    BY <1>0, <1>2, <2>1, DeclApart DEF Declared
  <2>4. GroupsOf(os, a) = {}
    BY <1>0, <2>1, <2>3 DEF Kept, RoleAgrees, CanCreate
  <2>5. GroupsOf(os', a) = decl.accounts[a].groups
    BY <2>1, <2>2, <2>4 DEF GroupsOf, Account
  <2>6. NewReg[a] = decl.accounts[a]
    BY <2>1, RecAt
  <2>7. /\ \A b \in Users : b # a => os'.user[b] = os.user[b]
        /\ os'.user[a] # None
    <3>1. os'.user = [os.user EXCEPT ![a] = [uid |-> decl.accounts[a].uid,
                          login |-> decl.accounts[a].login, census |-> TRUE]]
      BY <1>0, <1>8, AfterCreate DEF UserAdded, Host
    <3>2. [uid |-> decl.accounts[a].uid, login |-> decl.accounts[a].login, census |-> TRUE]
             \in UserEntry
      BY <2>1 DEF UserEntry, Account
    <3>3. os.user \in [Users -> Maybe(UserEntry)]
      BY <1>0 DEF Host
    <3>4. \A b \in Users : b # a => os'.user[b] = os.user[b]
      BY <3>1, <3>3
    <3>5. os'.user[a] # None
      BY <3>1, <3>2, <3>3, ApplyAssumption
    <3> QED
      BY <3>4, <3>5
  <2>8. RoleAgrees(os', a, NewReg[a])
    BY <2>5, <2>6, <2>7 DEF RoleAgrees
  <2>9. \A g \in Groups : \A b : b # a => (b \in os'.mem[g] <=> b \in os.mem[g])
    BY <2>2
  <2>10. \A g \in Groups : os.group[g] = None => a \notin os'.mem[g]
    BY <1>0, <1>7, <2>1, <2>2 DEF CanCreate, Present, Host
  <2> QED
    BY <1>6, <1>8, <2>3, <2>7, <2>8, <2>9, <2>10 DEF CreateAccount
<1>9. CASE UpdateAccount(a)
  <2>1. /\ Declared(a) /\ Recorded(a) /\ a \notin deferred
        /\ decl.accounts[a] \in Account
        /\ decl.accounts[a].login # acctReg[a].login => os.user[a] # None
        /\ os'.user = ShellChanged(os, a).user
    BY <1>0, <1>9, AfterUpdate
  <2>2. os'.mem = IF decl.accounts[a].groups = acctReg[a].groups THEN os.mem
                  ELSE [g \in Groups |-> IF g \in decl.accounts[a].groups
                                         THEN os.mem[g] \cup {a} ELSE os.mem[g] \ {a}]
    BY <1>0, <1>9, MembersAfterAccountStep
  <2>3. a \in RoleNames
    BY <1>0, <1>2, <2>1, DeclApart DEF Declared
  <2>4. Pending("update", a)
    BY <1>9, PhasesOver DEF UpdateAccount
  <2>5. LoginRec[a] = acctReg[a]
    BY <2>4, RecAt DEF LoginDue
  <2>6. GroupsOf(os, a) = acctReg[a].groups
    BY <1>0, <2>1, <2>3, <2>5 DEF Kept, RoleAgrees, Recorded
  <2>7. GroupsOf(os', a) = decl.accounts[a].groups
    BY <2>1, <2>2, <2>6 DEF GroupsOf, Account
  <2>8. NewReg[a] = decl.accounts[a]
    BY <2>1, RecAt
  <2>9. os.user[a] # None
    <3>1. os.user[a] = [uid |-> acctReg[a].uid, login |-> acctReg[a].login, census |-> TRUE]
      BY <1>0, <2>1, <2>5 DEF LoginAgrees, Recorded
    <3>2. acctReg[a] \in Account
      BY <1>0, <2>1, RegType DEF Recorded
    <3>3. os.user[a] \in UserEntry
      BY <3>1, <3>2 DEF UserEntry, Account
    <3> QED
      BY <3>3, ApplyAssumption
  <2>10. /\ \A b \in Users : b # a => os'.user[b] = os.user[b]
         /\ os'.user[a] # None
    <3>1. os'.user = os.user \/ os'.user = [os.user EXCEPT ![a].login = decl.accounts[a].login]
      BY <1>0, <2>1 DEF ShellChanged, Host
    <3>2. os.user[a] \in UserEntry
      BY <1>0, <2>9 DEF Host, Maybe
    <3>3. [os.user[a] EXCEPT !.login = decl.accounts[a].login] \in UserEntry
      BY <2>1, <3>2 DEF UserEntry, Account
    <3>4. os'.user[a] # None
      BY <1>0, <2>9, <3>1, <3>3, ApplyAssumption DEF Host
    <3> QED
      BY <1>0, <3>1, <3>4 DEF Host
  <2>11. RoleAgrees(os', a, NewReg[a])
    BY <2>7, <2>8, <2>10 DEF RoleAgrees
  <2>12. \A g \in Groups : \A b : b # a => (b \in os'.mem[g] <=> b \in os.mem[g])
    BY <2>2
  <2>13. \A g \in Groups : os.group[g] = None => a \notin os'.mem[g]
    <3>1. decl.accounts[a].groups # acctReg[a].groups
             => decl.accounts[a].groups \subseteq Present(os.group)
      BY <1>9 DEF UpdateAccount, CanUpdate
    <3> QED
      BY <1>0, <1>7, <2>2, <3>1 DEF Present, Host
  <2> QED
    BY <1>6, <1>9, <2>3, <2>10, <2>11, <2>12, <2>13 DEF UpdateAccount
<1>10. CASE DeleteAccount(a)
  <2>1. Leaving(a) /\ os'.user = [os.user EXCEPT ![a] = None]
    BY <1>0, <1>10, AfterDelete
  <2>2. os'.mem = [g \in Groups |-> os.mem[g] \ {a}]
    BY <1>0, <1>10, MembersAfterAccountStep
  <2>3. a \in RoleNames
    BY <1>0, <2>1 DEF RecordsApart, Leaving, Recorded
  <2>4. NewReg[a] = None
    BY <2>1, RecAt DEF Leaving, Declared
  <2>5. GroupsOf(os', a) = {}
    BY <2>2 DEF GroupsOf
  <2>6. RoleAgrees(os', a, NewReg[a])
    BY <2>4, <2>5 DEF RoleAgrees
  <2>7. \A b \in Users : b # a => os'.user[b] = os.user[b]
    BY <1>0, <2>1 DEF Host
  <2>8. \A g \in Groups : \A b : b # a => (b \in os'.mem[g] <=> b \in os.mem[g])
    BY <2>2
  <2>9. \A g \in Groups : os.group[g] = None => a \notin os'.mem[g]
    BY <2>2
  <2> QED
    BY <1>6, <1>10, <2>3, <2>6, <2>7, <2>8, <2>9 DEF DeleteAccount
<1> QED
  BY <1>5, <1>8, <1>9, <1>10

\* A step of a group changes its members, its fragment and the entries under
\* its gid, and neither a role account nor another group.
GroupChanged(h, k, A, B, G, H, g) ==
    /\ k.user = h.user
    /\ \A x \in Groups : x # g =>
          /\ k.group[x] = h.group[x] /\ k.mem[x] = h.mem[x]
          /\ k.sudoG[x] = h.sudoG[x] /\ H[x] = G[x]
          /\ h.group[x] # None =>
                GroupPathsOf(k, h.group[x].gid) = GroupPathsOf(h, h.group[x].gid)
    /\ \A b \in Users : B[b] = A[b]
    /\ \A b \in RoleNames :
          \/ b \in k.mem[g] <=> b \in h.mem[g]
          \/ k.mem[g] = {} /\ (B[b] = None \/ g \notin B[b].groups)
    /\ k.group[g] = None => k.mem[g] = {}
    /\ GroupHolds(k, g, H[g])

LEMMA KeptByGroup ==
    ASSUME NEW h, NEW k, NEW A, NEW B, NEW G, NEW H, NEW g \in Groups,
           Kept(h, A, G), GroupChanged(h, k, A, B, G, H, g)
    PROVE  Kept(k, B, H)
<1>1. MembersLive(k)
  BY DEF Kept, MembersLive, GroupChanged
<1>2. ASSUME NEW b \in RoleNames PROVE RoleAgrees(k, b, B[b])
  <2>1. b \in Users /\ RoleAgrees(h, b, B[b]) /\ k.user = h.user
    BY DEF RoleNames, Kept, GroupChanged
  <2>2. GroupsOf(k, b) \subseteq GroupsOf(h, b)
    BY DEF GroupsOf, GroupChanged
  <2>3. B[b] # None => GroupsOf(k, b) = GroupsOf(h, b)
    BY <2>1 DEF GroupsOf, RoleAgrees, GroupChanged
  <2> QED
    BY <2>1, <2>2, <2>3 DEF RoleAgrees
<1>3. ASSUME NEW x \in Groups PROVE GroupHolds(k, x, H[x])
  BY DEF Kept, GroupHolds, GroupChanged
<1> QED
  BY <1>1, <1>2, <1>3 DEF Kept

LEMMA KeptByCreateGroup ==
    ASSUME Steady, Typed', RolesApart, HostGidsDiffer, NEW g \in Groups, CreateGroup(g)
    PROVE  Kept(os', LoginRec', GrantRec')
<1>0. /\ Typed /\ PlanFits /\ GidInv /\ GrantsFollow /\ Kept(os, LoginRec, GrantRec)
      /\ GroupsInProgress /\ os \in Host /\ os' \in Host
  BY DEF Steady, Typed, TypeOK
<1>1. Ready("create_group", g) /\ Done("create_group", g) /\ Pending("create_group", g)
  BY GroupPhasesOver DEF CreateGroup
<1>2. /\ os.group[g] = None /\ os'.sudoG = os.sudoG /\ os'.acl = os.acl
      /\ os'.user = os.user /\ os'.mem = os.mem
      /\ \A k \in Groups : k # g => os'.group[k] = os.group[k]
  BY <1>0, AfterCreateGroup, AfterGroupStep, MembersAfterGroupStep
<1>3. \A k \in Groups : GroupStepsFit(k)
  BY <1>0, <1>1 DEF Ready, GidInv
<1>4. \A k \in Groups : GrantRec'[k] = GrantRec[k]
  BY <1>1, <1>3, GrantRecByDone
<1>5. \A b \in Users : LoginRec'[b] = LoginRec[b]
  BY <1>0, <1>1, RecsByDone
<1>6. GrantRec[g] = None
  <2>1. g \notin Doomed
    BY <1>1, <1>3 DEF GroupStepsFit, Doomed, OrphanGroups
  <2>2. groupReg[g] = None
    BY <1>0, <1>2, <2>1 DEF GroupsInProgress, HasGid
  <2>3. Pending("grant", g) \/ decl.groups[g] = None
    BY <1>0, <1>1, <2>2 DEF GrantsFollow, Ready
  <2> QED
    BY <2>2, <2>3 DEF GrantRec
<1>7. os'.mem[g] = {}
  BY <1>0, <1>2 DEF Kept, MembersLive
<1>8. \A id : GroupPathsOf(os', id) = GroupPathsOf(os, id)
  BY <1>2 DEF GroupPathsOf
<1>9. GroupHolds(os', g, GrantRec'[g])
  BY <1>4, <1>6 DEF GroupHolds
<1> HIDE DEF LoginRec, GrantRec
<1>10. GroupChanged(os, os', LoginRec, LoginRec', GrantRec, GrantRec', g)
  BY <1>2, <1>4, <1>5, <1>7, <1>8, <1>9 DEF GroupChanged
<1> QED
  BY <1>0, <1>10, KeptByGroup

LEMMA KeptByGrant ==
    ASSUME Steady, Typed', RolesApart, HostGidsDiffer, NEW g \in Groups, GrantGroup(g)
    PROVE  Kept(os', LoginRec', GrantRec')
<1> DEFINE keep == decl.groups[g].files
           drop == RemovedFiles(groupReg, g, keep)
           gid == os.group[g].gid
<1>0. /\ Typed /\ PlanFits /\ GidInv /\ RecordsApart /\ Kept(os, LoginRec, GrantRec)
      /\ GroupsInProgress /\ os \in Host /\ os' \in Host /\ os.acl \subseteq AclEntry
      /\ decl # None
  BY DEF Steady, Typed, TypeOK, Host, GrantGroup, Ready
<1>1. Ready("grant", g) /\ Done("grant", g) /\ Pending("grant", g)
      /\ ~Pending("create_group", g)
  BY GroupPhasesOver DEF GrantGroup
<1>2. /\ decl.groups[g] # None /\ os'.group = os.group /\ os'.user = os.user
      /\ os'.sudoG = [os.sudoG EXCEPT ![g] = decl.groups[g].sudo]
      /\ os'.mem = [os.mem EXCEPT ![g] = (os.mem[g] \cup ToAdd(g)) \ ToRemove(g)]
      /\ os'.acl = IF keep \cup drop = {} THEN os.acl
                   ELSE (os.acl \cup Acl("g", gid, keep)) \ Acl("g", gid, drop)
  BY <1>0, AfterGrant, AfterGroupStep, MembersAfterGroupStep
<1>3. \A k \in Groups : GroupStepsFit(k)
  BY <1>0, <1>1 DEF Ready, GidInv
<1>4. \A k \in Groups : GrantRec'[k] = IF k = g THEN decl.groups[k] ELSE GrantRec[k]
  BY <1>1, <1>3, GrantRecByDone
<1>5. \A b \in Users : LoginRec'[b] = LoginRec[b]
  BY <1>0, <1>1, RecsByDone
<1>6. os.group[g] # None
  <2>1. DOMAIN decl.groups = Groups
    BY <1>0, DeclType
  <2>2. g \in RequiredGroups(decl)
    BY <1>2, <2>1 DEF RequiredGroups, Present
  <2> QED
    BY <1>0, <1>1, <2>2 DEF GroupsInProgress, RequiredLive
<1>7. keep \cap drop = {}
  BY DEF RemovedFiles
<1>8. MembersAdded(g) \subseteq os.mem[g]
  <2>1. GrantRec[g] = groupReg[g]
    BY <1>1 DEF GrantRec
  <2> QED
    BY <1>0, <2>1 DEF Kept, GroupHolds, MembersAdded
<1>9. /\ MembersAdded(g) \cap RoleNames = {}
      /\ decl.groups[g].members \cap RoleNames = {}
  BY <1>0, <1>2, DeclApart DEF RecordsApart, MembersAdded
<1>10. /\ decl.groups[g].members \subseteq os'.mem[g]
       /\ \A b \in RoleNames : b \in os'.mem[g] <=> b \in os.mem[g]
  <2>1. os'.mem[g] = (os.mem[g] \cup ToAdd(g)) \ ToRemove(g)
    BY <1>0, <1>2 DEF Host
  <2> QED
    BY <1>8, <1>9, <2>1 DEF ToAdd, ToRemove
<1> HIDE DEF keep, drop, gid
<1>11. /\ GroupPathsOf(os', gid) = (GroupPathsOf(os, gid) \cup keep) \ drop
       /\ \A id : id # gid => GroupPathsOf(os', id) = GroupPathsOf(os, id)
  <2>1. Acl("g", gid, {}) = {}
    BY DEF Acl
  <2>2. os'.acl = (os.acl \cup Acl("g", gid, keep)) \ Acl("g", gid, drop)
    BY <1>2, <2>1
  <2> QED
    BY <1>0, <2>2, PathsByChange
<1>12. keep \subseteq GroupPathsOf(os', gid)
  BY <1>7, <1>11
<1>13. os'.sudoG[g] = decl.groups[g].sudo
  BY <1>0, <1>2 DEF Host
<1>14. GroupHolds(os', g, GrantRec'[g])
  BY <1>2, <1>4, <1>10, <1>12, <1>13 DEF GroupHolds, keep, gid
<1>15. \A x \in Groups : x # g => /\ os'.mem[x] = os.mem[x] /\ os'.sudoG[x] = os.sudoG[x]
                                  /\ GrantRec'[x] = GrantRec[x]
  BY <1>0, <1>2, <1>4 DEF Host
<1>16. \A x \in Groups : x # g /\ os.group[x] # None =>
          GroupPathsOf(os', os.group[x].gid) = GroupPathsOf(os, os.group[x].gid)
  BY <1>0, <1>6, <1>11 DEF GidInv, GidsDiffer, gid
<1> HIDE DEF LoginRec, GrantRec
<1>17. GroupChanged(os, os', LoginRec, LoginRec', GrantRec, GrantRec', g)
  BY <1>2, <1>5, <1>6, <1>10, <1>14, <1>15, <1>16 DEF GroupChanged
<1> QED
  BY <1>0, <1>17, KeptByGroup

LEMMA KeptByTeardown ==
    ASSUME Steady, Typed', RolesApart, HostGidsDiffer, NEW g \in Groups, TeardownGroup(g)
    PROVE  Kept(os', LoginRec', GrantRec')
<1> DEFINE drop == groupReg[g].files
           gid == os.group[g].gid
<1>0. /\ Typed /\ PlanFits /\ GidInv /\ RecordsApart /\ Kept(os, LoginRec, GrantRec)
      /\ os \in Host /\ os' \in Host /\ os.acl \subseteq AclEntry
  BY DEF Steady, Typed, TypeOK, Host
<1>1. Ready("teardown", g) /\ Done("teardown", g) /\ Pending("teardown", g)
  BY GroupPhasesOver DEF TeardownGroup
<1>2. /\ groupReg[g] # None /\ os'.group = os.group /\ os'.user = os.user
      /\ os'.sudoG = [os.sudoG EXCEPT ![g] = {}]
      /\ os'.mem = [os.mem EXCEPT ![g] = os.mem[g] \ groupReg[g].members]
      /\ os'.acl = IF drop = {} THEN os.acl ELSE os.acl \ Acl("g", gid, drop)
      /\ drop # {} => os.group[g] # None
  BY <1>0, AfterTeardown, AfterGroupStep, MembersAfterGroupStep
  DEF TeardownGroup, CanTeardown
<1>3. \A k \in Groups : GroupStepsFit(k)
  BY <1>0, <1>1 DEF Ready, GidInv
<1>4. \A k \in Groups : GrantRec'[k] = IF k = g THEN None ELSE GrantRec[k]
  BY <1>1, <1>3, GrantRecByDone DEF GroupStepsFit
<1>5. \A b \in Users : LoginRec'[b] = LoginRec[b]
  BY <1>0, <1>1, RecsByDone
<1>6. \A b \in RoleNames : b \in os'.mem[g] <=> b \in os.mem[g]
  BY <1>0, <1>2 DEF RecordsApart, Host
<1> HIDE DEF drop, gid
<1>7. \A x \in Groups : x # g /\ os.group[x] # None =>
         GroupPathsOf(os', os.group[x].gid) = GroupPathsOf(os, os.group[x].gid)
  <2>1. CASE drop = {}
    BY <1>2, <2>1 DEF GroupPathsOf
  <2>2. CASE drop # {}
    <3>1. Acl("g", gid, {}) = {}
      BY DEF Acl
    <3>2. os'.acl = (os.acl \cup Acl("g", gid, {})) \ Acl("g", gid, drop)
      BY <1>2, <2>2, <3>1
    <3>3. \A id : id # gid => GroupPathsOf(os', id) = GroupPathsOf(os, id)
      BY <1>0, <3>2, PathsByChange
    <3> QED
      BY <1>0, <1>2, <2>2, <3>3 DEF GidInv, GidsDiffer, gid
  <2> QED
    BY <2>1, <2>2
<1>8. GroupHolds(os', g, GrantRec'[g])
  BY <1>4 DEF GroupHolds
<1>9. \A x \in Groups : x # g => /\ os'.mem[x] = os.mem[x] /\ os'.sudoG[x] = os.sudoG[x]
                                 /\ GrantRec'[x] = GrantRec[x]
  BY <1>0, <1>2, <1>4 DEF Host
<1>10. os'.group[g] = None => os'.mem[g] = {}
  BY <1>0, <1>2 DEF Kept, MembersLive, Host
<1> HIDE DEF LoginRec, GrantRec
<1>11. GroupChanged(os, os', LoginRec, LoginRec', GrantRec, GrantRec', g)
  BY <1>2, <1>5, <1>6, <1>7, <1>8, <1>9, <1>10 DEF GroupChanged
<1> QED
  BY <1>0, <1>11, KeptByGroup

\* A group is deleted when no record of an account, new or put off, has it.
LEMMA KeptByDeleteGroup ==
    ASSUME Steady, Typed', RolesApart, HostGidsDiffer, NEW g \in Groups, DeleteGroup(g)
    PROVE  Kept(os', LoginRec', GrantRec')
<1>0. /\ Typed /\ PlanFits /\ GidInv /\ Kept(os, LoginRec, GrantRec)
      /\ os \in Host /\ os' \in Host /\ decl # None
  BY DEF Steady, Typed, TypeOK, DeleteGroup, Ready
<1>1. /\ Ready("delete_group", g) /\ Done("delete_group", g) /\ Pending("delete_group", g)
      /\ ~Pending("grant", g) /\ ~Pending("teardown", g)
  BY GroupPhasesOver DEF DeleteGroup
<1>2. /\ os'.group = [os.group EXCEPT ![g] = None]
      /\ os'.mem = [os.mem EXCEPT ![g] = {}]
      /\ os'.sudoG = os.sudoG /\ os'.acl = os.acl /\ os'.user = os.user
  BY <1>0, AfterDeleteGroup, AfterGroupStep, MembersAfterGroupStep
<1>3. \A k \in Groups : GroupStepsFit(k)
  BY <1>0, <1>1 DEF Ready, GidInv
<1>4. \A k \in Groups : GrantRec'[k] = GrantRec[k]
  BY <1>1, <1>3, GrantRecByDone
<1>5. \A b \in Users : LoginRec'[b] = LoginRec[b]
  BY <1>0, <1>1, RecsByDone
<1>6. g \notin RequiredGroups(decl) /\ g \notin DeferredGroups(deferred, acctReg)
  BY <1>1, <1>3 DEF GroupStepsFit, Doomed, OrphanGroups
<1>7. /\ DOMAIN decl.groups = Groups /\ DOMAIN decl.accounts = Users
      /\ decl.groups[g] = None
  BY <1>0, <1>6, DeclType DEF RequiredGroups, Present
<1>8. GrantRec[g] = None
  BY <1>1, <1>7 DEF GrantRec
<1>9. ASSUME NEW b \in Users, LoginRec'[b] # None PROVE g \notin LoginRec'[b].groups
  <2>1. ~LoginDue(b)
    <3>1. \A s \in todo : Phase(s.op) >= Phase("delete_group")
      BY <1>1 DEF Ready
    <3>2. \A o : Pending(o, b) => Phase(o) >= 8
      BY <3>1 DEF Pending, Phase
    <3>3. Phase("create") = 2 /\ Phase("update") = 2 /\ Phase("delete") = 3
      BY DEF Phase
    <3> QED
      BY <3>2, <3>3 DEF LoginDue
  <2>2. LoginRec'[b] = IF b \in deferred THEN acctReg[b] ELSE decl.accounts[b]
    BY <1>5, <2>1, RecAt
  <2> QED
    BY <1>6, <1>7, <1>9, <2>2 DEF RequiredGroups, DeferredGroups, Present
<1>10. \A x \in Groups : x # g => os'.group[x] = os.group[x] /\ os'.mem[x] = os.mem[x]
  BY <1>0, <1>2 DEF Host
<1>11. os'.mem[g] = {}
  BY <1>0, <1>2 DEF Host
<1>12. \A id : GroupPathsOf(os', id) = GroupPathsOf(os, id)
  BY <1>2 DEF GroupPathsOf
<1>13. GroupHolds(os', g, GrantRec'[g])
  BY <1>4, <1>8 DEF GroupHolds
<1>14. \A b \in RoleNames : LoginRec'[b] = None \/ g \notin LoginRec'[b].groups
  BY <1>9 DEF RoleNames
<1> HIDE DEF LoginRec, GrantRec
<1>15. GroupChanged(os, os', LoginRec, LoginRec', GrantRec, GrantRec', g)
  BY <1>2, <1>4, <1>5, <1>10, <1>11, <1>12, <1>13, <1>14 DEF GroupChanged
<1> QED
  BY <1>0, <1>15, KeptByGroup

-----------------------------------------------------------------------------
(* KeptInv is kept.                                                        *)

\* A new run starts with every account and every group at its old record.
LEMMA KeptByBegin ==
    ASSUME Typed, UidInv, KeptInv, NEW d \in Declarations, NEW m, NEW r, Begin(d, m, r)
    PROVE  KeptInv'
<1> DEFINE late == DeferredAccounts(d, acctReg, IF readable THEN sessions ELSE {})
           work == WorkList(d, acctReg, groupReg, LiveGids, late)
<1>0. /\ d \in Declaration /\ DOMAIN d.groups = Groups /\ DOMAIN groupReg = Groups
      /\ acctReg \in [Users -> Maybe(Account)]
  BY ApplyAssumption DEF Typed, TypeOK, Declaration
<1>1. /\ decl' = d /\ todo' = work /\ deferred' = late
      /\ UNCHANGED <<os, acctReg, groupReg, snap, torn>> /\ pc = "idle" /\ snap = None
      /\ pc' \in {"snapshot", "write", "persist"}
  BY DEF Begin, host, UidInv
<1>2. SUFFICES ASSUME ~torn PROVE KeptInv'
  BY <1>1 DEF KeptInv
<1>3. Kept(os, acctReg, groupReg)
  BY <1>1, <1>2 DEF KeptInv
<1>4. ASSUME NEW a \in Users PROVE LoginRec'[a] = acctReg[a]
  <2>1. /\ [op |-> "create", name |-> a] \in work <=>
              d.accounts[a] # None /\ acctReg[a] = None
        /\ [op |-> "update", name |-> a] \in work <=>
              d.accounts[a] # None /\ acctReg[a] # None /\ d.accounts[a] # acctReg[a]
        /\ [op |-> "delete", name |-> a] \in work <=>
              d.accounts[a] = None /\ acctReg[a] # None /\ a \notin late
    BY <1>0, WorkExact
  <2> HIDE DEF late, work
  <2>2. LoginRec'[a] = IF LoginDue(a)' THEN acctReg[a]
                       ELSE IF a \in late THEN acctReg[a] ELSE d.accounts[a]
    BY <1>1 DEF LoginRec, NewReg, BuildManagedSet
  <2> QED
    BY <1>1, <2>1, <2>2 DEF LoginDue, Pending
<1>5. ASSUME NEW g \in Groups, GrantRec'[g] # None
      PROVE  /\ groupReg[g] # None /\ GrantRec'[g].sudo = groupReg[g].sudo
             /\ GrantRec'[g].files = groupReg[g].files
             /\ GrantRec'[g].members = groupReg[g].members
  <2>1. /\ [op |-> "grant", name |-> g] \in work <=> g \in GrantedGroups(d, groupReg)
        /\ [op |-> "teardown", name |-> g] \in work <=> g \in DroppedGroups(d, groupReg)
    BY GroupWork
  <2> HIDE DEF late, work
  <2>2. GrantRec'[g] = IF Pending("grant", g)' \/ Pending("teardown", g)'
                       THEN groupReg[g] ELSE d.groups[g]
    BY <1>1 DEF GrantRec
  <2>3. Pending("grant", g)' \/ Pending("teardown", g)' \/ d.groups[g] = None
           \/ (groupReg[g] # None /\ SameGrants(d.groups[g], groupReg[g]))
    BY <1>0, <1>1, <2>1 DEF Pending, GrantedGroups, DroppedGroups, Present
  <2> QED
    BY <1>5, <2>2, <2>3 DEF SameGrants
<1> HIDE DEF late, work, LoginRec, GrantRec
<1>6. Kept(os, LoginRec, GrantRec)'
  <2>1. Kept(os', LoginRec', GrantRec')
    BY <1>1, <1>3, <1>4, <1>5, KeptBySame
  <2> QED
    BY <2>1 DEF Kept
<1>7. Kept(os, acctReg, groupReg)'
  BY <1>1, <1>3 DEF Kept
<1> QED
  BY <1>1, <1>6, <1>7 DEF KeptInv

\* The registry that is written says what the host has come to hold.  A group
\* kept for the sake of a role has a record that says nothing.
LEMMA KeptByWrite ==
    ASSUME Typed, RolesApart, RecordsApart, UidInv, GrantInv, KeptInv, WriteRegistry
    PROVE  KeptInv'
<1>1. /\ pc = "write" /\ pc' = "persist" /\ todo = {} /\ decl # None
      /\ UNCHANGED <<os, torn>>
      /\ acctReg' = BuildManagedSet(decl, acctReg, deferred)
      /\ groupReg' = BuildManagedGroups(decl, acctReg, groupReg, LiveGids, deferred,
                                        made, baselines)
  BY DEF WriteRegistry, Typed, TypeOK, WorkOK
<1>2. SUFFICES ASSUME ~torn PROVE Kept(os, acctReg', groupReg')
  BY <1>1 DEF KeptInv, Kept
<1>3. Kept(os, LoginRec, GrantRec) /\ GroupsInProgress /\ \A op, n : ~Pending(op, n)
  BY <1>1, <1>2 DEF KeptInv, GrantInv, Pending
<1>4. \A a \in Users : acctReg'[a] = LoginRec[a]
  BY <1>1, <1>3 DEF LoginRec, NewReg, LoginDue
<1>5. \A g \in Groups : GrantRec[g] = decl.groups[g]
  BY <1>3 DEF GrantRec
<1>6. ASSUME NEW g \in Groups PROVE GroupHolds(os, g, groupReg'[g])
  <2>1. CASE decl.groups[g] # None
    <3>1. SameGrants(decl.groups[g], groupReg'[g])
      BY <1>1, <2>1, GroupRecorded
    <3>2. GroupHolds(os, g, decl.groups[g])
      BY <1>3, <1>5 DEF Kept
    <3> QED
      BY <2>1, <3>1, <3>2 DEF SameGrants, GroupHolds
  <2>2. CASE decl.groups[g] = None
    <3>1. SUFFICES ASSUME groupReg'[g] # None
                   PROVE  /\ groupReg'[g].members = {} /\ groupReg'[g].files = {}
                          /\ groupReg'[g].sudo = {}
      <4>1. os.sudoG[g] = {}
        BY <1>3, <1>5, <2>2 DEF GroupsInProgress, GrantsAgree, SudoAgrees
      <4> QED
        BY <3>1, <4>1 DEF GroupHolds
    <3>2. \/ /\ groupReg'[g] = groupReg[g] /\ groupReg[g] # None
             /\ g \in RequiredGroups(decl) \cup DeferredGroups(deferred, acctReg)
          \/ /\ groupReg'[g].members = {} /\ groupReg'[g].sudo = {}
             /\ groupReg'[g].files = {}
      BY <1>1, <2>2, <3>1, GroupRecorded
    <3>3. ASSUME g \in RequiredGroups(decl) \cup DeferredGroups(deferred, acctReg)
          PROVE  g \in RoleGroups
      <4>1. CASE g \in RequiredGroups(decl)
        <5>1. DOMAIN decl.groups = Groups /\ DOMAIN decl.accounts = Users
          BY <1>1, DeclType
        <5>2. PICK a \in Users : decl.accounts[a] # None /\ g \in decl.accounts[a].groups
          BY <2>2, <4>1, <5>1 DEF RequiredGroups, Present
        <5> QED
          BY <1>1, <5>2, DeclApart
      <4>2. CASE g \in DeferredGroups(deferred, acctReg)
        <5>1. PICK a \in deferred : g \in acctReg[a].groups
          BY <4>2 DEF DeferredGroups
        <5>2. a \in Users /\ acctReg[a] # None
          BY <1>1, <5>1 DEF Typed, TypeOK, UidInv, PlanFits, StepsFit, Recorded
        <5> QED
          BY <5>1, <5>2 DEF RecordsApart
      <4> QED
        BY <3>3, <4>1, <4>2
    <3> QED
      BY <3>2, <3>3 DEF RecordsApart
  <2> QED
    BY <2>1, <2>2
<1>7. \A a \in RoleNames : RoleAgrees(os, a, acctReg'[a])
  BY <1>3, <1>4 DEF Kept, RoleNames
<1> QED
  BY <1>3, <1>6, <1>7 DEF Kept

\* The end of the process.
LEMMA KeptByExit ==
    ASSUME Exit, UNCHANGED <<acctReg, groupReg>>, NEW h,
           ~torn' => Kept(h, acctReg, groupReg),
           os'.user = h.user, os'.group = h.group, os'.mem = h.mem,
           os'.sudoG = h.sudoG, os'.acl = h.acl
    PROVE  KeptInv'
<1>1. SUFFICES ASSUME ~torn' PROVE Kept(os', acctReg', groupReg')
  BY DEF KeptInv, Exit, Kept
<1>2. GroupAcl(os') = GroupAcl(h)
  BY DEF GroupAcl
<1> QED
  BY <1>1, <1>2, KeptBySame

\* What the invariant says of a state depends on these variables only.
LEMMA SameKept ==
    ASSUME UNCHANGED <<acctReg, groupReg>>
    PROVE  /\ UNCHANGED snap => (Kept(snap, acctReg, groupReg)' <=> Kept(snap, acctReg, groupReg))
           /\ UNCHANGED os => (Kept(os, acctReg, groupReg)' <=> Kept(os, acctReg, groupReg))
           /\ UNCHANGED <<os, decl, deferred, todo>> =>
                 (Kept(os, LoginRec, GrantRec)' <=> Kept(os, LoginRec, GrantRec))
<1>1. UNCHANGED snap => (Kept(snap, acctReg, groupReg)' <=> Kept(snap, acctReg, groupReg))
  BY DEF Kept
<1>2. UNCHANGED os => (Kept(os, acctReg, groupReg)' <=> Kept(os, acctReg, groupReg))
  BY DEF Kept
<1>3. ASSUME UNCHANGED <<os, decl, deferred, todo>>
      PROVE  Kept(os, LoginRec, GrantRec)' <=> Kept(os, LoginRec, GrantRec)
  <2>1. LoginRec' = LoginRec /\ GrantRec' = GrantRec
    BY <1>3 DEF LoginRec, GrantRec, LoginDue, NewReg, Pending
  <2> QED
    BY <1>3, <2>1 DEF Kept
<1> QED
  BY <1>1, <1>2, <1>3

LEMMA KeptByProgress ==
    ASSUME KeptApart, AllKnown, Typed', DoctorInv, Progress PROVE KeptInv'
<1>0. /\ Typed /\ Covered /\ UidInv /\ GidInv /\ GrantInv /\ AgreeInv
      /\ RecordsApart /\ GrantsFollow /\ KeptInv /\ RolesApart /\ HostGidsDiffer
  BY DEF AllKnown, GroupsInv, Known, AccountsInv, DoctorInv, KeptApart
<1>1. CASE Snapshot
  <2>1. /\ UNCHANGED <<os, acctReg, groupReg, decl, deferred, todo, torn>>
        /\ pc = "snapshot" /\ pc' = "run" /\ snap' = os
    BY <1>1 DEF Snapshot, host, run, history
  <2>2. ~torn => Kept(os, acctReg, groupReg) /\ Kept(os, LoginRec, GrantRec)
    BY <1>0, <2>1 DEF KeptInv
  <2>3. ~torn => Kept(snap, acctReg, groupReg)'
    BY <2>1, <2>2 DEF Kept
  <2> QED
    BY <2>1, <2>2, <2>3, SameKept DEF KeptInv
<1>2. ASSUME NEW op, NEW n, Ready(op, n), Done(op, n),
             Steady => Kept(os', LoginRec', GrantRec')
      PROVE  KeptInv'
  <2>1. /\ UNCHANGED <<acctReg, groupReg, pc, snap, torn>> /\ pc = "run"
    BY <1>2 DEF Done, Ready, history
  <2>2. SUFFICES ASSUME ~torn
                 PROVE  Kept(snap, acctReg, groupReg)' /\ Kept(os, LoginRec, GrantRec)'
    BY <2>1 DEF KeptInv
  <2>3. snap # None
    BY <1>0, <2>1 DEF Typed, TypeOK
  <2>4. Steady /\ Kept(snap, acctReg, groupReg)
    BY <1>0, <2>1, <2>2, <2>3 DEF Steady, UidInv, AgreeInv, GrantInv, KeptInv
  <2> QED
    BY <1>2, <2>1, <2>4, SameKept DEF Kept
<1>3. ASSUME NEW a \in Users,
             \/ CreateAccount(a) \/ UpdateAccount(a) \/ DeleteAccount(a)
             \/ AccountFiles(a) \/ RevokeDeleted(a)
      PROVE  KeptInv'
  <2>1. \E op : Ready(op, a) /\ Done(op, a)
    BY <1>3 DEF CreateAccount, UpdateAccount, DeleteAccount, AccountFiles, RevokeDeleted
  <2>2. Steady => Kept(os', LoginRec', GrantRec')
    BY <1>0, <1>3, KeptByAccountStep
  <2> QED
    BY <1>2, <2>1, <2>2
<1>4. ASSUME NEW g \in Groups,
             CreateGroup(g) \/ GrantGroup(g) \/ TeardownGroup(g) \/ DeleteGroup(g)
      PROVE  KeptInv'
  <2>1. \E op : Ready(op, g) /\ Done(op, g)
    BY <1>4 DEF CreateGroup, GrantGroup, TeardownGroup, DeleteGroup
  <2>2. Steady => Kept(os', LoginRec', GrantRec')
    BY <1>0, <1>4, KeptByCreateGroup, KeptByGrant, KeptByTeardown, KeptByDeleteGroup
  <2> QED
    BY <1>2, <2>1, <2>2
<1>5. CASE PhasesDone
  <2>1. /\ UNCHANGED <<os, acctReg, groupReg, decl, deferred, todo, snap, torn>>
        /\ pc = "run" /\ pc' = "write" /\ snap # None
    BY <1>0, <1>5 DEF PhasesDone, host, run, history, Typed, TypeOK
  <2> QED
    BY <1>0, <2>1, SameKept DEF KeptInv
<1>6. CASE WriteRegistry
  BY <1>0, <1>6, KeptByWrite
<1>7. CASE PersistVersion
  <2>1. pc = "persist" /\ Exit /\ UNCHANGED <<os, acctReg, groupReg, torn>>
    BY <1>7 DEF PersistVersion, history
  <2>2. ~torn' => Kept(os, acctReg, groupReg)
    BY <1>0, <2>1 DEF KeptInv
  <2> QED
    BY <2>1, <2>2, KeptByExit
<1>8. CASE Rollback
  <2>1. /\ pc = "rollback" /\ Exit /\ UNCHANGED <<acctReg, groupReg, torn>>
        /\ snap \in Host /\ snap # None
    BY <1>0, <1>8 DEF Rollback, history, Typed, TypeOK, Maybe
  <2>2. os' = [snap EXCEPT !.home = os'.home]
    BY <1>0, <1>8, RestoreIsExact
  <2>3. /\ os'.user = snap.user /\ os'.group = snap.group /\ os'.mem = snap.mem
        /\ os'.sudoG = snap.sudoG /\ os'.acl = snap.acl
    BY <2>1, <2>2 DEF Host
  <2>4. ~torn' => Kept(snap, acctReg, groupReg)
    BY <1>0, <2>1 DEF KeptInv
  <2> QED
    BY <2>1, <2>3, <2>4, KeptByExit
<1> QED
  BY <1>1, <1>3, <1>4, <1>5, <1>6, <1>7, <1>8 DEF Progress

LEMMA KeptByFailure == ASSUME Typed, KeptInv, Failure PROVE KeptInv'
<1>1. ASSUME NEW s \in todo, StepFails(s.op, s.name) PROVE KeptInv'
  <2>1. /\ UNCHANGED <<acctReg, groupReg, snap, torn>>
        /\ pc = "run" /\ pc' = "rollback"
    BY <1>1 DEF StepFails, Ready, history
  <2> QED
    BY <2>1, SameKept DEF KeptInv
<1>2. CASE RollbackLeavesFragment \/ RollbackFails
  BY <1>2 DEF RollbackLeavesFragment, RollbackFails, KeptInv
<1>3. CASE SnapshotFails \/ WriteRegistryFails \/ PersistVersionFails \/ Crash
  <2>1. /\ Exit /\ UNCHANGED <<os, acctReg, groupReg>>
    BY <1>3 DEF SnapshotFails, WriteRegistryFails, PersistVersionFails, Crash, host
  <2>2. ~torn' => /\ ~torn
                  /\ \/ pc \in {"idle", "snapshot", "persist"}
                     \/ pc = "write" /\ snap = None
    BY <1>3 DEF SnapshotFails, WriteRegistryFails, PersistVersionFails, Crash,
                history, Typed, TypeOK, PcValues
  <2>3. ~torn' => Kept(os, acctReg, groupReg)
    BY <2>2 DEF KeptInv
  <2> QED
    BY <2>1, <2>3, KeptByExit
<1> QED
  BY <1>1, <1>2, <1>3 DEF Failure

-----------------------------------------------------------------------------
(* Together.                                                               *)

LEMMA InitDoctor == ASSUME KeptApart, Init PROVE DoctorInv
<1>1. /\ pc = "idle" /\ acctReg = [a \in Users |-> None]
      /\ groupReg = [g \in Groups |-> None] /\ os.mem = HostMembers
      /\ os.user = HostUsers /\ os.group = HostGroups
  BY DEF Init
<1>2. HostMembers \in [Groups -> SUBSET Users] /\ HostMembersFit
  BY ApplyAssumption DEF KeptApart
<1>3. MembersLive(os)
  BY <1>1, <1>2 DEF MembersLive, HostMembersFit
<1>4. \A a \in RoleNames : RoleAgrees(os, a, acctReg[a])
  BY <1>1, <1>2 DEF RoleAgrees, RoleNames, GroupsOf, HostMembersFit
<1>5. Kept(os, acctReg, groupReg)
  BY <1>1, <1>3, <1>4 DEF Kept, GroupHolds
<1> QED
  BY <1>1, <1>5 DEF DoctorInv, RecordsApart, GrantsFollow, KeptInv

LEMMA NextDoctor ==
    ASSUME KeptApart, AllKnown, AllKnown', DoctorInv, [Next]_vars PROVE DoctorInv'
<1>0. /\ Typed /\ Typed' /\ UidInv /\ RolesApart
      /\ RecordsApart /\ GrantsFollow /\ KeptInv
  BY DEF AllKnown, Known, AccountsInv, DoctorInv, KeptApart
<1>1. RecordsApart' /\ GrantsFollow'
  BY <1>0, NextApart, NextFollow
<1>2. CASE Start
  BY <1>0, <1>1, <1>2, KeptByBegin DEF Start, DoctorInv
<1>3. CASE Progress
  BY <1>0, <1>1, <1>3, KeptByProgress DEF DoctorInv
<1>4. CASE Failure
  BY <1>0, <1>1, <1>4, KeptByFailure DEF DoctorInv
<1>5. CASE Sessions \/ UNCHANGED vars
  <2>1. UNCHANGED <<os, acctReg, groupReg, decl, deferred, todo, snap, pc, torn>>
    BY <1>5 DEF Sessions, OpenSession, CloseSession, SpoilSessions, vars, host,
                run, history
  <2> QED
    BY <1>0, <1>1, <2>1, SameKept DEF KeptInv, DoctorInv
<1> QED
  BY <1>2, <1>3, <1>4, <1>5 DEF Next

\* On a host whose group database is consistent, and with role accounts and
\* [[group]] entries that keep out of each other's way, doctor finds no error,
\* no missing grant and no drifted group, and status says in sync, after every
\* sequence of runs that ended well: what the phases do and the builders record
\* is what run_doctor and render_status expect.
THEOREM DoctorDoesAgree == KeptApart => (Spec => []DoctorAgrees)
<1> SUFFICES ASSUME KeptApart PROVE Spec => []DoctorAgrees
  OBVIOUS
<1>1. AllKnown /\ DoctorInv => DoctorAgrees
  <2> SUFFICES ASSUME AllKnown, DoctorInv, Settled, pc = "idle" PROVE DoctorAgrees
    BY DEF DoctorAgrees
  <2>1. /\ Typed /\ AgreesWith(os, acctReg) /\ RecordsLive(os) /\ InSync(os)
        /\ Kept(os, acctReg, groupReg) /\ RecordsApart
        /\ DOMAIN acctReg = Users /\ DOMAIN groupReg = Groups
        /\ DOMAIN os.user = Users /\ DOMAIN os.group = Groups
    BY DEF AllKnown, Known, AccountsInv, AgreeInv, GroupsInv, GrantInv, GroupsSettled,
           Settled, DoctorInv, KeptInv, Typed, TypeOK, Host
  <2>2. \A a \in Users : acctReg[a] # None =>
           /\ os.user[a] # None /\ os.user[a].uid = acctReg[a].uid
           /\ os.user[a].login = acctReg[a].login /\ os.user[a].census
    <3>1. SUFFICES ASSUME NEW a \in Users, acctReg[a] # None
                   PROVE  /\ os.user[a] # None /\ os.user[a].uid = acctReg[a].uid
                          /\ os.user[a].login = acctReg[a].login /\ os.user[a].census
      OBVIOUS
    <3>2. os.user[a] = [uid |-> acctReg[a].uid, login |-> acctReg[a].login, census |-> TRUE]
      BY <2>1, <3>1 DEF AgreesWith, LoginAgrees
    <3>3. acctReg[a] \in Account
      BY <2>1, <3>1, RegType
    <3>4. os.user[a] \in UserEntry
      BY <3>2, <3>3 DEF UserEntry, Account
    <3>5. os.user[a] # None
      BY <3>4, ApplyAssumption
    <3> QED
      BY <3>2, <3>5
  <2>3. \A a \in Users : acctReg[a] = None /\ os.user[a] # None => ~os.user[a].census
    BY <2>1 DEF AgreesWith, LoginAgrees
  <2>4. \A a \in Users : acctReg[a] # None => GroupsFor(a) = acctReg[a].groups
    <3>1. \A a \in Users : acctReg[a] # None => GroupsOf(os, a) = acctReg[a].groups
      BY <2>1 DEF Kept, RoleAgrees, RecordsApart
    <3>2. \A a : GroupsFor(a) = GroupsOf(os, a)
      BY <2>1 DEF GroupsFor, GroupsOf, Present, Kept, MembersLive
    <3> QED
      BY <3>1, <3>2
  <2>5. RegistryIntegrity = {}
    BY <2>1, <2>2, <2>3, <2>4 DEF RegistryIntegrity, Errors, CensusMarkedAccounts, Present
  <2>6. \A g \in Groups : groupReg[g] # None =>
           /\ os.group[g] # None /\ os.group[g].gid = groupReg[g].gid
           /\ os.sudoG[g] = groupReg[g].sudo /\ groupReg[g].members \subseteq os.mem[g]
           /\ groupReg[g].files \subseteq GroupPaths(os.group[g].gid)
    BY <2>1 DEF RecordsLive, HasGid, Kept, GroupHolds, GroupPathsOf, GroupPaths
  <2>7. GroupIntegrity = {}
    BY <2>1, <2>6 DEF GroupIntegrity, Errors, Present
  <2>8. AdoptedGroupDrift = {}
    BY <2>1, <2>6 DEF AdoptedGroupDrift, Warns, Present
  <2>9. FileAccessDrift = {}
    <3>1. ASSUME NEW a \in Users, acctReg[a] # None, NEW p \in acctReg[a].files
          PROVE  FileAccessPresent(a, p)
      <4>1. PathsOf(os, acctReg[a].uid) = acctReg[a].files
        BY <2>1, <3>1 DEF AgreesWith, AclAgrees
      <4>2. UserPaths(acctReg[a].uid) = PathsOf(os, acctReg[a].uid)
        BY DEF UserPaths, PathsOf
      <4> QED
        BY <2>2, <3>1, <4>1, <4>2 DEF FileAccessPresent
    <3>2. ASSUME NEW g \in Groups, groupReg[g] # None, NEW p \in groupReg[g].files
          PROVE  GroupFileAccessPresent(g, p)
      BY <2>6, <3>2 DEF GroupFileAccessPresent
    <3> QED
      BY <2>1, <3>1, <3>2 DEF FileAccessDrift, Warns, Present
  <2>10. Unreachability(Untouched, {}) = {}
    BY <2>1, <2>2 DEF Unreachability, Untouched, Errors, CensusMarkedAccounts, Present
  <2>11. DoctorExitCode(RunDoctor(applied, Untouched, {}, {})) = "success"
    <3>1. \A c, S : \A f \in Warns(c, S) : f.severity = "Warn"
      BY DEF Warns, DoctorFinding
    <3>2. \A f \in RunDoctor(applied, Untouched, {}, {}) : f.severity = "Warn"
      BY <2>5, <2>7, <2>8, <2>9, <2>10, <3>1
      DEF RunDoctor, AntiLockout, Drift, FrameworkFindings
    <3> QED
      BY <3>2 DEF DoctorExitCode
  <2>12. applied # None => RunStatus(applied, TRUE).in_sync
    <3>1. applied # None => Drift(applied) = {}
      BY <2>1 DEF InSync, Drift, Warns
    <3> QED
      BY <3>1 DEF RunStatus
  <2> QED
    BY <2>8, <2>9, <2>11, <2>12 DEF DoctorAgrees
<1>2. Init => AllKnown /\ DoctorInv
  BY InitAllKnown, InitDoctor
<1>3. AllKnown /\ DoctorInv /\ [Next]_vars => AllKnown' /\ DoctorInv'
  BY NextAllKnown, NextDoctor
<1> QED
  BY <1>1, <1>2, <1>3, PTL DEF Spec

=============================================================================
