--------------------------- MODULE AccountsProofs ---------------------------
(***************************************************************************)
(* Between runs the registry tells the truth about every role account, a   *)
(* run never touches an account it deferred, and the anti-lockout gate     *)
(* leaves an account that can be logged in to.                             *)
(*                                                                         *)
(* None of the three is inductive.  What carries them through a run is     *)
(* which record the host agrees with while steps are left: the old one for *)
(* an account whose step is still to come, the new one once it is done,    *)
(* for login and sudo on the one hand and for the ACLs on the other; and   *)
(* that no two accounts ever share a uid, so that a step for one account   *)
(* cannot reach the ACL entries of another.                                *)
(***************************************************************************)
EXTENDS ApplyProofs

\* A step is left to do.
Pending(op, n) == [op |-> op, name |-> n] \in todo

Declared(a) == decl.accounts[a] # None
Recorded(a) == acctReg[a] # None

\* An account the run removes.
Leaving(a) == Recorded(a) /\ ~Declared(a) /\ a \notin deferred

-----------------------------------------------------------------------------
(* The plan and what is left of it.                                        *)

\* The steps left for an account fit the two registries, and the phases run in
\* their order: nothing is deleted while something is to be created, and ACLs
\* come after accounts.
StepsFit(a) ==
    /\ a \in deferred => Recorded(a) /\ ~Declared(a)
    /\ Pending("create", a) => Declared(a) /\ ~Recorded(a)
    /\ Pending("update", a) => Declared(a) /\ Recorded(a)
    /\ Pending("file_access", a) => Declared(a)
    /\ Pending("delete", a) \/ Pending("revoke_deleted", a) => Leaving(a)
    /\ Pending("create", a) \/ Pending("update", a) => Pending("file_access", a)
    /\ Leaving(a) /\ (pc = "snapshot" \/ \E b \in Users : Pending("create", b))
          => Pending("delete", a)
    /\ Declared(a) /\ Recorded(a) /\ ~Pending("update", a)
          => decl.accounts[a].uid = acctReg[a].uid

PlanFits ==
    /\ \A a \in Users : StepsFit(a)
    /\ \A a \in deferred, g \in Groups :
          Pending("delete_group", g) => g \notin acctReg[a].groups
    /\ LockoutGate(decl, acctReg, deferred, risk)

-----------------------------------------------------------------------------
(* Uids.                                                                   *)

\* An account of Census has its uid for itself, and the recorded one.
OwnUids(u) ==
    \A a, b \in Users : a # b /\ u[a] # None /\ u[b] # None /\ u[a].census
                           => u[a].uid # u[b].uid
RecordedUids(u) ==
    \A a \in Users : Recorded(a) /\ u[a] # None => u[a].uid = acctReg[a].uid

UidsFit(u) == OwnUids(u) /\ RecordedUids(u)

UidInv ==
    /\ pc \in {"idle", "snapshot"} => snap = None
    /\ UidsFit(os.user)
    /\ snap # None /\ pc \in {"run", "rollback", "write"} => UidsFit(snap.user)
    /\ pc \in {"snapshot", "run", "write"} =>
          /\ PlanFits
          /\ \A a \in Users : Declared(a) /\ ~Recorded(a) /\ ~Pending("create", a)
                => os.user[a] # None /\ os.user[a].uid = decl.accounts[a].uid

-----------------------------------------------------------------------------
(* Deferral.                                                               *)

\* An account still to be deleted is as the snapshot has it, and one that was
\* deleted was there.
DeferInv ==
    pc \in {"run", "write"} /\ snap # None =>
        /\ \A a \in Users : Pending("delete", a) => os.user[a] = snap.user[a]
        /\ \A a \in Users : Leaving(a) /\ ~Pending("delete", a) => snap.user[a] # None
        /\ DeferredKept

-----------------------------------------------------------------------------
(* Agreement of a host with a registry.                                    *)

PathsOf(h, uid) == {e.path : e \in {x \in h.acl : x.kind = "u" /\ x.id = uid}}

LoginAgrees(h, a, r) ==
    IF r # None
    THEN /\ h.user[a] = [uid |-> r.uid, login |-> r.login, census |-> TRUE]
         /\ h.sudoU[a] = r.sudo
    ELSE /\ h.user[a] # None => ~h.user[a].census
         /\ h.sudoU[a] = {}

\* Each account holds the entries recorded for it, and nobody else holds any.
AclAgrees(h, R) ==
    /\ \A a \in Users : R[a] # None => PathsOf(h, R[a].uid) = R[a].files
    /\ \A e \in h.acl : e.kind = "u" => \E a \in Users : R[a] # None /\ R[a].uid = e.id

AgreesWith(h, R) == (\A a \in Users : LoginAgrees(h, a, R[a])) /\ AclAgrees(h, R)

\* What a step is left to do for an account: on the account and its fragment,
\* or on its ACL entries.
LoginDue(a) == Pending("create", a) \/ Pending("update", a) \/ Pending("delete", a)
FilesDue(a) == Pending("file_access", a) \/ Pending("revoke_deleted", a)

\* The registry the run will write, and the records the host agrees with until
\* then.
NewReg == BuildManagedSet(decl, acctReg, deferred)
LoginRec == [a \in Users |-> IF LoginDue(a) THEN acctReg[a] ELSE NewReg[a]]
FileRec == [a \in Users |-> IF FilesDue(a) THEN acctReg[a] ELSE NewReg[a]]

\* Whose uid it is, from the first moment of a run to its last.
Owner(a) ==
    IF Recorded(a) THEN acctReg[a]
    ELSE IF Declared(a) /\ ~Pending("create", a) THEN decl.accounts[a]
    ELSE None
OwnersDiffer ==
    \A a, b \in Users : a # b /\ Owner(a) # None /\ Owner(b) # None
                           => Owner(a).uid # Owner(b).uid

InProgress ==
    /\ \A a \in Users : LoginAgrees(os, a, LoginRec[a])
    /\ AclAgrees(os, FileRec)
    /\ OwnersDiffer

AgreeInv ==
    ~torn =>
        /\ pc \in {"idle", "snapshot", "persist"} \/ (pc = "write" /\ snap = None)
              => AgreesWith(os, acctReg)
        /\ pc \in {"run", "rollback", "write"} /\ snap # None => AgreesWith(snap, acctReg)
        /\ pc \in {"snapshot", "run", "write"} => InProgress

AccountsInv == UidInv /\ DeferInv /\ AgreeInv

-----------------------------------------------------------------------------
(* The steps of a run.                                                     *)

\* A step of the work list is there for one reason only.
LEMMA WorkPick ==
    ASSUME NEW op, NEW names, NEW o, NEW n
    PROVE  [op |-> o, name |-> n] \in Work(op, names) <=> o = op /\ n \in names
BY DEF Work

\* What a new run will do for an account, and which groups it will delete.
LEMMA WorkExact ==
    ASSUME NEW d \in Declaration, NEW late, NEW live, NEW a \in Users,
           acctReg \in [Users -> Maybe(Account)]
    PROVE  LET work == WorkList(d, acctReg, groupReg, live, late)
               on(op) == [op |-> op, name |-> a] \in work
               gone == d.accounts[a] = None /\ acctReg[a] # None /\ a \notin late
           IN  /\ on("create") <=> d.accounts[a] # None /\ acctReg[a] = None
               /\ on("update") <=> /\ d.accounts[a] # None /\ acctReg[a] # None
                                   /\ d.accounts[a] # acctReg[a]
               /\ on("delete") <=> gone
               /\ on("file_access") <=> d.accounts[a] # None /\ d.accounts[a] # acctReg[a]
               /\ on("revoke_deleted") <=> gone
               /\ \A g : [op |-> "delete_group", name |-> g] \in work =>
                            g \notin DeferredGroups(late, acctReg)
<1> DEFINE work == WorkList(d, acctReg, groupReg, live, late)
           born == CreatedAccounts(d, acctReg)
           upd == UpdatedAccounts(d, acctReg)
           gone == VanishedAccounts(d, acctReg) \ late
           del == OrphanGroups(d, groupReg) \ DeferredGroups(late, acctReg)
<1>1. \A s : s \in work <=>
         \/ s \in Work("create_group", MissingGroups(d, live))
         \/ s \in Work("create", born)
         \/ s \in Work("update", upd)
         \/ s \in Work("delete", gone)
         \/ s \in Work("file_access", born \cup upd)
         \/ s \in Work("revoke_deleted", gone)
         \/ s \in Work("grant", GrantedGroups(d, groupReg))
         \/ s \in Work("teardown", DroppedGroups(d, groupReg))
         \/ s \in Work("delete_group", del)
  BY DEF WorkList
<1>2. DOMAIN d.accounts = Users /\ DOMAIN acctReg = Users
  BY DEF Declaration
<1>3. /\ a \in born <=> d.accounts[a] # None /\ acctReg[a] = None
      /\ a \in upd <=> /\ d.accounts[a] # None /\ acctReg[a] # None
                       /\ d.accounts[a] # acctReg[a]
      /\ a \in gone <=> d.accounts[a] = None /\ acctReg[a] # None /\ a \notin late
  BY <1>2 DEF CreatedAccounts, UpdatedAccounts, VanishedAccounts, Present
<1>4. \A g \in del : g \notin DeferredGroups(late, acctReg)
  OBVIOUS
<1> HIDE DEF work, born, upd, gone, del
<1>5. /\ [op |-> "create", name |-> a] \in work <=> a \in born
      /\ [op |-> "update", name |-> a] \in work <=> a \in upd
      /\ [op |-> "delete", name |-> a] \in work <=> a \in gone
      /\ [op |-> "file_access", name |-> a] \in work <=> a \in born \cup upd
      /\ [op |-> "revoke_deleted", name |-> a] \in work <=> a \in gone
      /\ \A g : [op |-> "delete_group", name |-> g] \in work => g \in del
  BY <1>1, WorkPick
<1> QED
  BY <1>3, <1>4, <1>5 DEF work

\* Of the steps left, only the one that is done goes.
LEMMA PendingByDone ==
    ASSUME NEW op, NEW n, Done(op, n), NEW o, NEW b
    PROVE  Pending(o, b)' <=> Pending(o, b) /\ ~(o = op /\ b = n)
BY DEF Done, Pending

\* The phases before that of a step that is next are over.
LEMMA PhasesOver ==
    ASSUME NEW op, NEW n, Ready(op, n)
    PROVE  /\ Pending(op, n)
           /\ op \in {"delete", "file_access", "revoke_deleted"} =>
                 \A b : ~Pending("create", b) /\ ~Pending("update", b)
           /\ op \in {"file_access", "revoke_deleted"} => \A b : ~Pending("delete", b)
<1>1. ASSUME NEW o, NEW b, Pending(o, b) PROVE Phase(o) >= Phase(op)
  BY <1>1 DEF Ready, Pending
<1>2. Pending(op, n)
  BY DEF Ready, Pending
<1>3. ASSUME op \in {"delete", "file_access", "revoke_deleted"}
      PROVE  \A b : ~Pending("create", b) /\ ~Pending("update", b)
  BY <1>1, <1>3 DEF Phase
<1>4. ASSUME op \in {"file_access", "revoke_deleted"} PROVE \A b : ~Pending("delete", b)
  BY <1>1, <1>4 DEF Phase
<1> QED
  BY <1>2, <1>3, <1>4

\* A new run's plan fits.
LEMMA FitsByBegin ==
    ASSUME Typed, NEW d \in Declarations, NEW m, NEW r, Begin(d, m, r)
    PROVE  /\ PlanFits'
           /\ \A a \in Users : Declared(a)' /\ ~Recorded(a)' => Pending("create", a)'
<1> DEFINE late == DeferredAccounts(d, acctReg, IF readable THEN sessions ELSE {})
           work == WorkList(d, acctReg, groupReg, LiveGids, late)
<1>0. d \in Declaration /\ acctReg \in [Users -> Maybe(Account)]
  BY ApplyAssumption DEF Typed, TypeOK
<1>1. /\ decl' = d /\ todo' = work /\ deferred' = late /\ acctReg' = acctReg
      /\ risk' = r /\ LockoutGate(d, acctReg, late, r)
  BY DEF Begin, host
<1>2. \A a \in late : a \in Users /\ acctReg[a] # None /\ d.accounts[a] = None
  BY <1>0 DEF DeferredAccounts, VanishedAccounts, Present, Declaration
<1>3. \A a \in late : \A g \in acctReg[a].groups : g \in DeferredGroups(late, acctReg)
  BY DEF DeferredGroups
<1>4. ASSUME NEW a \in Users
      PROVE  /\ [op |-> "create", name |-> a] \in work <=>
                   d.accounts[a] # None /\ acctReg[a] = None
             /\ [op |-> "update", name |-> a] \in work <=>
                   d.accounts[a] # None /\ acctReg[a] # None /\ d.accounts[a] # acctReg[a]
             /\ [op |-> "delete", name |-> a] \in work <=>
                   d.accounts[a] = None /\ acctReg[a] # None /\ a \notin late
             /\ [op |-> "file_access", name |-> a] \in work <=>
                   d.accounts[a] # None /\ d.accounts[a] # acctReg[a]
             /\ [op |-> "revoke_deleted", name |-> a] \in work <=>
                   d.accounts[a] = None /\ acctReg[a] # None /\ a \notin late
             /\ \A g : [op |-> "delete_group", name |-> g] \in work =>
                          g \notin DeferredGroups(late, acctReg)
  BY <1>0, WorkExact
<1> HIDE DEF late, work
<1>5. ASSUME NEW a \in Users PROVE StepsFit(a)'
  BY <1>1, <1>2, <1>4 DEF StepsFit, Pending, Declared, Recorded, Leaving
<1>6. \A a \in deferred', g \in Groups :
         Pending("delete_group", g)' => g \notin acctReg'[a].groups
  BY <1>1, <1>2, <1>3, <1>4 DEF Pending
<1>7. LockoutGate(decl, acctReg, deferred, risk)'
  BY <1>1 DEF LockoutGate, TouchedAccounts, SurvivingLogins, CreatedAccounts,
              UpdatedAccounts, VanishedAccounts, Present
<1> QED
  BY <1>1, <1>4, <1>5, <1>6, <1>7 DEF PlanFits, Declared, Recorded, Pending

\* A step that is done leaves a plan that fits.
LEMMA FitsByDone ==
    ASSUME Typed, PlanFits, NEW op, NEW n, Ready(op, n), Done(op, n),
           op = "update" => decl.accounts[n].uid = acctReg[n].uid
    PROVE  PlanFits'
<1>1. /\ UNCHANGED <<acctReg, decl, deferred, risk, pc>> /\ pc = "run"
  BY DEF Done, Ready
<1>2. \A o, b : Pending(o, b)' <=> Pending(o, b) /\ ~(o = op /\ b = n)
  BY PendingByDone
<1>3. /\ op \in {"delete", "file_access", "revoke_deleted"} =>
            \A b : ~Pending("create", b) /\ ~Pending("update", b)
  BY PhasesOver
<1>4. \A b : /\ Declared(b)' <=> Declared(b)
             /\ Recorded(b)' <=> Recorded(b)
             /\ Leaving(b)' <=> Leaving(b)
  BY <1>1 DEF Declared, Recorded, Leaving
<1>5. ASSUME NEW a \in Users PROVE StepsFit(a)'
  <2>1. StepsFit(a)
    BY DEF PlanFits
  <2> QED
    BY <1>1, <1>2, <1>3, <1>4, <2>1 DEF StepsFit
<1>6. LockoutGate(decl, acctReg, deferred, risk)'
  BY <1>1 DEF PlanFits, LockoutGate, TouchedAccounts, SurvivingLogins,
              CreatedAccounts, UpdatedAccounts, VanishedAccounts, Present
<1> QED
  BY <1>1, <1>2, <1>5, <1>6 DEF PlanFits

-----------------------------------------------------------------------------
(* Uids.                                                                   *)

\* useradd refuses a uid that is taken.
LEMMA UidsByUserAdded ==
    ASSUME Typed, UidsFit(os.user), NEW a \in Users, CanCreate(a), ~Recorded(a)
    PROVE  /\ UidsFit(UserAdded(a).user)
           /\ UserAdded(a).user = [os.user EXCEPT ![a] =
                 [uid |-> decl.accounts[a].uid, login |-> decl.accounts[a].login,
                  census |-> TRUE]]
<1> DEFINE e == [uid |-> decl.accounts[a].uid, login |-> decl.accounts[a].login,
                 census |-> TRUE]
           u == UserAdded(a).user
<1>1. u = [os.user EXCEPT ![a] = e] /\ os.user \in [Users -> Maybe(UserEntry)]
  BY DEF UserAdded, Typed, TypeOK, Host
<1>2. u[a] = e /\ \A b \in Users : b # a => u[b] = os.user[b]
  BY <1>1
<1>3. \A b \in Users : os.user[b] # None => os.user[b].uid # e.uid
  BY <1>1 DEF CanCreate, TakenUids, Present
<1>4. OwnUids(u)
  BY <1>2, <1>3 DEF OwnUids, UidsFit
<1>5. RecordedUids(u)
  BY <1>2 DEF RecordedUids, UidsFit
<1> QED
  BY <1>1, <1>4, <1>5 DEF UidsFit

\* usermod -s keeps the uid.
LEMMA UidsByShellChanged ==
    ASSUME Typed, UidsFit(os.user), NEW a \in Users, decl.accounts[a] \in Account,
           decl.accounts[a].login # acctReg[a].login => os.user[a] # None
    PROVE  /\ UidsFit(ShellChanged(os, a).user)
           /\ \A b \in Users :
                 /\ ShellChanged(os, a).user[b] = None <=> os.user[b] = None
                 /\ os.user[b] # None => ShellChanged(os, a).user[b].uid = os.user[b].uid
                 /\ b # a => ShellChanged(os, a).user[b] = os.user[b]
           /\ os.user[a] # None /\ os.user[a].login = acctReg[a].login =>
                 ShellChanged(os, a).user[a] =
                    [os.user[a] EXCEPT !.login = decl.accounts[a].login]
<1> DEFINE u == ShellChanged(os, a).user
<1>0. os.user \in [Users -> Maybe(UserEntry)] /\ None \notin UserEntry
  BY ApplyAssumption DEF Typed, TypeOK, Host
<1>1. CASE decl.accounts[a].login = acctReg[a].login
  <2>1. u = os.user
    BY <1>1 DEF ShellChanged
  <2>2. os.user[a] # None => os.user[a] \in UserEntry
    BY <1>0 DEF Maybe
  <2>3. os.user[a] # None /\ os.user[a].login = acctReg[a].login =>
           os.user[a] = [os.user[a] EXCEPT !.login = decl.accounts[a].login]
    BY <1>1, <2>2 DEF UserEntry
  <2> QED
    BY <2>1, <2>3
<1>2. CASE decl.accounts[a].login # acctReg[a].login
  <2> DEFINE e == [os.user[a] EXCEPT !.login = decl.accounts[a].login]
  <2>1. os.user[a] \in UserEntry
    BY <1>0, <1>2 DEF Maybe
  <2>2. u = [os.user EXCEPT ![a] = e]
    BY <1>2 DEF ShellChanged, Typed, TypeOK, Host
  <2>3. e \in UserEntry /\ e.uid = os.user[a].uid /\ e.census = os.user[a].census
    BY <2>1 DEF UserEntry, Account
  <2>4. u[a] = e /\ \A b \in Users : b # a => u[b] = os.user[b]
    BY <1>0, <2>2
  <2> HIDE DEF u, e
  <2>5. e # None /\ os.user[a] # None
    BY <1>0, <2>1, <2>3
  <2>6. OwnUids(u)
    BY <2>3, <2>4, <2>5 DEF OwnUids, UidsFit
  <2>7. RecordedUids(u)
    BY <2>3, <2>4, <2>5 DEF RecordedUids, UidsFit
  <2> QED
    BY <2>3, <2>4, <2>5, <2>6, <2>7 DEF UidsFit, u, e
<1> QED
  BY <1>1, <1>2

LEMMA UidsByUserDeleted ==
    ASSUME NEW u, u \in [Users -> Maybe(UserEntry)], UidsFit(u), NEW a \in Users
    PROVE  UidsFit([u EXCEPT ![a] = None])
BY DEF UidsFit, OwnUids, RecordedUids

\* A step cut short.
LEMMA UidsByCut ==
    ASSUME Typed, UidsFit(os.user), PlanFits, NEW op, NEW n, Ready(op, n),
           NEW h \in Cut(op, n)
    PROVE  UidsFit(h.user)
<1>0. os \in Host
  BY DEF Typed, TypeOK
<1>1. CASE op = "create"
  <2>1. n \in Users /\ h = UserAdded(n) /\ CanCreate(n)
    BY <1>1, StepData DEF AccountOps, Cut, CreateCut
  <2>2. ~Recorded(n)
    BY <1>1, <2>1, PhasesOver DEF PlanFits, StepsFit
  <2> QED
    BY <2>1, <2>2, UidsByUserAdded
<1>2. CASE op = "update"
  <2>1. n \in Users /\ decl.accounts[n] \in Account
    BY <1>2, StepData DEF AccountOps
  <2>2. /\ os.user[n] # None
        /\ h \in {ShellChanged(os, n), GroupsReplaced(ShellChanged(os, n), n)}
    BY <1>2 DEF Cut, UpdateCut
  <2>3. ShellChanged(os, n) \in Host
    BY <1>0, <2>1, <2>2, ShellChangedType
  <2>4. UidsFit(ShellChanged(os, n).user)
    BY <2>1, <2>2, UidsByShellChanged
  <2> QED
    BY <2>2, <2>3, <2>4, UserOfGroupsReplaced
<1>3. CASE op \notin {"create", "update"}
  <2>1. h.user = os.user
    BY <1>3, OtherCutsKeepUsers
  <2> QED
    BY <2>1
<1> QED
  BY <1>1, <1>2, <1>3

-----------------------------------------------------------------------------
(* UidInv is kept.                                                         *)

\* A step that is done.
LEMMA UidByDone ==
    ASSUME Typed, UidInv, NEW op, NEW n, Ready(op, n), Done(op, n), UidsFit(os'.user),
           op = "update" => decl.accounts[n].uid = acctReg[n].uid,
           \A a \in Users :
              Declared(a) /\ ~Recorded(a) /\ (~Pending("create", a) \/ (op = "create" /\ a = n))
                 => os'.user[a] # None /\ os'.user[a].uid = decl.accounts[a].uid
    PROVE  UidInv'
<1>1. /\ UNCHANGED <<acctReg, decl, deferred, risk, pc, snap>> /\ pc = "run"
  BY DEF Done, Ready
<1>2. PlanFits'
  BY <1>1, FitsByDone DEF UidInv
<1>3. \A b : /\ Declared(b)' <=> Declared(b)
             /\ Recorded(b)' <=> Recorded(b)
  BY <1>1 DEF Declared, Recorded
<1>4. \A b : Pending("create", b)' <=> Pending("create", b) /\ ~("create" = op /\ b = n)
  BY PendingByDone
<1>5. UidsFit(os.user)'
  BY <1>1, <1>3 DEF UidsFit, OwnUids, RecordedUids
<1>6. snap # None => UidsFit(snap.user)'
  BY <1>1, <1>3 DEF UidInv, UidsFit, OwnUids, RecordedUids
<1> QED
  BY <1>1, <1>2, <1>3, <1>4, <1>5, <1>6 DEF UidInv

\* A step that leaves the accounts alone.
LEMMA UidBySameUsers ==
    ASSUME Typed, UidInv, NEW op, NEW n, Ready(op, n), Done(op, n),
           os'.user = os.user, op \notin {"create", "update"}
    PROVE  UidInv'
<1>1. UidsFit(os'.user)
  BY DEF UidInv
<1>2. \A a \in Users : Declared(a) /\ ~Recorded(a) /\ ~Pending("create", a)
         => os'.user[a] # None /\ os'.user[a].uid = decl.accounts[a].uid
  BY DEF UidInv, Ready
<1> QED
  BY <1>1, <1>2, UidByDone

\* The end of the process.
LEMMA UidByExit ==
    ASSUME UidInv, Exit, acctReg' = acctReg, UidsFit(os'.user)
    PROVE  UidInv'
<1>1. UidsFit(os.user)'
  BY DEF UidsFit, OwnUids, RecordedUids, Recorded
<1> QED
  BY <1>1 DEF UidInv, Exit

-----------------------------------------------------------------------------
(* What each step does to the parts of the host that belong to accounts.   *)

UserAcl(h) == {e \in h.acl : e.kind = "u"}

LEMMA AfterCreate ==
    ASSUME Typed, PlanFits, NEW a \in Users, CreateAccount(a)
    PROVE  /\ Declared(a) /\ ~Recorded(a) /\ a \notin deferred
           /\ decl.accounts[a] \in Account /\ CanCreate(a)
           /\ os'.user = UserAdded(a).user
           /\ os'.sudoU = [os.sudoU EXCEPT ![a] = decl.accounts[a].sudo]
           /\ os'.acl = os.acl /\ os'.group = os.group /\ os'.sudoG = os.sudoG
<1>1. decl.accounts[a] \in Account
  BY StepData DEF CreateAccount
<1>2. Pending("create", a)
  BY PhasesOver DEF CreateAccount
<1>3. Declared(a) /\ ~Recorded(a) /\ a \notin deferred
  BY <1>2 DEF PlanFits, StepsFit
<1> DEFINE h == UserAdded(a)
<1>4. /\ h \in Host /\ h.sudoU = os.sudoU /\ h.acl = os.acl
      /\ h.group = os.group /\ h.sudoG = os.sudoG
  BY <1>1, UserAddedType DEF UserAdded, Typed, TypeOK, Host
<1>5. os' = WithSudo(h, a, decl.accounts[a].sudo)
  BY DEF CreateAccount
<1> HIDE DEF h
<1>6. /\ os'.user = h.user /\ os'.acl = h.acl
      /\ os'.group = h.group /\ os'.sudoG = h.sudoG
      /\ os'.sudoU = [h.sudoU EXCEPT ![a] = decl.accounts[a].sudo]
  BY <1>4, <1>5 DEF WithSudo, Host
<1> QED
  BY <1>1, <1>3, <1>4, <1>6 DEF CreateAccount, h

LEMMA AfterUpdate ==
    ASSUME Typed, PlanFits, NEW a \in Users, UpdateAccount(a)
    PROVE  /\ Declared(a) /\ Recorded(a) /\ a \notin deferred
           /\ decl.accounts[a] \in Account /\ decl.accounts[a].uid = acctReg[a].uid
           /\ decl.accounts[a].login # acctReg[a].login => os.user[a] # None
           /\ os'.user = ShellChanged(os, a).user
           /\ os'.sudoU = [os.sudoU EXCEPT ![a] = decl.accounts[a].sudo]
           /\ os'.acl = os.acl /\ os'.group = os.group /\ os'.sudoG = os.sudoG
<1>1. decl.accounts[a] \in Account
  BY StepData DEF UpdateAccount
<1>2. Pending("update", a)
  BY PhasesOver DEF UpdateAccount
<1>3. Declared(a) /\ Recorded(a) /\ a \notin deferred
  BY <1>2 DEF PlanFits, StepsFit
<1>4. /\ decl.accounts[a].uid = acctReg[a].uid
      /\ decl.accounts[a].login # acctReg[a].login => os.user[a] # None
  BY DEF UpdateAccount, CanUpdate
<1> DEFINE k == ShellChanged(os, a)
           h == GroupsReplaced(k, a)
<1>5. k \in Host
  BY <1>1, <1>4, ShellChangedType DEF Typed, TypeOK
<1>6. k.sudoU = os.sudoU /\ k.acl = os.acl /\ k.group = os.group /\ k.sudoG = os.sudoG
  BY DEF ShellChanged, Typed, TypeOK, Host
<1>7. os' = WithSudo(h, a, decl.accounts[a].sudo)
  BY DEF UpdateAccount
<1> HIDE DEF k
<1>8. /\ h \in Host /\ h.user = k.user /\ h.sudoU = k.sudoU /\ h.acl = k.acl
      /\ h.group = k.group /\ h.sudoG = k.sudoG
  BY <1>5, GroupsReplacedType DEF GroupsReplaced, Host
<1> HIDE DEF h
<1>9. /\ os'.user = h.user /\ os'.acl = h.acl
      /\ os'.group = h.group /\ os'.sudoG = h.sudoG
      /\ os'.sudoU = [h.sudoU EXCEPT ![a] = decl.accounts[a].sudo]
  BY <1>7, <1>8 DEF WithSudo, Host
<1> QED
  BY <1>1, <1>3, <1>4, <1>6, <1>8, <1>9 DEF k

LEMMA AfterDelete ==
    ASSUME Typed, PlanFits, NEW a \in Users, DeleteAccount(a)
    PROVE  /\ Leaving(a) /\ os.user[a] # None
           /\ \A b : ~Pending("create", b) /\ ~Pending("update", b)
           /\ os'.user = [os.user EXCEPT ![a] = None]
           /\ os'.sudoU = [os.sudoU EXCEPT ![a] = {}]
           /\ os'.acl = os.acl /\ os'.group = os.group /\ os'.sudoG = os.sudoG
<1>1. Pending("delete", a) /\ \A b : ~Pending("create", b) /\ ~Pending("update", b)
  BY PhasesOver DEF DeleteAccount
<1>2. Leaving(a)
  BY <1>1 DEF PlanFits, StepsFit
<1>3. os.user[a] # None
  BY DEF DeleteAccount, CanDelete
<1> DEFINE h == WithSudo(os, a, {})
<1>4. /\ h \in Host /\ h.user = os.user /\ h.sudoU = [os.sudoU EXCEPT ![a] = {}]
      /\ h.acl = os.acl /\ h.group = os.group /\ h.sudoG = os.sudoG
  BY WithSudoType DEF WithSudo, Typed, TypeOK, Host
<1>5. os' = UserDeleted(h, a)
  BY DEF DeleteAccount
<1> HIDE DEF h
<1>6. /\ os'.user = [h.user EXCEPT ![a] = None] /\ os'.sudoU = h.sudoU
      /\ os'.acl = h.acl /\ os'.group = h.group /\ os'.sudoG = h.sudoG
  BY <1>4, <1>5 DEF UserDeleted, Host
<1> QED
  BY <1>1, <1>2, <1>3, <1>4, <1>6

\* The entries an account loses and gets, if it has or is to have any.
LEMMA AfterFiles ==
    ASSUME Typed, PlanFits, NEW a \in Users, AccountFiles(a)
    PROVE  LET keep == decl.accounts[a].files
               drop == RemovedFiles(acctReg, a, keep)
               uid == os.user[a].uid
           IN  /\ Declared(a) /\ a \notin deferred /\ ~LoginDue(a)
               /\ decl.accounts[a] \in Account
               /\ os'.user = os.user /\ os'.sudoU = os.sudoU
               /\ os'.group = os.group /\ os'.sudoG = os.sudoG
               /\ \/ keep \cup drop = {} /\ os'.acl = os.acl
                  \/ /\ os.user[a] # None
                     /\ os'.acl = (os.acl \ Acl("u", uid, drop)) \cup Acl("u", uid, keep)
<1> DEFINE keep == decl.accounts[a].files
           drop == RemovedFiles(acctReg, a, keep)
           uid == os.user[a].uid
<1>1. /\ Pending("file_access", a)
      /\ \A b : ~Pending("create", b) /\ ~Pending("update", b) /\ ~Pending("delete", b)
  BY PhasesOver DEF AccountFiles
<1>2. Declared(a) /\ a \notin deferred /\ ~LoginDue(a)
  BY <1>1 DEF PlanFits, StepsFit, LoginDue
<1>3. decl.accounts[a] \in Account
  BY StepData DEF AccountFiles
<1>4. /\ os'.user = os.user /\ os'.sudoU = os.sudoU
      /\ os'.group = os.group /\ os'.sudoG = os.sudoG
      /\ \/ keep \cup drop = {} /\ os'.acl = os.acl
         \/ /\ os.user[a] # None
            /\ os'.acl = (os.acl \ Acl("u", uid, drop)) \cup Acl("u", uid, keep)
  <2>1. CASE keep \cup drop = {}
    BY <2>1 DEF AccountFiles
  <2>2. CASE keep \cup drop # {}
    <3>1. drop \subseteq RemovedFiles(acctReg, a, {})
      BY DEF RemovedFiles
    <3>2. os.user[a] # None
      BY <2>2, <3>1 DEF AccountFiles, CanFileAccess
    <3>3. os' = FileAccess(os, a, drop, keep)
      BY <2>2 DEF AccountFiles
    <3> HIDE DEF keep, drop
    <3>4. /\ os'.user = os.user /\ os'.sudoU = os.sudoU
          /\ os'.group = os.group /\ os'.sudoG = os.sudoG
          /\ os'.acl = (os.acl \ Acl("u", uid, drop)) \cup Acl("u", uid, keep)
      BY <3>3 DEF FileAccess, Typed, TypeOK, Host
    <3> QED
      BY <3>2, <3>4
  <2> QED
    BY <2>1, <2>2
<1> QED
  BY <1>2, <1>3, <1>4

LEMMA AfterRevoke ==
    ASSUME Typed, PlanFits, NEW a \in Users, RevokeDeleted(a)
    PROVE  /\ Leaving(a) /\ ~LoginDue(a) /\ acctReg[a] \in Account
           /\ os'.user = os.user /\ os'.sudoU = os.sudoU
           /\ os'.group = os.group /\ os'.sudoG = os.sudoG
           /\ os'.acl = os.acl \ Acl("u", acctReg[a].uid, acctReg[a].files)
<1>1. /\ Pending("revoke_deleted", a)
      /\ \A b : ~Pending("create", b) /\ ~Pending("update", b) /\ ~Pending("delete", b)
  BY PhasesOver DEF RevokeDeleted
<1>2. Leaving(a) /\ ~LoginDue(a)
  BY <1>1 DEF PlanFits, StepsFit, LoginDue
<1>3. acctReg[a] \in Account
  BY StepData DEF RevokeDeleted
<1> QED
  BY <1>2, <1>3 DEF RevokeDeleted, Typed, TypeOK, Host

\* The phases of the groups.
LEMMA AfterGroupStep ==
    ASSUME Typed, NEW g \in Groups, NEW op,
           \/ op = "create_group" /\ CreateGroup(g)
           \/ op = "grant" /\ GrantGroup(g)
           \/ op = "teardown" /\ TeardownGroup(g)
           \/ op = "delete_group" /\ DeleteGroup(g)
    PROVE  /\ Ready(op, g) /\ Done(op, g)
           /\ os'.user = os.user /\ os'.sudoU = os.sudoU
           /\ UserAcl(os') = UserAcl(os)
           /\ op \in {"grant", "teardown"} => os'.group = os.group
           /\ \A k \in Groups : k # g => os'.group[k] = os.group[k]
           /\ op = "create_group" => os.group[g] = None
<1>0. os \in Host
  BY DEF Typed, TypeOK
<1>1. CASE op = "create_group" /\ CreateGroup(g)
  <2>1. PICK id : os' = GroupAdded(g, id)
    BY <1>1 DEF CreateGroup
  <2>2. /\ os'.user = os.user /\ os'.sudoU = os.sudoU /\ os'.acl = os.acl
        /\ os'.group = [os.group EXCEPT ![g] = [gid |-> id, census |-> TRUE]]
    BY <1>0, <2>1 DEF GroupAdded, Host
  <2> QED
    BY <1>0, <1>1, <2>2 DEF CreateGroup, CanCreateGroup, UserAcl, Host
<1>2. CASE op = "grant" /\ GrantGroup(g)
  <2>1. PICK p, r, j, l : os' = Granted(g, p, r, j, l)
    BY <1>2 DEF GrantGroup
  <2> DEFINE acl == IF p \cup r = {} THEN os.acl
                    ELSE (os.acl \cup Acl("g", GroupGid(g), p))
                            \ Acl("g", GroupGid(g), r)
  <2>2. /\ os'.user = os.user /\ os'.sudoU = os.sudoU /\ os'.group = os.group
        /\ os'.acl = acl
    BY <1>0, <2>1 DEF Granted, Host
  <2>3. {e \in acl : e.kind = "u"} = {e \in os.acl : e.kind = "u"}
    BY DEF Acl
  <2> HIDE DEF acl
  <2> QED
    BY <1>2, <2>2, <2>3 DEF GrantGroup, UserAcl
<1>3. CASE op = "teardown" /\ TeardownGroup(g)
  <2>1. PICK r, l : os' = Torndown(g, r, l)
    BY <1>3 DEF TeardownGroup
  <2> DEFINE acl == IF r = {} THEN os.acl ELSE os.acl \ Acl("g", GroupGid(g), r)
  <2>2. /\ os'.user = os.user /\ os'.sudoU = os.sudoU /\ os'.group = os.group
        /\ os'.acl = acl
    BY <1>0, <2>1 DEF Torndown, Host
  <2>3. {e \in acl : e.kind = "u"} = {e \in os.acl : e.kind = "u"}
    BY DEF Acl
  <2> HIDE DEF acl
  <2> QED
    BY <1>3, <2>2, <2>3 DEF TeardownGroup, UserAcl
<1>4. CASE op = "delete_group" /\ DeleteGroup(g)
  <2>1. /\ os'.user = os.user /\ os'.sudoU = os.sudoU /\ os'.acl = os.acl
        /\ os'.group = [os.group EXCEPT ![g] = None]
    BY <1>0, <1>4 DEF DeleteGroup, Host
  <2> QED
    BY <1>0, <1>4, <2>1 DEF DeleteGroup, UserAcl, Host
<1> QED
  BY <1>1, <1>2, <1>3, <1>4

-----------------------------------------------------------------------------
(* UidInv is kept by every step.                                           *)

LEMMA UidByBegin ==
    ASSUME Typed, UidInv, NEW d \in Declarations, NEW m, NEW r, Begin(d, m, r)
    PROVE  UidInv'
<1>1. /\ UNCHANGED <<os, acctReg, snap>> /\ pc = "idle" /\ snap = None
      /\ pc' \in {"snapshot", "write", "persist"}
  BY DEF Begin, host, UidInv
<1>2. UidsFit(os.user)'
  BY <1>1 DEF UidInv, UidsFit, OwnUids, RecordedUids, Recorded
<1>3. PlanFits' /\ \A a \in Users : Declared(a)' /\ ~Recorded(a)' => Pending("create", a)'
  BY FitsByBegin
<1> QED
  BY <1>1, <1>2, <1>3 DEF UidInv

LEMMA UidBySnapshot == ASSUME Typed, UidInv, Snapshot PROVE UidInv'
<1>1. /\ UNCHANGED <<os, acctReg, decl, deferred, risk, todo>>
      /\ pc = "snapshot" /\ pc' = "run" /\ snap' = os
  BY DEF Snapshot, host, run
<1>2. UidsFit(os.user)' /\ UidsFit(snap.user)'
  BY <1>1 DEF UidInv, UidsFit, OwnUids, RecordedUids, Recorded
<1>3. \A o, a : /\ Pending(o, a)' <=> Pending(o, a)
                /\ Declared(a)' <=> Declared(a)
                /\ Recorded(a)' <=> Recorded(a)
                /\ Leaving(a)' <=> Leaving(a)
  BY <1>1 DEF Pending, Declared, Recorded, Leaving
<1>4. PlanFits'
  BY <1>1, <1>3
  DEF UidInv, PlanFits, StepsFit, LockoutGate, TouchedAccounts, SurvivingLogins,
      CreatedAccounts, UpdatedAccounts, VanishedAccounts, Present
<1> QED
  BY <1>1, <1>2, <1>3, <1>4 DEF UidInv

LEMMA UidByCreate ==
    ASSUME Typed, UidInv, NEW a \in Users, CreateAccount(a) PROVE UidInv'
<1>0. PlanFits /\ UidsFit(os.user) /\ pc = "run"
  BY DEF UidInv, CreateAccount, Ready
<1>1. /\ ~Recorded(a) /\ CanCreate(a) /\ os'.user = UserAdded(a).user
  BY <1>0, AfterCreate
<1>2. /\ UidsFit(os'.user)
      /\ os'.user = [os.user EXCEPT ![a] =
            [uid |-> decl.accounts[a].uid, login |-> decl.accounts[a].login,
             census |-> TRUE]]
  BY <1>0, <1>1, UidsByUserAdded
<1>3. os.user \in [Users -> Maybe(UserEntry)] /\ os' \in Host
  BY CreateAccountTyped DEF Typed, TypeOK, Host
<1>4. /\ os'.user[a].uid = decl.accounts[a].uid
      /\ \A b \in Users : b # a => os'.user[b] = os.user[b]
  BY <1>2, <1>3
<1>5. os'.user[a] # None
  <2>1. os'.user[a] \in UserEntry
    BY <1>1, <1>2, <1>3, StepData DEF CreateAccount, UserEntry, Account
  <2> QED
    BY <2>1, ApplyAssumption
<1>6. \A b \in Users :
         Declared(b) /\ ~Recorded(b) /\ (~Pending("create", b) \/ b = a)
            => os'.user[b] # None /\ os'.user[b].uid = decl.accounts[b].uid
  BY <1>0, <1>4, <1>5 DEF UidInv
<1> QED
  BY <1>2, <1>6, UidByDone DEF CreateAccount

LEMMA UidByUpdate ==
    ASSUME Typed, UidInv, NEW a \in Users, UpdateAccount(a) PROVE UidInv'
<1>0. PlanFits /\ UidsFit(os.user) /\ pc = "run"
  BY DEF UidInv, UpdateAccount, Ready
<1>1. /\ decl.accounts[a] \in Account /\ decl.accounts[a].uid = acctReg[a].uid
      /\ decl.accounts[a].login # acctReg[a].login => os.user[a] # None
      /\ os'.user = ShellChanged(os, a).user
  BY <1>0, AfterUpdate
<1>2. /\ UidsFit(os'.user)
      /\ \A b \in Users :
            /\ os'.user[b] = None <=> os.user[b] = None
            /\ os.user[b] # None => os'.user[b].uid = os.user[b].uid
  BY <1>0, <1>1, UidsByShellChanged
<1>3. \A b \in Users : Declared(b) /\ ~Recorded(b) /\ ~Pending("create", b)
         => os'.user[b] # None /\ os'.user[b].uid = decl.accounts[b].uid
  BY <1>0, <1>2 DEF UidInv
<1> QED
  BY <1>1, <1>2, <1>3, UidByDone DEF UpdateAccount

LEMMA UidByDelete ==
    ASSUME Typed, UidInv, NEW a \in Users, DeleteAccount(a) PROVE UidInv'
<1>0. PlanFits /\ UidsFit(os.user) /\ pc = "run"
  BY DEF UidInv, DeleteAccount, Ready
<1>1. Leaving(a) /\ os'.user = [os.user EXCEPT ![a] = None]
  BY <1>0, AfterDelete
<1>2. os.user \in [Users -> Maybe(UserEntry)]
  BY DEF Typed, TypeOK, Host
<1>3. UidsFit(os'.user)
  BY <1>0, <1>1, <1>2, UidsByUserDeleted
<1>4. \A b \in Users : Declared(b) => os'.user[b] = os.user[b]
  BY <1>1, <1>2 DEF Leaving
<1>5. \A b \in Users : Declared(b) /\ ~Recorded(b) /\ ~Pending("create", b)
         => os'.user[b] # None /\ os'.user[b].uid = decl.accounts[b].uid
  BY <1>0, <1>4 DEF UidInv
<1> QED
  BY <1>3, <1>5, UidByDone DEF DeleteAccount

\* The new registry is true of the uids: what was not recorded was created.
LEMMA UidByWrite == ASSUME Typed, UidInv, WriteRegistry PROVE UidInv'
<1>1. /\ todo = {} /\ pc = "write" /\ pc' = "persist" /\ UNCHANGED os
      /\ acctReg' = BuildManagedSet(decl, acctReg, deferred)
  BY DEF WriteRegistry, Typed, WorkOK
<1>2. /\ PlanFits /\ UidsFit(os.user)
      /\ \A o, b : ~Pending(o, b)
  BY <1>1 DEF UidInv, Pending
<1>3. ASSUME NEW a \in Users, acctReg'[a] # None, os.user[a] # None
      PROVE  os.user[a].uid = acctReg'[a].uid
  <2>1. acctReg'[a] = IF a \in deferred THEN acctReg[a] ELSE decl.accounts[a]
    BY <1>1 DEF BuildManagedSet
  <2>2. CASE Recorded(a)
    BY <1>2, <1>3, <2>1, <2>2
    DEF PlanFits, StepsFit, UidsFit, RecordedUids, Declared
  <2>3. CASE ~Recorded(a)
    BY <1>1, <1>2, <1>3, <2>1, <2>3 DEF UidInv, Recorded, Declared
  <2> QED
    BY <2>2, <2>3
<1>4. UidsFit(os.user)'
  BY <1>1, <1>2, <1>3 DEF UidsFit, OwnUids, RecordedUids, Recorded
<1> QED
  BY <1>1, <1>4 DEF UidInv

LEMMA UidByProgress == ASSUME Typed, UidInv, Progress PROVE UidInv'
<1>0. os \in Host /\ UidsFit(os.user)
  BY DEF Typed, TypeOK, UidInv
<1>1. ASSUME NEW g \in Groups,
             CreateGroup(g) \/ GrantGroup(g) \/ TeardownGroup(g) \/ DeleteGroup(g)
      PROVE  UidInv'
  <2>1. PICK op \in GroupOps : Ready(op, g) /\ Done(op, g) /\ os'.user = os.user
    BY <1>1, AfterGroupStep DEF GroupOps
  <2> QED
    BY <2>1, UidBySameUsers DEF GroupOps
<1>2. ASSUME NEW a \in Users, AccountFiles(a) \/ RevokeDeleted(a) PROVE UidInv'
  <2>1. PlanFits
    BY <1>2 DEF UidInv, AccountFiles, RevokeDeleted, Ready
  <2>2. os'.user = os.user
    BY <1>2, <2>1, AfterFiles, AfterRevoke
  <2> QED
    BY <1>2, <2>2, UidBySameUsers DEF AccountFiles, RevokeDeleted
<1>3. CASE PhasesDone
  <2>1. /\ UNCHANGED <<os, acctReg, decl, deferred, risk, todo, snap>>
        /\ pc = "run" /\ pc' = "write"
    BY <1>3 DEF PhasesDone, host, run
  <2>2. \A o, a : /\ Pending(o, a)' <=> Pending(o, a)
                  /\ Declared(a)' <=> Declared(a)
                  /\ Recorded(a)' <=> Recorded(a)
                  /\ Leaving(a)' <=> Leaving(a)
    BY <2>1 DEF Pending, Declared, Recorded, Leaving
  <2>3. PlanFits'
    BY <2>1, <2>2
    DEF UidInv, PlanFits, StepsFit, LockoutGate, TouchedAccounts, SurvivingLogins,
        CreatedAccounts, UpdatedAccounts, VanishedAccounts, Present
  <2>4. UidsFit(os.user)' /\ (snap # None => UidsFit(snap.user)')
    BY <2>1, <2>2 DEF UidInv, UidsFit, OwnUids, RecordedUids
  <2> QED
    BY <2>1, <2>2, <2>3, <2>4 DEF UidInv
<1>4. CASE PersistVersion
  BY <1>0, <1>4, UidByExit DEF PersistVersion
<1>5. CASE Rollback
  <2>1. snap \in Host /\ UidsFit(snap.user)
    BY <1>5, ApplyAssumption DEF Rollback, Typed, TypeOK, Maybe, UidInv
  <2>2. UidsFit(os'.user)
    BY <1>0, <1>5, <2>1, UserOfRestore DEF Rollback
  <2> QED
    BY <1>5, <2>2, UidByExit DEF Rollback
<1> QED
  BY <1>1, <1>2, <1>3, <1>4, <1>5, UidBySnapshot, UidByCreate, UidByUpdate,
     UidByDelete, UidByWrite DEF Progress

LEMMA UidByFailure == ASSUME Typed, UidInv, Failure PROVE UidInv'
<1>0. os \in Host /\ UidsFit(os.user)
  BY DEF Typed, TypeOK, UidInv
<1>1. ASSUME NEW s \in todo, StepFails(s.op, s.name) PROVE UidInv'
  <2>1. /\ Ready(s.op, s.name) /\ os' \in {os} \cup Cut(s.op, s.name)
        /\ pc' = "rollback" /\ UNCHANGED <<acctReg, snap>>
    BY <1>1 DEF StepFails
  <2>2. PlanFits /\ UidsFit(snap.user)
    BY <2>1 DEF Ready, UidInv, Typed, TypeOK
  <2>3. UidsFit(os'.user)
    BY <1>0, <2>1, <2>2, UidsByCut
  <2>4. UidsFit(os.user)' /\ UidsFit(snap.user)'
    BY <2>1, <2>2, <2>3 DEF UidsFit, OwnUids, RecordedUids, Recorded
  <2> QED
    BY <2>1, <2>4 DEF UidInv
<1>2. CASE RollbackLeavesFragment \/ RollbackFails
  <2>1. snap \in Host /\ UidsFit(snap.user)
    BY <1>2, ApplyAssumption
    DEF RollbackLeavesFragment, RollbackFails, Typed, TypeOK, Maybe, UidInv
  <2>2. PICK p, q, us, gs, ps :
           os' = RestoreAcl(RestoreAuth(os, p, q, us, gs), ps)
    <3>1. CASE RollbackLeavesFragment
      BY <3>1, Zenon DEF RollbackLeavesFragment
    <3>2. CASE RollbackFails
      BY <3>2, Zenon DEF RollbackFails
    <3> QED
      BY <1>2, <3>1, <3>2
  <2>3. UidsFit(os'.user)
    BY <1>0, <2>1, <2>2, UserOfRestore
  <2> QED
    BY <1>2, <2>3, UidByExit DEF RollbackLeavesFragment, RollbackFails
<1>3. CASE SnapshotFails \/ WriteRegistryFails \/ PersistVersionFails \/ Crash
  <2>1. Exit /\ UNCHANGED <<os, acctReg>>
    BY <1>3 DEF SnapshotFails, WriteRegistryFails, PersistVersionFails, Crash, host
  <2> QED
    BY <1>0, <2>1, UidByExit
<1> QED
  BY <1>1, <1>2, <1>3 DEF Failure

-----------------------------------------------------------------------------
(* DeferInv is kept: no step reaches what a deferred account holds.        *)

\* Two recorded accounts that are both there have different uids.
LEMMA RecordedApart ==
    ASSUME HostInv, NEW u, UsersKept(u), UidsFit(u), NEW a \in Users,
           NEW b \in Users, a # b, Recorded(b), u[a] # None, u[b] # None
    PROVE  /\ u[a].uid # acctReg[b].uid
           /\ Recorded(a) => acctReg[a].uid # acctReg[b].uid
<1>1. u[b].census
  BY DEF HostInv, UsersKept, Recorded
<1>2. u[b].uid = acctReg[b].uid /\ (Recorded(a) => u[a].uid = acctReg[a].uid)
  BY DEF UidsFit, RecordedUids
<1>3. u[b].uid # u[a].uid
  BY <1>1 DEF UidsFit, OwnUids
<1> QED
  BY <1>2, <1>3

\* What a step that is next has to respect.
LEMMA DeferKnown ==
    ASSUME Typed, UidInv, DeferInv, NEW op, NEW n, Ready(op, n)
    PROVE  /\ PlanFits /\ UidsFit(os.user) /\ UidsFit(snap.user)
           /\ snap \in Host /\ os \in Host /\ pc = "run" /\ DeferredKept
           /\ \A a \in Users : Pending("delete", a) => os.user[a] = snap.user[a]
           /\ \A a \in Users : Leaving(a) /\ ~Pending("delete", a) => snap.user[a] # None
<1>1. snap # None /\ snap \in Host /\ os \in Host /\ pc = "run"
  BY DEF Ready, Typed, TypeOK, Maybe
<1> QED
  BY <1>1 DEF UidInv, DeferInv

\* A step that is done: what has to be shown of the new host.
LEMMA DeferByDone ==
    ASSUME Typed, UidInv, DeferInv, NEW op, NEW n, Ready(op, n), Done(op, n),
           \A a \in Users : Pending("delete", a) /\ ~(op = "delete" /\ a = n)
              => os'.user[a] = os.user[a],
           op = "delete" => os.user[n] # None,
           \A a \in deferred \cap Present(snap.user) :
              /\ os'.user[a] = os.user[a] /\ os'.sudoU[a] = os.sudoU[a]
              /\ {e \in os'.acl : e.kind = "u" /\ e.id = acctReg[a].uid}
                    = {e \in os.acl : e.kind = "u" /\ e.id = acctReg[a].uid}
              /\ \A g \in acctReg[a].groups :
                    snap.group[g] # None => os'.group[g] = os.group[g]
    PROVE  DeferInv'
<1>1. UNCHANGED <<acctReg, decl, deferred, pc, snap>>
  BY DEF Done
<1>2. \A b : Pending("delete", b)' <=> Pending("delete", b) /\ ~("delete" = op /\ b = n)
  BY PendingByDone
<1>3. \A b : Leaving(b)' <=> Leaving(b)
  BY <1>1 DEF Leaving, Recorded, Declared
<1>4. /\ DeferredKept /\ pc = "run" /\ Pending(op, n)
      /\ \A a \in Users : Pending("delete", a) => os.user[a] = snap.user[a]
      /\ \A a \in Users : Leaving(a) /\ ~Pending("delete", a) => snap.user[a] # None
  BY DeferKnown, PhasesOver
<1>5. DeferredKept'
  <2>1. \A a \in deferred \cap Present(snap.user) :
          /\ os.user[a] = snap.user[a]
          /\ os.sudoU[a] = snap.sudoU[a]
          /\ {e \in os.acl : e.kind = "u" /\ e.id = acctReg[a].uid}
                = {e \in snap.acl : e.kind = "u" /\ e.id = acctReg[a].uid}
          /\ \A g \in acctReg[a].groups :
                snap.group[g] # None => os.group[g] = snap.group[g]
    BY <1>4 DEF DeferredKept, Typed, TypeOK
  <2>2. SUFFICES ASSUME NEW a \in deferred \cap Present(snap.user)
                 PROVE  /\ os'.user[a] = snap.user[a]
                        /\ os'.sudoU[a] = snap.sudoU[a]
                        /\ {e \in os'.acl : e.kind = "u" /\ e.id = acctReg[a].uid}
                              = {e \in snap.acl : e.kind = "u" /\ e.id = acctReg[a].uid}
                        /\ \A g \in acctReg[a].groups :
                              snap.group[g] # None => os'.group[g] = snap.group[g]
    BY <1>1 DEF DeferredKept, Present
  <2> QED
    BY <2>1
<1>6. \A a \in Users : Pending("delete", a)' => os'.user[a] = snap'.user[a]
  BY <1>1, <1>2, <1>4
<1>7. \A a \in Users : Leaving(a)' /\ ~Pending("delete", a)' => snap'.user[a] # None
  BY <1>1, <1>2, <1>3, <1>4
<1> QED
  BY <1>5, <1>6, <1>7 DEF DeferInv

LEMMA DeferByAccountStep ==
    ASSUME Typed, UidInv, DeferInv, NEW a \in Users,
           CreateAccount(a) \/ UpdateAccount(a) \/ DeleteAccount(a)
    PROVE  DeferInv'
<1>1. PICK op \in {"create", "update", "delete"} :
         /\ Ready(op, a) /\ Done(op, a)
         /\ op = "create" => CreateAccount(a)
         /\ op = "update" => UpdateAccount(a)
         /\ op = "delete" => DeleteAccount(a)
  BY DEF CreateAccount, UpdateAccount, DeleteAccount
<1>2. PlanFits /\ UidsFit(os.user) /\ os \in Host /\ snap \in Host
  BY <1>1, DeferKnown
<1>3. /\ a \notin deferred /\ os'.acl = os.acl /\ os'.group = os.group
      /\ op # "delete" => Declared(a)
      /\ op = "delete" => os.user[a] # None
      /\ \A b \in Users : b # a => os'.user[b] = os.user[b] /\ os'.sudoU[b] = os.sudoU[b]
  <2>0. os.user \in [Users -> Maybe(UserEntry)] /\ os.sudoU \in [Users -> SUBSET Cmds]
    BY <1>2 DEF Host
  <2>1. CASE op = "create"
    <3>1. /\ Declared(a) /\ ~Recorded(a) /\ a \notin deferred /\ CanCreate(a)
          /\ os'.user = UserAdded(a).user
          /\ os'.sudoU = [os.sudoU EXCEPT ![a] = decl.accounts[a].sudo]
          /\ os'.acl = os.acl /\ os'.group = os.group
      BY <1>1, <1>2, <2>1, AfterCreate
    <3>2. os'.user = [os.user EXCEPT ![a] =
             [uid |-> decl.accounts[a].uid, login |-> decl.accounts[a].login,
              census |-> TRUE]]
      BY <1>2, <3>1, UidsByUserAdded
    <3>3. \A b \in Users : b # a => os'.user[b] = os.user[b] /\ os'.sudoU[b] = os.sudoU[b]
      BY <2>0, <3>1, <3>2
    <3> QED
      BY <2>1, <3>1, <3>3
  <2>2. CASE op = "update"
    <3>1. /\ Declared(a) /\ a \notin deferred /\ decl.accounts[a] \in Account
          /\ decl.accounts[a].login # acctReg[a].login => os.user[a] # None
          /\ os'.user = ShellChanged(os, a).user
          /\ os'.sudoU = [os.sudoU EXCEPT ![a] = decl.accounts[a].sudo]
          /\ os'.acl = os.acl /\ os'.group = os.group
      BY <1>1, <1>2, <2>2, AfterUpdate
    <3>2. \A b \in Users : b # a => os'.user[b] = os.user[b]
      <4>1. \A b \in Users : b # a => ShellChanged(os, a).user[b] = os.user[b]
        BY <1>2, <3>1, UidsByShellChanged
      <4> QED
        BY <3>1, <4>1
    <3>3. \A b \in Users : b # a => os'.sudoU[b] = os.sudoU[b]
      BY <2>0, <3>1
    <3> QED
      BY <2>2, <3>1, <3>2, <3>3
  <2>3. CASE op = "delete"
    <3>1. /\ Leaving(a) /\ os.user[a] # None
          /\ os'.user = [os.user EXCEPT ![a] = None]
          /\ os'.sudoU = [os.sudoU EXCEPT ![a] = {}]
          /\ os'.acl = os.acl /\ os'.group = os.group
      BY <1>1, <1>2, <2>3, AfterDelete
    <3> QED
      BY <2>0, <2>3, <3>1 DEF Leaving
  <2> QED
    BY <2>1, <2>2, <2>3
<1>4. \A b \in Users : Pending("delete", b) /\ ~(op = "delete" /\ b = a)
         => os'.user[b] = os.user[b]
  BY <1>1, <1>2, <1>3 DEF PlanFits, StepsFit, Leaving
<1>5. deferred \subseteq Users
  BY DEF Typed, TypeOK
<1> QED
  BY <1>1, <1>3, <1>4, <1>5, DeferByDone

LEMMA DeferByFiles ==
    ASSUME Typed, HostInv, UidInv, DeferInv, NEW a \in Users, AccountFiles(a)
    PROVE  DeferInv'
<1> DEFINE keep == decl.accounts[a].files
           drop == RemovedFiles(acctReg, a, keep)
           uid == os.user[a].uid
<1>0. Ready("file_access", a) /\ Done("file_access", a)
  BY DEF AccountFiles
<1>1. PlanFits /\ UidsFit(os.user) /\ os \in Host /\ snap \in Host /\ DeferredKept /\ pc = "run"
  BY <1>0, DeferKnown
<1>2. /\ Declared(a) /\ a \notin deferred
      /\ os'.user = os.user /\ os'.sudoU = os.sudoU /\ os'.group = os.group
      /\ \/ os'.acl = os.acl
         \/ /\ os.user[a] # None
            /\ os'.acl = (os.acl \ Acl("u", uid, drop)) \cup Acl("u", uid, keep)
  BY <1>1, AfterFiles
<1>3. ASSUME NEW b \in deferred \cap Present(snap.user)
      PROVE  {e \in os'.acl : e.kind = "u" /\ e.id = acctReg[b].uid}
                = {e \in os.acl : e.kind = "u" /\ e.id = acctReg[b].uid}
  <2>1. b \in Users /\ b # a /\ snap.user[b] # None
    BY <1>1, <1>2 DEF Host, Present
  <2>2. Recorded(b)
    BY <1>1, <2>1 DEF PlanFits, StepsFit
  <2>3. os.user[b] # None
    BY <1>1, <2>1 DEF DeferredKept, Typed, TypeOK, Ready
  <2>4. os.user[a] # None => uid # acctReg[b].uid
    BY <1>1, <2>1, <2>2, <2>3, RecordedApart DEF HostInv
  <2> HIDE DEF uid, keep, drop
  <2> QED
    BY <1>2, <2>4 DEF Acl
<1> QED
  BY <1>0, <1>2, <1>3, DeferByDone

LEMMA DeferByRevoke ==
    ASSUME Typed, HostInv, UidInv, DeferInv, NEW a \in Users, RevokeDeleted(a)
    PROVE  DeferInv'
<1>0. Ready("revoke_deleted", a) /\ Done("revoke_deleted", a) /\ ~Pending("delete", a)
  BY PhasesOver DEF RevokeDeleted
<1>1. /\ PlanFits /\ UidsFit(snap.user) /\ os \in Host /\ snap \in Host /\ pc = "run"
      /\ Leaving(a) /\ ~Pending("delete", a) => snap.user[a] # None
  BY <1>0, DeferKnown
<1>2. /\ Leaving(a)
      /\ os'.user = os.user /\ os'.sudoU = os.sudoU /\ os'.group = os.group
      /\ os'.acl = os.acl \ Acl("u", acctReg[a].uid, acctReg[a].files)
  BY <1>1, AfterRevoke
<1>3. ASSUME NEW b \in deferred \cap Present(snap.user)
      PROVE  {e \in os'.acl : e.kind = "u" /\ e.id = acctReg[b].uid}
                = {e \in os.acl : e.kind = "u" /\ e.id = acctReg[b].uid}
  <2>1. b \in Users /\ b # a /\ snap.user[b] # None
    BY <1>1, <1>2 DEF Host, Present, Leaving
  <2>2. Recorded(b) /\ Recorded(a)
    BY <1>1, <1>2, <2>1 DEF PlanFits, StepsFit, Leaving
  <2>3. UsersKept(snap.user)
    BY <1>1, ApplyAssumption DEF HostInv
  <2>4. acctReg[a].uid # acctReg[b].uid
    BY <1>0, <1>1, <1>2, <2>1, <2>2, <2>3, RecordedApart
  <2> QED
    BY <1>2, <2>4 DEF Acl
<1> QED
  BY <1>0, <1>2, <1>3, DeferByDone

LEMMA DeferByGroupStep ==
    ASSUME Typed, UidInv, DeferInv, NEW g \in Groups,
           CreateGroup(g) \/ GrantGroup(g) \/ TeardownGroup(g) \/ DeleteGroup(g)
    PROVE  DeferInv'
<1>1. PICK op \in GroupOps :
         /\ Ready(op, g) /\ Done(op, g)
         /\ os'.user = os.user /\ os'.sudoU = os.sudoU
         /\ UserAcl(os') = UserAcl(os)
         /\ op \in {"grant", "teardown"} => os'.group = os.group
         /\ \A k \in Groups : k # g => os'.group[k] = os.group[k]
         /\ op = "create_group" => os.group[g] = None
  BY AfterGroupStep DEF GroupOps
<1>2. PlanFits /\ DeferredKept /\ snap \in Host /\ pc = "run" /\ Pending(op, g)
  BY <1>1, DeferKnown, PhasesOver
<1>3. ASSUME NEW a \in deferred \cap Present(snap.user), NEW k \in acctReg[a].groups,
             snap.group[k] # None
      PROVE  os'.group[k] = os.group[k]
  <2>1. a \in Users /\ acctReg[a] # None
    BY <1>2 DEF PlanFits, StepsFit, Recorded, Typed, TypeOK
  <2>2. k \in Groups
    BY <2>1, RegType DEF Account
  <2>3. os.group[k] = snap.group[k]
    BY <1>2, <1>3 DEF DeferredKept, Typed, TypeOK
  <2>4. op = "create_group" => k # g
    BY <1>1, <1>3, <2>3
  <2>5. op = "delete_group" => k # g
    BY <1>2, <2>2 DEF PlanFits
  <2> QED
    BY <1>1, <2>2, <2>4, <2>5 DEF GroupOps
<1>4. \A id : {e \in os'.acl : e.kind = "u" /\ e.id = id}
                 = {e \in os.acl : e.kind = "u" /\ e.id = id}
  BY <1>1 DEF UserAcl
<1>5. op # "delete"
  BY DEF GroupOps
<1> QED
  BY <1>1, <1>3, <1>4, <1>5, DeferByDone

LEMMA NextDefer ==
    Typed /\ HostInv /\ UidInv /\ DeferInv /\ [Next]_vars => DeferInv'
<1> SUFFICES ASSUME Typed, HostInv, UidInv, DeferInv, [Next]_vars PROVE DeferInv'
  OBVIOUS
<1>1. CASE Start
  <2>1. snap' = None
    BY <1>1 DEF Start, Begin, UidInv
  <2> QED
    BY <2>1 DEF DeferInv
<1>2. CASE Snapshot
  <2>1. /\ UNCHANGED <<os, acctReg, decl, deferred, todo>>
        /\ pc = "snapshot" /\ pc' = "run" /\ snap' = os
    BY <1>2 DEF Snapshot, host, run
  <2>2. \A a \in Users : Leaving(a)' => Pending("delete", a)'
    BY <2>1 DEF UidInv, PlanFits, StepsFit, Leaving, Recorded, Declared, Pending
  <2>3. DeferredKept'
    BY <2>1 DEF DeferredKept
  <2> QED
    BY <2>1, <2>2, <2>3 DEF DeferInv
<1>3. CASE PhasesDone
  <2>1. /\ UNCHANGED <<os, acctReg, decl, deferred, todo, snap>>
        /\ pc = "run" /\ pc' = "write"
    BY <1>3 DEF PhasesDone, host, run
  <2>2. DeferredKept' <=> DeferredKept
    BY <2>1 DEF DeferredKept
  <2> QED
    BY <2>1, <2>2 DEF DeferInv, Leaving, Recorded, Declared, Pending
<1>4. CASE WriteRegistry \/ PersistVersion \/ Rollback
  BY <1>4 DEF WriteRegistry, PersistVersion, Rollback, Exit, DeferInv
<1>5. CASE Failure
  BY <1>5 DEF Failure, SnapshotFails, StepFails, RollbackFails,
     RollbackLeavesFragment, WriteRegistryFails, PersistVersionFails, Crash, Exit, DeferInv
<1>6. CASE Sessions \/ UNCHANGED vars
  <2>1. UNCHANGED <<os, acctReg, decl, deferred, todo, snap, pc>>
    BY <1>6 DEF Sessions, OpenSession, CloseSession, SpoilSessions, vars, host, run
  <2>2. DeferredKept' <=> DeferredKept
    BY <2>1 DEF DeferredKept
  <2> QED
    BY <2>1, <2>2 DEF DeferInv, Leaving, Recorded, Declared, Pending
<1> QED
  BY <1>1, <1>2, <1>3, <1>4, <1>5, <1>6, DeferByAccountStep, DeferByFiles,
     DeferByRevoke, DeferByGroupStep DEF Next, Progress

-----------------------------------------------------------------------------
(* The records the host agrees with in the middle of a run.                *)

LEMMA RecAt ==
    ASSUME NEW a \in Users
    PROVE  /\ LoginRec[a] = IF LoginDue(a) THEN acctReg[a] ELSE NewReg[a]
           /\ FileRec[a] = IF FilesDue(a) THEN acctReg[a] ELSE NewReg[a]
           /\ NewReg[a] = IF a \in deferred THEN acctReg[a] ELSE decl.accounts[a]
BY DEF LoginRec, FileRec, NewReg, BuildManagedSet

\* A step that is done brings one account to its new record.
LEMMA RecsByDone ==
    ASSUME Typed, PlanFits, NEW op, NEW n, Ready(op, n), Done(op, n), NEW b \in Users
    PROVE  /\ NewReg'[b] = NewReg[b]
           /\ LoginRec'[b] = IF op \in {"create", "update", "delete"} /\ b = n
                             THEN NewReg[b] ELSE LoginRec[b]
           /\ FileRec'[b] = IF op \in {"file_access", "revoke_deleted"} /\ b = n
                            THEN NewReg[b] ELSE FileRec[b]
           /\ Owner(b)' = IF op = "create" /\ b = n THEN decl.accounts[b] ELSE Owner(b)
<1>1. UNCHANGED <<acctReg, decl, deferred>>
  BY DEF Done
<1>2. \A o, c : Pending(o, c)' <=> Pending(o, c) /\ ~(o = op /\ c = n)
  BY PendingByDone
<1>3. StepsFit(b) /\ Pending(op, n)
  BY PhasesOver DEF PlanFits
<1>4. NewReg' = NewReg
  BY <1>1 DEF NewReg, BuildManagedSet
<1>5. /\ LoginRec'[b] = IF LoginDue(b)' THEN acctReg[b] ELSE NewReg[b]
      /\ FileRec'[b] = IF FilesDue(b)' THEN acctReg[b] ELSE NewReg[b]
  BY <1>1, <1>4 DEF LoginRec, FileRec
<1>6. LoginDue(b)' <=> LoginDue(b) /\ ~(op \in {"create", "update", "delete"} /\ b = n)
  BY <1>2, <1>3 DEF LoginDue, StepsFit, Leaving
<1>7. FilesDue(b)' <=> FilesDue(b) /\ ~(op \in {"file_access", "revoke_deleted"} /\ b = n)
  BY <1>2, <1>3 DEF FilesDue, StepsFit, Leaving
<1>8. Owner(b)' = IF op = "create" /\ b = n THEN decl.accounts[b] ELSE Owner(b)
  BY <1>1, <1>2, <1>3 DEF Owner, StepsFit, Recorded, Declared
<1> QED
  BY <1>4, <1>5, <1>6, <1>7, <1>8, RecAt

\* ACL entries are held under the owner's uid.
LEMMA FileOwner ==
    ASSUME PlanFits, NEW a \in Users, FileRec[a] # None
    PROVE  Owner(a) # None /\ Owner(a).uid = FileRec[a].uid
<1>1. StepsFit(a)
  BY DEF PlanFits
<1> QED
  BY <1>1, RecAt DEF StepsFit, Owner, FilesDue, Declared, Recorded

\* As long as an account is to be created, every owner is on the host.
LEMMA OwnersOnHost ==
    ASSUME Typed, PlanFits, UidInv, InProgress, pc = "run", NEW a \in Users,
           Pending("create", a), NEW b \in Users, Owner(b) # None
    PROVE  os.user[b] # None /\ os.user[b].uid = Owner(b).uid
<1>1. StepsFit(b) /\ LoginAgrees(os, b, LoginRec[b])
  BY DEF PlanFits, InProgress
<1>2. CASE Recorded(b)
  <2>1. LoginRec[b] # None /\ LoginRec[b].uid = acctReg[b].uid
    BY <1>1, <1>2, RecAt DEF StepsFit, Leaving, LoginDue, Declared, Recorded
  <2>2. os.user[b] = [uid |-> LoginRec[b].uid, login |-> LoginRec[b].login, census |-> TRUE]
    BY <1>1, <2>1 DEF LoginAgrees
  <2>3. LoginRec[b] \in Account
    BY <2>1, RecAt, RegType, DeclType DEF Typed, TypeOK
  <2>4. os.user[b] \in UserEntry
    BY <2>2, <2>3 DEF UserEntry, Account
  <2>5. os.user[b] # None
    BY <2>4, ApplyAssumption
  <2>6. os.user[b].uid = LoginRec[b].uid
    BY <2>2
  <2> QED
    BY <1>2, <2>1, <2>5, <2>6 DEF Owner
<1>3. CASE ~Recorded(b)
  BY <1>3 DEF Owner, UidInv
<1> QED
  BY <1>2, <1>3

-----------------------------------------------------------------------------
(* ACL entries of accounts.                                                *)

\* Who holds what depends on the entries of users only.
LEMMA AclBySameEntries ==
    ASSUME NEW h, NEW k, UserAcl(k) = UserAcl(h), NEW R, AclAgrees(h, R)
    PROVE  AclAgrees(k, R)
<1>1. \A id : PathsOf(k, id) = PathsOf(h, id)
  <2>1. \A id : {x \in k.acl : x.kind = "u" /\ x.id = id}
                   = {x \in h.acl : x.kind = "u" /\ x.id = id}
    BY DEF UserAcl
  <2> QED
    BY <2>1 DEF PathsOf
<1>2. \A e \in k.acl : e.kind = "u" => e \in h.acl
  BY DEF UserAcl
<1> QED
  BY <1>1, <1>2 DEF AclAgrees

\* An account gets the entries of its new record in place of the old ones.
LEMMA AclByReplaced ==
    ASSUME NEW h, NEW k, NEW R, NEW S, NEW a \in Users,
           AclAgrees(h, R), S[a] # None,
           k.acl = (h.acl \ Acl("u", S[a].uid, RemovedFiles(R, a, S[a].files)))
                      \cup Acl("u", S[a].uid, S[a].files),
           \A b \in Users : b # a => S[b] = R[b],
           \A b \in Users : b # a /\ R[b] # None => R[b].uid # S[a].uid,
           R[a] # None => R[a].uid = S[a].uid,
           h.acl \subseteq AclEntry
    PROVE  AclAgrees(k, S)
<1> DEFINE uid == S[a].uid
           keep == S[a].files
           drop == RemovedFiles(R, a, keep)
<1>0. drop = IF R[a] = None THEN {} ELSE R[a].files \ keep
  BY DEF RemovedFiles
<1> HIDE DEF drop
<1>1. \A e \in Acl("u", uid, keep) : e.kind = "u" /\ e.id = uid /\ e.path \in keep
  BY DEF Acl
<1>2. ASSUME NEW b \in Users, b # a, S[b] # None PROVE PathsOf(k, S[b].uid) = S[b].files
  <2>1. S[b] = R[b] /\ S[b].uid # uid /\ PathsOf(h, R[b].uid) = R[b].files
    BY <1>2 DEF AclAgrees
  <2>2. {x \in k.acl : x.kind = "u" /\ x.id = S[b].uid}
           = {x \in h.acl : x.kind = "u" /\ x.id = S[b].uid}
    BY <2>1 DEF Acl, drop
  <2> QED
    BY <2>1, <2>2 DEF PathsOf
<1>3. \A e \in h.acl : e.kind = "u" /\ e.id = uid => R[a] # None /\ e.path \in R[a].files
  <2> SUFFICES ASSUME NEW e \in h.acl, e.kind = "u", e.id = uid
               PROVE  R[a] # None /\ e.path \in R[a].files
    OBVIOUS
  <2>1. PICK b \in Users : R[b] # None /\ R[b].uid = e.id
    BY DEF AclAgrees
  <2>2. b = a
    BY <2>1
  <2>3. e.path \in PathsOf(h, uid) /\ PathsOf(h, R[a].uid) = R[a].files
    BY <2>1, <2>2 DEF PathsOf, AclAgrees
  <2> QED
    BY <2>1, <2>2, <2>3
<1>4. PathsOf(k, uid) = keep
  <2>1. ASSUME NEW p \in keep PROVE p \in PathsOf(k, uid)
    <3> DEFINE e == [kind |-> "u", id |-> uid, path |-> p]
    <3>1. e \in k.acl /\ e.kind = "u" /\ e.id = uid /\ e.path = p
      BY DEF Acl
    <3> HIDE DEF e
    <3> QED
      BY <3>1 DEF PathsOf
  <2>2. ASSUME NEW p \in PathsOf(k, uid) PROVE p \in keep
    <3>1. PICK e \in k.acl : e.kind = "u" /\ e.id = uid /\ e.path = p
      BY DEF PathsOf
    <3>2. CASE e \in Acl("u", uid, keep)
      BY <1>1, <3>1, <3>2
    <3>3. CASE e \in h.acl /\ e \notin Acl("u", uid, drop)
      <4>1. R[a] # None /\ p \in R[a].files
        BY <1>3, <3>1, <3>3
      <4>2. e = [kind |-> "u", id |-> uid, path |-> p]
        BY <3>1, <3>3 DEF AclEntry
      <4>3. p \notin drop
        BY <3>3, <4>2 DEF Acl
      <4> QED
        BY <1>0, <4>1, <4>3
    <3> QED
      BY <3>1, <3>2, <3>3 DEF drop
  <2> QED
    BY <2>1, <2>2
<1>5. ASSUME NEW e \in k.acl, e.kind = "u"
      PROVE  \E b \in Users : S[b] # None /\ S[b].uid = e.id
  <2>1. CASE e \in Acl("u", uid, keep)
    BY <1>1, <2>1
  <2>2. CASE e \in h.acl
    <3>1. PICK b \in Users : R[b] # None /\ R[b].uid = e.id
      BY <1>5, <2>2 DEF AclAgrees
    <3> QED
      BY <3>1
  <2> QED
    BY <1>5, <2>1, <2>2
<1> QED
  BY <1>2, <1>4, <1>5 DEF AclAgrees

\* An account that is gone loses its entries.
LEMMA AclByRevoked ==
    ASSUME NEW h, NEW k, NEW R, NEW S, NEW a \in Users,
           AclAgrees(h, R), R[a] # None, S[a] = None,
           k.acl = h.acl \ Acl("u", R[a].uid, R[a].files),
           \A b \in Users : b # a => S[b] = R[b],
           \A b \in Users : b # a /\ R[b] # None => R[b].uid # R[a].uid,
           h.acl \subseteq AclEntry
    PROVE  AclAgrees(k, S)
<1>1. ASSUME NEW b \in Users, S[b] # None PROVE PathsOf(k, S[b].uid) = S[b].files
  <2>1. S[b] = R[b] /\ S[b].uid # R[a].uid /\ PathsOf(h, R[b].uid) = R[b].files
    BY <1>1 DEF AclAgrees
  <2>2. {x \in k.acl : x.kind = "u" /\ x.id = S[b].uid}
           = {x \in h.acl : x.kind = "u" /\ x.id = S[b].uid}
    BY <2>1 DEF Acl
  <2> QED
    BY <2>1, <2>2 DEF PathsOf
<1>2. ASSUME NEW e \in k.acl, e.kind = "u"
      PROVE  \E b \in Users : S[b] # None /\ S[b].uid = e.id
  <2>1. e \in h.acl /\ e \notin Acl("u", R[a].uid, R[a].files)
    OBVIOUS
  <2>2. PICK b \in Users : R[b] # None /\ R[b].uid = e.id
    BY <1>2, <2>1 DEF AclAgrees
  <2>3. b # a
    <3> SUFFICES ASSUME b = a PROVE FALSE
      OBVIOUS
    <3>1. e.path \in PathsOf(h, R[a].uid)
      BY <1>2, <2>1, <2>2 DEF PathsOf
    <3>2. e.path \in R[a].files
      BY <3>1 DEF AclAgrees
    <3>3. e = [kind |-> "u", id |-> R[a].uid, path |-> e.path]
      BY <1>2, <2>1, <2>2 DEF AclEntry
    <3> QED
      BY <2>1, <3>2, <3>3 DEF Acl
  <2> QED
    BY <2>2, <2>3
<1> QED
  BY <1>1, <1>2 DEF AclAgrees

-----------------------------------------------------------------------------
(* A run in progress: every step moves one account from its old record to  *)
(* its new one.                                                            *)

LEMMA ProgressByAccountStep ==
    ASSUME Typed, PlanFits, InProgress, NEW op \in {"create", "update", "delete"},
           NEW a \in Users, Ready(op, a), Done(op, a),
           LoginAgrees(os', a, NewReg[a]),
           \A b \in Users : b # a => os'.user[b] = os.user[b] /\ os'.sudoU[b] = os.sudoU[b],
           os'.acl = os.acl, OwnersDiffer'
    PROVE  InProgress'
<1>1. \A b \in Users : LoginAgrees(os', b, LoginRec'[b])
  <2> SUFFICES ASSUME NEW b \in Users PROVE LoginAgrees(os', b, LoginRec'[b])
    OBVIOUS
  <2>1. LoginRec'[b] = IF b = a THEN NewReg[b] ELSE LoginRec[b]
    BY RecsByDone
  <2>2. CASE b = a
    BY <2>1, <2>2
  <2>3. CASE b # a
    <3>1. LoginAgrees(os, b, LoginRec[b]) /\ os'.user[b] = os.user[b]
          /\ os'.sudoU[b] = os.sudoU[b]
      BY <2>3 DEF InProgress
    <3>2. LoginAgrees(os', b, LoginRec[b])
      BY <3>1 DEF LoginAgrees
    <3> QED
      BY <2>1, <2>3, <3>2
  <2> QED
    BY <2>2, <2>3
<1>2. \A b \in Users : FileRec'[b] = FileRec[b]
  BY RecsByDone
<1>3. AclAgrees(os', FileRec')
  BY <1>2 DEF InProgress, AclAgrees, PathsOf
<1> QED
  BY <1>1, <1>3 DEF InProgress

LEMMA OwnersByDone ==
    ASSUME Typed, PlanFits, OwnersDiffer, NEW op, NEW n, Ready(op, n), Done(op, n),
           op # "create"
    PROVE  OwnersDiffer'
<1>1. \A b \in Users : Owner(b)' = Owner(b)
  BY RecsByDone
<1> QED
  BY <1>1 DEF OwnersDiffer

LEMMA ProgressByCreate ==
    ASSUME Typed, UidInv, InProgress, NEW a \in Users, CreateAccount(a)
    PROVE  InProgress'
<1>0. /\ PlanFits /\ UidsFit(os.user) /\ os \in Host /\ pc = "run"
      /\ Ready("create", a) /\ Done("create", a) /\ Pending("create", a)
  BY PhasesOver DEF CreateAccount, UidInv, Ready, Typed, TypeOK
<1>1. /\ Declared(a) /\ ~Recorded(a) /\ a \notin deferred /\ CanCreate(a)
      /\ os'.user = UserAdded(a).user
      /\ os'.sudoU = [os.sudoU EXCEPT ![a] = decl.accounts[a].sudo]
      /\ os'.acl = os.acl
  BY <1>0, AfterCreate
<1>2. os'.user = [os.user EXCEPT ![a] =
         [uid |-> decl.accounts[a].uid, login |-> decl.accounts[a].login,
          census |-> TRUE]]
  BY <1>0, <1>1, UidsByUserAdded
<1>3. os.user \in [Users -> Maybe(UserEntry)] /\ os.sudoU \in [Users -> SUBSET Cmds]
  BY <1>0 DEF Host
<1>4. \A b \in Users : b # a => os'.user[b] = os.user[b] /\ os'.sudoU[b] = os.sudoU[b]
  BY <1>1, <1>2, <1>3
<1>5. LoginAgrees(os', a, NewReg[a])
  BY <1>1, <1>2, <1>3, RecAt DEF LoginAgrees, Declared
<1>6. \A b \in Users : Owner(b)' = IF b = a THEN decl.accounts[b] ELSE Owner(b)
  BY <1>0, RecsByDone
<1>7. \A b \in Users : Owner(b) # None => Owner(b).uid # decl.accounts[a].uid
  <2>1. \A b \in Users : Owner(b) # None =>
           os.user[b] # None /\ os.user[b].uid = Owner(b).uid
    BY <1>0, OwnersOnHost
  <2> QED
    BY <1>1, <1>3, <2>1 DEF CanCreate, TakenUids, Present
<1>8. OwnersDiffer'
  BY <1>6, <1>7 DEF InProgress, OwnersDiffer
<1> QED
  BY <1>0, <1>1, <1>4, <1>5, <1>8, ProgressByAccountStep

LEMMA EntryWithShell ==
    ASSUME NEW id \in Uids, NEW l \in BOOLEAN, NEW m \in BOOLEAN
    PROVE  [[uid |-> id, login |-> l, census |-> TRUE] EXCEPT !.login = m]
              = [uid |-> id, login |-> m, census |-> TRUE]
<1> DEFINE r == [uid |-> id, login |-> l, census |-> TRUE]
<1>1. r \in UserEntry /\ r.uid = id /\ r.census = TRUE
  BY DEF UserEntry
<1> HIDE DEF r
<1> DEFINE e == [r EXCEPT !.login = m]
<1>2. e \in UserEntry /\ e.uid = id /\ e.login = m /\ e.census = TRUE
  BY <1>1 DEF UserEntry
<1> HIDE DEF e
<1>3. e = [uid |-> id, login |-> m, census |-> TRUE]
  BY <1>2 DEF UserEntry
<1> QED
  BY <1>3 DEF e, r

LEMMA ProgressByUpdate ==
    ASSUME Typed, UidInv, InProgress, NEW a \in Users, UpdateAccount(a)
    PROVE  InProgress'
<1> DEFINE t == decl.accounts[a]
           old == acctReg[a]
<1>0. /\ PlanFits /\ UidsFit(os.user) /\ os \in Host /\ pc = "run"
      /\ Ready("update", a) /\ Done("update", a) /\ Pending("update", a)
  BY PhasesOver DEF UpdateAccount, UidInv, Ready, Typed, TypeOK
<1>1. /\ Declared(a) /\ Recorded(a) /\ a \notin deferred
      /\ t \in Account /\ t.uid = old.uid
      /\ t.login # old.login => os.user[a] # None
      /\ os'.user = ShellChanged(os, a).user
      /\ os'.sudoU = [os.sudoU EXCEPT ![a] = t.sudo]
      /\ os'.acl = os.acl
  BY <1>0, AfterUpdate
<1>2. os.user \in [Users -> Maybe(UserEntry)] /\ os.sudoU \in [Users -> SUBSET Cmds]
  BY <1>0 DEF Host
<1>3. os.user[a] = [uid |-> old.uid, login |-> old.login, census |-> TRUE]
  <2>1. LoginRec[a] = old /\ old # None
    BY <1>0, <1>1, RecAt DEF LoginDue, Recorded
  <2> QED
    BY <2>1 DEF InProgress, LoginAgrees
<1>4. os.user[a] # None
  <2>1. old \in Account
    BY <1>1, RegType DEF Recorded
  <2>2. os.user[a] \in UserEntry
    BY <1>3, <2>1 DEF UserEntry, Account
  <2> QED
    BY <2>2, ApplyAssumption
<1>5. /\ os'.user[a] = [os.user[a] EXCEPT !.login = t.login]
      /\ \A b \in Users : b # a => os'.user[b] = os.user[b]
  <2>1. os.user[a].login = old.login
    BY <1>3
  <2>2. /\ ShellChanged(os, a).user[a] = [os.user[a] EXCEPT !.login = t.login]
        /\ \A b \in Users : b # a => ShellChanged(os, a).user[b] = os.user[b]
    BY <1>0, <1>1, <1>4, <2>1, UidsByShellChanged
  <2> QED
    BY <1>1, <2>2
<1>6. os'.user[a] = [uid |-> t.uid, login |-> t.login, census |-> TRUE]
  <2>1. /\ old.uid \in Uids /\ old.login \in BOOLEAN /\ t.login \in BOOLEAN
    BY <1>1, RegType DEF Recorded, Account
  <2> QED
    BY <1>1, <1>3, <1>5, <2>1, EntryWithShell
<1>7. /\ os'.sudoU[a] = t.sudo
      /\ \A b \in Users : b # a => os'.sudoU[b] = os.sudoU[b]
  BY <1>1, <1>2
<1>8. LoginAgrees(os', a, NewReg[a])
  BY <1>1, <1>6, <1>7, RecAt DEF LoginAgrees, Declared
<1>9. OwnersDiffer'
  BY <1>0, OwnersByDone DEF InProgress
<1> QED
  BY <1>0, <1>1, <1>5, <1>7, <1>8, <1>9, ProgressByAccountStep

LEMMA ProgressByDelete ==
    ASSUME Typed, UidInv, InProgress, NEW a \in Users, DeleteAccount(a)
    PROVE  InProgress'
<1>0. /\ PlanFits /\ os \in Host /\ pc = "run"
      /\ Ready("delete", a) /\ Done("delete", a)
  BY DEF DeleteAccount, UidInv, Ready, Typed, TypeOK
<1>1. /\ Leaving(a) /\ os'.user = [os.user EXCEPT ![a] = None]
      /\ os'.sudoU = [os.sudoU EXCEPT ![a] = {}]
      /\ os'.acl = os.acl
  BY <1>0, AfterDelete
<1>2. os.user \in [Users -> Maybe(UserEntry)] /\ os.sudoU \in [Users -> SUBSET Cmds]
  BY <1>0 DEF Host
<1>3. \A b \in Users : b # a => os'.user[b] = os.user[b] /\ os'.sudoU[b] = os.sudoU[b]
  BY <1>1, <1>2
<1>4. LoginAgrees(os', a, NewReg[a])
  BY <1>1, <1>2, RecAt DEF LoginAgrees, Leaving, Declared
<1>5. OwnersDiffer'
  BY <1>0, OwnersByDone DEF InProgress
<1> QED
  BY <1>0, <1>1, <1>3, <1>4, <1>5, ProgressByAccountStep

\* A step that leaves accounts and fragments alone.
LEMMA ProgressByFilesStep ==
    ASSUME Typed, PlanFits, InProgress, NEW op, NEW n, Ready(op, n), Done(op, n),
           op \notin {"create", "update", "delete"},
           os'.user = os.user, os'.sudoU = os.sudoU, AclAgrees(os', FileRec')
    PROVE  InProgress'
<1>1. \A b \in Users : LoginRec'[b] = LoginRec[b]
  BY RecsByDone
<1>2. \A b \in Users : LoginAgrees(os', b, LoginRec'[b])
  BY <1>1 DEF InProgress, LoginAgrees
<1>3. OwnersDiffer'
  BY OwnersByDone DEF InProgress
<1> QED
  BY <1>2, <1>3 DEF InProgress

LEMMA ProgressByFiles ==
    ASSUME Typed, UidInv, InProgress, NEW a \in Users, AccountFiles(a)
    PROVE  InProgress'
<1> DEFINE t == decl.accounts[a]
           keep == t.files
           drop == RemovedFiles(acctReg, a, keep)
<1>0. /\ PlanFits /\ os \in Host /\ pc = "run" /\ Pending("file_access", a)
      /\ Ready("file_access", a) /\ Done("file_access", a)
  BY PhasesOver DEF AccountFiles, UidInv, Ready, Typed, TypeOK
<1>1. /\ Declared(a) /\ a \notin deferred /\ ~LoginDue(a)
      /\ os'.user = os.user /\ os'.sudoU = os.sudoU
      /\ \/ keep \cup drop = {} /\ os'.acl = os.acl
         \/ /\ os.user[a] # None
            /\ os'.acl = (os.acl \ Acl("u", os.user[a].uid, drop))
                            \cup Acl("u", os.user[a].uid, keep)
  BY <1>0, AfterFiles
<1>2. LoginRec[a] = t /\ NewReg[a] = t /\ t # None /\ FileRec[a] = acctReg[a]
  BY <1>0, <1>1, RecAt DEF Declared, FilesDue
<1>3. os.user[a].uid = t.uid
  <2>1. LoginAgrees(os, a, LoginRec[a])
    BY DEF InProgress
  <2>2. os.user[a] = [uid |-> t.uid, login |-> t.login, census |-> TRUE]
    BY <1>2, <2>1 DEF LoginAgrees
  <2> QED
    BY <2>2
<1>4. Owner(a) # None /\ Owner(a).uid = t.uid /\ (acctReg[a] # None => acctReg[a].uid = t.uid)
  BY <1>0, <1>1, <1>2 DEF Owner, LoginDue, PlanFits, StepsFit, Recorded, Declared
<1>5. \A b \in Users : b # a /\ FileRec[b] # None => FileRec[b].uid # t.uid
  BY <1>0, <1>4, FileOwner DEF InProgress, OwnersDiffer
<1>6. os'.acl = (os.acl \ Acl("u", t.uid, drop)) \cup Acl("u", t.uid, keep)
  <2>1. CASE keep \cup drop = {} /\ os'.acl = os.acl
    <3>1. keep = {} /\ drop = {}
      BY <2>1
    <3>2. Acl("u", t.uid, {}) = {}
      BY DEF Acl
    <3> HIDE DEF keep, drop
    <3> QED
      BY <2>1, <3>1, <3>2
  <2> HIDE DEF keep, drop, t
  <2> QED
    BY <1>1, <1>3, <2>1
<1>7. \A b \in Users : FileRec'[b] = IF b = a THEN t ELSE FileRec[b]
  BY <1>0, <1>2, RecsByDone
<1>8. drop = RemovedFiles(FileRec, a, keep)
  BY <1>2 DEF RemovedFiles
<1>9. /\ AclAgrees(os, FileRec) /\ os.acl \subseteq AclEntry
      /\ FileRec[a] # None => FileRec[a].uid = t.uid
      /\ \A b \in Users : b # a => FileRec'[b] = FileRec[b]
      /\ FileRec'[a] # None /\ FileRec'[a].uid = t.uid /\ FileRec'[a].files = keep
  BY <1>0, <1>2, <1>4, <1>7 DEF InProgress, Host
<1> HIDE DEF t, keep, drop
<1>10. AclAgrees(os', FileRec')
  <2>1. os'.acl = (os.acl \ Acl("u", FileRec'[a].uid,
                                RemovedFiles(FileRec, a, FileRec'[a].files)))
                     \cup Acl("u", FileRec'[a].uid, FileRec'[a].files)
    BY <1>6, <1>8, <1>9
  <2>2. \A b \in Users : b # a /\ FileRec[b] # None => FileRec[b].uid # FileRec'[a].uid
    BY <1>5, <1>9
  <2> QED
    BY <1>9, <2>1, <2>2, AclByReplaced
<1> QED
  BY <1>0, <1>1, <1>10, ProgressByFilesStep

LEMMA ProgressByRevoke ==
    ASSUME Typed, UidInv, InProgress, NEW a \in Users, RevokeDeleted(a)
    PROVE  InProgress'
<1>0. /\ PlanFits /\ os \in Host /\ pc = "run" /\ Pending("revoke_deleted", a)
      /\ Ready("revoke_deleted", a) /\ Done("revoke_deleted", a)
  BY PhasesOver DEF RevokeDeleted, UidInv, Ready, Typed, TypeOK
<1>1. /\ Leaving(a)
      /\ os'.user = os.user /\ os'.sudoU = os.sudoU
      /\ os'.acl = os.acl \ Acl("u", acctReg[a].uid, acctReg[a].files)
  BY <1>0, AfterRevoke
<1>2. FileRec[a] = acctReg[a] /\ FileRec[a] # None /\ NewReg[a] = None
  BY <1>0, <1>1, RecAt DEF Leaving, Declared, Recorded, FilesDue
<1>3. Owner(a) # None /\ Owner(a).uid = FileRec[a].uid
  BY <1>0, <1>2, FileOwner
<1>4. \A b \in Users : b # a /\ FileRec[b] # None => FileRec[b].uid # FileRec[a].uid
  BY <1>0, <1>3, FileOwner DEF InProgress, OwnersDiffer
<1>5. /\ \A b \in Users : b # a => FileRec'[b] = FileRec[b]
      /\ FileRec'[a] = None
  BY <1>0, <1>2, RecsByDone
<1>6. AclAgrees(os, FileRec) /\ os.acl \subseteq AclEntry
  BY <1>0 DEF InProgress, Host
<1>7. os'.acl = os.acl \ Acl("u", FileRec[a].uid, FileRec[a].files)
  BY <1>1, <1>2
<1>8. AclAgrees(os', FileRec')
  BY <1>2, <1>4, <1>5, <1>6, <1>7, AclByRevoked
<1> QED
  BY <1>0, <1>1, <1>8, ProgressByFilesStep

LEMMA ProgressByGroupStep ==
    ASSUME Typed, UidInv, InProgress, NEW g \in Groups,
           CreateGroup(g) \/ GrantGroup(g) \/ TeardownGroup(g) \/ DeleteGroup(g)
    PROVE  InProgress'
<1>1. PICK op \in GroupOps :
         /\ Ready(op, g) /\ Done(op, g)
         /\ os'.user = os.user /\ os'.sudoU = os.sudoU /\ UserAcl(os') = UserAcl(os)
  BY AfterGroupStep DEF GroupOps
<1>2. PlanFits
  BY <1>1 DEF Ready, UidInv
<1>3. op \notin {"create", "update", "delete", "file_access", "revoke_deleted"}
  BY DEF GroupOps
<1>4. \A b \in Users : FileRec'[b] = FileRec[b]
  BY <1>1, <1>2, <1>3, RecsByDone
<1>5. AclAgrees(os', FileRec)
  BY <1>1, AclBySameEntries DEF InProgress
<1>6. AclAgrees(os', FileRec')
  BY <1>4, <1>5 DEF AclAgrees
<1> QED
  BY <1>1, <1>2, <1>3, <1>6, ProgressByFilesStep

-----------------------------------------------------------------------------
(* AgreeInv is kept by every step.                                         *)

\* A new run starts with every account at its old record.
LEMMA AgreeByBegin ==
    ASSUME Typed, UidInv, AgreeInv, NEW d \in Declarations, NEW m, NEW r, Begin(d, m, r)
    PROVE  AgreeInv'
<1> DEFINE late == DeferredAccounts(d, acctReg, IF readable THEN sessions ELSE {})
           work == WorkList(d, acctReg, groupReg, LiveGids, late)
<1>0. d \in Declaration /\ acctReg \in [Users -> Maybe(Account)]
  BY ApplyAssumption DEF Typed, TypeOK
<1>1. /\ decl' = d /\ todo' = work /\ deferred' = late
      /\ UNCHANGED <<os, acctReg, snap, torn>> /\ pc = "idle" /\ snap = None
      /\ pc' \in {"snapshot", "write", "persist"}
  BY DEF Begin, host, UidInv
<1>2. SUFFICES ASSUME ~torn PROVE AgreeInv'
  BY <1>1 DEF AgreeInv
<1>3. AgreesWith(os, acctReg)
  BY <1>1, <1>2 DEF AgreeInv
<1>4. ASSUME NEW a \in Users
      PROVE  /\ Pending("create", a)' <=> d.accounts[a] # None /\ acctReg[a] = None
             /\ LoginRec'[a] = acctReg[a]
             /\ FileRec'[a] = acctReg[a]
  <2>1. /\ [op |-> "create", name |-> a] \in work <=>
              d.accounts[a] # None /\ acctReg[a] = None
        /\ [op |-> "update", name |-> a] \in work <=>
              d.accounts[a] # None /\ acctReg[a] # None /\ d.accounts[a] # acctReg[a]
        /\ [op |-> "delete", name |-> a] \in work <=>
              d.accounts[a] = None /\ acctReg[a] # None /\ a \notin late
        /\ [op |-> "file_access", name |-> a] \in work <=>
              d.accounts[a] # None /\ d.accounts[a] # acctReg[a]
        /\ [op |-> "revoke_deleted", name |-> a] \in work <=>
              d.accounts[a] = None /\ acctReg[a] # None /\ a \notin late
    BY <1>0, WorkExact
  <2> HIDE DEF late, work
  <2>2. /\ LoginRec'[a] = IF LoginDue(a)' THEN acctReg[a]
                          ELSE IF a \in late THEN acctReg[a] ELSE d.accounts[a]
        /\ FileRec'[a] = IF FilesDue(a)' THEN acctReg[a]
                         ELSE IF a \in late THEN acctReg[a] ELSE d.accounts[a]
    BY <1>1 DEF LoginRec, FileRec, NewReg, BuildManagedSet
  <2> QED
    BY <1>1, <2>1, <2>2 DEF LoginDue, FilesDue, Pending
<1> HIDE DEF late, work
<1>5. AgreesWith(os, acctReg)'
  BY <1>1, <1>3 DEF AgreesWith, AclAgrees
<1>6. \A a \in Users : LoginAgrees(os', a, LoginRec'[a])
  BY <1>1, <1>3, <1>4 DEF AgreesWith
<1>7. AclAgrees(os', FileRec')
  BY <1>1, <1>3, <1>4 DEF AgreesWith, AclAgrees
<1>8. OwnersDiffer'
  <2>1. \A a \in Users : Owner(a)' = acctReg[a]
    BY <1>1, <1>4 DEF Owner, Recorded, Declared
  <2>2. ASSUME NEW a \in Users, acctReg[a] # None
        PROVE  os.user[a] # None /\ os.user[a].uid = acctReg[a].uid /\ os.user[a].census
    <3>1. os.user[a] = [uid |-> acctReg[a].uid, login |-> acctReg[a].login, census |-> TRUE]
      BY <1>3, <2>2 DEF AgreesWith, LoginAgrees
    <3>2. acctReg[a] \in Account
      BY <2>2, RegType
    <3>3. os.user[a] \in UserEntry
      BY <3>1, <3>2 DEF UserEntry, Account
    <3>4. os.user[a] # None
      BY <3>3, ApplyAssumption
    <3> QED
      BY <3>1, <3>4
  <2>3. OwnUids(os.user)
    BY DEF UidInv, UidsFit
  <2> QED
    BY <2>1, <2>2, <2>3 DEF OwnersDiffer, OwnUids
<1>9. InProgress'
  BY <1>6, <1>7, <1>8 DEF InProgress
<1> QED
  BY <1>1, <1>5, <1>9 DEF AgreeInv

\* What is in progress depends on the run, the registry and the host only.
LEMMA SameProgress ==
    ASSUME UNCHANGED <<os, acctReg, decl, deferred, todo>>
    PROVE  /\ InProgress' <=> InProgress
           /\ AgreesWith(os, acctReg)' <=> AgreesWith(os, acctReg)
BY DEF InProgress, LoginRec, FileRec, LoginDue, FilesDue, NewReg, OwnersDiffer,
       Owner, Pending, Recorded, Declared, AgreesWith, AclAgrees

\* A step that is done.
LEMMA AgreeByDone ==
    ASSUME Typed, AgreeInv, NEW op, NEW n, Ready(op, n), Done(op, n),
           InProgress => InProgress'
    PROVE  AgreeInv'
<1>1. /\ UNCHANGED <<acctReg, pc, snap, torn>> /\ pc = "run"
  BY DEF Done, Ready, history
<1>2. AgreesWith(snap, acctReg)' <=> AgreesWith(snap, acctReg)
  BY <1>1 DEF AgreesWith, AclAgrees
<1> QED
  BY <1>1, <1>2 DEF AgreeInv

\* The end of the process.
LEMMA AgreeByExit ==
    ASSUME Exit, acctReg' = acctReg, ~torn' => AgreesWith(os', acctReg)
    PROVE  AgreeInv'
<1>1. ~torn' => AgreesWith(os, acctReg)'
  BY DEF AgreesWith, AclAgrees
<1> QED
  BY <1>1 DEF AgreeInv, Exit

LEMMA AgreeByProgress ==
    ASSUME Typed, Covered, UidInv, AgreeInv, Progress PROVE AgreeInv'
<1>1. CASE Snapshot
  <2>1. /\ UNCHANGED <<os, acctReg, decl, deferred, todo, torn>>
        /\ pc = "snapshot" /\ pc' = "run" /\ snap' = os
    BY <1>1 DEF Snapshot, host, run, history
  <2>2. ~torn => AgreesWith(os, acctReg) /\ InProgress
    BY <2>1 DEF AgreeInv
  <2>3. ~torn => AgreesWith(snap, acctReg)' /\ InProgress'
    BY <2>1, <2>2, SameProgress DEF AgreesWith, AclAgrees
  <2> QED
    BY <2>1, <2>3 DEF AgreeInv
<1>2. ASSUME NEW a \in Users,
             \/ CreateAccount(a) \/ UpdateAccount(a) \/ DeleteAccount(a)
             \/ AccountFiles(a) \/ RevokeDeleted(a)
      PROVE  AgreeInv'
  <2>1. InProgress => InProgress'
    BY <1>2, ProgressByCreate, ProgressByUpdate, ProgressByDelete,
       ProgressByFiles, ProgressByRevoke
  <2>2. \E op : Ready(op, a) /\ Done(op, a)
    BY <1>2 DEF CreateAccount, UpdateAccount, DeleteAccount, AccountFiles, RevokeDeleted
  <2> QED
    BY <2>1, <2>2, AgreeByDone
<1>3. ASSUME NEW g \in Groups,
             CreateGroup(g) \/ GrantGroup(g) \/ TeardownGroup(g) \/ DeleteGroup(g)
      PROVE  AgreeInv'
  <2>1. InProgress => InProgress'
    BY <1>3, ProgressByGroupStep
  <2>2. \E op : Ready(op, g) /\ Done(op, g)
    BY <1>3 DEF CreateGroup, GrantGroup, TeardownGroup, DeleteGroup
  <2> QED
    BY <2>1, <2>2, AgreeByDone
<1>4. CASE PhasesDone
  <2>1. /\ UNCHANGED <<os, acctReg, decl, deferred, todo, snap, torn>>
        /\ pc = "run" /\ pc' = "write" /\ snap # None
    BY <1>4 DEF PhasesDone, host, run, history, Typed, TypeOK
  <2>2. AgreesWith(snap, acctReg)' <=> AgreesWith(snap, acctReg)
    BY <2>1 DEF AgreesWith, AclAgrees
  <2> QED
    BY <2>1, <2>2, SameProgress DEF AgreeInv
<1>5. CASE WriteRegistry
  <2>1. /\ todo = {} /\ pc = "write" /\ pc' = "persist" /\ UNCHANGED <<os, torn>>
        /\ acctReg' = NewReg
    BY <1>5 DEF WriteRegistry, Typed, WorkOK, NewReg
  <2>2. \A a \in Users : LoginRec[a] = acctReg'[a] /\ FileRec[a] = acctReg'[a]
    BY <2>1, RecAt DEF LoginDue, FilesDue, Pending
  <2>3. ~torn => InProgress
    BY <2>1 DEF AgreeInv
  <2>4. ~torn => AgreesWith(os', acctReg')
    BY <2>1, <2>2, <2>3 DEF InProgress, AgreesWith, AclAgrees
  <2> QED
    BY <2>1, <2>4 DEF AgreeInv
<1>6. CASE PersistVersion
  <2>1. pc = "persist" /\ Exit /\ UNCHANGED <<os, acctReg, torn>>
    BY <1>6 DEF PersistVersion, history
  <2> QED
    BY <2>1, AgreeByExit DEF AgreeInv
<1>7. CASE Rollback
  <2>1. /\ pc = "rollback" /\ Exit /\ UNCHANGED <<acctReg, torn>>
        /\ snap \in Host /\ snap # None
    BY <1>7 DEF Rollback, history, Typed, TypeOK, Maybe
  <2>2. os' = [snap EXCEPT !.home = os'.home]
    BY <1>7, RestoreIsExact
  <2>3. os'.user = snap.user /\ os'.sudoU = snap.sudoU /\ os'.acl = snap.acl
    BY <2>1, <2>2 DEF Host
  <2>4. ~torn => AgreesWith(snap, acctReg)
    BY <2>1 DEF AgreeInv
  <2>5. ~torn' => AgreesWith(os', acctReg)
    BY <2>1, <2>3, <2>4 DEF AgreesWith, LoginAgrees, AclAgrees, PathsOf
  <2> QED
    BY <2>1, <2>5, AgreeByExit
<1> QED
  BY <1>1, <1>2, <1>3, <1>4, <1>5, <1>6, <1>7 DEF Progress

LEMMA AgreeByFailure ==
    ASSUME Typed, AgreeInv, Failure PROVE AgreeInv'
<1>1. ASSUME NEW s \in todo, StepFails(s.op, s.name) PROVE AgreeInv'
  <2>1. /\ UNCHANGED <<acctReg, snap, torn>> /\ pc = "run" /\ pc' = "rollback"
    BY <1>1 DEF StepFails, Ready, history
  <2>2. AgreesWith(snap, acctReg)' <=> AgreesWith(snap, acctReg)
    BY <2>1 DEF AgreesWith, AclAgrees
  <2> QED
    BY <2>1, <2>2 DEF AgreeInv
<1>2. CASE RollbackLeavesFragment \/ RollbackFails
  BY <1>2, AgreeByExit DEF RollbackLeavesFragment, RollbackFails
<1>3. CASE SnapshotFails \/ WriteRegistryFails \/ PersistVersionFails \/ Crash
  <2>1. /\ Exit /\ UNCHANGED <<os, acctReg>>
    BY <1>3 DEF SnapshotFails, WriteRegistryFails, PersistVersionFails, Crash, host
  <2>2. ~torn' => /\ ~torn
                  /\ \/ pc \in {"idle", "snapshot", "persist"}
                     \/ pc = "write" /\ snap = None
    BY <1>3 DEF SnapshotFails, WriteRegistryFails, PersistVersionFails, Crash,
                history, Typed, TypeOK, PcValues
  <2> QED
    BY <2>1, <2>2, AgreeByExit DEF AgreeInv
<1> QED
  BY <1>1, <1>2, <1>3 DEF Failure

-----------------------------------------------------------------------------
(* Together.                                                               *)

Known == Typed /\ HostInv /\ Covered /\ AccountsInv

LEMMA InitKnown == Init => Known
<1> SUFFICES ASSUME Init PROVE Known
  OBVIOUS
<1>1. Typed /\ HostInv /\ Covered
  BY InitTyped, InitHost DEF Init, Covered
<1>2. /\ pc = "idle" /\ snap = None /\ acctReg = [a \in Users |-> None]
      /\ os.user = HostUsers /\ os.sudoU = [a \in Users |-> {}] /\ os.acl = {}
  BY DEF Init
<1>3. HostUsers \in [Users -> Maybe(UserEntry)]
      /\ \A a \in Users : HostUsers[a] # None => ~HostUsers[a].census
  BY ApplyAssumption DEF Present
<1>4. UidInv
  BY <1>2, <1>3 DEF UidInv, UidsFit, OwnUids, RecordedUids, Recorded
<1>5. DeferInv
  BY <1>2 DEF DeferInv
<1>6. AgreeInv
  BY <1>2, <1>3 DEF AgreeInv, AgreesWith, LoginAgrees, AclAgrees
<1> QED
  BY <1>1, <1>4, <1>5, <1>6 DEF Known, AccountsInv

LEMMA NextKnown == Known /\ [Next]_vars => Known'
<1> SUFFICES ASSUME Known, [Next]_vars PROVE Known'
  OBVIOUS
<1>0. Typed /\ HostInv /\ Covered /\ UidInv /\ DeferInv /\ AgreeInv
  BY DEF Known, AccountsInv
<1>1. Typed' /\ HostInv' /\ Covered' /\ DeferInv'
  BY <1>0, NextTyped, NextHost, NextCovered, NextDefer
<1>2. UidInv' /\ AgreeInv'
  <2>1. CASE Start
    BY <1>0, <2>1, UidByBegin, AgreeByBegin DEF Start
  <2>2. CASE Progress
    BY <1>0, <2>2, UidByProgress, AgreeByProgress
  <2>3. CASE Failure
    BY <1>0, <2>3, UidByFailure, AgreeByFailure
  <2>4. CASE Sessions \/ UNCHANGED vars
    <3>1. UNCHANGED <<os, acctReg, decl, deferred, risk, todo, snap, pc, torn>>
      BY <2>4 DEF Sessions, OpenSession, CloseSession, SpoilSessions, vars, host,
                  run, history
    <3>2. UidInv'
      <4>1. PlanFits' <=> PlanFits
        BY <3>1
        DEF PlanFits, StepsFit, LockoutGate, TouchedAccounts, SurvivingLogins,
            CreatedAccounts, UpdatedAccounts, VanishedAccounts, Present, Pending,
            Leaving, Recorded, Declared
      <4>2. /\ UidsFit(os.user)' <=> UidsFit(os.user)
            /\ UidsFit(snap.user)' <=> UidsFit(snap.user)
        BY <3>1 DEF UidsFit, OwnUids, RecordedUids, Recorded
      <4> QED
        BY <1>0, <3>1, <4>1, <4>2 DEF UidInv, Pending, Recorded, Declared
    <3>3. AgreesWith(snap, acctReg)' <=> AgreesWith(snap, acctReg)
      BY <3>1 DEF AgreesWith, AclAgrees
    <3>4. AgreeInv'
      BY <1>0, <3>1, <3>3, SameProgress DEF AgreeInv
    <3> QED
      BY <3>2, <3>4
  <2> QED
    BY <2>1, <2>2, <2>3, <2>4 DEF Next
<1> QED
  BY <1>1, <1>2 DEF Known, AccountsInv

\* Between two runs that were not cut short, every recorded account is on the
\* host with the recorded uid and shell and exactly the recorded sudo rules
\* and ACL entries, and nothing of an unrecorded one is left, whatever runs
\* failed and were rolled back in between (build_managed_set, phases 2 and 3,
\* Backup::restore).
THEOREM RegistryIsTrue == Spec => []AccountsAgree
<1>1. Known => AccountsAgree
  <2> SUFFICES ASSUME Known, Settled PROVE AccountsAgree
    BY DEF AccountsAgree
  <2>1. AgreesWith(os, acctReg)
    BY DEF Known, AccountsInv, AgreeInv, Settled
  <2>2. \A uid : UserPaths(uid) = PathsOf(os, uid)
    BY DEF UserPaths, PathsOf
  <2> QED
    BY <2>1, <2>2 DEF AccountsAgree, AgreesWith, LoginAgrees, AclAgrees
<1> QED
  BY <1>1, InitKnown, NextKnown, PTL DEF Spec

\* No step of a run takes anything from an account the run deferred: its
\* entry, its fragment, its ACL entries, the groups it is recorded in
\* (reconcile_live_sessions, deferred_group_names).
THEOREM DeferredAreKept == Spec => []DeferredKept
<1>1. Known => DeferredKept
  BY DEF Known, AccountsInv, DeferInv, DeferredKept
<1> QED
  BY <1>1, InitKnown, NextKnown, PTL DEF Spec

\* The anti-lockout gate, which sees a plan and recorded shells only, protects
\* a login that works on the host once the plan is carried out (lockout::gate).
THEOREM LoginDoesSurvive == Spec => LoginSurvives
<1>1. Known /\ Known' /\ [Next]_vars =>
        [/\ pc = "write" /\ pc' = "persist"
         /\ ~risk /\ ~torn
         /\ \E a \in Present(acctReg) : acctReg[a].login
         => \E a \in Present(acctReg') : /\ acctReg'[a].login
                                         /\ os.user[a] # None
                                         /\ os.user[a].login]_vars
  <2> SUFFICES ASSUME Known, Known', [Next]_vars, pc = "write", pc' = "persist",
                      ~risk, ~torn,
                      \E a \in Present(acctReg) : acctReg[a].login
               PROVE  \E a \in Present(acctReg') : /\ acctReg'[a].login
                                                   /\ os.user[a] # None
                                                   /\ os.user[a].login
    OBVIOUS
  <2>1. WriteRegistry
    BY DEF Next, Start, Begin, Progress, Failure, Sessions, Snapshot, CreateGroup,
       GrantGroup, TeardownGroup, DeleteGroup, CreateAccount, UpdateAccount,
       DeleteAccount, AccountFiles, RevokeDeleted, Ready, PhasesDone,
       PersistVersion, Rollback, SnapshotFails, StepFails, RollbackFails,
       RollbackLeavesFragment, WriteRegistryFails, PersistVersionFails, Crash,
       Exit, OpenSession, CloseSession, SpoilSessions, vars
  <2>2. /\ acctReg' = NewReg /\ UNCHANGED <<os, torn>>
        /\ PlanFits /\ Typed /\ Typed'
    BY <2>1 DEF WriteRegistry, NewReg, Known, AccountsInv, UidInv
  <2>3. AgreesWith(os', acctReg')
    BY <2>2 DEF Known, AccountsInv, AgreeInv
  <2>4. /\ DOMAIN acctReg = Users /\ DOMAIN acctReg' = Users
        /\ DOMAIN decl.accounts = Users
    BY <2>2, DeclType DEF Typed, TypeOK
  <2>5. \E a \in Users : acctReg'[a] # None /\ acctReg'[a].login
    <3>1. \A a \in Users : acctReg'[a] = IF a \in deferred THEN acctReg[a]
                                         ELSE decl.accounts[a]
      BY <2>2, RecAt
    <3>2. \A a \in deferred : decl.accounts[a] = None
      BY <2>2 DEF PlanFits, StepsFit, Declared, Typed, TypeOK
    <3>3. \A a \in Users : acctReg[a] # None
             /\ a \notin TouchedAccounts(decl, acctReg, deferred)
             => acctReg'[a] = acctReg[a]
      BY <2>4, <3>1 DEF TouchedAccounts, CreatedAccounts, UpdatedAccounts,
                        VanishedAccounts, Present
    <3>4. CASE TouchedAccounts(decl, acctReg, deferred) = {}
      <4>1. PICK a \in Users : acctReg[a] # None /\ acctReg[a].login
        BY <2>4 DEF Present
      <4> QED
        BY <3>3, <3>4, <4>1
    <3>5. CASE SurvivingLogins(decl, acctReg, deferred) # {}
      <4>1. PICK a : a \in SurvivingLogins(decl, acctReg, deferred)
        BY <3>5
      <4>2. CASE /\ a \in CreatedAccounts(decl, acctReg) \cup UpdatedAccounts(decl, acctReg)
                 /\ decl.accounts[a].login
        <5>1. a \in Users /\ decl.accounts[a] # None
          BY <2>4, <4>2 DEF CreatedAccounts, UpdatedAccounts, Present
        <5> QED
          BY <3>1, <3>2, <4>2, <5>1
      <4>3. CASE /\ a \in Present(acctReg) \ TouchedAccounts(decl, acctReg, deferred)
                 /\ acctReg[a].login
        BY <2>4, <3>3, <4>3 DEF Present
      <4> QED
        BY <4>1, <4>2, <4>3 DEF SurvivingLogins
    <3> QED
      BY <2>2, <3>4, <3>5 DEF PlanFits, LockoutGate
  <2>6. PICK a \in Users : acctReg'[a] # None /\ acctReg'[a].login
    BY <2>5
  <2>7. os.user[a] = [uid |-> acctReg'[a].uid, login |-> acctReg'[a].login, census |-> TRUE]
    BY <2>2, <2>3, <2>6 DEF AgreesWith, LoginAgrees
  <2>8. os.user[a] # None
    <3>1. acctReg'[a] \in Account
      BY <2>2, <2>6 DEF Typed, TypeOK, Maybe
    <3>2. os.user[a] \in UserEntry
      BY <2>7, <3>1 DEF UserEntry, Account
    <3> QED
      BY <3>2, ApplyAssumption
  <2> QED
    BY <2>4, <2>6, <2>7, <2>8 DEF Present
<1> QED
  BY <1>1, InitKnown, NextKnown, PTL DEF Spec, LoginSurvives

=============================================================================
