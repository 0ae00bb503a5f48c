---------------------------- MODULE ApplyProofs -----------------------------
(***************************************************************************)
(* Proofs about Apply, for every set of users, groups, declarations and    *)
(* every number of faults.                                                 *)
(***************************************************************************)
EXTENDS Apply, TLAPS

-----------------------------------------------------------------------------
(* The pieces a run is made of stay in their types.                        *)

\* What a step left to do may rely on: an account or a group step names a
\* target or a record that exists (WorkList).
WorkOK ==
    /\ pc \in {"idle", "write", "persist"} => todo = {}
    /\ \A s \in todo :
        /\ s.op \in {"create", "update", "file_access"} =>
              decl.accounts[s.name] # None
        /\ s.op \in {"update", "delete", "revoke_deleted"} =>
              acctReg[s.name] # None
        /\ s.op = "grant" => decl.groups[s.name] # None
        /\ s.op = "teardown" => groupReg[s.name] # None

Typed == TypeOK /\ WorkOK

\* A declared account or group has the type of one.
LEMMA DeclType ==
    ASSUME Typed, decl # None
    PROVE  /\ decl \in Declaration
           /\ decl.version \in Nat
           /\ decl.accounts \in [Users -> Maybe(Account)]
           /\ decl.groups \in [Groups -> Maybe(Group)]
           /\ \A a \in Users : decl.accounts[a] # None => decl.accounts[a] \in Account
           /\ \A g \in Groups : decl.groups[g] # None => decl.groups[g] \in Group
           /\ \A g \in Groups : Pin(decl, g) \in Maybe(Gids)
<1>1. decl \in Declaration
  BY ApplyAssumption DEF Typed, TypeOK, Maybe
<1>2. /\ decl.version \in Nat
      /\ decl.accounts \in [Users -> Maybe(Account)]
      /\ decl.groups \in [Groups -> Maybe(Group)]
  BY <1>1 DEF Declaration
<1>3. /\ \A a \in Users : decl.accounts[a] # None => decl.accounts[a] \in Account
      /\ \A g \in Groups : decl.groups[g] # None => decl.groups[g] \in Group
  BY <1>2 DEF Maybe
<1>4. \A g \in Groups : Pin(decl, g) \in Maybe(Gids)
  BY <1>3 DEF Pin, Maybe, Group
<1> QED
  BY <1>1, <1>2, <1>3, <1>4

\* A recorded account or group has the type of one.
LEMMA RegType ==
    ASSUME Typed
    PROVE  /\ \A a \in Users : acctReg[a] # None => acctReg[a] \in Account
           /\ \A g \in Groups : groupReg[g] # None => groupReg[g] \in ManagedGroup
           /\ LiveGids \in [Groups -> Maybe(Gids)]
<1>1. /\ \A a \in Users : acctReg[a] # None => acctReg[a] \in Account
      /\ \A g \in Groups : groupReg[g] # None => groupReg[g] \in ManagedGroup
  BY DEF Typed, TypeOK, Maybe
<1>2. \A g \in Groups : os.group[g] # None => os.group[g].gid \in Gids
  BY DEF Typed, TypeOK, Maybe, Host, GroupEntry
<1>3. LiveGids \in [Groups -> Maybe(Gids)]
  BY <1>2 DEF LiveGids, Maybe
<1> QED
  BY <1>1, <1>3

\* Starting state.
LEMMA InitTyped == Init => Typed
<1> SUFFICES ASSUME Init PROVE Typed
  OBVIOUS
<1>1. os \in Host
  BY ApplyAssumption DEF Init, Host, Maybe
<1>2. TypeOK
  BY <1>1 DEF Init, TypeOK, Maybe, PcValues
<1>3. WorkOK
  BY DEF Init, WorkOK
<1> QED
  BY <1>2, <1>3 DEF Typed

-----------------------------------------------------------------------------
(* The work list.                                                          *)

\* Work makes one step per name.
LEMMA WorkMember ==
    ASSUME NEW op, NEW names, NEW s
    PROVE  s \in Work(op, names) <=> \E n \in names : s = [op |-> op, name |-> n]
BY DEF Work

\* Every step of a work list is about an account or a group that gives it its
\* data (WorkList, from plan::diff, diff_groups and diff_resolved_groups).
LEMMA WorkListType ==
    ASSUME NEW d \in Declaration, NEW late, NEW live,
           acctReg \in [Users -> Maybe(Account)],
           groupReg \in [Groups -> Maybe(ManagedGroup)]
    PROVE  \A s \in WorkList(d, acctReg, groupReg, live, late) :
              /\ s \in Steps
              /\ s.op \in {"create", "update", "file_access"} =>
                    d.accounts[s.name] # None
              /\ s.op \in {"update", "delete", "revoke_deleted"} =>
                    acctReg[s.name] # None
              /\ s.op = "grant" => d.groups[s.name] # None
              /\ s.op = "teardown" => groupReg[s.name] # None
<1> DEFINE touched == CreatedAccounts(d, acctReg) \cup UpdatedAccounts(d, acctReg)
           gone == VanishedAccounts(d, acctReg) \ late
<1>0. /\ DOMAIN d.accounts = Users /\ DOMAIN d.groups = Groups
      /\ \A a \in Users : d.accounts[a] # None => d.accounts[a] \in Account
  BY DEF Declaration, Maybe
<1>1. /\ CreatedAccounts(d, acctReg) \subseteq Users
      /\ UpdatedAccounts(d, acctReg) \subseteq Users
      /\ gone \subseteq Users
      /\ touched \subseteq Users
  BY <1>0 DEF CreatedAccounts, UpdatedAccounts, VanishedAccounts, Present
<1>2. /\ \A a \in touched : d.accounts[a] # None
      /\ \A a \in CreatedAccounts(d, acctReg) : d.accounts[a] # None
      /\ \A a \in UpdatedAccounts(d, acctReg) : d.accounts[a] # None /\ acctReg[a] # None
      /\ \A a \in gone : acctReg[a] # None
  BY DEF CreatedAccounts, UpdatedAccounts, VanishedAccounts, Present
<1>3. /\ GrantedGroups(d, groupReg) \subseteq Groups
      /\ DroppedGroups(d, groupReg) \subseteq Groups
      /\ OrphanGroups(d, groupReg) \subseteq Groups
  BY <1>0 DEF GrantedGroups, DroppedGroups, OrphanGroups, Present
<1>4. MissingGroups(d, live) \subseteq Groups
  <2>1. \A a \in Present(d.accounts) : d.accounts[a].groups \subseteq Groups
    BY <1>0 DEF Present, Account
  <2> QED
    BY <1>0, <2>1 DEF MissingGroups, RequiredGroups, Present
<1>5. /\ \A g \in GrantedGroups(d, groupReg) : d.groups[g] # None
      /\ \A g \in DroppedGroups(d, groupReg) : groupReg[g] # None
  BY DEF GrantedGroups, DroppedGroups, Present
<1>6. SUFFICES ASSUME NEW s \in WorkList(d, acctReg, groupReg, live, late)
               PROVE  /\ s \in Steps
                      /\ s.op \in {"create", "update", "file_access"} =>
                            d.accounts[s.name] # None
                      /\ s.op \in {"update", "delete", "revoke_deleted"} =>
                            acctReg[s.name] # None
                      /\ s.op = "grant" => d.groups[s.name] # None
                      /\ s.op = "teardown" => groupReg[s.name] # None
  OBVIOUS
<1>7. \/ s \in Work("create_group", MissingGroups(d, live))
      \/ s \in Work("create", CreatedAccounts(d, acctReg))
      \/ s \in Work("update", UpdatedAccounts(d, acctReg))
      \/ s \in Work("delete", gone)
      \/ s \in Work("file_access", touched)
      \/ s \in Work("revoke_deleted", gone)
      \/ s \in Work("grant", GrantedGroups(d, groupReg))
      \/ s \in Work("teardown", DroppedGroups(d, groupReg))
      \/ s \in Work("delete_group", OrphanGroups(d, groupReg))
  BY Zenon DEF WorkList, Work
<1> HIDE DEF touched, gone
<1>8. CASE s \in Work("create_group", MissingGroups(d, live))
  BY <1>8, <1>4, WorkMember DEF Steps, GroupOps
<1>9. CASE s \in Work("create", CreatedAccounts(d, acctReg))
  BY <1>9, <1>1, <1>2, WorkMember DEF Steps, AccountOps
<1>10. CASE s \in Work("update", UpdatedAccounts(d, acctReg))
  BY <1>10, <1>1, <1>2, WorkMember DEF Steps, AccountOps
<1>11. CASE s \in Work("delete", gone)
  BY <1>11, <1>1, <1>2, WorkMember DEF Steps, AccountOps
<1>12. CASE s \in Work("file_access", touched)
  BY <1>12, <1>1, <1>2, WorkMember DEF Steps, AccountOps
<1>13. CASE s \in Work("revoke_deleted", gone)
  BY <1>13, <1>1, <1>2, WorkMember DEF Steps, AccountOps
<1>14. CASE s \in Work("grant", GrantedGroups(d, groupReg))
  BY <1>14, <1>3, <1>5, WorkMember DEF Steps, GroupOps
<1>15. CASE s \in Work("teardown", DroppedGroups(d, groupReg))
  BY <1>15, <1>3, <1>5, WorkMember DEF Steps, GroupOps
<1>16. CASE s \in Work("delete_group", OrphanGroups(d, groupReg))
  BY <1>16, <1>3, WorkMember DEF Steps, GroupOps
<1> QED
  BY <1>7, <1>8, <1>9, <1>10, <1>11, <1>12, <1>13, <1>14, <1>15, <1>16

-----------------------------------------------------------------------------
(* What the host tools make of a host is a host.                           *)

LEMMA GroupAddedType ==
    ASSUME Typed, NEW g \in Groups, NEW id \in Gids
    PROVE  GroupAdded(g, id) \in Host
BY DEF Typed, TypeOK, GroupAdded, Host, GroupEntry, Maybe

LEMMA UserAddedType ==
    ASSUME Typed, NEW a \in Users, decl.accounts[a] \in Account
    PROVE  UserAdded(a) \in Host
BY DEF Typed, TypeOK, UserAdded, Host, UserEntry, Maybe, Account

LEMMA WithSudoType ==
    ASSUME NEW h \in Host, NEW a \in Users, NEW c \in SUBSET Cmds
    PROVE  WithSudo(h, a, c) \in Host
BY DEF WithSudo, Host

LEMMA ShellChangedType ==
    ASSUME NEW h \in Host, NEW a \in Users, decl.accounts[a] \in Account,
           decl.accounts[a].login # acctReg[a].login => h.user[a] # None
    PROVE  ShellChanged(h, a) \in Host
<1>1. CASE decl.accounts[a].login = acctReg[a].login
  BY <1>1 DEF ShellChanged
<1>2. CASE decl.accounts[a].login # acctReg[a].login
  <2> DEFINE e == [h.user[a] EXCEPT !.login = decl.accounts[a].login]
             u == [h.user EXCEPT ![a] = e]
  <2>1. h.user[a] \in UserEntry
    BY <1>2 DEF Host, Maybe
  <2>2. decl.accounts[a].login \in BOOLEAN
    BY DEF Account
  <2>3. e \in UserEntry
    BY <2>1, <2>2 DEF UserEntry
  <2>4. u \in [Users -> Maybe(UserEntry)]
    BY <2>3 DEF Host, Maybe
  <2>5. ShellChanged(h, a) = [h EXCEPT !.user = u]
    BY <1>2 DEF ShellChanged
  <2> HIDE DEF u
  <2> QED
    BY <2>4, <2>5 DEF Host
<1> QED
  BY <1>1, <1>2

LEMMA GroupsReplacedType ==
    ASSUME NEW h \in Host, NEW a \in Users
    PROVE  GroupsReplaced(h, a) \in Host
BY DEF GroupsReplaced, Host

LEMMA UserDeletedType ==
    ASSUME NEW h \in Host, NEW a \in Users
    PROVE  UserDeleted(h, a) \in Host
BY DEF UserDeleted, Host, Maybe

LEMMA AclType ==
    ASSUME NEW k \in {"u", "g"}, NEW id \in Uids \cup Gids,
           NEW ps \in SUBSET Paths
    PROVE  Acl(k, id, ps) \subseteq AclEntry
BY DEF Acl, AclEntry

LEMMA FileAccessType ==
    ASSUME NEW h \in Host, NEW a \in Users, h.user[a] # None,
           NEW r, NEW ps \in SUBSET Paths
    PROVE  FileAccess(h, a, r, ps) \in Host
<1>1. h.user[a].uid \in Uids
  BY DEF Host, UserEntry, Maybe
<1>2. Acl("u", h.user[a].uid, ps) \subseteq AclEntry
  BY <1>1, AclType
<1>3. (h.acl \ Acl("u", h.user[a].uid, r)) \cup Acl("u", h.user[a].uid, ps)
        \subseteq AclEntry
  BY <1>2 DEF Host
<1> QED
  BY <1>3 DEF FileAccess, Host

LEMMA GrantedType ==
    ASSUME Typed, NEW g \in Groups, decl.groups[g] \in Group,
           NEW ps \in SUBSET Paths, NEW r, NEW j \in SUBSET Users, NEW l,
           ps \cup r # {} => os.group[g] # None
    PROVE  Granted(g, ps, r, j, l) \in Host
<1> DEFINE acl == IF ps \cup r = {} THEN os.acl
                  ELSE (os.acl \cup Acl("g", GroupGid(g), ps))
                          \ Acl("g", GroupGid(g), r)
<1>1. acl \subseteq AclEntry
  <2>1. CASE ps \cup r = {}
    BY <2>1 DEF Typed, TypeOK, Host
  <2>2. CASE ps \cup r # {}
    <3>1. GroupGid(g) \in Gids
      BY <2>2 DEF Typed, TypeOK, Host, GroupEntry, Maybe, GroupGid
    <3>2. Acl("g", GroupGid(g), ps) \subseteq AclEntry
      BY <3>1, AclType
    <3> QED
      BY <3>2 DEF Typed, TypeOK, Host
  <2> QED
    BY <2>1, <2>2
<1>2. decl.groups[g].sudo \subseteq Cmds
  BY DEF Group
<1> DEFINE sudo == [os.sudoG EXCEPT ![g] = decl.groups[g].sudo]
           mem == [os.mem EXCEPT ![g] = (@ \cup j) \ l]
<1>3. /\ sudo \in [Groups -> SUBSET Cmds]
      /\ mem \in [Groups -> SUBSET Users]
  BY <1>2 DEF Typed, TypeOK, Host
<1>4. Granted(g, ps, r, j, l) = [os EXCEPT !.sudoG = sudo, !.acl = acl, !.mem = mem]
  BY DEF Granted
<1> HIDE DEF acl, sudo, mem
<1> QED
  BY <1>1, <1>3, <1>4 DEF Typed, TypeOK, Host

LEMMA TorndownType ==
    ASSUME Typed, NEW g \in Groups, NEW r, NEW l
    PROVE  Torndown(g, r, l) \in Host
BY DEF Typed, TypeOK, Torndown, Host

LEMMA RestoreAuthType ==
    ASSUME NEW h \in Host, snap \in Host, NEW p, NEW q, NEW us, NEW gs
    PROVE  RestoreAuth(h, p, q, us, gs) \in Host
BY DEF RestoreAuth, Host

LEMMA RestoreAclType ==
    ASSUME NEW h \in Host, snap \in Host, NEW ps
    PROVE  RestoreAcl(h, ps) \in Host
BY DEF RestoreAcl, Host

-----------------------------------------------------------------------------
(* One lemma per kind of step.                                             *)

\* What a step that is next knows of its name.
LEMMA StepData ==
    ASSUME Typed, NEW op, NEW n, Ready(op, n)
    PROVE  /\ pc = "run" /\ decl # None /\ snap \in Host
           /\ op \in AccountOps \cup GroupOps
           /\ op \in AccountOps => n \in Users
           /\ op \in GroupOps => n \in Groups
           /\ op \in {"create", "update", "file_access"} =>
                 decl.accounts[n] \in Account
           /\ op \in {"update", "delete", "revoke_deleted"} =>
                 acctReg[n] \in Account
           /\ op = "grant" => decl.groups[n] \in Group
           /\ op = "teardown" => groupReg[n] \in ManagedGroup
<1>1. pc = "run" /\ decl # None /\ snap \in Host
  BY DEF Ready, Typed, TypeOK, Maybe
<1> DEFINE s == [op |-> op, name |-> n]
<1>2. s \in todo /\ s \in Steps
  BY DEF Ready, Typed, TypeOK
<1>3. /\ op \in AccountOps \cup GroupOps
      /\ op \in AccountOps => n \in Users
      /\ op \in GroupOps => n \in Groups
  BY <1>2 DEF Steps, AccountOps, GroupOps
<1>4. /\ op \in {"create", "update", "file_access"} => decl.accounts[n] # None
      /\ op \in {"update", "delete", "revoke_deleted"} => acctReg[n] # None
      /\ op = "grant" => decl.groups[n] # None
      /\ op = "teardown" => groupReg[n] # None
  BY <1>2 DEF Typed, WorkOK
<1> QED
  BY <1>1, <1>3, <1>4, DeclType, RegType DEF AccountOps, GroupOps

\* A step that is done leaves a typed state if its host is one.
LEMMA DoneTyped ==
    ASSUME Typed, NEW op, NEW n, Ready(op, n), Done(op, n), os' \in Host,
           made' \in SUBSET Groups, baselines' \in [Groups -> Maybe(SUBSET Users)]
    PROVE  Typed'
<1>1. TypeOK'
  BY DEF Typed, TypeOK, Done, env, history
<1>2. WorkOK'
  BY DEF Typed, WorkOK, Done, Ready, env, history
<1> QED
  BY <1>1, <1>2 DEF Typed

\* The end of the process leaves a typed state if its host is one.
LEMMA ExitTyped ==
    ASSUME Typed, Exit, os' \in Host, floor' \in Nat, faults' \in Nat,
           torn' \in BOOLEAN, UNCHANGED <<acctReg, groupReg, env, applied, high>>
    PROVE  Typed'
<1>1. TypeOK'
  BY DEF Typed, TypeOK, Exit, env, Maybe, PcValues
<1>2. WorkOK'
  BY DEF WorkOK, Exit
<1> QED
  BY <1>1, <1>2 DEF Typed

LEMMA BeginTyped ==
    ASSUME Typed, NEW d \in Declarations, NEW m \in BOOLEAN, NEW r \in BOOLEAN,
           Begin(d, m, r)
    PROVE  Typed'
<1> DEFINE late == DeferredAccounts(d, acctReg, IF readable THEN sessions ELSE {})
           work == WorkList(d, acctReg, groupReg, LiveGids, late)
<1>1. d \in Declaration /\ d # None /\ d.version \in Nat
  BY ApplyAssumption DEF Declaration
<1>2. late \subseteq Users
  BY DEF DeferredAccounts, VanishedAccounts, Present, Typed, TypeOK
<1>3. /\ work \subseteq Steps
      /\ \A s \in work :
            /\ s.op \in {"create", "update", "file_access"} =>
                  d.accounts[s.name] # None
            /\ s.op \in {"update", "delete", "revoke_deleted"} =>
                  acctReg[s.name] # None
            /\ s.op = "grant" => d.groups[s.name] # None
            /\ s.op = "teardown" => groupReg[s.name] # None
  BY <1>1, WorkListType DEF Typed, TypeOK
<1>4. /\ decl' = d /\ managed' = m /\ risk' = r /\ deferred' = late
      /\ todo' = work
      /\ pc' = IF work # {} THEN "snapshot" ELSE IF late # {} THEN "write" ELSE "persist"
      /\ applied' \in {applied, d, None} /\ high' \in {high, d.version}
      /\ UNCHANGED <<os, acctReg, groupReg, floor, sessions, readable, made,
                     baselines, snap, faults, torn>>
  BY DEF Begin, Record, host, env
<1> HIDE DEF late, work
<1>5. TypeOK'
  BY <1>1, <1>2, <1>3, <1>4 DEF Typed, TypeOK, Maybe, PcValues
<1>6. WorkOK'
  BY <1>3, <1>4 DEF WorkOK
<1> QED
  BY <1>5, <1>6 DEF Typed

LEMMA SnapshotTyped == ASSUME Typed, Snapshot PROVE Typed'
<1>1. TypeOK'
  BY ApplyAssumption
  DEF Typed, TypeOK, Snapshot, host, env, run, history, Maybe, PcValues
<1>2. WorkOK'
  BY DEF Typed, WorkOK, Snapshot, host, env, run, history
<1> QED
  BY <1>1, <1>2 DEF Typed

LEMMA CreateGroupTyped ==
    ASSUME Typed, NEW g \in Groups, CreateGroup(g) PROVE Typed'
<1>1. decl # None
  BY StepData DEF CreateGroup
<1>2. Pin(decl, g) \in Maybe(Gids)
  BY <1>1, DeclType
<1>3. PICK id \in Gids : os' = GroupAdded(g, id)
  BY <1>2 DEF CreateGroup, Maybe
<1>4. os' \in Host
  BY <1>3, GroupAddedType
<1>5. made' \in SUBSET Groups /\ baselines' = baselines
  BY DEF CreateGroup, Typed, TypeOK
<1> QED
  BY <1>4, <1>5, DoneTyped DEF CreateGroup, Typed, TypeOK

LEMMA CreateAccountTyped ==
    ASSUME Typed, NEW a \in Users, CreateAccount(a) PROVE Typed'
<1>1. decl.accounts[a] \in Account
  BY StepData DEF CreateAccount
<1>2. os' \in Host
  BY <1>1, UserAddedType, WithSudoType DEF CreateAccount, Account
<1> QED
  BY <1>2, DoneTyped DEF CreateAccount, Typed, TypeOK

LEMMA UpdateAccountTyped ==
    ASSUME Typed, NEW a \in Users, UpdateAccount(a) PROVE Typed'
<1>1. decl.accounts[a] \in Account
  BY StepData DEF UpdateAccount
<1>2. ShellChanged(os, a) \in Host
  BY <1>1, ShellChangedType DEF UpdateAccount, CanUpdate, Typed, TypeOK
<1>3. os' \in Host
  BY <1>1, <1>2, GroupsReplacedType, WithSudoType DEF UpdateAccount, Account
<1> QED
  BY <1>3, DoneTyped DEF UpdateAccount, Typed, TypeOK

LEMMA DeleteAccountTyped ==
    ASSUME Typed, NEW a \in Users, DeleteAccount(a) PROVE Typed'
<1>1. os' \in Host
  BY UserDeletedType, WithSudoType DEF DeleteAccount, Typed, TypeOK
<1> QED
  BY <1>1, DoneTyped DEF DeleteAccount, Typed, TypeOK

LEMMA AccountFilesTyped ==
    ASSUME Typed, NEW a \in Users, AccountFiles(a) PROVE Typed'
<1> DEFINE keep == decl.accounts[a].files
           drop == RemovedFiles(acctReg, a, keep)
<1>1. decl.accounts[a] \in Account
  BY StepData DEF AccountFiles
<1>2. keep \subseteq Paths
  BY <1>1 DEF Account
<1>3. os' \in Host
  <2>1. CASE keep \cup drop = {}
    BY <2>1 DEF AccountFiles, Typed, TypeOK
  <2>2. CASE keep \cup drop # {}
    <3>1. drop \subseteq RemovedFiles(acctReg, a, {})
      BY DEF RemovedFiles
    <3>2. os.user[a] # None
      BY <2>2, <3>1 DEF AccountFiles, CanFileAccess
    <3>3. os' = FileAccess(os, a, drop, keep)
      BY <2>2 DEF AccountFiles
    <3> QED
      BY <1>2, <3>2, <3>3, FileAccessType DEF Typed, TypeOK
  <2> QED
    BY <2>1, <2>2
<1> QED
  BY <1>3, DoneTyped DEF AccountFiles, Typed, TypeOK

LEMMA RevokeDeletedTyped ==
    ASSUME Typed, NEW a \in Users, RevokeDeleted(a) PROVE Typed'
<1>1. os' \in Host
  BY DEF RevokeDeleted, Typed, TypeOK, Host
<1> QED
  BY <1>1, DoneTyped DEF RevokeDeleted, Typed, TypeOK

LEMMA GrantGroupTyped ==
    ASSUME Typed, NEW g \in Groups, GrantGroup(g) PROVE Typed'
<1> DEFINE keep == decl.groups[g].files
           drop == RemovedFiles(groupReg, g, keep)
<1>1. decl.groups[g] \in Group
  BY StepData DEF GrantGroup
<1>2. keep \subseteq Paths /\ ToAdd(g) \subseteq Users
  BY <1>1 DEF Group, ToAdd
<1>3. drop \subseteq RemovedFiles(groupReg, g, {})
  BY DEF RemovedFiles
<1>4. keep \cup drop # {} => os.group[g] # None
  BY <1>3 DEF GrantGroup, CanGrant
<1>5. os' \in Host
  BY <1>1, <1>2, <1>4, GrantedType DEF GrantGroup
<1>6. baselines' \in [Groups -> Maybe(SUBSET Users)]
  <2>1. os.mem[g] \in SUBSET Users
    BY DEF Typed, TypeOK, Host
  <2> QED
    BY <2>1 DEF GrantGroup, Typed, TypeOK, Maybe
<1> QED
  BY <1>5, <1>6, DoneTyped DEF GrantGroup, Typed, TypeOK

LEMMA TeardownGroupTyped ==
    ASSUME Typed, NEW g \in Groups, TeardownGroup(g) PROVE Typed'
<1>1. os' \in Host
  BY TorndownType DEF TeardownGroup
<1> QED
  BY <1>1, DoneTyped DEF TeardownGroup, Typed, TypeOK

LEMMA DeleteGroupTyped ==
    ASSUME Typed, NEW g \in Groups, DeleteGroup(g) PROVE Typed'
<1>1. os' \in Host
  BY DEF DeleteGroup, Typed, TypeOK, Host, Maybe
<1> QED
  BY <1>1, DoneTyped DEF DeleteGroup, Typed, TypeOK

\* Whatever part of a failing step was done, the host is one.
LEMMA CutType ==
    ASSUME Typed, NEW op, NEW n, Ready(op, n)
    PROVE  Cut(op, n) \subseteq Host
<1>0. os \in Host
  BY DEF Typed, TypeOK
<1>1. CASE op = "create"
  <2>1. n \in Users /\ decl.accounts[n] \in Account
    BY <1>1, StepData DEF AccountOps
  <2>2. CreateCut(n) \subseteq Host
    BY <2>1, UserAddedType DEF CreateCut
  <2> QED
    BY <1>1, <2>2 DEF Cut
<1>2. CASE op = "update"
  <2>1. n \in Users /\ decl.accounts[n] \in Account
    BY <1>2, StepData DEF AccountOps
  <2>2. os.user[n] # None => ShellChanged(os, n) \in Host
    BY <1>0, <2>1, ShellChangedType
  <2>3. os.user[n] # None => GroupsReplaced(ShellChanged(os, n), n) \in Host
    BY <2>1, <2>2, GroupsReplacedType
  <2>4. UpdateCut(n) \subseteq Host
    BY <2>2, <2>3 DEF UpdateCut
  <2> QED
    BY <1>2, <2>4 DEF Cut
<1>3. CASE op = "delete"
  <2>1. n \in Users
    BY <1>3, StepData DEF AccountOps
  <2>2. DeleteCut(n) \subseteq Host
    BY <1>0, <2>1, WithSudoType DEF DeleteCut
  <2> QED
    BY <1>3, <2>2 DEF Cut
<1>4. CASE op = "file_access"
  <2>1. n \in Users /\ decl.accounts[n] \in Account
    BY <1>4, StepData DEF AccountOps
  <2>2. decl.accounts[n].files \subseteq Paths
    BY <2>1 DEF Account
  <2>3. os.user[n] # None =>
          \A r, ps : ps \subseteq Paths => FileAccess(os, n, r, ps) \in Host
    BY <1>0, <2>1, FileAccessType
  <2>4. FileAccessCut(n) \subseteq Host
    BY <2>2, <2>3 DEF FileAccessCut
  <2> QED
    BY <1>4, <2>4 DEF Cut
<1>5. CASE op = "revoke_deleted"
  <2>1. \A ps : [os EXCEPT !.acl = @ \ Acl("u", acctReg[n].uid, ps)] \in Host
    BY <1>0 DEF Host
  <2>2. RevokeDeletedCut(n) \subseteq Host
    BY <2>1 DEF RevokeDeletedCut
  <2> QED
    BY <1>5, <2>2 DEF Cut
<1>6. CASE op = "grant"
  <2>1. n \in Groups /\ decl.groups[n] \in Group
    BY <1>6, StepData DEF GroupOps
  <2>2. decl.groups[n].files \subseteq Paths /\ ToAdd(n) \subseteq Users
    BY <2>1 DEF Group, ToAdd
  <2>3. Granted(n, {}, {}, {}, {}) \in Host
    BY <2>1, GrantedType
  <2>4. os.group[n] # None =>
          \A ps, r, j, l : ps \subseteq Paths /\ j \subseteq Users
                              => Granted(n, ps, r, j, l) \in Host
    BY <2>1, GrantedType
  <2>5. GrantCut(n) \subseteq Host
    BY <2>2, <2>3, <2>4 DEF GrantCut
  <2> QED
    BY <1>6, <2>5 DEF Cut
<1>7. CASE op = "teardown"
  <2>1. n \in Groups
    BY <1>7, StepData DEF GroupOps
  <2>2. \A r, l : Torndown(n, r, l) \in Host
    BY <2>1, TorndownType
  <2>3. TeardownCut(n) \subseteq Host
    BY <2>2 DEF TeardownCut
  <2> QED
    BY <1>7, <2>3 DEF Cut
<1>8. CASE op \in {"create_group", "delete_group"}
  BY <1>8 DEF Cut
<1> QED
  BY <1>1, <1>2, <1>3, <1>4, <1>5, <1>6, <1>7, <1>8, StepData
  DEF AccountOps, GroupOps

LEMMA StepFailsTyped ==
    ASSUME Typed, NEW op, NEW n, StepFails(op, n) PROVE Typed'
<1>1. os' \in Host
  BY CutType DEF StepFails, Typed, TypeOK
<1>2. faults' \in Nat
  BY DEF StepFails, Fault, Typed, TypeOK
<1>3. TypeOK'
  BY <1>1, <1>2 DEF Typed, TypeOK, StepFails, Ready, env, run, history, PcValues
<1>4. WorkOK'
  BY DEF Typed, WorkOK, StepFails, env, run, history
<1> QED
  BY <1>3, <1>4 DEF Typed

LEMMA RollbackTyped ==
    ASSUME Typed, Rollback \/ RollbackLeavesFragment \/ RollbackFails
    PROVE  Typed'
<1>1. snap \in Host /\ os \in Host
  BY DEF Typed, TypeOK, Maybe, Rollback, RollbackLeavesFragment, RollbackFails
<1>2. \A p, q, us, gs, ps : RestoreAcl(RestoreAuth(os, p, q, us, gs), ps) \in Host
  BY <1>1, RestoreAuthType, RestoreAclType
<1>3. CASE Rollback
  BY <1>2, <1>3, ExitTyped DEF Rollback, Typed, TypeOK, history
<1>4. CASE RollbackLeavesFragment
  <2>1. PICK us, gs :
           os' = RestoreAcl(RestoreAuth(os, TRUE, TRUE, SnapUsers \ us,
                                        SnapGroups \ gs), SnapPaths)
    BY <1>4 DEF RollbackLeavesFragment
  <2>2. os' \in Host
    BY <1>2, <2>1
  <2>3. faults' \in Nat
    BY <1>4 DEF RollbackLeavesFragment, Fault, Typed, TypeOK
  <2> QED
    BY <1>4, <2>2, <2>3, ExitTyped DEF RollbackLeavesFragment, Typed, TypeOK
<1>5. CASE RollbackFails
  <2>1. os' \in Host /\ faults' \in Nat
    BY <1>2, <1>5 DEF RollbackFails, Fault, Typed, TypeOK
  <2> QED
    BY <1>5, <2>1, ExitTyped DEF RollbackFails, Typed, TypeOK
<1> QED
  BY <1>3, <1>4, <1>5

\* What a run records of a group: a declared one with its grants, another one
\* as it was recorded or, if the run created it, with its gid
\* (build_managed_groups).
LEMMA GroupRecorded ==
    ASSUME Typed, decl # None, NEW g \in Groups, NEW new,
           new = BuildManagedGroups(decl, acctReg, groupReg, LiveGids, deferred,
                                    made, baselines)[g]
    PROVE  /\ decl.groups[g] # None =>
                 /\ new \in ManagedGroup
                 /\ new.gid = RecordedGid(decl, groupReg, LiveGids, g)
                 /\ SameGrants(decl.groups[g], new)
           /\ decl.groups[g] = None =>
                 \/ new = None
                 \/ /\ new = groupReg[g] /\ groupReg[g] # None
                    /\ g \in RequiredGroups(decl) \cup DeferredGroups(deferred, acctReg)
                 \/ /\ g \in made /\ new \in ManagedGroup /\ new.gid = LiveGids[g]
                    /\ new.members = {} /\ new.sudo = {} /\ new.files = {}
<1> DEFINE base == IF decl.groups[g].prov = "Created" THEN None
                   ELSE IF baselines[g] # None THEN baselines[g]
                   ELSE IF groupReg[g] # None THEN groupReg[g].baseline
                   ELSE None
           plain == [prov |-> "Created", gid |-> LiveGids[g], members |-> {},
                     sudo |-> {}, files |-> {}, baseline |-> None]
           full == [prov |-> decl.groups[g].prov,
                    gid |-> RecordedGid(decl, groupReg, LiveGids, g),
                    members |-> decl.groups[g].members,
                    sudo |-> decl.groups[g].sudo,
                    files |-> decl.groups[g].files, baseline |-> base]
<1>1. /\ plain \in ManagedGroup /\ plain.gid = LiveGids[g]
      /\ plain.members = {} /\ plain.sudo = {} /\ plain.files = {}
  BY RegType DEF ManagedGroup, Provenance, Maybe
<1>2. groupReg[g] \in Maybe(ManagedGroup)
  BY DEF Typed, TypeOK
<1>3. ASSUME decl.groups[g] # None PROVE full \in ManagedGroup
  <2>1. decl.groups[g] \in Group
    BY <1>3, DeclType
  <2>2. RecordedGid(decl, groupReg, LiveGids, g) \in Maybe(Gids)
    BY <2>1, RegType DEF RecordedGid, Group, ManagedGroup, Maybe
  <2>3. base \in Maybe(SUBSET Users)
    BY <1>2, NoneAssumption DEF ManagedGroup, Maybe, Typed, TypeOK
  <2> HIDE DEF base
  <2> QED
    BY <2>1, <2>2, <2>3 DEF Group, ManagedGroup
<1>4. /\ full.gid = RecordedGid(decl, groupReg, LiveGids, g)
      /\ SameGrants(decl.groups[g], full)
  BY DEF SameGrants
<1> DEFINE kept == groupReg[g] # None
                    /\ g \in RequiredGroups(decl) \cup DeferredGroups(deferred, acctReg)
<1>5. new = IF decl.groups[g] = None
            THEN IF kept THEN groupReg[g]
                 ELSE IF g \in made THEN plain ELSE None
            ELSE full
  BY Zenon DEF BuildManagedGroups
<1> HIDE DEF plain, full
<1> QED
  BY <1>1, <1>3, <1>4, <1>5

\* The registry a run leaves behind is one (build_managed_set,
\* build_managed_groups).
LEMMA RegistryType ==
    ASSUME Typed, decl # None
    PROVE  /\ BuildManagedSet(decl, acctReg, deferred) \in [Users -> Maybe(Account)]
           /\ BuildManagedGroups(decl, acctReg, groupReg, LiveGids, deferred,
                                 made, baselines)
                \in [Groups -> Maybe(ManagedGroup)]
<1>1. BuildManagedSet(decl, acctReg, deferred) \in [Users -> Maybe(Account)]
  BY DeclType DEF BuildManagedSet, Typed, TypeOK
<1>2. SUFFICES ASSUME NEW g \in Groups
               PROVE  BuildManagedGroups(decl, acctReg, groupReg, LiveGids,
                         deferred, made, baselines)[g] \in Maybe(ManagedGroup)
  BY <1>1 DEF BuildManagedGroups
<1>3. groupReg[g] \in Maybe(ManagedGroup)
  BY DEF Typed, TypeOK
<1> QED
  BY <1>3, GroupRecorded DEF Maybe

LEMMA WriteRegistryTyped == ASSUME Typed, WriteRegistry PROVE Typed'
<1>1. decl # None /\ decl \in Declarations
  BY DEF WriteRegistry, Typed, TypeOK, Maybe
<1>2. decl.version \in Nat
  BY <1>1, DeclType
<1>3. /\ acctReg' \in [Users -> Maybe(Account)]
      /\ groupReg' \in [Groups -> Maybe(ManagedGroup)]
  BY <1>1, RegistryType DEF WriteRegistry
<1>4. applied' \in Maybe(Declarations) /\ high' \in Nat
  BY <1>1, <1>2 DEF WriteRegistry, Record, Typed, TypeOK, Maybe
<1>5. TypeOK'
  BY <1>3, <1>4 DEF Typed, TypeOK, WriteRegistry, env, run, PcValues
<1>6. WorkOK'
  BY DEF Typed, WorkOK, WriteRegistry, run
<1> QED
  BY <1>5, <1>6 DEF Typed

LEMMA PhasesDoneTyped == ASSUME Typed, PhasesDone PROVE Typed'
<1>1. TypeOK'
  BY DEF Typed, TypeOK, PhasesDone, host, env, run, history, PcValues
<1>2. WorkOK'
  BY DEF Typed, WorkOK, PhasesDone, host, run
<1> QED
  BY <1>1, <1>2 DEF Typed

\* The other ways a run ends.
LEMMA EndTyped ==
    ASSUME Typed,
           \/ SnapshotFails \/ WriteRegistryFails \/ PersistVersion
           \/ PersistVersionFails \/ Crash
    PROVE  Typed'
<1>1. PersistVersion => floor' \in Nat
  <2>1. PersistVersion => decl # None
    BY DEF PersistVersion, Typed, TypeOK
  <2> QED
    BY <2>1, DeclType DEF PersistVersion, Typed, TypeOK
<1>2. /\ Exit /\ os' \in Host /\ floor' \in Nat /\ faults' \in Nat
      /\ torn' \in BOOLEAN /\ UNCHANGED <<acctReg, groupReg, env, applied, high>>
  <2>1. CASE SnapshotFails
    BY <2>1 DEF SnapshotFails, Fault, Typed, TypeOK, host, history
  <2>2. CASE WriteRegistryFails
    BY <2>2 DEF WriteRegistryFails, Fault, Typed, TypeOK, host, history
  <2>3. CASE PersistVersion
    BY <1>1, <2>3 DEF PersistVersion, Typed, TypeOK, host, history
  <2>4. CASE PersistVersionFails
    BY <2>4 DEF PersistVersionFails, Fault, Typed, TypeOK, host, history
  <2>5. CASE Crash
    BY <2>5 DEF Crash, Fault, Typed, TypeOK, host, history
  <2> QED
    BY <2>1, <2>2, <2>3, <2>4, <2>5
<1> QED
  BY <1>2, ExitTyped

LEMMA SessionsTyped == ASSUME Typed, Sessions PROVE Typed'
<1>1. /\ sessions' \in SUBSET Session /\ readable' \in BOOLEAN
  <2>1. \A a \in Users : OpenSession(a) => sessions' \in SUBSET Session
    BY DEF OpenSession, Session, Typed, TypeOK, Host, UserEntry, Maybe
  <2> QED
    BY <2>1 DEF Sessions, OpenSession, CloseSession, SpoilSessions, Typed, TypeOK
<1>2. UNCHANGED <<host, pc, run, todo, snap, faults, history>>
  BY DEF Sessions, OpenSession, CloseSession, SpoilSessions
<1>3. TypeOK'
  BY <1>1, <1>2 DEF Typed, TypeOK, host, run, history
<1>4. WorkOK'
  BY <1>2 DEF Typed, WorkOK, host, run, history
<1> QED
  BY <1>3, <1>4 DEF Typed

-----------------------------------------------------------------------------
LEMMA NextTyped == Typed /\ [Next]_vars => Typed'
<1> SUFFICES ASSUME Typed, [Next]_vars PROVE Typed'
  OBVIOUS
<1>1. CASE Start
  BY <1>1, BeginTyped DEF Start
<1>2. CASE Progress
  BY <1>2, SnapshotTyped, CreateGroupTyped, GrantGroupTyped, TeardownGroupTyped,
     DeleteGroupTyped, CreateAccountTyped, UpdateAccountTyped,
     DeleteAccountTyped, AccountFilesTyped, RevokeDeletedTyped,
     PhasesDoneTyped, WriteRegistryTyped, EndTyped, RollbackTyped
  DEF Progress
<1>3. CASE Failure
  BY <1>3, StepFailsTyped, RollbackTyped, EndTyped DEF Failure
<1>4. CASE Sessions
  BY <1>4, SessionsTyped
<1>5. CASE UNCHANGED vars
  <2>1. TypeOK'
    BY <1>5 DEF Typed, TypeOK, vars, host, env, run, history
  <2>2. WorkOK'
    BY <1>5 DEF Typed, WorkOK, vars, host, env, run, history
  <2> QED
    BY <2>1, <2>2 DEF Typed
<1> QED
  BY <1>1, <1>2, <1>3, <1>4, <1>5 DEF Next

\* Whatever is applied, whatever fails, every variable keeps its type: the
\* registry of a device is always one that state::load can have written, and a
\* rollback always has a snapshot to restore.
THEOREM TypeCorrect == Spec => []TypeOK
<1>1. Init => Typed
  BY InitTyped
<1>2. Typed /\ [Next]_vars => Typed'
  BY NextTyped
<1>3. Typed => TypeOK
  BY DEF Typed
<1> QED
  BY <1>1, <1>2, <1>3, PTL DEF Spec

-----------------------------------------------------------------------------
(***************************************************************************)
(* The version floor and the registry are two files, written one after the *)
(* other.  The floor never gets ahead of the registry, and while no write  *)
(* was lost it is level with it whenever no run is between the two.        *)
(***************************************************************************)

\* The registry holds a managed version that the floor does not have yet.
Between == pc = "persist" /\ managed

\* Neither property is inductive: what PersistVersion writes must already be
\* in the registry, and what Begin compares with the floor must bound `high`.
FloorInv ==
    /\ floor <= high
    /\ Between => decl.version <= high
    /\ faults = 0 =>
          /\ Between => high = decl.version
          /\ ~Between => high = floor
          /\ pc # "idle" /\ managed => floor <= decl.version

LEMMA InitFloor == Init => FloorInv
BY DEF Init, FloorInv, Between

LEMMA FaultsType == ASSUME Typed PROVE faults \in Nat
BY DEF Typed, TypeOK

\* A step of the run before its registry write, or of the sessions.
LEMMA FloorByWork ==
    ASSUME Typed, FloorInv, UNCHANGED <<floor, high, decl, managed>>,
           faults' \in Nat, faults' >= faults,
           (pc' # "persist" /\ pc # "persist") \/ pc' = pc,
           pc = "idle" => pc' = "idle"
    PROVE  FloorInv'
BY DEF FloorInv, Between, Typed, TypeOK

\* The end of a process that wrote neither file in this step, unless it was
\* between the two, which takes a fault.
LEMMA FloorByExit ==
    ASSUME Typed, FloorInv, Exit, UNCHANGED <<floor, high>>,
           faults' \in Nat, faults' >= faults,
           Between => faults' > faults
    PROVE  FloorInv'
BY DEF FloorInv, Between, Exit, Typed, TypeOK

LEMMA VersionType == ASSUME Typed, decl # None PROVE decl.version \in Nat
BY DeclType DEF Typed, TypeOK, Maybe

\* Record after the trust check leaves the registry and the floor in step.
LEMMA FloorByRecord ==
    ASSUME Typed, FloorInv,
           NEW d \in Declarations, NEW m \in BOOLEAN, NEW late, Record(d, m, late),
           UNCHANGED <<floor, faults>>, decl' = d, managed' = m, pc' = "persist",
           m /\ faults = 0 => floor <= d.version,
           ~Between
    PROVE  FloorInv'
<1>1. d.version \in Nat
  BY ApplyAssumption DEF Declaration
<1> QED
  BY <1>1 DEF FloorInv, Between, Record, Typed, TypeOK

LEMMA FloorByBegin ==
    ASSUME Typed, FloorInv, NEW d \in Declarations, NEW m \in BOOLEAN,
           NEW r \in BOOLEAN, Begin(d, m, r)
    PROVE  FloorInv'
<1>1. /\ pc = "idle" /\ decl' = d /\ managed' = m
      /\ UNCHANGED <<floor, faults>>
      /\ m => d.version >= floor
  BY DEF Begin, Trusted, host
<1>2. d.version \in Nat
  BY ApplyAssumption DEF Declaration
<1>3. \/ pc' \in {"snapshot", "write"} /\ UNCHANGED <<applied, high>>
      \/ pc' = "persist" /\ \E late : Record(d, m, late)
  BY Zenon DEF Begin
<1>4. CASE pc' \in {"snapshot", "write"} /\ UNCHANGED <<applied, high>>
  BY <1>1, <1>2, <1>4 DEF FloorInv, Between, Typed, TypeOK
<1>5. CASE pc' = "persist" /\ \E late : Record(d, m, late)
  BY <1>1, <1>2, <1>5, FloorByRecord DEF Between, Typed, TypeOK
<1> QED
  BY <1>3, <1>4, <1>5

LEMMA FloorByProgress == ASSUME Typed, FloorInv, Progress PROVE FloorInv'
<1>1. CASE WriteRegistry
  <2>1. decl \in Declarations
    BY <1>1 DEF WriteRegistry, Typed, TypeOK, Maybe
  <2> QED
    BY <1>1, <2>1, FloorByRecord
    DEF WriteRegistry, run, FloorInv, Between, Typed, TypeOK
<1>2. CASE PersistVersion
  <2>1. decl.version \in Nat
    BY <1>2, VersionType DEF PersistVersion, Typed, TypeOK
  <2> QED
    BY <1>2, <2>1
    DEF PersistVersion, Exit, history, FloorInv, Between, Typed, TypeOK
<1>3. CASE Rollback
  <2>1. pc = "rollback" /\ Exit /\ UNCHANGED <<floor, high, faults>>
    BY <1>3 DEF Rollback, history
  <2> QED
    BY <2>1, FaultsType, FloorByExit DEF Between
<1>4. CASE Snapshot \/ PhasesDone
  <2>1. /\ pc # "persist" /\ pc # "idle" /\ pc' # "persist"
        /\ UNCHANGED <<floor, high, decl, managed, faults>>
    BY <1>4 DEF Snapshot, PhasesDone, host, run, history
  <2> QED
    BY <2>1, FaultsType, FloorByWork
<1>5. ASSUME NEW op, NEW n, Ready(op, n), Done(op, n) PROVE FloorInv'
  <2>1. pc = "run" /\ UNCHANGED <<floor, high, decl, managed, pc, faults>>
    BY <1>5 DEF Ready, Done, history
  <2> QED
    BY <2>1, FaultsType, FloorByWork
<1>6. CASE \E g \in Groups : CreateGroup(g) \/ GrantGroup(g) \/ TeardownGroup(g)
                                \/ DeleteGroup(g)
  BY <1>5, <1>6 DEF CreateGroup, GrantGroup, TeardownGroup, DeleteGroup
<1>7. CASE \E a \in Users : CreateAccount(a) \/ UpdateAccount(a) \/ DeleteAccount(a)
                                \/ AccountFiles(a) \/ RevokeDeleted(a)
  BY <1>5, <1>7
  DEF CreateAccount, UpdateAccount, DeleteAccount, AccountFiles, RevokeDeleted
<1> QED
  BY <1>1, <1>2, <1>3, <1>4, <1>6, <1>7 DEF Progress

LEMMA FloorByFailure == ASSUME Typed, FloorInv, Failure PROVE FloorInv'
<1>1. ASSUME Fault PROVE faults' \in Nat /\ faults' > faults /\ faults' >= faults
  BY <1>1, FaultsType DEF Fault
<1>2. CASE \E s \in todo : StepFails(s.op, s.name)
  <2>1. /\ pc = "run" /\ pc' = "rollback"
        /\ UNCHANGED <<floor, high, decl, managed>>
        /\ UNCHANGED faults \/ Fault
    BY <1>2 DEF StepFails, Ready, run, history
  <2> QED
    BY <1>1, <2>1, FaultsType, FloorByWork
<1>3. CASE \/ SnapshotFails \/ RollbackFails \/ RollbackLeavesFragment
           \/ WriteRegistryFails \/ PersistVersionFails \/ Crash
  <2>1. Exit /\ Fault /\ UNCHANGED <<floor, high>>
    BY <1>3 DEF SnapshotFails, RollbackFails, RollbackLeavesFragment,
       WriteRegistryFails, PersistVersionFails, Crash, host, history
  <2> QED
    BY <1>1, <2>1, FaultsType, FloorByExit
<1> QED
  BY <1>2, <1>3 DEF Failure

LEMMA NextFloor == Typed /\ FloorInv /\ [Next]_vars => FloorInv'
<1> SUFFICES ASSUME Typed, FloorInv, [Next]_vars PROVE FloorInv'
  OBVIOUS
<1>1. CASE Start
  BY <1>1, FloorByBegin DEF Start
<1>2. CASE Progress
  BY <1>2, FloorByProgress
<1>3. CASE Failure
  BY <1>3, FloorByFailure
<1>4. CASE Sessions \/ UNCHANGED vars
  <2>1. UNCHANGED <<floor, high, decl, managed, pc, faults>>
    BY <1>4 DEF Sessions, OpenSession, CloseSession, SpoilSessions, vars, host,
       run, history
  <2> QED
    BY <2>1 DEF FloorInv, Between
<1> QED
  BY <1>1, <1>2, <1>3, <1>4 DEF Next

-----------------------------------------------------------------------------
\* The floor never asks for more than the registry holds, wherever a run fails
\* or dies (run_apply writes the registry first and the floor after it).
THEOREM FloorStaysBehind == Spec => []FloorBehindRegistry
<1>1. Init => Typed /\ FloorInv
  BY InitTyped, InitFloor
<1>2. Typed /\ FloorInv /\ [Next]_vars => Typed' /\ FloorInv'
  BY NextTyped, NextFloor
<1>3. FloorInv => FloorBehindRegistry
  BY DEF FloorInv, FloorBehindRegistry
<1> QED
  BY <1>1, <1>2, <1>3, PTL DEF Spec

\* Without a fault a managed run never applies a version below one that was
\* applied before (check_rollback against what persist_version wrote).
THEOREM NoDowngradeHolds == Spec => []NoDowngrade
<1>1. Init => Typed /\ FloorInv
  BY InitTyped, InitFloor
<1>2. Typed /\ FloorInv /\ [Next]_vars => Typed' /\ FloorInv'
  BY NextTyped, NextFloor
<1>3. Typed /\ FloorInv => NoDowngrade
  BY VersionType DEF FloorInv, Between, NoDowngrade, Typed, TypeOK
<1> QED
  BY <1>1, <1>2, <1>3, PTL DEF Spec

-----------------------------------------------------------------------------
(***************************************************************************)
(* What a run may touch: Census never touches an account it did not        *)
(* create, and a rollback whose two restores work is exact.                *)
(***************************************************************************)

-----------------------------------------------------------------------------
(***************************************************************************)
(* Census never touches an account it did not create.                      *)
(*                                                                         *)
(* That is not inductive by itself: an account is changed or deleted       *)
(* because the registry names it, and the registry names it because a run  *)
(* got to its end with every account of the declaration either recorded    *)
(* before or made by useradd, which refuses a name that is taken.          *)
(***************************************************************************)

\* The accounts of the host as Census found them; the others are Census's.
UsersKept(u) ==
    \A a \in Users :
        IF HostUsers[a] # None THEN u[a] = HostUsers[a]
        ELSE u[a] = None \/ u[a].census

\* Declared accounts are recorded, or made in this run, or still to be made.
Accounted ==
    pc \in {"snapshot", "run", "write"} =>
        \A a \in Users : decl.accounts[a] # None =>
            \/ acctReg[a] # None
            \/ HostUsers[a] = None
            \/ [op |-> "create", name |-> a] \in todo

HostInv ==
    /\ UsersKept(os.user)
    /\ snap # None => UsersKept(snap.user)
    /\ \A a \in Users : acctReg[a] # None => HostUsers[a] = None
    /\ Accounted

-----------------------------------------------------------------------------
(* What each tool does to the account database.                            *)

LEMMA UserOfWithSudo ==
    ASSUME NEW h \in Host, NEW a, NEW c PROVE WithSudo(h, a, c).user = h.user
BY DEF WithSudo, Host

LEMMA UserOfGroupsReplaced ==
    ASSUME NEW h \in Host, NEW a PROVE GroupsReplaced(h, a).user = h.user
BY DEF GroupsReplaced, Host

LEMMA UserOfFileAccess ==
    ASSUME NEW h \in Host, NEW a, NEW r, NEW ps
    PROVE  FileAccess(h, a, r, ps).user = h.user
BY DEF FileAccess, Host

LEMMA UserOfGranted ==
    ASSUME Typed, NEW g, NEW ps, NEW r, NEW j, NEW l
    PROVE  Granted(g, ps, r, j, l).user = os.user
BY DEF Granted, Host, Typed, TypeOK

LEMMA UserOfTorndown ==
    ASSUME Typed, NEW g, NEW r, NEW l PROVE Torndown(g, r, l).user = os.user
BY DEF Torndown, Host, Typed, TypeOK

LEMMA UserOfRestore ==
    ASSUME NEW h \in Host, snap \in Host, NEW p, NEW q, NEW us, NEW gs, NEW ps
    PROVE  RestoreAcl(RestoreAuth(h, p, q, us, gs), ps).user \in {h.user, snap.user}
<1>1. RestoreAuth(h, p, q, us, gs) \in Host
  BY RestoreAuthType
<1>2. RestoreAuth(h, p, q, us, gs).user \in {h.user, snap.user}
  BY DEF RestoreAuth, Host
<1>3. \A k \in Host : RestoreAcl(k, ps).user = k.user
  BY DEF RestoreAcl, Host
<1> QED
  BY <1>1, <1>2, <1>3

\* useradd makes an account of Census where there was none.
LEMMA KeptByUserAdded ==
    ASSUME Typed, UsersKept(os.user), NEW a \in Users, os.user[a] = None
    PROVE  HostUsers[a] = None /\ UsersKept(UserAdded(a).user)
<1>1. HostUsers[a] = None
  BY DEF UsersKept
<1>2. UserAdded(a).user = [os.user EXCEPT ![a] =
            [uid |-> decl.accounts[a].uid, login |-> decl.accounts[a].login,
             census |-> TRUE]]
  BY DEF UserAdded, Typed, TypeOK, Host
<1>3. os.user \in [Users -> Maybe(UserEntry)]
  BY DEF Typed, TypeOK, Host
<1>4. ASSUME NEW b \in Users, b # a PROVE UserAdded(a).user[b] = os.user[b]
  BY <1>2, <1>3, <1>4
<1>5. UserAdded(a).user[a].census
  BY <1>2, <1>3
<1> QED
  BY <1>1, <1>4, <1>5 DEF UsersKept

\* usermod -s on a recorded account.
LEMMA KeptByShellChanged ==
    ASSUME Typed, UsersKept(os.user), NEW a \in Users, HostUsers[a] = None,
           decl.accounts[a].login # acctReg[a].login => os.user[a] # None
    PROVE  UsersKept(ShellChanged(os, a).user)
<1>1. CASE decl.accounts[a].login = acctReg[a].login
  BY <1>1 DEF ShellChanged
<1>2. CASE decl.accounts[a].login # acctReg[a].login
  <2> DEFINE e == [os.user[a] EXCEPT !.login = decl.accounts[a].login]
  <2>1. os.user \in [Users -> Maybe(UserEntry)] /\ os.user[a] \in UserEntry
    BY <1>2 DEF Typed, TypeOK, Host, Maybe
  <2>2. ShellChanged(os, a).user = [os.user EXCEPT ![a] = e]
    BY <1>2 DEF ShellChanged, Typed, TypeOK, Host
  <2>3. e.census
    BY <1>2, <2>1 DEF UsersKept, UserEntry
  <2> HIDE DEF e
  <2> QED
    BY <2>1, <2>2, <2>3 DEF UsersKept
<1> QED
  BY <1>1, <1>2

\* userdel on a recorded account.
LEMMA KeptByUserDeleted ==
    ASSUME NEW h \in Host, UsersKept(h.user), NEW a \in Users, HostUsers[a] = None
    PROVE  UsersKept(UserDeleted(h, a).user)
<1>1. UserDeleted(h, a).user = [h.user EXCEPT ![a] = None]
  BY DEF UserDeleted, Host
<1> QED
  BY <1>1 DEF UsersKept, Host

\* Of the cuts, only those of useradd and usermod reach the account database.
LEMMA OtherCutsKeepUsers ==
    ASSUME Typed, NEW op, NEW n, Ready(op, n), NEW h \in Cut(op, n),
           op \notin {"create", "update"}
    PROVE  h.user = os.user
<1>0. os \in Host
  BY DEF Typed, TypeOK
<1>1. CASE op = "delete"
  BY <1>0, <1>1, UserOfWithSudo DEF Cut, DeleteCut
<1>2. CASE op = "file_access"
  <2>1. h \in FileAccessCut(n)
    BY <1>2 DEF Cut
  <2>2. \E r, ps : h = FileAccess(os, n, r, ps)
    BY <2>1, Zenon DEF FileAccessCut
  <2> QED
    BY <1>0, <2>2, UserOfFileAccess
<1>3. CASE op = "revoke_deleted"
  <2>1. PICK ps : h = [os EXCEPT !.acl = @ \ Acl("u", acctReg[n].uid, ps)]
    BY <1>3 DEF Cut, RevokeDeletedCut
  <2> QED
    BY <1>0, <2>1 DEF Host
<1>4. CASE op = "grant"
  <2>1. h \in GrantCut(n)
    BY <1>4 DEF Cut
  <2>2. \E ps, r, j, l : h = Granted(n, ps, r, j, l)
    BY <2>1, Zenon DEF GrantCut
  <2> QED
    BY <1>0, <2>2, UserOfGranted
<1>5. CASE op = "teardown"
  <2>1. h \in TeardownCut(n)
    BY <1>5 DEF Cut
  <2>2. \E r, l : h = Torndown(n, r, l)
    BY <2>1, Zenon DEF TeardownCut
  <2> QED
    BY <1>0, <2>2, UserOfTorndown
<1>6. CASE op \in {"create_group", "delete_group"}
  BY <1>6 DEF Cut
<1> QED
  BY <1>1, <1>2, <1>3, <1>4, <1>5, <1>6, StepData DEF AccountOps, GroupOps

\* A step cut short keeps the accounts of the host.
LEMMA KeptByCut ==
    ASSUME Typed, HostInv, NEW op, NEW n, Ready(op, n), NEW h \in Cut(op, n)
    PROVE  UsersKept(h.user)
<1>0. os \in Host /\ UsersKept(os.user)
  BY DEF Typed, TypeOK, HostInv
<1>1. CASE op = "create"
  <2>1. n \in Users
    BY <1>1, StepData DEF AccountOps
  <2>2. h = UserAdded(n) /\ os.user[n] = None
    BY <1>1 DEF Cut, CreateCut, CanCreate
  <2> QED
    BY <1>0, <2>1, <2>2, KeptByUserAdded
<1>2. CASE op = "update"
  <2>1. n \in Users /\ decl.accounts[n] \in Account /\ acctReg[n] # None
    BY <1>2, StepData, NoneAssumption DEF AccountOps
  <2>2. h \in UpdateCut(n)
    BY <1>2 DEF Cut
  <2>3. /\ os.user[n] # None
        /\ h \in {ShellChanged(os, n), GroupsReplaced(ShellChanged(os, n), n)}
    BY <2>2 DEF UpdateCut
  <2>4. ShellChanged(os, n) \in Host
    BY <1>0, <2>1, <2>3, ShellChangedType
  <2>5. HostUsers[n] = None
    BY <2>1 DEF HostInv
  <2>6. UsersKept(ShellChanged(os, n).user)
    BY <1>0, <2>1, <2>3, <2>5, KeptByShellChanged
  <2> QED
    BY <2>3, <2>4, <2>6, UserOfGroupsReplaced
<1>3. CASE op \notin {"create", "update"}
  BY <1>0, <1>3, OtherCutsKeepUsers
<1> QED
  BY <1>1, <1>2, <1>3

-----------------------------------------------------------------------------
(* The invariant is kept.                                                  *)

LEMMA InitHost == Init => HostInv
<1> SUFFICES ASSUME Init PROVE HostInv
  OBVIOUS
<1>1. os.user = HostUsers
  BY DEF Init
<1> QED
  BY <1>1 DEF Init, HostInv, UsersKept, Accounted

\* A step that is done.
LEMMA HostByDone ==
    ASSUME Typed, HostInv, NEW op, NEW n, Ready(op, n), Done(op, n),
           UsersKept(os'.user), op = "create" => HostUsers[n] = None
    PROVE  HostInv'
<1>1. UNCHANGED <<acctReg, pc, decl, snap>>
      /\ todo' = todo \ {[op |-> op, name |-> n]}
  BY DEF Done
<1>2. Accounted'
  BY <1>1 DEF HostInv, Accounted
<1> QED
  BY <1>1, <1>2 DEF HostInv, UsersKept

\* The end of the process.
LEMMA HostByExit ==
    ASSUME HostInv, Exit, acctReg' = acctReg, UsersKept(os'.user)
    PROVE  HostInv'
BY DEF HostInv, UsersKept, Accounted, Exit

LEMMA HostByBegin ==
    ASSUME Typed, HostInv, NEW d \in Declarations, NEW m, NEW r, Begin(d, m, r)
    PROVE  HostInv'
<1> DEFINE late == DeferredAccounts(d, acctReg, IF readable THEN sessions ELSE {})
           work == WorkList(d, acctReg, groupReg, LiveGids, late)
<1>1. /\ decl' = d /\ todo' = work
      /\ UNCHANGED <<os, acctReg, snap>>
  BY DEF Begin, host
<1>2. ASSUME NEW a \in Users, d.accounts[a] # None, acctReg[a] = None
      PROVE  [op |-> "create", name |-> a] \in work
  <2>1. d \in Declaration
    BY ApplyAssumption
  <2>2. a \in CreatedAccounts(d, acctReg)
    BY <1>2, <2>1 DEF CreatedAccounts, Present, Declaration
  <2>3. [op |-> "create", name |-> a] \in Work("create", CreatedAccounts(d, acctReg))
    BY <2>2 DEF Work
  <2> QED
    BY <2>3, Zenon DEF WorkList
<1> HIDE DEF late, work
<1>3. Accounted'
  BY <1>1, <1>2 DEF Accounted
<1> QED
  BY <1>1, <1>3 DEF HostInv, UsersKept

LEMMA HostByProgress ==
    ASSUME Typed, HostInv, Progress PROVE HostInv'
<1>0. os \in Host /\ UsersKept(os.user)
  BY DEF Typed, TypeOK, HostInv
<1>1. CASE Snapshot
  <2>1. pc' = "run" /\ snap' = os /\ UNCHANGED <<os, acctReg, decl, todo>> /\ pc = "snapshot"
    BY <1>1 DEF Snapshot, host, run
  <2>2. Accounted'
    BY <2>1 DEF HostInv, Accounted
  <2> QED
    BY <2>1, <2>2 DEF HostInv, UsersKept
<1>2. ASSUME NEW g \in Groups, CreateGroup(g) PROVE HostInv'
  <2>1. os'.user = os.user
    BY <1>0, <1>2 DEF CreateGroup, GroupAdded, Host
  <2> QED
    BY <1>0, <1>2, <2>1, HostByDone DEF CreateGroup
<1>3. ASSUME NEW g \in Groups, GrantGroup(g) PROVE HostInv'
  <2>1. os'.user = os.user
    BY <1>3, UserOfGranted DEF GrantGroup
  <2> QED
    BY <1>0, <1>3, <2>1, HostByDone DEF GrantGroup
<1>4. ASSUME NEW g \in Groups, TeardownGroup(g) PROVE HostInv'
  <2>1. os'.user = os.user
    BY <1>4, UserOfTorndown DEF TeardownGroup
  <2> QED
    BY <1>0, <1>4, <2>1, HostByDone DEF TeardownGroup
<1>5. ASSUME NEW g \in Groups, DeleteGroup(g) PROVE HostInv'
  <2>1. os'.user = os.user
    BY <1>0, <1>5 DEF DeleteGroup, Host
  <2> QED
    BY <1>0, <1>5, <2>1, HostByDone DEF DeleteGroup
<1>6. ASSUME NEW a \in Users, CreateAccount(a) PROVE HostInv'
  <2>1. os.user[a] = None /\ decl.accounts[a] \in Account
    BY <1>6, StepData DEF CreateAccount, CanCreate
  <2>2. HostUsers[a] = None /\ UsersKept(UserAdded(a).user)
    BY <1>0, <2>1, KeptByUserAdded
  <2>3. os'.user = UserAdded(a).user
    BY <1>6, <2>1, UserAddedType, UserOfWithSudo DEF CreateAccount
  <2> QED
    BY <1>6, <2>2, <2>3, HostByDone DEF CreateAccount
<1>7. ASSUME NEW a \in Users, UpdateAccount(a) PROVE HostInv'
  <2>1. decl.accounts[a] \in Account /\ acctReg[a] # None
    BY <1>7, StepData, NoneAssumption DEF UpdateAccount
  <2>2. decl.accounts[a].login # acctReg[a].login => os.user[a] # None
    BY <1>7 DEF UpdateAccount, CanUpdate
  <2>3. UsersKept(ShellChanged(os, a).user)
    BY <1>0, <2>1, <2>2, KeptByShellChanged DEF HostInv
  <2>4. ShellChanged(os, a) \in Host
    BY <1>0, <2>1, <2>2, ShellChangedType
  <2>5. os'.user = ShellChanged(os, a).user
    BY <1>7, <2>4, GroupsReplacedType, UserOfGroupsReplaced, UserOfWithSudo
    DEF UpdateAccount
  <2> QED
    BY <1>7, <2>3, <2>5, HostByDone DEF UpdateAccount
<1>8. ASSUME NEW a \in Users, DeleteAccount(a) PROVE HostInv'
  <2>1. acctReg[a] # None
    BY <1>8, StepData, NoneAssumption DEF DeleteAccount
  <2>2. WithSudo(os, a, {}) \in Host /\ UsersKept(WithSudo(os, a, {}).user)
    BY <1>0, WithSudoType, UserOfWithSudo
  <2>3. UsersKept(os'.user)
    BY <1>8, <2>1, <2>2, KeptByUserDeleted DEF DeleteAccount, HostInv
  <2> QED
    BY <1>8, <2>3, HostByDone DEF DeleteAccount
<1>9. ASSUME NEW a \in Users, AccountFiles(a) PROVE HostInv'
  <2>1. os'.user = os.user
    BY <1>0, <1>9, UserOfFileAccess DEF AccountFiles
  <2> QED
    BY <1>0, <1>9, <2>1, HostByDone DEF AccountFiles
<1>10. ASSUME NEW a \in Users, RevokeDeleted(a) PROVE HostInv'
  <2>1. os'.user = os.user
    BY <1>0, <1>10 DEF RevokeDeleted, Host
  <2> QED
    BY <1>0, <1>10, <2>1, HostByDone DEF RevokeDeleted
<1>11. CASE PhasesDone
  BY <1>11 DEF PhasesDone, HostInv, Accounted, UsersKept, host, run
<1>12. CASE WriteRegistry
  <2>1. todo = {} /\ pc' = "persist" /\ UNCHANGED <<os, snap>>
        /\ acctReg' = BuildManagedSet(decl, acctReg, deferred)
    BY <1>12 DEF WriteRegistry, Typed, WorkOK
  <2>2. \A a \in Users : acctReg'[a] # None => HostUsers[a] = None
    BY <1>12, <2>1 DEF WriteRegistry, BuildManagedSet, HostInv, Accounted
  <2> QED
    BY <2>1, <2>2 DEF HostInv, Accounted, UsersKept
<1>13. CASE PersistVersion
  BY <1>0, <1>13, HostByExit DEF PersistVersion
<1>14. CASE Rollback
  <2>1. snap \in Host /\ UsersKept(snap.user)
    BY <1>14, ApplyAssumption DEF Rollback, Typed, TypeOK, Maybe, HostInv
  <2>2. UsersKept(os'.user)
    BY <1>0, <1>14, <2>1, UserOfRestore DEF Rollback
  <2> QED
    BY <1>14, <2>2, HostByExit DEF Rollback
<1> QED
  BY <1>1, <1>2, <1>3, <1>4, <1>5, <1>6, <1>7, <1>8, <1>9, <1>10, <1>11,
     <1>12, <1>13, <1>14 DEF Progress

LEMMA HostByFailure ==
    ASSUME Typed, HostInv, Failure PROVE HostInv'
<1>0. os \in Host /\ UsersKept(os.user)
  BY DEF Typed, TypeOK, HostInv
<1>1. ASSUME NEW s \in todo, StepFails(s.op, s.name) PROVE HostInv'
  <2>1. Ready(s.op, s.name) /\ os' \in {os} \cup Cut(s.op, s.name)
    BY <1>1 DEF StepFails
  <2>2. UsersKept(os'.user)
    BY <1>0, <2>1, KeptByCut
  <2>3. pc' = "rollback" /\ UNCHANGED <<acctReg, snap>>
    BY <1>1 DEF StepFails
  <2> QED
    BY <2>2, <2>3 DEF HostInv, Accounted, UsersKept
<1>2. CASE RollbackLeavesFragment \/ RollbackFails
  <2>1. snap \in Host /\ UsersKept(snap.user)
    BY <1>2, ApplyAssumption
    DEF RollbackLeavesFragment, RollbackFails, Typed, TypeOK, Maybe, HostInv
  <2>2. PICK p, q, us, gs, ps :
           os' = RestoreAcl(RestoreAuth(os, p, q, us, gs), ps)
    <3>1. CASE RollbackLeavesFragment
      BY <3>1, Zenon DEF RollbackLeavesFragment
    <3>2. CASE RollbackFails
      BY <3>2, Zenon DEF RollbackFails
    <3> QED
      BY <1>2, <3>1, <3>2
  <2>3. UsersKept(os'.user)
    BY <1>0, <2>1, <2>2, UserOfRestore
  <2> QED
    BY <1>2, <2>3, HostByExit DEF RollbackLeavesFragment, RollbackFails
<1>3. CASE SnapshotFails \/ WriteRegistryFails \/ PersistVersionFails \/ Crash
  <2>1. Exit /\ UNCHANGED <<os, acctReg>>
    BY <1>3 DEF SnapshotFails, WriteRegistryFails, PersistVersionFails, Crash, host
  <2> QED
    BY <1>0, <2>1, HostByExit
<1> QED
  BY <1>1, <1>2, <1>3 DEF Failure

LEMMA NextHost == Typed /\ HostInv /\ [Next]_vars => HostInv'
<1> SUFFICES ASSUME Typed, HostInv, [Next]_vars PROVE HostInv'
  OBVIOUS
<1>1. CASE Start
  BY <1>1, HostByBegin DEF Start
<1>2. CASE Progress
  BY <1>2, HostByProgress
<1>3. CASE Failure
  BY <1>3, HostByFailure
<1>4. CASE Sessions \/ UNCHANGED vars
  <2>1. UNCHANGED <<os, acctReg, decl, pc, todo, snap>>
    BY <1>4 DEF Sessions, OpenSession, CloseSession, SpoilSessions, vars, host, run
  <2> QED
    BY <2>1 DEF HostInv, UsersKept, Accounted
<1> QED
  BY <1>1, <1>2, <1>3, <1>4 DEF Next

\* No step of any run, of its rollback, or of its death changes an account
\* that Census did not create (useradd, usermod, userdel, Backup::restore).
THEOREM HostUsersAreKept == Spec => HostUsersKept
<1>1. Init => Typed /\ HostInv
  BY InitTyped, InitHost
<1>2. Typed /\ HostInv /\ [Next]_vars => Typed' /\ HostInv'
  BY NextTyped, NextHost
<1>3. Typed /\ HostInv /\ Typed' /\ HostInv' /\ [Next]_vars =>
        [\A a \in Users : os.user[a] # None /\ ~os.user[a].census
            => os'.user[a] = os.user[a]]_vars
  BY DEF HostInv, UsersKept
<1> QED
  BY <1>1, <1>2, <1>3, PTL DEF Spec, HostUsersKept

-----------------------------------------------------------------------------
(***************************************************************************)
(* A rollback whose two restores work is exact: what apply registers for   *)
(* backup before the first mutation covers all that any phase can touch,   *)
(* in whole or in part.                                                    *)
(***************************************************************************)

Outside(acl) == {e \in acl : e.path \notin SnapPaths}

\* Outside what was registered for backup the host is as in the snapshot.
SameElsewhere(h) ==
    /\ \A a \in Users : a \notin SnapUsers => h.sudoU[a] = snap.sudoU[a]
    /\ \A g \in Groups : g \notin SnapGroups => h.sudoG[g] = snap.sudoG[g]
    /\ Outside(h.acl) = Outside(snap.acl)

\* Every step left to do stays within it.
StepTracked(s) ==
    /\ s.op \in {"create", "update", "delete"} => s.name \in SnapUsers
    /\ s.op \in {"grant", "teardown"} => s.name \in SnapGroups
    /\ s.op = "file_access" =>
          /\ decl.accounts[s.name].files \subseteq SnapPaths
          /\ RemovedFiles(acctReg, s.name, {}) \subseteq SnapPaths
    /\ s.op = "revoke_deleted" => acctReg[s.name].files \subseteq SnapPaths
    /\ s.op = "grant" =>
          /\ decl.groups[s.name].files \subseteq SnapPaths
          /\ RemovedFiles(groupReg, s.name, {}) \subseteq SnapPaths
    /\ s.op = "teardown" => groupReg[s.name].files \subseteq SnapPaths

Covered ==
    /\ pc \in {"snapshot", "run"} => \A s \in todo : StepTracked(s)
    /\ pc \in {"run", "rollback"} => SameElsewhere(os)

-----------------------------------------------------------------------------
(* What is registered.                                                     *)

\* Files of the accounts and groups a step names are registered.
LEMMA FilesMember ==
    ASSUME NEW f, NEW names, NEW n \in names, n \in DOMAIN f, f[n] # None
    PROVE  f[n].files \subseteq Files(f, names)
BY DEF Files, Present

\* The steps of a new run are all registered (touched_sudoers_paths,
\* touched_group_sudoers_paths, file_access_touched_paths,
\* group_file_access_touched_paths against the phases).
LEMMA BeginTracks ==
    ASSUME Typed, NEW d \in Declarations, NEW m, NEW r, Begin(d, m, r),
           NEW s \in todo'
    PROVE  StepTracked(s)'
<1> DEFINE late == DeferredAccounts(d, acctReg, IF readable THEN sessions ELSE {})
           work == WorkList(d, acctReg, groupReg, LiveGids, late)
           touched == CreatedAccounts(d, acctReg) \cup UpdatedAccounts(d, acctReg)
           gone == VanishedAccounts(d, acctReg) \ late
           users == TrackedUsers(d, acctReg, late)
           groups == TrackedGroups(d, groupReg)
           paths == TrackedPaths(d, acctReg, groupReg, late)
<1>0. d \in Declaration
  BY ApplyAssumption
<1>1. /\ decl' = d /\ todo' = work /\ deferred' = late
      /\ UNCHANGED <<acctReg, groupReg>>
  BY DEF Begin, host
<1>2. /\ DOMAIN d.accounts = Users /\ DOMAIN d.groups = Groups
      /\ DOMAIN acctReg = Users /\ DOMAIN groupReg = Groups
  BY <1>0 DEF Declaration, Typed, TypeOK
<1>3. SnapUsers' = users /\ SnapGroups' = groups /\ SnapPaths' = paths
  BY <1>1 DEF SnapUsers, SnapGroups, SnapPaths
<1>4. /\ touched \subseteq users /\ gone \subseteq users
      /\ GrantedGroups(d, groupReg) \subseteq groups
      /\ DroppedGroups(d, groupReg) \subseteq groups
  BY DEF TrackedUsers, TouchedAccounts, TrackedGroups
<1>5. ASSUME NEW a \in users
      PROVE  /\ a \in Users
             /\ d.accounts[a] # None => d.accounts[a].files \subseteq paths
             /\ acctReg[a] # None => acctReg[a].files \subseteq paths
             /\ RemovedFiles(acctReg, a, {}) \subseteq paths
  <2>1. a \in Users
    BY <1>2, <1>5 DEF TrackedUsers, TouchedAccounts, CreatedAccounts,
                      UpdatedAccounts, VanishedAccounts, Present
  <2>2. ASSUME d.accounts[a] # None PROVE d.accounts[a].files \subseteq paths
    <3>1. a \in Present(d.accounts)
      BY <1>2, <2>1, <2>2 DEF Present
    <3> QED
      BY <1>2, <2>1, <2>2, <3>1, FilesMember DEF TrackedPaths
  <2>3. ASSUME acctReg[a] # None PROVE acctReg[a].files \subseteq paths
    BY <1>2, <1>5, <2>1, <2>3, FilesMember DEF TrackedPaths, TrackedUsers
  <2> QED
    BY <2>1, <2>2, <2>3 DEF RemovedFiles
<1>6. ASSUME NEW g \in groups
      PROVE  /\ g \in Groups
             /\ g \in GrantedGroups(d, groupReg) => d.groups[g].files \subseteq paths
             /\ groupReg[g] # None => groupReg[g].files \subseteq paths
             /\ RemovedFiles(groupReg, g, {}) \subseteq paths
  <2>1. g \in Groups
    BY <1>2, <1>6 DEF TrackedGroups, GrantedGroups, DroppedGroups, Present
  <2>2. ASSUME g \in GrantedGroups(d, groupReg)
        PROVE  d.groups[g].files \subseteq paths
    <3>1. d.groups[g] # None
      BY <2>2 DEF GrantedGroups, Present
    <3> QED
      BY <1>2, <2>1, <2>2, <3>1, FilesMember DEF TrackedPaths
  <2>3. ASSUME groupReg[g] # None PROVE groupReg[g].files \subseteq paths
    BY <1>2, <1>6, <2>1, <2>3, FilesMember DEF TrackedPaths
  <2> QED
    BY <2>1, <2>2, <2>3 DEF RemovedFiles
<1>7. \/ s \in Work("create_group", MissingGroups(d, LiveGids))
      \/ s \in Work("create", CreatedAccounts(d, acctReg))
      \/ s \in Work("update", UpdatedAccounts(d, acctReg))
      \/ s \in Work("delete", gone)
      \/ s \in Work("file_access", touched)
      \/ s \in Work("revoke_deleted", gone)
      \/ s \in Work("grant", GrantedGroups(d, groupReg))
      \/ s \in Work("teardown", DroppedGroups(d, groupReg))
      \/ s \in Work("delete_group", OrphanGroups(d, groupReg))
  BY <1>1, Zenon DEF WorkList, Work
<1>8. /\ \A a \in touched : d.accounts[a] # None
      /\ \A a \in gone : acctReg[a] # None
      /\ \A g \in DroppedGroups(d, groupReg) : groupReg[g] # None
  BY DEF CreatedAccounts, UpdatedAccounts, VanishedAccounts, DroppedGroups, Present
<1>9. SUFFICES
        /\ s.op \in {"create", "update", "delete"} => s.name \in users
        /\ s.op \in {"grant", "teardown"} => s.name \in groups
        /\ s.op = "file_access" =>
              /\ d.accounts[s.name].files \subseteq paths
              /\ RemovedFiles(acctReg, s.name, {}) \subseteq paths
        /\ s.op = "revoke_deleted" => acctReg[s.name].files \subseteq paths
        /\ s.op = "grant" =>
              /\ d.groups[s.name].files \subseteq paths
              /\ RemovedFiles(groupReg, s.name, {}) \subseteq paths
        /\ s.op = "teardown" => groupReg[s.name].files \subseteq paths
  BY <1>1, <1>3 DEF StepTracked, RemovedFiles
<1>10. CreatedAccounts(d, acctReg) \subseteq touched
       /\ UpdatedAccounts(d, acctReg) \subseteq touched
  OBVIOUS
<1> HIDE DEF late, work, touched, gone, users, groups, paths
<1>11. CASE s \in Work("create_group", MissingGroups(d, LiveGids))
  BY <1>11, WorkMember
<1>12. CASE s \in Work("create", CreatedAccounts(d, acctReg))
  BY <1>12, <1>4, <1>10, WorkMember
<1>13. CASE s \in Work("update", UpdatedAccounts(d, acctReg))
  BY <1>13, <1>4, <1>10, WorkMember
<1>14. CASE s \in Work("delete", gone)
  BY <1>14, <1>4, WorkMember
<1>15. CASE s \in Work("file_access", touched)
  BY <1>15, <1>4, <1>5, <1>8, WorkMember
<1>16. CASE s \in Work("revoke_deleted", gone)
  BY <1>16, <1>4, <1>5, <1>8, WorkMember
<1>17. CASE s \in Work("grant", GrantedGroups(d, groupReg))
  BY <1>17, <1>4, <1>6, WorkMember
<1>18. CASE s \in Work("teardown", DroppedGroups(d, groupReg))
  BY <1>18, <1>4, <1>6, <1>8, WorkMember
<1>19. CASE s \in Work("delete_group", OrphanGroups(d, groupReg))
  BY <1>19, WorkMember
<1> QED
  BY <1>7, <1>11, <1>12, <1>13, <1>14, <1>15, <1>16, <1>17, <1>18, <1>19

-----------------------------------------------------------------------------
(* What each tool leaves alone.                                            *)

LEMMA AclPath ==
    ASSUME NEW k, NEW id, NEW ps, NEW e \in Acl(k, id, ps)
    PROVE  e.path \in ps
BY DEF Acl

LEMMA SameByGroupAdded ==
    ASSUME Typed, SameElsewhere(os), NEW g, NEW id
    PROVE  SameElsewhere(GroupAdded(g, id))
BY DEF Typed, TypeOK, Host, SameElsewhere, GroupAdded

LEMMA SameByUserAdded ==
    ASSUME Typed, SameElsewhere(os), NEW a
    PROVE  SameElsewhere(UserAdded(a))
BY DEF Typed, TypeOK, Host, SameElsewhere, UserAdded

LEMMA SameByWithSudo ==
    ASSUME NEW h \in Host, SameElsewhere(h), NEW a \in SnapUsers, NEW c
    PROVE  SameElsewhere(WithSudo(h, a, c))
BY DEF Host, SameElsewhere, WithSudo

LEMMA SameByShellChanged ==
    ASSUME NEW h \in Host, SameElsewhere(h), NEW a
    PROVE  SameElsewhere(ShellChanged(h, a))
BY DEF Host, SameElsewhere, ShellChanged

LEMMA SameByGroupsReplaced ==
    ASSUME NEW h \in Host, SameElsewhere(h), NEW a
    PROVE  SameElsewhere(GroupsReplaced(h, a))
BY DEF Host, SameElsewhere, GroupsReplaced

LEMMA SameByUserDeleted ==
    ASSUME NEW h \in Host, SameElsewhere(h), NEW a
    PROVE  SameElsewhere(UserDeleted(h, a))
BY DEF Host, SameElsewhere, UserDeleted

LEMMA SameByFileAccess ==
    ASSUME NEW h \in Host, SameElsewhere(h), NEW a, NEW r, NEW ps,
           r \subseteq SnapPaths, ps \subseteq SnapPaths
    PROVE  SameElsewhere(FileAccess(h, a, r, ps))
<1> DEFINE acl == (h.acl \ Acl("u", h.user[a].uid, r))
                     \cup Acl("u", h.user[a].uid, ps)
<1>1. Outside(acl) = Outside(h.acl)
  BY AclPath DEF Outside
<1>2. FileAccess(h, a, r, ps) = [h EXCEPT !.acl = acl]
  BY DEF FileAccess
<1> HIDE DEF acl
<1> QED
  BY <1>1, <1>2 DEF Host, SameElsewhere

LEMMA SameByRevoked ==
    ASSUME NEW h \in Host, SameElsewhere(h), NEW id, NEW ps, ps \subseteq SnapPaths
    PROVE  SameElsewhere([h EXCEPT !.acl = @ \ Acl("u", id, ps)])
<1>1. Outside(h.acl \ Acl("u", id, ps)) = Outside(h.acl)
  BY AclPath DEF Outside
<1> QED
  BY <1>1 DEF Host, SameElsewhere

LEMMA SameByGranted ==
    ASSUME Typed, SameElsewhere(os), NEW g \in SnapGroups, NEW ps, NEW r,
           NEW j, NEW l, ps \subseteq SnapPaths, r \subseteq SnapPaths
    PROVE  SameElsewhere(Granted(g, ps, r, j, l))
<1> DEFINE acl == IF ps \cup r = {} THEN os.acl
                  ELSE (os.acl \cup Acl("g", GroupGid(g), ps))
                          \ Acl("g", GroupGid(g), r)
<1>1. Outside(acl) = Outside(os.acl)
  BY AclPath DEF Outside
<1>2. /\ Granted(g, ps, r, j, l).sudoU = os.sudoU
      /\ Granted(g, ps, r, j, l).sudoG = [os.sudoG EXCEPT ![g] = decl.groups[g].sudo]
      /\ Granted(g, ps, r, j, l).acl = acl
  BY DEF Granted, Typed, TypeOK, Host
<1> HIDE DEF acl
<1> QED
  BY <1>1, <1>2 DEF SameElsewhere, Typed, TypeOK, Host

LEMMA SameByTorndown ==
    ASSUME Typed, SameElsewhere(os), NEW g \in SnapGroups, NEW r, NEW l,
           r \subseteq SnapPaths
    PROVE  SameElsewhere(Torndown(g, r, l))
<1> DEFINE acl == IF r = {} THEN os.acl ELSE os.acl \ Acl("g", GroupGid(g), r)
<1>1. Outside(acl) = Outside(os.acl)
  BY AclPath DEF Outside
<1>2. /\ Torndown(g, r, l).sudoU = os.sudoU
      /\ Torndown(g, r, l).sudoG = [os.sudoG EXCEPT ![g] = {}]
      /\ Torndown(g, r, l).acl = acl
  BY DEF Torndown, Typed, TypeOK, Host
<1> HIDE DEF acl
<1> QED
  BY <1>1, <1>2 DEF SameElsewhere, Typed, TypeOK, Host

\* What a step that is next may touch is registered.
LEMMA ReadyTracked ==
    ASSUME Covered, NEW op, NEW n, Ready(op, n)
    PROVE  StepTracked([op |-> op, name |-> n]) /\ SameElsewhere(os)
BY DEF Covered, Ready

\* Removing fewer files than recorded touches no other path.
LEMMA RemovedWithin ==
    ASSUME NEW reg, NEW n, NEW keep
    PROVE  RemovedFiles(reg, n, keep) \subseteq RemovedFiles(reg, n, {})
BY DEF RemovedFiles

\* A step cut short stays within what is registered.
LEMMA SameByCut ==
    ASSUME Typed, Covered, NEW op, NEW n, Ready(op, n), NEW h \in Cut(op, n)
    PROVE  SameElsewhere(h)
<1> DEFINE s == [op |-> op, name |-> n]
<1>0. os \in Host /\ SameElsewhere(os) /\ StepTracked(s)
  BY ReadyTracked DEF Typed, TypeOK
<1>1. CASE op = "create"
  BY <1>0, <1>1, SameByUserAdded DEF Cut, CreateCut
<1>2. CASE op = "update"
  <2>1. n \in Users /\ decl.accounts[n] \in Account
    BY <1>2, StepData DEF AccountOps
  <2>2. h \in UpdateCut(n)
    BY <1>2 DEF Cut
  <2>3. /\ os.user[n] # None
        /\ h \in {ShellChanged(os, n), GroupsReplaced(ShellChanged(os, n), n)}
    BY <2>2 DEF UpdateCut
  <2>4. ShellChanged(os, n) \in Host /\ SameElsewhere(ShellChanged(os, n))
    BY <1>0, <2>1, <2>3, ShellChangedType, SameByShellChanged
  <2> QED
    BY <2>3, <2>4, SameByGroupsReplaced
<1>3. CASE op = "delete"
  <2>1. n \in SnapUsers
    BY <1>0, <1>3 DEF StepTracked
  <2> QED
    BY <1>0, <1>3, <2>1, SameByWithSudo DEF Cut, DeleteCut
<1>4. CASE op = "file_access"
  <2> DEFINE keep == decl.accounts[n].files
             drop == RemovedFiles(acctReg, n, keep)
  <2>1. keep \subseteq SnapPaths /\ drop \subseteq SnapPaths
    BY <1>0, <1>4, RemovedWithin DEF StepTracked
  <2>2. h \in FileAccessCut(n)
    BY <1>4 DEF Cut
  <2>3. \/ \E r \in SUBSET drop : h = FileAccess(os, n, r, {})
        \/ \E p \in SUBSET keep : h = FileAccess(os, n, drop, p)
    BY <2>2, Zenon DEF FileAccessCut
  <2> HIDE DEF keep, drop
  <2>4. CASE \E r \in SUBSET drop : h = FileAccess(os, n, r, {})
    <3>1. PICK r \in SUBSET drop : h = FileAccess(os, n, r, {})
      BY <2>4
    <3>2. r \subseteq SnapPaths
      BY <2>1, <3>1
    <3> QED
      BY <1>0, <3>1, <3>2, SameByFileAccess
  <2>5. CASE \E p \in SUBSET keep : h = FileAccess(os, n, drop, p)
    <3>1. PICK p \in SUBSET keep : h = FileAccess(os, n, drop, p)
      BY <2>5
    <3>2. p \subseteq SnapPaths
      BY <2>1, <3>1
    <3> QED
      BY <1>0, <2>1, <3>1, <3>2, SameByFileAccess
  <2> QED
    BY <2>3, <2>4, <2>5
<1>5. CASE op = "revoke_deleted"
  <2>1. PICK ps \in SUBSET acctReg[n].files :
           h = [os EXCEPT !.acl = @ \ Acl("u", acctReg[n].uid, ps)]
    BY <1>5 DEF Cut, RevokeDeletedCut
  <2>2. ps \subseteq SnapPaths
    BY <1>0, <1>5, <2>1 DEF StepTracked
  <2> QED
    BY <1>0, <2>1, <2>2, SameByRevoked
<1>6. CASE op = "grant"
  <2> DEFINE keep == decl.groups[n].files
             drop == RemovedFiles(groupReg, n, keep)
  <2>1. n \in SnapGroups /\ keep \subseteq SnapPaths /\ drop \subseteq SnapPaths
    BY <1>0, <1>6, RemovedWithin DEF StepTracked
  <2>2. h \in GrantCut(n)
    BY <1>6 DEF Cut
  <2>3. \E ps, r, j, l : /\ ps \subseteq keep /\ r \subseteq drop
                         /\ h = Granted(n, ps, r, j, l)
    <3>1. {} \subseteq keep /\ {} \subseteq drop
      OBVIOUS
    <3>2. CASE os.group[n] = None
      BY <2>2, <3>1, <3>2 DEF GrantCut
    <3>3. CASE os.group[n] # None
      <4>1. \/ \E p \in SUBSET keep : h = Granted(n, p, {}, {}, {})
            \/ \E p \in SUBSET drop : h = Granted(n, keep, p, {}, {})
            \/ \E j, l : h = Granted(n, keep, drop, j, l)
        BY <2>2, <3>3, Zenon DEF GrantCut
      <4> HIDE DEF keep, drop
      <4> QED
        BY <3>1, <4>1
    <3> QED
      BY <3>2, <3>3
  <2> HIDE DEF keep, drop
  <2>4. PICK ps, r, j, l : /\ ps \subseteq keep /\ r \subseteq drop
                           /\ h = Granted(n, ps, r, j, l)
    BY <2>3
  <2>5. ps \subseteq SnapPaths /\ r \subseteq SnapPaths
    BY <2>1, <2>4
  <2> QED
    BY <1>0, <2>1, <2>4, <2>5, SameByGranted
<1>7. CASE op = "teardown"
  <2>1. n \in SnapGroups /\ groupReg[n].files \subseteq SnapPaths
    BY <1>0, <1>7 DEF StepTracked
  <2>2. h \in TeardownCut(n)
    BY <1>7 DEF Cut
  <2>3. PICK r, l : r \subseteq groupReg[n].files /\ h = Torndown(n, r, l)
    <3>1. CASE os.group[n] = None
      BY <2>2, <3>1 DEF TeardownCut
    <3>2. CASE os.group[n] # None
      BY <2>2, <3>2 DEF TeardownCut
    <3> QED
      BY <3>1, <3>2
  <2>4. r \subseteq SnapPaths
    BY <2>1, <2>3
  <2> QED
    BY <1>0, <2>1, <2>3, <2>4, SameByTorndown
<1>8. CASE op \in {"create_group", "delete_group"}
  BY <1>8 DEF Cut
<1> QED
  BY <1>1, <1>2, <1>3, <1>4, <1>5, <1>6, <1>7, <1>8, StepData
  DEF AccountOps, GroupOps

-----------------------------------------------------------------------------
(* The invariant is kept.                                                  *)

\* What is registered is fixed by what a run has read at its start.
LEMMA SameRegistered ==
    ASSUME UNCHANGED <<decl, acctReg, groupReg, deferred>>
    PROVE  /\ SnapUsers' = SnapUsers /\ SnapGroups' = SnapGroups
           /\ SnapPaths' = SnapPaths
           /\ \A s : StepTracked(s)' <=> StepTracked(s)
BY DEF SnapUsers, SnapGroups, SnapPaths, StepTracked

\* A step that is done.
LEMMA CoveredByDone ==
    ASSUME Typed, Covered, NEW op, NEW n, Ready(op, n), Done(op, n),
           NEW h, os' = h, SameElsewhere(h)
    PROVE  Covered'
<1>1. /\ UNCHANGED <<decl, acctReg, groupReg, deferred, pc, snap>>
      /\ pc = "run" /\ todo' \subseteq todo
  BY DEF Done, Ready
<1>2. /\ SnapUsers' = SnapUsers /\ SnapGroups' = SnapGroups
      /\ SnapPaths' = SnapPaths
      /\ \A s : StepTracked(s)' <=> StepTracked(s)
  BY <1>1, SameRegistered
<1>3. SameElsewhere(os)'
  BY <1>1, <1>2 DEF SameElsewhere, Outside
<1>4. \A s \in todo' : StepTracked(s)'
  BY <1>1, <1>2 DEF Covered
<1> QED
  BY <1>3, <1>4 DEF Covered

LEMMA CoveredByProgress ==
    ASSUME Typed, Covered, Progress PROVE Covered'
<1>0. os \in Host
  BY DEF Typed, TypeOK
<1>1. CASE Snapshot
  <2>1. /\ UNCHANGED <<os, decl, acctReg, groupReg, deferred, todo>>
        /\ pc = "snapshot" /\ pc' = "run" /\ snap' = os
    BY <1>1 DEF Snapshot, host, run
  <2>2. \A s : StepTracked(s)' <=> StepTracked(s)
    BY <2>1, SameRegistered
  <2>3. SameElsewhere(os)'
    BY <2>1 DEF SameElsewhere
  <2> QED
    BY <2>1, <2>2, <2>3 DEF Covered
<1>2. ASSUME NEW g \in Groups, CreateGroup(g) PROVE Covered'
  <2>1. SameElsewhere(os)
    BY <1>2, ReadyTracked DEF CreateGroup
  <2>2. PICK id : os' = GroupAdded(g, id)
    BY <1>2 DEF CreateGroup
  <2> QED
    BY <1>2, <2>1, <2>2, SameByGroupAdded, CoveredByDone DEF CreateGroup
<1>3. ASSUME NEW g \in Groups, GrantGroup(g) PROVE Covered'
  <2> DEFINE keep == decl.groups[g].files
             drop == RemovedFiles(groupReg, g, keep)
  <2>1. StepTracked([op |-> "grant", name |-> g]) /\ SameElsewhere(os)
    BY <1>3, ReadyTracked DEF GrantGroup
  <2>2. g \in SnapGroups /\ keep \subseteq SnapPaths /\ drop \subseteq SnapPaths
    BY <2>1, RemovedWithin DEF StepTracked
  <2>3. SameElsewhere(Granted(g, keep, drop, ToAdd(g), ToRemove(g)))
    BY <2>1, <2>2, SameByGranted
  <2> QED
    BY <1>3, <2>3, CoveredByDone DEF GrantGroup
<1>4. ASSUME NEW g \in Groups, TeardownGroup(g) PROVE Covered'
  <2>1. StepTracked([op |-> "teardown", name |-> g]) /\ SameElsewhere(os)
    BY <1>4, ReadyTracked DEF TeardownGroup
  <2>2. g \in SnapGroups /\ groupReg[g].files \subseteq SnapPaths
    BY <2>1 DEF StepTracked
  <2>3. SameElsewhere(Torndown(g, groupReg[g].files, groupReg[g].members))
    BY <2>1, <2>2, SameByTorndown
  <2> QED
    BY <1>4, <2>3, CoveredByDone DEF TeardownGroup
<1>5. ASSUME NEW g \in Groups, DeleteGroup(g) PROVE Covered'
  <2>1. SameElsewhere(os)
    BY <1>5, ReadyTracked DEF DeleteGroup
  <2>2. SameElsewhere([os EXCEPT !.group[g] = None, !.mem[g] = {}])
    BY <1>0, <2>1 DEF SameElsewhere, Host
  <2> QED
    BY <1>5, <2>2, CoveredByDone DEF DeleteGroup
<1>6. ASSUME NEW a \in Users, CreateAccount(a) PROVE Covered'
  <2>1. StepTracked([op |-> "create", name |-> a]) /\ SameElsewhere(os)
    BY <1>6, ReadyTracked DEF CreateAccount
  <2>2. a \in SnapUsers
    BY <2>1 DEF StepTracked
  <2>3. UserAdded(a) \in Host /\ SameElsewhere(UserAdded(a))
    BY <1>6, <2>1, StepData, UserAddedType, SameByUserAdded DEF CreateAccount
  <2>4. SameElsewhere(WithSudo(UserAdded(a), a, decl.accounts[a].sudo))
    BY <2>2, <2>3, SameByWithSudo
  <2> QED
    BY <1>6, <2>4, CoveredByDone DEF CreateAccount
<1>7. ASSUME NEW a \in Users, UpdateAccount(a) PROVE Covered'
  <2> DEFINE h == GroupsReplaced(ShellChanged(os, a), a)
  <2>1. StepTracked([op |-> "update", name |-> a]) /\ SameElsewhere(os)
    BY <1>7, ReadyTracked DEF UpdateAccount
  <2>2. a \in SnapUsers
    BY <2>1 DEF StepTracked
  <2>3. decl.accounts[a] \in Account
    BY <1>7, StepData DEF UpdateAccount
  <2>4. ShellChanged(os, a) \in Host /\ SameElsewhere(ShellChanged(os, a))
    BY <1>0, <1>7, <2>1, <2>3, ShellChangedType, SameByShellChanged
    DEF UpdateAccount, CanUpdate
  <2>5. h \in Host /\ SameElsewhere(h)
    BY <2>4, GroupsReplacedType, SameByGroupsReplaced
  <2>6. SameElsewhere(WithSudo(h, a, decl.accounts[a].sudo))
    BY <2>2, <2>5, SameByWithSudo
  <2> QED
    BY <1>7, <2>6, CoveredByDone DEF UpdateAccount
<1>8. ASSUME NEW a \in Users, DeleteAccount(a) PROVE Covered'
  <2>1. StepTracked([op |-> "delete", name |-> a]) /\ SameElsewhere(os)
    BY <1>8, ReadyTracked DEF DeleteAccount
  <2>2. a \in SnapUsers
    BY <2>1 DEF StepTracked
  <2>3. WithSudo(os, a, {}) \in Host /\ SameElsewhere(WithSudo(os, a, {}))
    BY <1>0, <2>1, <2>2, WithSudoType, SameByWithSudo
  <2>4. SameElsewhere(UserDeleted(WithSudo(os, a, {}), a))
    BY <2>3, SameByUserDeleted
  <2> QED
    BY <1>8, <2>4, CoveredByDone DEF DeleteAccount
<1>9. ASSUME NEW a \in Users, AccountFiles(a) PROVE Covered'
  <2> DEFINE keep == decl.accounts[a].files
             drop == RemovedFiles(acctReg, a, keep)
  <2>1. StepTracked([op |-> "file_access", name |-> a]) /\ SameElsewhere(os)
    BY <1>9, ReadyTracked DEF AccountFiles
  <2>2. keep \subseteq SnapPaths /\ drop \subseteq SnapPaths
    BY <2>1, RemovedWithin DEF StepTracked
  <2>3. SameElsewhere(FileAccess(os, a, drop, keep))
    BY <1>0, <2>1, <2>2, SameByFileAccess
  <2>4. os' \in {os, FileAccess(os, a, drop, keep)}
    BY <1>9 DEF AccountFiles
  <2> QED
    BY <1>9, <2>1, <2>3, <2>4, CoveredByDone DEF AccountFiles
<1>10. ASSUME NEW a \in Users, RevokeDeleted(a) PROVE Covered'
  <2>1. StepTracked([op |-> "revoke_deleted", name |-> a]) /\ SameElsewhere(os)
    BY <1>10, ReadyTracked DEF RevokeDeleted
  <2>2. acctReg[a].files \subseteq SnapPaths
    BY <2>1 DEF StepTracked
  <2>3. SameElsewhere([os EXCEPT !.acl = @ \ Acl("u", acctReg[a].uid, acctReg[a].files)])
    BY <1>0, <2>1, <2>2, SameByRevoked
  <2> QED
    BY <1>10, <2>3, CoveredByDone DEF RevokeDeleted
<1>11. CASE PhasesDone \/ WriteRegistry \/ PersistVersion \/ Rollback
  <2>1. pc' \in {"write", "persist", "idle"}
    BY <1>11 DEF PhasesDone, WriteRegistry, PersistVersion, Rollback, Exit
  <2> QED
    BY <2>1 DEF Covered
<1> QED
  BY <1>1, <1>2, <1>3, <1>4, <1>5, <1>6, <1>7, <1>8, <1>9, <1>10, <1>11 DEF Progress

LEMMA NextCovered == Typed /\ Covered /\ [Next]_vars => Covered'
<1> SUFFICES ASSUME Typed, Covered, [Next]_vars PROVE Covered'
  OBVIOUS
<1>1. CASE Start
  <2>1. PICK d \in Declarations, m \in BOOLEAN, r \in BOOLEAN : Begin(d, m, r)
    BY <1>1 DEF Start
  <2>2. \A s \in todo' : StepTracked(s)'
    BY <2>1, BeginTracks
  <2>3. pc' \in {"snapshot", "write", "persist"}
    BY <2>1 DEF Begin
  <2> QED
    BY <2>2, <2>3 DEF Covered
<1>2. CASE Progress
  BY <1>2, CoveredByProgress
<1>3. CASE Failure
  <2>1. ASSUME NEW s \in todo, StepFails(s.op, s.name) PROVE Covered'
    <3>1. Ready(s.op, s.name) /\ os' \in {os} \cup Cut(s.op, s.name)
      BY <2>1 DEF StepFails
    <3>2. PICK h : h = os' /\ SameElsewhere(h)
      BY <3>1, ReadyTracked, SameByCut
    <3>3. /\ UNCHANGED <<decl, acctReg, groupReg, deferred, snap>>
          /\ pc' = "rollback"
      BY <2>1 DEF StepFails, run
    <3>4. SameElsewhere(os)'
      BY <3>2, <3>3, SameRegistered DEF SameElsewhere, Outside
    <3> QED
      BY <3>3, <3>4 DEF Covered
  <2>2. CASE ~ \E s \in todo : StepFails(s.op, s.name)
    <3>1. pc' = "idle"
      BY <1>3, <2>2 DEF Failure, SnapshotFails, RollbackFails,
         RollbackLeavesFragment, WriteRegistryFails, PersistVersionFails, Crash, Exit
    <3> QED
      BY <3>1 DEF Covered
  <2> QED
    BY <2>1, <2>2
<1>4. CASE Sessions \/ UNCHANGED vars
  <2>1. UNCHANGED <<os, decl, acctReg, groupReg, deferred, pc, snap, todo>>
    BY <1>4 DEF Sessions, OpenSession, CloseSession, SpoilSessions, vars, host, run
  <2>2. \A s : StepTracked(s)' <=> StepTracked(s)
    BY <2>1, SameRegistered
  <2>3. SameElsewhere(os)' <=> SameElsewhere(os)
    BY <2>1, SameRegistered DEF SameElsewhere, Outside
  <2> QED
    BY <2>1, <2>2, <2>3 DEF Covered
<1> QED
  BY <1>1, <1>2, <1>3, <1>4 DEF Next

\* The two restores together put the snapshot back.
LEMMA RestoreIsExact ==
    ASSUME Typed, Covered, Rollback
    PROVE  os' = [snap EXCEPT !.home = os'.home]
<1> DEFINE h == RestoreAuth(os, TRUE, TRUE, SnapUsers, SnapGroups)
<1>0. os \in Host /\ snap \in Host /\ SameElsewhere(os)
  BY DEF Typed, TypeOK, Maybe, Rollback, Covered
<1>1. h \in Host
  BY <1>0, RestoreAuthType
<1>2. h.user = snap.user /\ h.group = snap.group /\ h.mem = snap.mem
      /\ h.acl = os.acl /\ h.home = os.home
      /\ h.sudoU = [a \in Users |-> IF a \in SnapUsers THEN snap.sudoU[a] ELSE os.sudoU[a]]
      /\ h.sudoG = [g \in Groups |-> IF g \in SnapGroups THEN snap.sudoG[g] ELSE os.sudoG[g]]
  BY <1>0 DEF RestoreAuth, Host
<1>3. h.sudoU = snap.sudoU /\ h.sudoG = snap.sudoG
  BY <1>0, <1>2 DEF SameElsewhere, Host
<1> HIDE DEF h
<1>4. {e \in h.acl : e.path \notin SnapPaths}
         \cup {e \in snap.acl : e.path \in SnapPaths} = snap.acl
  BY <1>0, <1>2 DEF SameElsewhere, Outside
<1>5. os' = [h EXCEPT !.acl = snap.acl]
  BY <1>4 DEF Rollback, RestoreAcl, h
<1>6. /\ os' \in Host /\ os'.user = snap.user /\ os'.group = snap.group
      /\ os'.mem = snap.mem /\ os'.sudoU = snap.sudoU /\ os'.sudoG = snap.sudoG
      /\ os'.acl = snap.acl
  BY <1>0, <1>1, <1>2, <1>3, <1>5 DEF Host
<1> QED
  BY <1>0, <1>6 DEF Host

\* Whatever step failed and however far it got, a rollback that reports
\* success has put back the account databases, the sudoers fragments and the
\* ACLs (phase_failure, touched_sudoers_paths, file_access_touched_paths and
\* their group counterparts).
THEOREM RollbackIsExact == Spec => RollbackExact
<1>1. Init => Typed /\ Covered
  BY InitTyped DEF Init, Covered
<1>2. Typed /\ Covered /\ [Next]_vars => Typed' /\ Covered'
  BY NextTyped, NextCovered
<1>3. Typed /\ Covered /\ [Next]_vars =>
        [pc = "rollback" /\ pc' = "idle" /\ ~torn'
            => os' = [snap EXCEPT !.home = os'.home]]_vars
  <2> SUFFICES ASSUME Typed, Covered, [Next]_vars, pc = "rollback",
                      pc' = "idle", ~torn'
               PROVE  os' = [snap EXCEPT !.home = os'.home]
    OBVIOUS
  <2>1. snap # None
    BY DEF Typed, TypeOK
  <2>2. Rollback
    <3>1. ~Start /\ ~Sessions /\ ~UNCHANGED vars
      BY DEF Start, Begin, Sessions, OpenSession, CloseSession, SpoilSessions, vars
    <3>2. ~Failure
      BY <2>1 DEF Failure, SnapshotFails, StepFails, RollbackFails,
         RollbackLeavesFragment, WriteRegistryFails, PersistVersionFails, Crash
    <3>3. Progress => Rollback
      BY DEF Progress, Snapshot, CreateGroup, GrantGroup, TeardownGroup,
         DeleteGroup, CreateAccount, UpdateAccount, DeleteAccount, AccountFiles,
         RevokeDeleted, Ready, PhasesDone, WriteRegistry, PersistVersion
    <3> QED
      BY <3>1, <3>2, <3>3 DEF Next
  <2> QED
    BY <2>2, RestoreIsExact
<1> QED
  BY <1>1, <1>2, <1>3, PTL DEF Spec, RollbackExact
=============================================================================
