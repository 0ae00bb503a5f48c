------------------------------- MODULE Apply --------------------------------
(***************************************************************************)
(* One device and the `census apply` processes run on it, one after the    *)
(* other: trust check, planning, snapshot, the mutation phases in the      *)
(* order of apply::run, rollback of both seams, and the registry and       *)
(* version-floor writes of run_apply.                                      *)
(*                                                                         *)
(* Every call to a host tool is a point where the run can fail, and every  *)
(* point between two actions is one where the process can die.  Sessions   *)
(* open and close at any time.                                             *)
(***************************************************************************)
EXTENDS Plan

CONSTANTS
    Declarations,   \* the declarations an operator may apply
    HostUsers,      \* the users the host has before Census
    HostGroups,     \* the groups it has
    HostMembers,    \* and who is in them
    MaxFaults       \* bound on injected faults: failures, crashes

VARIABLES
    os,             \* the host: accounts, groups, members, sudoers, ACLs
    acctReg,        \* /var/lib/census/managed.toml, accounts
    groupReg,       \* and groups
    floor,          \* /var/lib/census/declaration.version, 0 if absent
    sessions,       \* Tessera's live sessions
    readable,       \* whether sessions.json can be read and parsed
    pc,             \* where the apply process is
    decl,           \* the declaration it applies
    managed,        \* trust mode: signed (TRUE) or --trust-fs
    risk,           \* --i-understand-no-rescue
    deferred,       \* accounts whose userdel was put off
    todo,           \* steps not yet done
    made,           \* groups created in this run
    baselines,      \* members read while adopting a group in this run
    snap,           \* the backup of the host, None if none was taken
    faults,         \* faults injected so far
    torn,           \* history: a run ended between its first mutation and
                    \* its registry write without rolling back exactly
    applied,        \* history: the last declaration applied in full
    high            \* history: highest managed version in the registry

host == <<os, acctReg, groupReg, floor>>
env == <<sessions, readable>>
run == <<decl, managed, risk, deferred, made, baselines>>
history == <<torn, applied, high>>
vars == <<host, env, pc, run, todo, snap, faults, history>>

-----------------------------------------------------------------------------
(* The host.                                                               *)

\* An entry of passwd; `census` (nothing apply reads) tells who created it.
UserEntry == [uid : Uids, login : BOOLEAN, census : BOOLEAN]

\* An entry of group; `census` as above.
GroupEntry == [gid : Gids, census : BOOLEAN]

\* A named ACL entry, stored by the kernel under the numeric id.
AclEntry == [kind : {"u", "g"}, id : Uids \cup Gids, path : Paths]

\* passwd/shadow, group/gshadow (entries and members), census-<role> and
\* census-grp-<group> fragments ({} if the file is absent), ACLs, and the
\* home directories of the role accounts.
Host == [user : [Users -> Maybe(UserEntry)],
         group : [Groups -> Maybe(GroupEntry)],
         mem : [Groups -> SUBSET Users],
         sudoU : [Users -> SUBSET Cmds],
         sudoG : [Groups -> SUBSET Cmds],
         acl : SUBSET AclEntry,
         home : SUBSET Users]

ASSUME ApplyAssumption ==
    /\ Declarations \subseteq Declaration
    /\ \A d \in Declarations : Valid(d)
    /\ HostUsers \in [Users -> Maybe(UserEntry)]
    /\ HostGroups \in [Groups -> Maybe(GroupEntry)]
    /\ \A a \in Present(HostUsers) : ~HostUsers[a].census
    /\ \A g \in Present(HostGroups) : ~HostGroups[g].census
    /\ HostMembers \in [Groups -> SUBSET Users]
    /\ MaxFaults \in Nat
    /\ None \notin Declaration \cup UserEntry \cup GroupEntry \cup Host

\* The gid of every group, as SystemInspector::group reports it.
LiveGids == [g \in Groups |-> IF os.group[g] = None THEN None
                              ELSE os.group[g].gid]

Init ==
    /\ os = [user |-> HostUsers, group |-> HostGroups, mem |-> HostMembers,
             sudoU |-> [a \in Users |-> {}], sudoG |-> [g \in Groups |-> {}],
             acl |-> {}, home |-> {}]
    /\ acctReg = [a \in Users |-> None]
    /\ groupReg = [g \in Groups |-> None]
    /\ floor = 0
    /\ sessions = {} /\ readable = TRUE
    /\ pc = "idle"
    /\ decl = None /\ managed = FALSE /\ risk = FALSE
    /\ deferred = {} /\ made = {}
    /\ baselines = [g \in Groups |-> None]
    /\ todo = {} /\ snap = None
    /\ faults = 0
    /\ torn = FALSE /\ applied = None /\ high = 0

-----------------------------------------------------------------------------
(* Starting a run.                                                         *)

\* Mutant: the version floor is not consulted.
Trusted_NoFloor(d, m) == m => d.signed

\* verify_trust: --trust-fs skips the signature and the version floor.
Trusted(d, m) == m => d.signed /\ d.version >= floor

\* For the observer: d is in force, or in force but for the deletions put off;
\* the registry is what version d.version asks for.
Record(d, m, late) ==
    /\ applied' = IF late = {} THEN d ELSE None
    /\ high' = IF m /\ d.version > high THEN d.version ELSE high

\* Everything apply::run does before the snapshot.  A refusal at any of the
\* guards leaves no trace, so there is no action for it.  With nothing to do
\* only a deferral makes run_apply rewrite the registry.
Begin(d, m, r) ==
    LET live == IF readable THEN sessions ELSE {}
        late == DeferredAccounts(d, acctReg, live)
        work == WorkList(d, acctReg, groupReg, LiveGids, late)
    IN  /\ pc = "idle"
        /\ Trusted(d, m)
        /\ ~GroupPlanError(d, groupReg, LiveGids)
        /\ VanishedAccounts(d, acctReg) # {} => readable
        /\ LockoutGate(d, acctReg, late, r)
        /\ decl' = d /\ managed' = m /\ risk' = r
        /\ deferred' = late
        /\ todo' = work
        /\ pc' = IF work # {} THEN "snapshot"
                 ELSE IF late # {} THEN "write"
                 ELSE "persist"
        /\ IF work = {} /\ late = {} THEN Record(d, m, late)
           ELSE UNCHANGED <<applied, high>>
        /\ UNCHANGED <<host, env, made, baselines, snap, faults, torn>>

\* Mutant: the run starts without a backup.
Snapshot_Skipped ==
    /\ pc = "snapshot"
    /\ pc' = "run"
    /\ UNCHANGED <<host, env, run, todo, snap, faults, history>>

\* Backup::snapshot and AclBackend::snapshot.
Snapshot ==
    /\ pc = "snapshot"
    /\ snap' = os
    /\ pc' = "run"
    /\ UNCHANGED <<host, env, run, todo, faults, history>>

\* The process is gone: what it held in memory is forgotten.
Exit ==
    /\ pc' = "idle"
    /\ decl' = None /\ managed' = FALSE /\ risk' = FALSE
    /\ deferred' = {} /\ made' = {}
    /\ baselines' = [g \in Groups |-> None]
    /\ todo' = {} /\ snap' = None

Fault ==
    /\ faults < MaxFaults
    /\ faults' = faults + 1

\* A failed snapshot ends the run before any mutation.
SnapshotFails ==
    /\ pc = "snapshot"
    /\ Fault
    /\ Exit
    /\ UNCHANGED <<host, env, history>>

-----------------------------------------------------------------------------
(* The phases.  Within a phase the order is that of the declaration, which *)
(* can be any.                                                             *)

Ready(op, n) ==
    /\ pc = "run"
    /\ [op |-> op, name |-> n] \in todo
    /\ \A s \in todo : Phase(s.op) >= Phase(op)

Done(op, n) ==
    /\ todo' = todo \ {[op |-> op, name |-> n]}
    /\ UNCHANGED <<acctReg, groupReg, floor, env, pc, decl, managed, risk,
                   deferred, snap, faults, history>>

TakenGids == {os.group[g].gid : g \in Present(os.group)}
TakenUids == {os.user[a].uid : a \in Present(os.user)}

\* groupadd [-g gid]: without a pin the host picks a free gid.
CanCreateGroup(g) ==
    /\ os.group[g] = None
    /\ Pin(decl, g) \notin TakenGids

GroupAdded(g, id) ==
    [os EXCEPT !.group[g] = [gid |-> id, census |-> TRUE]]

CreateGroup(g) ==
    /\ Ready("create_group", g)
    /\ CanCreateGroup(g)
    /\ \E id \in IF Pin(decl, g) # None THEN {Pin(decl, g)} ELSE Gids \ TakenGids :
          os' = GroupAdded(g, id)
    /\ made' = made \cup {g}
    /\ Done("create_group", g)
    /\ UNCHANGED baselines

\* Mutant: an existing account of that name is taken for the one to create.
CanCreate_Existing(a) == decl.accounts[a].groups \subseteq Present(os.group)

\* useradd -u uid -m -s shell -G groups, chfn, passwd -l.
CanCreate(a) ==
    /\ os.user[a] = None
    /\ decl.accounts[a].uid \notin TakenUids
    /\ decl.accounts[a].groups \subseteq Present(os.group)

UserAdded(a) ==
    [os EXCEPT !.user[a] = [uid |-> decl.accounts[a].uid,
                            login |-> decl.accounts[a].login,
                            census |-> TRUE],
               !.mem = [g \in Groups |-> IF g \in decl.accounts[a].groups
                                         THEN os.mem[g] \cup {a}
                                         ELSE os.mem[g]],
               !.home = @ \cup {a}]

WithSudo(h, a, cmds) == [h EXCEPT !.sudoU[a] = cmds]

CreateAccount(a) ==
    /\ Ready("create", a)
    /\ CanCreate(a)
    /\ os' = WithSudo(UserAdded(a), a, decl.accounts[a].sudo)
    /\ Done("create", a)
    /\ UNCHANGED <<made, baselines>>

\* build_update_argv refuses a new uid; usermod -s runs if the shell changed,
\* usermod -G, which replaces every supplementary group, if the recorded
\* groups did.
CanUpdate(a) ==
    LET t == decl.accounts[a]
        old == acctReg[a]
    IN  /\ t.uid = old.uid
        /\ t.login # old.login => os.user[a] # None
        /\ t.groups # old.groups =>
              os.user[a] # None /\ t.groups \subseteq Present(os.group)

ShellChanged(h, a) ==
    IF decl.accounts[a].login = acctReg[a].login THEN h
    ELSE [h EXCEPT !.user[a].login = decl.accounts[a].login]

\* Mutant: usermod -aG.
GroupsReplaced_Append(h, a) ==
    [h EXCEPT !.mem = [g \in Groups |-> IF g \in decl.accounts[a].groups
                                        THEN h.mem[g] \cup {a} ELSE h.mem[g]]]

GroupsReplaced(h, a) ==
    IF decl.accounts[a].groups = acctReg[a].groups THEN h
    ELSE [h EXCEPT !.mem = [g \in Groups |-> IF g \in decl.accounts[a].groups
                                             THEN h.mem[g] \cup {a}
                                             ELSE h.mem[g] \ {a}]]

UpdateAccount(a) ==
    /\ Ready("update", a)
    /\ CanUpdate(a)
    /\ os' = WithSudo(GroupsReplaced(ShellChanged(os, a), a), a,
                      decl.accounts[a].sudo)
    /\ Done("update", a)
    /\ UNCHANGED <<made, baselines>>

\* userdel -r, after the sudoers fragment is removed.
CanDelete(a) == os.user[a] # None

UserDeleted(h, a) ==
    [h EXCEPT !.user[a] = None, !.mem = [g \in Groups |-> h.mem[g] \ {a}],
              !.home = @ \ {a}]

DeleteAccount(a) ==
    /\ Ready("delete", a)
    /\ CanDelete(a)
    /\ os' = UserDeleted(WithSudo(os, a, {}), a)
    /\ Done("delete", a)
    /\ UNCHANGED <<made, baselines>>

-----------------------------------------------------------------------------
(* File access: setfacl on behalf of an account or a group.                *)

Acl(kind, id, paths) == {[kind |-> kind, id |-> id, path |-> p] : p \in paths}

\* Mutant: a dropped grant is not revoked.
RemovedFiles_None(reg, n, keep) == {}

\* Grants that are recorded and no longer targeted.
RemovedFiles(reg, n, keep) ==
    IF reg[n] = None THEN {} ELSE reg[n].files \ keep

\* setfacl names the user, so the name must resolve.
CanFileAccess(a) ==
    decl.accounts[a].files \cup RemovedFiles(acctReg, a, {}) # {}
        => os.user[a] # None

\* Phase 3b: revoke what was dropped, then materialize the target's grants.
FileAccess(h, a, revoked, granted) ==
    [h EXCEPT !.acl = (@ \ Acl("u", h.user[a].uid, revoked))
                         \cup Acl("u", h.user[a].uid, granted)]

AccountFiles(a) ==
    /\ Ready("file_access", a)
    /\ CanFileAccess(a)
    /\ LET keep == decl.accounts[a].files
           drop == RemovedFiles(acctReg, a, keep)
       IN  os' = IF keep \cup drop = {} THEN os
                 ELSE FileAccess(os, a, drop, keep)
    /\ Done("file_access", a)
    /\ UNCHANGED <<made, baselines>>

\* A deleted account's entries go by the recorded uid.
RevokeDeleted(a) ==
    /\ Ready("revoke_deleted", a)
    /\ os' = [os EXCEPT !.acl = @ \ Acl("u", acctReg[a].uid, acctReg[a].files)]
    /\ Done("revoke_deleted", a)
    /\ UNCHANGED <<made, baselines>>

-----------------------------------------------------------------------------
(* Phase 3c: the grants of a group.                                        *)

MembersAdded(g) == IF groupReg[g] = None THEN {} ELSE groupReg[g].members

ToAdd(g) == decl.groups[g].members \ MembersAdded(g)
ToRemove(g) == MembersAdded(g) \ decl.groups[g].members

GroupGid(g) == os.group[g].gid

\* gpasswd -a needs the user, gpasswd -d a member; setfacl needs the group.
CanGrant(g) ==
    /\ decl.groups[g].files \cup RemovedFiles(groupReg, g, {}) # {}
          => os.group[g] # None
    /\ ToAdd(g) # {} => os.group[g] # None /\ ToAdd(g) \subseteq Present(os.user)
    /\ ToRemove(g) # {} => os.group[g] # None
    /\ ToRemove(g) \subseteq os.mem[g]

\* The group once its fragment is written, `granted` is materialized,
\* `revoked` is revoked (after, not before, as in phase 3b), and the members
\* `joined` and `left` are in and out.
Granted(g, granted, revoked, joined, left) ==
    [os EXCEPT !.sudoG[g] = decl.groups[g].sudo,
               !.acl = IF granted \cup revoked = {} THEN @
                       ELSE (@ \cup Acl("g", GroupGid(g), granted))
                               \ Acl("g", GroupGid(g), revoked),
               !.mem[g] = (@ \cup joined) \ left]

GrantGroup(g) ==
    /\ Ready("grant", g)
    /\ CanGrant(g)
    /\ os' = Granted(g, decl.groups[g].files,
                     RemovedFiles(groupReg, g, decl.groups[g].files),
                     ToAdd(g), ToRemove(g))
    /\ baselines' = IF NewlyAdopted(decl, groupReg, g)
                    THEN [baselines EXCEPT ![g] = os.mem[g]]
                    ELSE baselines
    /\ Done("grant", g)
    /\ UNCHANGED made

CanTeardown(g) ==
    /\ groupReg[g].files # {} => os.group[g] # None
    /\ groupReg[g].members # {} => os.group[g] # None
    /\ groupReg[g].members \subseteq os.mem[g]

\* Release and Delete do the same here; only Delete is followed by groupdel.
Torndown(g, revoked, left) ==
    [os EXCEPT !.sudoG[g] = {},
               !.acl = IF revoked = {} THEN @
                       ELSE @ \ Acl("g", GroupGid(g), revoked),
               !.mem[g] = @ \ left]

TeardownGroup(g) ==
    /\ Ready("teardown", g)
    /\ CanTeardown(g)
    /\ os' = Torndown(g, groupReg[g].files, groupReg[g].members)
    /\ Done("teardown", g)
    /\ UNCHANGED <<made, baselines>>

\* Phase 4: groupdel.
CanDeleteGroup(g) == os.group[g] # None

DeleteGroup(g) ==
    /\ Ready("delete_group", g)
    /\ CanDeleteGroup(g)
    /\ os' = [os EXCEPT !.group[g] = None, !.mem[g] = {}]
    /\ Done("delete_group", g)
    /\ UNCHANGED <<made, baselines>>

-----------------------------------------------------------------------------
(* Failure of a step.  It may have done part of its work.                  *)

Can(op, n) ==
    CASE op = "create_group"   -> CanCreateGroup(n)
      [] op = "create"         -> CanCreate(n)
      [] op = "update"         -> CanUpdate(n)
      [] op = "delete"         -> CanDelete(n)
      [] op = "file_access"    -> CanFileAccess(n)
      [] op = "revoke_deleted" -> TRUE
      [] op = "grant"          -> CanGrant(n)
      [] op = "teardown"       -> CanTeardown(n)
      [] op = "delete_group"   -> CanDeleteGroup(n)

\* The hosts a step can leave behind besides the one it found: the calls it
\* makes are cut after one of them.
CreateCut(a) == IF CanCreate(a) THEN {UserAdded(a)} ELSE {}

UpdateCut(a) ==
    IF decl.accounts[a].uid # acctReg[a].uid \/ os.user[a] = None THEN {}
    ELSE {ShellChanged(os, a)}
            \cup {GroupsReplaced(h, a) : h \in IF CanUpdate(a)
                                              THEN {ShellChanged(os, a)} ELSE {}}

DeleteCut(a) == {WithSudo(os, a, {})}

FileAccessCut(a) ==
    LET keep == decl.accounts[a].files
        drop == RemovedFiles(acctReg, a, keep)
    IN  IF os.user[a] = None THEN {}
        ELSE {FileAccess(os, a, r, {}) : r \in SUBSET drop}
                \cup {FileAccess(os, a, drop, p) : p \in SUBSET keep}

RevokeDeletedCut(a) ==
    {[os EXCEPT !.acl = @ \ Acl("u", acctReg[a].uid, p)] :
        p \in SUBSET acctReg[a].files}

GrantCut(g) ==
    LET keep == decl.groups[g].files
        drop == RemovedFiles(groupReg, g, keep)
        in == ToAdd(g) \cap Present(os.user)
    IN  IF os.group[g] = None THEN {Granted(g, {}, {}, {}, {})}
        ELSE {Granted(g, p, {}, {}, {}) : p \in SUBSET keep}
                \cup {Granted(g, keep, p, {}, {}) : p \in SUBSET drop}
                \cup {Granted(g, keep, drop, m, {}) : m \in SUBSET in}
                \cup {Granted(g, keep, drop, ToAdd(g), m) :
                        m \in IF in = ToAdd(g) THEN SUBSET ToRemove(g) ELSE {}}

TeardownCut(g) ==
    IF os.group[g] = None THEN {Torndown(g, {}, {})}
    ELSE {Torndown(g, p, {}) : p \in SUBSET groupReg[g].files}
            \cup {Torndown(g, groupReg[g].files, m) :
                    m \in SUBSET groupReg[g].members}

Cut(op, n) ==
    CASE op = "create"         -> CreateCut(n)
      [] op = "update"         -> UpdateCut(n)
      [] op = "delete"         -> DeleteCut(n)
      [] op = "file_access"    -> FileAccessCut(n)
      [] op = "revoke_deleted" -> RevokeDeletedCut(n)
      [] op = "grant"          -> GrantCut(n)
      [] op = "teardown"       -> TeardownCut(n)
      [] OTHER                 -> {}

\* A step fails because its preconditions do not hold on this host, or, as a
\* fault, for a reason of the host's own.
StepFails(op, n) ==
    /\ Ready(op, n)
    /\ IF Can(op, n) THEN Fault ELSE UNCHANGED faults
    /\ os' \in {os} \cup Cut(op, n)
    /\ pc' = "rollback"
    /\ UNCHANGED <<acctReg, groupReg, floor, env, run, todo, snap, history>>

-----------------------------------------------------------------------------
(* Rollback: Backup::restore, then AclBackend::restore.                    *)

\* Backup::restore goes through passwd/shadow, group/gshadow and then the
\* fragments, and stops at the first file it cannot replace.
RestoreAuth(h, passwd, group, us, gs) ==
    [h EXCEPT !.user = IF passwd THEN snap.user ELSE @,
              !.group = IF group THEN snap.group ELSE @,
              !.mem = IF group THEN snap.mem ELSE @,
              !.sudoU = [a \in Users |-> IF a \in us THEN snap.sudoU[a]
                                         ELSE h.sudoU[a]],
              !.sudoG = [g \in Groups |-> IF g \in gs THEN snap.sudoG[g]
                                          ELSE h.sudoG[g]]]

SnapUsers == TrackedUsers(decl, acctReg, deferred)
SnapGroups == TrackedGroups(decl, groupReg)
SnapPaths == TrackedPaths(decl, acctReg, groupReg, deferred)

RestoreAcl(h, paths) ==
    [h EXCEPT !.acl = {e \in h.acl : e.path \notin paths}
                        \cup {e \in snap.acl : e.path \in paths}]

\* Both restores succeed.
Rollback ==
    /\ pc = "rollback"
    /\ os' = RestoreAcl(RestoreAuth(os, TRUE, TRUE, SnapUsers, SnapGroups),
                        SnapPaths)
    /\ Exit
    /\ UNCHANGED <<acctReg, groupReg, floor, env, faults, history>>

\* A fragment that did not exist at snapshot time is removed best-effort:
\* failing to do so is only logged, and the restore still counts as a success.
RollbackLeavesFragment ==
    /\ pc = "rollback"
    /\ Fault
    /\ \E us \in SUBSET {a \in SnapUsers : snap.sudoU[a] = {}},
          gs \in SUBSET {g \in SnapGroups : snap.sudoG[g] = {}} :
          /\ us \cup gs # {}
          /\ os' = RestoreAcl(RestoreAuth(os, TRUE, TRUE, SnapUsers \ us,
                                          SnapGroups \ gs),
                              SnapPaths)
    /\ torn' = TRUE
    /\ Exit
    /\ UNCHANGED <<acctReg, groupReg, floor, env, applied, high>>

\* One of the restores fails; the other is attempted all the same.
RollbackFails ==
    /\ pc = "rollback"
    /\ Fault
    /\ \E passwd, group \in BOOLEAN, us \in SUBSET SnapUsers,
          gs \in SUBSET SnapGroups, paths \in SUBSET SnapPaths :
          /\ group => passwd
          /\ us # {} => group
          /\ gs # {} => us = SnapUsers
          /\ ~(group /\ us = SnapUsers /\ gs = SnapGroups /\ paths = SnapPaths)
          /\ os' = RestoreAcl(RestoreAuth(os, passwd, group, us, gs), paths)
    /\ torn' = TRUE
    /\ Exit
    /\ UNCHANGED <<acctReg, groupReg, floor, env, applied, high>>

-----------------------------------------------------------------------------
(* Success: the registry, then the version floor, then the snapshot goes.  *)

\* Mutant: the run waits for the sessions it deferred to.
PhasesDone_Waits ==
    /\ pc = "run"
    /\ todo = {}
    /\ \A a \in deferred : ~IsLive(sessions, a, acctReg[a].uid)
    /\ pc' = "write"
    /\ UNCHANGED <<host, env, run, todo, snap, faults, history>>

PhasesDone ==
    /\ pc = "run"
    /\ todo = {}
    /\ pc' = "write"
    /\ UNCHANGED <<host, env, run, todo, snap, faults, history>>

WriteRegistry ==
    /\ pc = "write"
    /\ acctReg' = BuildManagedSet(decl, acctReg, deferred)
    /\ groupReg' = BuildManagedGroups(decl, acctReg, groupReg, LiveGids,
                                      deferred, made, baselines)
    /\ pc' = "persist"
    /\ Record(decl, managed, deferred)
    /\ UNCHANGED <<os, floor, env, run, todo, snap, faults, torn>>

\* Mutant: the floor moves although the registry was not written.
WriteRegistryFails_Persists ==
    /\ pc = "write"
    /\ Fault
    /\ torn' = (torn \/ snap # None)
    /\ Exit
    /\ floor' = IF managed THEN decl.version ELSE floor
    /\ UNCHANGED <<os, acctReg, groupReg, env, applied, high>>

\* run_apply gives up without a rollback.
WriteRegistryFails ==
    /\ pc = "write"
    /\ Fault
    /\ torn' = (torn \/ snap # None)
    /\ Exit
    /\ UNCHANGED <<host, env, applied, high>>

\* persist_version in managed mode; --trust-fs never moves the floor.
PersistVersion ==
    /\ pc = "persist"
    /\ floor' = IF managed THEN decl.version ELSE floor
    /\ Exit
    /\ UNCHANGED <<os, acctReg, groupReg, env, faults, history>>

PersistVersionFails ==
    /\ pc = "persist"
    /\ managed
    /\ Fault
    /\ Exit
    /\ UNCHANGED <<host, env, history>>

\* The process dies.  Nothing looks for a leftover snapshot on the next run.
Crash ==
    /\ pc # "idle"
    /\ Fault
    /\ torn' = (torn \/ (pc \in {"run", "rollback", "write"} /\ snap # None))
    /\ Exit
    /\ UNCHANGED <<host, env, applied, high>>

-----------------------------------------------------------------------------
(* Tessera's sessions: Census only reads them.                             *)

OpenSession(a) ==
    /\ os.user[a] # None
    /\ os.user[a].census
    /\ sessions' = sessions \cup {[name |-> a, uid |-> os.user[a].uid]}
    /\ UNCHANGED <<host, readable, pc, run, todo, snap, faults, history>>

CloseSession(s) ==
    /\ s \in sessions
    /\ sessions' = sessions \ {s}
    /\ UNCHANGED <<host, readable, pc, run, todo, snap, faults, history>>

\* sessions.json becomes unreadable or malformed, and is repaired.
SpoilSessions ==
    /\ readable' = ~readable
    /\ UNCHANGED <<host, sessions, pc, run, todo, snap, faults, history>>

-----------------------------------------------------------------------------

\* What a run does when no tool fails.
Progress ==
    \/ Snapshot
    \/ \E g \in Groups : CreateGroup(g) \/ GrantGroup(g) \/ TeardownGroup(g)
                            \/ DeleteGroup(g)
    \/ \E a \in Users : CreateAccount(a) \/ UpdateAccount(a) \/ DeleteAccount(a)
                            \/ AccountFiles(a) \/ RevokeDeleted(a)
    \/ PhasesDone \/ WriteRegistry \/ PersistVersion \/ Rollback

Start == \E d \in Declarations, m, r \in BOOLEAN : Begin(d, m, r)

Failure ==
    \/ SnapshotFails
    \/ \E s \in todo : StepFails(s.op, s.name)
    \/ RollbackFails \/ RollbackLeavesFragment
    \/ WriteRegistryFails \/ PersistVersionFails
    \/ Crash

Sessions ==
    \/ \E a \in Users : OpenSession(a)
    \/ \E s \in sessions : CloseSession(s)
    \/ SpoilSessions

Next == Start \/ Progress \/ Failure \/ Sessions

Spec == Init /\ [][Next]_vars

\* A step whose preconditions fail on this host does fail.
Blocked == \E s \in todo : ~Can(s.op, s.name) /\ StepFails(s.op, s.name)

\* A process that runs goes on, and apply is run again and again, as the exit
\* code of a partial apply asks the operator to.
FairSpec == Spec /\ WF_vars(Progress \/ Blocked) /\ SF_vars(Start)

-----------------------------------------------------------------------------
(* Properties.                                                             *)

PcValues == {"idle", "snapshot", "run", "rollback", "write", "persist"}

\* Every variable stays in the set the code's types give it.
TypeOK ==
    /\ os \in Host
    /\ acctReg \in [Users -> Maybe(Account)]
    /\ groupReg \in [Groups -> Maybe(ManagedGroup)]
    /\ floor \in Nat /\ high \in Nat /\ faults \in Nat
    /\ sessions \in SUBSET Session
    /\ readable \in BOOLEAN /\ managed \in BOOLEAN /\ risk \in BOOLEAN
    /\ torn \in BOOLEAN
    /\ pc \in PcValues
    /\ decl \in Maybe(Declarations) /\ applied \in Maybe(Declarations)
    /\ pc # "idle" => decl # None
    /\ deferred \in SUBSET Users
    /\ todo \in SUBSET Steps
    /\ made \in SUBSET Groups
    /\ baselines \in [Groups -> Maybe(SUBSET Users)]
    /\ snap \in Maybe(Host)
    /\ pc \in {"run", "rollback"} => snap # None

\* Census never changes or removes an account it did not create, whatever the
\* declarations name, whatever fails and wherever a run is cut
\* (apply::run, Backup::restore).
HostUsersKept ==
    [][\A a \in Users : os.user[a] # None /\ ~os.user[a].census
            => os'.user[a] = os.user[a]]_vars

\* A rollback whose two restores work brings back the account databases, the
\* sudoers fragments and the ACLs as they were before the first mutation: what
\* apply registered for backup covers everything any phase can have touched,
\* at whatever step the run failed (touched_*_paths, phase_failure).
RollbackExact ==
    [][pc = "rollback" /\ pc' = "idle" /\ ~torn'
          => os' = [snap EXCEPT !.home = os'.home]]_vars

\* The device is not being changed, and no run was cut short on it.
Settled == pc \in {"idle", "snapshot", "persist"} /\ ~torn

UserPaths(uid) == {e.path : e \in {x \in os.acl : x.kind = "u" /\ x.id = uid}}
GroupPaths(gid) == {e.path : e \in {x \in os.acl : x.kind = "g" /\ x.id = gid}}

\* Between runs the registry tells the truth about every role account: it
\* exists with the recorded uid and shell, and holds exactly the recorded sudo
\* fragment and ACL entries; an account that is not recorded holds none, and
\* was not made by Census (build_managed_set against the phases).
AccountsAgree ==
    Settled => \A a \in Users :
        IF acctReg[a] # None
        THEN /\ os.user[a] = [uid |-> acctReg[a].uid,
                              login |-> acctReg[a].login, census |-> TRUE]
             /\ os.sudoU[a] = acctReg[a].sudo
             /\ UserPaths(acctReg[a].uid) = acctReg[a].files
        ELSE /\ os.user[a] # None => ~os.user[a].census
             /\ os.sudoU[a] = {}

\* Between runs no group holds a sudo rule or an ACL entry that the registry
\* does not know of, so that no grant is left that a later run would not take
\* away (phase 3c against build_managed_groups).
GroupGrantsKnown ==
    Settled => \A g \in Groups :
        /\ os.sudoG[g] # {} =>
              groupReg[g] # None /\ os.sudoG[g] = groupReg[g].sudo
        /\ os.group[g] # None /\ GroupPaths(os.group[g].gid) # {} =>
              groupReg[g] # None /\ GroupPaths(os.group[g].gid) = groupReg[g].files

\* While a run works, an account it deferred because of a live session keeps
\* its login, its sudo fragment, its ACL entries and every group it was
\* recorded in (reconcile_live_sessions, deferred_group_names).
DeferredKept ==
    pc \in {"run", "write"} /\ snap # None =>
      \A a \in deferred \cap Present(snap.user) :
        /\ os.user[a] = snap.user[a]
        /\ os.sudoU[a] = snap.sudoU[a]
        /\ {e \in os.acl : e.kind = "u" /\ e.id = acctReg[a].uid}
              = {e \in snap.acl : e.kind = "u" /\ e.id = acctReg[a].uid}
        /\ \A g \in acctReg[a].groups :
              snap.group[g] # None => os.group[g] = snap.group[g]

\* Without --i-understand-no-rescue a committed run that started from a device
\* with a managed login leaves one that can really be logged in to
\* (lockout::gate, which only sees the plan and the recorded shells).
LoginSurvives ==
    [][/\ pc = "write" /\ pc' = "persist"
       /\ ~risk /\ ~torn
       /\ \E a \in Present(acctReg) : acctReg[a].login
       => \E a \in Present(acctReg') : /\ acctReg'[a].login
                                       /\ os.user[a] # None
                                       /\ os.user[a].login]_vars

\* The version floor never runs ahead of what the registry holds, so a failed
\* or interrupted run cannot lock the device out of its own declaration
\* (run_apply: write_registry, then persist_version).
FloorBehindRegistry == floor <= high

\* As long as nothing is lost between the registry and the floor, a signed
\* declaration older than one already applied in managed mode is refused
\* (check_rollback).
NoDowngrade ==
    faults = 0 /\ pc # "idle" /\ managed => decl.version >= high

\* Applying again what was just applied is planned without an error and finds
\* every account and every [[group]] in place; the one thing left to do is to
\* tear down once more the recorded groups that only roles ask for (diff,
\* diff_groups and diff_resolved_groups against the registry that
\* build_managed_set and build_managed_groups wrote).
ReapplyInSync ==
    Settled /\ pc = "idle" /\ applied # None =>
        /\ ~GroupPlanError(applied, groupReg, LiveGids)
        /\ WorkList(applied, acctReg, groupReg, LiveGids, {})
              \subseteq Work("teardown", RequiredGroups(applied) \ Present(applied.groups))

\* A run always ends.
RunsEnd == pc # "idle" ~> pc = "idle"

\* The device was not torn, sessions.json is back in order and no session is
\* left, and only declaration d is applied any more.
OnlyApplied(d) ==
    <>[](~torn /\ readable /\ sessions = {} /\ (decl = d \/ decl = None))

\* An account that the declaration dropped while it had a live session is
\* removed in the end, from the host and from the registry, once the session
\* is closed and apply is run again: deferring never loses the account
\* (build_managed_set keeps its record).
DroppedRemoved ==
    \A d \in Declarations : OnlyApplied(d) =>
        <>[](\A a \in Users : d.accounts[a] = None =>
                /\ acctReg[a] = None
                /\ os.user[a] # None => ~os.user[a].census)

=============================================================================
