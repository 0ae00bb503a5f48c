-------------------------------- MODULE Plan --------------------------------
(***************************************************************************)
(* What `census apply` decides before it touches the host: the resolved    *)
(* declaration, the managed registry, the two diffs between them (accounts *)
(* and groups), live-session deferral, the anti-lockout gate, and the      *)
(* registry that a successful run leaves behind.                           *)
(*                                                                         *)
(* A set of names with a value for some of them (a BTreeMap, or the list   *)
(* of resolved targets, whose names are unique) is a total function whose  *)
(* value is None at the names that are absent.  Sudo commands and file     *)
(* grants are compared as sets by the code, so they are sets here.         *)
(***************************************************************************)
EXTENDS Naturals, FiniteSets

CONSTANTS
    Users,          \* login names: role accounts and people of the host
    Groups,         \* group names, disjoint from the users' private groups
    Uids, Gids,     \* numeric identities
    Cmds,           \* sudo commands
    Paths,          \* directories a file grant can name
    None            \* the absent value

Maybe(S) == {None} \cup S

\* The names at which f holds a value.
Present(f) == {n \in DOMAIN f : f[n] # None}

-----------------------------------------------------------------------------
(* The resolved declaration and the managed registry.                      *)

\* model::ResolvedAccount.  A managed record holds the same fields: uid,
\* shell (kept as "is login capable"), groups, sudo, file grants.
Account == [uid : Uids, login : BOOLEAN, groups : SUBSET Groups,
            sudo : SUBSET Cmds, files : SUBSET Paths]

Provenance == {"Created", "Adopted"}

\* model::ResolvedGroup.
Group == [prov : Provenance, gid : Maybe(Gids), members : SUBSET Users,
          sudo : SUBSET Cmds, files : SUBSET Paths]

\* state::ManagedGroup; members is `members_added`, baseline the members seen
\* when the group was adopted.
ManagedGroup == [prov : Provenance, gid : Maybe(Gids), members : SUBSET Users,
                 sudo : SUBSET Cmds, files : SUBSET Paths,
                 baseline : Maybe(SUBSET Users)]

\* None is none of the values it is told apart from.
ASSUME NoneAssumption ==
    None \notin Uids \cup Gids \cup Account \cup Group \cup ManagedGroup

\* A declaration as apply sees it after parsing and resolution.  `adopted` are
\* the existing users that [[role_account]] entries with adopt = true name:
\* resolution produces no target for them, yet they count as managed users.
Declaration == [version : Nat \ {0}, signed : BOOLEAN,
                accounts : [Users -> Maybe(Account)],
                adopted : SUBSET Users,
                groups : [Groups -> Maybe(Group)]]

\* Declaration::validate, for what the model keeps of a declaration.
Valid(d) ==
    /\ \A a, b \in Present(d.accounts) :
          d.accounts[a].uid = d.accounts[b].uid => a = b
    /\ \A g \in Present(d.groups) : d.groups[g].prov = "Adopted" =>
          /\ d.groups[g].gid = None
          /\ d.groups[g].members \subseteq Present(d.accounts) \cup d.adopted

-----------------------------------------------------------------------------
(* plan::diff: role accounts against the registry.                         *)

CreatedAccounts(d, acctReg) == Present(d.accounts) \ Present(acctReg)

UpdatedAccounts(d, acctReg) ==
    {a \in Present(d.accounts) \cap Present(acctReg) :
        d.accounts[a] # acctReg[a]}

VanishedAccounts(d, acctReg) == Present(acctReg) \ Present(d.accounts)

-----------------------------------------------------------------------------
(* plan::diff_groups: which groups must exist.                             *)

RequiredGroups(d) ==
    Present(d.groups) \cup UNION {d.accounts[a].groups : a \in Present(d.accounts)}

Pin(d, g) == IF d.groups[g] = None THEN None ELSE d.groups[g].gid

\* The three planning errors: PinnedGidMismatch, GidPinConflict and
\* ManagedGidDrift.  `live` gives the gid of every group of the host.
GroupPlanError(d, groupReg, live) ==
    \/ \E g \in RequiredGroups(d) :
          /\ Pin(d, g) # None
          /\ live[g] # None
          /\ Pin(d, g) # live[g]
    \/ \E g \in RequiredGroups(d), h \in Groups :
          /\ Pin(d, g) # None
          /\ live[g] = None
          /\ live[h] = Pin(d, g)
    \/ \E g \in Present(groupReg) :
          /\ live[g] # None
          /\ groupReg[g].gid # None
          /\ live[g] # groupReg[g].gid

MissingGroups(d, live) == {g \in RequiredGroups(d) : live[g] = None}

OrphanGroups(d, groupReg) ==
    {g \in Present(groupReg) \ RequiredGroups(d) : groupReg[g].prov = "Created"}

-----------------------------------------------------------------------------
(* plan::diff_resolved_groups: what Census puts on a declared group.       *)

\* Mutant: the recorded gid is compared with the pin.
SameGrants_Gid(target, record) ==
    /\ target.gid = record.gid
    /\ target.sudo = record.sudo
    /\ target.files = record.files
    /\ target.members = record.members

\* diff_group_fields: neither the provenance nor the gid is compared.
SameGrants(target, record) ==
    /\ target.sudo = record.sudo
    /\ target.files = record.files
    /\ target.members = record.members

\* Create, Adopt and Update: the groups whose grants are (re)applied.
GrantedGroups(d, groupReg) ==
    {g \in Present(d.groups) :
        groupReg[g] = None \/ ~SameGrants(d.groups[g], groupReg[g])}

\* Adopt, the only one of the three that records a baseline.
NewlyAdopted(d, groupReg, g) ==
    groupReg[g] = None /\ d.groups[g].prov = "Adopted"

\* Release and Delete: recorded, and no longer a declared [[group]].
DroppedGroups(d, groupReg) == Present(groupReg) \ Present(d.groups)

-----------------------------------------------------------------------------
(* Live sessions.                                                          *)

\* An entry of Tessera's sessions.json: pam_user and uid.
Session == [name : Users, uid : Uids]

\* LiveSessions::matches: by name or by uid.
IsLive(sessions, name, uid) ==
    \E s \in sessions : s.name = name \/ s.uid = uid

\* reconcile_live_sessions: the vanished accounts whose userdel is put off.
DeferredAccounts(d, acctReg, sessions) ==
    {a \in VanishedAccounts(d, acctReg) : IsLive(sessions, a, acctReg[a].uid)}

\* Mutant: only the deletion of the account is put off.
DeferredGroups_None(deferred, acctReg) == {}

\* deferred_group_names; the private group of an account is not in Groups.
DeferredGroups(deferred, acctReg) ==
    UNION {acctReg[a].groups : a \in deferred}

-----------------------------------------------------------------------------
(* lockout::gate, with rescue_present always FALSE as run_apply passes it. *)

TouchedAccounts(d, acctReg, deferred) ==
    CreatedAccounts(d, acctReg) \cup UpdatedAccounts(d, acctReg)
        \cup (VanishedAccounts(d, acctReg) \ deferred)

\* Mutant: accounts about to be deleted count.
SurvivingLogins_Recorded(d, acctReg, deferred) ==
    {a \in Present(acctReg) : acctReg[a].login}

SurvivingLogins(d, acctReg, deferred) ==
    {a \in CreatedAccounts(d, acctReg) \cup UpdatedAccounts(d, acctReg) :
        d.accounts[a].login}
    \cup {a \in Present(acctReg) \ TouchedAccounts(d, acctReg, deferred) :
            acctReg[a].login}

LockoutGate(d, acctReg, deferred, risk) ==
    \/ TouchedAccounts(d, acctReg, deferred) = {}
    \/ SurvivingLogins(d, acctReg, deferred) # {}
    \/ risk

-----------------------------------------------------------------------------
(* The work list.                                                          *)

AccountOps == {"create", "update", "delete", "file_access", "revoke_deleted"}
GroupOps == {"create_group", "grant", "teardown", "delete_group"}

\* The order of the phases of apply::run.
Phase(op) ==
    CASE op = "create_group"   -> 1
      [] op = "create"         -> 2
      [] op = "update"         -> 2
      [] op = "delete"         -> 3
      [] op = "file_access"    -> 4
      [] op = "revoke_deleted" -> 5
      [] op = "grant"          -> 6
      [] op = "teardown"       -> 7
      [] op = "delete_group"   -> 8

Steps == [op : AccountOps, name : Users] \cup [op : GroupOps, name : Groups]

Work(op, names) == {[op |-> op, name |-> n] : n \in names}

\* Everything one run will do.  Deferred accounts lose their delete, and the
\* groups they belong to their groupdel, but not their grant teardown.
WorkList(d, acctReg, groupReg, live, deferred) ==
    LET touched == CreatedAccounts(d, acctReg) \cup UpdatedAccounts(d, acctReg)
        gone == VanishedAccounts(d, acctReg) \ deferred
    IN  Work("create_group", MissingGroups(d, live))
        \cup Work("create", CreatedAccounts(d, acctReg))
        \cup Work("update", UpdatedAccounts(d, acctReg))
        \cup Work("delete", gone)
        \cup Work("file_access", touched)
        \cup Work("revoke_deleted", gone)
        \cup Work("grant", GrantedGroups(d, groupReg))
        \cup Work("teardown", DroppedGroups(d, groupReg))
        \cup Work("delete_group",
                  OrphanGroups(d, groupReg) \ DeferredGroups(deferred, acctReg))

-----------------------------------------------------------------------------
(* What the snapshots cover, fixed before the first mutation.              *)

\* Mutants: what is only taken away is not backed up.
TrackedUsers_Written(d, acctReg, deferred) ==
    CreatedAccounts(d, acctReg) \cup UpdatedAccounts(d, acctReg)
TrackedGroups_Written(d, groupReg) == GrantedGroups(d, groupReg)

\* touched_sudoers_paths and touched_group_sudoers_paths.
TrackedUsers(d, acctReg, deferred) == TouchedAccounts(d, acctReg, deferred)

TrackedGroups(d, groupReg) ==
    GrantedGroups(d, groupReg) \cup DroppedGroups(d, groupReg)

Files(f, names) == UNION {f[n].files : n \in names \cap Present(f)}

\* file_access_touched_paths and group_file_access_touched_paths.
TrackedPaths(d, acctReg, groupReg, deferred) ==
    Files(d.accounts, Present(d.accounts))
    \cup Files(acctReg, TouchedAccounts(d, acctReg, deferred))
    \cup Files(d.groups, GrantedGroups(d, groupReg))
    \cup Files(groupReg, TrackedGroups(d, groupReg))

-----------------------------------------------------------------------------
(* The registry after a successful run.                                    *)

\* Mutants: deferred accounts are forgotten; recorded accounts are not updated.
BuildManagedSet_Forgets(d, acctReg, deferred) == d.accounts
BuildManagedSet_Stale(d, acctReg, deferred) ==
    [a \in Users |-> IF d.accounts[a] # None /\ acctReg[a] # None
                     THEN acctReg[a] ELSE d.accounts[a]]

\* build_managed_set: the targets, and the deferred accounts as recorded.
BuildManagedSet(d, acctReg, deferred) ==
    [a \in Users |-> IF a \in deferred THEN acctReg[a] ELSE d.accounts[a]]

\* The gid recorded for a declared group: the pin, else the recorded one,
\* else the live one.
RecordedGid(d, groupReg, live, g) ==
    IF d.groups[g].gid # None THEN d.groups[g].gid
    ELSE IF groupReg[g] # None /\ groupReg[g].gid # None THEN groupReg[g].gid
    ELSE live[g]

\* build_managed_groups.  `made` are the groups this run created, `baselines`
\* the members read while adopting.
BuildManagedGroups(d, acctReg, groupReg, live, deferred, made, baselines) ==
    LET required == RequiredGroups(d) \cup DeferredGroups(deferred, acctReg)
        membership(g) ==
            IF groupReg[g] # None /\ g \in required THEN groupReg[g]
            ELSE IF g \in made
                 THEN [prov |-> "Created", gid |-> live[g], members |-> {},
                       sudo |-> {}, files |-> {}, baseline |-> None]
                 ELSE None
        baseline(g) ==
            IF d.groups[g].prov = "Created" THEN None
            ELSE IF baselines[g] # None THEN baselines[g]
            ELSE IF groupReg[g] # None THEN groupReg[g].baseline
            ELSE None
    IN  [g \in Groups |->
            IF d.groups[g] = None THEN membership(g)
            ELSE [prov |-> d.groups[g].prov,
                  gid |-> RecordedGid(d, groupReg, live, g),
                  members |-> d.groups[g].members,
                  sudo |-> d.groups[g].sudo,
                  files |-> d.groups[g].files,
                  baseline |-> baseline(g)]]

=============================================================================
