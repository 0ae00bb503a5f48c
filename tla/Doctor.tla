------------------------------- MODULE Doctor -------------------------------
(***************************************************************************)
(* The two read-only commands that judge a device, census doctor and       *)
(* census status, over the states apply leaves behind: what the inspector  *)
(* reads from the host, the checks of run_doctor and the exit codes.       *)
(*                                                                         *)
(* Two facts the host of Apply does not carry are inputs: `shadow` (can    *)
(* it be read, and which users it shows as locked), and `keys`, the users  *)
(* with an authorized_keys file.                                           *)
(***************************************************************************)
EXTENDS Apply

-----------------------------------------------------------------------------
(* LiveInspector.                                                          *)

\* groups_for: the groups whose member list names the user.
GroupsFor(a) == {g \in Present(os.group) : a \in os.mem[g]}

\* Accounts whose GECOS field carries the marker useradd and chfn put there.
CensusMarkedAccounts == {a \in Present(os.user) : os.user[a].census}

\* getfacl prints the name of an entry's id.
FileAccessPresent(a, p) == os.user[a] # None /\ p \in UserPaths(os.user[a].uid)
GroupFileAccessPresent(g, p) == os.group[g] # None /\ p \in GroupPaths(os.group[g].gid)

\* is_rescue_eligible: a login shell and a way to authenticate.
IsRescueEligible(a, shadow, keys) ==
    os.user[a].login /\ ((shadow.read /\ a \notin shadow.locked) \/ a \in keys)

LoginCapableNonManaged(shadow, keys) ==
    {a \in Present(os.user) \ Present(acctReg) : IsRescueEligible(a, shadow, keys)}

-----------------------------------------------------------------------------
(* The checks.                                                             *)

DoctorFinding(severity, check, target) ==
    [severity |-> severity, check |-> check, target |-> target]
Errors(check, S) == {DoctorFinding("Error", check, n) : n \in S}
Warns(check, S) == {DoctorFinding("Warn", check, n) : n \in S}

\* Registry entries without their account or with another uid, shell or set
\* of groups, and marked accounts without an entry.
RegistryIntegrity ==
    LET differs(a) == \/ os.user[a].uid # acctReg[a].uid
                      \/ os.user[a].login # acctReg[a].login
                      \/ GroupsFor(a) # acctReg[a].groups
    IN  Errors("registry-integrity",
               {a \in Present(acctReg) : os.user[a] = None \/ differs(a)}
                  \cup (CensusMarkedAccounts \ Present(acctReg)))

\* Only a group Census created has a gid that may not move.
GroupIntegrity ==
    Errors("group-registry-integrity",
           {g \in Present(groupReg) :
              \/ os.group[g] = None
              \/ /\ groupReg[g].gid # None
                 /\ os.group[g].gid # groupReg[g].gid
                 /\ groupReg[g].prov = "Created"})

\* The gid, the fragment and the members of an adopted group; one with no
\* members at all says nothing.  The gid of the baseline is the recorded one:
\* no step of Apply renumbers a group.
AdoptedGroupDrift ==
    Warns("adopted-group-drift",
          {g \in Present(groupReg) :
             /\ groupReg[g].prov = "Adopted" /\ groupReg[g].baseline # None
             /\ \/ /\ os.group[g] # None /\ groupReg[g].gid # None
                   /\ os.group[g].gid # groupReg[g].gid
                \/ groupReg[g].sudo # {} /\ os.sudoG[g] = {}
                \/ os.mem[g] # {} /\ ~(groupReg[g].members \subseteq os.mem[g])})

FileAccessDrift ==
    Warns("file-access-drift",
          {a \in Present(acctReg) : \E p \in acctReg[a].files : ~FileAccessPresent(a, p)}
             \cup {g \in Present(groupReg) :
                     \E p \in groupReg[g].files : ~GroupFileAccessPresent(g, p)})

\* An unreadable shadow database is one advisory, never a verdict.
Unreachability(shadow, keys) ==
    IF ~shadow.read
    THEN Warns("shadow-unreadable", {"system"})
            \cup Errors("unreachability", {a \in Present(acctReg) : os.user[a] = None \/ a \in keys})
    ELSE Errors("unreachability",
                {a \in Present(acctReg) : os.user[a] = None \/ a \notin shadow.locked \/ a \in keys})

AntiLockout(shadow, keys) ==
    Warns("anti-lockout",
          IF shadow.read /\ LoginCapableNonManaged(shadow, keys) = {}
          THEN {"system"} ELSE {})

\* plan::diff on the accounts: [[group]] entries are not looked at.
Drift(d) ==
    Warns("drift", IF d # None /\ TouchedAccounts(d, acctReg, {}) # {}
                   THEN {"declaration"} ELSE {})

\* framework_findings and framework_load_warning: never an error.
FrameworkFindings(lints) == Warns("framework-integrity", lints)

RunDoctor(d, shadow, keys, lints) ==
    RegistryIntegrity \cup GroupIntegrity \cup AdoptedGroupDrift \cup FileAccessDrift
       \cup Unreachability(shadow, keys) \cup AntiLockout(shadow, keys) \cup Drift(d)
       \cup FrameworkFindings(lints)

DoctorExitCode(report) ==
    IF \E f \in report : f.severity = "Error" THEN "failure" ELSE "success"

\* render_status: a registry that cannot be read is shown as an empty one,
\* and the command always succeeds.
RunStatus(d, loaded) ==
    [accounts |-> IF loaded THEN Present(acctReg) ELSE {},
     floor |-> IF loaded THEN floor ELSE 0,
     in_sync |-> loaded /\ Drift(d) = {},
     exit |-> "success"]

-----------------------------------------------------------------------------
(* Properties.                                                             *)

\* The locks and keys of a device where nobody tampered with either.
Untouched == [read |-> TRUE, locked |-> CensusMarkedAccounts]

\* Doctor and apply agree on what a healthy device is: where roles alone give
\* out group membership and the runs ended well, whatever was created, changed,
\* put off or taken away before, doctor reports no error and no missing grant,
\* and status calls the declaration last applied in sync (run_doctor's
\* comparisons against what the phases do and the builders record).
DoctorAgrees ==
    Settled /\ pc = "idle" =>
        /\ DoctorExitCode(RunDoctor(applied, Untouched, {}, {})) = "success"
        /\ FileAccessDrift = {} /\ AdoptedGroupDrift = {}
        /\ applied # None => RunStatus(applied, TRUE).in_sync
=============================================================================
