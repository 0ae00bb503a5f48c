---------------------------- MODULE ApplyClaims -----------------------------
(***************************************************************************)
(* What the comments and the requirements of the repository say of apply   *)
(* and the code does not keep.  Each claim has a run that finds a          *)
(* counterexample; README.md tells them one by one.                        *)
(***************************************************************************)
EXTENDS Apply

\* The scheduling the counterexamples are found under: a run in progress goes
\* on unless a fault stops it.
ProgressSpec == Spec /\ WF_vars(Progress)

\* "A group that exists and is not in the registry must not be changed or
\* recorded: Census did not create it" (group-provisioning), hence Census
\* never removes or replaces a group of the host (build_managed_groups
\* records it as Created, diff_groups then deletes it).
HostGroupsKept ==
    [][\A g \in Groups : os.group[g] # None /\ ~os.group[g].census
            => os'.group[g] = os.group[g]]_vars

\* "When a Created group vanishes from the declaration Census runs groupdel":
\* with no fault at all, no run rolls itself back (gpasswd -d fails once
\* userdel has taken the member out).
NoSelfInflictedRollback == faults = 0 => pc # "rollback"

\* "A second apply of the same declaration to a device in sync must be a no-op:
\* empty plan, zero mutations" (provisioning-apply): a group that only a role
\* asks for is recorded, is no [[group]], and is torn down in every run
\* (diff_resolved_groups).
SecondPlanEmpty ==
    Settled /\ pc = "idle" /\ applied # None =>
        WorkList(applied, acctReg, groupReg, LiveGids, {}) = {}

\* "The dangerous direction (a session starting after the read, then its
\* account torn down) cannot happen here" (step 5c of apply::run).
LiveNeverDeleted ==
    [][\A a \in Users : os.user[a] # None /\ os'.user[a] = None
            => ~IsLive(sessions, a, os.user[a].uid) \/ ~os.user[a].census]_vars

=============================================================================
