# Census: a TLA+ model

Census provisions role accounts, groups, sudo rules and file access on a device
from a signed declaration. `census apply` compares the declaration with a
registry of what Census already owns, changes the host with shadow-utils,
`sudoers.d` fragments and `setfacl`, rolls back if anything fails, and records
the result; what roles grant comes from a layered permission catalog, and a
family of read-only commands (plan, compile, coverage, audit, framework, doctor,
status) tells operators what is granted and what is exposed. This directory
holds models of these programs, TLC configurations that check them on small
devices, and TLAPS proofs of what matters most.

Paths below are relative to the repository's `src/` (`apply.rs`, ...).

## The system

| Part | State it keeps | Operations | Hard part |
|---|---|---|---|
| Declaration (`declaration.rs`) | none | parse, validate, required groups | adoption rules, uid and gid pins |
| Trust (`trust.rs`) | version floor `declaration.version` | verify, persist | floor and registry are two files |
| Catalog, roles, resolution (`catalog.rs`, `rolestore.rs`, `model.rs`) | none (layered files) | expand bundles, merge layers, resolve accounts and groups | precedence, cycles, warnings |
| Planning (`plan.rs`) | none | three diffs | which of two group diffs owns what |
| Registry (`state.rs`) | `managed.toml`: accounts and groups | load, write | must be the truth about the host |
| Live sessions (`sessions.rs`) | read only; owned by Tessera | read, match by name or uid | changes while apply runs; may be unreadable |
| Anti-lockout gate (`lockout.rs`) | none | refuse plans that leave no login | sees plan and records, not the host |
| Orchestration (`apply.rs`) | one run's plan, snapshot, log | phases 1 to 4, rollback, registry builders | failures between any two host calls |
| Provisioner (`mutate.rs`, `sudoers.rs`) | passwd, group, fragments | useradd, usermod, userdel, groupadd, groupdel, gpasswd, fragment install | preconditions of the tools, partial work |
| File access (`fileaccess.rs`) | POSIX ACLs, ACL dump | materialize, revoke, snapshot, restore | numeric ids outlive names; recursive grants inside one another |
| Backup (`backup.rs`) | snapshot directory | snapshot, restore, commit | restore that stops half-way |
| Inspector (`inspect.rs`), doctor, status | read only | report drift | must agree with what apply does |
| Exposure audit (`exposure/`) | one walk's index | walk, evaluate DAC, ACL, MAC access | a tree that changes during the walk; masks, mounts |
| Coverage (`coverage.rs`) | read only | scan the device, report, gate, reverse lookup | tools that hang, fail or stop half-way |
| Framework (`framework.rs`, `l10n.rs`) | none (layered files) | load, lint, reports | collisions, fallback of titles |
| Lint, compile, plan diff (`cli/`) | none | previews | must show what apply would grant |

How they interact: `run_apply` (`cli/mod.rs`) reads declaration and registry and
calls `apply::run`, which asks trust, resolution, the inspector and the sessions
reader, computes the plan, passes the gate, takes both snapshots, drives the
provisioner and the file-access backend phase by phase, and returns the new
registry; `run_apply` then writes the registry, then the version floor, then
drops the snapshot. Everything is sequential inside one process; the other
actors are the host's tools, which may fail, Tessera's sessions, which come and
go, and the machine, which may stop. Nothing is locked between two applies.

What makes each part correct:

- the registry tells the truth about the host whenever no run is in progress;
- a failed run leaves the host as it was; a foreign account is never touched;
- a live session keeps its account, and the deletion is made up for later;
- a committed run leaves somebody who can log in;
- an older signed declaration is refused, and a failed run does not raise the bar;
- applying the same declaration again changes nothing;
- a grant is in force on everything below its directory, and only a grant is;
- a reader of any file Census replaces finds a whole one, and never more widely;
- what a role resolves to is what its permissions state: no value, run-as
  account or risk label is widened on the way through bundles;
- every preview and report agrees with what apply would do or the kernel allows,
  and an incomplete scan never passes for a complete one.

`PROJECT.json` lists the hazards, each at its line, with the properties aimed at it.

## Modules

**`Plan`** - the decisions, as operators without state. A map or list keyed by
unique names is a total function with `None` where the name is absent; sudo
commands and file grants are sets because the code compares them as sets
(`sudo_set_equal`, `file_grants_set_equal`).

| Definition | Code |
|---|---|
| `CreatedAccounts`, `UpdatedAccounts`, `VanishedAccounts` | `plan::diff` |
| `MissingGroups`, `OrphanGroups`, `GroupPlanError` | `plan::diff_groups` |
| `GrantedGroups`, `DroppedGroups`, `SameGrants` | `plan::diff_resolved_groups` |
| `DeferredAccounts`, `DeferredGroups` | `reconcile_live_sessions`, `deferred_group_names` |
| `LockoutGate` | `lockout::gate` |
| `WorkList`, `Phase` | what `apply::run` will do and in which order |
| `TrackedUsers`, `TrackedGroups`, `TrackedPaths` | the `*touched*` functions that fix what is backed up |
| `BuildManagedSet`, `BuildManagedGroups` | the registry after success |

**`Apply`** - a device and the apply processes run on it one after the other.
`os` is the host, `acctReg`, `groupReg` and `floor` the files of
`/var/lib/census`, `sessions` and `readable` Tessera's registry, the rest one
process (`pc`, `decl`, `managed`, `risk`, `deferred`, `todo`, `made`,
`baselines`, `snap`), the count of injected faults (`faults`), and three
observers (`torn`, `applied`, `high`) that nothing but properties reads.

| Action | Code |
|---|---|
| `Begin` | `apply::run` up to the gate and the empty-plan exit; a refusal changes nothing and has no action |
| `Snapshot`, `SnapshotFails` | `Backup::snapshot`, `AclBackend::snapshot` |
| `CreateGroup` | phase 1 |
| `CreateAccount`, `UpdateAccount`, `DeleteAccount` | phases 2 and 3, sudoers fragment included |
| `AccountFiles`, `RevokeDeleted` | phase 3b |
| `GrantGroup`, `TeardownGroup` | phase 3c |
| `DeleteGroup` | phase 4 |
| `StepFails` | any of these failing after any prefix of its calls (`Cut`) |
| `Rollback`, `RollbackFails`, `RollbackLeavesFragment` | `phase_failure` and its siblings over `Backup::restore` and `AclBackend::restore` |
| `PhasesDone`, `WriteRegistry`, `WriteRegistryFails`, `PersistVersion`, `PersistVersionFails` | the end of `run` and of `run_apply` |
| `Crash` | the process dies; nothing looks for a leftover snapshot later |
| `OpenSession`, `CloseSession`, `SpoilSessions` | Tessera (external) |

A step whose preconditions do not hold on the host (`Can`: the user must exist
for `usermod`, the uid must be free for `useradd`, who leaves a group must be in
it) fails by itself; any other failure is an injected fault, at most `MaxFaults`
of them. That `userdel` may refuse an account that still has processes is one
of its failures.

**`ApplyClaims`** - four statements of the repository's comments and
requirements about apply that the code does not keep, each with a counterexample.

**`Doctor`** - `census doctor` and `census status` as operators over the states of
`Apply`: one operator per check of `run_doctor`, each over what `LiveInspector`
would read in that state.

**`Templates`, `Catalog`, `Roles`, `Coverage`, `L10n`** - the catalog and what is
computed from it, as operators: texts with placeholders and the constraints on
their values; layers, overrides, bundles and bound members (`ResolveInner`
follows the code's recursion, with its path stack and depth bound); slices
resolved to accounts and groups; compile, lint and the plan diff; the coverage
report and the reverse lookup. A text is a sequence of atoms with marks for what
the character-level checks look for.

**`Library`** - the state these operators are evaluated in: the files installed
(`lib`) and the slice (`comp`), which packages and an administrator change.

**`ToolCall`, `Capture`, `SurfaceScan`** - the live scan. `Capture` is
`run_capture` with its child, pipe, reader thread and watchdog; `ToolCall` is
what it promises (an answer in one step that is complete, absent or degraded);
`SurfaceScan` runs the scanners of `LiveSurface` over it, class by class, then
the walk, the owners, the report and the gate.

**`Exposure`, `Audit`** - the exposure audit. `Exposure` is the computation on an
index (ACL check, reachability, classes, severity, baseline, MAC); `Audit` is the
process: scope, walk over a file system in which directories are replaced by
links, ACL reading, report.

**`Frameworks`, `Device`** - loading and linting frameworks; `Device` adds the
framework commands to the audits: the commands that only read the device.

**`AtomicFile`, `Durable`** - the four ways Census replaces a file (restore,
sudoers fragment, registry, version floor), down to the system calls, with
failing and killed writers, leftover temporary files and a loss of power;
`AtomicFile` is the promise, one step from one whole content to another.

**`FileAccess`** - the file-access phases down to ACL entries, defaults and masks
on a tree of names with links, while others create and rewrite files.
`StartRun` is gating, plan and snapshot; `Setfacl` one recursive pass;
`SetfaclFails` and `RestoreAcls` the failure and its rollback; `LeftHalfChanged`
a kill or a failed restore, after which the device is not followed further.

**`HostFiles`**, **`Host`** - `Durable` and `FileAccess` together, and those with
`Device`: the file system as changed and as read. A behaviour goes through one of
them, which share no variable.

**`MCApply`, `MCLibrary`, `MCScan`, `MCDevice`, `MCFiles`, `MCHost`** - the small devices,
catalogs and declarations of the runs.

**`Sequencing`** - the two things several of these do with lists: filter them by
place and say that something is one.

**`ApplyProofs`, `AccountsProofs`, `GroupsProofs`, `ScanProofs`, `FilesProofs`,
`DeviceProofs`, `LibraryProofs`** - the theorems, by part of the system;
**`SequenceLemmas`** - what the last three need to know of flattened and filtered
sequences, and induction over a finite set.

### What is abstracted

- In `Apply` a file grant is its path and paths are flat; access bits, nesting
  and inheritance are `FileAccess`'s.
- A shell is whether it can log in. Two different login shells are one.
- A user's private group is not among `Groups`; a group of the declaration that
  has the name of a role account is therefore not covered.
- Names are opaque, so the file names of fragments never collide.
- Signatures are a Boolean of the declaration.
- Declarations that resolution rejects never reach the model: `Declarations`
  are valid ones (`Valid`), which `ApplyAssumption` states and TLC evaluates.
- Adopted users (`[[role_account]]` with `adopt`) have no target of their own in
  `resolve`, and only count as members an adopted group may list.
- Manual changes of the host between runs are left out: the inspector's answers
  are those of a host that only Census and the faults change.
- TOML, `getent`, `getfacl`, `dpkg` and `mountinfo` syntax is left out: a file
  that does not parse is a flag, a line that does not parse is skipped or not as
  in the code.
- Lists of the catalog whose order only decides the order of the output are
  sets, and provenance (layer, via, binding) is left out.
- In `Durable` a content is written in two parts, the least that can be torn. In
  `FileAccess` the owning group has no permission of its own, files are created
  with 0666, and no plain file is executable, so `X` means directories.

## Runs

| Run | Device and bounds | Shows |
|---|---|---|
| `accounts` | `ops`, `net` and the foreign `alice`; five declarations: create, change every field, hand a uid on, remove all, name `alice`; 1 fault | `HostUsersKept`, `RollbackExact`, `AccountsAgree`, `DeferredKept`, `LoginSurvives`, `FloorBehindRegistry`, `NoDowngrade`, `ReapplyInSync`, `DoctorAgrees` |
| `groups` | `ops`, `net`, a foreign `wheel` with a gid and `netdev`; two declarations: both groups as `[[group]]`s, created and adopted, with a member, commands and paths; and in roles, `netdev` without a `[[group]]`, `wheel` pinned, `net` gone; 1 fault | `GroupGrantsKnown`, `ReapplyInSync`, `RunsEnd`, `DroppedRemoved` |
| `catalog` | every library of at most 5 files of the pool in `MCLibrary` (2 roots, 2 layers, 4 ids), every slice of its list | `TextsFinished`, `CyclesRefused`, `ClosureExact`, `RiskHonest`, `ValuesSanctioned`, `PreviewSound`, `DiffReplays`, `WhichMirrors`, `CoverageHonest` |
| `scan` | three devices; a pipe of 1, a timeout of 2 polls, batches of 2 | `CaptureImplements`, `CleanReturn`, `GateSound`, `WalkExact`, `OwnersKept`, `ScanEnds` |
| `host` | 2 writers, 2 writes, 1 power loss on each kind of file; 2 applies on a tree of 6 nodes, one file written at any moment; 11 inodes with a bind mount, a network mount at two places and extended ACLs, 1 directory replaced during the walk; 3 framework directories in every order | `ReplaceImplements`, `FloorKept`, `NeverExposed`, `GrantsInForce`, `AccessRolledBack`, `ListingKept`, `BlindSpotsNamed`, `ExposureExact`, `PostureCovers`, `FrameworksOrderFree`, `TitleLintExact` |
| `claim_*` | the same models on what the case needs | a counterexample, see below |

What the reports are checked against is written independently of them:
`ClosureExact` compares the expansion with the set of ids reached and what each
states, `ExposureExact` the report with a kernel's view of every path
(`KernelAllows`, `KernelReaches`), `WalkExact` the walk with the set of files
below readable directories, `DiffReplays` the diff with all common
subsequences, `GateSound` the gate with the device's true surface.

About 2.0 million states for `accounts`, 0.2 million for `groups` (whose liveness is
checked on the whole graph) and 0.8 million for `host`. One fault
is enough to end a run at every point in every way (a second one adds failed
rollbacks after failed steps; a step that fails because of the host costs no
fault, so a failed rollback is reached too). Declarations can follow one another
in any order and number, so histories are not bounded. Two role accounts are the
least for uid reuse, one foreign account and one foreign group the least for
ownership. Five catalog files are a bundle with two members and an override of two of them; one
directory replaced is the only race the walk guards against; two writes with two
writers are the least that overlap, and a timeout of two polls has an exit
before, at and after it. `FileAccess` follows two applies because a grant must be
recorded before it can be dropped.

Two properties of `host` say less than they may seem to. `FrameworksOrderFree`
compares what the commands print where the directories load; where they do not,
it asks only that every order is refused, because which fault a refusal names
may depend on the order. `ListingKept` is about one replacement by a link that is
never undone: one that is undone before the directory is compared again, or that
happens after, is not noticed by the code.

`torn` marks a device on which a run ended between its first mutation and its
registry write without an exact rollback: a crash, a failed registry write, a
failed restore. The code has no recovery for it and no document promises one, so
agreement of registry and host is stated for the others; `HostUsersKept`,
`DeferredKept`, `FloorBehindRegistry` and the types are stated for all.

Fairness (`FairSpec`): weak fairness of a running process' next step, which a
live process has, failures by precondition included; strong fairness of `Start`,
which is the operator or timer that runs apply again, as the exit code of a
partial apply asks for. Nothing is assumed of sessions or of faults:
`DroppedRemoved` speaks only of behaviours in which the sessions end, the file
is readable and one declaration is applied from some point on.

In `scan` (`SurfaceScan!Fairness`): weak fairness of the scanning process, of the
reader thread while there is something to read or the pipe is closed, and of the
death of a killed child. Nothing is assumed of a tool: it may write, stall or
never exit. The last assumption is one the code relies on: a child in
uninterruptible sleep, or a grandchild that keeps the pipe open, stalls
`run_capture` for ever although its comment promises otherwise.

Deadlock is checked in the runs of `Apply`, where an apply can always be started
or sessions change. The other commands end, and so do their behaviours.

The refinements are `Capture` => `ToolCall` and `Durable` => `AtomicFile`, both
checked and proved, the latter for writers that do not overlap and with the
power on, which is all that the code's protocol gives.

### Disagreements between code and documents

- `claim_host_groups`: a `[[group]]` without `adopt` that exists on the host is
  recorded as `Created` (`build_managed_groups`) and deleted when the entry goes;
  `group-provisioning` says such a group must not be recorded.
- `claim_self_rollback`: dropping an account together with the `[[group]]` that
  lists it fails at `gpasswd -d`, after `userdel`, in every attempt;
  `group-grants` says the group is removed.
- `claim_session_race`: a session opened after the sessions were read does not
  stop the deletion; the comment at step 5c says it cannot happen.
- `claim_noop_reapply`: a group that exists for a role only is recorded and is no
  `[[group]]`, so `diff_resolved_groups` plans its teardown in every later run;
  `provisioning-apply` says the second plan is empty. `ReapplyInSync` says that
  such teardowns are all a second plan can hold. They are not always harmless: a
  group that was a `[[group]]` with members before it became a role's keeps them
  in its record, the first teardown takes them out, and the second apply of the
  same declaration fails at `gpasswd -d` and rolls back.
- `claim_root_precedence`: on an id collision inside one layer `resolve_leaf` takes
  the definition of the *earlier* root; `main.rs`, the guide and
  `catalog-resolution` say the later one wins.
- `claim_blind_spot`: the walk marks a directory as seen before it asks whether its
  mount is skipped; the second mount point of a network file system is then
  neither indexed nor named. `mounts.rs` says every skipped mount is recorded.
- `claim_group_revoke`: groups materialize first and revoke afterwards, accounts
  the other way round; a group whose outer grant gives way to an inner one is
  recorded as having it and has lost it. `group-grants` says the ACL is set, and
  `fileaccess.rs` that a group grant differs from a user grant in its letter only.

Others met on the way, without a run of their own.

Apply: `deferred_group_names` does not
look at `[[group]]` members, so a deferred account can lose such a group
(`live-reconcile`); a listed member who was in an adopted group before Census is
removed on release (`members_added` is the whole target list); `usermod -G` takes
an account out of the `[[group]]`s that list it while the registry keeps it, and
doctor reports the healthy case as an error; a dropped `[[group]]` that a role
still requires keeps its grants in the registry; `adopt = true` for a missing
group creates it; the baseline of an adopted group is read after `useradd -G`;
`Restored` is reported although the home directory that `userdel -r` removed is
gone.

Files: two applies at once share their temporary names: one may rename what the
other is still writing, install a fragment visudo rejected, or lower the floor
(`ReplaceImplements` and `FloorKept` exclude overlapping writers); only the floor
is flushed, so a power loss can leave a torn registry, fragment or auth database.
`setfacl` recomputes the mask, so an entry of somebody else that the mask had
limited takes effect, although "owner/mode/other principals are never named"; a
file created between the access and the default pass gets neither entry; grants
of different access that overlap leave the last one in force, and reordering
them is no drift for `file_grants_set_equal`; files made during a run that is
rolled back keep what they inherited.

Reports: unreadable admin directories and drop-ins shrink the surface without a
degradation, so a half-read scan can pass the gate (`coverage.rs:116` says it
cannot); compile and its lint do not look at raw file grants; baseline
subtraction is by path, so a grant to read hides a write; a second path to a
bind-mounted directory is not indexed; `getfacl` failures only lose entries; a
repeated recursive pattern grant turns into a directory grant
(`push_unique_grant`).

## Proofs

TLC checks the instances above; TLAPS proves for every value of the constants.
Every theorem is `Init => Inv`, `Inv /\ [Next]_vars => Inv'` with one case per
action, and `Inv =>` the property. TLC has also checked each inductive invariant
on the instance of one of the runs.

### Applying a declaration

For every set of users, groups, identities, declarations, host and bound on
faults, from `NoneAssumption` (the absent value is no value) and
`ApplyAssumption` (declarations are valid, the host is one Census has not
touched). The invariants build on one another, in this order:

- **`TypeCorrect`** (`ApplyProofs`): `[]TypeOK`. `TypeOK` is not inductive: that
  `UpdateAccount` reads a record, or `GrantGroup` a target, follows only from
  where the step came from. `WorkOK` adds that every step still to do has the
  target or the record it works on; the two are `Typed`.
- **`FloorStaysBehind`**, **`NoDowngradeHolds`** (`ApplyProofs`): `FloorInv` says
  that between the two writes of a managed run the registry holds the version
  about to be persisted, and that without a fault the two are level at every
  other time.
- **`HostUsersAreKept`** (`ApplyProofs`): `HostInv` says that foreign users are on
  the host and in the snapshot as they were, that the registry names none of
  them, and that every declared account is recorded, is no foreign one, or is
  still to be created (`Accounted`). So `usermod` and `userdel` are never called
  on a foreign account, and what `restore` puts back holds them.
- **`RollbackIsExact`** (`ApplyProofs`): `Covered` says that every step still to do
  stays inside what was registered for backup, and that outside it the host
  equals the snapshot; one case per action and one per way a step can be cut.
- **`RegistryIsTrue`**, **`DeferredAreKept`**, **`LoginDoesSurvive`**
  (`AccountsProofs`), from `Known == Typed /\ HostInv /\ Covered /\ AccountsInv`.
  `AgreesWith` relates the host to the registry between runs and the snapshot to
  it during one; while a run works, every account is either as recorded and still
  to be worked on, or already as the registry will record it (`build_managed_set`),
  so that the write finds all of them so (`InProgress`). `DeferInv` says that
  an account still to be deleted is as the snapshot has it and that one already
  deleted was there, so that a deferred one can be told from both.
- **`GrantsAreKnown`**, **`ReapplyFindsNothing`** (`GroupsProofs`), from
  `AllKnown == Known /\ GroupsInv`, the same argument for fragments and entries of
  groups. `GrantsAreKnown` has the hypothesis `HostGidsDiffer`: on a host where
  two groups share a gid, an ACL entry of one is an entry of the other.
- **`DoctorDoesAgree`** (`GroupsProofs`), from `AllKnown /\ DoctorInv`. What doctor
  compares and the other theorems leave open is memberships. `KeptInv` says that
  the host agrees with the records as they would stand if the run stopped here:
  a recorded role account is in exactly the groups of its record, a recorded
  group holds the members it lists, a group that is not there holds nobody, and
  the snapshot agrees with the registry; `RecordsApart` that recorded accounts are
  roles' and recorded groups list none of them, `GrantsFollow` that a `[[group]]`
  still to be created has yet to get its grants. The hypothesis `KeptApart` says
  that roles and `[[group]]`s keep out of each other's way (a role's groups list
  no members, a member is no role account), that the host's group file is
  consistent, and that gids differ. It is needed: `usermod -G` takes an account
  out of the `[[group]]`s that list it, and doctor then reports it (see above).

### The live scan

- **`CaptureTypes`**, **`CaptureLeavesNothing`**, **`CaptureRefines`**
  (`ScanProofs`, from `CaptureAssumption`): `run_capture` keeps its types,
  leaves no child and no thread behind, and implements `ToolCall`, for every
  tool, pipe and timeout. The invariant says that what was written is in the
  buffer or in the pipe (`Conserved`), that success is reported only of a tool
  that wrote everything and succeeded (`Honest`), that the reader ends only with
  an empty pipe and after the child (`Drained`), and what there is at each point
  of the call (`Placed`).
- **`ScanUsesCapture`**, **`GateIsSound`**, **`OwnersAreKept`**, **`WalkIsExact`**
  (`ScanProofs`, with `ScanAssumption`: on every
  host the root is a directory, only directories have children and each class
  has its tool). `ScanInv` carries the invariant of
  `run_capture` through the scan, relates what was collected to what the tools
  list class by class (`ObjectsKnown`, `ClassesRead`), the owners found to the
  batches answered (`OwnersInv`), a call under way to the class it is for
  (`AskedInv`) and a passing gate to the report it was decided on (`GateInv`);
  the counts of the report are those of the device by a bijection. `GateIsSound` has the hypothesis
  `MinCoverage # NoMinimum`: without a threshold nothing is gated. For the walk
  `Under` is the least set of nodes closed under the children of readable
  directories on the root's device, and `WalkInv` says that what was found is
  in that set and that a setuid file of it not found yet is under a directory of
  the stack.

### The catalog

From `CatalogAssumption` (finitely many ids, layers are a list, numbers are
numbers), `TextAssumption` (finitely many parameters, none of them spelt `..`) and
`LibraryAssumption` (surfaces, files and slices are well-formed data); the proofs
are in `LibraryProofs`. The state changes little here; the work is in the operators.
`ResolveInner`, the merge of layers and the members of a bundle taken one by one
are recursive functions, which have to be shown to exist before they can be unfolded: the lemmas do so by
induction over a finite set, one element at a time, with a *set* of the elements
for which the claim holds in the place of a predicate (`SetInduction`).

- **`CoverageIsHonest`**, **`LookupMirrors`**: what the coverage audit counts,
  what an apply would grant and what the reverse lookup finds are three
  computations over the catalog; the lemmas bring each to the same set of grants.
- **`PreviewIsSound`**: `CompKnown` says that the slice is one of the slices; a
  binding and an account run the same passes over it, so each part of what they
  get is compared pass by pass.
- **`BundleRiskIsHonest`**, **`BundlesGrantTheirClosure`**, **`IncludeLoopsAreRefused`**,
  from `KnownLib` (what is installed is among the drafts). One induction over the include depth that is left gives, for every id and
  every path stack, what `ResolveInner` returns in terms of the ids reached:
  the risk is the greatest of the leaves', the grants are their union, with files
  merged by path (`UnionGrants` of a union is `UnionGrants` of the merged
  parts), and the walk fails with `Cycle` only where an id of the stack is reached
  again. A loop is never walked to its end, because the stack holds every id of it.
- **`AccountsHoldFinishedTexts`**: a text an account gets is raw, an instance
  gated by the check of its kind, or a permission's own text without placeholders,
  whatever bundle it came through.
- **`EveryValueIsSanctioned`** says where those texts come from, and needs besides
  `ValuesAssumption`: `Values`, the set over which the property takes instances,
  has the values that roles pass and what the bindings of includes spell from
  them. `PermSourced` is carried through the same induction over the include
  depth. Each text of a resolved bundle is the template of a leaf it reaches, and
  the bundle constrains each placeholder of it as that leaf does (`Held`), or it is
  an instance that was rendered and accepted on the way; so is each text of a member
  that the bundle carries until a role names its parameters. A bare include keeps
  this because `resolve_inner` refuses two members whose constraints differ once
  normalized, so the constraint that stays judges a value as the other would
  (`JudgedAlike`). A binding keeps it because what it spells is judged by the
  member's own constraints, not by the bundle's. A leaf starts with it because a
  file whose placeholders are not its parameters fails the read (`LayerDeclared`).

### Files and reports

- **`RestoreNeverExposes`** (`FilesProofs`, from `DurableAssumption`): for any
  number of writers, kills and power losses. `ExposeInv` bounds the mode of every
  inode in every state the directory may fall back to, since a later restore
  copies the mode it finds.
- **`ReportedFloorIsKept`**, **`ReplacementIsAtomic`** (`FilesProofs`): `ReplaceInv`
  says that the temporary name never stands for a file that is, or after a loss
  of power may again be, the destination (`NamesApart`), what a writer that is
  alone has written at each of its system calls (`OneWriter`), and that every
  directory a loss of power can bring back leads to a flushed file with at least
  the version reported (`FloorFlushed`).
- **`AccessIsRolledBack`** (`FilesProofs`, from `FileAccessAssumption`: users and
  groups are finitely many, grants are lists, and the foreign entries are on
  nodes of the tree), for any tree with links, any declarations and any number of
  runs. `AclInv` says that while a run works, every node that a pass still to
  come can reach is in the dump the rollback restores or was made during the run,
  and that the dump holds, and a node outside it still has, what the run found; each `setfacl` pass,
  whole or cut after any part of its walk, stays inside (`file_access_touched_paths`
  against what `setfacl -R` reaches, links not followed).
- **`ListingIsKept`** (`DeviceProofs`, from `AuditAssumption`), with the hypothesis
  `OneSwap` (at most one directory is replaced). It is needed: with a bind mount,
  two replacements can put the admitted inode back before it is compared
  again, and no comparison of inodes can see that.
- **`TitleLintIsExact`** (`DeviceProofs`, from `DeviceAssumption`: no shipped title
  spells just its control's id).
- **`FrameworksLoadInAnyOrder`** (`DeviceProofs`): `KnownBy` gives what loading a
  *set* of directories yields, and an induction along the list shows that
  loading it one by one fails exactly if a directory is faulty or two sound ones
  share an id, and yields `KnownBy` otherwise; the set does not depend on the
  order, and `Printed` says that a command prints what it loaded.
- **`ReportSeesWhatTheKernelAllows`** (`DeviceProofs`, from `AuditAssumption`,
  `InvocationAssumption` and the same assumptions as below), for trees that are
  not written to during the walk, which is a premise of `ExposureExact`. In
  `ReportInv` an indexed path is at or under a scan root with every name on the
  way indexed too (`Anchored`), its stat is what the undisturbed tree says
  (`StatsTrue`), and the index is built from exactly that (`Built`); `AccessAgrees`
  shows `effective_acl` equal to the kernel's check, permission by permission.
  Three hypotheses on the constants are needed, each because the code then
  differs: `RootsApart` (an ignored root around another blocks the way to the
  inner one), `AccountsApart` (names and uids of the registry are unique) and
  `RootOpen` (the code wants search on `/` even to report `/` itself).
- **`PostureMissesNothing`** (`DeviceProofs`, from `AuditAssumption`, in which an ACL is
  as the kernel keeps it: one entry per tag and name, the owner's and others'
  entries are the mode's, the owning group's too where nothing extends the list,
  a user entry names a user; and `ExposureAssumption`: the tables name no class that means
  "set by the mode" or "none"). `IndexInv` carries the ACL and the class of every
  inode into the index, whatever is replaced during the walk. To a principal that
  owns nothing and belongs nowhere only the entry for others applies, which is
  where `collect_world_writable` and its siblings look. That nothing in the index
  is owned by `Nobody` is a premise of the property: uid 65534 may own files, and
  then has what their owner has.

### Only model-checked

- Liveness (`RunsEnd`, `DroppedRemoved`, `ScanEnds`): beyond the prover.
- `DiffReplays`: the longest common subsequence is a recursive computation over
  two lists, and what it yields for every input needs induction over data.
- `BlindSpotsNamed` (what the walk leaves out lies below a mount that the notices
  name, by this or another of its mount points) and `GrantsInForce` do not hold for
  every value of the constants. An inode that is first met under a pseudo root is
  not entered again under another name, and nothing is said of it; group grants
  whose trees overlap or nest overwrite each other's entries. The instances
  contain neither. Both properties count inodes: the second path of a bind mount
  carries everything below it, and that it may be the only path a principal can
  search is not covered.

## Not modelled

- Argument parsing and rendering (`main.rs`, `cli_def.rs`, `cli/render.rs`): no
  state and no decision beyond the commands modelled.
- Signature verification and payload splitting (`trust.rs`), TOML and tool-output
  syntax, name grammars and uid ranges (`declaration.rs`): byte-level checks
  whose cases a unit test enumerates better.
- `controls_membership_delta` (`framework.rs`): no command calls it.
- Test doubles (`FakeBackend`, fake inspectors).

## Plan

Done: the models and runs above. Left, in this order:

1. `BlindSpotsNamed` and `GrantsInForce` under the hypotheses that
   make them true.
2. `AtomicApply`, the promise that a run is one step or none, and `Apply` shown to
   implement it for devices that are not torn.
3. Two applies at once on the whole of `Apply`, once the code locks them or says
   what they may do to each other.
