-------------------------------- MODULE Audit -------------------------------
(***************************************************************************)
(* One `census audit fs` or `census audit expose` process (cli/audit.rs):  *)
(* the choice of the scope, the walk of LiveWalker over a file system that *)
(* others change meanwhile, the ACL read and the report.                   *)
(*                                                                         *)
(* The file system is a function from inodes to [kind, listable, uid, gid, *)
(* mode, acl, entries, target]; entries maps the names in a directory to   *)
(* inodes, and an inode may be entered under several names (bind mounts,   *)
(* hard links).  The environment's only move is the one the walk guards    *)
(* against: a directory is renamed away and a symbolic link takes its      *)
(* name.                                                                   *)
(***************************************************************************)
EXTENDS Exposure

CONSTANTS
    Tree,          \* the file system at the start
    RootIno,       \* the inode of /
    NoIno,         \* not an inode
    Spare,         \* an inode number free for the link
    PseudoRoots,   \* PSEUDO_FS_ROOTS
    SkipMounts,    \* mount points whose fstype is network or pseudo
    Invocations,   \* the command lines, with the configuration they meet
    Passwd, GroupDb, Registry,   \* the databases the report reads
    Providers,     \* MAC providers to judge the report under
    MaxSwaps       \* bound on the environment's moves

\* An ACL as the kernel keeps it: one entry for each tag and name, those of the
\* owner and of others the mode's, a user entry with a name, an entry for the
\* owning group, which is the mode's where nothing extends it.
AclOk(acl, mode) ==
    /\ IsSeq(acl)
    /\ \A e \in Range(acl) : /\ e.tag = "user_obj" => e.perms = mode.owner
                             /\ e.tag = "other" => e.perms = mode.other
                             /\ e.tag = "user" => e.who # NoName
                             /\ e.tag = "group_obj" /\ ~IsExtended(acl) => e.perms = mode.group
    /\ \A e, f \in Range(acl) :
          e.tag = f.tag /\ e.tag # "default" /\ (e.tag \in {"user", "group"} => e.who = f.who) => e.perms = f.perms
    /\ acl # <<>> => \E e \in Range(acl) : e.tag = "group_obj"

\* The link's inode is free at the start, and every inode has its fields.
ASSUME AuditAssumption ==
    /\ RootIno \in DOMAIN Tree /\ Spare \notin DOMAIN Tree /\ NoIno \notin DOMAIN Tree \cup {Spare}
    /\ \A i \in DOMAIN Tree : {"kind", "mode", "acl", "entries", "target"} \subseteq DOMAIN Tree[i]
                              /\ AclOk(Tree[i].acl, Tree[i].mode)

VARIABLES
    fs, swaps,     \* the environment
    at,            \* where the process is
    cmd,           \* its command line
    rootsLeft,     \* scan roots not yet walked
    visited,       \* directory inodes entered below the current root
    stack,         \* directories to read, each with the inode it was admitted as
    reading,       \* the directory being enumerated
    stats,         \* path -> what lstat said of it
    skipped,       \* skipped_mounts
    index,         \* the permission index
    out,           \* exit code and findings
    admitted, listed, unread   \* history: directories chosen, directories
                               \* enumerated, ACLs getfacl did not give

walk == <<rootsLeft, visited, stack, reading, stats, skipped, admitted, listed>>
auditVars == <<fs, swaps, at, cmd, walk, index, out, unread>>

NoReading == [path |-> <<>>, exp |-> NoIno, dir |-> NoIno, names |-> {}]
NoOutput == [exit |-> "none", findings |-> {}]

-----------------------------------------------------------------------------
(* The kernel's path lookup.                                               *)

IsDir(t, i) == i \in DOMAIN t /\ t[i].kind = "dir"
IsLink(t, i) == i \in DOMAIN t /\ t[i].kind = "link"
Follow(t, i) == IF IsLink(t, i) THEN t[i].target ELSE i
Enter(t, i, n) ==
    LET d == Follow(t, i)
    IN IF IsDir(t, d) /\ n \in DOMAIN t[d].entries THEN t[d].entries[n] ELSE NoIno

\* lstat in the tree t: links on the way are followed, the last name is not.
Lookup(t, path) == FoldLeft(LAMBDA i, n : Enter(t, i, n), RootIno, path)
Lstat(path) == Lookup(fs, path)

StatOf(i) == [ino |-> i, uid |-> fs[i].uid, gid |-> fs[i].gid, mode |-> fs[i].mode]
PushStat(path, i) == [q \in DOMAIN stats \cup {path} |-> IF q = path THEN StatOf(i) ELSE stats[q]]

-----------------------------------------------------------------------------
(* Starting.                                                               *)

AuditInit ==
    /\ fs = Tree /\ swaps = 0
    /\ at = "start" /\ cmd = [what |-> "none"]
    /\ rootsLeft = <<>> /\ visited = {} /\ stack = <<>> /\ reading = NoReading
    /\ stats = <<>> /\ skipped = {} /\ index = <<>> /\ out = NoOutput
    /\ admitted = {} /\ listed = {} /\ unread = {}

\* ExposureConfig::load: an absent file is the default, an unreadable or
\* invalid one ends the run.
ConfigLoads(c) == c.file # "bad" /\ c.scan_roots # <<>>

\* scan_roots: --root wins over --full over the prompt over the config.
ScanRoots(o) ==
    CASE o.roots # <<>> -> o.roots
      [] o.roots = <<>> /\ o.full -> <<<<>>>>
      [] OTHER -> IF o.prompt # <<>> THEN o.prompt ELSE o.config.scan_roots

\* Scan roots are a list of paths.
ASSUME InvocationAssumption == \A o \in Invocations : IsSeq(ScanRoots(o)) /\ \A r \in Range(ScanRoots(o)) : IsSeq(r)

\* ensure_absolute_roots: a relative root is one that starts with ".".
AbsoluteRoots(roots) == \A r \in Range(roots) : r = <<>> \/ r[1] # "."

PrincipalOf(o) == ResolvePrincipal(Passwd, GroupDb, o.who)

\* Every argument is judged before anything is walked; the open build has no
\* MAC backend, so --mac is refused.
Accepted(o) ==
    /\ ConfigLoads(o.config)
    /\ AbsoluteRoots(ScanRoots(o))
    /\ o.what = "expose" => PrincipalOf(o) # {}
    /\ ~o.mac

StartAudit(o) ==
    /\ at = "start"
    /\ cmd' = o
    /\ IF Accepted(o)
       THEN at' = "roots" /\ rootsLeft' = ScanRoots(o) /\ UNCHANGED out
       ELSE at' = "done" /\ out' = [exit |-> "failure", findings |-> {}] /\ UNCHANGED rootsLeft
    /\ UNCHANGED <<fs, swaps, visited, stack, reading, stats, skipped, index, admitted, listed, unread>>

-----------------------------------------------------------------------------
(* LiveWalker::walk.                                                       *)

\* The roots that are passed over without a word.
Ignored(r) == r \in PseudoRoots \/ Lstat(r) \notin DOMAIN fs \/ IsLink(fs, Lstat(r))

SkipRoot ==
    /\ at = "roots" /\ rootsLeft # <<>>
    /\ Ignored(Head(rootsLeft)) \/ Head(rootsLeft) \in SkipMounts
    /\ skipped' = IF Ignored(Head(rootsLeft)) THEN skipped ELSE skipped \cup {Head(rootsLeft)}
    /\ rootsLeft' = Tail(rootsLeft)
    /\ UNCHANGED <<fs, swaps, at, cmd, visited, stack, reading, stats, index, out, admitted, listed, unread>>

EnterRoot ==
    /\ at = "roots" /\ rootsLeft # <<>>
    /\ LET r == Head(rootsLeft)
           i == Lstat(r)
       IN  /\ ~Ignored(r) /\ r \notin SkipMounts
           /\ stats' = PushStat(r, i)
           /\ IF IsDir(fs, i)
              THEN /\ visited' = {i} /\ stack' = <<[path |-> r, ino |-> i]>>
                   /\ admitted' = admitted \cup {<<r, i>>}
              ELSE visited' = {} /\ UNCHANGED <<stack, admitted>>
    /\ rootsLeft' = Tail(rootsLeft)
    /\ at' = "descend"
    /\ UNCHANGED <<fs, swaps, cmd, reading, skipped, index, out, listed, unread>>

\* A root that is there and cannot be stat'ed ends the run.
RootFails ==
    /\ at = "roots" /\ rootsLeft # <<>>
    /\ ~(Head(rootsLeft) \in PseudoRoots)
    /\ at' = "done" /\ out' = [exit |-> "failure", findings |-> {}]
    /\ UNCHANGED <<fs, swaps, cmd, walk, index, unread>>

\* read_dir opens the directory of that name now; an unreadable one is skipped.
OpenDir ==
    /\ at = "descend" /\ stack # <<>>
    /\ LET top == Last(stack)
           d == Follow(fs, Lstat(top.path))
       IN IF IsDir(fs, d) /\ fs[d].listable
          THEN /\ reading' = [path |-> top.path, exp |-> top.ino, dir |-> d, names |-> DOMAIN fs[d].entries]
               /\ at' = "recheck"
          ELSE UNCHANGED <<reading, at>>
    /\ stack' = Front(stack)
    /\ UNCHANGED <<fs, swaps, cmd, rootsLeft, visited, stats, skipped, index, out, admitted, listed, unread>>

\* Mutant: the directory is read without looking again.
Recheck_None ==
    /\ at = "recheck"
    /\ at' = "entries" /\ listed' = listed \cup {<<reading.path, reading.dir>>}
    /\ UNCHANGED <<fs, swaps, cmd, rootsLeft, visited, stack, reading, stats, skipped, index, out, admitted, unread>>

\* dir_inode_unchanged, after the open: on a mismatch the subtree is dropped.
Recheck ==
    /\ at = "recheck"
    /\ IF Lstat(reading.path) = reading.exp
       THEN at' = "entries" /\ listed' = listed \cup {<<reading.path, reading.dir>>} /\ UNCHANGED reading
       ELSE at' = "descend" /\ reading' = NoReading /\ UNCHANGED listed
    /\ UNCHANGED <<fs, swaps, cmd, rootsLeft, visited, stack, stats, skipped, index, out, admitted, unread>>

\* Mutant: a mount that is not entered is not mentioned.
Descend_Silent(path, i) ==
    /\ visited' = visited \cup {i}
    /\ UNCHANGED skipped
    /\ IF i \in visited \/ path \in SkipMounts THEN UNCHANGED <<stack, admitted>>
       ELSE stack' = Append(stack, [path |-> path, ino |-> i]) /\ admitted' = admitted \cup {<<path, i>>}

\* enter_dir, then the mount table, then the stack.
Descend(path, i) ==
    /\ visited' = visited \cup {i}
    /\ skipped' = IF i \notin visited /\ path \in SkipMounts THEN skipped \cup {path} ELSE skipped
    /\ IF i \in visited \/ path \in SkipMounts THEN UNCHANGED <<stack, admitted>>
       ELSE stack' = Append(stack, [path |-> path, ino |-> i]) /\ admitted' = admitted \cup {<<path, i>>}

\* One entry, in the order of the directory: lstat by path; links are neither
\* recorded nor followed.
ReadEntry(n) ==
    LET path == Append(reading.path, n)
        i == Lstat(path)
    IN  /\ at = "entries" /\ n \in reading.names
        /\ reading' = [reading EXCEPT !.names = @ \ {n}]
        /\ IF path \in PseudoRoots \/ i \notin DOMAIN fs \/ IsLink(fs, i)
           THEN UNCHANGED <<stats, visited, skipped, stack, admitted>>
           ELSE /\ stats' = PushStat(path, i)
                /\ IF IsDir(fs, i) THEN Descend(path, i)
                   ELSE UNCHANGED <<visited, skipped, stack, admitted>>
        /\ UNCHANGED <<fs, swaps, at, cmd, rootsLeft, index, out, listed, unread>>

EntriesDone ==
    /\ at = "entries" /\ reading.names = {}
    /\ at' = "descend" /\ reading' = NoReading
    /\ UNCHANGED <<fs, swaps, cmd, rootsLeft, visited, stack, stats, skipped, index, out, admitted, listed, unread>>

RootDone ==
    /\ at = "descend" /\ stack = <<>>
    /\ at' = "roots"
    /\ UNCHANGED <<fs, swaps, cmd, walk, index, out, unread>>

-----------------------------------------------------------------------------
(* The index and the report.                                               *)

\* build_with: getfacl is best effort; what it does not answer for is left to
\* the mode, and so is an ACL that only restates it.
ReadAcls ==
    /\ at = "roots" /\ rootsLeft = <<>>
    /\ \E lost \in SUBSET {q \in DOMAIN stats : IsExtended(fs[stats[q].ino].acl)} :
          /\ unread' = lost
          /\ index' = [q \in DOMAIN stats |->
                        [uid |-> stats[q].uid, gid |-> stats[q].gid, mode |-> stats[q].mode,
                         acl |-> LET a == ParseGetfacl(fs[stats[q].ino].acl)
                                 IN IF q \notin lost /\ IsExtended(a) THEN a ELSE <<>>,
                         class |-> Classify(cmd.config.secret_globs, q, stats[q].mode)]]
    /\ at' = "report"
    /\ UNCHANGED <<fs, swaps, cmd, walk, out>>

FindingsOf(o) ==
    IF o.what = "fs" THEN AuditFs(index, Registry, o.config.broad_groups, GroupDb, NullMac)
    ELSE UNION {ExposureReport(index, p, Range(ScanRoots(o)), Registry, NullMac).findings : p \in PrincipalOf(o)}

ReportAudit ==
    /\ at = "report"
    /\ out' = [exit |-> AuditExitCode(FindingsOf(cmd)), findings |-> FindingsOf(cmd)]
    /\ at' = "done"
    /\ UNCHANGED <<fs, swaps, cmd, walk, index, unread>>

\* The managed registry cannot be read.
ReportFails ==
    /\ at = "report"
    /\ at' = "done" /\ out' = [exit |-> "failure", findings |-> {}]
    /\ UNCHANGED <<fs, swaps, cmd, walk, index, unread>>

-----------------------------------------------------------------------------
(* The environment.                                                        *)

\* The directory n of d is moved away and a link to t takes its name.
SwapDir(d, n, t) ==
    /\ swaps < MaxSwaps
    /\ at \notin {"start", "report", "done"}
    /\ fs[fs[d].entries[n]].kind = "dir" /\ t # fs[d].entries[n]
    /\ fs' = [i \in DOMAIN fs \cup {Spare} |->
                IF i = Spare THEN [fs[RootIno] EXCEPT !.kind = "link", !.entries = <<>>, !.target = t]
                ELSE IF i = d THEN [fs[i] EXCEPT !.entries[n] = Spare] ELSE fs[i]]
    /\ swaps' = swaps + 1
    /\ UNCHANGED <<at, cmd, walk, index, out, unread>>

Dirs == {i \in DOMAIN fs : fs[i].kind = "dir"}

WalkStep ==
    \/ SkipRoot \/ EnterRoot \/ OpenDir \/ Recheck \/ EntriesDone \/ RootDone
    \/ \E n \in reading.names : ReadEntry(n)

AuditNext ==
    \/ \E o \in Invocations : StartAudit(o)
    \/ WalkStep \/ RootFails \/ ReadAcls \/ ReportAudit \/ ReportFails
    \/ \E d \in Dirs : \E n \in DOMAIN fs[d].entries, t \in Dirs : SwapDir(d, n, t)

AuditSpec == AuditInit /\ [][AuditNext]_auditVars

-----------------------------------------------------------------------------
(* Properties.                                                             *)

\* The names the walk goes through below a directory are those of the inode it
\* lstat'ed and chose to enter: a directory on the way that has become a link by
\* the time it is opened is not enumerated through that link (dir_inode_unchanged
\* after read_dir).  The environment swaps once and never back: a swap undone
\* before the recheck is outside the model, and one after it is not noticed.
ListingKept == listed \subseteq admitted

Indexed == at \in {"report", "done"} /\ out.exit # "failure" /\ index # <<>>

\* path lies at or below a mount the report names as skipped.
Skipped(path) == \E k \in 0..Len(path) : SubSeq(path, 1, k) \in skipped

\* Every place an undisturbed walk may end early.
Trimmed(path) ==
    \/ Skipped(path)
    \/ \E k \in 0..Len(path) : LET q == SubSeq(path, 1, k) IN
          \/ q \in PseudoRoots
          \/ IsLink(fs, Lstat(q))
          \/ k < Len(path) /\ ~fs[Lstat(q)].listable

\* Every path that leads somewhere from r, links followed, to a bounded depth.
MaxDepth == 4
PathsFrom(r) ==
    LET below(q) == LET d == Follow(fs, Lstat(q)) IN IF IsDir(fs, d) THEN {Append(q, n) : n \in DOMAIN fs[d].entries} ELSE {}
        level[k \in 0..MaxDepth] == IF k = 0 THEN {r} ELSE UNION {below(q) : q \in level[k - 1]}
    IN UNION {level[k] : k \in 0..MaxDepth}

\* Paths an undisturbed walk from r must account for, and other names of the
\* object at one.
Owed(r) == {q \in PathsFrom(r) : Lstat(q) # NoIno /\ ~Trimmed(q)}
NamesOf(q) == {p \in UNION {PathsFrom(r) : r \in Range(ScanRoots(cmd))} : Lstat(p) = Lstat(q)}

\* Whatever the scan leaves out is below a mount it names as skipped, under this
\* or another of its names: an object below a scan root that the walk could reach
\* is in the index under one name, or the notices tell of a mount that holds it
\* (walk's per-root visited set, skip_fstype and the notices).
BlindSpotsNamed ==
    Indexed /\ swaps = 0 =>
      \A r \in Range(ScanRoots(cmd)) : \A q \in Owed(r) :
         \E p \in NamesOf(q) : p \in DOMAIN stats \/ Skipped(p)

\* "Every skipped mount is recorded so the operator knows coverage was trimmed,
\* never silently" (mounts.rs; SkippedMount says the same): an object that is
\* left out is left out under a mount that the notices name by that very path.
\* The code does not keep it: enter_dir runs before skip_fstype, so the second
\* mount point of a skipped file system is passed over without a notice.
NoBlindSpot ==
    Indexed /\ swaps = 0 =>
      \A r \in Range(ScanRoots(cmd)) : \A q \in Owed(r) :
         \E p \in NamesOf(q) : p \in DOMAIN stats

\* What the kernel lets a process do, one permission at a time.
KernelAllows(i, p, perm) ==
    LET e == fs[i].acl
        masked(S) == {x \in S : \A m \in Range(e) : m.tag = "mask" => perm \in m.perms}
        users == {x \in Range(e) : x.tag = "user" /\ x.who = p.name}
        groups == {x \in Range(e) : \/ x.tag = "group" /\ InNamedGroup(p, x.who)
                                    \/ x.tag = "group_obj" /\ MemberOf(p, fs[i].gid)}
        grants(S) == \E x \in masked(S) : perm \in x.perms
    IN  \/ p.uid = 0
        \/ /\ p.uid = fs[i].uid /\ perm \in fs[i].mode.owner
        \/ /\ p.uid # fs[i].uid
           /\ IF e = <<>>
              THEN perm \in IF MemberOf(p, fs[i].gid) THEN fs[i].mode.group ELSE fs[i].mode.other
              ELSE IF users # {} THEN grants(users)
              ELSE IF groups # {} THEN grants(groups)
              ELSE perm \in fs[i].mode.other

\* p can walk from the scan roots to the object at path.
KernelReaches(path, p, roots) ==
    \A k \in 0..(Len(path) - 1) : LET d == SubSeq(path, 1, k) IN
       WithinScope(d, roots) => KernelAllows(Lstat(d), p, "x")

Harm(path, p) ==
    LET class == index[path].class
    IN IF KernelAllows(Lstat(path), p, "w") THEN IF class \in Privileged THEN "escalation" ELSE "tamper"
       ELSE IF class = "Secret" /\ KernelAllows(Lstat(path), p, "r") THEN "leak" ELSE "none"

\* Access the account is meant to have.
Intended(path, p) ==
    \E a \in Bound(Registry.accounts, p) :
       \/ p.home # <<>> /\ AtOrUnder(p.home, path)
       \/ \E g \in a.grants : g.path # <<>> /\ (g.path = path \/ (g.recursive /\ AtOrUnder(g.path, path)))

\* A label rules the access out for every context the principal can take.
Ruled(path, p, harm, mac) ==
    /\ mac.active /\ path \in DOMAIN mac.labels
    /\ p.uid \in DOMAIN mac.contexts /\ mac.contexts[p.uid] # {}
    /\ \A c \in mac.contexts[p.uid] :
          <<c, mac.labels[path], IF harm = "leak" THEN "read" ELSE "write">> \notin mac.permits

Everyone == UNION {PrincipalOf(o) : o \in Invocations}

\* On a file system nobody changes, and with every ACL read, the report for a
\* principal names exactly the harm the kernel would let it do on the objects
\* of the index, less what its grants and its home intend and what a label
\* rules out: no access is missed and none is made up (effective_acl's order
\* and mask, reachable_dir, the baseline and refine_with_mac).
ExposureExact ==
    Indexed /\ at = "report" /\ swaps = 0 /\ unread = {} =>
      \A p \in Everyone, mac \in Providers :
        LET roots == Range(ScanRoots(cmd))
            report == ExposureReport(index, p, roots, Registry, mac)
        IN  {<<f.path, f.risk>> : f \in report.findings}
              = {<<q, Harm(q, p)>> : q \in
                  {x \in DOMAIN index : /\ Harm(x, p) # "none" /\ (p.uid = 0 \/ KernelReaches(x, p, roots))
                                        /\ ~Intended(x, p) /\ ~Ruled(x, p, Harm(x, p), mac)}}

Nobody == 65534

\* The posture map misses nothing anyone at all could do: whatever a principal
\* without files, accounts, groups or entries of its own can do to an object of a
\* sensitive class, audit fs reports as well (collect_* against finding_for).
PostureCovers ==
    Indexed /\ at = "report" /\ (\A q \in DOMAIN index : index[q].uid # Nobody) =>
      LET nobody == [name |-> NoName, uid |-> Nobody, groups |-> <<>>, home |-> <<>>]
          posture == AuditFs(index, Registry, cmd.config.broad_groups, GroupDb, NullMac)
      IN \A f \in Expose(index, nobody, Range(ScanRoots(cmd)), GlobalContext(Registry)) :
           f.class # "Generic" => \E g \in posture : g.path = f.path /\ g.risk = f.risk
=============================================================================
