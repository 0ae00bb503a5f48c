------------------------------ MODULE Durable -------------------------------
(***************************************************************************)
(* How Census replaces a file: the restore of an auth database             *)
(* (backup.rs, atomic_replace), a sudoers fragment (sudoers.rs,            *)
(* write_fragment), the registry (apply.rs, write_registry) and the        *)
(* anti-rollback floor (trust.rs, persist_version).  All four write a      *)
(* temporary file and rename it; they differ in how they open it, what     *)
(* they do to it and what they flush.                                      *)
(*                                                                         *)
(* Writers are processes, two of which may run at a time (nothing locks    *)
(* them out), and may be killed between any two system calls.  The device  *)
(* may lose power: the names and modes then are those of some moment since *)
(* the directory was flushed, and a file has lost any part of what was     *)
(* not flushed.                                                            *)
(***************************************************************************)
EXTENDS Naturals, FiniteSets

CONSTANTS Procs,      \* writers
          Inodes,     \* inode numbers of the directory, a set of naturals
          NoInode,
          Values,     \* contents to write: versions, a set of naturals
          Rejected,   \* contents visudo rejects
          Kinds,      \* the protocols to look at
          MaxWrites,  \* bound on the writes begun
          MaxCrashes  \* bound on power losses

Torn == 99   \* what a reader makes of part of a content: no content of its own

ASSUME DurableAssumption ==
  /\ Values \subseteq Nat \ {0, Torn} /\ Rejected \subseteq Values
  /\ Inodes \subseteq Nat /\ Inodes # {} /\ NoInode \notin Inodes
  /\ Kinds \subseteq {"restore", "fragment", "registry", "floor"}

VARIABLES kind,       \* the file in question
          meta,       \* [dest, tmp: inode of the name; mode: who can read an inode]
          journal,    \* the states of meta since the last flush of the directory
          data,       \* inode -> [val, len]
          disk,       \* inode -> what was flushed of it
          procs,      \* writer -> [pc, val, ino]
          acked,      \* the largest version whose writer reported success
          before,     \* who could read the destination at first
          overlapped, lost, writes, crashes   \* history

durVars == <<kind, meta, journal, data, disk, procs, acked, before, overlapped, lost, writes, crashes>>

Full == 2              \* a content is written in two parts
Empty == [val |-> 0, len |-> 0]
Private == 0           \* 0600
Shared == 1            \* 0640, as the file that is replaced
World == 2             \* 0644, what open gives under the usual umask
NoProc == [pc |-> "idle", val |-> 0, ino |-> NoInode]

\* What a reader of the destination finds: 0 for no file.
ReadDest(m, d) ==
  IF m.dest = NoInode THEN 0
  ELSE IF d[m.dest].len = Full THEN d[m.dest].val ELSE Torn

-----------------------------------------------------------------------------
(* The file system.                                                        *)

SetMeta(m) == meta' = m /\ journal' = journal \cup {m}
KeepMeta == UNCHANGED <<meta, journal>>
Held == {procs[p].ino : p \in Procs} \cup UNION {{m.dest, m.tmp} : m \in journal}
Free == Inodes \ Held

DurableInit ==
  /\ kind \in Kinds
  /\ \E old \in {NoInode, CHOOSE i \in Inodes : TRUE} :
       meta = [dest |-> old, tmp |-> NoInode, mode |-> [i \in Inodes |-> IF i = old THEN Shared ELSE Private]]
  /\ journal = {meta}
  /\ data = [i \in Inodes |-> IF i = meta.dest THEN [val |-> 1, len |-> Full] ELSE Empty]
  /\ disk = data
  /\ procs = [p \in Procs |-> NoProc]
  /\ acked = 0 /\ overlapped = FALSE /\ lost = FALSE /\ writes = 0 /\ crashes = 0
  /\ before = IF meta.dest = NoInode THEN Private ELSE Shared

Goto(p, pc) == procs' = [procs EXCEPT ![p].pc = pc]
Leave(p) == procs' = [procs EXCEPT ![p] = NoProc]
CleanupTemp == SetMeta([meta EXCEPT !.tmp = NoInode])

-----------------------------------------------------------------------------
(* The steps of a writer.                                                  *)

\* The caller decides to write v.  verify_trust has admitted v when it read the
\* floor, which must be readable, and v is not below it.
Begin(p, v) ==
  /\ procs[p].pc = "idle" /\ writes < MaxWrites
  /\ kind = "floor" => ReadDest(meta, data) # Torn /\ v >= ReadDest(meta, data)
  /\ procs' = [procs EXCEPT ![p] = [pc |-> "open", val |-> v, ino |-> NoInode]]
  /\ overlapped' = (overlapped \/ \E q \in Procs : procs[q].pc # "idle")
  /\ writes' = writes + 1
  /\ KeepMeta /\ UNCHANGED <<kind, data, disk, acked, before, lost, crashes>>

\* Mutant: every temporary file is created under the usual umask.
TempMode_Default == World

\* The mode the temporary file is created with: 0600 asked for by
\* open_restore_temp and write_private.
TempMode == IF kind \in {"restore", "floor"} THEN Private ELSE World

\* A fresh file under the temporary name.
Create(p) ==
  \E i \in {j \in Free : \A k \in Free : j <= k} :
    /\ SetMeta([meta EXCEPT !.tmp = i, !.mode[i] = TempMode])
    /\ data' = [data EXCEPT ![i] = Empty] /\ disk' = [disk EXCEPT ![i] = Empty]
    /\ procs' = [procs EXCEPT ![p].pc = "write", ![p].ino = i]

\* open_restore_temp, open_excl: create_new; on AlreadyExists the name is
\* dropped and the open tried once more.
OpenExcl(p) ==
  /\ kind \in {"restore", "fragment"}
  /\ \/ procs[p].pc \in {"open", "retry"} /\ meta.tmp = NoInode /\ Create(p)
     \/ /\ procs[p].pc = "open" /\ meta.tmp # NoInode
        /\ CleanupTemp /\ Goto(p, "retry") /\ UNCHANGED <<data, disk>>
     \/ /\ procs[p].pc = "retry" /\ meta.tmp # NoInode
        /\ Leave(p) /\ KeepMeta /\ UNCHANGED <<data, disk>>
  /\ UNCHANGED <<kind, acked, before, overlapped, lost, writes, crashes>>

\* fs::write, write_private: an existing file is truncated.
OpenTrunc(p) ==
  /\ kind \in {"registry", "floor"} /\ procs[p].pc = "open"
  /\ \/ meta.tmp = NoInode /\ Create(p)
     \/ /\ meta.tmp # NoInode
        /\ data' = [data EXCEPT ![meta.tmp] = Empty]
        /\ procs' = [procs EXCEPT ![p].pc = "write", ![p].ino = meta.tmp]
        /\ KeepMeta /\ UNCHANGED disk
  /\ UNCHANGED <<kind, acked, before, overlapped, lost, writes, crashes>>

\* What follows write_all.
AfterWrite ==
  CASE kind = "restore" -> "mode" [] kind = "fragment" -> "mode"
    [] kind = "registry" -> "rename" [] OTHER -> "sync"

\* write_all goes on at the descriptor's own offset, whatever another writer
\* has done to the file.
Patched(d, v, part) ==
  CASE part = 1 /\ d.len <= 1 -> [val |-> v, len |-> 1]
    [] part = 2 /\ d.val = v /\ d.len >= 1 -> [val |-> v, len |-> Full]
    [] OTHER -> [val |-> Torn, len |-> Full]

Write(p) ==
  LET i == procs[p].ino
      part == IF procs[p].pc = "write2" THEN 2 ELSE 1
  IN /\ procs[p].pc \in {"write", "write2"}
     /\ data' = [data EXCEPT ![i] = Patched(@, procs[p].val, part)]
     /\ Goto(p, IF part = 2 THEN AfterWrite ELSE "write2")
     /\ KeepMeta /\ UNCHANGED <<kind, disk, acked, before, overlapped, lost, writes, crashes>>

\* sync_all of write_private.
SyncFile(p) ==
  /\ procs[p].pc = "sync"
  /\ disk' = [disk EXCEPT ![procs[p].ino] = data[procs[p].ino]]
  /\ Goto(p, "rename")
  /\ KeepMeta /\ UNCHANGED <<kind, data, acked, before, overlapped, lost, writes, crashes>>

\* preserve_dest_permissions works on the descriptor, set_mode_0440 on the name.
SetMode(p) ==
  /\ procs[p].pc = "mode"
  /\ \/ /\ kind = "restore"
        /\ SetMeta([meta EXCEPT !.mode[procs[p].ino] =
                      IF meta.dest = NoInode THEN @ ELSE meta.mode[meta.dest]])
        /\ Goto(p, "rename")
     \/ /\ kind = "fragment" /\ meta.tmp # NoInode
        /\ SetMeta([meta EXCEPT !.mode[meta.tmp] = Shared])
        /\ Goto(p, "validate")
  /\ UNCHANGED <<kind, data, disk, acked, before, overlapped, lost, writes, crashes>>

\* Mutant: visudo's verdict is not looked at.
Validate_Ignored(p) ==
  /\ procs[p].pc = "validate"
  /\ Goto(p, "rename") /\ KeepMeta
  /\ UNCHANGED <<kind, data, disk, acked, before, overlapped, lost, writes, crashes>>

\* visudo -c -f on the temporary name: a whole content gets its verdict, part
\* of one may pass.
Validate(p) ==
  /\ procs[p].pc = "validate" /\ meta.tmp # NoInode
  /\ LET d == data[meta.tmp]
     IN \/ (d.len < Full \/ d.val \notin Rejected) /\ Goto(p, "rename") /\ KeepMeta
        \/ (d.len < Full \/ d.val \in Rejected) /\ Leave(p) /\ CleanupTemp
  /\ UNCHANGED <<kind, data, disk, acked, before, overlapped, lost, writes, crashes>>

\* rename moves whatever the temporary name stands for now.
Rename(p) ==
  /\ procs[p].pc = "rename" /\ meta.tmp # NoInode
  /\ SetMeta([meta EXCEPT !.dest = meta.tmp, !.tmp = NoInode])
  /\ IF kind = "floor" THEN Goto(p, "syncdir") ELSE Leave(p)
  /\ UNCHANGED <<kind, data, disk, acked, before, overlapped, lost, writes, crashes>>

\* Mutant: the directory is not flushed.
SyncDir_None(p) ==
  /\ procs[p].pc = "syncdir"
  /\ acked' = IF procs[p].val > acked THEN procs[p].val ELSE acked
  /\ Leave(p)
  /\ UNCHANGED <<kind, meta, journal, data, disk, before, overlapped, lost, writes, crashes>>

\* sync_parent_dir, and persist_version reports success.
SyncDir(p) ==
  /\ procs[p].pc = "syncdir"
  /\ journal' = {meta}
  /\ acked' = IF procs[p].val > acked THEN procs[p].val ELSE acked
  /\ Leave(p)
  /\ UNCHANGED <<kind, meta, data, disk, before, overlapped, lost, writes, crashes>>

\* A system call fails; cleanup_temp where the code calls it.
CleansUp(pc) == pc = "rename" \/ (kind \in {"restore", "fragment"} /\ pc \notin {"open", "retry"})
Fail(p) ==
  /\ procs[p].pc # "idle"
  /\ IF CleansUp(procs[p].pc) /\ meta.tmp # NoInode THEN CleanupTemp ELSE KeepMeta
  /\ Leave(p)
  /\ UNCHANGED <<kind, data, disk, acked, before, overlapped, lost, writes, crashes>>

\* remove_fragment, and restore for a file that was absent at the snapshot.
RemoveFile(p) ==
  /\ kind \in {"restore", "fragment"} /\ procs[p].pc = "idle"
  /\ meta.dest # NoInode
  /\ SetMeta([meta EXCEPT !.dest = NoInode])
  /\ overlapped' = (overlapped \/ \E q \in Procs : procs[q].pc # "idle")
  /\ UNCHANGED <<kind, data, disk, procs, acked, before, lost, writes, crashes>>

-----------------------------------------------------------------------------
(* The environment.                                                        *)

Kill(p) ==
  /\ procs[p].pc # "idle"
  /\ Leave(p)
  /\ KeepMeta /\ UNCHANGED <<kind, data, disk, acked, before, overlapped, lost, writes, crashes>>

\* The names of an earlier moment, and any part of what was not flushed.
Survives(i) ==
  {disk[i]} \cup IF data[i] = disk[i] THEN {} ELSE {[data[i] EXCEPT !.len = n] : n \in 0..data[i].len}
PowerLoss ==
  /\ crashes < MaxCrashes
  /\ \E m \in journal :
       /\ meta' = m /\ journal' = {m}
       /\ \E d \in [{m.dest, m.tmp} \ {NoInode} -> UNION {Survives(i) : i \in Inodes}] :
            /\ \A i \in DOMAIN d : d[i] \in Survives(i)
            /\ data' = [i \in Inodes |-> IF i \in DOMAIN d THEN d[i] ELSE Empty]
            /\ disk' = data'
  /\ procs' = [p \in Procs |-> NoProc]
  /\ lost' = TRUE /\ crashes' = crashes + 1
  /\ UNCHANGED <<kind, acked, before, overlapped, writes>>

WriterStep(p) ==
  \/ \E v \in Values : Begin(p, v)
  \/ OpenExcl(p) \/ OpenTrunc(p) \/ Write(p) \/ SyncFile(p) \/ SetMode(p)
  \/ Validate(p) \/ Rename(p) \/ SyncDir(p) \/ Fail(p) \/ RemoveFile(p)

DurableNext == (\E p \in Procs : WriterStep(p) \/ Kill(p)) \/ PowerLoss

DurableSpec == DurableInit /\ [][DurableNext]_durVars
-----------------------------------------------------------------------------
(* Properties.                                                             *)

\* The contents being asked for: a removal may come at any time where the
\* code has one.
Wanted ==
  ({procs[p].val : p \in Procs} \ ({0} \cup IF kind = "fragment" THEN Rejected ELSE {}))
     \cup IF kind \in {"restore", "fragment"} THEN {0} ELSE {}

\* Writers that are killed or fail between any two system calls, and the
\* temporary files they leave, never let a reader find anything but the last
\* whole content somebody asked for, and never a fragment visudo rejects: every
\* replacement implements AtomicFile, as long as writers do not overlap and the
\* power stays on ("a partial/invalid file is never visible at the canonical
\* path", write_fragment).
AF == INSTANCE AtomicFile WITH
        content <- ReadDest(meta, data),
        pending <- Wanted,
        excused <- overlapped \/ lost
ReplaceImplements == AF!Spec

\* Once persist_version has reported a version, no loss of power brings back a
\* lower floor or an unreadable one (write_private's and sync_parent_dir's
\* fsyncs), unless two runs overlapped.
FloorKept ==
  kind = "floor" /\ ~overlapped =>
    ReadDest(meta, data) # Torn /\ ReadDest(meta, data) >= acked

\* No moment of a restore, of two at once, or after a kill or a loss of power,
\* shows the auth data to anyone who could not read the file it replaces
\* (open_restore_temp's 0600 and preserve_dest_permissions on the descriptor).
NeverExposed ==
  kind = "restore" =>
    \A i \in {meta.dest, meta.tmp} \ {NoInode} : data[i].len > 0 => meta.mode[i] <= before
=============================================================================
