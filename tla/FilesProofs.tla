--------------------------- MODULE FilesProofs ----------------------------
(***************************************************************************)
(* The files an apply changes.  For any number of writers, inodes, writes  *)
(* and power losses: a restore never shows auth data to more readers than  *)
(* the file it replaces, a reported floor survives, and every replacement  *)
(* is atomic (AtomicFile).  For every tree and any runs over it: a failed  *)
(* run gives every ACL back.                                               *)
(***************************************************************************)
EXTENDS HostFiles, SequenceLemmas, FiniteSetTheorems

\* The states of the directory.
Metas == [dest : Inodes \cup {NoInode}, tmp : Inodes \cup {NoInode}, mode : [Inodes -> Nat]]

Bounded(m) == kind = "restore" => \A i \in Inodes : m.mode[i] <= before

\* NeverExposed speaks of the two names as they are now; a loss of power may
\* bring back older ones, and a later restore copies the mode it finds, so the
\* bound has to hold for every inode in every state of the journal.
ExposeInv ==
  /\ meta \in journal
  /\ before \in {Private, Shared}
  /\ \A m \in journal : m \in Metas /\ Bounded(m)

LEMMA ExposeInit == DurableInit => ExposeInv
<1>. SUFFICES ASSUME DurableInit PROVE ExposeInv
  OBVIOUS
<1>1. (CHOOSE i \in Inodes : TRUE) \in Inodes
  BY DurableAssumption
<1>2. PICK old \in Inodes \cup {NoInode} :
        meta = [dest |-> old, tmp |-> NoInode, mode |-> [i \in Inodes |-> IF i = old THEN Shared ELSE Private]]
  BY <1>1 DEF DurableInit
<1>3. before = IF old = NoInode THEN Private ELSE Shared
  BY <1>2 DEF DurableInit
<1>4. meta \in Metas
  BY <1>2 DEF Metas, Shared, Private
<1>5. \A i \in Inodes : meta.mode[i] <= before
  BY <1>2, <1>3, DurableAssumption DEF Shared, Private
<1>. QED BY <1>3, <1>4, <1>5 DEF DurableInit, ExposeInv, Bounded

\* A step that gives the directory a bounded new state, or none.
LEMMA SetMetaKeeps ==
  ASSUME ExposeInv, UNCHANGED <<kind, before>>,
         NEW m, SetMeta(m), m \in Metas, Bounded(m)
  PROVE  ExposeInv'
BY DEF ExposeInv, SetMeta, Bounded

LEMMA KeepMetaKeeps ==
  ASSUME ExposeInv, UNCHANGED <<kind, before>>, KeepMeta
  PROVE  ExposeInv'
BY DEF ExposeInv, KeepMeta, Bounded

\* Renaming and unlinking leave the modes alone.
LEMMA NamesOnly ==
  ASSUME ExposeInv, NEW d \in Inodes \cup {NoInode}, NEW t \in Inodes \cup {NoInode},
         NEW m, m = [meta EXCEPT !.dest = d, !.tmp = t]
  PROVE  m \in Metas /\ Bounded(m)
BY DEF ExposeInv, Metas, Bounded

LEMMA CleanupKeeps ==
  ASSUME ExposeInv, UNCHANGED <<kind, before>>, CleanupTemp
  PROVE  ExposeInv'
<1>. DEFINE m == [meta EXCEPT !.tmp = NoInode]
<1>1. meta.dest \in Inodes \cup {NoInode} /\ m = [meta EXCEPT !.dest = meta.dest, !.tmp = NoInode]
  BY DEF ExposeInv, Metas
<1>2. m \in Metas /\ Bounded(m)
  BY <1>1, NamesOnly
<1>. QED BY <1>2, SetMetaKeeps DEF CleanupTemp

\* The temporary file of a restore is created for its owner only.
LEMMA CreateKeeps ==
  ASSUME ExposeInv, UNCHANGED <<kind, before>>, NEW p \in Procs, Create(p)
  PROVE  ExposeInv'
<1>1. PICK i \in Free : SetMeta([meta EXCEPT !.tmp = i, !.mode[i] = TempMode])
  BY DEF Create
<1>. DEFINE m == [meta EXCEPT !.tmp = i, !.mode[i] = TempMode]
<1>2. i \in Inodes /\ meta \in Metas /\ TempMode \in Nat
  BY <1>1 DEF Free, ExposeInv, TempMode, Private, World
<1>3. m \in Metas
  BY <1>2 DEF Metas
<1>4. Bounded(m)
  <2>. SUFFICES ASSUME kind = "restore", NEW j \in Inodes PROVE m.mode[j] <= before
    BY DEF Bounded
  <2>1. TempMode = 0 /\ before \in {0, 1} /\ meta.mode[j] <= before
    BY DEF TempMode, Private, Shared, ExposeInv, Bounded
  <2>2. m.mode[j] = IF j = i THEN TempMode ELSE meta.mode[j]
    BY <1>2 DEF Metas
  <2>. QED BY <2>1, <2>2
<1>. QED BY <1>1, <1>3, <1>4, SetMetaKeeps

\* preserve_dest_permissions gives the new file what the old one has.
LEMMA SetModeKeeps ==
  ASSUME ExposeInv, NEW p \in Procs, SetMode(p)
  PROVE  ExposeInv'
<1>. meta \in Metas /\ UNCHANGED <<kind, before>>
  BY DEF ExposeInv, SetMode
<1>1. CASE kind = "restore"
  <2>. DEFINE o == procs[p].ino
              v == IF meta.dest = NoInode THEN meta.mode[o] ELSE meta.mode[meta.dest]
              m == [meta EXCEPT !.mode[o] = v]
  <2>1. SetMeta(m)
    BY <1>1 DEF SetMode
  <2>2. m.mode = [i \in Inodes |-> IF i = o THEN v ELSE meta.mode[i]]
    BY DEF Metas
  <2>3. o \in Inodes => v \in Nat /\ v <= before
    BY <1>1 DEF Metas, ExposeInv, Bounded
  <2>4. m \in Metas
    BY <2>2, <2>3 DEF Metas
  <2>5. Bounded(m)
    BY <2>2, <2>3 DEF ExposeInv, Bounded
  <2>. QED BY <2>1, <2>4, <2>5, SetMetaKeeps
<1>2. CASE kind = "fragment" /\ meta.tmp # NoInode
  <2>. DEFINE m == [meta EXCEPT !.mode[meta.tmp] = Shared]
  <2>1. SetMeta(m) BY <1>2 DEF SetMode
  <2>2. m \in Metas BY DEF Metas, Shared
  <2>3. Bounded(m) BY <1>2 DEF Bounded
  <2>. QED BY <2>1, <2>2, <2>3, SetMetaKeeps
<1>. QED BY <1>1, <1>2 DEF SetMode

LEMMA WriterKeeps ==
  ASSUME ExposeInv, NEW p \in Procs, WriterStep(p)
  PROVE  ExposeInv'
<1>1. CASE OpenExcl(p)
  BY <1>1, CreateKeeps, CleanupKeeps, KeepMetaKeeps DEF OpenExcl
<1>2. CASE OpenTrunc(p)
  BY <1>2, CreateKeeps, KeepMetaKeeps DEF OpenTrunc
<1>3. CASE SetMode(p)
  BY <1>3, SetModeKeeps
<1>4. CASE Validate(p)
  BY <1>4, CleanupKeeps, KeepMetaKeeps DEF Validate
<1>5. CASE Fail(p)
  BY <1>5, CleanupKeeps, KeepMetaKeeps DEF Fail
<1>6. CASE Rename(p)
  <2>. DEFINE m == [meta EXCEPT !.dest = meta.tmp, !.tmp = NoInode]
  <2>1. meta.tmp \in Inodes \cup {NoInode} BY DEF ExposeInv, Metas
  <2>2. m \in Metas /\ Bounded(m) BY <2>1, NamesOnly
  <2>. QED BY <1>6, <2>2, SetMetaKeeps DEF Rename
<1>7. CASE RemoveFile(p)
  <2>. DEFINE m == [meta EXCEPT !.dest = NoInode]
  <2>1. meta.tmp \in Inodes \cup {NoInode} /\ m = [meta EXCEPT !.dest = NoInode, !.tmp = meta.tmp]
    BY DEF ExposeInv, Metas
  <2>2. m \in Metas /\ Bounded(m) BY <2>1, NamesOnly
  <2>. QED BY <1>7, <2>2, SetMetaKeeps DEF RemoveFile
<1>8. CASE SyncDir(p)
  BY <1>8 DEF SyncDir, ExposeInv, Bounded
<1>9. CASE (\E v \in Values : Begin(p, v)) \/ Write(p) \/ SyncFile(p)
  BY <1>9, KeepMetaKeeps DEF Begin, Write, SyncFile
<1>. QED BY <1>1, <1>2, <1>3, <1>4, <1>5, <1>6, <1>7, <1>8, <1>9 DEF WriterStep

LEMMA ExposeNext == ExposeInv /\ [DurableNext]_durVars => ExposeInv'
<1>. SUFFICES ASSUME ExposeInv, [DurableNext]_durVars PROVE ExposeInv'
  OBVIOUS
<1>1. ASSUME NEW p \in Procs, WriterStep(p) PROVE ExposeInv'
  BY <1>1, WriterKeeps
<1>2. ASSUME NEW p \in Procs, Kill(p) PROVE ExposeInv'
  BY <1>2, KeepMetaKeeps DEF Kill
<1>3. CASE PowerLoss
  BY <1>3 DEF PowerLoss, ExposeInv, Bounded
<1>4. CASE UNCHANGED durVars
  BY <1>4 DEF durVars, ExposeInv, Bounded
<1>. QED BY <1>1, <1>2, <1>3, <1>4 DEF DurableNext

\* No moment of a restore, of several at once, or after a kill or a loss of
\* power, shows the auth data to anyone who could not read the file it replaces
\* (open_restore_temp and preserve_dest_permissions).
THEOREM RestoreNeverExposes == DurableSpec => []NeverExposed
<1>1. ExposeInv => NeverExposed
  BY DEF ExposeInv, Metas, Bounded, NeverExposed
<1>. QED BY <1>1, ExposeInit, ExposeNext, PTL DEF DurableSpec
-----------------------------------------------------------------------------
(***************************************************************************)
(* Replacement is atomic, and a reported floor survives a loss of power.   *)
(***************************************************************************)

Contents == [val : Nat, len : 0..Full]
Steps == {"idle", "open", "retry", "write", "write2", "mode", "validate", "sync", "rename", "syncdir"}
Writer == [pc : Steps, val : Values \cup {0}, ino : Inodes \cup {NoInode}]

ReplaceTypes ==
  /\ kind \in {"restore", "fragment", "registry", "floor"}
  /\ data \in [Inodes -> Contents] /\ disk \in [Inodes -> Contents]
  /\ procs \in [Procs -> Writer]
  /\ overlapped \in BOOLEAN /\ lost \in BOOLEAN
  /\ acked \in Nat
  /\ \A p \in Procs : procs[p].val = 0 <=> procs[p].pc = "idle"

\* The temporary name never stands for a file that is, or after a loss of power
\* may again be, the destination.
NamesApart ==
  /\ meta.tmp # NoInode => \A m \in journal : m.dest # meta.tmp
  /\ \A m \in journal : m.tmp # NoInode => m.tmp # m.dest

\* How far the writer's own file has got, by the call it makes next.
InHand(p) ==
  LET r == procs[p]
  IN /\ r.pc \in {"write", "write2", "mode", "validate", "sync", "rename"} =>
          r.ino = meta.tmp /\ r.ino \in Inodes
     /\ r.pc = "write" => data[r.ino].len = 0
     /\ r.pc = "write2" => data[r.ino] = [val |-> r.val, len |-> 1]
     /\ r.pc \in {"mode", "validate", "sync", "rename"} => data[r.ino] = [val |-> r.val, len |-> Full]
     /\ r.pc = "mode" => kind \in {"restore", "fragment"}
     /\ r.pc = "validate" => kind = "fragment"
     /\ r.pc = "sync" => kind = "floor"
     /\ r.pc = "rename" /\ kind = "fragment" => r.val \notin Rejected
     /\ r.pc = "rename" /\ kind = "floor" => disk[r.ino] = data[r.ino]
     /\ r.pc = "syncdir" => kind = "floor" /\ ReadDest(meta, data) = r.val

\* As long as writers have not overlapped there is one at most, and the file
\* under the temporary name is its own.
OneWriter ==
  ~overlapped =>
    /\ \A p, q \in Procs : procs[p].pc # "idle" /\ procs[q].pc # "idle" => p = q
    /\ \A p \in Procs : InHand(p)

\* Every floor the journal can bring back is flushed, whole and no older than
\* the last one reported; neither is the one being written.
Reported(m) ==
  m.dest # NoInode =>
    /\ disk[m.dest] = data[m.dest] /\ data[m.dest].len = Full
    /\ data[m.dest].val # Torn
FloorFlushed ==
  kind = "floor" /\ ~overlapped =>
    /\ \A m \in journal : Reported(m) /\ ReadDest(m, data) >= acked
    /\ \A p \in Procs : procs[p].pc # "idle" => procs[p].val >= acked

ReplaceInv == ReplaceTypes /\ NamesApart /\ OneWriter /\ FloorFlushed

LEMMA ReplaceInit == DurableInit => ReplaceInv
<1>. SUFFICES ASSUME DurableInit PROVE ReplaceInv
  OBVIOUS
<1>1. data = [i \in Inodes |-> IF i = meta.dest THEN [val |-> 1, len |-> Full] ELSE Empty] /\ disk = data
  BY DEF DurableInit
<1>2. procs = [p \in Procs |-> NoProc] /\ journal = {meta} /\ acked = 0
  BY DEF DurableInit
<1>3. meta.tmp = NoInode /\ meta \in Metas
  <2>1. meta \in Metas BY ExposeInit DEF ExposeInv
  <2>2. meta.tmp = NoInode BY DEF DurableInit
  <2>. QED BY <2>1, <2>2
<1>4. data \in [Inodes -> Contents]
  BY <1>1 DEF Contents, Full, Empty
<1>5. ReplaceTypes
  <2>1. NoProc \in Writer /\ NoProc.val = 0 /\ NoProc.pc = "idle"
    BY DEF NoProc, Writer, Steps
  <2>2. overlapped = FALSE /\ lost = FALSE /\ kind \in {"restore", "fragment", "registry", "floor"}
    BY DurableAssumption DEF DurableInit
  <2>. QED BY <1>1, <1>2, <1>4, <2>1, <2>2 DEF ReplaceTypes
<1>6. NamesApart
  BY <1>2, <1>3 DEF NamesApart
<1>7. OneWriter
  BY <1>2 DEF OneWriter, InHand, NoProc
<1>8. Reported(meta) /\ ReadDest(meta, data) >= acked
  BY <1>1, <1>2, <1>3 DEF Reported, ReadDest, Full, Torn, Metas
<1>. QED BY <1>2, <1>5, <1>6, <1>7, <1>8 DEF ReplaceInv, FloorFlushed, NoProc

-----------------------------------------------------------------------------
(* The state keeps its types.                                              *)

LEMMA ValuesNat == \A v \in Values \cup {0} : v \in Nat /\ v # Torn
BY DurableAssumption DEF Torn

LEMMA TempNamed ==
  ASSUME ExposeInv
  PROVE  meta \in Metas /\ meta.tmp \in Inodes \cup {NoInode} /\ meta.dest \in Inodes \cup {NoInode}
BY DEF ExposeInv, Metas

LEMMA PatchedWhole ==
  ASSUME NEW d \in Contents, NEW v \in Nat, NEW part \in {1, 2}
  PROVE  Patched(d, v, part) \in Contents
BY DEF Patched, Contents, Full, Torn

LEMMA LeaveTypes ==
  ASSUME ReplaceTypes, NEW p \in Procs, Leave(p)
  PROVE  /\ procs' \in [Procs -> Writer]
         /\ \A q \in Procs : procs'[q].val = 0 <=> procs'[q].pc = "idle"
<1>1. NoProc \in Writer /\ NoProc.val = 0 /\ NoProc.pc = "idle"
  BY DEF NoProc, Writer, Steps
<1>. QED BY <1>1 DEF ReplaceTypes, Leave

LEMMA GotoTypes ==
  ASSUME ReplaceTypes, NEW p \in Procs, procs[p].pc # "idle", NEW c \in Steps, c # "idle", Goto(p, c)
  PROVE  /\ procs' \in [Procs -> Writer]
         /\ \A q \in Procs : procs'[q].val = 0 <=> procs'[q].pc = "idle"
BY DEF ReplaceTypes, Goto, Writer

\* A writer opens the temporary file.
LEMMA OpenedTypes ==
  ASSUME ReplaceTypes, NEW p \in Procs, procs[p].pc # "idle", NEW i \in Inodes,
         procs' = [procs EXCEPT ![p].pc = "write", ![p].ino = i]
  PROVE  /\ procs' \in [Procs -> Writer]
         /\ procs' = [procs EXCEPT ![p] = [pc |-> "write", val |-> procs[p].val, ino |-> i]]
         /\ \A q \in Procs : procs'[q].val = 0 <=> procs'[q].pc = "idle"
<1>. DEFINE w == [pc |-> "write", val |-> procs[p].val, ino |-> i]
            a == [procs EXCEPT ![p].pc = "write"]
<1>1. procs \in [Procs -> Writer]
  BY DEF ReplaceTypes
<1>2. a = [procs EXCEPT ![p] = [pc |-> "write", val |-> procs[p].val, ino |-> procs[p].ino]]
  <2>. DEFINE r == procs[p]
  <2>1. [r EXCEPT !.pc = "write"] = [pc |-> "write", val |-> r.val, ino |-> r.ino]
    BY <1>1 DEF Writer
  <2>2. a = [procs EXCEPT ![p] = [r EXCEPT !.pc = "write"]]
    OBVIOUS
  <2>. QED BY <2>1, <2>2
<1>3. procs' = [a EXCEPT ![p].ino = i]
  OBVIOUS
<1>4. procs' = [procs EXCEPT ![p] = w]
  <2>. DEFINE b == [pc |-> "write", val |-> procs[p].val, ino |-> procs[p].ino]
  <2>1. [b EXCEPT !.ino = i] = w
    OBVIOUS
  <2>2. a \in [Procs -> Writer] /\ a[p] = b
    BY <1>1, <1>2 DEF Writer, Steps
  <2>3. procs' = [a EXCEPT ![p] = [b EXCEPT !.ino = i]]
    BY <1>3, <2>2
  <2>4. procs' = [a EXCEPT ![p] = w]
    BY <2>1, <2>3
  <2>. QED BY <1>1, <1>2, <2>4
<1>5. w \in Writer /\ w.val = procs[p].val /\ w.pc = "write"
  BY <1>1 DEF Writer, Steps
<1>. HIDE DEF w
<1>6. procs' \in [Procs -> Writer] /\ procs'[p] = w /\ \A q \in Procs : q # p => procs'[q] = procs[q]
  BY <1>1, <1>4, <1>5
<1>7. \A q \in Procs : procs'[q].val = 0 <=> procs'[q].pc = "idle"
  BY <1>5, <1>6 DEF ReplaceTypes
<1>. QED BY <1>4, <1>6, <1>7 DEF w

LEMMA CreateTypes ==
  ASSUME ReplaceTypes, NEW p \in Procs, procs[p].pc # "idle", Create(p)
  PROVE  /\ procs' \in [Procs -> Writer]
         /\ \A q \in Procs : procs'[q].val = 0 <=> procs'[q].pc = "idle"
         /\ data' \in [Inodes -> Contents] /\ disk' \in [Inodes -> Contents]
<1>1. PICK i \in Inodes :
        /\ data' = [data EXCEPT ![i] = Empty] /\ disk' = [disk EXCEPT ![i] = Empty]
        /\ procs' = [procs EXCEPT ![p].pc = "write", ![p].ino = i]
  BY DEF Create, Free
<1>2. Empty \in Contents
  BY DEF Empty, Contents, Full
<1>. QED BY <1>1, <1>2, OpenedTypes DEF ReplaceTypes

LEMMA WriterTypes ==
  ASSUME ExposeInv, ReplaceTypes, NEW p \in Procs, WriterStep(p)
  PROVE  ReplaceTypes'
<1>. USE TempNamed
<1>1. ASSUME NEW v \in Values, Begin(p, v) PROVE ReplaceTypes'
  <2>1. v # 0 BY DurableAssumption
  <2>. QED BY <1>1, <2>1 DEF ReplaceTypes, Begin, Steps, Writer
<1>2. CASE OpenExcl(p)
  <2>1. CASE Create(p)
    BY <1>2, <2>1, CreateTypes DEF OpenExcl, ReplaceTypes
  <2>2. CASE Goto(p, "retry") /\ procs[p].pc = "open" /\ UNCHANGED <<data, disk>>
    BY <1>2, <2>2, GotoTypes DEF OpenExcl, ReplaceTypes, Steps
  <2>3. CASE Leave(p) /\ UNCHANGED <<data, disk>>
    BY <1>2, <2>3, LeaveTypes DEF OpenExcl, ReplaceTypes
  <2>. QED BY <1>2, <2>1, <2>2, <2>3 DEF OpenExcl
<1>3. CASE OpenTrunc(p)
  <2>1. CASE Create(p)
    BY <1>3, <2>1, CreateTypes DEF OpenTrunc, ReplaceTypes
  <2>2. CASE ~Create(p)
    <3>1. /\ data' = [data EXCEPT ![meta.tmp] = Empty] /\ disk' = disk
          /\ procs' = [procs EXCEPT ![p].pc = "write", ![p].ino = meta.tmp]
          /\ meta.tmp # NoInode /\ procs[p].pc = "open"
          /\ UNCHANGED <<overlapped, lost, acked>>
      BY <1>3, <2>2 DEF OpenTrunc
    <3>2. Empty \in Contents
      BY DEF Empty, Contents, Full
    <3>3. data' \in [Inodes -> Contents] /\ disk' \in [Inodes -> Contents]
      BY <3>1, <3>2 DEF ReplaceTypes
    <3>4. procs' \in [Procs -> Writer] /\ \A q \in Procs : procs'[q].val = 0 <=> procs'[q].pc = "idle"
      BY <3>1, OpenedTypes
    <3>5. UNCHANGED <<kind, overlapped, lost, acked>>
      BY <1>3 DEF OpenTrunc
    <3>. QED BY <3>3, <3>4, <3>5 DEF ReplaceTypes
  <2>. QED BY <2>1, <2>2
<1>4. CASE Write(p)
  <2>. DEFINE part == IF procs[p].pc = "write2" THEN 2 ELSE 1
              c == IF part = 2 THEN AfterWrite ELSE "write2"
              i == procs[p].ino
  <2>1. c \in Steps /\ c # "idle" /\ Goto(p, c) /\ procs[p].pc # "idle"
    BY <1>4 DEF Write, AfterWrite, Steps
  <2>2. data' = [data EXCEPT ![i] = Patched(data[i], procs[p].val, part)]
    BY <1>4 DEF Write, ReplaceTypes
  <2>3. i \in Inodes => Patched(data[i], procs[p].val, part) \in Contents
    BY PatchedWhole, DurableAssumption DEF ReplaceTypes, Writer
  <2>4. data' \in [Inodes -> Contents]
    BY <2>2, <2>3 DEF ReplaceTypes
  <2>. QED BY <1>4, <2>1, <2>4, GotoTypes DEF Write, ReplaceTypes
<1>5. CASE SyncFile(p)
  BY <1>5, GotoTypes DEF SyncFile, ReplaceTypes, Steps
<1>6. CASE SetMode(p)
  BY <1>6, GotoTypes DEF SetMode, ReplaceTypes, Steps
<1>7. CASE Validate(p)
  BY <1>7, GotoTypes, LeaveTypes DEF Validate, ReplaceTypes, Steps
<1>8. CASE Rename(p)
  BY <1>8, GotoTypes, LeaveTypes DEF Rename, ReplaceTypes, Steps
<1>9. CASE SyncDir(p)
  BY <1>9, LeaveTypes, DurableAssumption DEF SyncDir, ReplaceTypes, Writer
<1>10. CASE Fail(p)
  BY <1>10, LeaveTypes DEF Fail, ReplaceTypes
<1>11. CASE RemoveFile(p)
  BY <1>11 DEF RemoveFile, ReplaceTypes
<1>. QED BY <1>1, <1>2, <1>3, <1>4, <1>5, <1>6, <1>7, <1>8, <1>9, <1>10, <1>11 DEF WriterStep

\* What survives a loss of power has the type of a content.
LEMMA SurvivesTypes ==
  ASSUME ReplaceTypes, NEW i \in Inodes
  PROVE  Survives(i) \subseteq Contents
<1>. SUFFICES ASSUME NEW c \in Survives(i), c # disk[i] PROVE c \in Contents
  BY DEF ReplaceTypes
<1>1. PICK n \in 0..data[i].len : c = [data[i] EXCEPT !.len = n]
  BY DEF Survives
<1>2. data[i] \in Contents
  BY DEF ReplaceTypes
<1>3. c = [val |-> data[i].val, len |-> n] /\ n \in 0..2 /\ data[i].val \in Nat
  BY <1>1, <1>2 DEF Contents, Full
<1>. QED BY <1>3 DEF Contents, Full

\* A loss of power brings back names of the journal and, under each of them,
\* something that survives.
LEMMA PowerLossOutcome ==
  ASSUME ExposeInv, ReplaceTypes, PowerLoss
  PROVE  /\ meta' \in journal /\ journal' = {meta'}
         /\ data' \in [Inodes -> Contents] /\ disk' = data'
         /\ \A i \in {meta'.dest, meta'.tmp} \ {NoInode} : data'[i] \in Survives(i)
         /\ procs' = [p \in Procs |-> NoProc] /\ lost'
         /\ UNCHANGED <<kind, acked, before, overlapped>>
<1>1. PICK m \in journal :
         /\ meta' = m /\ journal' = {m}
         /\ \E d \in [{m.dest, m.tmp} \ {NoInode} -> UNION {Survives(i) : i \in Inodes}] :
              /\ \A i \in DOMAIN d : d[i] \in Survives(i)
              /\ data' = [i \in Inodes |-> IF i \in DOMAIN d THEN d[i] ELSE Empty]
              /\ disk' = data'
  BY DEF PowerLoss
<1>2. PICK d \in [{m.dest, m.tmp} \ {NoInode} -> UNION {Survives(i) : i \in Inodes}] :
              /\ \A i \in DOMAIN d : d[i] \in Survives(i)
              /\ data' = [i \in Inodes |-> IF i \in DOMAIN d THEN d[i] ELSE Empty]
              /\ disk' = data'
  BY <1>1
<1>3. DOMAIN d = {m.dest, m.tmp} \ {NoInode}
  BY <1>2
<1>4. DOMAIN d \subseteq Inodes
  BY <1>3 DEF ExposeInv, Metas
<1>5. \A i \in DOMAIN d : data'[i] = d[i]
  BY <1>2, <1>4
<1>6. \A i \in DOMAIN d : d[i] \in Contents
  BY <1>2, <1>4, SurvivesTypes
<1>7. data' \in [Inodes -> Contents]
  BY <1>2, <1>6 DEF Empty, Contents, Full
<1>. QED BY <1>1, <1>2, <1>3, <1>5, <1>7 DEF PowerLoss

LEMMA TypesNext ==
  ASSUME ExposeInv, ReplaceTypes, [DurableNext]_durVars
  PROVE  ReplaceTypes'
<1>1. ASSUME NEW p \in Procs, WriterStep(p) PROVE ReplaceTypes'
  BY <1>1, WriterTypes
<1>2. ASSUME NEW p \in Procs, Kill(p) PROVE ReplaceTypes'
  BY <1>2, LeaveTypes DEF Kill, ReplaceTypes
<1>3. CASE PowerLoss
  <2>1. NoProc \in Writer /\ NoProc.val = 0 /\ NoProc.pc = "idle"
    BY DEF NoProc, Writer, Steps
  <2>. QED BY <1>3, <2>1, PowerLossOutcome DEF ReplaceTypes
<1>4. CASE UNCHANGED durVars
  BY <1>4 DEF durVars, ReplaceTypes
<1>. QED BY <1>1, <1>2, <1>3, <1>4 DEF DurableNext

-----------------------------------------------------------------------------
(* The temporary name and the destination stay apart.                      *)

LEMMA NamesSet ==
  ASSUME NamesApart, NEW m, SetMeta(m),
         m.tmp # NoInode => m.dest # m.tmp /\ \A o \in journal : o.dest # m.tmp
  PROVE  NamesApart'
BY DEF NamesApart, SetMeta

LEMMA NamesKeep ==
  ASSUME NamesApart, KeepMeta
  PROVE  NamesApart'
BY DEF NamesApart, KeepMeta

LEMMA NamesCleanup ==
  ASSUME ExposeInv, NamesApart, CleanupTemp
  PROVE  NamesApart'
<1>. DEFINE m == [meta EXCEPT !.tmp = NoInode]
<1>1. m.tmp = NoInode
  BY TempNamed DEF Metas
<1>. QED BY <1>1, NamesSet DEF CleanupTemp

\* A created file has an inode no name has, or may get back.
LEMMA CreateFresh ==
  ASSUME ExposeInv, NEW p \in Procs, Create(p)
  PROVE  \E i \in Inodes :
           /\ meta'.dest = meta.dest /\ meta'.tmp = i
           /\ SetMeta([meta EXCEPT !.tmp = i, !.mode[i] = TempMode])
           /\ \A o \in journal : o.dest # i /\ o.tmp # i
           /\ data' = [data EXCEPT ![i] = Empty] /\ disk' = [disk EXCEPT ![i] = Empty]
           /\ procs' = [procs EXCEPT ![p].pc = "write", ![p].ino = i]
<1>1. PICK i \in Free :
        /\ SetMeta([meta EXCEPT !.tmp = i, !.mode[i] = TempMode])
        /\ data' = [data EXCEPT ![i] = Empty] /\ disk' = [disk EXCEPT ![i] = Empty]
        /\ procs' = [procs EXCEPT ![p].pc = "write", ![p].ino = i]
  BY DEF Create
<1>2. i \in Inodes /\ \A o \in journal : o.dest # i /\ o.tmp # i
  BY DEF Free, Held
<1>3. meta'.dest = meta.dest /\ meta'.tmp = i
  BY <1>1, TempNamed DEF SetMeta, Metas
<1>. QED BY <1>1, <1>2, <1>3

LEMMA NamesCreate ==
  ASSUME ExposeInv, NamesApart, NEW p \in Procs, Create(p)
  PROVE  NamesApart'
<1>1. PICK i \in Inodes :
           /\ meta'.dest = meta.dest /\ meta'.tmp = i
           /\ SetMeta([meta EXCEPT !.tmp = i, !.mode[i] = TempMode])
           /\ \A o \in journal : o.dest # i /\ o.tmp # i
  BY CreateFresh
<1>2. meta \in journal /\ journal' = journal \cup {meta'}
  BY <1>1 DEF ExposeInv, SetMeta
<1>. QED BY <1>1, <1>2 DEF NamesApart

LEMMA NamesWriter ==
  ASSUME ExposeInv, NamesApart, NEW p \in Procs, WriterStep(p)
  PROVE  NamesApart'
<1>. USE TempNamed
<1>1. CASE OpenExcl(p)
  BY <1>1, NamesCreate, NamesCleanup, NamesKeep DEF OpenExcl
<1>2. CASE OpenTrunc(p)
  BY <1>2, NamesCreate, NamesKeep DEF OpenTrunc
<1>3. CASE SetMode(p)
  <2>1. PICK i, v : SetMeta([meta EXCEPT !.mode[i] = v])
    <3>1. CASE kind = "restore"
      <4>. DEFINE v == IF meta.dest = NoInode THEN meta.mode[procs[p].ino] ELSE meta.mode[meta.dest]
      <4>1. SetMeta([meta EXCEPT !.mode[procs[p].ino] = v])
        BY <1>3, <3>1 DEF SetMode
      <4>. QED BY <4>1
    <3>2. CASE kind = "fragment"
      BY <1>3, <3>2 DEF SetMode
    <3>. QED BY <1>3, <3>1, <3>2 DEF SetMode
  <2>. DEFINE m == [meta EXCEPT !.mode[i] = v]
  <2>2. m.dest = meta.dest /\ m.tmp = meta.tmp /\ meta \in journal
    BY DEF Metas, ExposeInv
  <2>. QED BY <2>1, <2>2, NamesSet DEF NamesApart
<1>4. CASE Validate(p)
  BY <1>4, NamesCleanup, NamesKeep DEF Validate
<1>5. CASE Fail(p)
  BY <1>5, NamesCleanup, NamesKeep DEF Fail
<1>6. CASE Rename(p)
  <2>. DEFINE m == [meta EXCEPT !.dest = meta.tmp, !.tmp = NoInode]
  <2>1. m.tmp = NoInode
    BY DEF Metas
  <2>. QED BY <1>6, <2>1, NamesSet DEF Rename
<1>7. CASE RemoveFile(p)
  <2>. DEFINE m == [meta EXCEPT !.dest = NoInode]
  <2>1. m.dest = NoInode /\ m.tmp = meta.tmp
    BY DEF Metas
  <2>. QED BY <1>7, <2>1, NamesSet DEF RemoveFile, NamesApart
<1>8. CASE SyncDir(p)
  BY <1>8 DEF SyncDir, NamesApart, ExposeInv
<1>9. CASE (\E v \in Values : Begin(p, v)) \/ Write(p) \/ SyncFile(p)
  BY <1>9, NamesKeep DEF Begin, Write, SyncFile
<1>. QED BY <1>1, <1>2, <1>3, <1>4, <1>5, <1>6, <1>7, <1>8, <1>9 DEF WriterStep

LEMMA NamesNext ==
  ASSUME ExposeInv, ReplaceTypes, NamesApart, [DurableNext]_durVars
  PROVE  NamesApart'
<1>1. ASSUME NEW p \in Procs, WriterStep(p) PROVE NamesApart'
  BY <1>1, NamesWriter
<1>2. ASSUME NEW p \in Procs, Kill(p) PROVE NamesApart'
  BY <1>2, NamesKeep DEF Kill
<1>3. CASE PowerLoss
  BY <1>3, PowerLossOutcome DEF NamesApart
<1>4. CASE UNCHANGED durVars
  BY <1>4 DEF durVars, NamesApart
<1>. QED BY <1>1, <1>2, <1>3, <1>4 DEF DurableNext

-----------------------------------------------------------------------------
(* The one writer, and the floors the journal holds.                       *)

LEMMA IdleInHand ==
  ASSUME NEW q \in Procs, procs[q].pc = "idle"
  PROVE  InHand(q)
BY DEF InHand

\* When one writer moves and the others are idle, it is enough to look at it.
LEMMA OneMoves ==
  ASSUME ReplaceTypes, OneWriter, ~overlapped, NEW p \in Procs,
         procs[p].pc # "idle" \/ \A q \in Procs : procs[q].pc = "idle",
         NEW w, procs' = [procs EXCEPT ![p] = w], InHand(p)'
  PROVE  OneWriter'
<1>1. \A q \in Procs : q # p => procs[q].pc = "idle" /\ procs'[q] = procs[q]
  BY DEF OneWriter, ReplaceTypes
<1>2. \A q \in Procs : q # p => InHand(q)'
  BY <1>1 DEF InHand
<1>. QED BY <1>1, <1>2 DEF OneWriter

LEMMA OneLeaves ==
  ASSUME ReplaceTypes, OneWriter, NEW p \in Procs, Leave(p), ~overlapped, procs[p].pc # "idle"
  PROVE  OneWriter'
<1>1. procs'[p].pc = "idle" /\ procs' = [procs EXCEPT ![p] = NoProc]
  BY DEF Leave, ReplaceTypes, NoProc
<1>2. InHand(p)'
  BY <1>1 DEF InHand
<1>. QED BY <1>1, <1>2, OneMoves

\* Goto as an assignment to the writer's whole record.
LEMMA GotoIs ==
  ASSUME ReplaceTypes, NEW p \in Procs, NEW c, Goto(p, c)
  PROVE  /\ procs' = [procs EXCEPT ![p] = [procs[p] EXCEPT !.pc = c]]
         /\ procs'[p].pc = c /\ procs'[p].val = procs[p].val /\ procs'[p].ino = procs[p].ino
BY DEF ReplaceTypes, Goto, Writer

\* A floor that is flushed stays so when the step spares its inode.
LEMMA FloorSpared ==
  ASSUME ReplaceTypes, FloorFlushed, ExposeInv, UNCHANGED <<kind, overlapped, acked>>,
         NEW I, \A m \in journal : m.dest # NoInode => m.dest \notin I,
         \A i \in Inodes \ I : data'[i] = data[i] /\ disk'[i] = disk[i],
         \A m \in journal' : \E o \in journal : o.dest = m.dest,
         \A p \in Procs : procs'[p].pc # "idle" => procs[p].pc # "idle" /\ procs'[p].val = procs[p].val
  PROVE  FloorFlushed'
<1>. SUFFICES ASSUME kind = "floor", ~overlapped PROVE FloorFlushed'
  BY DEF FloorFlushed
<1>1. ASSUME NEW m \in journal' PROVE Reported(m)' /\ ReadDest(m, data') >= acked
  <2>1. PICK o \in journal : o.dest = m.dest
    OBVIOUS
  <2>2. Reported(o) /\ ReadDest(o, data) >= acked
    BY DEF FloorFlushed
  <2>3. o.dest \in Inodes \cup {NoInode}
    BY DEF ExposeInv, Metas
  <2>. QED BY <2>1, <2>2, <2>3 DEF Reported, ReadDest
<1>2. \A p \in Procs : procs'[p].pc # "idle" => procs'[p].val >= acked
  BY DEF FloorFlushed
<1>. QED BY <1>1, <1>2 DEF FloorFlushed

\* A new state of the directory with the destination it has.
LEMMA SameDest ==
  ASSUME ExposeInv, NEW m, m.dest = meta.dest, SetMeta(m) \/ KeepMeta
  PROVE  \A o \in journal' : \E k \in journal : k.dest = o.dest
BY DEF ExposeInv, SetMeta, KeepMeta

LEMMA CleanupDest ==
  ASSUME ExposeInv, CleanupTemp \/ KeepMeta
  PROVE  \A o \in journal' : \E k \in journal : k.dest = o.dest
<1>. DEFINE m == [meta EXCEPT !.tmp = NoInode]
<1>1. m.dest = meta.dest
  BY TempNamed DEF Metas
<1>. QED BY <1>1, SameDest DEF CleanupTemp

\* A writer that gives up, is done with a file that is no floor, or is killed.
LEMMA GoneKeeps ==
  ASSUME ExposeInv, ReplaceInv, ~overlapped, NEW p \in Procs, procs[p].pc # "idle", Leave(p),
         UNCHANGED <<kind, data, disk, overlapped, acked>>,
         kind = "floor" => CleanupTemp \/ KeepMeta
  PROVE  OneWriter' /\ FloorFlushed'
<1>1. OneWriter'
  BY OneLeaves DEF ReplaceInv
<1>2. \A q \in Procs : procs'[q].pc # "idle" => procs[q].pc # "idle" /\ procs'[q].val = procs[q].val
  BY DEF Leave, ReplaceInv, ReplaceTypes, NoProc
<1>3. CASE kind = "floor"
  <2>1. \A o \in journal' : \E k \in journal : k.dest = o.dest
    BY <1>3, CleanupDest
  <2>. DEFINE I == {}
  <2>2. \A i \in Inodes \ I : data'[i] = data[i] /\ disk'[i] = disk[i]
    OBVIOUS
  <2>3. \A m \in journal : m.dest # NoInode => m.dest \notin I
    OBVIOUS
  <2>. HIDE DEF I
  <2>4. FloorFlushed'
    BY <1>2, <2>1, <2>2, <2>3, FloorSpared DEF ReplaceInv
  <2>. QED BY <1>1, <2>4
<1>4. CASE kind # "floor"
  BY <1>1, <1>4 DEF FloorFlushed
<1>. QED BY <1>3, <1>4

LEMMA BeginKeeps ==
  ASSUME ExposeInv, ReplaceInv, NEW p \in Procs, NEW v \in Values, Begin(p, v)
  PROVE  OneWriter' /\ FloorFlushed'
<1>. SUFFICES ASSUME ~overlapped' PROVE OneWriter' /\ FloorFlushed'
  BY DEF OneWriter, FloorFlushed
<1>. DEFINE w == [pc |-> "open", val |-> v, ino |-> NoInode]
<1>1. ~overlapped /\ \A q \in Procs : procs[q].pc = "idle"
  BY DEF Begin
<1>2. procs' = [procs EXCEPT ![p] = w] /\ procs'[p] = w
  BY DEF Begin, ReplaceInv, ReplaceTypes
<1>3. InHand(p)'
  BY <1>2 DEF InHand
<1>4. OneWriter'
  BY <1>1, <1>2, <1>3, OneMoves DEF ReplaceInv
<1>5. CASE kind = "floor"
  <2>1. /\ UNCHANGED <<meta, journal, data, disk, kind, acked>>
        /\ v >= ReadDest(meta, data)
    BY <1>5 DEF Begin, KeepMeta
  <2>2. \A m \in journal : Reported(m) /\ ReadDest(m, data) >= acked
    BY <1>1, <1>5 DEF ReplaceInv, FloorFlushed
  <2>3. v >= acked
    <3>1. ReadDest(meta, data) \in Nat /\ acked \in Nat /\ v \in Nat
      BY TempNamed, DurableAssumption DEF ReadDest, Torn, ReplaceInv, ReplaceTypes, Contents
    <3>2. ReadDest(meta, data) >= acked
      BY <2>2 DEF ExposeInv
    <3>. QED BY <2>1, <3>1, <3>2
  <2>4. \A q \in Procs : procs'[q].pc # "idle" => procs'[q].val >= acked
    BY <1>1, <1>2, <2>3 DEF ReplaceInv, ReplaceTypes
  <2>5. \A m \in journal : Reported(m)'
    BY <2>1, <2>2 DEF Reported
  <2>6. FloorFlushed'
    BY <2>1, <2>2, <2>4, <2>5 DEF FloorFlushed
  <2>. QED BY <1>4, <2>6
<1>6. CASE kind # "floor"
  BY <1>4, <1>6 DEF FloorFlushed, Begin
<1>. QED BY <1>5, <1>6

\* The writer has a fresh or truncated file.
LEMMA OpenedKeeps ==
  ASSUME ExposeInv, ReplaceInv, ~overlapped, NEW p \in Procs, procs[p].pc # "idle", NEW i \in Inodes,
         procs' = [procs EXCEPT ![p].pc = "write", ![p].ino = i],
         meta'.tmp = i, data' = [data EXCEPT ![i] = Empty],
         \A j \in Inodes : j # i => disk'[j] = disk[j],
         \A o \in journal : o.dest # i,
         \A o \in journal' : \E k \in journal : k.dest = o.dest,
         UNCHANGED <<kind, overlapped, acked>>
  PROVE  OneWriter' /\ FloorFlushed'
<1>. DEFINE w == [pc |-> "write", val |-> procs[p].val, ino |-> i]
<1>1. procs' = [procs EXCEPT ![p] = w] /\ procs'[p] = w
  <2>1. ReplaceTypes BY DEF ReplaceInv
  <2>2. procs' = [procs EXCEPT ![p] = [pc |-> "write", val |-> procs[p].val, ino |-> i]]
    <3>. HIDE DEF w
    <3>. QED BY ONLY <2>1, p \in Procs, procs[p].pc # "idle", i \in Inodes,
                     procs' = [procs EXCEPT ![p].pc = "write", ![p].ino = i], OpenedTypes
  <2>. QED BY <2>1, <2>2 DEF ReplaceTypes
<1>2. data'[i].len = 0
  BY DEF ReplaceInv, ReplaceTypes, Empty
<1>3. InHand(p)'
  BY <1>1, <1>2 DEF InHand
<1>4. OneWriter'
  BY <1>1, <1>3, OneMoves DEF ReplaceInv
<1>. DEFINE I == {i}
<1>5. \A q \in Procs : procs'[q].pc # "idle" => procs[q].pc # "idle" /\ procs'[q].val = procs[q].val
  <2>1. w.val = procs[p].val /\ procs[p].pc # "idle"
    OBVIOUS
  <2>2. \A q \in Procs : q # p => procs'[q] = procs[q]
    BY <1>1 DEF ReplaceInv, ReplaceTypes
  <2>. QED BY <1>1, <2>1, <2>2
<1>6. \A j \in Inodes \ I : data'[j] = data[j] /\ disk'[j] = disk[j]
  BY DEF ReplaceInv, ReplaceTypes
<1>7. \A m \in journal : m.dest # NoInode => m.dest \notin I
  OBVIOUS
<1>. HIDE DEF I
<1>8. FloorFlushed'
  BY <1>5, <1>6, <1>7, FloorSpared DEF ReplaceInv
<1>. QED BY <1>4, <1>8

LEMMA OpenExclKeeps ==
  ASSUME ExposeInv, ReplaceInv, NEW p \in Procs, OpenExcl(p)
  PROVE  OneWriter' /\ FloorFlushed'
<1>. SUFFICES ASSUME ~overlapped' PROVE OneWriter' /\ FloorFlushed'
  BY DEF OneWriter, FloorFlushed
<1>1. ~overlapped /\ kind # "floor" /\ procs[p].pc # "idle" /\ UNCHANGED <<kind, overlapped, acked>>
  BY DEF OpenExcl
<1>2. CASE Create(p)
  <2>1. PICK i \in Inodes :
           /\ meta'.dest = meta.dest /\ meta'.tmp = i
           /\ SetMeta([meta EXCEPT !.tmp = i, !.mode[i] = TempMode])
           /\ \A o \in journal : o.dest # i /\ o.tmp # i
           /\ data' = [data EXCEPT ![i] = Empty] /\ disk' = [disk EXCEPT ![i] = Empty]
           /\ procs' = [procs EXCEPT ![p].pc = "write", ![p].ino = i]
    BY <1>2, CreateFresh
  <2>2. \A o \in journal' : \E k \in journal : k.dest = o.dest
    BY <2>1 DEF SetMeta, ExposeInv
  <2>3. \A j \in Inodes : j # i => disk'[j] = disk[j]
    BY <2>1 DEF ReplaceInv, ReplaceTypes
  <2>. QED BY <1>1, <2>1, <2>2, <2>3, OpenedKeeps
<1>3. CASE Goto(p, "retry")
  <2>1. InHand(p)'
    BY <1>3, GotoIs DEF InHand, ReplaceInv
  <2>2. OneWriter'
    BY <1>1, <1>3, <2>1, GotoIs, OneMoves DEF ReplaceInv
  <2>. QED BY <1>1, <2>2 DEF FloorFlushed
<1>4. CASE Leave(p)
  BY <1>1, <1>4, OneLeaves DEF FloorFlushed, ReplaceInv
<1>. QED BY <1>2, <1>3, <1>4 DEF OpenExcl

LEMMA OpenTruncKeeps ==
  ASSUME ExposeInv, ReplaceInv, NEW p \in Procs, OpenTrunc(p)
  PROVE  OneWriter' /\ FloorFlushed'
<1>. SUFFICES ASSUME ~overlapped' PROVE OneWriter' /\ FloorFlushed'
  BY DEF OneWriter, FloorFlushed
<1>1. ~overlapped /\ procs[p].pc # "idle" /\ UNCHANGED <<kind, overlapped, acked>>
  BY DEF OpenTrunc
<1>2. CASE Create(p)
  <2>1. PICK i \in Inodes :
           /\ meta'.dest = meta.dest /\ meta'.tmp = i
           /\ SetMeta([meta EXCEPT !.tmp = i, !.mode[i] = TempMode])
           /\ \A o \in journal : o.dest # i /\ o.tmp # i
           /\ data' = [data EXCEPT ![i] = Empty] /\ disk' = [disk EXCEPT ![i] = Empty]
           /\ procs' = [procs EXCEPT ![p].pc = "write", ![p].ino = i]
    BY <1>2, CreateFresh
  <2>2. \A o \in journal' : \E k \in journal : k.dest = o.dest
    BY <2>1 DEF SetMeta, ExposeInv
  <2>3. \A j \in Inodes : j # i => disk'[j] = disk[j]
    BY <2>1 DEF ReplaceInv, ReplaceTypes
  <2>. QED BY <1>1, <2>1, <2>2, <2>3, OpenedKeeps
<1>3. CASE ~Create(p)
  <2>. DEFINE i == meta.tmp
  <2>1. /\ i # NoInode /\ UNCHANGED <<meta, journal, disk>>
        /\ data' = [data EXCEPT ![i] = Empty]
        /\ procs' = [procs EXCEPT ![p].pc = "write", ![p].ino = i]
    BY <1>3 DEF OpenTrunc, KeepMeta
  <2>2. i \in Inodes /\ meta'.tmp = i
    BY <2>1, TempNamed
  <2>3. \A o \in journal : o.dest # i
    BY <2>1 DEF ReplaceInv, NamesApart
  <2>4. \A o \in journal' : \E k \in journal : k.dest = o.dest
    BY <2>1
  <2>. QED BY <1>1, <2>1, <2>2, <2>3, <2>4, OpenedKeeps
<1>. QED BY <1>2, <1>3

LEMMA WriteKeeps ==
  ASSUME ExposeInv, ReplaceInv, NEW p \in Procs, Write(p)
  PROVE  OneWriter' /\ FloorFlushed'
<1>. SUFFICES ASSUME ~overlapped' PROVE OneWriter' /\ FloorFlushed'
  BY DEF OneWriter, FloorFlushed
<1>. DEFINE i == procs[p].ino
            v == procs[p].val
            part == IF procs[p].pc = "write2" THEN 2 ELSE 1
            c == IF part = 2 THEN AfterWrite ELSE "write2"
<1>1. /\ ~overlapped /\ procs[p].pc \in {"write", "write2"} /\ Goto(p, c)
      /\ data' = [data EXCEPT ![i] = Patched(data[i], v, part)]
      /\ UNCHANGED <<meta, journal, disk, kind, overlapped, acked>>
  BY DEF Write, KeepMeta
<1>2. i = meta.tmp /\ i \in Inodes /\ InHand(p)
  BY <1>1 DEF ReplaceInv, OneWriter, InHand
<1>3. data'[i] = Patched(data[i], v, part) /\ data[i] \in Contents
  BY <1>1, <1>2 DEF ReplaceInv, ReplaceTypes
<1>4. procs'[p].pc = c /\ procs'[p].val = v /\ procs'[p].ino = i
       /\ procs' = [procs EXCEPT ![p] = [procs[p] EXCEPT !.pc = c]]
  BY <1>1, GotoIs DEF ReplaceInv
<1>5. InHand(p)'
  <2>1. CASE procs[p].pc = "write"
    <3>1. data'[i] = [val |-> v, len |-> 1]
      BY <1>2, <1>3, <2>1 DEF InHand, Patched
    <3>2. procs'[p].pc = "write2"
      BY <1>4, <2>1
    <3>. QED BY <1>1, <1>2, <1>4, <3>1, <3>2 DEF InHand
  <2>2. CASE procs[p].pc = "write2"
    <3>1. data'[i] = [val |-> v, len |-> Full]
      BY <1>2, <1>3, <2>2 DEF InHand, Patched, Full
    <3>2. procs'[p].pc = AfterWrite
      BY <1>4, <2>2
    <3>3. CASE kind \in {"restore", "fragment"}
      <4>1. procs'[p].pc = "mode" BY <3>2, <3>3 DEF AfterWrite
      <4>. QED BY <1>1, <1>2, <1>4, <3>1, <3>3, <4>1 DEF InHand
    <3>4. CASE kind = "registry"
      <4>1. procs'[p].pc = "rename" BY <3>2, <3>4 DEF AfterWrite
      <4>. QED BY <1>1, <1>2, <1>4, <3>1, <3>4, <4>1 DEF InHand
    <3>5. CASE kind = "floor"
      <4>1. procs'[p].pc = "sync" BY <3>2, <3>5 DEF AfterWrite
      <4>. QED BY <1>1, <1>2, <1>4, <3>1, <3>5, <4>1 DEF InHand
    <3>. QED BY <3>3, <3>4, <3>5 DEF ReplaceInv, ReplaceTypes
  <2>. QED BY <1>1, <2>1, <2>2
<1>6. OneWriter'
  BY <1>1, <1>4, <1>5, OneMoves DEF ReplaceInv
<1>. DEFINE I == {i}
<1>7. \A j \in Inodes \ I : data'[j] = data[j] /\ disk'[j] = disk[j]
  BY <1>1 DEF ReplaceInv, ReplaceTypes
<1>8. \A m \in journal : m.dest # NoInode => m.dest \notin I
  BY <1>2, DurableAssumption DEF ReplaceInv, NamesApart
<1>9. \A q \in Procs : procs'[q].pc # "idle" => procs[q].pc # "idle" /\ procs'[q].val = procs[q].val
  BY <1>1, <1>4 DEF ReplaceInv, ReplaceTypes
<1>10. \A o \in journal' : \E k \in journal : k.dest = o.dest
  BY <1>1
<1>. HIDE DEF I
<1>11. FloorFlushed'
  BY <1>1, <1>7, <1>8, <1>9, <1>10, FloorSpared DEF ReplaceInv
<1>. QED BY <1>6, <1>11

LEMMA SyncFileKeeps ==
  ASSUME ExposeInv, ReplaceInv, NEW p \in Procs, SyncFile(p)
  PROVE  OneWriter' /\ FloorFlushed'
<1>. SUFFICES ASSUME ~overlapped' PROVE OneWriter' /\ FloorFlushed'
  BY DEF OneWriter, FloorFlushed
<1>. DEFINE i == procs[p].ino
<1>1. /\ ~overlapped /\ procs[p].pc = "sync" /\ Goto(p, "rename")
      /\ disk' = [disk EXCEPT ![i] = data[i]]
      /\ UNCHANGED <<meta, journal, data, kind, overlapped, acked>>
  BY DEF SyncFile, KeepMeta
<1>2. i = meta.tmp /\ i \in Inodes /\ InHand(p) /\ kind = "floor"
  BY <1>1 DEF ReplaceInv, OneWriter, InHand
<1>3. disk'[i] = data'[i]
  BY <1>1, <1>2 DEF ReplaceInv, ReplaceTypes
<1>4. procs'[p].pc = "rename" /\ procs'[p].val = procs[p].val /\ procs'[p].ino = i
       /\ procs' = [procs EXCEPT ![p] = [procs[p] EXCEPT !.pc = "rename"]]
  BY <1>1, GotoIs DEF ReplaceInv
<1>5. InHand(p)'
  BY <1>1, <1>2, <1>3, <1>4 DEF InHand
<1>6. OneWriter'
  BY <1>1, <1>4, <1>5, OneMoves DEF ReplaceInv
<1>. DEFINE I == {i}
<1>7. \A j \in Inodes \ I : data'[j] = data[j] /\ disk'[j] = disk[j]
  BY <1>1 DEF ReplaceInv, ReplaceTypes
<1>8. \A m \in journal : m.dest # NoInode => m.dest \notin I
  BY <1>2, DurableAssumption DEF ReplaceInv, NamesApart
<1>9. \A q \in Procs : procs'[q].pc # "idle" => procs[q].pc # "idle" /\ procs'[q].val = procs[q].val
  BY <1>1, <1>4 DEF ReplaceInv, ReplaceTypes
<1>10. \A o \in journal' : \E k \in journal : k.dest = o.dest
  BY <1>1
<1>. HIDE DEF I
<1>11. FloorFlushed'
  BY <1>1, <1>7, <1>8, <1>9, <1>10, FloorSpared DEF ReplaceInv
<1>. QED BY <1>6, <1>11

LEMMA SetModeOne ==
  ASSUME ExposeInv, ReplaceInv, NEW p \in Procs, SetMode(p)
  PROVE  OneWriter' /\ FloorFlushed'
<1>. SUFFICES ASSUME ~overlapped' PROVE OneWriter' /\ FloorFlushed'
  BY DEF OneWriter, FloorFlushed
<1>1. ~overlapped /\ procs[p].pc = "mode" /\ UNCHANGED <<data, disk, kind, overlapped, acked>>
      /\ kind # "floor"
  BY DEF SetMode
<1>2. InHand(p)
  BY <1>1 DEF ReplaceInv, OneWriter
<1>3. PICK c \in {"rename", "validate"} : Goto(p, c) /\ (c = "validate" <=> kind = "fragment")
  BY DEF SetMode
<1>4. procs'[p].pc = c /\ procs'[p].val = procs[p].val /\ procs'[p].ino = procs[p].ino
       /\ procs' = [procs EXCEPT ![p] = [procs[p] EXCEPT !.pc = c]]
  BY <1>3, GotoIs DEF ReplaceInv
<1>5. meta'.tmp = meta.tmp
  <2>1. CASE kind = "restore"
    BY <2>1, TempNamed DEF SetMode, SetMeta, Metas
  <2>2. CASE kind = "fragment"
    BY <2>2, TempNamed DEF SetMode, SetMeta, Metas
  <2>. QED BY <2>1, <2>2 DEF SetMode
<1>6. InHand(p)'
  BY <1>1, <1>2, <1>3, <1>4, <1>5 DEF InHand
<1>7. OneWriter'
  BY <1>1, <1>4, <1>6, OneMoves DEF ReplaceInv
<1>. QED BY <1>1, <1>7 DEF FloorFlushed

LEMMA ValidateKeeps ==
  ASSUME ExposeInv, ReplaceInv, NEW p \in Procs, Validate(p)
  PROVE  OneWriter' /\ FloorFlushed'
<1>. SUFFICES ASSUME ~overlapped' PROVE OneWriter' /\ FloorFlushed'
  BY DEF OneWriter, FloorFlushed
<1>1. ~overlapped /\ procs[p].pc = "validate" /\ UNCHANGED <<data, disk, kind, overlapped, acked>>
  BY DEF Validate
<1>2. InHand(p)
  BY <1>1 DEF ReplaceInv, OneWriter
<1>3. kind = "fragment"
  BY <1>1, <1>2 DEF InHand
<1>4. CASE Leave(p)
  BY <1>1, <1>3, <1>4, OneLeaves DEF FloorFlushed, ReplaceInv
<1>5. CASE Goto(p, "rename") /\ KeepMeta /\ (data[meta.tmp].len < Full \/ data[meta.tmp].val \notin Rejected)
  <2>1. procs'[p].pc = "rename" /\ procs'[p].val = procs[p].val /\ procs'[p].ino = procs[p].ino
         /\ procs' = [procs EXCEPT ![p] = [procs[p] EXCEPT !.pc = "rename"]]
    BY <1>5, GotoIs DEF ReplaceInv
  <2>2. procs[p].val \notin Rejected
    BY <1>1, <1>2, <1>5 DEF InHand, Full
  <2>3. InHand(p)'
    BY <1>1, <1>2, <1>3, <1>5, <2>1, <2>2 DEF InHand, KeepMeta
  <2>4. OneWriter'
    BY <1>1, <2>1, <2>3, OneMoves DEF ReplaceInv
  <2>. QED BY <1>1, <1>3, <2>4 DEF FloorFlushed
<1>. QED BY <1>4, <1>5 DEF Validate

\* What a rename brings to the destination.
LEMMA Renamed ==
  ASSUME ExposeInv, ReplaceInv, NEW p \in Procs, Rename(p), ~overlapped
  PROVE  /\ meta'.dest = procs[p].ino /\ meta'.tmp = NoInode /\ meta'.dest \in Inodes
         /\ journal' = journal \cup {meta'}
         /\ data[meta'.dest] = [val |-> procs[p].val, len |-> Full]
         /\ ReadDest(meta', data) = procs[p].val
         /\ kind = "fragment" => procs[p].val \notin Rejected
         /\ kind = "floor" => disk[meta'.dest] = data[meta'.dest]
         /\ procs[p].val \in Values
         /\ UNCHANGED <<data, disk, kind, overlapped, acked, lost>>
<1>1. procs[p].pc = "rename" /\ InHand(p)
  BY DEF Rename, ReplaceInv, OneWriter
<1>2. meta'.dest = meta.tmp /\ meta'.tmp = NoInode /\ journal' = journal \cup {meta'}
  BY TempNamed DEF Rename, SetMeta, Metas
<1>3. procs[p].ino = meta.tmp /\ procs[p].ino \in Inodes
      /\ data[procs[p].ino] = [val |-> procs[p].val, len |-> Full]
  BY <1>1 DEF InHand
<1>4. ReadDest(meta', data) = procs[p].val
  BY <1>2, <1>3, DurableAssumption DEF ReadDest
<1>5. procs[p].val \in Values
  BY <1>1 DEF ReplaceInv, ReplaceTypes, Writer
<1>. QED BY <1>1, <1>2, <1>3, <1>4, <1>5 DEF InHand, Rename

LEMMA RenameKeeps ==
  ASSUME ExposeInv, ReplaceInv, NEW p \in Procs, Rename(p)
  PROVE  OneWriter' /\ FloorFlushed'
<1>. SUFFICES ASSUME ~overlapped' PROVE OneWriter' /\ FloorFlushed'
  BY DEF OneWriter, FloorFlushed
<1>1. ~overlapped /\ procs[p].pc = "rename" /\ UNCHANGED <<data, disk, kind, overlapped, acked>>
  BY DEF Rename
<1>2. CASE kind = "floor"
  <2>1. Goto(p, "syncdir")
    BY <1>2 DEF Rename
  <2>2. procs'[p].pc = "syncdir" /\ procs'[p].val = procs[p].val
         /\ procs' = [procs EXCEPT ![p] = [procs[p] EXCEPT !.pc = "syncdir"]]
    BY <2>1, GotoIs DEF ReplaceInv
  <2>3. InHand(p)'
    <3>1. ReadDest(meta', data') = procs[p].val
      BY <1>1, Renamed
    <3>. QED BY <1>1, <1>2, <2>2, <3>1 DEF InHand
  <2>4. OneWriter'
    BY <1>1, <2>2, <2>3, OneMoves DEF ReplaceInv
  <2>5. \A m \in journal : Reported(m) /\ ReadDest(m, data) >= acked
    BY <1>1, <1>2 DEF ReplaceInv, FloorFlushed
  <2>6. /\ disk[meta'.dest] = data[meta'.dest] /\ data[meta'.dest].len = Full
        /\ data[meta'.dest].val # Torn /\ ReadDest(meta', data) >= acked
    <3>1. procs[p].val # Torn /\ procs[p].val >= acked
      BY <1>1, <1>2, Renamed, DurableAssumption DEF ReplaceInv, FloorFlushed
    <3>2. data[meta'.dest] = [val |-> procs[p].val, len |-> Full]
      BY <1>1, Renamed
    <3>3. disk[meta'.dest] = data[meta'.dest] /\ ReadDest(meta', data) = procs[p].val
      BY <1>1, <1>2, Renamed
    <3>. QED BY <3>1, <3>2, <3>3
  <2>7. ASSUME NEW m \in journal' PROVE Reported(m)' /\ ReadDest(m, data') >= acked'
    <3>1. CASE m \in journal
      BY <1>1, <2>5, <3>1 DEF Reported
    <3>2. CASE m = meta'
      BY <1>1, <2>6, <3>2 DEF Reported
    <3>. QED BY <1>1, <3>1, <3>2, Renamed
  <2>8. \A q \in Procs : procs'[q].pc # "idle" => procs'[q].val >= acked'
    BY <1>1, <1>2, <2>2 DEF ReplaceInv, ReplaceTypes, FloorFlushed
  <2>9. FloorFlushed'
    BY <2>7, <2>8 DEF FloorFlushed
  <2>. QED BY <2>4, <2>9
<1>3. CASE kind # "floor"
  BY <1>1, <1>3, OneLeaves DEF Rename, FloorFlushed, ReplaceInv
<1>. QED BY <1>2, <1>3

LEMMA SyncDirKeeps ==
  ASSUME ExposeInv, ReplaceInv, NEW p \in Procs, SyncDir(p)
  PROVE  OneWriter' /\ FloorFlushed'
<1>. SUFFICES ASSUME ~overlapped' PROVE OneWriter' /\ FloorFlushed'
  BY DEF OneWriter, FloorFlushed
<1>1. /\ ~overlapped /\ procs[p].pc = "syncdir" /\ Leave(p) /\ journal' = {meta}
      /\ UNCHANGED <<meta, data, disk, kind, overlapped>>
      /\ acked' = IF procs[p].val > acked THEN procs[p].val ELSE acked
  BY DEF SyncDir
<1>2. OneWriter'
  BY <1>1, OneLeaves DEF ReplaceInv
<1>3. kind = "floor" /\ ReadDest(meta, data) = procs[p].val
  BY <1>1 DEF ReplaceInv, OneWriter, InHand
<1>4. Reported(meta) /\ procs[p].val >= acked
  BY <1>1, <1>3 DEF ReplaceInv, FloorFlushed, ExposeInv
<1>5. acked' = procs[p].val
  <2>1. acked \in Nat /\ procs[p] \in Writer
    BY DEF ReplaceInv, ReplaceTypes
  <2>2. procs[p].val \in Values \cup {0}
    BY <2>1 DEF Writer
  <2>3. procs[p].val \in Nat
    BY <2>2, ValuesNat
  <2>. QED BY <1>1, <1>4, <2>1, <2>3
<1>6. \A q \in Procs : procs'[q].pc = "idle"
  <2>1. \A q \in Procs : q # p => procs[q].pc = "idle"
    BY <1>1 DEF ReplaceInv, OneWriter
  <2>2. procs'[p].pc = "idle" /\ \A q \in Procs : q # p => procs'[q] = procs[q]
    BY <1>1 DEF Leave, NoProc, ReplaceInv, ReplaceTypes
  <2>. QED BY <2>1, <2>2
<1>7. ReadDest(meta, data) >= acked' /\ procs[p].val \in Nat
  BY <1>3, <1>5, DurableAssumption DEF ReplaceInv, ReplaceTypes, Writer
<1>8. ASSUME NEW m \in journal' PROVE Reported(m)' /\ ReadDest(m, data') >= acked'
  BY <1>1, <1>4, <1>7 DEF Reported
<1>9. FloorFlushed'
  BY <1>6, <1>8 DEF FloorFlushed
<1>. QED BY <1>2, <1>9

\* A loss of power ends every writer and leaves a floor that was flushed.
LEMMA PowerLossKeeps ==
  ASSUME ExposeInv, ReplaceInv, PowerLoss
  PROVE  OneWriter' /\ FloorFlushed'
<1>1. /\ meta' \in journal /\ journal' = {meta'} /\ disk' = data'
      /\ \A i \in {meta'.dest, meta'.tmp} \ {NoInode} : data'[i] \in Survives(i)
      /\ procs' = [p \in Procs |-> NoProc]
      /\ UNCHANGED <<kind, acked, overlapped>>
  BY PowerLossOutcome DEF ReplaceInv
<1>2. \A q \in Procs : procs'[q].pc = "idle"
  BY <1>1 DEF NoProc
<1>3. OneWriter'
  BY <1>2 DEF OneWriter, InHand
<1>4. CASE kind = "floor" /\ ~overlapped
  <2>1. Reported(meta') /\ ReadDest(meta', data) >= acked
    BY <1>1, <1>4 DEF ReplaceInv, FloorFlushed
  <2>2. meta'.dest # NoInode => data'[meta'.dest] = data[meta'.dest]
    BY <1>1, <2>1 DEF Survives, Reported
  <2>3. ASSUME NEW m \in journal' PROVE Reported(m)' /\ ReadDest(m, data') >= acked'
    <3>1. m = meta' BY <1>1
    <3>. QED BY <1>1, <2>1, <2>2, <3>1 DEF Reported, ReadDest
  <2>4. FloorFlushed'
    BY <1>2, <2>3 DEF FloorFlushed
  <2>. QED BY <1>3, <2>4
<1>5. CASE ~(kind = "floor" /\ ~overlapped)
  BY <1>1, <1>3, <1>5 DEF FloorFlushed
<1>. QED BY <1>4, <1>5

LEMMA WriterKeepsOne ==
  ASSUME ExposeInv, ReplaceInv, NEW p \in Procs, WriterStep(p) \/ Kill(p)
  PROVE  OneWriter' /\ FloorFlushed'
<1>1. CASE OpenExcl(p) \/ OpenTrunc(p)
  BY <1>1, OpenExclKeeps, OpenTruncKeeps
<1>2. CASE Write(p) \/ SyncFile(p) \/ SetMode(p) \/ Validate(p)
  BY <1>2, WriteKeeps, SyncFileKeeps, SetModeOne, ValidateKeeps
<1>3. CASE Rename(p) \/ SyncDir(p)
  BY <1>3, RenameKeeps, SyncDirKeeps
<1>4. CASE Fail(p)
  <2>1. CASE ~overlapped
    BY <1>4, <2>1, GoneKeeps DEF Fail
  <2>2. CASE overlapped
    BY <1>4, <2>2 DEF Fail, OneWriter, FloorFlushed
  <2>. QED BY <2>1, <2>2
<1>5. CASE Kill(p)
  <2>1. CASE ~overlapped
    BY <1>5, <2>1, GoneKeeps DEF Kill
  <2>2. CASE overlapped
    BY <1>5, <2>2 DEF Kill, OneWriter, FloorFlushed
  <2>. QED BY <2>1, <2>2
<1>6. CASE RemoveFile(p)
  <2>1. overlapped' \/ \A q \in Procs : procs'[q].pc = "idle"
    BY <1>6 DEF RemoveFile
  <2>. QED BY <1>6, <2>1 DEF RemoveFile, OneWriter, InHand, FloorFlushed
<1>7. ASSUME NEW v \in Values, Begin(p, v) PROVE OneWriter' /\ FloorFlushed'
  BY <1>7, BeginKeeps
<1>. QED BY <1>1, <1>2, <1>3, <1>4, <1>5, <1>6, <1>7 DEF WriterStep

LEMMA ReplaceNext == ExposeInv /\ ReplaceInv /\ [DurableNext]_durVars => ReplaceInv'
<1>. SUFFICES ASSUME ExposeInv, ReplaceInv, [DurableNext]_durVars PROVE ReplaceInv'
  OBVIOUS
<1>1. ReplaceTypes' /\ NamesApart'
  BY TypesNext, NamesNext DEF ReplaceInv
<1>2. ASSUME NEW p \in Procs, WriterStep(p) \/ Kill(p) PROVE OneWriter' /\ FloorFlushed'
  BY <1>2, WriterKeepsOne
<1>3. ASSUME PowerLoss PROVE OneWriter' /\ FloorFlushed'
  BY <1>3, PowerLossKeeps
<1>4. ASSUME UNCHANGED durVars PROVE OneWriter' /\ FloorFlushed'
  BY <1>4 DEF durVars, ReplaceInv, OneWriter, InHand, FloorFlushed, Reported
<1>5. OneWriter' /\ FloorFlushed'
  BY <1>2, <1>3, <1>4 DEF DurableNext
<1>. QED BY <1>1, <1>5 DEF ReplaceInv

LEMMA ReplaceInvariant == DurableSpec => []ExposeInv /\ []ReplaceInv
BY ExposeInit, ExposeNext, ReplaceInit, ReplaceNext, PTL DEF DurableSpec

\* Once persist_version has reported a version, no later write, kill or loss of
\* power leaves the device with a lower floor or an unreadable one, unless two
\* runs overlapped (write_private's sync_all before the rename and
\* sync_parent_dir after it).
THEOREM ReportedFloorIsKept == DurableSpec => []FloorKept
<1>1. ExposeInv /\ ReplaceInv => FloorKept
  <2>. SUFFICES ASSUME ExposeInv, ReplaceInv, kind = "floor", ~overlapped
                PROVE  ReadDest(meta, data) # Torn /\ ReadDest(meta, data) >= acked
    BY DEF FloorKept
  <2>1. Reported(meta) /\ ReadDest(meta, data) >= acked
    BY DEF ReplaceInv, FloorFlushed, ExposeInv
  <2>. QED BY <2>1 DEF Reported, ReadDest, Torn
<1>. QED BY <1>1, ReplaceInvariant, PTL

-----------------------------------------------------------------------------
(* Every step of a replacement is one of AtomicFile, or none.              *)

\* The contents being asked for, one by one.
LEMMA WantedIs ==
  \A v : v \in Wanted <=>
     \/ v = 0 /\ kind \in {"restore", "fragment"}
     \/ v # 0 /\ (kind = "fragment" => v \notin Rejected) /\ \E p \in Procs : procs[p].val = v
BY DEF Wanted

LEMMA WantedShrinks ==
  ASSUME ReplaceTypes, kind' = kind,
         \A p \in Procs : procs'[p].val \in {0, procs[p].val}
  PROVE  Wanted' \subseteq Wanted
BY DEF Wanted

LEMMA WantedGrows ==
  ASSUME ReplaceTypes, kind' = kind,
         \A p \in Procs : procs[p].val \in {0, procs'[p].val}
  PROVE  Wanted \subseteq Wanted'
BY DEF Wanted

LEMMA WantedLeave ==
  ASSUME ReplaceTypes, kind' = kind, NEW p \in Procs, Leave(p)
  PROVE  Wanted' \subseteq Wanted
<1>1. \A q \in Procs : procs'[q].val \in {0, procs[q].val}
  BY DEF ReplaceTypes, Leave, NoProc
<1>. QED BY <1>1, WantedShrinks

LEMMA WantedGoto ==
  ASSUME ReplaceTypes, kind' = kind, NEW p \in Procs, NEW c, Goto(p, c)
  PROVE  Wanted' \subseteq Wanted
<1>1. \A q \in Procs : procs'[q].val \in {0, procs[q].val}
  BY DEF ReplaceTypes, Goto, Writer
<1>. QED BY <1>1, WantedShrinks

LEMMA WantedOpened ==
  ASSUME ReplaceTypes, kind' = kind, NEW p \in Procs, procs[p].pc # "idle", NEW i \in Inodes,
         procs' = [procs EXCEPT ![p].pc = "write", ![p].ino = i]
  PROVE  Wanted' \subseteq Wanted
<1>. DEFINE w == [pc |-> "write", val |-> procs[p].val, ino |-> i]
<1>1. procs' = [procs EXCEPT ![p] = w] /\ w.val = procs[p].val
  BY OpenedTypes
<1>. HIDE DEF w
<1>2. \A q \in Procs : procs'[q].val \in {0, procs[q].val}
  BY <1>1 DEF ReplaceTypes
<1>. QED BY <1>2, WantedShrinks

\* A step that leaves the destination's file alone shows a reader nothing new.
LEMMA SameContent ==
  ASSUME ExposeInv, meta'.dest = meta.dest,
         meta.dest # NoInode => data'[meta.dest] = data[meta.dest]
  PROVE  ReadDest(meta, data)' = ReadDest(meta, data)
BY DEF ReadDest

Quiet == ReadDest(meta, data)' = ReadDest(meta, data) /\ Wanted' \subseteq Wanted

LEMMA CleanupQuiet ==
  ASSUME ExposeInv, CleanupTemp \/ KeepMeta, data' = data
  PROVE  ReadDest(meta, data)' = ReadDest(meta, data)
<1>1. meta'.dest = meta.dest
  BY TempNamed DEF CleanupTemp, SetMeta, KeepMeta, Metas
<1>. QED BY <1>1, SameContent

LEMMA OpenQuiet ==
  ASSUME ExposeInv, ReplaceInv, NEW p \in Procs, OpenExcl(p) \/ OpenTrunc(p)
  PROVE  Quiet
<1>1. kind' = kind /\ procs[p].pc # "idle" /\ ReplaceTypes
  BY DEF OpenExcl, OpenTrunc, ReplaceInv
<1>2. CASE Create(p)
  <2>1. PICK i \in Inodes :
           /\ meta'.dest = meta.dest /\ meta'.tmp = i
           /\ SetMeta([meta EXCEPT !.tmp = i, !.mode[i] = TempMode])
           /\ \A o \in journal : o.dest # i /\ o.tmp # i
           /\ data' = [data EXCEPT ![i] = Empty] /\ disk' = [disk EXCEPT ![i] = Empty]
           /\ procs' = [procs EXCEPT ![p].pc = "write", ![p].ino = i]
    BY <1>2, CreateFresh
  <2>2. meta.dest # i /\ meta.dest \in Inodes \cup {NoInode}
    BY <2>1, TempNamed DEF ExposeInv
  <2>3. ReadDest(meta, data)' = ReadDest(meta, data)
    BY <1>1, <2>1, <2>2, SameContent DEF ReplaceTypes
  <2>. QED BY <1>1, <2>1, <2>3, WantedOpened DEF Quiet
<1>3. CASE ~Create(p) /\ OpenExcl(p)
  BY <1>1, <1>3, CleanupQuiet, WantedGoto, WantedLeave DEF OpenExcl, Quiet
<1>4. CASE ~Create(p) /\ OpenTrunc(p)
  <2>. DEFINE i == meta.tmp
  <2>1. /\ i # NoInode /\ UNCHANGED <<meta, journal, disk>>
        /\ data' = [data EXCEPT ![i] = Empty]
        /\ procs' = [procs EXCEPT ![p].pc = "write", ![p].ino = i]
    BY <1>4 DEF OpenTrunc, KeepMeta
  <2>2. i \in Inodes /\ meta.dest # i /\ meta.dest \in Inodes \cup {NoInode}
    BY <2>1, TempNamed DEF ReplaceInv, NamesApart, ExposeInv
  <2>3. ReadDest(meta, data)' = ReadDest(meta, data)
    BY <1>1, <2>1, <2>2, SameContent DEF ReplaceTypes
  <2>. QED BY <1>1, <2>1, <2>2, <2>3, WantedOpened DEF Quiet
<1>. QED BY <1>2, <1>3, <1>4

LEMMA WriteQuiet ==
  ASSUME ExposeInv, ReplaceInv, ~overlapped, NEW p \in Procs, Write(p)
  PROVE  Quiet
<1>. DEFINE i == procs[p].ino
            part == IF procs[p].pc = "write2" THEN 2 ELSE 1
            c == IF part = 2 THEN AfterWrite ELSE "write2"
<1>1. /\ procs[p].pc \in {"write", "write2"} /\ Goto(p, c)
      /\ \A j \in Inodes : j # i => data'[j] = data[j]
      /\ UNCHANGED <<meta, kind>>
  BY DEF Write, KeepMeta, ReplaceInv, ReplaceTypes
<1>2. i = meta.tmp /\ i \in Inodes
  BY <1>1 DEF ReplaceInv, OneWriter, InHand
<1>3. meta.dest # i /\ meta.dest \in Inodes \cup {NoInode}
  BY <1>2, TempNamed, DurableAssumption DEF ReplaceInv, NamesApart, ExposeInv
<1>4. ReadDest(meta, data)' = ReadDest(meta, data)
  BY <1>1, <1>3, SameContent
<1>. QED BY <1>1, <1>4, WantedGoto DEF Quiet, ReplaceInv

LEMMA SetModeQuiet ==
  ASSUME ExposeInv, ReplaceInv, NEW p \in Procs, SetMode(p)
  PROVE  Quiet
<1>1. meta'.dest = meta.dest
  <2>1. CASE kind = "restore"
    BY <2>1, TempNamed DEF SetMode, SetMeta, Metas
  <2>2. CASE kind = "fragment"
    BY <2>2, TempNamed DEF SetMode, SetMeta, Metas
  <2>. QED BY <2>1, <2>2 DEF SetMode
<1>2. ReadDest(meta, data)' = ReadDest(meta, data)
  BY <1>1, SameContent DEF SetMode
<1>3. PICK c : Goto(p, c) /\ kind' = kind
  BY DEF SetMode
<1>. QED BY <1>2, <1>3, WantedGoto DEF Quiet, ReplaceInv

LEMMA OthersQuiet ==
  ASSUME ExposeInv, ReplaceInv, NEW p \in Procs,
         SyncFile(p) \/ Validate(p) \/ SyncDir(p) \/ Fail(p) \/ Kill(p)
  PROVE  Quiet
<1>1. kind' = kind /\ data' = data
  BY DEF SyncFile, Validate, SyncDir, Fail, Kill
<1>2. ReadDest(meta, data)' = ReadDest(meta, data)
  <2>1. CASE SyncDir(p)
    BY <1>1, <2>1, SameContent DEF SyncDir
  <2>2. CASE ~SyncDir(p)
    BY <1>1, <2>2, CleanupQuiet DEF SyncFile, Validate, Fail, Kill
  <2>. QED BY <2>1, <2>2
<1>3. Leave(p) \/ Goto(p, "rename")
  BY DEF SyncFile, Validate, SyncDir, Fail, Kill
<1>. QED BY <1>1, <1>2, <1>3, WantedLeave, WantedGoto DEF Quiet, ReplaceInv

Excused == overlapped \/ lost

LEMMA StepRefines ==
  ASSUME ExposeInv, ReplaceInv, [DurableNext]_durVars
  PROVE  [AF!Next]_<<ReadDest(meta, data), Wanted, overlapped \/ lost>>
<1>. SUFFICES ASSUME ~Excused' PROVE [AF!Next]_<<ReadDest(meta, data), Wanted, overlapped \/ lost>>
  BY DEF AF!Next, Excused
<1>0. ASSUME Quiet, UNCHANGED (overlapped \/ lost) PROVE AF!Next
  BY <1>0 DEF AF!Next, AF!Leave, Quiet
<1>1. ASSUME NEW p \in Procs, NEW v \in Values, Begin(p, v) PROVE AF!Next
  <2>1. \A q \in Procs : procs[q].val \in {0, procs'[q].val}
    BY <1>1 DEF Begin, ReplaceInv, ReplaceTypes
  <2>2. Wanted \subseteq Wanted' /\ ReadDest(meta, data)' = ReadDest(meta, data)
    BY <1>1, <2>1, WantedGrows, SameContent DEF Begin, KeepMeta, ReplaceInv
  <2>3. UNCHANGED (overlapped \/ lost)
    BY <1>1 DEF Begin, Excused, ReplaceInv, ReplaceTypes
  <2>. QED BY <2>2, <2>3 DEF AF!Next, AF!Begin
<1>2. ASSUME NEW p \in Procs, Rename(p) PROVE AF!Next
  <2>1. ~overlapped /\ UNCHANGED (overlapped \/ lost)
    BY <1>2 DEF Rename, Excused
  <2>2. ReadDest(meta, data)' = procs[p].val /\ procs[p].val \in Values
    BY <1>2, <2>1, Renamed
  <2>3. procs[p].val \in Wanted
    BY <1>2, <2>1, <2>2, Renamed, WantedIs, DurableAssumption
  <2>4. Wanted' \subseteq Wanted
    BY <1>2, WantedLeave, WantedGoto DEF Rename, ReplaceInv
  <2>. QED BY <2>1, <2>2, <2>3, <2>4 DEF AF!Next, AF!Commit
<1>3. ASSUME NEW p \in Procs, RemoveFile(p) PROVE AF!Next
  <2>1. UNCHANGED (overlapped \/ lost) /\ UNCHANGED <<procs, kind>>
    BY <1>3 DEF RemoveFile, Excused, ReplaceInv, ReplaceTypes
  <2>2. ReadDest(meta, data)' = 0
    BY <1>3, TempNamed DEF RemoveFile, SetMeta, Metas, ReadDest
  <2>3. 0 \in Wanted
    BY <1>3 DEF RemoveFile, Wanted
  <2>4. Wanted' = Wanted
    BY <2>1 DEF Wanted
  <2>. QED BY <2>1, <2>2, <2>3, <2>4 DEF AF!Next, AF!Commit
<1>4. ASSUME NEW p \in Procs,
             OpenExcl(p) \/ OpenTrunc(p) \/ Write(p) \/ SetMode(p) \/ SyncFile(p)
               \/ Validate(p) \/ SyncDir(p) \/ Fail(p) \/ Kill(p)
      PROVE  AF!Next
  <2>1. UNCHANGED <<overlapped, lost>>
    BY <1>4 DEF OpenExcl, OpenTrunc, Write, SetMode, SyncFile, Validate, SyncDir, Fail, Kill
  <2>2. Quiet
    BY <1>4, <2>1, OpenQuiet, WriteQuiet, SetModeQuiet, OthersQuiet DEF Excused
  <2>. QED BY <1>0, <2>1, <2>2
<1>5. CASE PowerLoss
  BY <1>5 DEF PowerLoss, Excused
<1>6. CASE UNCHANGED durVars
  BY <1>6 DEF durVars, ReadDest, Wanted
<1>. QED BY <1>1, <1>2, <1>3, <1>4, <1>5, <1>6 DEF DurableNext, WriterStep

\* Whatever calls fail and wherever writers are killed, a reader of a restored
\* database, a fragment, the registry or the floor finds the content of before
\* or the one asked for, whole, and never a fragment visudo rejects, as long as
\* writers do not overlap and the power stays on: every replacement implements
\* AtomicFile (atomic_replace, write_fragment, write_registry, persist_version).
THEOREM ReplacementIsAtomic == DurableSpec => ReplaceImplements
<1>1. DurableInit => AF!Init
  BY DEF DurableInit, AF!Init
<1>2. ExposeInv /\ ReplaceInv /\ [DurableNext]_durVars
        => [AF!Next]_<<ReadDest(meta, data), Wanted, overlapped \/ lost>>
  BY StepRefines
<1>. QED BY <1>1, <1>2, ReplaceInvariant, PTL DEF DurableSpec, ReplaceImplements, AF!Spec

-----------------------------------------------------------------------------
(* The access to trees.  Whatever a pass may change is in the rollback     *)
(* file, or was made while the run was in progress.                        *)

\* A list of passes over trees that lie under the paths P.
PassesOver(s, P) == IsSeq(s) /\ \A pass \in Range(s) : \E q \in P : pass.node = Resolve(q)

LEMMA NoPasses == ASSUME NEW P PROVE PassesOver(<<>>, P)
BY Singles DEF PassesOver

LEMMA PassesJoined ==
  ASSUME NEW a, NEW b, NEW P, PassesOver(a, P), PassesOver(b, P)
  PROVE  PassesOver(a \o b, P)
<1>1. IsSeq(a \o b) /\ Range(a \o b) = Range(a) \cup Range(b)
  BY Concatenated DEF PassesOver
<1> QED
  BY <1>1 DEF PassesOver

LEMMA PassesFlattened ==
  ASSUME NEW ss, NEW P, IsSeq(ss), \A i \in DOMAIN ss : PassesOver(ss[i], P)
  PROVE  PassesOver(FlattenSeq(ss), P)
<1>1. IsSeq(FlattenSeq(ss)) /\ Range(FlattenSeq(ss)) = UNION {Range(ss[i]) : i \in DOMAIN ss}
  BY Flattened DEF PassesOver
<1> QED
  BY <1>1 DEF PassesOver

LEMMA OnePasses ==
  ASSUME NEW op, NEW who, NEW g, NEW P, g.path \in P
  PROVE  PassesOver(Passes(op, who, g), P)
<1> DEFINE s == Passes(op, who, g)
<1>1. DOMAIN s = 1..2 /\ s = [i \in 1..2 |-> s[i]] /\ \A i \in 1..2 : s[i].node = Resolve(g.path)
  BY DEF Passes
<1> HIDE DEF s
<1>2. IsSeq(s)
  BY <1>1, FunctionSeq
<1>3. \A pass \in Range(s) : pass.node = Resolve(g.path)
  BY <1>1 DEF Range
<1>4. PassesOver(s, P)
  BY <1>2, <1>3 DEF PassesOver
<1> QED
  BY <1>4 DEF s

\* Materialize and Revoke.
LEMMA AllPasses ==
  ASSUME NEW op, NEW who, NEW grants, IsSeq(grants), NEW P, \A g \in Range(grants) : g.path \in P
  PROVE  PassesOver(FlattenSeq([i \in DOMAIN grants |-> Passes(op, who, grants[i])]), P)
<1> DEFINE ss == [i \in DOMAIN grants |-> Passes(op, who, grants[i])]
<1>1. Len(grants) \in Nat /\ DOMAIN grants = 1..Len(grants)
  BY DEF IsSeq
<1>2. DOMAIN ss = 1..Len(grants) /\ ss = [i \in 1..Len(grants) |-> ss[i]]
  BY <1>1
<1>3. IsSeq(ss)
  BY <1>1, <1>2, FunctionSeq
<1>4. ASSUME NEW i \in DOMAIN ss PROVE PassesOver(ss[i], P)
  <2>1. ss[i] = Passes(op, who, grants[i]) /\ grants[i] \in Range(grants)
    BY <1>1, <1>2 DEF Range
  <2>2. grants[i].path \in P
    BY <2>1
  <2>3. PassesOver(Passes(op, who, grants[i]), P)
    BY <2>2, OnePasses
  <2> QED
    BY <2>1, <2>3
<1> HIDE DEF ss
<1>5. PassesOver(FlattenSeq(ss), P)
  BY <1>3, <1>4, PassesFlattened
<1> QED
  BY <1>5 DEF ss

LEMMA OfPrincipal ==
  ASSUME NEW who, NEW grants, IsSeq(grants), IsSeq(registry[who]), NEW P,
         \A g \in Range(grants) \cup Range(RemovedGrants(who, grants)) : g.path \in P
  PROVE  PassesOver(AccountPasses(who, grants), P) /\ PassesOver(GroupPasses(who, grants), P)
<1>1. IsSeq(RemovedGrants(who, grants))
  BY ChosenAre DEF RemovedGrants
<1>2. PassesOver(Materialize(who, grants), P)
  BY AllPasses DEF Materialize
<1>3. PassesOver(Revoke(who, RemovedGrants(who, grants)), P)
  BY <1>1, AllPasses DEF Revoke
<1> QED
  BY <1>2, <1>3, PassesJoined DEF AccountPasses, GroupPasses

LEMMA ListOf ==
  ASSUME NEW S, IsFiniteSet(S)
  PROVE  Cardinality(S) \in Nat /\ SetToSeq(S) \in [1..Cardinality(S) -> S]
<1> DEFINE n == Cardinality(S)
<1>1. n \in Nat /\ ExistsBijection(1..n, S)
  BY FS_CardinalityType
<1>2. \E f \in [1..n -> S] : IsInjective(f)
  BY <1>1 DEF ExistsBijection, Bijection, Injection
<1> QED
  BY <1>1, <1>2 DEF SetToSeq

LEMMA PassesOfAll ==
  ASSUME NEW S, IsFiniteSet(S), NEW f, NEW P, \A p \in S : PassesOver(f[p], P),
         NEW ss, ss = [i \in DOMAIN SetToSeq(S) |-> ss[i]],
         \A i \in DOMAIN SetToSeq(S) : ss[i] = f[SetToSeq(S)[i]]
  PROVE  PassesOver(FlattenSeq(ss), P)
<1> DEFINE n == Cardinality(S)
           l == SetToSeq(S)
<1>1. n \in Nat /\ l \in [1..n -> S]
  BY ListOf
<1> HIDE DEF n, l
<1>2. DOMAIN ss = 1..n /\ ss = [i \in 1..n |-> ss[i]] /\ \A i \in 1..n : ss[i] = f[l[i]] /\ l[i] \in S
  BY <1>1 DEF l
<1>3. IsSeq(ss)
  BY <1>1, <1>2, FunctionSeq
<1>4. \A i \in DOMAIN ss : PassesOver(ss[i], P)
  BY <1>2
<1> QED
  BY <1>3, <1>4, PassesFlattened

LEMMA PlanTouches ==
  ASSUME NEW t \in Targets, \A p \in Principals : IsSeq(registry[p])
  PROVE  PassesOver(Plan(t), TouchedPaths(t))
<1> DEFINE P == TouchedPaths(t)
<1>1. ASSUME NEW p \in Changed(t)
      PROVE  PassesOver(AccountPasses(p, t[p]), P) /\ PassesOver(GroupPasses(p, t[p]), P)
  <2>1. p \in Principals
    BY DEF Changed
  <2>2. IsSeq(t[p]) /\ IsSeq(registry[p])
    BY <2>1, FileAccessAssumption
  <2>3. \A g \in Range(t[p]) \cup Range(RemovedGrants(p, t[p])) : g.path \in P
    BY DEF TouchedPaths
  <2> QED
    BY <2>2, <2>3, OfPrincipal
<1> HIDE DEF P
<1> DEFINE U == Changed(t) \cap Users
           G == Changed(t) \cap Groups
           users == SetToSeq(U)
           groups == SetToSeq(G)
           ofUsers == [i \in DOMAIN users |-> AccountPasses(users[i], t[users[i]])]
           ofGroups == [i \in DOMAIN groups |-> GroupPasses(groups[i], t[groups[i]])]
           a == [p \in U |-> AccountPasses(p, t[p])]
           b == [p \in G |-> GroupPasses(p, t[p])]
<1>2. IsFiniteSet(U) /\ IsFiniteSet(G)
  BY FileAccessAssumption, FS_Subset
<1>3. (\A p \in U : PassesOver(a[p], P)) /\ (\A p \in G : PassesOver(b[p], P))
  BY <1>1
<1>4. (\A i \in DOMAIN users : users[i] \in U) /\ (\A i \in DOMAIN groups : groups[i] \in G)
  <2> HIDE DEF U, G
  <2> QED
    BY <1>2, ListOf
<1>5. Plan(t) = FlattenSeq(ofUsers) \o FlattenSeq(ofGroups)
  BY DEF Plan
<1> HIDE DEF U, G
<1>6. /\ ofUsers = [i \in DOMAIN users |-> ofUsers[i]] /\ \A i \in DOMAIN users : ofUsers[i] = a[users[i]]
      /\ ofGroups = [i \in DOMAIN groups |-> ofGroups[i]] /\ \A i \in DOMAIN groups : ofGroups[i] = b[groups[i]]
  BY <1>4
<1> HIDE DEF ofUsers, ofGroups, a, b
<1>7. PassesOver(FlattenSeq(ofUsers), P)
  BY <1>2, <1>3, <1>6, PassesOfAll
<1>8. PassesOver(FlattenSeq(ofGroups), P)
  BY <1>2, <1>3, <1>6, PassesOfAll
<1> QED
  BY <1>5, <1>7, <1>8, PassesJoined DEF P

-----------------------------------------------------------------------------
\* What a node is given back: what the rollback file has, else what it has now.
GivenBack(n) == IF n \in DOMAIN dump THEN dump[n] ELSE acl[n]

AclInv ==
  /\ live \subseteq DOMAIN acl
  /\ \A p \in Principals : IsSeq(registry[p]) /\ IsSeq(target[p])
  /\ phase # "idle" =>
       /\ IsSeq(todo) /\ \A pass \in Range(todo) : Walked(pass) \subseteq DOMAIN dump \cup raced
       /\ \A n \in live \ raced : GivenBack(n) = aclBefore[n]

LEMMA InitAcl == ASSUME AclInit PROVE AclInv
<1>1. live \subseteq DOMAIN acl
  BY FileAccessAssumption DEF AclInit
<1>2. \A p \in Principals : registry[p] = <<>> /\ target[p] = <<>>
  BY DEF AclInit
<1>3. phase = "idle"
  BY DEF AclInit
<1> QED
  BY <1>1, <1>2, <1>3, Singles DEF AclInv

LEMMA StartAcl == ASSUME AclInv, NEW t \in Targets, StartRun(t) PROVE AclInv'
<1>1. UNCHANGED <<live, acl, registry, raced>> /\ phase = "idle" /\ aclBefore' = acl
  BY DEF StartRun
<1>2. CASE phase' = "idle"
  <2>1. target' = target \/ target' = t
    BY DEF StartRun
  <2> QED
    BY <1>1, <1>2, <2>1, FileAccessAssumption DEF AclInv
<1>3. CASE phase' # "idle"
  <2>1. /\ target' = t /\ todo' = Plan(t)
        /\ dump' = [n \in UNION {(Subtree(Resolve(q)) \cap live) \ Links : q \in TouchedPaths(t)} |-> acl[n]]
    BY <1>1, <1>3 DEF StartRun
  <2>2. PassesOver(Plan(t), TouchedPaths(t))
    BY PlanTouches DEF AclInv
  <2>3. DOMAIN dump' = UNION {(Subtree(Resolve(q)) \cap live) \ Links : q \in TouchedPaths(t)} /\ \A n \in DOMAIN dump' : dump'[n] = acl[n]
    BY <2>1
  <2>4. ASSUME NEW pass \in Range(todo') PROVE Walked(pass)' \subseteq DOMAIN dump'
    <3>1. PICK q \in TouchedPaths(t) : pass.node = Resolve(q)
      BY <2>1, <2>2 DEF PassesOver
    <3>2. Walked(pass)' = (Subtree(Resolve(q)) \cap live) \ Links
      BY <1>1, <3>1 DEF Walked
    <3> QED
      BY <2>3, <3>2
  <2>5. \A n \in live \ raced : GivenBack(n)' = aclBefore'[n]
    BY <1>1, <2>3 DEF GivenBack
  <2>6. IsSeq(todo')
    BY <2>1, <2>2 DEF PassesOver
  <2> QED
    BY <1>1, <2>1, <2>4, <2>5, <2>6, FileAccessAssumption DEF AclInv
<1> QED
  BY <1>2, <1>3

\* A pass, whole or cut off, changes only what it walks over.
LEMMA PassAcl ==
  ASSUME AclInv, phase # "idle", NEW done, done \subseteq DOMAIN dump \cup raced, NEW new,
         acl' = [n \in DOMAIN acl |-> IF n \in done THEN new[n] ELSE acl[n]],
         UNCHANGED <<live, dump, aclBefore, raced>>
  PROVE  live' \subseteq DOMAIN acl' /\ \A n \in live' \ raced' : GivenBack(n)' = aclBefore'[n]
<1>1. DOMAIN acl' = DOMAIN acl /\ \A n \in live \ raced : n \in DOMAIN acl /\ GivenBack(n) = aclBefore[n]
  BY DEF AclInv
<1>2. \A n \in live \ raced : n \notin DOMAIN dump => acl'[n] = acl[n]
  BY <1>1
<1> QED
  BY <1>1, <1>2 DEF AclInv, GivenBack

LEMMA HeadWalks ==
  ASSUME AclInv, phase # "idle", todo # <<>>
  PROVE  Walked(Head(todo)) \subseteq DOMAIN dump \cup raced
<1>1. Head(todo) \in Range(todo)
  BY HeadOf DEF AclInv
<1> QED
  BY <1>1 DEF AclInv

LEMMA SetfaclAcl == ASSUME AclInv, Setfacl PROVE AclInv'
<1> DEFINE done == Walked(Head(todo))
           new == [n \in DOMAIN acl |-> OnNode(Head(todo), n, acl[n])]
<1>1. /\ phase = "run" /\ todo # <<>> /\ todo' = Tail(todo)
      /\ UNCHANGED <<live, registry, target, dump, phase, aclBefore, raced>>
      /\ acl' = [n \in DOMAIN acl |-> IF n \in done THEN new[n] ELSE acl[n]]
  BY DEF Setfacl
<1>2. done \subseteq DOMAIN dump \cup raced
  BY <1>1, HeadWalks
<1> HIDE DEF done, new
<1>3. live' \subseteq DOMAIN acl' /\ \A n \in live' \ raced' : GivenBack(n)' = aclBefore'[n]
  BY <1>1, <1>2, PassAcl
<1>4. IsSeq(todo') /\ Range(todo') \subseteq Range(todo)
  BY <1>1, TailOf DEF AclInv
<1>5. \A pass \in Range(todo') : Walked(pass)' \subseteq DOMAIN dump' \cup raced'
  BY <1>1, <1>4 DEF AclInv, Walked
<1> QED
  BY <1>1, <1>3, <1>4, <1>5 DEF AclInv

LEMMA FailsAcl == ASSUME AclInv, SetfaclFails PROVE AclInv'
<1>1. PICK done \in SUBSET Walked(Head(todo)) :
        acl' = [n \in DOMAIN acl |-> IF n \in done THEN OnNode(Head(todo), n, acl[n]) ELSE acl[n]]
  BY DEF SetfaclFails
<1> DEFINE new == [n \in DOMAIN acl |-> OnNode(Head(todo), n, acl[n])]
<1>2. /\ phase = "run" /\ todo # <<>> /\ todo' = <<>>
      /\ UNCHANGED <<live, registry, target, dump, aclBefore, raced>>
      /\ acl' = [n \in DOMAIN acl |-> IF n \in done THEN new[n] ELSE acl[n]]
  BY <1>1 DEF SetfaclFails
<1>3. done \subseteq DOMAIN dump \cup raced
  BY <1>2, HeadWalks
<1> HIDE DEF new
<1>4. live' \subseteq DOMAIN acl' /\ \A n \in live' \ raced' : GivenBack(n)' = aclBefore'[n]
  BY <1>2, <1>3, PassAcl
<1>5. IsSeq(todo') /\ Range(todo') = {}
  BY <1>2, Singles
<1> QED
  BY <1>2, <1>4, <1>5 DEF AclInv

LEMMA WriteAcl == ASSUME AclInv, NEW n \in DOMAIN acl, WriteFile(n) PROVE AclInv'
<1>1. /\ live' = live \cup {n} /\ DOMAIN acl' = DOMAIN acl /\ \A k \in DOMAIN acl \ {n} : acl'[k] = acl[k]
      /\ phase # "idle" => raced' = raced \cup {n}
      /\ UNCHANGED <<registry, target, todo, dump, phase, aclBefore>>
  BY DEF WriteFile
<1>2. live' \subseteq DOMAIN acl'
  BY <1>1 DEF AclInv
<1>3. ASSUME phase # "idle"
      PROVE  /\ \A pass \in Range(todo) : Walked(pass)' \subseteq DOMAIN dump \cup raced'
             /\ \A k \in live' \ raced' : GivenBack(k)' = aclBefore[k]
  <2>1. raced' = raced \cup {n}
    BY <1>1, <1>3
  <2>2. \A pass \in Range(todo) : Walked(pass)' \subseteq Walked(pass) \cup {n}
    BY <1>1 DEF Walked
  <2>3. \A k \in live' \ raced' : k \in live \ raced /\ GivenBack(k)' = GivenBack(k)
    BY <1>1, <2>1 DEF AclInv, GivenBack
  <2> QED
    BY <1>3, <2>1, <2>2, <2>3 DEF AclInv
<1> QED
  BY <1>1, <1>2, <1>3 DEF AclInv

LEMMA NextAcl == ASSUME AclInv, AclNext \/ UNCHANGED aclVars PROVE AclInv'
<1>1. CASE \E t \in Targets : StartRun(t)
  BY <1>1, StartAcl
<1>2. CASE Setfacl
  BY <1>2, SetfaclAcl
<1>3. CASE SetfaclFails
  BY <1>3, FailsAcl
<1>4. CASE RestoreAcls
  <2>1. UNCHANGED <<live, registry, target>> /\ phase' = "idle" /\ DOMAIN acl' = DOMAIN acl
    BY <1>4 DEF RestoreAcls
  <2> QED
    BY <2>1 DEF AclInv
<1>5. CASE LeftHalfChanged
  BY <1>5 DEF LeftHalfChanged, AclInv
<1>6. CASE Commit
  BY <1>6 DEF Commit, AclInv
<1>7. CASE \E n \in DOMAIN acl : WriteFile(n)
  BY <1>7, WriteAcl
<1>8. CASE UNCHANGED aclVars
  BY <1>8 DEF aclVars, AclInv, GivenBack, Walked
<1> QED
  BY <1>1, <1>2, <1>3, <1>4, <1>5, <1>6, <1>7, <1>8 DEF AclNext

LEMMA RestoredAcl == ASSUME AclInv, RestoreAcls PROVE \A n \in live \ raced : acl'[n] = aclBefore[n]
<1>1. phase = "rollback" /\ acl' = [n \in DOMAIN acl |-> GivenBack(n)]
  BY DEF RestoreAcls, GivenBack
<1> QED
  BY <1>1 DEF AclInv

\* For every tree, set of declarations and number of runs: whichever setfacl pass
\* fails, after any part of its walk, and whatever is written meanwhile, the restore
\* gives every node that was there when the run began the ACL it had then, defaults,
\* masks and the entries of others included (file_access_touched_paths registers
\* whatever a pass can reach).
THEOREM AccessIsRolledBack == FilesSpec => AccessRolledBack
<1>1. FilesInit => AclInv
  BY InitAcl DEF FilesInit
<1>2. AclInv /\ [FilesNext]_filesVars => AclInv'
  <2>1. ASSUME [FilesNext]_filesVars PROVE AclNext \/ UNCHANGED aclVars
    BY <2>1 DEF FilesNext, filesVars
  <2> QED
    BY <2>1, NextAcl
<1>3. AclInv => [RestoreAcls => \A n \in live \ raced : acl'[n] = aclBefore[n]]_aclVars
  BY RestoredAcl
<1> QED
  BY <1>1, <1>2, <1>3, PTL DEF FilesSpec, AccessRolledBack
=============================================================================
