----------------------------- MODULE ScanProofs -----------------------------
(***************************************************************************)
(* The coverage scan, for every device, every choice of classes, every     *)
(* tool, pipe and timeout: it calls its tools the way Capture expects, no  *)
(* failing tool shrinks the surface unseen, and no failing batch takes     *)
(* another one's owners with it.                                           *)
(*                                                                         *)
(* The invariant says of every class that is done with that it was read    *)
(* whole, was degraded or was not asked for (ClassesRead), of every owned  *)
(* path that it is still to be looked up or has been (OwnersInv), and of a *)
(* tool that has been asked what it may have answered (AskedInv), which is *)
(* where CaptureRefines comes in.                                          *)
(***************************************************************************)
EXTENDS SurfaceScan, TLAPS, FiniteSetTheorems, SequenceTheorems

-----------------------------------------------------------------------------
(***************************************************************************)
(* The tool runner, run_capture.                                           *)
(*                                                                         *)
(* For every set of tools, every capacity of the pipe and every timeout:   *)
(* run_capture keeps its types, leaves no process and no thread behind,    *)
(* and implements ToolCall.                                                *)
(*                                                                         *)
(* The inductive invariant ties the three actors together: nothing is lost *)
(* between child, pipe and thread (Conserved), a success was seen only of  *)
(* a child that printed everything (Honest), the thread saw the end only   *)
(* of a pipe nobody writes to (Drained), and the watchdog's position says  *)
(* what has become of the child (Placed).                                  *)
(***************************************************************************)

Conserved == wrote = buf + pipe /\ wrote <= request.tool.out

Honest ==
  /\ child = "ok" => request.tool.success = TRUE /\ wrote = request.tool.out
  /\ status = "ok" => request.tool.success = TRUE /\ wrote = request.tool.out
  /\ status # "none" => child = "reaped"

Drained == reader = "eof" => pipe = 0 /\ child \in {"ok", "err", "killed", "reaped"}

Placed ==
  /\ at \in {"idle", "spawn"} => child = "none" /\ reader = "none"
  /\ child # "none" => request.tool.state = "present"
  /\ at \in {"watch", "kill", "wait", "drain", "join"} => child # "none" /\ reader # "none"
  /\ at \in {"drain", "join"} => child = "reaped"
  /\ at = "join" => status # "none"
  /\ at = "done" => child \in {"none", "reaped"} /\ reader # "reading"
  /\ at \notin {"idle", "done"} => result = TC!Pending
  /\ at \in {"idle", "done"} => result # TC!Pending

CaptureInv == CaptureTypeOK /\ Conserved /\ Honest /\ Drained /\ Placed

-----------------------------------------------------------------------------
(* What the tools are.                                                     *)

LEMMA ToolFields ==
  ASSUME CaptureTypeOK
  PROVE  /\ request.tool.state \in {"absent", "broken", "present"}
         /\ request.tool.out \in Nat
         /\ request.tool.success \in BOOLEAN /\ request.tool.utf8 \in BOOLEAN
         /\ request.partial \in BOOLEAN
BY CaptureAssumption DEF CaptureTypeOK, Requests

-----------------------------------------------------------------------------
(* The actions.                                                            *)

LEMMA CaptureInitInv == CaptureInit => CaptureInv
<1> SUFFICES ASSUME CaptureInit PROVE CaptureInv
  OBVIOUS
<1>1. CaptureTypeOK
  BY CaptureAssumption DEF CaptureInit, CaptureTypeOK, TC!Nothing, TC!Answer
<1>2. Conserved /\ Honest /\ Drained /\ Placed
  BY <1>1, ToolFields DEF CaptureInit, Conserved, Honest, Drained, Placed, TC!Nothing, TC!Pending, TC!Answer
<1>. QED BY <1>1, <1>2 DEF CaptureInv

LEMMA CallInv == ASSUME CaptureInv, NEW q \in Requests, Call(q) PROVE CaptureInv'
<1>1. CaptureTypeOK'
  BY CaptureAssumption DEF CaptureInv, CaptureTypeOK, Call, TC!Pending, TC!Answer
<1>2. (request.tool.out)' \in Nat
  BY CaptureAssumption DEF Call, Requests
<1>3. (Conserved /\ Honest /\ Drained /\ Placed)'
  BY <1>2 DEF Call, Conserved, Honest, Drained, Placed
<1>. QED BY <1>1, <1>3 DEF CaptureInv

LEMMA SpawnInv == ASSUME CaptureInv, Spawn PROVE CaptureInv'
<1>1. CaptureTypeOK'
  BY DEF CaptureInv, CaptureTypeOK, Spawn, Finish, TC!Absent, TC!Degraded, TC!Answer
<1>2. (Conserved /\ Honest /\ Drained)'
  BY DEF CaptureInv, CaptureTypeOK, Spawn, Finish, Conserved, Honest, Drained, Placed
<1>3. Placed'
  BY DEF CaptureInv, CaptureTypeOK, Spawn, Finish, Placed, TC!Absent, TC!Degraded, TC!Pending, TC!Answer
<1>. QED BY <1>1, <1>2, <1>3 DEF CaptureInv

LEMMA ChildInv == ASSUME CaptureInv, ChildWrite \/ ChildExit \/ Die PROVE CaptureInv'
<1>0. /\ request.tool.out \in Nat /\ request.tool.success \in BOOLEAN
      /\ CaptureTypeOK /\ Conserved /\ Honest /\ Drained /\ Placed
  BY ToolFields DEF CaptureInv
<1>1. CASE ChildWrite
  <2>1. CaptureTypeOK' BY <1>0, <1>1, CaptureAssumption DEF ChildWrite, CaptureTypeOK
  <2>2. Conserved' BY <1>0, <1>1 DEF ChildWrite, CaptureTypeOK, Conserved
  <2>3. Honest' /\ Drained' BY <1>0, <1>1 DEF ChildWrite, Honest, Drained
  <2>4. Placed' BY <1>0, <1>1 DEF ChildWrite, Placed
  <2>. QED BY <2>1, <2>2, <2>3, <2>4 DEF CaptureInv
<1>2. CASE ChildExit
  <2>1. CaptureTypeOK' BY <1>0, <1>2 DEF ChildExit, CaptureTypeOK
  <2>2. Conserved' /\ Drained' BY <1>0, <1>2 DEF ChildExit, Conserved, Drained
  <2>3. Honest' BY <1>0, <1>2 DEF ChildExit, Honest
  <2>4. Placed' BY <1>0, <1>2 DEF ChildExit, Placed
  <2>. QED BY <2>1, <2>2, <2>3, <2>4 DEF CaptureInv
<1>3. CASE Die
  <2>1. CaptureTypeOK' BY <1>0, <1>3 DEF Die, CaptureTypeOK
  <2>2. Conserved' /\ Drained' /\ Honest' BY <1>0, <1>3 DEF Die, Conserved, Drained, Honest
  <2>3. Placed' BY <1>0, <1>3 DEF Die, Placed
  <2>. QED BY <2>1, <2>2, <2>3 DEF CaptureInv
<1>. QED BY <1>1, <1>2, <1>3

LEMMA ReaderInv == ASSUME CaptureInv, Reader PROVE CaptureInv'
<1>0. CaptureTypeOK /\ Conserved /\ Honest /\ Drained /\ Placed
  BY DEF CaptureInv
<1>1. CASE ReaderDrain
  <2>1. CaptureTypeOK' BY <1>0, <1>1, CaptureAssumption DEF ReaderDrain, CaptureTypeOK
  <2>2. Conserved' BY <1>0, <1>1, CaptureAssumption DEF ReaderDrain, CaptureTypeOK, Conserved
  <2>3. Honest' /\ Drained' /\ Placed' BY <1>0, <1>1 DEF ReaderDrain, Honest, Drained, Placed
  <2>. QED BY <2>1, <2>2, <2>3 DEF CaptureInv
<1>2. CASE ReaderEof
  BY <1>0, <1>2 DEF ReaderEof, CaptureInv, CaptureTypeOK, Conserved, Honest, Drained, Placed
<1>3. CASE ReaderFails
  BY <1>0, <1>3 DEF ReaderFails, CaptureInv, CaptureTypeOK, Conserved, Honest, Drained, Placed
<1>. QED BY <1>1, <1>2, <1>3 DEF Reader

LEMMA PollInv == ASSUME CaptureInv, Poll \/ PollFails PROVE CaptureInv'
<1>0. CaptureTypeOK /\ Conserved /\ Honest /\ Drained /\ Placed
  BY DEF CaptureInv
<1>1. CASE Poll
  <2>1. CaptureTypeOK' BY <1>0, <1>1, CaptureAssumption DEF Poll, CaptureTypeOK
  <2>2. Conserved' /\ Drained' BY <1>0, <1>1 DEF Poll, Conserved, Drained
  <2>3. Honest' BY <1>0, <1>1 DEF Poll, Honest
  <2>4. Placed' BY <1>0, <1>1 DEF Poll, Placed
  <2>. QED BY <2>1, <2>2, <2>3, <2>4 DEF CaptureInv
<1>2. CASE PollFails
  BY <1>0, <1>2 DEF PollFails, CaptureInv, CaptureTypeOK, Conserved, Honest, Drained, Placed
<1>. QED BY <1>1, <1>2

LEMMA KillWaitInv == ASSUME CaptureInv, Kill \/ Wait PROVE CaptureInv'
<1>0. CaptureTypeOK /\ Conserved /\ Honest /\ Drained /\ Placed
  BY DEF CaptureInv
<1>1. CASE Kill
  <2>1. CaptureTypeOK' /\ Conserved' BY <1>0, <1>1 DEF Kill, CaptureTypeOK, Conserved
  <2>2. Honest' /\ Drained' BY <1>0, <1>1 DEF Kill, Honest, Drained
  <2>3. Placed' BY <1>0, <1>1 DEF Kill, Placed
  <2>. QED BY <2>1, <2>2, <2>3 DEF CaptureInv
<1>2. CASE Wait
  <2>1. CaptureTypeOK' /\ Conserved' BY <1>0, <1>2 DEF Wait, CaptureTypeOK, Conserved
  <2>2. Honest' /\ Drained' BY <1>0, <1>2 DEF Wait, Honest, Drained
  <2>3. Placed' BY <1>0, <1>2 DEF Wait, Placed
  <2>. QED BY <2>1, <2>2, <2>3 DEF CaptureInv
<1>. QED BY <1>1, <1>2

\* The answer of a watchdog that has joined the thread is one ToolCall permits:
\* the thread saw the end of the pipe, so buf is all the child wrote.
LEMMA JoinAnswer ==
  ASSUME CaptureInv, Join
  PROVE  TC!Permitted(request, result') /\ result' # TC!Pending
<1>0. /\ request.tool.state = "present" /\ request.tool.out \in Nat
      /\ request.tool.utf8 \in BOOLEAN /\ request.partial \in BOOLEAN /\ request.tool.success \in BOOLEAN
      /\ buf \in Nat /\ pipe \in Nat
  BY ToolFields DEF CaptureInv, Placed, Join, CaptureTypeOK
<1>1. CASE Trusted
  <2>1. result' = TC!Ok(buf) BY <1>1 DEF Join, Finish
  <2>2. buf = wrote /\ buf <= request.tool.out
    BY <1>0, <1>1 DEF CaptureInv, Trusted, Drained, Conserved, CaptureTypeOK
  <2>3. /\ result'.kind = "ok" /\ result'.lines = buf /\ result' = TC!Ok(result'.lines)
    BY <2>1 DEF TC!Ok, TC!Answer
  <2>4. \/ request.tool.success /\ buf = request.tool.out
        \/ request.partial /\ buf \in 1..request.tool.out
    BY <1>0, <1>1, <2>2 DEF CaptureInv, Trusted, Honest
  <2>5. result' # TC!Pending BY <2>3 DEF TC!Pending, TC!Answer
  <2>. QED BY <1>0, <1>1, <2>3, <2>4, <2>5 DEF TC!Permitted, Trusted
<1>2. CASE ~Trusted
  <2>1. result' = TC!Degraded BY <1>2 DEF Join, Finish
  <2>. QED BY <1>0, <2>1 DEF TC!Permitted, TC!Degraded, TC!Pending, TC!Answer
<1>. QED BY <1>1, <1>2

LEMMA JoinInv == ASSUME CaptureInv, Join \/ JoinKilled PROVE CaptureInv'
<1>0. CaptureTypeOK /\ Conserved /\ Honest /\ Drained /\ Placed
  BY DEF CaptureInv
<1>1. CASE Join
  <2>1. result' \in [kind : {"none", "pending", "absent", "degraded", "ok"}, lines : Nat]
    BY <1>0, <1>1 DEF Join, Finish, CaptureTypeOK, TC!Ok, TC!Degraded, TC!Answer
  <2>2. CaptureTypeOK' BY <1>0, <1>1, <2>1 DEF Join, Finish, CaptureTypeOK
  <2>3. Conserved' /\ Honest' /\ Drained' BY <1>0, <1>1 DEF Join, Conserved, Honest, Drained
  <2>4. result' # TC!Pending BY <1>1, JoinAnswer
  <2>5. Placed' BY <1>0, <1>1, <2>4 DEF Join, Finish, Placed, TC!Pending, TC!Answer
  <2>. QED BY <2>2, <2>3, <2>5 DEF CaptureInv
<1>2. CASE JoinKilled
  <2>1. CaptureTypeOK' BY <1>0, <1>2 DEF JoinKilled, Finish, CaptureTypeOK, TC!Degraded, TC!Answer
  <2>2. Conserved' /\ Honest' /\ Drained' BY <1>0, <1>2 DEF JoinKilled, Conserved, Honest, Drained
  <2>3. Placed' BY <1>0, <1>2 DEF JoinKilled, Finish, Placed, TC!Degraded, TC!Pending, TC!Answer
  <2>. QED BY <2>1, <2>2, <2>3 DEF CaptureInv
<1>. QED BY <1>1, <1>2

LEMMA CaptureNextInv == CaptureInv /\ [CaptureNext]_capVars => CaptureInv'
<1> SUFFICES ASSUME CaptureInv, [CaptureNext]_capVars PROVE CaptureInv'
  OBVIOUS
<1>1. CASE CaptureStep
  BY <1>1, SpawnInv, PollInv, KillWaitInv, JoinInv, ReaderInv, ChildInv DEF CaptureStep, Watchdog
<1>2. CASE \E q \in Requests : Call(q)
  BY <1>2, CallInv
<1>3. CASE UNCHANGED capVars
  BY <1>3 DEF capVars, CaptureInv, CaptureTypeOK, Conserved, Honest, Drained, Placed, TC!Pending, TC!Answer
<1>. QED BY <1>1, <1>2, <1>3 DEF CaptureNext

-----------------------------------------------------------------------------
(* The theorems.                                                           *)

LEMMA CaptureInvariant == CaptureSpec => []CaptureInv
BY CaptureInitInv, CaptureNextInv, PTL DEF CaptureSpec

\* run_capture's counters and states keep their types: the pipe never holds more
\* than its capacity and the watchdog never polls beyond the timeout.
THEOREM CaptureTypes == CaptureSpec => []CaptureTypeOK
<1>1. CaptureInv => CaptureTypeOK BY DEF CaptureInv
<1>. QED BY <1>1, CaptureInvariant, PTL

\* No return of run_capture leaves a child unreaped or its thread reading.
THEOREM CaptureLeavesNothing == CaptureSpec => []CleanReturn
<1>1. CaptureInv => CleanReturn BY DEF CaptureInv, Placed, CleanReturn
<1>. QED BY <1>1, CaptureInvariant, PTL

\* Every step of run_capture asks, returns a permitted answer, or is invisible.
LEMMA CaptureStepRefines ==
  ASSUME CaptureInv, [CaptureNext]_capVars
  PROVE  [TC!Next]_<<request, result>>
<1>1. CASE \E q \in Requests : Call(q)
  <2>1. result # TC!Pending /\ result' = TC!Pending
    BY <1>1 DEF Call, CaptureInv, Placed
  <2>. QED BY <2>1 DEF TC!Next, TC!Ask
<1>2. CASE Spawn
  <2>1. result = TC!Pending BY <1>2 DEF Spawn, CaptureInv, Placed
  <2>2. request' = request BY <1>2 DEF Spawn
  <2>3. CASE request.tool.state = "absent"
    <3>1. result' = TC!Absent BY <1>2, <2>3 DEF Spawn, Finish
    <3>. QED BY <2>1, <2>2, <2>3, <3>1 DEF TC!Next, TC!Return, TC!Permitted
  <2>4. CASE request.tool.state = "broken"
    <3>1. result' = TC!Degraded BY <1>2, <2>4 DEF Spawn, Finish
    <3>. QED BY <2>1, <2>2, <2>4, <3>1 DEF TC!Next, TC!Return, TC!Permitted
  <2>5. CASE request.tool.state = "present"
    BY <1>2, <2>5 DEF Spawn
  <2>. QED BY <1>2, <2>3, <2>4, <2>5 DEF Spawn
<1>3. CASE Join
  <2>1. result = TC!Pending /\ request' = request BY <1>3 DEF Join, CaptureInv, Placed
  <2>. QED BY <1>3, <2>1, JoinAnswer DEF TC!Next, TC!Return
<1>4. CASE JoinKilled
  <2>1. result = TC!Pending /\ request' = request /\ result' = TC!Degraded
    BY <1>4 DEF JoinKilled, Finish, CaptureInv, Placed
  <2>2. request.tool.state = "present"
    BY <1>4 DEF JoinKilled, CaptureInv, Placed
  <2>. QED BY <2>1, <2>2 DEF TC!Next, TC!Return, TC!Permitted
<1>5. CASE Poll \/ PollFails \/ Kill \/ Wait \/ Reader \/ ChildWrite \/ ChildExit \/ Die
  <2>1. request' = request /\ result' = result
    BY <1>5 DEF Poll, PollFails, Kill, Wait, Reader, ReaderDrain, ReaderEof, ReaderFails, ChildWrite, ChildExit, Die
  <2>. QED BY <2>1
<1>6. CASE UNCHANGED capVars
  BY <1>6 DEF capVars
<1>. QED BY <1>1, <1>2, <1>3, <1>4, <1>5, <1>6 DEF CaptureNext, CaptureStep, Watchdog

\* run_capture implements ToolCall whatever the child, the pipe and the thread
\* do: a listing is handed over as complete only when it is.
THEOREM CaptureRefines == CaptureSpec => CaptureImplements
<1>1. CaptureInit => TC!Init
  BY DEF CaptureInit, TC!Init
<1>2. CaptureInv /\ [CaptureNext]_capVars => [TC!Next]_<<request, result>>
  BY CaptureStepRefines
<1>. QED BY <1>1, <1>2, CaptureInvariant, PTL DEF CaptureSpec, CaptureImplements, TC!Spec

-----------------------------------------------------------------------------
(***************************************************************************)
(* The scan.                                                               *)
(***************************************************************************)

(* The inductive invariant.                                                *)

ReadableDirs == {d \in DOMAIN host.bins : host.bins[d].readable}

\* What has been found of a class so far, and which classes are done with.
Keys(c) == {o.key : o \in {p \in objects : p.class = c}}
Scanned ==
  CASE step = "SudoBin" -> {}
    [] step = "Config" -> {"SudoBin"}
    [] step = "Unit" -> {"SudoBin", "Config"}
    [] step = "Group" -> {"SudoBin", "Config", "Unit"}
    [] step = "CapFile" -> {"SudoBin", "Config", "Unit", "Group"}
    [] OTHER -> GrantClasses

ScanTypes ==
  /\ host \in Hosts
  /\ step \in AllClasses \cup {"Provenance", "Report", "End"}
  /\ exit \in {"none", "failure", "success", "gate"}
  /\ exit = "none" <=> step # "End"
  /\ asked \in BOOLEAN /\ lookup \in BOOLEAN
  /\ stack \in Seq(DOMAIN host.tree)

\* An object is its class and its key: the owner follows from the key.
ProvOf(k) == IF k \in known THEN host.owner[k] ELSE "orphan"
ObjectsKnown ==
  /\ IsFiniteSet(objects) /\ IsFiniteSet(paths)
  /\ \A o \in objects : o = Object(o.class, o.key, o.prov) /\ o.class \in AllClasses
  /\ \A o \in objects : o.prov = IF step \in {"Report", "End"} THEN ProvOf(o.key) ELSE "orphan"
  /\ step \in AllClasses => known = {}

\* A class that is done with, was asked for and is not degraded was read whole.
ClassesRead ==
  exit # "failure" =>
    \A c \in GrantClasses :
      IF c \in Scanned \cap classes THEN c \notin degraded => Keys(c) = Holds(ReadableDirs)[c]
      ELSE Keys(c) = {}

\* Every owned path is still to be looked up, or has been.
OwnersInv ==
  /\ step \in AllClasses => ~lookup
  /\ step \in {"Report", "End"} /\ exit # "failure" => lookup = TRUE /\ paths = {}
  /\ lookup = TRUE => \A o \in objects : o.key.abs /\ o.key \in DOMAIN host.owner => o.key \in paths \cup known \cup silent

\* A tool that has been asked was asked the question of this step, and what it has
\* answered is one of the answers ToolCall permits.
AskedInv ==
  asked = TRUE =>
    /\ step \in DOMAIN ToolOf
    /\ result = TC!Pending \/ TC!Permitted(request, result)
    /\ step # "Provenance" =>
         /\ step \in classes /\ (step = "CapFile" => host.capdirs)
         /\ request = [tool |-> host.tools[ToolOf[step]], partial |-> FALSE]

\* What a passing gate was decided on.
GateInv ==
  exit = "success" /\ MinCoverage # NoMinimum =>
    degraded = {} /\ ~WeightedBelow(ReportOn(objects, Granted, FALSE), MinCoverage)

ScanInv ==
  /\ CaptureInv /\ ScanTypes /\ ObjectsKnown /\ ClassesRead /\ OwnersInv /\ AskedInv /\ GateInv

-----------------------------------------------------------------------------
(* Finite sets and the sequences made of them.                             *)

LEMMA ImageFinite ==
  ASSUME NEW S, IsFiniteSet(S), NEW f
  PROVE  IsFiniteSet({f[x] : x \in S})
<1>. DEFINE g == [x \in S |-> f[x]]
<1>1. g \in Surjection(S, {f[x] : x \in S}) BY DEF Surjection
<1>. QED BY <1>1, FS_Surjection

LEMMA SetToSeqOf ==
  ASSUME NEW S, IsFiniteSet(S)
  PROVE  /\ SetToSeq(S) \in Seq(S) /\ Len(SetToSeq(S)) = Cardinality(S)
         /\ \A x \in S : \E i \in 1..Len(SetToSeq(S)) : SetToSeq(S)[i] = x
<1>. DEFINE n == Cardinality(S)
<1>1. n \in Nat /\ ExistsBijection(1..n, S) BY FS_CardinalityType
<1>2. \E f \in [1..n -> S] : IsInjective(f) BY <1>1 DEF ExistsBijection, Bijection, Injection
<1>3. SetToSeq(S) \in [1..n -> S] /\ IsInjective(SetToSeq(S)) BY <1>2 DEF SetToSeq
<1>4. SetToSeq(S) \in Injection(1..n, S) BY <1>3 DEF Injection
<1>5. Cardinality(1..n) = n BY <1>1, FS_Interval
<1>6. SetToSeq(S) \in Surjection(1..n, S) BY <1>1, <1>4, <1>5, FS_Injection
<1>7. SetToSeq(S) \in Seq(S) /\ Len(SetToSeq(S)) = n BY <1>1, <1>3
<1>. QED BY <1>6, <1>7 DEF Surjection

LEMMA SubsetOfSize ==
  ASSUME NEW S, IsFiniteSet(S), NEW k \in 0..Cardinality(S)
  PROVE  \E b \in SUBSET S : Cardinality(b) = k
<1>. DEFINE n == Cardinality(S)
<1>1. n \in Nat /\ ExistsBijection(1..n, S) BY FS_CardinalityType
<1>2. PICK f \in Bijection(1..n, S) : TRUE BY <1>1 DEF ExistsBijection
<1>. DEFINE b == {f[i] : i \in 1..k}
            g == [i \in 1..k |-> f[i]]
<1>3. f \in [1..n -> S] /\ \A i, j \in 1..n : f[i] = f[j] => i = j
  BY <1>2 DEF Bijection, Injection, IsInjective
<1>4. 1..k \subseteq 1..n /\ k \in Nat BY <1>1
<1>5. b \in SUBSET S BY <1>3, <1>4
<1>6. g \in Bijection(1..k, b) BY <1>3, <1>4 DEF Bijection, Injection, Surjection, IsInjective
<1>7. Cardinality(b) = k BY <1>4, <1>6, FS_CountingElements DEF ExistsBijection
<1>. QED BY <1>5, <1>7

LEMMA BatchFacts ==
  ASSUME IsFiniteSet(paths)
  PROVE  Batch \in SUBSET paths /\ IsFiniteSet(Batch) /\ Cardinality(Batch) \in 0..Chunk
<1>. DEFINE k == IF Cardinality(paths) < Chunk THEN Cardinality(paths) ELSE Chunk
<1>1. Cardinality(paths) \in Nat BY FS_CardinalityType
<1>2. k \in 0..Cardinality(paths) /\ k \in 0..Chunk BY <1>1, ScanAssumption
<1>. HIDE DEF k
<1>3. \E b \in SUBSET paths : Cardinality(b) = k BY <1>2, SubsetOfSize
<1>4. Batch \in SUBSET paths /\ Cardinality(Batch) = k BY <1>3 DEF Batch, k
<1>. QED BY <1>2, <1>4, FS_Subset

LEMMA OwnedFacts ==
  ASSUME IsFiniteSet(paths)
  PROVE  /\ Len(Owned) \in 0..Chunk
         /\ \A x \in Batch \cap DOMAIN host.owner : \E i \in 1..Len(Owned) : Owned[i] = x
<1>. DEFINE S == Batch \cap DOMAIN host.owner
<1>1. IsFiniteSet(S) /\ Cardinality(S) <= Cardinality(Batch) BY BatchFacts, FS_Intersection
<1>2. Cardinality(S) \in Nat BY <1>1, FS_CardinalityType
<1>3. Cardinality(S) \in 0..Chunk BY <1>1, <1>2, BatchFacts, ScanAssumption
<1>4. Owned = SetToSeq(S) BY DEF Owned
<1>. HIDE DEF S
<1>5. /\ Len(Owned) \in 0..Chunk
      /\ \A x \in S : \E i \in 1..Len(Owned) : Owned[i] = x
  BY <1>1, <1>3, <1>4, SetToSeqOf
<1>. QED BY <1>5 DEF S

-----------------------------------------------------------------------------
(* The scan as a caller of run_capture.                                    *)

LEMMA HostTools ==
  ASSUME host \in Hosts
  PROVE  /\ \A s \in DOMAIN ToolOf : host.tools[ToolOf[s]] \in Tools
         /\ host.tools["dpkg"] \in Tools
         /\ \A n \in 0..Chunk, s \in BOOLEAN : [host.tools["dpkg"] EXCEPT !.out = n, !.success = s] \in Tools
BY ScanAssumption DEF HostOK, ToolOf, ListTools

\* Whatever the scan asks is a request run_capture may get.
LEMMA ScanCalls ==
  ASSUME host \in Hosts, IsFiniteSet(paths), [Next]_allVars
  PROVE  [CaptureNext]_capVars
<1>1. CASE AskTool
  <2>1. step \in DOMAIN ToolOf BY <1>1 DEF AskTool, ToolOf
  <2>2. [tool |-> host.tools[ToolOf[step]], partial |-> FALSE] \in Requests
    BY <2>1, HostTools DEF Requests
  <2>. QED BY <1>1, <2>2 DEF AskTool, CaptureNext
<1>2. CASE AskOwners
  <2>. DEFINE n == Len(Owned)  s == (Len(Owned) = Cardinality(Batch))
              tool == [host.tools["dpkg"] EXCEPT !.out = n, !.success = s]
  <2>1. n \in 0..Chunk /\ s \in BOOLEAN BY OwnedFacts
  <2>2. tool \in Tools BY <2>1, HostTools
  <2>3. [tool |-> tool, partial |-> TRUE] \in Requests BY <2>2 DEF Requests
  <2>4. Call([tool |-> tool, partial |-> TRUE]) BY <1>2 DEF AskOwners
  <2>. QED BY <2>3, <2>4 DEF CaptureNext
<1>3. CASE Running BY <1>3 DEF Running, CaptureNext
<1>4. CASE \/ Skip \/ ScanSudoBins \/ TakeTool \/ NoCapDirs \/ ScanGroups \/ WalkDir \/ WalkEnds
           \/ StartOwners \/ TakeOwners \/ OwnersRead \/ Report \/ UNCHANGED allVars
  <2>1. UNCHANGED capVars
    BY <1>4 DEF Skip, ScanSudoBins, TakeTool, NoCapDirs, ScanGroups, WalkDir, WalkEnds, StartOwners,
                TakeOwners, OwnersRead, Report, allVars
  <2>. QED BY <2>1
<1>. QED BY <1>1, <1>2, <1>3, <1>4 DEF Next, Scan

LEMMA ScanCapture == ASSUME ScanInv, [Next]_allVars PROVE CaptureInv'
<1>1. CaptureInv /\ host \in Hosts /\ IsFiniteSet(paths) BY DEF ScanInv, ScanTypes, ObjectsKnown
<1>2. [CaptureNext]_capVars BY <1>1, ScanCalls
<1>. QED BY <1>1, <1>2, CaptureNextInv

\* While run_capture works the question stays, and its answer is permitted.
LEMMA RunningAnswer ==
  ASSUME CaptureInv, CaptureStep
  PROVE  /\ request' = request
         /\ result' = result \/ result' = TC!Pending \/ TC!Permitted(request, result')
<1>1. request' = request
  BY DEF CaptureStep, Watchdog, Spawn, Poll, PollFails, Kill, Wait, JoinKilled, Join, Reader, ReaderDrain,
         ReaderEof, ReaderFails, ChildWrite, ChildExit, Die
<1>2. [TC!Next]_<<request, result>> BY CaptureStepRefines DEF CaptureNext
<1>. QED BY <1>1, <1>2 DEF TC!Next, TC!Ask, TC!Return

\* What a whole listing looks like to the caller.
LEMMA Answered ==
  ASSUME ScanInv, asked, at = "done", step \in {"Config", "Unit", "CapFile"}
  PROVE  \/ result.kind = "absent" /\ host.tools[ToolOf[step]].state = "absent"
         \/ result.kind = "degraded"
         \/ /\ result.kind = "ok" /\ host.tools[ToolOf[step]].state # "absent"
            /\ result.lines = Len(host.lists[ToolOf[step]])
<1>1. /\ request = [tool |-> host.tools[ToolOf[step]], partial |-> FALSE]
      /\ result = TC!Pending \/ TC!Permitted(request, result)
  BY DEF ScanInv, ScanTypes, AskedInv
<1>2. result # TC!Pending BY DEF ScanInv, CaptureInv, Placed
<1>3. request.tool = host.tools[ToolOf[step]] /\ request.partial = FALSE BY <1>1
<1>4. host.tools[ToolOf[step]].out = Len(host.lists[ToolOf[step]])
  BY ScanAssumption DEF ScanInv, ScanTypes, HostOK, ListTools, ToolOf
<1>. QED BY <1>1, <1>2, <1>3, <1>4 DEF TC!Permitted, TC!Absent, TC!Degraded, TC!Ok, TC!Answer

-----------------------------------------------------------------------------
(* The classes.                                                            *)

LEMMA HoldsKept ==
  ASSUME host' = host, NEW c \in GrantClasses
  PROVE  (Holds(ReadableDirs)[c])' = Holds(ReadableDirs)[c]
BY DEF Holds, ReadableDirs, AdminBins, Listing, Parse, GrantClasses

LEMMA HoldsAt ==
  ASSUME NEW dirs
  PROVE  /\ Holds(dirs)["SudoBin"] = AdminBins(dirs)
         /\ Holds(dirs)["Config"] = Listing("dpkg-query") \cup host.dropins
         /\ Holds(dirs)["Unit"] = Listing("systemctl")
         /\ Holds(dirs)["Group"] = Parse(host.groups.lines, Len(host.groups.lines))
         /\ Holds(dirs)["CapFile"] = IF host.capdirs THEN Listing("getcap") ELSE {}
BY DEF Holds, GrantClasses

LEMMA ParseFinite == ASSUME NEW lines, NEW n \in Nat PROVE IsFiniteSet(Parse(lines, n))
<1>. DEFINE S == {j \in 1..n : lines[j].good}
            f == [i \in S |-> lines[i].key]
<1>1. IsFiniteSet(1..n) BY FS_Interval
<1>0. IsFiniteSet(S) BY <1>1, FS_Subset
<1>2. IsFiniteSet({f[x] : x \in S}) BY <1>0, ImageFinite
<1>3. Parse(lines, n) = {f[x] : x \in S} BY DEF Parse
<1>. QED BY <1>2, <1>3

LEMMA FoundFinite == ASSUME NEW c, NEW K, IsFiniteSet(K) PROVE IsFiniteSet(Found(c, K))
<1>. DEFINE f == [k \in K |-> Object(c, k, "orphan")]
<1>1. IsFiniteSet({f[x] : x \in K}) BY ImageFinite
<1>2. Found(c, K) = {f[x] : x \in K} BY DEF Found
<1>. QED BY <1>1, <1>2

LEMMA BinsFinite ==
  ASSUME host \in Hosts
  PROVE  IsFiniteSet(AdminBins(ReadableDirs))
<1>. DEFINE key(e) == IF e.resolves THEN e.real ELSE e.path
            of == [d \in ReadableDirs |-> {key(e) : e \in host.bins[d].entries}]
<1>1. IsFiniteSet(ReadableDirs)
  BY ScanAssumption, FS_Subset DEF HostOK, ReadableDirs
<1>2. ASSUME NEW d \in ReadableDirs PROVE IsFiniteSet(of[d])
  <2>1. IsFiniteSet(host.bins[d].entries) BY ScanAssumption DEF HostOK, ReadableDirs
  <2>. DEFINE f == [e \in host.bins[d].entries |-> key(e)]
  <2>2. IsFiniteSet({f[e] : e \in host.bins[d].entries}) BY <2>1, ImageFinite
  <2>3. of[d] = {f[e] : e \in host.bins[d].entries} OBVIOUS
  <2>. QED BY <2>2, <2>3
<1>3. IsFiniteSet({of[d] : d \in ReadableDirs}) BY <1>1, ImageFinite
<1>4. AdminBins(ReadableDirs) = UNION {of[d] : d \in ReadableDirs} BY DEF AdminBins
<1>. HIDE DEF of
<1>5. \A T \in {of[d] : d \in ReadableDirs} : IsFiniteSet(T) BY <1>2
<1>. QED BY <1>3, <1>4, <1>5, FS_UNION

\* How the steps of the classes follow one another.
LEMMA Order ==
  ASSUME step \in AllClasses
  PROVE  /\ After[step] \in AllClasses \cup {"Provenance"} /\ After[step] # "End"
         /\ step' = After[step] => Scanned' = Scanned \cup ({step} \cap GrantClasses)
         /\ step \notin Scanned \/ step = "Setuid"
         /\ Scanned \subseteq GrantClasses
BY DEF After, AllClasses, GrantClasses, Scanned

\* A step that found the objects of K, all of one class, or that gave up.
LEMMA ClassStep ==
  ASSUME ScanInv, step \in AllClasses, NEW c \in AllClasses, NEW K, IsFiniteSet(K),
         objects' = objects \cup Found(c, K), UNCHANGED <<host, lookup, paths, known, silent>>,
         \/ step' = step /\ exit' = exit
         \/ step' = After[step] /\ exit' = exit
         \/ step' = "End" /\ exit' = "failure",
         asked' \in BOOLEAN, stack' \in Seq(DOMAIN host.tree)
  PROVE  ScanTypes' /\ ObjectsKnown' /\ OwnersInv' /\ GateInv'
<1>1. /\ ScanTypes /\ ObjectsKnown /\ OwnersInv /\ GateInv /\ exit = "none" /\ known = {} /\ lookup = FALSE
  BY DEF ScanInv, ScanTypes, ObjectsKnown, OwnersInv, AllClasses, GrantClasses
<1>2. step' \in AllClasses \cup {"Provenance", "End"} /\ (exit' = "none" <=> step' # "End")
      /\ exit' \in {"none", "failure"}
  BY <1>1, Order DEF AllClasses, GrantClasses
<1>3. ScanTypes' BY <1>1, <1>2 DEF ScanTypes
<1>4. ObjectsKnown'
  <2>1. IsFiniteSet(objects') /\ IsFiniteSet(paths')
    BY <1>1, FoundFinite, FS_Union DEF ObjectsKnown
  <2>2. ASSUME NEW o \in objects'
        PROVE  o = Object(o.class, o.key, o.prov) /\ o.class \in AllClasses /\ o.prov = "orphan"
    <3>1. CASE o \in objects
      BY <1>1, <3>1 DEF ObjectsKnown, AllClasses, GrantClasses
    <3>2. CASE o \in Found(c, K)
      <4>1. PICK k \in K : o = Object(c, k, "orphan") BY <3>2 DEF Found
      <4>. QED BY <4>1 DEF Object
    <3>. QED BY <3>1, <3>2
  <2>3. \A k : ProvOf(k)' = "orphan" BY <1>1 DEF ProvOf
  <2>. QED BY <1>1, <2>1, <2>2, <2>3 DEF ObjectsKnown
<1>5. OwnersInv' BY <1>1, <1>2 DEF OwnersInv, AllClasses, GrantClasses
<1>6. GateInv' BY <1>2 DEF GateInv
<1>. QED BY <1>3, <1>4, <1>5, <1>6

LEMMA KeysGrow ==
  ASSUME NEW c, NEW K, objects' = objects \cup Found(c, K)
  PROVE  /\ Keys(c)' = Keys(c) \cup K
         /\ \A d : d # c => Keys(d)' = Keys(d)
<1>1. \A o \in Found(c, K) : o.class = c /\ o.key \in K BY DEF Found, Object
<1>2. ASSUME NEW k \in K PROVE \E o \in Found(c, K) : o.class = c /\ o.key = k
  <2>1. Object(c, k, "orphan") \in Found(c, K) BY DEF Found
  <2>. QED BY <2>1 DEF Object
<1>3. Keys(c)' = Keys(c) \cup K BY <1>1, <1>2 DEF Keys
<1>4. \A d : d # c => Keys(d)' = Keys(d) BY <1>1 DEF Keys
<1>. QED BY <1>3, <1>4

\* The step of a class is over: it was read whole, degraded or not asked for.
LEMMA ClassDone ==
  ASSUME ScanInv, step \in AllClasses, step' = After[step], UNCHANGED <<host, classes, exit>>,
         degraded \subseteq degraded', degraded' \subseteq degraded \cup {step},
         NEW K, objects' = objects \cup Found(step, K),
         step \in GrantClasses /\ step \in classes /\ step \notin degraded' => K = Holds(ReadableDirs)[step],
         step \notin classes => K = {}
  PROVE  ClassesRead'
<1>1. exit = "none" /\ ClassesRead BY DEF ScanInv, ScanTypes, AllClasses, GrantClasses
<1>2. /\ Scanned' = Scanned \cup ({step} \cap GrantClasses)
      /\ (step \notin Scanned \/ step = "Setuid") /\ Scanned \subseteq GrantClasses
  BY Order
<1>3. SUFFICES ASSUME NEW c \in GrantClasses
               PROVE  IF c \in Scanned' \cap classes THEN c \notin degraded' => Keys(c)' = (Holds(ReadableDirs)[c])'
                      ELSE Keys(c)' = {}
  BY DEF ClassesRead
<1>4. (Holds(ReadableDirs)[c])' = Holds(ReadableDirs)[c] BY HoldsKept
<1>5. IF c \in Scanned \cap classes THEN c \notin degraded => Keys(c) = Holds(ReadableDirs)[c] ELSE Keys(c) = {}
  BY <1>1 DEF ClassesRead
<1>6. CASE c = step
  <2>1. c \notin Scanned BY <1>2, <1>6 DEF GrantClasses
  <2>2. Keys(c)' = K BY <1>5, <1>6, <2>1, KeysGrow
  <2>. QED BY <1>2, <1>4, <1>6, <2>2
<1>7. CASE c # step
  <2>1. Keys(c)' = Keys(c) BY <1>7, KeysGrow
  <2>. QED BY <1>2, <1>4, <1>5, <1>7, <2>1
<1>. QED BY <1>6, <1>7

-----------------------------------------------------------------------------
(* The steps of the classes.                                               *)

\* Everything but run_capture's own part.
ScanPart == ScanTypes /\ ObjectsKnown /\ ClassesRead /\ OwnersInv /\ AskedInv /\ GateInv

LEMMA NotAsked == ASSUME asked' = FALSE PROVE AskedInv'
BY DEF AskedInv

LEMMA NothingFound == ASSUME NEW c PROVE IsFiniteSet({}) /\ Found(c, {}) = {}
BY FS_EmptySet DEF Found

LEMMA SkipPart == ASSUME ScanInv, Skip PROVE ScanPart'
<1>1. /\ step \in AllClasses /\ step \notin classes /\ step' = After[step] /\ objects' = objects \cup Found(step, {})
      /\ UNCHANGED <<host, classes, asked, degraded, stack, lookup, paths, known, silent, exit>>
  BY NothingFound DEF Skip, Go
<1>2. asked = FALSE BY <1>1 DEF ScanInv, ScanTypes, AskedInv, ToolOf, AllClasses, GrantClasses
<1>3. stack' \in Seq(DOMAIN host.tree) BY <1>1 DEF ScanInv, ScanTypes
<1>4. ScanTypes' /\ ObjectsKnown' /\ OwnersInv' /\ GateInv' BY <1>1, <1>2, <1>3, NothingFound, ClassStep
<1>5. ClassesRead' BY <1>1, ClassDone
<1>6. AskedInv' BY <1>1, <1>2, NotAsked
<1>. QED BY <1>4, <1>5, <1>6 DEF ScanPart

\* A class that could not be read at all ends the scan.
LEMMA AbortPart ==
  ASSUME ScanInv, step \in {"SudoBin", "Group"}, Abort, UNCHANGED <<host, asked, stack, lookup, paths, known, silent, objects>>
  PROVE  ScanPart'
<1>1. /\ step \in AllClasses /\ step' = "End" /\ exit' = "failure" /\ objects' = objects \cup Found(step, {})
  BY NothingFound DEF Abort, AllClasses, GrantClasses
<1>2. asked = FALSE BY DEF ScanInv, ScanTypes, AskedInv, ToolOf
<1>3. stack' \in Seq(DOMAIN host.tree) BY DEF ScanInv, ScanTypes
<1>4. ScanTypes' /\ ObjectsKnown' /\ OwnersInv' /\ GateInv' BY <1>1, <1>2, <1>3, NothingFound, ClassStep
<1>5. ClassesRead' BY <1>1 DEF ClassesRead
<1>6. AskedInv' BY <1>2, NotAsked
<1>. QED BY <1>4, <1>5, <1>6 DEF ScanPart

\* A class whose keys were read here and now.
LEMMA ReadPart ==
  ASSUME ScanInv, step \in GrantClasses, step \in classes, step' = After[step], NEW K, IsFiniteSet(K),
         objects' = objects \cup Found(step, K), K = Holds(ReadableDirs)[step], asked' = FALSE,
         UNCHANGED <<host, classes, degraded, stack, lookup, paths, known, silent, exit>>
  PROVE  ScanPart'
<1>1. step \in AllClasses BY DEF AllClasses
<1>2. stack' \in Seq(DOMAIN host.tree) BY DEF ScanInv, ScanTypes
<1>3. ScanTypes' /\ ObjectsKnown' /\ OwnersInv' /\ GateInv' BY <1>1, <1>2, ClassStep
<1>4. ClassesRead' BY <1>1, ClassDone
<1>. QED BY <1>3, <1>4, NotAsked DEF ScanPart

LEMMA ScanSudoBinsPart == ASSUME ScanInv, ScanSudoBins PROVE ScanPart'
<1>1. /\ step = "SudoBin" /\ step \in classes /\ step \in GrantClasses
      /\ UNCHANGED <<host, classes, asked, degraded, stack, lookup, paths, known, silent>>
  BY DEF ScanSudoBins, GrantClasses
<1>2. asked = FALSE BY <1>1 DEF ScanInv, ScanTypes, AskedInv, ToolOf
<1>3. CASE ReadableDirs = {}
  <2>1. Abort /\ objects' = objects BY <1>3 DEF ScanSudoBins, ReadableDirs
  <2>. QED BY <1>1, <2>1, AbortPart
<1>4. CASE ReadableDirs # {}
  <2>. DEFINE K == AdminBins(ReadableDirs)
  <2>1. step' = After[step] /\ exit' = exit /\ objects' = objects \cup Found(step, K)
    BY <1>1, <1>4 DEF ScanSudoBins, ReadableDirs, AdminBins, Go
  <2>2. IsFiniteSet(K) BY BinsFinite DEF ScanInv, ScanTypes
  <2>3. K = Holds(ReadableDirs)[step] BY <1>1, HoldsAt
  <2>. HIDE DEF K
  <2>. QED BY <1>1, <1>2, <2>1, <2>2, <2>3, ReadPart
<1>. QED BY <1>3, <1>4

LEMMA ScanGroupsPart == ASSUME ScanInv, ScanGroups PROVE ScanPart'
<1>1. /\ step = "Group" /\ step \in classes /\ step \in GrantClasses
      /\ UNCHANGED <<host, classes, asked, degraded, stack, lookup, paths, known, silent>>
  BY DEF ScanGroups, GrantClasses
<1>2. asked = FALSE BY <1>1 DEF ScanInv, ScanTypes, AskedInv, ToolOf
<1>3. CASE ~host.groups.readable
  <2>1. Abort /\ objects' = objects BY <1>3 DEF ScanGroups
  <2>. QED BY <1>1, <2>1, AbortPart
<1>4. CASE host.groups.readable
  <2>. DEFINE K == Parse(host.groups.lines, Len(host.groups.lines))
  <2>1. step' = After[step] /\ exit' = exit /\ objects' = objects \cup Found(step, K)
    BY <1>1, <1>4 DEF ScanGroups, Go
  <2>2. IsFiniteSet(K) BY ParseFinite, ScanAssumption DEF ScanInv, ScanTypes, HostOK
  <2>3. K = Holds(ReadableDirs)[step] BY <1>1, HoldsAt
  <2>. HIDE DEF K
  <2>. QED BY <1>1, <1>2, <2>1, <2>2, <2>3, ReadPart
<1>. QED BY <1>3, <1>4

LEMMA NoCapDirsPart == ASSUME ScanInv, NoCapDirs PROVE ScanPart'
<1>1. /\ step = "CapFile" /\ step \in classes /\ step \in GrantClasses /\ ~host.capdirs /\ step' = After[step]
      /\ objects' = objects \cup Found(step, {})
      /\ UNCHANGED <<host, classes, asked, degraded, stack, lookup, paths, known, silent, exit>>
  BY NothingFound DEF NoCapDirs, GrantClasses, Go
<1>2. asked = FALSE BY <1>1 DEF ScanInv, ScanTypes, AskedInv
<1>3. {} = Holds(ReadableDirs)[step] BY <1>1, HoldsAt
<1>. QED BY <1>1, <1>2, <1>3, NothingFound, ReadPart

LEMMA AskToolPart == ASSUME ScanInv, AskTool PROVE ScanPart'
<1>1. /\ step \in {"Config", "Unit", "CapFile"} /\ step \in classes /\ (step = "CapFile" => host.capdirs)
      /\ request' = [tool |-> host.tools[ToolOf[step]], partial |-> FALSE] /\ result' = TC!Pending /\ asked' = TRUE
      /\ UNCHANGED <<host, classes, step, objects, degraded, stack, lookup, paths, known, silent, exit>>
  BY DEF AskTool, Call
<1>2. AskedInv' BY <1>1 DEF AskedInv, ToolOf
<1>3. ScanTypes' /\ ObjectsKnown' /\ OwnersInv' /\ GateInv'
  BY <1>1 DEF ScanInv, ScanTypes, ObjectsKnown, OwnersInv, GateInv, ProvOf
<1>4. ClassesRead' BY <1>1, HoldsKept DEF ScanInv, ClassesRead, Scanned, Keys
<1>. QED BY <1>2, <1>3, <1>4 DEF ScanPart

\* The answer of a tool: whole, or the class is degraded.
LEMMA TakeToolPart == ASSUME ScanInv, TakeTool PROVE ScanPart'
<1>. DEFINE listed == IF result.kind = "ok" THEN Parse(host.lists[ToolOf[step]], result.lines) ELSE {}
            K == listed \cup (IF step = "Config" THEN host.dropins ELSE {})
<1>1. /\ step \in {"Config", "Unit", "CapFile"} /\ asked /\ at = "done" /\ asked' = FALSE
      /\ step' = After[step] /\ exit' = exit /\ objects' = objects \cup Found(step, K)
      /\ degraded' = (IF result.kind = "degraded" THEN degraded \cup {step} ELSE degraded)
      /\ UNCHANGED <<host, classes, stack, lookup, paths, known, silent>>
  BY DEF TakeTool, Go
<1>2. /\ step \in AllClasses /\ step \in GrantClasses /\ step \in classes /\ (step = "CapFile" => host.capdirs)
  BY <1>1 DEF ScanInv, AskedInv, AllClasses, GrantClasses
<1>3. host \in Hosts /\ stack' \in Seq(DOMAIN host.tree) /\ result.lines \in Nat
  BY <1>1 DEF ScanInv, ScanTypes, CaptureInv, CaptureTypeOK
<1>4. IsFiniteSet(K)
  <2>1. IsFiniteSet(listed) BY <1>3, ParseFinite, FS_EmptySet
  <2>2. IsFiniteSet(host.dropins) BY <1>3, ScanAssumption DEF HostOK
  <2>. QED BY <2>1, <2>2, FS_EmptySet, FS_Union
<1>5. result.kind # "degraded" => listed = Listing(ToolOf[step])
  BY <1>1, Answered DEF Listing
<1>6. result.kind # "degraded" => K = Holds(ReadableDirs)[step]
  BY <1>1, <1>2, <1>5, HoldsAt DEF ToolOf
<1>. HIDE DEF K
<1>7. ScanTypes' /\ ObjectsKnown' /\ OwnersInv' /\ GateInv' BY <1>1, <1>2, <1>3, <1>4, ClassStep
<1>8. ClassesRead' BY <1>1, <1>2, <1>6, ClassDone
<1>. QED BY <1>1, <1>7, <1>8, NotAsked DEF ScanPart

LEMMA TopOf == ASSUME NEW T, NEW s \in Seq(T), s # <<>> PROVE Last(s) \in T /\ Front(s) \in Seq(T)
BY DEF Last, Front

LEMMA WalkDirPart == ASSUME ScanInv, WalkDir PROVE ScanPart'
<1>. DEFINE n == host.tree[Last(stack)]
            kids == {k \in n.kids : host.tree[k].dev = host.tree[Root].dev}
            dirs == {k \in kids : host.tree[k].kind = "dir"}
            suid == {j \in kids : host.tree[j].kind = "suid"}
            f == [k \in suid |-> host.tree[k].key]
<1>1. /\ step = "Setuid" /\ step \in classes /\ stack # <<>> /\ step \in AllClasses
      /\ UNCHANGED <<host, classes, step, asked, degraded, lookup, paths, known, silent, exit>>
  BY DEF WalkDir, AllClasses
<1>2. asked = FALSE BY <1>1 DEF ScanInv, ScanTypes, AskedInv, ToolOf
<1>3. host \in Hosts /\ stack \in Seq(DOMAIN host.tree) BY DEF ScanInv, ScanTypes
<1>4. Last(stack) \in DOMAIN host.tree /\ Front(stack) \in Seq(DOMAIN host.tree)
  BY <1>1, <1>3, TopOf
<1>5. n.kids \subseteq DOMAIN host.tree /\ IsFiniteSet(n.kids)
  BY <1>3, <1>4, ScanAssumption DEF HostOK
<1>6. IsFiniteSet(dirs) /\ IsFiniteSet(suid) /\ dirs \subseteq DOMAIN host.tree
  <2>1. dirs \in SUBSET n.kids /\ suid \in SUBSET n.kids OBVIOUS
  <2>. HIDE DEF dirs, suid, n
  <2>. QED BY <1>5, <2>1, FS_Subset
<1>7. IsFiniteSet({f[x] : x \in suid})
  <2>. HIDE DEF suid, f
  <2>. QED BY <1>6, ImageFinite
<1>8. \E K : /\ IsFiniteSet(K) /\ objects' = objects \cup Found("Setuid", K)
             /\ stack' \in Seq(DOMAIN host.tree)
  <2>1. CASE n.virtual \/ ~n.readable
    <3>1. stack' = Front(stack) /\ objects' = objects \cup Found("Setuid", {})
      BY <2>1, NothingFound DEF WalkDir
    <3>. QED BY <1>4, <3>1, NothingFound
  <2>2. CASE ~(n.virtual \/ ~n.readable)
    <3>1. stack' = Front(stack) \o SetToSeq(dirs)
      BY <2>2 DEF WalkDir
    <3>2. objects' = objects \cup Found("Setuid", {host.tree[k].key : k \in suid})
      BY <2>2 DEF WalkDir
    <3>3. {host.tree[k].key : k \in suid} = {f[x] : x \in suid} OBVIOUS
    <3>4. SetToSeq(dirs) \in Seq(dirs) BY <1>6, SetToSeqOf
    <3>5. SetToSeq(dirs) \in Seq(DOMAIN host.tree) BY <1>6, <3>4
    <3>. HIDE DEF dirs, suid, f
    <3>6. stack' \in Seq(DOMAIN host.tree) BY <1>4, <3>1, <3>5
    <3>. QED BY <1>7, <3>2, <3>3, <3>6
  <2>. QED BY <2>1, <2>2
<1>. HIDE DEF n, kids, dirs, suid, f
<1>9. PICK K : /\ IsFiniteSet(K) /\ objects' = objects \cup Found("Setuid", K)
               /\ stack' \in Seq(DOMAIN host.tree)
  BY <1>8
<1>10. ScanTypes' /\ ObjectsKnown' /\ OwnersInv' /\ GateInv' BY <1>1, <1>2, <1>9, ClassStep
<1>11. ASSUME NEW c \in GrantClasses PROVE Keys(c)' = Keys(c) /\ (Holds(ReadableDirs)[c])' = Holds(ReadableDirs)[c]
  BY <1>1, <1>9, KeysGrow, HoldsKept DEF GrantClasses
<1>12. ClassesRead' BY <1>1, <1>11 DEF ScanInv, ClassesRead, Scanned
<1>. QED BY <1>1, <1>2, <1>10, <1>12, NotAsked DEF ScanPart

LEMMA WalkEndsPart == ASSUME ScanInv, WalkEnds PROVE ScanPart'
<1>1. /\ step = "Setuid" /\ step \in classes /\ step \in AllClasses /\ step' = After[step]
      /\ objects' = objects \cup Found(step, {})
      /\ UNCHANGED <<host, classes, asked, degraded, stack, lookup, paths, known, silent, exit>>
  BY NothingFound DEF WalkEnds, AllClasses, Go
<1>2. asked = FALSE BY <1>1 DEF ScanInv, ScanTypes, AskedInv, ToolOf
<1>3. stack' \in Seq(DOMAIN host.tree) BY <1>1 DEF ScanInv, ScanTypes
<1>4. ScanTypes' /\ ObjectsKnown' /\ OwnersInv' /\ GateInv' BY <1>1, <1>2, <1>3, NothingFound, ClassStep
<1>5. step \notin GrantClasses BY <1>1 DEF GrantClasses
<1>6. ClassesRead' BY <1>1, <1>5, ClassDone
<1>. QED BY <1>1, <1>2, <1>4, <1>6, NotAsked DEF ScanPart

-----------------------------------------------------------------------------
(* The owners, the report, and run_capture at work.                        *)

\* Nothing of the classes is touched any more.
LEMMA ClassesKept ==
  ASSUME ScanInv, UNCHANGED <<host, classes, degraded>>, step \notin AllClasses, step' \notin AllClasses,
         \A c : Keys(c)' = Keys(c), exit' # "failure" => exit # "failure"
  PROVE  ClassesRead'
<1>1. Scanned = GrantClasses /\ Scanned' = GrantClasses BY DEF Scanned, AllClasses, GrantClasses
<1>2. \A c \in GrantClasses : (Holds(ReadableDirs)[c])' = Holds(ReadableDirs)[c] BY HoldsKept
<1>. QED BY <1>1, <1>2 DEF ScanInv, ClassesRead

LEMMA StartOwnersPart == ASSUME ScanInv, StartOwners PROVE ScanPart'
<1>. DEFINE S == {p \in objects : p.key.abs}
            f == [o \in S |-> o.key]
<1>1. /\ step = "Provenance" /\ lookup' = TRUE /\ paths' = {o.key : o \in S}
      /\ UNCHANGED <<host, classes, step, asked, objects, degraded, stack, known, silent, exit, capVars>>
  BY DEF StartOwners
<1>2. IsFiniteSet(paths')
  <2>1. IsFiniteSet(S) BY FS_Subset DEF ScanInv, ObjectsKnown
  <2>2. IsFiniteSet({f[o] : o \in S}) BY <2>1, ImageFinite
  <2>3. paths' = {f[o] : o \in S} BY <1>1
  <2>. QED BY <2>2, <2>3
<1>3. \A o \in objects : o.key.abs => o.key \in paths' BY <1>1
<1>. HIDE DEF S, f
<1>4. OwnersInv' BY <1>1, <1>3 DEF ScanInv, OwnersInv, AllClasses, GrantClasses
<1>5. ScanTypes' /\ ObjectsKnown' /\ GateInv'
  BY <1>1, <1>2 DEF ScanInv, ScanTypes, ObjectsKnown, GateInv, ProvOf
<1>6. \A c : Keys(c)' = Keys(c) BY <1>1 DEF Keys
<1>7. ClassesRead' BY <1>1, <1>6, ClassesKept DEF AllClasses, GrantClasses
<1>8. AskedInv' BY <1>1 DEF ScanInv, AskedInv, capVars
<1>. QED BY <1>4, <1>5, <1>7, <1>8 DEF ScanPart

LEMMA AskOwnersPart == ASSUME ScanInv, AskOwners PROVE ScanPart'
<1>1. /\ step = "Provenance" /\ result' = TC!Pending /\ asked' = TRUE
      /\ UNCHANGED <<host, classes, step, objects, degraded, stack, lookup, paths, known, silent, exit>>
  BY DEF AskOwners, Call
<1>2. AskedInv' BY <1>1 DEF AskedInv, ToolOf
<1>3. ScanTypes' /\ ObjectsKnown' /\ OwnersInv' /\ GateInv'
  BY <1>1 DEF ScanInv, ScanTypes, ObjectsKnown, OwnersInv, GateInv, ProvOf
<1>4. \A c : Keys(c)' = Keys(c) BY <1>1 DEF Keys
<1>5. ClassesRead' BY <1>1, <1>4, ClassesKept DEF AllClasses, GrantClasses
<1>. QED BY <1>2, <1>3, <1>5 DEF ScanPart

\* A path leaves the list only with its batch, and then it is known or silent.
LEMMA TakeOwnersPart == ASSUME ScanInv, TakeOwners PROVE ScanPart'
<1>. DEFINE read == IF result.kind = "ok" THEN result.lines ELSE 0
<1>1. /\ step = "Provenance" /\ asked' = FALSE /\ paths' = paths \ Batch
      /\ known' = known \cup {Owned[i] : i \in 1..read}
      /\ silent' = silent \cup {Owned[i] : i \in (read + 1)..Len(Owned)}
      /\ UNCHANGED <<host, classes, step, objects, degraded, stack, lookup, exit>>
  BY DEF TakeOwners
<1>2. read \in Nat BY DEF ScanInv, CaptureInv, CaptureTypeOK
<1>. HIDE DEF read
<1>3. IsFiniteSet(paths) BY DEF ScanInv, ObjectsKnown
<1>4. IsFiniteSet(paths') BY <1>1, <1>3, FS_Difference
<1>5. ASSUME NEW x \in Batch \cap DOMAIN host.owner PROVE x \in known' \cup silent'
  <2>1. PICK i \in 1..Len(Owned) : Owned[i] = x BY <1>3, OwnedFacts
  <2>2. Len(Owned) \in Nat BY <1>3, OwnedFacts, ScanAssumption
  <2>3. i \in 1..read \/ i \in (read + 1)..Len(Owned) BY <1>2, <2>2
  <2>. QED BY <1>1, <2>1, <2>3
<1>6. OwnersInv' BY <1>1, <1>5 DEF ScanInv, OwnersInv, AllClasses, GrantClasses
<1>7. ScanTypes' /\ ObjectsKnown' /\ GateInv'
  BY <1>1, <1>4 DEF ScanInv, ScanTypes, ObjectsKnown, GateInv, AllClasses, GrantClasses
<1>8. \A c : Keys(c)' = Keys(c) BY <1>1 DEF Keys
<1>9. ClassesRead' BY <1>1, <1>8, ClassesKept DEF AllClasses, GrantClasses
<1>. QED BY <1>1, <1>6, <1>7, <1>9, NotAsked DEF ScanPart

\* The owners are filled in: an object keeps its class and its key.
LEMMA OwnersReadPart == ASSUME ScanInv, OwnersRead PROVE ScanPart' /\ \A c : Keys(c)' = Keys(c)
<1>. DEFINE f == [o \in objects |-> IF o.key \in known THEN [o EXCEPT !.prov = host.owner[o.key]] ELSE o]
<1>1. /\ step = "Provenance" /\ lookup /\ paths = {} /\ asked = FALSE /\ step' = "Report" /\ exit' = exit
      /\ objects' = {f[o] : o \in objects}
      /\ UNCHANGED <<host, classes, asked, degraded, stack, lookup, paths, known, silent>>
  BY DEF OwnersRead, Go, After, AllClasses, ScanInv, ScanTypes
<1>2. /\ IsFiniteSet(objects) /\ IsFiniteSet(paths)
      /\ \A o \in objects : o = Object(o.class, o.key, o.prov) /\ o.class \in AllClasses /\ o.prov = "orphan"
  BY <1>1 DEF ScanInv, ObjectsKnown
<1>3. ASSUME NEW o \in objects PROVE f[o] = Object(o.class, o.key, ProvOf(o.key))
  <2>1. o = Object(o.class, o.key, o.prov) /\ o.prov = "orphan" BY <1>2
  <2>. QED BY <2>1 DEF Object, ProvOf
<1>. HIDE DEF f
<1>4. IsFiniteSet(objects')
  <2>1. IsFiniteSet({f[o] : o \in objects}) BY <1>2, ImageFinite
  <2>. QED BY <1>1, <2>1
<1>5. ASSUME NEW p \in objects'
      PROVE  /\ p = Object(p.class, p.key, p.prov) /\ p.class \in AllClasses /\ p.prov = ProvOf(p.key)
             /\ \E o \in objects : o.class = p.class /\ o.key = p.key
  <2>1. PICK o \in objects : p = f[o] BY <1>1
  <2>2. p = Object(o.class, o.key, ProvOf(o.key)) BY <1>3, <2>1
  <2>3. p.class = o.class /\ p.key = o.key /\ p.prov = ProvOf(o.key) BY <2>2 DEF Object
  <2>. QED BY <1>2, <2>2, <2>3
<1>6. ASSUME NEW o \in objects PROVE \E p \in objects' : p.class = o.class /\ p.key = o.key
  <2>1. f[o] \in objects' BY <1>1
  <2>0. f[o] = Object(o.class, o.key, ProvOf(o.key)) BY <1>3
  <2>2. f[o].class = o.class /\ f[o].key = o.key BY <2>0 DEF Object
  <2>. QED BY <2>1, <2>2
<1>7. \A k : ProvOf(k)' = ProvOf(k) BY <1>1 DEF ProvOf
<1>8. ObjectsKnown' BY <1>1, <1>2, <1>4, <1>5, <1>7 DEF ObjectsKnown, AllClasses, GrantClasses
<1>9. OwnersInv' BY <1>1, <1>5 DEF ScanInv, OwnersInv, ScanTypes, AllClasses, GrantClasses
<1>10. ScanTypes' /\ GateInv' BY <1>1 DEF ScanInv, ScanTypes, GateInv
<1>11. \A c : Keys(c)' = Keys(c) BY <1>5, <1>6 DEF Keys
<1>12. ClassesRead' BY <1>1, <1>11, ClassesKept DEF AllClasses, GrantClasses
<1>. QED BY <1>1, <1>8, <1>9, <1>10, <1>11, <1>12, NotAsked DEF ScanPart

LEMMA ReportPart == ASSUME ScanInv, Report PROVE ScanPart'
<1>1. /\ step = "Report" /\ step' = "End"
      /\ exit' = CoverageExit(ReportOn(objects, Granted, FALSE), MinCoverage, degraded # {})
      /\ UNCHANGED <<host, classes, asked, objects, degraded, stack, lookup, paths, known, silent>>
  BY DEF Report
<1>2. /\ exit' \in {"success", "gate"} /\ exit = "none"
      /\ exit' = "success" /\ MinCoverage # NoMinimum =>
           degraded = {} /\ ~WeightedBelow(ReportOn(objects, Granted, FALSE), MinCoverage)
  BY <1>1 DEF CoverageExit, ScanInv, ScanTypes
<1>3. GateInv' BY <1>1, <1>2 DEF GateInv
<1>4. ScanTypes' /\ ObjectsKnown' /\ OwnersInv'
  BY <1>1, <1>2 DEF ScanInv, ScanTypes, ObjectsKnown, OwnersInv, ProvOf, AllClasses, GrantClasses
<1>5. \A c : Keys(c)' = Keys(c) BY <1>1 DEF Keys
<1>6. ClassesRead' BY <1>1, <1>2, <1>5, ClassesKept DEF AllClasses, GrantClasses
<1>7. asked = FALSE BY <1>1 DEF ScanInv, ScanTypes, AskedInv, ToolOf
<1>. QED BY <1>1, <1>3, <1>4, <1>6, <1>7, NotAsked DEF ScanPart

\* run_capture's own steps, and none.
LEMMA RunningPart == ASSUME ScanInv, Running \/ UNCHANGED allVars PROVE ScanPart'
<1>1. UNCHANGED <<host, classes, step, asked, objects, degraded, stack, lookup, paths, known, silent, exit>>
  BY DEF Running, scanVars, allVars
<1>2. ScanTypes' /\ ObjectsKnown' /\ OwnersInv' /\ GateInv'
  BY <1>1 DEF ScanInv, ScanTypes, ObjectsKnown, OwnersInv, GateInv, ProvOf
<1>3. ClassesRead' BY <1>1, HoldsKept DEF ScanInv, ClassesRead, Scanned, Keys
<1>4. AskedInv'
  <2>1. CASE UNCHANGED allVars BY <1>1, <2>1 DEF ScanInv, AskedInv, allVars, capVars
  <2>2. CASE Running
    <3>1. /\ request' = request
          /\ result' = result \/ result' = TC!Pending \/ TC!Permitted(request, result')
      BY <2>2, RunningAnswer DEF Running, ScanInv
    <3>. QED BY <1>1, <3>1 DEF ScanInv, AskedInv
  <2>. QED BY <2>1, <2>2
<1>. QED BY <1>2, <1>3, <1>4 DEF ScanPart

LEMMA ScanNext == ASSUME ScanInv, [Next]_allVars PROVE ScanInv'
<1>1. CaptureInv' BY ScanCapture
<1>2. ScanPart'
  BY SkipPart, ScanSudoBinsPart, AskToolPart, TakeToolPart, NoCapDirsPart, ScanGroupsPart, WalkDirPart,
     WalkEndsPart, StartOwnersPart, AskOwnersPart, TakeOwnersPart, OwnersReadPart, ReportPart, RunningPart
  DEF Next, Scan
<1>. QED BY <1>1, <1>2 DEF ScanInv, ScanPart

LEMMA One == ASSUME NEW T, NEW x \in T PROVE <<x>> \in Seq(T)
OBVIOUS

LEMMA ScanStarts == ASSUME Init PROVE ScanInv
<1>1. /\ host \in Hosts /\ step = "SudoBin" /\ asked = FALSE /\ objects = {} /\ degraded = {} /\ stack = <<Root>>
      /\ lookup = FALSE /\ paths = {} /\ known = {} /\ exit = "none" /\ CaptureInit
  BY DEF Init
<1>2. CaptureInv BY <1>1, CaptureInitInv
<1>3. Root \in DOMAIN host.tree BY <1>1, ScanAssumption DEF HostOK
<1>4. ScanTypes
  <2>1. <<Root>> \in Seq(DOMAIN host.tree) BY <1>3, One
  <2>2. step \in AllClasses BY <1>1 DEF AllClasses, GrantClasses
  <2>. QED BY <1>1, <2>1, <2>2 DEF ScanTypes
<1>5. ObjectsKnown /\ OwnersInv /\ AskedInv /\ GateInv
  BY <1>1, FS_EmptySet DEF ObjectsKnown, OwnersInv, AskedInv, GateInv
<1>6. ClassesRead BY <1>1 DEF ClassesRead, Scanned, Keys
<1>. QED BY <1>2, <1>4, <1>5, <1>6 DEF ScanInv

LEMMA ScanInvariant == Spec => []ScanInv
BY ScanStarts, ScanNext, PTL DEF Spec

-----------------------------------------------------------------------------
(* The walk.                                                               *)

\* What has been found lies under the root, and what lies under the root has been
\* found or lies under a directory that is still to be read.
WalkInv ==
  /\ \A i \in 1..Len(stack) : stack[i] \in Under(Root) /\ host.tree[stack[i]].kind = "dir"
  /\ Keys("Setuid") \subseteq SuidIn(Under(Root))
  /\ "Setuid" \in classes /\ exit # "failure" =>
       /\ \A s \in SuidIn(Under(Root)) \ Keys("Setuid") : \E i \in 1..Len(stack) : s \in SuidIn(Under(stack[i]))
       /\ step \in {"Provenance", "Report", "End"} => stack = <<>>

\* The nodes under n: n, with an open directory what it holds, and nothing else.
LEMMA UnderSelf == ASSUME NEW n \in DOMAIN host.tree PROVE n \in Under(n)
BY DEF Under

LEMMA UnderLeast ==
  ASSUME NEW n, NEW S \in SUBSET DOMAIN host.tree, n \in S, Closed(S)
  PROVE  Under(n) \subseteq S
BY DEF Under

LEMMA UnderNodes == ASSUME NEW n PROVE Under(n) \subseteq DOMAIN host.tree
BY DEF Under

LEMMA OnDeviceNodes ==
  ASSUME host \in Hosts, NEW n \in DOMAIN host.tree
  PROVE  OnDevice(n) \subseteq DOMAIN host.tree
BY ScanAssumption DEF HostOK, OnDevice

LEMMA UnderClosed == ASSUME host \in Hosts, NEW n PROVE Closed(Under(n))
<1>. SUFFICES ASSUME NEW p \in Under(n), Open(p), NEW k \in OnDevice(p) PROVE k \in Under(n)
  BY DEF Closed
<1>1. k \in DOMAIN host.tree BY UnderNodes, OnDeviceNodes
<1>2. ASSUME NEW S \in SUBSET DOMAIN host.tree, n \in S, Closed(S) PROVE k \in S
  <2>1. p \in S BY <1>2, UnderLeast
  <2>. QED BY <1>2, <2>1 DEF Closed
<1>. QED BY <1>1, <1>2 DEF Under

\* Whatever lies under n is n or lies under something that n holds.
LEMMA UnderFirst ==
  ASSUME host \in Hosts, NEW n \in DOMAIN host.tree
  PROVE  \A j \in Under(n) : j = n \/ (Open(n) /\ \E k \in OnDevice(n) : j \in Under(k))
<1>. DEFINE S == {n} \cup {j \in DOMAIN host.tree : Open(n) /\ \E k \in OnDevice(n) : j \in Under(k)}
<1>1. ASSUME NEW p \in S, Open(p), NEW c \in OnDevice(p) PROVE c \in S
  <2>1. c \in DOMAIN host.tree BY <1>1, OnDeviceNodes
  <2>2. CASE p = n BY <1>1, <2>1, <2>2, UnderSelf
  <2>3. CASE p # n
    <3>1. PICK k \in OnDevice(n) : p \in Under(k) BY <2>3
    <3>2. c \in Under(k) BY <1>1, <3>1, UnderClosed DEF Closed
    <3>. QED BY <2>1, <2>3, <3>1, <3>2
  <2>. QED BY <2>2, <2>3
<1>2. Closed(S) BY <1>1 DEF Closed
<1>3. S \in SUBSET DOMAIN host.tree /\ n \in S OBVIOUS
<1>. HIDE DEF S
<1>4. Under(n) \subseteq S BY <1>2, <1>3, UnderLeast
<1>. QED BY <1>4 DEF S

LEMMA UnderKept == ASSUME host' = host PROVE \A n : Under(n)' = Under(n)
BY DEF Under, Closed, Open, OnDevice

LEMMA SuidKept == ASSUME host' = host PROVE \A n : SuidIn(Under(n))' = SuidIn(Under(n))
BY UnderKept DEF SuidIn

LEMMA RootKept == ASSUME host' = host PROVE Under(Root)' = Under(Root) /\ SuidIn(Under(Root))' = SuidIn(Under(Root))
BY UnderKept, SuidKept

\* A step that leaves the walk alone, and does not call it done before it is.
LEMMA WalkKept ==
  ASSUME WalkInv, UNCHANGED <<host, classes, stack>>, Keys("Setuid")' = Keys("Setuid"),
         exit' # "failure" => exit # "failure",
         \/ step' \notin {"Provenance", "Report", "End"}
         \/ step \in {"Provenance", "Report", "End"}
         \/ exit' = "failure" \/ stack = <<>> \/ "Setuid" \notin classes
  PROVE  WalkInv'
<1>1. \A i \in 1..Len(stack) : SuidIn(Under(stack[i]))' = SuidIn(Under(stack[i])) BY SuidKept
<1>. QED BY <1>1, RootKept DEF WalkInv

\* What lies under the directory that was read has been found, or lies under one
\* of the directories in it.
LEMMA WalkReads ==
  ASSUME host \in Hosts, NEW n \in DOMAIN host.tree, host.tree[n].kind = "dir", NEW s \in SuidIn(Under(n))
  PROVE  /\ Open(n)
         /\ \/ s \in SuidIn(OnDevice(n))
            \/ \E k \in OnDevice(n) : host.tree[k].kind = "dir" /\ s \in SuidIn(Under(k))
<1>1. PICK j \in Under(n) : host.tree[j].kind = "suid" /\ s = host.tree[j].key BY DEF SuidIn
<1>2. j # n BY <1>1
<1>3. Open(n) BY <1>2, UnderFirst
<1>4. PICK k \in OnDevice(n) : j \in Under(k) BY <1>2, UnderFirst
<1>5. CASE host.tree[k].kind = "dir"
  <2>1. s \in SuidIn(Under(k)) BY <1>1, <1>4 DEF SuidIn
  <2>. QED BY <1>3, <1>5, <2>1
<1>6. CASE host.tree[k].kind # "dir"
  <2>1. k \in DOMAIN host.tree BY OnDeviceNodes
  <2>2. OnDevice(k) = {} BY <1>6, <2>1, ScanAssumption DEF HostOK, OnDevice
  <2>3. j = k BY <1>4, <2>1, <2>2, UnderFirst
  <2>4. s \in SuidIn(OnDevice(n)) BY <1>1, <2>3 DEF SuidIn
  <2>. QED BY <1>3, <2>4
<1>. QED BY <1>5, <1>6

LEMMA FrontFacts ==
  ASSUME NEW T, NEW s \in Seq(T), s # <<>>
  PROVE  /\ Len(s) \in Nat /\ Len(s) > 0 /\ Front(s) \in Seq(T) /\ Len(Front(s)) = Len(s) - 1
         /\ \A i \in 1..(Len(s) - 1) : Front(s)[i] = s[i]
<1>1. Len(s) \in Nat /\ Len(s) > 0 OBVIOUS
<1>2. PICK m \in Nat : Len(s) = m + 1
  <2>1. Len(s) - 1 \in Nat /\ Len(s) = (Len(s) - 1) + 1 BY <1>1
  <2>. QED BY <2>1
<1>3. m = Len(s) - 1 BY <1>2
<1>4. Front(s) = SubSeq(s, 1, m) BY <1>3 DEF Front
<1>5. \A i \in 1..m : s[i] \in T BY <1>2
<1>6. /\ SubSeq(s, 1, m) \in Seq(T)
      /\ Len(SubSeq(s, 1, m)) = IF 1 <= m THEN m - 1 + 1 ELSE 0
      /\ \A i \in 1..(m - 1 + 1) : SubSeq(s, 1, m)[i] = s[1 + i - 1]
  BY <1>5, SubSeqProperties
<1>. DEFINE f == SubSeq(s, 1, m)
<1>. HIDE DEF f
<1>7. f \in Seq(T) /\ Len(f) = m /\ \A i \in 1..m : f[i] = s[i] BY <1>6 DEF f
<1>. QED BY <1>1, <1>3, <1>4, <1>7 DEF f

\* The stack when its top gives way to t: what was below it and what t has.
Pushed(s, t) == Front(s) \o t
Shares(u, s, t) ==
  /\ \A i \in 1..Len(s) : s[i] = Last(s) \/ \E j \in 1..Len(u) : u[j] = s[i]
  /\ \A i \in 1..Len(t) : \E j \in 1..Len(u) : u[j] = t[i]
  /\ \A j \in 1..Len(u) : (\E i \in 1..Len(s) : u[j] = s[i]) \/ \E i \in 1..Len(t) : u[j] = t[i]

LEMMA PushedShares ==
  ASSUME NEW T, NEW s \in Seq(T), s # <<>>, NEW t \in Seq(T)
  PROVE  Shares(Pushed(s, t), s, t)
<1>. DEFINE u == Pushed(s, t)
<1>1. /\ Len(s) \in Nat /\ Len(s) > 0 /\ Front(s) \in Seq(T) /\ Len(Front(s)) = Len(s) - 1
      /\ \A i \in 1..(Len(s) - 1) : Front(s)[i] = s[i]
  BY FrontFacts
<1>2. /\ Len(u) = Len(s) - 1 + Len(t) /\ Len(t) \in Nat
      /\ \A i \in 1..(Len(s) - 1) : u[i] = s[i]
      /\ \A i \in 1..Len(t) : u[Len(s) - 1 + i] = t[i]
  <2>. DEFINE f == Front(s)
  <2>. HIDE DEF f
  <2>1. f \in Seq(T) /\ Len(f) = Len(s) - 1 /\ \A i \in 1..(Len(s) - 1) : f[i] = s[i] BY <1>1 DEF f
  <2>2. u = f \o t BY DEF f, Pushed
  <2>. HIDE DEF u
  <2>3. Len(u) = Len(f) + Len(t) /\ Len(t) \in Nat
    <3>0. f \in Seq(T) BY <2>1
    <3>1. Len(f \o t) = Len(f) + Len(t) /\ Len(t) \in Nat BY <3>0
    <3>. QED BY <2>2, <3>1
  <2>4. \A i \in 1..Len(f) : u[i] = f[i] BY <2>1, <2>2
  <2>5. \A i \in 1..Len(t) : u[Len(f) + i] = t[i] BY <2>1, <2>2
  <2>. QED BY <2>1, <2>3, <2>4, <2>5
<1>. HIDE DEF u
<1>3. ASSUME NEW i \in 1..Len(s) PROVE s[i] = Last(s) \/ \E j \in 1..Len(u) : u[j] = s[i]
  <2>1. CASE i = Len(s) BY <2>1 DEF Last
  <2>2. CASE i # Len(s)
    <3>1. i \in 1..(Len(s) - 1) /\ i \in 1..Len(u) BY <1>1, <1>2, <2>2
    <3>. QED BY <1>2, <3>1
  <2>. QED BY <2>1, <2>2
<1>4. ASSUME NEW i \in 1..Len(t) PROVE \E j \in 1..Len(u) : u[j] = t[i]
  <2>1. Len(s) - 1 + i \in 1..Len(u) BY <1>1, <1>2
  <2>. QED BY <1>2, <2>1
<1>5. ASSUME NEW j \in 1..Len(u)
      PROVE  (\E i \in 1..Len(s) : u[j] = s[i]) \/ \E i \in 1..Len(t) : u[j] = t[i]
  <2>1. CASE j <= Len(s) - 1
    <3>1. j \in 1..(Len(s) - 1) /\ j \in 1..Len(s) BY <1>1, <1>2, <2>1
    <3>. QED BY <1>2, <3>1
  <2>2. CASE ~(j <= Len(s) - 1)
    <3>1. j - (Len(s) - 1) \in 1..Len(t) /\ Len(s) - 1 + (j - (Len(s) - 1)) = j BY <1>1, <1>2, <2>2
    <3>. QED BY <1>2, <3>1
  <2>. QED BY <2>1, <2>2
<1>6. Shares(u, s, t) BY <1>3, <1>4, <1>5 DEF Shares
<1>. QED BY <1>6 DEF u

\* One directory: t is the list of the directories in it, K what was found.
LEMMA WalkOne ==
  ASSUME ScanInv, WalkInv, step = "Setuid", stack # <<>>, UNCHANGED <<host, classes, step, exit>>,
         NEW t \in Seq(DOMAIN host.tree), stack' = Front(stack) \o t,
         \A i \in 1..Len(t) : /\ Open(Last(stack)) /\ t[i] \in OnDevice(Last(stack))
                              /\ host.tree[t[i]].kind = "dir",
         Open(Last(stack)) => \A k \in OnDevice(Last(stack)) :
                                host.tree[k].kind = "dir" => \E i \in 1..Len(t) : t[i] = k,
         Keys("Setuid")' = Keys("Setuid") \cup (IF Open(Last(stack)) THEN SuidIn(OnDevice(Last(stack))) ELSE {})
  PROVE  WalkInv'
<1>. DEFINE n == Last(stack)
<1>1. host \in Hosts /\ stack \in Seq(DOMAIN host.tree) /\ exit # "failure" BY DEF ScanInv, ScanTypes
<1>2. n \in DOMAIN host.tree /\ \E i \in 1..Len(stack) : n = stack[i] BY <1>1 DEF Last
<1>3. n \in Under(Root) /\ host.tree[n].kind = "dir" BY <1>2 DEF WalkInv
<1>4. Open(n) => OnDevice(n) \subseteq Under(Root) BY <1>1, <1>3, UnderClosed DEF Closed
<1>. HIDE DEF n
<1>5. \A i \in 1..Len(t) : Open(n) /\ t[i] \in OnDevice(n) /\ host.tree[t[i]].kind = "dir" BY DEF n
<1>6. Open(n) => \A k \in OnDevice(n) : host.tree[k].kind = "dir" => \E i \in 1..Len(t) : t[i] = k BY DEF n
<1>7. Keys("Setuid")' = Keys("Setuid") \cup (IF Open(n) THEN SuidIn(OnDevice(n)) ELSE {}) BY DEF n
<1>80. Shares(stack', stack, t)
  <2>1. stack' = Pushed(stack, t) BY DEF Pushed
  <2>2. Shares(Pushed(stack, t), stack, t) BY <1>1, PushedShares
  <2>. QED BY <2>1, <2>2
<1>8. \A i \in 1..Len(stack) : stack[i] = n \/ \E j \in 1..Len(stack') : stack'[j] = stack[i]
  BY <1>80 DEF n, Shares
<1>81. \A i \in 1..Len(t) : \E j \in 1..Len(stack') : stack'[j] = t[i]
  BY <1>80 DEF Shares
<1>82. \A j \in 1..Len(stack') : (\E i \in 1..Len(stack) : stack'[j] = stack[i]) \/ \E i \in 1..Len(t) : stack'[j] = t[i]
  BY <1>80 DEF Shares
<1>9. \A j \in 1..Len(stack') : stack'[j] \in Under(Root) /\ host.tree[stack'[j]].kind = "dir"
  <2>. SUFFICES ASSUME NEW j \in 1..Len(stack')
                PROVE  stack'[j] \in Under(Root) /\ host.tree[stack'[j]].kind = "dir"
    OBVIOUS
  <2>1. CASE \E i \in 1..Len(stack) : stack'[j] = stack[i]
    <3>1. PICK i \in 1..Len(stack) : stack'[j] = stack[i] BY <2>1
    <3>2. stack[i] \in Under(Root) /\ host.tree[stack[i]].kind = "dir" BY DEF WalkInv
    <3>. QED BY <3>1, <3>2
  <2>2. CASE \E i \in 1..Len(t) : stack'[j] = t[i]
    <3>1. PICK i \in 1..Len(t) : stack'[j] = t[i] BY <2>2
    <3>2. t[i] \in Under(Root) /\ host.tree[t[i]].kind = "dir" BY <1>4, <1>5
    <3>. QED BY <3>1, <3>2
  <2>. QED BY <1>82, <2>1, <2>2
<1>10. Keys("Setuid")' \subseteq SuidIn(Under(Root))
  <2>1. Open(n) => SuidIn(OnDevice(n)) \subseteq SuidIn(Under(Root)) BY <1>4 DEF SuidIn
  <2>. QED BY <1>7, <2>1 DEF WalkInv
<1>11. ASSUME "Setuid" \in classes, NEW s \in SuidIn(Under(Root)), s \notin Keys("Setuid")'
       PROVE  \E j \in 1..Len(stack') : s \in SuidIn(Under(stack'[j]))
  <2>1. s \notin Keys("Setuid") BY <1>7, <1>11
  <2>2. PICK i \in 1..Len(stack) : s \in SuidIn(Under(stack[i])) BY <1>1, <1>11, <2>1 DEF WalkInv
  <2>3. CASE stack[i] # n BY <1>8, <2>2, <2>3
  <2>4. CASE stack[i] = n
    <3>1. s \in SuidIn(Under(n)) BY <2>2, <2>4
    <3>2. Open(n) BY <1>1, <1>2, <1>3, <3>1, WalkReads
    <3>3. s \notin SuidIn(OnDevice(n)) BY <1>7, <1>11, <3>2
    <3>4. PICK k \in OnDevice(n) : host.tree[k].kind = "dir" /\ s \in SuidIn(Under(k))
      BY <1>1, <1>2, <1>3, <3>1, <3>3, WalkReads
    <3>5. PICK l \in 1..Len(t) : t[l] = k BY <1>6, <3>2, <3>4
    <3>. QED BY <1>81, <3>4, <3>5
  <2>. QED BY <2>3, <2>4
<1>12. \A j \in 1..Len(stack') : (SuidIn(Under(stack[j])))' = SuidIn(Under(stack'[j]))
  BY UnderKept DEF SuidIn
<1>. QED BY <1>9, <1>10, <1>11, <1>12, RootKept DEF WalkInv

LEMMA WalkDirWalks == ASSUME ScanInv, WalkInv, WalkDir PROVE WalkInv'
<1>. DEFINE n == Last(stack)
            kids == {k \in host.tree[n].kids : host.tree[k].dev = host.tree[Root].dev}
            dirs == {k \in kids : host.tree[k].kind = "dir"}
            K == {host.tree[k].key : k \in {j \in kids : host.tree[j].kind = "suid"}}
<1>1. /\ step = "Setuid" /\ stack # <<>> /\ UNCHANGED <<host, classes, step, exit>> BY DEF WalkDir
<1>2. host \in Hosts /\ stack \in Seq(DOMAIN host.tree) BY DEF ScanInv, ScanTypes
<1>3. n \in DOMAIN host.tree /\ Front(stack) \in Seq(DOMAIN host.tree) BY <1>1, <1>2, TopOf
<1>4. kids = OnDevice(n) /\ K = SuidIn(OnDevice(n)) BY DEF OnDevice, SuidIn
<1>5. CASE ~Open(n)
  <2>1. stack' = Front(stack) /\ objects' = objects BY <1>5 DEF WalkDir, Open
  <2>. DEFINE t == <<>>
  <2>2. t \in Seq(DOMAIN host.tree) /\ 1..Len(t) = {} /\ stack' = Front(stack) \o t BY <1>3, <2>1
  <2>. HIDE DEF t, n
  <2>3. Keys("Setuid")' = Keys("Setuid") BY <2>1 DEF Keys
  <2>. QED BY <1>1, <1>5, <2>2, <2>3, WalkOne DEF n
<1>6. CASE Open(n)
  <2>1. stack' = Front(stack) \o SetToSeq(dirs) BY <1>6 DEF WalkDir, Open
  <2>2. objects' = objects \cup Found("Setuid", K) BY <1>6 DEF WalkDir, Open
  <2>3. IsFiniteSet(dirs) /\ dirs \subseteq DOMAIN host.tree
    <3>1. host.tree[n].kids \subseteq DOMAIN host.tree /\ IsFiniteSet(host.tree[n].kids)
      BY <1>2, <1>3, ScanAssumption DEF HostOK
    <3>2. dirs \in SUBSET host.tree[n].kids OBVIOUS
    <3>. HIDE DEF dirs, n
    <3>. QED BY <3>1, <3>2, FS_Subset
  <2>4. dirs = {k \in OnDevice(n) : host.tree[k].kind = "dir"} BY <1>4
  <2>. HIDE DEF dirs, K, kids
  <2>. DEFINE t == SetToSeq(dirs)
  <2>5. t \in Seq(dirs) /\ \A x \in dirs : \E i \in 1..Len(t) : t[i] = x BY <2>3, SetToSeqOf
  <2>. HIDE DEF t
  <2>6. t \in Seq(DOMAIN host.tree) /\ \A i \in 1..Len(t) : t[i] \in dirs BY <2>3, <2>5
  <2>7. Keys("Setuid")' = Keys("Setuid") \cup SuidIn(OnDevice(n)) BY <1>4, <2>2, KeysGrow
  <2>8. /\ \A i \in 1..Len(t) : /\ Open(Last(stack)) /\ t[i] \in OnDevice(Last(stack)) /\ host.tree[t[i]].kind = "dir"
        /\ \A k \in OnDevice(Last(stack)) : host.tree[k].kind = "dir" => \E i \in 1..Len(t) : t[i] = k
    BY <1>6, <2>4, <2>5, <2>6
  <2>9. stack' = Front(stack) \o t BY <2>1 DEF t
  <2>. QED BY <1>1, <1>6, <2>6, <2>7, <2>8, <2>9, WalkOne
<1>. QED BY <1>5, <1>6

LEMMA WalkNext == ASSUME ScanInv, WalkInv, [Next]_allVars PROVE WalkInv'
<1>1. CASE WalkDir BY <1>1, WalkDirWalks
<1>2. CASE OwnersRead
  <2>1. Keys("Setuid")' = Keys("Setuid") BY <1>2, OwnersReadPart
  <2>. QED BY <1>2, <2>1, WalkKept DEF OwnersRead, Go
<1>3. CASE ScanSudoBins \/ ScanGroups \/ TakeTool
  <2>1. PICK c, K : c # "Setuid" /\ objects' = objects \cup Found(c, K)
    <3>1. CASE objects' = objects
      <4>1. "Unit" # "Setuid" /\ objects' = objects \cup Found("Unit", {}) BY <3>1, NothingFound
      <4>. QED BY <4>1
    <3>2. CASE objects' # objects
      BY <1>3, <3>2, Zenon DEF ScanSudoBins, ScanGroups, TakeTool
    <3>. QED BY <3>1, <3>2
  <2>2. Keys("Setuid")' = Keys("Setuid") BY <2>1, KeysGrow
  <2>3. /\ UNCHANGED <<host, classes, stack>> /\ step \in {"SudoBin", "Group", "Config", "Unit", "CapFile"}
        /\ (step' = "End" /\ exit' = "failure") \/ (step' = After[step] /\ exit' = exit)
    BY <1>3 DEF ScanSudoBins, ScanGroups, TakeTool, Go, Abort
  <2>4. After[step] \notin {"Provenance", "Report", "End"} BY <2>3 DEF After, AllClasses, GrantClasses
  <2>. QED BY <2>2, <2>3, <2>4, WalkKept
<1>4. CASE Skip \/ NoCapDirs \/ WalkEnds
  <2>1. /\ UNCHANGED <<host, classes, stack, objects, exit>> /\ step \in AllClasses /\ step' = After[step]
        /\ step = "Setuid" => stack = <<>> \/ "Setuid" \notin classes
    BY <1>4 DEF Skip, NoCapDirs, WalkEnds, Go, AllClasses, GrantClasses
  <2>2. Keys("Setuid")' = Keys("Setuid") BY <2>1 DEF Keys
  <2>3. step # "Setuid" => After[step] \notin {"Provenance", "Report", "End"}
    BY <2>1 DEF After, AllClasses, GrantClasses
  <2>. QED BY <2>1, <2>2, <2>3, WalkKept
<1>5. CASE AskTool \/ StartOwners \/ AskOwners \/ TakeOwners \/ Report \/ Running \/ UNCHANGED allVars
  <2>1. /\ UNCHANGED <<host, classes, stack, objects>> /\ (exit' = exit \/ step = "Report")
        /\ step' = step \/ step = "Report"
    BY <1>5 DEF AskTool, StartOwners, AskOwners, TakeOwners, Report, Running, scanVars, allVars
  <2>2. Keys("Setuid")' = Keys("Setuid") BY <2>1 DEF Keys
  <2>3. step = "Report" => exit # "failure" BY DEF ScanInv, ScanTypes
  <2>. QED BY <2>1, <2>2, <2>3, WalkKept
<1>. QED BY <1>1, <1>2, <1>3, <1>4, <1>5 DEF Next, Scan

LEMMA WalkStarts == ASSUME Init PROVE WalkInv
<1>1. host \in Hosts /\ stack = <<Root>> /\ objects = {} /\ step = "SudoBin" BY DEF Init
<1>2. Root \in DOMAIN host.tree /\ host.tree[Root].kind = "dir" BY <1>1, ScanAssumption DEF HostOK
<1>3. Root \in Under(Root) BY <1>2, UnderSelf
<1>4. Len(stack) = 1 /\ stack[1] = Root BY <1>1
<1>5. Keys("Setuid") = {} BY <1>1 DEF Keys
<1>. QED BY <1>1, <1>2, <1>3, <1>4, <1>5 DEF WalkInv

\* The walk finds every setuid file under the readable directories of the root
\* device and no other, whatever the tree and in whatever order it is read.
THEOREM WalkIsExact == Spec => []WalkExact
<1>1. Init => ScanInv /\ WalkInv BY ScanStarts, WalkStarts
<1>2. (ScanInv /\ WalkInv) /\ [Next]_allVars => (ScanInv /\ WalkInv)' BY ScanNext, WalkNext
<1>3. ASSUME ScanInv, WalkInv PROVE WalkExact
  <2>1. SUFFICES ASSUME step \in {"Provenance", "Report"}, "Setuid" \in classes
                 PROVE  Keys("Setuid") = SuidIn(Under(Root))
    BY DEF WalkExact, Keys
  <2>2. exit # "failure" BY <2>1, <1>3 DEF ScanInv, ScanTypes
  <2>3. stack = <<>> /\ Len(stack) = 0 BY <1>3, <2>1, <2>2 DEF WalkInv
  <2>. QED BY <1>3, <2>1, <2>2, <2>3 DEF WalkInv
<1>. QED BY <1>1, <1>2, <1>3, PTL DEF Spec

-----------------------------------------------------------------------------
(* The surface that the gate is decided on and the surface of the device.  *)

PassedGate == exit = "success" /\ MinCoverage # NoMinimum
Unowned(o) == Object(o.class, o.key, "orphan")

\* At the end nothing of the device is missing from the objects, nor the reverse.
LEMMA SurfaceSeen ==
  ASSUME ScanInv, PassedGate
  PROVE  \A t : t \in TrueSurface(ReadableDirs) <=> \E o \in objects : o.class \in GrantClasses /\ t = Unowned(o)
<1>. DEFINE H == Holds(ReadableDirs)
<1>1. step = "End" BY DEF ScanInv, ScanTypes, PassedGate
<1>2. Scanned = GrantClasses BY <1>1 DEF Scanned
<1>3. degraded = {} /\ exit # "failure" BY DEF ScanInv, GateInv, PassedGate
<1>4. \A c \in GrantClasses : IF c \in classes THEN Keys(c) = H[c] ELSE Keys(c) = {}
  BY <1>2, <1>3 DEF ScanInv, ClassesRead
<1>. HIDE DEF H
<1>5. ASSUME NEW t \in TrueSurface(ReadableDirs)
      PROVE  \E o \in objects : o.class \in GrantClasses /\ t = Unowned(o)
  <2>1. PICK c \in GrantClasses \cap classes : t \in Found(c, H[c]) BY <1>5 DEF TrueSurface, H
  <2>2. PICK k \in H[c] : t = Object(c, k, "orphan") BY <2>1 DEF Found
  <2>3. k \in Keys(c) BY <1>4, <2>1, <2>2
  <2>4. PICK o \in objects : o.class = c /\ o.key = k BY <2>3 DEF Keys
  <2>. QED BY <2>1, <2>2, <2>4 DEF Unowned
<1>6. ASSUME NEW o \in objects, o.class \in GrantClasses PROVE Unowned(o) \in TrueSurface(ReadableDirs)
  <2>1. o.key \in Keys(o.class) BY DEF Keys
  <2>2. o.class \in classes /\ o.key \in H[o.class] BY <1>4, <1>6, <2>1
  <2>3. Unowned(o) \in Found(o.class, H[o.class]) BY <2>2 DEF Found, Unowned
  <2>. QED BY <1>6, <2>2, <2>3 DEF TrueSurface, H
<1>. QED BY <1>5, <1>6

\* The verdict on an object does not look at its owner.
LEMMA VerdictByKey ==
  ASSUME NEW o, NEW p, o.class = p.class, o.key = p.key, NEW c
  PROVE  Verdict(o, c, FALSE) = Verdict(p, c, FALSE)
BY DEF Verdict, ConfigVerdict, IntentionalExclusion, ObjectCovered

With(surface, c, v) == {o \in surface : Verdict(o, c, FALSE) = v}

LEMMA UnownedFields == ASSUME NEW o PROVE Unowned(o).class = o.class /\ Unowned(o).key = o.key
BY DEF Unowned, Object

\* One object, one key: the report counts as many as the device has.
LEMMA SameCount ==
  ASSUME ScanInv, PassedGate, NEW c, NEW v \in {"covered", "gap"}
  PROVE  Cardinality(With(TrueSurface(ReadableDirs), c, v)) = Cardinality(With(objects, c, v))
<1>. DEFINE S == With(objects, c, v)
            T == With(TrueSurface(ReadableDirs), c, v)
            f == [o \in S |-> Unowned(o)]
<1>1. IsFiniteSet(S) BY FS_Subset DEF With, ScanInv, ObjectsKnown
<1>2. ASSUME NEW o \in S PROVE Unowned(o) \in T
  <2>1. o \in objects /\ Verdict(o, c, FALSE) = v /\ o.class \in AllClasses BY DEF With, ScanInv, ObjectsKnown
  <2>2. o.class \in GrantClasses
    <3>1. Verdict(o, c, FALSE) \in {"covered", "gap"} BY <2>1
    <3>2. o.class # "Setuid" BY <3>1 DEF Verdict
    <3>. QED BY <2>1, <3>2 DEF AllClasses
  <2>3. Unowned(o) \in TrueSurface(ReadableDirs) BY <2>1, <2>2, SurfaceSeen
  <2>4. Verdict(Unowned(o), c, FALSE) = v BY <2>1, UnownedFields, VerdictByKey
  <2>. QED BY <2>3, <2>4 DEF With
<1>3. ASSUME NEW o \in S, NEW p \in S, Unowned(o) = Unowned(p) PROVE o = p
  <2>1. o.class = p.class /\ o.key = p.key BY <1>3, UnownedFields
  <2>2. /\ o = Object(o.class, o.key, o.prov) /\ p = Object(p.class, p.key, p.prov)
        /\ o.prov = ProvOf(o.key) /\ p.prov = ProvOf(p.key)
    BY DEF With, ScanInv, ObjectsKnown, ScanTypes, PassedGate
  <2>. QED BY <2>1, <2>2
<1>4. ASSUME NEW t \in T PROVE \E o \in S : t = Unowned(o)
  <2>1. t \in TrueSurface(ReadableDirs) /\ Verdict(t, c, FALSE) = v BY DEF With
  <2>2. PICK o \in objects : t = Unowned(o) BY <2>1, SurfaceSeen
  <2>3. Verdict(o, c, FALSE) = v BY <2>1, <2>2, UnownedFields, VerdictByKey
  <2>. QED BY <2>2, <2>3 DEF With
<1>. HIDE DEF S, T
<1>5. f \in Bijection(S, T)
  BY <1>2, <1>3, <1>4 DEF Bijection, Injection, Surjection, IsInjective
<1>6. ExistsBijection(S, T) BY <1>5 DEF ExistsBijection
<1>7. Cardinality(T) = Cardinality(S) BY <1>1, <1>6, FS_Bijection
<1>. QED BY <1>7 DEF S, T

LEMMA SameReport ==
  ASSUME ScanInv, PassedGate, NEW c
  PROVE  WeightedBelow(ReportOn(TrueSurface(ReadableDirs), c, FALSE), MinCoverage)
           <=> WeightedBelow(ReportOn(objects, c, FALSE), MinCoverage)
<1>1. ASSUME NEW surface
      PROVE  /\ ReportOn(surface, c, FALSE).covered = With(surface, c, "covered")
             /\ ReportOn(surface, c, FALSE).gaps = With(surface, c, "gap")
  BY DEF ReportOn, Buckets, With
<1>2. /\ Cardinality(With(TrueSurface(ReadableDirs), c, "covered")) = Cardinality(With(objects, c, "covered"))
      /\ Cardinality(With(TrueSurface(ReadableDirs), c, "gap")) = Cardinality(With(objects, c, "gap"))
  BY SameCount
<1>. QED BY <1>1, <1>2 DEF WeightedBelow

LEMMA GateStatic == ASSUME ScanInv, MinCoverage # NoMinimum PROVE GateSound
<1>. SUFFICES ASSUME exit = "success" PROVE GateSound
  BY DEF GateSound
<1>1. PassedGate BY DEF PassedGate
<1>2. TrueSurface(ReadableDirs) \subseteq {[o EXCEPT !.prov = "orphan"] : o \in objects}
  <2>1. SUFFICES ASSUME NEW t \in TrueSurface(ReadableDirs)
                 PROVE  \E o \in objects : t = [o EXCEPT !.prov = "orphan"]
    OBVIOUS
  <2>2. PICK o \in objects : t = Unowned(o) BY <1>1, SurfaceSeen
  <2>3. o = Object(o.class, o.key, o.prov) BY DEF ScanInv, ObjectsKnown
  <2>. QED BY <2>2, <2>3 DEF Unowned, Object
<1>3. ~WeightedBelow(ReportOn(objects, Granted, FALSE), MinCoverage) BY <1>1 DEF ScanInv, GateInv, PassedGate
<1>4. ~WeightedBelow(ReportOn(TrueSurface(ReadableDirs), Granted, FALSE), MinCoverage) BY <1>1, <1>3, SameReport
<1>. QED BY <1>2, <1>4 DEF GateSound, ReadableDirs

-----------------------------------------------------------------------------
(* The theorems.                                                           *)

\* A gate that passes has seen the device: whatever the tools do, the surface of
\* the classes that were asked for is in the report, and meets the threshold.
THEOREM GateIsSound == MinCoverage # NoMinimum => (Spec => []GateSound)
<1>. SUFFICES ASSUME MinCoverage # NoMinimum PROVE Spec => []GateSound
  OBVIOUS
<1>1. ScanInv => GateSound BY GateStatic
<1>. QED BY <1>1, ScanInvariant, PTL

\* An owned path is reported without its owner only if dpkg did not answer for it,
\* however the paths fall into batches and whichever batches fail.
THEOREM OwnersAreKept == Spec => []OwnersKept
<1>1. ASSUME ScanInv PROVE OwnersKept
  <2>. SUFFICES ASSUME step \in {"Report", "End"}, exit # "failure", NEW o \in objects,
                       o.key.abs, o.key \in DOMAIN host.owner
                PROVE  o.prov = ProvOf(o.key) /\ o.key \in known \cup silent
    BY DEF OwnersKept, ProvOf
  <2>. QED BY <1>1 DEF ScanInv, ObjectsKnown, OwnersInv
<1>. QED BY <1>1, ScanInvariant, PTL

\* The scan calls its tools as run_capture expects to be called, so that all that
\* is proved of run_capture holds of every tool of a scan: no child is left behind.
THEOREM ScanLeavesNothing == Spec => []CleanReturn
<1>1. ScanInv => CleanReturn BY DEF ScanInv, CaptureInv, Placed, CleanReturn
<1>. QED BY <1>1, ScanInvariant, PTL

\* The scan sees of run_capture what ToolCall says: a listing is complete, or its
\* class is degraded.
THEOREM ScanUsesCapture == Spec => CaptureImplements
<1>1. Init => TC!Init BY DEF Init, CaptureInit, TC!Init
<1>2. ASSUME ScanInv, [Next]_allVars PROVE [TC!Next]_<<request, result>>
  BY <1>2, ScanCalls, CaptureStepRefines DEF ScanInv, ScanTypes, ObjectsKnown
<1>. QED BY <1>1, <1>2, ScanInvariant, PTL DEF Spec, CaptureImplements, TC!Spec
=============================================================================
