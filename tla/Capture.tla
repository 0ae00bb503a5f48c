------------------------------ MODULE Capture ------------------------------
(***************************************************************************)
(* run_capture (coverage.rs): a tool is spawned with a pipe for its        *)
(* output, a thread drains the pipe, and a watchdog polls the child until  *)
(* it exits or the time is up, when the child is killed and reaped.        *)
(***************************************************************************)
EXTENDS Naturals

CONSTANTS Tools,     \* the tools that may be asked for, as records of ToolCall
          PipeCap,   \* lines the pipe holds
          Timeout    \* polls before the watchdog gives up

ASSUME CaptureAssumption ==
  /\ PipeCap \in Nat \ {0} /\ Timeout \in Nat
  /\ Tools \subseteq [name : STRING, state : {"absent", "broken", "present"}, out : Nat,
                      success : BOOLEAN, utf8 : BOOLEAN]

VARIABLES request,   \* the tool and whether a partial listing is accepted
          at,        \* where run_capture stands
          child,     \* the process: none, running, dying, ok, err, killed, reaped
          status,    \* the exit status the watchdog saw: none, ok, err
          wrote,     \* lines the child has written
          pipe,      \* lines in the pipe
          buf,       \* lines the reader thread holds
          reader,    \* the reader thread: none, reading, eof, failed
          polls,     \* polls made
          result

capVars == <<request, at, child, status, wrote, pipe, buf, reader, polls, result>>

TC == INSTANCE ToolCall

Requests == [tool : Tools, partial : BOOLEAN]

CaptureInit ==
  /\ request \in Requests
  /\ at = "idle" /\ child = "none" /\ status = "none" /\ reader = "none"
  /\ wrote = 0 /\ pipe = 0 /\ buf = 0 /\ polls = 0
  /\ result = TC!Nothing

\* The caller enters run_capture.
Call(q) ==
  /\ at \in {"idle", "done"}
  /\ request' = q /\ at' = "spawn" /\ result' = TC!Pending
  /\ child' = "none" /\ status' = "none" /\ reader' = "none"
  /\ wrote' = 0 /\ pipe' = 0 /\ buf' = 0 /\ polls' = 0

Finish(r) == at' = "done" /\ result' = r

Spawn ==
  /\ at = "spawn"
  /\ \/ request.tool.state = "absent" /\ Finish(TC!Absent) /\ UNCHANGED <<child, reader>>
     \/ request.tool.state = "broken" /\ Finish(TC!Degraded) /\ UNCHANGED <<child, reader>>
     \/ /\ request.tool.state = "present"
        /\ at' = "watch" /\ child' = "running" /\ reader' = "reading"
        /\ UNCHANGED result
  /\ UNCHANGED <<request, status, wrote, pipe, buf, polls>>

(***************************************************************************)
(* The child and the kernel.  A child may hang for ever, but it exits with *)
(* success only when it has printed everything.                            *)
(***************************************************************************)
ChildWrite ==
  /\ child = "running" /\ wrote < request.tool.out /\ pipe < PipeCap
  /\ wrote' = wrote + 1 /\ pipe' = pipe + 1
  /\ UNCHANGED <<request, at, child, status, buf, reader, polls, result>>

ChildExit ==
  /\ child = "running"
  /\ \/ request.tool.success /\ wrote = request.tool.out /\ child' = "ok"
     \/ ~request.tool.success /\ child' = "err"
  /\ UNCHANGED <<request, at, status, wrote, pipe, buf, reader, polls, result>>

\* SIGKILL takes effect some time after kill returns.
Die ==
  /\ child = "dying"
  /\ child' = "killed"
  /\ UNCHANGED <<request, at, status, wrote, pipe, buf, reader, polls, result>>

(***************************************************************************)
(* The reader thread, read_to_end.                                         *)
(***************************************************************************)
ReaderDrain ==
  /\ reader = "reading" /\ pipe > 0
  /\ pipe' = pipe - 1 /\ buf' = buf + 1
  /\ UNCHANGED <<request, at, child, status, wrote, reader, polls, result>>

\* Mutant: the thread stops as soon as the pipe is empty.
ReaderEof_Empty ==
  /\ reader = "reading" /\ pipe = 0
  /\ reader' = "eof"
  /\ UNCHANGED <<request, at, child, status, wrote, pipe, buf, polls, result>>

ReaderEof ==
  /\ reader = "reading" /\ pipe = 0
  /\ child \in {"ok", "err", "killed", "reaped"}
  /\ reader' = "eof"
  /\ UNCHANGED <<request, at, child, status, wrote, pipe, buf, polls, result>>

ReaderFails ==
  /\ reader = "reading"
  /\ reader' = "failed"
  /\ UNCHANGED <<request, at, child, status, wrote, pipe, buf, polls, result>>

(***************************************************************************)
(* The watchdog.                                                           *)
(***************************************************************************)
\* Mutant: the watchdog waits for the exit, however long it takes.
Poll_Patient ==
  /\ at = "watch"
  /\ child \in {"ok", "err"}
  /\ status' = child /\ child' = "reaped" /\ at' = "join"
  /\ UNCHANGED <<request, wrote, pipe, buf, reader, polls, result>>

Poll ==
  /\ at = "watch"
  /\ \/ /\ child \in {"ok", "err"}
        /\ status' = child /\ child' = "reaped" /\ at' = "join"
        /\ UNCHANGED polls
     \/ /\ child = "running" /\ polls < Timeout
        /\ polls' = polls + 1
        /\ UNCHANGED <<child, status, at>>
     \/ /\ child = "running" /\ polls = Timeout
        /\ at' = "kill"
        /\ UNCHANGED <<child, status, polls>>
  /\ UNCHANGED <<request, wrote, pipe, buf, reader, result>>

\* try_wait itself fails.
PollFails ==
  /\ at = "watch"
  /\ at' = "kill"
  /\ UNCHANGED <<request, child, status, wrote, pipe, buf, reader, polls, result>>

\* Mutant: the killed child is not waited for.
Kill_NoWait ==
  /\ at = "kill"
  /\ child' = IF child = "running" THEN "dying" ELSE child
  /\ at' = "drain"
  /\ UNCHANGED <<request, status, wrote, pipe, buf, reader, polls, result>>

Kill ==
  /\ at = "kill"
  /\ child' = IF child = "running" THEN "dying" ELSE child
  /\ at' = "wait"
  /\ UNCHANGED <<request, status, wrote, pipe, buf, reader, polls, result>>

Wait ==
  /\ at = "wait"
  /\ child \in {"ok", "err", "killed"}
  /\ child' = "reaped" /\ at' = "drain"
  /\ UNCHANGED <<request, status, wrote, pipe, buf, reader, polls, result>>

\* The thread of a killed child is joined and its output dropped.
JoinKilled ==
  /\ at = "drain"
  /\ reader \in {"eof", "failed"}
  /\ Finish(TC!Degraded)
  /\ UNCHANGED <<request, child, status, wrote, pipe, buf, reader, polls>>

Trusted ==
  /\ reader = "eof" /\ request.tool.utf8
  /\ status = "ok" \/ (request.partial /\ buf > 0)

Join ==
  /\ at = "join"
  /\ reader \in {"eof", "failed"}
  /\ Finish(IF Trusted THEN TC!Ok(buf) ELSE TC!Degraded)
  /\ UNCHANGED <<request, child, status, wrote, pipe, buf, reader, polls>>

Watchdog == Spawn \/ Poll \/ PollFails \/ Kill \/ Wait \/ JoinKilled \/ Join
Reader == ReaderDrain \/ ReaderEof \/ ReaderFails
CaptureStep == Watchdog \/ Reader \/ ChildWrite \/ ChildExit \/ Die

CaptureNext == CaptureStep \/ \E q \in Requests : Call(q)

CaptureSpec == CaptureInit /\ [][CaptureNext]_capVars

(***************************************************************************)
(* Properties.                                                             *)
(***************************************************************************)
\* Every variable keeps its type: in particular the pipe never holds more than it
\* can and the watchdog never polls past its limit (coverage.rs:2049).
CaptureTypeOK ==
  /\ request \in Requests
  /\ at \in {"idle", "spawn", "watch", "kill", "wait", "drain", "join", "done"}
  /\ child \in {"none", "running", "dying", "ok", "err", "killed", "reaped"}
  /\ status \in {"none", "ok", "err"}
  /\ reader \in {"none", "reading", "eof", "failed"}
  /\ wrote \in Nat /\ pipe \in 0..PipeCap /\ buf \in Nat /\ polls \in 0..Timeout
  /\ result \in [kind : {"none", "pending", "absent", "degraded", "ok"}, lines : Nat]

\* When run_capture returns, no process is left behind and no thread still reads
\* (coverage.rs:2069).
CleanReturn == at = "done" => child \in {"none", "reaped"} /\ reader # "reading"

\* run_capture implements ToolCall: every return is a permitted answer.
CaptureImplements == TC!Spec
=============================================================================
