------------------------------ MODULE ToolCall ------------------------------
(***************************************************************************)
(* What the scans of Census may rely on when they ask an external tool     *)
(* (coverage.rs, CaptureOutcome): the answer to a request, given once.     *)
(*                                                                         *)
(* A request is [tool, partial]: a tool that is absent, broken (it cannot  *)
(* be spawned) or present, with the number of lines it has to print,       *)
(* whether it exits with success and whether it prints UTF-8; and whether  *)
(* the caller accepts a partial listing.                                   *)
(***************************************************************************)
EXTENDS Naturals

VARIABLES request, result

Answer(kind, lines) == [kind |-> kind, lines |-> lines]
Nothing == Answer("none", 0)
Pending == Answer("pending", 0)
Absent == Answer("absent", 0)
Degraded == Answer("degraded", 0)
Ok(n) == Answer("ok", n)

\* A listing is handed over as complete only if it is, and a partial one only
\* to a caller that accepts it; an absent tool is never mistaken for a failed one.
Permitted(q, r) ==
  \/ r = Absent /\ q.tool.state = "absent"
  \/ r = Degraded /\ q.tool.state # "absent"
  \/ /\ r.kind = "ok" /\ r = Ok(r.lines)
     /\ q.tool.state = "present" /\ q.tool.utf8
     /\ \/ q.tool.success /\ r.lines = q.tool.out
        \/ q.partial /\ r.lines \in 1..q.tool.out

Init == result = Nothing

Ask == result # Pending /\ result' = Pending

Return == /\ result = Pending
          /\ Permitted(request, result')
          /\ UNCHANGED request

Next == Ask \/ Return

Spec == Init /\ [][Next]_<<request, result>>
=============================================================================
