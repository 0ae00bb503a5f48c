----------------------------- MODULE AtomicFile -----------------------------
(***************************************************************************)
(* What the comments of Census promise of the files it replaces ("temp     *)
(* file, then rename"): a reader finds a whole content that somebody asked *)
(* for, and finds the next one from one moment to the next.  excused is    *)
(* true once something has happened that the promise does not extend to.   *)
(***************************************************************************)
VARIABLES content,   \* what a reader finds
          pending,   \* the acceptable contents being written
          excused

Init == ~excused

Begin == /\ pending \subseteq pending'
         /\ UNCHANGED <<content, excused>>

Commit == /\ content' \in pending
          /\ pending' \subseteq pending
          /\ UNCHANGED excused

\* A writer is done, has failed or was killed.
Leave == /\ pending' \subseteq pending
         /\ UNCHANGED <<content, excused>>

Next == Begin \/ Commit \/ Leave \/ excused'

Spec == Init /\ [][Next]_<<content, pending, excused>>
=============================================================================
