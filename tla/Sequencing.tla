----------------------------- MODULE Sequencing -----------------------------
(* What several components do with lists: filter them and take the first.  *)
EXTENDS Naturals, Sequences, SequencesExt

\* A sequence of whatever it holds.
IsSeq(s) == s \in Seq(Range(s))

\* The members of a sequence at the places I, in their order.
Chosen(s, I) == FlattenSeq([i \in DOMAIN s |-> IF i \in I THEN <<s[i]>> ELSE <<>>])
=============================================================================
