------------------------------- MODULE MCSorts -------------------------------
(* Instances of Sorts for TLC. *)
EXTENDS Sorts

\* Lengths that evaluate uses.
Powers == {2, 4, 8} \intersect 1 .. NUM_INTS
=============================================================================
