-------------------------------- MODULE MCVM --------------------------------
(* Instances of VM for TLC. *)
EXTENDS VM

\* Alternating elements: data is not constant on a page.
Alternate == [k \in 0 .. num_ints - 1 |-> k % 2]

\* Elements that are all different.
Distinct == [k \in 0 .. num_ints - 1 |-> k]
=============================================================================
