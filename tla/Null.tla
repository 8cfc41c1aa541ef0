-------------------------------- MODULE Null --------------------------------
(* The null pointer of C, for MDriver and for Lists. *)
CONSTANT NULL
=============================================================================
