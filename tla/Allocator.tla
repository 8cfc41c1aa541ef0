----------------------------- MODULE Allocator -----------------------------
(***************************************************************************)
(* What mm_malloc and mm_free promise to a client (A06-DynamicMemory/mm.h, *)
(* and the requirements mdriver.c checks in add_range): every request is   *)
(* given an interval of memory of its own, which stays its own, with what  *)
(* the client stored in it, until the client frees it.  How the interval   *)
(* is found, and what else is in memory, is left open.                     *)
(***************************************************************************)
EXTENDS Integers

CONSTANTS
  Ids,          \* names of requests
  Words,        \* addresses
  Lengths,      \* lengths, in words, that can be asked for
  Pattern(_)    \* what the client stores in the words of a request

\* owned[id] maps the words that belong to id to their contents.
VARIABLE owned

Nothing == [a \in {} |-> 0]

Init == owned = [id \in Ids |-> Nothing]

\* A request is granted an interval, one that overlaps no other, and filled.
Malloc(id) ==
  /\ owned[id] = Nothing /\ owned'[id] # Nothing
  /\ \E lo \in Words, n \in Lengths :
       owned' = [owned EXCEPT ![id] = [a \in lo .. lo + n - 1 |-> Pattern(id)]]
  /\ \A other \in Ids \ {id} :
       DOMAIN owned'[id] \intersect DOMAIN owned[other] = {}

\* An interval is given back.
Free(id) ==
  /\ owned[id] # Nothing
  /\ owned' = [owned EXCEPT ![id] = Nothing]

\* The heap is reset between two traces.
Reset == owned' = [id \in Ids |-> Nothing]

Next ==
  \/ \E id \in Ids : Malloc(id) \/ Free(id)
  \/ Reset

Spec == Init /\ [][Next]_owned
=============================================================================
