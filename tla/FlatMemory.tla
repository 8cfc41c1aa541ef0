----------------------------- MODULE FlatMemory -----------------------------
(***************************************************************************)
(* What initialize, load and store of A08-VirtualMemory/vm.c promise to    *)
(* the sorts that use them: an array of integers, as if there were no      *)
(* pages, no frames and no files.  The last call is part of the state, so  *)
(* that a step says which element was read or written and with which       *)
(* value, and nothing but initialize may put other values into the array.  *)
(***************************************************************************)
EXTENDS Integers

CONSTANTS
  Vals,       \* what an element may be
  Lengths     \* lengths of arrays

VARIABLES
  contents,   \* the array
  call        \* the last call, with its arguments and what it returned

Initialized(n) ==
  /\ call = <<"initialize", n>>
  /\ contents \in [0 .. n - 1 -> Vals]

Init == \E n \in Lengths : Initialized(n)

\* Another experiment begins, on an array with any contents.
Initialize(n) ==
  /\ call' = <<"initialize", n>>
  /\ contents' \in [0 .. n - 1 -> Vals]

Load(a) == call' = <<"load", a, contents[a]>> /\ UNCHANGED contents

Store(a, v) ==
  /\ call' = <<"store", a, v>>
  /\ contents' = [contents EXCEPT ![a] = v]

Next ==
  \/ \E n \in Lengths : Initialize(n)
  \/ \E a \in DOMAIN contents : Load(a) \/ \E v \in Vals : Store(a, v)

Spec == Init /\ [][Next]_<<contents, call>>
=============================================================================
