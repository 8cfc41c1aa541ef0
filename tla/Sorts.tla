-------------------------------- MODULE Sorts --------------------------------
(***************************************************************************)
(* The sorts of A08-VirtualMemory/vm.c.  They see memory through load and  *)
(* store only, that is as the array of FlatMemory; a virtual address is    *)
(* counted in ints.  Each turn of a loop is an action.  The recursion of   *)
(* quick_sort is the stack of the calls that are still to be made, the     *)
(* next one first.                                                         *)
(***************************************************************************)
EXTENDS Integers, Sequences, FiniteSets

CONSTANTS
  NUM_INTS,   \* ints in virtual memory
  Vals,       \* values of elements
  Lengths     \* lengths of arrays to be sorted

ASSUME SortsAssumption ==
  /\ NUM_INTS \in Nat
  /\ Vals \subseteq Int
  /\ Lengths \subseteq 1 .. NUM_INTS

VARIABLES
  a,       \* the elements, as load sees them
  input,   \* history variable, not in the code: what they were at first
  len,     \* the length of the array that is sorted
  pc,
  i,       \* the variable i of every loop that has one
  j,       \* partition
  n,       \* heap_sort: the last position of the heap
  curr,    \* heapify and heap_sort; curr_pos of insertion_sort
  calls    \* quick_sort: calls <<start, end>>, made or to be made

vars == <<a, input, len, pc, i, j, n, curr, calls>>

Positions == 0 .. NUM_INTS - 1

\* The array m with two elements exchanged: two loads and two stores.
swap(m, x, y) == [m EXCEPT ![x] = m[y], ![y] = m[x]]

\* One of the sorts is called.
Init ==
  /\ input \in [Positions -> Vals] /\ a = input
  /\ len \in Lengths
  /\ pc \in {"selection", "insertion", "heapify", "call"}
  /\ i = IF pc = "heapify" THEN 1 ELSE 0
  /\ j = 0 /\ n = len - 1 /\ curr = i
  /\ calls = IF pc = "call" THEN <<<<0, len - 1>>>> ELSE <<>>
-----------------------------------------------------------------------------
(* selection_sort and insertion_sort *)

\* The first position from k on of a least element.
min_pos(k) ==
  CHOOSE m \in k .. len - 1 :
    \A x \in k .. len - 1 : a[m] < a[x] \/ (a[m] = a[x] /\ m <= x)

SelectionTurn ==
  /\ pc = "selection" /\ i < len
  /\ a' = swap(a, i, min_pos(i))
  /\ i' = i + 1
  /\ UNCHANGED <<input, len, pc, j, n, curr, calls>>

\* Mutant: the first element is not compared.
FirstIgnored == curr > 1 /\ a[curr - 1] > a[curr]

out_of_place == curr > 0 /\ a[curr - 1] > a[curr]

InsertionSwap ==
  /\ pc = "insertion" /\ i < len /\ out_of_place
  /\ a' = swap(a, curr - 1, curr)
  /\ curr' = curr - 1
  /\ UNCHANGED <<input, len, pc, i, j, n, calls>>

InsertionNext ==
  /\ pc = "insertion" /\ i < len /\ ~out_of_place
  /\ i' = i + 1 /\ curr' = i + 1
  /\ UNCHANGED <<a, input, len, pc, j, n, calls>>

LoopEnds ==
  /\ pc \in {"selection", "insertion"} /\ i >= len
  /\ pc' = "done"
  /\ UNCHANGED <<a, input, len, i, j, n, curr, calls>>
-----------------------------------------------------------------------------
(* heap_sort *)

parent(k) == (k - 1) \div 2
leftChild(k) == 2 * k + 1
rightChild(k) == 2 * k + 2

biggestChild(k, last) ==
  IF rightChild(k) > last \/ a[leftChild(k)] > a[rightChild(k)]
    THEN leftChild(k) ELSE rightChild(k)

above_parent == curr > 0 /\ a[curr] > a[parent(curr)]

\* heapify: the new element rises ...
SiftUp ==
  /\ pc = "heapify" /\ i < len /\ above_parent
  /\ a' = swap(a, curr, parent(curr))
  /\ curr' = parent(curr)
  /\ UNCHANGED <<input, len, pc, i, j, n, calls>>

\* ... until it is in place and the next one is added.
HeapifyNext ==
  /\ pc = "heapify" /\ i < len /\ ~above_parent
  /\ i' = i + 1 /\ curr' = i + 1
  /\ UNCHANGED <<a, input, len, pc, j, n, calls>>

Heapified ==
  /\ pc = "heapify" /\ i >= len
  /\ pc' = "extract" /\ n' = len - 1
  /\ UNCHANGED <<a, input, len, i, j, curr, calls>>

\* Mutant: the heap does not shrink.
ExtractsNone ==
  /\ pc = "extract" /\ n > 0
  /\ a' = swap(a, 0, n)
  /\ n' = n /\ curr' = 0
  /\ pc' = "sift"
  /\ UNCHANGED <<input, len, i, j, calls>>

\* The root goes to the end, and the last element to the root.
Extract ==
  /\ pc = "extract" /\ n > 0
  /\ a' = swap(a, 0, n)
  /\ n' = n - 1 /\ curr' = 0
  /\ pc' = "sift"
  /\ UNCHANGED <<input, len, i, j, calls>>

below_child ==
  LET child == biggestChild(curr, n) IN child <= n /\ a[curr] < a[child]

SiftDown ==
  /\ pc = "sift" /\ below_child
  /\ a' = swap(a, curr, biggestChild(curr, n))
  /\ curr' = biggestChild(curr, n)
  /\ UNCHANGED <<input, len, pc, i, j, n, calls>>

SiftEnds ==
  /\ pc = "sift" /\ ~below_child
  /\ pc' = "extract"
  /\ UNCHANGED <<a, input, len, i, j, n, curr, calls>>

HeapEmpty ==
  /\ pc = "extract" /\ n <= 0
  /\ pc' = "done"
  /\ UNCHANGED <<a, input, len, i, j, n, curr, calls>>
-----------------------------------------------------------------------------
(* quick_sort *)

start == calls[1][1]
end == calls[1][2]

\* partition moves to the start the median of three elements, the second of
\* which lies in the middle only when start is 0.
pivot_first ==
  LET mid == (end - start) \div 2
      v1 == a[start]  v2 == a[mid]  v3 == a[end]
  IN  IF (v2 >= v1 /\ v1 >= v3) \/ (v2 <= v1 /\ v1 <= v3) THEN a
      ELSE IF (v1 >= v2 /\ v2 >= v3) \/ (v1 <= v2 /\ v2 <= v3)
        THEN swap(a, start, mid)
      ELSE swap(a, start, end)

QuickReturns ==
  /\ pc = "call" /\ calls # <<>> /\ start >= end
  /\ calls' = Tail(calls)
  /\ UNCHANGED <<a, input, len, pc, i, j, n, curr>>

QuickPartitions ==
  /\ pc = "call" /\ calls # <<>> /\ start < end
  /\ a' = pivot_first
  /\ i' = start /\ j' = end
  /\ pc' = "partition"
  /\ UNCHANGED <<input, len, n, curr, calls>>

\* Mutant: elements equal to the pivot go after it.
EqualAfter == a[i + 1] < a[i]

\* Does the next element belong before the pivot?
goes_before == a[i + 1] <= a[i]

MoveBefore ==
  /\ pc = "partition" /\ i < j /\ goes_before
  /\ a' = swap(a, i + 1, i)
  /\ i' = i + 1
  /\ UNCHANGED <<input, len, pc, j, n, curr, calls>>

\* Mutant: j moves first.
MoveAfterLess ==
  /\ pc = "partition" /\ i < j /\ ~goes_before
  /\ a' = swap(a, i + 1, j - 1)
  /\ j' = j - 1
  /\ UNCHANGED <<input, len, pc, i, n, curr, calls>>

MoveAfter ==
  /\ pc = "partition" /\ i < j /\ ~goes_before
  /\ a' = swap(a, i + 1, j)
  /\ j' = j - 1
  /\ UNCHANGED <<input, len, pc, i, n, curr, calls>>

\* partition returns i; quick_sort calls itself for the two parts.
Partitioned ==
  /\ pc = "partition" /\ i >= j
  /\ calls' = <<<<start, i - 1>>, <<i + 1, end>>>> \o Tail(calls)
  /\ pc' = "call"
  /\ UNCHANGED <<a, input, len, i, j, n, curr>>

QuickDone ==
  /\ pc = "call" /\ calls = <<>>
  /\ pc' = "done"
  /\ UNCHANGED <<a, input, len, i, j, n, curr, calls>>
-----------------------------------------------------------------------------
Next ==
  \/ SelectionTurn \/ InsertionSwap \/ InsertionNext \/ LoopEnds
  \/ SiftUp \/ HeapifyNext \/ Heapified
  \/ Extract \/ SiftDown \/ SiftEnds \/ HeapEmpty
  \/ QuickReturns \/ QuickPartitions \/ MoveBefore \/ MoveAfter
  \/ Partitioned \/ QuickDone

\* A sequential program runs on.
Spec == Init /\ [][Next]_vars /\ WF_vars(Next)
-----------------------------------------------------------------------------
(* Properties *)

TypeOK ==
  /\ a \in [Positions -> Vals] /\ input \in [Positions -> Vals]
  /\ len \in Lengths
  /\ pc \in {"selection", "insertion", "heapify", "extract", "sift", "call",
             "partition", "done"}
  /\ i \in 0 .. len /\ j \in 0 .. len - 1
  /\ n \in 0 .. len - 1 /\ curr \in 0 .. len
  /\ calls \in Seq((0 .. len) \X (-1 .. len - 1))
  /\ pc = "partition" => calls # <<>> /\ start <= i /\ i <= j /\ j <= end

\* quick_sort: before the part that a call is to sort all elements are
\* strictly smaller than in it, and after it none is smaller.
PartsSeparated ==
  \A k \in DOMAIN calls :
    \A y \in calls[k][1] .. calls[k][2] :
      /\ \A x \in 0 .. calls[k][1] - 1 : a[x] < a[y]
      /\ \A z \in calls[k][2] + 1 .. len - 1 : a[y] <= a[z]

\* quick_sort: two elements that are out of order lie in the part of one call
\* that is still to be made; so no such call is left out.
DisorderInParts ==
  pc \in {"call", "partition"} =>
    \A x, y \in 0 .. len - 1 :
      (x < y /\ a[x] > a[y]) =>
        \E k \in DOMAIN calls : calls[k][1] <= x /\ y <= calls[k][2]

\* partition: the comment on its loop, but for elements equal to the pivot,
\* which are before it.
AroundPivot ==
  pc = "partition" =>
    /\ \A x \in start .. i - 1 : a[x] <= a[i]
    /\ \A y \in j + 1 .. end : a[i] < a[y]

\* A call of quick_sort changes nothing outside of its part, although
\* partition may compare, and swap, with an element outside.
StaysInPart ==
  [][a' # a /\ pc \in {"call", "partition"} =>
       \A x \in Positions : a'[x] # a[x] => x \in start .. end]_vars

\* When a sort returns the first len elements are sorted, each value occurs as
\* often as in the beginning, and the rest of memory is as it was.
Sorted ==
  pc = "done" =>
    /\ \A x, y \in 0 .. len - 1 : x < y => a[x] <= a[y]
    /\ \A v \in Vals : Cardinality({x \in Positions : a[x] = v})
                         = Cardinality({x \in Positions : input[x] = v})
    /\ \A x \in len .. NUM_INTS - 1 : a[x] = input[x]

\* Every sort returns.
Returns == <>(pc = "done")
=============================================================================
