------------------------------- MODULE MemLib -------------------------------
(***************************************************************************)
(* The simulated memory system of A06-DynamicMemory/memlib.c: one buffer   *)
(* of MAX_HEAP bytes obtained once from libc, and a break pointer that     *)
(* mem_sbrk moves up and only mem_reset_brk moves back.                    *)
(*                                                                         *)
(* Addresses and sizes are counted in words of 8 bytes (mm.c's WORD_SIZE)  *)
(* from mem_start_brk, which is therefore 0: libc's malloc returns storage *)
(* aligned to 16 bytes and every size mm.c passes on is a multiple of 8.   *)
(***************************************************************************)
EXTENDS Integers

CONSTANT MAX_HEAP    \* words in the buffer

ASSUME MaxHeapAssumption == MAX_HEAP \in Nat

VARIABLE mem_brk     \* first word past the heap

mem_start_brk == 0

\* The largest address that belongs to the heap.
mem_heap_hi == mem_brk - 1

mem_heapsize == mem_brk - mem_start_brk

\* The test of mem_sbrk, when the break stands at brk.
CanExtend(brk, incr) == incr >= 0 /\ brk + incr <= MAX_HEAP

\* The break that mem_sbrk(incr) leaves behind: a refused call does not move
\* it (and returns -1, which is for the caller to look at).
BrkAfter(brk, incr) == IF CanExtend(brk, incr) THEN brk + incr ELSE brk

mem_sbrk(incr) == mem_brk' = BrkAfter(mem_brk, incr)
=============================================================================
