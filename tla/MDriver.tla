------------------------------ MODULE MDriver ------------------------------
(***************************************************************************)
(* The driver of A06-DynamicMemory/mdriver.c, which judges an allocator:   *)
(* for each trace, eval_mm_valid replays the requests and checks every     *)
(* answer with a list of address ranges, eval_mm_util replays them again   *)
(* and measures how well the heap was used, and fsecs (the module FCyc)    *)
(* has eval_mm_speed replay them as often as it likes.  The allocator      *)
(* under test may answer anything; that of mm.c is the module MM.  With    *)
(* option -l the traces are first replayed with the malloc of libc.        *)
(*                                                                         *)
(* Addresses and sizes are in bytes, from the low end of the heap.         *)
(***************************************************************************)
EXTENDS Integers, Sequences, FiniteSets, Null

CONSTANTS
  ALIGNMENT,
  MAX_HEAP,
  Traces,        \* sequences of requests, as read_trace leaves them
  CHAR_SIGNED    \* is char a signed type?

Buffer == 0 .. MAX_HEAP - 1

\* What mm_malloc and mm_realloc may return: also addresses below the heap
\* and above it.
Pointers == -1 .. MAX_HEAP

OpTypes == {"ALLOC", "REALLOC", "FREE"}

Indices == UNION {{t[k].index : k \in DOMAIN t} : t \in Traces}

Executed(t, n, x) == {k \in 1 .. n : t[k].index = x}

\* The requests of trace t that allocate x and are not followed by its
\* release, after n requests.
LiveAfter(t, n) ==
  {x \in Indices : \E k \in Executed(t, n, x) :
     t[k].type # "FREE" /\ \A j \in Executed(t, n, x) : j <= k}

\* The size that the last of them has asked for.
SizeAfter(t, n, x) ==
  t[CHOOSE k \in Executed(t, n, x) : \A j \in Executed(t, n, x) : j <= k].size

ASSUME MDriverAssumption ==
  /\ ALIGNMENT \in Nat \ {0}
  /\ MAX_HEAP \in Nat
  /\ CHAR_SIGNED \in BOOLEAN
  /\ \A t \in Traces :
       /\ t \in Seq([type : OpTypes, index : Nat, size : Nat])
       /\ \A k \in DOMAIN t :
            /\ t[k].type = "ALLOC" <=> t[k].index \notin LiveAfter(t, k - 1)
            /\ t[k].type # "FREE" => t[k].size > 0
  /\ NULL \notin Int

VARIABLES
  trace,
  phase,          \* where main is with this trace
  i,              \* requests replayed in this phase
  ranges,         \* the range list
  blocks,
  block_sizes,
  mem,            \* the bytes of the heap
  heapsize,       \* mem_heapsize()
  total_size,     \* eval_mm_util
  max_total_size,
  honest,         \* history variables, not in the code: has the allocator
                  \* answered every request of this trace correctly?
  held            \* what it has handed out in this replay and not got back

eval == <<total_size, max_total_size>>
vars == <<trace, phase, i, ranges, blocks, block_sizes, mem, heapsize,
          total_size, max_total_size, honest, held>>
-----------------------------------------------------------------------------
(* What an allocator ought to do *)

Live == LiveAfter(trace, i)

payload(lo, size) == lo .. lo + size - 1

\* ptr is a correct answer to a request for size bytes, with the heap at hs
\* bytes and the payloads of the requests in others allocated.
Correct(ptr, size, hs, others) ==
  /\ ptr # NULL
  /\ ptr % ALIGNMENT = 0
  /\ payload(ptr, size) \subseteq 0 .. hs - 1
  /\ \A x \in others :
       payload(ptr, size)
         \intersect payload(blocks[x], SizeAfter(trace, i, x)) = {}
-----------------------------------------------------------------------------
(* The range list *)

range(lo, size) == [lo |-> lo, hi |-> lo + size - 1]

\* Mutant: only the low end of the new payload is tested.
LowEnd(lo, hi, r) == lo >= r.lo /\ lo <= r.hi

overlaps(lo, hi, r) ==
  (lo >= r.lo /\ lo <= r.hi) \/ (hi >= r.lo /\ hi <= r.hi)

\* Does add_range find nothing wrong with the payload?
add_range_ok(rs, lo, size, hs) ==
  LET hi == lo + size - 1
      in_heap(a) == ~(a < 0 \/ a > hs - 1)
  IN  /\ lo % ALIGNMENT = 0
      /\ in_heap(lo) /\ in_heap(hi)
      /\ \A k \in DOMAIN rs : ~overlaps(lo, hi, rs[k])

add_range(rs, lo, size) == <<range(lo, size)>> \o rs

\* Mutant: nothing is removed.
KeepsAll(rs, lo) == rs

\* The list without its first record that starts at lo.
remove_range(rs, lo) ==
  IF \A k \in DOMAIN rs : rs[k].lo # lo THEN rs
  ELSE LET k == CHOOSE k \in DOMAIN rs :
                  rs[k].lo = lo /\ \A j \in 1 .. k - 1 : rs[j].lo # lo
       IN  SubSeq(rs, 1, k - 1) \o SubSeq(rs, k + 1, Len(rs))
-----------------------------------------------------------------------------
(* eval_mm_valid *)

\* The value of a byte that is read through a char pointer.
as_char(b) == IF CHAR_SIGNED /\ b >= 128 THEN b - 256 ELSE b

low_byte(x) == x % 256

\* memset
filled(m, lo, size, b) ==
  [a \in Buffer |-> IF a \in payload(lo, size) THEN b ELSE m[a]]

\* Memory after a realloc that copies what the old block held.
moved(m, old, new, n) ==
  [a \in Buffer |-> IF a \in payload(new, n) THEN m[old + (a - new)] ELSE m[a]]

smaller(m, n) == IF m < n THEN m ELSE n

Init ==
  /\ trace \in Traces
  /\ phase \in {"libc_valid", "start"} /\ i = 0
  /\ ranges = <<>>
  /\ blocks = [x \in Indices |-> NULL]
  /\ block_sizes = [x \in Indices |-> 0]
  /\ mem = [a \in Buffer |-> 0]
  /\ heapsize = 0
  /\ total_size = 0 /\ max_total_size = 0
  /\ honest = TRUE
  /\ held = {}

\* mem_reset_brk, then mm_init, which obtains any amount of heap or fails.
mm_init(ready, failed) ==
  /\ held' = {}
  /\ \/ heapsize' \in 0 .. MAX_HEAP /\ phase' = ready /\ UNCHANGED honest
     \/ heapsize' = 0 /\ phase' = failed /\ honest' = FALSE

\* The package hands out ptr, unless it has failed, and takes back old.
HandOut(ptr, old) ==
  held' = IF ptr = NULL THEN held ELSE (held \ old) \union {ptr}

\* Mutant: clear_ranges is left out.
KeepRanges ==
  /\ phase = "start"
  /\ mm_init("valid", "invalid")
  /\ UNCHANGED <<trace, i, ranges, blocks, block_sizes, mem, eval>>

StartValid ==
  /\ phase = "start"
  /\ ranges' = <<>>
  /\ mm_init("valid", "invalid")
  /\ UNCHANGED <<trace, i, blocks, block_sizes, mem, eval>>

\* The next request in phase ph is of type ty.
NextOp(ph, ty) ==
  phase = ph /\ i < Len(trace) /\ trace[i + 1].type = ty

op == trace[i + 1]

\* The driver has found fault: main goes on to the next trace.
Reject == phase' = "invalid" /\ UNCHANGED <<i, blocks, block_sizes>>

Remember(ptr) ==
  /\ blocks' = [blocks EXCEPT ![op.index] = ptr]
  /\ block_sizes' = [block_sizes EXCEPT ![op.index] = op.size]
  /\ i' = i + 1 /\ UNCHANGED phase

ValidAlloc ==
  /\ NextOp("valid", "ALLOC")
  /\ heapsize' \in heapsize .. MAX_HEAP
  /\ \E ptr \in Pointers \union {NULL} :
       /\ honest' = (honest /\ Correct(ptr, op.size, heapsize', Live))
       /\ HandOut(ptr, {})
       /\ IF ptr # NULL /\ add_range_ok(ranges, ptr, op.size, heapsize')
            THEN /\ ranges' = add_range(ranges, ptr, op.size)
                 /\ mem' = filled(mem, ptr, op.size, low_byte(op.index))
                 /\ Remember(ptr)
            ELSE Reject /\ UNCHANGED <<ranges, mem>>
  /\ UNCHANGED <<trace, eval>>

\* mm_realloc either copies the data or, wrongly, does not.  The old range is
\* removed first; a block of wrong data is found after its range was added.
ValidRealloc ==
  /\ NextOp("valid", "REALLOC")
  /\ heapsize' \in heapsize .. MAX_HEAP
  /\ \E ptr \in Pointers \union {NULL}, copies \in BOOLEAN :
       LET oldp == blocks[op.index]
           oldsize == smaller(block_sizes[op.index], op.size)
           rest == remove_range(ranges, oldp)
           m == IF copies /\ ptr # NULL THEN moved(mem, oldp, ptr, oldsize)
                ELSE mem
       IN  /\ honest' = (honest /\ copies /\ Correct(ptr, op.size, heapsize',
                                                     Live \ {op.index}))
           /\ HandOut(ptr, {oldp})
           /\ \/ /\ ptr = NULL
                 /\ Reject /\ UNCHANGED ranges /\ mem' = m
              \/ /\ ptr # NULL
                 /\ ~add_range_ok(rest, ptr, op.size, heapsize')
                 /\ Reject /\ ranges' = rest /\ mem' = m
              \/ /\ ptr # NULL
                 /\ add_range_ok(rest, ptr, op.size, heapsize')
                 /\ ranges' = add_range(rest, ptr, op.size)
                 /\ IF \E j \in 0 .. oldsize - 1 :
                         as_char(m[ptr + j]) # low_byte(op.index)
                      THEN Reject /\ mem' = m
                      ELSE /\ mem' = filled(m, ptr, op.size, low_byte(op.index))
                           /\ Remember(ptr)
  /\ UNCHANGED <<trace, eval>>

\* mm_free or free takes back the block of the request.
GiveBack == held' = held \ {blocks[op.index]} /\ i' = i + 1

ValidFree ==
  /\ NextOp("valid", "FREE")
  /\ ranges' = remove_range(ranges, blocks[op.index])
  /\ GiveBack
  /\ UNCHANGED <<trace, phase, blocks, block_sizes, mem, heapsize, eval, honest>>
-----------------------------------------------------------------------------
(* eval_mm_util *)

\* The trace was valid: main has it measured.
StartUtil ==
  /\ phase = "valid" /\ i = Len(trace)
  /\ i' = 0
  /\ total_size' = 0 /\ max_total_size' = 0
  /\ mm_init("util", "exited")
  /\ UNCHANGED <<trace, ranges, blocks, block_sizes, mem>>

\* total_size becomes n, and the high water mark follows it.
Total(n) ==
  /\ total_size' = n
  /\ max_total_size' = IF n > max_total_size THEN n ELSE max_total_size

\* mm_malloc, or mm_realloc of old, returns ptr to a replay that checks only
\* for NULL, where app_error ends the program.
mm_answer(ptr, old) ==
  /\ heapsize' \in heapsize .. MAX_HEAP
  /\ honest' = (honest /\ Correct(ptr, op.size, heapsize', Live \ {op.index}))
  /\ HandOut(ptr, old)

Exit == phase' = "exited" /\ UNCHANGED <<i, blocks>>

UtilAnswer(n, old) ==
  /\ \E ptr \in Pointers \union {NULL} :
       /\ mm_answer(ptr, old)
       /\ IF ptr = NULL THEN Exit /\ UNCHANGED <<block_sizes, eval>>
          ELSE Remember(ptr) /\ Total(n)
  /\ UNCHANGED <<trace, ranges, mem>>

UtilAlloc ==
  /\ NextOp("util", "ALLOC")
  /\ UtilAnswer(total_size + op.size, {})

UtilRealloc ==
  /\ NextOp("util", "REALLOC")
  /\ UtilAnswer(total_size + (op.size - block_sizes[op.index]),
                {blocks[op.index]})

\* Mutant: what is freed still counts.
FreeForNothing ==
  /\ NextOp("util", "FREE")
  /\ GiveBack
  /\ UNCHANGED <<trace, phase, ranges, blocks, block_sizes, mem, heapsize,
                 total_size, max_total_size, honest>>

UtilFree ==
  /\ NextOp("util", "FREE")
  /\ total_size' = total_size - block_sizes[op.index]
  /\ GiveBack
  /\ UNCHANGED <<trace, phase, ranges, blocks, block_sizes, mem, heapsize,
                 max_total_size, honest>>

-----------------------------------------------------------------------------
(* eval_mm_speed, and the two replays with libc.  They keep the blocks and  *)
(* leave block_sizes alone.                                                 *)

\* Mutant: after a realloc the old block is kept.
KeepsOld(ptr) ==
  /\ IF op.type = "REALLOC" THEN UNCHANGED blocks
     ELSE blocks' = [blocks EXCEPT ![op.index] = ptr]
  /\ i' = i + 1 /\ UNCHANGED phase

Store(ptr) ==
  /\ blocks' = [blocks EXCEPT ![op.index] = ptr]
  /\ i' = i + 1 /\ UNCHANGED phase

\* The trace was measured, or is to be timed once more.
StartSpeed ==
  /\ phase \in {"util", "speed"} /\ i = Len(trace)
  /\ i' = 0
  /\ mm_init("speed", "exited")
  /\ UNCHANGED <<trace, ranges, blocks, block_sizes, mem, eval>>

SpeedAnswer(old) ==
  /\ \E ptr \in Pointers \union {NULL} :
       mm_answer(ptr, old) /\ IF ptr = NULL THEN Exit ELSE Store(ptr)
  /\ UNCHANGED <<trace, ranges, block_sizes, mem, eval>>

SpeedAlloc == NextOp("speed", "ALLOC") /\ SpeedAnswer({})

SpeedRealloc == NextOp("speed", "REALLOC") /\ SpeedAnswer({blocks[op.index]})

SpeedFree ==
  /\ NextOp("speed", "FREE")
  /\ GiveBack
  /\ UNCHANGED <<trace, phase, ranges, blocks, block_sizes, mem, heapsize, eval,
                 honest>>

InLibc == phase \in {"libc_valid", "libc_speed"}

\* The malloc of libc makes no mistakes, but may fail: unix_error exits.
LibcAnswer(old) ==
  /\ \E ptr \in (Pointers \ (held \ old)) \union {NULL} :
       HandOut(ptr, old) /\ IF ptr = NULL THEN Exit ELSE Store(ptr)
  /\ UNCHANGED <<trace, ranges, block_sizes, mem, heapsize, eval, honest>>

LibcAlloc == InLibc /\ NextOp(phase, "ALLOC") /\ LibcAnswer({})

LibcRealloc ==
  InLibc /\ NextOp(phase, "REALLOC") /\ LibcAnswer({blocks[op.index]})

LibcFree ==
  /\ InLibc /\ NextOp(phase, "FREE")
  /\ GiveBack
  /\ UNCHANGED <<trace, phase, ranges, blocks, block_sizes, mem, heapsize, eval,
                 honest>>

\* libc_valid is TRUE, and fsecs runs eval_libc_speed once or more.  What the
\* last replay has not freed is lost.
StartLibcSpeed ==
  /\ InLibc /\ i = Len(trace)
  /\ phase' = "libc_speed" /\ i' = 0 /\ held' = {}
  /\ UNCHANGED <<trace, ranges, blocks, block_sizes, mem, heapsize, eval, honest>>
-----------------------------------------------------------------------------
(* main *)

\* main goes on to the next trace, with new arrays and the old range list;
\* after the last one for libc it comes to the allocator under test.
NextTrace ==
  /\ \/ phase = "invalid"
     \/ phase \in {"speed", "libc_speed"} /\ i = Len(trace)
  /\ trace' \in Traces
  /\ phase' \in {"start"} \union (IF InLibc THEN {"libc_valid"} ELSE {})
  /\ i' = 0
  /\ blocks' = [x \in Indices |-> NULL]
  /\ block_sizes' = [x \in Indices |-> 0]
  /\ honest' = TRUE /\ held' = {}
  /\ UNCHANGED <<ranges, mem, heapsize, eval>>

Next ==
  \/ LibcAlloc \/ LibcRealloc \/ LibcFree \/ StartLibcSpeed
  \/ StartValid \/ ValidAlloc \/ ValidRealloc \/ ValidFree
  \/ StartUtil \/ UtilAlloc \/ UtilRealloc \/ UtilFree
  \/ StartSpeed \/ SpeedAlloc \/ SpeedRealloc \/ SpeedFree
  \/ NextTrace

Spec == Init /\ [][Next]_vars
-----------------------------------------------------------------------------
(* Properties *)

Ranges == [lo : Int, hi : Int]

TypeOK ==
  /\ trace \in Traces
  /\ phase \in {"libc_valid", "libc_speed", "start", "valid",
               "invalid", "util", "speed", "exited"}
  /\ i \in 0 .. Len(trace)
  /\ ranges \in Seq(Ranges)
  /\ blocks \in [Indices -> Pointers \union {NULL}]
  /\ block_sizes \in [Indices -> Nat]
  /\ mem \in [Buffer -> 0 .. 255]
  /\ heapsize \in 0 .. MAX_HEAP
  /\ total_size \in Int /\ max_total_size \in Int
  /\ honest \in BOOLEAN
  /\ held \subseteq Pointers

\* The range list holds the payloads of the live requests, each once:
\* remove_range always finds the record that is meant, and no other.
RangesAreLive ==
  phase = "valid" =>
    /\ {ranges[k] : k \in DOMAIN ranges}
         = {range(blocks[x], block_sizes[x]) : x \in Live}
    /\ Len(ranges) = Cardinality(Live)

\* What the test of add_range achieves: two payloads in the list may overlap
\* after all, but then the one added later (nearer to the head) reaches past
\* both ends of the other.
OverlapsEnclose ==
  \A j, k \in DOMAIN ranges : j < k =>
    \/ ranges[j].lo .. ranges[j].hi \intersect ranges[k].lo .. ranges[k].hi = {}
    \/ ranges[j].lo < ranges[k].lo /\ ranges[k].hi < ranges[j].hi

\* eval_mm_valid finds fault only with an allocator that made a mistake, but
\* for one case: where char is signed, it takes the data of a block with a low
\* byte of 128 or more for lost as soon as the block is reallocated.
NoFalseAlarm ==
  phase = "invalid" /\ honest =>
    CHAR_SIGNED /\ op.type = "REALLOC" /\ low_byte(op.index) >= 128

\* No correct allocator uses more than all of its heap: the utilization that
\* eval_mm_util returns is at most 1.
UtilizationAtMostOne ==
  phase = "util" /\ honest => max_total_size <= heapsize

\* In every replay the driver has exactly the blocks that a correct allocator
\* has handed out and not got back: it frees and reallocates no block twice,
\* none that it was never given, and none of an earlier replay.
HoldsWhatIsOut ==
  phase \notin {"start", "invalid", "exited"} /\ honest =>
    /\ held = {blocks[x] : x \in Live}
    /\ Cardinality(held) = Cardinality(Live)
=============================================================================
