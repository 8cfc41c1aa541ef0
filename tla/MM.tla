--------------------------------- MODULE MM ---------------------------------
(***************************************************************************)
(* The allocator of A06-DynamicMemory/mm.c: an implicit list of blocks     *)
(* with boundary tags, next-fit placement, splitting, and coalescing on    *)
(* free; together with the client mdriver.c runs on it, which allocates    *)
(* and frees in any order a trace may use and fills what it is given.      *)
(*                                                                         *)
(* The program is sequential.  mm_free has no loop and is one action; a    *)
(* call of mm_malloc is a sequence of actions, one for each turn of the    *)
(* two loops of next_fit and one for placing the block, so that the loops  *)
(* follow the tags found in memory exactly as the code does.               *)
(***************************************************************************)
EXTENDS MemLib, FiniteSets

CONSTANTS
  CHUNK_SIZE,   \* words in the first block
  GROW,         \* mm.c's constant 256 (bytes), in words
  Ids,          \* trace ids of requests; a set of naturals
  Sizes,        \* request sizes, in bytes
  LibcWords,    \* what the memory from libc may hold, and the word below it
  ADDR_LIMIT,   \* bound of the model: no call that would raise top above it
  RESTARTS,     \* bound of the model: may the driver go on to another trace?
  NULL

base == 0
MIN_BLOCK == 4  \* 2 * WORD_SIZE + MIN_PAYLOAD, in words

\* A word of memory as the allocator reads it: the size in its upper bits,
\* the allocation status in bit 0.  The client's data are words as well.
Word == [size : Nat, alloc : BOOLEAN]

ASSUME MMAssumption ==
  /\ CHUNK_SIZE \in Nat /\ CHUNK_SIZE >= MIN_BLOCK
  /\ CHUNK_SIZE + 1 <= MAX_HEAP
  /\ GROW \in Nat
  /\ ADDR_LIMIT \in Nat /\ ADDR_LIMIT >= CHUNK_SIZE
  /\ RESTARTS \in BOOLEAN
  /\ Ids \subseteq Nat
  /\ Sizes \subseteq Nat \ {0}
  /\ LibcWords \subseteq Word
  /\ NULL \notin [ptr : Nat, size : Sizes]
  /\ NULL \notin [id : Ids, size : Sizes]

VARIABLES
  mem,      \* the words of memory, from the one below the heap up
  top,      \* end of the last block
  search,   \* where the previous search stopped
  pc,       \* where the current call of mm_malloc is
  p,        \* the local pointer of next_fit and mm_malloc
  req,      \* the request being served, or NULL
  blocks,   \* blocks[id]: the live allocation of trace id, or NULL
  heads     \* history variable, not in the code: the addresses of the blocks

heap == <<mem, top, search, mem_brk, heads>>
vars == <<mem, top, search, mem_brk, heads, pc, p, req, blocks>>

Addresses == base - 1 .. ADDR_LIMIT
-----------------------------------------------------------------------------
(* Block structure *)

is_allocated(b) == mem[b].alloc
block_size(b) == mem[b].size

payload_pointer(b) == b + 1
block_pointer(ptr) == ptr - 1
footer_pointer(b, size) == b + size - 1

\* Words that a request of size bytes touches; roundup counted in words.
roundup(size) == (size + 7) \div 8

\* Header, payload and footer of the block that serves a request.
adjusted_size(size) == 2 + (IF size < 16 THEN 2 ELSE roundup(size))

Tag(size, alloc) == [size |-> size, alloc |-> alloc]

\* Memory m after mark_block(b, size, alloc): header and footer are set.
mark_block(m, b, size, alloc) ==
  [m EXCEPT ![b] = Tag(size, alloc),
            ![footer_pointer(b, size)] = Tag(size, alloc)]

\* A word of the data that the client stores for id; read as a tag it could
\* pass for the header of a free block.
Pattern(id) == Tag(id, FALSE)
-----------------------------------------------------------------------------
(* mm_init, on a heap whose break has been reset *)

Init ==
  /\ \E junk \in LibcWords :
       mem = mark_block([a \in Addresses |-> junk], base, CHUNK_SIZE, FALSE)
  /\ mem_brk = BrkAfter(mem_start_brk, CHUNK_SIZE + 1)
  /\ top = base + CHUNK_SIZE
  /\ search = base
  /\ heads = {base}
  /\ pc = "idle" /\ p = base /\ req = NULL
  /\ blocks = [id \in Ids |-> NULL]

\* The driver starts the next trace: memory keeps what the last one left.
NewTrace ==
  /\ RESTARTS
  /\ pc = "idle"
  /\ mem' = mark_block(mem, base, CHUNK_SIZE, FALSE)
  /\ mem_brk' = BrkAfter(mem_start_brk, CHUNK_SIZE + 1)
  /\ top' = base + CHUNK_SIZE
  /\ search' = base
  /\ heads' = {base}
  /\ blocks' = [id \in Ids |-> NULL]
  /\ UNCHANGED <<pc, p, req>>
-----------------------------------------------------------------------------
(* mm_malloc *)

total == adjusted_size(req.size)

\* Mutant: any block that is large enough will do.
SkipsSmall(b) == block_size(b) < total

\* The block b does not serve the request: the loops of next_fit go on.
Skips(b) == is_allocated(b) \/ block_size(b) < total

\* Small requests extend the heap by GROW more than they need.
excess_of(totalsize) == IF totalsize < GROW THEN GROW ELSE 0
extension(totalsize) == totalsize + excess_of(totalsize)

\* Bound of the model: the heap has a block for the request, or has room to
\* grow below ADDR_LIMIT.
Serves(totalsize) ==
  \/ \E h \in heads : ~is_allocated(h) /\ block_size(h) >= totalsize
  \/ top + extension(totalsize) <= ADDR_LIMIT

MallocCall(id, size) ==
  /\ pc = "idle"
  /\ blocks[id] = NULL
  /\ Serves(adjusted_size(size))
  /\ req' = [id |-> id, size |-> size]
  /\ p' = search
  /\ pc' = "fit"
  /\ UNCHANGED <<heap, blocks>>

\* Mutant: the loop does not move on.
StandStill ==
  /\ pc = "fit"
  /\ p < top /\ Skips(p)
  /\ UNCHANGED vars

\* One turn of the loop from the last search position up to top.
ScanUp ==
  /\ pc = "fit"
  /\ p < top /\ Skips(p)
  /\ p' = p + block_size(p)
  /\ UNCHANGED <<heap, pc, req, blocks>>

\* The first loop ends at a block that fits ...
FoundAbove ==
  /\ pc = "fit"
  /\ p < top /\ ~Skips(p)
  /\ search' = p
  /\ pc' = "place"
  /\ UNCHANGED <<mem, top, mem_brk, heads, p, req, blocks>>

\* Mutant: only the part of the heap above search is searched.
NoWrap ==
  /\ pc = "fit"
  /\ p >= top
  /\ p' = top /\ search' = top
  /\ pc' = "place"
  /\ UNCHANGED <<mem, top, mem_brk, heads, req, blocks>>

\* ... or at top: start again from base.
WrapAround ==
  /\ pc = "fit"
  /\ p >= top
  /\ p' = base
  /\ pc' = "wrap"
  /\ UNCHANGED <<heap, req, blocks>>

\* One turn of the loop from base up to the last search position.
ScanBelow ==
  /\ pc = "wrap"
  /\ p < search /\ Skips(p)
  /\ p' = p + block_size(p)
  /\ UNCHANGED <<heap, pc, req, blocks>>

\* The second loop ends; without a block that fits the result is top.
SearchEnds ==
  /\ pc = "wrap"
  /\ ~(p < search /\ Skips(p))
  /\ p' = (IF p >= search THEN top ELSE p)
  /\ search' = p'
  /\ pc' = "place"
  /\ UNCHANGED <<mem, top, mem_brk, heads, req, blocks>>

\* Mutant: a block that is split keeps its old size.
KeepSize(blocksize, excess) ==
  /\ mem' = IF excess <= MIN_BLOCK
              THEN mark_block(mem, p, blocksize, TRUE)
              ELSE mark_block(mark_block(mem, p, blocksize, TRUE),
                              p + total, excess, FALSE)
  /\ heads' = heads \union
       (IF excess <= MIN_BLOCK THEN {p} ELSE {p, p + total})
  /\ pc' = "fill"
  /\ UNCHANGED <<search, p, req, blocks>>

\* The end of mm_malloc: take all of the block at p, or split it.
Place(blocksize, excess) ==
  /\ IF excess <= MIN_BLOCK
       THEN /\ mem' = mark_block(mem, p, blocksize, TRUE)
            /\ heads' = heads \union {p}
       ELSE /\ mem' = mark_block(mark_block(mem, p, total, TRUE),
                                 p + total, excess, FALSE)
            /\ heads' = heads \union {p, p + total}
  /\ pc' = "fill"
  /\ UNCHANGED <<search, p, req, blocks>>

\* Mutant: the break moves by less than top.
LowBreak ==
  /\ pc = "place" /\ p = top
  /\ mem_sbrk(total)
  /\ top' = top + extension(total)
  /\ Place(extension(total), excess_of(total))

\* No block fits: extend the heap.  The result of mem_sbrk is not looked at.
Extend ==
  /\ pc = "place" /\ p = top
  /\ mem_sbrk(extension(total))
  /\ top' = top + extension(total)
  /\ Place(extension(total), excess_of(total))

Reuse ==
  /\ pc = "place" /\ p # top
  /\ Place(block_size(p), block_size(p) - total)
  /\ UNCHANGED <<top, mem_brk>>

\* mm_malloc has returned: the driver fills the payload and remembers it.
Fill ==
  /\ pc = "fill"
  /\ LET ptr == payload_pointer(p)
         payload == ptr .. ptr + roundup(req.size) - 1
     IN  /\ mem' = [a \in Addresses |->
                      IF a \in payload THEN Pattern(req.id) ELSE mem[a]]
         /\ blocks' = [blocks EXCEPT ![req.id] =
                         [ptr |-> ptr, size |-> req.size]]
  /\ pc' = "idle" /\ p' = base /\ req' = NULL
  /\ UNCHANGED <<top, search, mem_brk, heads>>
-----------------------------------------------------------------------------
(* mm_free *)

\* Mutants: the block above is not asked whether it is free; the first block
\* of the heap is never joined (as in the code mm_free has commented out).
JoinsAnyNext(next_bp) == next_bp < top
JoinsAboveBase(prev_bp) == prev_bp > base /\ ~is_allocated(prev_bp)

joins_next(next_bp) == next_bp < top /\ ~is_allocated(next_bp)
joins_prev(prev_bp) == prev_bp >= base /\ ~is_allocated(prev_bp)

\* Mutant: the two corrections in the other order.
MovedOnce(bp, next_bp, prev_bp) ==
  LET s == IF joins_prev(prev_bp) /\ search = bp THEN prev_bp ELSE search
  IN  IF joins_next(next_bp) /\ s = next_bp THEN bp ELSE s

\* Where search goes when the blocks around bp are merged: a search pointer
\* at a block that disappears moves down to the block that swallows it.
moved_search(bp, next_bp, prev_bp) ==
  LET s == IF joins_next(next_bp) /\ search = next_bp THEN bp ELSE search
  IN  IF joins_prev(prev_bp) /\ s = bp THEN prev_bp ELSE s

Free(id) ==
  /\ pc = "idle"
  /\ blocks[id] # NULL
  /\ LET bp == block_pointer(blocks[id].ptr)
         next_bp == bp + block_size(bp)
         prev_bp == bp - block_size(bp - 1)
         new_head == IF joins_prev(prev_bp) THEN prev_bp ELSE bp
         new_end == IF joins_next(next_bp) THEN next_bp + block_size(next_bp)
                                           ELSE next_bp
     IN  /\ search' = moved_search(bp, next_bp, prev_bp)
         /\ mem' = mark_block(mem, new_head, new_end - new_head, FALSE)
         /\ heads' = {h \in heads : h <= new_head \/ h >= new_end}
  /\ blocks' = [blocks EXCEPT ![id] = NULL]
  /\ UNCHANGED <<top, mem_brk, pc, p, req>>
-----------------------------------------------------------------------------
MallocStep ==
  \/ ScanUp \/ FoundAbove \/ WrapAround \/ ScanBelow \/ SearchEnds
  \/ Extend \/ Reuse \/ Fill

Next ==
  \/ NewTrace
  \/ \E id \in Ids, size \in Sizes : MallocCall(id, size)
  \/ MallocStep
  \/ \E id \in Ids : Free(id)

Spec == Init /\ [][Next]_vars

\* mm_malloc runs to its end once it is called: nothing in the program can
\* hold it up.  The driver need not make another call.
FairSpec == Spec /\ WF_vars(MallocStep)
-----------------------------------------------------------------------------
(* Properties *)

TypeOK ==
  /\ mem \in [Addresses -> Word]
  /\ top \in base + CHUNK_SIZE .. ADDR_LIMIT
  /\ search \in base .. top
  /\ mem_brk \in base .. top + 1
  /\ heads \subseteq base .. top - 1
  /\ pc \in {"idle", "fit", "wrap", "place", "fill"}
  /\ p \in base .. top
  /\ req \in [id : Ids, size : Sizes] \union {NULL}
  /\ blocks \in [Ids -> [ptr : Nat, size : Sizes] \union {NULL}]
  /\ pc = "idle" <=> req = NULL
  /\ pc = "idle" => p = base

\* The block that serves the live request id.
block_of(id) == block_pointer(blocks[id].ptr)

Live == {id \in Ids : blocks[id] # NULL}

\* The blocks at hs tile the addresses from base to t of memory m: they are
\* large enough, the two tags of a block agree, each ends where the next one
\* or the heap ends and none reaches into another, and no space is left
\* between them.
Tiled(hs, m, t) ==
  /\ base \in hs
  /\ \A h \in hs :
       /\ h + m[h].size <= t
       /\ m[h].size >= MIN_BLOCK
       /\ m[footer_pointer(h, m[h].size)] = m[h]
       /\ h + m[h].size \in hs \union {t}
       /\ \A g \in hs : h < g => h + m[h].size <= g
  /\ \A g \in (hs \union {t}) \ {base} : \E h \in hs : h + m[h].size = g

\* The heap is tiled by its blocks.  A walk by sizes from base (next_fit,
\* mm_check) and one step back by a footer (mm_free) both depend on it.
HeapTiled == Tiled(heads, mem, top)

\* search is the address of a block, whatever was split or merged since the
\* last call; only between a failed search and the extension it is top.
SearchAtBlock ==
  search \in heads \/ (pc = "place" /\ search = top)

\* Coalescing leaves no two adjacent free blocks.
NoAdjacentFree ==
  \A h \in heads : LET next == h + block_size(h) IN
    (next # top /\ ~is_allocated(h)) => is_allocated(next)

\* Allocated blocks and live requests correspond one to one: no block is
\* leaked or shared, and each holds the payload that was asked for.
BlocksOwned ==
  /\ \A id \in Live :
       /\ block_of(id) \in heads
       /\ is_allocated(block_of(id))
       /\ roundup(blocks[id].size) + 2 <= block_size(block_of(id))
  /\ \A i, j \in Live : block_of(i) = block_of(j) => i = j
  /\ \A h \in heads : is_allocated(h) =>
       (\E id \in Live : block_of(id) = h) \/ (pc = "fill" /\ h = p)

\* The words that the client of id may use.
payload_of(id) ==
  blocks[id].ptr .. blocks[id].ptr + roundup(blocks[id].size) - 1

\* A payload lies within the extent of the heap, as add_range of mdriver.c
\* requires of every pointer that mm_malloc returns.
PayloadInHeap ==
  \A id \in Live : \A a \in payload_of(id) : a <= mem_heap_hi

\* next_fit gives up only if no free block in the whole heap would serve.
ExtendOnlyWhenFull ==
  (pc = "place" /\ p = top) => \A h \in heads : Skips(h)

\* What the two loops of next_fit and mm_malloc rely on between their steps:
\* they stand at a block or at the end, every block they have passed was of
\* no use, the block they settle on is, and a block being handed out is no
\* one else's.
Scanning ==
  /\ pc \in {"fit", "wrap"} => p \in heads \union {top}
  /\ pc = "fit" => \A h \in heads : search <= h /\ h < p => Skips(h)
  /\ pc = "wrap" => \A h \in heads : search <= h \/ h < p => Skips(h)
  /\ pc = "place" => search = p /\ (p = top \/ (p \in heads /\ ~Skips(p)))
  /\ pc \in {"fit", "wrap", "place"} => Serves(total)
  /\ pc = "fill" => /\ p \in heads /\ is_allocated(p)
                    /\ total <= block_size(p)
                    /\ \A id \in Live : block_of(id) # p
  /\ pc # "idle" => blocks[req.id] = NULL

\* Every call of mm_malloc returns: both loops of next_fit end.
MallocReturns == pc # "idle" ~> pc = "idle"

\* The words of live requests, with what is in them.
contents_of(id) ==
  IF id \in Live THEN [a \in payload_of(id) |-> mem[a]] ELSE [a \in {} |-> 0]

Promise == INSTANCE Allocator WITH
  owned <- [id \in Ids |-> contents_of(id)],
  Words <- Addresses,
  Lengths <- {roundup(size) : size \in Sizes}

\* mm.c with its client implements the abstract allocator: each block handed
\* out is apart from all live ones, and neither searching, splitting, merging
\* nor growing the heap changes a word the client owns.
ImplementsAllocator == Promise!Spec
=============================================================================
