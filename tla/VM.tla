--------------------------------- MODULE VM ---------------------------------
(***************************************************************************)
(* The virtual memory simulation of A08-VirtualMemory/vm.c: a page table,  *)
(* a small physical memory, one file for each page that has been paged     *)
(* out, and the two replacement strategies, RANDOM and LRU.  The sorts     *)
(* that exercise it appear as loads and stores in any order.               *)
(*                                                                         *)
(* Virtual and physical addresses and lengths are counted in ints; a page  *)
(* of PAGE_SIZE bytes is INTS_PER_PAGE of them, and the shift by           *)
(* OFFSET_BITS in translate_addr is the product with INTS_PER_PAGE.        *)
(***************************************************************************)
EXTENDS Integers, FiniteSets

CONSTANTS
  NUM_FRAMES,
  NUM_PAGES,
  INTS_PER_PAGE,
  INT_SIZE,      \* bytes in an int
  Vals,          \* values of array elements
  data,          \* the array that gen_array made
  Garbage,       \* what malloc leaves in the marker and frame of an entry
  FIRST_LENS,    \* bound of the model: the first len of evaluate (2 there)
  MAX_MARK,      \* bound of the model: no access once use_marker is there
  NoFile

Pages == 0 .. NUM_PAGES - 1
Frames == 0 .. NUM_FRAMES - 1
Offsets == 0 .. INTS_PER_PAGE - 1
num_ints == NUM_PAGES * INTS_PER_PAGE
PhysicalAddrs == 0 .. NUM_FRAMES * INTS_PER_PAGE - 1
PageData == [Offsets -> Vals]
Entry == [frame_number : Nat, valid : BOOLEAN, lru_marker : Nat]

ASSUME VMAssumption ==
  /\ NUM_FRAMES \in Nat \ {0}
  /\ NUM_PAGES \in Nat /\ NUM_FRAMES <= NUM_PAGES
  /\ INTS_PER_PAGE \in Nat \ {0}
  /\ INT_SIZE \in Nat \ {0}
  /\ data \in [0 .. num_ints - 1 -> Vals]
  /\ Garbage \subseteq Nat /\ Garbage # {}
  /\ FIRST_LENS \subseteq 1 .. num_ints
  /\ MAX_MARK \in Nat
  /\ NoFile \notin PageData

VARIABLES
  page_table,
  physical_memory,
  files,         \* files[p]: what the file of page p holds, or NoFile
  use_marker,
  strategy,
  num_faults,
  num_accesses,
  len,           \* evaluate: length of the array of this experiment
  run,           \* evaluate: which of the four experiments with this length
  call,          \* history variables, not in the code: the last call of
                 \* initialize, load or store, and what it returned
  since          \* since[p] is the set of pages used after the last use of p

vars == <<page_table, physical_memory, files, use_marker, strategy,
          num_faults, num_accesses, len, run, call, since>>
-----------------------------------------------------------------------------
(* initialize *)

pages_in_use(n) == (n + INTS_PER_PAGE - 1) \div INTS_PER_PAGE

\* Mutant: the last frame is left out.
AllButLast(n) == {q \in Pages : q < NUM_FRAMES - 1 /\ q < pages_in_use(n)}

\* Pages that are in physical memory to begin with.
initially_valid(n) == {q \in Pages : q < NUM_FRAMES /\ q < pages_in_use(n)}

\* What the code stores in the file of page q at offset i: data_ptr is
\* data + page_num * PAGE_SIZE, PAGE_SIZE bytes but as many ints; past the
\* end of the array it reads whatever is there.
StoredAt(q, i) ==
  LET k == q * (INT_SIZE * INTS_PER_PAGE) + i
  IN  IF k < num_ints THEN {data[k]} ELSE Vals

paged_out(n) == {q \in Pages : NUM_FRAMES <= q /\ q < pages_in_use(n)}

\* The files once initialize has run, when they were before; the others stay.
initial_files(n, before) ==
  {[q \in Pages |-> IF q \in paged_out(n) THEN w[q] ELSE before[q]] :
     w \in {w \in [paged_out(n) -> PageData] :
              \A q \in paged_out(n), i \in Offsets : w[q][i] \in StoredAt(q, i)}}

\* The page table after initialize, which leaves the marker and frame of an
\* entry that is not valid as they are.
initial_table(n, before, marker) ==
  [q \in Pages |->
     IF q \in initially_valid(n)
       THEN [frame_number |-> q, valid |-> TRUE, lru_marker |-> marker + q]
       ELSE [before[q] EXCEPT !.valid = FALSE]]

\* The first NUM_FRAMES pages of data, in order.
initial_memory == [x \in PhysicalAddrs |-> data[x]]

\* initialize uses the pages that it makes valid one after the other, and no
\* other page.
initial_since(n) ==
  [q \in Pages |-> {r \in initially_valid(n) : q >= NUM_FRAMES \/ r > q}]

Init ==
  /\ len \in FIRST_LENS /\ run = 1 /\ strategy = "RANDOM"
  /\ \E g \in Garbage :
       page_table = initial_table(len,
         [q \in Pages |->
            [frame_number |-> g, valid |-> FALSE, lru_marker |-> g]], 0)
  /\ physical_memory = initial_memory
  /\ files \in initial_files(len, [q \in Pages |-> NoFile])
  /\ use_marker = Cardinality(initially_valid(len))
  /\ num_faults = 0 /\ num_accesses = 0
  /\ call = <<"initialize", len>>
  /\ since = initial_since(len)

\* evaluate goes on to its next experiment: RANDOM and LRU with one sort,
\* RANDOM and LRU with the other, then twice the length.
NextExperiment ==
  /\ run' = IF run = 4 THEN 1 ELSE run + 1
  /\ len' = IF run = 4 THEN 2 * len ELSE len
  /\ len' <= num_ints
  /\ strategy' = IF run' \in {1, 3} THEN "RANDOM" ELSE "LRU"
  /\ page_table' = initial_table(len', page_table, use_marker)
  /\ physical_memory' = initial_memory
  /\ files' \in initial_files(len', files)
  /\ use_marker' = use_marker + Cardinality(initially_valid(len'))
  /\ num_faults' = 0 /\ num_accesses' = 0
  /\ call' = <<"initialize", len'>>
  /\ since' = initial_since(len')
-----------------------------------------------------------------------------
(* access: translate_addr and handle_page_fault *)

page_of(a) == a \div INTS_PER_PAGE
offset_of(a) == a % INTS_PER_PAGE

Resident == {q \in Pages : page_table[q].valid}

\* The physical address of a under the page table pt, where its page is valid.
translate_addr(pt, a) ==
  pt[page_of(a)].frame_number * INTS_PER_PAGE + offset_of(a)

\* Mutant: a page is marked when it is loaded, and not when it is used.
Unmarked(pt, q) ==
  IF page_table[q].valid THEN pt ELSE [pt EXCEPT ![q].lru_marker = use_marker]

\* A page is marked whenever translate_addr finds it valid.
marked(pt, q) == [pt EXCEPT ![q].lru_marker = use_marker]

\* The pages that may be evicted: any, or the first with the least marker.
candidates ==
  IF strategy = "RANDOM" THEN Resident
  ELSE {q \in Resident : \A r \in Resident \ {q} :
          \/ page_table[q].lru_marker < page_table[r].lru_marker
          \/ page_table[q].lru_marker = page_table[r].lru_marker /\ q < r}

frame_data(f) == [i \in Offsets |-> physical_memory[f * INTS_PER_PAGE + i]]

\* Mutant: a page that has a file already is not written to it again.
WrittenOnce(v) ==
  IF files[v] # NoFile THEN files
  ELSE [files EXCEPT ![v] = frame_data(page_table[v].frame_number)]

\* Step 2: the file of the evicted page v takes what is in its frame.
written_back(v) ==
  [files EXCEPT ![v] = frame_data(page_table[v].frame_number)]

\* Step 3: the frame of v takes what is in the file of page q.
paged_in(v, q) ==
  [x \in PhysicalAddrs |->
     IF x \div INTS_PER_PAGE = page_table[v].frame_number
       THEN written_back(v)[q][x % INTS_PER_PAGE]
       ELSE physical_memory[x]]

\* Mutant: the evicted page stays valid.
StaysValid(v, q) ==
  [page_table EXCEPT
     ![q] = [@ EXCEPT !.frame_number = page_table[v].frame_number,
                      !.valid = TRUE]]

remapped(v, q) ==
  [page_table EXCEPT
     ![v].valid = FALSE,
     ![q] = [@ EXCEPT !.frame_number = page_table[v].frame_number,
                      !.valid = TRUE]]

\* translate_addr finds the page of a.
Hit(a) ==
  /\ page_of(a) \in Resident
  /\ page_table' = marked(page_table, page_of(a))
  /\ UNCHANGED <<files, num_faults>>

\* It does not; handle_page_fault evicts v, and translate_addr runs again.
Fault(a, v) ==
  /\ page_of(a) \notin Resident
  /\ files' = written_back(v)
  /\ page_table' = marked(remapped(v, page_of(a)), page_of(a))
  /\ num_faults' = num_faults + 1

\* What every access does, hit or fault.
Access(a) ==
  /\ use_marker < MAX_MARK
  /\ use_marker' = use_marker + 1
  /\ num_accesses' = num_accesses + 1
  /\ since' = [q \in Pages |-> IF q = page_of(a) THEN {}
                                ELSE since[q] \union {page_of(a)}]
  /\ UNCHANGED <<strategy, len, run>>

load(a) ==
  /\ Access(a)
  /\ \/ Hit(a) /\ UNCHANGED physical_memory
     \/ \E v \in candidates :
          Fault(a, v) /\ physical_memory' = paged_in(v, page_of(a))
  /\ call' = <<"load", a, physical_memory'[translate_addr(page_table', a)]>>

store(a, val) ==
  /\ Access(a)
  /\ LET phys_addr == translate_addr(page_table', a)
     IN  \/ /\ Hit(a)
            /\ physical_memory' = [physical_memory EXCEPT ![phys_addr] = val]
         \/ \E v \in candidates :
              /\ Fault(a, v)
              /\ physical_memory' =
                   [paged_in(v, page_of(a)) EXCEPT ![phys_addr] = val]
  /\ call' = <<"store", a, val>>

Next ==
  \/ NextExperiment
  \/ \E a \in 0 .. len - 1 : load(a) \/ \E val \in Vals : store(a, val)

Spec == Init /\ [][Next]_vars
-----------------------------------------------------------------------------
(* Properties *)

Calls ==
  {<<"initialize", n>> : n \in 1 .. num_ints}
    \union {"load", "store"} \X (0 .. num_ints - 1) \X Vals

TypeOK ==
  /\ page_table \in [Pages -> Entry]
  /\ physical_memory \in [PhysicalAddrs -> Vals]
  /\ files \in [Pages -> PageData \union {NoFile}]
  /\ use_marker \in Nat
  /\ strategy \in {"RANDOM", "LRU"}
  /\ num_faults \in 0 .. num_accesses
  /\ num_accesses \in Nat
  /\ len \in 1 .. num_ints
  /\ run \in 1 .. 4
  /\ call \in Calls
  /\ since \in [Pages -> SUBSET Pages]

InUse == {q \in Pages : q < pages_in_use(len)}

\* Resident pages are in use and have a frame each that no other page has,
\* and no frame is idle while a page is paged out.
FramesShared ==
  /\ Resident \subseteq InUse
  /\ \A q \in Resident : page_table[q].frame_number \in Frames
  /\ \A q, r \in Resident :
       page_table[q].frame_number = page_table[r].frame_number => q = r
  /\ Resident # InUse =>
       \A f \in Frames : \E q \in Resident : page_table[q].frame_number = f

\* A page that is in use and not in memory has a file to be read back from.
PagedOutOnDisk ==
  \A q \in InUse \ Resident : files[q] # NoFile

\* An array that fits into physical memory is never paged.
NoFaultWhenFits ==
  pages_in_use(len) <= NUM_FRAMES => num_faults = 0 /\ Resident = InUse

\* LRU replacement: a page is in memory if and only if fewer other pages than
\* there are frames have been used since its last use.
StackDistance ==
  strategy = "LRU" =>
    \A q \in InUse : q \in Resident <=> Cardinality(since[q]) < NUM_FRAMES

\* The array as the sorts see it.
flat ==
  [a \in 0 .. len - 1 |->
     IF page_of(a) \in Resident
       THEN physical_memory[translate_addr(page_table, a)]
       ELSE files[page_of(a)][offset_of(a)]]

\* The comments of initialize: it writes the pages of the array of randomized
\* data, to physical memory and to the files of paged-out pages.
InitializedFromData ==
  num_accesses = 0 => flat = [a \in 0 .. len - 1 |-> data[a]]

Memory == INSTANCE FlatMemory WITH
  contents <- flat,
  Lengths <- 1 .. num_ints

\* The pages, frames and files together behave as one array, whatever the
\* strategy evicts: load(a) returns element a and changes none, store(a, v)
\* changes element a to v and no other, and nothing else happens to the array
\* until initialize is called again.
ImplementsFlatMemory == Memory!Spec
=============================================================================
