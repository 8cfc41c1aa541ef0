------------------------------ MODULE VMProofs ------------------------------
(***************************************************************************)
(* Proofs about the virtual memory of VM.tla, for every number of pages    *)
(* and frames, page size, array and length.                                *)
(***************************************************************************)
EXTENDS VM, FiniteSetTheorems, TLAPS

(* Addresses *)

\* translate_addr splits an address into a page and an offset.
LEMMA PageFacts ==
  ASSUME NEW a \in 0 .. num_ints - 1
  PROVE  /\ page_of(a) \in Pages /\ offset_of(a) \in Offsets
         /\ a = INTS_PER_PAGE * page_of(a) + offset_of(a)
<1> DEFINE K == INTS_PER_PAGE
           q == a \div K
<1> USE VMAssumption
<1>0. K \in Nat /\ K > 0 /\ NUM_PAGES \in Nat /\ num_ints \in Nat
  BY DEF num_ints
<1>1. a \in Nat /\ a < NUM_PAGES * K
  BY <1>0 DEF num_ints
<1>2. q \in Nat /\ (a % K) \in 0 .. K - 1 /\ a = K * q + (a % K)
  BY <1>0, <1>1
<1>3. K * q <= a
  BY <1>0, <1>1, <1>2
<1>4. q < NUM_PAGES
  <2> SUFFICES ASSUME NUM_PAGES <= q PROVE FALSE
    BY <1>0, <1>2
  <2>1. \A x, y \in Nat : x <= y => K * x <= K * y
    BY <1>0
  <2>2. K * NUM_PAGES <= K * q
    BY <2>1, <1>0, <1>2
  <2> QED BY <1>0, <1>1, <1>3, <2>2
<1> QED
  BY <1>0, <1>2, <1>4 DEF page_of, offset_of, Pages, Offsets

\* Where word o of frame f is; at most one frame and offset lead there.
At(f, o) == f * INTS_PER_PAGE + o

\* A physical address determines the frame and the offset it was made from.
LEMMA AtFacts ==
  ASSUME NEW f \in Frames, NEW o \in Offsets
  PROVE  /\ At(f, o) \in PhysicalAddrs
         /\ At(f, o) \div INTS_PER_PAGE = f
         /\ At(f, o) % INTS_PER_PAGE = o
<1> DEFINE K == INTS_PER_PAGE
           x == f * K + o
<1> USE VMAssumption
<1>0. /\ K \in Nat /\ K > 0 /\ NUM_FRAMES \in Nat /\ f \in Nat /\ o \in Nat
      /\ o < K /\ f + 1 <= NUM_FRAMES
  BY DEF Frames, Offsets
<1>1. x \in Nat
  BY <1>0
<1>2. \A y, z \in Nat : y <= z => y * K <= z * K
  BY <1>0
<1>3. (f + 1) * K <= NUM_FRAMES * K
  BY <1>0, <1>2
<1>4. x < NUM_FRAMES * K
  <2>1. (f + 1) * K = f * K + K
    BY <1>0
  <2> QED BY <1>0, <1>3, <2>1
<1>5. NUM_FRAMES * K \in Nat
  BY <1>0
<1>6. x \div K = f /\ x % K = o
  BY <1>0, <1>1
<1> QED
  BY <1>1, <1>4, <1>5, <1>6 DEF At, PhysicalAddrs

\* A page and an offset determine the address.
LEMMA SameWord ==
  ASSUME NEW a \in 0 .. num_ints - 1, NEW b \in 0 .. num_ints - 1,
         page_of(a) = page_of(b), offset_of(a) = offset_of(b)
  PROVE  a = b
BY PageFacts

\* The addresses of an array of length n lie on the pages it uses.
LEMMA InUseFacts ==
  ASSUME NEW n \in 1 .. num_ints, NEW a \in 0 .. n - 1
  PROVE  a \in 0 .. num_ints - 1 /\ page_of(a) < pages_in_use(n)
<1> DEFINE K == INTS_PER_PAGE
           q == a \div K
           m == n + K - 1
           u == m \div K
<1> USE VMAssumption
<1>0. /\ K \in Nat /\ K > 0 /\ num_ints \in Nat /\ n \in Nat /\ a \in Nat
      /\ a < n /\ n <= num_ints /\ m \in Nat /\ m = n + K - 1
  BY DEF num_ints
<1> HIDE DEF m
<1>1. q \in Nat /\ (a % K) \in 0 .. K - 1 /\ a = K * q + (a % K)
  BY <1>0
<1>2. u \in Nat /\ (m % K) \in 0 .. K - 1 /\ m = K * u + (m % K)
  BY <1>0
<1> HIDE DEF q, u
<1>3. K * q < K * u
  BY <1>0, <1>1, <1>2
<1>4. \A x, y \in Nat : x <= y => K * x <= K * y
  BY <1>0
<1>5. q < u
  BY <1>0, <1>1, <1>2, <1>3, <1>4
<1> QED
  BY <1>0, <1>5 DEF page_of, pages_in_use, q, u, m
-----------------------------------------------------------------------------
(* The inductive invariant *)

\* Markers order the resident pages as their last uses do.
MarkersTell ==
  /\ \A q \in Resident : page_table[q].lru_marker < use_marker
  /\ \A q, r \in Resident : q # r =>
       /\ page_table[q].lru_marker # page_table[r].lru_marker
       /\ page_table[q].lru_marker < page_table[r].lru_marker <=> r \in since[q]

\* Under LRU the pages used since the last use of a resident page are all
\* resident, and every resident page has been used since the last use of a
\* page that is paged out.
StackOrder ==
  /\ \A q \in Pages : q \notin since[q]
  /\ strategy = "LRU" =>
       /\ \A q \in Resident : since[q] \subseteq Resident
       /\ \A q \in InUse \ Resident : Resident \subseteq since[q]

FramesFull ==
  /\ Cardinality(Resident) <= NUM_FRAMES
  /\ Resident # InUse => Cardinality(Resident) = NUM_FRAMES

IInv ==
  /\ TypeOK
  /\ FramesShared
  /\ PagedOutOnDisk
  /\ NoFaultWhenFits
  /\ MarkersTell
  /\ StackOrder
  /\ FramesFull

\* initialize makes the first pages valid, as many as there are frames or
\* as the array needs.
LEMMA InitiallyValid ==
  ASSUME NEW n \in 1 .. num_ints
  PROVE  /\ IsFiniteSet(initially_valid(n))
         /\ Cardinality(initially_valid(n)) <= NUM_FRAMES
         /\ Cardinality(initially_valid(n)) \in Nat
         /\ \A q \in initially_valid(n) : q < Cardinality(initially_valid(n))
         /\ pages_in_use(n) > NUM_FRAMES =>
              Cardinality(initially_valid(n)) = NUM_FRAMES
<1> USE VMAssumption
<1> DEFINE u == pages_in_use(n)
           k == IF u < NUM_FRAMES THEN u ELSE NUM_FRAMES
<1>1. u \in Nat
  <2>1. n + INTS_PER_PAGE - 1 \in Nat
    BY DEF num_ints
  <2> QED BY <2>1 DEF pages_in_use
<1> HIDE DEF u
<1>2. k \in Nat /\ k <= NUM_FRAMES /\ (u > NUM_FRAMES => k = NUM_FRAMES)
  BY <1>1
<1>3. initially_valid(n) = 0 .. k - 1
  <2>1. initially_valid(n) = {q \in Pages : q < NUM_FRAMES /\ q < u}
    BY DEF initially_valid, u
  <2> QED BY <2>1, <1>1 DEF Pages
<1> HIDE DEF k
<1>4. IsFiniteSet(0 .. k - 1) /\ Cardinality(0 .. k - 1) = k
  <2>1. PICK j \in Int : j = k - 1
    BY <1>2
  <2>2. IsFiniteSet(0 .. j) /\ Cardinality(0 .. j) = IF 0 > j THEN 0 ELSE j - 0 + 1
    BY <2>1, 0 \in Int, FS_Interval
  <2>3. (IF 0 > j THEN 0 ELSE j - 0 + 1) = k
    BY <1>2, <2>1
  <2> QED BY <2>1, <2>2, <2>3
<1>5. \A q \in initially_valid(n) : q < k
  BY <1>2, <1>3
<1>6. /\ IsFiniteSet(initially_valid(n))
      /\ Cardinality(initially_valid(n)) = k
  BY <1>3, <1>4
<1>7. u > NUM_FRAMES => k = NUM_FRAMES
  BY <1>2
<1> HIDE VMAssumption
<1> QED
  BY <1>2, <1>5, <1>6, <1>7 DEF u

\* The state in which initialize leaves the simulation.
Start ==
  /\ TypeOK
  /\ Resident = initially_valid(len)
  /\ \A q \in Resident : page_table[q].frame_number = q
  /\ \E m \in Nat : /\ use_marker = m + Cardinality(Resident)
                    /\ \A q \in Resident : page_table[q].lru_marker = m + q
  /\ \A q \in paged_out(len) : files[q] # NoFile
  /\ num_faults = 0
  /\ since = initial_since(len)

\* The state in which initialize leaves the simulation satisfies the invariant.
LEMMA StartInv == Start => IInv
<1> SUFFICES ASSUME Start PROVE IInv
  OBVIOUS
<1> USE VMAssumption
<1> DEFINE u == pages_in_use(len)
<1>0. TypeOK /\ len \in 1 .. num_ints
  BY DEF Start, TypeOK
<1>u. u \in Nat
  <2>1. len + INTS_PER_PAGE - 1 \in Nat
    BY <1>0 DEF num_ints
  <2> QED BY <2>1 DEF pages_in_use
<1>1. /\ Resident = {q \in Pages : q < NUM_FRAMES /\ q < u}
      /\ InUse = {q \in Pages : q < u}
      /\ \A q \in Pages : q \in Nat
  BY DEF Start, initially_valid, InUse, Pages
<1>2. /\ IsFiniteSet(Resident) /\ Cardinality(Resident) <= NUM_FRAMES
      /\ Cardinality(Resident) \in Nat
      /\ \A q \in Resident : q < Cardinality(Resident)
      /\ u > NUM_FRAMES => Cardinality(Resident) = NUM_FRAMES
  BY <1>0, InitiallyValid DEF Start
<1>3. \A q \in Pages : since[q] = {r \in Resident : q >= NUM_FRAMES \/ r > q}
  BY DEF Start, initial_since
<1> HIDE DEF u
<1>f. \A q \in Resident : page_table[q].frame_number = q
  BY DEF Start
<1>4. FramesShared
  <2>1. Resident # InUse => u > NUM_FRAMES
    BY <1>1, <1>u
  <2>2. u > NUM_FRAMES => \A f \in Frames : f \in Resident
    BY <1>1, <1>u DEF Frames, Pages
  <2>3. \A q \in Resident : q \in Frames
    BY <1>1 DEF Frames
  <2>4. Resident \subseteq InUse
    BY <1>1
  <2> QED BY <1>f, <2>1, <2>2, <2>3, <2>4 DEF FramesShared
<1>5. PagedOutOnDisk
  <2>1. \A q \in InUse \ Resident : q \in paged_out(len)
    BY <1>1, <1>u DEF paged_out, u
  <2> QED BY <2>1 DEF PagedOutOnDisk, Start
<1>6. NoFaultWhenFits
  <2>1. u <= NUM_FRAMES => Resident = InUse
    BY <1>1, <1>u
  <2> QED BY <2>1 DEF NoFaultWhenFits, Start, u
<1>7. MarkersTell
  <2>1. PICK m \in Nat : /\ use_marker = m + Cardinality(Resident)
                         /\ \A q \in Resident : page_table[q].lru_marker = m + q
    BY DEF Start
  <2>2. \A q \in Resident : q \in Nat /\ q < NUM_FRAMES /\ q \in Pages
    BY <1>1
  <2>3. \A q, r \in Resident : r \in since[q] <=> r > q
    BY <1>3, <2>2
  <2> QED BY <1>2, <2>1, <2>2, <2>3 DEF MarkersTell
<1>8. StackOrder
  <2>1. \A q \in Pages : q \notin since[q]
    BY <1>1, <1>3
  <2>2. \A q \in Resident : since[q] \subseteq Resident
    BY <1>1, <1>3
  <2>3. ASSUME NEW q \in InUse \ Resident PROVE Resident \subseteq since[q]
    <3>1. q \in Pages /\ q >= NUM_FRAMES
      BY <1>1, <1>u
    <3> QED BY <3>1, <1>3
  <2> QED BY <2>1, <2>2, <2>3 DEF StackOrder
<1>9. FramesFull
  <2>1. Resident # InUse => u > NUM_FRAMES
    BY <1>1, <1>u
  <2> QED BY <1>2, <2>1 DEF FramesFull
<1> QED
  BY <1>0, <1>4, <1>5, <1>6, <1>7, <1>8, <1>9 DEF IInv

\* What initialize does to the files and to the page table.
LEMMA FilesFacts ==
  ASSUME NEW n \in 1 .. num_ints,
         NEW before \in [Pages -> PageData \union {NoFile}],
         NEW after \in initial_files(n, before)
  PROVE  /\ after \in [Pages -> PageData \union {NoFile}]
         /\ \A q \in paged_out(n) : after[q] # NoFile
<1>1. PICK w \in [paged_out(n) -> PageData] :
        after = [q \in Pages |-> IF q \in paged_out(n) THEN w[q] ELSE before[q]]
  BY DEF initial_files
<1>2. paged_out(n) \subseteq Pages
  BY DEF paged_out
<1> QED
  BY <1>1, <1>2, VMAssumption

\* The page table after initialize.
LEMMA TableFacts ==
  ASSUME NEW n \in 1 .. num_ints, NEW before \in [Pages -> Entry],
         NEW m \in Nat, NEW pt, pt = initial_table(n, before, m)
  PROVE  /\ pt \in [Pages -> Entry]
         /\ {q \in Pages : pt[q].valid} = initially_valid(n)
         /\ \A q \in initially_valid(n) : /\ pt[q].frame_number = q
                                          /\ pt[q].lru_marker = m + q
<1>1. \A q \in Pages : q \in Nat /\ m + q \in Nat
  BY VMAssumption DEF Pages
<1>2. initially_valid(n) \subseteq Pages
  BY DEF initially_valid
<1>3. ASSUME NEW q \in Pages
      PROVE  /\ pt[q] \in Entry
             /\ pt[q].valid <=> q \in initially_valid(n)
             /\ q \in initially_valid(n) =>
                  pt[q].frame_number = q /\ pt[q].lru_marker = m + q
  <2>1. CASE q \in initially_valid(n)
    BY <2>1, <1>1 DEF initial_table, Entry
  <2>2. CASE q \notin initially_valid(n)
    BY <2>2 DEF initial_table, Entry
  <2> QED BY <2>1, <2>2
<1>4. pt = [q \in Pages |-> pt[q]]
  BY DEF initial_table
<1> QED
  BY <1>2, <1>3, <1>4

\* The physical memory after initialize.
LEMMA MemoryFacts == initial_memory \in [PhysicalAddrs -> Vals]
<1> USE VMAssumption
<1>1. NUM_FRAMES * INTS_PER_PAGE <= NUM_PAGES * INTS_PER_PAGE
  <2>1. \A x, y, z \in Nat : x <= y => x * z <= y * z
    OBVIOUS
  <2> QED BY <2>1
<1>2. NUM_FRAMES * INTS_PER_PAGE \in Nat /\ num_ints \in Nat
  BY DEF num_ints
<1>3. PhysicalAddrs \subseteq 0 .. num_ints - 1
  BY <1>1, <1>2 DEF PhysicalAddrs, num_ints
<1> QED
  BY <1>3 DEF initial_memory

\* The first call of initialize ...
LEMMA InitStart == Init => Start
<1> SUFFICES ASSUME Init PROVE Start
  OBVIOUS
<1> USE VMAssumption
<1> DEFINE none == [q \in Pages |-> NoFile]
<1>1. PICK g \in Garbage :
        page_table = initial_table(len,
          [q \in Pages |->
             [frame_number |-> g, valid |-> FALSE, lru_marker |-> g]], 0)
  BY DEF Init
<1>2. len \in 1 .. num_ints
  BY DEF Init
<1>3. [q \in Pages |->
         [frame_number |-> g, valid |-> FALSE, lru_marker |-> g]]
        \in [Pages -> Entry]
  <2>1. g \in Nat
    OBVIOUS
  <2>2. [frame_number |-> g, valid |-> FALSE, lru_marker |-> g] \in Entry
    BY <2>1 DEF Entry
  <2> QED BY <2>2
<1>4. /\ page_table \in [Pages -> Entry]
      /\ Resident = initially_valid(len)
      /\ \A q \in Resident : /\ page_table[q].frame_number = q
                             /\ page_table[q].lru_marker = 0 + q
  <2>1. 0 \in Nat
    OBVIOUS
  <2> HIDE VMAssumption
  <2>2. PICK before \in [Pages -> Entry] :
          page_table = initial_table(len, before, 0)
    BY <1>1, <1>3
  <2> QED BY <1>2, <2>1, <2>2, TableFacts DEF Resident
<1>5. files \in initial_files(len, none) /\ none \in [Pages -> PageData \union {NoFile}]
  BY DEF Init
<1>6. /\ files \in [Pages -> PageData \union {NoFile}]
      /\ \A q \in paged_out(len) : files[q] # NoFile
  BY <1>2, <1>5, FilesFacts
<1>7. use_marker = 0 + Cardinality(Resident) /\ use_marker \in Nat
  BY <1>2, <1>4, InitiallyValid DEF Init
<1>8. since \in [Pages -> SUBSET Pages]
  BY DEF Init, initial_since, initially_valid
<1>9. physical_memory \in [PhysicalAddrs -> Vals]
  BY MemoryFacts DEF Init
<1>10. TypeOK
  <2>1. /\ strategy = "RANDOM" /\ num_faults = 0 /\ num_accesses = 0
        /\ run = 1 /\ call \in Calls
    BY <1>2 DEF Init, Calls
  <2>2. 0 \in 0 .. 0 /\ 0 \in Nat /\ 1 \in 1 .. 4
    OBVIOUS
  <2> HIDE VMAssumption
  <2> QED
    BY <1>2, <1>4, <1>6, <1>7, <1>8, <1>9, <2>1, <2>2 DEF TypeOK
<1> QED
  BY <1>4, <1>6, <1>7, <1>10, 0 \in Nat DEF Start, Init

\* ... and each later one lead to such a state.
LEMMA NextExperimentStart ==
  ASSUME IInv, NextExperiment
  PROVE  Start'
<1> USE VMAssumption DEF IInv
<1>1. /\ page_table' = initial_table(len', page_table, use_marker)
      /\ page_table \in [Pages -> Entry] /\ use_marker \in Nat
      /\ files' \in initial_files(len', files)
      /\ files \in [Pages -> PageData \union {NoFile}]
      /\ run \in 1 .. 4 /\ len \in 1 .. num_ints /\ num_ints \in Nat
  BY DEF NextExperiment, TypeOK, num_ints
<1>2. len' \in 1 .. num_ints
  BY <1>1 DEF NextExperiment
<1>3. run' \in 1 .. 4
  BY <1>1 DEF NextExperiment
<1>4. PICK n \in 1 .. num_ints : n = len'
  BY <1>2
<1>5. /\ page_table' \in [Pages -> Entry]
      /\ Resident' = initially_valid(n)
      /\ \A q \in initially_valid(n) : /\ page_table'[q].frame_number = q
                                       /\ page_table'[q].lru_marker = use_marker + q
  BY <1>1, <1>4, TableFacts DEF Resident
<1>6. /\ files' \in [Pages -> PageData \union {NoFile}]
      /\ \A q \in paged_out(n) : files'[q] # NoFile
  BY <1>1, <1>4, FilesFacts
<1>7. /\ use_marker' = use_marker + Cardinality(initially_valid(n))
      /\ use_marker' \in Nat
  BY <1>1, <1>4, InitiallyValid DEF NextExperiment
<1>8. since' = initial_since(n) /\ since' \in [Pages -> SUBSET Pages]
  BY <1>4 DEF NextExperiment, initial_since, initially_valid
<1>9. physical_memory' \in [PhysicalAddrs -> Vals]
  BY MemoryFacts DEF NextExperiment
<1>10. call' \in Calls
  BY <1>2 DEF NextExperiment, Calls
<1>11. TypeOK'
  BY <1>2, <1>3, <1>5, <1>6, <1>7, <1>8, <1>9, <1>10 DEF TypeOK, NextExperiment
<1> QED
  BY <1>1, <1>4, <1>5, <1>6, <1>7, <1>8, <1>11 DEF Start, NextExperiment
-----------------------------------------------------------------------------
(* An access preserves the invariant *)

\* What an access to page q does, hit or fault, besides the page table, the
\* memory and the files.
Accessed(q) ==
  /\ use_marker' = use_marker + 1
  /\ since' = [p \in Pages |-> IF p = q THEN {} ELSE since[p] \union {q}]
  /\ UNCHANGED <<strategy, len>>

\* The use of a page that is resident afterwards, after which the table pt
\* maps the pages of R: the ones that were resident before (of which v may
\* have been evicted) and q.
LEMMA UseTells ==
  ASSUME TypeOK, MarkersTell, NEW q \in Pages, Accessed(q), TypeOK',
         \A p \in Resident' \ {q} :
           p \in Resident /\ page_table'[p] = page_table[p],
         q \in Resident', page_table'[q].lru_marker = use_marker
  PROVE  MarkersTell'
<1>1. use_marker \in Nat /\ use_marker' = use_marker + 1
  BY DEF TypeOK, Accessed
<1>2. \A p \in Resident' \ {q} :
        /\ page_table'[p].lru_marker = page_table[p].lru_marker
        /\ page_table[p].lru_marker \in Nat
        /\ page_table[p].lru_marker < use_marker
  BY DEF TypeOK, Entry, MarkersTell, Resident
<1>3. since'[q] = {} /\ \A p \in Resident' \ {q} : since'[p] = since[p] \union {q}
  BY DEF Accessed, Resident
<1>4. \A p \in Resident' : page_table'[p].lru_marker < use_marker'
  BY <1>1, <1>2
<1>5. ASSUME NEW p \in Resident', NEW r \in Resident', p # r
      PROVE  /\ page_table'[p].lru_marker # page_table'[r].lru_marker
             /\ page_table'[p].lru_marker < page_table'[r].lru_marker
                  <=> r \in since'[p]
  <2>1. CASE p = q
    BY <2>1, <1>1, <1>2, <1>3, <1>5
  <2>2. CASE r = q
    BY <2>2, <1>1, <1>2, <1>3, <1>5
  <2>3. CASE p # q /\ r # q
    <3>1. /\ page_table[p].lru_marker # page_table[r].lru_marker
          /\ page_table[p].lru_marker < page_table[r].lru_marker
               <=> r \in since[p]
      BY <2>3, <1>5 DEF MarkersTell
    <3>2. r \in since'[p] <=> r \in since[p]
      BY <2>3, <1>3
    <3> QED BY <2>3, <3>1, <3>2, <1>2
  <2> QED BY <2>1, <2>2, <2>3
<1> QED
  BY <1>4, <1>5 DEF MarkersTell

\* An access to a page that is valid preserves the invariant.
LEMMA HitInv ==
  ASSUME IInv, NEW q \in Resident, Accessed(q), TypeOK',
         page_table' = marked(page_table, q), UNCHANGED <<files, num_faults>>
  PROVE  IInv'
<1>1. page_table \in [Pages -> Entry] /\ q \in Pages /\ since \in [Pages -> SUBSET Pages]
  BY DEF IInv, TypeOK, Resident
<1>2. \A p \in Pages :
        /\ page_table'[p].valid <=> page_table[p].valid
        /\ page_table'[p].frame_number = page_table[p].frame_number
        /\ p # q => page_table'[p] = page_table[p]
  BY <1>1 DEF marked, Entry
<1>3. Resident' = Resident
  BY <1>2 DEF Resident
<1>4. InUse' = InUse /\ pages_in_use(len)' = pages_in_use(len) /\ strategy' = strategy
  BY DEF Accessed, InUse
<1>5. Resident \subseteq Pages
  BY DEF Resident
<1>6. FramesShared'
  BY <1>2, <1>3, <1>4, <1>5 DEF IInv, FramesShared
<1>7. PagedOutOnDisk'
  BY <1>3, <1>4 DEF IInv, PagedOutOnDisk
<1>8. NoFaultWhenFits'
  BY <1>3, <1>4 DEF IInv, NoFaultWhenFits
<1>9. page_table'[q].lru_marker = use_marker
  BY <1>1 DEF marked, Entry
<1>10. MarkersTell'
  BY <1>1, <1>2, <1>3, <1>5, <1>9, UseTells DEF IInv
<1>11. StackOrder'
  <2>1. \A p \in Pages : since'[p] = IF p = q THEN {} ELSE since[p] \union {q}
    BY DEF Accessed
  <2>2. ASSUME NEW p \in Pages PROVE p \notin since'[p]
    <3>1. p \notin since[p]
      BY DEF IInv, StackOrder
    <3>2. CASE p = q
      BY <3>2, <2>1
    <3>3. CASE p # q
      BY <3>1, <3>3, <2>1
    <3> QED BY <3>2, <3>3
  <2>3. ASSUME strategy' = "LRU", NEW p \in Resident
        PROVE  since'[p] \subseteq Resident
    <3>1. since[p] \subseteq Resident /\ p \in Pages
      BY <2>3, <1>4, <1>5 DEF IInv, StackOrder
    <3>2. CASE p = q
      BY <3>1, <3>2, <2>1
    <3>3. CASE p # q
      BY <3>1, <3>3, <2>1
    <3> QED BY <3>2, <3>3
  <2>4. ASSUME strategy' = "LRU", NEW p \in InUse \ Resident
        PROVE  Resident \subseteq since'[p]
    <3>1. p \in Pages /\ p # q
      BY DEF InUse
    <3> QED BY <3>1, <2>1, <2>4, <1>4 DEF IInv, StackOrder
  <2> QED BY <2>2, <2>3, <2>4, <1>3, <1>4 DEF StackOrder
<1>12. FramesFull'
  BY <1>3, <1>4 DEF IInv, FramesFull
<1> QED
  BY <1>6, <1>7, <1>8, <1>10, <1>11, <1>12 DEF IInv

\* The resident pages can be counted.
LEMMA ResidentFinite ==
  TypeOK => IsFiniteSet(Resident) /\ Cardinality(Resident) \in Nat
<1>1. IsFiniteSet(Pages)
  <2>1. PICK j \in Int : j = NUM_PAGES - 1
    BY VMAssumption
  <2> QED BY <2>1, 0 \in Int, FS_Interval DEF Pages
<1>2. Resident \in SUBSET Pages
  BY DEF Resident
<1> QED
  BY <1>1, <1>2, FS_Subset, FS_CardinalityType

\* The page table after a fault.
LEMMA FaultTable ==
  ASSUME NEW q \in Pages, NEW v \in Resident, q \notin Resident, TypeOK,
         page_table' = marked(remapped(v, q), q)
  PROVE  /\ page_table' \in [Pages -> Entry]
         /\ page_table'[q].frame_number = page_table[v].frame_number
         /\ page_table'[q].lru_marker = use_marker
         /\ \A p \in Pages \ {q, v} : page_table'[p] = page_table[p]
         /\ Resident' = (Resident \ {v}) \union {q}
         /\ v \in Pages /\ v # q
<1>1. page_table \in [Pages -> Entry] /\ v \in Pages /\ v # q /\ use_marker \in Nat
  BY DEF TypeOK, Resident
<1>2. page_table[v].frame_number \in Nat /\ page_table[v].lru_marker \in Nat
  BY <1>1 DEF Entry
<1>3. page_table'[q] = [frame_number |-> page_table[v].frame_number,
                        valid |-> TRUE, lru_marker |-> use_marker]
  BY <1>1 DEF marked, remapped, Entry
<1>4. /\ page_table'[v].valid = FALSE /\ page_table'[v] \in Entry
  BY <1>1, <1>2 DEF marked, remapped, Entry
<1>5. \A p \in Pages \ {q, v} : page_table'[p] = page_table[p]
  BY <1>1 DEF marked, remapped
<1>6. ASSUME NEW p \in Pages PROVE page_table'[p] \in Entry
  <2>1. CASE p = q
    BY <2>1, <1>1, <1>2, <1>3 DEF Entry
  <2>2. CASE p = v
    BY <2>2, <1>4
  <2>3. CASE p \notin {q, v}
    BY <2>3, <1>1, <1>5
  <2> QED BY <2>1, <2>2, <2>3
<1>7. page_table' = [p \in Pages |-> page_table'[p]]
  BY <1>1 DEF marked, remapped
<1>8. page_table' \in [Pages -> Entry]
  BY <1>6, <1>7
<1>9. Resident' = (Resident \ {v}) \union {q}
  BY <1>1, <1>3, <1>4, <1>5 DEF Resident
<1> QED
  BY <1>1, <1>3, <1>5, <1>8, <1>9

\* frame_data, written_back and paged_in stay in their types.
LEMMA FileTypes ==
  ASSUME TypeOK, FramesShared, NEW v \in Resident
  PROVE  /\ written_back(v) \in [Pages -> PageData \union {NoFile}]
         /\ written_back(v)[v] \in PageData
         /\ \A p \in Pages \ {v} : written_back(v)[p] = files[p]
         /\ v \in Pages /\ page_table[v].frame_number \in Frames
<1> DEFINE f == page_table[v].frame_number
<1>1. v \in Pages /\ f \in Frames
  BY DEF Resident, FramesShared
<1> HIDE DEF f
<1>2. \A i \in Offsets : physical_memory[f * INTS_PER_PAGE + i] \in Vals
  BY <1>1, AtFacts DEF At, TypeOK
<1>3. frame_data(f) \in PageData
  BY <1>2 DEF frame_data, PageData
<1>4. files \in [Pages -> PageData \union {NoFile}]
  BY DEF TypeOK
<1>5. written_back(v) = [files EXCEPT ![v] = frame_data(f)]
  BY DEF written_back, f
<1> QED
  BY <1>1, <1>3, <1>4, <1>5 DEF f

\* An access that faults, and evicts one of the candidates, preserves the
\* invariant.
LEMMA FaultInv ==
  ASSUME IInv, NEW q \in InUse, NEW v \in candidates, q \notin Resident,
         Accessed(q), TypeOK', files' = written_back(v),
         page_table' = marked(remapped(v, q), q)
  PROVE  IInv'
<1>0. /\ v \in Resident /\ TypeOK /\ FramesShared /\ q \in Pages
      /\ InUse' = InUse /\ pages_in_use(len)' = pages_in_use(len)
      /\ strategy' = strategy
  BY DEF candidates, IInv, InUse, Accessed
<1>1. /\ page_table'[q].frame_number = page_table[v].frame_number
      /\ page_table'[q].lru_marker = use_marker
      /\ \A p \in Pages \ {q, v} : page_table'[p] = page_table[p]
      /\ Resident' = (Resident \ {v}) \union {q}
      /\ v \in Pages /\ v # q
  BY <1>0, FaultTable
<1>2. Resident # InUse /\ Resident \subseteq InUse /\ Resident \subseteq Pages
  BY <1>0 DEF FramesShared, Resident
<1>3. FramesShared'
  <2>1. \A p \in Resident' \ {q} : p \in Resident /\ p # v /\ page_table'[p] = page_table[p]
    BY <1>1, <1>2
  <2>2. Resident' \subseteq InUse
    BY <1>1, <1>2
  <2>3. \A p \in Resident' : page_table'[p].frame_number \in Frames
    BY <2>1, <1>0, <1>1 DEF FramesShared
  <2>4. \A p, r \in Resident' :
          page_table'[p].frame_number = page_table'[r].frame_number => p = r
    BY <2>1, <1>0, <1>1 DEF FramesShared
  <2>5. ASSUME NEW f \in Frames
        PROVE  \E p \in Resident' : page_table'[p].frame_number = f
    <3>1. PICK p \in Resident : page_table[p].frame_number = f
      BY <1>0, <1>2 DEF FramesShared
    <3>2. CASE p = v
      BY <3>1, <3>2, <1>1
    <3>3. CASE p # v
      BY <3>1, <3>3, <1>0, <1>1, <1>2
    <3> QED BY <3>2, <3>3
  <2> QED BY <2>2, <2>3, <2>4, <2>5, <1>0 DEF FramesShared
<1>4. PagedOutOnDisk'
  <2>1. /\ files'[v] # NoFile
        /\ \A p \in Pages \ {v} : files'[p] = files[p]
    BY <1>0, FileTypes, VMAssumption
  <2>2. ASSUME NEW p \in InUse \ Resident' PROVE files'[p] # NoFile
    <3>1. p = v \/ (p \in InUse \ Resident /\ p \in Pages \ {v})
      BY <1>1 DEF InUse
    <3> QED BY <3>1, <2>1 DEF IInv, PagedOutOnDisk
  <2> QED BY <2>2, <1>0 DEF PagedOutOnDisk
<1>5. NoFaultWhenFits'
  BY <1>0, <1>2 DEF IInv, NoFaultWhenFits
<1>6. MarkersTell'
  <2>1. /\ \A p \in Resident' \ {q} :
             p \in Resident /\ page_table'[p] = page_table[p]
        /\ q \in Resident'
    BY <1>1, <1>2
  <2> QED BY <2>1, <1>0, <1>1, UseTells DEF IInv
<1>7. StackOrder'
  <2>1. \A p \in Pages : since'[p] = IF p = q THEN {} ELSE since[p] \union {q}
    BY DEF Accessed
  <2>2. ASSUME NEW p \in Pages PROVE p \notin since'[p]
    <3>1. p \notin since[p]
      BY DEF IInv, StackOrder
    <3>2. CASE p = q
      BY <3>2, <2>1
    <3>3. CASE p # q
      BY <3>1, <3>3, <2>1
    <3> QED BY <3>2, <3>3
  <2>3. ASSUME strategy = "LRU", NEW p \in Resident, p # v
        PROVE  p \in since[v] /\ v \notin since[p]
    <3>1. /\ page_table[v].lru_marker <= page_table[p].lru_marker
          /\ page_table[v].lru_marker # page_table[p].lru_marker
          /\ page_table[v].lru_marker \in Nat /\ page_table[p].lru_marker \in Nat
      <4>1. page_table[v].lru_marker \in Nat /\ page_table[p].lru_marker \in Nat
        BY <1>0, <1>2 DEF TypeOK, Entry
      <4>2. page_table[v].lru_marker # page_table[p].lru_marker
        BY <1>0, <2>3 DEF IInv, MarkersTell
      <4>3. \/ page_table[v].lru_marker < page_table[p].lru_marker
            \/ page_table[v].lru_marker = page_table[p].lru_marker
        BY <2>3 DEF candidates
      <4> QED BY <4>1, <4>2, <4>3
    <3>2. /\ page_table[v].lru_marker < page_table[p].lru_marker <=> p \in since[v]
          /\ page_table[p].lru_marker < page_table[v].lru_marker <=> v \in since[p]
      BY <1>0, <2>3 DEF IInv, MarkersTell
    <3> QED BY <3>1, <3>2
  <2>4. ASSUME strategy = "LRU", NEW p \in Resident'
        PROVE  since'[p] \subseteq Resident'
    <3>1. CASE p = q
      BY <3>1, <2>1, <1>0
    <3>2. CASE p # q
      <4>1. p \in Resident /\ p # v /\ p \in Pages
        BY <3>2, <1>1, <1>2
      <4>2. since[p] \subseteq Resident /\ v \notin since[p]
        BY <4>1, <2>3, <2>4 DEF IInv, StackOrder
      <4>3. since'[p] = since[p] \union {q}
        BY <4>1, <3>2, <2>1
      <4>4. q \in Resident' /\ Resident \ {v} \subseteq Resident'
        BY <1>1
      <4> QED BY <4>2, <4>3, <4>4
    <3> QED BY <3>1, <3>2
  <2>5. ASSUME strategy = "LRU", NEW p \in InUse \ Resident'
        PROVE  Resident' \subseteq since'[p]
    <3>1. p \in Pages /\ p # q /\ since'[p] = since[p] \union {q}
      BY <2>1, <1>1 DEF InUse
    <3>2. CASE p = v
      BY <3>1, <3>2, <2>3, <2>5, <1>1
    <3>3. CASE p # v
      <4>1. p \in InUse \ Resident
        BY <3>3, <1>1
      <4> QED BY <4>1, <3>1, <2>5, <1>1 DEF IInv, StackOrder
    <3> QED BY <3>2, <3>3
  <2> QED BY <2>2, <2>4, <2>5, <1>0 DEF StackOrder
<1>8. FramesFull'
  <2>1. IsFiniteSet(Resident) /\ Cardinality(Resident) \in Nat
    BY <1>0, ResidentFinite
  <2>2. Cardinality(Resident) = NUM_FRAMES
    BY <1>2 DEF IInv, FramesFull
  <2>3. /\ IsFiniteSet(Resident \ {v})
        /\ Cardinality(Resident \ {v}) = Cardinality(Resident) - 1
    BY <2>1, <1>0, FS_RemoveElement
  <2>4. q \notin Resident \ {v}
    OBVIOUS
  <2>5. Cardinality(Resident') = Cardinality(Resident \ {v}) + 1
    BY <2>3, <2>4, <1>1, FS_AddElement
  <2>6. Cardinality(Resident') = NUM_FRAMES
    BY <2>1, <2>2, <2>3, <2>5
  <2> QED BY <2>6, VMAssumption DEF FramesFull
<1> QED
  BY <1>3, <1>4, <1>5, <1>6, <1>7, <1>8 DEF IInv

-----------------------------------------------------------------------------
(* Every step preserves the invariant *)

\* The page of an address of the array is in use.
LEMMA AddressFacts ==
  ASSUME TypeOK, NEW a \in 0 .. len - 1
  PROVE  /\ a \in 0 .. num_ints - 1 /\ page_of(a) \in InUse
         /\ page_of(a) \in Pages /\ offset_of(a) \in Offsets
<1>1. PICK n \in 1 .. num_ints : n = len
  BY DEF TypeOK
<1>2. a \in 0 .. n - 1
  BY <1>1
<1>3. a \in 0 .. num_ints - 1 /\ page_of(a) < pages_in_use(n)
  BY <1>2, InUseFacts
<1>4. page_of(a) \in Pages /\ offset_of(a) \in Offsets
  BY <1>3, PageFacts
<1> QED
  BY <1>1, <1>3, <1>4 DEF InUse

\* What an access does to the types of the variables of Accessed, and what it
\* adds to them.
LEMMA AccessFacts ==
  ASSUME TypeOK, NEW a \in 0 .. len - 1, Access(a)
  PROVE  /\ Accessed(page_of(a))
         /\ use_marker' \in Nat /\ num_accesses' \in Nat
         /\ num_accesses' = num_accesses + 1
         /\ num_faults \in 0 .. num_accesses'
         /\ num_faults + 1 \in 0 .. num_accesses'
         /\ strategy' \in {"RANDOM", "LRU"}
         /\ len' \in 1 .. num_ints /\ run' \in 1 .. 4
         /\ since' \in [Pages -> SUBSET Pages]
<1>1. page_of(a) \in Pages
  BY AddressFacts
<1>2. /\ Accessed(page_of(a)) /\ num_accesses' = num_accesses + 1
      /\ UNCHANGED <<strategy, len, run>> /\ use_marker' = use_marker + 1
  BY DEF Access, Accessed
<1>3. /\ use_marker \in Nat /\ num_accesses \in Nat
      /\ num_faults \in 0 .. num_accesses
      /\ strategy \in {"RANDOM", "LRU"} /\ len \in 1 .. num_ints
      /\ run \in 1 .. 4 /\ since \in [Pages -> SUBSET Pages]
  BY DEF TypeOK
<1>4. since' \in [Pages -> SUBSET Pages]
  <2>1. since' = [p \in Pages |-> IF p = page_of(a) THEN {}
                                  ELSE since[p] \union {page_of(a)}]
    BY DEF Access
  <2> QED BY <2>1, <1>1, <1>3
<1> QED
  BY <1>2, <1>3, <1>4

\* After a hit, and after a fault, the page of a is in a frame.
LEMMA HitFacts ==
  ASSUME TypeOK, FramesShared, NEW q \in Resident,
         page_table' = marked(page_table, q)
  PROVE  /\ page_table' \in [Pages -> Entry]
         /\ page_table'[q].frame_number = page_table[q].frame_number
         /\ page_table[q].frame_number \in Frames
         /\ Resident' = Resident
         /\ \A p \in Pages :
              page_table'[p].frame_number = page_table[p].frame_number
<1>1. page_table \in [Pages -> Entry] /\ q \in Pages /\ use_marker \in Nat
  BY DEF TypeOK, Resident
<1>2. \A p \in Pages :
        /\ page_table'[p].valid <=> page_table[p].valid
        /\ page_table'[p].frame_number = page_table[p].frame_number
  BY <1>1 DEF marked, Entry
<1>3. page_table' \in [Pages -> Entry]
  BY <1>1 DEF marked, Entry
<1> QED
  BY <1>1, <1>2, <1>3 DEF Resident, FramesShared

\* The memory that a fault leaves, before a store.
LEMMA PagedInFacts ==
  ASSUME IInv, NEW q \in InUse, NEW v \in Resident, q \notin Resident
  PROVE  /\ paged_in(v, q) \in [PhysicalAddrs -> Vals]
         /\ written_back(v)[q] = files[q] /\ files[q] \in PageData
         /\ \A o \in Offsets :
              paged_in(v, q)[At(page_table[v].frame_number, o)] = files[q][o]
         /\ \A f \in Frames \ {page_table[v].frame_number}, o \in Offsets :
              paged_in(v, q)[At(f, o)] = physical_memory[At(f, o)]
<1> DEFINE g == page_table[v].frame_number
<1>1. q \in Pages /\ q # v /\ TypeOK /\ FramesShared
  BY DEF InUse, IInv
<1>2. written_back(v)[q] = files[q] /\ g \in Frames
  BY <1>1, FileTypes
<1>3. files[q] \in PageData
  BY <1>1 DEF IInv, PagedOutOnDisk, TypeOK
<1>4. physical_memory \in [PhysicalAddrs -> Vals]
  BY <1>1 DEF TypeOK
<1> HIDE DEF g
<1>5. paged_in(v, q) =
        [x \in PhysicalAddrs |->
           IF x \div INTS_PER_PAGE = g THEN files[q][x % INTS_PER_PAGE]
           ELSE physical_memory[x]]
  BY <1>2 DEF paged_in, g
<1>6. \A x \in PhysicalAddrs : x % INTS_PER_PAGE \in Offsets
  BY VMAssumption DEF PhysicalAddrs, Offsets
<1>7. paged_in(v, q) \in [PhysicalAddrs -> Vals]
  <2>1. \A o \in Offsets : files[q][o] \in Vals
    BY <1>3 DEF PageData
  <2> QED BY <2>1, <1>4, <1>5, <1>6
<1>8. \A f \in Frames, o \in Offsets :
        /\ At(f, o) \in PhysicalAddrs
        /\ At(f, o) \div INTS_PER_PAGE = f
        /\ At(f, o) % INTS_PER_PAGE = o
  BY AtFacts
<1> QED
  BY <1>2, <1>3, <1>5, <1>7, <1>8 DEF g

\* The types after a hit.
LEMMA HitType ==
  ASSUME IInv, NEW a \in 0 .. len - 1, Access(a), Hit(a),
         physical_memory' \in [PhysicalAddrs -> Vals], call' \in Calls
  PROVE  TypeOK'
<1>1. TypeOK /\ FramesShared
  BY DEF IInv
<1>2. page_table' \in [Pages -> Entry]
  BY <1>1, HitFacts DEF Hit
<1>3. /\ files' \in [Pages -> PageData \union {NoFile}]
      /\ num_faults' = num_faults
  BY <1>1 DEF Hit, TypeOK
<1> QED
  BY <1>1, <1>2, <1>3, AccessFacts DEF TypeOK

\* The types after a fault.
LEMMA FaultType ==
  ASSUME IInv, NEW a \in 0 .. len - 1, NEW v \in candidates, Access(a),
         Fault(a, v), physical_memory' \in [PhysicalAddrs -> Vals],
         call' \in Calls
  PROVE  TypeOK'
<1>1. TypeOK /\ FramesShared /\ v \in Resident /\ page_of(a) \in Pages
  BY AddressFacts DEF IInv, candidates
<1>2. page_of(a) \notin Resident
  BY DEF Fault
<1>3. page_table' \in [Pages -> Entry]
  BY <1>1, <1>2, FaultTable DEF Fault
<1>4. /\ files' \in [Pages -> PageData \union {NoFile}]
      /\ num_faults' = num_faults + 1
  BY <1>1, FileTypes DEF Fault
<1> QED
  BY <1>1, <1>3, <1>4, AccessFacts DEF TypeOK

\* The frame, and so the physical address, that a hit or a fault uses.
LEMMA HitAddress ==
  ASSUME IInv, NEW a \in 0 .. len - 1, Hit(a)
  PROVE  /\ page_of(a) \in Resident
         /\ page_table[page_of(a)].frame_number \in Frames
         /\ translate_addr(page_table', a)
              = At(page_table[page_of(a)].frame_number, offset_of(a))
         /\ translate_addr(page_table', a) \in PhysicalAddrs
<1>1. TypeOK /\ FramesShared /\ offset_of(a) \in Offsets
  BY AddressFacts DEF IInv
<1>2. /\ page_of(a) \in Resident
      /\ page_table[page_of(a)].frame_number \in Frames
      /\ page_table'[page_of(a)].frame_number
           = page_table[page_of(a)].frame_number
  BY <1>1, HitFacts DEF Hit
<1> QED
  BY <1>1, <1>2, AtFacts DEF translate_addr, At

\* After a fault the address lies in the frame of the evicted page.
LEMMA FaultAddress ==
  ASSUME IInv, NEW a \in 0 .. len - 1, NEW v \in candidates, Fault(a, v)
  PROVE  /\ v \in Resident /\ page_table[v].frame_number \in Frames
         /\ page_of(a) \in InUse \ Resident
         /\ translate_addr(page_table', a)
              = At(page_table[v].frame_number, offset_of(a))
         /\ translate_addr(page_table', a) \in PhysicalAddrs
<1>1. /\ TypeOK /\ FramesShared /\ offset_of(a) \in Offsets
      /\ page_of(a) \in InUse /\ page_of(a) \in Pages
      /\ v \in Resident /\ page_of(a) \notin Resident
  BY AddressFacts DEF IInv, candidates, Fault
<1>2. page_table[v].frame_number \in Frames
  BY <1>1 DEF FramesShared
<1>3. page_table'[page_of(a)].frame_number = page_table[v].frame_number
  BY <1>1, FaultTable DEF Fault
<1> QED
  BY <1>1, <1>2, <1>3, AtFacts DEF translate_addr, At

\* load preserves the invariant.
LEMMA LoadInv ==
  ASSUME IInv, NEW a \in 0 .. len - 1, load(a)
  PROVE  IInv'
<1>1. TypeOK /\ Access(a) /\ Accessed(page_of(a))
  BY AccessFacts DEF IInv, load
<1>2. CASE Hit(a) /\ UNCHANGED physical_memory
  <2>1. physical_memory' \in [PhysicalAddrs -> Vals]
    BY <1>1, <1>2 DEF TypeOK
  <2>2. physical_memory'[translate_addr(page_table', a)] \in Vals
    BY <1>2, <2>1, HitAddress
  <2>3. call' \in Calls
    BY <1>1, <2>2, AddressFacts DEF load, Calls
  <2>4. TypeOK'
    BY <1>1, <1>2, <2>1, <2>3, HitType
  <2> QED BY <1>1, <1>2, <2>4, HitInv DEF Hit
<1>3. ASSUME NEW v \in candidates, Fault(a, v),
             physical_memory' = paged_in(v, page_of(a))
      PROVE  IInv'
  <2>1. /\ v \in Resident /\ page_of(a) \in InUse /\ page_of(a) \notin Resident
        /\ translate_addr(page_table', a) \in PhysicalAddrs
    BY <1>3, FaultAddress
  <2>2. physical_memory' \in [PhysicalAddrs -> Vals]
    BY <1>3, <2>1, PagedInFacts
  <2>3. physical_memory'[translate_addr(page_table', a)] \in Vals
    BY <2>1, <2>2
  <2>4. call' \in Calls
    BY <1>1, <2>3, AddressFacts DEF load, Calls
  <2>5. TypeOK'
    BY <1>1, <1>3, <2>2, <2>4, FaultType
  <2> QED BY <1>1, <1>3, <2>1, <2>5, FaultInv DEF Fault
<1> QED
  BY <1>2, <1>3 DEF load

\* store preserves the invariant.
LEMMA StoreInv ==
  ASSUME IInv, NEW a \in 0 .. len - 1, NEW val \in Vals, store(a, val)
  PROVE  IInv'
<1> DEFINE x == translate_addr(page_table', a)
<1>1. TypeOK /\ Access(a) /\ Accessed(page_of(a))
  BY AccessFacts DEF IInv, store
<1>0. call' \in Calls
  BY <1>1, AddressFacts DEF store, Calls
<1>2. CASE Hit(a) /\ physical_memory' = [physical_memory EXCEPT ![x] = val]
  <2>1. physical_memory' \in [PhysicalAddrs -> Vals]
    BY <1>1, <1>2, HitAddress DEF TypeOK
  <2>2. TypeOK'
    BY <1>0, <1>1, <1>2, <2>1, HitType
  <2> QED BY <1>1, <1>2, <2>2, HitInv DEF Hit
<1>3. ASSUME NEW v \in candidates, Fault(a, v),
             physical_memory' = [paged_in(v, page_of(a)) EXCEPT ![x] = val]
      PROVE  IInv'
  <2>1. /\ v \in Resident /\ page_of(a) \in InUse /\ page_of(a) \notin Resident
    BY <1>3, FaultAddress
  <2>2. paged_in(v, page_of(a)) \in [PhysicalAddrs -> Vals]
    BY <2>1, PagedInFacts
  <2>3. physical_memory' \in [PhysicalAddrs -> Vals]
    BY <1>3, <2>2
  <2>4. TypeOK'
    BY <1>0, <1>1, <1>3, <2>3, FaultType
  <2> QED BY <1>1, <1>3, <2>1, <2>4, FaultInv DEF Fault
<1> QED
  BY <1>2, <1>3 DEF store

\* A step that changes no variable preserves the invariant.
LEMMA StutterInv == ASSUME IInv, UNCHANGED vars PROVE IInv'
BY DEF vars, IInv, TypeOK, FramesShared, PagedOutOnDisk, NoFaultWhenFits,
       MarkersTell, StackOrder, FramesFull, Resident, InUse

\* StartInv for the state after a step.
LEMMA StartInvNext == Start' => IInv'
BY StartInv, PTL

\* Every step of the simulation preserves the invariant.
LEMMA Inductive == IInv /\ [Next]_vars => IInv'
<1> SUFFICES ASSUME IInv, [Next]_vars PROVE IInv'
  OBVIOUS
<1>1. CASE NextExperiment
  BY <1>1, NextExperimentStart, StartInvNext
<1>2. ASSUME NEW a \in 0 .. len - 1, load(a) PROVE IInv'
  BY <1>2, LoadInv
<1>3. ASSUME NEW a \in 0 .. len - 1, NEW val \in Vals, store(a, val)
      PROVE  IInv'
  BY <1>3, StoreInv
<1>4. CASE UNCHANGED vars
  BY <1>4, StutterInv
<1> QED
  BY <1>1, <1>2, <1>3, <1>4 DEF Next

\* The inductive invariant holds in every reachable state of the simulation.
THEOREM Invariance == Spec => []IInv
<1>1. Init => IInv
  BY InitStart, StartInv
<1> QED
  BY <1>1, Inductive, PTL DEF Spec
-----------------------------------------------------------------------------
(* What follows from it *)

\* Every variable of the simulation keeps its type, and there are never more
\* faults than accesses.
THEOREM TypeCorrect == Spec => []TypeOK
<1>1. IInv => TypeOK
  BY DEF IInv
<1> QED
  BY <1>1, Invariance, PTL

\* initialize and handle_page_fault never give one frame to two pages, and
\* leave no frame idle while a page in use is paged out.
THEOREM FramesAreShared == Spec => []FramesShared
<1>1. IInv => FramesShared
  BY DEF IInv
<1> QED
  BY <1>1, Invariance, PTL

\* The file that handle_page_fault opens to load a page exists.
THEOREM PagedOutPagesOnDisk == Spec => []PagedOutOnDisk
<1>1. IInv => PagedOutOnDisk
  BY DEF IInv
<1> QED
  BY <1>1, Invariance, PTL

\* An array that fits into physical memory causes no page fault.
THEOREM NoFaultWhenItFits == Spec => []NoFaultWhenFits
<1>1. IInv => NoFaultWhenFits
  BY DEF IInv
<1> QED
  BY <1>1, Invariance, PTL

\* The markers of translate_addr and the scan of handle_page_fault together
\* are LRU replacement: the resident pages are those with a stack distance
\* below the number of frames.
THEOREM LeastRecentlyUsed == Spec => []StackDistance
<1>1. IInv => StackDistance
  <2> SUFFICES ASSUME IInv, strategy = "LRU", NEW q \in InUse
               PROVE  q \in Resident <=> Cardinality(since[q]) < NUM_FRAMES
    BY DEF StackDistance
  <2> USE VMAssumption
  <2>1. IsFiniteSet(Resident) /\ Cardinality(Resident) \in Nat
    BY ResidentFinite DEF IInv
  <2>2. q \notin since[q] /\ q \in Pages
    BY DEF IInv, StackOrder, InUse
  <2>3. ASSUME q \in Resident PROVE Cardinality(since[q]) < NUM_FRAMES
    <3>1. since[q] \in SUBSET (Resident \ {q})
      BY <2>2, <2>3 DEF IInv, StackOrder
    <3>2. /\ IsFiniteSet(Resident \ {q})
          /\ Cardinality(Resident \ {q}) = Cardinality(Resident) - 1
      BY <2>1, <2>3, FS_RemoveElement
    <3>3. /\ Cardinality(since[q]) <= Cardinality(Resident \ {q})
          /\ IsFiniteSet(since[q])
      BY <3>1, <3>2, FS_Subset
    <3>4. Cardinality(since[q]) \in Nat
      BY <3>3, FS_CardinalityType
    <3>5. Cardinality(Resident) <= NUM_FRAMES
      BY DEF IInv, FramesFull
    <3> QED BY <2>1, <3>2, <3>3, <3>4, <3>5
  <2>4. ASSUME q \notin Resident PROVE ~(Cardinality(since[q]) < NUM_FRAMES)
    <3>1. Resident \in SUBSET since[q]
      BY <2>4 DEF IInv, StackOrder
    <3>2. IsFiniteSet(since[q])
      <4>1. PICK j \in Int : j = NUM_PAGES - 1
        OBVIOUS
      <4>2. IsFiniteSet(Pages)
        BY <4>1, 0 \in Int, FS_Interval DEF Pages
      <4>3. since[q] \in SUBSET Pages
        BY <2>2 DEF IInv, TypeOK
      <4> QED BY <4>2, <4>3, FS_Subset
    <3>3. Cardinality(Resident) <= Cardinality(since[q])
      BY <3>1, <3>2, FS_Subset
    <3>4. Cardinality(since[q]) \in Nat
      BY <3>2, FS_CardinalityType
    <3>5. Cardinality(Resident) = NUM_FRAMES
      BY <2>4 DEF IInv, FramesFull
    <3> QED BY <3>3, <3>4, <3>5
  <2> QED BY <2>3, <2>4
<1> QED
  BY <1>1, Invariance, PTL
-----------------------------------------------------------------------------
(* VM implements FlatMemory: what the page table shows is the array of that *)
(* module, and each step of VM is one of its steps or a stutter.           *)

\* Element b under a page table, files and physical memory.
Seen(pt, fl, pm, b) ==
  IF pt[page_of(b)].valid THEN pm[translate_addr(pt, b)]
  ELSE fl[page_of(b)][offset_of(b)]

\* The array of VM is what is seen through the page table.
LEMMA FlatIsSeen ==
  TypeOK => flat = [b \in 0 .. len - 1 |-> Seen(page_table, files, physical_memory, b)]
<1> SUFFICES ASSUME TypeOK
             PROVE  flat = [b \in 0 .. len - 1 |->
                              Seen(page_table, files, physical_memory, b)]
  OBVIOUS
<1>1. \A b \in 0 .. len - 1 : page_of(b) \in Resident <=> page_table[page_of(b)].valid
  BY AddressFacts DEF Resident
<1> QED
  BY <1>1 DEF flat, Seen

\* The same after a step.
LEMMA FlatIsSeenNext ==
  TypeOK' => flat' = [b \in 0 .. len' - 1 |-> Seen(page_table', files', physical_memory', b)]
<1>1. (TypeOK => flat = [b \in 0 .. len - 1 |->
                           Seen(page_table, files, physical_memory, b)])'
  BY FlatIsSeen, PTL
<1> QED
  BY <1>1 DEF Seen, translate_addr

\* The array has values as elements.
LEMMA FlatType == IInv => flat \in [0 .. len - 1 -> Vals]
<1> SUFFICES ASSUME IInv PROVE flat \in [0 .. len - 1 -> Vals]
  OBVIOUS
<1>1. TypeOK /\ FramesShared /\ PagedOutOnDisk /\ len \in 1 .. num_ints
  BY DEF IInv, TypeOK
<1>2. ASSUME NEW b \in 0 .. len - 1 PROVE flat[b] \in Vals
  <2>1. page_of(b) \in InUse /\ page_of(b) \in Pages /\ offset_of(b) \in Offsets
    BY <1>1, AddressFacts
  <2>2. CASE page_of(b) \in Resident
    <3>1. page_table[page_of(b)].frame_number \in Frames
      BY <1>1, <2>2 DEF FramesShared
    <3>2. translate_addr(page_table, b) \in PhysicalAddrs
      BY <2>1, <3>1, AtFacts DEF translate_addr, At
    <3> QED BY <1>1, <2>2, <3>2 DEF flat, TypeOK
  <2>3. CASE page_of(b) \notin Resident
    <3>1. files[page_of(b)] \in PageData
      BY <1>1, <2>1, <2>3 DEF PagedOutOnDisk, TypeOK
    <3> QED BY <2>1, <2>3, <3>1 DEF flat, PageData
  <2> QED BY <2>2, <2>3
<1> QED
  BY <1>2 DEF flat

\* The array has values as elements after a step.
LEMMA FlatTypeNext ==
  IInv' => flat' \in [0 .. len' - 1 -> Vals]
<1>1. (IInv => flat \in [0 .. len - 1 -> Vals])'
  BY FlatType, PTL
<1> QED
  BY <1>1

\* No two valid pages of pt have a frame in common.
OneFrameEach(pt) ==
  /\ \A q \in Pages : pt[q].valid => pt[q].frame_number \in Frames
  /\ \A q, r \in Pages :
       pt[q].valid /\ pt[r].valid /\ pt[q].frame_number = pt[r].frame_number
         => q = r

\* Two words with one physical address are the same word of the same frame.
LEMMA AtInjective ==
  ASSUME NEW f \in Frames, NEW g \in Frames, NEW o \in Offsets,
         NEW i \in Offsets, At(f, o) = At(g, i)
  PROVE  f = g /\ o = i
<1>1. At(f, o) \div INTS_PER_PAGE = f /\ At(f, o) % INTS_PER_PAGE = o
  BY AtFacts
<1>2. At(g, i) \div INTS_PER_PAGE = g /\ At(g, i) % INTS_PER_PAGE = i
  BY AtFacts
<1> QED
  BY <1>1, <1>2

Put(pm, x, val) == [pm EXCEPT ![x] = val]

\* A write to physical memory at the address of a changes element a only.
LEMMA WriteSeen ==
  ASSUME NEW pt, NEW fl, NEW pm \in [PhysicalAddrs -> Vals], NEW val,
         NEW a \in 0 .. num_ints - 1, NEW b \in 0 .. num_ints - 1,
         OneFrameEach(pt), pt[page_of(a)].valid
  PROVE  Seen(pt, fl, Put(pm, translate_addr(pt, a), val), b)
           = IF b = a THEN val ELSE Seen(pt, fl, pm, b)
<1> DEFINE p == page_of(a)
           r == page_of(b)
           x == translate_addr(pt, a)
           y == translate_addr(pt, b)
<1>1. /\ p \in Pages /\ offset_of(a) \in Offsets
      /\ r \in Pages /\ offset_of(b) \in Offsets
  BY PageFacts
<1>2. pt[p].frame_number \in Frames
  BY <1>1 DEF OneFrameEach
<1>3. x = At(pt[p].frame_number, offset_of(a)) /\ x \in PhysicalAddrs
  BY <1>1, <1>2, AtFacts DEF translate_addr, At
<1>4. CASE b = a
  BY <1>3, <1>4 DEF Seen, Put
<1>5. CASE b # a /\ pt[r].valid
  <2>1. pt[r].frame_number \in Frames
    BY <1>1, <1>5 DEF OneFrameEach
  <2>2. y = At(pt[r].frame_number, offset_of(b)) /\ y \in PhysicalAddrs
    BY <1>1, <2>1, AtFacts DEF translate_addr, At
  <2>3. ASSUME x = y PROVE FALSE
    <3>0. At(pt[p].frame_number, offset_of(a)) = At(pt[r].frame_number, offset_of(b))
      BY <1>3, <2>2, <2>3
    <3>1. pt[p].frame_number = pt[r].frame_number /\ offset_of(a) = offset_of(b)
      <4> HIDE DEF p, r
      <4> QED BY <1>1, <1>2, <2>1, <3>0, AtInjective
    <3>2. p = r
      BY <1>1, <1>5, <3>1 DEF OneFrameEach
    <3> QED BY <1>5, <3>1, <3>2, SameWord
  <2> QED BY <1>5, <2>2, <2>3 DEF Seen, Put
<1>6. CASE b # a /\ ~pt[r].valid
  BY <1>6 DEF Seen, Put
<1> QED
  BY <1>4, <1>5, <1>6

\* FramesShared, as a statement about a page table ...
LEMMA SharedIsEach == FramesShared => OneFrameEach(page_table)
BY DEF FramesShared, OneFrameEach, Resident

\* ... and about the one after a step.
LEMMA SharedIsEachNext == FramesShared' => OneFrameEach(page_table')
<1>1. (FramesShared => OneFrameEach(page_table))'
  BY SharedIsEach, PTL
<1> QED
  BY <1>1 DEF OneFrameEach

\* A hit does not change what is seen.
LEMMA HitKeeps ==
  ASSUME IInv, NEW a \in 0 .. len - 1, Hit(a), NEW b \in 0 .. len - 1
  PROVE  Seen(page_table', files', physical_memory, b)
           = Seen(page_table, files, physical_memory, b)
<1>1. TypeOK /\ FramesShared /\ page_of(a) \in Resident
      /\ page_table' = marked(page_table, page_of(a)) /\ files' = files
  BY DEF IInv, Hit
<1>2. page_of(b) \in Pages
  BY <1>1, AddressFacts
<1>3. /\ page_table'[page_of(b)].frame_number = page_table[page_of(b)].frame_number
      /\ page_table'[page_of(b)].valid <=> page_table[page_of(b)].valid
  BY <1>1, <1>2, HitFacts DEF Resident
<1> QED
  BY <1>1, <1>3 DEF Seen, translate_addr

\* Neither does a fault: not for the page loaded, not for the page evicted,
\* and not for any other page.
LEMMA FaultKeeps ==
  ASSUME IInv, NEW a \in 0 .. len - 1, NEW v \in candidates, Fault(a, v),
         NEW b \in 0 .. len - 1
  PROVE  Seen(page_table', files', paged_in(v, page_of(a)), b)
           = Seen(page_table, files, physical_memory, b)
<1> DEFINE q == page_of(a)
           p == page_of(b)
           o == offset_of(b)
           g == page_table[v].frame_number
           m == paged_in(v, q)
<1>1. /\ TypeOK /\ FramesShared /\ v \in Resident
      /\ q \in InUse /\ q \notin Resident /\ q \in Pages
      /\ p \in Pages /\ o \in Offsets
      /\ page_table' = marked(remapped(v, q), q) /\ files' = written_back(v)
  BY FaultAddress, AddressFacts DEF IInv, Fault
<1> HIDE DEF q, p, o
<1>2. /\ page_table'[q].frame_number = g
      /\ \A r \in Pages \ {q, v} : page_table'[r] = page_table[r]
      /\ Resident' = (Resident \ {v}) \union {q}
      /\ v \in Pages /\ v # q
  BY <1>1, FaultTable
<1>3. /\ \A i \in Offsets : m[At(g, i)] = files[q][i]
      /\ \A f \in Frames \ {g}, i \in Offsets :
           m[At(f, i)] = physical_memory[At(f, i)]
  BY <1>1, PagedInFacts
<1>4. /\ files'[v] = frame_data(g) /\ g \in Frames
      /\ \A r \in Pages \ {v} : files'[r] = files[r]
  <2>1. files \in [Pages -> PageData \union {NoFile}]
    BY <1>1 DEF TypeOK
  <2> QED BY <2>1, <1>1, <1>2, FileTypes DEF written_back
<1> HIDE DEF m, g
<1>5. \A r \in Pages : r \in Resident' <=> page_table'[r].valid
  BY DEF Resident
<1>6. \A r \in Pages : r \in Resident <=> page_table[r].valid
  BY DEF Resident
<1>7. /\ Seen(page_table', files', m, b)
           = IF p \in Resident' THEN m[At(page_table'[p].frame_number, o)]
             ELSE files'[p][o]
      /\ Seen(page_table, files, physical_memory, b)
           = IF p \in Resident
               THEN physical_memory[At(page_table[p].frame_number, o)]
             ELSE files[p][o]
  BY <1>1, <1>5, <1>6 DEF Seen, translate_addr, At, p, o
<1> SUFFICES Seen(page_table', files', m, b)
               = Seen(page_table, files, physical_memory, b)
  BY DEF m, q
<1>8. CASE p = q
  BY <1>8, <1>1, <1>2, <1>3, <1>7
<1>9. CASE p = v
  <2>1. files'[v][o] = physical_memory[At(g, o)]
    BY <1>1, <1>4 DEF frame_data, At
  <2> QED BY <1>9, <2>1, <1>1, <1>2, <1>7 DEF g
<1>10. CASE p \notin {q, v} /\ p \in Resident
  <2>1. page_table[p].frame_number \in Frames \ {g}
    BY <1>10, <1>1 DEF FramesShared, g
  <2> QED BY <1>10, <2>1, <1>1, <1>2, <1>3, <1>7
<1>11. CASE p \notin {q, v} /\ p \notin Resident
  BY <1>11, <1>1, <1>2, <1>4, <1>7
<1> QED
  BY <1>8, <1>9, <1>10, <1>11

\* Every step of the simulation is a step of FlatMemory, or changes nothing.

\* The next experiment is an Initialize step.
LEMMA ExperimentStep ==
  ASSUME IInv', NextExperiment
  PROVE  len' \in 1 .. num_ints /\ Memory!Initialize(len')
<1>1. len' \in 1 .. num_ints
  BY DEF IInv, TypeOK
<1>2. flat' \in [0 .. len' - 1 -> Vals]
  BY FlatTypeNext
<1> QED
  BY <1>1, <1>2 DEF NextExperiment, Memory!Initialize

\* After an access the array has the same length; what is seen of it decides.
LEMMA FlatAfter ==
  ASSUME IInv, IInv', len' = len
  PROVE  /\ flat = [b \in 0 .. len - 1 |->
                      Seen(page_table, files, physical_memory, b)]
         /\ flat' = [b \in 0 .. len - 1 |->
                      Seen(page_table', files', physical_memory', b)]
BY FlatIsSeen, FlatIsSeenNext DEF IInv

\* The page of an address is valid once it has been accessed, and then the
\* address that translate_addr returns is where the element is seen.
LEMMA AccessedIsValid ==
  ASSUME IInv, NEW a \in 0 .. len - 1,
         Hit(a) \/ \E v \in candidates : Fault(a, v)
  PROVE  page_table'[page_of(a)].valid
<1>0. TypeOK /\ FramesShared /\ page_of(a) \in Pages
  BY AddressFacts DEF IInv
<1>1. CASE Hit(a)
  <2>1. page_of(a) \in Resident'
    BY <1>0, <1>1, HitFacts DEF Hit
  <2> QED BY <2>1 DEF Resident
<1>2. ASSUME NEW v \in candidates, Fault(a, v) PROVE page_table'[page_of(a)].valid
  <2>1. page_of(a) \in Resident'
    BY <1>0, <1>2, FaultTable DEF Fault, candidates
  <2> QED BY <2>1 DEF Resident
<1> QED
  BY <1>1, <1>2

\* load, with the fault it may cause, is a Load step.
LEMMA LoadStep ==
  ASSUME IInv, IInv', NEW a \in 0 .. len - 1, load(a)
  PROVE  Memory!Load(a)
<1>1. len' = len
  BY DEF load, Access
<1>2. /\ flat = [b \in 0 .. len - 1 |->
                   Seen(page_table, files, physical_memory, b)]
      /\ flat' = [b \in 0 .. len - 1 |->
                   Seen(page_table', files', physical_memory', b)]
  BY <1>1, FlatAfter
<1>3. ASSUME NEW b \in 0 .. len - 1
      PROVE  Seen(page_table', files', physical_memory', b)
               = Seen(page_table, files, physical_memory, b)
  <2>1. CASE Hit(a) /\ UNCHANGED physical_memory
    BY <2>1, HitKeeps
  <2>2. ASSUME NEW v \in candidates, Fault(a, v),
               physical_memory' = paged_in(v, page_of(a))
        PROVE  Seen(page_table', files', physical_memory', b)
                 = Seen(page_table, files, physical_memory, b)
    BY <2>2, FaultKeeps
  <2> QED BY <2>1, <2>2 DEF load
<1>4. flat' = flat
  BY <1>2, <1>3
<1>5. page_table'[page_of(a)].valid
  BY AccessedIsValid DEF load
<1>6. call' = <<"load", a, flat'[a]>>
  BY <1>2, <1>5 DEF load, Seen
<1> QED
  BY <1>4, <1>6 DEF Memory!Load

\* store, with the fault it may cause, is a Store step.
LEMMA StoreStep ==
  ASSUME IInv, IInv', NEW a \in 0 .. len - 1, NEW val \in Vals, store(a, val)
  PROVE  Memory!Store(a, val)
<1> DEFINE x == translate_addr(page_table', a)
<1>1. len' = len /\ call' = <<"store", a, val>>
  BY DEF store, Access
<1>2. /\ flat = [b \in 0 .. len - 1 |->
                   Seen(page_table, files, physical_memory, b)]
      /\ flat' = [b \in 0 .. len - 1 |->
                   Seen(page_table', files', physical_memory', b)]
  BY <1>1, FlatAfter
<1>3. page_table'[page_of(a)].valid
  BY AccessedIsValid DEF store
<1>4. OneFrameEach(page_table')
  BY SharedIsEachNext DEF IInv
<1>5. TypeOK /\ a \in 0 .. num_ints - 1
  BY AddressFacts DEF IInv
<1>6. ASSUME NEW b \in 0 .. len - 1
      PROVE  Seen(page_table', files', physical_memory', b)
               = IF b = a THEN val
                 ELSE Seen(page_table, files, physical_memory, b)
  <2>0. b \in 0 .. num_ints - 1
    BY <1>5, AddressFacts
  <2>1. CASE Hit(a) /\ physical_memory' = [physical_memory EXCEPT ![x] = val]
    <3>1. physical_memory \in [PhysicalAddrs -> Vals]
      BY <1>5 DEF TypeOK
    <3>2. Seen(page_table', files', Put(physical_memory, x, val), b)
            = IF b = a THEN val
              ELSE Seen(page_table', files', physical_memory, b)
      BY <2>0, <3>1, <1>3, <1>4, <1>5, WriteSeen
    <3> QED BY <2>1, <3>2, HitKeeps DEF Put
  <2>2. ASSUME NEW v \in candidates, Fault(a, v),
               physical_memory' = [paged_in(v, page_of(a)) EXCEPT ![x] = val]
        PROVE  Seen(page_table', files', physical_memory', b)
                 = IF b = a THEN val
                   ELSE Seen(page_table, files, physical_memory, b)
    <3>1. paged_in(v, page_of(a)) \in [PhysicalAddrs -> Vals]
      BY <2>2, FaultAddress, PagedInFacts
    <3>2. Seen(page_table', files', Put(paged_in(v, page_of(a)), x, val), b)
            = IF b = a THEN val
              ELSE Seen(page_table', files', paged_in(v, page_of(a)), b)
      BY <2>0, <3>1, <1>3, <1>4, <1>5, WriteSeen
    <3> QED BY <2>2, <3>2, FaultKeeps DEF Put
  <2> QED BY <2>1, <2>2 DEF store
<1>7. flat' = [flat EXCEPT ![a] = val]
  BY <1>2, <1>6
<1> QED
  BY <1>1, <1>7 DEF Memory!Store

\* Whatever pages are evicted, load and store behave as accesses to an array:
\* the simulation implements FlatMemory, in which load(a) returns element a
\* and changes nothing, store(a, v) changes element a to v and no other, and
\* only initialize puts anything else into the array.
THEOREM Refinement == Spec => ImplementsFlatMemory
<1>1. Init => Memory!Init
  <2> SUFFICES ASSUME Init PROVE Memory!Init
    OBVIOUS
  <2>1. IInv
    BY InitStart, StartInv
  <2>2. len \in 1 .. num_ints /\ call = <<"initialize", len>>
    BY <2>1 DEF IInv, TypeOK, Init
  <2> QED BY <2>1, <2>2, FlatType DEF Memory!Init, Memory!Initialized
<1>2. IInv /\ IInv' /\ [Next]_vars => [Memory!Next]_<<flat, call>>
  <2> SUFFICES ASSUME IInv, IInv', [Next]_vars
               PROVE  [Memory!Next]_<<flat, call>>
    OBVIOUS
  <2>1. DOMAIN flat = 0 .. len - 1
    BY FlatType
  <2>2. CASE NextExperiment
    BY <2>2, ExperimentStep DEF Memory!Next
  <2>3. ASSUME NEW a \in 0 .. len - 1, load(a) PROVE Memory!Next
    BY <2>1, <2>3, LoadStep DEF Memory!Next
  <2>4. ASSUME NEW a \in 0 .. len - 1, NEW val \in Vals, store(a, val)
        PROVE  Memory!Next
    BY <2>1, <2>4, StoreStep DEF Memory!Next
  <2>5. CASE UNCHANGED vars
    BY <2>5 DEF vars, flat, Resident
  <2> QED BY <2>2, <2>3, <2>4, <2>5 DEF Next
<1> QED
  BY <1>1, <1>2, Invariance, PTL DEF Spec, ImplementsFlatMemory, Memory!Spec
=============================================================================
