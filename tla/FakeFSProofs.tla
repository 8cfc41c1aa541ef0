---------------------------- MODULE FakeFSProofs ----------------------------
(***************************************************************************)
(* Proofs about the reader of disks, for every size of blocks, number of   *)
(* pointers, disk, path and set of missing blocks: search_path finds the   *)
(* entry that it should, and a copy has the blocks of its file, but for    *)
(* what a missing block spoils.                                            *)
(***************************************************************************)
EXTENDS FakeFS, FiniteSetTheorems, TLAPS

(* Arithmetic *)

\* Products grow with their factors.
LEMMA Products ==
  ASSUME NEW n \in Nat, NEW x \in Int, NEW y \in Int, x <= y
  PROVE  n * x <= n * y
<1>1. n * (y - x) >= 0 /\ n * (y - x) = n * y - n * x
  OBVIOUS
<1> QED BY <1>1

\* Quotient and remainder are determined by what they add up to.
LEMMA Remainder ==
  ASSUME NEW n \in Nat \ {0}, NEW q \in Int, NEW r \in 0 .. n - 1,
         NEW q2 \in Int, NEW r2 \in 0 .. n - 1, n * q + r = n * q2 + r2
  PROVE  q = q2 /\ r = r2
<1>1. ASSUME NEW x \in Int, NEW y \in Int, NEW u \in 0 .. n - 1, NEW v \in 0 .. n - 1,
             n * x + u = n * y + v, x > y
      PROVE  FALSE
  <2>1. n * (y + 1) <= n * x
    BY <1>1, Products
  <2>2. n * (y + 1) = n * y + n
    OBVIOUS
  <2> QED BY <1>1, <2>1, <2>2
<1>2. q = q2
  BY <1>1
<1> QED BY <1>2

\* What % and \div yield.
LEMMA Division ==
  ASSUME NEW n \in Nat \ {0}, NEW x \in Int
  PROVE  /\ x \div n \in Int /\ x % n \in 0 .. n - 1
         /\ x = n * (x \div n) + (x % n)
BY SMT

\* A quotient of natural numbers is one, and a multiple is divided exactly.
LEMMA Quotients ==
  ASSUME NEW n \in Nat \ {0}, NEW x \in Nat
  PROVE  /\ x \div n \in Nat /\ (n * x) \div n = x
         /\ x % n = 0 => x = n * (x \div n)
<1>1. x \div n \in Int /\ x % n \in 0 .. n - 1 /\ x = n * (x \div n) + (x % n)
  BY Division
<1>2. x \div n >= 0
  <2> SUFFICES ASSUME x \div n <= -1
               PROVE  FALSE
    BY <1>1
  <2>1. n * (x \div n) <= n * (-1)
    BY <1>1, Products
  <2> QED BY <1>1, <2>1
<1>3. (n * x) \div n = x
  <2> DEFINE y == n * x
  <2>1. y \in Int /\ y = n * x + 0
    OBVIOUS
  <2> HIDE DEF y
  <2>2. y \div n \in Int /\ y % n \in 0 .. n - 1 /\ y = n * (y \div n) + (y % n)
    BY <2>1, Division
  <2>3. y \div n = x
    BY <2>1, <2>2, 0 \in 0 .. n - 1, Remainder
  <2> QED BY <2>3 DEF y
<1> QED BY <1>1, <1>2, <1>3

\* A set of natural numbers that is not empty has a least element.
LEMMA Least ==
  ASSUME NEW T, T \subseteq Nat, T # {}
  PROVE  \E x \in T : \A y \in T : x <= y
<1>1. PICK n \in T : n \in Nat
  OBVIOUS
<1> DEFINE S == 0 .. n
           U == {0 .. m : m \in {l \in T : l <= n}}
<1>2. IsFiniteSet(S)
  BY <1>1, FS_Interval
<1>3. U \subseteq FiniteSubsetsOf(S) /\ U # {}
  <2>1. \A m \in 0 .. n : 0 .. m \subseteq S
    BY <1>1
  <2>2. U \subseteq SUBSET S
    BY <2>1
  <2> QED BY <1>1, <1>2, <2>2, FS_Subset DEF FiniteSubsetsOf
<1>4. IsWellFoundedOn(StrictSubsetOrdering(S), FiniteSubsetsOf(S))
  BY FS_StrictSubsetOrderingWellFounded
<1> HIDE DEF U
<1>5. PICK X \in U : \A Y \in U : <<Y, X>> \notin StrictSubsetOrdering(S)
  BY <1>3, <1>4, WFMin
<1>6. PICK m \in T : m <= n /\ X = 0 .. m
  BY <1>5 DEF U
<1>7. ASSUME NEW y \in T, y < m
      PROVE  FALSE
  <2>1. y \in Nat /\ m \in Nat /\ y <= n
    BY <1>1, <1>6, <1>7
  <2>2. 0 .. y \in U
    BY <2>1 DEF U
  <2>3. /\ 0 .. y \subseteq 0 .. m
        /\ m \in 0 .. m /\ m \notin 0 .. y
        /\ 0 .. y \in SUBSET S /\ 0 .. m \in SUBSET S
    BY <1>1, <1>6, <1>7, <2>1
  <2> QED BY <1>5, <1>6, <2>2, <2>3 DEF StrictSubsetOrdering
<1> QED BY <1>6, <1>7
-----------------------------------------------------------------------------
(* The layout of a disk *)

\* How many ints an entry has room for: search_dir counts ints.
ints == ENTRY_SIZE \div INT_SIZE

\* The assumptions on the constants, in terms of whole blocks and entries.
LEMMA Layout ==
  /\ BLOCK_SIZE \in Nat \ {0} /\ ENTRY_SIZE \in Nat \ {0} /\ INODES_PER_BLOCK \in Nat \ {0}
  /\ ENTRIES_PER_BLOCK \in Nat \ {0} /\ REFS_PER_BLOCK \in Nat \ {0}
  /\ BLOCK_SIZE = ENTRY_SIZE * ENTRIES_PER_BLOCK
  /\ ints \in Nat /\ ENTRY_SIZE = 4 * ints /\ ints >= 2 /\ ENTRIES_PER_BLOCK <= ints
  /\ DIRECT \in Nat \ {0} /\ INDIRECT \in Nat /\ ALL \in Nat
  /\ INDIRECT = DIRECT + REFS_PER_BLOCK
  /\ DIRECT < INDIRECT /\ INDIRECT < ALL
<1> USE FakeFSAssumption, LayoutAssumption
<1>1. /\ BLOCK_SIZE \in Nat \ {0} /\ ENTRY_SIZE \in Nat \ {0} /\ INODES_PER_BLOCK \in Nat \ {0}
      /\ NUM_DIRECT_PTRS \in Nat \ {0} /\ ENTRIES_PER_BLOCK > 0 /\ REFS_PER_BLOCK > 0
  OBVIOUS
<1>2. ENTRIES_PER_BLOCK \in Nat /\ BLOCK_SIZE = ENTRY_SIZE * ENTRIES_PER_BLOCK
  BY <1>1, Quotients DEF ENTRIES_PER_BLOCK
<1>3. REFS_PER_BLOCK \in Nat
  BY <1>1, Quotients DEF REFS_PER_BLOCK, INT_SIZE
<1>4. ints \in Nat /\ ENTRY_SIZE = 4 * ints /\ ENTRIES_PER_BLOCK <= ints /\ ENTRY_SIZE > 4
  BY <1>1, Quotients DEF ints, INT_SIZE
<1>5. REFS_PER_BLOCK * REFS_PER_BLOCK >= REFS_PER_BLOCK
  <2>1. REFS_PER_BLOCK * 1 <= REFS_PER_BLOCK * REFS_PER_BLOCK
    BY <1>1, <1>3, Products
  <2> QED BY <1>3, <2>1
<1> QED BY <1>1, <1>2, <1>3, <1>4, <1>5 DEF DIRECT, INDIRECT, ALL

\* What the inode of any number shows is a size that an inode can have.
LEMMA Filesizes ==
  ASSUME tree \in Trees, NEW n
  PROVE  filesize(n) \in Nat /\ filesize(n) <= ALL * BLOCK_SIZE
<1>1. ALL * BLOCK_SIZE \in Nat
  BY Layout
<1>2. n \in Files => tree.files[n] \in 0 .. ALL * BLOCK_SIZE
  BY TreesAssumption DEF Files
<1>3. n \in Dirs => /\ ENTRY_SIZE * Len(tree.dirs[n]) \in Nat
                    /\ ENTRY_SIZE * Len(tree.dirs[n]) <= ALL * BLOCK_SIZE
  <2> SUFFICES ASSUME n \in Dirs
               PROVE  /\ ENTRY_SIZE * Len(tree.dirs[n]) \in Nat
                      /\ ENTRY_SIZE * Len(tree.dirs[n]) <= ALL * BLOCK_SIZE
    OBVIOUS
  <2>1. /\ tree.dirs[n] \in Seq(Range(tree.dirs[n]))
        /\ ENTRY_SIZE * Len(tree.dirs[n]) <= ALL * BLOCK_SIZE
    BY TreesAssumption DEF Dirs
  <2>2. PICK l \in Nat : l = Len(tree.dirs[n])
    BY <2>1
  <2>3. ENTRY_SIZE * l \in Nat
    BY Layout
  <2> QED BY <2>1, <2>2, <2>3
<1> QED BY <1>1, <1>2, <1>3 DEF filesize

\* A block is one of an inode's if it begins before the end.
LEMMA BlockCount ==
  ASSUME tree \in Trees, NEW n
  PROVE  /\ num_blocks(n) \in Nat
         /\ \A x \in Nat : x < num_blocks(n) <=> BLOCK_SIZE * x < filesize(n)
<1> DEFINE size == filesize(n)
           y == size + BLOCK_SIZE - 1
           q == y \div BLOCK_SIZE
           r == y % BLOCK_SIZE
<1>1. size \in Nat /\ BLOCK_SIZE \in Nat \ {0} /\ y \in Nat
  BY Filesizes, Layout
<1> HIDE DEF size
<1>2. q \in Nat /\ r \in 0 .. BLOCK_SIZE - 1 /\ y = BLOCK_SIZE * q + r
  <2> HIDE DEF y
  <2>1. q \in Int /\ r \in 0 .. BLOCK_SIZE - 1 /\ y = BLOCK_SIZE * q + r
    BY <1>1, Division
  <2>2. q \in Nat
    BY <1>1, Quotients
  <2> QED BY <2>1, <2>2
<1>3. num_blocks(n) = q
  BY DEF num_blocks, size
<1> HIDE DEF q, r
<1>4. ASSUME NEW x \in Nat, x < q
      PROVE  BLOCK_SIZE * x < size
  <2>1. BLOCK_SIZE * (x + 1) <= BLOCK_SIZE * q
    BY <1>1, <1>2, <1>4, Products
  <2>2. BLOCK_SIZE * (x + 1) = BLOCK_SIZE * x + BLOCK_SIZE
    BY <1>1
  <2>3. BLOCK_SIZE * x \in Int /\ BLOCK_SIZE * q \in Int
    BY <1>1, <1>2
  <2> QED BY <1>1, <1>2, <2>1, <2>2, <2>3
<1>5. ASSUME NEW x \in Nat, x >= q
      PROVE  BLOCK_SIZE * x >= size
  <2>1. BLOCK_SIZE * q <= BLOCK_SIZE * x
    BY <1>1, <1>2, <1>5, Products
  <2>2. BLOCK_SIZE * x \in Int /\ BLOCK_SIZE * q \in Int
    BY <1>1, <1>2
  <2> QED BY <1>1, <1>2, <2>1, <2>2
<1>6. \A x \in Nat : BLOCK_SIZE * x \in Int
  BY <1>1
<1> QED BY <1>1, <1>2, <1>3, <1>4, <1>5, <1>6 DEF size

\* The blocks that the doubly indirect pointers of an inode lead to are in
\* groups; where the group of a block begins.
LEMMA Groups ==
  ASSUME NEW j \in Nat
  PROVE  LET g == (INDIRECT + j) - (j % REFS_PER_BLOCK)
         IN  /\ g \in Nat /\ INDIRECT <= g /\ g <= INDIRECT + j
             /\ j % REFS_PER_BLOCK \in Nat
             /\ g + (j % REFS_PER_BLOCK) = INDIRECT + j
             /\ (g - INDIRECT) % REFS_PER_BLOCK = 0
<1> DEFINE n == REFS_PER_BLOCK
           q == j \div n
           r == j % n
           m == n * q
<1>1. /\ n \in Nat \ {0} /\ INDIRECT \in Nat
      /\ q \in Nat /\ r \in 0 .. n - 1 /\ j = m + r /\ m \in Nat
  BY Layout, Division, Quotients
<1>2. m % n = 0
  <2> HIDE DEF n
  <2>1. m \in Int /\ m = n * q + 0 /\ 0 \in 0 .. n - 1
    BY <1>1
  <2> HIDE DEF m, q
  <2>2. m \div n \in Int /\ m % n \in 0 .. n - 1 /\ m = n * (m \div n) + (m % n)
    BY <1>1, Division
  <2> QED BY <1>1, <2>1, <2>2, Remainder
<1>3. (INDIRECT + j) - r = INDIRECT + m /\ (INDIRECT + m) - INDIRECT = m
  BY <1>1
<1> QED BY <1>1, <1>2, <1>3

\* What the loops read for the x-th data block of an inode: that block, or what
\* unused or missing pointers lead to.
LEMMA BlockRead ==
  ASSUME tree \in Trees, NEW n \in Int, NEW x \in Nat
  PROVE  /\ data_block(n, x) \in {<<"data", n, x>>, Lost, Super, <<"stray", 0, 0>>}
         /\ x < num_blocks(n) => data_block(n, x) \in {<<"data", n, x>>, Lost}
<1>1. num_blocks(n) \in Nat
  BY BlockCount
<1>2. ASSUME NEW y \in Nat
      PROVE  /\ data_ref(n, y) \in {<<"data", n, y>>, Lost, Super}
             /\ y < num_blocks(n) => data_ref(n, y) \in {<<"data", n, y>>, Lost}
  BY DEF data_ref, read_block
<1>3. ASSUME NEW first \in Nat, NEW j \in Nat
      PROVE  /\ indirect_ref(n, first, j)
                  \in {<<"data", n, first + j>>, Lost, Super, <<"stray", 0, 0>>}
             /\ first + j < num_blocks(n)
                  => indirect_ref(n, first, j) \in {<<"data", n, first + j>>, Lost}
  BY <1>1, <1>2 DEF indirect_ref
<1>4. CASE x < DIRECT
  BY <1>2, <1>4 DEF data_block
<1>5. CASE ~(x < DIRECT) /\ x < INDIRECT
  <2>1. x - DIRECT \in Nat /\ DIRECT \in Nat /\ DIRECT + (x - DIRECT) = x
    BY <1>5, Layout
  <2> QED BY <1>3, <1>5, <2>1 DEF data_block
<1>6. CASE ~(x < DIRECT) /\ ~(x < INDIRECT)
  <2>1. PICK j \in Nat : j = x - INDIRECT /\ INDIRECT + j = x
    BY <1>6, Layout
  <2>2. PICK g \in Nat : /\ g = (INDIRECT + j) - (j % REFS_PER_BLOCK)
                         /\ j % REFS_PER_BLOCK \in Nat /\ g + (j % REFS_PER_BLOCK) = x
    BY <2>1, Groups
  <2>3. data_block(n, x) = doubly_indirect_ref(n, j)
    BY <1>6, <2>1 DEF data_block
  <2>4. \/ doubly_indirect_ref(n, j) = Lost
        \/ doubly_indirect_ref(n, j) = indirect_ref(n, g, j % REFS_PER_BLOCK)
    BY <2>2 DEF doubly_indirect_ref
  <2> QED BY <1>3, <2>2, <2>3, <2>4
<1> QED BY <1>4, <1>5, <1>6

\* A block cannot be read only because one of the inode is missing, be it one
\* of pointers; then the first block that it leads to is damaged as well.
LEMMA LostIsDamaged ==
  ASSUME tree \in Trees, NEW n \in Int, NEW x \in Nat, data_block(n, x) = Lost
  PROVE  \E j \in 0 .. num_blocks(n) - 1 : Damaged(n, j)
<1>1. num_blocks(n) \in Nat /\ DIRECT \in Nat /\ INDIRECT \in Nat /\ DIRECT < INDIRECT
      /\ REFS_PER_BLOCK \in Nat \ {0}
  BY BlockCount, Layout
<1>2. Lost # Super /\ Lost # <<"stray", 0, 0>> /\ \A y : Lost # <<"data", n, y>>
  BY DEF Lost, Super
<1>3. CASE x < num_blocks(n)
  BY <1>1, <1>3 DEF Damaged
<1>4. CASE ~(x < num_blocks(n))
  <2>1. data_ref(n, x) # Lost
    BY <1>2, <1>4 DEF data_ref
  <2>2. CASE x < DIRECT
    BY <2>1, <2>2 DEF data_block
  <2>3. CASE ~(x < DIRECT) /\ x < INDIRECT
    <3>1. DIRECT + (x - DIRECT) = x
      BY <1>1
    <3>2. indirect_ref(n, DIRECT, x - DIRECT) = Lost
      BY <2>3 DEF data_block
    <3>3. DIRECT < num_blocks(n) /\ <<"refs", n, DIRECT>> \in lost
      BY <1>1, <1>2, <2>1, <3>1, <3>2 DEF indirect_ref
    <3>4. data_block(n, DIRECT) = Lost
      BY <1>1, <3>3 DEF data_block, indirect_ref
    <3> QED BY <1>1, <3>3, <3>4 DEF Damaged
  <2>4. CASE ~(x < DIRECT) /\ ~(x < INDIRECT)
    <3>1. PICK j \in Nat : j = x - INDIRECT /\ INDIRECT + j = x
      BY <1>1, <2>4
    <3>2. doubly_indirect_ref(n, j) = Lost
      BY <2>4, <3>1 DEF data_block
    <3>3. CASE INDIRECT < num_blocks(n) /\ <<"refs2", n, INDIRECT>> \in lost
      <4>1. data_block(n, INDIRECT) = Lost
        BY <1>1, <3>3 DEF data_block, doubly_indirect_ref
      <4> QED BY <1>1, <3>3, <4>1 DEF Damaged
    <3>4. CASE ~(INDIRECT < num_blocks(n) /\ <<"refs2", n, INDIRECT>> \in lost)
      <4>1. PICK g \in Nat : /\ g = (INDIRECT + j) - (j % REFS_PER_BLOCK)
                             /\ j % REFS_PER_BLOCK \in Nat
                             /\ g + (j % REFS_PER_BLOCK) = x /\ INDIRECT <= g
                             /\ (g - INDIRECT) % REFS_PER_BLOCK = 0
        BY <3>1, Groups
      <4>2. indirect_ref(n, g, j % REFS_PER_BLOCK) = Lost
        BY <3>2, <3>4, <4>1 DEF doubly_indirect_ref
      <4>3. g < num_blocks(n) /\ <<"refs", n, g>> \in lost
        BY <1>1, <1>2, <2>1, <4>1, <4>2 DEF indirect_ref
      <4>4. (INDIRECT + (g - INDIRECT)) - ((g - INDIRECT) % REFS_PER_BLOCK) = g
        BY <1>1, <4>1
      <4>5. doubly_indirect_ref(n, g - INDIRECT) = indirect_ref(n, g, 0)
        BY <3>4, <4>1, <4>4 DEF doubly_indirect_ref
      <4>6. indirect_ref(n, g, 0) = Lost
        BY <1>1, <4>3 DEF indirect_ref
      <4>7. data_block(n, g) = Lost
        BY <1>1, <4>1, <4>5, <4>6 DEF data_block
      <4> QED BY <1>1, <4>3, <4>7 DEF Damaged
    <3> QED BY <3>3, <3>4
  <2> QED BY <2>2, <2>3, <2>4
<1> QED BY <1>3, <1>4
-----------------------------------------------------------------------------
(* The invariant *)

\* Directory d has an entry of the name, and search_dir looks at it.
Holds(d) == d \in Dirs /\ filename \in NamesIn(d) /\ ~Overlooked(d)

\* What the loops of search_path may result in: the entry of the first inode
\* that holds the name, or anything if a block is missing before or there.
Finds(result) ==
  LET holders == {d \in Searched : Holds(d)}
  IN  \/ holders = {} /\ result = -1
      \/ \E d \in holders :
           /\ \A other \in holders : d <= other
           /\ \E x \in DOMAIN tree.dirs[d] :
                tree.dirs[d][x] = [name |-> filename, inumber |-> result]
      \/ \E d \in Searched :
           /\ \A other \in holders : d <= other
           /\ \E j \in 0 .. num_blocks(d) - 1 : Damaged(d, j)

ScanFinds == pc \in {"found", "copy", "done"} => Finds(inum)

\* What is looked for is what was asked for.
AskedFor ==
  /\ pc = "parse" => path = asked
  /\ pc # "parse" => /\ num_dirs = count_dirs(asked)
                     /\ filename = parse_path(asked)[count_dirs(asked) + 1]

\* Searching has gone past d as it should.
Passed(d) == Holds(d) => ~Intact(d)

\* The directories before the present one have been passed.
DirsPassed ==
  /\ pc = "parse" => inum = ROOT
  /\ pc \in {"search", "scan"} =>
       /\ inum \in ROOT .. ROOT + num_dirs + 1
       /\ pc = "scan" => inum \in Searched
       /\ \A d \in ROOT .. inum - 1 : Passed(d)

\* What is left of n after k blocks, where groups of blocks are taken off.
LeftAfter(n, x) ==
  n - ENTRIES_PER_BLOCK *
        (IF x <= DIRECT THEN x ELSE IF x <= INDIRECT THEN DIRECT ELSE INDIRECT)

\* In the first blocks of d, if they are intact, the name is not to be found.
Absent(d, blocks) ==
  d \in Dirs /\ ~Overlooked(d) /\ Intact(d) =>
    \A x \in DOMAIN tree.dirs[d] :
      x <= ENTRIES_PER_BLOCK * blocks => tree.dirs[d][x].name # filename

\* The blocks before k have been searched.
BlocksPassed ==
  pc = "scan" =>
    /\ entries_left = LeftAfter(filesize(inum) \div INT_SIZE, k)
    /\ Absent(inum, k)

\* How much is left to copy.
CopyCounts ==
  pc = "copy" => fsize_remaining = filesize(inum) - BLOCK_SIZE * k

\* Nothing is written before the search is over.
Unwritten == pc \notin {"copy", "done"} => written = <<>>

IInv ==
  /\ TypeOK
  /\ AskedFor
  /\ DirsPassed /\ BlocksPassed /\ ScanFinds
  /\ Unwritten /\ CopyCounts /\ Copied

\* What the disk holds, and what is said of it, depends on the disk and the
\* name only.
LEMMA DiskStays ==
  ASSUME UNCHANGED <<tree, lost, num_dirs, filename>>
  PROVE  /\ \A n : filesize(n)' = filesize(n) /\ num_blocks(n)' = num_blocks(n)
         /\ \A n, x : data_block(n, x)' = data_block(n, x)
         /\ \A n, x : Damaged(n, x)' <=> Damaged(n, x)
         /\ \A n : (Holds(n)' <=> Holds(n)) /\ (Intact(n)' <=> Intact(n))
         /\ \A n : Passed(n)' <=> Passed(n)
         /\ \A n, x : Absent(n, x)' <=> Absent(n, x)
         /\ Searched' = Searched
         /\ \A r : Finds(r)' <=> Finds(r)
<1>1. \A n : filesize(n)' = filesize(n) /\ num_blocks(n)' = num_blocks(n)
  BY DEF filesize, num_blocks, Dirs, Files
<1>2. \A n, x : data_ref(n, x)' = data_ref(n, x)
  BY <1>1 DEF data_ref, read_block
<1>3. \A n, x, y : indirect_ref(n, x, y)' = indirect_ref(n, x, y)
  BY <1>1, <1>2 DEF indirect_ref
<1>4. \A n, x : doubly_indirect_ref(n, x)' = doubly_indirect_ref(n, x)
  BY <1>1, <1>3 DEF doubly_indirect_ref
<1>5. \A n, x : data_block(n, x)' = data_block(n, x)
  BY <1>2, <1>3, <1>4 DEF data_block
<1>6. \A n, x : Damaged(n, x)' <=> Damaged(n, x)
  BY <1>5 DEF Damaged
<1>7. \A n : Holds(n)' <=> Holds(n)
  BY <1>1 DEF Holds, NamesIn, Overlooked, Dirs
<1>8. \A n : Intact(n)' <=> Intact(n)
  BY <1>1, <1>6 DEF Intact
<1>9. Searched' = Searched
  BY DEF Searched
<1>10. \A r : Finds(r)' <=> Finds(r)
  BY <1>1, <1>6, <1>7, <1>9 DEF Finds
<1>11. \A n, x : Absent(n, x)' <=> Absent(n, x)
  BY <1>1, <1>8 DEF Absent, Overlooked, Dirs
<1> QED BY <1>1, <1>5, <1>6, <1>7, <1>8, <1>9, <1>10, <1>11 DEF Passed

\* What a directory is.
LEMMA Directory ==
  ASSUME tree \in Trees, NEW d \in Dirs
  PROVE  /\ d \in Nat
         /\ DOMAIN tree.dirs[d] = 1 .. Len(tree.dirs[d]) /\ Len(tree.dirs[d]) \in Nat
         /\ \A x \in DOMAIN tree.dirs[d] :
              /\ tree.dirs[d][x].inumber \in Nat
              /\ tree.dirs[d][x] = [name |-> tree.dirs[d][x].name,
                                    inumber |-> tree.dirs[d][x].inumber]
         /\ filesize(d) = ENTRY_SIZE * Len(tree.dirs[d])
         /\ filesize(d) \div INT_SIZE = ints * Len(tree.dirs[d])
<1>1. /\ d \in Nat
      /\ tree.dirs[d] \in Seq(Range(tree.dirs[d]))
      /\ Range(tree.dirs[d]) \subseteq
           [name : {x.name : x \in Range(tree.dirs[d])}, inumber : Nat]
  BY TreesAssumption DEF Dirs
<1>2. DOMAIN tree.dirs[d] = 1 .. Len(tree.dirs[d]) /\ Len(tree.dirs[d]) \in Nat
  BY <1>1
<1>3. ASSUME NEW x \in DOMAIN tree.dirs[d]
      PROVE  /\ tree.dirs[d][x].inumber \in Nat
             /\ tree.dirs[d][x] = [name |-> tree.dirs[d][x].name,
                                   inumber |-> tree.dirs[d][x].inumber]
  <2>1. tree.dirs[d][x] \in Range(tree.dirs[d])
    BY DEF Range
  <2> QED BY <1>1, <2>1
<1>4. d \div INODES_PER_BLOCK \in Nat
  BY <1>1, Layout, Quotients
<1>5. filesize(d) = ENTRY_SIZE * Len(tree.dirs[d])
  BY <1>4 DEF filesize, FIRST_INODE_BLOCK
<1>6. filesize(d) \div INT_SIZE = ints * Len(tree.dirs[d])
  <2>1. PICK l \in Nat : l = Len(tree.dirs[d])
    BY <1>2
  <2>2. ENTRY_SIZE * l = 4 * (ints * l) /\ ints * l \in Nat
    BY Layout
  <2>3. (4 * (ints * l)) \div 4 = ints * l
    BY <2>2, Quotients
  <2> QED BY <1>5, <2>1, <2>2, <2>3 DEF INT_SIZE
<1> QED BY <1>1, <1>2, <1>3, <1>5, <1>6

\* What is taken off before a block leaves enough for all of its entries,
\* because search_dir counts ints and not entries; but for a directory that is
\* overlooked.
LEMMA EnoughLeft ==
  ASSUME tree \in Trees, NEW d \in Dirs, ~Overlooked(d), NEW x \in DOMAIN tree.dirs[d]
  PROVE  (x - 1) + ENTRIES_PER_BLOCK < filesize(d) \div INT_SIZE
<1>1. PICK l \in Nat : l = Len(tree.dirs[d])
  BY Directory
<1>2. PICK c \in Nat : c = ints
  BY Layout
<1>3. PICK b \in Nat : b = ENTRIES_PER_BLOCK
  BY Layout
<1>4. x \in 1 .. l /\ filesize(d) \div INT_SIZE = c * l /\ c >= 2 /\ b <= c /\ c * l # b
  BY <1>1, <1>2, <1>3, Directory, Layout DEF Overlooked
<1>5. c * l \in Nat /\ c * l = c * (l - 1) + c
  BY <1>4
<1>6. CASE l = 1
  <2>1. c * l = c
    BY <1>6
  <2> QED BY <1>3, <1>4, <1>6, <2>1
<1>7. CASE l >= 2
  <2>1. (l - 1) * 2 <= (l - 1) * c
    BY <1>4, <1>7, Products
  <2>2. c * (l - 1) = (l - 1) * c /\ (l - 1) * c \in Int
    BY <1>7
  <2> QED BY <1>3, <1>4, <1>5, <1>7, <2>1, <2>2
<1> QED BY <1>4, <1>6, <1>7

\* Where the first of the directories that are looked for comes in.
LEMMA Concluded ==
  ASSUME num_dirs \in Nat, NEW d \in Searched, \A e \in ROOT .. d - 1 : Passed(e), NEW r,
         \/ ~Intact(d)
         \/ Holds(d) /\ \E x \in DOMAIN tree.dirs[d] :
                          tree.dirs[d][x] = [name |-> filename, inumber |-> r]
  PROVE  Finds(r)
<1> DEFINE holders == {e \in Searched : Holds(e)}
<1>1. Searched \subseteq Nat /\ \A e \in Searched : e < d => e \in ROOT .. d - 1
  BY DEF Searched, ROOT
<1>2. CASE \E e \in holders : e < d
  <2>1. holders \subseteq Nat /\ holders # {}
    BY <1>1, <1>2
  <2> HIDE DEF holders
  <2>2. PICK e \in holders : \A other \in holders : e <= other
    BY <2>1, Least
  <2>3. e \in Searched /\ Holds(e) /\ e < d
    <3>1. PICK e2 \in holders : e2 < d
      BY <1>2
    <3>2. e <= e2 /\ e \in Nat /\ e2 \in Nat /\ d \in Nat
      BY <1>1, <2>1, <2>2
    <3> QED BY <2>2, <3>1, <3>2 DEF holders
  <2>4. ~Intact(e)
    BY <1>1, <2>3 DEF Passed
  <2> QED BY <2>2, <2>3, <2>4 DEF Finds, Intact, holders
<1>3. CASE \A e \in holders : ~(e < d)
  <2>1. \A e \in holders : d <= e
    BY <1>1, <1>3
  <2>2. CASE ~Intact(d)
    BY <2>1, <2>2 DEF Finds, Intact
  <2>3. CASE Holds(d) /\ \E x \in DOMAIN tree.dirs[d] :
                          tree.dirs[d][x] = [name |-> filename, inumber |-> r]
    BY <2>1, <2>3 DEF Finds
  <2> QED BY <2>2, <2>3
<1> QED BY <1>2, <1>3

\* When all directories have been passed there is nothing to be found.
LEMMA AllPassed ==
  ASSUME num_dirs \in Nat, \A e \in Searched : Passed(e)
  PROVE  Finds(-1)
<1> DEFINE holders == {e \in Searched : Holds(e)}
<1>1. Searched \subseteq Nat
  BY DEF Searched, ROOT
<1>2. CASE holders = {}
  BY <1>2 DEF Finds
<1>3. CASE holders # {}
  <2>1. holders \subseteq Nat
    BY <1>1
  <2> HIDE DEF holders
  <2>2. PICK e \in holders : \A other \in holders : e <= other
    BY <1>3, <2>1, Least
  <2>3. e \in Searched /\ ~Intact(e)
    BY <2>2 DEF holders, Passed
  <2> QED BY <2>2, <2>3 DEF Finds, Intact, holders
<1> QED BY <1>2, <1>3
-----------------------------------------------------------------------------
(* The invariant holds initially, and the type invariant stays *)

LEMMA InitIInv == Init => IInv
<1> SUFFICES ASSUME Init
             PROVE  IInv
  OBVIOUS
<1>1. TypeOK
  <2>1. written \in Seq(({"data", "super", "stray", "lost"} \X Int \X Int) \X (1 .. BLOCK_SIZE))
    BY DEF Init
  <2>2. ALL \in Nat
    BY Layout
  <2> QED BY <2>1, <2>2 DEF Init, TypeOK, ROOT
<1>2. pc = "parse" /\ inum = ROOT
  BY DEF Init
<1>3. DirsPassed /\ BlocksPassed
  BY <1>2 DEF DirsPassed, BlocksPassed
<1>4. ScanFinds /\ Unwritten /\ CopyCounts /\ Copied
  BY <1>2 DEF Init, ScanFinds, Unwritten, CopyCounts, Copied
<1>5. AskedFor
  BY <1>2 DEF Init, AskedFor
<1> QED BY <1>1, <1>3, <1>4, <1>5 DEF IInv

\* count_dirs counts the slashes of a string.
LEMMA Slashes ==
  ASSUME NEW p \in Seq(STRING)
  PROVE  count_dirs(p) \in Nat
<1>1. PICK n \in Nat : n = Len(p)
  OBVIOUS
<1>2. IsFiniteSet(1 .. n) /\ DOMAIN p = 1 .. n
  BY <1>1, FS_Interval
<1>3. IsFiniteSet({x \in DOMAIN p : p[x] = SLASH})
  BY <1>2, FS_Subset
<1> QED BY <1>3, FS_CardinalityType DEF count_dirs

\* An entry that is found in a block is one of the directory's, and its name is
\* the one that is looked for.
LEMMA Matching ==
  ASSUME tree \in Trees, NEW n \in Int, NEW y \in Nat, NEW max \in Int,
         NEW x \in matches(data_block(n, y), max)
  PROVE  /\ data_block(n, y) = <<"data", n, y>> /\ n \in Dirs
         /\ x \in Nat /\ (max < 0 \/ x < max)
         /\ ENTRIES_PER_BLOCK * y + x + 1 \in DOMAIN tree.dirs[n]
         /\ dir_entries(data_block(n, y))[x] = tree.dirs[n][ENTRIES_PER_BLOCK * y + x + 1]
         /\ dir_entries(data_block(n, y))[x].name = filename
<1> DEFINE b == data_block(n, y)
<1>1. b \in {<<"data", n, y>>, Lost, Super, <<"stray", 0, 0>>}
  BY BlockRead
<1> HIDE DEF b
<1>2. /\ x \in DOMAIN dir_entries(b) /\ (max < 0 \/ x < max)
      /\ dir_entries(b)[x].name = filename
  BY DEF matches, b
<1>3. b[1] = "data" /\ b[2] \in Dirs
  BY <1>2 DEF dir_entries
<1>4. b = <<"data", n, y>> /\ n \in Dirs
  BY <1>1, <1>3 DEF Lost, Super
<1>5. PICK m \in Nat : m = ENTRIES_PER_BLOCK * y /\ y * ENTRIES_PER_BLOCK = m
  BY Layout
<1>6. PICK l \in Nat : l = Len(tree.dirs[n]) /\ DOMAIN tree.dirs[n] = 1 .. l
  BY <1>4, Directory
<1>7. /\ x \in 0 .. ENTRIES_PER_BLOCK - 1 /\ m + x < l
      /\ dir_entries(b)[x] = tree.dirs[n][m + x + 1]
  BY <1>2, <1>4, <1>5, <1>6 DEF dir_entries
<1>8. m + x + 1 \in 1 .. l /\ x \in Nat
  BY <1>7, Layout
<1> QED BY <1>2, <1>4, <1>5, <1>6, <1>7, <1>8 DEF b

\* What search_dir_data_block may return: -1, if the name is not among the
\* entries that it looks at or the block could not be read, or an inode number.
LEMMA SearchResult ==
  ASSUME tree \in Trees, NEW n \in Int, NEW y \in Nat, NEW max \in Int,
         NEW r \in search_dir_data_block(data_block(n, y), max)
  PROVE  /\ r \in Nat \union {-1}
         /\ data_block(n, y) # Lost /\ r = -1 => matches(data_block(n, y), max) = {}
         /\ data_block(n, y) # Lost /\ r # -1 =>
              \E x \in matches(data_block(n, y), max) :
                r = dir_entries(data_block(n, y))[x].inumber
<1> DEFINE b == data_block(n, y)
<1>1. CASE b = Lost
  <2>1. Dirs \subseteq Nat /\ Files \subseteq Nat
    BY TreesAssumption DEF Dirs, Files
  <2> QED BY <1>1, <2>1 DEF search_dir_data_block
<1>2. CASE b # Lost /\ matches(b, max) = {}
  BY <1>2 DEF search_dir_data_block
<1>3. CASE b # Lost /\ matches(b, max) # {}
  <2> DEFINE T == matches(b, max)
             first == CHOOSE x \in T : \A z \in T : x <= z
  <2>1. T \subseteq Nat
    BY Matching
  <2>2. r = dir_entries(b)[first].inumber
    BY <1>3 DEF search_dir_data_block
  <2>3. first \in T
    <3> HIDE DEF T
    <3>1. \E x \in T : \A z \in T : x <= z
      BY <1>3, <2>1, Least DEF T
    <3> QED BY <3>1
  <2>4. r \in Nat
    <3> HIDE DEF first
    <3>1. PICK m \in DOMAIN tree.dirs[n] : dir_entries(b)[first] = tree.dirs[n][m] /\ n \in Dirs
      BY <2>3, Matching
    <3> QED BY <2>2, <3>1, Directory
  <2> HIDE DEF first
  <2> QED BY <1>3, <2>2, <2>3, <2>4
<1> QED BY <1>1, <1>2, <1>3

\* Where the loop over blocks stands while it goes on.
LEMMA GoesOn ==
  ASSUME k \in 0 .. ALL, NEW left \in Int, ~loop_ends(left)
  PROVE  k \in Nat /\ k < ALL /\ k + 1 \in 0 .. ALL
BY Layout DEF loop_ends

\* entries_left when a block is searched is a number.
LEMMA LeftIsInt ==
  ASSUME entries_left \in Int
  PROVE  left_at_k \in Int
<1>1. ENTRIES_PER_BLOCK \in Int /\ ENTRIES_PER_BLOCK * REFS_PER_BLOCK \in Int
  BY Layout
<1> QED BY <1>1 DEF left_at_k

\* What is written to the real file is a block and how many bytes of it.
LEMMA Written ==
  ASSUME tree \in Trees, NEW n \in Int, NEW x \in Nat
  PROVE  data_block(n, x) \in {"data", "super", "stray", "lost"} \X Int \X Int
<1>1. data_block(n, x) \in {<<"data", n, x>>, Lost, Super, <<"stray", 0, 0>>}
  BY BlockRead
<1> QED BY <1>1 DEF Lost, Super

\* Every step keeps the types.
LEMMA TypeStep ==
  ASSUME TypeOK, Next
  PROVE  TypeOK'
<1>1. /\ tree \in Trees /\ lost \in Losses /\ num_dirs \in Nat
      /\ inum \in Nat \union {-1} /\ inum \in Int
      /\ k \in 0 .. ALL /\ k \in Nat /\ ALL \in Nat
      /\ entries_left \in Int /\ fsize_remaining \in Int
      /\ \A n : filesize(n) \in Nat
  BY Layout, Filesizes DEF TypeOK
<1>2. CASE ParsePath
  <2>1. path \in Texts
    BY <1>2 DEF TypeOK, ParsePath
  <2>2. count_dirs(path) \in Nat
    BY <2>1, Slashes, LinesAssumption
  <2>3. num_dirs' \in Nat /\ pc' = "search"
    BY <1>2, <2>2 DEF ParsePath
  <2> QED BY <1>2, <2>3 DEF TypeOK, ParsePath
<1>3. CASE SearchDir
  <2>1. filesize(inum) \div INT_SIZE \in Int
    BY <1>1, Division DEF INT_SIZE
  <2> QED BY <1>1, <1>3, <2>1 DEF TypeOK, SearchDir, names
<1>4. CASE NotFound
  BY <1>4 DEF TypeOK, NotFound, names
<1>5. CASE SearchBlock
  <2>1. left_at_k \in Int
    BY <1>1, LeftIsInt
  <2>2. k + 1 \in 0 .. ALL
    BY <1>1, <1>5, <2>1, GoesOn DEF SearchBlock
  <2>3. PICK r \in search_dir_data_block(data_block(inum, k), left_at_k) :
          IF r = -1 THEN k' = k + 1 /\ UNCHANGED <<pc, inum>>
          ELSE inum' = r /\ pc' = "found" /\ UNCHANGED k
    BY <1>5 DEF SearchBlock
  <2>4. r \in Nat \union {-1}
    BY <1>1, <2>1, <2>3, SearchResult
  <2>5. /\ inum' \in Nat \union {-1} /\ k' \in 0 .. ALL /\ entries_left' \in Int
        /\ pc' \in {"scan", "found"}
    BY <1>1, <1>5, <2>1, <2>2, <2>3, <2>4 DEF SearchBlock
  <2> QED BY <1>5, <2>5 DEF TypeOK, SearchBlock, names
<1>6. CASE NextDir
  <2>1. inum + 1 \in Nat
    BY <1>1
  <2> QED BY <1>6, <2>1 DEF TypeOK, NextDir, names
<1>7. CASE ReadInode
  BY <1>1, <1>7 DEF TypeOK, ReadInode, names
<1>8. CASE CopyBlock
  <2>1. k + 1 \in 0 .. ALL
    BY <1>1, <1>8, GoesOn DEF CopyBlock
  <2>2. data_block(inum, k) \in {"data", "super", "stray", "lost"} \X Int \X Int
    BY <1>1, Written
  <2>3. num_bytes \in 0 .. BLOCK_SIZE
    BY <1>1, Layout DEF num_bytes
  <2>4. num_bytes # 0 => num_bytes \in 1 .. BLOCK_SIZE
    BY <2>3, Layout
  <2>5. fsize_remaining - BLOCK_SIZE \in Int
    BY <1>1, Layout
  <2>6. written' \in Seq(({"data", "super", "stray", "lost"} \X Int \X Int) \X (1 .. BLOCK_SIZE))
    <3> DEFINE Part == ({"data", "super", "stray", "lost"} \X Int \X Int) \X (1 .. BLOCK_SIZE)
    <3>1. CASE num_bytes = 0
      BY <1>8, <3>1 DEF TypeOK, CopyBlock
    <3>2. CASE num_bytes # 0
      <4>1. <<data_block(inum, k), num_bytes>> \in Part
        BY <2>2, <2>4, <3>2
      <4>2. written' = Append(written, <<data_block(inum, k), num_bytes>>)
        BY <1>8, <3>2 DEF CopyBlock
      <4>3. written \in Seq(Part)
        BY DEF TypeOK
      <4> HIDE DEF Part
      <4>4. Append(written, <<data_block(inum, k), num_bytes>>) \in Seq(Part)
        BY <4>1, <4>3
      <4> QED BY <4>2, <4>4 DEF Part
    <3> QED BY <3>1, <3>2
  <2> QED BY <1>8, <2>1, <2>5, <2>6 DEF TypeOK, CopyBlock, names
<1>9. CASE CopyEnds
  BY <1>9 DEF TypeOK, CopyEnds, names
<1> QED BY <1>2, <1>3, <1>4, <1>5, <1>6, <1>7, <1>8, <1>9 DEF Next
-----------------------------------------------------------------------------
(* The blocks of a directory *)

\* What entries_left is when a block is searched.
LEMMA Decrease ==
  ASSUME k \in Nat, NEW n \in Int, entries_left = LeftAfter(n, k)
  PROVE  left_at_k = LeftAfter(n, k + 1)
<1> DEFINE b == ENTRIES_PER_BLOCK
<1>1. /\ b \in Nat /\ DIRECT \in Nat /\ INDIRECT \in Nat /\ REFS_PER_BLOCK \in Nat
      /\ INDIRECT = DIRECT + REFS_PER_BLOCK /\ DIRECT < INDIRECT
  BY Layout
<1> HIDE DEF b
<1>2. b * (k + 1) = b * k + b /\ b * k \in Int /\ b * DIRECT \in Int
      /\ b * INDIRECT = b * DIRECT + b * REFS_PER_BLOCK /\ b * REFS_PER_BLOCK \in Int
  BY <1>1
<1>3. CASE k < DIRECT
  <2>1. entries_left = n - b * k /\ LeftAfter(n, k + 1) = n - b * (k + 1)
    BY <1>1, <1>3 DEF LeftAfter, b
  <2>2. left_at_k = entries_left - b
    BY <1>3 DEF left_at_k, b
  <2> QED BY <1>1, <1>2, <2>1, <2>2
<1>4. CASE k = INDIRECT
  <2>1. entries_left = n - b * DIRECT /\ LeftAfter(n, k + 1) = n - b * INDIRECT
    BY <1>1, <1>4 DEF LeftAfter, b
  <2>2. left_at_k = entries_left - b * REFS_PER_BLOCK
    BY <1>1, <1>4 DEF left_at_k, b
  <2> QED BY <1>1, <1>2, <2>1, <2>2
<1>5. CASE DIRECT <= k /\ k # INDIRECT
  <2>1. left_at_k = entries_left - 0
    BY <1>1, <1>5 DEF left_at_k
  <2>2. LeftAfter(n, k + 1) = LeftAfter(n, k) /\ LeftAfter(n, k) \in Int
    BY <1>1, <1>5, <1>2 DEF LeftAfter, b
  <2> QED BY <2>1, <2>2
<1> QED BY <1>1, <1>3, <1>4, <1>5

\* If there is no match in a block then no entry of this block has the name.
LEMMA NotInBlock ==
  ASSUME tree \in Trees, NEW d \in Dirs, ~Overlooked(d), NEW y \in Nat,
         NEW max \in Int, max = LeftAfter(filesize(d) \div INT_SIZE, y + 1),
         data_block(d, y) # Lost, matches(data_block(d, y), max) = {},
         NEW x \in DOMAIN tree.dirs[d],
         ENTRIES_PER_BLOCK * y < x, x <= ENTRIES_PER_BLOCK * (y + 1)
  PROVE  tree.dirs[d][x].name # filename
<1> DEFINE b == ENTRIES_PER_BLOCK
           n == filesize(d) \div INT_SIZE
           m == b * y
           z == (x - 1) - m
<1>1. /\ b \in Nat \ {0} /\ ENTRY_SIZE \in Nat \ {0} /\ BLOCK_SIZE = ENTRY_SIZE * b
      /\ DIRECT \in Nat /\ INDIRECT \in Nat /\ DIRECT < INDIRECT
  BY Layout
<1>2. PICK l \in Nat : /\ l = Len(tree.dirs[d]) /\ DOMAIN tree.dirs[d] = 1 .. l
                       /\ filesize(d) = ENTRY_SIZE * l /\ n = ints * l
  BY Directory
<1>3. n \in Int /\ (x - 1) + b < n /\ d \in Int
  <2>1. (x - 1) + b < n
    BY EnoughLeft
  <2> HIDE DEF n
  <2>2. n = ints * l
    BY <1>2
  <2>3. ints * l \in Nat
    BY Layout
  <2>4. d \in Nat
    BY Directory
  <2> QED BY <2>1, <2>2, <2>3, <2>4
<1> HIDE DEF b, n
<1>4. m \in Int /\ b * (y + 1) = m + b /\ x \in 1 .. l /\ m < x /\ x <= m + b /\ m >= 0
  BY <1>1, <1>2 DEF b
<1> HIDE DEF m
<1>5. z \in 0 .. b - 1 /\ m + z = x - 1 /\ m + z < l /\ m + z + 1 = x
  BY <1>1, <1>4
<1>6. data_block(d, y) = <<"data", d, y>>
  <2>1. ENTRY_SIZE * (m + 1) <= ENTRY_SIZE * l
    BY <1>1, <1>4, Products
  <2>2. BLOCK_SIZE * y = ENTRY_SIZE * m
    BY <1>1 DEF m
  <2>3. ENTRY_SIZE * (m + 1) = ENTRY_SIZE * m + ENTRY_SIZE /\ ENTRY_SIZE * m \in Int
        /\ ENTRY_SIZE * l \in Int
    BY <1>1, <1>4
  <2>4. BLOCK_SIZE * y < filesize(d)
    BY <1>1, <1>2, <2>1, <2>2, <2>3
  <2>5. y < num_blocks(d)
    BY <2>4, BlockCount
  <2> QED BY <1>3, <2>5, BlockRead
<1>7. z < max
  <2> DEFINE c == IF y + 1 <= DIRECT THEN y + 1
                  ELSE IF y + 1 <= INDIRECT THEN DIRECT ELSE INDIRECT
  <2>1. c \in Nat /\ c <= y + 1 /\ max = n - b * c
    <3>1. c \in Nat /\ c <= y + 1
      BY <1>1
    <3>2. max = n - b * c
      BY DEF LeftAfter, b, n
    <3> QED BY <3>1, <3>2
  <2> HIDE DEF c
  <2>2. b * c <= b * (y + 1) /\ b * c \in Int
    BY <1>1, <2>1, Products
  <2>3. max >= n - (m + b)
    BY <1>1, <1>3, <1>4, <2>1, <2>2
  <2> QED BY <1>1, <1>3, <1>4, <2>3
<1> HIDE DEF z
<1>8. z \in DOMAIN dir_entries(data_block(d, y))
      /\ dir_entries(data_block(d, y))[z] = tree.dirs[d][x]
  <2>1. y * ENTRIES_PER_BLOCK = m
    BY <1>1 DEF m, b
  <2> QED BY <1>2, <1>5, <1>6, <2>1 DEF dir_entries, b
<1> QED BY <1>7, <1>8 DEF matches

\* When the loops over the blocks of a directory end, no entry is beyond.
LEMMA Exhausted ==
  ASSUME tree \in Trees, NEW d \in Dirs, ~Overlooked(d), NEW y \in 0 .. ALL,
         \/ y = ALL
         \/ y \in {DIRECT, INDIRECT} /\ LeftAfter(filesize(d) \div INT_SIZE, y + 1) <= 0,
         NEW x \in DOMAIN tree.dirs[d]
  PROVE  x <= ENTRIES_PER_BLOCK * y
<1> DEFINE b == ENTRIES_PER_BLOCK
           n == filesize(d) \div INT_SIZE
<1>1. /\ b \in Nat \ {0} /\ ENTRY_SIZE \in Nat \ {0} /\ BLOCK_SIZE = ENTRY_SIZE * b
      /\ DIRECT \in Nat /\ INDIRECT \in Nat /\ DIRECT < INDIRECT /\ ALL \in Nat
  BY Layout
<1>2. PICK l \in Nat : /\ l = Len(tree.dirs[d]) /\ DOMAIN tree.dirs[d] = 1 .. l
                       /\ filesize(d) = ENTRY_SIZE * l /\ n = ints * l
  BY Directory
<1>3. n \in Int /\ (x - 1) + b < n /\ x \in 1 .. l
  <2>1. (x - 1) + b < n
    BY EnoughLeft
  <2> HIDE DEF n
  <2>2. n = ints * l
    BY <1>2
  <2>3. ints * l \in Nat
    BY Layout
  <2> QED BY <1>2, <2>1, <2>2, <2>3
<1>4. CASE y = ALL
  <2>1. ENTRY_SIZE * l <= ALL * BLOCK_SIZE
    BY <1>2, Filesizes
  <2>2. PICK m \in Nat : m = b * ALL
    BY <1>1
  <2>3. ALL * BLOCK_SIZE = ENTRY_SIZE * m
    BY <1>1, <2>2
  <2>4. CASE m + 1 <= l
    <3>1. ENTRY_SIZE * (m + 1) <= ENTRY_SIZE * l
      BY <1>1, <2>2, <2>4, Products
    <3>2. ENTRY_SIZE * (m + 1) = ENTRY_SIZE * m + ENTRY_SIZE
          /\ ENTRY_SIZE * m \in Int /\ ENTRY_SIZE * l \in Int
      BY <1>1, <1>2, <2>2
    <3> QED BY <1>1, <2>1, <2>3, <3>1, <3>2
  <2> QED BY <1>3, <1>4, <2>2, <2>4
<1>5. CASE y \in {DIRECT, INDIRECT} /\ LeftAfter(n, y + 1) <= 0
  <2>1. LeftAfter(n, y + 1) = n - b * y
    BY <1>1, <1>5 DEF LeftAfter
  <2>2. b * y \in Int
    BY <1>1, <1>5
  <2> HIDE DEF n
  <2> QED BY <1>1, <1>3, <1>5, <2>1, <2>2
<1> QED BY <1>4, <1>5

\* An entry is found only in a directory that is not overlooked.
LEMMA FoundWhereHeld ==
  ASSUME tree \in Trees, NEW d \in Int, NEW y \in Nat,
         NEW max \in Int, max = LeftAfter(filesize(d) \div INT_SIZE, y + 1),
         NEW x \in matches(data_block(d, y), max)
  PROVE  Holds(d)
<1> DEFINE b == ENTRIES_PER_BLOCK
<1>1. /\ d \in Dirs /\ x \in Nat /\ (max < 0 \/ x < max)
      /\ b * y + x + 1 \in DOMAIN tree.dirs[d]
      /\ tree.dirs[d][b * y + x + 1].name = filename
  BY Matching
<1>2. filename \in NamesIn(d)
  BY <1>1 DEF NamesIn
<1>3. ASSUME Overlooked(d)
      PROVE  FALSE
  <2>1. PICK l \in Nat : /\ l = Len(tree.dirs[d]) /\ DOMAIN tree.dirs[d] = 1 .. l
                         /\ filesize(d) \div INT_SIZE = ints * l
    BY <1>1, Directory
  <2>2. b \in Nat \ {0} /\ ints \in Nat /\ ints >= 2 /\ b <= ints /\ ints * l = b
        /\ DIRECT \in Nat \ {0}
    BY <1>3, <2>1, Layout DEF Overlooked
  <2>3. b * y \in Nat /\ b * y + x + 1 \in 1 .. l
    BY <1>1, <2>1, <2>2
  <2>4. l <= 1
    <3>1. CASE l >= 2
      <4>1. ints * 2 <= ints * l
        BY <2>1, <2>2, <3>1, Products
      <4> QED BY <2>2, <4>1
    <3> QED BY <3>1
  <2>5. b * y = 0 /\ x = 0
    BY <1>1, <2>3, <2>4
  <2>6. y = 0
    <3>1. CASE y >= 1
      <4>1. b * 1 <= b * y
        BY <2>2, <3>1, Products
      <4> QED BY <2>2, <2>5, <4>1
    <3> QED BY <3>1
  <2>7. max = b - b * 1
    BY <1>3, <2>2, <2>6 DEF LeftAfter, Overlooked
  <2> QED BY <1>1, <2>2, <2>5, <2>7
<1> QED BY <1>1, <1>2, <1>3 DEF Holds
-----------------------------------------------------------------------------
(* The steps of search_path *)

\* The disk is only read, and the name that is looked for is set once.
LEMMA Reads ==
  ASSUME Next
  PROVE  ParsePath \/ UNCHANGED <<tree, lost, num_dirs, filename>>
BY DEF Next, SearchDir, NotFound, SearchBlock, NextDir, ReadInode, CopyBlock, CopyEnds, names

\* A directory is begun with all that its size says.
LEMMA Beginning ==
  ASSUME tree \in Trees, NEW d
  PROVE  /\ filesize(d) \div INT_SIZE = LeftAfter(filesize(d) \div INT_SIZE, 0)
         /\ Absent(d, 0)
<1>1. PICK n \in Int : n = filesize(d) \div INT_SIZE
  BY Filesizes, Division DEF INT_SIZE
<1>2. n = LeftAfter(n, 0)
  <2>1. ENTRIES_PER_BLOCK * 0 = 0 /\ 0 <= DIRECT
    BY Layout
  <2>2. LeftAfter(n, 0) = n - 0
    BY <2>1 DEF LeftAfter
  <2> QED BY <2>2
<1>3. Absent(d, 0)
  <2> SUFFICES ASSUME d \in Dirs, NEW x \in DOMAIN tree.dirs[d], x <= ENTRIES_PER_BLOCK * 0
               PROVE  FALSE
    BY DEF Absent
  <2>1. x >= 1 /\ x \in Nat
    BY Directory
  <2>2. ENTRIES_PER_BLOCK * 0 = 0
    BY Layout
  <2> QED BY <2>1, <2>2
<1> QED BY <1>1, <1>2, <1>3

\* A block without the name is passed.
LEMMA BlockPassed ==
  ASSUME tree \in Trees, NEW d \in Int, NEW y \in Nat, Absent(d, y),
         NEW max \in Int, max = LeftAfter(filesize(d) \div INT_SIZE, y + 1),
         -1 \in search_dir_data_block(data_block(d, y), max)
  PROVE  Absent(d, y + 1)
<1> SUFFICES ASSUME d \in Dirs, ~Overlooked(d), Intact(d),
                    NEW x \in DOMAIN tree.dirs[d], x <= ENTRIES_PER_BLOCK * (y + 1)
             PROVE  tree.dirs[d][x].name # filename
  BY DEF Absent
<1>1. data_block(d, y) # Lost
  BY LostIsDamaged DEF Intact
<1>2. matches(data_block(d, y), max) = {}
  BY <1>1, SearchResult
<1>3. CASE x <= ENTRIES_PER_BLOCK * y
  BY <1>3 DEF Absent
<1>4. CASE ~(x <= ENTRIES_PER_BLOCK * y)
  <2>1. ENTRIES_PER_BLOCK * y < x
    <3>1. x \in Nat
      BY Directory
    <3>2. ENTRIES_PER_BLOCK * y \in Int
      BY Layout
    <3> QED BY <1>4, <3>1, <3>2
  <2> QED BY <1>1, <1>2, <2>1, NotInBlock
<1> QED BY <1>3, <1>4

\* A result is the one of the first directory that has the name, if the blocks
\* up to there are not missing.
LEMMA ResultFound ==
  ASSUME tree \in Trees, num_dirs \in Nat, NEW d \in Searched, NEW y \in Nat,
         \A e \in ROOT .. d - 1 : Passed(e),
         NEW max \in Int, max = LeftAfter(filesize(d) \div INT_SIZE, y + 1),
         NEW r \in search_dir_data_block(data_block(d, y), max), r # -1
  PROVE  Finds(r)
<1>0. d \in Int
  BY DEF Searched, ROOT
<1>1. CASE data_block(d, y) = Lost
  <2>1. ~Intact(d)
    BY <1>0, <1>1, LostIsDamaged DEF Intact
  <2> QED BY <2>1, Concluded
<1>2. CASE data_block(d, y) # Lost
  <2>1. PICK x \in matches(data_block(d, y), max) :
          r = dir_entries(data_block(d, y))[x].inumber
    BY <1>0, <1>2, SearchResult
  <2>2. Holds(d)
    BY <1>0, FoundWhereHeld
  <2>3. \E m \in DOMAIN tree.dirs[d] :
          /\ dir_entries(data_block(d, y))[x] = tree.dirs[d][m]
          /\ tree.dirs[d][m].name = filename
          /\ d \in Dirs
    BY <1>0, Matching
  <2>4. PICK m \in DOMAIN tree.dirs[d] : /\ tree.dirs[d][m].name = filename /\ d \in Dirs
                                         /\ tree.dirs[d][m].inumber = r
    BY <2>1, <2>3
  <2>5. tree.dirs[d][m] = [name |-> filename, inumber |-> r]
    BY <2>4, Directory
  <2> QED BY <2>2, <2>5, Concluded
<1> QED BY <1>1, <1>2

\* A directory that is left has been passed.
LEMMA DirLeft ==
  ASSUME tree \in Trees, NEW d \in Int, NEW y \in 0 .. ALL, Absent(d, y),
         \/ y = ALL
         \/ y \in {DIRECT, INDIRECT} /\ LeftAfter(filesize(d) \div INT_SIZE, y + 1) <= 0
  PROVE  Passed(d)
<1> SUFFICES ASSUME Holds(d), Intact(d)
             PROVE  FALSE
  BY DEF Passed
<1>1. PICK x \in DOMAIN tree.dirs[d] : /\ d \in Dirs /\ ~Overlooked(d)
                                       /\ tree.dirs[d][x].name = filename
  BY DEF Holds, NamesIn
<1>2. x <= ENTRIES_PER_BLOCK * y
  BY <1>1, Exhausted
<1> QED BY <1>1, <1>2 DEF Absent

\* The steps of the search keep what is said of it.
LEMMA SearchStep ==
  ASSUME IInv, TypeOK', Next
  PROVE  DirsPassed' /\ BlocksPassed' /\ ScanFinds'
<1>1. /\ tree \in Trees /\ num_dirs \in Nat /\ k \in 0 .. ALL /\ k \in Nat
      /\ inum \in Int /\ entries_left \in Int
      /\ DirsPassed /\ BlocksPassed /\ ScanFinds
  BY Layout DEF IInv, TypeOK
<1>2. CASE ParsePath
  <2>1. pc = "parse" /\ pc' = "search" /\ inum' = inum /\ num_dirs' \in Nat
    BY <1>2 DEF ParsePath, TypeOK
  <2>2. inum' = ROOT
    BY <1>1, <2>1 DEF DirsPassed
  <2>3. /\ \A n \in Nat : ROOT \in ROOT .. ROOT + n + 1
        /\ ROOT .. ROOT - 1 = {}
    BY DEF ROOT
  <2>4. inum' \in ROOT .. ROOT + num_dirs' + 1 /\ ROOT .. inum' - 1 = {}
    BY <2>1, <2>2, <2>3
  <2> QED BY <2>1, <2>4 DEF DirsPassed, BlocksPassed, ScanFinds
<1>3. ASSUME UNCHANGED <<tree, lost, num_dirs, filename>>
      PROVE  DirsPassed' /\ BlocksPassed' /\ ScanFinds'
  <2>1. /\ \A d : filesize(d)' = filesize(d)
        /\ \A d : Passed(d)' <=> Passed(d)
        /\ \A d, y : Absent(d, y)' <=> Absent(d, y)
        /\ Searched' = Searched /\ num_dirs' = num_dirs
        /\ \A r : Finds(r)' <=> Finds(r)
    BY <1>3, DiskStays
  <2>2. CASE SearchDir
    <3>1. /\ pc = "search" /\ pc' = "scan" /\ inum' = inum /\ inum <= ROOT + num_dirs
          /\ k' = 0 /\ entries_left' = filesize(inum) \div INT_SIZE
      BY <2>2 DEF SearchDir
    <3>2. inum \in ROOT .. ROOT + num_dirs + 1 /\ \A d \in ROOT .. inum - 1 : Passed(d)
      BY <1>1, <3>1 DEF DirsPassed
    <3>3. inum \in Searched
      BY <1>1, <3>1, <3>2 DEF Searched, ROOT
    <3>4. DirsPassed'
      BY <2>1, <3>1, <3>2, <3>3 DEF DirsPassed
    <3>5. BlocksPassed'
      <4>1. /\ filesize(inum) \div INT_SIZE = LeftAfter(filesize(inum) \div INT_SIZE, 0)
            /\ Absent(inum, 0)
        BY <1>1, Beginning
      <4> QED BY <2>1, <3>1, <4>1 DEF BlocksPassed
    <3> QED BY <3>1, <3>4, <3>5 DEF ScanFinds
  <2>3. CASE NotFound
    <3>1. pc = "search" /\ pc' = "found" /\ inum' = -1 /\ inum > ROOT + num_dirs
      BY <2>3 DEF NotFound
    <3>2. \A d \in ROOT .. inum - 1 : Passed(d)
      BY <1>1, <3>1 DEF DirsPassed
    <3>3. \A d \in Searched : Passed(d)
      BY <1>1, <3>1, <3>2 DEF Searched, ROOT
    <3>4. Finds(-1)
      BY <1>1, <3>3, AllPassed
    <3> QED BY <2>1, <3>1, <3>4 DEF DirsPassed, BlocksPassed, ScanFinds
  <2>4. CASE SearchBlock
    <3>1. PICK r \in search_dir_data_block(data_block(inum, k), left_at_k) :
            IF r = -1 THEN k' = k + 1 /\ UNCHANGED <<pc, inum>>
            ELSE inum' = r /\ pc' = "found" /\ UNCHANGED k
      BY <2>4 DEF SearchBlock
    <3>2. pc = "scan" /\ entries_left' = left_at_k /\ left_at_k \in Int
      BY <1>1, <2>4, LeftIsInt DEF SearchBlock
    <3>3. /\ inum \in Searched /\ inum \in ROOT .. ROOT + num_dirs + 1
          /\ \A d \in ROOT .. inum - 1 : Passed(d)
      BY <1>1, <3>2 DEF DirsPassed
    <3>4. Absent(inum, k) /\ left_at_k = LeftAfter(filesize(inum) \div INT_SIZE, k + 1)
      <4>1. Absent(inum, k) /\ entries_left = LeftAfter(filesize(inum) \div INT_SIZE, k)
        BY <1>1, <3>2 DEF BlocksPassed
      <4>2. filesize(inum) \div INT_SIZE \in Int
        BY <1>1, Filesizes, Division DEF INT_SIZE
      <4> QED BY <1>1, <4>1, <4>2, Decrease
    <3>5. CASE r = -1
      <4>1. k' = k + 1 /\ pc' = "scan" /\ inum' = inum
        BY <3>1, <3>2, <3>5
      <4>2. Absent(inum, k + 1)
        BY <1>1, <3>1, <3>2, <3>4, <3>5, BlockPassed
      <4>3. DirsPassed'
        BY <2>1, <3>3, <4>1 DEF DirsPassed
      <4>4. BlocksPassed'
        BY <2>1, <3>2, <3>4, <4>1, <4>2 DEF BlocksPassed
      <4> QED BY <4>1, <4>3, <4>4 DEF ScanFinds
    <3>6. CASE r # -1
      <4>1. pc' = "found" /\ inum' = r
        BY <3>1, <3>6
      <4>2. Finds(r)
        BY <1>1, <3>1, <3>2, <3>3, <3>4, <3>6, ResultFound
      <4> QED BY <2>1, <4>1, <4>2 DEF DirsPassed, BlocksPassed, ScanFinds
    <3> QED BY <3>5, <3>6
  <2>5. CASE NextDir
    <3>1. pc = "scan" /\ pc' = "search" /\ inum' = inum + 1 /\ loop_ends(left_at_k)
      BY <2>5 DEF NextDir
    <3>2. inum \in Searched /\ \A d \in ROOT .. inum - 1 : Passed(d)
      BY <1>1, <3>1 DEF DirsPassed
    <3>3. Absent(inum, k) /\ left_at_k = LeftAfter(filesize(inum) \div INT_SIZE, k + 1)
      <4>1. Absent(inum, k) /\ entries_left = LeftAfter(filesize(inum) \div INT_SIZE, k)
        BY <1>1, <3>1 DEF BlocksPassed
      <4>2. filesize(inum) \div INT_SIZE \in Int
        BY <1>1, Filesizes, Division DEF INT_SIZE
      <4> QED BY <1>1, <4>1, <4>2, Decrease
    <3>4. Passed(inum)
      BY <1>1, <3>1, <3>3, DirLeft DEF loop_ends
    <3>5. \A d \in ROOT .. (inum + 1) - 1 : Passed(d)
      <4>1. \A d \in ROOT .. (inum + 1) - 1 : d \in ROOT .. inum - 1 \/ d = inum
        BY <1>1 DEF ROOT
      <4> QED BY <3>2, <3>4, <4>1
    <3>6. inum + 1 \in ROOT .. ROOT + num_dirs + 1
      BY <1>1, <3>2 DEF Searched, ROOT
    <3>7. DirsPassed'
      BY <2>1, <3>1, <3>5, <3>6 DEF DirsPassed
    <3> QED BY <3>1, <3>7 DEF BlocksPassed, ScanFinds
  <2>6. CASE ReadInode \/ CopyBlock \/ CopyEnds
    <3>1. /\ pc \in {"found", "copy"} /\ pc' \in {"copy", "done"} /\ inum' = inum
      BY <2>6 DEF ReadInode, CopyBlock, CopyEnds
    <3>2. Finds(inum)
      BY <1>1, <3>1 DEF ScanFinds
    <3> QED BY <2>1, <3>1, <3>2 DEF DirsPassed, BlocksPassed, ScanFinds
  <2> QED BY <1>2, <2>2, <2>3, <2>4, <2>5, <2>6 DEF Next
<1> QED BY <1>2, <1>3, Reads
-----------------------------------------------------------------------------
(* The steps of port_fake_to_real *)

\* How many bytes of a block are written: all of them, but for the last block.
LEMMA Bytes ==
  ASSUME tree \in Trees, inum \in Int, k \in Nat,
         fsize_remaining = filesize(inum) - BLOCK_SIZE * k
  PROVE  /\ num_bytes = 0 <=> ~(k < num_blocks(inum))
         /\ k < num_blocks(inum) =>
              num_bytes = IF k + 1 < num_blocks(inum) THEN BLOCK_SIZE
                          ELSE filesize(inum) - k * BLOCK_SIZE
<1>1. PICK size \in Nat : size = filesize(inum)
  BY Filesizes
<1>2. PICK b \in Nat \ {0} : b = BLOCK_SIZE
  BY Layout
<1>3. k < num_blocks(inum) <=> b * k < size
  BY <1>1, <1>2, BlockCount
<1>4. k + 1 < num_blocks(inum) <=> b * (k + 1) < size
  <2>1. k + 1 \in Nat
    OBVIOUS
  <2> QED BY <1>1, <1>2, <2>1, BlockCount
<1>5. b * k \in Int /\ k * b = b * k /\ b * (k + 1) = b * k + b
  OBVIOUS
<1>6. num_bytes = IF size - b * k > b THEN b ELSE IF size - b * k > 0 THEN size - b * k ELSE 0
  BY <1>1, <1>2 DEF num_bytes
<1> HIDE DEF num_bytes
<1>7. num_bytes = 0 <=> ~(b * k < size)
  BY <1>5, <1>6
<1>8. b * k < size => num_bytes = IF b * (k + 1) < size THEN b ELSE size - k * b
  BY <1>5, <1>6
<1> QED BY <1>1, <1>2, <1>3, <1>4, <1>7, <1>8

\* One more block is copied.
LEMMA BlockCopied ==
  ASSUME TypeOK, Copied, CopyCounts, CopyBlock, TypeOK'
  PROVE  CopyCounts' /\ Copied'
<1> DEFINE n == num_blocks(inum)
<1>1. /\ tree \in Trees /\ inum \in Int /\ k \in Nat /\ pc = "copy" /\ pc' = "copy"
      /\ inum' = inum /\ k' = k + 1 /\ n \in Nat
      /\ UNCHANGED <<tree, lost, num_dirs, filename>>
      /\ fsize_remaining = filesize(inum) - BLOCK_SIZE * k
      /\ fsize_remaining' = fsize_remaining - BLOCK_SIZE
  BY Layout, BlockCount DEF TypeOK, CopyBlock, CopyCounts, names
<1>2. /\ \A d : filesize(d)' = filesize(d) /\ num_blocks(d)' = num_blocks(d)
      /\ \A d, x : Damaged(d, x)' <=> Damaged(d, x)
  BY <1>1, DiskStays
<1>3. CopyCounts'
  <2>1. PICK size \in Nat : size = filesize(inum)
    BY <1>1, Filesizes
  <2>2. BLOCK_SIZE * (k + 1) = BLOCK_SIZE * k + BLOCK_SIZE
        /\ BLOCK_SIZE * k \in Int /\ BLOCK_SIZE \in Int
    BY <1>1, Layout
  <2>3. fsize_remaining' = size - BLOCK_SIZE * (k + 1)
    BY <1>1, <2>1, <2>2
  <2> QED BY <1>1, <1>2, <2>1, <2>3 DEF CopyCounts
<1>4. /\ Len(written) = IF k < n THEN k ELSE n
      /\ \A x \in DOMAIN written :
           /\ written[x][1] = <<"data", inum, x - 1>> \/ Damaged(inum, x - 1)
           /\ written[x][2] = IF x < n THEN BLOCK_SIZE ELSE filesize(inum) - (x - 1) * BLOCK_SIZE
  BY <1>1 DEF Copied
<1>5. SUFFICES /\ Len(written') = IF k + 1 < n THEN k + 1 ELSE n
               /\ \A x \in DOMAIN written' :
                    /\ written'[x][1] = <<"data", inum, x - 1>> \/ Damaged(inum, x - 1)
                    /\ written'[x][2] = IF x < n THEN BLOCK_SIZE
                                        ELSE filesize(inum) - (x - 1) * BLOCK_SIZE
  BY <1>1, <1>2, <1>3 DEF Copied
<1>6. CASE ~(k < n)
  <2>1. written' = written
    BY <1>1, <1>6, Bytes DEF CopyBlock
  <2> QED BY <1>1, <1>4, <1>6, <2>1
<1>7. CASE k < n
  <2> DEFINE part == <<data_block(inum, k), num_bytes>>
  <2>1. written' = Append(written, part)
    BY <1>1, <1>7, Bytes DEF CopyBlock
  <2>2. part[1] = <<"data", inum, k>> \/ Damaged(inum, k)
    BY <1>1, <1>7, BlockRead DEF Damaged
  <2>3. part[2] = IF k + 1 < n THEN BLOCK_SIZE ELSE filesize(inum) - k * BLOCK_SIZE
    BY <1>1, <1>7, Bytes
  <2>4. PICK Parts : written \in Seq(Parts)
    BY DEF TypeOK
  <2> HIDE DEF part
  <2>5. Len(written) = k /\ DOMAIN written = 1 .. k
    BY <1>4, <1>7, <2>4
  <2>6. /\ Len(written') = k + 1 /\ DOMAIN written' = 1 .. k + 1
        /\ written'[k + 1] = part /\ \A x \in 1 .. k : written'[x] = written[x]
    <3>1. written \in Seq(Parts \union {part})
      BY <2>4
    <3> QED BY <2>1, <2>5, <3>1
  <2>7. k + 1 < n \/ n = k + 1
    BY <1>1, <1>7
  <2>8. ASSUME NEW x \in DOMAIN written'
        PROVE  /\ written'[x][1] = <<"data", inum, x - 1>> \/ Damaged(inum, x - 1)
               /\ written'[x][2] = IF x < n THEN BLOCK_SIZE
                                   ELSE filesize(inum) - (x - 1) * BLOCK_SIZE
    <3>1. CASE x \in 1 .. k
      BY <1>4, <2>5, <2>6, <3>1
    <3>2. CASE x = k + 1
      <4>1. x - 1 = k
        BY <1>1, <3>2
      <4> QED BY <2>2, <2>3, <2>6, <3>2, <4>1
    <3> QED BY <1>1, <2>6, <3>1, <3>2
  <2> QED BY <2>6, <2>7, <2>8
<1> QED BY <1>6, <1>7

\* When the loops end all blocks have been copied.
LEMMA CopyOver ==
  ASSUME TypeOK, Copied, CopyCounts, CopyEnds
  PROVE  CopyCounts' /\ Copied'
<1> DEFINE n == num_blocks(inum)
<1>1. /\ tree \in Trees /\ inum \in Int /\ k \in Nat /\ pc = "copy" /\ pc' = "done"
      /\ inum' = inum /\ written' = written /\ n \in Nat
      /\ UNCHANGED <<tree, lost, num_dirs, filename>>
      /\ fsize_remaining = filesize(inum) - BLOCK_SIZE * k
      /\ k = ALL \/ fsize_remaining <= 0
  BY Layout, BlockCount DEF TypeOK, CopyEnds, CopyCounts, loop_ends, names
<1>2. /\ \A d : filesize(d)' = filesize(d) /\ num_blocks(d)' = num_blocks(d)
      /\ \A d, x : Damaged(d, x)' <=> Damaged(d, x)
  BY <1>1, DiskStays
<1>3. ~(k < n)
  <2>1. PICK size \in Nat : size = filesize(inum) /\ size <= ALL * BLOCK_SIZE
    BY <1>1, Filesizes
  <2>2. BLOCK_SIZE * k \in Int /\ BLOCK_SIZE * ALL = ALL * BLOCK_SIZE
    BY <1>1, Layout
  <2>3. ~(BLOCK_SIZE * k < size)
    BY <1>1, <2>1, <2>2
  <2> QED BY <1>1, <2>1, <2>3, BlockCount
<1> QED BY <1>1, <1>2, <1>3 DEF Copied, CopyCounts

\* The steps of the program keep what is said of the copy.
LEMMA CopyStep ==
  ASSUME IInv, TypeOK', Next
  PROVE  Unwritten' /\ CopyCounts' /\ Copied'
<1>1. TypeOK /\ Unwritten /\ CopyCounts /\ Copied
  BY DEF IInv
<1>2. CASE ParsePath \/ SearchDir \/ NotFound \/ SearchBlock \/ NextDir
  <2>1. pc \notin {"copy", "done"} /\ pc' \notin {"copy", "done"} /\ written' = written
    BY <1>2 DEF ParsePath, SearchDir, NotFound, SearchBlock, NextDir
  <2> QED BY <1>1, <2>1 DEF Unwritten, CopyCounts, Copied
<1>3. CASE ReadInode
  <2>1. /\ tree \in Trees /\ pc = "found" /\ pc' = "copy" /\ inum' = inum /\ k' = 0
        /\ fsize_remaining' = filesize(inum) /\ written' = written
        /\ UNCHANGED <<tree, lost, num_dirs, filename>>
    BY <1>1, <1>3 DEF TypeOK, ReadInode, names
  <2>2. /\ \A d : filesize(d)' = filesize(d) /\ num_blocks(d)' = num_blocks(d)
    BY <2>1, DiskStays
  <2>3. written' = <<>> /\ num_blocks(inum) \in Nat
    BY <1>1, <2>1, BlockCount DEF Unwritten
  <2>4. CopyCounts'
    <3>1. filesize(inum) \in Nat /\ BLOCK_SIZE * 0 = 0
      BY <2>1, Filesizes, Layout
    <3>2. filesize(inum) = filesize(inum) - BLOCK_SIZE * 0
      BY <3>1
    <3> QED BY <2>1, <2>2, <3>2 DEF CopyCounts
  <2>5. Copied'
    <3>1. Len(written') = 0 /\ DOMAIN written' = {}
      BY <2>3
    <3> QED BY <2>1, <2>2, <2>3, <3>1 DEF Copied
  <2> QED BY <2>1, <2>4, <2>5 DEF Unwritten
<1>4. CASE CopyBlock
  <2>1. pc' = "copy"
    BY <1>4 DEF CopyBlock
  <2> QED BY <1>1, <1>4, <2>1, BlockCopied DEF Unwritten
<1>5. CASE CopyEnds
  <2>1. pc' = "done"
    BY <1>5 DEF CopyEnds
  <2> QED BY <1>1, <1>5, <2>1, CopyOver DEF Unwritten
<1> QED BY <1>2, <1>3, <1>4, <1>5 DEF Next
-----------------------------------------------------------------------------
(* The theorems *)

\* The path is taken apart once.
LEMMA AskedStep ==
  ASSUME AskedFor, Next
  PROVE  AskedFor'
<1>1. CASE ParsePath
  BY <1>1 DEF AskedFor, ParsePath
<1>2. CASE /\ UNCHANGED <<path, asked, num_dirs, filename>>
           /\ pc # "parse" /\ pc' # "parse"
  BY <1>2 DEF AskedFor
<1>3. ParsePath \/ /\ UNCHANGED <<path, asked, num_dirs, filename>>
                   /\ pc # "parse" /\ pc' # "parse"
  BY DEF Next, SearchDir, NotFound, SearchBlock, NextDir, ReadInode, CopyBlock,
         CopyEnds, names
<1> QED BY <1>1, <1>2, <1>3

\* A step that changes nothing keeps the invariant.
LEMMA StutterIInv ==
  ASSUME IInv, UNCHANGED vars
  PROVE  IInv'
<1>1. UNCHANGED <<tree, lost, path, asked, num_dirs, filename, pc, inum, k, entries_left,
                  fsize_remaining, written>>
  BY DEF vars, names
<1>2. /\ \A n : filesize(n)' = filesize(n) /\ num_blocks(n)' = num_blocks(n)
      /\ \A n, x : Damaged(n, x)' <=> Damaged(n, x)
      /\ \A n : Passed(n)' <=> Passed(n)
      /\ \A n, x : Absent(n, x)' <=> Absent(n, x)
      /\ Searched' = Searched
      /\ \A r : Finds(r)' <=> Finds(r)
  BY <1>1, DiskStays
<1>3. TypeOK'
  BY <1>1 DEF IInv, TypeOK
<1>4. DirsPassed'
  BY <1>1, <1>2 DEF IInv, DirsPassed
<1>5. BlocksPassed'
  BY <1>1, <1>2 DEF IInv, BlocksPassed
<1>6. ScanFinds' /\ Unwritten' /\ CopyCounts'
  BY <1>1, <1>2 DEF IInv, ScanFinds, Unwritten, CopyCounts
<1>7. Copied'
  BY <1>1, <1>2 DEF IInv, Copied
<1>8. AskedFor'
  BY <1>1 DEF IInv, AskedFor
<1> QED BY <1>3, <1>4, <1>5, <1>6, <1>7, <1>8 DEF IInv

\* The invariant holds throughout.
THEOREM Invariance == Spec => []IInv
<1>1. IInv /\ [Next]_vars => IInv'
  <2> SUFFICES ASSUME IInv, [Next]_vars
               PROVE  IInv'
    OBVIOUS
  <2>1. CASE Next
    <3>1. TypeOK'
      BY <2>1, TypeStep DEF IInv
    <3>2. AskedFor'
      BY <2>1, AskedStep DEF IInv
    <3> QED BY <2>1, <3>1, <3>2, SearchStep, CopyStep DEF IInv
  <2>2. CASE UNCHANGED vars
    BY <2>2, StutterIInv
  <2> QED BY <2>1, <2>2
<1> QED BY <1>1, InitIInv, PTL DEF Spec

\* The variables of the program have their types.
THEOREM TypeCorrect == Spec => []TypeOK
<1>1. IInv => TypeOK
  BY DEF IInv
<1> QED BY <1>1, Invariance, PTL

\* Where a directory with the name is the one that the path leads to, the result
\* of the loops is the corresponding inode.
LEMMA FoundIsCorresponding ==
  ASSUME IInv, pc \in {"found", "copy", "done"},
         Holding \subseteq Parents, Parents \subseteq Searched,
         \A d \in Holding : ~Overlooked(d),
         \A d \in Searched : Intact(d) \/ \E other \in Holding : other < d
  PROVE  inum \in Corresponding \/ (Corresponding = {} /\ inum = -1)
<1> DEFINE holders == {d \in Searched : Holds(d)}
<1>1. tree \in Trees /\ asked \in Texts /\ num_dirs \in Nat
      /\ filename = parse_path(asked)[count_dirs(asked) + 1] /\ Finds(inum)
  BY DEF IInv, TypeOK, AskedFor, ScanFinds
<1>2. holders = Holding
  BY DEF Holds, Holding
<1>3. /\ filename # <<>>
      /\ Corresponding = {e.inumber : e \in
           {e \in UNION {Range(tree.dirs[d]) : d \in Parents \intersect Dirs} :
              e.name = filename}}
  <2>1. filename # <<>>
    BY <1>1, FakeFSAssumption
  <2>2. Corresponding = Follow(Parents, filename)
    BY <1>1 DEF Corresponding
  <2> QED BY <2>1, <2>2 DEF Follow
<1>4. CASE holders = {} /\ inum = -1
  <2>1. SUFFICES ASSUME NEW d \in Parents \intersect Dirs,
                        NEW e \in Range(tree.dirs[d]), e.name = filename
                 PROVE  FALSE
    BY <1>3, <1>4
  <2>2. PICK x \in DOMAIN tree.dirs[d] : e = tree.dirs[d][x]
    BY DEF Range
  <2>3. filename \in NamesIn(d)
    BY <2>1, <2>2 DEF NamesIn
  <2>4. d \in Holding
    BY <2>3 DEF Holding
  <2> QED BY <1>2, <1>4, <2>4
<1>5. ASSUME NEW d \in holders, NEW x \in DOMAIN tree.dirs[d],
             tree.dirs[d][x] = [name |-> filename, inumber |-> inum]
      PROVE  inum \in Corresponding
  <2>1. d \in Parents \intersect Dirs
    BY <1>2 DEF Holding
  <2>2. tree.dirs[d][x] \in Range(tree.dirs[d])
    BY DEF Range
  <2>3. tree.dirs[d][x].name = filename /\ tree.dirs[d][x].inumber = inum
    BY <1>5
  <2> HIDE DEF holders
  <2> QED BY <1>3, <2>1, <2>2, <2>3
<1>6. ASSUME NEW d \in Searched, \A other \in holders : d <= other,
             NEW j \in 0 .. num_blocks(d) - 1, Damaged(d, j)
      PROVE  FALSE
  <2>1. ~Intact(d)
    BY <1>6 DEF Intact
  <2>2. PICK other \in Holding : other < d
    BY <2>1
  <2>3. d \in Int /\ other \in Int
    BY <1>1 DEF Searched, Holding, ROOT
  <2> QED BY <1>2, <1>6, <2>2, <2>3
<1>7. \/ holders = {} /\ inum = -1
      \/ \E d \in holders : \E x \in DOMAIN tree.dirs[d] :
           tree.dirs[d][x] = [name |-> filename, inumber |-> inum]
      \/ \E d \in Searched :
           /\ \A other \in holders : d <= other
           /\ \E j \in 0 .. num_blocks(d) - 1 : Damaged(d, j)
  BY <1>1 DEF Finds
<1> HIDE DEF holders
<1>8. CASE \E d \in holders : \E x \in DOMAIN tree.dirs[d] :
             tree.dirs[d][x] = [name |-> filename, inumber |-> inum]
  BY <1>5, <1>8
<1>9. CASE \E d \in Searched :
             /\ \A other \in holders : d <= other
             /\ \E j \in 0 .. num_blocks(d) - 1 : Damaged(d, j)
  <2>1. PICK d \in Searched :
          /\ \A other \in holders : d <= other
          /\ \E j \in 0 .. num_blocks(d) - 1 : Damaged(d, j)
    BY <1>9
  <2>2. PICK j \in 0 .. num_blocks(d) - 1 : Damaged(d, j)
    BY <2>1
  <2> QED BY <1>6, <2>1, <2>2
<1> QED BY <1>4, <1>7, <1>8, <1>9

\* search_path yields the inode that corresponds to the path, or -1 if there is
\* none, for every disk, path and number of pointers, as long as no other inode
\* that it goes through has an entry of that name, it goes as far as the
\* directory that the path leads to, this has more than a single entry, and no
\* block is missing up to there.
THEOREM SearchIsRight == Spec => []SearchFinds
<1>1. IInv => SearchFinds
  BY FoundIsCorresponding DEF SearchFinds, FindsCorresponding
<1> QED BY <1>1, Invariance, PTL

\* port_fake_to_real copies every block of its file, in order and cut to the
\* file's size, whatever its size, and a missing block spoils no other.
THEOREM CopyIsExact == Spec => []Copied
<1>1. IInv => Copied
  BY DEF IInv
<1> QED BY <1>1, Invariance, PTL
=============================================================================
