------------------------------- MODULE FakeFS -------------------------------
(***************************************************************************)
(* The reader of A10-FileSystems/fs.c: search_path looks for a file in     *)
(* directories, port_fake_to_real copies it to a real file.  Both go over  *)
(* the data blocks of an inode: those of its direct pointers, then those   *)
(* of its indirect and of its doubly indirect block.                       *)
(*                                                                         *)
(* Blocks have names instead of numbers: <<"data", n, k>> is the k-th data *)
(* block of inode n, <<"refs", n, k>> a block of pointers to the data      *)
(* blocks from the k-th on, and <<"refs2", n, k>> one of pointers to such  *)
(* blocks.  Pointers that are not in use are 0, the number of the          *)
(* superblock.  The disk was written by a program that is not there.       *)
(* A block is a file of its own, and the file may be missing: read_block   *)
(* then leaves the buffer of its caller as it is, and no caller notices.   *)
(***************************************************************************)
EXTENDS Integers, Sequences, FiniteSets, Lines

CONSTANTS
  BLOCK_SIZE, ENTRY_SIZE, NUM_DIRECT_PTRS, INODES_PER_BLOCK,
  Trees,     \* what is on disks: entries of directories and sizes of files
  Losses     \* sets of blocks that may be missing

INT_SIZE == 4
ENTRIES_PER_BLOCK == BLOCK_SIZE \div ENTRY_SIZE
REFS_PER_BLOCK == BLOCK_SIZE \div INT_SIZE
FIRST_INODE_BLOCK == 3
ROOT == 2

\* Data blocks that the direct, and that also the indirect pointers lead to.
DIRECT == NUM_DIRECT_PTRS
INDIRECT == NUM_DIRECT_PTRS + REFS_PER_BLOCK
ALL == INDIRECT + REFS_PER_BLOCK * REFS_PER_BLOCK

ASSUME FakeFSAssumption ==
  /\ BLOCK_SIZE \in Nat \ {0} /\ ENTRY_SIZE \in Nat \ {0}
  /\ ENTRIES_PER_BLOCK > 0 /\ REFS_PER_BLOCK > 0
  /\ NUM_DIRECT_PTRS \in Nat \ {0} /\ INODES_PER_BLOCK \in Nat \ {0}
  /\ \A p \in Texts : parse_path(p)[count_dirs(p) + 1] # <<>>

\* In the code a block has 8 entries of 32 bytes, which have room for 8 ints.
\* A directory with more entries in a block than ints in an entry would have
\* entries that search_dir does not reach.
ASSUME LayoutAssumption ==
  /\ BLOCK_SIZE % ENTRY_SIZE = 0 /\ ENTRY_SIZE % INT_SIZE = 0
  /\ ENTRY_SIZE > INT_SIZE
  /\ ENTRIES_PER_BLOCK <= ENTRY_SIZE \div INT_SIZE

\* Directories and files are not larger than an inode can have them.
ASSUME TreesAssumption ==
  \A t \in Trees :
    /\ DOMAIN t.dirs \subseteq Nat /\ DOMAIN t.files \subseteq Nat
    /\ \A n \in DOMAIN t.dirs :
         LET entries == Range(t.dirs[n])
         IN  /\ t.dirs[n] \in Seq(entries)
             /\ entries \subseteq [name : {x.name : x \in entries}, inumber : Nat]
             /\ ENTRY_SIZE * Len(t.dirs[n]) <= ALL * BLOCK_SIZE
    /\ \A n \in DOMAIN t.files : t.files[n] \in 0 .. ALL * BLOCK_SIZE

VARIABLES
  tree,             \* the disk: tree.dirs[n] is the sequence of entries of
                    \* directory n, tree.files[n] the size of file n
  lost,             \* the blocks that are missing
  path,             \* the caller's string
  asked,            \* history variable, not in the code: path, as it was given
  num_dirs,         \* search_path: how many components, and the last one
  filename,
  pc,
  inum,             \* search_path: inode of the directory that is searched,
                    \* and then its result
  k,                \* the loops over data blocks: the next one
  entries_left,     \* search_dir
  fsize_remaining,  \* port_fake_to_real
  written           \* what is in the real file: blocks, and how many bytes

names == <<path, asked, num_dirs, filename>>
vars == <<tree, lost, names, pc, inum, k, entries_left, fsize_remaining, written>>
-----------------------------------------------------------------------------
(* The disk *)

Super == <<"super", 0, 0>>
Lost == <<"lost", 0, 0>>
Dirs == DOMAIN tree.dirs
Files == DOMAIN tree.files

\* The inode that read_inode finds for number n.  For -1 it is at the end of
\* the block before the first inode block, where the bitmap of blocks has
\* zeros as long as the disk is not full.
filesize(n) ==
  IF FIRST_INODE_BLOCK + n \div INODES_PER_BLOCK < FIRST_INODE_BLOCK THEN 0
  ELSE IF n \in Dirs THEN ENTRY_SIZE * Len(tree.dirs[n])
  ELSE IF n \in Files THEN tree.files[n] ELSE 0

num_blocks(n) == (filesize(n) + BLOCK_SIZE - 1) \div BLOCK_SIZE

\* The block that a caller has after asking for b: Lost stands for a buffer that
\* may hold anything, an earlier block for example, and for what is reached from
\* there.
read_block(b) == IF b \in lost THEN Lost ELSE b

\* Pointers that are not in use lead to the superblock.
data_ref(n, x) == IF x < num_blocks(n) THEN read_block(<<"data", n, x>>) ELSE Super

\* The j-th block that the pointers of block <<"refs", n, first>> lead to.  The
\* superblock begins with the number of blocks and the numbers of the two bitmaps
\* and of the first inode block; nothing that these or other blocks hold is a
\* pointer to a block of a file.
indirect_ref(n, first, j) ==
  IF first >= num_blocks(n) THEN <<"stray", 0, 0>>
  ELSE IF <<"refs", n, first>> \in lost THEN Lost
  ELSE data_ref(n, first + j)

doubly_indirect_ref(n, j) ==
  IF INDIRECT < num_blocks(n) /\ <<"refs2", n, INDIRECT>> \in lost THEN Lost
  ELSE indirect_ref(n, (INDIRECT + j) - (j % REFS_PER_BLOCK), j % REFS_PER_BLOCK)

\* The x-th data block that the loops reach from inode n, as they read it.
data_block(n, x) ==
  IF x < DIRECT THEN data_ref(n, x)
  ELSE IF x < INDIRECT THEN indirect_ref(n, DIRECT, x - DIRECT)
  ELSE doubly_indirect_ref(n, x - INDIRECT)

\* The directory entries of a block, as it was read: those with names that are
\* looked for.  Unused entries have no name.  Names that other blocks may happen
\* to show, the first inode block those of the first files, are in the root,
\* which is searched before.
dir_entries(b) ==
  IF b[1] = "data" /\ b[2] \in Dirs
    THEN LET first == b[3] * ENTRIES_PER_BLOCK
             used == {x \in 0 .. ENTRIES_PER_BLOCK - 1 : first + x < Len(tree.dirs[b[2]])}
         IN  [x \in used |-> tree.dirs[b[2]][first + x + 1]]
    ELSE <<>>

\* One of the tests of main: a file is looked for, and copied.
Init ==
  /\ tree \in Trees /\ lost \in Losses /\ path \in Texts /\ asked = path
  /\ num_dirs = 0 /\ filename = <<>>
  /\ pc = "parse" /\ inum = ROOT
  /\ k = 0 /\ entries_left = 0 /\ fsize_remaining = 0
  /\ written = <<>>
-----------------------------------------------------------------------------
(* search_path and search_dir *)

\* The names are looked up in the caller's string, which is now cut short.
ParsePath ==
  /\ pc = "parse"
  /\ LET dirs == parse_path(path)
     IN  /\ num_dirs' = count_dirs(path)
         /\ filename' = dirs[num_dirs' + 1]
         /\ path' = dirs[1]
  /\ pc' = "search"
  /\ UNCHANGED <<tree, lost, asked, inum, k, entries_left, fsize_remaining, written>>

\* Positions in block b, among the first max, of the name that is looked for.
\* A negative max is never reached.
matches(b, max) ==
  LET entries == dir_entries(b)
  IN  {x \in DOMAIN entries : (max < 0 \/ x < max) /\ entries[x].name = filename}

\* The results that are possible.
search_dir_data_block(b, max) ==
  IF b = Lost THEN {-1} \union (IF max = 0 THEN {} ELSE Dirs \union Files)
  ELSE IF matches(b, max) = {} THEN {-1}
  ELSE {dir_entries(b)[CHOOSE x \in matches(b, max) :
                         \A y \in matches(b, max) : x <= y].inumber}

\* Mutant: entries_left is the number of entries.
CountEntries ==
  /\ pc = "search" /\ inum <= ROOT + num_dirs
  /\ entries_left' = filesize(inum) \div ENTRY_SIZE
  /\ k' = 0 /\ pc' = "scan"
  /\ UNCHANGED <<tree, lost, names, inum, fsize_remaining, written>>

\* The next inode is searched as a directory, whatever it is.
SearchDir ==
  /\ pc = "search" /\ inum <= ROOT + num_dirs
  /\ entries_left' = filesize(inum) \div INT_SIZE
  /\ k' = 0 /\ pc' = "scan"
  /\ UNCHANGED <<tree, lost, names, inum, fsize_remaining, written>>

NotFound ==
  /\ pc = "search" /\ inum > ROOT + num_dirs
  /\ inum' = -1 /\ pc' = "found"
  /\ UNCHANGED <<tree, lost, names, k, entries_left, fsize_remaining, written>>

\* entries_left when the k-th block is searched: it decreases before each
\* direct block, and after all blocks of the indirect one.
left_at_k ==
  entries_left - IF k < DIRECT THEN ENTRIES_PER_BLOCK
                 ELSE IF k = INDIRECT THEN ENTRIES_PER_BLOCK * REFS_PER_BLOCK
                 ELSE 0

\* A group of blocks is begun only if something is left; otherwise, or after
\* all groups, the loops are at their end.
loop_ends(left) == k = ALL \/ (k \in {DIRECT, INDIRECT} /\ left <= 0)

SearchBlock ==
  /\ pc = "scan" /\ ~loop_ends(left_at_k)
  /\ entries_left' = left_at_k
  /\ \E result \in search_dir_data_block(data_block(inum, k), left_at_k) :
       IF result = -1 THEN k' = k + 1 /\ UNCHANGED <<pc, inum>>
       ELSE inum' = result /\ pc' = "found" /\ UNCHANGED k
  /\ UNCHANGED <<tree, lost, names, fsize_remaining, written>>

\* Mutant: the same directory is searched again.
SameDir ==
  /\ pc = "scan" /\ loop_ends(left_at_k)
  /\ pc' = "search"
  /\ UNCHANGED <<tree, lost, names, inum, k, entries_left, fsize_remaining, written>>

NextDir ==
  /\ pc = "scan" /\ loop_ends(left_at_k)
  /\ inum' = inum + 1 /\ pc' = "search"
  /\ UNCHANGED <<tree, lost, names, k, entries_left, fsize_remaining, written>>
-----------------------------------------------------------------------------
(* port_fake_to_real *)

\* The result of search_path is not tested.
ReadInode ==
  /\ pc = "found"
  /\ fsize_remaining' = filesize(inum)
  /\ k' = 0 /\ pc' = "copy"
  /\ UNCHANGED <<tree, lost, names, inum, entries_left, written>>

\* How many bytes of the next block are written.
num_bytes ==
  IF fsize_remaining > BLOCK_SIZE THEN BLOCK_SIZE
  ELSE IF fsize_remaining > 0 THEN fsize_remaining ELSE 0

CopyBlock ==
  /\ pc = "copy" /\ ~loop_ends(fsize_remaining)
  /\ written' = IF num_bytes = 0 THEN written
                ELSE Append(written, <<data_block(inum, k), num_bytes>>)
  /\ fsize_remaining' = fsize_remaining - BLOCK_SIZE
  /\ k' = k + 1
  /\ UNCHANGED <<tree, lost, names, pc, inum, entries_left>>

\* Mutant: the doubly indirect block is forgotten.
StopsEarly ==
  /\ pc = "copy" /\ (k = INDIRECT \/ loop_ends(fsize_remaining))
  /\ pc' = "done"
  /\ UNCHANGED <<tree, lost, names, inum, k, entries_left, fsize_remaining, written>>

CopyEnds ==
  /\ pc = "copy" /\ loop_ends(fsize_remaining)
  /\ pc' = "done"
  /\ UNCHANGED <<tree, lost, names, inum, k, entries_left, fsize_remaining, written>>

Next ==
  \/ ParsePath \/ SearchDir \/ NotFound \/ SearchBlock \/ NextDir
  \/ ReadInode \/ CopyBlock \/ CopyEnds

\* A sequential program runs on.
Spec == Init /\ [][Next]_vars /\ WF_vars(Next)
-----------------------------------------------------------------------------
(* Properties *)

TypeOK ==
  /\ tree \in Trees /\ lost \in Losses /\ asked \in Texts
  /\ pc = "parse" => path \in Texts
  /\ num_dirs \in Nat
  /\ pc \in {"parse", "search", "scan", "found", "copy", "done"}
  /\ inum \in Nat \union {-1}
  /\ k \in 0 .. ALL
  /\ entries_left \in Int /\ fsize_remaining \in Int
  /\ written \in Seq(({"data", "super", "stray", "lost"} \X Int \X Int) \X (1 .. BLOCK_SIZE))

\* The inodes that the entries of the name in directories of D lead to.  An
\* empty name, as between two slashes, leads nowhere else.
Follow(D, name) ==
  IF name = <<>> THEN D
  ELSE {e.inumber : e \in {e \in UNION {Range(tree.dirs[d]) : d \in D \intersect Dirs} :
                              e.name = name}}

\* Where the path that is asked for leads to before its last slash, from the
\* root on, one name after the other ...
Parents ==
  LET dirs == parse_path(asked)
      reached[j \in 0 .. count_dirs(asked)] ==
        IF j = 0 THEN {ROOT} ELSE Follow(reached[j - 1], dirs[j])
  IN  reached[count_dirs(asked)]

\* ... and with its last name: the corresponding inode, or none.
Corresponding == Follow(Parents, parse_path(asked)[count_dirs(asked) + 1])

\* The comments of search_path and of search_dir: the result is the inode that
\* corresponds to the path, or -1 if the file is not found.
FindsCorresponding ==
  pc \in {"found", "copy", "done"} =>
    \/ inum \in Corresponding
    \/ Corresponding = {} /\ inum = -1

\* The inodes that search_path goes through, and the directories among them
\* that have an entry of the name.
Searched == ROOT .. ROOT + num_dirs
NamesIn(d) == {tree.dirs[d][x].name : x \in DOMAIN tree.dirs[d]}
Holding == {d \in Searched \intersect Dirs : filename \in NamesIn(d)}

\* Is data block j of inode n missing, or a block of pointers that leads to it?
Damaged(n, j) == data_block(n, j) = Lost
Intact(n) == \A j \in 0 .. num_blocks(n) - 1 : ~Damaged(n, j)

\* A directory with so few entries that none is left after its first block is
\* not searched there: with 8 entries in a block, one with a single entry.
Overlooked(d) == filesize(d) \div INT_SIZE = ENTRIES_PER_BLOCK

\* Where nothing leads it astray search_path does what its comment says,
\* whichever group of pointers the entry is found by: if no directory that it
\* goes through has a file of that name but the one that the path leads to, if
\* it gets as far as that one, which has more than a single entry, and if no
\* block is missing up to there.
SearchFinds ==
  (/\ Holding \subseteq Parents /\ Parents \subseteq Searched
   /\ \A d \in Holding : ~Overlooked(d)
   /\ \A d \in Searched : Intact(d) \/ \E other \in Holding : other < d)
  => FindsCorresponding

\* What is in the real file is what the inode's data blocks hold, in order and
\* not a byte more: at each turn the blocks so far, and all of them in the end.
\* A missing block spoils its own part, or those it leads to, and no other; the
\* file keeps its length.
Copied ==
  pc \in {"copy", "done"} =>
    /\ Len(written) = IF pc = "copy" /\ k < num_blocks(inum) THEN k ELSE num_blocks(inum)
    /\ \A x \in DOMAIN written :
         /\ written[x][1] = <<"data", inum, x - 1>> \/ Damaged(inum, x - 1)
         /\ written[x][2] = IF x < num_blocks(inum) THEN BLOCK_SIZE
                            ELSE filesize(inum) - (x - 1) * BLOCK_SIZE

\* Searches and copies end.
Returns == <>(pc = "done")
=============================================================================
