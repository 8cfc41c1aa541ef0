# A verification development for cs105_code

The repository holds the programs of a computer systems course. Each directory
is a system of its own, small, written in C, and mostly sequential; what is
hard about them is not size but the structure they keep consistent: a heap
that is nothing but the tags inside it, a page table shared out among too many
pages, a list of jobs that children leave at any moment. This directory models
these programs in TLA+, checks the models with TLC on small instances, and
proves the main theorems with TLAPS for every value of the constants.

`PROJECT.json` is the machine-readable companion of this file: components,
runs, mutants, the source lines of every definition, findings, hazards and
theorems.

## 1. Inventory

| Directory | Program | State it keeps | Operations | Hard behaviour |
|---|---|---|---|---|
| A06-DynamicMemory | `mm.c`, the allocator | the heap (tags in memory), `top`, `search` | `mm_init`, `mm_malloc`, `mm_free` (`mm_check` only reads and prints) | any sequence of splits and merges; a roving pointer into a list that changes |
| | `memlib.c`, the simulated `sbrk` | buffer, break | `mem_reset_brk`, `mem_sbrk` | exhaustion |
| | `mdriver.c`, the driver | range list, `blocks`, sizes, statistics | `add_range`, `remove_range`, `eval_mm_valid`, `eval_mm_util`, `eval_mm_speed`, the replays with libc, `main` | judging an allocator that may do anything |
| | `fcyc.c`, `clock.c`, `fsecs.c` (`ftimer.c` is not compiled in) | the smallest samples, parameters, cycles per timer tick | `fcyc`, `add_sample`, `clear`, the `set_fcyc` functions, `start_counter`, `get_counter`, `callibrate` | a counter that overflows, samples made negative by compensation, measurements that do not converge |
| | traces, their generators, `checkalign.c` | none | none | none |
| A08-VirtualMemory | `vm.c`, paging and sorts | page table, frames, files of pages, markers | `initialize`, `load`, `store`, `translate_addr`, `handle_page_fault`, the sorts, `evaluate` | replacement order, stale files, arithmetic on addresses |
| A07-Shells | `ish.c`, the shell | job list, `got_sigchld`, its children | the main loop, `add_job`, `check_jobs`, the handler | signals and children at any moment, reuse of pids, failing calls |
| | `snooze.c`, `procDemo.c` | none | demonstrations of `sleep` and `fork` | none beyond the shell's |
| A09-Synchronization | `sync.c`, the club | two counters | `comp_enter`, `comp_exit`, `math_enter`, `math_exit`, `sanitycheck` | unsynchronised threads |
| A10-FileSystems | `fs.c`, reader of a disk image | none that lasts | inodes, directories, path search, copying a file | three kinds of pointers, ends of blocks, files that do not exist, blocks that are missing |
| A02-DataRepresentation | `bits.c`, `bitsSubmission.c` | none | pure functions on words | the most negative word, infinity and NaN |
| A01-CLanguage | `part1.c`, `part2.c`, `part3.c` | a linked list | `prepend`, `append`, `reverse`, `makeempty`, printing | pointers turned around in place |
| A03-Debugging, InClassDemos | exercises | none | none | programs with seeded defects |

How they interact. `mdriver.c` calls `mm.c`, which asks `memlib.c` for memory;
all three share the words of one buffer. `mdriver.c` hands its replays to
`fcyc.c`, which runs them as often as it sees fit and reads the clock of
`clock.c` around each. In `vm.c` the sorts see memory only through `load` and
`store`, and these see disk only through the files that `initialize` and
`handle_page_fault` write. The shell talks to the kernel: it forks, waits and
receives signals, in between any two of its own steps. The threads of `sync.c`
share two counters without a lock. The other programs stand alone.

What makes each part correct:

* **mm.c**: the blocks tile the heap with matching tags; no two neighbours are
  both free; each live request has a block of its own, large enough; `search`
  is always at a block; the heap grows only when nothing fits; no operation
  changes a word that belongs to a client; `mm_malloc` returns.
* **mdriver.c**: its range list is the set of live payloads; it blames only
  allocators that made a mistake; the utilization of a correct one is at most
  1; whatever it replays, it gives back what it was given and nothing else.
* **fcyc.c, clock.c**: the time between two readings of the counter is what
  has passed; `fcyc` stops as soon as its best samples are close, returns the
  smallest of all, and does stop.
* **vm.c**: paging cannot be noticed through `load` and `store`; frames are
  never shared; LRU evicts the page whose last use is longest ago; an array
  that fits is never paged.
* **ish.c**: jobs are children and children are jobs; every report is true;
  every change is reported; the prompt comes back; no child is left behind.
* **sync.c**: counts that are true; both majors inside are noticed; what is
  reported has happened. (That the majors exclude each other is the exercise,
  which this code leaves open.)
* **fs.c**: the search finds the file that the path leads to, wherever its
  entry is in its directory; a copy
  has the bytes of the file, all of them and no others; a missing block spoils
  only what depends on it.
* **part3.c**: the list holds what the calls amount to, and no cell is lost.
* **lines and paths** (`ish.c`, `fs.c`): what a line or path is split into,
  put together again, is what it was, and there is room for it.
* **bits.c**: each function is what its comment says, for every argument.

## 2. Modules

| Module | Models | Uses |
|---|---|---|
| `MemLib` | `memlib.c`: the break and `mem_sbrk` | |
| `MM` | `mm.c` and the client that `mdriver.c` is for it | `MemLib` (EXTENDS), `Allocator` (refinement) |
| `Allocator` | the promise of `mm.h` to a client | |
| `MMProofs` | proofs about `MM` | `MM`, `TLAPS` |
| `MDriver` | range list and all replays of `mdriver.c`, against any allocator | |
| `MDriverProofs` | proofs about `MDriver` | `MDriver`, `TLAPS` |
| `Clock` | the arithmetic of the cycle counter of `clock.c` | |
| `FCyc` | `fcyc.c`, `fsecs.c` and the compensation of `clock.c` | `Clock` (EXTENDS) |
| `FCycProofs` | proofs about `Clock` and `FCyc` | `FCyc`, `TLAPS` |
| `VM` | paging in `vm.c`, and the experiments of `evaluate` | `FlatMemory` (refinement) |
| `FlatMemory` | the promise of `load` and `store` to the sorts | |
| `VMProofs` | proofs about `VM` | `VM`, `TLAPS` |
| `Sorts` | the four sorts of `vm.c` over the array that `FlatMemory` promises | |
| `SortsProofs` | proofs about `Sorts` | `Sorts`, `TLAPS` |
| `Lines` | how `ish.c` takes a line apart, and `fs.c` a path | |
| `Reader` | the lines and paths that these are given | `Lines` (EXTENDS) |
| `Shell` | job control in `ish.c` with the kernel's part as an interface | `Lines` (EXTENDS) |
| `ShellProofs` | proofs about `Lines` and `Shell` | `Shell`, `Reader`, `TLAPS` |
| `Club` | the threads of `sync.c` and their `sanitycheck` | |
| `FakeFS` | path search and copying in `fs.c`, with the disk as an interface | `Lines` (EXTENDS) |
| `FakeFSProofs` | proofs about `FakeFS` | `FakeFS`, `TLAPS` |
| `Lists` | the linked list of `part3.c` | |
| `Bits` | the functions of `bits.c` and `bitsSubmission.c` | |
| `ExerciseProofs` | proofs about `Club`, `Lists` and `Bits` | these three, `TLAPS` |
| `Null` | the null pointer, which `MDriver` and `Lists` share | |
| `MCMM`, `MCFCyc`, `MCVM`, `MCSorts`, `MCShell`, `MCFakeFS` | values for TLC | the module after `MC` |
| `MCPrograms` | values for TLC, all short texts, and five programs side by side | `Lists`, `Bits`, `Reader`, `Club`, `MDriver` |

Operators that begin with the comment "Mutant" are not part of a model. They
are the forms a definition would take with a plausible slip in the code, and
`PROJECT.json` pairs each property with one that breaks it.

### MM: the allocator

Addresses are words of 8 bytes; sizes are in words but for the request, which
is in bytes, as a call is. A word of memory is read as a tag, a size and an
allocation bit; the client's data are words too (`Pattern` is a word that
reads like the tag of a free block), so nothing distinguishes a tag from data
but its place, as in C. `mem` includes the word below the heap, which
`mm_free` of the first block does read.

| State | Code |
|---|---|
| `mem`, `mem_brk`, `top`, `search` | the buffer, and the variables of the same names |
| `pc`, `p`, `req` | where a call of `mm_malloc` is, its local pointer and argument |
| `blocks` | the driver's array of payload pointers and sizes |
| `heads` | history variable: where blocks begin, recorded when they are made; the properties compare the tags with it |

`mm_free` is one action, `Free`. A call of `mm_malloc` is `MallocCall`, the
turns of the loops of `next_fit` (`ScanUp`, `FoundAbove`, `WrapAround`,
`ScanBelow`, `SearchEnds`), then `Extend` or `Reuse`, both of which end in
`Place`, and the driver's `Fill`. The program is sequential, so the
granularity is for the loops: they follow the sizes they find in memory, and
one bad tag sends them anywhere. `NewTrace` is the driver's next trace, on
memory that keeps what the last one left.

`Allocator` is what a client is told: a request gets an interval apart from
all others, and the words in it change only when the client changes them.
`MM!ImplementsAllocator` maps a live request to its payload with its contents.

### MDriver: the driver

The opposite view of the same interface: here the allocator is the environment
and may answer anything, inside or outside the heap, aligned or not, NULL, and
its realloc may or may not copy. `honest` records whether all its answers to
this trace were correct; the properties say what the driver concludes. Memory
is in bytes. Traces are data of the model (a set of sequences of requests,
each request of a kind that the ones before it allow, as the generators make
them); all the answers to them are explored.

`phase` is where `main` is with a trace: the replays of `eval_mm_valid`,
`eval_mm_util` and `eval_mm_speed`, which `fsecs` may repeat, and with the
option `-l` those of `eval_libc_valid` and `eval_libc_speed` before them. One
request is one action. A failure of the allocator ends the program in every
replay but that of `eval_mm_valid`. `held` is a history variable: what the
package of the current replay has handed out and not got back. What ought to
be live is not a variable but computed from the trace (`LiveAfter`,
`SizeAfter`).

### Clock and FCyc: timing

`Clock` has the subtraction of two readings of the counter as two words, with
a borrow; `BASE` is 2^32 in the code. `FCyc` has the loop of `fcyc`, from the
buffer of `clear` to `has_converged`. The insertion sort of `add_sample` is
one exchange at a time (`pos` is its index), because `values` is an array of
which only a part is in use at first. Where the counter of the processor
stands, how long the function takes and how often the timer interrupts it are
free; so is what `callibrate` sees in each window in which the process time
moves (`SawTick`). `Compensate` takes the ticks off a sample, and one more
that may come between the reading of the counter and that of the process time;
so a sample may be negative. Cycles per tick are counted in units that make
the quotients of `callibrate` whole; ratios are compared as products
(`has_converged`, `EPSILON` in percent). `samples` is a history variable, what
`add_sample` got, from which the result is defined without the array.

### VM: paging

Addresses are counted in ints. `page_table`, `physical_memory`, `use_marker`,
`strategy` and the counters are the code's variables; `files` is the directory
of page files, which outlives an experiment as it does on disk. `load(a)` and
`store(a, val)` are whole calls, with `translate_addr`, at most one fault, and
`translate_addr` again. `NextExperiment` is the step of `evaluate` from one
call of `initialize` to the next one, with the strategy and length it uses.
What `malloc` leaves in an entry and what `initialize` reads past the array
are arbitrary values. Any loads and stores may be made here; what the sorts do
with them is the module `Sorts`. `since` is a history variable: which pages
have been used since the last use of each, from which `StackDistance` defines
LRU without markers. `call`, another one, is the last call of the sorts with
its address and its value, or the beginning of an experiment.

`FlatMemory` is the promise: an array `contents`, and the `call` that was made
last. A load names its address and yields what the array has there; a store
names address and value, and changes this element and no other; only the call
of `initialize` at the beginning of an experiment changes elements otherwise
(as it does in the code, see `VM_initial`). `VM!flat` reads each element from
the frame or the file that has its page, and `VM!call` is mapped to `call`.
Because no two kinds of calls look the same, a store that is lost, or that
lands elsewhere, is not a step of `FlatMemory` at all.

### Sorts

`FlatMemory`, which `VM` implements, is all that the sorts see; so `Sorts` has
just an array `a`. An action is a turn of a loop, with the loads and swaps in
it. The recursion of `quick_sort` is the stack `calls`, and the call in
progress is its head (`start`, `end`). The other variables are the locals of
the same names. The point of interest is `partition`: it takes its middle
element at `(end - start) / 2`, which is outside the part unless the part is
at the start of the array, and may swap it in. That it never does is not
obvious: everything before a part is strictly smaller than everything in it
(`PartsSeparated`), because elements equal to a pivot go before it, so the
stray element is never the median. `StaysInPart` says so, and
`DisorderInParts` that what is out of order is always in a part for which a
call is still to come. The comment on the loop of `partition` promises strict
inequality on both sides of the pivot; before it only `<=` holds, and
`AroundPivot` says what does.

### Shell: job control

The variables `jobs`, `got_sigchld` and the locals of `main` and `check_jobs`
(`pc`, `j`, `options`, `fg`) are the code's; `proc` and `pending` are the
kernel's: which children exist, and whether a signal is on its way. `waitpid`
is split by its result (`Reaps`, `ReturnsZero`, `ReturnsError`), and each step
of the shell makes at most one system call, so that children end and
`handle_sigchld` runs between any two. Signals of the same kind merge, as in
POSIX. A pid is free again as soon as it has been reaped. `output` is what the
last step printed about a child.

A line is a sequence of characters, and `Lines` takes it apart: whether it is
empty, whether it ends in an ampersand, what `main` leaves of it then, what
`parse_line` splits it into, and the name that a job gets. `fork` may fail;
the -1 it returns goes on as a pid, as in the code, and `waitpid(-1)` then
means any child. `fork_failed` is a history variable. A last line without a
newline ends the shell by the assertion of `parse_line` (`Unterminated`).

### Club

`sync.c` is the starting point of an exercise: its threads share two counters
and have no lock. The model takes `++` and `--` apart into a load and a store
(`LoadCount`, `StoreCount`, with the register `reg`), and each `&&` and `||` of
`sanitycheck` into its comparisons (`check` is the next one), because that is
what the compiler makes of them without optimization, and any other thread may
run in between. `at` is where a thread is; `hangout` is the time it stays
there. `exit` ends all threads (`exited`). Two history variables, `raced` and
`met`, record whether a store has been made while another thread of that major
was between load and store, and whether both majors have been in the club at
once. So the properties can say what the program guarantees although nothing
is locked: what is wrong must come from a lost change (`CountsExact`,
`OnlyRacesMiscount`), and reading two counts at two moments still finds every
mixup that lasts (`MixedIsReported`) and, when entering, none that was not
(`MixupHappened`).

### FakeFS: the reader of disks

Only the reader is there; the disk was written by a program that is not in the
repository, so the disk is an external interface: `tree` has the entries of
directories and the sizes of files, and `data_block` follows the pointers that
a correct writer makes for them, direct, indirect and doubly indirect. Blocks
have names that say what they are, so that a block reached by a wrong pointer,
or a pointer read from a block that has none, is a different block. Unused
pointers are 0, which is the superblock; the loops do follow them, beyond the
end of a file, and read what they find there as pointers. The model has these
blocks (`Super`, `"stray"`) and assumes that none of them holds a name that is
looked for: the only blocks that hold names of files and are not directories
are those of inodes, and the files of the first one are in the root, which is
searched first.

| State | Code |
|---|---|
| `inum` | `i` and `val` of `search_path`, `inode_number` of `port_fake_to_real` |
| `k` | the variables `i` of the nested loops, as the number of data blocks passed |
| `entries_left`, `fsize_remaining` | the same |
| `path`, `num_dirs`, `filename` | the argument and locals of `search_path` |
| `asked` | history variable: the path as it was given |
| `written` | the real file, as blocks and the number of bytes taken from each |

A path is a sequence of characters; `ParsePath` takes it apart with `Lines`
and cuts the caller's string short. Each block is a file of its own, and
`lost` says which of them are missing: `read_block` then leaves the buffer of
its caller as it is and nobody tests its result, so that the buffer may hold
anything (`Lost`).

An action is one data block (`SearchBlock`, `CopyBlock`); `left_at_k` has the
places where the code takes blocks off `entries_left`, and `loop_ends` the
tests before each group of blocks. Bytes in a block are not modelled, only how
many are written.

What the search should find is defined without regard to how it is done:
`Parents` follows the path from the root on, name by name, and `Corresponding`
is what its last name leads to. `FindsCorresponding` is the claim of the
comments, that the result is one of these inodes, or -1 if there are none. The
code does not keep it (`FakeFS_search`), because it looks for the last name in
inodes 2, 3, ... instead of following the path. `SearchFinds` makes the same
claim under the conditions in which this comes to the same: no inode that is
searched holds the name but the directory that the path leads to, that
directory is among those searched and has more than a single entry, and no
block is missing up to there. Then the entry is found in whichever group of
blocks it is, and where there is none the result is -1.

### Lists, Bits, Lines: the routines

`Lists` has the heap cells of `part3.c` and each turn of the loops of
`append`, `reverse` and `makeempty` as a step; the functions are called in any
order. The history variable `contents` is what the calls so far should leave
in the list. `malloc` that fails is written through, as in the code
(`NoMemory`).

`Bits` has words as functions from places of bits to 0 and 1, of any width `W`
and with any length `F` of the fraction of a float, and the operators of C on
them; each puzzle is the expression in the code, with its numbers of bits in
terms of `W` and `F`. The functions keep no state, so `BitsSpec` gives them
one `word` after the other; `PuzzlesRight` and `FloatsRight` compare what they
do with it, and with any second word, with the comments. For `bang` and
`isPower2` of `bits.c` the comments fail for the most negative word:
`CommentsHold` is their claim, which `Bits_comments` refutes, and `PuzzleRight`
claims nothing of these two for that word. `FloatRight` says that `float_f2i`
cuts off the fraction, and that `float_neg` turns the sign of a finite float
while exponent and fraction, and so the number but for its sign, stay to the
last bit; a NaN comes back as it is. Of the opposite of infinity it says
nothing: by the comment (bits.c:137) it is negated, the test
(bitsSubmission.c:321) expects the same word, and the code does what the test
expects.

`Lines` has no state either. `Reader` has the `text` that was read last, of all
those that there may be (`Texts`); `LinesRight` and `PathsRight` say what its
parts are, as a line or as a path. `Shell` and `FakeFS` use the definitions of
`Lines`, and take their lines and paths from the same constant.

## 3. Runs

All instances are small enough to be explored completely. What is proved in
section 4 and of interest only as a step to something that a run checks (the
type invariants, `VM!PagedOutOnDisk`, `MM!Scanning`, `Sorts!PartsSeparated`,
`Sorts!DisorderInParts`) is left out of the runs.

| Run | Checks | Instance |
|---|---|---|
| `MM_heap` | the six invariants of the heap, `MallocReturns`, `ImplementsAllocator` | 3 requests of 24 bytes, several traces over stale memory, heap up to 21 words, a first block of 10 words |
| `MM_exhausted` | finding: `PayloadInHeap` fails | a buffer of 12 words |
| `Timing` | the counter, the result and the end of `fcyc` | words of 2 bits, runs of 1, 7 or 8 cycles with at most one tick, two windows of callibration, 4 sets of parameters |
| `Programs` | list, puzzles, lines and paths | 4 cells and 2 values; all words of 7 bits, 2 of them the fraction of a float; all texts of up to 6 of 5 characters |
| | club: counts, mixups, messages | 2 threads of each major |
| | driver: range list, judgement, statistics, blocks held | 4 traces with reuse, growing, shrinking and moving, a large payload after a small one, and an index of 200; signed chars; buffer of 5 bytes |
| `Bits_comments` | finding: `CommentsHold` fails | all words of 7 bits |
| `VM_paging` | fitting arrays, frames, LRU, refinement | 2 frames, 3 pages of 2 ints, first lengths 3 and 5, both strategies |
| `Sorts_all` | partition, result, place and end of the sorts | all arrays of 6 elements with 4 values, parts of length 2, 4 and 6 |
| `VM_initial` | finding: `InitializedFromData` fails | 1 frame, data all different |
| `Shell_jobs` | jobs, reports, prompt, end of input | 2 pids, 5 lines, `fork` may fail while there are fewer than 2 jobs |
| `Shell_lost` | finding: `ChangesReported` fails | 2 pids, lines keep coming |
| `FakeFS_search` | finding: `FindsCorresponding` fails | two directories of 3 entries with a file of the same name, no block missing |
| `FakeFS_port` | search, copy, end | directories of 1 to 44 entries, files of 0 to 351 bytes, with blocks of 16 bytes, 2 direct pointers and 4 pointers in a block; 4 paths; one block missing or none |

`Programs` explores five programs that share nothing, each by itself: the
variable `program` of `MCPrograms` says which one runs, and the others stay
where they begin. Threads of one major are interchangeable.

Why the bounds are enough. *MM*: three live blocks are the least with a middle
one, so that a free merges above, below, both or neither, at either end of the
heap. A request of 24 bytes needs 5 words: the first block is split in two of
them, the heap grows by one and a rest of 6, from which nothing can be split
off, and what is merged has many sizes, some of which are split. A stale word
reads as the tag of a free block of no length or of exactly the length of a
block. `ADDR_LIMIT` bounds growth by refusing calls that would go past it, and
no step of a call that has begun. *MDriver*: five bytes hold two payloads that
touch, overlap, enclose or are apart, and those of each trace can all be served
in them; the index 200 is one that a signed char
does not have. *Timing*: a counter of two words of 2 bits begins again within
one run (from 13), or its low word does (from 6), and 8 cycles change the high
word only; with 1 to 4 samples and a K of 1 to 3 there are fewer samples than
K, as many, and more; with `EPSILON` 15 the durations 7 and 8 are close and 1
is not; a tick takes 4 or 6 cycles off, so that some samples are negative.
*Lists, Bits, Reader*: four cells are the least with two in the middle; on words of 7
bits with 2 of fraction a float has 4 of exponent, and can be too large for an
int, smaller than 1, infinite or NaN; six characters hold two words and an
ampersand with spaces around it. *VM*: two frames and three pages are the
least with a choice of victim; the first lengths 3 and 5 double to arrays that
fit, that do not, and that fill their last page only in part, and `MAX_MARK`
leaves enough uses in an experiment to reorder all pages and to bring an
evicted one back. *Sorts*: six elements give parts of every length up to six,
at every position, and heaps whose last parent has one child or two; four
values leave room for equal elements and for a strict order. *Shell*: two pids
are two background jobs, or one with a foreground child; failed forks add jobs
that have no child, so that unlinking affects the head and others behind it,
and `waitpid(-1)` finds a child of another job. `Pids` bounds the children
alive at a time, not the number ever made, and `MAX_JOBS` the length of the
list at which forks still fail; the proof holds for any of both. *Club*: two
threads of each major are the least with a race and an onlooker of either
kind; the threads run for ever, so that every count that races can produce is
reached before the program exits. *FakeFS*: the sizes are those just below, at
and above the end of a block, of the direct, of the indirect and of the doubly
indirect pointers; the entry that is looked for is the first or the last of
each group of blocks, in the root, in another directory, in both or in
neither; the block that is missing is one of data or of pointers in each
group.

Deadlock is not checked where the system stops: an allocator whose heap may
grow no more, a shell that has left, a driver or a club that has exited, a
sort or a copy that has returned, a use counter at its bound, a measurement
that got no memory, a list function that wrote through NULL.

Fairness. `MM!FairSpec` is weak fairness of `MallocStep`: a call that has
begun is run to its end by a sequential program; no call need be made.
`Sorts!Spec` and `FakeFS!Spec` are fair in the same sense, and `FCyc!FairSpec`
with `Measure`: the process runs, its time advances (without which
`callibrate` would see no tick), and the function that is timed ends. `Club`
needs none. `Shell!FairSpec` is weak fairness of the shell's own steps (it is
a runnable process), of delivery of signals (the kernel's promise), and of the
end of each child (without which no shell would come back from its foreground
job). Lines of input need not come, but in `TypingSpec`, which only
`Shell_lost` uses: the claim there is about a user who keeps typing. Nothing
in these is fairness of a particular outcome: statuses, pids and lines are
free.

## 4. Proofs

TLAPS proves, without bounds on requests, sizes, traces, pages, frames,
lengths, elements, jobs, children, threads, cells or the width of words:

| Module | Theorem | States |
|---|---|---|
| `MMProofs` | `Invariance`, `TypeCorrect`, `HeapIsTiled`, `SearchIsAtBlock`, `Coalesced`, `Owned`, `NeedsExtension`, `LoopsKeepTheirPlace`, `PayloadsInHeap`, `Refinement` | the invariants of `MM_heap`, the type invariant, and `Spec => Promise!Spec` |
| `VMProofs` | `Invariance`, `TypeCorrect`, `FramesAreShared`, `PagedOutPagesOnDisk`, `NoFaultWhenItFits`, `LeastRecentlyUsed`, `Refinement` | the invariants of `VM_paging`, the type invariant, that files exist, and `Spec => Memory!Spec` |
| `SortsProofs` | `QuickSortInvariant`, `PartsAreSeparated`, `DisorderIsInParts`, `PartitionKeepsPivot`, `CallsStayInPart`, `QuickSortSorts`, `SortsInvariant`, `TypeCorrect`, `SortsSort` | the safety properties of `Sorts_all` for all four sorts, two more invariants of `quick_sort`, and the type invariant |
| `MDriverProofs` | `InvariantHolds`, `TypeCorrect`, `RangesLive`, `OverlapsAreEnclosures`, `NoAlarm`, `Utilization`, `BlocksAreOut` | the properties of `Programs` about the driver, and the type invariant |
| `FCycProofs` | `Invariance`, `TypeCorrect`, `CounterExact`, `ResultIsBest`, `SmallestAreHeld` | the invariants of `Timing`, the type invariant, and what the array of samples holds |
| `ShellProofs` | `InvariantHolds`, `JobsRight`, `NoChildLeft`, `ReportsRight`, `LinesAreSplit`, `PathsAreSplit` | the safety properties of `Shell_jobs`, and of `Programs` about lines and paths |
| `FakeFSProofs` | `Invariance`, `TypeCorrect`, `SearchIsRight`, `CopyIsExact` | the invariants of `FakeFS_port`, and the type invariant |
| `ExerciseProofs` | `Invariance`, `TypeCorrect`, `CountsAreExact`, `MixedAreReported`, `ReportedMixupsHappened`, `MiscountsAreRaces`, `ListIsRight`, `PuzzlesAreRight`, `FloatsAreRight` | the properties of `Programs` about the club, lists and words, and the type invariant of `Club` |

*MM.* The inductive invariant is the conjunction of `TypeOK`, `HeapTiled`,
`SearchAtBlock`, `NoAdjacentFree`, `BlocksOwned`, `ExtendOnlyWhenFull` and
`Scanning`. Most of them are not inductive alone. `HeapTiled` is destroyed by
a split at an address that is no block, so it needs `Scanning` (where the
loops stand); `Scanning` needs `HeapTiled` (a step by a size leads to a block)
and `SearchAtBlock`; `mm_free` needs `BlocksOwned` to know that it is given a
block, `HeapTiled` to know that the word below is a footer of the block below,
and `NoAdjacentFree` to know that one merge on each side suffices. The lemmas
about `Tiled` say how a tiling changes when a block is split, merged, added at
the end or marked, and are stated for any set of addresses and memory. The
refinement uses the same invariant: a payload is inside its block and away
from both tags, and blocks of different requests are apart. `PayloadsInHeap`
assumes that the buffer is larger than the bound on growth (`ADDR_LIMIT <
MAX_HEAP`); `MM_exhausted` shows that without it the statement is false.

*VM.* To the properties the inductive invariant adds `MarkersTell` (markers of
resident pages are below `use_marker` and tell which of two pages was used
last), `StackOrder` (the sets `since` are ordered by inclusion as the last
uses are) and `FramesFull` (when a page is out, there are as many resident
pages as frames). From these the least marker belongs to the resident page
with the largest `since`, which holds every other resident page; counting it
gives `StackDistance`. The refinement needs `FramesShared` (a store or a
page-in changes no other page) and `PagedOutOnDisk`. It says of every step which
element of the array is read, or written and with what: what a call finds at
its address after a fault is what was there before the page was evicted.

*Sorts.* For `quick_sort` the inductive invariant says of the stack of calls
that the parts lie in the array in ascending order (`Stacked`), that they are
separated (`Separated`) and hold all disorder (`Disorder`), and where `i` and
`j` are (`InPart`). Separation is what lets `partition` compare with an element
outside its part (`PivotWithin`); once its swaps stay `Within` the part, they
can neither mix parts nor make disorder beside them (`FirstPartChanges`), and
when `i` and `j` meet, `AroundPivot` is what the two halves need
(`CallHalved`). When no call is left there is no disorder.

For the other sorts, and for what is common to all four, there is a second
invariant, `SInv`, on top of the first. `Permuted` is preserved because every
step changes the array by swaps of two positions below `len` or not at all, and
a swap moves the set of places of a value by a bijection (`SwapCounts`).
`Selected` (what is before `i` is in order and not larger than what follows)
and `Inserted` (what is before `i` is in order but for the element on its way)
are the invariants of the two simple sorts. `heap_sort` has four: while an
element rises, the only pair of parent and child out of order is its own, and
its children are in order with its parent (`Rising`); then the heap is a heap
(`IsHeap`), or one but for the element that sinks (`Sinking`); and what has
been extracted is in order and not smaller than the heap (`Extracted`). That
the root of a heap is its greatest element is an induction over positions
(`RootIsGreatest`); it is made with a least counterexample, as all inductions
here.

*MDriver.* The traces are arbitrary legal ones, and the allocator may answer
anything. The inductive invariant has a part that holds whatever it answers:
the records in the list are intervals of the heap, and of any two the later
one is apart from the earlier or reaches past both its ends (`ListOK`); so no
two begin at the same address, which is why `remove_range` finds the record
that is meant, and the list is that of the live requests (`RangesRight`,
`BlocksDiffer`). For an allocator that is honest so far, what it has handed
out are the blocks that the driver holds (`HeldRight`), which are in the heap
and apart (`Placed`) and have been filled (`Filled`). A correct answer passes
every test of `add_range` (`CorrectAccepted`), and bytes that were copied are
those that the driver wrote (`MovedBytes`), which leaves signed chars as the
only reason for a false alarm. For the utilization, the bytes of the live
payloads are counted: `total_size` is the cardinality of a subset of the heap
(`Counted`).

*FCyc.* `get_counter` is arithmetic alone: the borrow makes up for the low
words, and what is left is a multiple of BASE * BASE, which drops out
(`CounterExact`, for any BASE). For the result, `HoldsSmallest` says that there
is a one-to-one function from the places in use to the samples (`Places`) that
leaves out only samples that are not smaller than any that it reaches, and
`Ordered` that the places are in order but for the sample that is being
inserted. From both, `values[q]` is the q-th smallest sample, which the model
defines by counting and without the array (`PlaceIsRank`, `SmallestUnique`). So
`has_converged` says what `Suffices` says of the samples so far, and `GoesOn` that it has not said so before; `ResultBest` is what is
known when the loop ends. A function is needed, not a set, because samples may
be equal.

*Shell.* `JobsAreChildren` and `LeavesNoChild` are nearly inductive. What is
missing is that at the end of input `check_jobs` stays at the head of the list
until this is empty (`AtHead`), so that a shell that leaves has no jobs left,
and therefore no children. `ReportsRight` is an action property that follows
from the same invariant: the job that is being looked at names the command of
its child. The proofs are for any set of pids, any length of the list and any
lines. That a child runs the command that its job is named for rests on
`LinesAreSplit`: `PlacesOf` has the separators in ascending order, because
their ranks are all the numbers up to how many there are (`Ranks`), and the
pieces in between, joined again, grow to what was split (`Split`).

*FakeFS.* The nested loops of `search_dir` and `port_fake_to_real` go through
three groups of blocks, so the first step is to see them as one loop: with `k`
blocks passed, `entries_left` and `fsize_remaining` are functions of `k`
(`LeftAfter`, `CopyCounts`), and the tests at the ends of the groups fail only
when no entry or byte is left (`Exhausted`, `CopyOver`). `DirsPassed` and
`BlocksPassed` say that no directory and no block that has been passed holds
the name, unless a block is missing there. When the search leaves a directory,
the blocks it has not read have no entries: `search_dir` counts ints instead of
entries, and as an entry has room for as many ints as a block has entries it
counts no less than one block for each (`EnoughLeft`). In `Copied` every block
but the last contributes all of its bytes (`Bytes`). A missing block spoils
exactly what is read through it (`LostIsDamaged`). What has been passed and what
has been found give `SearchIsRight`: the entry that ends the search has the last
name of the path (`AskedStep` keeps `filename` that of `asked`), so its
directory is one of `Holding` and hence of `Parents`
(`FoundIsCorresponding`); and if all is passed there is no such entry.

*Club.* `CountsExact` needs `Loaded`: while nobody has raced, the register of
a thread that is about to store still is the count. `MixedIsReported` is
strengthened to `OneIsLooking`, over all threads in the club and not just
those that hang out; it holds because a thread that enters begins with both
comparisons ahead of it, and a comparison that another thread inside makes
true cannot turn the search away. `MixupHappened` needs in `Meeting` that also
a thread that has the count of its own major still to load has met the others.
`OnlyRacesMiscount` is a matter of arithmetic once counts are exact: the
number of threads inside is between 0 and the capacity.

*Lists.* `ListRight` speaks of `chain`, which follows pointers through a memory
that changes. The invariant `ListInv` names the order of the cells instead:
there is a sequence of them that is `Linked` from `list`, `Covers` what has been
allocated, each cell once, and `Carries` the values of `contents`. Each
function in progress has a form of this of its own (`Appending`, `Reversing`,
`Emptying`). When `reverse` still has the cells of s before it and has
turned those of t, the order is Reverse(s) \o t all the time, and turning one
more cell changes only where it is cut (`Turning`). That `chain` reads such a
sequence is `Walked`.

*Bits.* A word of n bits is a set of places, so 2^n is the number of subsets
(`PowerIsSubsets`), from which the laws of powers follow (`Powers`). The
recursion of `unsigned` is unfolded with a least counterexample (`Unsigned`,
`Sums`); with it `Word` and `unsigned` are inverse to each other
(`UnsignedFacts`, `UnsignedWord`). After that a puzzle is one of two things: a
comparison of bits, place by place, or linear arithmetic over Half, the weight
of the highest bit (`HighestBit`, `Complement`, `SumOfWords`). `isPower2`
needs the lowest bit that is set, which subtracting 1 clears
(`BitOfPredecessor`, `OneBit`). Shifts and masks are quotients, products and
remainders by powers of 2 (`ShiftedRight`, `ShiftedLeft`, `Masked`), which is
what the parts of a float are made of (`SameParts`, `Truncated`, `Magnitude`).

The assumptions of the constants are `MMAssumption`, `VMAssumption`,
`SortsAssumption`, `MDriverAssumption`, `ClockAssumption`, `FCycAssumption`,
`ShellAssumption`, `ClubAssumption` (two finite disjoint sets of threads),
`LinesAssumption` (texts are sequences of characters), `ListsAssumption` (there
are finitely many addresses, and NULL is neither an address nor a cell),
`BitsAssumption` (at least two bits for the exponent of a float),
`FakeFSAssumption`, `LayoutAssumption` and `TreesAssumption`, which TLC
evaluates in the runs of these modules. They ask for nothing that the code's
`#define`s and inputs do not satisfy. `ShellAssumption` has a newline only at
the end of a line, which is what `getline` promises. `LayoutAssumption` is
about the sizes in `fs.c`: blocks of 256 bytes have 8 entries of 32 bytes, and
an entry has room for 8 ints; were there more entries in a block than ints in
an entry, `search_dir` would not reach them all. `TreesAssumption` says that
directories and files are not larger than an inode can have them.

The provers have no induction over data: the library states it for an operator,
and none of them can take one. What the proofs use instead is that a set of
natural numbers has a least element (`Least`, `Minimal`), which follows from
the well-foundedness of finite sets without an operator. With it the recursive
functions are unfolded: `Join` (`JoinIs`), and the sum in `unsigned` (`Sums`).

Only model-checked: liveness (`MallocReturns`, `PromptReturns`, `FcycReturns`,
`Returns`), which is out of the prover's reach. Every other property of a
passing run, be it an invariant, an action property or a refinement, is stated
by a theorem.

## 5. What the models show of the code

Each of these is shown by a run that ends in a counterexample:

1. `mm_malloc` ignores a refusal of `mem_sbrk` (`MM_exhausted`).
2. `initialize` counts its offset into the data twice in bytes, so that the
   files do not hold the array (`VM_initial`). The experiments sort whatever
   is there.
3. The shell clears its flag after polling, and so can lose a signal
   (`Shell_lost`).
4. `search_path` does not follow the directories of its path, and so returns
   the root's file `f` for `/d/f` (`FakeFS_search`; fs.c:319 asks for the
   corresponding inode). It looks for the last component in inodes 2, 3, ...,
   one for each component of the path and one more, whether they are
   directories or not (fs.c:331).
5. `bang` of `bits.c` gives 1 for the most negative int, and `isPower2` takes
   it for a power of 2 (`Bits_comments`; bits.c:67, bits.c:123 and the test at
   bitsSubmission.c:313 say otherwise). `bitsSubmission.c` puts the second
   right, which `PuzzleRight` says.

These were met while modelling and have no run of their own; where a property
says what holds instead, it is named:

* `add_range` accepts a payload that encloses an older one, in spite of the
  comment above its test (mdriver.c:407). `OverlapsEnclose` says what the test
  does achieve.
* `eval_mm_valid` compares a `char` with an index of up to 255
  (mdriver.c:672); where `char` is signed, a correct allocator is blamed as
  soon as it reallocates a block with an index from 128 on. `NoFalseAlarm`
  says that this is the only such case.
* The shell takes the -1 of a failed `fork` for a pid (ish.c:217):
  `waitpid(-1)` reaps the child of another job, or the wait at the end of
  input is for nobody and never ends (`WaitsForNobody`). No child is lost all
  the same (`JobsAreChildren`, `LeavesNoChild`).
* A last line without a newline ends the shell by the assertion in
  `parse_line` (ish.c:28), and leaves its jobs behind.
* A compensated sample may be negative, and a negative smallest sample is
  never close to the others, not even if they are equal (fcyc.c:97): `fcyc`
  then takes all the samples that it may. `ResultBest` has this in `Suffices`.
* `clear` would never end with a cache block smaller than an int (fcyc.c:109);
  nobody calls `set_fcyc_cache_block`.
* `float_neg` returns infinities as they are, like NaN, although its comment
  excepts NaN only (bits.c:143); the test at bitsSubmission.c:321 takes the word
  of infinity for a NaN. `FloatRight` leaves infinities out.
* The loop of `takes_two_ints` increments `one` instead of its counter `num`
  (part1.c:6), and does not end when it is entered at all.
* A thread of `sync.c` that has left the club checks it as well (sync.c:97),
  and may end the program over a mixup that never was: it sees one of its own
  major still inside, who then leaves before one of the other major enters and
  is seen. `MixupHappened` is therefore about threads that have entered.
* `search_dir` divides the size of a directory by 4, not by the size of an
  entry (fs.c:285), and takes a block off before it searches one (fs.c:291).
  The first makes up for the second, except for a directory with a single
  entry, of which nothing is searched (`FakeFS!Overlooked`): its file is not
  found, against the comment at fs.c:273. No directory that has `.` and `..` is
  so small. `SearchFinds` names the exception; with a single entry in
  directory 4 and none of the name in the root, `FindsCorresponding` fails by
  it. In return blocks beyond the end are searched too.
* `port_fake_to_real` opens the real file first, and reads inode -1 if there
  is no such file (fs.c:368); what is there is the end of the bitmap of
  blocks, and the result an empty file as long as that has zeros.
* `mm_check` initialises `prev_is_free` to 0 and never sets it, so the message
  "contiguous allocated blocks!" (mm.c:309) cannot appear.
* `check_jobs` calls a job complete if `WEXITSTATUS` is 0 without asking
  `WIFEXITED`, so also one that was killed (ish.c:101); `main` prints the
  status of a foreground command only if it did not exit (ish.c:245), the
  opposite of the comment above it. `Shell` models both as they are.

## 6. Not modelled

* `first_fit`, `mm_realloc` and `mm_check` of `mm.c`: the first is never
  called, the second returns NULL, and the third only reads and prints; what
  it looks for is `HeapTiled` and `NoAdjacentFree`.
* The driver's options, the reading of trace files, and printing.
* `ftimer.c`, which is not compiled in, the counters of other processors,
  `ovhd` and `mhz` (the clock rate is a factor of the result); the setters of
  the cache block and of epsilon, which nobody calls.
* Probabilities: `RANDOM` picks among the resident pages; that its loop over
  random pages ends is almost sure, not certain.
* Overflow of `use_marker` and of sizes near the largest `size_t`: far outside
  what the drivers do; the models have natural numbers there.
* Inode blocks that are missing, paths that end in a slash (they match unused
  entries), and a real file that cannot be opened.
* In the shell, allocations that fail, the prompt, and SIGINT, which it
  ignores.
* The numbers that the threads of `sync.c` print while others change them.
* `print_array`, `part1.c` and `part2.c`, the traces and their generators,
  `checkalign.c`, `snooze.c`, `procDemo.c`, the debugging exercise (its
  defects are seeded) and the class demonstrations.

## 7. Plan

Done: the allocator with its driver and timing, virtual memory with the sorts,
the shell, the club, the reader of disks and the small routines, with the
proofs of section 4. What is left are the parts of section 6, none of which
the others depend on.
