------------------------------- MODULE Clock -------------------------------
(***************************************************************************)
(* The cycle counter of A06-DynamicMemory/clock.c on x86: the processor's  *)
(* counter is read as two words, and the cycles since start_counter are    *)
(* the difference of two such readings, word by word with a borrow.        *)
(***************************************************************************)
EXTENDS Integers

CONSTANT BASE      \* 2^32: a word is 0 .. BASE - 1

ASSUME ClockAssumption == BASE \in Nat \ {0, 1}

Unsigned == 0 .. BASE - 1
Counter == 0 .. BASE * BASE - 1

\* What access_counter stores when the processor's counter is at c.
access_counter(c) == [hi |-> c \div BASE, lo |-> c % BASE]

\* Mutant: the borrow is forgotten.
NoBorrow(cyc, ncyc) ==
  ((ncyc.hi - cyc.hi) % BASE) * BASE + ((ncyc.lo - cyc.lo) % BASE)

\* The result of get_counter when start_counter has read cyc and it reads
\* ncyc itself.
difference(cyc, ncyc) ==
  LET lo == (ncyc.lo - cyc.lo) % BASE
      borrow == IF lo > ncyc.lo THEN 1 ELSE 0
      hi == (ncyc.hi - cyc.hi - borrow) % BASE
  IN  hi * BASE + lo

\* The same when the counter was at c and is n cycles on, past its end or not.
get_counter(c, n) ==
  difference(access_counter(c), access_counter((c + n) % (BASE * BASE)))
=============================================================================
