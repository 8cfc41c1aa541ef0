-------------------------------- MODULE Club --------------------------------
(***************************************************************************)
(* The club of A09-Synchronization/sync.c, before any lock has been added: *)
(* threads of two majors that enter and leave for ever, and sanitycheck,   *)
(* which ends the program when the two counts look wrong to it.  ++ and -- *)
(* are a load and a store (LoadCount, StoreCount), and each comparison of  *)
(* sanitycheck is a load, because gcc is run without optimization.  The    *)
(* loads of printf, whose values go to the screen only, are left out.      *)
(***************************************************************************)
EXTENDS Integers, FiniteSets

CONSTANTS Comp, Math   \* the threads of the two majors

ASSUME ClubAssumption ==
  /\ IsFiniteSet(Comp) /\ IsFiniteSet(Math)
  /\ Comp \intersect Math = {}

Threads == Comp \union Math
Majors == {"comp", "math"}
major(t) == IF t \in Comp THEN "comp" ELSE "math"
capacity == Cardinality(Comp) + Cardinality(Math)

VARIABLES
  count,    \* comp_count and math_count
  at,       \* where a thread is: "entering" and "leaving" are between load
            \* and store
  reg,      \* the count that a thread has loaded, or 0 before and after
  check,    \* the comparison of sanitycheck it is at, or the message it prints
  exited,   \* has a thread called exit?
  raced,    \* history variable, not in the code: has a store been made to
            \* the count while another thread was between load and store?
  met       \* history variable: have the majors been in the club together?

club_vars == <<count, at, reg, check, exited, raced, met>>

Messages == {"mixup", "patrons", "lost"}
Comparisons == {"comp>0", "math>0", "comp>cap", "math>cap", "comp<0", "math<0"}

\* The threads of a major that are in the club.
inside(m) == {t \in Threads : major(t) = m /\ at[t] \in {"in", "leaving"}}

ClubInit ==
  /\ count = [m \in Majors |-> 0]
  /\ at = [t \in Threads |-> "out"]
  /\ reg = [t \in Threads |-> 0]
  /\ check = [t \in Threads |-> "none"]
  /\ exited = FALSE
  /\ raced = [m \in Majors |-> FALSE]
  /\ met = FALSE
-----------------------------------------------------------------------------
idle(t) == at[t] \in {"out", "in"} /\ check[t] = "none"

\* comp_enter and math_enter begin, or, after hangout, comp_exit and math_exit.
LoadCount(t) ==
  /\ ~exited /\ idle(t)
  /\ at' = [at EXCEPT ![t] = IF @ = "out" THEN "entering" ELSE "leaving"]
  /\ reg' = [reg EXCEPT ![t] = count[major(t)]]
  /\ UNCHANGED <<count, check, exited, raced, met>>

\* Mutant: one who leaves is not counted out.
StillCounted(t) == IF at[t] = "entering" THEN reg[t] + 1 ELSE reg[t]

updated(t) == IF at[t] = "entering" THEN reg[t] + 1 ELSE reg[t] - 1

\* Mutant: sanitycheck is called after leaving only.
ChecksAtExit(t) == IF at[t] = "leaving" THEN "comp>0" ELSE "none"

\* Both pairs of functions call sanitycheck when they have changed the count.
first_comparison(t) == "comp>0"

StoreCount(t) ==
  /\ ~exited /\ at[t] \in {"entering", "leaving"}
  /\ count' = [count EXCEPT ![major(t)] = updated(t)]
  /\ at' = [at EXCEPT ![t] = IF @ = "entering" THEN "in" ELSE "out"]
  /\ check' = [check EXCEPT ![t] = first_comparison(t)]
  /\ raced' = [raced EXCEPT ![major(t)] = @ \/
       \E u \in Threads \ {t} : major(u) = major(t)
                                  /\ at[u] \in {"entering", "leaving"}]
  /\ met' = (met \/ \A m \in Majors : inside(m)' # {})
  /\ reg' = [reg EXCEPT ![t] = 0]
  /\ UNCHANGED exited
-----------------------------------------------------------------------------
\* Mutant: nobody is taken for somebody.
NotNegative(m) == count[m] >= 0

somebody(m) == count[m] > 0
too_many(m) == count[m] > capacity

\* Mutant: an empty club is one that has lost somebody.
NotPositive(m) == count[m] <= 0

missing(m) == count[m] < 0

\* What follows comparison c of sanitycheck: the next one, a message, or its end.
after(c) ==
  CASE c = "comp>0" -> IF somebody("comp") THEN "math>0" ELSE "comp>cap"
    [] c = "math>0" -> IF somebody("math") THEN "mixup" ELSE "comp>cap"
    [] c = "comp>cap" -> IF too_many("comp") THEN "patrons" ELSE "math>cap"
    [] c = "math>cap" -> IF too_many("math") THEN "patrons" ELSE "comp<0"
    [] c = "comp<0" -> IF missing("comp") THEN "lost" ELSE "math<0"
    [] c = "math<0" -> IF missing("math") THEN "lost" ELSE "none"

Compare(t) ==
  /\ ~exited /\ check[t] \in Comparisons
  /\ check' = [check EXCEPT ![t] = after(@)]
  /\ UNCHANGED <<count, at, reg, exited, raced, met>>

\* exit(1), while other threads may be anywhere.
ExitProgram(t) ==
  /\ ~exited /\ check[t] \in Messages
  /\ exited' = TRUE
  /\ UNCHANGED <<count, at, reg, check, raced, met>>

ClubNext ==
  \E t \in Threads : LoadCount(t) \/ StoreCount(t) \/ Compare(t) \/ ExitProgram(t)

ClubSpec == ClubInit /\ [][ClubNext]_club_vars
-----------------------------------------------------------------------------
(* Properties *)

ClubTypeOK ==
  /\ count \in [Majors -> Int]
  /\ at \in [Threads -> {"out", "entering", "in", "leaving"}]
  /\ reg \in [Threads -> Int]
  /\ check \in [Threads -> {"none"} \union Comparisons \union Messages]
  /\ exited \in BOOLEAN /\ met \in BOOLEAN
  /\ raced \in [Majors -> BOOLEAN]
  /\ \A t \in Threads : at[t] \in {"entering", "leaving"} => check[t] = "none"

\* A count is the number of its majors in the club, as long as no store has
\* come between another thread's load and store: only that can lose a change.
CountsExact ==
  \A m \in Majors : ~raced[m] => count[m] = Cardinality(inside(m))

\* If counts are exact, majors of both kinds never come to hang out together:
\* the later of the two to enter finds the other by its first two comparisons.
MixedIsReported ==
  (\A m \in Majors : ~raced[m]) =>
    ~ \E c \in Comp, d \in Math :
        \A t \in {c, d} : at[t] = "in" /\ check[t] \notin {"comp>0", "math>0", "mixup"}

\* A mixup that is reported by a thread that has entered has happened, though
\* the two counts are not read at once.  (One that leaves may report a mixup
\* that never was.)
MixupHappened ==
  \A t \in Threads :
    (check[t] = "mixup" /\ at[t] = "in" /\ \A m \in Majors : ~raced[m]) => met

\* The other two messages tell of lost changes, and never of too many or too
\* few people.
OnlyRacesMiscount ==
  (\E t \in Threads : check[t] \in {"patrons", "lost"}) => \E m \in Majors : raced[m]
=============================================================================
