--------------------------- MODULE ExerciseProofs ---------------------------
(***************************************************************************)
(* Proofs about the small programs of the course: the club, for any number *)
(* of threads of each major, the linked list, for any heap and values, and *)
(* the bit puzzles, for words and floats of any width.                     *)
(***************************************************************************)
EXTENDS Club, Lists, Bits, FiniteSetTheorems, SequenceTheorems,
        WellFoundedInduction, TLAPS

(* The club *)

Updating(t) == at[t] \in {"entering", "leaving"}
Inside(t) == at[t] \in {"in", "leaving"}
Unraced == \A m \in Majors : ~raced[m]
Mixing(t) == check[t] \in {"comp>0", "math>0", "mixup"}

\* As long as no store has come in between, what is loaded is what is there.
Loaded ==
  \A t \in Threads : Updating(t) /\ ~raced[major(t)] => reg[t] = count[major(t)]

\* Of two threads of both majors in the club, one is looking for the other.
OneIsLooking ==
  Unraced =>
    \A c \in Comp, d \in Math : Inside(c) /\ Inside(d) => Mixing(c) \/ Mixing(d)

\* A thread in the club that has found the other major, or has only to load
\* the count of its own, has met it.
Meeting ==
  /\ \A c \in Comp, d \in Math : Inside(c) /\ Inside(d) => met
  /\ \A t \in Threads :
       (Unraced /\ at[t] = "in"
          /\ (check[t] = "mixup" \/ (t \in Math /\ check[t] = "math>0"))) => met

IInv ==
  /\ ClubTypeOK
  /\ CountsExact /\ Loaded
  /\ OneIsLooking
  /\ Meeting
  /\ OnlyRacesMiscount
-----------------------------------------------------------------------------
\* A thread has one of two majors, and is in at most one of the two sets.
LEMMA MajorFacts ==
  ASSUME NEW t \in Threads
  PROVE  /\ major(t) \in Majors
         /\ major(t) = "comp" <=> t \in Comp
         /\ major(t) = "math" <=> t \in Math
BY ClubAssumption DEF major, Majors, Threads

\* The capacity is never exceeded: it is the number of all threads.
LEMMA InsideFacts ==
  ASSUME NEW m \in Majors
  PROVE  /\ IsFiniteSet(inside(m))
         /\ Cardinality(inside(m)) \in Nat
         /\ capacity \in Nat
         /\ Cardinality(inside(m)) <= capacity
         /\ Cardinality(inside(m)) = 0 <=> inside(m) = {}
<1>1. /\ Cardinality(Comp) \in Nat /\ Cardinality(Math) \in Nat /\ capacity \in Nat
      /\ Cardinality(Comp) <= capacity /\ Cardinality(Math) <= capacity
  BY ClubAssumption, FS_CardinalityType DEF capacity
<1>2. inside(m) \subseteq Comp \/ inside(m) \subseteq Math
  BY DEF inside, major, Threads, Majors
<1>3. IsFiniteSet(inside(m)) /\ Cardinality(inside(m)) <= capacity
  <2>1. CASE inside(m) \subseteq Comp
    <3>1. IsFiniteSet(inside(m)) /\ Cardinality(inside(m)) <= Cardinality(Comp)
      BY <2>1, ClubAssumption, FS_Subset
    <3> QED BY <3>1, <1>1, FS_CardinalityType
  <2>2. CASE inside(m) \subseteq Math
    <3>1. IsFiniteSet(inside(m)) /\ Cardinality(inside(m)) <= Cardinality(Math)
      BY <2>2, ClubAssumption, FS_Subset
    <3> QED BY <3>1, <1>1, FS_CardinalityType
  <2> QED BY <1>2, <2>1, <2>2
<1> QED BY <1>1, <1>3, FS_CardinalityType, FS_EmptySet

\* In terms of inside, who is in the club.
LEMMA InsideMembers ==
  ASSUME NEW t \in Threads, NEW m \in Majors
  PROVE  t \in inside(m) <=> major(t) = m /\ Inside(t)
BY DEF inside, Inside

\* An exact count is positive if and only if someone of the major is inside,
\* never negative and never above capacity.
LEMMA ExactCount ==
  ASSUME IInv, NEW m \in Majors, ~raced[m]
  PROVE  /\ somebody(m) <=> inside(m) # {}
         /\ ~missing(m) /\ ~too_many(m)
<1>1. count[m] = Cardinality(inside(m))
  BY DEF IInv, CountsExact
<1> QED BY <1>1, InsideFacts DEF somebody, missing, too_many
-----------------------------------------------------------------------------
\* All threads are outside, and all counts 0.
LEMMA InitIInv ==
  ASSUME ClubInit
  PROVE  IInv
<1>1. ClubTypeOK
  <2>1. count \in [Majors -> Int]
    BY DEF ClubInit
  <2>2. exited \in BOOLEAN /\ met \in BOOLEAN
    BY Zenon DEF ClubInit
  <2>3. raced \in [Majors -> BOOLEAN]
    BY Zenon DEF ClubInit
  <2>4. /\ at \in [Threads -> {"out", "entering", "in", "leaving"}]
        /\ reg \in [Threads -> Int]
        /\ check \in [Threads -> {"none"} \union Comparisons \union Messages]
        /\ \A t \in Threads : check[t] = "none"
    BY DEF ClubInit
  <2> QED BY <2>1, <2>2, <2>3, <2>4 DEF ClubTypeOK
<1>2. CountsExact
  <2> SUFFICES ASSUME NEW m \in Majors
               PROVE  count[m] = Cardinality(inside(m))
    BY DEF CountsExact
  <2>1. inside(m) = {} /\ count[m] = 0
    BY DEF ClubInit, inside
  <2> QED BY <2>1, FS_EmptySet
<1>3. Loaded
  BY DEF ClubInit, Loaded, Updating
<1>4. OneIsLooking /\ Meeting
  BY DEF ClubInit, OneIsLooking, Meeting, Inside, Threads
<1>5. OnlyRacesMiscount
  BY DEF ClubInit, OnlyRacesMiscount
<1> QED BY <1>1, <1>2, <1>3, <1>4, <1>5 DEF IInv

\* A load changes neither counts nor who is in the club.
LEMMA LoadStep ==
  ASSUME IInv, NEW t \in Threads, LoadCount(t)
  PROVE  IInv'
<1>1. /\ count' = count /\ check' = check /\ exited' = exited
      /\ raced' = raced /\ met' = met
      /\ at[t] \in {"out", "in"} /\ check[t] = "none"
      /\ at' = [at EXCEPT ![t] = IF @ = "out" THEN "entering" ELSE "leaving"]
      /\ reg' = [reg EXCEPT ![t] = count[major(t)]]
  BY DEF LoadCount, idle
<1>2. ClubTypeOK /\ major(t) \in Majors
  BY MajorFacts DEF IInv
<1>3. ClubTypeOK'
  <2>1. /\ at' \in [Threads -> {"out", "entering", "in", "leaving"}]
        /\ reg' \in [Threads -> Int]
    BY <1>1, <1>2 DEF ClubTypeOK
  <2>2. \A u \in Threads : at'[u] \in {"entering", "leaving"} => check'[u] = "none"
    BY <1>1, <1>2 DEF ClubTypeOK
  <2> QED BY <1>1, <1>2, <2>1, <2>2 DEF ClubTypeOK
<1>4. \A u \in Threads : Inside(u)' <=> Inside(u)
  BY <1>1, <1>2 DEF Inside, ClubTypeOK
<1>5. CountsExact'
  <2>1. \A m \in Majors : inside(m)' = inside(m)
    BY <1>4 DEF inside, Inside
  <2> QED BY <1>1, <2>1 DEF IInv, CountsExact
<1>6. Loaded'
  <2> SUFFICES ASSUME NEW u \in Threads, Updating(u)', ~raced[major(u)]
               PROVE  reg'[u] = count[major(u)]
    BY <1>1 DEF Loaded
  <2>1. CASE u = t
    BY <2>1, <1>1, <1>2 DEF ClubTypeOK
  <2>2. CASE u # t
    <3>1. Updating(u) /\ reg'[u] = reg[u]
      BY <2>2, <1>1, <1>2 DEF Updating, ClubTypeOK
    <3> QED BY <3>1 DEF IInv, Loaded
  <2> QED BY <2>1, <2>2
<1>7. OneIsLooking'
  <2>1. Unraced' <=> Unraced
    BY <1>1 DEF Unraced
  <2>2. \A u \in Threads : Mixing(u)' <=> Mixing(u)
    BY <1>1 DEF Mixing
  <2> QED BY <2>1, <2>2, <1>4 DEF IInv, OneIsLooking, Threads
<1>8. Meeting'
  <2>1. \A c \in Comp, d \in Math : Inside(c)' /\ Inside(d)' => met'
    BY <1>1, <1>4 DEF IInv, Meeting, Threads
  <2>2. ASSUME NEW u \in Threads, Unraced', at'[u] = "in",
               check'[u] = "mixup" \/ (u \in Math /\ check'[u] = "math>0")
        PROVE  met'
    <3>1. Unraced /\ at[u] = "in"
      BY <2>2, <1>1, <1>2 DEF Unraced, ClubTypeOK
    <3> QED BY <2>2, <3>1, <1>1 DEF IInv, Meeting
  <2> QED BY <2>1, <2>2 DEF Meeting
<1>9. OnlyRacesMiscount'
  BY <1>1 DEF IInv, OnlyRacesMiscount
<1> QED BY <1>3, <1>5, <1>6, <1>7, <1>8, <1>9 DEF IInv

\* A store of what is exact is exact, and makes a thread look around.
LEMMA StoreStep ==
  ASSUME IInv, NEW t \in Threads, StoreCount(t)
  PROVE  IInv'
<1> DEFINE M == major(t)
<1>1. /\ at[t] \in {"entering", "leaving"}
      /\ count' = [count EXCEPT ![M] = updated(t)]
      /\ at' = [at EXCEPT ![t] = IF @ = "entering" THEN "in" ELSE "out"]
      /\ check' = [check EXCEPT ![t] = "comp>0"]
      /\ raced' = [raced EXCEPT ![M] = @ \/
           \E u \in Threads \ {t} : major(u) = M
                                      /\ at[u] \in {"entering", "leaving"}]
      /\ met' = (met \/ \A m \in Majors : inside(m)' # {})
      /\ reg' = [reg EXCEPT ![t] = 0] /\ exited' = exited
  BY DEF StoreCount, first_comparison
<1>2. ClubTypeOK /\ M \in Majors
  BY MajorFacts DEF IInv
<1>3. updated(t) \in Int /\ updated(t) = IF at[t] = "entering" THEN reg[t] + 1 ELSE reg[t] - 1
  BY <1>2 DEF updated, ClubTypeOK
<1> HIDE DEF M
<1>4. ClubTypeOK'
  <2>1. /\ at' \in [Threads -> {"out", "entering", "in", "leaving"}]
        /\ count' \in [Majors -> Int] /\ reg' \in [Threads -> Int]
    BY <1>1, <1>2, <1>3 DEF ClubTypeOK
  <2>2. /\ check' \in [Threads -> {"none"} \union Comparisons \union Messages]
        /\ raced' \in [Majors -> BOOLEAN]
    BY <1>1, <1>2 DEF ClubTypeOK, Comparisons
  <2>3. ASSUME NEW u \in Threads, at'[u] \in {"entering", "leaving"}
        PROVE  check'[u] = "none"
    <3>1. u # t /\ at[u] \in {"entering", "leaving"}
      BY <2>3, <1>1, <1>2 DEF ClubTypeOK
    <3> QED BY <3>1, <1>1, <1>2 DEF ClubTypeOK
  <2>4. met' \in BOOLEAN /\ exited' \in BOOLEAN
    BY <1>1, <1>2 DEF ClubTypeOK
  <2> QED BY <2>1, <2>2, <2>3, <2>4 DEF ClubTypeOK
<1>5. \A m \in Majors : ~raced'[m] => ~raced[m]
  BY <1>1, <1>2 DEF ClubTypeOK
<1>6. \A u \in Threads \ {t} : /\ at'[u] = at[u] /\ check'[u] = check[u]
                                /\ reg'[u] = reg[u]
  BY <1>1, <1>2 DEF ClubTypeOK
<1>7. \/ at[t] = "entering" /\ at'[t] = "in" /\ ~Inside(t) /\ Inside(t)'
      \/ at[t] = "leaving" /\ at'[t] = "out" /\ Inside(t) /\ ~Inside(t)'
  BY <1>1, <1>2 DEF ClubTypeOK, Inside
<1>8. \A u \in Threads \ {t} : Inside(u)' <=> Inside(u)
  BY <1>6 DEF Inside
<1>9. CountsExact'
  <2> SUFFICES ASSUME NEW m \in Majors, ~raced'[m]
               PROVE  count'[m] = Cardinality(inside(m)')
    BY DEF CountsExact
  <2>1. ~raced[m] /\ count[m] = Cardinality(inside(m))
    BY <1>5 DEF IInv, CountsExact
  <2>2. IsFiniteSet(inside(m)) /\ Cardinality(inside(m)) \in Nat
    BY InsideFacts
  <2>3. CASE m # M
    <3>1. count'[m] = count[m]
      BY <2>3, <1>1, <1>2 DEF ClubTypeOK
    <3>2. inside(m)' = inside(m)
      BY <2>3, <1>8 DEF inside, Inside, M
    <3> QED BY <3>1, <3>2, <2>1
  <2>4. CASE m = M
    <3>1. reg[t] = count[m]
      BY <2>1, <2>4, <1>1 DEF IInv, Loaded, Updating, M
    <3>2. count'[m] = updated(t)
      BY <2>4, <1>1, <1>2 DEF ClubTypeOK
    <3>3. CASE at[t] = "entering"
      <4>1. inside(m)' = inside(m) \union {t} /\ t \notin inside(m)
        BY <2>4, <3>3, <1>7, <1>8 DEF inside, Inside, M
      <4>2. Cardinality(inside(m)') = Cardinality(inside(m)) + 1
        BY <4>1, <2>2, FS_AddElement
      <4> QED BY <4>2, <3>1, <3>2, <3>3, <2>1, <1>3
    <3>4. CASE at[t] = "leaving"
      <4>1. inside(m)' = inside(m) \ {t} /\ t \in inside(m)
        BY <2>4, <3>4, <1>7, <1>8 DEF inside, Inside, M
      <4>2. Cardinality(inside(m)') = Cardinality(inside(m)) - 1
        BY <4>1, <2>2, FS_RemoveElement
      <4> QED BY <4>2, <3>1, <3>2, <3>4, <2>1, <1>3
    <3> QED BY <1>1, <3>3, <3>4
  <2> QED BY <2>3, <2>4
<1>10. Loaded'
  <2> SUFFICES ASSUME NEW u \in Threads, Updating(u)', ~raced'[major(u)]
               PROVE  reg'[u] = count'[major(u)]
    BY DEF Loaded
  <2>1. u # t
    BY <1>7 DEF Updating
  <2>2. Updating(u) /\ reg'[u] = reg[u] /\ major(u) \in Majors
    BY <2>1, <1>6, MajorFacts DEF Updating
  <2>3. major(u) # M
    BY <2>1, <2>2, <1>1, <1>2 DEF Updating, ClubTypeOK
  <2>4. count'[major(u)] = count[major(u)] /\ ~raced[major(u)]
    BY <2>2, <2>3, <1>1, <1>2, <1>5 DEF ClubTypeOK
  <2> QED BY <2>2, <2>4 DEF IInv, Loaded
<1>11. Unraced' => Unraced
  BY <1>5 DEF Unraced
<1>12. OneIsLooking'
  <2> SUFFICES ASSUME Unraced', NEW c \in Comp, NEW d \in Math,
                      Inside(c)', Inside(d)'
               PROVE  Mixing(c)' \/ Mixing(d)'
    BY DEF OneIsLooking
  <2>1. c \in Threads /\ d \in Threads
    BY DEF Threads
  <2>2. CASE t \in {c, d}
    <3>1. check'[t] = "comp>0"
      BY <1>1, <1>2 DEF ClubTypeOK
    <3> QED BY <2>2, <3>1 DEF Mixing
  <2>3. CASE t \notin {c, d}
    <3>1. Inside(c) /\ Inside(d)
      BY <2>1, <2>3, <1>8
    <3>2. check'[c] = check[c] /\ check'[d] = check[d]
      BY <2>1, <2>3, <1>6
    <3> QED BY <3>1, <3>2, <1>11 DEF IInv, OneIsLooking, Mixing
  <2> QED BY <2>2, <2>3
<1>13. Meeting'
  <2>1. ASSUME NEW c \in Comp, NEW d \in Math, Inside(c)', Inside(d)'
        PROVE  met'
    <3>1. c \in inside("comp")' /\ d \in inside("math")'
      BY <2>1, MajorFacts DEF inside, Inside, Threads
    <3> QED BY <3>1, <1>1 DEF Majors
  <2>2. ASSUME NEW u \in Threads, Unraced', at'[u] = "in",
               check'[u] = "mixup" \/ (u \in Math /\ check'[u] = "math>0")
        PROVE  met'
    <3>1. u # t
      BY <2>2, <1>1, <1>2 DEF ClubTypeOK
    <3>2. at[u] = "in" /\ check'[u] = check[u]
      BY <2>2, <3>1, <1>6
    <3>3. met
      BY <2>2, <3>2, <1>11 DEF IInv, Meeting
    <3> QED BY <3>3, <1>1
  <2> QED BY <2>1, <2>2 DEF Meeting
<1>14. OnlyRacesMiscount'
  <2> SUFFICES ASSUME NEW u \in Threads, check'[u] \in {"patrons", "lost"}
               PROVE  \E m \in Majors : raced'[m]
    BY DEF OnlyRacesMiscount
  <2>1. u # t
    BY <1>1, <1>2 DEF ClubTypeOK
  <2>2. check[u] \in {"patrons", "lost"}
    BY <2>1, <1>6
  <2>3. PICK m \in Majors : raced[m]
    BY <2>2 DEF IInv, OnlyRacesMiscount
  <2> QED BY <2>3, <1>5
<1> QED BY <1>4, <1>9, <1>10, <1>12, <1>13, <1>14 DEF IInv

\* A comparison only moves on the thread that makes it.  When counts are exact
\* it finds the major that is there, and nothing that is not.
LEMMA CompareStep ==
  ASSUME IInv, NEW t \in Threads, Compare(t)
  PROVE  IInv'
<1>1. /\ check[t] \in Comparisons /\ check' = [check EXCEPT ![t] = after(check[t])]
      /\ count' = count /\ at' = at /\ reg' = reg /\ exited' = exited
      /\ raced' = raced /\ met' = met
  BY DEF Compare
<1>2. ClubTypeOK
  BY DEF IInv
<1>3. /\ check[t] = "comp>0" => check'[t] = IF somebody("comp") THEN "math>0" ELSE "comp>cap"
      /\ check[t] = "math>0" => check'[t] = IF somebody("math") THEN "mixup" ELSE "comp>cap"
      /\ check[t] = "comp>cap" => check'[t] = IF too_many("comp") THEN "patrons" ELSE "math>cap"
      /\ check[t] = "math>cap" => check'[t] = IF too_many("math") THEN "patrons" ELSE "comp<0"
      /\ check[t] = "comp<0" => check'[t] = IF missing("comp") THEN "lost" ELSE "math<0"
      /\ check[t] = "math<0" => check'[t] = IF missing("math") THEN "lost" ELSE "none"
  BY <1>1, <1>2 DEF after, ClubTypeOK
<1>4. \A u \in Threads \ {t} : check'[u] = check[u]
  BY <1>1, <1>2 DEF ClubTypeOK
<1>5. ClubTypeOK'
  <2>1. check'[t] \in {"none"} \union Comparisons \union Messages
    BY <1>1, <1>3 DEF Comparisons, Messages
  <2>2. check' \in [Threads -> {"none"} \union Comparisons \union Messages]
    BY <2>1, <1>1, <1>2 DEF ClubTypeOK
  <2>3. at[t] \notin {"entering", "leaving"}
    BY <1>1, <1>2 DEF ClubTypeOK, Comparisons
  <2>4. \A u \in Threads : at'[u] \in {"entering", "leaving"} => check'[u] = "none"
    BY <2>3, <1>1, <1>2, <1>4 DEF ClubTypeOK
  <2> QED BY <2>2, <2>4, <1>1, <1>2 DEF ClubTypeOK
<1>6. CountsExact'
  <2>1. \A m \in Majors : inside(m)' = inside(m)
    BY <1>1 DEF inside
  <2> QED BY <2>1, <1>1 DEF IInv, CountsExact
<1>7. Loaded'
  BY <1>1 DEF IInv, Loaded, Updating
<1>8. /\ Unraced' <=> Unraced
      /\ \A u \in Threads : Inside(u)' <=> Inside(u)
  BY <1>1 DEF Unraced, Inside
<1>9. ASSUME Unraced, NEW c \in Comp, NEW d \in Math, Inside(c), Inside(d)
      PROVE  somebody("comp") /\ somebody("math")
  <2>1. c \in inside("comp") /\ d \in inside("math")
    BY <1>9, MajorFacts DEF inside, Inside, Threads
  <2>2. "comp" \in Majors /\ "math" \in Majors
    BY DEF Majors
  <2> QED BY <2>1, <2>2, <1>9, ExactCount DEF Unraced
<1>10. OneIsLooking'
  <2> SUFFICES ASSUME Unraced, NEW c \in Comp, NEW d \in Math, Inside(c), Inside(d)
               PROVE  Mixing(c)' \/ Mixing(d)'
    BY <1>8 DEF OneIsLooking, Threads
  <2>1. c \in Threads /\ d \in Threads
    BY DEF Threads
  <2>2. somebody("comp") /\ somebody("math")
    BY <1>9
  <2>3. ASSUME NEW u \in Threads, Mixing(u)
        PROVE  Mixing(u)'
    <3>1. CASE u = t
      BY <3>1, <2>2, <2>3, <1>1, <1>3 DEF Mixing, Comparisons
    <3>2. CASE u # t
      BY <3>2, <2>3, <1>4 DEF Mixing
    <3> QED BY <3>1, <3>2
  <2>4. Mixing(c) \/ Mixing(d)
    BY DEF IInv, OneIsLooking
  <2> QED BY <2>1, <2>3, <2>4
<1>11. Meeting'
  <2>1. \A c \in Comp, d \in Math : Inside(c)' /\ Inside(d)' => met'
    BY <1>1, <1>8 DEF IInv, Meeting, Threads
  <2>2. ASSUME NEW u \in Threads, Unraced, at[u] = "in",
               check'[u] = "mixup" \/ (u \in Math /\ check'[u] = "math>0")
        PROVE  met
    <3>1. CASE u # t
      BY <3>1, <2>2, <1>4 DEF IInv, Meeting
    <3>2. CASE u = t
      <4>1. /\ "comp" \in Majors /\ "math" \in Majors
            /\ \A m \in Majors : somebody(m) => inside(m) # {}
        BY <2>2, ExactCount DEF Majors, Unraced
      <4>2. \A c \in Comp, d \in Math : Inside(c) /\ Inside(d) => met
        BY DEF IInv, Meeting
      <4>3. \A m \in Majors : \A v \in inside(m) : v \in Threads /\ major(v) = m /\ Inside(v)
        BY DEF inside, Inside
      <4>4. CASE u \in Math /\ check'[u] = "math>0"
        <5>1. somebody("comp")
          BY <4>4, <3>2, <1>1, <1>3 DEF Comparisons
        <5>2. PICK c \in inside("comp") : TRUE
          BY <5>1, <4>1
        <5>3. c \in Comp /\ Inside(c)
          BY <5>2, <4>1, <4>3, MajorFacts
        <5> QED BY <5>3, <4>2, <4>4, <2>2 DEF Inside
      <4>5. CASE check'[u] = "mixup"
        <5>1. check[u] = "math>0" /\ somebody("math")
          BY <4>5, <3>2, <1>1, <1>3 DEF Comparisons
        <5>2. CASE u \in Math
          BY <5>1, <5>2, <2>2 DEF IInv, Meeting
        <5>3. CASE u \in Comp
          <6>1. PICK d \in inside("math") : TRUE
            BY <5>1, <4>1
          <6>2. d \in Math /\ Inside(d)
            BY <6>1, <4>1, <4>3, MajorFacts
          <6> QED BY <6>2, <5>3, <4>2, <2>2 DEF Inside
        <5> QED BY <5>2, <5>3 DEF Threads
      <4> QED BY <2>2, <4>4, <4>5
    <3> QED BY <3>1, <3>2
  <2> QED BY <2>1, <2>2, <1>1, <1>8 DEF Meeting
<1>12. OnlyRacesMiscount'
  <2> SUFFICES ASSUME NEW u \in Threads, check'[u] \in {"patrons", "lost"}
               PROVE  \E m \in Majors : raced[m]
    BY <1>1 DEF OnlyRacesMiscount
  <2>1. CASE u # t
    BY <2>1, <1>4 DEF IInv, OnlyRacesMiscount
  <2>2. CASE u = t
    <3>1. \E m \in Majors : too_many(m) \/ missing(m)
      BY <2>2, <1>1, <1>3 DEF Comparisons, Majors
    <3> QED BY <3>1, ExactCount
  <2> QED BY <2>1, <2>2
<1> QED BY <1>5, <1>6, <1>7, <1>10, <1>11, <1>12 DEF IInv

\* The end of the program changes nothing that IInv is about.
LEMMA ExitStep ==
  ASSUME IInv, UNCHANGED <<count, at, reg, check, raced, met>>, exited' \in BOOLEAN
  PROVE  IInv'
<1>1. ClubTypeOK'
  BY DEF IInv, ClubTypeOK
<1>2. CountsExact'
  BY DEF IInv, CountsExact, inside
<1>3. Loaded' /\ OneIsLooking'
  BY DEF IInv, Loaded, Updating, OneIsLooking, Inside, Unraced, Mixing
<1>4. Meeting' /\ OnlyRacesMiscount'
  BY DEF IInv, Meeting, OnlyRacesMiscount, Inside, Unraced
<1> QED BY <1>1, <1>2, <1>3, <1>4 DEF IInv
-----------------------------------------------------------------------------
(* The theorems *)

\* The invariant of the unlocked club, for any number of threads.
THEOREM Invariance == ClubSpec => []IInv
<1>1. ClubInit => IInv
  BY InitIInv
<1>2. IInv /\ [ClubNext]_club_vars => IInv'
  <2> SUFFICES ASSUME IInv, [ClubNext]_club_vars
               PROVE  IInv'
    OBVIOUS
  <2>1. ASSUME NEW t \in Threads, LoadCount(t)
        PROVE  IInv'
    BY <2>1, LoadStep
  <2>2. ASSUME NEW t \in Threads, StoreCount(t)
        PROVE  IInv'
    BY <2>2, StoreStep
  <2>3. ASSUME NEW t \in Threads, Compare(t)
        PROVE  IInv'
    BY <2>3, CompareStep
  <2>4. ASSUME NEW t \in Threads, ExitProgram(t)
        PROVE  IInv'
    BY <2>4, ExitStep DEF ExitProgram
  <2>5. CASE UNCHANGED club_vars
    <3>1. UNCHANGED <<count, at, reg, check, raced, met>> /\ exited' \in BOOLEAN
      BY <2>5 DEF club_vars, IInv, ClubTypeOK
    <3> QED BY <3>1, ExitStep
  <2> QED BY <2>1, <2>2, <2>3, <2>4, <2>5 DEF ClubNext
<1> QED BY <1>1, <1>2, PTL DEF ClubSpec

\* The counts and the places of the threads keep their types, and a thread
\* waits for its sanitycheck.
THEOREM TypeCorrect == ClubSpec => []ClubTypeOK
<1>1. IInv => ClubTypeOK
  BY DEF IInv
<1> QED BY <1>1, Invariance, PTL

\* Only a store between another thread's load and store makes a count wrong.
THEOREM CountsAreExact == ClubSpec => []CountsExact
<1>1. IInv => CountsExact
  BY DEF IInv
<1> QED BY <1>1, Invariance, PTL

\* sanitycheck ends the program before majors of both kinds hang out together.
THEOREM MixedAreReported == ClubSpec => []MixedIsReported
<1>1. IInv => MixedIsReported
  <2> SUFFICES ASSUME IInv, Unraced, NEW c \in Comp, NEW d \in Math,
                      at[c] = "in", at[d] = "in"
               PROVE  Mixing(c) \/ Mixing(d)
    BY DEF MixedIsReported, Mixing, Unraced
  <2> QED BY DEF IInv, OneIsLooking, Inside
<1> QED BY <1>1, Invariance, PTL

\* What a thread reports that has entered has happened.
THEOREM ReportedMixupsHappened == ClubSpec => []MixupHappened
<1>1. IInv => MixupHappened
  <2> SUFFICES ASSUME IInv, NEW t \in Threads,
                      check[t] = "mixup", at[t] = "in", Unraced
               PROVE  met
    BY DEF MixupHappened, Unraced
  <2> QED BY Zenon DEF IInv, Meeting
<1> QED BY <1>1, Invariance, PTL

\* The messages of too many and of missing people are about lost changes.
THEOREM MiscountsAreRaces == ClubSpec => []OnlyRacesMiscount
<1>1. IInv => OnlyRacesMiscount
  BY DEF IInv
<1> QED BY <1>1, Invariance, PTL
-----------------------------------------------------------------------------
(* The linked list *)

Heap == [Addresses -> Cell \union {NULL}]
CellsOf(s) == {s[n] : n \in 1 .. Len(s)}
Distinct(s) == \A m, n \in 1 .. Len(s) : s[m] = s[n] => m = n

\* In heap c the cells of s, each a different one, are linked from q on to NULL.
Linked(c, s, q) ==
  /\ s \in Seq(Addresses) /\ Distinct(s)
  /\ q = IF Len(s) = 0 THEN NULL ELSE s[1]
  /\ \A n \in 1 .. Len(s) :
       c[s[n]] # NULL /\ c[s[n]].next = IF n = Len(s) THEN NULL ELSE s[n + 1]

\* The cells of w are all that is allocated, each once.
Covers(c, w) ==
  /\ w \in Seq(Addresses) /\ Distinct(w)
  /\ CellsOf(w) = {a \in Addresses : c[a] # NULL}

\* The cells of w carry the values of v, in order.
Carries(c, w, v) == Len(v) = Len(w) /\ \A n \in 1 .. Len(w) : c[w[n]].value = v[n]

AtRest ==
  \E s \in Seq(Addresses) :
    Linked(cells, s, list) /\ Covers(cells, s) /\ Carries(cells, s, contents)

Appending ==
  \E s \in Seq(Addresses) :
    /\ Linked(cells, s, list) /\ p \in CellsOf(s)
    /\ newelt \in Addresses /\ cells[newelt].next = NULL
    /\ Covers(cells, s \o <<newelt>>) /\ Carries(cells, s \o <<newelt>>, contents)

Reversing ==
  \E s, t \in Seq(Addresses) :
    /\ Linked(cells, s, curr_ptr) /\ Linked(cells, t, new_list)
    /\ Covers(cells, Reverse(s) \o t) /\ Carries(cells, Reverse(s) \o t, contents)

Emptying ==
  /\ contents = <<>>
  /\ \E s \in Seq(Addresses) : Linked(cells, s, next_one) /\ Covers(cells, s)

ListInv ==
  /\ cells \in Heap /\ contents \in Seq(Values)
  /\ pc \in {"idle", "append", "reverse", "makeempty", "crashed"}
  /\ pc = "idle" => AtRest
  /\ pc = "append" => Appending
  /\ pc = "reverse" => Reversing
  /\ pc = "makeempty" => Emptying
-----------------------------------------------------------------------------
\* A cell that is allocated has a value and a next cell.
LEMMA CellFacts ==
  ASSUME NEW c \in Heap
  PROVE  /\ \A a \in Addresses : c[a] # NULL => /\ c[a] \in Cell /\ c[a].value \in Values
                                                /\ c[a].next \in Addresses \union {NULL}
         /\ \A v \in Values, q \in Addresses \union {NULL} :
              /\ cell(v, q) \in Cell /\ cell(v, q) # NULL
              /\ cell(v, q).value = v /\ cell(v, q).next = q
BY ListsAssumption DEF Heap, Cell, cell

\* A list with a new head.
LEMMA Consed ==
  ASSUME NEW T, NEW s \in Seq(T), NEW h \in T
  PROVE  /\ <<h>> \o s \in Seq(T) /\ Len(<<h>> \o s) = Len(s) + 1 /\ (<<h>> \o s)[1] = h
         /\ \A n \in 1 .. Len(s) : (<<h>> \o s)[n + 1] = s[n]
         /\ CellsOf(<<h>> \o s) = {h} \union CellsOf(s)
         /\ Distinct(s) /\ h \notin CellsOf(s) => Distinct(<<h>> \o s)
<1> DEFINE w == <<h>> \o s
<1>1. w \in Seq(T) /\ Len(w) = Len(s) + 1 /\ w[1] = h /\ \A n \in 1 .. Len(s) : w[n + 1] = s[n]
  OBVIOUS
<1> HIDE DEF w
<1>2. Len(s) \in Nat
  OBVIOUS
<1>3. \A n \in 1 .. Len(w) : n = 1 \/ (n - 1 \in 1 .. Len(s) /\ w[n] = s[n - 1])
  BY <1>1, <1>2
<1>4. CellsOf(w) = {h} \union CellsOf(s)
  <2>1. \A n \in 1 .. Len(s) : n + 1 \in 1 .. Len(w)
    BY <1>1, <1>2
  <2>2. 1 \in 1 .. Len(w)
    BY <1>1, <1>2
  <2>3. CellsOf(w) \subseteq {h} \union CellsOf(s)
    <3>1. \A n \in 1 .. Len(w) : w[n] = h \/ \E m \in 1 .. Len(s) : w[n] = s[m]
      BY <1>1, <1>3
    <3> QED BY <3>1 DEF CellsOf
  <2>4. h \in CellsOf(w)
    <3>1. \E n \in 1 .. Len(w) : h = w[n]
      BY <1>1, <2>2
    <3> QED BY <3>1 DEF CellsOf
  <2>5. CellsOf(s) \subseteq CellsOf(w)
    BY <1>1, <2>1 DEF CellsOf
  <2> QED BY <2>3, <2>4, <2>5
<1>5. ASSUME Distinct(s), h \notin CellsOf(s), NEW m \in 1 .. Len(w), NEW n \in 1 .. Len(w),
             w[m] = w[n]
      PROVE  m = n
  BY <1>1, <1>2, <1>3, <1>5 DEF Distinct, CellsOf
<1>6. Distinct(s) /\ h \notin CellsOf(s) => Distinct(w)
  BY <1>5 DEF Distinct
<1> QED BY <1>1, <1>4, <1>6 DEF w

\* A list with a new last element.
LEMMA Snoced ==
  ASSUME NEW T, NEW s \in Seq(T), NEW h \in T
  PROVE  /\ s \o <<h>> \in Seq(T) /\ Len(s \o <<h>>) = Len(s) + 1
         /\ (s \o <<h>>)[Len(s) + 1] = h
         /\ \A n \in 1 .. Len(s) : (s \o <<h>>)[n] = s[n]
         /\ CellsOf(s \o <<h>>) = CellsOf(s) \union {h}
         /\ Distinct(s) /\ h \notin CellsOf(s) => Distinct(s \o <<h>>)
<1> DEFINE w == s \o <<h>>
<1>1. w \in Seq(T) /\ Len(w) = Len(s) + 1 /\ w[Len(s) + 1] = h
      /\ \A n \in 1 .. Len(s) : w[n] = s[n]
  OBVIOUS
<1> HIDE DEF w
<1>2. Len(s) \in Nat
  OBVIOUS
<1>3. \A n \in 1 .. Len(w) : n = Len(s) + 1 \/ n \in 1 .. Len(s)
  BY <1>1, <1>2
<1>4. CellsOf(w) = CellsOf(s) \union {h}
  <2>1. \A n \in 1 .. Len(s) : n \in 1 .. Len(w)
    BY <1>1, <1>2
  <2>2. Len(s) + 1 \in 1 .. Len(w)
    BY <1>1, <1>2
  <2> QED BY <1>1, <1>3, <2>1, <2>2 DEF CellsOf
<1>5. ASSUME Distinct(s), h \notin CellsOf(s), NEW m \in 1 .. Len(w), NEW n \in 1 .. Len(w),
             w[m] = w[n]
      PROVE  m = n
  BY <1>1, <1>2, <1>3, <1>5 DEF Distinct, CellsOf
<1>6. Distinct(s) /\ h \notin CellsOf(s) => Distinct(w)
  BY <1>5 DEF Distinct
<1> QED BY <1>1, <1>4, <1>6 DEF w

\* A list without its head.
LEMMA Beheaded ==
  ASSUME NEW T, NEW s \in Seq(T), Len(s) # 0
  PROVE  /\ Tail(s) \in Seq(T) /\ Len(Tail(s)) = Len(s) - 1 /\ Len(s) \in Nat \ {0}
         /\ s[1] \in T
         /\ \A n \in 1 .. Len(s) - 1 : Tail(s)[n] = s[n + 1]
         /\ s = <<s[1]>> \o Tail(s)
         /\ CellsOf(s) = {s[1]} \union CellsOf(Tail(s))
         /\ Distinct(s) => Distinct(Tail(s)) /\ s[1] \notin CellsOf(Tail(s))
<1>1. Len(s) \in Nat \ {0} /\ s # <<>> /\ s[1] \in T
  OBVIOUS
<1>2. /\ Tail(s) \in Seq(T) /\ Len(Tail(s)) = Len(s) - 1
      /\ \A n \in 1 .. Len(s) - 1 : Tail(s)[n] = s[n + 1]
  BY <1>1, HeadTailProperties
<1>3. s = <<s[1]>> \o Tail(s)
  <2> DEFINE u == <<s[1]>> \o Tail(s)
  <2>1. u \in Seq(T) /\ Len(u) = Len(s) /\ u[1] = s[1]
        /\ \A n \in 1 .. Len(s) - 1 : u[n + 1] = Tail(s)[n]
    BY <1>1, <1>2, Consed
  <2> HIDE DEF u
  <2>2. \A n \in 1 .. Len(s) : u[n] = s[n]
    <3> SUFFICES ASSUME NEW n \in 1 .. Len(s) PROVE u[n] = s[n]
      OBVIOUS
    <3>1. CASE n = 1
      BY <3>1, <2>1
    <3>2. CASE n # 1
      <4>1. n - 1 \in 1 .. Len(s) - 1 /\ (n - 1) + 1 = n
        BY <3>2, <1>1
      <4> QED BY <4>1, <1>2, <2>1
    <3> QED BY <3>1, <3>2
  <2>3. u = s
    BY <2>1, <2>2, SeqEqual
  <2> QED BY <2>3 DEF u
<1>4. CellsOf(s) = {s[1]} \union CellsOf(Tail(s))
  <2>1. s[1] \in T /\ Tail(s) \in Seq(T)
    BY <1>1, <1>2
  <2>2. CellsOf(<<s[1]>> \o Tail(s)) = {s[1]} \union CellsOf(Tail(s))
    BY <2>1, Consed
  <2> QED BY <1>3, <2>2
<1>5. ASSUME Distinct(s) PROVE Distinct(Tail(s)) /\ s[1] \notin CellsOf(Tail(s))
  <2>1. \A n \in 1 .. Len(s) - 1 : n + 1 \in 1 .. Len(s) /\ n + 1 # 1
    BY <1>1
  <2>2. 1 \in 1 .. Len(s)
    BY <1>1
  <2>3. \A m, n \in 1 .. Len(s) - 1 : m + 1 = n + 1 => m = n
    BY <1>1
  <2> QED BY <1>2, <1>5, <2>1, <2>2, <2>3 DEF Distinct, CellsOf
<1> QED BY <1>1, <1>2, <1>3, <1>4, <1>5

\* The elements of a list are met at as many places as it has elements.
LEMMA Counted ==
  ASSUME NEW s \in Seq(Addresses), Distinct(s)
  PROVE  IsFiniteSet(CellsOf(s)) /\ Cardinality(CellsOf(s)) = Len(s)
<1> DEFINE n == Len(s)
<1>1. n \in Nat
  OBVIOUS
<1>2. s \in Bijection(1 .. n, CellsOf(s))
  <2>1. s \in [1 .. n -> CellsOf(s)]
    BY DEF CellsOf
  <2> QED BY <2>1 DEF Bijection, Injection, Surjection, IsInjective, Distinct, CellsOf
<1>3. ExistsBijection(1 .. n, CellsOf(s))
  BY <1>2 DEF ExistsBijection
<1> HIDE DEF n
<1>4. IsFiniteSet(CellsOf(s)) /\ Cardinality(CellsOf(s)) = n
  BY <1>1, <1>3, FS_CountingElements, FS_NatBijection
<1> QED BY <1>4 DEF n

\* A set of natural numbers that is not empty has a least element.
LEMMA Least ==
  ASSUME NEW T, T \subseteq Nat, T # {}
  PROVE  \E x \in T : \A y \in T : x <= y
<1>1. PICK n \in T : n \in Nat
  OBVIOUS
<1> DEFINE S == 0 .. n
           U == {0 .. m : m \in {l \in T : l <= n}}
<1>2. IsFiniteSet(S)
  BY <1>1, FS_Interval
<1>3. U \subseteq FiniteSubsetsOf(S) /\ U # {}
  <2>1. \A m \in 0 .. n : 0 .. m \subseteq S
    BY <1>1
  <2>2. U \subseteq SUBSET S
    BY <2>1
  <2> QED BY <1>1, <1>2, <2>2, FS_Subset DEF FiniteSubsetsOf
<1>4. IsWellFoundedOn(StrictSubsetOrdering(S), FiniteSubsetsOf(S))
  BY FS_StrictSubsetOrderingWellFounded
<1> HIDE DEF U
<1>5. PICK X \in U : \A Y \in U : <<Y, X>> \notin StrictSubsetOrdering(S)
  BY <1>3, <1>4, WFMin
<1>6. PICK m \in T : m <= n /\ X = 0 .. m
  BY <1>5 DEF U
<1>7. ASSUME NEW y \in T, y < m
      PROVE  FALSE
  <2>1. y \in Nat /\ m \in Nat /\ y <= n
    BY <1>1, <1>6, <1>7
  <2>2. 0 .. y \in U
    BY <2>1 DEF U
  <2>3. /\ 0 .. y \subseteq 0 .. m
        /\ m \in 0 .. m /\ m \notin 0 .. y
        /\ 0 .. y \in SUBSET S /\ 0 .. m \in SUBSET S
    BY <1>1, <1>6, <1>7, <2>1
  <2> QED BY <1>5, <1>6, <2>2, <2>3 DEF StrictSubsetOrdering
<1> QED BY <1>6, <1>7

\* A walk along the cells meets the list that they link.
LEMMA Walked ==
  ASSUME cells \in Heap, NEW s, NEW a, Linked(cells, s, a)
  PROVE  chain(a) = s
<1> DEFINE N == Cardinality(Addresses)
           l == Len(s)
           w == [n \in 1 .. N + 1 |-> IF n <= l THEN s[n] ELSE NULL]
<1>1. /\ s \in Seq(Addresses) /\ Distinct(s) /\ l \in Nat
      /\ a = IF l = 0 THEN NULL ELSE s[1]
      /\ \A n \in 1 .. l :
           /\ s[n] \in Addresses /\ s[n] # NULL /\ cells[s[n]] # NULL
           /\ cells[s[n]].next = IF n = l THEN NULL ELSE s[n + 1]
  BY ListsAssumption DEF Linked
<1>2. N \in Nat /\ l <= N
  <2>1. CellsOf(s) \subseteq Addresses
    BY <1>1 DEF CellsOf
  <2> QED BY <1>1, <2>1, Counted, ListsAssumption, FS_Subset, FS_CardinalityType
<1> HIDE DEF N, l
<1>3. \A n \in 1 .. N + 1 : w[n] = IF n <= l THEN s[n] ELSE NULL
  OBVIOUS
<1>4. w = [n \in 1 .. N + 1 |-> IF n = 1 THEN a ELSE following(w[n - 1])]
  <2>1. ASSUME NEW n \in 1 .. N + 1
        PROVE  w[n] = IF n = 1 THEN a ELSE following(w[n - 1])
    <3> HIDE DEF w
    <3>1. CASE n = 1
      BY <1>1, <1>2, <1>3, <3>1
    <3>2. CASE n # 1
      <4>1. n - 1 \in 1 .. N + 1 /\ (n - 1) + 1 = n
        BY <1>2, <3>2
      <4>2. CASE n - 1 <= l
        <5>1. n - 1 \in 1 .. l /\ w[n - 1] = s[n - 1]
          BY <1>1, <1>3, <4>1, <4>2
        <5>2. following(w[n - 1]) = cells[s[n - 1]].next
          BY <1>1, <5>1 DEF following
        <5> QED BY <1>1, <1>3, <3>2, <4>1, <4>2, <5>1, <5>2
      <4>3. CASE ~(n - 1 <= l)
        BY <1>1, <1>3, <3>2, <4>1, <4>3 DEF following
      <4> QED BY <4>2, <4>3
    <3> QED BY <3>1, <3>2
  <2>2. w = [n \in 1 .. N + 1 |-> w[n]]
    OBVIOUS
  <2> HIDE DEF w
  <2> QED BY <2>1, <2>2
<1> HIDE DEF w
<1>5. PICK g : /\ g = [n \in 1 .. N + 1 |-> IF n = 1 THEN a ELSE following(g[n - 1])]
               /\ chain(a) = [n \in 1 .. Cardinality({m \in DOMAIN g : g[m] # NULL}) |-> g[n]]
  BY <1>4 DEF chain, N
<1>6. DOMAIN g = 1 .. N + 1
  BY <1>5
<1> DEFINE D == {n \in 1 .. N + 1 : g[n] # w[n]}
<1>7. D = {}
  <2> SUFFICES ASSUME D # {} PROVE FALSE
    OBVIOUS
  <2>1. D \subseteq Nat
    BY <1>2
  <2>2. PICK k \in D : \A m \in D : k <= m
    BY <2>1, Least
  <2>3. k \in 1 .. N + 1 /\ g[k] # w[k] /\ \A m \in 1 .. N + 1 : m < k => g[m] = w[m]
    BY <2>2
  <2>4. /\ g[k] = IF k = 1 THEN a ELSE following(g[k - 1])
        /\ w[k] = IF k = 1 THEN a ELSE following(w[k - 1])
    BY <1>4, <1>5, <2>3
  <2>5. k # 1 => k - 1 \in 1 .. N + 1 /\ k - 1 < k
    BY <1>2, <2>3
  <2> HIDE DEF D
  <2> QED BY <2>3, <2>4, <2>5
<1>8. \A n \in 1 .. N + 1 : g[n] = IF n <= l THEN s[n] ELSE NULL
  BY <1>3, <1>7
<1> HIDE DEF D
<1> DEFINE M == {m \in DOMAIN g : g[m] # NULL}
<1>9. M = 1 .. l
  BY <1>1, <1>2, <1>6, <1>8
<1>10. chain(a) = [n \in 1 .. Cardinality(M) |-> g[n]]
  BY <1>5
<1> HIDE DEF M
<1>11. chain(a) = [n \in 1 .. l |-> g[n]]
  <2>1. Cardinality(1 .. l) = l
    BY <1>1, FS_Interval
  <2> QED BY <1>9, <1>10, <2>1
<1>12. chain(a) = [n \in 1 .. l |-> s[n]]
  <2>1. \A n \in 1 .. l : g[n] = s[n]
    BY <1>1, <1>2, <1>8
  <2> QED BY <1>11, <2>1
<1>13. s = [n \in 1 .. l |-> s[n]]
  BY <1>1 DEF l
<1> QED BY <1>12, <1>13

\* What is said of the cells of a list stays so when others change.
LEMMA Framed ==
  ASSUME NEW c, NEW d, NEW s, NEW q, Linked(c, s, q), \A a \in CellsOf(s) : d[a] = c[a]
  PROVE  Linked(d, s, q)
BY DEF Linked, CellsOf

\* A cell that links to a list makes a longer list with it.
LEMMA LinkedCons ==
  ASSUME NEW c, NEW s, NEW q, NEW a \in Addresses, Linked(c, s, q), a \notin CellsOf(s),
         c[a] # NULL, c[a].next = q
  PROVE  Linked(c, <<a>> \o s, a)
<1> DEFINE w == <<a>> \o s
<1>1. s \in Seq(Addresses) /\ Distinct(s) /\ Len(s) \in Nat
  BY DEF Linked
<1>2. /\ w \in Seq(Addresses) /\ Len(w) = Len(s) + 1 /\ w[1] = a /\ Distinct(w)
      /\ \A n \in 1 .. Len(s) : w[n + 1] = s[n]
  BY <1>1, Consed
<1> HIDE DEF w
<1>3. ASSUME NEW n \in 1 .. Len(w)
      PROVE  c[w[n]] # NULL /\ c[w[n]].next = IF n = Len(w) THEN NULL ELSE w[n + 1]
  <2>1. CASE n = 1
    <3>1. q = IF Len(s) = 0 THEN NULL ELSE s[1]
      BY DEF Linked
    <3>2. Len(s) # 0 => 1 \in 1 .. Len(s) /\ w[1 + 1] = s[1]
      BY <1>1, <1>2
    <3> QED BY <1>1, <1>2, <2>1, <3>1, <3>2
  <2>2. CASE n # 1
    <3>1. n - 1 \in 1 .. Len(s) /\ (n - 1) + 1 = n /\ (n - 1 = Len(s) <=> n = Len(w))
      BY <1>1, <1>2, <2>2
    <3>2. w[n] = s[n - 1]
      BY <1>2, <3>1
    <3>3. c[s[n - 1]] # NULL /\ c[s[n - 1]].next = IF n - 1 = Len(s) THEN NULL ELSE s[n]
      BY <3>1 DEF Linked
    <3>4. n # Len(w) => n \in 1 .. Len(s)
      BY <1>1, <1>2
    <3> QED BY <1>2, <3>1, <3>2, <3>3, <3>4
  <2> QED BY <2>1, <2>2
<1>4. Len(w) # 0
  BY <1>1, <1>2
<1>5. Linked(c, w, a)
  BY <1>2, <1>3, <1>4 DEF Linked
<1> QED BY <1>5 DEF w

\* What follows the first cell of a list is a list.
LEMMA LinkedTail ==
  ASSUME NEW c, NEW s, NEW q, Linked(c, s, q), q # NULL
  PROVE  /\ s \in Seq(Addresses) /\ Len(s) # 0 /\ q = s[1] /\ q \in Addresses
         /\ c[q] # NULL
         /\ Linked(c, Tail(s), c[q].next)
<1>1. /\ s \in Seq(Addresses) /\ Distinct(s) /\ Len(s) # 0 /\ q = s[1]
      /\ \A n \in 1 .. Len(s) :
           c[s[n]] # NULL /\ c[s[n]].next = IF n = Len(s) THEN NULL ELSE s[n + 1]
  BY DEF Linked
<1> DEFINE t == Tail(s)
<1>2. /\ t \in Seq(Addresses) /\ Len(t) = Len(s) - 1 /\ Len(s) \in Nat \ {0}
      /\ q \in Addresses /\ Distinct(t)
      /\ \A n \in 1 .. Len(s) - 1 : t[n] = s[n + 1]
  <2>1. s \in Seq(Addresses) /\ Len(s) # 0
    BY <1>1
  <2>2. /\ t \in Seq(Addresses) /\ Len(t) = Len(s) - 1 /\ Len(s) \in Nat \ {0}
        /\ s[1] \in Addresses /\ Distinct(s) => Distinct(t)
        /\ \A n \in 1 .. Len(s) - 1 : t[n] = s[n + 1]
    BY <2>1, Beheaded
  <2> HIDE DEF t
  <2> QED BY <1>1, <2>2
<1> HIDE DEF t
<1>3. c[q] # NULL /\ c[q].next = IF Len(t) = 0 THEN NULL ELSE t[1]
  <2>1. 1 \in 1 .. Len(s) /\ (Len(t) # 0 => 1 \in 1 .. Len(s) - 1)
    BY <1>2
  <2> QED BY <1>1, <1>2, <2>1
<1>4. ASSUME NEW n \in 1 .. Len(t)
      PROVE  c[t[n]] # NULL /\ c[t[n]].next = IF n = Len(t) THEN NULL ELSE t[n + 1]
  <2>1. n + 1 \in 1 .. Len(s) /\ t[n] = s[n + 1] /\ (n = Len(t) <=> n + 1 = Len(s))
    BY <1>2
  <2>2. n # Len(t) => n + 1 \in 1 .. Len(s) - 1
    BY <1>2
  <2> QED BY <1>1, <1>2, <2>1, <2>2
<1>5. Linked(c, t, c[q].next)
  BY <1>2, <1>3, <1>4 DEF Linked
<1> QED BY <1>1, <1>2, <1>3, <1>5 DEF t

\* A list whose last cell is made to link to one more is longer by it.
LEMMA LinkedSnoc ==
  ASSUME NEW c \in Heap, NEW d \in Heap, NEW s, NEW q, NEW a \in Addresses, NEW b \in Addresses,
         Linked(c, s, q), b \in CellsOf(s), c[b].next = NULL, a \notin CellsOf(s),
         \A x \in CellsOf(s) \ {b} : d[x] = c[x],
         d[b] # NULL, d[b].next = a, d[a] # NULL, d[a].next = NULL
  PROVE  Linked(d, s \o <<a>>, q)
<1> DEFINE w == s \o <<a>>
<1>1. /\ s \in Seq(Addresses) /\ Distinct(s) /\ Len(s) \in Nat
      /\ \A n \in 1 .. Len(s) :
           /\ s[n] \in Addresses /\ s[n] \in CellsOf(s) /\ c[s[n]] # NULL
           /\ c[s[n]].next = IF n = Len(s) THEN NULL ELSE s[n + 1]
  BY DEF Linked, CellsOf
<1>2. /\ w \in Seq(Addresses) /\ Len(w) = Len(s) + 1 /\ w[Len(s) + 1] = a /\ Distinct(w)
      /\ \A n \in 1 .. Len(s) : w[n] = s[n]
  BY <1>1, Snoced
<1> HIDE DEF w
<1>3. Len(s) # 0 /\ b = s[Len(s)]
  <2>1. PICK n \in 1 .. Len(s) : s[n] = b
    BY DEF CellsOf
  <2>2. n # Len(s) => n + 1 \in 1 .. Len(s)
    BY <1>1
  <2> QED BY <1>1, <2>1, <2>2, ListsAssumption
<1>4. ASSUME NEW n \in 1 .. Len(w)
      PROVE  d[w[n]] # NULL /\ d[w[n]].next = IF n = Len(w) THEN NULL ELSE w[n + 1]
  <2>1. CASE n = Len(s) + 1
    BY <1>2, <2>1
  <2>2. CASE n = Len(s)
    <3>1. w[n] = b /\ w[n + 1] = a /\ n # Len(w)
      BY <1>1, <1>2, <1>3, <2>2
    <3> QED BY <3>1
  <2>3. CASE n # Len(s) + 1 /\ n # Len(s)
    <3>1. n \in 1 .. Len(s) /\ n + 1 \in 1 .. Len(s) /\ n # Len(w)
      BY <1>1, <1>2, <2>3
    <3>2. Len(s) \in 1 .. Len(s)
      BY <1>1, <1>3
    <3>3. s[n] # b
      BY <1>1, <1>3, <2>3, <3>1, <3>2 DEF Distinct
    <3>4. d[s[n]] = c[s[n]]
      BY <1>1, <3>1, <3>3
    <3> QED BY <1>1, <1>2, <2>3, <3>1, <3>4
  <2> QED BY <2>1, <2>2, <2>3
<1>5. q = IF Len(w) = 0 THEN NULL ELSE w[1]
  <2>1. 1 \in 1 .. Len(s) /\ q = s[1] /\ Len(w) # 0
    BY <1>1, <1>2, <1>3 DEF Linked
  <2> QED BY <1>2, <2>1
<1>6. Linked(d, w, q)
  BY <1>2, <1>4, <1>5 DEF Linked
<1> QED BY <1>6 DEF w

-----------------------------------------------------------------------------
\* A list backwards.
LEMMA ReverseFacts ==
  ASSUME NEW T, NEW s \in Seq(T)
  PROVE  /\ Reverse(s) \in Seq(T) /\ Len(Reverse(s)) = Len(s)
         /\ \A n \in 1 .. Len(s) : /\ Len(s) - n + 1 \in 1 .. Len(s)
                                   /\ Reverse(s)[n] = s[Len(s) - n + 1]
<1> DEFINE l == Len(s)
           r == [n \in 1 .. l |-> s[l - n + 1]]
<1>1. l \in Nat /\ \A n \in 1 .. l : l - n + 1 \in 1 .. l /\ s[l - n + 1] \in T
  OBVIOUS
<1> HIDE DEF l
<1>2. r \in [1 .. l -> T]
  BY <1>1
<1>3. r \in Seq(T) /\ Len(r) = l
  BY <1>1, <1>2, IsASeq, LenProperties
<1>4. Reverse(s) = r
  BY DEF Reverse, l
<1> QED BY <1>1, <1>3, <1>4 DEF l

\* The cells of a list backwards and those of another, when all are different.
LEMMA Joined ==
  ASSUME NEW s \in Seq(Addresses), NEW t \in Seq(Addresses)
  PROVE  /\ Reverse(s) \o t \in Seq(Addresses)
         /\ Len(Reverse(s) \o t) = Len(s) + Len(t)
         /\ CellsOf(Reverse(s) \o t) = CellsOf(s) \union CellsOf(t)
         /\ Distinct(Reverse(s) \o t) => CellsOf(s) \intersect CellsOf(t) = {}
         /\ Distinct(s) /\ Len(t) = 0 => Distinct(Reverse(s) \o t)
<1> DEFINE r == Reverse(s)
           w == r \o t
           l == Len(s)
<1>1. /\ r \in Seq(Addresses) /\ Len(r) = l /\ l \in Nat /\ Len(t) \in Nat /\ l = Len(s)
      /\ \A n \in 1 .. l : l - n + 1 \in 1 .. l /\ r[n] = s[l - n + 1]
  BY ReverseFacts
<1> HIDE DEF r, l
<1>2. /\ w \in Seq(Addresses) /\ Len(w) = l + Len(t)
      /\ \A n \in 1 .. l + Len(t) : w[n] = IF n <= l THEN r[n] ELSE t[n - l]
  <2>1. /\ r \o t \in Seq(Addresses) /\ Len(r \o t) = Len(r) + Len(t)
        /\ \A n \in 1 .. Len(r) + Len(t) :
             (r \o t)[n] = IF n <= Len(r) THEN r[n] ELSE t[n - Len(r)]
    BY <1>1, ConcatProperties
  <2> QED BY <1>1, <2>1
<1> HIDE DEF w
<1>3. \A m \in 1 .. l : /\ l - m + 1 \in 1 .. l + Len(t)
                        /\ w[l - m + 1] = s[m]
  <2> TAKE m \in 1 .. l
  <2>1. l - m + 1 \in 1 .. l /\ l - (l - m + 1) + 1 = m /\ m \in 1 .. l + Len(t)
    BY <1>1
  <2>2. l - m + 1 \in 1 .. l + Len(t) /\ l - m + 1 <= l
    BY <1>1, <2>1
  <2>3. w[l - m + 1] = r[l - m + 1]
    BY <1>2, <2>2
  <2>4. r[l - m + 1] = s[l - (l - m + 1) + 1]
    BY <1>1, <2>1
  <2> QED BY <2>1, <2>2, <2>3, <2>4
<1>4. \A m \in 1 .. Len(t) : l + m \in 1 .. l + Len(t) /\ w[l + m] = t[m]
  <2> TAKE m \in 1 .. Len(t)
  <2>1. l + m \in 1 .. l + Len(t) /\ ~(l + m <= l) /\ (l + m) - l = m
    BY <1>1
  <2> QED BY <1>2, <2>1
<1>5. CellsOf(w) = CellsOf(s) \union CellsOf(t)
  <2>1. ASSUME NEW n \in 1 .. Len(w)
        PROVE  (\E m \in 1 .. l : w[n] = s[m]) \/ \E m \in 1 .. Len(t) : w[n] = t[m]
    <3>1. CASE n <= l
      <4>1. n \in 1 .. l
        BY <1>1, <3>1
      <4> QED BY <1>1, <1>2, <2>1, <3>1, <4>1
    <3>2. CASE ~(n <= l)
      <4>1. n - l \in 1 .. Len(t)
        BY <1>1, <1>2, <3>2
      <4> QED BY <1>2, <2>1, <3>2, <4>1
    <3> QED BY <3>1, <3>2
  <2>2. CellsOf(w) \subseteq CellsOf(s) \union CellsOf(t)
    BY <1>1, <2>1 DEF CellsOf
  <2>3. CellsOf(s) \subseteq CellsOf(w)
    <3>1. \A m \in 1 .. Len(s) : \E n \in 1 .. Len(w) : s[m] = w[n]
      BY <1>1, <1>2, <1>3
    <3> QED BY <3>1 DEF CellsOf
  <2>4. CellsOf(t) \subseteq CellsOf(w)
    <3>1. \A m \in 1 .. Len(t) : \E n \in 1 .. Len(w) : t[m] = w[n]
      BY <1>2, <1>4
    <3> QED BY <3>1 DEF CellsOf
  <2> QED BY <2>2, <2>3, <2>4
<1>6. ASSUME Distinct(w), NEW x \in CellsOf(s), x \in CellsOf(t)
      PROVE  FALSE
  <2>1. PICK m \in 1 .. l : x = s[m]
    BY <1>1 DEF CellsOf
  <2>2. PICK k \in 1 .. Len(t) : x = t[k]
    BY <1>6 DEF CellsOf
  <2>3. /\ l - m + 1 \in 1 .. Len(w) /\ w[l - m + 1] = x
        /\ l + k \in 1 .. Len(w) /\ w[l + k] = x
    BY <1>2, <1>3, <1>4, <2>1, <2>2
  <2>4. l - m + 1 = l + k
    BY <1>6, <2>3 DEF Distinct
  <2> QED BY <1>1, <2>1, <2>2, <2>4
<1>7. ASSUME Distinct(s), Len(t) = 0, NEW m \in 1 .. Len(w), NEW n \in 1 .. Len(w), w[m] = w[n]
      PROVE  m = n
  <2>1. m \in 1 .. l /\ n \in 1 .. l /\ w[m] = r[m] /\ w[n] = r[n]
    BY <1>1, <1>2, <1>7
  <2>2. /\ l - m + 1 \in 1 .. Len(s) /\ l - n + 1 \in 1 .. Len(s)
        /\ s[l - m + 1] = s[l - n + 1]
    BY <1>1, <1>7, <2>1
  <2>3. l - m + 1 = l - n + 1
    BY <1>7, <2>2 DEF Distinct
  <2> QED BY <1>1, <2>1, <2>3
<1>8. Distinct(s) /\ Len(t) = 0 => Distinct(w)
  BY <1>7 DEF Distinct
<1>9. Distinct(w) => CellsOf(s) \intersect CellsOf(t) = {}
  BY <1>6
<1> QED BY <1>1, <1>2, <1>5, <1>8, <1>9 DEF w, r

\* Turning one cell leaves the order of all cells as it is.
LEMMA Turning ==
  ASSUME NEW s \in Seq(Addresses), NEW t \in Seq(Addresses), Len(s) # 0
  PROVE  Reverse(s) \o t = Reverse(Tail(s)) \o (<<s[1]>> \o t)
<1> DEFINE l == Len(s)
           u == Tail(s)
           v == <<s[1]>> \o t
           r == Reverse(s)
           q == Reverse(u)
<1>1. /\ l \in Nat \ {0} /\ u \in Seq(Addresses) /\ Len(u) = l - 1 /\ s[1] \in Addresses
      /\ \A n \in 1 .. l - 1 : u[n] = s[n + 1]
  BY Beheaded
<1> HIDE DEF u
<1>2. /\ v \in Seq(Addresses) /\ Len(v) = Len(t) + 1 /\ Len(t) \in Nat /\ v[1] = s[1]
      /\ \A n \in 1 .. Len(t) : v[n + 1] = t[n]
  BY <1>1, Consed
<1>3. r \in Seq(Addresses) /\ Len(r) = l /\ \A n \in 1 .. l : r[n] = s[l - n + 1]
  BY ReverseFacts
<1>4. /\ q \in Seq(Addresses) /\ Len(q) = l - 1
      /\ \A n \in 1 .. l - 1 : l - 1 - n + 1 \in 1 .. l - 1 /\ q[n] = u[l - 1 - n + 1]
  <2>1. /\ q \in Seq(Addresses) /\ Len(q) = Len(u)
        /\ \A n \in 1 .. Len(u) : Len(u) - n + 1 \in 1 .. Len(u) /\ q[n] = u[Len(u) - n + 1]
    BY <1>1, ReverseFacts
  <2> QED BY <1>1, <2>1
<1> HIDE DEF v, r, q, l
<1>5. /\ r \o t \in Seq(Addresses) /\ Len(r \o t) = l + Len(t)
      /\ \A n \in 1 .. l + Len(t) : (r \o t)[n] = IF n <= l THEN r[n] ELSE t[n - l]
  <2>1. /\ r \o t \in Seq(Addresses) /\ Len(r \o t) = Len(r) + Len(t)
        /\ \A n \in 1 .. Len(r) + Len(t) :
             (r \o t)[n] = IF n <= Len(r) THEN r[n] ELSE t[n - Len(r)]
    BY <1>3, ConcatProperties
  <2> QED BY <1>3, <2>1
<1>6. /\ q \o v \in Seq(Addresses) /\ Len(q \o v) = l - 1 + (Len(t) + 1)
      /\ \A n \in 1 .. l - 1 + (Len(t) + 1) :
           (q \o v)[n] = IF n <= l - 1 THEN q[n] ELSE v[n - (l - 1)]
  <2>0. q \in Seq(Addresses) /\ v \in Seq(Addresses)
    BY <1>2, <1>4
  <2>1. /\ q \o v \in Seq(Addresses) /\ Len(q \o v) = Len(q) + Len(v)
        /\ \A n \in 1 .. Len(q) + Len(v) :
             (q \o v)[n] = IF n <= Len(q) THEN q[n] ELSE v[n - Len(q)]
    BY <2>0, ConcatProperties
  <2> QED BY <1>2, <1>4, <2>1
<1>7. l - 1 + (Len(t) + 1) = l + Len(t)
  BY <1>1, <1>2
<1>8. ASSUME NEW n \in 1 .. l + Len(t) PROVE (r \o t)[n] = (q \o v)[n]
  <2>1. CASE n <= l - 1
    <3>1. n \in 1 .. l - 1 /\ n <= l /\ n \in 1 .. l /\ (l - 1 - n + 1) + 1 = l - n + 1
      BY <1>1, <2>1
    <3>2. (r \o t)[n] = s[l - n + 1]
      BY <1>3, <1>5, <3>1
    <3>3. (q \o v)[n] = u[l - 1 - n + 1] /\ l - 1 - n + 1 \in 1 .. l - 1
      BY <1>4, <1>6, <1>7, <2>1, <3>1
    <3>4. u[l - 1 - n + 1] = s[l - n + 1]
      BY <1>1, <3>1, <3>3
    <3> QED BY <3>2, <3>3, <3>4
  <2>2. CASE n = l
    <3>1. n <= l /\ ~(n <= l - 1) /\ n - (l - 1) = 1 /\ l - n + 1 = 1 /\ n \in 1 .. l
      BY <1>1, <2>2
    <3>2. (r \o t)[n] = s[1]
      BY <1>3, <1>5, <3>1
    <3>3. (q \o v)[n] = s[1]
      BY <1>2, <1>6, <1>7, <3>1
    <3> QED BY <3>2, <3>3
  <2>3. CASE n > l
    <3>1. /\ ~(n <= l) /\ ~(n <= l - 1) /\ n - l \in 1 .. Len(t)
          /\ n - (l - 1) = (n - l) + 1
      BY <1>1, <1>2, <2>3
    <3>2. (r \o t)[n] = t[n - l]
      BY <1>5, <3>1
    <3>3. (q \o v)[n] = v[(n - l) + 1]
      BY <1>6, <1>7, <3>1
    <3>4. v[(n - l) + 1] = t[n - l]
      BY <1>2, <3>1
    <3> QED BY <3>2, <3>3, <3>4
  <2>4. n \in Int /\ l \in Int
    BY <1>1, <1>2
  <2>5. n <= l - 1 \/ n = l \/ n > l
    BY <2>4
  <2> QED BY <2>1, <2>2, <2>3, <2>5
<1>9. r \o t = q \o v
  BY <1>5, <1>6, <1>7, <1>8, SeqEqual
<1> QED BY <1>9 DEF r, q, v, u

\* Backwards, a list carries the values backwards.
LEMMA CarriedBack ==
  ASSUME NEW c, NEW s \in Seq(Addresses), NEW v \in Seq(Values), Carries(c, s, v)
  PROVE  Carries(c, Reverse(s) \o <<>>, Reverse(v))
<1>1. /\ Reverse(s) \in Seq(Addresses) /\ Len(Reverse(s)) = Len(s)
      /\ \A n \in 1 .. Len(s) : /\ Len(s) - n + 1 \in 1 .. Len(s)
                                /\ Reverse(s)[n] = s[Len(s) - n + 1]
  BY ReverseFacts
<1>2. /\ Reverse(v) \in Seq(Values) /\ Len(Reverse(v)) = Len(v)
      /\ \A n \in 1 .. Len(v) : Reverse(v)[n] = v[Len(v) - n + 1]
  BY ReverseFacts
<1>3. Reverse(s) \o <<>> = Reverse(s)
  BY <1>1
<1>4. Len(v) = Len(s) /\ \A n \in 1 .. Len(s) : c[s[n]].value = v[n]
  BY DEF Carries
<1>5. \A n \in 1 .. Len(s) : c[Reverse(s)[n]].value = Reverse(v)[n]
  <2> SUFFICES ASSUME NEW n \in 1 .. Len(s) PROVE c[Reverse(s)[n]].value = Reverse(v)[n]
    OBVIOUS
  <2>1. Len(s) - n + 1 \in 1 .. Len(s) /\ Reverse(s)[n] = s[Len(s) - n + 1]
    BY <1>1
  <2>2. Reverse(v)[n] = v[Len(s) - n + 1]
    BY <1>2, <1>4
  <2> QED BY <1>4, <2>1, <2>2
<1> QED BY <1>1, <1>2, <1>3, <1>4, <1>5 DEF Carries

-----------------------------------------------------------------------------
\* In heap d cell b has another next cell than in c.
Relinks(c, d, b, x) ==
  /\ c \in Heap /\ b \in Addresses /\ c[b] # NULL /\ x \in Addresses \union {NULL}
  /\ d = [c EXCEPT ![b].next = x]

\* In heap d cell b has been allocated, in c the cells of s are and carry v.
Allocates(c, d, b, u, x, s, v) ==
  /\ c \in Heap /\ b \in Addresses /\ c[b] = NULL
  /\ u \in Values /\ x \in Addresses \union {NULL}
  /\ d = [c EXCEPT ![b] = cell(u, x)]
  /\ v \in Seq(Values) /\ Covers(c, s) /\ Carries(c, s, v)

\* So there is one more cell, and the others are what they were.
Adds(c, d, b, u, x, s, v) ==
  /\ d \in Heap
  /\ d[b] # NULL /\ d[b].next = x /\ b \notin CellsOf(s)
  /\ \A a \in CellsOf(s) : d[a] = c[a]
  /\ Covers(d, <<b>> \o s) /\ Carries(d, <<b>> \o s, <<u>> \o v)
  /\ Covers(d, s \o <<b>>) /\ Carries(d, s \o <<b>>, v \o <<u>>)

\* When one cell is given another next cell, the same cells are allocated with
\* the same values.
LEMMA Relinked ==
  ASSUME NEW c, NEW d, NEW b, NEW x, Relinks(c, d, b, x)
  PROVE  /\ d \in Heap
         /\ d[b] # NULL /\ d[b].next = x
         /\ \A a \in Addresses : a # b => d[a] = c[a]
         /\ \A w : Covers(c, w) => Covers(d, w)
         /\ \A w, v : Covers(c, w) /\ Carries(c, w, v) => Carries(d, w, v)
<1>1. /\ c[b] \in Cell /\ c \in [Addresses -> Cell \union {NULL}]
      /\ b \in Addresses /\ c[b] # NULL /\ x \in Addresses \union {NULL}
  BY CellFacts DEF Heap, Relinks
<1>2. [c[b] EXCEPT !.next = x] \in Cell
  BY <1>1 DEF Cell
<1>3. /\ d[b] = [c[b] EXCEPT !.next = x] /\ d \in Heap
      /\ \A a \in Addresses : a # b => d[a] = c[a]
  <2>1. d = [c EXCEPT ![b].next = x]
    BY DEF Relinks
  <2> QED BY <1>1, <1>2, <2>1 DEF Heap
<1>4. d[b] # NULL /\ d[b].next = x /\ d[b].value = c[b].value
  BY <1>1, <1>2, <1>3, ListsAssumption DEF Cell
<1>5. \A a \in Addresses : (d[a] # NULL <=> c[a] # NULL) /\ (c[a] # NULL => d[a].value = c[a].value)
  BY <1>1, <1>3, <1>4
<1>6. ASSUME NEW w, Covers(c, w) PROVE Covers(d, w)
  BY <1>5, <1>6 DEF Covers
<1>7. ASSUME NEW w, NEW v, Covers(c, w), Carries(c, w, v) PROVE Carries(d, w, v)
  <2>1. \A n \in 1 .. Len(w) : w[n] \in Addresses /\ c[w[n]] # NULL
    BY <1>7 DEF Covers, CellsOf
  <2> QED BY <1>5, <1>7, <2>1 DEF Carries
<1> QED BY <1>3, <1>4, <1>6, <1>7

\* When one cell is allocated, it is one more to cover, and the others carry
\* what they did.
LEMMA Grown ==
  ASSUME NEW c, NEW d, NEW b, NEW u, NEW x, NEW s, NEW v, Allocates(c, d, b, u, x, s, v)
  PROVE  Adds(c, d, b, u, x, s, v)
<1>0. /\ c \in Heap /\ b \in Addresses /\ c[b] = NULL
      /\ u \in Values /\ x \in Addresses \union {NULL}
      /\ d = [c EXCEPT ![b] = cell(u, x)]
      /\ v \in Seq(Values) /\ Covers(c, s) /\ Carries(c, s, v)
  BY DEF Allocates
<1>1. /\ d[b] = cell(u, x) /\ d \in Heap /\ d[b] # NULL /\ d[b].next = x /\ d[b].value = u
      /\ \A a \in Addresses : a # b => d[a] = c[a]
  <2>1. cell(u, x) \in Cell
    BY <1>0, CellFacts
  <2>2. c \in [Addresses -> Cell \union {NULL}]
    BY <1>0 DEF Heap
  <2>3. d[b] = cell(u, x) /\ d \in Heap /\ \A a \in Addresses : a # b => d[a] = c[a]
    BY <1>0, <2>1, <2>2 DEF Heap
  <2> QED BY <1>0, <2>3, CellFacts
<1>2. /\ s \in Seq(Addresses) /\ Distinct(s) /\ Len(s) \in Nat
      /\ CellsOf(s) = {a \in Addresses : c[a] # NULL} /\ b \notin CellsOf(s)
  BY <1>0 DEF Covers
<1>3. {a \in Addresses : d[a] # NULL} = CellsOf(s) \union {b}
  BY <1>0, <1>1, <1>2
<1>4. \A n \in 1 .. Len(s) : s[n] \in CellsOf(s) /\ d[s[n]].value = v[n]
  <2>1. \A n \in 1 .. Len(s) : s[n] \in CellsOf(s)
    BY DEF CellsOf
  <2> QED BY <1>0, <1>1, <1>2, <2>1 DEF Carries
<1>5. Len(v) = Len(s)
  BY <1>0 DEF Carries
<1>6. Covers(d, <<b>> \o s) /\ Carries(d, <<b>> \o s, <<u>> \o v)
  <2> DEFINE w == <<b>> \o s
             y == <<u>> \o v
  <2>1. /\ w \in Seq(Addresses) /\ Distinct(w) /\ CellsOf(w) = {b} \union CellsOf(s)
        /\ Len(w) = Len(s) + 1 /\ w[1] = b /\ \A n \in 1 .. Len(s) : w[n + 1] = s[n]
    BY <1>0, <1>2, Consed
  <2>2. /\ Len(y) = Len(v) + 1 /\ y[1] = u /\ \A n \in 1 .. Len(v) : y[n + 1] = v[n]
    BY <1>0, Consed
  <2> HIDE DEF w, y
  <2>3. ASSUME NEW n \in 1 .. Len(w) PROVE d[w[n]].value = y[n]
    <3>1. CASE n = 1
      BY <1>1, <2>1, <2>2, <3>1
    <3>2. CASE n # 1
      <4>1. n - 1 \in 1 .. Len(s) /\ (n - 1) + 1 = n
        BY <1>2, <2>1, <3>2
      <4>2. w[n] = s[n - 1] /\ y[n] = v[n - 1]
        BY <1>5, <2>1, <2>2, <4>1
      <4> QED BY <1>4, <4>1, <4>2
    <3> QED BY <3>1, <3>2
  <2>4. Covers(d, w)
    BY <1>3, <2>1 DEF Covers
  <2>5. Carries(d, w, y)
    BY <1>5, <2>1, <2>2, <2>3 DEF Carries
  <2> QED BY <2>4, <2>5 DEF w, y
<1>7. Covers(d, s \o <<b>>) /\ Carries(d, s \o <<b>>, v \o <<u>>)
  <2> DEFINE w == s \o <<b>>
             y == v \o <<u>>
  <2>1. /\ w \in Seq(Addresses) /\ Distinct(w) /\ CellsOf(w) = CellsOf(s) \union {b}
        /\ Len(w) = Len(s) + 1 /\ w[Len(s) + 1] = b /\ \A n \in 1 .. Len(s) : w[n] = s[n]
    BY <1>0, <1>2, Snoced
  <2>2. /\ Len(y) = Len(v) + 1 /\ y[Len(v) + 1] = u /\ \A n \in 1 .. Len(v) : y[n] = v[n]
    BY <1>0, Snoced
  <2> HIDE DEF w, y
  <2>3. ASSUME NEW n \in 1 .. Len(w) PROVE d[w[n]].value = y[n]
    <3>1. CASE n = Len(s) + 1
      BY <1>1, <1>5, <2>1, <2>2, <3>1
    <3>2. CASE n # Len(s) + 1
      <4>1. n \in 1 .. Len(s)
        BY <1>2, <2>1, <3>2
      <4> QED BY <1>4, <1>5, <2>1, <2>2, <4>1
    <3> QED BY <3>1, <3>2
  <2>4. Covers(d, w)
    BY <1>3, <2>1 DEF Covers
  <2>5. Carries(d, w, y)
    BY <1>5, <2>1, <2>2, <2>3 DEF Carries
  <2> QED BY <2>4, <2>5 DEF w, y
<1> QED BY <1>1, <1>2, <1>6, <1>7 DEF Adds

-----------------------------------------------------------------------------
(* The steps *)

\* A list begins with NULL only when it is empty.
LEMMA EmptyList ==
  ASSUME NEW c, NEW s, NEW q, Linked(c, s, q)
  PROVE  /\ s \in Seq(Addresses) /\ (q = NULL <=> s = <<>>)
         /\ q # NULL => q \in CellsOf(s)
<1>1. /\ s \in Seq(Addresses) /\ Len(s) \in Nat /\ (Len(s) = 0 <=> s = <<>>)
      /\ q = IF Len(s) = 0 THEN NULL ELSE s[1]
  BY DEF Linked
<1>2. Len(s) # 0 => 1 \in 1 .. Len(s) /\ s[1] \in Addresses
  BY <1>1
<1>3. Len(s) # 0 => s[1] \in CellsOf(s)
  BY <1>2 DEF CellsOf
<1> QED BY <1>1, <1>2, <1>3, ListsAssumption

\* A list with one more in front is what prepend has been asked for.
LEMMA PrependStep ==
  ASSUME ListInv, NEW v \in Values, prepend(v)
  PROVE  ListInv'
<1>1. PICK a \in Addresses \ Allocated : cells' = [cells EXCEPT ![a] = cell(v, list)] /\ list' = a
  BY DEF prepend
<1>2. pc = "idle" /\ pc' = pc /\ contents' = <<v>> \o contents /\ cells \in Heap
      /\ contents \in Seq(Values)
  BY DEF prepend, ListInv
<1>3. PICK s \in Seq(Addresses) :
        Linked(cells, s, list) /\ Covers(cells, s) /\ Carries(cells, s, contents)
  BY <1>2 DEF ListInv, AtRest
<1>4. list \in Addresses \union {NULL} /\ a \in Addresses /\ cells[a] = NULL
  <2>1. CellsOf(s) \subseteq Addresses
    BY <1>3 DEF Covers
  <2> QED BY <1>3, <2>1, EmptyList DEF Allocated
<1>5. /\ cells' \in Heap /\ cells'[a] # NULL /\ cells'[a].next = list /\ a \notin CellsOf(s)
      /\ \A b \in CellsOf(s) : cells'[b] = cells[b]
      /\ Covers(cells', <<a>> \o s) /\ Carries(cells', <<a>> \o s, contents')
  <2>1. Allocates(cells, cells', a, v, list, s, contents)
    BY <1>1, <1>2, <1>3, <1>4 DEF Allocates
  <2>2. Adds(cells, cells', a, v, list, s, contents)
    BY <2>1, Grown
  <2> QED BY <1>2, <2>2 DEF Adds
<1>6. Linked(cells', s, list)
  BY <1>3, <1>5, Framed
<1>7. Linked(cells', <<a>> \o s, a)
  BY <1>4, <1>5, <1>6, LinkedCons
<1>8. <<a>> \o s \in Seq(Addresses)
  BY <1>5 DEF Covers
<1>9. AtRest'
  BY <1>1, <1>5, <1>7, <1>8 DEF AtRest
<1>10. contents' \in Seq(Values)
  BY <1>2
<1> QED BY <1>2, <1>5, <1>9, <1>10 DEF ListInv

\* append makes the new cell the list, or sets out for the end of the list.
LEMMA AppendStep ==
  ASSUME ListInv, NEW v \in Values, append(v)
  PROVE  ListInv'
<1>1. PICK a \in Addresses \ Allocated :
        /\ cells' = [cells EXCEPT ![a] = cell(v, NULL)]
        /\ IF list = NULL
             THEN list' = a /\ pc' = pc
             ELSE newelt' = a /\ p' = list /\ pc' = "append" /\ list' = list
  BY DEF append
<1>2. pc = "idle" /\ contents' = contents \o <<v>> /\ cells \in Heap
      /\ contents \in Seq(Values)
  BY DEF append, ListInv
<1>3. PICK s \in Seq(Addresses) :
        Linked(cells, s, list) /\ Covers(cells, s) /\ Carries(cells, s, contents)
  BY <1>2 DEF ListInv, AtRest
<1>4. a \in Addresses /\ cells[a] = NULL
  BY DEF Allocated
<1>5. /\ cells' \in Heap /\ cells'[a] # NULL /\ cells'[a].next = NULL /\ a \notin CellsOf(s)
      /\ \A b \in CellsOf(s) : cells'[b] = cells[b]
      /\ Covers(cells', <<a>> \o s)
      /\ Covers(cells', s \o <<a>>) /\ Carries(cells', s \o <<a>>, contents')
  <2>1. Allocates(cells, cells', a, v, NULL, s, contents)
    BY <1>1, <1>2, <1>3, <1>4 DEF Allocates
  <2>2. Adds(cells, cells', a, v, NULL, s, contents)
    BY <2>1, Grown
  <2> QED BY <1>2, <2>2 DEF Adds
<1>6. Linked(cells', s, list)
  BY <1>3, <1>5, Framed
<1>7. contents' \in Seq(Values)
  BY <1>2
<1>8. CASE list = NULL
  <2>1. s = <<>>
    BY <1>3, <1>8, EmptyList
  <2>2. Linked(cells', <<a>> \o s, a)
    BY <1>4, <1>5, <1>6, <1>8, LinkedCons
  <2>3. <<a>> \o s = <<a>> /\ s \o <<a>> = <<a>> /\ <<a>> \in Seq(Addresses)
    BY <1>4, <2>1
  <2>4. AtRest'
    BY <1>1, <1>5, <1>8, <2>2, <2>3 DEF AtRest
  <2> QED BY <1>1, <1>2, <1>5, <1>7, <1>8, <2>4 DEF ListInv
<1>9. CASE list # NULL
  <2>1. list \in CellsOf(s)
    BY <1>3, <1>9, EmptyList
  <2>2. Appending'
    BY <1>1, <1>3, <1>4, <1>5, <1>6, <1>9, <2>1 DEF Appending
  <2> QED BY <1>1, <1>5, <1>7, <1>9, <2>2 DEF ListInv
<1> QED BY <1>8, <1>9

\* append walks along the list and stays on it.
LEMMA WalkStep ==
  ASSUME ListInv, Walk
  PROVE  ListInv'
<1>1. /\ pc = "append" /\ cells[p].next # NULL /\ p' = cells[p].next
      /\ UNCHANGED <<cells, list, pc, newelt, contents>>
  BY DEF Walk
<1>2. PICK s \in Seq(Addresses) :
        /\ Linked(cells, s, list) /\ p \in CellsOf(s)
        /\ newelt \in Addresses /\ cells[newelt].next = NULL
        /\ Covers(cells, s \o <<newelt>>) /\ Carries(cells, s \o <<newelt>>, contents)
  BY <1>1 DEF ListInv, Appending
<1>3. p' \in CellsOf(s)
  <2>1. PICK n \in 1 .. Len(s) : s[n] = p
    BY <1>2 DEF CellsOf
  <2>2. n # Len(s) /\ p' = s[n + 1]
    BY <1>1, <1>2, <2>1 DEF Linked
  <2>3. n + 1 \in 1 .. Len(s)
    BY <2>2
  <2> QED BY <2>2, <2>3 DEF CellsOf
<1>4. Appending'
  BY <1>1, <1>2, <1>3 DEF Appending
<1> QED BY <1>1, <1>4 DEF ListInv

\* The new cell is linked to the last cell of the list.
LEMMA LinkStep ==
  ASSUME ListInv, Link
  PROVE  ListInv'
<1>1. /\ pc = "append" /\ cells[p].next = NULL
      /\ cells' = [cells EXCEPT ![p].next = newelt] /\ pc' = "idle"
      /\ UNCHANGED <<list, contents>>
  BY DEF Link
<1>2. PICK s \in Seq(Addresses) :
        /\ Linked(cells, s, list) /\ p \in CellsOf(s)
        /\ newelt \in Addresses /\ cells[newelt].next = NULL
        /\ Covers(cells, s \o <<newelt>>) /\ Carries(cells, s \o <<newelt>>, contents)
  BY <1>1 DEF ListInv, Appending
<1>3. /\ cells \in Heap /\ p \in Addresses /\ cells[p] # NULL /\ newelt # p
      /\ newelt \notin CellsOf(s) /\ cells[newelt] # NULL /\ CellsOf(s) \subseteq Addresses
  <2>1. CellsOf(s \o <<newelt>>) = CellsOf(s) \union {newelt}
    BY <1>2, Snoced
  <2>2. Len(s \o <<newelt>>) = Len(s) + 1 /\ Len(s) \in Nat
        /\ (s \o <<newelt>>)[Len(s) + 1] = newelt
        /\ \A n \in 1 .. Len(s) : (s \o <<newelt>>)[n] = s[n]
    BY <1>2, Snoced
  <2>3. ASSUME newelt \in CellsOf(s) PROVE FALSE
    <3>1. PICK n \in 1 .. Len(s) : s[n] = newelt
      BY <2>3 DEF CellsOf
    <3>2. /\ Len(s) + 1 \in 1 .. Len(s \o <<newelt>>) /\ n \in 1 .. Len(s \o <<newelt>>)
          /\ n # Len(s) + 1
      BY <2>2
    <3> QED BY <1>2, <2>2, <3>1, <3>2 DEF Covers, Distinct
  <2>4. \A a \in CellsOf(s) \union {newelt} : a \in Addresses /\ cells[a] # NULL
    BY <1>2, <2>1 DEF Covers
  <2> QED BY <1>2, <2>3, <2>4 DEF ListInv
<1>4. /\ cells' \in Heap /\ cells'[p] # NULL /\ cells'[p].next = newelt
      /\ \A a \in Addresses : a # p => cells'[a] = cells[a]
      /\ Covers(cells', s \o <<newelt>>) /\ Carries(cells', s \o <<newelt>>, contents)
  <2>1. /\ Relinks(cells, cells', p, newelt)
        /\ Covers(cells, s \o <<newelt>>) /\ Carries(cells, s \o <<newelt>>, contents)
    BY <1>1, <1>2, <1>3 DEF Relinks
  <2> QED BY <2>1, Relinked
<1>5. Linked(cells', s \o <<newelt>>, list)
  <2>1. cells'[newelt] # NULL /\ cells'[newelt].next = NULL
    BY <1>2, <1>3, <1>4
  <2>2. \A a \in CellsOf(s) \ {p} : cells'[a] = cells[a]
    BY <1>3, <1>4
  <2> QED BY <1>1, <1>2, <1>3, <1>4, <2>1, <2>2, LinkedSnoc
<1>6. s \o <<newelt>> \in Seq(Addresses)
  BY <1>4 DEF Covers
<1>7. AtRest'
  BY <1>1, <1>4, <1>5, <1>6 DEF AtRest
<1> QED BY <1>1, <1>4, <1>7 DEF ListInv

\* reverse begins with nothing turned and all left to turn.
LEMMA ReverseStep ==
  ASSUME ListInv, reverse
  PROVE  ListInv'
<1>1. /\ pc = "idle" /\ pc' = "reverse" /\ new_list' = NULL /\ curr_ptr' = list
      /\ contents' = Reverse(contents) /\ cells' = cells
      /\ cells \in Heap /\ contents \in Seq(Values)
  BY DEF reverse, ListInv
<1>2. PICK s \in Seq(Addresses) :
        Linked(cells, s, list) /\ Covers(cells, s) /\ Carries(cells, s, contents)
  BY <1>1 DEF ListInv, AtRest
<1>3. <<>> \in Seq(Addresses) /\ Len(<<>>) = 0 /\ CellsOf(<<>>) = {}
  BY DEF CellsOf
<1>4. Linked(cells, <<>>, NULL)
  BY <1>3 DEF Linked, Distinct
<1>5. Covers(cells, Reverse(s) \o <<>>)
  <2>1. Distinct(s) /\ CellsOf(s) = {a \in Addresses : cells[a] # NULL}
    BY <1>2 DEF Covers
  <2>2. /\ Reverse(s) \o <<>> \in Seq(Addresses) /\ Distinct(Reverse(s) \o <<>>)
        /\ CellsOf(Reverse(s) \o <<>>) = CellsOf(s) \union CellsOf(<<>>)
    BY <1>3, <2>1, Joined
  <2> QED BY <1>3, <2>1, <2>2 DEF Covers
<1>6. Carries(cells, Reverse(s) \o <<>>, contents')
  BY <1>1, <1>2, CarriedBack
<1>7. Reversing'
  BY <1>1, <1>2, <1>3, <1>4, <1>5, <1>6 DEF Reversing
<1>8. contents' \in Seq(Values)
  BY <1>1, ReverseFacts
<1> QED BY <1>1, <1>7, <1>8 DEF ListInv

\* Turning a cell moves it from what is left to what is done.
LEMMA TurnStep ==
  ASSUME ListInv, Turn
  PROVE  ListInv'
<1>1. /\ pc = "reverse" /\ curr_ptr # NULL /\ curr_ptr' = cells[curr_ptr].next
      /\ cells' = [cells EXCEPT ![curr_ptr].next = new_list] /\ new_list' = curr_ptr
      /\ UNCHANGED <<pc, contents>> /\ cells \in Heap
  BY DEF Turn, ListInv
<1>2. PICK s \in Seq(Addresses), t \in Seq(Addresses) :
        /\ Linked(cells, s, curr_ptr) /\ Linked(cells, t, new_list)
        /\ Covers(cells, Reverse(s) \o t) /\ Carries(cells, Reverse(s) \o t, contents)
  BY <1>1 DEF ListInv, Reversing
<1>3. /\ Len(s) # 0 /\ curr_ptr = s[1] /\ curr_ptr \in Addresses /\ cells[curr_ptr] # NULL
      /\ Linked(cells, Tail(s), cells[curr_ptr].next)
  BY <1>1, <1>2, LinkedTail
<1>4. /\ curr_ptr \notin CellsOf(Tail(s)) /\ curr_ptr \notin CellsOf(t)
      /\ CellsOf(Tail(s)) \subseteq Addresses /\ CellsOf(t) \subseteq Addresses
  <2>1. CellsOf(s) = {curr_ptr} \union CellsOf(Tail(s)) /\ curr_ptr \notin CellsOf(Tail(s))
    <3>1. Distinct(s)
      BY <1>2 DEF Linked
    <3> QED BY <1>3, <3>1, Beheaded
  <2>2. Distinct(Reverse(s) \o t) /\ CellsOf(Reverse(s) \o t) \subseteq Addresses
    BY <1>2 DEF Covers
  <2>3. CellsOf(s) \intersect CellsOf(t) = {} /\ CellsOf(s) \union CellsOf(t) \subseteq Addresses
    BY <2>2, Joined
  <2> QED BY <2>1, <2>3
<1>5. new_list \in Addresses \union {NULL}
  BY <1>2, <1>4, EmptyList
<1>6. /\ cells' \in Heap /\ cells'[curr_ptr] # NULL /\ cells'[curr_ptr].next = new_list
      /\ \A a \in Addresses : a # curr_ptr => cells'[a] = cells[a]
      /\ Covers(cells', Reverse(s) \o t) /\ Carries(cells', Reverse(s) \o t, contents)
  <2>1. Relinks(cells, cells', curr_ptr, new_list)
    BY <1>1, <1>3, <1>5 DEF Relinks
  <2> DEFINE w == Reverse(s) \o t
  <2>2. Covers(cells, w) /\ Carries(cells, w, contents)
    BY <1>2
  <2> HIDE DEF w
  <2>3. /\ cells' \in Heap /\ cells'[curr_ptr] # NULL /\ cells'[curr_ptr].next = new_list
        /\ \A a \in Addresses : a # curr_ptr => cells'[a] = cells[a]
    BY <2>1, Relinked
  <2>4. Covers(cells', w) /\ Carries(cells', w, contents)
    BY <2>1, <2>2, Relinked
  <2> QED BY <2>3, <2>4 DEF w
<1>7. Linked(cells', Tail(s), curr_ptr')
  <2>1. \A a \in CellsOf(Tail(s)) : cells'[a] = cells[a]
    BY <1>4, <1>6
  <2> QED BY <1>1, <1>3, <2>1, Framed
<1>8. Linked(cells', <<curr_ptr>> \o t, new_list')
  <2>1. \A a \in CellsOf(t) : cells'[a] = cells[a]
    BY <1>4, <1>6
  <2>2. Linked(cells', t, new_list)
    BY <1>2, <2>1, Framed
  <2> QED BY <1>1, <1>3, <1>4, <1>6, <2>2, LinkedCons
<1>9. Reverse(s) \o t = Reverse(Tail(s)) \o (<<curr_ptr>> \o t)
  BY <1>3, Turning
<1>10. Tail(s) \in Seq(Addresses) /\ <<curr_ptr>> \o t \in Seq(Addresses)
  BY <1>7, <1>8 DEF Linked
<1>11. Reversing'
  BY <1>1, <1>6, <1>7, <1>8, <1>9, <1>10 DEF Reversing
<1> QED BY <1>1, <1>6, <1>11 DEF ListInv

\* When nothing is left, what is done is the list.
LEMMA TurnedStep ==
  ASSUME ListInv, Turned
  PROVE  ListInv'
<1>1. /\ pc = "reverse" /\ curr_ptr = NULL /\ list' = new_list /\ pc' = "idle"
      /\ UNCHANGED <<cells, contents>>
  BY DEF Turned
<1>2. PICK s \in Seq(Addresses), t \in Seq(Addresses) :
        /\ Linked(cells, s, curr_ptr) /\ Linked(cells, t, new_list)
        /\ Covers(cells, Reverse(s) \o t) /\ Carries(cells, Reverse(s) \o t, contents)
  BY <1>1 DEF ListInv, Reversing
<1>3. s = <<>>
  BY <1>1, <1>2, EmptyList
<1>4. Reverse(s) \o t = t
  <2>1. Reverse(s) \in Seq(Addresses) /\ Len(Reverse(s)) = 0
    BY <1>3, ReverseFacts
  <2>2. Reverse(s) = <<>>
    BY <2>1
  <2> QED BY <2>2
<1>5. AtRest'
  BY <1>1, <1>2, <1>4 DEF AtRest
<1> QED BY <1>1, <1>5 DEF ListInv

\* makeempty frees the first cell of what is left until nothing is.
LEMMA EmptyingSteps ==
  ASSUME ListInv, makeempty \/ FreeNext \/ AllFreed
  PROVE  ListInv'
<1>0. cells \in Heap /\ contents \in Seq(Values) /\ <<>> \in Seq(Values)
  BY DEF ListInv
<1>1. CASE makeempty
  <2>1. /\ pc = "idle" /\ pc' = "makeempty" /\ next_one' = list /\ contents' = <<>>
        /\ cells' = cells
    BY <1>1 DEF makeempty
  <2>2. AtRest
    BY <2>1 DEF ListInv
  <2>3. Emptying'
    BY <2>1, <2>2 DEF AtRest, Emptying
  <2> QED BY <1>0, <2>1, <2>3 DEF ListInv
<1>2. CASE FreeNext
  <2>1. /\ pc = "makeempty" /\ next_one # NULL /\ next_one' = cells[next_one].next
        /\ cells' = [cells EXCEPT ![next_one] = NULL] /\ UNCHANGED <<pc, contents>>
    BY <1>2 DEF FreeNext
  <2>2. /\ contents = <<>>
        /\ \E x \in Seq(Addresses) : Linked(cells, x, next_one) /\ Covers(cells, x)
    BY <2>1 DEF ListInv, Emptying
  <2>3. PICK s \in Seq(Addresses) : Linked(cells, s, next_one) /\ Covers(cells, s)
    BY <2>2
  <2>4. /\ Len(s) # 0 /\ next_one = s[1] /\ next_one \in Addresses
        /\ Linked(cells, Tail(s), cells[next_one].next)
    BY <2>1, <2>3, LinkedTail
  <2>5. /\ Tail(s) \in Seq(Addresses) /\ Distinct(Tail(s)) /\ next_one \notin CellsOf(Tail(s))
        /\ {a \in Addresses : cells[a] # NULL} = {next_one} \union CellsOf(Tail(s))
    <3>1. Distinct(s) /\ CellsOf(s) = {a \in Addresses : cells[a] # NULL}
      BY <2>3 DEF Covers
    <3> QED BY <2>4, <3>1, Beheaded
  <2>6. /\ cells' \in Heap /\ cells'[next_one] = NULL
        /\ \A a \in Addresses : a # next_one => cells'[a] = cells[a]
    BY <1>0, <2>1, <2>4 DEF Heap
  <2>7. {a \in Addresses : cells'[a] # NULL} = CellsOf(Tail(s))
    BY <2>5, <2>6
  <2>8. Linked(cells', Tail(s), next_one')
    <3>1. \A a \in CellsOf(Tail(s)) : cells'[a] = cells[a]
      BY <2>5, <2>6
    <3> QED BY <2>1, <2>4, <3>1, Framed
  <2>9. Covers(cells', Tail(s))
    BY <2>5, <2>7 DEF Covers
  <2>10. Emptying'
    BY <2>1, <2>2, <2>5, <2>8, <2>9 DEF Emptying
  <2> QED BY <1>0, <2>1, <2>6, <2>10 DEF ListInv
<1>3. CASE AllFreed
  <2>1. /\ pc = "makeempty" /\ next_one = NULL /\ list' = NULL /\ pc' = "idle"
        /\ UNCHANGED <<cells, contents>>
    BY <1>3 DEF AllFreed
  <2>2. PICK s \in Seq(Addresses) : Linked(cells, s, next_one) /\ Covers(cells, s)
    BY <2>1 DEF ListInv, Emptying
  <2>3. contents = <<>> /\ s = <<>>
    BY <2>1, <2>2, EmptyList DEF ListInv, Emptying
  <2>4. Carries(cells, <<>>, <<>>)
    BY DEF Carries
  <2>5. AtRest'
    BY <2>1, <2>2, <2>3, <2>4 DEF AtRest
  <2> QED BY <1>0, <2>1, <2>5 DEF ListInv
<1> QED BY <1>1, <1>2, <1>3

\* Every step keeps the invariant.
LEMMA ListSteps ==
  ASSUME ListInv, [ListNext]_list_vars
  PROVE  ListInv'
<1>1. CASE \E v \in Values : prepend(v) \/ append(v)
  BY <1>1, PrependStep, AppendStep
<1>2. CASE makeempty \/ FreeNext \/ AllFreed
  BY <1>2, EmptyingSteps
<1>3. CASE reverse \/ Turn \/ Turned
  BY <1>3, ReverseStep, TurnStep, TurnedStep
<1>4. CASE Walk \/ Link
  BY <1>4, WalkStep, LinkStep
<1>5. CASE NoMemory
  BY <1>5 DEF NoMemory, ListInv
<1>6. CASE UNCHANGED list_vars
  BY <1>6 DEF list_vars, locals, ListInv, AtRest, Appending, Reversing, Emptying
<1> QED BY <1>1, <1>2, <1>3, <1>4, <1>5, <1>6 DEF ListNext, Call, Step

\* At first nothing is allocated.
LEMMA ListStarts ==
  ASSUME ListInit
  PROVE  ListInv
<1>1. /\ cells = [a \in Addresses |-> NULL] /\ list = NULL /\ contents = <<>> /\ pc = "idle"
  BY DEF ListInit
<1>2. cells \in Heap /\ {a \in Addresses : cells[a] # NULL} = {}
  BY <1>1 DEF Heap
<1>3. <<>> \in Seq(Addresses) /\ Len(<<>>) = 0 /\ CellsOf(<<>>) = {} /\ <<>> \in Seq(Values)
  BY DEF CellsOf
<1>4. /\ Linked(cells, <<>>, list) /\ Covers(cells, <<>>) /\ Carries(cells, <<>>, contents)
  BY <1>1, <1>2, <1>3 DEF Linked, Covers, Carries, Distinct
<1>5. AtRest
  BY <1>3, <1>4 DEF AtRest
<1> QED BY <1>1, <1>2, <1>3, <1>5 DEF ListInv

\* What covers the heap and carries contents is what ListRight asks for.
LEMMA Whole ==
  ASSUME contents \in Seq(Values), NEW w, Covers(cells, w)
  PROVE  /\ Cardinality(Allocated) = Len(w) /\ Allocated = {w[n] : n \in DOMAIN w}
         /\ Carries(cells, w, contents) => values(w) = contents
<1>1. /\ w \in Seq(Addresses) /\ Distinct(w) /\ CellsOf(w) = Allocated
      /\ DOMAIN w = 1 .. Len(w) /\ Len(w) \in Nat
  BY DEF Covers, Allocated
<1>2. Cardinality(Allocated) = Len(w) /\ Allocated = {w[n] : n \in DOMAIN w}
  BY <1>1, Counted DEF CellsOf
<1>3. ASSUME Carries(cells, w, contents) PROVE values(w) = contents
  <2>1. \A n \in 1 .. Len(w) : cells[w[n]] # NULL /\ cells[w[n]].value = contents[n]
    BY <1>1, <1>3 DEF Carries, CellsOf, Allocated
  <2>2. contents = [n \in 1 .. Len(w) |-> contents[n]]
    BY <1>3 DEF Carries
  <2> QED BY <1>1, <2>1, <2>2 DEF values
<1> QED BY <1>2, <1>3

\* The list is right: between the calls it holds what they amount to, and none
\* of its cells is lost, freed too early or met twice; while it is reversed or
\* freed, what is done and what is left of it are all that is allocated.
THEOREM ListIsRight == ListSpec => []ListRight
<1>1. ListInit => ListInv
  BY ListStarts
<1>2. ListInv /\ [ListNext]_list_vars => ListInv'
  BY ListSteps
<1>3. ListInv => ListRight
  <2> SUFFICES ASSUME ListInv PROVE ListRight
    OBVIOUS
  <2>1. cells \in Heap /\ contents \in Seq(Values)
        /\ pc \in {"idle", "append", "reverse", "makeempty", "crashed"}
    BY DEF ListInv
  <2>2. CASE pc = "idle"
    <3>1. PICK s \in Seq(Addresses) :
            Linked(cells, s, list) /\ Covers(cells, s) /\ Carries(cells, s, contents)
      BY <2>2 DEF ListInv, AtRest
    <3>2. chain(list) = s
      BY <2>1, <3>1, Walked
    <3> QED BY <2>1, <2>2, <3>1, <3>2, Whole DEF ListRight
  <2>3. CASE pc = "append"
    <3>1. PICK s \in Seq(Addresses) :
            /\ Linked(cells, s, list) /\ Covers(cells, s \o <<newelt>>)
            /\ Carries(cells, s \o <<newelt>>, contents)
      BY <2>3 DEF ListInv, Appending
    <3>2. chain(list) = s
      BY <2>1, <3>1, Walked
    <3> QED BY <2>1, <2>3, <3>1, <3>2, Whole DEF ListRight
  <2>4. CASE pc = "reverse"
    <3>1. PICK s \in Seq(Addresses), t \in Seq(Addresses) :
            /\ Linked(cells, s, curr_ptr) /\ Linked(cells, t, new_list)
            /\ Covers(cells, Reverse(s) \o t) /\ Carries(cells, Reverse(s) \o t, contents)
      BY <2>4 DEF ListInv, Reversing
    <3>2. chain(curr_ptr) = s /\ chain(new_list) = t
      BY <2>1, <3>1, Walked
    <3> QED BY <2>1, <2>4, <3>1, <3>2, Whole DEF ListRight
  <2>5. CASE pc = "makeempty"
    <3>1. PICK s \in Seq(Addresses) : Linked(cells, s, next_one) /\ Covers(cells, s)
      BY <2>5 DEF ListInv, Emptying
    <3>2. chain(next_one) = s
      BY <2>1, <3>1, Walked
    <3> QED BY <2>1, <2>5, <3>1, <3>2, Whole DEF ListRight
  <2>6. CASE pc = "crashed"
    BY <2>6 DEF ListRight
  <2> QED BY <2>1, <2>2, <2>3, <2>4, <2>5, <2>6
<1> QED BY <1>1, <1>2, <1>3, PTL DEF ListSpec
-----------------------------------------------------------------------------
(* Powers of 2 *)

\* A power of 2 is the number of subsets of as many elements as it has for its
\* exponent.
LEMMA PowerIsSubsets ==
  ASSUME NEW n \in Nat
  PROVE  IsFiniteSet(SUBSET (1 .. n)) /\ 2^n = Cardinality(SUBSET (1 .. n))
<1>1. IsFiniteSet(1 .. n) /\ Cardinality(1 .. n) = n
  BY FS_Interval
<1> QED BY <1>1, FS_SUBSET

\* 2^0 is 1, and each power of 2 is twice the one before.
LEMMA Powers ==
  ASSUME NEW n \in Nat
  PROVE  2^n \in Nat \ {0} /\ 2^(n + 1) = 2^n + 2^n /\ 2^0 = 1
<1> DEFINE S == SUBSET (1 .. n)
           T == {A \union {n + 1} : A \in S}
<1>1. SUBSET (1 .. n + 1) = S \union T /\ S \intersect T = {}
  <2>1. 1 .. n + 1 = (1 .. n) \union {n + 1} /\ n + 1 \notin 1 .. n
    OBVIOUS
  <2>2. ASSUME NEW B \in SUBSET (1 .. n + 1), B \notin S PROVE B \in T
    <3>1. B \ {n + 1} \in S /\ B = (B \ {n + 1}) \union {n + 1}
      BY <2>1, <2>2
    <3> QED BY <3>1
  <2>3. T \subseteq SUBSET (1 .. n + 1) /\ S \subseteq SUBSET (1 .. n + 1)
    BY <2>1
  <2>4. S \intersect T = {}
    BY <2>1
  <2> QED BY <2>2, <2>3, <2>4
<1>2. IsFiniteSet(S) /\ Cardinality(S) = 2^n
  BY PowerIsSubsets
<1>3. ExistsBijection(S, T)
  <2> DEFINE f == [A \in S |-> A \union {n + 1}]
  <2>1. f \in [S -> T] /\ \A B \in T : \E A \in S : f[A] = B
    OBVIOUS
  <2>2. ASSUME NEW A \in S, NEW B \in S, f[A] = f[B] PROVE A = B
    <3>1. n + 1 \notin A /\ n + 1 \notin B /\ A \union {n + 1} = B \union {n + 1}
      BY <2>2
    <3> QED BY <3>1
  <2>3. f \in Bijection(S, T)
    <3> HIDE DEF f, S, T
    <3> QED BY <2>1, <2>2 DEF Bijection, Injection, Surjection, IsInjective
  <2> QED BY <2>3 DEF ExistsBijection
<1>4. IsFiniteSet(T) /\ Cardinality(T) = 2^n
  BY <1>2, <1>3, FS_Bijection
<1>5. 2^(n + 1) = Cardinality(S \union T)
  <2>1. n + 1 \in Nat
    OBVIOUS
  <2>2. 2^(n + 1) = Cardinality(SUBSET (1 .. n + 1))
    BY <2>1, PowerIsSubsets
  <2> QED BY <1>1, <2>2
<1>6. {} \in S
  OBVIOUS
<1> HIDE DEF S, T
<1>7. 2^(n + 1) = 2^n + 2^n
  <2>1. Cardinality(S) \in Nat /\ Cardinality(T) \in Nat
    BY <1>2, <1>4, FS_CardinalityType
  <2>2. Cardinality(S \union T) = Cardinality(S) + Cardinality(T) - Cardinality(S \intersect T)
    BY <1>2, <1>4, FS_Union
  <2>3. Cardinality(S \intersect T) = 0
    BY <1>1, FS_EmptySet
  <2> QED BY <1>2, <1>4, <1>5, <2>1, <2>2, <2>3
<1>8. 2^n \in Nat \ {0}
  BY <1>2, <1>6, FS_CardinalityType, FS_EmptySet
<1> QED BY <1>7, <1>8

\* What holds of 0, and of n + 1 when it holds of n, holds of every number up to
\* a bound; T holds those of which it does not.
LEMMA Exhausted ==
  ASSUME NEW T, T \subseteq Nat, 0 \notin T, \A n \in Nat : n + 1 \in T => n \in T
  PROVE  T = {}
<1> SUFFICES ASSUME T # {} PROVE FALSE
  OBVIOUS
<1>1. PICK x \in T : \A y \in T : x <= y
  BY Least
<1>2. x - 1 \in Nat /\ (x - 1) + 1 = x /\ ~(x <= x - 1)
  BY <1>1
<1> QED BY <1>1, <1>2

\* Powers are multiplied by adding their exponents.
LEMMA PowerSum ==
  ASSUME NEW m \in Nat, NEW n \in Nat
  PROVE  2^(m + n) = 2^m * 2^n
<1> DEFINE T == {k \in Nat : 2^(m + k) # 2^m * 2^k}
<1>1. 0 \notin T
  <2>1. 2^0 = 1 /\ 2^m \in Nat /\ m + 0 = m
    BY Powers
  <2> QED BY <2>1
<1>2. ASSUME NEW k \in Nat, k + 1 \in T PROVE k \in T
  <2> SUFFICES ASSUME 2^(m + k) = 2^m * 2^k PROVE FALSE
    BY <1>2
  <2>1. m + k \in Nat /\ m + (k + 1) = (m + k) + 1
    OBVIOUS
  <2>2. /\ 2^(m + (k + 1)) = 2^(m + k) + 2^(m + k) /\ 2^(k + 1) = 2^k + 2^k
        /\ 2^m \in Nat /\ 2^k \in Nat
    BY <2>1, Powers
  <2>3. \A a, b \in Nat : a * (b + b) = a * b + a * b
    OBVIOUS
  <2>4. 2^m * 2^(k + 1) = 2^m * 2^k + 2^m * 2^k
    BY <2>2, <2>3
  <2> QED BY <1>2, <2>2, <2>4
<1>3. T = {}
  <2> HIDE DEF T
  <2>1. T \subseteq Nat
    BY DEF T
  <2> QED BY <1>1, <1>2, <2>1, Exhausted
<1> QED BY <1>3
\* The order of exponents is that of the powers, and a larger power is an even
\* multiple of a smaller one.
LEMMA PowerOrder ==
  ASSUME NEW m \in Nat, NEW n \in Nat
  PROVE  /\ m <= n => 2^m <= 2^n
         /\ m < n => 2^m < 2^n /\ \E c \in Nat : 2^n = 2^m * (2 * c)
<1>1. ASSUME m <= n PROVE \E d \in Nat \ {0} : 2^n = 2^m * d /\ 2^m <= 2^n
  <2>1. n - m \in Nat /\ m + (n - m) = n
    BY <1>1
  <2>2. 2^n = 2^m * 2^(n - m) /\ 2^m \in Nat \ {0} /\ 2^(n - m) \in Nat \ {0}
    BY <2>1, PowerSum, Powers
  <2>3. \A a, b \in Nat \ {0} : a <= a * b
    OBVIOUS
  <2>4. 2^m <= 2^n
    BY <2>2, <2>3
  <2> QED BY <2>2, <2>4
<1>2. ASSUME m < n PROVE 2^m < 2^n /\ \E c \in Nat : 2^n = 2^m * (2 * c)
  <2>1. n - m - 1 \in Nat /\ (m + 1) + (n - m - 1) = n /\ m + 1 \in Nat
    BY <1>2
  <2> DEFINE c == 2^(n - m - 1)
  <2>2. 2^n = 2^(m + 1) * c /\ 2^(m + 1) = 2^m + 2^m /\ 2^m \in Nat \ {0} /\ c \in Nat \ {0}
    BY <2>1, PowerSum, Powers
  <2> HIDE DEF c
  <2>3. \A a, b \in Nat \ {0} : a < (a + a) * b /\ (a + a) * b = a * (2 * b)
    <3> SUFFICES ASSUME NEW a \in Nat \ {0}, NEW b \in Nat \ {0}
                 PROVE  a < (a + a) * b /\ (a + a) * b = a * (2 * b)
      OBVIOUS
    <3>1. (a + a) * b = a * b + a * b /\ a * (2 * b) = a * b + a * b /\ a <= a * b
      OBVIOUS
    <3> QED BY <3>1
  <2> QED BY <2>2, <2>3
<1> QED BY <1>1, <1>2
-----------------------------------------------------------------------------
(* Quotients and remainders *)

\* A product grows with its factors.
LEMMA Products ==
  ASSUME NEW n \in Nat, NEW x \in Int, NEW y \in Int, x <= y
  PROVE  n * x <= n * y
<1>1. n * (y - x) >= 0 /\ n * (y - x) = n * y - n * x
  OBVIOUS
<1> QED BY <1>1

\* Quotient and remainder are determined by what they add up to.
LEMMA Remainder ==
  ASSUME NEW n \in Nat \ {0}, NEW q \in Int, NEW r \in 0 .. n - 1,
         NEW q2 \in Int, NEW r2 \in 0 .. n - 1, n * q + r = n * q2 + r2
  PROVE  q = q2 /\ r = r2
<1>1. ASSUME NEW x \in Int, NEW y \in Int, NEW u \in 0 .. n - 1, NEW v \in 0 .. n - 1,
             n * x + u = n * y + v, x > y
      PROVE  FALSE
  <2>1. n * (y + 1) <= n * x
    BY <1>1, Products
  <2>2. n * (y + 1) = n * y + n
    OBVIOUS
  <2> QED BY <1>1, <2>1, <2>2
<1>2. q = q2
  BY <1>1
<1> QED BY <1>2

\* What % and \div yield.
LEMMA Division ==
  ASSUME NEW n \in Nat \ {0}, NEW x \in Int
  PROVE  /\ x \div n \in Int /\ x % n \in 0 .. n - 1
         /\ x = n * (x \div n) + (x % n)
BY SMT

\* What quotient and remainder are when they are known to add up.
LEMMA Divided ==
  ASSUME NEW n \in Nat \ {0}, NEW q \in Int, NEW r \in 0 .. n - 1, NEW x, x = n * q + r
  PROVE  x \div n = q /\ x % n = r
<1>1. x \in Int
  OBVIOUS
<1>2. x \div n \in Int /\ x % n \in 0 .. n - 1 /\ x = n * (x \div n) + (x % n)
  BY <1>1, Division
<1>3. n * (x \div n) + (x % n) = n * q + r
  BY <1>2
<1> QED BY <1>2, <1>3, Remainder

\* A multiple of the divisor more is as much more for the quotient.
LEMMA DividedSum ==
  ASSUME NEW n \in Nat \ {0}, NEW x \in Int, NEW k \in Int
  PROVE  (x + n * k) \div n = (x \div n) + k /\ (x + n * k) % n = x % n
<1> DEFINE q == x \div n
           r == x % n
           y == x + n * k
<1>1. q \in Int /\ r \in 0 .. n - 1 /\ x = n * q + r
  BY Division
<1>2. y = x + n * k
  OBVIOUS
<1> HIDE DEF q, r, y
<1>3. n * (q + k) = n * q + n * k
  BY <1>1
<1>4. q + k \in Int /\ y = n * (q + k) + r
  BY <1>1, <1>2, <1>3
<1>5. y \div n = q + k /\ y % n = r
  <2> DEFINE w == q + k
  <2>1. w \in Int /\ y = n * w + r
    BY <1>4
  <2> HIDE DEF w
  <2>2. y \div n = w /\ y % n = r
    BY <1>1, <2>1, Divided
  <2> QED BY <2>2 DEF w
<1> QED BY <1>5 DEF q, r, y

\* An even number more leaves the lowest bit as it is.
LEMMA Parity ==
  ASSUME NEW x \in Int, NEW c \in Int
  PROVE  (x + 2 * c) % 2 = x % 2 /\ x % 2 \in {0, 1}
BY SMT
-----------------------------------------------------------------------------
(* Bits of numbers *)

\* Bit b of the number n, in two's complement.
bit(n, b) == (n \div 2^b) % 2

\* Bits are 0 or 1.
LEMMA BitType ==
  ASSUME NEW n \in Int, NEW b \in Nat
  PROVE  bit(n, b) \in {0, 1} /\ n \div 2^b \in Int
<1>1. n \div 2^b \in Int
  BY Powers, Division
<1> QED BY <1>1, Parity DEF bit

\* A multiple of a larger power leaves a bit as it is.
LEMMA LowBits ==
  ASSUME NEW n \in Int, NEW c \in Int, NEW b \in Nat, NEW k \in Nat, b < k
  PROVE  bit(n + c * 2^k, b) = bit(n, b)
<1> DEFINE P == 2^b
           q == n \div P
<1>1. PICK d \in Nat : 2^k = P * (2 * d)
  BY PowerOrder
<1>2. P \in Nat \ {0} /\ q \in Int
  BY Powers, BitType
<1> HIDE DEF P, q
<1>3. c * (P * (2 * d)) = P * (2 * (c * d))
  <2>1. c \in Int /\ P \in Int /\ d \in Int
    BY <1>1, <1>2
  <2>2. c * (P * (2 * d)) = (c * P) * (2 * d) /\ (c * P) * (2 * d) = P * (c * (2 * d))
    BY <2>1
  <2>3. c * (2 * d) = 2 * (c * d)
    BY <2>1
  <2> QED BY <2>2, <2>3
<1>4. (n + P * (2 * (c * d))) \div P = q + 2 * (c * d)
  <2> DEFINE e == 2 * (c * d)
  <2>1. e \in Int
    OBVIOUS
  <2> HIDE DEF e
  <2>2. (n + P * e) \div P = (n \div P) + e
    BY <1>2, <2>1, DividedSum
  <2> QED BY <2>2 DEF q, e
<1>5. (q + 2 * (c * d)) % 2 = q % 2
  BY <1>2, Parity
<1> QED BY <1>1, <1>3, <1>4, <1>5 DEF bit, P, q

\* The bit above a number is the one that is put there.
LEMMA TopBit ==
  ASSUME NEW k \in Nat, NEW n \in 0 .. 2^k - 1, NEW c \in {0, 1}
  PROVE  bit(n + c * 2^k, k) = c
<1> DEFINE P == 2^k
<1>1. P \in Nat \ {0} /\ n \in 0 .. P - 1
  BY Powers
<1> HIDE DEF P
<1>2. n + c * P = P * c + n
  BY <1>1
<1>3. (n + c * P) \div P = c
  BY <1>1, <1>2, Divided
<1>4. c % 2 = c
  OBVIOUS
<1> QED BY <1>3, <1>4 DEF bit, P

\* The remainder by the next power has one bit more.
LEMMA NextRemainder ==
  ASSUME NEW n \in Int, NEW k \in Nat
  PROVE  n % 2^(k + 1) = (n % 2^k) + bit(n, k) * 2^k
<1> DEFINE P == 2^k
           q == n \div P
           r == n % P
           h == q \div 2
           t == q % 2
<1>1. P \in Nat \ {0} /\ 2^(k + 1) = P + P
  BY Powers
<1>2. q \in Int /\ r \in 0 .. P - 1 /\ n = P * q + r
  BY <1>1, Division
<1>3. h \in Int /\ t \in {0, 1} /\ q = 2 * h + t
  <2> HIDE DEF q
  <2> QED BY <1>2
<1> HIDE DEF P, q, r, h, t
<1>4. P * (2 * h + t) = (P + P) * h + t * P
  BY <1>1, <1>3
<1>5. n = (P + P) * h + (r + t * P)
  BY <1>1, <1>2, <1>3, <1>4
<1>6. r + t * P \in 0 .. (P + P) - 1 /\ P + P \in Nat \ {0}
  BY <1>1, <1>2, <1>3
<1>7. n % (P + P) = r + t * P
  <2> DEFINE D == P + P
             z == r + t * P
  <2>1. D \in Nat \ {0} /\ z \in 0 .. D - 1 /\ n = D * h + z
    BY <1>5, <1>6
  <2> HIDE DEF D, z
  <2>2. n % D = z
    BY <1>3, <2>1, Divided
  <2> QED BY <2>2 DEF D, z
<1> QED BY <1>1, <1>7 DEF bit, P, q, r, t
-----------------------------------------------------------------------------
(* Words and numbers *)

\* s sums up the bits of x from the lowest on.
Sums(x, s) ==
  /\ s \in [0 .. W -> Nat] /\ s[0] = 0
  /\ \A n \in Places : s[n + 1] = s[n] + x[n] * 2^n

\* The places of the bits.
LEMMA PlaceFacts ==
  /\ W \in Nat /\ W > 2 /\ MSB \in Places /\ MSB \in Nat /\ MSB + 1 = W /\ 0 \in Places
  /\ \A b \in Places : b \in Nat /\ b + 1 \in 0 .. W /\ b \in 0 .. W /\ b <= MSB
BY BitsAssumption DEF Places, MSB

\* What holds of 0, and of n + 1 when of n, holds up to W.
LEMMA UpToW ==
  ASSUME NEW T, T \subseteq 0 .. W, 0 \notin T, \A n \in Places : n + 1 \in T => n \in T
  PROVE  T = {}
<1>1. T \subseteq Nat
  BY PlaceFacts
<1>2. ASSUME NEW n \in Nat, n + 1 \in T PROVE n \in T
  <2>1. n \in Places
    BY <1>2, PlaceFacts DEF Places
  <2> QED BY <1>2, <2>1
<1> QED BY <1>1, <1>2, Exhausted

\* The recursion of unsigned defines the sums of the bits.
LEMMA Unsigned ==
  ASSUME NEW x \in Words
  PROVE  \E s : Sums(x, s) /\ unsigned(x) = s[W]
<1> DEFINE Prefix(m, f) ==
             f = [n \in 0 .. m |-> IF n = 0 THEN 0 ELSE f[n - 1] + x[n - 1] * 2^(n - 1)]
           T == {m \in 0 .. W : ~ \E f : Prefix(m, f)}
<1>1. 0 \notin T
  <2> DEFINE f == [n \in 0 .. 0 |-> 0]
  <2>1. Prefix(0, f)
    OBVIOUS
  <2> HIDE DEF f, Prefix
  <2> QED BY <2>1
<1>2. ASSUME NEW m \in Places, m + 1 \in T PROVE m \in T
  <2> SUFFICES ASSUME NEW f, Prefix(m, f) PROVE FALSE
    <3> HIDE DEF Prefix
    <3> QED BY PlaceFacts
  <2> DEFINE g == [n \in 0 .. m + 1 |-> IF n = m + 1 THEN f[m] + x[m] * 2^m ELSE f[n]]
  <2>1. m \in Nat
    BY PlaceFacts
  <2>2. \A n \in 0 .. m : f[n] = IF n = 0 THEN 0 ELSE f[n - 1] + x[n - 1] * 2^(n - 1)
    OBVIOUS
  <2>3. \A n \in 0 .. m + 1 : g[n] = IF n = m + 1 THEN f[m] + x[m] * 2^m ELSE f[n]
    OBVIOUS
  <2>4. g = [n \in 0 .. m + 1 |-> g[n]]
    OBVIOUS
  <2> HIDE DEF g
  <2>5. ASSUME NEW n \in 0 .. m + 1
        PROVE  g[n] = IF n = 0 THEN 0 ELSE g[n - 1] + x[n - 1] * 2^(n - 1)
    <3>1. CASE n = m + 1
      <4>1. n - 1 = m /\ m \in 0 .. m + 1 /\ m # m + 1 /\ n # 0
        BY <2>1, <3>1
      <4>2. g[m] = f[m] /\ g[n] = f[m] + x[m] * 2^m
        BY <2>3, <3>1, <4>1
      <4>3. g[n] = g[n - 1] + x[n - 1] * 2^(n - 1)
        BY <4>1, <4>2, ZenonT(30)
      <4> QED BY <4>1, <4>3
    <3>2. CASE n # m + 1
      <4>0. g[n] = f[n]
        BY <2>3, <3>2
      <4>1. n \in 0 .. m /\ g[n] = f[n]
        BY <2>1, <3>2, <4>0
      <4>2. n # 0 => n - 1 \in 0 .. m + 1 /\ n - 1 # m + 1
        BY <2>1, <3>2
      <4>3. n # 0 => g[n - 1] = f[n - 1]
        BY <2>3, <4>2
      <4> QED BY <2>2, <4>1, <4>3
    <3> QED BY <3>1, <3>2
  <2>6. Prefix(m + 1, g)
    BY <2>4, <2>5
  <2> HIDE DEF Prefix
  <2> QED BY <1>2, <2>6
<1>3. T = {}
  <2>1. T \subseteq 0 .. W
    OBVIOUS
  <2> HIDE DEF T
  <2> QED BY <1>1, <1>2, <2>1, UpToW
<1>4. \E f : Prefix(W, f)
  <2> HIDE DEF Prefix
  <2> QED BY <1>3, PlaceFacts
<1>5. PICK s : Prefix(W, s) /\ unsigned(x) = s[W]
  BY <1>4 DEF unsigned
<1>6. \A n \in 0 .. W : s[n] = IF n = 0 THEN 0 ELSE s[n - 1] + x[n - 1] * 2^(n - 1)
  BY <1>5
<1>7. DOMAIN s = 0 .. W /\ s = [n \in 0 .. W |-> s[n]]
  BY <1>5
<1> HIDE DEF Prefix
<1>8. s[0] = 0 /\ \A n \in Places : s[n + 1] = s[n] + x[n] * 2^n
  <2>1. 0 \in 0 .. W
    BY PlaceFacts
  <2>2. \A n \in Places : n + 1 \in 0 .. W /\ (n + 1) - 1 = n /\ n + 1 # 0
    BY PlaceFacts
  <2> QED BY <1>6, <2>1, <2>2
<1>9. ASSUME NEW n \in 0 .. W PROVE s[n] \in Nat
  <2> DEFINE U == {m \in 0 .. W : s[m] \notin Nat}
  <2>1. 0 \notin U
    BY <1>8
  <2>2. ASSUME NEW m \in Places, m + 1 \in U PROVE m \in U
    <3> SUFFICES ASSUME s[m] \in Nat PROVE FALSE
      BY PlaceFacts
    <3>1. x[m] \in {0, 1} /\ 2^m \in Nat
      BY Powers, PlaceFacts DEF Words
    <3>2. x[m] * 2^m \in Nat
      BY <3>1
    <3>3. s[m + 1] \in Nat
      BY <1>8, <3>2
    <3> QED BY <2>2, <3>3
  <2>3. U = {}
    <3>1. U \subseteq 0 .. W
      OBVIOUS
    <3> HIDE DEF U
    <3> QED BY <2>1, <2>2, <3>1, UpToW
  <2> QED BY <2>3
<1> QED BY <1>5, <1>7, <1>8, <1>9 DEF Sums

\* A sum of bits is less than the next power, and has these bits.
LEMMA SumFacts ==
  ASSUME NEW x \in Words, NEW s, Sums(x, s), NEW n \in 0 .. W
  PROVE  s[n] \in 0 .. 2^n - 1 /\ \A b \in Places : b < n => bit(s[n], b) = x[b]
<1> DEFINE Right(m) == s[m] \in 0 .. 2^m - 1 /\ \A b \in Places : b < m => bit(s[m], b) = x[b]
           T == {m \in 0 .. W : ~Right(m)}
<1>1. 0 \notin T
  <2>1. s[0] \in 0 .. 2^0 - 1 /\ \A b \in Places : ~(b < 0)
    BY Powers, PlaceFacts DEF Sums
  <2> QED BY <2>1
<1>2. ASSUME NEW m \in Places, m + 1 \in T PROVE m \in T
  <2> SUFFICES ASSUME Right(m) PROVE FALSE
    <3> HIDE DEF Right
    <3> QED BY PlaceFacts
  <2> DEFINE P == 2^m
  <2>1. P \in Nat \ {0} /\ 2^(m + 1) = P + P /\ x[m] \in {0, 1} /\ m \in Nat
    BY Powers, PlaceFacts DEF Words
  <2>2. s[m] \in 0 .. P - 1 /\ s[m + 1] = s[m] + x[m] * P
    BY DEF Sums
  <2> HIDE DEF P
  <2>3. s[m + 1] \in 0 .. 2^(m + 1) - 1
    BY <2>1, <2>2
  <2>4. ASSUME NEW b \in Places, b < m + 1 PROVE bit(s[m + 1], b) = x[b]
    <3>1. CASE b = m
      <4>1. bit(s[m] + x[m] * P, m) = x[m]
        BY <2>1, <2>2, TopBit DEF P
      <4> QED BY <2>2, <3>1, <4>1
    <3>2. CASE b # m
      <4>1. b < m /\ b \in Nat /\ m \in Nat
        BY <2>1, <2>4, <3>2, PlaceFacts
      <4>2. bit(s[m], b) = x[b]
        BY <4>1
      <4>3. s[m] \in Int /\ x[m] \in Int
        BY <2>1, <2>2
      <4>4. bit(s[m] + x[m] * P, b) = bit(s[m], b)
        BY <4>1, <4>3, LowBits DEF P
      <4>5. s[m + 1] = s[m] + x[m] * P
        BY <2>2
      <4> QED BY <4>2, <4>4, <4>5
    <3> QED BY <3>1, <3>2
  <2>5. Right(m + 1)
    BY <2>3, <2>4
  <2> HIDE DEF Right
  <2> QED BY <1>2, <2>5
<1>3. T = {}
  <2>1. T \subseteq 0 .. W
    OBVIOUS
  <2> HIDE DEF T
  <2> QED BY <1>1, <1>2, <2>1, UpToW
<1>4. Right(n)
  <2> HIDE DEF Right
  <2> QED BY <1>3
<1> QED BY <1>4

Half == 2^MSB
Span == 2^W     \* how many words there are

\* Half of the words have the highest bit.
LEMMA HalfFacts == Half \in Nat \ {0} /\ Span = Half + Half /\ Span \in Nat \ {0} /\ Half > 1
<1>1. MSB - 1 \in Nat /\ (MSB - 1) + 1 = MSB /\ MSB \in Nat /\ MSB + 1 = W
  BY PlaceFacts
<1>2. Half \in Nat \ {0} /\ Span = Half + Half
  BY <1>1, Powers DEF Half, Span
<1>3. Half = 2^(MSB - 1) + 2^(MSB - 1) /\ 2^(MSB - 1) \in Nat \ {0}
  <2> DEFINE m == MSB - 1
  <2>1. m \in Nat /\ MSB = m + 1
    BY <1>1
  <2> HIDE DEF m
  <2>2. 2^MSB = 2^m + 2^m /\ 2^m \in Nat \ {0}
    BY <2>1, Powers
  <2> QED BY <2>2 DEF Half, m
<1> QED BY <1>2, <1>3

\* A word of a number has the bits of the number.
LEMMA WordType ==
  ASSUME NEW n \in Int
  PROVE  Word(n) \in Words /\ \A b \in Places : Word(n)[b] = bit(n, b)
BY BitType, PlaceFacts DEF Word, Words, bit

\* Words with the same bits are the same.
LEMMA SameBits ==
  ASSUME NEW x \in Words, NEW y \in Words, \A b \in Places : x[b] = y[b]
  PROVE  x = y
BY DEF Words

\* The number of a word has the bits of the word.
LEMMA UnsignedFacts ==
  ASSUME NEW x \in Words
  PROVE  /\ unsigned(x) \in 0 .. Span - 1
         /\ \A b \in Places : bit(unsigned(x), b) = x[b]
         /\ Word(unsigned(x)) = x
<1>1. PICK s : Sums(x, s) /\ unsigned(x) = s[W]
  BY Unsigned
<1>2. W \in 0 .. W /\ \A b \in Places : b < W
  BY PlaceFacts DEF Places
<1>3. unsigned(x) \in 0 .. Span - 1 /\ \A b \in Places : bit(unsigned(x), b) = x[b]
  BY <1>1, <1>2, SumFacts DEF Span
<1>4. Word(unsigned(x)) \in Words /\ \A b \in Places : Word(unsigned(x))[b] = bit(unsigned(x), b)
  <2> DEFINE u == unsigned(x)
  <2>1. u \in Int
    BY <1>3
  <2> HIDE DEF u
  <2>2. Word(u) \in Words /\ \A b \in Places : Word(u)[b] = bit(u, b)
    BY <2>1, WordType
  <2> QED BY <2>2 DEF u
<1> QED BY <1>3, <1>4, SameBits

\* The number of the word of a number is its remainder.
LEMMA UnsignedWord ==
  ASSUME NEW n \in Int
  PROVE  unsigned(Word(n)) = n % Span
<1> DEFINE x == Word(n)
<1>1. x \in Words /\ \A b \in Places : x[b] = bit(n, b)
  BY WordType
<1> HIDE DEF x
<1>2. PICK s : Sums(x, s) /\ unsigned(x) = s[W]
  BY <1>1, Unsigned
<1> DEFINE T == {m \in 0 .. W : s[m] # n % 2^m}
<1>3. 0 \notin T
  <2>1. n % 2^0 = 0
    BY Powers
  <2> QED BY <1>2, <2>1 DEF Sums
<1>4. ASSUME NEW m \in Places, m + 1 \in T PROVE m \in T
  <2> SUFFICES ASSUME s[m] = n % 2^m PROVE FALSE
    BY PlaceFacts
  <2>1. n % 2^(m + 1) = (n % 2^m) + bit(n, m) * 2^m
    BY NextRemainder, PlaceFacts
  <2>2. s[m + 1] = s[m] + bit(n, m) * 2^m
    BY <1>1, <1>2 DEF Sums
  <2> QED BY <1>4, <2>1, <2>2
<1>5. T = {}
  <2>1. T \subseteq 0 .. W
    OBVIOUS
  <2> HIDE DEF T
  <2> QED BY <1>3, <1>4, <2>1, UpToW
<1>6. s[W] = n % 2^W
  BY <1>5, PlaceFacts
<1> QED BY <1>2, <1>6 DEF x, Span

\* Numbers below 2^W are those of their words.
LEMMA SmallNumbers ==
  ASSUME NEW n \in 0 .. Span - 1
  PROVE  unsigned(Word(n)) = n
<1>1. n = Span * 0 + n /\ Span \in Nat \ {0} /\ n \in Int /\ 0 \in Int
  BY HalfFacts
<1>2. n % Span = n
  <2> DEFINE z == 0
  <2>1. n = Span * z + n /\ z \in Int
    BY <1>1
  <2> HIDE DEF z
  <2> QED BY <1>1, <2>1, Divided
<1> QED BY <1>1, <1>2, UnsignedWord

\* Words are the same when their numbers are.
LEMMA SameNumbers ==
  ASSUME NEW x \in Words, NEW y \in Words, unsigned(x) = unsigned(y)
  PROVE  x = y
BY UnsignedFacts

\* The highest bit tells the larger numbers.
LEMMA HighestBit ==
  ASSUME NEW x \in Words
  PROVE  /\ x[MSB] \in {0, 1} /\ (x[MSB] = 1 <=> unsigned(x) >= Half)
         /\ int(x) = IF x[MSB] = 1 THEN unsigned(x) - Span ELSE unsigned(x)
         /\ int(x) \in -Half .. Half - 1
<1> DEFINE u == unsigned(x)
<1>1. u \in 0 .. Span - 1 /\ bit(u, MSB) = x[MSB] /\ x[MSB] \in {0, 1}
  BY UnsignedFacts, PlaceFacts DEF Words
<1>2. Span = Half + Half /\ Half \in Nat \ {0}
  BY HalfFacts
<1> HIDE DEF u
<1>3. CASE u < Half
  <2>1. u \in 0 .. 2^MSB - 1
    BY <1>1, <1>2, <1>3 DEF Half
  <2>2. bit(u + 0 * 2^MSB, MSB) = 0
    BY <2>1, TopBit, PlaceFacts
  <2>3. u + 0 * 2^MSB = u
    BY <1>1, <1>2 DEF Half
  <2> QED BY <1>1, <1>2, <1>3, <2>2, <2>3 DEF u, int, Span
<1>4. CASE u >= Half
  <2> DEFINE v == u - Half
  <2>1. v \in 0 .. 2^MSB - 1 /\ u = v + 1 * 2^MSB
    BY <1>1, <1>2, <1>4 DEF Half
  <2> HIDE DEF v
  <2>2. bit(v + 1 * 2^MSB, MSB) = 1
    BY <2>1, TopBit, PlaceFacts
  <2> QED BY <1>1, <1>2, <1>4, <2>1, <2>2 DEF u, int, Span
<1> QED BY <1>1, <1>2, <1>3, <1>4

\* The number of the complement.
LEMMA Complement ==
  ASSUME NEW x \in Words
  PROVE  not(x) \in Words /\ unsigned(not(x)) = Span - 1 - unsigned(x)
<1> DEFINE y == not(x)
<1>1. y \in Words /\ \A b \in Places : y[b] = 1 - x[b] /\ x[b] \in {0, 1}
  BY DEF Words, not
<1> HIDE DEF y
<1>2. PICK s : Sums(x, s) /\ unsigned(x) = s[W]
  BY Unsigned
<1>3. PICK t : Sums(y, t) /\ unsigned(y) = t[W]
  BY <1>1, Unsigned
<1> DEFINE T == {m \in 0 .. W : s[m] + t[m] # 2^m - 1}
<1>4. 0 \notin T
  BY <1>2, <1>3, Powers DEF Sums
<1>5. ASSUME NEW m \in Places, m + 1 \in T PROVE m \in T
  <2> SUFFICES ASSUME s[m] + t[m] = 2^m - 1 PROVE FALSE
    BY PlaceFacts
  <2> DEFINE P == 2^m
  <2>1. P \in Nat /\ 2^(m + 1) = P + P /\ s[m] \in Nat /\ t[m] \in Nat
    BY <1>2, <1>3, Powers, PlaceFacts DEF Sums
  <2>2. s[m + 1] = s[m] + x[m] * P /\ t[m + 1] = t[m] + y[m] * P
    BY <1>2, <1>3 DEF Sums
  <2>3. s[m] + t[m] = P - 1
    OBVIOUS
  <2> HIDE DEF P
  <2>4. x[m] * P + y[m] * P = P
    BY <1>1, <2>1
  <2>5. x[m] * P \in Int /\ y[m] * P \in Int
    BY <1>1, <2>1
  <2>6. s[m + 1] + t[m + 1] = 2^(m + 1) - 1
    BY <2>1, <2>2, <2>3, <2>4, <2>5
  <2> QED BY <1>5, <2>6
<1>6. T = {}
  <2>1. T \subseteq 0 .. W
    OBVIOUS
  <2> HIDE DEF T
  <2> QED BY <1>4, <1>5, <2>1, UpToW
<1>7. s[W] + t[W] = Span - 1 /\ s[W] \in Nat /\ t[W] \in Nat
  BY <1>2, <1>3, <1>6, PlaceFacts DEF Span, Sums
<1>8. unsigned(y) = Span - 1 - unsigned(x)
  BY <1>2, <1>3, <1>7, HalfFacts
<1> QED BY <1>1, <1>8 DEF y

\* The bits of 0, of -1 and of the powers of 2.
LEMMA BitsOfPowers ==
  ASSUME NEW b \in Nat
  PROVE  /\ bit(0, b) = 0 /\ bit(-1, b) = 1
         /\ \A k \in Nat : bit(2^k, b) = IF b = k THEN 1 ELSE 0
<1>1. \A k \in Nat : 2^k \in Nat \ {0}
  BY Powers
<1>2. bit(0, b) = 0
  <2>1. 0 \in 0 .. 2^b - 1 /\ 0 + 0 * 2^b = 0
    BY <1>1
  <2>2. bit(0 + 0 * 2^b, b) = 0
    BY <2>1, TopBit
  <2> QED BY <2>1, <2>2
<1>3. bit(-1, b) = 1
  <2> DEFINE P == 2^b
             y == -1
             r == P - 1
  <2>1. P \in Nat \ {0} /\ y \in Int /\ r \in 0 .. P - 1 /\ y = P * y + r
    BY <1>1
  <2> HIDE DEF P, y, r
  <2>2. y \div P = y
    BY <2>1, Divided
  <2>3. y % 2 = 1
    <3> DEFINE d == 2
               e == 1
    <3>1. d \in Nat \ {0} /\ e \in 0 .. d - 1 /\ y = d * y + e
      BY DEF y
    <3> HIDE DEF d, e
    <3>2. y % d = e
      BY <2>1, <3>1, Divided
    <3> QED BY <3>2 DEF d, e
  <2> QED BY <2>2, <2>3 DEF bit, P, y
<1>4. ASSUME NEW k \in Nat PROVE bit(2^k, b) = IF b = k THEN 1 ELSE 0
  <2>1. 2^k \in Nat /\ 0 + 1 * 2^k = 2^k /\ 0 \in 0 .. 2^k - 1
    BY <1>1
  <2>2. CASE b = k
    <3>1. bit(0 + 1 * 2^k, k) = 1
      BY <2>1, TopBit
    <3> QED BY <2>1, <2>2, <3>1
  <2>3. CASE b < k
    <3>1. bit(0 + 1 * 2^k, b) = bit(0, b)
      BY <2>3, LowBits
    <3> QED BY <1>2, <2>1, <2>3, <3>1
  <2>4. CASE b > k
    <3>1. 2^k < 2^b /\ 2^b \in Nat
      BY <1>1, <2>4, PowerOrder
    <3>2. 2^k \in 0 .. 2^b - 1 /\ 2^k + 0 * 2^b = 2^k
      BY <2>1, <3>1
    <3>3. bit(2^k + 0 * 2^b, b) = 0
      BY <3>2, TopBit
    <3> QED BY <2>4, <3>2, <3>3
  <2> QED BY <2>2, <2>3, <2>4
<1> QED BY <1>2, <1>3, <1>4

\* The word whose bits are all c.
Fill(c) == [b \in Places |-> c]

\* The words of 0, -1 and 1, and the most negative one.
LEMMA SpecialWords ==
  /\ Word(0) \in Words /\ Word(0) = Fill(0) /\ unsigned(Word(0)) = 0
  /\ Word(-1) \in Words /\ Word(-1) = Fill(1)
  /\ Word(1) \in Words /\ unsigned(Word(1)) = 1 /\ Word(1) # Word(0)
  /\ \A b \in Places : Word(1)[b] = IF b = 0 THEN 1 ELSE 0
  /\ TMin \in Words /\ TMin = Word(Half) /\ unsigned(TMin) = Half
  /\ \A b \in Places : TMin[b] = IF b = MSB THEN 1 ELSE 0
<1>1. Word(0) \in Words /\ Word(-1) \in Words /\ Word(1) \in Words /\ Word(Half) \in Words
  BY WordType, HalfFacts
<1>2. Word(0) = Fill(0) /\ Word(-1) = Fill(1)
  <2>1. \A b \in Places : bit(0, b) = 0 /\ bit(-1, b) = 1
    BY BitsOfPowers, PlaceFacts
  <2> QED BY <2>1 DEF Word, Fill, bit
<1>3. \A b \in Places : Word(1)[b] = IF b = 0 THEN 1 ELSE 0
  <2>1. \A b \in Places : bit(2^0, b) = IF b = 0 THEN 1 ELSE 0
    BY BitsOfPowers, PlaceFacts
  <2>2. 2^0 = 1
    BY Powers
  <2>3. 1 \in Int
    OBVIOUS
  <2> QED BY <2>1, <2>2, <2>3, WordType
<1>4. \A b \in Places : Word(Half)[b] = IF b = MSB THEN 1 ELSE 0
  <2>1. \A b \in Places : bit(Half, b) = IF b = MSB THEN 1 ELSE 0
    BY BitsOfPowers, PlaceFacts DEF Half
  <2> QED BY <2>1, WordType, HalfFacts
<1>5. TMin = Word(Half)
  <2>1. \A b \in Places : TMin[b] = IF b >= MSB THEN Word(1)[b - MSB] ELSE 0
    BY DEF TMin, shl
  <2>2. ASSUME NEW b \in Places PROVE TMin[b] = Word(Half)[b]
    <3>1. CASE b = MSB
      <4>1. b >= MSB /\ b - MSB = 0 /\ 0 \in Places
        BY <3>1, PlaceFacts
      <4> QED BY <1>3, <1>4, <2>1, <3>1, <4>1
    <3>2. CASE b # MSB
      BY <1>4, <2>1, <3>2, PlaceFacts
    <3> QED BY <3>1, <3>2
  <2>3. \A b \in Places : TMin[b] \in {0, 1}
    BY <1>4, <2>2
  <2>4. TMin \in Words
    BY <2>3 DEF TMin, shl, Words
  <2> QED BY <1>1, <2>2, <2>4, SameBits
<1>6. 0 \in 0 .. Span - 1 /\ 1 \in 0 .. Span - 1 /\ Half \in 0 .. Span - 1
  BY HalfFacts
<1>7. unsigned(Word(0)) = 0 /\ unsigned(Word(1)) = 1 /\ unsigned(TMin) = Half
  BY <1>5, <1>6, SmallNumbers
<1> QED BY <1>1, <1>2, <1>3, <1>4, <1>5, <1>7

\* A sum of two words, when it is too large for one.
wrapped(n) == IF n >= Span THEN n - Span ELSE n

\* The sum of two words.
LEMMA SumOfWords ==
  ASSUME NEW x \in Words, NEW y \in Words
  PROVE  /\ plus(x, y) \in Words
         /\ unsigned(plus(x, y)) = wrapped(unsigned(x) + unsigned(y))
<1> DEFINE n == unsigned(x) + unsigned(y)
           q == IF n >= Span THEN 1 ELSE 0
           r == IF n >= Span THEN n - Span ELSE n
<1>1. unsigned(x) \in 0 .. Span - 1 /\ unsigned(y) \in 0 .. Span - 1 /\ Span \in Nat \ {0}
  BY UnsignedFacts, HalfFacts
<1>2. n \in Int /\ q \in Int /\ r \in 0 .. Span - 1 /\ n = Span * q + r
  BY <1>1
<1> HIDE DEF n, q, r
<1>3. n % Span = r
  BY <1>1, <1>2, Divided
<1>4. unsigned(Word(n)) = r /\ Word(n) \in Words
  BY <1>2, <1>3, UnsignedWord, WordType
<1> QED BY <1>4 DEF plus, n, r, wrapped

\* The opposite of a word.
LEMMA Opposite ==
  ASSUME NEW x \in Words
  PROVE  /\ minus(x) \in Words /\ minus(x) = plus(not(x), Word(1))
         /\ unsigned(minus(x)) = IF unsigned(x) = 0 THEN 0 ELSE Span - unsigned(x)
<1>1. not(x) \in Words /\ unsigned(not(x)) = Span - 1 - unsigned(x)
  BY Complement
<1>2. Word(1) \in Words /\ unsigned(Word(1)) = 1
  BY SpecialWords
<1>3. /\ plus(not(x), Word(1)) \in Words
      /\ unsigned(plus(not(x), Word(1))) = wrapped(unsigned(not(x)) + unsigned(Word(1)))
  <2> DEFINE y == not(x)
             z == Word(1)
  <2>1. y \in Words /\ z \in Words
    BY <1>1, <1>2
  <2> HIDE DEF y, z
  <2>2. plus(y, z) \in Words /\ unsigned(plus(y, z)) = wrapped(unsigned(y) + unsigned(z))
    BY <2>1, SumOfWords
  <2> QED BY <2>2 DEF y, z
<1>4. unsigned(x) \in 0 .. Span - 1 /\ Span \in Nat \ {0}
  BY UnsignedFacts, HalfFacts
<1> QED BY <1>1, <1>2, <1>3, <1>4 DEF minus, wrapped
-----------------------------------------------------------------------------
(* The puzzles on ints *)

\* The operators on bits yield words.
LEMMA Gates ==
  ASSUME NEW x \in Words, NEW y \in Words
  PROVE  /\ not(x) \in Words /\ and(x, y) \in Words /\ or(x, y) \in Words
         /\ xor(x, y) \in Words
         /\ \A b \in Places :
              /\ x[b] \in {0, 1} /\ y[b] \in {0, 1} /\ not(x)[b] = 1 - x[b]
              /\ and(x, y)[b] = IF x[b] = 1 /\ y[b] = 1 THEN 1 ELSE 0
              /\ or(x, y)[b] = IF x[b] = 1 \/ y[b] = 1 THEN 1 ELSE 0
              /\ xor(x, y)[b] = IF x[b] # y[b] THEN 1 ELSE 0
<1>1. \A b \in Places : x[b] \in {0, 1} /\ y[b] \in {0, 1}
  BY DEF Words
<1>2. ASSUME NEW b \in Places
      PROVE  /\ not(x)[b] = 1 - x[b]
             /\ and(x, y)[b] = IF x[b] = 1 /\ y[b] = 1 THEN 1 ELSE 0
             /\ or(x, y)[b] = IF x[b] = 1 \/ y[b] = 1 THEN 1 ELSE 0
             /\ xor(x, y)[b] = IF x[b] # y[b] THEN 1 ELSE 0
  <2>1. (0 + 0) % 2 = 0 /\ (0 + 1) % 2 = 1 /\ (1 + 0) % 2 = 1 /\ (1 + 1) % 2 = 0
    OBVIOUS
  <2>2. xor(x, y)[b] = (x[b] + y[b]) % 2
    BY DEF xor
  <2>3. xor(x, y)[b] = IF x[b] # y[b] THEN 1 ELSE 0
    BY <1>1, <2>1, <2>2
  <2> QED BY <1>1, <2>3 DEF not, and, or
<1>3. /\ not(x) = [b \in Places |-> not(x)[b]] /\ and(x, y) = [b \in Places |-> and(x, y)[b]]
      /\ or(x, y) = [b \in Places |-> or(x, y)[b]] /\ xor(x, y) = [b \in Places |-> xor(x, y)[b]]
  BY DEF not, and, or, xor
<1>4. \A b \in Places :
        not(x)[b] \in {0, 1} /\ and(x, y)[b] \in {0, 1} /\ or(x, y)[b] \in {0, 1}
          /\ xor(x, y)[b] \in {0, 1}
  BY <1>1, <1>2
<1> QED BY <1>1, <1>2, <1>3, <1>4 DEF Words

\* not on its own.
LEMMA Inverted ==
  ASSUME NEW x \in Words
  PROVE  not(x) \in Words /\ \A b \in Places : not(x)[b] = 1 - x[b]
BY Gates

\* and on its own.
LEMMA Both ==
  ASSUME NEW x \in Words, NEW y \in Words
  PROVE  /\ and(x, y) \in Words
         /\ \A b \in Places : and(x, y)[b] = IF x[b] = 1 /\ y[b] = 1 THEN 1 ELSE 0
BY Gates

\* not and and together.
LEMMA Nand ==
  ASSUME NEW x \in Words, NEW y \in Words
  PROVE  /\ not(and(x, y)) \in Words
         /\ \A b \in Places : not(and(x, y))[b] = IF x[b] = 1 /\ y[b] = 1 THEN 0 ELSE 1
<1> DEFINE z == and(x, y)
<1>1. z \in Words /\ \A b \in Places : z[b] = IF x[b] = 1 /\ y[b] = 1 THEN 1 ELSE 0
  BY Gates
<1> HIDE DEF z
<1>2. not(z) \in Words /\ \A b \in Places : not(z)[b] = 1 - z[b]
  BY <1>1, Inverted
<1> QED BY <1>1, <1>2 DEF z

\* ! and !! tell 0 from other words.
LEMMA Negations ==
  ASSUME NEW x
  PROVE  /\ lnot(x) = Bool(x = Word(0)) /\ lnot(lnot(x)) = Bool(x # Word(0))
         /\ lnot(x) \in Words /\ lnot(lnot(x)) \in Words
BY SpecialWords DEF lnot, Bool

\* A word that is filled with one bit.
LEMMA Filled ==
  ASSUME NEW c \in {0, 1}
  PROVE  /\ Fill(c) \in Words /\ (Fill(c) = Word(0) <=> c = 0)
         /\ \A b \in Places : Fill(c)[b] = c
         /\ Fill(c) = IF c = 0 THEN Word(0) ELSE Word(-1)
<1>1. Fill(c) \in Words /\ \A b \in Places : Fill(c)[b] = c
  BY DEF Fill, Words
<1>2. Fill(0)[0] = 0 /\ Fill(1)[0] = 1
  BY PlaceFacts DEF Fill
<1> QED BY <1>1, <1>2, SpecialWords

\* Shifts that fill a word with its highest or its lowest bit.
LEMMA Fills ==
  ASSUME NEW x \in Words
  PROVE  sar(x, MSB) = Fill(x[MSB]) /\ copyLSB(x) = Fill(x[0])
<1>1. sar(x, MSB) = Fill(x[MSB])
  <2>1. ASSUME NEW b \in Places
        PROVE  (IF b + MSB <= MSB THEN x[b + MSB] ELSE x[MSB]) = x[MSB]
    <3>1. b + MSB <= MSB => b + MSB = MSB
      BY PlaceFacts DEF Places
    <3> QED BY <3>1
  <2> QED BY <2>1 DEF sar, Fill
<1>2. copyLSB(x) = Fill(x[0])
  <2> DEFINE y == shl(x, MSB)
  <2>1. y[MSB] = x[0]
    <3>1. MSB >= MSB /\ MSB - MSB = 0 /\ MSB \in Places
      BY PlaceFacts
    <3> QED BY <3>1 DEF shl
  <2>2. ASSUME NEW b \in Places
        PROVE  (IF b + MSB <= MSB THEN y[b + MSB] ELSE y[MSB]) = x[0]
    <3>1. b + MSB <= MSB => b + MSB = MSB
      BY PlaceFacts DEF Places
    <3> HIDE DEF y
    <3> QED BY <2>1, <3>1
  <2>3. copyLSB(x) = sar(y, MSB)
    BY DEF copyLSB
  <2> HIDE DEF y
  <2> QED BY <2>2, <2>3 DEF sar, Fill
<1> QED BY <1>1, <1>2

\* bitAnd, bitXor, isNotEqual and copyLSB.
LEMMA SimplePuzzles ==
  ASSUME NEW x \in Words, NEW y \in Words
  PROVE  /\ bitAnd(x, y) = and(x, y) /\ bitXor(x, y) = xor(x, y)
         /\ isNotEqual(x, y) = Bool(x # y)
         /\ copyLSB(x) = Word(-x[0])
<1>1. bitAnd(x, y) = and(x, y)
  <2>1. not(x) \in Words /\ not(y) \in Words
    BY Gates
  <2>2. or(not(x), not(y)) \in Words
    BY <2>1, Gates
  <2>3. not(or(not(x), not(y))) \in Words /\ and(x, y) \in Words
    BY <2>2, Gates
  <2>4. \A b \in Places : not(or(not(x), not(y)))[b] = and(x, y)[b]
    BY <2>1, <2>2, Gates
  <2> QED BY <2>3, <2>4, SameBits DEF bitAnd
<1>2. bitXor(x, y) = xor(x, y)
  <2> DEFINE gate == not(and(x, y))
             u == not(and(x, gate))
             v == not(and(gate, y))
             z == not(and(u, v))
  <2>1. gate \in Words /\ \A b \in Places : gate[b] = IF x[b] = 1 /\ y[b] = 1 THEN 0 ELSE 1
    BY Nand
  <2> HIDE DEF gate
  <2>2. u \in Words /\ \A b \in Places : u[b] = IF x[b] = 1 /\ gate[b] = 1 THEN 0 ELSE 1
    BY <2>1, Nand
  <2>3. v \in Words /\ \A b \in Places : v[b] = IF gate[b] = 1 /\ y[b] = 1 THEN 0 ELSE 1
    BY <2>1, Nand
  <2> HIDE DEF u, v
  <2>4. z \in Words /\ \A b \in Places : z[b] = IF u[b] = 1 /\ v[b] = 1 THEN 0 ELSE 1
    BY <2>2, <2>3, Nand
  <2>5. bitXor(x, y) = z
    BY DEF bitXor, z, u, v, gate
  <2> HIDE DEF z
  <2>6. ASSUME NEW b \in Places PROVE z[b] = xor(x, y)[b]
    <3>1. x[b] \in {0, 1} /\ y[b] \in {0, 1} /\ xor(x, y)[b] = IF x[b] # y[b] THEN 1 ELSE 0
      BY Gates
    <3>2. /\ gate[b] = IF x[b] = 1 /\ y[b] = 1 THEN 0 ELSE 1
          /\ u[b] = IF x[b] = 1 /\ gate[b] = 1 THEN 0 ELSE 1
          /\ v[b] = IF gate[b] = 1 /\ y[b] = 1 THEN 0 ELSE 1
          /\ z[b] = IF u[b] = 1 /\ v[b] = 1 THEN 0 ELSE 1
      BY <2>1, <2>2, <2>3, <2>4
    <3> QED BY <3>1, <3>2
  <2>7. xor(x, y) \in Words
    BY Gates
  <2> QED BY <2>4, <2>5, <2>6, <2>7, SameBits
<1>3. isNotEqual(x, y) = Bool(x # y)
  <2>1. xor(x, y) = Word(0) <=> x = y
    <3>1. \A b \in Places : xor(x, y)[b] = IF x[b] # y[b] THEN 1 ELSE 0
      BY Gates
    <3>2. xor(x, y) \in Words /\ Word(0) \in Words /\ \A b \in Places : Word(0)[b] = 0
      <4>1. xor(x, y) \in Words
        BY Gates
      <4>2. Word(0) \in Words /\ \A b \in Places : Word(0)[b] = 0
        BY SpecialWords, Filled
      <4> QED BY <4>1, <4>2
    <3>3. (\A b \in Places : xor(x, y)[b] = 0) <=> x = y
      BY <3>1, SameBits
    <3> QED BY <3>2, <3>3, SameBits
  <2>2. lnot(lnot(xor(x, y))) = Bool(xor(x, y) # Word(0))
    BY Negations
  <2> QED BY <2>1, <2>2 DEF isNotEqual
<1>4. copyLSB(x) = Word(-x[0])
  <2>1. x[0] \in {0, 1}
    BY PlaceFacts DEF Words
  <2>2. copyLSB(x) = IF x[0] = 0 THEN Word(0) ELSE Word(-1)
    BY <2>1, Fills, Filled
  <2>3. \A n \in {0, 1} : -n = IF n = 0 THEN 0 ELSE -1
    OBVIOUS
  <2>4. -x[0] = IF x[0] = 0 THEN 0 ELSE -1
    BY <2>1, <2>3
  <2> QED BY <2>2, <2>4
<1> QED BY <1>1, <1>2, <1>3, <1>4

\* Operators on words that are filled with one bit.
LEMMA FilledGates ==
  ASSUME NEW a \in {0, 1}, NEW c \in {0, 1}
  PROVE  /\ xor(Fill(a), Fill(c)) = Fill(IF a # c THEN 1 ELSE 0)
         /\ and(Fill(a), Fill(c)) = Fill(IF a = 1 /\ c = 1 THEN 1 ELSE 0)
         /\ lnot(Fill(a)) = Bool(a = 0)
<1> DEFINE x == Fill(a)
           y == Fill(c)
<1>1. x \in Words /\ y \in Words /\ \A b \in Places : x[b] = a /\ y[b] = c
  BY Filled
<1>2. x = Word(0) <=> a = 0
  BY Filled
<1> HIDE DEF x, y
<1>3. /\ xor(x, y) \in Words /\ \A b \in Places : xor(x, y)[b] = IF a # c THEN 1 ELSE 0
      /\ and(x, y) \in Words /\ \A b \in Places : and(x, y)[b] = IF a = 1 /\ c = 1 THEN 1 ELSE 0
  BY <1>1, Gates
<1>4. ASSUME NEW z \in Words, NEW d \in {0, 1}, \A b \in Places : z[b] = d PROVE z = Fill(d)
  BY <1>4, Filled, SameBits
<1>5. xor(x, y) = Fill(IF a # c THEN 1 ELSE 0)
  <2> DEFINE d == IF a # c THEN 1 ELSE 0
  <2>1. d \in {0, 1} /\ \A b \in Places : xor(x, y)[b] = d
    BY <1>3
  <2> HIDE DEF d
  <2>2. xor(x, y) = Fill(d)
    BY <1>3, <1>4, <2>1
  <2> QED BY <2>2 DEF d
<1>6. and(x, y) = Fill(IF a = 1 /\ c = 1 THEN 1 ELSE 0)
  <2> DEFINE d == IF a = 1 /\ c = 1 THEN 1 ELSE 0
  <2>1. d \in {0, 1} /\ \A b \in Places : and(x, y)[b] = d
    BY <1>3
  <2> HIDE DEF d
  <2>2. and(x, y) = Fill(d)
    BY <1>3, <1>4, <2>1
  <2> QED BY <2>2 DEF d
<1>7. lnot(x) = Bool(a = 0)
  BY <1>2 DEF lnot, Bool
<1> QED BY <1>5, <1>6, <1>7 DEF x, y

\* The two versions of ternary.
LEMMA Ternary ==
  ASSUME NEW x \in Words, NEW y \in Words, NEW z \in Words
  PROVE  /\ ternary(x, y, z) = IF x # Word(0) THEN y ELSE z
         /\ submitted_ternary(x, y, z) = ternary(x, y, z)
<1> DEFINE m == copyLSB(lnot(x))
           t == and(not(m), y)
           e == and(m, z)
           r == IF x # Word(0) THEN y ELSE z
<1>1. /\ m \in Words /\ \A b \in Places : m[b] = IF x = Word(0) THEN 1 ELSE 0
  <2>1. lnot(x) \in Words /\ lnot(x)[0] = IF x = Word(0) THEN 1 ELSE 0
    <3>1. Word(1)[0] = 1 /\ Word(0)[0] = 0
      BY SpecialWords, Filled, PlaceFacts
    <3> QED BY <3>1, SpecialWords DEF lnot
  <2>2. m = Fill(lnot(x)[0])
    BY <2>1, Fills
  <2> QED BY <2>1, <2>2, Filled
<1> HIDE DEF m
<1>2. not(m) \in Words /\ \A b \in Places : not(m)[b] = 1 - m[b]
  BY <1>1, Inverted
<1>3. t \in Words /\ \A b \in Places : t[b] = IF not(m)[b] = 1 /\ y[b] = 1 THEN 1 ELSE 0
  BY <1>2, Both
<1>4. e \in Words /\ \A b \in Places : e[b] = IF m[b] = 1 /\ z[b] = 1 THEN 1 ELSE 0
  BY <1>1, Both
<1>5. ternary(x, y, z) = xor(t, e) /\ submitted_ternary(x, y, z) = or(t, e)
  BY DEF ternary, submitted_ternary, t, e, m
<1>6. r \in Words /\ \A b \in Places : y[b] \in {0, 1} /\ z[b] \in {0, 1}
  BY DEF Words
<1> HIDE DEF t, e
<1>7. /\ xor(t, e) \in Words /\ \A b \in Places : xor(t, e)[b] = IF t[b] # e[b] THEN 1 ELSE 0
      /\ or(t, e) \in Words /\ \A b \in Places : or(t, e)[b] = IF t[b] = 1 \/ e[b] = 1 THEN 1 ELSE 0
  BY <1>3, <1>4, Gates
<1>8. ASSUME NEW b \in Places PROVE xor(t, e)[b] = r[b] /\ or(t, e)[b] = r[b]
  <2>1. CASE x = Word(0)
    <3>1. m[b] = 1 /\ not(m)[b] = 0 /\ r[b] = z[b]
      BY <1>1, <1>2, <2>1
    <3>2. t[b] = 0 /\ e[b] = z[b]
      BY <1>3, <1>4, <1>6, <3>1
    <3> QED BY <1>6, <1>7, <3>1, <3>2
  <2>2. CASE x # Word(0)
    <3>1. m[b] = 0 /\ not(m)[b] = 1 /\ r[b] = y[b]
      BY <1>1, <1>2, <2>2
    <3>2. t[b] = y[b] /\ e[b] = 0
      BY <1>3, <1>4, <1>6, <3>1
    <3> QED BY <1>6, <1>7, <3>1, <3>2
  <2> QED BY <2>1, <2>2
<1>9. xor(t, e) = r /\ or(t, e) = r
  BY <1>6, <1>7, <1>8, SameBits
<1> QED BY <1>5, <1>9

\* The sign of a word, and of its opposite.
LEMMA Bang ==
  ASSUME NEW x \in Words
  PROVE  bang(x) = Bool(x \in {Word(0), TMin})
<1> DEFINE n == minus(x)
           u == unsigned(x)
           v == unsigned(n)
           d == xor(x, n)
           s == Fill(d[MSB])
<1>1. /\ n \in Words /\ v = IF u = 0 THEN 0 ELSE Span - u
      /\ bang(x) = plus(sar(d, MSB), Word(1))
  BY Opposite DEF bang
<1> HIDE DEF n
<1>2. /\ x[MSB] \in {0, 1} /\ (x[MSB] = 1 <=> u >= Half)
      /\ n[MSB] \in {0, 1} /\ (n[MSB] = 1 <=> v >= Half)
  BY <1>1, HighestBit
<1>3. d \in Words /\ d[MSB] = IF x[MSB] # n[MSB] THEN 1 ELSE 0
  BY <1>1, Gates, PlaceFacts
<1>4. u \in 0 .. Span - 1 /\ Half \in Nat \ {0} /\ Span = Half + Half
  BY UnsignedFacts, HalfFacts
<1> HIDE DEF d, u, v
<1>5. d[MSB] \in {0, 1} /\ (d[MSB] = 0 <=> u = 0 \/ u = Half)
  <2>1. CASE u = 0
    BY <1>1, <1>2, <1>3, <1>4, <2>1
  <2>2. CASE u > 0 /\ u < Half
    BY <1>1, <1>2, <1>3, <1>4, <2>2
  <2>3. CASE u = Half
    BY <1>1, <1>2, <1>3, <1>4, <2>3
  <2>4. CASE u > Half
    BY <1>1, <1>2, <1>3, <1>4, <2>4
  <2> QED BY <1>4, <2>1, <2>2, <2>3, <2>4
<1>6. x \in {Word(0), TMin} <=> u = 0 \/ u = Half
  BY SpecialWords, SameNumbers DEF u
<1>7. bang(x) = plus(s, Word(1))
  BY <1>1, <1>3, Fills
<1>8. CASE d[MSB] = 0
  <2>1. s = Word(0)
    BY <1>8, Filled
  <2>2. plus(Word(0), Word(1)) \in Words /\ unsigned(plus(Word(0), Word(1))) = wrapped(0 + 1)
    BY SpecialWords, SumOfWords
  <2>3. wrapped(0 + 1) = 1
    BY HalfFacts DEF wrapped
  <2>4. plus(Word(0), Word(1)) = Word(1)
    BY <2>2, <2>3, SpecialWords, SameNumbers
  <2> QED BY <1>5, <1>6, <1>7, <1>8, <2>1, <2>4 DEF Bool
<1>9. CASE d[MSB] = 1
  <2>1. s = Fill(1) /\ s \in Words /\ not(Word(0)) \in Words
    BY <1>9, Filled, SpecialWords, Inverted
  <2>2. \A b \in Places : s[b] = not(Word(0))[b]
    <3>1. \A b \in Places : s[b] = 1 /\ Word(0)[b] = 0
      BY <2>1, Filled, SpecialWords
    <3> QED BY <3>1, SpecialWords, Inverted
  <2>3. s = not(Word(0))
    BY <2>1, <2>2, SameBits
  <2>4. unsigned(s) = Span - 1
    BY <2>3, SpecialWords, Complement, HalfFacts
  <2> HIDE DEF s
  <2>5. plus(s, Word(1)) \in Words /\ unsigned(plus(s, Word(1))) = wrapped(Span - 1 + 1)
    BY <2>1, <2>4, SpecialWords, SumOfWords
  <2>6. wrapped(Span - 1 + 1) = 0
    BY HalfFacts DEF wrapped
  <2>7. plus(s, Word(1)) = Word(0)
    BY <2>5, <2>6, SpecialWords, SameNumbers
  <2> QED BY <1>5, <1>6, <1>7, <1>9, <2>7 DEF Bool
<1> QED BY <1>5, <1>8, <1>9

\* isNonNegative and tmax.
LEMMA SignPuzzles ==
  ASSUME NEW x \in Words
  PROVE  isNonNegative(x) = Bool(int(x) >= 0) /\ int(tmax) = MaxInt
<1>1. isNonNegative(x) = Bool(int(x) >= 0)
  <2>1. x[MSB] \in {0, 1} /\ int(x) = IF x[MSB] = 1 THEN unsigned(x) - Span ELSE unsigned(x)
    BY HighestBit
  <2>2. unsigned(x) \in 0 .. Span - 1 /\ Span \in Nat
    BY UnsignedFacts, HalfFacts
  <2>3. int(x) >= 0 <=> x[MSB] = 0
    BY <2>1, <2>2
  <2>4. isNonNegative(x) = Bool(x[MSB] = 0)
    BY <2>1, Fills, FilledGates DEF isNonNegative
  <2> QED BY <2>3, <2>4 DEF Bool
<1>2. int(tmax) = MaxInt
  <2>1. tmax = not(TMin) /\ TMin \in Words /\ unsigned(TMin) = Half
    BY SpecialWords DEF tmax, TMin
  <2>2. tmax \in Words /\ unsigned(tmax) = Span - 1 - Half
    BY <2>1, Complement
  <2>3. /\ tmax[MSB] \in {0, 1} /\ (tmax[MSB] = 1 <=> unsigned(tmax) >= Half)
        /\ int(tmax) = IF tmax[MSB] = 1 THEN unsigned(tmax) - Span ELSE unsigned(tmax)
    BY <2>2, HighestBit
  <2> QED BY <2>2, <2>3, HalfFacts DEF MaxInt, Half
<1> QED BY <1>1, <1>2

\* A sum fits when its sign differs from not more than one of the two.
LEMMA AddOK ==
  ASSUME NEW x \in Words, NEW y \in Words
  PROVE  addOK(x, y) = Bool(int(x) + int(y) \in -(MaxInt + 1) .. MaxInt)
<1> DEFINE z == plus(x, y)
           n == unsigned(x) + unsigned(y)
<1>1. z \in Words /\ unsigned(z) = IF n >= Span THEN n - Span ELSE n
  BY SumOfWords DEF wrapped
<1> HIDE DEF z
<1>2. /\ x[MSB] \in {0, 1} /\ y[MSB] \in {0, 1} /\ z[MSB] \in {0, 1}
      /\ (x[MSB] = 1 <=> unsigned(x) >= Half) /\ (y[MSB] = 1 <=> unsigned(y) >= Half)
      /\ (z[MSB] = 1 <=> unsigned(z) >= Half)
      /\ int(x) = IF x[MSB] = 1 THEN unsigned(x) - Span ELSE unsigned(x)
      /\ int(y) = IF y[MSB] = 1 THEN unsigned(y) - Span ELSE unsigned(y)
  BY <1>1, HighestBit
<1>3. unsigned(x) \in 0 .. Span - 1 /\ unsigned(y) \in 0 .. Span - 1
  BY UnsignedFacts
<1>4. Half \in Nat \ {0} /\ Span = Half + Half /\ MaxInt = Half - 1
  BY HalfFacts DEF MaxInt, Half
<1> DEFINE a == IF x[MSB] # z[MSB] THEN 1 ELSE 0
           c == IF y[MSB] # z[MSB] THEN 1 ELSE 0
           d == IF a = 1 /\ c = 1 THEN 1 ELSE 0
<1>5. addOK(x, y) = Bool(d = 0)
  <2>1. /\ sar(x, MSB) = Fill(x[MSB]) /\ sar(y, MSB) = Fill(y[MSB]) /\ sar(z, MSB) = Fill(z[MSB])
    BY <1>1, Fills
  <2>2. xor(Fill(x[MSB]), Fill(z[MSB])) = Fill(a) /\ xor(Fill(y[MSB]), Fill(z[MSB])) = Fill(c)
    BY <1>2, FilledGates
  <2>3. a \in {0, 1} /\ c \in {0, 1} /\ d \in {0, 1}
    OBVIOUS
  <2>4. addOK(x, y) = lnot(and(xor(sar(x, MSB), sar(z, MSB)), xor(sar(y, MSB), sar(z, MSB))))
    BY DEF addOK, z
  <2> HIDE DEF a, c
  <2>5. and(Fill(a), Fill(c)) = Fill(d)
    BY <2>3, FilledGates
  <2> HIDE DEF d
  <2>6. lnot(Fill(d)) = Bool(d = 0)
    BY <2>3, FilledGates
  <2> QED BY <2>1, <2>2, <2>4, <2>5, <2>6
<1>6. d = 0 <=> x[MSB] = z[MSB] \/ y[MSB] = z[MSB]
  OBVIOUS
<1> HIDE DEF a, c, d
<1>7. d = 0 <=> int(x) + int(y) \in -(MaxInt + 1) .. MaxInt
  <2>1. CASE x[MSB] = 0 /\ y[MSB] = 0
    BY <1>1, <1>2, <1>3, <1>4, <1>6, <2>1
  <2>2. CASE x[MSB] = 1 /\ y[MSB] = 1
    BY <1>1, <1>2, <1>3, <1>4, <1>6, <2>2
  <2>3. CASE x[MSB] # y[MSB]
    BY <1>1, <1>2, <1>3, <1>4, <1>6, <2>3
  <2> QED BY <1>2, <2>1, <2>2, <2>3
<1> QED BY <1>5, <1>7 DEF Bool

\* x - 1, computed without a minus.
LEMMA Predecessor ==
  ASSUME NEW x \in Words
  PROVE  /\ predecessor(x) \in Words
         /\ unsigned(predecessor(x)) = IF unsigned(x) = 0 THEN Span - 1 ELSE unsigned(x) - 1
<1> DEFINE y == not(Word(1))
           z == plus(x, y)
           e == Word(1)
<1>1. e \in Words /\ unsigned(e) = 1
  BY SpecialWords
<1>2. y \in Words /\ unsigned(y) = Span - 1 - 1
  BY <1>1, Complement
<1> HIDE DEF y, e
<1>3. z \in Words /\ unsigned(z) = wrapped(unsigned(x) + unsigned(y))
  BY <1>2, SumOfWords
<1> HIDE DEF z
<1>4. plus(z, e) \in Words /\ unsigned(plus(z, e)) = wrapped(unsigned(z) + unsigned(e))
  BY <1>1, <1>3, SumOfWords
<1>5. unsigned(x) \in 0 .. Span - 1 /\ Span \in Nat /\ Span > 2
  BY UnsignedFacts, HalfFacts
<1>6. predecessor(x) = plus(z, e)
  BY DEF predecessor, z, y, e
<1> QED BY <1>1, <1>2, <1>3, <1>4, <1>5, <1>6 DEF wrapped

\* One less than a number that is no multiple of a power has the same bit there.
LEMMA BitOfPredecessor ==
  ASSUME NEW n \in Int, NEW b \in Nat, n % 2^b # 0
  PROVE  bit(n - 1, b) = bit(n, b)
<1> DEFINE P == 2^b
           q == n \div P
           r == n % P
           y == n - 1
           s == r - 1
<1>1. P \in Nat \ {0} /\ q \in Int /\ r \in 0 .. P - 1 /\ n = P * q + r
  BY Powers, Division
<1>2. s \in 0 .. P - 1 /\ y = P * q + s
  <2> HIDE DEF P, q, r
  <2>1. r # 0
    BY DEF P, r
  <2> QED BY <1>1, <2>1
<1> HIDE DEF P, q, r, y, s
<1>3. y \div P = q
  BY <1>1, <1>2, Divided
<1> QED BY <1>3 DEF bit, P, q, y

\* A number with a bit is no multiple of a larger power.
LEMMA NoMultiple ==
  ASSUME NEW n \in Int, NEW k \in Nat, NEW b \in Nat, k < b, bit(n, k) = 1
  PROVE  n % 2^b # 0
<1> SUFFICES ASSUME n % 2^b = 0 PROVE FALSE
  OBVIOUS
<1> DEFINE P == 2^b
           q == n \div P
<1>1. P \in Nat \ {0} /\ q \in Int /\ n = P * q + (n % P) /\ n % P = 0
  BY Powers, Division
<1>2. n = 0 + q * 2^b
  <2> HIDE DEF q
  <2>1. n = P * q
    BY <1>1
  <2> QED BY <1>1, <2>1
<1> HIDE DEF P, q
<1>3. bit(0 + q * 2^b, k) = bit(0, k)
  <2> DEFINE z == 0
  <2>1. z \in Int
    OBVIOUS
  <2> HIDE DEF z
  <2>2. bit(z + q * 2^b, k) = bit(z, k)
    BY <1>1, <2>1, LowBits
  <2> QED BY <2>2 DEF z
<1> QED BY <1>2, <1>3, BitsOfPowers

\* A word has no bit in common with its predecessor when it has one bit or none.
LEMMA OneBit ==
  ASSUME NEW x \in Words, unsigned(x) # 0
  PROVE  and(x, predecessor(x)) = Word(0) <=> \E n \in Places : unsigned(x) = 2^n
<1> DEFINE u == unsigned(x)
           w == predecessor(x)
           c == and(x, w)
<1>1. u \in 0 .. Span - 1 /\ \A b \in Places : bit(u, b) = x[b]
  BY UnsignedFacts
<1>2. w \in Words /\ unsigned(w) = u - 1
  BY Predecessor
<1>3. \A b \in Places : bit(u - 1, b) = w[b]
  BY <1>2, UnsignedFacts
<1> HIDE DEF w
<1>4. c \in Words /\ \A b \in Places : c[b] = IF x[b] = 1 /\ w[b] = 1 THEN 1 ELSE 0
  BY <1>2, Both
<1>5. c = Word(0) <=> \A b \in Places : c[b] = 0
  <2>1. Word(0) \in Words /\ \A b \in Places : Word(0)[b] = 0
    BY SpecialWords, Filled
  <2> HIDE DEF c
  <2> QED BY <1>4, <2>1, SameBits
<1> HIDE DEF u, c
<1>6. ASSUME NEW n \in Places, u = 2^n PROVE c = Word(0)
  <2>1. n \in Nat /\ 2^n \in Nat \ {0}
    BY Powers, PlaceFacts
  <2>2. \A b \in Places : b # n => x[b] = 0
    BY <1>1, <1>6, <2>1, BitsOfPowers, PlaceFacts
  <2>3. w[n] = 0
    <3> DEFINE v == u - 1
    <3>1. v \in 0 .. 2^n - 1 /\ v + 0 * 2^n = v
      BY <1>6, <2>1
    <3> HIDE DEF v
    <3>2. bit(v + 0 * 2^n, n) = 0
      BY <2>1, <3>1, TopBit
    <3> QED BY <1>3, <3>1, <3>2 DEF v
  <2>4. \A b \in Places : c[b] = 0
    BY <1>4, <2>2, <2>3
  <2> QED BY <1>5, <2>4
<1>7. ASSUME c = Word(0) PROVE \E n \in Places : u = 2^n
  <2> DEFINE T == {b \in Places : x[b] = 1}
  <2>1. T # {}
    <3> SUFFICES ASSUME \A b \in Places : x[b] # 1 PROVE FALSE
      OBVIOUS
    <3>1. \A b \in Places : x[b] = Word(0)[b] /\ Word(0) \in Words
      BY SpecialWords, Filled DEF Words
    <3>2. x = Word(0)
      BY <3>1, SpecialWords, SameBits
    <3> QED BY <3>2, SpecialWords
  <2>2. T \subseteq Nat
    BY PlaceFacts
  <2>3. PICK k \in T : \A b \in T : k <= b
    BY <2>1, <2>2, Least
  <2>4. k \in Places /\ k \in Nat /\ x[k] = 1 /\ \A b \in Places : b < k => x[b] # 1
    BY <2>2, <2>3, PlaceFacts
  <2> HIDE DEF T
  <2>5. ASSUME NEW b \in Places, b # k PROVE x[b] = 0
    <3>1. x[b] \in {0, 1} /\ b \in Nat /\ u \in Int
      BY <1>1, PlaceFacts DEF Words
    <3>2. CASE b < k
      BY <2>4, <3>1, <3>2
    <3>3. CASE k < b
      <4>1. bit(u, k) = 1
        BY <1>1, <2>4
      <4>2. bit(u - 1, b) = bit(u, b)
        BY <2>4, <3>1, <3>3, <4>1, NoMultiple, BitOfPredecessor
      <4>3. w[b] = x[b]
        BY <1>1, <1>3, <4>2
      <4>4. c[b] = 0
        BY <1>5, <1>7
      <4> QED BY <1>4, <3>1, <4>3, <4>4
    <3> QED BY <2>4, <2>5, <3>1, <3>2, <3>3
  <2>6. 2^k \in 0 .. Span - 1
    <3>1. k < W /\ W \in Nat /\ 2^k \in Nat
      BY <2>4, Powers, PlaceFacts DEF Places
    <3> QED BY <2>4, <3>1, PowerOrder, HalfFacts DEF Span
  <2>7. Word(2^k) \in Words /\ \A b \in Places : Word(2^k)[b] = IF b = k THEN 1 ELSE 0
    <3>1. 2^k \in Int
      BY <2>6
    <3>2. \A b \in Places : bit(2^k, b) = IF b = k THEN 1 ELSE 0
      BY <2>4, BitsOfPowers, PlaceFacts
    <3> QED BY <3>1, <3>2, WordType
  <2>8. x = Word(2^k)
    BY <2>4, <2>5, <2>7, SameBits
  <2>9. u = 2^k
    BY <2>6, <2>8, SmallNumbers DEF u
  <2> QED BY <2>4, <2>9
<1> QED BY <1>6, <1>7 DEF c, w, u

\* and of truth values.
LEMMA BothTrue ==
  ASSUME NEW a \in BOOLEAN, NEW c \in BOOLEAN
  PROVE  and(Bool(a), Bool(c)) = Bool(a /\ c)
<1>1. ASSUME NEW x \in Words
      PROVE  and(x, x) = x /\ and(Word(0), x) = Word(0) /\ and(x, Word(0)) = Word(0)
  <2>1. Word(0) \in Words /\ \A b \in Places : Word(0)[b] = 0 /\ x[b] \in {0, 1}
    BY SpecialWords, Filled DEF Words
  <2> DEFINE z == Word(0)
  <2> HIDE DEF z
  <2>2. z \in Words /\ \A b \in Places : z[b] = 0 /\ x[b] \in {0, 1}
    BY <2>1 DEF z
  <2>3. /\ and(x, x) \in Words /\ \A b \in Places : and(x, x)[b] = x[b]
        /\ and(z, x) \in Words /\ \A b \in Places : and(z, x)[b] = z[b]
        /\ and(x, z) \in Words /\ \A b \in Places : and(x, z)[b] = z[b]
    BY <2>2, Both
  <2> QED BY <2>2, <2>3, SameBits DEF z
<1>2. Word(0) \in Words /\ Word(1) \in Words
  BY SpecialWords
<1> QED BY <1>1, <1>2 DEF Bool

\* The two versions of isPower2.
LEMMA IsPower2 ==
  ASSUME NEW x \in Words
  PROVE  /\ submitted_isPower2(x) = Bool(is_power_of_2(x))
         /\ x # TMin => isPower2(x) = Bool(is_power_of_2(x))
<1> DEFINE u == unsigned(x)
           o == minus(Word(1))
           m == xor(o, shl(Word(1), MSB))
           c == and(x, m)
           d == and(x, predecessor(x))
           Few == \E n \in 0 .. MSB - 1 : int(x) = 2^n
<1>1. u \in 0 .. Span - 1 /\ Half \in Nat /\ Span = Half + Half /\ Half > 1
  BY UnsignedFacts, HalfFacts
<1>2. \A b \in Places : x[b] \in {0, 1} /\ bit(u, b) = x[b]
  BY UnsignedFacts DEF Words
<1>3. o \in Words /\ \A b \in Places : o[b] = 1
  <2>1. Word(1) \in Words /\ unsigned(Word(1)) = 1
    BY SpecialWords
  <2>2. o \in Words /\ unsigned(o) = Span - 1
    BY <2>1, Opposite
  <2> DEFINE z == Word(0)
  <2>3. z \in Words /\ unsigned(z) = 0 /\ \A b \in Places : z[b] = 0
    BY SpecialWords, Filled
  <2> HIDE DEF o, z
  <2>4. not(z) \in Words /\ unsigned(not(z)) = Span - 1 /\ \A b \in Places : not(z)[b] = 1
    BY <1>1, <2>3, Complement, Inverted
  <2>5. o = not(z)
    BY <2>2, <2>4, SameNumbers
  <2> QED BY <2>2, <2>4, <2>5
<1> HIDE DEF o
<1>4. m \in Words /\ \A b \in Places : m[b] = IF b = MSB THEN 0 ELSE 1
  <2>1. m = xor(o, TMin) /\ TMin \in Words /\ \A b \in Places : TMin[b] = IF b = MSB THEN 1 ELSE 0
    BY SpecialWords DEF TMin
  <2> HIDE DEF m
  <2> QED BY <1>3, <2>1, Gates
<1> HIDE DEF m
<1>5. c \in Words /\ \A b \in Places : c[b] = IF x[b] = 1 /\ b # MSB THEN 1 ELSE 0
  BY <1>4, Both
<1>6. c # Word(0) <=> \E b \in Places : b # MSB /\ x[b] = 1
  <2>1. Word(0) \in Words /\ \A b \in Places : Word(0)[b] = 0
    BY SpecialWords, Filled
  <2> HIDE DEF c
  <2>2. c = Word(0) <=> \A b \in Places : c[b] = 0
    BY <1>5, <2>1, SameBits
  <2> QED BY <1>5, <2>2
<1>7. x = Word(0) <=> u = 0
  BY SpecialWords, SameNumbers
<1>8. u # 0 => (d = Word(0) <=> \E n \in Places : u = 2^n)
  BY OneBit
<1>9. x = TMin <=> u = 2^MSB
  BY SpecialWords, SameNumbers DEF Half
<1>10. \A n \in Places : n \in Nat /\ 2^n \in Nat \ {0} /\ (n # MSB <=> n \in 0 .. MSB - 1)
                         /\ (n # MSB => 2^n < Half)
  BY Powers, PowerOrder, PlaceFacts DEF Half, Places
<1>11. /\ x[MSB] \in {0, 1} /\ (x[MSB] = 1 <=> u >= Half)
       /\ int(x) = IF x[MSB] = 1 THEN u - Span ELSE u
  BY HighestBit
<1> HIDE DEF u, c, d
<1>12. Few <=> \E n \in Places : n # MSB /\ u = 2^n
  <2>1. ASSUME NEW n \in Places, n # MSB PROVE int(x) = 2^n <=> u = 2^n
    BY <1>1, <1>10, <1>11, <2>1
  <2>2. \A n \in 0 .. MSB - 1 : n \in Places /\ n # MSB
    BY PlaceFacts DEF Places
  <2> QED BY <1>10, <2>1, <2>2
<1>13. \A n \in Places : u = 2^n => \A b \in Places : x[b] = IF b = n THEN 1 ELSE 0
  BY <1>2, BitsOfPowers, PlaceFacts
<1>14. (c # Word(0) /\ x # Word(0)) /\ d = Word(0) <=> Few
  <2>1. ASSUME c # Word(0), x # Word(0), d = Word(0) PROVE Few
    <3>1. PICK n \in Places : u = 2^n
      BY <1>7, <1>8, <2>1
    <3>2. PICK b \in Places : b # MSB /\ x[b] = 1
      BY <1>6, <2>1
    <3>3. n # MSB
      BY <1>13, <3>1, <3>2
    <3> QED BY <1>12, <3>1, <3>3
  <2>2. ASSUME Few PROVE c # Word(0) /\ x # Word(0) /\ d = Word(0)
    <3>1. PICK n \in Places : n # MSB /\ u = 2^n
      BY <1>12, <2>2
    <3>2. u # 0 /\ x[n] = 1
      BY <1>10, <1>13, <3>1
    <3> QED BY <1>6, <1>7, <1>8, <3>1, <3>2
  <2> HIDE DEF Few
  <2> QED BY <2>1, <2>2
<1> HIDE DEF Few
<1>15. lnot(lnot(c)) = Bool(c # Word(0)) /\ lnot(lnot(x)) = Bool(x # Word(0))
       /\ lnot(d) = Bool(d = Word(0))
  BY Negations
<1>16. submitted_isPower2(x) = Bool(Few)
  <2>1. submitted_isPower2(x) = and(and(lnot(lnot(c)), lnot(lnot(x))), lnot(d))
    BY DEF submitted_isPower2, c, d, m, o
  <2>2. and(Bool(c # Word(0)), Bool(x # Word(0))) = Bool(c # Word(0) /\ x # Word(0))
    BY BothTrue
  <2>3. and(Bool(c # Word(0) /\ x # Word(0)), Bool(d = Word(0)))
          = Bool((c # Word(0) /\ x # Word(0)) /\ d = Word(0))
    BY BothTrue
  <2>4. Bool((c # Word(0) /\ x # Word(0)) /\ d = Word(0)) = Bool(Few)
    BY <1>14 DEF Bool
  <2> QED BY <1>15, <2>1, <2>2, <2>3, <2>4
<1>17. isPower2(x) = Bool(Few \/ x = TMin)
  <2>1. isPower2(x) = and(lnot(lnot(x)), lnot(d))
    BY DEF isPower2, d
  <2>2. and(Bool(x # Word(0)), Bool(d = Word(0))) = Bool(x # Word(0) /\ d = Word(0))
    BY BothTrue
  <2>3. x # Word(0) /\ d = Word(0) <=> Few \/ x = TMin
    <3>1. x # Word(0) /\ d = Word(0) <=> \E n \in Places : u = 2^n
      BY <1>7, <1>8, <1>10
    <3> QED BY <1>9, <1>12, <3>1, PlaceFacts
  <2> QED BY <1>15, <2>1, <2>2, <2>3 DEF Bool
<1>18. Few <=> is_power_of_2(x)
  BY DEF Few, is_power_of_2
<1> QED BY <1>16, <1>17, <1>18 DEF Bool

\* The puzzles are right for each pair of words of any width.
LEMMA EachPuzzle ==
  ASSUME NEW x \in Words
  PROVE  PuzzleRight(x)
<1>1. ASSUME NEW y \in Words
      PROVE  /\ bitAnd(x, y) = and(x, y) /\ bitXor(x, y) = xor(x, y)
             /\ isNotEqual(x, y) = Bool(x # y)
             /\ addOK(x, y) = Bool(int(x) + int(y) \in -(MaxInt + 1) .. MaxInt)
  BY SimplePuzzles, AddOK
<1>2. ASSUME NEW y \in Words, NEW z \in {not(y), Word(5)}
      PROVE  /\ ternary(x, y, z) = IF x # Word(0) THEN y ELSE z
             /\ submitted_ternary(x, y, z) = ternary(x, y, z)
  <2>1. z \in Words
    BY Inverted, WordType
  <2> QED BY <2>1, Ternary
<1>3. copyLSB(x) = Word(-x[0])
  BY SimplePuzzles
<1>4. x # TMin => bang(x) = Bool(x = Word(0))
  BY Bang DEF Bool
<1>5. isNonNegative(x) = Bool(int(x) >= 0) /\ int(tmax) = MaxInt
  BY SignPuzzles
<1>6. /\ submitted_isPower2(x) = Bool(is_power_of_2(x))
      /\ x # TMin => isPower2(x) = Bool(is_power_of_2(x))
  BY IsPower2
<1> QED BY <1>1, <1>2, <1>3, <1>4, <1>5, <1>6 DEF PuzzleRight

\* The puzzles compute what their comments say, for words of any width: but
\* for the most negative word bang and isPower2 of bits.c are left out.
THEOREM PuzzlesAreRight == BitsSpec => []PuzzlesRight
<1>1. PuzzlesRight
  BY EachPuzzle DEF PuzzlesRight
<1> QED BY <1>1, PTL
-----------------------------------------------------------------------------
(* The puzzles on floats *)

\* A quotient stays when both numbers are multiplied.
LEMMA Cancelled ==
  ASSUME NEW m \in Nat \ {0}, NEW n \in Nat \ {0}, NEW x \in Int
  PROVE  (m * x) \div (m * n) = x \div n
<1> DEFINE q == x \div n
           r == x % n
           y == m * x
           d == m * n
           s == m * r
<1>1. q \in Int /\ r \in 0 .. n - 1 /\ x = n * q + r
  BY Division
<1> HIDE DEF q, r
<1>2. d \in Nat \ {0} /\ d = m * n
  OBVIOUS
<1>3. s \in Nat /\ s + m <= d
  <2>1. m * (r + 1) <= m * n
    BY <1>1, Products
  <2>2. m * (r + 1) = m * r + m /\ m * r \in Nat
    BY <1>1
  <2> QED BY <2>1, <2>2
<1>4. y = d * q + s
  <2>1. m * (n * q + r) = (m * n) * q + m * r
    BY <1>1
  <2> QED BY <1>1, <2>1
<1> HIDE DEF y, d, s
<1>5. s \in 0 .. d - 1
  BY <1>2, <1>3
<1>6. y \div d = q
  BY <1>1, <1>2, <1>4, <1>5, Divided
<1> QED BY <1>6 DEF y, d, q

\* A quotient of a quotient.
LEMMA DividedTwice ==
  ASSUME NEW m \in Nat \ {0}, NEW n \in Nat \ {0}, NEW x \in Int
  PROVE  (x \div m) \div n = x \div (m * n)
<1> DEFINE y == x \div m
           r == x % m
           q == y \div n
           s == y % n
           d == m * n
           t == m * s + r
<1>1. y \in Int /\ r \in 0 .. m - 1 /\ x = m * y + r
  BY Division
<1> HIDE DEF y, r
<1>2. q \in Int /\ s \in 0 .. n - 1 /\ y = n * q + s
  BY <1>1, Division
<1> HIDE DEF q, s
<1>3. d \in Nat \ {0}
  OBVIOUS
<1>4. t \in 0 .. d - 1
  <2>1. m * (s + 1) <= m * n
    BY <1>2, Products
  <2>2. m * (s + 1) = m * s + m /\ m * s \in Nat
    BY <1>2
  <2> QED BY <1>1, <2>1, <2>2
<1>5. x = d * q + t
  <2>1. m * (n * q + s) = (m * n) * q + m * s
    BY <1>2
  <2>2. (m * n) * q \in Int /\ m * s \in Int
    BY <1>2
  <2> QED BY <1>1, <1>2, <2>1, <2>2
<1> HIDE DEF d, t
<1>6. x \div d = q
  BY <1>1, <1>2, <1>3, <1>4, <1>5, Divided
<1> QED BY <1>6 DEF d, q, y

\* A number below a power has no bit from there on.
LEMMA NoHighBits ==
  ASSUME NEW k \in Nat, NEW n \in 0 .. 2^k - 1, NEW b \in Nat, k <= b
  PROVE  bit(n, b) = 0
<1>1. 2^k <= 2^b /\ 2^k \in Nat /\ 2^b \in Nat
  BY Powers, PowerOrder
<1>2. n \in 0 .. 2^b - 1 /\ n + 0 * 2^b = n
  BY <1>1
<1>3. bit(n + 0 * 2^b, b) = 0
  BY <1>2, TopBit
<1> QED BY <1>2, <1>3

\* The bits of a remainder are the low ones.
LEMMA BitsOfRemainder ==
  ASSUME NEW n \in Int, NEW k \in Nat, NEW b \in Nat
  PROVE  bit(n % 2^k, b) = IF b < k THEN bit(n, b) ELSE 0
<1> DEFINE P == 2^k
           q == n \div P
           r == n % P
<1>1. P \in Nat \ {0} /\ q \in Int /\ r \in 0 .. P - 1 /\ n = P * q + r
  BY Powers, Division
<1>2. P * q = q * P
  <2> HIDE DEF q, P
  <2> QED BY <1>1
<1>3. n = r + q * 2^k /\ r \in 0 .. 2^k - 1 /\ r \in Int
  <2>1. q * P \in Int
    <3> HIDE DEF q, P
    <3> QED BY <1>1
  <2> QED BY <1>1, <1>2, <2>1
<1> HIDE DEF q, r
<1>4. CASE b < k
  <2>1. bit(r + q * 2^k, b) = bit(r, b)
    BY <1>1, <1>3, <1>4, LowBits
  <2> QED BY <1>3, <1>4, <2>1 DEF r
<1>5. CASE ~(b < k)
  <2>1. bit(r, b) = 0
    BY <1>3, <1>5, NoHighBits
  <2> QED BY <1>5, <2>1 DEF r
<1> QED BY <1>4, <1>5

\* A mask of low bits takes the remainder.
LEMMA Masked ==
  ASSUME NEW x \in Words, NEW k \in 0 .. W
  PROVE  /\ and(x, Word(2^k - 1)) \in Words
         /\ unsigned(and(x, Word(2^k - 1))) = unsigned(x) % 2^k
         /\ unsigned(x) % 2^k \in 0 .. 2^k - 1
         /\ \A b \in Places : and(x, Word(2^k - 1))[b] = IF b < k THEN x[b] ELSE 0
<1> DEFINE u == unsigned(x)
           v == 2^k - 1
           m == Word(v)
           r == u % 2^k
<1>1. k \in Nat /\ 2^k \in Nat \ {0} /\ v \in Int /\ v \in 0 .. 2^k - 1 /\ W \in Nat
  BY Powers, PlaceFacts
<1>2. u \in Int /\ \A b \in Places : bit(u, b) = x[b] /\ x[b] \in {0, 1} /\ b \in Nat
  BY UnsignedFacts, PlaceFacts DEF Words
<1>3. ASSUME NEW b \in Places PROVE bit(v, b) = IF b < k THEN 1 ELSE 0
  <2>1. CASE b < k
    <3> DEFINE z == -1
               e == 1
    <3>1. z \in Int /\ e \in Int /\ v = z + e * 2^k
      BY <1>1
    <3> HIDE DEF z, e, v
    <3>2. bit(z + e * 2^k, b) = bit(z, b)
      BY <1>1, <1>2, <2>1, <3>1, LowBits
    <3>3. bit(z, b) = 1
      BY <1>2, BitsOfPowers DEF z
    <3> QED BY <2>1, <3>1, <3>2, <3>3
  <2>2. CASE ~(b < k)
    <3> HIDE DEF v
    <3> QED BY <1>1, <1>2, <2>2, NoHighBits
  <2> QED BY <2>1, <2>2
<1> HIDE DEF v
<1>4. m \in Words /\ \A b \in Places : m[b] = IF b < k THEN 1 ELSE 0
  BY <1>1, <1>3, WordType
<1> HIDE DEF m
<1>5. and(x, m) \in Words /\ \A b \in Places : and(x, m)[b] = IF b < k THEN x[b] ELSE 0
  BY <1>2, <1>4, Both
<1> HIDE DEF u
<1>6. r \in 0 .. 2^k - 1
  BY <1>1, <1>2, Division
<1>7. r \in 0 .. Span - 1 /\ r \in Int
  <2>1. 2^k <= 2^W
    BY <1>1, PowerOrder
  <2> HIDE DEF r
  <2> QED BY <1>1, <1>6, <2>1, HalfFacts DEF Span
<1>8. \A b \in Places : bit(r, b) = IF b < k THEN x[b] ELSE 0
  BY <1>1, <1>2, BitsOfRemainder
<1> HIDE DEF r
<1>9. Word(r) \in Words /\ \A b \in Places : Word(r)[b] = bit(r, b)
  BY <1>7, WordType
<1>10. and(x, m) = Word(r)
  BY <1>5, <1>8, <1>9, SameBits
<1>11. unsigned(and(x, m)) = r
  BY <1>7, <1>10, SmallNumbers
<1> QED BY <1>5, <1>6, <1>11 DEF m, v, r, u

\* A shift to the right divides.
LEMMA ShiftedRight ==
  ASSUME NEW x \in Words, NEW n \in Nat
  PROVE  /\ shr(x, n) \in Words
         /\ unsigned(shr(x, n)) = unsigned(x) \div 2^n
<1> DEFINE u == unsigned(x)
           y == shr(x, n)
           q == u \div 2^n
<1>1. u \in 0 .. Span - 1 /\ \A b \in Places : bit(u, b) = x[b] /\ x[b] \in {0, 1} /\ b \in Nat
  BY UnsignedFacts, PlaceFacts DEF Words
<1>2. \A b \in Places : y[b] = IF b + n <= MSB THEN x[b + n] ELSE 0
  BY DEF shr
<1>3. y \in Words
  <2>1. \A b \in Places : b + n <= MSB => b + n \in Places
    BY <1>1, PlaceFacts DEF Places
  <2>2. \A b \in Places : y[b] \in {0, 1}
    BY <1>1, <1>2, <2>1
  <2>3. y = [b \in Places |-> y[b]]
    BY DEF shr
  <2> HIDE DEF y
  <2> QED BY <2>2, <2>3 DEF Words
<1> HIDE DEF u, y
<1>4. q \in Int /\ 2^n \in Nat \ {0} /\ u \in Nat /\ u \in Int
  BY <1>1, Powers, Division, HalfFacts
<1>5. q \in 0 .. Span - 1
  <2> DEFINE P == 2^n
             r == u % P
  <2>1. P \in Nat \ {0} /\ r \in 0 .. P - 1 /\ u = P * q + r
    BY <1>4, Division
  <2> HIDE DEF P, q, r
  <2>2. ASSUME q < 0 PROVE FALSE
    <3>1. P * q <= P * (-1)
      BY <1>4, <2>1, <2>2, Products
    <3>2. P * q \in Int /\ P * (-1) = -P
      BY <1>4, <2>1
    <3> QED BY <1>4, <2>1, <3>1, <3>2
  <2>3. ASSUME q > u PROVE FALSE
    <3>1. q <= P * q
      BY <1>4, <2>1, <2>3
    <3>2. P * q \in Int
      BY <1>4, <2>1
    <3> QED BY <1>4, <2>1, <2>3, <3>1, <3>2
  <2> QED BY <1>1, <1>4, <2>2, <2>3, HalfFacts
<1>6. ASSUME NEW b \in Places PROVE bit(q, b) = y[b]
  <2>1. 2^(n + b) = 2^n * 2^b /\ 2^b \in Nat \ {0}
    BY <1>1, Powers, PowerSum
  <2>2. q \div 2^b = u \div (2^n * 2^b)
    BY <1>4, <2>1, DividedTwice
  <2>3. bit(q, b) = bit(u, n + b)
    BY <2>1, <2>2 DEF bit
  <2>4. CASE b + n <= MSB
    <3>1. b + n \in Places /\ n + b = b + n
      BY <1>1, <2>4, PlaceFacts DEF Places
    <3> QED BY <1>1, <1>2, <2>3, <2>4, <3>1
  <2>5. CASE ~(b + n <= MSB)
    <3>1. n + b \in Nat /\ W <= n + b /\ W \in Nat
      BY <1>1, <2>5, PlaceFacts
    <3>2. bit(u, n + b) = 0
      BY <1>1, <3>1, NoHighBits DEF Span
    <3> QED BY <1>2, <2>3, <2>5, <3>2
  <2> QED BY <2>4, <2>5
<1> HIDE DEF q
<1>7. Word(q) \in Words /\ \A b \in Places : Word(q)[b] = bit(q, b)
  BY <1>4, WordType
<1>8. y = Word(q)
  BY <1>3, <1>6, <1>7, SameBits
<1>9. unsigned(y) = q
  BY <1>5, <1>8, SmallNumbers
<1> QED BY <1>3, <1>9 DEF y, q, u

\* A shift to the left multiplies, unless the product is too large.
LEMMA ShiftedLeft ==
  ASSUME NEW x \in Words, NEW n \in Nat, unsigned(x) * 2^n \in 0 .. Span - 1
  PROVE  /\ shl(x, n) \in Words
         /\ unsigned(shl(x, n)) = unsigned(x) * 2^n
<1> DEFINE u == unsigned(x)
           y == shl(x, n)
           q == u * 2^n
<1>1. u \in Int /\ \A b \in Places : bit(u, b) = x[b] /\ x[b] \in {0, 1} /\ b \in Nat
  BY UnsignedFacts, PlaceFacts DEF Words
<1>2. \A b \in Places : y[b] = IF b >= n THEN x[b - n] ELSE 0
  BY DEF shl
<1>3. y \in Words
  <2>1. \A b \in Places : b >= n => b - n \in Places
    BY <1>1, PlaceFacts DEF Places
  <2>2. \A b \in Places : y[b] \in {0, 1}
    BY <1>1, <1>2, <2>1
  <2>3. y = [b \in Places |-> y[b]]
    BY DEF shl
  <2> HIDE DEF y
  <2> QED BY <2>2, <2>3 DEF Words
<1>4. q \in 0 .. Span - 1 /\ q \in Int /\ q = u * 2^n /\ 2^n \in Nat \ {0}
  BY Powers
<1> HIDE DEF u, y, q
<1>5. ASSUME NEW b \in Places PROVE bit(q, b) = y[b]
  <2>1. CASE b >= n
    <3>1. b - n \in Nat /\ b - n \in Places /\ n + (b - n) = b
      BY <1>1, <2>1, PlaceFacts DEF Places
    <3>2. 2^b = 2^n * 2^(b - n) /\ 2^(b - n) \in Nat \ {0}
      BY <3>1, Powers, PowerSum
    <3>3. q = 2^n * u
      <4> DEFINE P == 2^n
      <4>1. P \in Int
        BY <1>4
      <4> HIDE DEF P
      <4>2. u * P = P * u
        BY <1>1, <4>1
      <4> QED BY <1>4, <4>2 DEF P
    <3>4. (2^n * u) \div (2^n * 2^(b - n)) = u \div 2^(b - n)
      BY <1>1, <1>4, <3>2, Cancelled
    <3>5. q \div 2^b = u \div 2^(b - n)
      BY <3>2, <3>3, <3>4
    <3>6. bit(q, b) = bit(u, b - n)
      BY <3>5 DEF bit
    <3> QED BY <1>1, <1>2, <2>1, <3>1, <3>6
  <2>2. CASE ~(b >= n)
    <3> DEFINE z == 0
    <3>1. z \in Int /\ q = z + u * 2^n
      BY <1>4
    <3>2. b < n /\ b \in Nat
      BY <1>1, <2>2
    <3> HIDE DEF z
    <3>3. bit(z + u * 2^n, b) = bit(z, b)
      BY <1>1, <3>1, <3>2, LowBits
    <3>4. bit(z, b) = 0
      BY <3>2, BitsOfPowers DEF z
    <3> QED BY <1>2, <2>2, <3>1, <3>3, <3>4
  <2> QED BY <2>1, <2>2
<1>6. Word(q) \in Words /\ \A b \in Places : Word(q)[b] = bit(q, b)
  BY <1>4, WordType
<1>7. y = Word(q)
  BY <1>3, <1>5, <1>6, SameBits
<1>8. unsigned(y) = q
  BY <1>4, <1>7, SmallNumbers
<1> QED BY <1>3, <1>8 DEF y, q, u

\* The exponents: the bias is more than 0 and less than the one of infinity.
LEMMA ExponentFacts ==
  /\ F \in Nat /\ F \in 0 .. W /\ W - 1 - F \in 0 .. W /\ F < MSB
  /\ ExpMask \in Nat /\ bias \in Nat /\ 0 < bias /\ bias < ExpMask
<1> DEFINE k == W - 1 - F
           m == k - 2
<1>1. m \in Nat /\ (m + 1) + 1 = k /\ m + 1 \in Nat
  BY BitsAssumption
<1>2. 2^m \in Nat \ {0} /\ 2^(m + 1) = 2^m + 2^m /\ 2^((m + 1) + 1) = 2^(m + 1) + 2^(m + 1)
  BY <1>1, Powers
<1>3. ExpMask \in Nat /\ ExpMask >= 3
  <2>1. ExpMask = 2^k - 1
    BY DEF ExpMask
  <2> HIDE DEF k, m
  <2> QED BY <1>1, <1>2, <2>1
<1>4. bias \in Nat /\ 0 < bias /\ bias < ExpMask
  BY <1>3 DEF bias
<1> QED BY <1>3, <1>4, BitsAssumption DEF MSB

\* The exponent and the fraction of a float.
LEMMA FloatParts ==
  ASSUME NEW uf \in Words
  PROVE  /\ exp_of(uf) \in 0 .. ExpMask
         /\ and(uf, Word(2^F - 1)) \in Words
         /\ unsigned(and(uf, Word(2^F - 1))) \in 0 .. 2^F - 1
<1> DEFINE x == shr(uf, F)
           k == W - 1 - F
<1>1. x \in Words /\ k \in 0 .. W
  BY ShiftedRight, ExponentFacts
<1> HIDE DEF x, k
<1>2. /\ unsigned(and(x, Word(2^k - 1))) = unsigned(x) % 2^k
      /\ unsigned(x) % 2^k \in 0 .. 2^k - 1
  BY <1>1, Masked
<1>3. exp_of(uf) = unsigned(and(x, Word(2^k - 1))) /\ ExpMask = 2^k - 1
  BY DEF exp_of, ExpMask, x, k
<1>4. exp_of(uf) \in 0 .. ExpMask
  BY <1>2, <1>3
<1>5. /\ and(uf, Word(2^F - 1)) \in Words
      /\ unsigned(and(uf, Word(2^F - 1))) = unsigned(uf) % 2^F
      /\ unsigned(uf) % 2^F \in 0 .. 2^F - 1
  BY ExponentFacts, Masked
<1> QED BY <1>4, <1>5

\* Floats that differ in the sign alone have the same exponent and fraction.
LEMMA SameParts ==
  ASSUME NEW x \in Words, NEW y \in Words, \A b \in Places : b # MSB => x[b] = y[b]
  PROVE  exp_of(x) = exp_of(y) /\ and(x, Word(2^F - 1)) = and(y, Word(2^F - 1))
<1> DEFINE k == W - 1 - F
<1>1. k \in 0 .. W /\ F \in 0 .. W /\ F \in Nat /\ k + F = MSB /\ F < MSB
  BY ExponentFacts, BitsAssumption DEF MSB
<1>2. ExpMask = 2^k - 1
  BY DEF ExpMask
<1> HIDE DEF k
<1>3. and(x, Word(2^F - 1)) = and(y, Word(2^F - 1))
  <2>1. /\ and(x, Word(2^F - 1)) \in Words /\ and(y, Word(2^F - 1)) \in Words
        /\ \A b \in Places : /\ and(x, Word(2^F - 1))[b] = IF b < F THEN x[b] ELSE 0
                             /\ and(y, Word(2^F - 1))[b] = IF b < F THEN y[b] ELSE 0
    BY <1>1, Masked
  <2>2. \A b \in Places : b < F => x[b] = y[b]
    BY <1>1, PlaceFacts
  <2> QED BY <2>1, <2>2, SameBits
<1>4. ASSUME NEW z \in Words
      PROVE  /\ and(shr(z, F), Word(2^k - 1)) \in Words
             /\ \A b \in Places : and(shr(z, F), Word(2^k - 1))[b] = IF b < k THEN z[b + F] ELSE 0
  <2> DEFINE v == shr(z, F)
  <2>1. v \in Words
    BY <1>1, ShiftedRight
  <2>2. \A b \in Places : v[b] = IF b + F <= MSB THEN z[b + F] ELSE 0
    BY DEF shr
  <2> HIDE DEF v
  <2>3. /\ and(v, Word(2^k - 1)) \in Words
        /\ \A b \in Places : and(v, Word(2^k - 1))[b] = IF b < k THEN v[b] ELSE 0
    BY <1>1, <2>1, Masked
  <2>4. \A b \in Places : b < k => b + F <= MSB
    BY <1>1, PlaceFacts
  <2> QED BY <2>2, <2>3, <2>4 DEF v
<1>5. \A b \in Places : b < k => x[b + F] = y[b + F]
  <2>1. \A b \in Places : b < k => b + F \in Places /\ b + F # MSB
    BY <1>1, PlaceFacts DEF Places
  <2> QED BY <2>1
<1>6. and(shr(x, F), Word(2^k - 1)) = and(shr(y, F), Word(2^k - 1))
  BY <1>4, <1>5, SameBits
<1> QED BY <1>2, <1>3, <1>6 DEF exp_of

\* The quotient of a number that is less than a multiple.
LEMMA QuotientBound ==
  ASSUME NEW n \in Nat \ {0}, NEW m \in Nat, NEW x \in Nat, x < n * m
  PROVE  x \div n \in 0 .. m - 1
<1> DEFINE q == x \div n
           r == x % n
<1>1. q \in Int /\ r \in 0 .. n - 1 /\ x = n * q + r
  BY Division
<1> HIDE DEF q, r
<1>2. ASSUME q <= -1 PROVE FALSE
  <2>1. n * q <= n * (-1) /\ n * (-1) = -n /\ n * q \in Int
    BY <1>1, <1>2, Products
  <2> QED BY <1>1, <2>1
<1>3. ASSUME m <= q PROVE FALSE
  <2>1. n * m <= n * q /\ n * q \in Int /\ n * m \in Int
    BY <1>1, <1>3, Products
  <2> QED BY <1>1, <2>1
<1>4. q \in 0 .. m - 1
  BY <1>1, <1>2, <1>3
<1> QED BY <1>4 DEF q

exponent(uf) == exp_of(uf) - bias

\* What float_f2i should yield, for a float below 1 and from 1 on.
LEMMA Truncated ==
  ASSUME NEW uf \in Words
  PROVE  /\ exp_of(uf) < bias => truncated(uf) = 0
         /\ exp_of(uf) >= bias =>
              /\ truncated(uf) = ((fraction(uf) * 2^exponent(uf)) \div 2^F) + 2^exponent(uf)
              /\ (fraction(uf) * 2^exponent(uf)) \div 2^F \in 0 .. 2^exponent(uf) - 1
<1> DEFINE E == exp_of(uf)
           f == fraction(uf)
           P == 2^F
           c == scale(uf)
           s == significand(uf)
<1>1. E \in 0 .. ExpMask /\ f \in 0 .. P - 1 /\ P \in Nat \ {0}
      /\ F \in Nat /\ ExpMask \in Nat /\ bias \in Nat /\ 0 < bias
  BY FloatParts, ExponentFacts, Powers DEF fraction
<1>2. c = (IF E = 0 THEN 1 ELSE E) - bias
  BY DEF scale
<1>3. s = f + IF E = 0 THEN 0 ELSE P
  BY DEF significand, fraction
<1>4. truncated(uf) = IF c < 0 THEN s \div 2^(F - c) ELSE (s * 2^c) \div P
  BY DEF truncated
<1> HIDE DEF E, f, P, c, s
<1>5. ASSUME E < bias PROVE truncated(uf) = 0
  <2>1. CASE c < 0
    <3> DEFINE D == 2^(F - c)
    <3>1. F - c \in Nat /\ F + 1 \in Nat /\ F + 1 <= F - c
      BY <1>1, <1>2, <2>1
    <3>2. D \in Nat \ {0} /\ P + P <= D
      BY <1>1, <3>1, Powers, PowerOrder DEF P
    <3> HIDE DEF D
    <3>3. s \in Nat /\ s < D * 1
      BY <1>1, <1>3, <3>2
    <3>4. s \div D \in 0 .. 1 - 1
      BY <3>2, <3>3, QuotientBound
    <3> QED BY <1>4, <2>1, <3>4 DEF D
  <2>2. CASE ~(c < 0)
    <3>1. E = 0 /\ c = 0
      BY <1>1, <1>2, <1>5, <2>2
    <3>2. s = f /\ s * 2^c = f /\ f \in Nat /\ f < P * 1
      <4>1. 2^c = 1 /\ s = f /\ f \in Nat
        BY <1>1, <1>3, <3>1, Powers
      <4> QED BY <1>1, <4>1
    <3>3. f \div P \in 0 .. 1 - 1
      BY <1>1, <3>2, QuotientBound
    <3> QED BY <1>4, <2>2, <3>2, <3>3
  <2> QED BY <2>1, <2>2
<1>6. ASSUME E >= bias
      PROVE  /\ truncated(uf) = ((f * 2^c) \div P) + 2^c
             /\ (f * 2^c) \div P \in 0 .. 2^c - 1
             /\ c = E - bias
  <2>1. c = E - bias /\ c \in Nat /\ s = f + P
    BY <1>1, <1>2, <1>3, <1>6
  <2> DEFINE Q == 2^c
             y == f * Q
  <2>2. Q \in Nat \ {0}
    BY <2>1, Powers
  <2>3. truncated(uf) = (s * Q) \div P
    BY <1>4, <2>1
  <2> HIDE DEF Q
  <2>4. y \in Nat /\ y < P * Q
    <3>1. f \in Nat /\ f + 1 <= P /\ f + 1 \in Int /\ P \in Int
      BY <1>1
    <3>2. Q * (f + 1) <= Q * P
      BY <2>2, <3>1, Products
    <3>3. Q * (f + 1) = f * Q + Q /\ Q * P = P * Q /\ f * Q \in Nat /\ P * Q \in Nat
      BY <1>1, <2>2, <3>1
    <3> QED BY <2>2, <3>2, <3>3
  <2>5. s * Q = y + P * Q
    BY <1>1, <2>1, <2>2
  <2> HIDE DEF y
  <2>6. (y + P * Q) \div P = (y \div P) + Q
    BY <1>1, <2>2, <2>4, DividedSum
  <2>7. y \div P \in 0 .. Q - 1
    BY <1>1, <2>2, <2>4, QuotientBound
  <2> QED BY <2>1, <2>3, <2>5, <2>6, <2>7 DEF y, Q
<1> QED BY <1>5, <1>6 DEF E, f, P, exponent

\* The word that float_f2i yields for a float from 1 on, but for the sign.
magnitude(uf) ==
  LET frac == and(uf, Word(2^F - 1))
      e == exponent(uf)
  IN  plus(IF e > F - 1 THEN shl(frac, e - F) ELSE shr(frac, F - e), shl(Word(1), e))

\* For a float that fits into an int it is what is left without the fraction.
LEMMA Magnitude ==
  ASSUME NEW uf \in Words, exp_of(uf) >= bias, exponent(uf) < MSB
  PROVE  /\ magnitude(uf) \in Words
         /\ unsigned(magnitude(uf)) = truncated(uf)
         /\ truncated(uf) \in 1 .. Half - 1
<1> DEFINE e == exponent(uf)
           x == and(uf, Word(2^F - 1))
           f == fraction(uf)
           P == 2^F
           Q == 2^e
           g == (f * Q) \div P
           y == IF e > F - 1 THEN shl(x, e - F) ELSE shr(x, F - e)
           z == shl(Word(1), e)
<1>1. e \in Nat /\ e < MSB /\ MSB \in Nat /\ F \in Nat /\ W \in Nat /\ MSB < W
  BY FloatParts, ExponentFacts, PlaceFacts DEF exponent
<1>2. x \in Words /\ f = unsigned(x) /\ f \in 0 .. P - 1 /\ P \in Nat \ {0}
  BY FloatParts, ExponentFacts, Powers DEF fraction
<1>3. truncated(uf) = g + Q /\ g \in 0 .. Q - 1
  BY Truncated
<1>4. magnitude(uf) = plus(y, z)
  BY DEF magnitude
<1>5. Q \in Nat \ {0} /\ Q + Q <= Half /\ Half \in Nat /\ Span = Half + Half
  <2>1. e + 1 \in Nat /\ e + 1 <= MSB
    BY <1>1
  <2>2. 2^(e + 1) <= 2^MSB /\ 2^(e + 1) = Q + Q /\ Q \in Nat \ {0}
    BY <1>1, <2>1, Powers, PowerOrder
  <2> QED BY <2>2, HalfFacts DEF Half
<1> HIDE DEF e, x, f
<1>6. z \in Words /\ unsigned(z) = Q
  <2> DEFINE o == Word(1)
  <2>1. o \in Words /\ unsigned(o) = 1
    BY SpecialWords
  <2> HIDE DEF o
  <2>2. unsigned(o) * 2^e = Q /\ Q \in 0 .. Span - 1
    BY <1>5, <2>1
  <2>3. shl(o, e) \in Words /\ unsigned(shl(o, e)) = unsigned(o) * 2^e
    BY <1>1, <2>1, <2>2, ShiftedLeft
  <2> QED BY <2>2, <2>3 DEF o
<1>7. y \in Words /\ unsigned(y) = g
  <2>1. CASE e > F - 1
    <3> DEFINE d == e - F
               D == 2^d
               h == f * D
    <3>1. d \in Nat /\ F + d = e
      BY <1>1, <2>1
    <3>2. Q = P * D /\ D \in Nat \ {0}
      BY <1>1, <3>1, Powers, PowerSum
    <3>3. y = shl(x, d)
      BY <2>1
    <3> HIDE DEF d, D, P, Q
    <3>4. h \in Int /\ f * Q = P * h + 0
      <4>1. f * (P * D) = P * (f * D)
        <5>1. f \in Int /\ P \in Int /\ D \in Int
          BY <1>2, <3>2
        <5>2. f * (P * D) = (f * P) * D /\ (f * P) * D = (P * f) * D /\ (P * f) * D = P * (f * D)
          BY <5>1
        <5> QED BY <5>2
      <4> QED BY <1>2, <3>2, <4>1
    <3> HIDE DEF h
    <3>5. g = h
      <4> DEFINE v == f * Q
                 o == 0
      <4>1. v = P * h + o /\ o \in 0 .. P - 1
        BY <1>2, <3>4
      <4> HIDE DEF v, o
      <4>2. v \div P = h
        BY <1>2, <3>4, <4>1, Divided
      <4> QED BY <4>2 DEF v
    <3>6. unsigned(x) * 2^d = h /\ h \in 0 .. Span - 1
      BY <1>2, <1>3, <1>5, <3>5 DEF h, D
    <3>7. shl(x, d) \in Words /\ unsigned(shl(x, d)) = unsigned(x) * 2^d
      BY <1>2, <3>1, <3>6, ShiftedLeft
    <3> QED BY <3>3, <3>5, <3>6, <3>7
  <2>2. CASE ~(e > F - 1)
    <3> DEFINE d == F - e
               D == 2^d
    <3>1. d \in Nat /\ e + d = F
      BY <1>1, <2>2
    <3>2. P = Q * D /\ D \in Nat \ {0}
      BY <1>1, <3>1, Powers, PowerSum
    <3>3. y = shr(x, d)
      BY <2>2
    <3> HIDE DEF d
    <3>4. shr(x, d) \in Words /\ unsigned(shr(x, d)) = f \div D
      BY <1>2, <3>1, ShiftedRight
    <3> HIDE DEF D, P, Q
    <3>5. f \in Int /\ f * Q = Q * f
      BY <1>2, <1>5
    <3>6. (Q * f) \div (Q * D) = f \div D
      BY <1>5, <3>2, <3>5, Cancelled
    <3> QED BY <3>2, <3>3, <3>4, <3>5, <3>6
  <2> QED BY <2>1, <2>2
<1> HIDE DEF y, z, g, P, Q
<1>8. plus(y, z) \in Words /\ unsigned(plus(y, z)) = wrapped(g + Q)
  BY <1>6, <1>7, SumOfWords
<1>9. wrapped(g + Q) = g + Q /\ g + Q \in 1 .. Half - 1
  BY <1>3, <1>5 DEF wrapped
<1> QED BY <1>3, <1>4, <1>8, <1>9

\* float_f2i by cases.
LEMMA ConversionCases ==
  ASSUME NEW uf \in Words
  PROVE  float_f2i(uf) =
           IF exp_of(uf) = ExpMask THEN TMin
           ELSE IF exp_of(uf) < bias THEN Word(0)
           ELSE IF exponent(uf) >= MSB THEN TMin
           ELSE IF uf[MSB] = 1 THEN minus(magnitude(uf)) ELSE magnitude(uf)
BY DEF float_f2i, overflows, magnitude, exponent

\* The number of an int and that of its opposite.
LEMMA SmallInts ==
  ASSUME NEW x \in Words, unsigned(x) \in 1 .. Half - 1
  PROVE  int(x) = unsigned(x) /\ int(minus(x)) = -unsigned(x)
<1> DEFINE y == minus(x)
<1>1. y \in Words /\ unsigned(y) = Span - unsigned(x)
  BY Opposite
<1> HIDE DEF y
<1>2. Span = Half + Half /\ Half \in Nat \ {0}
  BY HalfFacts
<1>3. /\ x[MSB] \in {0, 1} /\ (x[MSB] = 1 <=> unsigned(x) >= Half)
      /\ int(x) = IF x[MSB] = 1 THEN unsigned(x) - Span ELSE unsigned(x)
      /\ y[MSB] \in {0, 1} /\ (y[MSB] = 1 <=> unsigned(y) >= Half)
      /\ int(y) = IF y[MSB] = 1 THEN unsigned(y) - Span ELSE unsigned(y)
  BY <1>1, HighestBit
<1>4. int(x) = unsigned(x)
  BY <1>2, <1>3
<1>5. int(y) = unsigned(y) - Span
  BY <1>1, <1>2, <1>3
<1> QED BY <1>1, <1>2, <1>4, <1>5 DEF y

\* The ints of 0 and of the most negative word, and their opposites.
LEMMA SpecialInts ==
  /\ int(Word(0)) = 0 /\ minus(Word(0)) = Word(0)
  /\ int(TMin) = -Half /\ minus(TMin) = TMin
<1> DEFINE z == Word(0)
           t == TMin
<1>1. z \in Words /\ unsigned(z) = 0 /\ t \in Words /\ unsigned(t) = Half
  BY SpecialWords
<1> HIDE DEF z, t
<1>2. Span = Half + Half /\ Half \in Nat \ {0}
  BY HalfFacts
<1>3. /\ z[MSB] \in {0, 1} /\ (z[MSB] = 1 <=> unsigned(z) >= Half)
      /\ int(z) = IF z[MSB] = 1 THEN unsigned(z) - Span ELSE unsigned(z)
      /\ t[MSB] \in {0, 1} /\ (t[MSB] = 1 <=> unsigned(t) >= Half)
      /\ int(t) = IF t[MSB] = 1 THEN unsigned(t) - Span ELSE unsigned(t)
  BY <1>1, HighestBit
<1>4. int(z) = 0 /\ int(t) = -Half
  BY <1>1, <1>2, <1>3
<1>5. /\ minus(z) \in Words /\ unsigned(minus(z)) = 0
      /\ minus(t) \in Words /\ unsigned(minus(t)) = Half
  BY <1>1, <1>2, Opposite
<1>6. minus(z) = z /\ minus(t) = t
  BY <1>1, <1>5, SameNumbers
<1> QED BY <1>4, <1>6 DEF z, t

\* The opposite of the opposite.
LEMMA MinusTwice ==
  ASSUME NEW x \in Words
  PROVE  minus(minus(x)) = x
<1> DEFINE y == minus(x)
<1>1. y \in Words /\ unsigned(y) = IF unsigned(x) = 0 THEN 0 ELSE Span - unsigned(x)
  BY Opposite
<1> HIDE DEF y
<1>2. minus(y) \in Words /\ unsigned(minus(y)) = IF unsigned(y) = 0 THEN 0 ELSE Span - unsigned(y)
  BY <1>1, Opposite
<1>3. unsigned(x) \in 0 .. Span - 1 /\ Span \in Nat
  BY UnsignedFacts, HalfFacts
<1>4. unsigned(minus(y)) = unsigned(x)
  BY <1>1, <1>2, <1>3
<1> QED BY <1>2, <1>4, SameNumbers DEF y

\* float_neg turns the sign, and leaves exponent and fraction as they are.
LEMMA Negated ==
  ASSUME NEW uf \in Words, exp_of(uf) # ExpMask
  PROVE  /\ float_neg(uf) \in Words /\ float_neg(uf)[MSB] = 1 - uf[MSB]
         /\ exp_of(float_neg(uf)) = exp_of(uf)
         /\ fraction(float_neg(uf)) = fraction(uf)
         /\ magnitude(float_neg(uf)) = magnitude(uf)
         /\ float_neg(float_neg(uf)) = uf
<1> DEFINE n == xor(uf, TMin)
<1>1. TMin \in Words /\ \A b \in Places : TMin[b] = IF b = MSB THEN 1 ELSE 0
  BY SpecialWords
<1>2. n \in Words /\ \A b \in Places : n[b] = IF uf[b] # TMin[b] THEN 1 ELSE 0
  BY <1>1, Gates
<1>3. float_neg(uf) = n
  BY DEF float_neg
<1>4. \A b \in Places : uf[b] \in {0, 1}
  BY DEF Words
<1> HIDE DEF n
<1>5. n[MSB] = 1 - uf[MSB] /\ \A b \in Places : b # MSB => n[b] = uf[b]
  BY <1>1, <1>2, <1>4, PlaceFacts
<1>6. exp_of(n) = exp_of(uf) /\ and(n, Word(2^F - 1)) = and(uf, Word(2^F - 1))
  BY <1>2, <1>5, SameParts
<1>7. magnitude(n) = magnitude(uf)
  BY <1>6 DEF magnitude, exponent
<1>8. fraction(n) = fraction(uf)
  BY <1>6 DEF fraction
<1>9. float_neg(n) = uf
  <2>1. float_neg(n) = xor(n, TMin)
    BY <1>6 DEF float_neg
  <2>2. xor(n, TMin) \in Words
        /\ \A b \in Places : xor(n, TMin)[b] = IF n[b] # TMin[b] THEN 1 ELSE 0
    BY <1>1, <1>2, Gates
  <2>3. \A b \in Places : xor(n, TMin)[b] = uf[b]
    BY <1>1, <1>4, <1>5, <2>2
  <2> QED BY <2>1, <2>2, <2>3, SameBits
<1> QED BY <1>2, <1>3, <1>5, <1>6, <1>7, <1>8, <1>9

\* The conversions are right for each float of any width.
LEMMA EachFloat ==
  ASSUME NEW uf \in Words
  PROVE  FloatRight(uf)
<1> DEFINE E == exp_of(uf)
           t == truncated(uf)
           n == IF uf[MSB] = 1 THEN -t ELSE t
           r == float_f2i(uf)
           m == magnitude(uf)
           e == exponent(uf)
<1>1. /\ r = IF E = ExpMask THEN TMin
             ELSE IF E < bias THEN Word(0)
             ELSE IF e >= MSB THEN TMin
             ELSE IF uf[MSB] = 1 THEN minus(m) ELSE m
      /\ E \in 0 .. ExpMask /\ ExpMask \in Nat /\ bias \in Nat
      /\ MSB \in Nat /\ e = E - bias /\ MaxInt = Half - 1 /\ Half \in Nat
  BY ConversionCases, FloatParts, ExponentFacts, PlaceFacts, HalfFacts
     DEF exponent, MaxInt, Half
<1>2. E < bias => t = 0
  BY Truncated
<1>3. E >= bias /\ e < MSB => m \in Words /\ unsigned(m) = t /\ t \in 1 .. Half - 1
  BY Magnitude
<1>4. E >= bias /\ e >= MSB => t \in Nat /\ t >= Half
  <2> SUFFICES ASSUME E >= bias, e >= MSB PROVE t \in Nat /\ t >= Half
    OBVIOUS
  <2> DEFINE g == (fraction(uf) * 2^e) \div 2^F
             Q == 2^e
  <2>1. t = g + Q /\ g \in 0 .. Q - 1
    BY Truncated
  <2>2. e \in Nat /\ Half <= Q /\ Q \in Nat
    BY <1>1, Powers, PowerOrder DEF Half
  <2> HIDE DEF g, Q, t, e, E
  <2> QED BY <1>1, <2>1, <2>2
<1>5. int(r) = IF E # ExpMask /\ n \in -(MaxInt + 1) .. MaxInt THEN n ELSE -(MaxInt + 1)
  <2> HIDE DEF E, t, r, m, e
  <2>1. -(MaxInt + 1) = -Half /\ int(TMin) = -Half /\ int(Word(0)) = 0
    BY <1>1, SpecialInts
  <2>2. CASE E = ExpMask
    BY <1>1, <2>1, <2>2
  <2>3. CASE E # ExpMask /\ E < bias
    <3>1. r = Word(0) /\ t = 0
      BY <1>1, <1>2, <2>3
    <3>2. n = 0
      <4>1. \A w \in {0, 1} : -w = IF w = 0 THEN 0 ELSE -1
        OBVIOUS
      <4> QED BY <3>1, <4>1
    <3> HIDE DEF n
    <3> QED BY <1>1, <2>1, <2>3, <3>1, <3>2
  <2>4. CASE E # ExpMask /\ E >= bias /\ e >= MSB
    <3>1. r = TMin /\ t \in Nat /\ t >= Half
      BY <1>1, <1>4, <2>4
    <3> QED BY <1>1, <2>1, <2>4, <3>1
  <2>5. CASE E # ExpMask /\ E >= bias /\ e < MSB
    <3>1. m \in Words /\ unsigned(m) = t /\ t \in 1 .. Half - 1
      BY <1>3, <2>5
    <3>2. int(m) = t /\ int(minus(m)) = -t
      BY <3>1, SmallInts
    <3>3. r = IF uf[MSB] = 1 THEN minus(m) ELSE m
      BY <1>1, <2>5
    <3>4. int(r) = n
      BY <3>2, <3>3
    <3>5. n \in -(MaxInt + 1) .. MaxInt
      BY <1>1, <3>1
    <3> HIDE DEF n
    <3> QED BY <2>5, <3>4, <3>5
  <2>6. E < bias \/ E >= bias
    BY <1>1
  <2>7. e < MSB \/ e >= MSB
    BY <1>1
  <2> QED BY <2>2, <2>3, <2>4, <2>5, <2>6, <2>7
<1>6. ASSUME E # ExpMask PROVE float_f2i(float_neg(uf)) = minus(r)
  <2> DEFINE v == float_neg(uf)
  <2>1. /\ v \in Words /\ v[MSB] = 1 - uf[MSB] /\ exp_of(v) = E /\ magnitude(v) = m
    BY <1>6, Negated
  <2>2. uf[MSB] \in {0, 1}
    BY PlaceFacts DEF Words
  <2> HIDE DEF v
  <2>3. exponent(v) = e
    BY <2>1 DEF exponent
  <2>4. float_f2i(v) = IF E = ExpMask THEN TMin
                       ELSE IF E < bias THEN Word(0)
                       ELSE IF e >= MSB THEN TMin
                       ELSE IF v[MSB] = 1 THEN minus(m) ELSE m
    BY <2>1, <2>3, ConversionCases
  <2> HIDE DEF E, m, e, r
  <2>5. CASE E < bias
    BY <1>1, <1>6, <2>4, <2>5, SpecialInts DEF v
  <2>6. CASE ~(E < bias) /\ e >= MSB
    BY <1>1, <1>6, <2>4, <2>6, SpecialInts DEF v
  <2>7. CASE ~(E < bias) /\ ~(e >= MSB)
    <3>1. m \in Words
      BY <1>1, <1>3, <2>7
    <3>2. minus(minus(m)) = m
      BY <3>1, MinusTwice
    <3>3. /\ r = IF uf[MSB] = 1 THEN minus(m) ELSE m
          /\ float_f2i(v) = IF v[MSB] = 1 THEN minus(m) ELSE m
      BY <1>1, <1>6, <2>4, <2>7
    <3> QED BY <2>1, <2>2, <3>2, <3>3 DEF v
  <2> QED BY <2>5, <2>6, <2>7 DEF v
<1>7. float_neg(float_neg(uf)) = uf
  <2>1. CASE E = ExpMask
    BY <2>1 DEF float_neg
  <2>2. CASE E # ExpMask
    BY <2>2, Negated
  <2> QED BY <2>1, <2>2
<1>8. ASSUME finite(uf)
      PROVE  /\ finite(float_neg(uf)) /\ float_neg(uf)[MSB] = 1 - uf[MSB]
             /\ significand(float_neg(uf)) = significand(uf)
             /\ scale(float_neg(uf)) = scale(uf)
  <2>1. /\ exp_of(float_neg(uf)) = E /\ E # ExpMask
        /\ fraction(float_neg(uf)) = fraction(uf)
        /\ float_neg(uf)[MSB] = 1 - uf[MSB]
    BY <1>8, Negated DEF finite
  <2>2. significand(float_neg(uf)) = significand(uf) /\ scale(float_neg(uf)) = scale(uf)
    BY <2>1 DEF significand, scale
  <2> QED BY <2>1, <2>2 DEF finite
<1>9. ~finite(uf) => float_neg(uf) = uf
  BY DEF float_neg, finite
<1>10. finite(uf) <=> E # ExpMask
  BY DEF finite
<1> QED BY <1>5, <1>6, <1>7, <1>8, <1>9, <1>10 DEF FloatRight

\* The conversions are always right, for floats of any width: float_f2i cuts
\* off the fraction, float_neg turns a finite float into its exact opposite and
\* leaves a NaN alone.  What it does to infinity is left open.
THEOREM FloatsAreRight == BitsSpec => []FloatsRight
<1>1. FloatsRight
  BY EachFloat DEF FloatsRight
<1> QED BY <1>1, PTL
=============================================================================
