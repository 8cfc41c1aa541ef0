----------------------------- MODULE SortsProofs -----------------------------
(***************************************************************************)
(* Proofs about the sorts of A08-VirtualMemory/vm.c, for arrays of any     *)
(* length with any values.  First quick_sort: the parts it sorts are       *)
(* separated, no disorder is left outside of them, and although partition  *)
(* looks at an element that may be outside of its part it never moves one. *)
(* Then all sorts: they sort, and lose no value.                           *)
(***************************************************************************)
EXTENDS Sorts, SequenceTheorems, FiniteSetTheorems, TLAPS

Memory == [Positions -> Vals]

\* The parts of the calls cs lie in the array, in ascending order.
Stacked(cs) ==
  /\ cs \in Seq(Int \X Int)
  /\ \A k \in 1 .. Len(cs) : 0 <= cs[k][1] /\ cs[k][2] < len
  /\ \A k, l \in 1 .. Len(cs) : k < l => cs[k][2] < cs[l][1]

\* PartsSeparated and DisorderInParts of any memory and any calls.
Separated(m, cs) ==
  \A k \in 1 .. Len(cs) :
    \A y \in cs[k][1] .. cs[k][2] :
      /\ \A x \in 0 .. cs[k][1] - 1 : m[x] < m[y]
      /\ \A z \in cs[k][2] + 1 .. len - 1 : m[y] <= m[z]

Disorder(m, cs) ==
  \A x, y \in 0 .. len - 1 :
    (x < y /\ m[x] > m[y]) =>
      \E k \in 1 .. Len(cs) : cs[k][1] <= x /\ y <= cs[k][2]

Split(m, cs) ==
  /\ len \in Nat /\ len <= NUM_INTS
  /\ m \in Memory
  /\ Stacked(cs) /\ Separated(m, cs) /\ Disorder(m, cs)

\* Where partition is: i and j are in the part of the call in progress.
InPart == calls # <<>> /\ i \in Int /\ j \in Int
            /\ start <= i /\ i <= j /\ j <= end

IInv ==
  /\ len \in Lengths
  /\ pc \notin {"call", "partition"} => calls = <<>>
  /\ pc \in {"call", "partition"} => Split(a, calls)
  /\ pc = "partition" => InPart
  /\ AroundPivot
-----------------------------------------------------------------------------
(* Memory *)

\* m2 differs from m in lo .. hi only, and has no values there but m's.
Within(m, m2, lo, hi) ==
  /\ m2 \in Memory
  /\ \A x \in Positions : x \in lo .. hi \/ m2[x] = m[x]
  /\ \A x \in lo .. hi : \E z \in lo .. hi : m2[x] = m[z]

\* swap exchanges two elements and leaves all others.
LEMMA SwapFacts ==
  ASSUME NEW m \in Memory, NEW x \in Positions, NEW y \in Positions
  PROVE  /\ swap(m, x, y) \in Memory
         /\ swap(m, x, y)[x] = m[y] /\ swap(m, x, y)[y] = m[x]
         /\ \A z \in Positions \ {x, y} : swap(m, x, y)[z] = m[z]
BY DEF Memory, swap

\* A swap of two elements of a part stays within it.
LEMMA SwapWithin ==
  ASSUME NEW m \in Memory, NEW lo \in Int, NEW hi \in Int,
         lo .. hi \subseteq Positions,
         NEW x \in lo .. hi, NEW y \in lo .. hi
  PROVE  Within(m, swap(m, x, y), lo, hi)
<1> DEFINE m2 == swap(m, x, y)
<1>1. /\ m2 \in Memory /\ m2[x] = m[y] /\ m2[y] = m[x]
      /\ \A z \in Positions \ {x, y} : m2[z] = m[z]
  BY SwapFacts
<1> HIDE DEF m2
<1>2. \A z \in Positions : z \in lo .. hi \/ m2[z] = m[z]
  BY <1>1
<1>3. ASSUME NEW w \in lo .. hi
      PROVE  \E z \in lo .. hi : m2[w] = m[z]
  <2>1. CASE w = x
    BY <2>1, <1>1
  <2>2. CASE w = y
    BY <2>2, <1>1
  <2>3. CASE w # x /\ w # y
    BY <2>3, <1>1
  <2> QED BY <2>1, <2>2, <2>3
<1>4. Within(m, m2, lo, hi)
  BY <1>1, <1>2, <1>3 DEF Within
<1> QED BY <1>4 DEF m2

\* Leaving memory alone stays within any part.
LEMMA SameWithin ==
  ASSUME NEW m \in Memory, NEW lo, NEW hi
  PROVE  Within(m, m, lo, hi)
BY DEF Within
-----------------------------------------------------------------------------
(* The stack of calls *)

\* The part of a call lies in the array, and its bounds are integers.
LEMMA CallFacts ==
  ASSUME NEW m, NEW cs, Split(m, cs), NEW k \in 1 .. Len(cs)
  PROVE  /\ Len(cs) \in Nat
         /\ cs[k][1] \in Int /\ cs[k][2] \in Int
         /\ 0 <= cs[k][1] /\ cs[k][2] < len
         /\ cs[k][1] .. cs[k][2] \subseteq Positions
<1>1. cs \in Seq(Int \X Int) /\ 0 <= cs[k][1] /\ cs[k][2] < len
  BY DEF Split, Stacked
<1>2. cs[k] \in Int \X Int /\ Len(cs) \in Nat
  BY <1>1, ElementOfSeq, LenProperties
<1>3. cs[k][1] \in Int /\ cs[k][2] \in Int
  BY <1>2
<1>4. len \in Nat /\ len <= NUM_INTS /\ NUM_INTS \in Nat
  BY SortsAssumption DEF Split
<1>5. cs[k][1] .. cs[k][2] \subseteq Positions
  BY <1>1, <1>3, <1>4 DEF Positions
<1> QED BY <1>1, <1>2, <1>3, <1>5

\* A stack that is not empty has a first call.
LEMMA FirstCall ==
  ASSUME NEW m, NEW cs, Split(m, cs), cs # <<>>
  PROVE  1 \in 1 .. Len(cs)
BY EmptySeq DEF Split, Stacked

\* What happens within the first part keeps parts separated, and disorder in
\* them.
LEMMA FirstPartChanges ==
  ASSUME NEW m, NEW m2, NEW cs, Split(m, cs), cs # <<>>,
         Within(m, m2, cs[1][1], cs[1][2])
  PROVE  Split(m2, cs)
<1> DEFINE lo == cs[1][1]
           hi == cs[1][2]
<1>1. 1 \in 1 .. Len(cs)
  BY FirstCall
<1>2. /\ Len(cs) \in Nat /\ lo \in Int /\ hi \in Int /\ 0 <= lo /\ hi < len
      /\ lo .. hi \subseteq Positions
  BY <1>1, CallFacts
<1>3. /\ len \in Nat /\ len <= NUM_INTS /\ NUM_INTS \in Nat /\ Vals \subseteq Int
      /\ 0 .. len - 1 \subseteq Positions
  BY SortsAssumption DEF Split, Positions
<1>4. /\ \A x \in Positions : m[x] \in Int
      /\ \A x \in Positions : m2[x] \in Int
  BY <1>3 DEF Split, Within, Memory
<1>5. /\ m2 \in Memory
      /\ \A x \in 0 .. len - 1 : x \in lo .. hi \/ m2[x] = m[x]
      /\ \A x \in lo .. hi : \E z \in lo .. hi : m2[x] = m[z]
  BY <1>3 DEF Within
<1>6. \A y \in lo .. hi :
        /\ \A x \in 0 .. lo - 1 : m[x] < m[y]
        /\ \A z \in hi + 1 .. len - 1 : m[y] <= m[z]
  BY <1>1 DEF Split, Separated
<1> HIDE DEF lo, hi
<1>7. \A y \in lo .. hi :
        /\ \A x \in 0 .. lo - 1 : m2[x] < m2[y]
        /\ \A z \in hi + 1 .. len - 1 : m2[y] <= m2[z]
  <2> SUFFICES ASSUME NEW y \in lo .. hi
               PROVE  /\ \A x \in 0 .. lo - 1 : m2[x] < m2[y]
                      /\ \A z \in hi + 1 .. len - 1 : m2[y] <= m2[z]
    OBVIOUS
  <2>1. PICK w \in lo .. hi : m2[y] = m[w]
    BY <1>5
  <2>2. ASSUME NEW x \in 0 .. lo - 1
        PROVE  m2[x] < m2[y]
    <3>1. x \in 0 .. len - 1 /\ x \notin lo .. hi
      BY <1>2, <1>3
    <3> QED BY <3>1, <2>1, <1>5, <1>6
  <2>3. ASSUME NEW z \in hi + 1 .. len - 1
        PROVE  m2[y] <= m2[z]
    <3>1. z \in 0 .. len - 1 /\ z \notin lo .. hi
      BY <1>2, <1>3
    <3> QED BY <3>1, <2>1, <1>5, <1>6
  <2> QED BY <2>2, <2>3
<1>8. Separated(m2, cs)
  <2> SUFFICES ASSUME NEW k \in 1 .. Len(cs), NEW y \in cs[k][1] .. cs[k][2]
               PROVE  /\ \A x \in 0 .. cs[k][1] - 1 : m2[x] < m2[y]
                      /\ \A z \in cs[k][2] + 1 .. len - 1 : m2[y] <= m2[z]
    BY DEF Separated
  <2>1. CASE k = 1
    BY <2>1, <1>7 DEF lo, hi
  <2>2. CASE k # 1
    <3>1. /\ cs[k][1] \in Int /\ cs[k][2] \in Int
          /\ 0 <= cs[k][1] /\ cs[k][2] < len /\ hi < cs[k][1]
      <4>1. hi < cs[k][1]
        BY <2>2, <1>1, <1>2 DEF Split, Stacked, hi
      <4> QED BY <4>1, CallFacts
    <3>2. /\ \A x \in 0 .. cs[k][1] - 1 : m[x] < m[y]
          /\ \A z \in cs[k][2] + 1 .. len - 1 : m[y] <= m[z]
      BY DEF Split, Separated
    <3>3. y \in 0 .. len - 1 /\ y \notin lo .. hi
      BY <3>1, <1>2, <1>3
    <3>4. m2[y] = m[y]
      BY <3>3, <1>5
    <3>5. ASSUME NEW x \in 0 .. cs[k][1] - 1
          PROVE  m2[x] < m2[y]
      <4>1. CASE x \in lo .. hi
        <5>1. PICK w \in lo .. hi : m2[x] = m[w]
          BY <4>1, <1>5
        <5>2. w \in 0 .. cs[k][1] - 1
          BY <3>1, <1>2, SMTT(30)
        <5> QED BY <5>1, <5>2, <3>2, <3>4
      <4>2. CASE x \notin lo .. hi
        <5>1. x \in 0 .. len - 1
          BY <3>1, <3>3, <1>3
        <5> QED BY <4>2, <5>1, <1>5, <3>2, <3>4
      <4> QED BY <4>1, <4>2
    <3>6. ASSUME NEW z \in cs[k][2] + 1 .. len - 1
          PROVE  m2[y] <= m2[z]
      <4>1. z \in 0 .. len - 1 /\ z \notin lo .. hi
        BY <3>1, <1>2, <1>3
      <4> QED BY <4>1, <1>5, <3>2, <3>4
    <3> QED BY <3>5, <3>6
  <2> QED BY <2>1, <2>2
<1>9. Disorder(m2, cs)
  <2> SUFFICES ASSUME NEW x \in 0 .. len - 1, NEW y \in 0 .. len - 1,
                      x < y, m2[x] > m2[y]
               PROVE  \E k \in 1 .. Len(cs) : cs[k][1] <= x /\ y <= cs[k][2]
    BY DEF Disorder
  <2>1. CASE x \in lo .. hi /\ y \in lo .. hi
    <3>1. cs[1][1] <= x /\ y <= cs[1][2]
      BY <2>1, <1>2 DEF lo, hi
    <3> QED BY <3>1, <1>1
  <2>2. CASE x \in lo .. hi /\ y \notin lo .. hi
    <3>1. y \in hi + 1 .. len - 1
      BY <2>2, <1>2, <1>3
    <3>2. m2[x] <= m2[y]
      BY <3>1, <2>2, <1>7
    <3> QED BY <3>2, <1>3, <1>4
  <2>3. CASE x \notin lo .. hi /\ y \in lo .. hi
    <3>1. x \in 0 .. lo - 1
      BY <2>3, <1>2, <1>3
    <3>2. m2[x] < m2[y]
      BY <3>1, <2>3, <1>7
    <3> QED BY <3>2, <1>3, <1>4
  <2>4. CASE x \notin lo .. hi /\ y \notin lo .. hi
    <3>1. m[x] > m[y]
      BY <2>4, <1>5
    <3> QED BY <3>1 DEF Split, Disorder
  <2> QED BY <2>1, <2>2, <2>3, <2>4
<1> QED
  BY <1>3, <1>5, <1>8, <1>9 DEF Split

\* A call whose part has at most one element leaves nothing to be done.
LEMMA CallDropped ==
  ASSUME NEW m, NEW cs, Split(m, cs), cs # <<>>, cs[1][1] >= cs[1][2]
  PROVE  Split(m, Tail(cs))
<1> DEFINE t == Tail(cs)
<1>1. cs \in Seq(Int \X Int) /\ 1 \in 1 .. Len(cs) /\ Len(cs) \in Nat
  BY FirstCall, CallFacts DEF Split, Stacked
<1>2. /\ t \in Seq(Int \X Int) /\ Len(t) = Len(cs) - 1
      /\ \A k \in 1 .. Len(t) : t[k] = cs[k + 1]
  BY <1>1, HeadTailProperties
<1> HIDE DEF t
<1>3. \A k \in 1 .. Len(t) : k + 1 \in 1 .. Len(cs) /\ t[k] = cs[k + 1]
  BY <1>1, <1>2
<1>4. Stacked(t)
  <2>1. \A k \in 1 .. Len(t) : 0 <= t[k][1] /\ t[k][2] < len
    BY <1>3 DEF Split, Stacked
  <2>2. ASSUME NEW k \in 1 .. Len(t), NEW l \in 1 .. Len(t), k < l
        PROVE  t[k][2] < t[l][1]
    <3>1. k + 1 \in 1 .. Len(cs) /\ l + 1 \in 1 .. Len(cs) /\ k + 1 < l + 1
      BY <2>2, <1>3
    <3>2. cs[k + 1][2] < cs[l + 1][1]
      BY <3>1 DEF Split, Stacked
    <3> QED BY <3>2, <1>3
  <2> QED BY <1>2, <2>1, <2>2 DEF Stacked
<1>5. Separated(m, t)
  BY <1>3 DEF Split, Separated
<1>6. Disorder(m, t)
  <2> SUFFICES ASSUME NEW x \in 0 .. len - 1, NEW y \in 0 .. len - 1,
                      x < y, m[x] > m[y]
               PROVE  \E k \in 1 .. Len(t) : t[k][1] <= x /\ y <= t[k][2]
    BY DEF Disorder
  <2>1. PICK k \in 1 .. Len(cs) : cs[k][1] <= x /\ y <= cs[k][2]
    BY DEF Split, Disorder
  <2>2. k # 1
    <3>1. cs[1][1] \in Int /\ cs[1][2] \in Int /\ len \in Nat
      BY <1>1, CallFacts DEF Split
    <3> QED BY <3>1, <2>1
  <2>3. Len(cs) \in Nat /\ Len(t) = Len(cs) - 1
    BY <1>1, <1>2
  <2>4. PICK l \in 1 .. Len(t) : l + 1 = k
    BY ONLY <2>2, <2>3, k \in 1 .. Len(cs)
  <2>5. t[l] = cs[k]
    BY <2>4, <1>3
  <2> QED BY <2>1, <2>5
<1> QED BY <1>4, <1>5, <1>6 DEF Split, t

\* Around the pivot at v, the part of the first call is separated.
Pivoted(m, cs, v) ==
  /\ v \in cs[1][1] .. cs[1][2]
  /\ \A x \in cs[1][1] .. v - 1 : m[x] <= m[v]
  /\ \A y \in v + 1 .. cs[1][2] : m[v] < m[y]

Halves(cs, v) == <<<<cs[1][1], v - 1>>, <<v + 1, cs[1][2]>>>> \o Tail(cs)

\* The two parts take the place of the first call; the others move up.
LEMMA HalvesFacts ==
  ASSUME NEW m, NEW cs, Split(m, cs), cs # <<>>, NEW v \in Int
  PROVE  /\ Halves(cs, v) \in Seq(Int \X Int)
         /\ Len(Halves(cs, v)) = Len(cs) + 1
         /\ Halves(cs, v)[1] = <<cs[1][1], v - 1>>
         /\ Halves(cs, v)[2] = <<v + 1, cs[1][2]>>
         /\ \A k \in 3 .. Len(cs) + 1 :
              k - 1 \in 2 .. Len(cs) /\ Halves(cs, v)[k] = cs[k - 1]
<1> DEFINE two == <<<<cs[1][1], v - 1>>, <<v + 1, cs[1][2]>>>>
           t == Tail(cs)
<1>1. /\ cs \in Seq(Int \X Int) /\ 1 \in 1 .. Len(cs) /\ Len(cs) \in Nat
      /\ cs[1][1] \in Int /\ cs[1][2] \in Int
  BY FirstCall, CallFacts DEF Split, Stacked
<1>2. /\ two \in Seq(Int \X Int) /\ Len(two) = 2
      /\ two[1] = <<cs[1][1], v - 1>> /\ two[2] = <<v + 1, cs[1][2]>>
  BY <1>1
<1>3. /\ t \in Seq(Int \X Int) /\ Len(t) = Len(cs) - 1
      /\ \A k \in 1 .. Len(t) : t[k] = cs[k + 1]
  BY <1>1, HeadTailProperties
<1>4. Halves(cs, v) = two \o t
  BY DEF Halves
<1> HIDE DEF two, t
<1>5. /\ two \o t \in Seq(Int \X Int) /\ Len(two \o t) = Len(two) + Len(t)
      /\ \A k \in 1 .. Len(two) + Len(t) :
           (two \o t)[k] = IF k <= Len(two) THEN two[k] ELSE t[k - Len(two)]
  BY <1>2, <1>3, ConcatProperties
<1>6. \A k \in 3 .. Len(cs) + 1 : /\ k - 1 \in 2 .. Len(cs)
                                   /\ (two \o t)[k] = cs[k - 1]
  <2> SUFFICES ASSUME NEW k \in 3 .. Len(cs) + 1
               PROVE  k - 1 \in 2 .. Len(cs) /\ (two \o t)[k] = cs[k - 1]
    OBVIOUS
  <2>1. k - 2 \in 1 .. Len(t) /\ k - 1 \in 2 .. Len(cs) /\ k - 2 + 1 = k - 1
    BY <1>1, <1>3
  <2>2. (two \o t)[k] = t[k - 2]
    <3>1. k \in 1 .. Len(two) + Len(t) /\ ~(k <= Len(two)) /\ k - Len(two) = k - 2
      BY <1>1, <1>2, <1>3
    <3> QED BY <3>1, <1>5
  <2>3. t[k - 2] = cs[k - 2 + 1]
    BY <2>1, <1>3
  <2> QED BY <2>1, <2>2, <2>3
<1>7. (two \o t)[1] = two[1] /\ (two \o t)[2] = two[2]
  <2>1. /\ 1 \in 1 .. Len(two) + Len(t) /\ 1 <= Len(two)
        /\ 2 \in 1 .. Len(two) + Len(t) /\ 2 <= Len(two)
    BY <1>1, <1>2, <1>3, SMTT(30)
  <2> QED BY <2>1, <1>5
<1>8. Len(two \o t) = Len(cs) + 1
  BY <1>1, <1>2, <1>3, <1>5
<1> QED BY <1>2, <1>4, <1>5, <1>6, <1>7, <1>8

\* A call that has partitioned its part gives way to the calls for the two
\* parts beside the pivot.
LEMMA CallHalved ==
  ASSUME NEW m, NEW cs, Split(m, cs), cs # <<>>, NEW v, Pivoted(m, cs, v)
  PROVE  Split(m, Halves(cs, v))
<1> DEFINE lo == cs[1][1]
           hi == cs[1][2]
           h == Halves(cs, v)
<1>1. 1 \in 1 .. Len(cs)
  BY FirstCall
<1>2. /\ Len(cs) \in Nat /\ lo \in Int /\ hi \in Int /\ 0 <= lo /\ hi < len
      /\ lo .. hi \subseteq Positions
  BY <1>1, CallFacts
<1>3. /\ len \in Nat /\ 0 .. len - 1 \subseteq Positions
      /\ \A x \in Positions : m[x] \in Int
  <2>1. len \in Nat /\ 0 .. len - 1 \subseteq Positions
    BY SortsAssumption DEF Split, Positions
  <2>2. \A x \in Positions : m[x] \in Int
    BY SortsAssumption DEF Split, Memory
  <2> QED BY <2>1, <2>2
<1>4. /\ v \in Int /\ lo <= v /\ v <= hi
      /\ \A x \in lo .. v - 1 : m[x] <= m[v]
      /\ \A y \in v + 1 .. hi : m[v] < m[y]
  BY <1>2 DEF Pivoted
<1>5. /\ h \in Seq(Int \X Int) /\ Len(h) = Len(cs) + 1
      /\ h[1] = <<lo, v - 1>> /\ h[2] = <<v + 1, hi>>
      /\ \A k \in 3 .. Len(cs) + 1 : k - 1 \in 2 .. Len(cs) /\ h[k] = cs[k - 1]
  BY <1>4, HalvesFacts
<1>6. \A y \in lo .. hi :
        /\ \A x \in 0 .. lo - 1 : m[x] < m[y]
        /\ \A z \in hi + 1 .. len - 1 : m[y] <= m[z]
  BY <1>1 DEF Split, Separated
<1>7. \A k \in 2 .. Len(cs) :
        /\ k \in 1 .. Len(cs) /\ cs[k][1] \in Int /\ cs[k][2] \in Int
        /\ 0 <= cs[k][1] /\ cs[k][2] < len /\ hi < cs[k][1]
  <2> SUFFICES ASSUME NEW k \in 2 .. Len(cs)
               PROVE  /\ k \in 1 .. Len(cs) /\ cs[k][1] \in Int
                      /\ cs[k][2] \in Int /\ 0 <= cs[k][1]
                      /\ cs[k][2] < len /\ hi < cs[k][1]
    OBVIOUS
  <2>1. k \in 1 .. Len(cs) /\ 1 < k
    BY <1>2
  <2>2. hi < cs[k][1]
    BY <2>1, <1>1 DEF Split, Stacked
  <2> QED BY <2>1, <2>2, CallFacts
<1>8. \A k \in 1 .. Len(h) : k = 1 \/ k = 2 \/ k \in 3 .. Len(cs) + 1
  BY <1>2, <1>5
<1> HIDE DEF lo, hi, h
<1>9. Stacked(h)
  <2>1. \A k \in 1 .. Len(h) : 0 <= h[k][1] /\ h[k][2] < len
    <3> SUFFICES ASSUME NEW k \in 1 .. Len(h)
                 PROVE  0 <= h[k][1] /\ h[k][2] < len
      OBVIOUS
    <3>1. CASE k = 1
      BY <3>1, <1>2, <1>3, <1>4, <1>5
    <3>2. CASE k = 2
      BY <3>2, <1>2, <1>3, <1>4, <1>5
    <3>3. CASE k \in 3 .. Len(cs) + 1
      BY <3>3, <1>5, <1>7
    <3> QED BY <1>8, <3>1, <3>2, <3>3
  <2>2. ASSUME NEW k \in 1 .. Len(h), NEW l \in 1 .. Len(h), k < l
        PROVE  h[k][2] < h[l][1]
    <3>1. CASE k = 1 /\ l = 2
      BY <3>1, <1>2, <1>4, <1>5
    <3>2. CASE k \in 1 .. 2 /\ l \in 3 .. Len(cs) + 1
      <4>1. h[l] = cs[l - 1] /\ l - 1 \in 2 .. Len(cs)
        BY <3>2, <1>5
      <4>2. hi < h[l][1] /\ h[l][1] \in Int
        BY <4>1, <1>7
      <4>3. h[k][2] <= hi /\ h[k][2] \in Int
        <5>1. CASE k = 1
          BY <5>1, <1>2, <1>4, <1>5
        <5>2. CASE k = 2
          BY <5>2, <1>2, <1>4, <1>5
        <5> QED BY <5>1, <5>2, <3>2
      <4> QED BY <4>2, <4>3, <1>2
    <3>3. CASE k \in 3 .. Len(cs) + 1 /\ l \in 3 .. Len(cs) + 1
      <4>1. k - 1 \in 1 .. Len(cs) /\ l - 1 \in 1 .. Len(cs) /\ k - 1 < l - 1
        BY <3>3, <2>2, <1>2
      <4>2. cs[k - 1][2] < cs[l - 1][1]
        BY <4>1 DEF Split, Stacked
      <4> QED BY <4>2, <3>3, <1>5
    <3>4. \/ k = 1 /\ l = 2
          \/ k \in 1 .. 2 /\ l \in 3 .. Len(cs) + 1
          \/ k \in 3 .. Len(cs) + 1 /\ l \in 3 .. Len(cs) + 1
      <4>1. k \in 1 .. Len(cs) + 1 /\ l \in 1 .. Len(cs) + 1
        BY <1>5
      <4> QED BY <4>1, <2>2, <1>2
    <3> QED BY <3>1, <3>2, <3>3, <3>4
  <2> QED BY <1>5, <2>1, <2>2 DEF Stacked
<1>10. Separated(m, h)
  <2> SUFFICES ASSUME NEW k \in 1 .. Len(h), NEW y \in h[k][1] .. h[k][2]
               PROVE  /\ \A x \in 0 .. h[k][1] - 1 : m[x] < m[y]
                      /\ \A z \in h[k][2] + 1 .. len - 1 : m[y] <= m[z]
    BY DEF Separated
  <2>1. CASE k = 1
    <3>1. /\ h[k][1] = lo /\ h[k][2] = v - 1
          /\ y \in lo .. hi /\ y \in lo .. v - 1 /\ v \in lo .. hi
      BY <2>1, <1>2, <1>4, <1>5
    <3>2. \A x \in 0 .. lo - 1 : m[x] < m[y]
      BY <3>1, <1>6
    <3>3. ASSUME NEW z \in v .. len - 1
          PROVE  m[y] <= m[z]
      <4>1. m[y] <= m[v] /\ m[y] \in Int /\ m[v] \in Int
        BY <3>1, <1>2, <1>3, <1>4
      <4>2. CASE z = v
        BY <4>1, <4>2
      <4>3. CASE z \in v + 1 .. hi
        <5>1. m[v] < m[z] /\ m[z] \in Int
          BY <4>3, <1>2, <1>3, <1>4
        <5> QED BY <4>1, <5>1
      <4>4. CASE z \in hi + 1 .. len - 1
        BY <4>4, <3>1, <1>6
      <4> QED BY <4>2, <4>3, <4>4, <1>2, <1>3, <1>4
    <3> QED BY <3>1, <3>2, <3>3, <1>4
  <2>2. CASE k = 2
    <3>1. /\ h[k][1] = v + 1 /\ h[k][2] = hi
          /\ y \in lo .. hi /\ y \in v + 1 .. hi /\ v \in lo .. hi
      BY <2>2, <1>2, <1>4, <1>5
    <3>2. \A z \in hi + 1 .. len - 1 : m[y] <= m[z]
      BY <3>1, <1>6
    <3>3. ASSUME NEW x \in 0 .. v
          PROVE  m[x] < m[y]
      <4>1. m[v] < m[y] /\ m[y] \in Int /\ m[v] \in Int
        BY <3>1, <1>2, <1>3, <1>4
      <4>2. CASE x = v
        BY <4>1, <4>2
      <4>3. CASE x \in lo .. v - 1
        <5>1. m[x] <= m[v] /\ m[x] \in Int
          BY <4>3, <1>2, <1>3, <1>4
        <5> QED BY <4>1, <5>1
      <4>4. CASE x \in 0 .. lo - 1
        BY <4>4, <3>1, <1>6
      <4> QED BY <4>2, <4>3, <4>4, <1>2, <1>3, <1>4
    <3>4. h[k][1] - 1 = v
      BY <3>1, <1>4
    <3> QED BY <3>1, <3>2, <3>3, <3>4
  <2>3. CASE k \in 3 .. Len(cs) + 1
    <3>1. k - 1 \in 1 .. Len(cs) /\ h[k] = cs[k - 1]
      BY <2>3, <1>5, <1>7
    <3> QED BY <3>1 DEF Split, Separated
  <2> QED BY <1>8, <2>1, <2>2, <2>3
<1>11. Disorder(m, h)
  <2> SUFFICES ASSUME NEW x \in 0 .. len - 1, NEW y \in 0 .. len - 1,
                      x < y, m[x] > m[y]
               PROVE  \E k \in 1 .. Len(h) : h[k][1] <= x /\ y <= h[k][2]
    BY DEF Disorder
  <2>1. PICK k \in 1 .. Len(cs) : cs[k][1] <= x /\ y <= cs[k][2]
    BY DEF Split, Disorder
  <2>2. CASE k # 1
    <3>1. PICK l \in 3 .. Len(cs) + 1 : l - 1 = k
      <4>1. k + 1 \in 3 .. Len(cs) + 1 /\ k + 1 - 1 = k
        BY <2>2, <1>2
      <4> QED BY <4>1
    <3>2. h[l] = cs[k]
      BY <3>1, <1>5
    <3>3. l \in 1 .. Len(h)
      BY <1>2, <1>5
    <3> QED BY <2>1, <3>2, <3>3
  <2>3. CASE k = 1
    <3>1. lo <= x /\ y <= hi /\ x \in Int /\ y \in Int
      BY <2>1, <2>3, <1>3 DEF lo, hi
    <3>2. 1 \in 1 .. Len(h) /\ 2 \in 1 .. Len(h)
      BY <1>1, <1>2, <1>5
    <3>3. CASE y < v
      <4>1. h[1][1] <= x /\ y <= h[1][2]
        BY <3>1, <3>3, <1>4, <1>5
      <4> QED BY <4>1, <3>2
    <3>4. CASE x > v
      <4>1. h[2][1] <= x /\ y <= h[2][2]
        BY <3>1, <3>4, <1>4, <1>5
      <4> QED BY <4>1, <3>2
    <3>5. CASE x <= v /\ v <= y
      <4>1. x \in Positions /\ y \in Positions /\ v \in Positions
        BY <3>1, <3>5, <1>2, <1>3, <1>4
      <4>2. m[x] <= m[v]
        BY <3>1, <3>5, <1>3, <1>4, <4>1
      <4>3. m[v] <= m[y]
        BY <3>1, <3>5, <1>3, <1>4, <4>1
      <4> QED BY <4>1, <4>2, <4>3, <1>3
    <3> QED BY <3>1, <3>3, <3>4, <3>5, <1>4
  <2> QED BY <2>2, <2>3
<1> QED BY <1>9, <1>10, <1>11 DEF Split, h
-----------------------------------------------------------------------------
(* The steps *)

\* A memory and calls that are split stay so as the next state's.
LEMMA SplitNext ==
  ASSUME NEW m, NEW cs, Split(m, cs), len' = len, a' = m, calls' = cs
  PROVE  Split(a, calls)'
BY DEF Split, Stacked, Separated, Disorder

\* In the beginning the part to be sorted is the whole array.
LEMMA InitSplit ==
  ASSUME Init
  PROVE  IInv
<1>1. len \in Lengths /\ len \in Nat /\ 1 <= len /\ len <= NUM_INTS /\ a \in Memory
  BY SortsAssumption DEF Init, Memory
<1>2. ASSUME pc = "call"
      PROVE  Split(a, calls)
  <2>1. calls = <<<<0, len - 1>>>>
    BY <1>2 DEF Init
  <2>2. /\ calls \in Seq(Int \X Int) /\ Len(calls) = 1
        /\ calls[1][1] = 0 /\ calls[1][2] = len - 1
    BY <2>1, <1>1
  <2>3. Stacked(calls)
    BY <2>2, <1>1 DEF Stacked
  <2>4. Separated(a, calls)
    BY <2>2, <1>1 DEF Separated
  <2>5. Disorder(a, calls)
    BY <2>2, <1>1 DEF Disorder
  <2> QED BY <2>3, <2>4, <2>5, <1>1 DEF Split
<1>3. /\ pc \in {"selection", "insertion", "heapify", "call"}
      /\ pc # "call" => calls = <<>>
  BY DEF Init
<1> QED BY <1>1, <1>2, <1>3 DEF IInv, AroundPivot

\* What partition finds in its part.
LEMMA PartFacts ==
  ASSUME IInv, pc \in {"call", "partition"}, calls # <<>>
  PROVE  /\ Split(a, calls) /\ a \in Memory
         /\ start \in Int /\ end \in Int /\ 0 <= start /\ end < len
         /\ start .. end \subseteq Positions
         /\ \A x \in Positions : a[x] \in Int
         /\ \A y \in start .. end, x \in 0 .. start - 1 : a[x] < a[y]
<1>1. Split(a, calls) /\ a \in Memory
  BY DEF IInv, Split
<1>2. 1 \in 1 .. Len(calls)
  BY <1>1, FirstCall
<1>3. /\ start \in Int /\ end \in Int /\ 0 <= start /\ end < len
      /\ start .. end \subseteq Positions
  BY <1>1, <1>2, CallFacts DEF start, end
<1>4. \A x \in Positions : a[x] \in Int
  BY <1>1, SortsAssumption DEF Memory
<1>5. \A y \in start .. end, x \in 0 .. start - 1 : a[x] < a[y]
  BY <1>1, <1>2 DEF Split, Separated, start, end
<1> QED BY <1>1, <1>3, <1>4, <1>5

\* The second of the three elements may be outside of the part, but then it is
\* less than the other two, so that it is not moved.
LEMMA PivotWithin ==
  ASSUME IInv, pc = "call", calls # <<>>, start < end
  PROVE  Within(a, pivot_first, start, end)
<1> DEFINE mid == (end - start) \div 2
<1>1. /\ a \in Memory /\ start \in Int /\ end \in Int /\ 0 <= start
      /\ start .. end \subseteq Positions
      /\ \A x \in Positions : a[x] \in Int
      /\ \A y \in start .. end, x \in 0 .. start - 1 : a[x] < a[y]
  BY PartFacts
<1>2. start \in start .. end /\ end \in start .. end
  BY <1>1
<1>3. mid \in Int /\ 0 <= mid /\ mid <= end
  BY <1>1
<1>4. pivot_first = IF \/ a[mid] >= a[start] /\ a[start] >= a[end]
                       \/ a[mid] <= a[start] /\ a[start] <= a[end]
                      THEN a
                    ELSE IF \/ a[start] >= a[mid] /\ a[mid] >= a[end]
                            \/ a[start] <= a[mid] /\ a[mid] <= a[end]
                      THEN swap(a, start, mid)
                    ELSE swap(a, start, end)
  BY DEF pivot_first
<1> HIDE DEF mid
<1>5. Within(a, a, start, end) /\ Within(a, swap(a, start, end), start, end)
  BY <1>1, <1>2, SameWithin, SwapWithin
<1>6. CASE mid \in start .. end
  <2>1. Within(a, swap(a, start, mid), start, end)
    BY <1>1, <1>2, <1>6, SwapWithin
  <2> QED BY <2>1, <1>4, <1>5
<1>7. CASE mid \in 0 .. start - 1
  <2>1. /\ a[mid] < a[start] /\ a[mid] < a[end]
        /\ a[start] \in Int /\ a[end] \in Int
    BY <1>1, <1>2, <1>7
  <2>2. a[mid] \in Int
    <3>1. mid \in Positions
      BY <1>1, <1>2, <1>7, SortsAssumption DEF Positions
    <3> QED BY <3>1, <1>1
  <2>3. ~ \/ a[start] >= a[mid] /\ a[mid] >= a[end]
          \/ a[start] <= a[mid] /\ a[mid] <= a[end]
    BY <2>1, <2>2
  <2> QED BY <2>3, <1>4, <1>5
<1> QED BY <1>1, <1>3, <1>6, <1>7

\* A step of partition changes memory within its part only.
LEMMA PartitionWithin ==
  ASSUME IInv, QuickPartitions \/ MoveBefore \/ MoveAfter
  PROVE  Within(a, a', start, end)
<1>1. CASE QuickPartitions
  BY <1>1, PivotWithin DEF QuickPartitions
<1>2. CASE MoveBefore \/ MoveAfter
  <2>1. pc = "partition" /\ i < j /\ InPart
    BY <1>2 DEF MoveBefore, MoveAfter, IInv
  <2>2. a \in Memory /\ start \in Int /\ end \in Int /\ start .. end \subseteq Positions
    BY <2>1, PartFacts DEF InPart
  <2>3. i \in start .. end /\ i + 1 \in start .. end /\ j \in start .. end
    BY <2>1, <2>2 DEF InPart
  <2>4. /\ Within(a, swap(a, i + 1, i), start, end)
        /\ Within(a, swap(a, i + 1, j), start, end)
    BY <2>2, <2>3, SwapWithin
  <2> QED BY <2>4, <1>2 DEF MoveBefore, MoveAfter
<1> QED BY <1>1, <1>2

\* So it keeps the parts separated, and the disorder in them.
LEMMA PartitionSplit ==
  ASSUME IInv, QuickPartitions \/ MoveBefore \/ MoveAfter
  PROVE  Split(a, calls)'
<1>1. /\ pc \in {"call", "partition"} /\ calls # <<>>
      /\ len' = len /\ calls' = calls
  BY DEF IInv, InPart, QuickPartitions, MoveBefore, MoveAfter
<1>2. Split(a, calls)
  BY <1>1, PartFacts
<1>3. Within(a, a', calls[1][1], calls[1][2])
  BY PartitionWithin DEF start, end
<1>4. Split(a', calls)
  BY <1>1, <1>2, <1>3, FirstPartChanges
<1> QED BY <1>1, <1>4, SplitNext

\* Elements move so that those before the pivot are not above it and those
\* after it are.
LEMMA MoveBeforeStep ==
  ASSUME IInv, MoveBefore
  PROVE  IInv'
<1>1. /\ pc = "partition" /\ InPart /\ i < j /\ a[i + 1] <= a[i]
      /\ a' = swap(a, i + 1, i) /\ i' = i + 1
      /\ len' = len /\ pc' = pc /\ j' = j /\ calls' = calls
  BY DEF IInv, MoveBefore, goes_before
<1>2. /\ a \in Memory /\ start \in Int /\ end \in Int /\ 0 <= start
      /\ start .. end \subseteq Positions
      /\ \A x \in Positions : a[x] \in Int
  BY <1>1, PartFacts DEF InPart
<1>3. i \in Int /\ j \in Int /\ start <= i /\ i < j /\ j <= end
  BY <1>1 DEF InPart
<1>4. i \in Positions /\ i + 1 \in Positions
  <2>1. i \in start .. end /\ i + 1 \in start .. end
    BY <1>2, <1>3
  <2> QED BY <2>1, <1>2
<1>5. /\ a'[i + 1] = a[i] /\ a'[i] = a[i + 1]
      /\ \A z \in Positions \ {i, i + 1} : a'[z] = a[z]
  <2>0. a \in Memory /\ i + 1 \in Positions /\ i \in Positions
    BY <1>2, <1>4
  <2>1. /\ swap(a, i + 1, i)[i + 1] = a[i] /\ swap(a, i + 1, i)[i] = a[i + 1]
        /\ \A z \in Positions \ {i + 1, i} : swap(a, i + 1, i)[z] = a[z]
    BY ONLY <2>0, SwapFacts, ZenonT(60)
  <2> QED BY <2>1, <1>1
<1>6. /\ \A x \in start .. i - 1 : a[x] <= a[i]
      /\ \A y \in j + 1 .. end : a[i] < a[y]
  BY <1>1 DEF IInv, AroundPivot
<1>7. start' = start /\ end' = end
  BY <1>1 DEF start, end
<1>8. ASSUME NEW x \in start .. i
      PROVE  a'[x] <= a'[i + 1]
  <2>1. CASE x = i
    BY <2>1, <1>1, <1>5
  <2>2. CASE x \in start .. i - 1
    <3>1. x \in Positions \ {i, i + 1}
      BY <2>2, <1>2, <1>3
    <3> QED BY <2>2, <3>1, <1>5, <1>6
  <2> QED BY <2>1, <2>2, <1>2, <1>3
<1>9. ASSUME NEW y \in j + 1 .. end
      PROVE  a'[i + 1] < a'[y]
  <2>1. y \in Positions \ {i, i + 1}
    BY <1>2, <1>3
  <2> QED BY <2>1, <1>5, <1>6
<1>10. AroundPivot'
  <2>1. start' .. i' - 1 = start .. i /\ j' + 1 .. end' = j + 1 .. end
    BY <1>1, <1>3, <1>7
  <2> QED BY <2>1, <1>1, <1>8, <1>9 DEF AroundPivot
<1>11. InPart'
  BY <1>1, <1>2, <1>3, <1>7 DEF InPart
<1>12. Split(a, calls)'
  BY PartitionSplit
<1> QED BY <1>1, <1>10, <1>11, <1>12 DEF IInv

\* partition moves an element past the pivot and keeps the invariant.
LEMMA MoveAfterStep ==
  ASSUME IInv, MoveAfter
  PROVE  IInv'
<1>1. /\ pc = "partition" /\ InPart /\ i < j /\ ~(a[i + 1] <= a[i])
      /\ a' = swap(a, i + 1, j) /\ j' = j - 1
      /\ len' = len /\ pc' = pc /\ i' = i /\ calls' = calls
  BY DEF IInv, MoveAfter, goes_before
<1>2. /\ a \in Memory /\ start \in Int /\ end \in Int /\ 0 <= start
      /\ start .. end \subseteq Positions
      /\ \A x \in Positions : a[x] \in Int
  BY <1>1, PartFacts DEF InPart
<1>3. i \in Int /\ j \in Int /\ start <= i /\ i < j /\ j <= end
  BY <1>1 DEF InPart
<1>4. i \in Positions /\ i + 1 \in Positions /\ j \in Positions
  <2>1. i \in start .. end /\ i + 1 \in start .. end /\ j \in start .. end
    BY <1>2, <1>3
  <2> QED BY <2>1, <1>2
<1>5. /\ a'[j] = a[i + 1]
      /\ \A z \in Positions \ {i + 1, j} : a'[z] = a[z]
  <2>0. a \in Memory /\ i + 1 \in Positions /\ j \in Positions
    BY <1>2, <1>4
  <2>1. /\ swap(a, i + 1, j)[j] = a[i + 1]
        /\ \A z \in Positions \ {i + 1, j} : swap(a, i + 1, j)[z] = a[z]
    BY ONLY <2>0, SwapFacts, ZenonT(60)
  <2> QED BY <2>1, <1>1
<1>6. /\ \A x \in start .. i - 1 : a[x] <= a[i]
      /\ \A y \in j + 1 .. end : a[i] < a[y]
  BY <1>1 DEF IInv, AroundPivot
<1>7. start' = start /\ end' = end
  BY <1>1 DEF start, end
<1>8. a'[i] = a[i]
  BY <1>3, <1>4, <1>5
<1>9. ASSUME NEW x \in start .. i - 1
      PROVE  a'[x] <= a'[i]
  <2>1. x \in Positions \ {i + 1, j}
    BY <1>2, <1>3
  <2> QED BY <2>1, <1>5, <1>6, <1>8
<1>10. ASSUME NEW y \in j .. end
       PROVE  a'[i] < a'[y]
  <2>1. CASE y = j
    <3>1. a[i] < a[i + 1]
      BY <1>1, <1>2, <1>4
    <3> QED BY <2>1, <3>1, <1>5, <1>8
  <2>2. CASE y \in j + 1 .. end
    <3>1. y \in Positions \ {i + 1, j}
      BY <2>2, <1>2, <1>3
    <3> QED BY <2>2, <3>1, <1>5, <1>6, <1>8
  <2> QED BY <2>1, <2>2, <1>2, <1>3
<1>11. AroundPivot'
  <2>1. start' .. i' - 1 = start .. i - 1 /\ j' + 1 .. end' = j .. end
    BY <1>1, <1>3, <1>7
  <2> QED BY <2>1, <1>1, <1>9, <1>10 DEF AroundPivot
<1>12. InPart'
  BY <1>1, <1>2, <1>3, <1>7 DEF InPart
<1>13. Split(a, calls)'
  BY PartitionSplit
<1> QED BY <1>1, <1>11, <1>12, <1>13 DEF IInv

\* partition begins with all of its part between i and j.
LEMMA QuickPartitionsStep ==
  ASSUME IInv, QuickPartitions
  PROVE  IInv'
<1>1. /\ pc = "call" /\ calls # <<>> /\ start < end
      /\ i' = start /\ j' = end /\ pc' = "partition"
      /\ len' = len /\ calls' = calls
  BY DEF QuickPartitions
<1>2. start \in Int /\ end \in Int
  BY <1>1, PartFacts
<1>3. start' = start /\ end' = end
  BY <1>1 DEF start, end
<1>4. InPart'
  BY <1>1, <1>2, <1>3 DEF InPart
<1>5. AroundPivot'
  <2>1. start' .. i' - 1 = {} /\ j' + 1 .. end' = {}
    BY <1>1, <1>2, <1>3
  <2> QED BY <2>1 DEF AroundPivot
<1>6. Split(a, calls)'
  BY PartitionSplit
<1> QED BY <1>1, <1>4, <1>5, <1>6 DEF IInv

\* partition ends with the pivot between the two parts.
LEMMA PartitionedStep ==
  ASSUME IInv, Partitioned
  PROVE  IInv'
<1>1. /\ pc = "partition" /\ InPart /\ i >= j /\ AroundPivot /\ pc' = "call"
      /\ a' = a /\ len' = len /\ calls # <<>>
      /\ calls' = <<<<start, i - 1>>, <<i + 1, end>>>> \o Tail(calls)
  BY DEF IInv, InPart, Partitioned
<1>2. calls' = Halves(calls, i)
  BY <1>1 DEF Halves, start, end
<1>3. i = j /\ i \in Int /\ start <= i /\ i <= end
  BY <1>1, PartFacts DEF InPart
<1>4. Split(a, calls) /\ start \in Int /\ end \in Int
  BY <1>1, PartFacts
<1>5. Pivoted(a, calls, i)
  BY <1>1, <1>3, <1>4 DEF AroundPivot, Pivoted, start, end
<1>6. Split(a, Halves(calls, i))
  BY <1>1, <1>4, <1>5, CallHalved
<1>7. Split(a, calls)'
  BY <1>1, <1>2, <1>6, SplitNext
<1> QED BY <1>1, <1>7 DEF IInv, AroundPivot

\* A call returns when its part has no two elements.
LEMMA QuickReturnsStep ==
  ASSUME IInv, QuickReturns
  PROVE  IInv'
<1>1. /\ pc = "call" /\ pc' = pc /\ calls # <<>> /\ start >= end
      /\ a' = a /\ len' = len /\ calls' = Tail(calls)
  BY DEF QuickReturns
<1>2. Split(a, calls)
  BY <1>1, PartFacts
<1>3. Split(a, Tail(calls))
  BY <1>1, <1>2, CallDropped DEF start, end
<1>4. Split(a, calls)'
  BY <1>1, <1>3, SplitNext
<1> QED BY <1>1, <1>4 DEF IInv, AroundPivot

\* The other sorts have no calls to make.
LEMMA OtherSteps ==
  ASSUME IInv, \/ SelectionTurn \/ InsertionSwap \/ InsertionNext \/ LoopEnds
               \/ SiftUp \/ HeapifyNext \/ Heapified
               \/ Extract \/ SiftDown \/ SiftEnds \/ HeapEmpty \/ QuickDone
  PROVE  IInv'
<1>1. /\ len' = len /\ calls' = calls /\ calls = <<>>
      /\ pc' \notin {"call", "partition"}
  BY DEF IInv, SelectionTurn, InsertionSwap, InsertionNext, LoopEnds, SiftUp,
         HeapifyNext, Heapified, Extract, SiftDown, SiftEnds, HeapEmpty, QuickDone
<1> QED BY <1>1 DEF IInv, AroundPivot

\* A step that changes nothing.
LEMMA Stutter ==
  ASSUME IInv, UNCHANGED vars
  PROVE  IInv'
<1>1. /\ a' = a /\ len' = len /\ pc' = pc /\ i' = i /\ j' = j
      /\ calls' = calls /\ start' = start /\ end' = end
  BY DEF vars, start, end
<1>2. pc \in {"call", "partition"} => Split(a, calls)'
  BY <1>1, SplitNext DEF IInv
<1>3. InPart => InPart'
  BY <1>1 DEF InPart
<1>4. AroundPivot => AroundPivot'
  BY <1>1 DEF AroundPivot
<1> QED BY <1>1, <1>2, <1>3, <1>4 DEF IInv
-----------------------------------------------------------------------------
(* The theorems *)

\* While quick_sort runs, the parts that are still to be sorted lie in the
\* array in ascending order, they are separated from all that is beside them,
\* they hold all disorder, and partition has its pivot in place.
THEOREM QuickSortInvariant == Spec => []IInv
<1>1. Init => IInv
  BY InitSplit
<1>2. IInv /\ [Next]_vars => IInv'
  <2> SUFFICES ASSUME IInv, [Next]_vars
               PROVE  IInv'
    OBVIOUS
  <2>1. CASE QuickReturns
    BY <2>1, QuickReturnsStep
  <2>2. CASE QuickPartitions
    BY <2>2, QuickPartitionsStep
  <2>3. CASE MoveBefore
    BY <2>3, MoveBeforeStep
  <2>4. CASE MoveAfter
    BY <2>4, MoveAfterStep
  <2>5. CASE Partitioned
    BY <2>5, PartitionedStep
  <2>6. CASE \/ SelectionTurn \/ InsertionSwap \/ InsertionNext \/ LoopEnds
             \/ SiftUp \/ HeapifyNext \/ Heapified
             \/ Extract \/ SiftDown \/ SiftEnds \/ HeapEmpty \/ QuickDone
    BY <2>6, OtherSteps
  <2>7. CASE UNCHANGED vars
    BY <2>7, Stutter
  <2> QED BY <2>1, <2>2, <2>3, <2>4, <2>5, <2>6, <2>7 DEF Next
<1> QED BY <1>1, <1>2, PTL DEF Spec

\* The parts of the calls that are still to be made are separated: so the two
\* calls quick_sort makes of itself do not meet, and their results need no
\* merging.
THEOREM PartsAreSeparated == Spec => []PartsSeparated
<1>1. IInv => PartsSeparated
  <2> SUFFICES ASSUME IInv
               PROVE  PartsSeparated
    OBVIOUS
  <2>1. CASE pc \in {"call", "partition"}
    <3>1. Separated(a, calls) /\ calls \in Seq(Int \X Int)
      BY <2>1 DEF IInv, Split, Stacked
    <3>2. DOMAIN calls = 1 .. Len(calls)
      BY <3>1, LenProperties
    <3> QED BY <3>1, <3>2 DEF Separated, PartsSeparated
  <2>2. CASE pc \notin {"call", "partition"}
    BY <2>2 DEF IInv, PartsSeparated
  <2> QED BY <2>1, <2>2
<1> QED BY <1>1, QuickSortInvariant, PTL

\* Elements that are out of order are in the part of one call that is still
\* to be made: quick_sort forgets no call.
THEOREM DisorderIsInParts == Spec => []DisorderInParts
<1>1. IInv => DisorderInParts
  <2> SUFFICES ASSUME IInv, pc \in {"call", "partition"}
               PROVE  DisorderInParts
    BY DEF DisorderInParts
  <2>1. Disorder(a, calls) /\ calls \in Seq(Int \X Int)
    BY DEF IInv, Split, Stacked
  <2>2. DOMAIN calls = 1 .. Len(calls)
    BY <2>1, LenProperties
  <2> QED BY <2>1, <2>2 DEF Disorder, DisorderInParts
<1> QED BY <1>1, QuickSortInvariant, PTL

\* partition keeps what its comment says of the elements beside the pivot.
THEOREM PartitionKeepsPivot == Spec => []AroundPivot
<1>1. IInv => AroundPivot
  BY DEF IInv
<1> QED BY <1>1, QuickSortInvariant, PTL

\* No call of quick_sort moves an element outside of its part, although the
\* second of the three elements that partition compares may be outside.
THEOREM CallsStayInPart == Spec => StaysInPart
<1>1. IInv /\ [Next]_vars =>
        [a' # a /\ pc \in {"call", "partition"} =>
           \A x \in Positions : a'[x] # a[x] => x \in start .. end]_vars
  <2> SUFFICES ASSUME IInv, [Next]_vars, a' # a, pc \in {"call", "partition"}
               PROVE  \A x \in Positions : a'[x] # a[x] => x \in start .. end
    OBVIOUS
  <2>1. QuickPartitions \/ MoveBefore \/ MoveAfter
    BY DEF Next, vars, SelectionTurn, InsertionSwap, InsertionNext, LoopEnds,
           SiftUp, HeapifyNext, Heapified, Extract, SiftDown, SiftEnds,
           HeapEmpty, QuickReturns, Partitioned, QuickDone
  <2>2. Within(a, a', start, end)
    BY <2>1, PartitionWithin
  <2> QED BY <2>2 DEF Within
<1> QED BY <1>1, QuickSortInvariant, PTL DEF Spec, StaysInPart

\* When quick_sort returns the array is sorted.
THEOREM QuickSortSorts ==
  Spec => [][QuickDone => \A x, y \in 0 .. len - 1 : x < y => a[x] <= a[y]]_vars
<1>1. IInv /\ [Next]_vars =>
        [QuickDone => \A x, y \in 0 .. len - 1 : x < y => a[x] <= a[y]]_vars
  <2> SUFFICES ASSUME IInv, QuickDone,
                      NEW x \in 0 .. len - 1, NEW y \in 0 .. len - 1, x < y
               PROVE  a[x] <= a[y]
    OBVIOUS
  <2>1. Split(a, calls) /\ calls = <<>> /\ Len(calls) = 0
    BY DEF IInv, QuickDone
  <2>2. ~(a[x] > a[y])
    BY <2>1 DEF Split, Disorder
  <2>3. a[x] \in Int /\ a[y] \in Int
    <3>1. x \in Positions /\ y \in Positions
      BY <2>1, SortsAssumption DEF Split, Positions
    <3> QED BY <3>1, <2>1, SortsAssumption DEF Split, Memory
  <2> QED BY <2>2, <2>3
<1> QED BY <1>1, QuickSortInvariant, PTL DEF Spec
-----------------------------------------------------------------------------
(* Least elements, and counting *)

\* A finite set has a minimal element for every strict order R, given as a set
\* of pairs.
LEMMA Minimal ==
  ASSUME NEW S, IsFiniteSet(S), S # {}, NEW R,
         \A x, y, z \in S : <<x, y>> \in R /\ <<y, z>> \in R => <<x, z>> \in R,
         \A x \in S : <<x, x>> \notin R
  PROVE  \E m \in S : \A x \in S : <<x, m>> \notin R
<1> DEFINE Before(m) == {x \in S : <<x, m>> \in R}
           U == {Before(m) : m \in S}
<1>1. U \subseteq FiniteSubsetsOf(S) /\ U # {}
  <2>1. \A m \in S : Before(m) \subseteq S
    OBVIOUS
  <2>2. U \subseteq SUBSET S
    BY <2>1, ZenonT(60)
  <2>3. \A T \in U : IsFiniteSet(T)
    <3> HIDE DEF U
    <3> QED BY <2>2, FS_Subset
  <2>4. U # {}
    <3>1. PICK m : m \in S
      OBVIOUS
    <3>2. Before(m) \in U
      BY <3>1
    <3> QED BY <3>2
  <2> HIDE DEF U
  <2> QED BY <2>2, <2>3, <2>4 DEF FiniteSubsetsOf
<1>2. IsWellFoundedOn(StrictSubsetOrdering(S), FiniteSubsetsOf(S))
  BY FS_StrictSubsetOrderingWellFounded
<1> HIDE DEF U
<1>3. PICK X \in U : \A Y \in U : <<Y, X>> \notin StrictSubsetOrdering(S)
  BY <1>1, <1>2, WFMin
<1>4. PICK m \in S : X = Before(m)
  BY <1>3 DEF U
<1>5. ASSUME NEW x \in S, <<x, m>> \in R
      PROVE  FALSE
  <2>1. Before(x) \in U
    BY DEF U
  <2>2. /\ Before(x) \subseteq Before(m)
        /\ x \in Before(m) /\ x \notin Before(x)
        /\ Before(x) \in SUBSET S /\ Before(m) \in SUBSET S
    BY <1>5
  <2>3. <<Before(x), Before(m)>> \in StrictSubsetOrdering(S)
    BY <2>2 DEF StrictSubsetOrdering
  <2> QED BY <1>3, <1>4, <2>1, <2>3
<1> QED BY <1>5

\* min_pos finds the first of the least elements of the rest.
LEMMA MinPos ==
  ASSUME a \in Memory, len \in Nat, len <= NUM_INTS, NEW k \in 0 .. len - 1
  PROVE  min_pos(k) \in k .. len - 1 /\ \A x \in k .. len - 1 : a[min_pos(k)] <= a[x]
<1> DEFINE S == k .. len - 1
           R == {p \in S \X S : a[p[1]] < a[p[2]] \/ (a[p[1]] = a[p[2]] /\ p[1] < p[2])}
<1>1. \A x \in S : x \in Int /\ x \in Positions /\ a[x] \in Int
  <2>1. \A x \in S : x \in Int /\ x \in Positions
    BY SortsAssumption DEF Positions
  <2> QED BY <2>1, SortsAssumption DEF Memory
<1>2. IsFiniteSet(S) /\ k \in S
  BY FS_Interval
<1> HIDE DEF S
<1>3. \A x, y \in S : <<x, y>> \in R <=> a[x] < a[y] \/ (a[x] = a[y] /\ x < y)
  OBVIOUS
<1> HIDE DEF R
<1>4. \A x, y, z \in S : <<x, y>> \in R /\ <<y, z>> \in R => <<x, z>> \in R
  BY <1>1, <1>3
<1>5. \A x \in S : <<x, x>> \notin R
  BY <1>1, <1>3
<1>6. PICK m \in S : \A x \in S : <<x, m>> \notin R
  BY <1>2, <1>4, <1>5, Minimal
<1>7. \A x \in S : a[m] < a[x] \/ (a[m] = a[x] /\ m <= x)
  <2> TAKE x \in S
  <2>1. ~(a[x] < a[m] \/ (a[x] = a[m] /\ x < m))
    BY <1>3, <1>6
  <2>2. x \in Int /\ m \in Int /\ a[x] \in Int /\ a[m] \in Int
    BY <1>1
  <2> QED BY <2>1, <2>2
<1>8. /\ min_pos(k) \in S
      /\ \A x \in S : \/ a[min_pos(k)] < a[x]
                      \/ a[min_pos(k)] = a[x] /\ min_pos(k) <= x
  <2>1. min_pos(k) = CHOOSE l \in S :
                       \A x \in S : a[l] < a[x] \/ (a[l] = a[x] /\ l <= x)
    BY DEF min_pos, S
  <2> QED BY <1>7, <2>1
<1> QED BY <1>1, <1>8 DEF S

Occurrences(m, v) == {z \in Positions : m[z] = v}

\* A swap changes no value's number of occurrences.
LEMMA SwapCounts ==
  ASSUME NUM_INTS \in Nat,
         NEW m \in Memory, NEW x \in Positions, NEW y \in Positions, NEW v
  PROVE  Cardinality(Occurrences(swap(m, x, y), v)) = Cardinality(Occurrences(m, v))
<1> DEFINE m2 == swap(m, x, y)
           S == Occurrences(m2, v)
           T == Occurrences(m, v)
           to(z) == IF z = x THEN y ELSE IF z = y THEN x ELSE z
           f == [z \in S |-> to(z)]
<1>1. m2[x] = m[y] /\ m2[y] = m[x] /\ \A z \in Positions \ {x, y} : m2[z] = m[z]
  BY SwapFacts
<1> HIDE DEF m2
<1>2. \A z \in Positions : to(z) \in Positions /\ m[to(z)] = m2[z] /\ to(to(z)) = z
                           /\ m2[to(z)] = m[z]
  BY <1>1
<1>3. f \in [S -> T] /\ \A z \in S : f[z] = to(z)
  BY <1>2 DEF Occurrences
<1>4. \A w, z \in S : f[w] = f[z] => w = z
  BY <1>2, <1>3 DEF Occurrences
<1>5. \A w \in T : \E z \in S : f[z] = w
  <2> TAKE w \in T
  <2>1. to(w) \in S /\ to(to(w)) = w
    BY <1>2 DEF Occurrences
  <2> QED BY <1>3, <2>1
<1> HIDE DEF f, S, T, to
<1>6. f \in Bijection(S, T)
  BY <1>3, <1>4, <1>5 DEF Bijection, Injection, Surjection, IsInjective
<1>7. IsFiniteSet(S)
  <2>1. IsFiniteSet(Positions) /\ S \subseteq Positions
    BY FS_Interval DEF S, Positions, Occurrences
  <2> QED BY <2>1, FS_Subset
<1>8. Cardinality(T) = Cardinality(S)
  BY <1>6, <1>7, FS_Bijection DEF ExistsBijection
<1> QED BY <1>8 DEF S, T, m2
-----------------------------------------------------------------------------
(* The tree of a heap *)

\* The positions of parents and children.
LEMMA Family ==
  /\ \A c \in Nat \ {0} : /\ parent(c) \in Nat /\ parent(c) < c
                          /\ c = leftChild(parent(c)) \/ c = rightChild(parent(c))
  /\ \A p \in Nat : /\ leftChild(p) \in Nat /\ rightChild(p) \in Nat
                    /\ p < leftChild(p) /\ rightChild(p) = leftChild(p) + 1
                    /\ parent(leftChild(p)) = p /\ parent(rightChild(p)) = p
BY DEF parent, leftChild, rightChild

\* The greatest element of a heap is at its root.
LEMMA RootIsGreatest ==
  ASSUME a \in Memory, len \in Nat, len <= NUM_INTS, n \in 0 .. len - 1,
         \A c \in 1 .. n : a[c] <= a[parent(c)],
         NEW x \in 0 .. n
  PROVE  a[x] <= a[0]
<1> DEFINE T == {c \in 0 .. n : ~(a[c] <= a[0])}
           R == {p \in T \X T : p[1] < p[2]}
<1>1. \A c \in 0 .. n : c \in Nat /\ c \in Positions /\ a[c] \in Int
  <2>1. \A c \in 0 .. n : c \in Nat /\ c \in Positions
    BY SortsAssumption DEF Positions
  <2> QED BY <2>1, SortsAssumption DEF Memory
<1> SUFFICES ASSUME T # {}
             PROVE  FALSE
  OBVIOUS
<1>2. IsFiniteSet(T)
  <2>1. IsFiniteSet(0 .. n) /\ T \subseteq 0 .. n
    BY FS_Interval
  <2> QED BY <2>1, FS_Subset
<1>3. PICK c \in T : \A d \in T : ~(d < c)
  <2>1. T \subseteq Nat
    BY <1>1
  <2> HIDE DEF T
  <2>2. /\ \A u, w, z \in T : <<u, w>> \in R /\ <<w, z>> \in R => <<u, z>> \in R
        /\ \A z \in T : <<z, z>> \notin R
    BY <2>1
  <2> HIDE DEF R
  <2>3. \E c \in T : \A d \in T : <<d, c>> \notin R
    BY <1>2, <2>2, Minimal
  <2> QED BY <2>3 DEF R
<1>4. c \in Nat \ {0} /\ c \in 1 .. n
  BY <1>1
<1>5. parent(c) \in Nat /\ parent(c) < c
  BY <1>4, Family
<1>6. parent(c) \in 0 .. n /\ parent(c) \notin T
  BY <1>3, <1>4, <1>5
<1>7. a[parent(c)] <= a[0] /\ a[c] <= a[parent(c)]
  BY <1>4, <1>6
<1> QED BY <1>1, <1>4, <1>6, <1>7
-----------------------------------------------------------------------------
(* The invariant of the other sorts *)

\* selection_sort: the elements before i are sorted and none after is smaller.
Selected ==
  pc = "selection" => \A x, y \in 0 .. len - 1 : x < y /\ x < i => a[x] <= a[y]

\* insertion_sort: the elements up to i are sorted but for the one that moves.
Inserted ==
  pc = "insertion" =>
    /\ curr <= i /\ (i = len => curr = len)
    /\ \A x, y \in 0 .. len - 1 : x < y /\ y <= i /\ y # curr => a[x] <= a[y]

\* heapify: the elements up to i are a heap but for the one that rises.
Rising ==
  pc = "heapify" =>
    /\ curr <= i /\ (i = len => curr = len)
    /\ \A c \in 1 .. len - 1 : c <= i =>
         /\ c # curr => a[c] <= a[parent(c)]
         /\ parent(c) = curr /\ curr > 0 => a[c] <= a[parent(curr)]

\* heap_sort: the elements up to n are a heap ...
IsHeap == pc = "extract" => \A c \in 1 .. n : a[c] <= a[parent(c)]

\* ... but for the one that sinks ...
Sinking ==
  pc = "sift" =>
    /\ curr <= n
    /\ \A c \in 1 .. n :
         /\ parent(c) # curr => a[c] <= a[parent(c)]
         /\ parent(c) = curr /\ curr > 0 => a[c] <= a[parent(curr)]

\* ... and those after n are sorted and not smaller than any before.
Extracted ==
  pc \in {"extract", "sift"} =>
    \A x, y \in 0 .. len - 1 : x < y /\ y > n => a[x] <= a[y]

\* What Sorted says of the values and of the rest of memory, at any time.
Permuted ==
  /\ \A v \in Vals : Cardinality({x \in Positions : a[x] = v})
                       = Cardinality({x \in Positions : input[x] = v})
  /\ \A x \in len .. NUM_INTS - 1 : a[x] = input[x]

SInv ==
  /\ TypeOK /\ Permuted
  /\ Selected /\ Inserted /\ Rising /\ IsHeap /\ Sinking /\ Extracted
  /\ Sorted

\* The array and its elements.
LEMMA ArrayFacts ==
  ASSUME TypeOK
  PROVE  /\ len \in Nat /\ 1 <= len /\ len <= NUM_INTS /\ NUM_INTS \in Nat
         /\ a \in Memory /\ i \in 0 .. len /\ n \in 0 .. len - 1 /\ curr \in 0 .. len
         /\ \A x \in 0 .. len - 1 : x \in Nat /\ x \in Positions /\ a[x] \in Int
<1>1. len \in Nat /\ 1 <= len /\ len <= NUM_INTS /\ NUM_INTS \in Nat
  BY SortsAssumption DEF TypeOK
<1>2. a \in Memory /\ i \in 0 .. len /\ n \in 0 .. len - 1 /\ curr \in 0 .. len
  BY DEF TypeOK, Memory
<1>3. \A x \in 0 .. len - 1 : x \in Nat /\ x \in Positions
  BY <1>1 DEF Positions
<1>4. \A x \in 0 .. len - 1 : a[x] \in Int
  BY <1>2, <1>3, SortsAssumption DEF Memory
<1> QED BY <1>1, <1>2, <1>3, <1>4

\* A swap, element by element.
LEMMA Swapped ==
  ASSUME TypeOK, NEW x \in 0 .. len - 1, NEW y \in 0 .. len - 1, a' = swap(a, x, y)
  PROVE  \A z \in 0 .. len - 1 :
           a'[z] = IF z = x THEN a[y] ELSE IF z = y THEN a[x] ELSE a[z]
<1>1. a \in Memory /\ x \in Positions /\ y \in Positions
      /\ \A z \in 0 .. len - 1 : z \in Positions
  BY ArrayFacts
<1>2. /\ swap(a, x, y)[x] = a[y] /\ swap(a, x, y)[y] = a[x]
      /\ \A z \in Positions \ {x, y} : swap(a, x, y)[z] = a[z]
  BY <1>1, SwapFacts, ZenonT(60)
<1> QED BY <1>1, <1>2

\* The positions of heaps that steps look at.
LEMMA HeapPositions ==
  ASSUME TypeOK, Inserted, Rising, Sinking
  PROVE  /\ pc = "insertion" /\ i < len => curr \in 0 .. len - 1
         /\ pc = "heapify" /\ i < len =>
              /\ curr \in 0 .. len - 1
              /\ curr > 0 => parent(curr) \in 0 .. len - 1 /\ parent(curr) < curr
         /\ pc = "sift" /\ biggestChild(curr, n) <= n =>
              /\ curr \in 0 .. n /\ biggestChild(curr, n) \in 1 .. n
              /\ curr < biggestChild(curr, n)
<1>1. /\ len \in Nat /\ i \in 0 .. len /\ n \in 0 .. len - 1 /\ curr \in 0 .. len
  BY ArrayFacts
<1>2. pc = "heapify" \/ pc = "insertion" => curr <= i
  BY DEF Inserted, Rising
<1>3. ASSUME pc = "heapify", i < len, curr > 0
      PROVE  parent(curr) \in 0 .. len - 1 /\ parent(curr) < curr
  <2>1. curr \in Nat \ {0} /\ curr < len
    BY <1>1, <1>2, <1>3
  <2>2. parent(curr) \in Nat /\ parent(curr) < curr
    BY <2>1, Family
  <2> QED BY <1>1, <2>1, <2>2
<1>4. ASSUME pc = "sift", biggestChild(curr, n) <= n
      PROVE  /\ curr \in 0 .. n /\ biggestChild(curr, n) \in 1 .. n
             /\ curr < biggestChild(curr, n)
  <2>1. curr <= n
    BY <1>4 DEF Sinking
  <2>2. /\ leftChild(curr) \in Nat /\ rightChild(curr) \in Nat
        /\ curr < leftChild(curr) /\ rightChild(curr) = leftChild(curr) + 1
    BY <1>1, Family
  <2>3. biggestChild(curr, n) \in {leftChild(curr), rightChild(curr)}
    BY DEF biggestChild
  <2> QED BY <1>1, <1>4, <2>1, <2>2, <2>3
<1> QED BY <1>1, <1>2, <1>3, <1>4

\* A step leaves the array alone or swaps two of its elements.
LEMMA StepSwaps ==
  ASSUME IInv, TypeOK, Inserted, Rising, Sinking, Next
  PROVE  /\ input' = input /\ len' = len
         /\ a' = a \/ \E x, y \in 0 .. len - 1 : a' = swap(a, x, y)
<1>1. input' = input /\ len' = len
  BY DEF Next, SelectionTurn, InsertionSwap, InsertionNext, LoopEnds,
         SiftUp, HeapifyNext, Heapified, Extract, SiftDown, SiftEnds,
         HeapEmpty, QuickReturns, QuickPartitions, MoveBefore, MoveAfter, Partitioned, QuickDone
<1>2. /\ len \in Nat /\ len <= NUM_INTS /\ a \in Memory
      /\ i \in 0 .. len /\ n \in 0 .. len - 1 /\ curr \in 0 .. len
  BY ArrayFacts
<1>3. CASE SelectionTurn
  <2>1. i \in 0 .. len - 1 /\ a' = swap(a, i, min_pos(i))
    BY <1>2, <1>3 DEF SelectionTurn
  <2>2. min_pos(i) \in i .. len - 1
    BY <1>2, <2>1, MinPos
  <2>3. min_pos(i) \in 0 .. len - 1
    BY <2>1, <2>2
  <2> QED BY <1>1, <2>1, <2>3
<1>4. CASE InsertionSwap
  <2>1. /\ pc = "insertion" /\ i < len /\ curr > 0
        /\ a' = swap(a, curr - 1, curr)
    BY <1>4 DEF InsertionSwap, out_of_place
  <2>2. curr \in 0 .. len - 1 /\ curr - 1 \in 0 .. len - 1
    BY <1>2, <2>1, HeapPositions
  <2> QED BY <1>1, <2>1, <2>2
<1>5. CASE SiftUp
  <2>1. /\ pc = "heapify" /\ i < len /\ curr > 0
        /\ a' = swap(a, curr, parent(curr))
    BY <1>5 DEF SiftUp, above_parent
  <2> QED BY <1>1, <2>1, HeapPositions
<1>6. CASE Extract
  <2>1. a' = swap(a, 0, n) /\ 0 \in 0 .. len - 1
    BY <1>2, <1>6 DEF Extract
  <2> QED BY <1>1, <1>2, <2>1
<1>7. CASE SiftDown
  <2>1. /\ pc = "sift" /\ biggestChild(curr, n) <= n
        /\ a' = swap(a, curr, biggestChild(curr, n))
    BY <1>7 DEF SiftDown, below_child
  <2>2. curr \in 0 .. n /\ biggestChild(curr, n) \in 1 .. n
    BY <2>1, HeapPositions
  <2>3. curr \in 0 .. len - 1 /\ biggestChild(curr, n) \in 0 .. len - 1
    BY <1>2, <2>2
  <2> QED BY <1>1, <2>1, <2>3
<1>8. CASE QuickPartitions
  <2>1. pc = "call" /\ calls # <<>> /\ start < end /\ a' = pivot_first
    BY <1>8 DEF QuickPartitions
  <2>2. start \in Int /\ end \in Int /\ 0 <= start /\ end < len
    BY <2>1, PartFacts
  <2>3. \/ a' = a \/ a' = swap(a, start, (end - start) \div 2) \/ a' = swap(a, start, end)
    BY <2>1 DEF pivot_first
  <2>4. /\ start \in 0 .. len - 1 /\ end \in 0 .. len - 1
        /\ (end - start) \div 2 \in 0 .. len - 1
    BY <1>2, <2>1, <2>2
  <2> QED BY <1>1, <2>3, <2>4
<1>9. CASE MoveBefore \/ MoveAfter
  <2>1. pc = "partition" /\ i < j /\ InPart /\ calls # <<>>
    BY <1>9 DEF MoveBefore, MoveAfter, IInv, InPart
  <2>2. start \in Int /\ end \in Int /\ 0 <= start /\ end < len
    BY <2>1, PartFacts
  <2>3. i \in 0 .. len - 1 /\ i + 1 \in 0 .. len - 1 /\ j \in 0 .. len - 1
    BY <1>2, <2>1, <2>2 DEF InPart
  <2>4. a' = swap(a, i + 1, i) \/ a' = swap(a, i + 1, j)
    BY <1>9 DEF MoveBefore, MoveAfter
  <2> QED BY <1>1, <2>3, <2>4
<1>10. CASE \/ InsertionNext \/ LoopEnds \/ HeapifyNext \/ Heapified \/ SiftEnds
            \/ HeapEmpty \/ QuickReturns \/ Partitioned \/ QuickDone
  BY <1>1, <1>10 DEF InsertionNext, LoopEnds, HeapifyNext, Heapified, SiftEnds,
                     HeapEmpty, QuickReturns, Partitioned, QuickDone
<1> QED BY <1>3, <1>4, <1>5, <1>6, <1>7, <1>8, <1>9, <1>10 DEF Next

\* So the values stay the same, and the rest of memory.
LEMMA PermutedStep ==
  ASSUME TypeOK, Permuted, input' = input, len' = len,
         a' = a \/ \E x, y \in 0 .. len - 1 : a' = swap(a, x, y)
  PROVE  Permuted' /\ a' \in [Positions -> Vals]
<1>1. /\ len \in Nat /\ len <= NUM_INTS /\ NUM_INTS \in Nat /\ a \in Memory
      /\ \A x \in 0 .. len - 1 : x \in Positions
  BY ArrayFacts
<1>2. CASE a' = a
  BY <1>1, <1>2 DEF Permuted, Memory
<1>3. CASE \E x, y \in 0 .. len - 1 : a' = swap(a, x, y)
  <2>1. PICK x \in 0 .. len - 1, y \in 0 .. len - 1 : a' = swap(a, x, y)
    BY <1>3
  <2>2. x \in Positions /\ y \in Positions
    BY <1>1
  <2>3. \A v : Cardinality(Occurrences(a', v)) = Cardinality(Occurrences(a, v))
    BY <1>1, <2>1, <2>2, SwapCounts
  <2>4. a' \in Memory /\ \A z \in Positions \ {x, y} : a'[z] = a[z]
    <3>1. /\ swap(a, x, y) \in Memory
          /\ \A z \in Positions \ {x, y} : swap(a, x, y)[z] = a[z]
      BY <1>1, <2>2, SwapFacts
    <3> QED BY <2>1, <3>1
  <2>5. \A z \in len .. NUM_INTS - 1 : z \in Positions \ {x, y}
    BY <1>1 DEF Positions
  <2>6. \A v \in Vals : Cardinality({z \in Positions : a'[z] = v})
                         = Cardinality({z \in Positions : input'[z] = v})
    BY <2>3 DEF Permuted, Occurrences
  <2>7. \A z \in len' .. NUM_INTS - 1 : a'[z] = input'[z]
    BY <2>4, <2>5 DEF Permuted
  <2> QED BY <2>4, <2>6, <2>7 DEF Permuted, Memory
<1> QED BY <1>2, <1>3

\* The types of the variables stay.
LEMMA TypeStep ==
  ASSUME IInv, IInv', TypeOK, Permuted, Inserted, Rising, Sinking, Next
  PROVE  TypeOK'
<1> DEFINE Calls == (0 .. len) \X (-1 .. len - 1)
           States == {"selection", "insertion", "heapify", "extract", "sift", "call",
                      "partition", "done"}
<1>1. /\ a' \in [Positions -> Vals] /\ input' \in [Positions -> Vals] /\ len' \in Lengths
      /\ len' = len
  BY StepSwaps, PermutedStep DEF TypeOK
<1>2. /\ len \in Nat /\ 1 <= len
      /\ i \in 0 .. len /\ j \in 0 .. len - 1 /\ n \in 0 .. len - 1 /\ curr \in 0 .. len
      /\ calls \in Seq(Calls) /\ pc \in States
  BY ArrayFacts DEF TypeOK
<1>3. /\ pc' \in States /\ i' \in 0 .. len /\ j' \in 0 .. len - 1 /\ n' \in 0 .. len - 1
      /\ curr' \in 0 .. len /\ calls' \in Seq(Calls)
  <2> HIDE DEF Calls
  <2>1. CASE SelectionTurn
    BY <1>2, <2>1 DEF SelectionTurn
  <2>2. CASE InsertionSwap
    BY <1>2, <2>2 DEF InsertionSwap, out_of_place
  <2>3. CASE InsertionNext \/ LoopEnds
    BY <1>2, <2>3 DEF InsertionNext, LoopEnds
  <2>4. CASE SiftUp
    <3>1. pc = "heapify" /\ i < len /\ curr > 0
      BY <2>4 DEF SiftUp, above_parent
    <3>2. parent(curr) \in 0 .. len
      BY <1>2, <3>1, HeapPositions
    <3> QED BY <1>2, <2>4, <3>2 DEF SiftUp
  <2>5. CASE HeapifyNext \/ Heapified
    BY <1>2, <2>5 DEF HeapifyNext, Heapified
  <2>6. CASE Extract
    BY <1>2, <2>6 DEF Extract
  <2>7. CASE SiftDown
    <3>1. pc = "sift" /\ biggestChild(curr, n) <= n
      BY <2>7 DEF SiftDown, below_child
    <3>2. biggestChild(curr, n) \in 0 .. len
      BY <1>2, <3>1, HeapPositions
    <3> QED BY <1>2, <2>7, <3>2 DEF SiftDown
  <2>8. CASE SiftEnds \/ HeapEmpty \/ QuickDone
    BY <1>2, <2>8 DEF SiftEnds, HeapEmpty, QuickDone
  <2>9. CASE QuickReturns
    <3>1. Tail(calls) \in Seq(Calls)
      BY <1>2, <2>9 DEF QuickReturns
    <3> QED BY <1>2, <2>9, <3>1 DEF QuickReturns
  <2>10. CASE QuickPartitions
    <3>1. pc = "call" /\ calls # <<>> /\ start < end
      BY <2>10 DEF QuickPartitions
    <3>2. start \in Int /\ end \in Int /\ 0 <= start /\ end < len
      BY <3>1, PartFacts
    <3>3. start \in 0 .. len /\ end \in 0 .. len - 1
      BY <1>2, <3>1, <3>2
    <3> QED BY <1>2, <2>10, <3>3 DEF QuickPartitions
  <2>11. CASE MoveBefore \/ MoveAfter
    <3>1. i < j
      BY <2>11 DEF MoveBefore, MoveAfter
    <3>2. i + 1 \in 0 .. len /\ j - 1 \in 0 .. len - 1
      BY <1>2, <3>1
    <3> QED BY <1>2, <2>11, <3>1, <3>2 DEF MoveBefore, MoveAfter
  <2>12. CASE Partitioned
    <3>1. pc = "partition" /\ InPart /\ calls # <<>>
      BY <2>12 DEF Partitioned, IInv, InPart
    <3>2. start \in Int /\ end \in Int /\ 0 <= start /\ end < len
      BY <3>1, PartFacts
    <3>3. i \in Int /\ start <= i /\ i <= end
      BY <3>1, <3>2 DEF InPart
    <3>4. <<start, i - 1>> \in Calls /\ <<i + 1, end>> \in Calls
      <4>1. /\ start \in 0 .. len /\ i - 1 \in -1 .. len - 1
            /\ i + 1 \in 0 .. len /\ end \in -1 .. len - 1
        BY <1>2, <3>2, <3>3
      <4> QED BY <4>1 DEF Calls
    <3>5. <<<<start, i - 1>>, <<i + 1, end>>>> \in Seq(Calls) /\ Tail(calls) \in Seq(Calls)
      BY <1>2, <3>1, <3>4
    <3>6. <<<<start, i - 1>>, <<i + 1, end>>>> \o Tail(calls) \in Seq(Calls)
      BY <3>5
    <3> QED BY <1>2, <2>12, <3>6 DEF Partitioned
  <2> QED BY <2>1, <2>2, <2>3, <2>4, <2>5, <2>6, <2>7, <2>8, <2>9, <2>10, <2>11, <2>12 DEF Next
<1>4. pc' = "partition" => InPart'
  BY DEF IInv
<1> QED BY <1>1, <1>3, <1>4 DEF TypeOK, InPart

\* selection_sort puts the least of the rest behind what is sorted.
LEMMA SelectionStep ==
  ASSUME TypeOK, Selected, SelectionTurn
  PROVE  Selected'
<1>1. /\ pc = "selection" /\ i < len /\ a' = swap(a, i, min_pos(i)) /\ i' = i + 1
      /\ len' = len
  BY DEF SelectionTurn
<1>2. /\ len \in Nat /\ len <= NUM_INTS /\ a \in Memory
      /\ \A x \in 0 .. len - 1 : x \in Nat /\ a[x] \in Int
      /\ i \in 0 .. len - 1
  BY <1>1, ArrayFacts
<1>3. PICK m \in i .. len - 1 : m = min_pos(i) /\ \A x \in i .. len - 1 : a[m] <= a[x]
  BY <1>2, MinPos
<1>4. m \in 0 .. len - 1
  BY <1>2
<1>5. \A z \in 0 .. len - 1 : a'[z] = IF z = i THEN a[m] ELSE IF z = m THEN a[i] ELSE a[z]
  BY <1>1, <1>2, <1>3, <1>4, Swapped
<1>6. \A x, y \in 0 .. len - 1 : x < y /\ x < i => a[x] <= a[y]
  BY <1>1 DEF Selected
<1>7. ASSUME NEW x \in 0 .. len - 1, NEW y \in 0 .. len - 1, x < y, x < i + 1
      PROVE  a'[x] <= a'[y]
  <2>1. x \in Nat /\ y \in Nat /\ m \in Nat /\ i <= m
    BY <1>2, <1>4
  <2>2. CASE x < i
    <3>1. a'[x] = a[x] /\ a'[y] \in {a[y], a[m], a[i]}
      <4>1. x # i /\ x # m
        BY <1>2, <2>1, <2>2
      <4> QED BY <1>5, <4>1
    <3>2. a[x] <= a[y] /\ a[x] <= a[m] /\ a[x] <= a[i]
      BY <1>2, <1>4, <1>6, <1>7, <2>1, <2>2
    <3> QED BY <3>1, <3>2
  <2>3. CASE x = i
    <3>1. a'[x] = a[m] /\ a'[y] \in {a[y], a[i]}
      BY <1>5, <1>7, <2>3
    <3>2. a[m] <= a[y] /\ a[m] <= a[i]
      BY <1>2, <1>3, <1>7, <2>3
    <3> QED BY <3>1, <3>2
  <2> QED BY <1>2, <1>7, <2>1, <2>2, <2>3
<1> QED BY <1>1, <1>7 DEF Selected

\* insertion_sort moves an element forwards past those that are greater.
LEMMA InsertionStep ==
  ASSUME TypeOK, Inserted, Rising, Sinking, InsertionSwap \/ InsertionNext
  PROVE  Inserted'
<1>1. /\ pc = "insertion" /\ i < len /\ len' = len
      /\ curr <= i
      /\ \A x, y \in 0 .. len - 1 : x < y /\ y <= i /\ y # curr => a[x] <= a[y]
  BY DEF InsertionSwap, InsertionNext, Inserted
<1>2. /\ len \in Nat /\ i \in 0 .. len - 1 /\ curr \in 0 .. len - 1
      /\ \A x \in 0 .. len - 1 : x \in Nat /\ a[x] \in Int
  BY <1>1, ArrayFacts
<1>3. CASE InsertionSwap
  <2>1. /\ curr > 0 /\ a[curr - 1] > a[curr] /\ a' = swap(a, curr - 1, curr)
        /\ curr' = curr - 1 /\ i' = i
    BY <1>3 DEF InsertionSwap, out_of_place
  <2>2. PICK p \in 0 .. len - 1 : p = curr - 1 /\ p < curr /\ p + 1 = curr
    BY <1>2, <2>1
  <2>3. \A z \in 0 .. len - 1 :
          a'[z] = IF z = p THEN a[curr] ELSE IF z = curr THEN a[p] ELSE a[z]
    BY <1>2, <2>1, <2>2, Swapped
  <2>4. ASSUME NEW x \in 0 .. len - 1, NEW y \in 0 .. len - 1, x < y, y <= i, y # p
        PROVE  a'[x] <= a'[y]
    <3>1. x \in Nat /\ y \in Nat /\ a[x] \in Int /\ a[y] \in Int /\ a[p] \in Int
          /\ a[curr] \in Int /\ a[p] > a[curr]
      BY <1>2, <2>1, <2>2
    <3>2. CASE y = curr
      <4>1. a'[y] = a[p] /\ (x = p \/ x < p)
        BY <2>2, <2>3, <2>4, <3>1, <3>2
      <4>2. x = p => a'[x] = a[curr]
        BY <2>3
      <4>3. x < p => a'[x] = a[x] /\ a[x] <= a[p]
        BY <1>1, <1>2, <2>2, <2>3, <3>1
      <4> QED BY <3>1, <4>1, <4>2, <4>3
    <3>3. CASE y # curr
      <4>1. a'[y] = a[y] /\ a[x] <= a[y]
        BY <1>1, <2>3, <2>4, <3>3
      <4>2. x \in {p, curr} => a[p] <= a[y] /\ a[curr] <= a[y]
        BY <1>1, <1>2, <2>2, <2>4, <3>1, <3>3
      <4>3. a'[x] = IF x = p THEN a[curr] ELSE IF x = curr THEN a[p] ELSE a[x]
        BY <2>3
      <4> QED BY <4>1, <4>2, <4>3
    <3> QED BY <3>2, <3>3
  <2>5. curr' <= i' /\ i' # len
    BY <1>1, <1>2, <2>1
  <2>6. p = curr'
    BY <2>1, <2>2
  <2> QED BY <1>1, <2>1, <2>4, <2>5, <2>6 DEF Inserted
<1>4. CASE InsertionNext
  <2>1. ~(curr > 0 /\ a[curr - 1] > a[curr]) /\ a' = a /\ i' = i + 1 /\ curr' = i + 1
    BY <1>4 DEF InsertionNext, out_of_place
  <2>2. ASSUME NEW x \in 0 .. len - 1, NEW y \in 0 .. len - 1, x < y, y <= i
        PROVE  a[x] <= a[y]
    <3>1. x \in Nat /\ y \in Nat /\ a[x] \in Int /\ a[y] \in Int
      BY <1>2
    <3>2. CASE y = curr
      <4>1. curr > 0 /\ curr - 1 \in 0 .. len - 1 /\ (x = curr - 1 \/ x < curr - 1)
            /\ curr - 1 < curr /\ curr - 1 # curr /\ curr - 1 <= i
        BY <1>1, <1>2, <2>2, <3>1, <3>2
      <4>2. a[curr - 1] \in Int /\ a[curr - 1] <= a[curr]
        BY <1>2, <2>1, <4>1
      <4>3. x < curr - 1 => a[x] <= a[curr - 1]
        BY <1>1, <4>1
      <4> QED BY <3>1, <3>2, <4>1, <4>2, <4>3
    <3> QED BY <1>1, <2>2, <3>2
  <2>3. \A y \in 0 .. len - 1 : y <= i + 1 /\ y # i + 1 => y <= i
    BY <1>2
  <2> QED BY <1>1, <1>2, <2>1, <2>2, <2>3 DEF Inserted
<1> QED BY <1>3, <1>4

\* heapify lets an element rise past its parent, or has it in place.
LEMMA RisingStep ==
  ASSUME TypeOK, Inserted, Rising, Sinking, SiftUp \/ HeapifyNext
  PROVE  Rising'
<1>1. /\ pc = "heapify" /\ i < len /\ len' = len /\ curr <= i
      /\ \A c \in 1 .. len - 1 : c <= i =>
           /\ c # curr => a[c] <= a[parent(c)]
           /\ parent(c) = curr /\ curr > 0 => a[c] <= a[parent(curr)]
  BY DEF SiftUp, HeapifyNext, Rising
<1>2. /\ len \in Nat /\ i \in 0 .. len - 1 /\ curr \in 0 .. len - 1
      /\ \A x \in 0 .. len - 1 : x \in Nat /\ a[x] \in Int
  BY <1>1, ArrayFacts
<1>3. ASSUME NEW c \in 0 .. len - 1, c > 0
      PROVE  parent(c) \in 0 .. len - 1 /\ parent(c) < c
  <2>1. c \in Nat \ {0} /\ c < len
    BY <1>2, <1>3
  <2>2. parent(c) \in Nat /\ parent(c) < c
    BY <2>1, Family
  <2> QED BY <1>2, <2>1, <2>2
<1>4. CASE SiftUp
  <2>1. /\ curr > 0 /\ a[curr] > a[parent(curr)] /\ a' = swap(a, curr, parent(curr))
        /\ curr' = parent(curr) /\ i' = i
    BY <1>4 DEF SiftUp, above_parent
  <2>2. PICK p \in 0 .. len - 1 : p = parent(curr) /\ p < curr
    BY <1>2, <1>3, <2>1
  <2>3. \A z \in 0 .. len - 1 :
          a'[z] = IF z = curr THEN a[p] ELSE IF z = p THEN a[curr] ELSE a[z]
    BY <1>2, <2>1, <2>2, Swapped
  <2>4. ASSUME NEW c \in 1 .. len - 1, c <= i
        PROVE  /\ c # p => a'[c] <= a'[parent(c)]
               /\ parent(c) = p /\ p > 0 => a'[c] <= a'[parent(p)]
    <3>1. PICK q \in 0 .. len - 1 : q = parent(c) /\ q < c /\ c \in 0 .. len - 1 /\ c > 0
      BY <1>2, <1>3
    <3>2. /\ a[c] \in Int /\ a[q] \in Int /\ a[p] \in Int /\ a[curr] \in Int
          /\ a[curr] > a[p]
          /\ c # curr => a[c] <= a[q]
          /\ q = curr => a[c] <= a[p]
      BY <1>1, <1>2, <2>1, <2>2, <2>4, <3>1
    <3>3. c = curr => q = p
      BY <2>2, <3>1
    <3>4. c # p => a'[c] <= a'[q]
      <4>1. /\ a'[c] = IF c = curr THEN a[p] ELSE IF c = p THEN a[curr] ELSE a[c]
            /\ a'[q] = IF q = curr THEN a[p] ELSE IF q = p THEN a[curr] ELSE a[q]
        BY <2>3, <3>1
      <4> QED BY <2>2, <3>1, <3>2, <3>3, <4>1
    <3>5. ASSUME q = p, p > 0
          PROVE  a'[c] <= a'[parent(p)]
      <4>1. PICK r \in 0 .. len - 1 : r = parent(p) /\ r < p
        BY <1>3, <3>5
      <4>2. p \in 1 .. len - 1 /\ p <= i /\ p # curr /\ r # p /\ r # curr
        BY <1>1, <1>2, <2>2, <3>5, <4>1
      <4>3. a[p] <= a[r] /\ a[r] \in Int /\ a'[r] = a[r]
        BY <1>1, <1>2, <2>3, <4>1, <4>2
      <4>4. a'[c] = a[p] \/ (a'[c] = a[c] /\ a[c] <= a[p])
        BY <2>3, <3>1, <3>2, <3>5
      <4> QED BY <3>2, <4>1, <4>3, <4>4
    <3> QED BY <3>1, <3>4, <3>5
  <2>5. p <= i /\ i # len
    BY <1>1, <1>2, <2>2
  <2>6. curr' = p
    BY <2>1, <2>2
  <2> QED BY <1>1, <2>1, <2>4, <2>5, <2>6 DEF Rising
<1>5. CASE HeapifyNext
  <2>1. ~(curr > 0 /\ a[curr] > a[parent(curr)]) /\ a' = a /\ i' = i + 1 /\ curr' = i + 1
    BY <1>5 DEF HeapifyNext, above_parent
  <2>2. ASSUME NEW c \in 1 .. len - 1, c <= i
        PROVE  a[c] <= a[parent(c)]
    <3>1. c \in 0 .. len - 1 /\ c > 0
      BY <1>2
    <3>2. parent(c) \in 0 .. len - 1
      BY <1>3, <3>1
    <3>3. a[c] \in Int /\ a[parent(c)] \in Int
      BY <1>2, <3>1, <3>2
    <3> QED BY <1>1, <2>1, <2>2, <3>1, <3>3
  <2>3. \A c \in 1 .. len - 1 : c <= i + 1 => /\ c # i + 1 => c <= i
                                             /\ parent(c) # i + 1
    <3> SUFFICES ASSUME NEW c \in 1 .. len - 1, c <= i + 1
                 PROVE  (c # i + 1 => c <= i) /\ parent(c) # i + 1
      OBVIOUS
    <3>1. c \in 0 .. len - 1 /\ c > 0 /\ c \in Int /\ i \in Int
      BY <1>2
    <3>2. parent(c) < c /\ parent(c) \in Int
      BY <1>2, <1>3, <3>1
    <3> QED BY <3>1, <3>2
  <2>4. curr' <= i'
    BY <1>2, <2>1
  <2> QED BY <1>1, <2>1, <2>2, <2>3, <2>4 DEF Rising
<1> QED BY <1>4, <1>5

\* The heap is complete when the last element is in place.
LEMMA HeapifiedStep ==
  ASSUME TypeOK, Rising, Heapified
  PROVE  IsHeap' /\ Extracted'
<1>1. /\ pc = "heapify" /\ i >= len /\ pc' = "extract" /\ n' = len - 1 /\ a' = a /\ len' = len
  BY DEF Heapified
<1>2. /\ len \in Nat /\ i = len
  BY <1>1, ArrayFacts
<1>3. \A c \in 1 .. len - 1 : c <= i /\ c # len
  BY <1>2
<1>4. \A c \in 1 .. len - 1 : a[c] <= a[parent(c)]
  BY <1>1, <1>2, <1>3 DEF Rising
<1>5. \A y \in 0 .. len - 1 : ~(y > len - 1)
  BY <1>2
<1> QED BY <1>1, <1>4, <1>5 DEF IsHeap, Extracted

\* heap_sort moves the greatest element of the heap to where it belongs.
LEMMA ExtractStep ==
  ASSUME TypeOK, IsHeap, Extracted, Extract
  PROVE  Sinking' /\ Extracted'
<1>1. /\ pc = "extract" /\ pc' = "sift" /\ n > 0 /\ n' = n - 1 /\ curr' = 0 /\ len' = len
      /\ a' = swap(a, 0, n)
  BY DEF Extract
<1>2. /\ len \in Nat /\ len <= NUM_INTS /\ a \in Memory /\ n \in 0 .. len - 1
      /\ 0 \in 0 .. len - 1
      /\ \A x \in 0 .. len - 1 : x \in Nat /\ a[x] \in Int
  BY ArrayFacts
<1>3. /\ \A c \in 1 .. n : a[c] <= a[parent(c)]
      /\ \A x, y \in 0 .. len - 1 : x < y /\ y > n => a[x] <= a[y]
  BY <1>1 DEF IsHeap, Extracted
<1>4. \A x \in 0 .. n : a[x] <= a[0]
  BY <1>2, <1>3, RootIsGreatest
<1>5. \A z \in 0 .. len - 1 : a'[z] = IF z = 0 THEN a[n] ELSE IF z = n THEN a[0] ELSE a[z]
  BY <1>1, <1>2, Swapped
<1>6. ASSUME NEW c \in 1 .. n - 1, parent(c) # 0
      PROVE  a'[c] <= a'[parent(c)]
  <2>1. c \in Nat \ {0} /\ c < n /\ c \in 1 .. n /\ c \in 0 .. len - 1
    BY <1>2
  <2>2. parent(c) \in Nat /\ parent(c) < c
    BY <2>1, Family
  <2>3. parent(c) \in 0 .. len - 1 /\ parent(c) # n /\ c # n /\ c # 0
    BY <1>2, <2>1, <2>2
  <2> QED BY <1>3, <1>5, <1>6, <2>1, <2>3
<1>7. ASSUME NEW x \in 0 .. len - 1, NEW y \in 0 .. len - 1, x < y, y > n - 1
      PROVE  a'[x] <= a'[y]
  <2>1. x \in Nat /\ y \in Nat /\ n \in Nat
    BY <1>2
  <2>2. CASE y = n
    <3>1. a'[y] = a[0] /\ a'[x] \in {a[n], a[x]}
      BY <1>1, <1>5, <1>7, <2>1, <2>2
    <3>2. a[n] <= a[0] /\ a[x] <= a[0]
      BY <1>4, <1>7, <2>1, <2>2
    <3> QED BY <3>1, <3>2
  <2>3. CASE y # n
    <3>1. y > n /\ y # 0
      BY <1>7, <2>1, <2>3
    <3>2. a'[y] = a[y] /\ a'[x] \in {a[x], a[0], a[n]}
      BY <1>5, <2>3, <3>1
    <3>3. a[x] <= a[y] /\ a[0] <= a[y] /\ a[n] <= a[y]
      BY <1>1, <1>2, <1>3, <1>7, <2>1, <3>1
    <3> QED BY <3>2, <3>3
  <2> QED BY <2>2, <2>3
<1>8. 0 <= n - 1 /\ ~(0 > 0)
  BY <1>1, <1>2
<1> QED BY <1>1, <1>6, <1>7, <1>8 DEF Sinking, Extracted

\* biggestChild is a child with the greatest element.
LEMMA BiggestChild ==
  ASSUME TypeOK, curr \in 0 .. n
  PROVE  LET child == biggestChild(curr, n)
         IN  /\ parent(child) = curr
             /\ \A c \in 1 .. n : parent(c) = curr => child <= n /\ a[c] <= a[child]
<1>1. /\ len \in Nat /\ n \in 0 .. len - 1
      /\ \A x \in 0 .. len - 1 : x \in Nat /\ a[x] \in Int
  BY ArrayFacts
<1>2. PICK l \in Nat, r \in Nat : /\ l = leftChild(curr) /\ r = rightChild(curr)
                                  /\ r = l + 1 /\ parent(l) = curr /\ parent(r) = curr
  BY <1>1, Family
<1>3. biggestChild(curr, n) = IF r > n \/ a[l] > a[r] THEN l ELSE r
  BY <1>2 DEF biggestChild
<1>4. ASSUME NEW c \in 1 .. n, parent(c) = curr
      PROVE  biggestChild(curr, n) <= n /\ a[c] <= a[biggestChild(curr, n)]
  <2>1. c \in Nat \ {0} /\ c \in 0 .. len - 1 /\ a[c] \in Int
    BY <1>1
  <2>2. c = l \/ c = r
    BY <1>2, <1>4, <2>1, Family
  <2>3. CASE r > n
    <3>1. c = l /\ c <= n
      BY <1>1, <2>2, <2>3
    <3>2. biggestChild(curr, n) = c
      BY <1>3, <2>3, <3>1
    <3> QED BY <2>1, <3>1, <3>2
  <2>4. CASE ~(r > n)
    <3>1. l \in 0 .. len - 1 /\ r \in 0 .. len - 1 /\ a[l] \in Int /\ a[r] \in Int
      BY <1>1, <1>2, <2>4
    <3> QED BY <1>1, <1>2, <1>3, <2>2, <2>4, <3>1
  <2> QED BY <2>3, <2>4
<1> QED BY <1>2, <1>3, <1>4

\* The element at the root sinks past its greater child.
LEMMA SiftDownStep ==
  ASSUME TypeOK, Inserted, Rising, Sinking, Extracted, SiftDown
  PROVE  Sinking' /\ Extracted'
<1> DEFINE d == biggestChild(curr, n)
<1>1. /\ pc = "sift" /\ pc' = "sift" /\ n' = n /\ curr' = d /\ len' = len
      /\ d <= n /\ a[curr] < a[d] /\ a' = swap(a, curr, d)
  BY DEF SiftDown, below_child
<1>2. /\ len \in Nat /\ n \in 0 .. len - 1
      /\ \A x \in 0 .. len - 1 : x \in Nat /\ a[x] \in Int
  BY ArrayFacts
<1>3. /\ \A c \in 1 .. n :
           /\ parent(c) # curr => a[c] <= a[parent(c)]
           /\ parent(c) = curr /\ curr > 0 => a[c] <= a[parent(curr)]
      /\ \A x, y \in 0 .. len - 1 : x < y /\ y > n => a[x] <= a[y]
  BY <1>1 DEF Sinking, Extracted
<1>4. /\ curr \in 0 .. n /\ d \in 1 .. n /\ curr < d
      /\ curr \in 0 .. len - 1 /\ d \in 0 .. len - 1
  BY <1>1, <1>2, HeapPositions
<1>5. /\ parent(d) = curr
      /\ \A c \in 1 .. n : parent(c) = curr => a[c] <= a[d]
  BY <1>4, BiggestChild
<1> HIDE DEF d
<1>6. \A z \in 0 .. len - 1 :
        a'[z] = IF z = curr THEN a[d] ELSE IF z = d THEN a[curr] ELSE a[z]
  BY <1>1, <1>4, Swapped
<1>7. ASSUME NEW c \in 1 .. n
      PROVE  /\ parent(c) # d => a'[c] <= a'[parent(c)]
             /\ parent(c) = d /\ d > 0 => a'[c] <= a'[parent(d)]
  <2>1. c \in Nat \ {0} /\ c \in 0 .. len - 1
    BY <1>2
  <2>2. PICK q \in 0 .. len - 1 : q = parent(c) /\ q < c
    <3>1. parent(c) \in Nat /\ parent(c) < c
      BY <2>1, Family
    <3> QED BY <1>2, <2>1, <3>1
  <2>3. /\ a'[c] = IF c = curr THEN a[d] ELSE IF c = d THEN a[curr] ELSE a[c]
        /\ a'[q] = IF q = curr THEN a[d] ELSE IF q = d THEN a[curr] ELSE a[q]
        /\ a'[curr] = a[d]
    BY <1>4, <1>6, <2>1, <2>2
  <2>4. /\ a[c] \in Int /\ a[q] \in Int /\ a[d] \in Int /\ a[curr] \in Int
        /\ a[curr] < a[d]
        /\ q # curr => a[c] <= a[q]
        /\ q = curr => a[c] <= a[d]
        /\ c = d => q = curr
    BY <1>1, <1>2, <1>3, <1>4, <1>5, <2>1, <2>2
  <2>5. c = curr => a[d] <= a[q]
    BY <1>3, <1>4, <1>5, <2>1, <2>2
  <2>6. q # d => a'[c] <= a'[q]
    BY <1>4, <2>2, <2>3, <2>4, <2>5
  <2>7. q = d => a'[c] <= a'[curr]
    BY <1>4, <2>2, <2>3, <2>4
  <2> QED BY <1>5, <2>2, <2>6, <2>7
<1>8. ASSUME NEW x \in 0 .. len - 1, NEW y \in 0 .. len - 1, x < y, y > n
      PROVE  a'[x] <= a'[y]
  <2>1. y # curr /\ y # d /\ curr < y /\ d < y
    BY <1>2, <1>4, <1>8
  <2>2. a'[y] = a[y] /\ a'[x] \in {a[x], a[d], a[curr]}
    BY <1>6, <2>1
  <2>3. a[x] <= a[y] /\ a[d] <= a[y] /\ a[curr] <= a[y]
    BY <1>3, <1>4, <1>8, <2>1
  <2> QED BY <2>2, <2>3
<1> QED BY <1>1, <1>4, <1>7, <1>8 DEF Sinking, Extracted

\* It has sunk to where the heap is one again.
LEMMA SiftEndsStep ==
  ASSUME TypeOK, Sinking, Extracted, SiftEnds
  PROVE  IsHeap' /\ Extracted'
<1> DEFINE d == biggestChild(curr, n)
<1>1. /\ pc = "sift" /\ pc' = "extract" /\ n' = n /\ a' = a /\ len' = len
      /\ ~(d <= n /\ a[curr] < a[d])
  BY DEF SiftEnds, below_child
<1>2. /\ len \in Nat /\ n \in 0 .. len - 1 /\ curr \in 0 .. len
      /\ \A x \in 0 .. len - 1 : x \in Nat /\ a[x] \in Int
  BY ArrayFacts
<1>3. /\ curr \in 0 .. n
      /\ \A c \in 1 .. n : parent(c) # curr => a[c] <= a[parent(c)]
  BY <1>1, <1>2 DEF Sinking
<1>4. /\ parent(d) = curr
      /\ \A c \in 1 .. n : parent(c) = curr => d <= n /\ a[c] <= a[d]
  BY <1>3, BiggestChild
<1>5. d \in Nat
  <2>1. leftChild(curr) \in Nat /\ rightChild(curr) \in Nat
    BY <1>3, Family
  <2> QED BY <2>1 DEF biggestChild
<1> HIDE DEF d
<1>6. ASSUME NEW c \in 1 .. n, parent(c) = curr
      PROVE  a[c] <= a[curr]
  <2>1. d <= n /\ a[c] <= a[d] /\ ~(a[curr] < a[d])
    BY <1>1, <1>4, <1>6
  <2>2. a[c] \in Int /\ a[curr] \in Int /\ a[d] \in Int
    BY <1>2, <1>3, <1>5, <2>1
  <2> QED BY <2>1, <2>2
<1>7. \A c \in 1 .. n : a[c] <= a[parent(c)]
  BY <1>3, <1>6
<1>8. Extracted'
  BY <1>1 DEF Extracted
<1> QED BY <1>1, <1>7, <1>8 DEF IsHeap

\* When a sort returns the array is in order.
LEMMA EndStep ==
  ASSUME IInv, TypeOK, Selected, Inserted, Extracted, LoopEnds \/ HeapEmpty \/ QuickDone
  PROVE  \A x, y \in 0 .. len - 1 : x < y => a[x] <= a[y]
<1>1. /\ len \in Nat /\ i \in 0 .. len /\ n \in 0 .. len - 1
      /\ \A x \in 0 .. len - 1 : x \in Nat /\ a[x] \in Int
  BY ArrayFacts
<1> TAKE x, y \in 0 .. len - 1
<1>2. x \in Nat /\ y \in Nat /\ a[x] \in Int /\ a[y] \in Int
  BY <1>1
<1>3. CASE LoopEnds
  <2>1. pc \in {"selection", "insertion"} /\ i = len
    BY <1>1, <1>3 DEF LoopEnds
  <2>2. x < i /\ y <= i /\ y # len
    BY <1>1, <2>1
  <2> QED BY <2>1, <2>2 DEF Selected, Inserted
<1>4. CASE HeapEmpty
  <2>1. pc = "extract" /\ n = 0
    BY <1>1, <1>4 DEF HeapEmpty
  <2> QED BY <1>2, <2>1 DEF Extracted
<1>5. CASE QuickDone
  <2>1. pc = "call" /\ calls = <<>>
    BY <1>5 DEF QuickDone
  <2>2. Disorder(a, calls) /\ Len(calls) = 0
    BY <2>1 DEF IInv, Split
  <2>3. ~(x < y /\ a[x] > a[y])
    BY <2>2 DEF Disorder
  <2> QED BY <1>2, <2>3
<1> QED BY <1>3, <1>4, <1>5

\* What is said of the other sorts holds at first.
LEMMA InitSInv ==
  ASSUME Init
  PROVE  SInv
<1>1. /\ input \in [Positions -> Vals] /\ a = input /\ len \in Lengths
      /\ len \in Nat /\ 1 <= len /\ pc \in {"selection", "insertion", "heapify", "call"}
      /\ i = (IF pc = "heapify" THEN 1 ELSE 0) /\ curr = i /\ n = len - 1 /\ j = 0
  BY SortsAssumption DEF Init
<1>2. calls \in Seq((0 .. len) \X (-1 .. len - 1))
  <2>1. CASE pc = "call"
    <3>1. calls = <<<<0, len - 1>>>> /\ <<0, len - 1>> \in (0 .. len) \X (-1 .. len - 1)
      BY <1>1, <2>1 DEF Init
    <3> QED BY <3>1
  <2>2. CASE pc # "call"
    <3>1. calls = <<>>
      BY <2>2 DEF Init
    <3> QED BY <3>1
  <2> QED BY <2>1, <2>2
<1>3. TypeOK
  BY <1>1, <1>2 DEF TypeOK
<1>4. Permuted
  BY <1>1 DEF Permuted
<1>5. Selected /\ Inserted
  BY <1>1 DEF Selected, Inserted
<1>6. Rising
  <2>1. \A c \in 1 .. len - 1 : c <= 1 => c = 1 /\ parent(c) # 1
    BY <1>1 DEF parent
  <2> QED BY <1>1, <2>1 DEF Rising
<1>7. IsHeap /\ Sinking /\ Extracted /\ Sorted
  BY <1>1 DEF IsHeap, Sinking, Extracted, Sorted
<1> QED BY <1>3, <1>4, <1>5, <1>6, <1>7 DEF SInv

\* Every step keeps it.
LEMMA NextSInv ==
  ASSUME IInv, IInv', SInv, [Next]_vars
  PROVE  SInv'
<1>1. /\ TypeOK /\ Permuted /\ Selected /\ Inserted /\ Rising /\ IsHeap
      /\ Sinking /\ Extracted /\ Sorted
  BY DEF SInv
<1>2. CASE UNCHANGED vars
  <2>1. /\ a' = a /\ input' = input /\ len' = len /\ pc' = pc /\ i' = i /\ j' = j
        /\ n' = n /\ curr' = curr /\ calls' = calls
    BY <1>2 DEF vars
  <2>2. TypeOK' /\ Permuted'
    BY <1>1, <2>1 DEF TypeOK, Permuted, start, end
  <2>3. Selected' /\ Inserted' /\ Rising'
    BY <1>1, <2>1 DEF Selected, Inserted, Rising
  <2>4. IsHeap' /\ Sinking' /\ Extracted' /\ Sorted'
    BY <1>1, <2>1 DEF IsHeap, Sinking, Extracted, Sorted
  <2> QED BY <2>2, <2>3, <2>4 DEF SInv
<1>3. CASE Next
  <2>1. TypeOK' /\ Permuted'
    BY <1>1, <1>3, TypeStep, StepSwaps, PermutedStep
  <2>2. CASE SelectionTurn
    <3>1. pc' = "selection"
      BY <2>2 DEF SelectionTurn
    <3>2. Selected'
      BY <1>1, <2>2, SelectionStep
    <3> QED BY <2>1, <3>1, <3>2
        DEF SInv, Inserted, Rising, IsHeap, Sinking, Extracted, Sorted
  <2>3. CASE InsertionSwap \/ InsertionNext
    <3>1. pc' = "insertion"
      BY <2>3 DEF InsertionSwap, InsertionNext
    <3>2. Inserted'
      BY <1>1, <2>3, InsertionStep
    <3> QED BY <2>1, <3>1, <3>2
        DEF SInv, Selected, Rising, IsHeap, Sinking, Extracted, Sorted
  <2>4. CASE SiftUp \/ HeapifyNext
    <3>1. pc' = "heapify"
      BY <2>4 DEF SiftUp, HeapifyNext
    <3>2. Rising'
      BY <1>1, <2>4, RisingStep
    <3> QED BY <2>1, <3>1, <3>2
        DEF SInv, Selected, Inserted, IsHeap, Sinking, Extracted, Sorted
  <2>5. CASE Heapified \/ SiftEnds
    <3>1. pc' = "extract"
      BY <2>5 DEF Heapified, SiftEnds
    <3>2. IsHeap' /\ Extracted'
      BY <1>1, <2>5, HeapifiedStep, SiftEndsStep
    <3> QED BY <2>1, <3>1, <3>2 DEF SInv, Selected, Inserted, Rising, Sinking, Sorted
  <2>6. CASE Extract \/ SiftDown
    <3>1. pc' = "sift"
      BY <2>6 DEF Extract, SiftDown
    <3>2. Sinking' /\ Extracted'
      BY <1>1, <2>6, ExtractStep, SiftDownStep
    <3> QED BY <2>1, <3>1, <3>2 DEF SInv, Selected, Inserted, Rising, IsHeap, Sorted
  <2>7. CASE LoopEnds \/ HeapEmpty \/ QuickDone
    <3>1. pc' = "done" /\ a' = a /\ len' = len
      BY <2>7 DEF LoopEnds, HeapEmpty, QuickDone
    <3>2. \A x, y \in 0 .. len - 1 : x < y => a[x] <= a[y]
      BY <1>1, <2>7, EndStep
    <3>3. Sorted'
      BY <2>1, <3>1, <3>2 DEF Sorted, Permuted
    <3> QED BY <2>1, <3>1, <3>3
        DEF SInv, Selected, Inserted, Rising, IsHeap, Sinking, Extracted
  <2>8. CASE QuickReturns \/ QuickPartitions \/ MoveBefore \/ MoveAfter \/ Partitioned
    <3>1. pc' \in {"call", "partition"}
      BY <2>8 DEF QuickReturns, QuickPartitions, MoveBefore, MoveAfter, Partitioned
    <3> QED BY <2>1, <3>1
        DEF SInv, Selected, Inserted, Rising, IsHeap, Sinking, Extracted, Sorted
  <2> QED BY <1>3, <2>2, <2>3, <2>4, <2>5, <2>6, <2>7, <2>8 DEF Next
<1> QED BY <1>2, <1>3
-----------------------------------------------------------------------------
(* The theorems about all sorts *)

\* The invariant of all sorts: what is sorted, and what is a heap, but for the
\* one element that moves.
THEOREM SortsInvariant == Spec => []SInv
<1>1. Init => SInv
  BY InitSInv
<1>2. IInv /\ IInv' /\ SInv /\ [Next]_vars => SInv'
  BY NextSInv
<1> QED BY <1>1, <1>2, QuickSortInvariant, PTL DEF Spec

\* Every variable of the sorts keeps its type.
THEOREM TypeCorrect == Spec => []TypeOK
<1>1. SInv => TypeOK
  BY DEF SInv
<1> QED BY <1>1, SortsInvariant, PTL

\* When one of the four sorts returns, the array is sorted, each value occurs as
\* often as before, and the rest of memory is untouched, for arrays of every
\* length with any integers.
THEOREM SortsSort == Spec => []Sorted
<1>1. SInv => Sorted
  BY DEF SInv
<1> QED BY <1>1, SortsInvariant, PTL
=============================================================================
