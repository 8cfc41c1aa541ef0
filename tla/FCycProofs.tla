----------------------------- MODULE FCycProofs -----------------------------
(***************************************************************************)
(* Proofs about the timing package, for every width of the counter's       *)
(* words, every set of parameters and every sequence of samples: the       *)
(* difference of two readings is what has passed between them, and the     *)
(* array of add_sample holds the smallest samples.                         *)
(***************************************************************************)
EXTENDS FCyc, FiniteSetTheorems, TLAPS

(* The counter *)

\* A multiple of n apart from 0 is at least n.
LEMMA Multiple ==
  ASSUME NEW n \in Nat, NEW d \in Int, d >= 1
  PROVE  n * d >= n
<1>1. n * (d - 1) = n * d - n
  OBVIOUS
<1>2. n * (d - 1) >= 0
  OBVIOUS
<1> QED BY <1>1, <1>2

\* Quotient and remainder are determined by what they add up to.
LEMMA Remainder ==
  ASSUME NEW n \in Nat \ {0}, NEW q \in Int, NEW r \in 0 .. n - 1,
         NEW q2 \in Int, NEW r2 \in 0 .. n - 1, n * q + r = n * q2 + r2
  PROVE  q = q2 /\ r = r2
<1>1. ASSUME NEW x \in Int, NEW y \in Int, NEW u \in 0 .. n - 1, NEW v \in 0 .. n - 1,
             n * x + u = n * y + v, x > y
      PROVE  FALSE
  <2>1. n * (x - y) = n * x - n * y
    OBVIOUS
  <2>2. n * (x - y) >= n
    BY <1>1, Multiple
  <2> QED BY <1>1, <2>1, <2>2
<1>2. q = q2
  BY <1>1
<1> QED BY <1>2

\* What % and \div yield.
LEMMA Division ==
  ASSUME NEW n \in Nat \ {0}, NEW x \in Int
  PROVE  /\ x \div n \in Int /\ x % n \in 0 .. n - 1
         /\ x = n * (x \div n) + (x % n)
BY SMT

\* The remainder of a number that is at most n away from being one.
LEMMA NearRemainder ==
  ASSUME NEW n \in Nat \ {0}, NEW x \in Int, -n <= x, x < 2 * n
  PROVE  x % n = IF x < 0 THEN x + n ELSE IF x < n THEN x ELSE x - n
<1> DEFINE q == x \div n
           r == x % n
<1>1. x = n * q + r /\ r \in 0 .. n - 1 /\ q \in Int
  BY Division
<1> HIDE DEF q, r
<1>2. CASE x < 0
  <2>1. n * q + r = n * (-1) + (x + n) /\ x + n \in 0 .. n - 1
    BY <1>1, <1>2
  <2> QED BY <1>1, <1>2, <2>1, Remainder DEF r
<1>3. CASE 0 <= x /\ x < n
  <2>1. n * q + r = n * 0 + x /\ x \in 0 .. n - 1
    BY <1>1, <1>3
  <2> QED BY <1>1, <1>3, <2>1, Remainder DEF r
<1>4. CASE n <= x
  <2>1. n * q + r = n * 1 + (x - n) /\ x - n \in 0 .. n - 1
    BY <1>1, <1>4
  <2> QED BY <1>1, <1>4, <2>1, Remainder DEF r
<1> QED BY <1>2, <1>3, <1>4

\* A reading of the counter and its two words.
LEMMA Words ==
  ASSUME NEW c \in Counter
  PROVE  /\ access_counter(c) \in [hi : Unsigned, lo : Unsigned]
         /\ c = BASE * access_counter(c).hi + access_counter(c).lo
<1> USE ClockAssumption
<1> DEFINE q == c \div BASE
           r == c % BASE
<1>1. /\ c \in Int /\ 0 <= c /\ c < BASE * BASE
      /\ q \in Int /\ r \in 0 .. BASE - 1 /\ c = BASE * q + r
  BY Division DEF Counter
<1>2. q >= 0
  <2>1. SUFFICES ASSUME q < 0
                 PROVE  FALSE
    BY <1>1
  <2>2. BASE * (-q) >= BASE /\ BASE * (-q) = - (BASE * q)
    BY <1>1, <2>1, Multiple
  <2> QED BY <1>1, <2>2
<1>3. q < BASE
  <2>1. SUFFICES ASSUME q >= BASE
                 PROVE  FALSE
    BY <1>1
  <2>2. BASE * (q - BASE) >= 0 /\ BASE * (q - BASE) = BASE * q - BASE * BASE
    BY <1>1, <2>1
  <2> QED BY <1>1, <2>2
<1> QED BY <1>1, <1>2, <1>3 DEF access_counter, Unsigned

\* The counter that two words stand for.
LEMMA ReadingInCounter ==
  ASSUME NEW hi \in Unsigned, NEW lo \in Unsigned
  PROVE  hi * BASE + lo \in Counter
<1>1. /\ BASE \in Nat /\ hi \in Nat /\ lo \in Nat /\ hi <= BASE - 1 /\ lo <= BASE - 1
  BY ClockAssumption DEF Unsigned
<1>2. hi * BASE <= (BASE - 1) * BASE /\ hi * BASE >= 0
  BY <1>1
<1>3. (BASE - 1) * BASE = BASE * BASE - BASE
  BY <1>1
<1> QED BY <1>1, <1>2, <1>3 DEF Counter

\* The counter begins at 0.
LEMMA ZeroInCounter == 0 \in Unsigned /\ 0 \in Counter
<1>1. BASE * BASE >= BASE
  BY ClockAssumption, Multiple
<1> QED BY <1>1, ClockAssumption DEF Unsigned, Counter

\* ElapsedExact of clock.c: the subtraction with its borrow yields the cycles
\* that have passed, wherever the counter began again.
LEMMA CounterFacts ==
  ASSUME NEW c \in Counter, NEW n \in Counter
  PROVE  get_counter(c, n) = n
<1> USE ClockAssumption
<1> DEFINE sq == BASE * BASE
           c2 == (c + n) % sq
<1>1. /\ sq \in Nat \ {0} /\ c \in Nat /\ n \in Nat /\ c < sq /\ n < sq
      /\ Counter = 0 .. sq - 1
  BY DEF Counter
<1>2. c2 \in Counter /\ (c2 = c + n \/ c2 = c + n - sq)
  <2> DEFINE x == c + n
  <2>1. x \in Int /\ -sq <= x /\ x < 2 * sq
    BY <1>1
  <2> HIDE DEF x, sq
  <2>2. x % sq = IF x < 0 THEN x + sq ELSE IF x < sq THEN x ELSE x - sq
    BY <1>1, <2>1, NearRemainder
  <2> QED BY <1>1, <2>1, <2>2 DEF x
<1> HIDE DEF sq, c2
<1> DEFINE w == access_counter(c)
           w2 == access_counter(c2)
           lo == (w2.lo - w.lo) % BASE
           borrow == IF lo > w2.lo THEN 1 ELSE 0
           hi == (w2.hi - w.hi - borrow) % BASE
<1>3. /\ w.hi \in Unsigned /\ w.lo \in Unsigned /\ c = BASE * w.hi + w.lo
      /\ w2.hi \in Unsigned /\ w2.lo \in Unsigned /\ c2 = BASE * w2.hi + w2.lo
  BY <1>2, Words
<1> HIDE DEF w, w2
<1>4. /\ lo \in 0 .. BASE - 1
      /\ borrow \in {0, 1} /\ lo = w2.lo - w.lo + borrow * BASE
  <2> DEFINE x == w2.lo - w.lo
  <2>1. x \in Int /\ -BASE <= x /\ x < BASE /\ x < 2 * BASE
    BY <1>3, ClockAssumption DEF Unsigned
  <2> HIDE DEF x
  <2>2. x % BASE = IF x < 0 THEN x + BASE ELSE IF x < BASE THEN x ELSE x - BASE
    BY <2>1, NearRemainder
  <2>3. lo = IF x < 0 THEN x + BASE ELSE x
    BY <2>1, <2>2 DEF x
  <2> HIDE DEF lo
  <2>4. borrow = IF x < 0 THEN 1 ELSE 0
    BY <1>3, <2>1, <2>3 DEF Unsigned, x
  <2> HIDE DEF borrow
  <2>5. lo = IF x < 0 THEN w2.lo - w.lo + BASE ELSE w2.lo - w.lo
    BY <2>3 DEF x
  <2>6. CASE x < 0
    <3>1. borrow * BASE = BASE
      BY <2>1, <2>4, <2>6
    <3> QED BY <1>3, <2>1, <2>3, <2>4, <2>5, <2>6, <3>1 DEF x
  <2>7. CASE x >= 0
    <3>1. borrow * BASE = 0
      BY <2>1, <2>4, <2>7
    <3> QED BY <1>3, <2>1, <2>3, <2>4, <2>5, <2>7, <3>1 DEF x, Unsigned
  <2> QED BY <2>1, <2>6, <2>7
<1> HIDE DEF lo, borrow
<1>5. \E k \in {0, 1} : hi = w2.hi - w.hi - borrow + k * BASE /\ hi \in 0 .. BASE - 1
  <2> DEFINE x == w2.hi - w.hi - borrow
  <2>1. x \in Int /\ -BASE <= x /\ x < BASE /\ x < 2 * BASE
    BY <1>3, <1>4 DEF Unsigned
  <2> HIDE DEF x
  <2>2. x % BASE = IF x < 0 THEN x + BASE ELSE IF x < BASE THEN x ELSE x - BASE
    BY <2>1, NearRemainder
  <2>3. hi = IF x < 0 THEN x + BASE ELSE x
    BY <2>1, <2>2 DEF x
  <2> HIDE DEF hi
  <2>4. hi = IF x < 0 THEN w2.hi - w.hi - borrow + 1 * BASE
             ELSE w2.hi - w.hi - borrow + 0 * BASE
    BY <1>3, <1>4, <2>3 DEF x, Unsigned
  <2>5. hi \in 0 .. BASE - 1
    BY <2>1, <2>3
  <2> QED BY <2>1, <2>4, <2>5
<1> HIDE DEF hi
<1>6. PICK k \in {0, 1} : hi = w2.hi - w.hi - borrow + k * BASE /\ hi \in 0 .. BASE - 1
  BY <1>5
<1>7. BASE * hi + lo = c2 - c + k * sq
  <2>1. /\ w.hi \in Int /\ w2.hi \in Int /\ w.lo \in Int /\ w2.lo \in Int
        /\ BASE \in Int /\ borrow \in Int /\ k \in Int /\ lo \in Int
    BY <1>3, <1>4 DEF Unsigned
  <2>2. BASE * hi = BASE * w2.hi - BASE * w.hi - BASE * borrow + k * (BASE * BASE)
    BY <1>6, <2>1
  <2>3. lo = w2.lo - w.lo + BASE * borrow
    BY <1>4, <2>1
  <2> DEFINE A == BASE * w.hi
             A2 == BASE * w2.hi
             C == BASE * borrow
             D == k * (BASE * BASE)
  <2>4. A \in Int /\ A2 \in Int /\ C \in Int /\ D \in Int
    BY <2>1
  <2>5. BASE * hi = A2 - A - C + D
    BY <2>2
  <2>6. lo = w2.lo - w.lo + C /\ c = A + w.lo /\ c2 = A2 + w2.lo /\ k * sq = D
    BY <1>3, <2>3 DEF sq
  <2> HIDE DEF A, A2, C, D
  <2> QED BY <2>1, <2>4, <2>5, <2>6
<1>8. BASE * hi + lo \in 0 .. sq - 1
  <2>1. BASE * hi <= BASE * (BASE - 1)
    BY <1>6
  <2>2. BASE * (BASE - 1) = sq - BASE
    BY DEF sq
  <2> QED BY <1>1, <1>4, <1>6, <2>1, <2>2
<1>9. BASE * hi + lo = n
  BY <1>1, <1>2, <1>6, <1>7, <1>8
<1>10. get_counter(c, n) = hi * BASE + lo
  BY DEF get_counter, difference, hi, lo, borrow, w, w2, c2, sq
<1> QED BY <1>4, <1>6, <1>9, <1>10
-----------------------------------------------------------------------------
(* The invariant *)

\* The samples that are in values: f leads from the places to the samples.
Places(f) ==
  /\ f \in [1 .. held -> 1 .. Len(samples)]
  /\ \A q, r \in 1 .. held : f[q] = f[r] => q = r
  /\ \A q \in 1 .. held : values[q] = samples[f[q]]
  /\ \A s \in 1 .. Len(samples) :
       \/ \E q \in 1 .. held : f[q] = s
       \/ held = kbest /\ \A q \in 1 .. held : values[q] <= samples[s]

\* values holds the smallest samples ...
HoldsSmallest ==
  /\ Measuring => samplecount = Len(samples) /\ \E f : Places(f)
  /\ pc = "idle" => samples = <<>>

\* ... in order, but for the one that is on its way to its place.
Ordered ==
  Measuring =>
    \A q, r \in 1 .. held :
      q < r /\ ~(pc = "sort" /\ r = pos) => values[q] <= values[r]

\* fcyc goes on as long as the samples do not suffice.
GoesOn ==
  Measuring =>
    \A n \in 1 .. Len(samples) :
      ~(pc = "sort" /\ n = Len(samples)) => ~Suffices(n)

\* Only a sample that is to be compensated passes by there.
Clocked ==
  /\ pc = "times" => params.compensate
  /\ ElapsedExact

IInv ==
  /\ TypeOK /\ Clocked
  /\ HoldsSmallest /\ Ordered /\ GoesOn /\ ResultBest

\* What the constants are.
LEMMA Parameter ==
  ASSUME TypeOK
  PROVE  /\ kbest \in Nat \ {0} /\ params.maxsamples \in Int
         /\ params.compensate \in BOOLEAN
         /\ held \in 0 .. kbest /\ held <= samplecount
BY FCycAssumption DEF TypeOK, kbest, held
-----------------------------------------------------------------------------
(* Order statistics *)

\* A function leads to no more values than it has arguments, and to as many
\* if no two are the same.
LEMMA ImageSize ==
  ASSUME NEW S, IsFiniteSet(S), NEW f
  PROVE  /\ IsFiniteSet({f[x] : x \in S})
         /\ Cardinality({f[x] : x \in S}) <= Cardinality(S)
         /\ (\A x, y \in S : f[x] = f[y] => x = y)
              => Cardinality({f[x] : x \in S}) = Cardinality(S)
<1> DEFINE T == {f[x] : x \in S}
           g == [x \in S |-> f[x]]
<1>1. g \in Surjection(S, T)
  <2>1. g \in [S -> T]
    OBVIOUS
  <2>2. \A t \in T : \E x \in S : g[x] = t
    OBVIOUS
  <2> HIDE DEF g, T
  <2> QED BY <2>1, <2>2 DEF Surjection
<1>2. ASSUME \A x, y \in S : f[x] = f[y] => x = y
      PROVE  g \in Injection(S, T)
  <2>1. g \in [S -> T]
    OBVIOUS
  <2>2. \A x, y \in S : g[x] = g[y] => x = y
    BY <1>2
  <2> HIDE DEF g, T
  <2> QED BY <2>1, <2>2 DEF Injection, IsInjective
<1> HIDE DEF g, T
<1>3. /\ IsFiniteSet(T) /\ Cardinality(T) <= Cardinality(S)
      /\ Cardinality(T) = Cardinality(S) <=> g \in Injection(S, T)
  BY <1>1, FS_Surjection
<1> QED BY <1>2, <1>3 DEF T

\* The q-th smallest is only one value.
LEMMA SmallestUnique ==
  ASSUME samples \in Seq(Int), NEW n \in Nat, n <= Len(samples),
         NEW v \in Int, NEW w \in Int, NEW q \in Int,
         IsSmallest(v, q, n), IsSmallest(w, q, n)
  PROVE  v = w
<1>1. ASSUME NEW x \in Int, NEW y \in Int, x < y,
             IsSmallest(x, q, n), IsSmallest(y, q, n)
      PROVE  FALSE
  <2> DEFINE X == {s \in 1 .. n : samples[s] <= x}
             Y == {s \in 1 .. n : samples[s] < y}
  <2>1. \A s \in 1 .. n : samples[s] \in Int
    OBVIOUS
  <2>2. X \subseteq Y /\ Y \subseteq 1 .. n
    BY <1>1, <2>1
  <2>3. IsFiniteSet(1 .. n)
    BY FS_Interval
  <2>4. IsFiniteSet(Y) /\ Cardinality(X) <= Cardinality(Y)
    BY <2>2, <2>3, FS_Subset
  <2>5. Cardinality(X) \in Nat /\ Cardinality(Y) \in Nat
    BY <2>2, <2>4, FS_Subset, FS_CardinalityType
  <2>6. q <= Cardinality(X) /\ Cardinality(Y) < q
    BY <1>1 DEF IsSmallest
  <2> QED BY <2>4, <2>5, <2>6
<1> QED BY <1>1

\* An array in order that holds the smallest samples has the q-th smallest at
\* its place q.
LEMMA PlaceIsRank ==
  ASSUME TypeOK, Measuring, samplecount = Len(samples), NEW f, Places(f),
         \A q, r \in 1 .. held : q < r => values[q] <= values[r],
         NEW q \in 1 .. held
  PROVE  IsSmallest(values[q], q, Len(samples))
<1> DEFINE n == Len(samples)
           v == values[q]
           Smaller == {s \in 1 .. n : samples[s] < v}
           AtMost == {s \in 1 .. n : samples[s] <= v}
           Q == 1 .. q - 1
           Q2 == 1 .. q
           Before == {f[r] : r \in Q}
           Upto == {f[r] : r \in Q2}
<1>1. /\ held \in Nat /\ held <= kbest /\ kbest \in Nat /\ n \in Nat
      /\ q \in Nat /\ q >= 1 /\ q <= held
      /\ \A r \in 1 .. held : values[r] \in Int /\ f[r] \in 1 .. n
                              /\ values[r] = samples[f[r]]
      /\ \A s \in 1 .. n : samples[s] \in Int
  <2>1. held \in Nat /\ held <= kbest /\ kbest \in Nat
    BY Parameter
  <2>2. n \in Nat /\ \A s \in 1 .. n : samples[s] \in Int
    BY DEF TypeOK
  <2>3. \A r \in 1 .. held : f[r] \in 1 .. n /\ values[r] = samples[f[r]]
    BY DEF Places
  <2> QED BY <2>1, <2>2, <2>3
<1>2. /\ IsFiniteSet(Q) /\ Cardinality(Q) = q - 1
      /\ IsFiniteSet(Q2) /\ Cardinality(Q2) = q
  <2>1. \A m \in Nat : IsFiniteSet(1 .. m) /\ Cardinality(1 .. m) = m
    <3> TAKE m \in Nat
    <3>1. Cardinality(1 .. m) = IF 1 > m THEN 0 ELSE m - 1 + 1
      BY FS_Interval
    <3> QED BY <3>1, FS_Interval
  <2>2. q - 1 \in Nat /\ q \in Nat
    BY <1>1
  <2> QED BY <2>1, <2>2
<1>3. Smaller \subseteq Before
  <2> SUFFICES ASSUME NEW s \in 1 .. n, samples[s] < v
               PROVE  \E r \in 1 .. q - 1 : f[r] = s
    OBVIOUS
  <2>1. PICK r \in 1 .. held : f[r] = s
    BY <1>1 DEF Places
  <2>2. values[r] < v
    BY <1>1, <2>1
  <2>3. r < q
    BY <1>1, <2>2
  <2> QED BY <1>1, <2>1, <2>3
<1>4. IsFiniteSet(Before) /\ Cardinality(Before) <= q - 1
  <2> HIDE DEF Q
  <2> QED BY <1>2, ImageSize
<1> HIDE DEF Before, Smaller
<1>5. Cardinality(Smaller) < q
  <2>1. IsFiniteSet(Smaller) /\ Cardinality(Smaller) <= Cardinality(Before)
    BY <1>3, <1>4, FS_Subset
  <2>2. Cardinality(Smaller) \in Nat /\ Cardinality(Before) \in Nat
    BY <1>4, <2>1, FS_CardinalityType
  <2> QED BY <1>1, <1>4, <2>1, <2>2
<1>6. Upto \subseteq AtMost
  <2> SUFFICES ASSUME NEW r \in 1 .. q
               PROVE  f[r] \in 1 .. n /\ samples[f[r]] <= v
    OBVIOUS
  <2>1. r \in 1 .. held /\ (r < q \/ r = q)
    BY <1>1
  <2> QED BY <1>1, <2>1
<1>7. Cardinality(Upto) = q
  <2>1. \A r, t \in Q2 : f[r] = f[t] => r = t
    BY <1>1 DEF Places
  <2> HIDE DEF Q2
  <2> QED BY <1>2, <2>1, ImageSize
<1>8. AtMost \subseteq 1 .. n /\ IsFiniteSet(AtMost)
  <2>1. IsFiniteSet(1 .. n) /\ AtMost \subseteq 1 .. n
    BY <1>1, FS_Interval
  <2> QED BY <2>1, FS_Subset
<1> HIDE DEF Upto, AtMost
<1>9. q <= Cardinality(AtMost)
  BY <1>6, <1>7, <1>8, FS_Subset
<1> QED BY <1>5, <1>9 DEF IsSmallest, Smaller, AtMost

\* has_converged and the limit on samples tell whether the samples suffice.
LEMMA ConvergedIsEnough ==
  ASSUME TypeOK, Measuring, samplecount = Len(samples), NEW f, Places(f),
         \A q, r \in 1 .. held : q < r => values[q] <= values[r]
  PROVE  Suffices(Len(samples)) <=> has_converged \/ samplecount >= params.maxsamples
<1> DEFINE n == Len(samples)
<1>1. /\ n \in Nat /\ kbest \in Nat \ {0} /\ samples \in Seq(Int)
      /\ \A s \in 1 .. n : samples[s] \in Int
      /\ EPSILON \in Nat
  BY Parameter, FCycAssumption DEF TypeOK
<1>2. CASE samplecount < kbest
  BY <1>1, <1>2 DEF Suffices, has_converged
<1>3. CASE samplecount >= kbest
  <2>1. held = kbest /\ 1 \in 1 .. held /\ kbest \in 1 .. held
    BY <1>1, <1>3 DEF held
  <2>2. /\ values[1] = samples[f[1]] /\ f[1] \in 1 .. n
        /\ values[kbest] = samples[f[kbest]] /\ f[kbest] \in 1 .. n
    BY <2>1 DEF Places
  <2>3. IsSmallest(values[1], 1, n) /\ IsSmallest(values[kbest], kbest, n)
    BY <2>1, PlaceIsRank
  <2>4. ASSUME NEW v \in 1 .. n, NEW w \in 1 .. n,
               IsSmallest(samples[v], 1, n), IsSmallest(samples[w], kbest, n)
        PROVE  samples[v] = values[1] /\ samples[w] = values[kbest]
    <3>1. values[1] \in Int /\ values[kbest] \in Int
      BY <1>1, <2>2
    <3> QED BY <1>1, <2>3, <2>4, <3>1, SmallestUnique
  <2> QED BY <1>3, <2>2, <2>3, <2>4 DEF Suffices, has_converged
<1> QED BY <1>1, <1>2, <1>3 DEF TypeOK

\* Whether the first samples suffice does not depend on the others.
LEMMA SufficesStays ==
  ASSUME samples \in Seq(Int), params' = params,
         NEW x \in Int, samples' = Append(samples, x) \/ samples' = samples,
         NEW n \in 1 .. Len(samples)
  PROVE  Suffices(n)' <=> Suffices(n)
<1>1. \A s \in 1 .. n : samples'[s] = samples[s]
  BY SMTT(30)
<1>2. \A v : /\ {s \in 1 .. n : samples'[s] < v} = {s \in 1 .. n : samples[s] < v}
             /\ {s \in 1 .. n : samples'[s] <= v} = {s \in 1 .. n : samples[s] <= v}
  BY <1>1
<1>3. \A v, q : IsSmallest(v, q, n)' <=> IsSmallest(v, q, n)
  BY <1>2 DEF IsSmallest
<1> QED BY <1>1, <1>3 DEF Suffices, kbest
-----------------------------------------------------------------------------
(* Init and Next *)

\* The invariant holds at first.
LEMMA InitIInv == Init => IInv
<1> SUFFICES ASSUME Init
             PROVE  IInv
  OBVIOUS
<1> USE FCycAssumption, ClockAssumption
<1>1. 0 \in Unsigned /\ 0 \in Counter
  BY ZeroInCounter
<1>2. TypeOK
  BY <1>1 DEF Init, TypeOK, Measuring
<1> QED
  BY <1>2 DEF Init, IInv, Clocked, ElapsedExact, HoldsSmallest, Ordered, GoesOn,
              ResultBest, Measuring

\* Every step keeps the types.
LEMMA TypeStep ==
  ASSUME TypeOK, Next
  PROVE  TypeOK'
<1> USE FCycAssumption DEF TypeOK, setting, clock, sampler, Measuring, kbest, held
<1>1. CASE init_fsecs
  BY <1>1 DEF init_fsecs
<1>2. CASE set_fcyc
  BY <1>2 DEF set_fcyc
<1>3. CASE set_fcyc_cache_size
  BY <1>3 DEF set_fcyc_cache_size
<1>4. CASE Start
  BY <1>4 DEF Start
<1>5. CASE clear
  BY <1>5 DEF clear
<1>6. CASE NeedsCallibration
  BY <1>6 DEF NeedsCallibration
<1>7. CASE SawTick
  <2>1. PICK ev \in Events :
          LET cpt == ev.cycles \div ev.ticks
          IN  cyc_per_tick' =
                IF (cyc_per_tick = 0 \/ cyc_per_tick > cpt) /\ cpt > RECORDTHRESH
                THEN cpt ELSE cyc_per_tick
    BY <1>7 DEF SawTick
  <2>2. ev.cycles \div ev.ticks \in Int
    <3>1. ev.cycles \in Int /\ ev.ticks \in Nat \ {0}
      OBVIOUS
    <3> QED BY <3>1, Division
  <2>3. cyc_per_tick' \in Nat
    BY <2>1, <2>2
  <2> QED BY <1>7, <2>3 DEF SawTick
<1>8. CASE StartCounter
  BY <1>8, Words DEF StartCounter
<1>9. CASE RunFunction
  BY <1>9 DEF RunFunction
<1>10. CASE GetCounter
  <2>1. time' \in Int
    BY <1>10, ReadingInCounter, CounterFacts DEF GetCounter, Counter
  <2> QED BY <1>10, <2>1 DEF GetCounter
<1>11. CASE Compensate
  <2>1. \A late \in {0, 1} : time - (ticks + late) * cyc_per_tick \in Int
    OBVIOUS
  <2> QED BY <1>11, <2>1 DEF Compensate
<1>12. CASE add_sample
  <2> USE <1>12 DEF add_sample
  <2>1. /\ kbest \in Nat \ {0} /\ kbest' = kbest /\ samplecount' = samplecount + 1
        /\ values \in [1 .. kbest -> Int]
    BY DEF add_sample
  <2>2. values' \in [1 .. kbest -> Int] /\ pos' \in 1 .. held'
    <3>1. CASE samplecount < kbest
      BY <2>1, <3>1, SMTT(30)
    <3>2. CASE samplecount >= kbest
      BY <2>1, <3>2
    <3> QED BY <2>1, <3>1, <3>2
  <2>3. samples' \in Seq(Int) /\ elapsed' = 0 /\ 0 \in Counter
    BY ZeroInCounter
  <2> QED BY <2>1, <2>2, <2>3
<1>13. CASE Exchange
  <2>1. /\ kbest \in Nat \ {0} /\ kbest' = kbest /\ held' = held /\ held \in 0 .. kbest
        /\ pos \in 1 .. held /\ pos > 1
        /\ values \in [1 .. kbest -> Int]
    BY <1>13, SMTT(30) DEF Exchange
  <2>2. values' \in [1 .. kbest -> Int] /\ pos' \in 1 .. held
    <3> HIDE DEF TypeOK, kbest, held
    <3>1. pos \in 1 .. kbest /\ pos - 1 \in 1 .. kbest
      BY <2>1
    <3>2. values[pos] \in Int /\ values[pos - 1] \in Int
      BY <2>1, <3>1
    <3> QED BY <1>13, <2>1, <3>1, <3>2 DEF Exchange
  <2>3. pos' \in Nat /\ pos' \in 1 .. held'
    BY <2>1, <2>2
  <2>4. UNCHANGED <<setting, cache_buf, samplecount, samples, clock, pc, result>>
    BY <1>13 DEF Exchange
  <2> QED BY <2>2, <2>3, <2>4
<1>14. CASE Again
  BY <1>14 DEF Again, Sorted
<1>15. CASE Return
  <2>1. kbest \in Nat \ {0} /\ values \in [1 .. kbest -> Int]
    BY <1>15 DEF Return, Sorted
  <2>2. result' \in Int
    BY <1>15, <2>1 DEF Return
  <2> QED BY <1>15, <2>2 DEF Return
<1>16. CASE Done
  BY <1>16 DEF Done
<1> QED
  BY <1>1, <1>2, <1>3, <1>4, <1>5, <1>6, <1>7, <1>8, <1>9, <1>10, <1>11, <1>12,
     <1>13, <1>14, <1>15, <1>16 DEF Next, Measure

\* What the clock shows: only GetCounter reads it, and only compensation
\* changes what it has shown.
LEMMA ClockStep ==
  ASSUME TypeOK, Clocked, Next
  PROVE  Clocked'
<1> USE DEF Clocked, ElapsedExact, setting, clock, sampler
<1>1. CASE init_fsecs \/ set_fcyc \/ set_fcyc_cache_size \/ Start \/ Done
  BY <1>1 DEF init_fsecs, set_fcyc, set_fcyc_cache_size, Start, Done
<1>2. CASE clear \/ NeedsCallibration \/ SawTick \/ StartCounter
  BY <1>2 DEF clear, NeedsCallibration, SawTick, StartCounter
<1>3. CASE RunFunction
  BY <1>3 DEF RunFunction
<1>4. CASE GetCounter
  <2>1. cyc.hi * BASE + cyc.lo \in Counter /\ elapsed \in Counter
    BY ReadingInCounter DEF TypeOK
  <2>2. time' = elapsed
    BY <1>4, <2>1, CounterFacts DEF GetCounter
  <2> QED BY <1>4, <2>2 DEF GetCounter
<1>5. CASE Compensate
  <2>1. params.compensate
    BY <1>5 DEF Compensate
  <2> QED BY <1>5 DEF Compensate
<1>6. CASE add_sample \/ Exchange \/ Again \/ Return
  BY <1>6 DEF add_sample, Exchange, Again, Return, Sorted
<1> QED
  BY <1>1, <1>2, <1>3, <1>4, <1>5, <1>6 DEF Next, Measure

\* What is said about the samples does not change while they do not.
LEMMA SamplesStay ==
  ASSUME TypeOK, HoldsSmallest, Ordered, GoesOn, UNCHANGED <<params, sampler>>,
         Measuring, Measuring', pc # "sort", pc' # "sort"
  PROVE  HoldsSmallest' /\ Ordered' /\ GoesOn' /\ ResultBest'
<1> USE DEF sampler
<1>1. held' = held /\ kbest' = kbest
  BY DEF held, kbest
<1>2. \A f : Places(f)' <=> Places(f)
  BY <1>1 DEF Places
<1>3. HoldsSmallest'
  BY <1>2 DEF HoldsSmallest, Measuring
<1>4. Ordered'
  BY <1>1 DEF Ordered
<1>5. GoesOn'
  <2>1. \A m \in 1 .. Len(samples) : Suffices(m)' <=> Suffices(m)
    BY 0 \in Int, SufficesStays DEF TypeOK
  <2> QED BY <2>1 DEF GoesOn
<1>6. ResultBest'
  BY DEF ResultBest, Measuring
<1> QED BY <1>3, <1>4, <1>5, <1>6

\* A new sample gets a place if it belongs to the smallest, instead of the
\* largest one of these if there is no place left.
LEMMA SampleAdded ==
  ASSUME TypeOK, HoldsSmallest, Ordered, GoesOn, add_sample
  PROVE  HoldsSmallest' /\ Ordered' /\ GoesOn'
<1>0. PICK n \in Nat : n = Len(samples)
  BY DEF TypeOK
<1>1. /\ Measuring /\ Measuring' /\ samplecount = n /\ samplecount' = n + 1
      /\ samples' = Append(samples, time) /\ time \in Int
      /\ pc = "add" /\ pc' = "sort" /\ kbest' = kbest /\ params' = params
      /\ samples \in Seq(Int) /\ n = Len(samples)
      /\ kbest \in Nat \ {0} /\ values \in [1 .. kbest -> Int]
  BY <1>0, Parameter DEF add_sample, HoldsSmallest, Measuring, setting, kbest, TypeOK
<1>2. /\ Len(samples') = n + 1 /\ samples'[n + 1] = time
      /\ \A s \in 1 .. n : samples'[s] = samples[s] /\ samples[s] \in Int
  BY <1>1
<1>3. PICK f : Places(f)
  BY <1>1 DEF HoldsSmallest
<1>4. \A q, r \in 1 .. held : q < r => values[q] <= values[r]
  BY <1>1 DEF Ordered
<1>5. (\E g : Places(g)') /\ Ordered'
  <2>1. CASE samplecount < kbest
    <3>1. held = n /\ held' = n + 1 /\ n + 1 \in 1 .. kbest
      BY <1>1, <2>1 DEF held
    <3>2. pos' = n + 1 /\ values' = [values EXCEPT ![n + 1] = time]
      BY <1>1, <2>1 DEF add_sample
    <3>a. /\ f \in [1 .. n -> 1 .. n]
          /\ \A q, r \in 1 .. n : f[q] = f[r] => q = r
          /\ \A q \in 1 .. n : values[q] = samples[f[q]]
          /\ \A s \in 1 .. n : \E q \in 1 .. n : f[q] = s
      <4>1. held # kbest /\ Len(samples) = n
        BY <1>1, <2>1, <3>1
      <4> QED BY <1>3, <3>1, <4>1 DEF Places
    <3>b. PICK g : g = [q \in 1 .. n + 1 |-> IF q = n + 1 THEN n + 1 ELSE f[q]]
      OBVIOUS
    <3>3. \A q \in 1 .. n : /\ q \in 1 .. n + 1 /\ q # n + 1 /\ q \in 1 .. kbest
                            /\ f[q] \in 1 .. n /\ values[q] = samples[f[q]]
                            /\ values'[q] = values[q]
      <4> TAKE q \in 1 .. n
      <4>1. q \in 1 .. n + 1 /\ q # n + 1 /\ q \in 1 .. kbest
        BY <1>1, <3>1
      <4>2. f[q] \in 1 .. n /\ values[q] = samples[f[q]]
        BY <3>a
      <4> QED BY <1>1, <3>2, <4>1, <4>2
    <3>4. values'[n + 1] = time
      BY <1>1, <3>1, <3>2
    <3>c. /\ \A q \in 1 .. n + 1 : q = n + 1 \/ q \in 1 .. n
          /\ n + 1 \in 1 .. n + 1 /\ \A s \in 1 .. n : s # n + 1 /\ s \in 1 .. n + 1
      OBVIOUS
    <3>d. g[n + 1] = n + 1 /\ \A q \in 1 .. n : g[q] = f[q]
      BY <3>b, <3>c
    <3>5. g \in [1 .. n + 1 -> 1 .. n + 1]
      <4>1. \A q \in 1 .. n + 1 : IF q = n + 1 THEN n + 1 \in 1 .. n + 1
                                                ELSE f[q] \in 1 .. n + 1
        BY <3>3, <3>c
      <4> QED BY <3>b, <4>1
    <3>6. \A q, r \in 1 .. n + 1 : g[q] = g[r] => q = r
      <4> SUFFICES ASSUME NEW q \in 1 .. n + 1, NEW r \in 1 .. n + 1, g[q] = g[r]
                   PROVE  q = r
        OBVIOUS
      <4>1. CASE q \in 1 .. n /\ r \in 1 .. n
        BY <3>a, <3>d, <4>1
      <4>2. \A t \in 1 .. n : g[t] # n + 1
        BY <3>3, <3>c, <3>d
      <4> QED BY <3>c, <3>d, <4>1, <4>2
    <3>7. \A q \in 1 .. n + 1 : values'[q] = samples'[g[q]]
      BY <1>2, <3>3, <3>4, <3>c, <3>d
    <3>8. \A s \in 1 .. n + 1 : \E q \in 1 .. n + 1 : g[q] = s
      BY <3>a, <3>c, <3>d
    <3>9. Places(g)'
      BY <1>1, <1>2, <3>1, <3>5, <3>6, <3>7, <3>8 DEF Places
    <3>10. Ordered'
      BY <1>1, <1>4, <3>1, <3>2, <3>3, SMTT(30) DEF Ordered
    <3> QED BY <3>9, <3>10
  <2>2. CASE samplecount >= kbest /\ time < values[kbest]
    <3>1. held = kbest /\ held' = kbest /\ kbest \in 1 .. kbest
      BY <1>1, <2>2 DEF held
    <3>2. pos' = kbest /\ values' = [values EXCEPT ![kbest] = time]
      BY <1>1, <2>2 DEF add_sample
    <3>b. PICK g : g = [q \in 1 .. kbest |-> IF q = kbest THEN n + 1 ELSE f[q]]
      OBVIOUS
    <3>3. \A q \in 1 .. kbest : /\ f[q] \in 1 .. n /\ values[q] = samples[f[q]]
                                /\ values[q] \in Int /\ values[q] <= values[kbest]
                                /\ values'[q] = IF q = kbest THEN time ELSE values[q]
      BY <1>1, <1>3, <1>4, <3>1, <3>2 DEF Places
    <3>4. g \in [1 .. kbest -> 1 .. n + 1]
      BY <1>1, <3>3, <3>b
    <3>5. \A q, r \in 1 .. kbest : g[q] = g[r] => q = r
      BY <1>1, <1>3, <3>1, <3>3, <3>b DEF Places
    <3>6. \A q \in 1 .. kbest : values'[q] = samples'[g[q]]
      BY <1>1, <1>2, <3>3, <3>b
    <3>7. \A q \in 1 .. kbest : values'[q] <= values[kbest]
      BY <1>1, <2>2, <3>1, <3>3
    <3>8. ASSUME NEW s \in 1 .. n + 1
          PROVE  \/ \E q \in 1 .. kbest : g[q] = s
                 \/ \A q \in 1 .. kbest : values'[q] <= samples'[s]
      <4>1. CASE s = n + 1
        BY <3>1, <3>b, <4>1
      <4>2. CASE s # n + 1
        <5>1. s \in 1 .. n /\ samples'[s] = samples[s] /\ samples[s] \in Int
          BY <1>1, <1>2, <4>2
        <5>2. CASE \E q \in 1 .. kbest : q # kbest /\ f[q] = s
          BY <3>b, <5>2
        <5>3. CASE \A q \in 1 .. kbest : q # kbest => f[q] # s
          <6>1. values[kbest] <= samples[s]
            <7>1. \/ \E q \in 1 .. kbest : f[q] = s
                  \/ \A q \in 1 .. kbest : values[q] <= samples[s]
              BY <1>1, <1>3, <3>1, <5>1 DEF Places
            <7>2. CASE \E q \in 1 .. kbest : f[q] = s
              <8>1. f[kbest] = s
                BY <5>3, <7>2
              <8> QED BY <3>1, <3>3, <5>1, <8>1
            <7> QED BY <3>1, <7>1, <7>2
          <6>2. values[kbest] \in Int /\ \A q \in 1 .. kbest : values'[q] \in Int
            BY <1>1, <3>1, <3>3
          <6> QED BY <3>7, <5>1, <6>1, <6>2
        <5> QED BY <5>2, <5>3
      <4> QED BY <4>1, <4>2
    <3>9. Places(g)'
      BY <1>1, <1>2, <3>1, <3>4, <3>5, <3>6, <3>8 DEF Places
    <3>10. Ordered'
      BY <1>1, <1>4, <3>1, <3>2, <3>3 DEF Ordered
    <3> QED BY <3>9, <3>10
  <2>3. CASE samplecount >= kbest /\ time >= values[kbest]
    <3>1. held = kbest /\ held' = kbest /\ kbest \in 1 .. kbest
      BY <1>1, <2>3 DEF held
    <3>2. pos' = 1 /\ values' = values
      BY <1>1, <2>3 DEF add_sample
    <3>3. \A q \in 1 .. kbest : /\ f[q] \in 1 .. n /\ f[q] \in 1 .. n + 1
                                /\ values[q] = samples[f[q]]
                                /\ values[q] \in Int /\ values[q] <= time
      BY <1>1, <1>3, <1>4, <2>3, <3>1, SMTT(30) DEF Places
    <3>4. f \in [1 .. kbest -> 1 .. n + 1]
      BY <1>1, <1>3, <3>1, <3>3 DEF Places
    <3>5. \A s \in 1 .. n + 1 : \/ \E q \in 1 .. kbest : f[q] = s
                                \/ \A q \in 1 .. kbest : values[q] <= samples'[s]
      <4>1. \A s \in 1 .. n : \/ \E q \in 1 .. kbest : f[q] = s
                              \/ \A q \in 1 .. kbest : values[q] <= samples[s]
        BY <1>1, <1>3, <3>1 DEF Places
      <4>2. \A s \in 1 .. n + 1 : s = n + 1 \/ s \in 1 .. n
        OBVIOUS
      <4> QED BY <1>2, <3>3, <4>1, <4>2
    <3>6. Places(f)'
      BY <1>1, <1>2, <1>3, <3>1, <3>2, <3>3, <3>4, <3>5 DEF Places
    <3>7. Ordered'
      BY <1>1, <1>4, <3>1, <3>2 DEF Ordered
    <3> QED BY <3>6, <3>7
  <2> QED BY <1>1, <2>1, <2>2, <2>3
<1>6. HoldsSmallest'
  BY <1>1, <1>2, <1>5 DEF HoldsSmallest, Measuring
<1>7. GoesOn'
  <2>1. \A m \in 1 .. n : ~Suffices(m)
    BY <1>1 DEF GoesOn
  <2>2. \A m \in 1 .. n : Suffices(m)' <=> Suffices(m)
    BY <1>1, SufficesStays
  <2>3. \A m \in 1 .. n + 1 : m # n + 1 => ~Suffices(m)'
    <3>1. \A m \in 1 .. n + 1 : m = n + 1 \/ m \in 1 .. n
      OBVIOUS
    <3> QED BY <2>1, <2>2, <3>1
  <2> QED BY <1>1, <1>2, <2>3 DEF GoesOn
<1> QED BY <1>5, <1>6, <1>7

\* An exchange moves the new sample one place towards its own.
LEMMA SampleMoves ==
  ASSUME TypeOK, HoldsSmallest, Ordered, GoesOn, Exchange
  PROVE  HoldsSmallest' /\ Ordered' /\ GoesOn'
<1>1. /\ Measuring /\ Measuring' /\ samplecount = Len(samples)
      /\ samplecount' = samplecount /\ samples' = samples /\ params' = params
      /\ pc = "sort" /\ pc' = "sort" /\ kbest' = kbest /\ held' = held
      /\ samples \in Seq(Int)
  BY DEF Exchange, HoldsSmallest, Measuring, setting, kbest, held, TypeOK
<1>2. /\ pos \in Int /\ pos > 1 /\ pos <= held /\ held \in Nat /\ held <= kbest
      /\ kbest \in Nat
      /\ pos' = pos - 1 /\ values \in [1 .. kbest -> Int]
      /\ values[pos - 1] > values[pos]
      /\ values' = [values EXCEPT ![pos - 1] = values[pos], ![pos] = values[pos - 1]]
  BY <1>1, Parameter DEF Exchange, TypeOK
<1>3. PICK p : p = pos
  OBVIOUS
<1>4. PICK m : m = held
  OBVIOUS
<1>5. PICK t : t = [q \in 1 .. m |-> IF q = p THEN p - 1 ELSE IF q = p - 1 THEN p ELSE q]
  OBVIOUS
<1>6. /\ p \in 1 .. m /\ p - 1 \in 1 .. m /\ m \in Nat /\ p # p - 1 /\ p \in Int
      /\ \A q \in 1 .. m : q \in 1 .. kbest
  BY <1>2, <1>3, <1>4
<1>7. \A q \in 1 .. m : /\ t[q] \in 1 .. m /\ t[t[q]] = q
                        /\ values'[q] = values[t[q]]
  <2> TAKE q \in 1 .. m
  <2>1. t[q] = IF q = p THEN p - 1 ELSE IF q = p - 1 THEN p ELSE q
    BY <1>5
  <2>2. t[p] = p - 1 /\ t[p - 1] = p
    BY <1>5, <1>6
  <2>3. t[q] \in 1 .. m /\ t[t[q]] = q
    BY <1>6, <2>1, <2>2
  <2>4. values'[q] = values[t[q]]
    BY <1>2, <1>3, <1>6, <2>1
  <2> QED BY <2>3, <2>4
<1>8. PICK f : Places(f)
  BY <1>1 DEF HoldsSmallest
<1>9. PICK n : n = Len(samples)
  OBVIOUS
<1>10. /\ f \in [1 .. m -> 1 .. n]
       /\ \A q, r \in 1 .. m : f[q] = f[r] => q = r
       /\ \A q \in 1 .. m : values[q] = samples[f[q]]
       /\ \A s \in 1 .. n :
            \/ \E q \in 1 .. m : f[q] = s
            \/ m = kbest /\ \A q \in 1 .. m : values[q] <= samples[s]
  BY <1>4, <1>8, <1>9 DEF Places
<1>11. PICK g : g = [q \in 1 .. m |-> f[t[q]]]
  OBVIOUS
<1>12. Places(g)'
  <2>1. g \in [1 .. m -> 1 .. n]
    BY <1>7, <1>10, <1>11
  <2>2. \A q \in 1 .. m : g[q] = f[t[q]]
    BY <1>11
  <2>3. \A q, r \in 1 .. m : g[q] = g[r] => q = r
    <3> SUFFICES ASSUME NEW q \in 1 .. m, NEW r \in 1 .. m, g[q] = g[r]
                 PROVE  q = r
      OBVIOUS
    <3>1. t[q] = t[r]
      BY <1>7, <1>10, <2>2
    <3> QED BY <1>7, <3>1
  <2>4. \A q \in 1 .. m : values'[q] = samples'[g[q]]
    BY <1>1, <1>7, <1>10, <2>2
  <2>5. \A s \in 1 .. n :
          \/ \E q \in 1 .. m : g[q] = s
          \/ m = kbest /\ \A q \in 1 .. m : values'[q] <= samples'[s]
    <3> TAKE s \in 1 .. n
    <3>1. CASE \E q \in 1 .. m : f[q] = s
      <4>1. PICK q \in 1 .. m : f[q] = s
        BY <3>1
      <4> QED BY <1>7, <2>2, <4>1
    <3>2. CASE m = kbest /\ \A q \in 1 .. m : values[q] <= samples[s]
      BY <1>1, <1>7, <3>2
    <3> QED BY <1>10, <3>1, <3>2
  <2> QED BY <1>1, <1>4, <1>9, <2>1, <2>3, <2>4, <2>5 DEF Places
<1>13. HoldsSmallest'
  BY <1>1, <1>12 DEF HoldsSmallest, Measuring
<1>14. Ordered'
  <2>1. \A q, r \in 1 .. m : q < r /\ r # p => values[q] <= values[r]
    BY <1>1, <1>3, <1>4 DEF Ordered
  <2>2. \A q \in 1 .. m : /\ q \in Int /\ values[q] \in Int
                          /\ values'[q] = IF q = p THEN values[p - 1]
                                          ELSE IF q = p - 1 THEN values[p] ELSE values[q]
    BY <1>2, <1>3, <1>6, SMTT(30)
  <2>3. values[p - 1] > values[p]
    BY <1>2, <1>3
  <2>4. ASSUME NEW q \in 1 .. m, NEW r \in 1 .. m, q < r, r # p - 1
        PROVE  values'[q] <= values'[r]
    <3>1. CASE r = p
      <4>1. q = p - 1 \/ q < p - 1
        BY <1>6, <2>2, <2>4, <3>1
      <4>2. q < p - 1 => values[q] <= values[p - 1]
        BY <1>6, <2>1
      <4>3. q # p /\ values'[r] = values[p - 1]
        BY <2>2, <2>4, <3>1
      <4> QED BY <1>6, <2>2, <2>3, <4>1, <4>2, <4>3
    <3>2. CASE r # p
      <4>1. values'[r] = values[r]
        BY <2>2, <2>4, <3>2
      <4>2. CASE q = p \/ q = p - 1
        <5>1. r > p
          BY <1>6, <2>2, <2>4, <3>2, <4>2
        <5>2. values[p] <= values[r] /\ values[p - 1] <= values[r]
          BY <1>6, <2>1, <2>2, <3>2, <5>1
        <5> QED BY <2>2, <4>1, <4>2, <5>2
      <4>3. CASE q # p /\ q # p - 1
        BY <2>1, <2>2, <2>4, <3>2, <4>1, <4>3
      <4> QED BY <4>2, <4>3
    <3> QED BY <3>1, <3>2
  <2> QED BY <1>1, <1>2, <1>3, <1>4, <2>4 DEF Ordered
<1>15. GoesOn'
  <2>1. \A l \in 1 .. Len(samples) : Suffices(l)' <=> Suffices(l)
    BY <1>1, 0 \in Int, SufficesStays
  <2> QED BY <1>1, <2>1 DEF GoesOn
<1> QED BY <1>13, <1>14, <1>15

\* When the insertion ends the values are in order, and fcyc knows whether the
\* samples suffice.
LEMMA SortedIsOrdered ==
  ASSUME TypeOK, HoldsSmallest, Ordered, GoesOn, Sorted
  PROVE  /\ Measuring /\ samplecount = Len(samples)
         /\ \A q, r \in 1 .. held : q < r => values[q] <= values[r]
         /\ \A m \in 1 .. Len(samples) : m # Len(samples) => ~Suffices(m)
         /\ Suffices(Len(samples))
              <=> has_converged \/ samplecount >= params.maxsamples
<1>1. Measuring /\ samplecount = Len(samples) /\ pc = "sort"
  BY DEF Sorted, Measuring, HoldsSmallest
<1>2. pos \in 1 .. held /\ held \in Nat /\ held <= kbest /\ kbest \in Nat
      /\ values \in [1 .. kbest -> Int]
  BY <1>1, Parameter DEF TypeOK
<1>3. ASSUME NEW q \in 1 .. held, NEW r \in 1 .. held, q < r
      PROVE  values[q] <= values[r]
  <2>1. CASE r # pos
    BY <1>1, <1>3, <2>1 DEF Ordered
  <2>2. CASE r = pos
    <3>1. pos > 1 /\ values[pos - 1] <= values[pos]
      BY <1>2, <1>3, <2>2 DEF Sorted
    <3>2. q = pos - 1 \/ q < pos - 1
      BY <1>2, <1>3, <2>2
    <3>3. pos - 1 \in 1 .. held /\ pos - 1 # pos
      BY <1>2, <3>1
    <3>4. q < pos - 1 => values[q] <= values[pos - 1]
      BY <1>1, <3>3 DEF Ordered
    <3>5. values[q] \in Int /\ values[pos - 1] \in Int /\ values[pos] \in Int
      BY <1>2, <3>3
    <3> QED BY <2>2, <3>1, <3>2, <3>4, <3>5
  <2> QED BY <2>1, <2>2
<1>4. \A m \in 1 .. Len(samples) : m # Len(samples) => ~Suffices(m)
  BY <1>1 DEF GoesOn
<1>5. PICK f : Places(f)
  BY <1>1 DEF HoldsSmallest
<1> QED BY <1>1, <1>3, <1>4, <1>5, ConvergedIsEnough

\* The sampler's part of the invariant is kept by every step.
LEMMA SamplerStep ==
  ASSUME IInv, Next
  PROVE  HoldsSmallest' /\ Ordered' /\ GoesOn' /\ ResultBest'
<1> USE DEF IInv
<1>1. CASE init_fsecs \/ set_fcyc \/ set_fcyc_cache_size
  BY <1>1 DEF init_fsecs, set_fcyc, set_fcyc_cache_size, sampler, Measuring,
              HoldsSmallest, Ordered, GoesOn, ResultBest
<1>2. CASE Start
  <2>1. samplecount' = 0 /\ samples' = <<>> /\ held' = 0 /\ Len(samples') = 0
    <3>1. samplecount' = 0 /\ samples' = samples /\ samples = <<>> /\ kbest' = kbest
      BY <1>2 DEF Start, HoldsSmallest, setting, kbest
    <3>2. kbest \in Nat \ {0}
      BY Parameter
    <3> QED BY <3>1, <3>2 DEF held
  <2>2. Places(<<>>)'
    BY <2>1 DEF Places
  <2> QED BY <1>2, <2>1, <2>2 DEF Start, Measuring, HoldsSmallest, Ordered, GoesOn, ResultBest
<1>3. CASE clear \/ NeedsCallibration \/ SawTick \/ StartCounter \/ RunFunction
             \/ GetCounter \/ Compensate
  <2>1. UNCHANGED <<params, sampler>> /\ Measuring /\ Measuring' /\ pc # "sort" /\ pc' # "sort"
    BY <1>3 DEF clear, NeedsCallibration, SawTick, StartCounter, RunFunction,
                GetCounter, Compensate, setting, Measuring
  <2> QED BY <2>1, SamplesStay
<1>4. CASE add_sample
  <2>1. pc' = "sort"
    BY <1>4 DEF add_sample
  <2> QED BY <1>4, <2>1, SampleAdded DEF ResultBest
<1>5. CASE Exchange
  <2>1. pc' = "sort"
    BY <1>5 DEF Exchange
  <2> QED BY <1>5, <2>1, SampleMoves DEF ResultBest
<1>6. CASE Again
  <2>1. /\ pc' = "clear" /\ params' = params /\ samples' = samples /\ values' = values
        /\ samplecount' = samplecount /\ held' = held /\ kbest' = kbest
        /\ Sorted /\ ~has_converged /\ ~(samplecount >= params.maxsamples)
    BY <1>6, Parameter DEF Again, setting, held, kbest, TypeOK
  <2>2. /\ Measuring /\ samplecount = Len(samples)
        /\ \A q, r \in 1 .. held : q < r => values[q] <= values[r]
        /\ \A m \in 1 .. Len(samples) : ~Suffices(m)
    BY <2>1, SortedIsOrdered
  <2>3. PICK f : Places(f)
    BY <2>2 DEF HoldsSmallest
  <2>4. Places(f)'
    BY <2>1, <2>3 DEF Places
  <2>5. \A m \in 1 .. Len(samples) : Suffices(m)' <=> Suffices(m)
    BY <2>1, 0 \in Int, SufficesStays DEF TypeOK
  <2> QED
    BY <2>1, <2>2, <2>4, <2>5 DEF HoldsSmallest, Ordered, GoesOn, ResultBest, Measuring
<1>7. CASE Return
  <2>1. /\ pc' = "done" /\ params' = params /\ samples' = samples
        /\ result' = values[1] /\ Sorted
        /\ has_converged \/ samplecount >= params.maxsamples
    BY <1>7 DEF Return, setting
  <2>2. /\ Measuring /\ samplecount = Len(samples)
        /\ \A q, r \in 1 .. held : q < r => values[q] <= values[r]
        /\ \A m \in 1 .. Len(samples) : m # Len(samples) => ~Suffices(m)
        /\ Suffices(Len(samples))
    BY <2>1, SortedIsOrdered
  <2>3. PICK f : Places(f)
    BY <2>2 DEF HoldsSmallest
  <2>4. 1 \in 1 .. held
    BY <2>1, Parameter DEF Sorted, TypeOK
  <2>5. IsSmallest(values[1], 1, Len(samples))
    BY <2>2, <2>3, <2>4, PlaceIsRank
  <2>6. IsSmallest(result, 1, Len(samples))'
    BY <2>1, <2>5 DEF IsSmallest
  <2>7. \A m \in 1 .. Len(samples) : Suffices(m)' <=> Suffices(m)
    BY <2>1, 0 \in Int, SufficesStays DEF TypeOK
  <2>8. ResultBest'
    BY <2>1, <2>2, <2>6, <2>7 DEF ResultBest
  <2> QED BY <2>1, <2>8 DEF HoldsSmallest, Ordered, GoesOn, Measuring
<1>8. CASE Done
  BY <1>8 DEF Done, Measuring, HoldsSmallest, Ordered, GoesOn, ResultBest
<1> QED
  BY <1>1, <1>2, <1>3, <1>4, <1>5, <1>6, <1>7, <1>8 DEF Next, Measure

\* What changes no variable keeps the invariant.
LEMMA StutterIInv ==
  ASSUME IInv, UNCHANGED vars
  PROVE  IInv'
<1> USE DEF vars, setting, clock, sampler, IInv
<1>1. held' = held /\ kbest' = kbest
  BY DEF held, kbest
<1>2. TypeOK'
  BY <1>1 DEF TypeOK, Measuring
<1>3. Clocked'
  BY DEF Clocked, ElapsedExact
<1>4. \A f : Places(f)' <=> Places(f)
  BY <1>1 DEF Places
<1>5. \A m \in 1 .. Len(samples) : Suffices(m)' <=> Suffices(m)
  BY 0 \in Int, SufficesStays DEF TypeOK
<1>6. HoldsSmallest' /\ Ordered' /\ GoesOn'
  BY <1>1, <1>4, <1>5 DEF HoldsSmallest, Ordered, GoesOn, Measuring
<1>7. ResultBest'
  BY <1>5 DEF ResultBest, IsSmallest
<1> QED BY <1>2, <1>3, <1>6, <1>7
-----------------------------------------------------------------------------
(* Theorems *)

\* The inductive invariant: what the array of add_sample holds, in which
\* order, and that fcyc has not stopped too late.
THEOREM Invariance == Spec => []IInv
<1>1. IInv /\ [Next]_vars => IInv'
  <2> SUFFICES ASSUME IInv, [Next]_vars
               PROVE  IInv'
    OBVIOUS
  <2>1. CASE Next
    BY <2>1, TypeStep, ClockStep, SamplerStep DEF IInv
  <2>2. CASE UNCHANGED vars
    BY <2>2, StutterIInv
  <2> QED BY <2>1, <2>2
<1> QED
  BY <1>1, InitIInv, PTL DEF Spec

\* Every variable of the timing package keeps its type; the index of the
\* insertion stays within the samples.
THEOREM TypeCorrect == Spec => []TypeOK
<1>1. IInv => TypeOK
  BY DEF IInv
<1> QED
  BY <1>1, Invariance, PTL

\* The counter measures exactly, for every width of its words, wherever it
\* stands, and however often it begins again.
THEOREM CounterExact == Spec => []ElapsedExact
<1>1. IInv => ElapsedExact
  BY DEF IInv, Clocked
<1> QED
  BY <1>1, Invariance, PTL

\* fcyc returns the smallest of all samples, and stops as soon as the K
\* smallest are close, for all K, all limits and all samples.
THEOREM ResultIsBest == Spec => []ResultBest
<1>1. IInv => ResultBest
  BY DEF IInv
<1> QED
  BY <1>1, Invariance, PTL

\* While fcyc measures, the values it keeps are the smallest of the samples.
THEOREM SmallestAreHeld == Spec => []HoldsSmallest
<1>1. IInv => HoldsSmallest
  BY DEF IInv
<1> QED
  BY <1>1, Invariance, PTL
=============================================================================
