---------------------------- MODULE ShellProofs ----------------------------
(***************************************************************************)
(* Proofs about the shell, for any number of children and jobs and for all *)
(* lines: lines and paths are taken apart as they should be, the list of   *)
(* jobs is right at every step, and at the end no child is left.           *)
(***************************************************************************)
EXTENDS Shell, Reader, SequenceTheorems, FiniteSetTheorems, WellFoundedInduction, TLAPS

\* At the end of input check_jobs stays at the head of the list.
AtHead == pc = "check" /\ options # WNOHANG => j = 1

IInv == TypeOK /\ JobsAreChildren /\ LeavesNoChild /\ AtHead

-----------------------------------------------------------------------------
(* Lists *)

Removed(s, k) == SubSeq(s, 1, k - 1) \o SubSeq(s, k + 1, Len(s))

\* A list without its k-th element has the others, each once.
LEMMA Without ==
  ASSUME NEW T, NEW s \in Seq(T), NEW k \in 1 .. Len(s)
  PROVE  /\ Removed(s, k) \in Seq(T) /\ Len(Removed(s, k)) = Len(s) - 1
         /\ \A i \in 1 .. Len(s) - 1 :
              Removed(s, k)[i] = IF i < k THEN s[i] ELSE s[i + 1]
<1> DEFINE u == SubSeq(s, 1, k - 1)
           v == SubSeq(s, k + 1, Len(s))
           w == Removed(s, k)
<1>1. Len(s) \in Nat /\ k \in Nat
  OBVIOUS
<1>2. u \in Seq(T) /\ Len(u) = k - 1 /\ \A i \in 1 .. k - 1 : u[i] = s[i]
  BY <1>1
<1>3. /\ v \in Seq(T) /\ Len(v) = Len(s) - k
      /\ \A i \in 1 .. Len(s) - k : v[i] = s[k + i]
  BY <1>1
<1> HIDE DEF u, v, w
<1>4. /\ w \in Seq(T) /\ Len(w) = Len(u) + Len(v)
      /\ \A i \in 1 .. Len(w) : w[i] = IF i <= Len(u) THEN u[i] ELSE v[i - Len(u)]
  <2>1. w = u \o v
    BY DEF u, v, w, Removed
  <2>2. /\ Len(u \o v) = Len(u) + Len(v)
        /\ \A i \in 1 .. Len(u) + Len(v) :
             (u \o v)[i] = IF i <= Len(u) THEN u[i] ELSE v[i - Len(u)]
    BY <1>2, <1>3, ConcatProperties
  <2>3. u \o v \in Seq(T)
    BY <1>2, <1>3
  <2> QED BY <2>1, <2>2, <2>3
<1>5. Len(w) = Len(s) - 1
  BY <1>1, <1>2, <1>3, <1>4
<1>6. ASSUME NEW i \in 1 .. Len(s) - 1 PROVE w[i] = IF i < k THEN s[i] ELSE s[i + 1]
  <2>1. CASE i < k
    BY <2>1, <1>1, <1>2, <1>4, <1>5
  <2>2. CASE ~(i < k)
    <3>1. w[i] = v[i - (k - 1)]
      BY <2>2, <1>1, <1>2, <1>4, <1>5
    <3>2. i - (k - 1) \in 1 .. Len(s) - k /\ k + (i - (k - 1)) = i + 1
      BY <2>2, <1>1, <1>5
    <3> QED BY <2>2, <3>1, <3>2, <1>3
  <2> QED BY <2>1, <2>2
<1> QED
  BY <1>4, <1>5, <1>6 DEF w

\* A list with a new head.
LEMMA Pushed ==
  ASSUME NEW T, NEW s \in Seq(T), NEW h \in T, NEW w, w = <<h>> \o s
  PROVE  /\ w \in Seq(T) /\ Len(w) = Len(s) + 1 /\ w[1] = h
         /\ \A i \in 1 .. Len(s) : w[i + 1] = s[i]
  OBVIOUS
-----------------------------------------------------------------------------
(* Splitting *)

\* A set of natural numbers that is not empty has a least element.
LEMMA Least ==
  ASSUME NEW T, T \subseteq Nat, T # {}
  PROVE  \E x \in T : \A y \in T : x <= y
<1>1. PICK n \in T : n \in Nat
  OBVIOUS
<1> DEFINE S == 0 .. n
           U == {0 .. m : m \in {l \in T : l <= n}}
<1>2. IsFiniteSet(S)
  BY <1>1, FS_Interval
<1>3. U \subseteq FiniteSubsetsOf(S) /\ U # {}
  <2>1. \A m \in 0 .. n : 0 .. m \subseteq S
    BY <1>1
  <2>2. U \subseteq SUBSET S
    BY <2>1
  <2> QED BY <1>1, <1>2, <2>2, FS_Subset DEF FiniteSubsetsOf
<1>4. IsWellFoundedOn(StrictSubsetOrdering(S), FiniteSubsetsOf(S))
  BY FS_StrictSubsetOrderingWellFounded
<1> HIDE DEF U
<1>5. PICK X \in U : \A Y \in U : <<Y, X>> \notin StrictSubsetOrdering(S)
  BY <1>3, <1>4, WFMin
<1>6. PICK m \in T : m <= n /\ X = 0 .. m
  BY <1>5 DEF U
<1>7. ASSUME NEW y \in T, y < m
      PROVE  FALSE
  <2>1. y \in Nat /\ m \in Nat /\ y <= n
    BY <1>1, <1>6, <1>7
  <2>2. 0 .. y \in U
    BY <2>1 DEF U
  <2>3. /\ 0 .. y \subseteq 0 .. m
        /\ m \in 0 .. m /\ m \notin 0 .. y
        /\ 0 .. y \in SUBSET S /\ 0 .. m \in SUBSET S
    BY <1>1, <1>6, <1>7, <2>1
  <2> QED BY <1>5, <1>6, <2>2, <2>3 DEF StrictSubsetOrdering
<1> QED BY <1>6, <1>7

\* How many of S there are up to x.
UpTo(S, x) == Cardinality({y \in S : y <= x})

\* In a finite set of numbers each has a rank of its own, and all ranks occur.
LEMMA Ranks ==
  ASSUME NEW m \in Nat, NEW S \in SUBSET (1 .. m)
  PROVE  /\ IsFiniteSet(S) /\ Cardinality(S) \in Nat
         /\ \A x \in S : UpTo(S, x) \in 1 .. Cardinality(S)
         /\ \A x, y \in S : x < y => UpTo(S, x) < UpTo(S, y)
         /\ \A n \in 1 .. Cardinality(S) : \E x \in S : UpTo(S, x) = n
<1> DEFINE below(x) == {y \in S : y <= x}
           c == Cardinality(S)
           rank == [x \in S |-> UpTo(S, x)]
<1>0. \A x \in S : x \in Int
  OBVIOUS
<1>1. IsFiniteSet(S) /\ c \in Nat
  <2>1. IsFiniteSet(1 .. m)
    BY FS_Interval
  <2> QED BY <2>1, FS_Subset, FS_CardinalityType
<1>2. \A x \in S : /\ below(x) \in SUBSET S /\ IsFiniteSet(below(x))
                   /\ UpTo(S, x) = Cardinality(below(x))
                   /\ UpTo(S, x) \in Nat /\ UpTo(S, x) <= c
  BY <1>1, FS_Subset, FS_CardinalityType DEF UpTo
<1>3. ASSUME NEW x \in S PROVE UpTo(S, x) \in 1 .. c
  <2>1. x \in below(x)
    OBVIOUS
  <2>2. Cardinality(below(x)) # 0
    BY <1>2, <2>1, FS_EmptySet
  <2> HIDE DEF c, below
  <2> QED BY <1>1, <1>2, <2>2
<1>4. ASSUME NEW x \in S, NEW y \in S, x < y PROVE UpTo(S, x) < UpTo(S, y)
  <2>1. below(x) \in SUBSET below(y) /\ y \in below(y) /\ y \notin below(x)
    <3>1. x \in Int /\ y \in Int /\ \A z \in S : z \in Int
      BY <1>0
    <3>2. \A z \in S : z <= x => z <= y
      BY <1>4, <3>1
    <3>3. y <= y /\ ~(y <= x)
      BY <1>4, <3>1
    <3> QED BY <3>2, <3>3
  <2> HIDE DEF c, below
  <2>2. /\ Cardinality(below(x)) <= Cardinality(below(y))
        /\ Cardinality(below(y)) # Cardinality(below(x))
    BY <1>2, <2>1, FS_Subset
  <2> QED BY <1>2, <2>2
<1>5. rank \in Injection(S, 1 .. c)
  <2>1. rank \in [S -> 1 .. c]
    BY <1>3
  <2>2. ASSUME NEW x \in S, NEW y \in S, rank[x] = rank[y] PROVE x = y
    <3>1. UpTo(S, x) = UpTo(S, y) /\ x \in Int /\ y \in Int
      BY <1>0, <2>2
    <3> HIDE DEF rank, c, below
    <3>2. UpTo(S, x) \in Int /\ UpTo(S, y) \in Int
      BY <1>2
    <3> QED BY <1>4, <3>1, <3>2
  <2> HIDE DEF rank, c
  <2> QED BY <2>1, <2>2 DEF Injection, IsInjective
<1>6. rank \in Surjection(S, 1 .. c)
  <2>1. IsFiniteSet(1 .. c) /\ Cardinality(1 .. c) = c
    BY <1>1, FS_Interval
  <2> HIDE DEF rank
  <2> QED BY <1>5, <2>1, FS_Injection
<1>7. ASSUME NEW n \in 1 .. c PROVE \E x \in S : UpTo(S, x) = n
  BY <1>6 DEF Surjection
<1> QED BY <1>1, <1>3, <1>4, <1>7

\* The places of chars in s.
Marked(s, chars) == {k \in DOMAIN s : s[k] \in chars}

\* p has the elements of S, all of them, in ascending order.
Enumerates(p, S) ==
  /\ p \in [1 .. Cardinality(S) -> S]
  /\ \A k, l \in 1 .. Cardinality(S) : k < l => p[k] < p[l]
  /\ \A x \in S : \E k \in 1 .. Cardinality(S) : p[k] = x

\* PlacesOf has the places that it should.
LEMMA PlacesFacts ==
  ASSUME NEW T, NEW s \in Seq(T), NEW chars
  PROVE  /\ Cardinality(Marked(s, chars)) \in Nat
         /\ Enumerates(PlacesOf(s, chars), Marked(s, chars))
<1> DEFINE S == Marked(s, chars)
           c == Cardinality(S)
           p == PlacesOf(s, chars)
<1>1. PICK m \in Nat : m = Len(s)
  OBVIOUS
<1>2. S \in SUBSET (1 .. m)
  BY <1>1 DEF Marked
<1>3. p = [k \in 1 .. c |-> CHOOSE x \in S : UpTo(S, x) = k]
  BY DEF PlacesOf, Marked, UpTo
<1>8. \A x \in S : x \in Int
  BY <1>2
<1> HIDE DEF S, c, p
<1>4. /\ IsFiniteSet(S) /\ c \in Nat
      /\ \A x \in S : UpTo(S, x) \in 1 .. c
      /\ \A x, y \in S : x < y => UpTo(S, x) < UpTo(S, y)
      /\ \A k \in 1 .. c : \E x \in S : UpTo(S, x) = k
  BY <1>2, Ranks DEF c
<1>5. \A k \in 1 .. c : p[k] \in S /\ UpTo(S, p[k]) = k
  BY <1>3, <1>4
<1>6. p \in [1 .. c -> S]
  BY <1>3, <1>5
<1>7. ASSUME NEW k \in 1 .. c, NEW l \in 1 .. c, k < l PROVE p[k] < p[l]
  <2>1. p[k] \in Int /\ p[l] \in Int
    BY <1>5, <1>8
  <2> QED BY <1>4, <1>5, <1>7, <2>1
<1>9. ASSUME NEW x \in S PROVE \E k \in 1 .. c : p[k] = x
  <2>1. UpTo(S, x) \in 1 .. c
    BY <1>4
  <2>2. p[UpTo(S, x)] \in S /\ UpTo(S, p[UpTo(S, x)]) = UpTo(S, x)
    BY <1>5, <2>1
  <2>3. p[UpTo(S, x)] = x
    <3> DEFINE y == p[UpTo(S, x)]
    <3>1. x \in Int /\ y \in Int
      BY <1>8, <2>2
    <3>2. UpTo(S, x) \in Int /\ UpTo(S, y) = UpTo(S, x) /\ y \in S
      BY <1>4, <2>1, <2>2
    <3> HIDE DEF y
    <3>3. ~(x < y) /\ ~(y < x)
      BY <1>4, <3>1, <3>2
    <3> QED BY <3>1, <3>3 DEF y
  <2> QED BY <2>1, <2>3
<1> QED BY <1>4, <1>6, <1>7, <1>9 DEF Enumerates, S, c, p

\* A sequence is what is before one of its places, what is there, and what is
\* between it and a later place.
LEMMA Joined ==
  ASSUME NEW T, NEW s \in Seq(T), NEW x \in 1 .. Len(s),
         NEW y \in x + 1 .. Len(s) + 1
  PROVE  SubSeq(s, 1, x - 1) \o <<s[x]>> \o SubSeq(s, x + 1, y - 1)
           = SubSeq(s, 1, y - 1)
<1>1. PICK m \in Nat : m = Len(s)
  OBVIOUS
<1>2. SubSeq(s, 1, x) = SubSeq(s, 1, x - 1) \o <<s[x]>>
  <2>1. 1 \in 1 .. Len(s) /\ x \in 1 .. Len(s)
    BY <1>1
  <2> QED BY <2>1, SubSeqRecursiveSecond
<1>3. SubSeq(s, 1, x) \o SubSeq(s, x + 1, y - 1) = SubSeq(s, 1, y - 1)
  <2>1. 1 \in 1 .. Len(s) + 1 /\ x \in 1 - 1 .. Len(s) /\ y - 1 \in x .. Len(s)
    BY <1>1
  <2> QED BY <2>1, ConcatAdjacentSubSeq
<1> QED BY <1>2, <1>3

\* h[k] are the first k words, joined.
Grows(words, sep, h) ==
  /\ h[1] = words[1]
  /\ \A k \in 2 .. Len(words) : h[k] = h[k - 1] \o <<sep>> \o words[k]

\* Join is what its recursion says.
LEMMA JoinIs ==
  ASSUME NEW w, NEW sep, NEW h, Len(w) \in Nat \ {0}, Grows(w, sep, h)
  PROVE  Join(w, sep) = h[Len(w)]
<1> DEFINE m == Len(w)
<1>0. /\ m \in Nat \ {0} /\ m = Len(w) /\ h[1] = w[1]
      /\ \A k \in 2 .. m : h[k] = h[k - 1] \o <<sep>> \o w[k]
  BY DEF Grows
<1> HIDE DEF m
<1> DEFINE f == [k \in 0 .. m |-> IF k = 0 THEN <<>> ELSE h[k]]
<1>1. f = [k \in 0 .. m |-> IF k = 0 THEN <<>>
                            ELSE IF k = 1 THEN w[1]
                            ELSE f[k - 1] \o <<sep>> \o w[k]]
  <2>1. ASSUME NEW k \in 0 .. m, k # 0, k # 1
        PROVE  f[k] = f[k - 1] \o <<sep>> \o w[k]
    <3>1. k \in 2 .. m /\ k - 1 \in 0 .. m /\ k - 1 # 0
      BY <1>0, <2>1
    <3>2. f[k] = h[k] /\ f[k - 1] = h[k - 1]
      BY <2>1, <3>1
    <3> QED BY <1>0, <3>1, <3>2
  <2>2. f[0] = <<>> /\ f[1] = w[1]
    BY <1>0
  <2>3. f = [k \in 0 .. m |-> f[k]]
    OBVIOUS
  <2> HIDE DEF f
  <2> QED BY <2>1, <2>2, <2>3
<1> HIDE DEF f
<1>2. PICK g : /\ g = [k \in 0 .. m |-> IF k = 0 THEN <<>>
                                ELSE IF k = 1 THEN w[1]
                                ELSE g[k - 1] \o <<sep>> \o w[k]]
               /\ Join(w, sep) = g[m]
  BY <1>0, <1>1 DEF Join
<1> DEFINE D == {k \in 0 .. m : g[k] # f[k]}
<1>3. D = {}
  <2> SUFFICES ASSUME D # {} PROVE FALSE
    OBVIOUS
  <2>1. D \subseteq Nat
    BY <1>0
  <2>2. PICK l \in D : \A k \in D : l <= k
    BY <2>1, Least
  <2>3. l \in 0 .. m /\ g[l] # f[l] /\ \A k \in 0 .. m : k < l => g[k] = f[k]
    BY <2>2
  <2>4. /\ g[l] = IF l = 0 THEN <<>> ELSE IF l = 1 THEN w[1]
                  ELSE g[l - 1] \o <<sep>> \o w[l]
        /\ f[l] = IF l = 0 THEN <<>> ELSE IF l = 1 THEN w[1]
                  ELSE f[l - 1] \o <<sep>> \o w[l]
    BY <1>1, <1>2, <2>3
  <2>5. l # 0 /\ l # 1 => l - 1 \in 0 .. m /\ l - 1 < l
    BY <1>0, <2>3
  <2> HIDE DEF D
  <2> QED BY <2>3, <2>4, <2>5
<1>4. g[m] = f[m]
  <2>1. m \in 0 .. m
    BY <1>0
  <2> QED BY <1>3, <2>1
<1>5. f[m] = h[m]
  BY <1>0 DEF f
<1> QED BY <1>0, <1>2, <1>4, <1>5

\* cuts are m places in ascending order: all those of sep before e, and e.
Cuts(s, sep, cuts, m, e) ==
  /\ m \in Nat \ {0} /\ e \in 1 .. Len(s) + 1
  /\ cuts \in [1 .. m -> 1 .. e] /\ cuts[m] = e
  /\ \A k, l \in 1 .. m : k < l => cuts[k] < cuts[l]
  /\ \A x \in 1 .. e - 1 : s[x] = sep <=> \E k \in 1 .. m : cuts[k] = x

\* The parts of s between cuts up to e, which are all its separators up to
\* there and e itself: they have no separator in them, and joined they are s
\* up to e.
LEMMA Split ==
  ASSUME NEW T, NEW s \in Seq(T), NEW sep, NEW m, NEW e, NEW cuts,
         Cuts(s, sep, cuts, m, e)
  PROVE  /\ Len(Between(s, cuts)) = m /\ DOMAIN Between(s, cuts) = 1 .. m
         /\ \A k \in 1 .. m : ~Contains(Between(s, cuts)[k], sep)
         /\ Join(Between(s, cuts), sep) = SubSeq(s, 1, e - 1)
<1>0. /\ m \in Nat \ {0} /\ e \in 1 .. Len(s) + 1
      /\ cuts \in [1 .. m -> 1 .. e] /\ cuts[m] = e
      /\ \A k, l \in 1 .. m : k < l => cuts[k] < cuts[l]
      /\ \A x \in 1 .. e - 1 : s[x] = sep <=> \E k \in 1 .. m : cuts[k] = x
  BY DEF Cuts
<1> USE <1>0
<1> DEFINE w == Between(s, cuts)
           after(k) == IF k = 1 THEN 1 ELSE cuts[k - 1] + 1
           h == [k \in 0 .. m |-> IF k = 0 THEN <<>> ELSE SubSeq(s, 1, cuts[k] - 1)]
<1>1. PICK n \in Nat : n = Len(s) /\ DOMAIN s = 1 .. n
  OBVIOUS
<1>2. DOMAIN cuts = 1 .. m
  OBVIOUS
<1>3. w = [k \in 1 .. m |-> SubSeq(s, after(k), cuts[k] - 1)]
  BY <1>2 DEF Between
<1> HIDE DEF w, h
<1>4. e \in 1 .. n + 1 /\ \A k \in 1 .. m : cuts[k] \in 1 .. e /\ cuts[k] \in Int
  BY <1>1
<1>5. ASSUME NEW k \in 1 .. m
      PROVE  /\ after(k) \in 1 .. cuts[k]
             /\ SubSeq(s, after(k), cuts[k] - 1) \in Seq(T)
             /\ Len(SubSeq(s, after(k), cuts[k] - 1)) = cuts[k] - after(k)
             /\ \A i \in 1 .. cuts[k] - after(k) :
                  SubSeq(s, after(k), cuts[k] - 1)[i] = s[after(k) + i - 1]
  <2>1. after(k) \in 1 .. cuts[k]
    <3>1. CASE k = 1
      BY <1>4, <3>1
    <3>2. CASE k # 1
      <4>1. k - 1 \in 1 .. m /\ k - 1 < k
        BY <3>2
      <4>2. cuts[k - 1] < cuts[k] /\ cuts[k - 1] \in 1 .. e
        BY <1>4, <4>1
      <4> QED BY <1>4, <3>2, <4>2
    <3> QED BY <3>1, <3>2
  <2> DEFINE a == after(k)
             b == cuts[k] - 1
  <2>2. a \in Int /\ b \in Int /\ a >= 1 /\ b <= n /\ a <= b + 1
        /\ cuts[k] - a = b - a + 1
    BY <1>4, <2>1
  <2> HIDE DEF a, b
  <2>3. \A i \in a .. b : s[i] \in T
    BY <1>1, <2>2
  <2>4. /\ SubSeq(s, a, b) \in Seq(T)
        /\ Len(SubSeq(s, a, b)) = IF a <= b THEN b - a + 1 ELSE 0
        /\ \A i \in 1 .. b - a + 1 : SubSeq(s, a, b)[i] = s[a + i - 1]
    BY <1>1, <2>2, <2>3
  <2>5. Len(SubSeq(s, a, b)) = b - a + 1
    BY <2>2, <2>4
  <2> QED BY <2>1, <2>2, <2>4, <2>5 DEF a, b
<1> HIDE DEF after
<1>6. w \in Seq(Seq(T)) /\ Len(w) = m /\ DOMAIN w = 1 .. m
  <2>1. \A k \in 1 .. m : w[k] \in Seq(T)
    BY <1>3, <1>5
  <2>2. w \in [1 .. m -> Seq(T)]
    BY <1>3, <2>1
  <2> QED BY <2>2
<1>7. ASSUME NEW k \in 1 .. m, Contains(w[k], sep)
      PROVE  FALSE
  <2>1. PICK i \in 1 .. cuts[k] - after(k) : s[after(k) + i - 1] = sep
    <3>1. PICK i \in 1 .. Len(w[k]) : w[k][i] = sep
      BY <1>7 DEF Contains
    <3>2. w[k] = SubSeq(s, after(k), cuts[k] - 1)
      BY <1>3
    <3>3. i \in 1 .. cuts[k] - after(k)
      BY <1>5, <3>2
    <3> DEFINE u == SubSeq(s, after(k), cuts[k] - 1)
    <3>4. u[i] = s[after(k) + i - 1]
      BY <1>5, <3>3
    <3>5. u = w[k]
      BY <3>2
    <3> HIDE DEF u
    <3> QED BY <3>1, <3>3, <3>4, <3>5
  <2> DEFINE x == after(k) + i - 1
  <2>2. x \in Int /\ after(k) <= x /\ x < cuts[k] /\ x \in 1 .. e - 1
    <3>1. after(k) \in Int /\ after(k) >= 1 /\ cuts[k] \in Int /\ cuts[k] <= e /\ e \in Int
      BY <1>4, <1>5
    <3> QED BY <3>1
  <2> HIDE DEF x
  <2>3. PICK q \in 1 .. m : cuts[q] = x
    BY <2>1, <2>2 DEF x
  <2>4. q < k
    <3>1. ~(k < q) /\ q # k
      BY <1>4, <2>2, <2>3
    <3> QED BY <3>1
  <2>5. k # 1 /\ k - 1 \in 1 .. m /\ (q = k - 1 \/ q < k - 1)
    BY <2>4
  <2>6. cuts[q] <= cuts[k - 1]
    BY <1>4, <2>5
  <2>7. after(k) = cuts[k - 1] + 1
    BY <2>5 DEF after
  <2> QED BY <1>4, <2>2, <2>3, <2>5, <2>6, <2>7
<1>8. Join(w, sep) = h[m]
  <2>1. ASSUME NEW k \in 2 .. m
        PROVE  h[k] = h[k - 1] \o <<sep>> \o w[k]
    <3>1. /\ k \in 1 .. m /\ k - 1 \in 1 .. m /\ k - 1 < k /\ k # 1
          /\ k \in 0 .. m /\ k - 1 \in 0 .. m /\ k # 0 /\ k - 1 # 0
      OBVIOUS
    <3> DEFINE x == cuts[k - 1]
               y == cuts[k]
    <3>2. x < y /\ x \in 1 .. e /\ y \in 1 .. e
      BY <1>4, <3>1
    <3>3. x \in 1 .. Len(s) /\ y \in x + 1 .. Len(s) + 1 /\ x \in 1 .. e - 1
      BY <1>1, <1>4, <3>2
    <3>4. s[x] = sep
      BY <3>1, <3>3
    <3>5. w[k] = SubSeq(s, x + 1, y - 1)
      BY <1>3, <3>1 DEF after
    <3>6. h[k] = SubSeq(s, 1, y - 1) /\ h[k - 1] = SubSeq(s, 1, x - 1)
      BY <3>1 DEF h
    <3> HIDE DEF x, y
    <3>7. SubSeq(s, 1, x - 1) \o <<s[x]>> \o SubSeq(s, x + 1, y - 1)
            = SubSeq(s, 1, y - 1)
      BY <3>3, Joined
    <3> QED BY <3>4, <3>5, <3>6, <3>7
  <2>2. h[1] = w[1]
    <3>1. 1 \in 0 .. m /\ 1 \in 1 .. m /\ 1 # 0
      OBVIOUS
    <3> QED BY <1>3, <3>1 DEF h, after
  <2>3. \A k \in 2 .. m : h[k] = h[k - 1] \o <<sep>> \o w[k]
    BY <2>1
  <2>4. Grows(w, sep, h)
    BY <1>6, <2>2, <2>3 DEF Grows
  <2>5. Len(w) \in Nat \ {0}
    BY <1>6
  <2> QED BY <1>6, <2>4, <2>5, JoinIs
<1>9. h[m] = SubSeq(s, 1, e - 1)
  BY DEF h
<1> QED BY <1>6, <1>7, <1>8, <1>9 DEF w
-----------------------------------------------------------------------------
(* Lines and paths *)

\* parse_line saves the words between the spaces, as many as it has counted.
LEMMA ParsedLine ==
  ASSUME NEW T, NEW l \in Seq(T), l # <<>>, is_terminated(l), IsLine(l)
  PROVE  /\ Len(parse_line(l)) = num_words(l)
         /\ \A k \in DOMAIN parse_line(l) : ~Contains(parse_line(l)[k], SPACE)
         /\ Join(parse_line(l), SPACE) = SubSeq(l, 1, Len(l) - 1)
<1> DEFINE S == Marked(l, {SPACE, NEWLINE})
           spaces == {k \in DOMAIN l : l[k] = SPACE}
           cuts == PlacesOf(l, {SPACE, NEWLINE})
<1>1. PICK n \in Nat \ {0} : n = Len(l) /\ DOMAIN l = 1 .. n
  OBVIOUS
<1>2. l[n] = NEWLINE /\ SPACE # NEWLINE /\ \A k \in 1 .. n - 1 : l[k] # NEWLINE
  BY <1>1 DEF is_terminated, IsLine, SPACE, NEWLINE
<1>3. S \subseteq 1 .. n /\ spaces \subseteq 1 .. n - 1 /\ S = spaces \union {n}
  <2>1. \A k \in 1 .. n : k = n \/ k \in 1 .. n - 1
    OBVIOUS
  <2>2. n \notin spaces
    BY <1>2
  <2> QED BY <1>1, <1>2, <2>1, <2>2 DEF Marked
<1>4. PICK m \in Nat : m = Cardinality(S)
  <2> HIDE DEF cuts
  <2> QED BY PlacesFacts
<1>5. m = num_words(l) /\ m # 0
  <2>1. IsFiniteSet(spaces) /\ Cardinality(spaces) \in Nat
    <3>1. IsFiniteSet(1 .. n - 1)
      BY FS_Interval
    <3> HIDE DEF spaces, S
    <3> QED BY <1>3, <3>1, FS_Subset, FS_CardinalityType
  <2>2. n \notin spaces
    BY <1>2
  <2>3. num_words(l) = 1 + Cardinality(spaces)
    BY DEF num_words
  <2> HIDE DEF spaces, S
  <2>4. Cardinality(S) = Cardinality(spaces) + 1
    BY <1>3, <2>1, <2>2, FS_AddElement
  <2> QED BY <1>4, <2>1, <2>3, <2>4
<1>6. /\ cuts \in [1 .. m -> S]
      /\ \A k, q \in 1 .. m : k < q => cuts[k] < cuts[q]
      /\ \A x \in S : \E k \in 1 .. m : cuts[k] = x
  <2>1. Enumerates(cuts, S)
    BY PlacesFacts
  <2> HIDE DEF S, cuts
  <2> QED BY <1>4, <2>1 DEF Enumerates
<1> HIDE DEF cuts
<1>7. cuts[m] = n
  <2> HIDE DEF S, spaces
  <2>1. n \in S /\ m \in 1 .. m
    BY <1>3, <1>5
  <2>2. PICK k \in 1 .. m : cuts[k] = n
    BY <1>6, <2>1
  <2>3. cuts[m] \in 1 .. n
    BY <1>3, <1>6, <2>1
  <2>4. ~(k < m)
    BY <1>6, <2>1, <2>2, <2>3
  <2> QED BY <2>2, <2>4
<1>8. ASSUME NEW x \in 1 .. n - 1
      PROVE  l[x] = SPACE <=> \E k \in 1 .. m : cuts[k] = x
  <2>1. l[x] = SPACE <=> x \in S
    BY <1>1, <1>2 DEF Marked
  <2> HIDE DEF S
  <2> QED BY <1>6, <2>1
<1>9. cuts \in [1 .. m -> 1 .. n] /\ m \in Nat \ {0} /\ n \in 1 .. Len(l) + 1
  <2> HIDE DEF S
  <2> QED BY <1>1, <1>3, <1>5, <1>6
<1>10. /\ Len(Between(l, cuts)) = m /\ DOMAIN Between(l, cuts) = 1 .. m
       /\ \A k \in 1 .. m : ~Contains(Between(l, cuts)[k], SPACE)
       /\ Join(Between(l, cuts), SPACE) = SubSeq(l, 1, n - 1)
  <2>1. Cuts(l, SPACE, cuts, m, n)
    BY <1>6, <1>7, <1>8, <1>9 DEF Cuts
  <2> QED BY <2>1, Split
<1>11. parse_line(l) = Between(l, cuts)
  BY DEF parse_line, cuts
<1> QED BY <1>1, <1>5, <1>10, <1>11

\* What last_non_space leaves of a line with an ampersand.
LEMMA LastNonSpace ==
  ASSUME NEW n \in Nat, n >= 2, NEW line, n = Len(line)
  PROVE  /\ last_non_space(line) \in 0 .. n - 2
         /\ \A k \in last_non_space(line) + 1 .. n - 2 : line[k] = SPACE
         /\ last_non_space(line) > 1 => line[last_non_space(line)] # SPACE
<1> DEFINE full == {k \in 1 .. n - 2 : k = 1 \/ line[k] # SPACE}
           b == last_non_space(line)
<1>1. b = IF full = {} THEN 0 ELSE CHOOSE k \in full : \A l \in full : l <= k
  BY DEF last_non_space
<1> HIDE DEF b
<1>2. CASE full = {}
  <2>1. 1 \notin 1 .. n - 2
    BY <1>2
  <2> QED BY <1>1, <1>2, <2>1 DEF b
<1>3. CASE full # {}
  <2> DEFINE D == {n - k : k \in full}
  <2>0. \A k \in full : k \in 1 .. n - 2
    OBVIOUS
  <2> HIDE DEF full
  <2>1. D \subseteq Nat /\ D # {}
    BY <1>3, <2>0
  <2>2. PICK d \in D : \A x \in D : d <= x
    BY <2>1, Least
  <2>3. PICK k \in full : d = n - k
    BY <2>2
  <2>4. ASSUME NEW l \in full PROVE l <= k
    <3>1. n - l \in D /\ l \in Int /\ k \in Int
      BY <2>0
    <3>2. n - k <= n - l
      BY <2>2, <2>3, <3>1
    <3> QED BY <3>1, <3>2
  <2>5. b \in full /\ \A l \in full : l <= b
    BY <1>1, <1>3, <2>4
  <2>6. b \in 1 .. n - 2 /\ (b = 1 \/ line[b] # SPACE)
    BY <2>5 DEF full
  <2>7. \A x \in b + 1 .. n - 2 : x \notin full /\ x \in 1 .. n - 2
    BY <2>5, <2>6, <2>0
  <2> QED BY <2>6, <2>7 DEF b, full
<1> QED BY <1>2, <1>3

\* The program is given the words of the line, whatever the line is: ish.c
\* takes apart every line that getline can return as LineRight says.
LEMMA LineIsSplit ==
  ASSUME NEW T, NEW line \in Seq(T), IsLine(line)
  PROVE  LineRight(line)
<1> SUFFICES ASSUME ~is_empty(line), is_terminated(munged(line))
             PROVE  LineRight(line)
  BY DEF LineRight
<1>1. PICK n \in Nat : n = Len(line) /\ n >= 2
  BY DEF is_empty
<1>2. CASE ~is_background(line)
  <2>1. munged(line) = line /\ line # <<>>
    BY <1>1, <1>2 DEF munged
  <2>2. /\ Len(args(line)) = num_words(munged(line))
        /\ \A k \in DOMAIN args(line) : ~Contains(args(line)[k], SPACE)
        /\ Join(args(line), SPACE) = SubSeq(line, 1, n - 1)
    BY <1>1, <2>1, ParsedLine DEF args
  <2>3. line = Append(SubSeq(line, 1, n - 1), NEWLINE)
    <3>1. line[n] = NEWLINE
      BY <1>1, <2>1 DEF is_terminated
    <3> QED BY <1>1, <3>1
  <2> QED BY <1>2, <2>2, <2>3 DEF LineRight
<1>3. CASE is_background(line)
  <2>1. PICK b \in 0 .. n - 2 :
          /\ b = last_non_space(line)
          /\ \A k \in b + 1 .. n - 2 : line[k] = SPACE
          /\ b > 1 => line[b] # SPACE
    BY <1>1, LastNonSpace
  <2> DEFINE U == T \union {NEWLINE}
             c == SubSeq(line, 1, b)
             l == c \o <<NEWLINE>>
  <2>2. /\ c = command(line) /\ l = munged(line)
    BY <1>3, <2>1 DEF command, munged
  <2>3. /\ c \in Seq(T) /\ Len(c) = b /\ \A i \in 1 .. b : c[i] = line[i]
    BY <1>1, <2>1
  <2> HIDE DEF c
  <2>4. /\ l \in Seq(U) /\ Len(l) = b + 1 /\ l[b + 1] = NEWLINE
        /\ \A i \in 1 .. b : l[i] = c[i]
    BY <2>1, <2>3
  <2> HIDE DEF l
  <2>5. l # <<>> /\ is_terminated(l) /\ IsLine(l)
    <3>1. \A i \in 1 .. b : line[i] # NEWLINE
      BY <1>1, <2>1 DEF IsLine
    <3>2. \A i \in 1 .. b : l[i] # NEWLINE
      BY <2>3, <2>4, <3>1
    <3>3. Len(l) - 1 = b /\ l[Len(l)] = NEWLINE /\ l # <<>>
      BY <2>1, <2>4
    <3> QED BY <3>2, <3>3 DEF is_terminated, IsLine
  <2>6. /\ Len(args(line)) = num_words(munged(line))
        /\ \A k \in DOMAIN args(line) : ~Contains(args(line)[k], SPACE)
        /\ Join(args(line), SPACE) = SubSeq(l, 1, b)
    BY <2>1, <2>2, <2>4, <2>5, ParsedLine DEF args
  <2>7. SubSeq(l, 1, b) = c
    BY <2>1, <2>3, <2>4
  <2>8. Len(command(line)) > 1 => Last(command(line)) # SPACE
    BY <2>1, <2>2, <2>3 DEF Last
  <2>9. \E q \in 0 .. Len(line) :
          line = command(line) \o [k \in 1 .. q |-> SPACE]
                               \o <<AMPERSAND, line[Len(line)]>>
    <3> DEFINE q == n - 2 - b
               blanks == [k \in 1 .. q |-> SPACE]
               rest == <<AMPERSAND, line[n]>>
               V == T \union {SPACE, AMPERSAND}
    <3>1. q \in 0 .. n /\ q \in Nat /\ b \in Nat /\ n = b + q + 2
      BY <2>1
    <3>2. blanks \in Seq(V) /\ Len(blanks) = q
      BY <3>1
    <3>3. rest \in Seq(V) /\ Len(rest) = 2 /\ rest[1] = AMPERSAND /\ rest[2] = line[n]
      BY <1>1
    <3>4. line[n - 1] = AMPERSAND
      BY <1>1, <1>3 DEF is_background
    <3>5. c \in Seq(V) /\ line \in Seq(V)
      BY <2>3
    <3>6. \A k \in 1 .. q : blanks[k] = SPACE
      OBVIOUS
    <3> DEFINE d == c \o blanks
               z == d \o rest
    <3> HIDE DEF q, blanks, rest, V, d, z
    <3>7. /\ d \in Seq(V) /\ Len(d) = b + q
          /\ \A i \in 1 .. b + q : d[i] = IF i <= b THEN c[i] ELSE blanks[i - b]
      BY <2>3, <3>2, <3>5, ConcatProperties DEF d
    <3>8. /\ z \in Seq(V) /\ Len(z) = b + q + 2
          /\ \A i \in 1 .. b + q + 2 :
               z[i] = IF i <= b + q THEN d[i] ELSE rest[i - (b + q)]
      <4>1. /\ z \in Seq(V) /\ Len(z) = Len(d) + Len(rest)
            /\ \A i \in 1 .. Len(d) + Len(rest) :
                 z[i] = IF i <= Len(d) THEN d[i] ELSE rest[i - Len(d)]
        BY <3>3, <3>7, ConcatProperties DEF z
      <4> QED BY <3>3, <3>7, <4>1
    <3>9. ASSUME NEW i \in 1 .. n PROVE z[i] = line[i]
      <4>1. CASE i <= b
        <5>1. z[i] = c[i]
          BY <3>1, <3>7, <3>8, <4>1
        <5> QED BY <2>3, <3>1, <4>1, <5>1
      <4>2. CASE i \in b + 1 .. b + q
        <5>1. z[i] = blanks[i - b] /\ i - b \in 1 .. q /\ i \in b + 1 .. n - 2
          BY <3>1, <3>7, <3>8, <4>2
        <5> QED BY <2>1, <3>6, <5>1
      <4>3. CASE i = n - 1
        <5>1. z[i] = rest[1]
          BY <3>1, <3>8, <4>3
        <5> QED BY <3>3, <3>4, <4>3, <5>1
      <4>4. CASE i = n
        <5>1. z[i] = rest[2]
          BY <3>1, <3>8, <4>4
        <5> QED BY <3>3, <4>4, <5>1
      <4> QED BY <3>1, <4>1, <4>2, <4>3, <4>4
    <3>10. z = line
      BY <1>1, <3>1, <3>5, <3>8, <3>9, SeqEqual
    <3> QED BY <1>1, <2>2, <3>1, <3>10 DEF d, z, blanks, rest
  <2> QED BY <1>3, <2>2, <2>6, <2>7, <2>8, <2>9 DEF LineRight
<1> QED BY <1>2, <1>3

\* parse_path of fs.c splits every path at its slashes, and has allocated room
\* for as many names as it finds.
LEMMA PathIsSplit ==
  ASSUME NEW T, NEW p \in Seq(T)
  PROVE  PathRight(p)
<1> DEFINE S == Marked(p, {SLASH})
           places == PlacesOf(p, {SLASH})
<1>1. PICK n \in Nat : n = Len(p) /\ DOMAIN p = 1 .. n
  OBVIOUS
<1> DEFINE cuts == Append(places, n + 1)
<1>2. PICK m \in Nat : m = Cardinality(S)
  <2> HIDE DEF cuts, places
  <2> QED BY PlacesFacts
<1>3. m = count_dirs(p) /\ S \subseteq 1 .. n /\ \A x \in 1 .. n : x \in S <=> p[x] = SLASH
  <2>1. S = {k \in DOMAIN p : p[k] = SLASH}
    BY DEF Marked
  <2> QED BY <1>1, <1>2, <2>1 DEF count_dirs
<1>4. /\ places \in [1 .. m -> S]
      /\ \A k, l \in 1 .. m : k < l => places[k] < places[l]
      /\ \A x \in S : \E k \in 1 .. m : places[k] = x
  <2>1. Enumerates(places, S)
    BY PlacesFacts
  <2> HIDE DEF S, places
  <2> QED BY <1>2, <2>1 DEF Enumerates
<1> HIDE DEF places, S
<1>5. /\ places \in Seq(1 .. n + 1) /\ Len(places) = m
      /\ \A k \in 1 .. m : places[k] \in 1 .. n
  <2>1. \A k \in 1 .. m : places[k] \in 1 .. n /\ places[k] \in 1 .. n + 1
    <3>1. \A k \in 1 .. m : places[k] \in S
      BY <1>4
    <3>2. \A x \in S : x \in 1 .. n /\ x \in 1 .. n + 1
      BY <1>3
    <3> QED BY <3>1, <3>2
  <2>2. places \in [1 .. m -> 1 .. n + 1]
    BY <1>4, <2>1
  <2> QED BY <2>1, <2>2
<1>6. /\ cuts \in Seq(1 .. n + 1) /\ Len(cuts) = m + 1 /\ cuts[m + 1] = n + 1
      /\ \A k \in 1 .. m : cuts[k] = places[k]
  BY <1>5, AppendProperties
<1> HIDE DEF cuts
<1>7. cuts \in [1 .. m + 1 -> 1 .. n + 1] /\ n + 1 \in 1 .. Len(p) + 1
  BY <1>1, <1>6
<1>8. ASSUME NEW k \in 1 .. m + 1, NEW l \in 1 .. m + 1, k < l
      PROVE  cuts[k] < cuts[l]
  <2>1. k \in 1 .. m
    BY <1>8
  <2>2. CASE l = m + 1
    BY <1>5, <1>6, <2>1, <2>2
  <2>3. CASE l # m + 1
    <3>1. l \in 1 .. m
      BY <2>3
    <3> QED BY <1>4, <1>6, <1>8, <2>1, <3>1
  <2> QED BY <2>2, <2>3
<1>9. ASSUME NEW x \in 1 .. n + 1 - 1
      PROVE  p[x] = SLASH <=> \E k \in 1 .. m + 1 : cuts[k] = x
  <2>1. x \in 1 .. n
    OBVIOUS
  <2>2. ASSUME p[x] = SLASH PROVE \E k \in 1 .. m + 1 : cuts[k] = x
    <3>1. PICK k \in 1 .. m : places[k] = x
      BY <1>3, <1>4, <2>1, <2>2
    <3> QED BY <1>6, <3>1
  <2>3. ASSUME NEW k \in 1 .. m + 1, cuts[k] = x PROVE p[x] = SLASH
    <3>1. k \in 1 .. m
      BY <1>6, <2>1, <2>3
    <3> QED BY <1>3, <1>4, <1>6, <2>1, <2>3, <3>1
  <2> QED BY <2>2, <2>3
<1>10. /\ Len(Between(p, cuts)) = m + 1 /\ DOMAIN Between(p, cuts) = 1 .. m + 1
       /\ \A k \in 1 .. m + 1 : ~Contains(Between(p, cuts)[k], SLASH)
       /\ Join(Between(p, cuts), SLASH) = SubSeq(p, 1, n + 1 - 1)
  <2>1. m + 1 \in Nat \ {0}
    OBVIOUS
  <2>2. Cuts(p, SLASH, cuts, m + 1, n + 1)
    BY <1>6, <1>7, <1>8, <1>9, <2>1 DEF Cuts
  <2> QED BY <2>2, Split
<1>11. parse_path(p) = Between(p, cuts)
  BY <1>1 DEF parse_path, cuts, places
<1>12. SubSeq(p, 1, n + 1 - 1) = p
  <2>1. n + 1 - 1 = Len(p)
    BY <1>1
  <2> QED BY <2>1, SubSeqFull
<1> QED BY <1>3, <1>10, <1>11, <1>12 DEF PathRight
-----------------------------------------------------------------------------
(* Children *)

\* What the types of the shell's variables say of processes and jobs.
LEMMA StateFacts ==
  ASSUME TypeOK
  PROVE  /\ proc \in [Pids -> Process]
         /\ jobs \in Seq(Job) /\ Len(jobs) \in Nat /\ DOMAIN jobs = 1 .. Len(jobs)
         /\ \A k \in DOMAIN jobs : jobs[k] \in Job
         /\ j \in 1 .. Len(jobs) + 1
         /\ \A p \in Pids : p \in Nat /\ p # -1
  BY ShellAssumption DEF TypeOK

\* Whatever a child's state is, it is one of these.
LEMMA ProcessFacts ==
  /\ \A w \in Words : /\ Running(w) # None /\ Running(w) \in Process
                      /\ Running(w).args = w
  /\ \A w \in Words, st \in Statuses :
       /\ Ended(w, st) # None /\ Ended(w, st) \in Process
       /\ Ended(w, st).args = w
  /\ None \in Process /\ None.state = "none"
  /\ \A x \in Process : x # None => x.args \in Words
<1>1. /\ None.state = "none"
      /\ \A w : Running(w).state = "running" /\ Running(w).args = w
      /\ \A w, st : Ended(w, st).state = "ended" /\ Ended(w, st).args = w
  BY DEF Running, Ended, None
<1> HIDE DEF Running, Ended, None
<1> QED
  BY <1>1 DEF Process

\* What a line that is run contributes.
LEMMA RunFacts ==
  ASSUME NEW line \in Texts, NEW bg \in BOOLEAN, Runs(line, bg)
  PROVE  /\ args(line) \in Words
         /\ command(line) \in {command(l) : l \in NonEmpty}
         /\ bg => Join(args(line), SPACE) = command(line)
<1>1. line \in NonEmpty
  BY DEF Runs, NonEmpty
<1>2. bg => Join(args(line), SPACE) = command(line)
  <2>1. line \in Seq(STRING) /\ IsLine(line)
    BY ShellAssumption, LinesAssumption
  <2> QED BY <2>1, LineIsSplit DEF Runs, LineRight
<1> QED BY <1>1, <1>2 DEF Words

\* Whatever is read is a text.
LEMMA TextsAreRead == ReaderSpec => [](text \in Seq(STRING))
<1>1. ReaderInit => text \in Seq(STRING)
  BY DEF ReaderInit
<1>2. text \in Seq(STRING) /\ [ReaderNext]_text => (text \in Seq(STRING))'
  BY LinesAssumption DEF ReaderNext
<1> QED BY <1>1, <1>2, PTL DEF ReaderSpec

\* The program is given the words of the line, whatever line getline returns.
THEOREM LinesAreSplit == ReaderSpec => []LinesRight
<1>1. text \in Seq(STRING) => LinesRight
  BY LineIsSplit DEF LinesRight
<1> QED BY <1>1, TextsAreRead, PTL

\* parse_path of fs.c splits every path at its slashes.
THEOREM PathsAreSplit == ReaderSpec => []PathsRight
<1>1. text \in Seq(STRING) => PathsRight
  BY PathIsSplit DEF PathsRight
<1> QED BY <1>1, TextsAreRead, PTL
-----------------------------------------------------------------------------
(* The invariant *)

\* The steps that leave the children, the list and fork alone.
QuietStep ==
  \/ LoopTop \/ JobRunning \/ Checked \/ ClearFlag \/ EndOfFile \/ ReadError
  \/ \E line \in Texts : EmptyLine(line) \/ Unterminated(line)
  \/ handle_sigchld
  \/ \E p \in Pids : ChildStops(p)

\* The steps that neither start nor reap a child leave the jobs alone.
LEMMA QuietUnchanged ==
  ASSUME QuietStep
  PROVE  /\ UNCHANGED <<proc, jobs, fg, fork_failed>>
         /\ (pc' = "wait") <=> (pc = "wait")
  BY DEF QuietStep, LoopTop, JobRunning, Checked, ClearFlag, EndOfFile, ReadError,
         EmptyLine, Unterminated, handle_sigchld, ChildStops, check_jobs,
         ReturnsZero, ReturnsError

\* If the list is empty and nothing is in the foreground, there is no child.
LEMMA NoJobsNoChildren ==
  ASSUME TypeOK, JobsAreChildren, pc # "wait", Len(jobs) = 0
  PROVE  Children = {}
<1>1. fg = -1 /\ \A p \in Pids : p # -1
  BY StateFacts DEF TypeOK
<1>2. DOMAIN jobs = {}
  BY StateFacts
<1>3. \A p \in Children : p \in Pids
  BY DEF Children
<1> QED
  BY <1>1, <1>2, <1>3 DEF JobsAreChildren, Listed

\* So they keep the invariant.
LEMMA QuietInvariant ==
  ASSUME IInv, QuietStep
  PROVE  IInv'
<1> USE DEF IInv
<1>1. /\ proc' = proc /\ jobs' = jobs /\ fg' = fg /\ fork_failed' = fork_failed
      /\ (pc' = "wait") <=> (pc = "wait")
  BY QuietUnchanged
<1>2. Children' = Children
  BY <1>1 DEF Children
<1>3. JobsAreChildren'
  BY <1>1, <1>2 DEF JobsAreChildren, Listed
<1>4. /\ jobs \in Seq(Job) /\ Len(jobs) \in Nat /\ j \in 1 .. Len(jobs) + 1
      /\ DOMAIN jobs = 1 .. Len(jobs)
  BY StateFacts
<1>5. TypeOK'
  <2>1. TypeOK /\ WNOHANG = 1
    BY DEF WNOHANG
  <2>2. ASSUME j' \in 1 .. Len(jobs) + 1, options' \in {0, WNOHANG},
               pending' \in BOOLEAN, got_sigchld' \in {0, 1},
               pc' \in {"top", "check", "clear", "read", "wait", "gone", "failed",
                       "aborted"}
        PROVE  TypeOK'
    <3>1. pc' # "wait" => fg' = -1
      BY <1>1, <2>1 DEF TypeOK
    <3>2. /\ proc' \in [Pids -> Process] /\ jobs' \in Seq(Job)
          /\ fg' \in Pids \union {-1} /\ fork_failed' \in BOOLEAN
      BY <1>1, <2>1 DEF TypeOK
    <3>3. j' \in 1 .. Len(jobs') + 1
      BY <2>2, <1>1
    <3> QED BY <2>2, <3>1, <3>2, <3>3 DEF TypeOK
  <2>3. 1 \in 1 .. Len(jobs) + 1
    BY <1>4
  <2>4. CASE LoopTop
    BY <2>4, <2>1, <2>2, <2>3 DEF LoopTop, check_jobs, TypeOK
  <2>5. CASE JobRunning
    <3>1. pc' = pc /\ options' = options /\ pending' = pending
          /\ got_sigchld' = got_sigchld /\ j' = j + 1 /\ j <= Len(jobs)
      BY <2>5 DEF JobRunning, AtJob
    <3>2. j + 1 \in 1 .. Len(jobs) + 1
      BY <3>1, <1>4
    <3> QED BY <3>1, <3>2, <2>1, <2>2 DEF TypeOK
  <2>6. CASE Checked \/ ClearFlag
    BY <2>6, <2>1, <2>2 DEF Checked, ClearFlag, TypeOK
  <2>7. CASE EndOfFile
    BY <2>7, <2>1, <2>2, <2>3 DEF EndOfFile, check_jobs, TypeOK
  <2>8. CASE ReadError \/ \E line \in Texts : EmptyLine(line) \/ Unterminated(line)
    BY <2>8, <2>1, <2>2 DEF ReadError, EmptyLine, Unterminated, TypeOK
  <2>9. CASE handle_sigchld \/ \E p \in Pids : ChildStops(p)
    BY <2>9, <2>1, <2>2 DEF handle_sigchld, ChildStops, TypeOK
  <2> QED BY <2>4, <2>5, <2>6, <2>7, <2>8, <2>9 DEF QuietStep
<1>6. LeavesNoChild'
  <2>1. CASE pc = "gone"
    BY <2>1, <1>2 DEF LeavesNoChild
  <2>2. CASE pc' = "gone" /\ pc # "gone"
    <3>1. pc # "wait" /\ Len(jobs) = 0
      <4>1. CASE Checked
        <5>1. pc = "check" /\ j > Len(jobs) /\ options # WNOHANG
          BY <4>1, <2>2 DEF Checked
        <5>2. j = 1
          BY <5>1 DEF AtHead
        <5>3. Len(jobs) = 0
          BY <5>1, <5>2, <1>4
        <5> QED BY <5>1, <5>3
      <4>2. CASE EndOfFile
        BY <4>2, <2>2 DEF EndOfFile, check_jobs
      <4> QED
        BY <4>1, <4>2, <2>2
        DEF QuietStep, LoopTop, JobRunning, ClearFlag, ReadError, EmptyLine,
            Unterminated, handle_sigchld, ChildStops, check_jobs
    <3> QED BY <3>1, <1>2, NoJobsNoChildren DEF LeavesNoChild
  <2> QED BY <2>1, <2>2 DEF LeavesNoChild
<1>7. AtHead'
  BY <1>1
  DEF AtHead, QuietStep, LoopTop, JobRunning, Checked, ClearFlag, EndOfFile,
      ReadError, EmptyLine, Unterminated, handle_sigchld, ChildStops, check_jobs
<1> QED BY <1>3, <1>5, <1>6, <1>7

\* One child changes.
LEMMA OneChild ==
  ASSUME TypeOK, NEW p \in Pids, NEW x \in Process, proc' = [proc EXCEPT ![p] = x]
  PROVE  /\ proc' \in [Pids -> Process]
         /\ proc'[p] = x /\ \A q \in Pids : q # p => proc'[q] = proc[q]
         /\ x = None => Children' = Children \ {p}
         /\ x # None => Children' = Children \union {p}
<1>1. proc \in [Pids -> Process]
  BY StateFacts
<1>2. proc' \in [Pids -> Process]
  BY <1>1
<1>3. proc'[p] = x /\ \A q \in Pids : q # p => proc'[q] = proc[q]
  BY <1>1
<1>4. \A q \in Pids : q \in Children' <=> proc'[q] # None
  BY DEF Children
<1>5. \A q \in Pids : q \in Children <=> proc[q] # None
  BY DEF Children
<1>6. Children \subseteq Pids /\ Children' \subseteq Pids
  BY DEF Children
<1> QED
  BY <1>2, <1>3, <1>4, <1>5, <1>6, Zenon

\* waitpid(pid) with a pid that is not -1 reaps that child and no other.
LEMMA ReapFacts ==
  ASSUME TypeOK, NEW pid, NEW p \in Pids, Reaps(pid, p)
  PROVE  /\ p \in Children /\ (pid = p \/ pid = -1)
         /\ proc' = [proc EXCEPT ![p] = None]
<1>1. p \in Zombies /\ p \in Selected(pid)
  BY DEF Reaps
<1>2. proc[p] # None
  BY <1>1, ProcessFacts DEF Zombies
<1> QED
  BY <1>1, <1>2 DEF Reaps, Selected, Children

\* check_jobs reaps a job that has ended and takes it off the list.
LEMMA JobEndedInvariant ==
  ASSUME IInv, JobEnded
  PROVE  IInv'
<1>1. TypeOK /\ JobsAreChildren /\ AtHead
  BY DEF IInv
<1>2. /\ jobs \in Seq(Job) /\ Len(jobs) \in Nat /\ DOMAIN jobs = 1 .. Len(jobs)
      /\ j \in 1 .. Len(jobs) + 1
      /\ \A q \in Pids : q # -1
  BY <1>1, StateFacts
<1>3. /\ pc = "check" /\ pc' = pc /\ j' = j /\ options' = options /\ fg' = fg
      /\ fork_failed' = fork_failed /\ pending' = pending
      /\ got_sigchld' = got_sigchld /\ jobs' = Removed(jobs, j)
      /\ j <= Len(jobs)
  BY DEF JobEnded, AtJob, without, Removed
<1>4. j \in 1 .. Len(jobs)
  BY <1>2, <1>3
<1>5. /\ jobs' \in Seq(Job) /\ Len(jobs') = Len(jobs) - 1
      /\ \A i \in 1 .. Len(jobs) - 1 :
           jobs'[i] = IF i < j THEN jobs[i] ELSE jobs[i + 1]
  BY <1>2, <1>3, <1>4, Without
<1>6. PICK p \in Pids : Reaps(jobs[j].pid, p)
  BY DEF JobEnded
<1>7. /\ p \in Children /\ (jobs[j].pid = p \/ jobs[j].pid = -1)
      /\ proc' = [proc EXCEPT ![p] = None]
  BY <1>1, <1>6, ReapFacts
<1>8. /\ proc' \in [Pids -> Process]
      /\ \A q \in Pids : q # p => proc'[q] = proc[q]
      /\ Children' = Children \ {p}
  BY <1>1, <1>7, OneChild, ProcessFacts
<1>9. DOMAIN jobs' = 1 .. Len(jobs) - 1
  BY <1>2, <1>5
<1>10. ASSUME NEW i \in DOMAIN jobs'
       PROVE  \E l \in DOMAIN jobs : l # j /\ jobs'[i] = jobs[l]
                                     /\ l = IF i < j THEN i ELSE i + 1
  <2>1. CASE i < j
    BY <2>1, <1>2, <1>4, <1>5, <1>9
  <2>2. CASE ~(i < j)
    BY <2>2, <1>2, <1>4, <1>5, <1>9
  <2> QED BY <2>1, <2>2
<1>11. ASSUME NEW l \in DOMAIN jobs, l # j
       PROVE  \E i \in DOMAIN jobs' : jobs'[i] = jobs[l]
  <2>1. CASE l < j
    <3>1. l \in 1 .. Len(jobs) - 1
      BY <2>1, <1>2, <1>4
    <3> QED BY <3>1, <2>1, <1>5, <1>9
  <2>2. CASE l > j
    <3>1. l - 1 \in 1 .. Len(jobs) - 1 /\ ~(l - 1 < j) /\ (l - 1) + 1 = l
      BY <2>2, <1>2, <1>4
    <3>2. jobs'[l - 1] = jobs[l]
      BY <3>1, <1>5
    <3> QED BY <3>1, <3>2, <1>9
  <2> QED BY <2>1, <2>2, <1>2, <1>4, <1>11
<1>12. TypeOK'
  <2>1. j' \in 1 .. Len(jobs') + 1
    BY <1>2, <1>3, <1>4, <1>5
  <2> QED BY <2>1, <1>1, <1>3, <1>5, <1>8 DEF TypeOK
<1>13. ASSUME NEW q \in Children' PROVE (q = fg \/ Listed(q))'
  <2>1. q \in Children /\ q # p /\ q \in Pids
    BY <1>8 DEF Children
  <2>2. CASE q = fg
    BY <2>2, <1>3
  <2>3. CASE Listed(q)
    <3>1. PICK l \in DOMAIN jobs : jobs[l].pid = q
      BY <2>3 DEF Listed
    <3>2. l # j
      BY <3>1, <2>1, <1>7, <1>2
    <3> QED BY <3>1, <3>2, <1>11 DEF Listed
  <2> QED BY <2>1, <2>2, <2>3, <1>1 DEF JobsAreChildren
<1>14. ASSUME ~fork_failed
       PROVE  /\ \A k \in DOMAIN jobs' :
                   /\ jobs'[k].pid \in Children' \ {fg'}
                   /\ Join(proc'[jobs'[k].pid].args, SPACE) = jobs'[k].command
              /\ \A k, l \in DOMAIN jobs' : jobs'[k].pid = jobs'[l].pid => k = l
  <2>1. /\ \A k \in DOMAIN jobs :
             /\ jobs[k].pid \in Children \ {fg}
             /\ Join(proc[jobs[k].pid].args, SPACE) = jobs[k].command
        /\ \A k, l \in DOMAIN jobs : jobs[k].pid = jobs[l].pid => k = l
    BY <1>1, <1>14 DEF JobsAreChildren
  <2>2. jobs[j].pid \in Children /\ Children \subseteq Pids
    BY <2>1, <1>2, <1>4 DEF Children
  <2>3. jobs[j].pid = p
    BY <2>2, <1>2, <1>7
  <2>4. ASSUME NEW k \in DOMAIN jobs'
        PROVE  /\ jobs'[k].pid \in Children' \ {fg'}
               /\ Join(proc'[jobs'[k].pid].args, SPACE) = jobs'[k].command
    <3>1. PICK l \in DOMAIN jobs : l # j /\ jobs'[k] = jobs[l]
      BY <1>10
    <3>2. jobs[l].pid # p
      BY <3>1, <2>1, <2>3, <1>2, <1>4
    <3>3. jobs[l].pid \in Children \ {fg} /\ jobs[l].pid \in Pids
      BY <2>1, <2>2
    <3>4. proc'[jobs[l].pid] = proc[jobs[l].pid]
      BY <3>2, <3>3, <1>8
    <3> QED BY <3>1, <3>2, <3>3, <3>4, <2>1, <1>3, <1>8
  <2>5. ASSUME NEW k \in DOMAIN jobs', NEW l \in DOMAIN jobs',
               jobs'[k].pid = jobs'[l].pid
        PROVE  k = l
    <3>1. PICK m \in DOMAIN jobs : jobs'[k] = jobs[m]
                                   /\ m = IF k < j THEN k ELSE k + 1
      BY <1>10
    <3>2. PICK n \in DOMAIN jobs : jobs'[l] = jobs[n]
                                   /\ n = IF l < j THEN l ELSE l + 1
      BY <1>10
    <3>3. m = n
      BY <3>1, <3>2, <2>5, <2>1
    <3>4. k \in Nat /\ l \in Nat /\ j \in Nat
      BY <1>2, <1>4, <1>9
    <3> QED BY <3>1, <3>2, <3>3, <3>4
  <2> QED BY <2>4, <2>5
<1>15. JobsAreChildren'
  <2>1. pc' # "wait"
    BY <1>3
  <2> QED BY <2>1, <1>3, <1>13, <1>14 DEF JobsAreChildren
<1> QED
  BY <1>1, <1>3, <1>12, <1>15 DEF IInv, LeavesNoChild, AtHead

\* The foreground child has ended and is reaped.
LEMMA WaitInvariant ==
  ASSUME IInv, WaitForeground
  PROVE  IInv'
<1>1. TypeOK /\ JobsAreChildren
  BY DEF IInv
<1>2. /\ pc = "wait" /\ pc' = "top" /\ fg' = -1 /\ j' = j /\ options' = options
      /\ jobs' = jobs /\ fork_failed' = fork_failed /\ pending' = pending
      /\ got_sigchld' = got_sigchld
  BY DEF WaitForeground
<1>3. fg \in Pids \union {-1} /\ \A q \in Pids : q # -1
  BY <1>1, StateFacts DEF TypeOK
<1>4. /\ proc' \in [Pids -> Process]
      /\ Children' \subseteq Children \ {fg}
      /\ \A q \in Children' : proc'[q] = proc[q]
      /\ fg \in Children => Children' = Children \ {fg}
  <2>1. CASE \E p \in Pids : Reaps(fg, p)
    <3>1. PICK p \in Pids : Reaps(fg, p)
      BY <2>1
    <3>2. /\ p \in Children /\ (fg = p \/ fg = -1)
          /\ proc' = [proc EXCEPT ![p] = None]
      BY <1>1, <3>1, ReapFacts
    <3>3. /\ proc' \in [Pids -> Process] /\ Children' = Children \ {p}
          /\ \A q \in Pids : q # p => proc'[q] = proc[q]
      BY <1>1, <3>2, OneChild, ProcessFacts
    <3>4. Children' \subseteq Pids /\ Children \subseteq Pids
      BY DEF Children
    <3> QED BY <3>2, <3>3, <3>4, <1>3
  <2>2. CASE ReturnsError(fg)
    <3>1. proc' = proc /\ Selected(fg) = {}
      BY <2>2 DEF ReturnsError
    <3>2. Children' = Children /\ fg \notin Children
      BY <3>1, <1>3 DEF Selected, Children
    <3> QED BY <3>1, <3>2, <1>1 DEF TypeOK
  <2> QED BY <2>1, <2>2 DEF WaitForeground
<1>5. TypeOK'
  BY <1>1, <1>2, <1>4 DEF TypeOK
<1>7. ASSUME NEW q \in Children' PROVE Listed(q)'
  <2>1. q \in Children /\ q # fg
    BY <1>4
  <2>2. Listed(q)
    BY <2>1, <1>1 DEF JobsAreChildren
  <2> QED BY <2>2, <1>2 DEF Listed
<1>8. ASSUME ~fork_failed
      PROVE  /\ \A k \in DOMAIN jobs :
                  /\ jobs[k].pid \in Children' \ {-1}
                  /\ Join(proc'[jobs[k].pid].args, SPACE) = jobs[k].command
             /\ \A k, l \in DOMAIN jobs : jobs[k].pid = jobs[l].pid => k = l
  <2>1. /\ fg \in Children
        /\ \A k \in DOMAIN jobs :
             /\ jobs[k].pid \in Children \ {fg}
             /\ Join(proc[jobs[k].pid].args, SPACE) = jobs[k].command
        /\ \A k, l \in DOMAIN jobs : jobs[k].pid = jobs[l].pid => k = l
    BY <1>1, <1>2, <1>8 DEF JobsAreChildren
  <2>2. Children' = Children \ {fg} /\ -1 \notin Children
    BY <2>1, <1>3, <1>4 DEF Children
  <2> QED BY <2>1, <2>2, <1>4
<1>9. JobsAreChildren'
  BY <1>2, <1>7, <1>8 DEF JobsAreChildren
<1> QED
  BY <1>2, <1>5, <1>9 DEF IInv, LeavesNoChild, AtHead

\* A child ends on its own: it becomes a zombie, and SIGCHLD is pending.
LEMMA ChildEndsInvariant ==
  ASSUME IInv, NEW p \in Pids, ChildEnds(p)
  PROVE  IInv'
<1>1. TypeOK /\ JobsAreChildren
  BY DEF IInv
<1>2. /\ pc' = pc /\ fg' = fg /\ j' = j /\ options' = options /\ pending' = TRUE
      /\ jobs' = jobs /\ fork_failed' = fork_failed
      /\ got_sigchld' = got_sigchld
  BY DEF ChildEnds
<1>3. PICK status \in Statuses :
        proc' = [proc EXCEPT ![p] = Ended(proc[p].args, status)]
  BY DEF ChildEnds
<1>4. proc[p] \in Process /\ proc[p] # None
  <2>1. proc[p].state = "running"
    BY DEF ChildEnds
  <2> QED BY <2>1, <1>1, ProcessFacts DEF TypeOK
<1>5. proc[p].args \in Words
  BY <1>4, ProcessFacts
<1>6. /\ Ended(proc[p].args, status) \in Process
      /\ Ended(proc[p].args, status) # None
      /\ Ended(proc[p].args, status).args = proc[p].args
  BY <1>5, ProcessFacts
<1>7. /\ proc' \in [Pids -> Process]
      /\ proc'[p] = Ended(proc[p].args, status)
      /\ \A q \in Pids : q # p => proc'[q] = proc[q]
      /\ Children' = Children \union {p}
  BY <1>1, <1>3, <1>6, OneChild
<1>8. Children' = Children
  BY <1>4, <1>7 DEF Children
<1>9. \A q \in Children : proc'[q].args = proc[q].args
  BY <1>6, <1>7 DEF Children
<1>10. TypeOK'
  BY <1>1, <1>2, <1>7 DEF TypeOK
<1>12. JobsAreChildren'
  <2>1. \A q \in Children : (q = fg \/ Listed(q))'
    BY <1>1, <1>2 DEF JobsAreChildren, Listed
  <2>2. ~fork_failed =>
          \A k \in DOMAIN jobs :
            /\ jobs[k].pid \in Children \ {fg}
            /\ Join(proc'[jobs[k].pid].args, SPACE) = jobs[k].command
    BY <1>1, <1>9 DEF JobsAreChildren
  <2> QED BY <1>1, <1>2, <1>8, <2>1, <2>2 DEF JobsAreChildren
<1> QED
  BY <1>1, <1>2, <1>8, <1>10, <1>12 DEF IInv, LeavesNoChild, AtHead

\* fork gives the children one more, or leaves them alone.
LEMMA ForkFacts ==
  ASSUME TypeOK, NEW words \in Words, NEW pid \in Pids \union {-1},
         Forks(pid, words) \/ ForkFails(pid)
  PROVE  /\ proc' \in [Pids -> Process] /\ fork_failed' \in BOOLEAN
         /\ \A q \in Children : q \in Children' /\ proc'[q] = proc[q]
         /\ Children' \subseteq Children \union {pid}
         /\ ~fork_failed' =>
              /\ ~fork_failed
              /\ pid \in Children' \ Children /\ proc'[pid].args = words
<1>1. CASE Forks(pid, words)
  <2>1. /\ pid \in Pids \ Children /\ fork_failed' = fork_failed
        /\ proc' = [proc EXCEPT ![pid] = Running(words)]
    BY <1>1 DEF Forks
  <2>2. /\ Running(words) \in Process /\ Running(words) # None
        /\ Running(words).args = words
    BY ProcessFacts
  <2>3. /\ proc' \in [Pids -> Process] /\ proc'[pid] = Running(words)
        /\ \A q \in Pids : q # pid => proc'[q] = proc[q]
        /\ Children' = Children \union {pid}
    BY <2>1, <2>2, OneChild
  <2>4. Children \subseteq Pids
    BY DEF Children
  <2> QED BY <2>1, <2>2, <2>3, <2>4 DEF TypeOK
<1>2. CASE ForkFails(pid)
  <2>1. proc' = proc /\ fork_failed' = TRUE
    BY <1>2 DEF ForkFails
  <2> QED BY <2>1 DEF TypeOK, Children
<1> QED BY <1>1, <1>2

\* The shell forks for a foreground command and waits for the child, if any.
LEMMA ForegroundInvariant ==
  ASSUME IInv, NEW line \in Texts, Foreground(line)
  PROVE  IInv'
<1>1. TypeOK /\ JobsAreChildren
  BY DEF IInv
<1>2. /\ pc = "read" /\ pc' = "wait" /\ j' = j /\ options' = options
      /\ jobs' = jobs /\ pending' = pending /\ got_sigchld' = got_sigchld
      /\ Runs(line, FALSE)
  BY DEF Foreground, Runs
<1>3. args(line) \in Words
  BY <1>2, RunFacts
<1>4. PICK pid \in Pids \union {-1} :
        (Forks(pid, args(line)) \/ ForkFails(pid)) /\ fg' = pid
  BY DEF Foreground
<1>5. /\ proc' \in [Pids -> Process] /\ fork_failed' \in BOOLEAN
      /\ \A q \in Children : q \in Children' /\ proc'[q] = proc[q]
      /\ Children' \subseteq Children \union {pid}
      /\ ~fork_failed' => ~fork_failed /\ pid \in Children' \ Children
  BY <1>1, <1>3, <1>4, ForkFacts
<1>6. TypeOK'
  BY <1>1, <1>2, <1>4, <1>5 DEF TypeOK
<1>7. fg = -1 /\ \A q \in Pids : q # -1
  BY <1>1, <1>2, StateFacts DEF TypeOK
<1>8. ASSUME NEW q \in Children' PROVE (q = fg \/ Listed(q))'
  <2>1. CASE q = pid
    BY <2>1, <1>4
  <2>2. CASE q \in Children
    <3>1. Listed(q)
      BY <2>2, <1>1, <1>7 DEF JobsAreChildren, Children
    <3> QED BY <3>1, <1>2 DEF Listed
  <2> QED BY <2>1, <2>2, <1>5
<1>9. ASSUME ~fork_failed'
      PROVE  /\ \A k \in DOMAIN jobs :
                  /\ jobs[k].pid \in Children' \ {fg'}
                  /\ Join(proc'[jobs[k].pid].args, SPACE) = jobs[k].command
             /\ \A k, l \in DOMAIN jobs : jobs[k].pid = jobs[l].pid => k = l
             /\ fg' \in Children'
  <2>1. /\ \A k \in DOMAIN jobs :
             /\ jobs[k].pid \in Children
             /\ Join(proc[jobs[k].pid].args, SPACE) = jobs[k].command
        /\ \A k, l \in DOMAIN jobs : jobs[k].pid = jobs[l].pid => k = l
    BY <1>1, <1>5, <1>9 DEF JobsAreChildren
  <2> QED BY <2>1, <1>4, <1>5, <1>9
<1>10. JobsAreChildren'
  BY <1>2, <1>8, <1>9 DEF JobsAreChildren
<1> QED
  BY <1>2, <1>6, <1>10 DEF IInv, LeavesNoChild, AtHead

\* The shell forks for a background command and adds the job.
LEMMA BackgroundInvariant ==
  ASSUME IInv, NEW line \in Texts, Background(line)
  PROVE  IInv'
<1>1. TypeOK /\ JobsAreChildren
  BY DEF IInv
<1>2. /\ pc = "read" /\ pc' = "top" /\ j' = j /\ options' = options
      /\ fg' = fg /\ pending' = pending /\ got_sigchld' = got_sigchld
      /\ Runs(line, TRUE)
  BY DEF Background, Runs
<1>3. /\ args(line) \in Words /\ Join(args(line), SPACE) = command(line)
      /\ command(line) \in {command(l) : l \in NonEmpty}
  BY <1>2, RunFacts
<1>4. PICK pid \in Pids \union {-1} :
        /\ Forks(pid, args(line)) \/ ForkFails(pid)
        /\ jobs' = add_job(pid, command(line))
  BY DEF Background
<1>5. /\ proc' \in [Pids -> Process] /\ fork_failed' \in BOOLEAN
      /\ \A q \in Children : q \in Children' /\ proc'[q] = proc[q]
      /\ Children' \subseteq Children \union {pid}
      /\ ~fork_failed' =>
           /\ ~fork_failed
           /\ pid \in Children' \ Children /\ proc'[pid].args = args(line)
  BY <1>1, <1>3, <1>4, ForkFacts
<1>6. /\ jobs \in Seq(Job) /\ Len(jobs) \in Nat /\ DOMAIN jobs = 1 .. Len(jobs)
      /\ j \in 1 .. Len(jobs) + 1
      /\ \A q \in Pids : q # -1
  BY <1>1, StateFacts
<1>7. fg = -1
  BY <1>1, <1>2 DEF TypeOK
<1> DEFINE job == [command |-> command(line), pid |-> pid]
<1>8. /\ job \in Job /\ job.pid = pid /\ job.command = command(line)
  BY <1>3 DEF Job
<1>9. jobs' = <<job>> \o jobs
  BY <1>4 DEF add_job
<1> HIDE DEF job
<1>10. /\ jobs' \in Seq(Job) /\ Len(jobs') = Len(jobs) + 1 /\ jobs'[1] = job
       /\ \A i \in 1 .. Len(jobs) : jobs'[i + 1] = jobs[i]
  BY <1>6, <1>8, <1>9, Pushed
<1>11. DOMAIN jobs' = 1 .. Len(jobs) + 1
  BY <1>6, <1>10
<1>12. TypeOK'
  <2>1. j' \in 1 .. Len(jobs') + 1
    BY <1>2, <1>6, <1>10
  <2> QED BY <2>1, <1>1, <1>2, <1>5, <1>7, <1>10 DEF TypeOK
<1>13. ASSUME NEW k \in DOMAIN jobs', k # 1
       PROVE  \E i \in DOMAIN jobs : i + 1 = k /\ jobs'[k] = jobs[i]
  <2>1. k - 1 \in DOMAIN jobs /\ (k - 1) + 1 = k
    BY <1>6, <1>11, <1>13
  <2> QED BY <2>1, <1>6, <1>10
<1>14. ASSUME NEW q \in Children' PROVE Listed(q)'
  <2>1. CASE q = pid
    <3>1. 1 \in DOMAIN jobs' /\ jobs'[1].pid = q
      BY <2>1, <1>6, <1>8, <1>10, <1>11
    <3> QED BY <3>1 DEF Listed
  <2>2. CASE q \in Children
    <3>1. Listed(q)
      BY <2>2, <1>1, <1>6, <1>7 DEF JobsAreChildren, Children
    <3>2. PICK i \in DOMAIN jobs : jobs[i].pid = q
      BY <3>1 DEF Listed
    <3>3. i + 1 \in DOMAIN jobs' /\ jobs'[i + 1] = jobs[i]
      BY <1>6, <1>10, <1>11
    <3> QED BY <3>2, <3>3 DEF Listed
  <2> QED BY <2>1, <2>2, <1>5
<1>15. ASSUME ~fork_failed'
       PROVE  /\ \A k \in DOMAIN jobs' :
                   /\ jobs'[k].pid \in Children' \ {fg'}
                   /\ Join(proc'[jobs'[k].pid].args, SPACE) = jobs'[k].command
              /\ \A k, l \in DOMAIN jobs' : jobs'[k].pid = jobs'[l].pid => k = l
  <2>1. /\ \A k \in DOMAIN jobs :
             /\ jobs[k].pid \in Children
             /\ Join(proc[jobs[k].pid].args, SPACE) = jobs[k].command
        /\ \A k, l \in DOMAIN jobs : jobs[k].pid = jobs[l].pid => k = l
    BY <1>1, <1>5, <1>15 DEF JobsAreChildren
  <2>2. pid \in Children' \ Children /\ proc'[pid].args = args(line)
    BY <1>5, <1>15
  <2>3. \A q \in Children' : q # -1
    BY <1>6 DEF Children
  <2>4. ASSUME NEW k \in DOMAIN jobs'
        PROVE  /\ jobs'[k].pid \in Children' \ {fg'}
               /\ Join(proc'[jobs'[k].pid].args, SPACE) = jobs'[k].command
    <3>1. CASE k = 1
      BY <3>1, <2>2, <2>3, <1>2, <1>3, <1>7, <1>8, <1>10
    <3>2. CASE k # 1
      <4>1. PICK i \in DOMAIN jobs : jobs'[k] = jobs[i]
        BY <3>2, <1>13
      <4>2. jobs[i].pid \in Children' /\ proc'[jobs[i].pid] = proc[jobs[i].pid]
        BY <2>1, <1>5
      <4> QED BY <4>1, <4>2, <2>1, <2>3, <1>2, <1>7
    <3> QED BY <3>1, <3>2
  <2>5. ASSUME NEW k \in DOMAIN jobs', k # 1
        PROVE  jobs'[k].pid # pid
    BY <1>13, <2>1, <2>2, <2>5
  <2>6. ASSUME NEW k \in DOMAIN jobs', NEW l \in DOMAIN jobs',
               jobs'[k].pid = jobs'[l].pid
        PROVE  k = l
    <3>1. jobs'[1].pid = pid
      BY <1>8, <1>10
    <3>2. CASE k = 1 \/ l = 1
      BY <3>1, <3>2, <2>5, <2>6
    <3>3. CASE k # 1 /\ l # 1
      <4>1. PICK a \in DOMAIN jobs : a + 1 = k /\ jobs'[k] = jobs[a]
        BY <3>3, <1>13
      <4>2. PICK b \in DOMAIN jobs : b + 1 = l /\ jobs'[l] = jobs[b]
        BY <3>3, <1>13
      <4>3. a = b
        BY <4>1, <4>2, <2>1, <2>6
      <4> QED BY <4>1, <4>2, <4>3
    <3> QED BY <3>2, <3>3
  <2> QED BY <2>4, <2>6
<1>16. JobsAreChildren'
  BY <1>2, <1>14, <1>15 DEF JobsAreChildren
<1> QED
  BY <1>2, <1>12, <1>16 DEF IInv, LeavesNoChild, AtHead
-----------------------------------------------------------------------------
(* Theorems *)

\* Every step of the shell keeps the invariant.
LEMMA Inductive ==
  ASSUME IInv, [Next]_vars
  PROVE  IInv'
<1>1. CASE QuietStep
  BY <1>1, QuietInvariant
<1>2. CASE JobEnded
  BY <1>2, JobEndedInvariant
<1>3. CASE WaitForeground
  BY <1>3, WaitInvariant
<1>4. CASE \E line \in Texts : Foreground(line) \/ Background(line)
  BY <1>4, ForegroundInvariant, BackgroundInvariant
<1>5. CASE \E p \in Pids : ChildEnds(p)
  BY <1>5, ChildEndsInvariant
<1>6. CASE UNCHANGED vars
  <2>1. /\ proc' = proc /\ pending' = pending /\ got_sigchld' = got_sigchld
        /\ jobs' = jobs /\ pc' = pc /\ j' = j /\ options' = options /\ fg' = fg
        /\ fork_failed' = fork_failed
    BY <1>6 DEF vars
  <2>2. TypeOK'
    BY <2>1 DEF IInv, TypeOK
  <2>3. Children' = Children
    BY <2>1 DEF Children
  <2>4. JobsAreChildren'
    BY <2>1, <2>3 DEF IInv, JobsAreChildren, Listed
  <2> QED BY <2>1, <2>2, <2>3, <2>4 DEF IInv, LeavesNoChild, AtHead
<1> QED
  BY <1>1, <1>2, <1>3, <1>4, <1>5, <1>6 DEF Next, ShellStep, ReadLine, QuietStep

\* The invariant holds when the shell begins.
LEMMA Initial ==
  ASSUME Init
  PROVE  IInv
<1>1. Children = {} /\ proc \in [Pids -> Process]
  BY ProcessFacts DEF Init, Children
<1>2. jobs = <<>> /\ jobs \in Seq(Job) /\ Len(jobs) = 0 /\ DOMAIN jobs = {}
  BY DEF Init
<1>3. j \in 1 .. Len(jobs) + 1
  BY <1>2 DEF Init
<1>4. TypeOK
  BY <1>1, <1>2, <1>3 DEF Init, TypeOK
<1> QED
  BY <1>1, <1>2, <1>4 DEF IInv, Init, JobsAreChildren, LeavesNoChild, AtHead

\* The inductive invariant: besides the two properties it needs the types, and
\* that check_jobs stays at the head of the list when it waits for all jobs.
THEOREM InvariantHolds == Spec => []IInv
<1>1. Init => IInv
  BY Initial
<1>2. IInv /\ [Next]_vars => IInv'
  BY Inductive
<1> QED BY <1>1, <1>2, PTL DEF Spec

\* The list of jobs is right at every step of main, check_jobs, the children and
\* the signal handler, whatever lines are typed.
THEOREM JobsRight == Spec => []JobsAreChildren
<1>1. IInv => JobsAreChildren
  BY DEF IInv
<1> QED BY <1>1, InvariantHolds, PTL

\* The wait at the end of input leaves no child behind.
THEOREM NoChildLeft == Spec => []LeavesNoChild
<1>1. IInv => LeavesNoChild
  BY DEF IInv
<1> QED BY <1>1, InvariantHolds, PTL

\* A child that is there and has not ended is running.
LEMMA RunsOrEnded ==
  ASSUME NEW x \in Process, x # None, x.state # "ended"
  PROVE  x.state = "running"
  BY DEF Process, Running, Ended

\* The steps that reap children, and those that move check_jobs along its list.
LEMMA WhoReaps ==
  ASSUME TypeOK, [Next]_vars, pc = "check"
  PROVE  /\ \A p \in Pids : Reaped(p) => JobEnded
         /\ j' = j + 1 => JobRunning
<1>1. j \in Int /\ j # j + 1
  BY StateFacts
<1>2. \A p \in Pids : Reaped(p) => proc' # proc
  BY DEF Reaped
<1>3. CASE JobEnded
  <2>1. j' = j
    BY <1>3 DEF JobEnded
  <2> QED BY <2>1, <1>1, <1>3
<1>4. CASE \E p \in Pids : ChildEnds(p)
  <2>1. PICK p \in Pids : ChildEnds(p)
    BY <1>4
  <2>2. j' = j
    BY <2>1 DEF ChildEnds
  <2>3. PICK status \in Statuses :
          proc' = [proc EXCEPT ![p] = Ended(proc[p].args, status)]
    BY <2>1 DEF ChildEnds
  <2>4. proc \in [Pids -> Process] /\ proc[p] \in Process /\ proc[p] # None
    BY <2>1, StateFacts, ProcessFacts DEF ChildEnds
  <2>5. Ended(proc[p].args, status) # None
    BY <2>4, ProcessFacts
  <2>6. \A q \in Pids : ~Reaped(q)
    BY <2>3, <2>4, <2>5 DEF Reaped
  <2> QED BY <2>2, <2>6, <1>1
<1>5. CASE JobRunning
  <2>1. proc' = proc
    BY <1>5 DEF JobRunning, ReturnsZero, ReturnsError
  <2> QED BY <2>1, <1>2, <1>5
<1>6. CASE Checked \/ handle_sigchld \/ (\E p \in Pids : ChildStops(p)) \/ UNCHANGED vars
  <2>1. proc' = proc /\ j' = j
    BY <1>6 DEF Checked, handle_sigchld, ChildStops, vars
  <2> QED BY <2>1, <1>1, <1>2
<1> QED
  BY <1>3, <1>4, <1>5, <1>6
  DEF Next, ShellStep, ReadLine, LoopTop, ClearFlag, WaitForeground, EndOfFile,
      ReadError, EmptyLine, Unterminated, Background, Foreground, Runs

\* The job that check_jobs is at, as long as fork has not failed.
LEMMA CurrentJob ==
  ASSUME IInv, ~fork_failed, AtJob
  PROVE  /\ jobs[j].pid \in Children /\ jobs[j].pid \in Pids /\ jobs[j].pid # -1
         /\ Join(proc[jobs[j].pid].args, SPACE) = jobs[j].command
<1>1. TypeOK /\ JobsAreChildren
  BY DEF IInv
<1>2. j \in DOMAIN jobs /\ \A q \in Pids : q # -1
  BY <1>1, StateFacts DEF AtJob
<1>3. /\ jobs[j].pid \in Children
      /\ Join(proc[jobs[j].pid].args, SPACE) = jobs[j].command
  BY <1>1, <1>2 DEF JobsAreChildren
<1> QED BY <1>2, <1>3 DEF Children

\* What check_jobs prints about a child that it has reaped, or finds running.
LEMMA ReportStep ==
  ASSUME IInv, [Next]_vars, ~fork_failed, pc = "check"
  PROVE  /\ \A p \in Pids : Reaped(p) =>
              /\ output'.kind \in {"complete", "status"}
              /\ output'.command = Join(proc[p].args, SPACE)
              /\ output'.code = WEXITSTATUS(proc[p].status)
         /\ j' = j + 1 =>
              /\ output'.kind = "running"
              /\ proc[jobs[j].pid].state = "running"
              /\ output'.command = Join(proc[jobs[j].pid].args, SPACE)
<1>1. TypeOK
  BY DEF IInv
<1>2. ASSUME NEW p \in Pids, Reaped(p)
      PROVE  /\ output'.kind \in {"complete", "status"}
             /\ output'.command = Join(proc[p].args, SPACE)
             /\ output'.code = WEXITSTATUS(proc[p].status)
  <2>1. JobEnded
    BY <1>1, <1>2, WhoReaps
  <2>2. AtJob
    BY <2>1 DEF JobEnded
  <2>3. PICK q \in Pids : Reaps(jobs[j].pid, q) /\ output' = report(q)
    BY <2>1 DEF JobEnded
  <2>4. /\ jobs[j].pid # -1 /\ jobs[j].pid = q
        /\ proc' = [proc EXCEPT ![q] = None]
    BY <1>1, <2>2, <2>3, CurrentJob, ReapFacts
  <2>5. p = q
    BY <1>1, <1>2, <2>4, StateFacts DEF Reaped
  <2>6. jobs[j].command = Join(proc[p].args, SPACE)
    BY <2>2, <2>4, <2>5, CurrentJob
  <2> QED BY <2>3, <2>5, <2>6 DEF report
<1>3. ASSUME j' = j + 1
      PROVE  /\ output'.kind = "running"
             /\ proc[jobs[j].pid].state = "running"
             /\ output'.command = Join(proc[jobs[j].pid].args, SPACE)
  <2>1. JobRunning
    BY <1>1, <1>3, WhoReaps
  <2>2. AtJob /\ output' = still_running
    BY <2>1 DEF JobRunning
  <2>3. /\ jobs[j].pid \in Children /\ jobs[j].pid \in Pids /\ jobs[j].pid # -1
        /\ Join(proc[jobs[j].pid].args, SPACE) = jobs[j].command
    BY <2>2, CurrentJob
  <2>4. Selected(jobs[j].pid) = {jobs[j].pid}
    BY <2>3 DEF Selected
  <2>5. jobs[j].pid \notin Zombies
    BY <2>1, <2>3, <2>4 DEF JobRunning, ReturnsZero, ReturnsError
  <2>6. proc[jobs[j].pid] \in Process /\ proc[jobs[j].pid] # None
    BY <1>1, <2>3, StateFacts DEF Children
  <2>7. proc[jobs[j].pid].state = "running"
    BY <2>3, <2>5, <2>6, RunsOrEnded DEF Zombies
  <2> QED BY <2>2, <2>3, <2>7 DEF still_running
<1> QED BY <1>2, <1>3

\* check_jobs reports the command that has ended, with its status, and calls
\* running only what runs, whatever signals arrive between its steps.
THEOREM ReportsRight == Spec => ReportsTrue
<1> DEFINE A ==
      ~fork_failed =>
        /\ \A p \in Pids : Reaped(p) /\ pc = "check" =>
             /\ output'.kind \in {"complete", "status"}
             /\ output'.command = Join(proc[p].args, SPACE)
             /\ output'.code = WEXITSTATUS(proc[p].status)
        /\ pc = "check" /\ j' = j + 1 =>
             /\ output'.kind = "running"
             /\ proc[jobs[j].pid].state = "running"
             /\ output'.command = Join(proc[jobs[j].pid].args, SPACE)
<1>1. IInv /\ [Next]_vars => [A]_vars
  BY ReportStep
<1> HIDE DEF A
<1>2. Spec => [][A]_vars
  BY <1>1, InvariantHolds, PTL DEF Spec
<1> QED
  BY <1>2 DEF ReportsTrue, A
=============================================================================
