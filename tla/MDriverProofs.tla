--------------------------- MODULE MDriverProofs ---------------------------
(***************************************************************************)
(* Proofs about the driver, for all traces and whatever the allocator      *)
(* answers: its range list is that of the live payloads, and overlaps only *)
(* as add_range lets it; it blames no correct allocator; and in all        *)
(* replays it has the blocks that are out.                                 *)
(***************************************************************************)
EXTENDS MDriver, FiniteSetTheorems, SequenceTheorems, TLAPS

-----------------------------------------------------------------------------
(* Traces *)

\* A trace is a sequence of requests as read_trace leaves them.
LEMMA TraceFacts ==
  ASSUME NEW t \in Traces
  PROVE  /\ t \in Seq([type : OpTypes, index : Nat, size : Nat])
         /\ Len(t) \in Nat /\ DOMAIN t = 1 .. Len(t)
         /\ \A k \in DOMAIN t :
              /\ t[k].type \in OpTypes /\ t[k].index \in Nat /\ t[k].size \in Nat
              /\ t[k].index \in Indices
              /\ (t[k].type = "ALLOC") <=> (t[k].index \notin LiveAfter(t, k - 1))
              /\ t[k].type # "FREE" => t[k].size > 0
<1>1. t \in Seq([type : OpTypes, index : Nat, size : Nat])
  BY MDriverAssumption
<1> DEFINE R == [type : OpTypes, index : Nat, size : Nat]
<1>2. /\ Len(t) \in Nat /\ DOMAIN t = 1 .. Len(t)
      /\ \A k \in DOMAIN t : t[k] \in R
  <2> HIDE DEF R
  <2>1. t \in Seq(R)
    BY <1>1 DEF R
  <2> QED BY <2>1
<1>3. \A k \in DOMAIN t : t[k].index \in Indices
  BY DEF Indices
<1>4. ASSUME NEW k \in DOMAIN t
      PROVE  /\ t[k].type \in OpTypes /\ t[k].index \in Nat /\ t[k].size \in Nat
             /\ (t[k].type = "ALLOC") <=> (t[k].index \notin LiveAfter(t, k - 1))
             /\ t[k].type # "FREE" => t[k].size > 0
  <2>1. /\ (t[k].type = "ALLOC") <=> (t[k].index \notin LiveAfter(t, k - 1))
        /\ t[k].type # "FREE" => t[k].size > 0
    BY MDriverAssumption
  <2> QED BY <1>2, <2>1
<1> QED
  BY <1>1, <1>2, <1>3, <1>4

\* No request has been executed before the first.
LEMMA NoneLive ==
  ASSUME NEW t \in Traces
  PROVE  LiveAfter(t, 0) = {}
  BY DEF LiveAfter, Executed

\* k is the last of the first n requests for x.
IsLast(t, n, x, k) == k \in Executed(t, n, x) /\ \A q \in Executed(t, n, x) : q <= k

\* A request's block is live when the last request for its index is no free, and
\* its size is the one that that request has asked for.
LEMMA LiveByLast ==
  ASSUME NEW t \in Traces, NEW n \in 0 .. Len(t)
  PROVE  /\ \A x : (x \in LiveAfter(t, n)) <=> (\E k : IsLast(t, n, x, k) /\ t[k].type # "FREE")
         /\ \A x, k, l : IsLast(t, n, x, k) /\ IsLast(t, n, x, l) => k = l
         /\ \A x, k : IsLast(t, n, x, k) => /\ k \in 1 .. n /\ k \in DOMAIN t
                                            /\ SizeAfter(t, n, x) = t[k].size
<1>1. n \in Nat /\ 1 .. n \subseteq DOMAIN t
  BY TraceFacts
<1>2. \A x, k : k \in Executed(t, n, x) => k \in 1 .. n /\ k \in DOMAIN t /\ t[k].index = x
  BY <1>1 DEF Executed
<1>3. \A x, k, l : IsLast(t, n, x, k) /\ IsLast(t, n, x, l) => k = l
  BY <1>1, <1>2 DEF IsLast
<1>4. ASSUME NEW x, NEW k, IsLast(t, n, x, k) PROVE SizeAfter(t, n, x) = t[k].size
  <2> DEFINE last == CHOOSE l \in Executed(t, n, x) : \A q \in Executed(t, n, x) : q <= l
  <2>1. IsLast(t, n, x, last)
    BY <1>4 DEF IsLast
  <2>2. last = k
    BY <2>1, <1>3, <1>4
  <2> QED BY <2>2 DEF SizeAfter
<1>5. ASSUME NEW x, NEW k \in Executed(t, n, x) PROVE x \in Indices
  <2>1. k \in DOMAIN t /\ t[k].index = x
    BY <1>2
  <2> QED BY <2>1, TraceFacts
<1>6. ASSUME NEW x
      PROVE x \in LiveAfter(t, n) <=> \E k : IsLast(t, n, x, k) /\ t[k].type # "FREE"
  BY <1>5 DEF LiveAfter, IsLast
<1>7. \A x, k : IsLast(t, n, x, k) => k \in 1 .. n /\ k \in DOMAIN t
  BY <1>2 DEF IsLast
<1> HIDE DEF IsLast
<1> QED
  BY <1>3, <1>4, <1>6, <1>7

\* The next request is the last one for its index, and of no other.
LEMMA NextRequest ==
  ASSUME NEW t \in Traces, NEW n \in 0 .. Len(t) - 1, NEW x, NEW k
  PROVE  IsLast(t, n + 1, x, k) <=>
           IF x = t[n + 1].index THEN k = n + 1 ELSE IsLast(t, n, x, k)
<1>1. n \in Nat /\ n + 1 \in DOMAIN t
  BY TraceFacts
<1>2. Executed(t, n + 1, x) = Executed(t, n, x) \union
                                (IF x = t[n + 1].index THEN {n + 1} ELSE {})
  BY <1>1 DEF Executed
<1>3. \A q \in Executed(t, n, x) : q \in Int /\ q < n + 1
  BY <1>1 DEF Executed
<1>4. CASE x = t[n + 1].index
  BY <1>1, <1>2, <1>3, <1>4 DEF IsLast
<1>5. CASE x # t[n + 1].index
  BY <1>2, <1>5 DEF IsLast
<1> QED
  BY <1>4, <1>5

\* What is live and how large, after one more request.
LEMMA LiveNext ==
  ASSUME NEW t \in Traces, NEW n \in 0 .. Len(t) - 1
  PROVE  /\ LiveAfter(t, n + 1) = IF t[n + 1].type = "FREE"
                                  THEN LiveAfter(t, n) \ {t[n + 1].index}
                                  ELSE LiveAfter(t, n) \union {t[n + 1].index}
         /\ SizeAfter(t, n + 1, t[n + 1].index) = t[n + 1].size
         /\ \A x \in LiveAfter(t, n) :
              x # t[n + 1].index => SizeAfter(t, n + 1, x) = SizeAfter(t, n, x)
<1>1. n \in 0 .. Len(t) /\ n + 1 \in 0 .. Len(t)
  BY TraceFacts
<1>2. ASSUME NEW x
      PROVE  x \in LiveAfter(t, n + 1) <=>
               IF x = t[n + 1].index THEN t[n + 1].type # "FREE"
               ELSE x \in LiveAfter(t, n)
  <2>1. \A k : IsLast(t, n + 1, x, k) <=>
                 IF x = t[n + 1].index THEN k = n + 1 ELSE IsLast(t, n, x, k)
    BY NextRequest
  <2>2. x \in LiveAfter(t, n + 1) <=> \E k : IsLast(t, n + 1, x, k) /\ t[k].type # "FREE"
    BY <1>1, LiveByLast
  <2>3. x \in LiveAfter(t, n) <=> \E k : IsLast(t, n, x, k) /\ t[k].type # "FREE"
    BY <1>1, LiveByLast
  <2> QED BY <2>1, <2>2, <2>3
<1>3. SizeAfter(t, n + 1, t[n + 1].index) = t[n + 1].size
  <2>1. IsLast(t, n + 1, t[n + 1].index, n + 1)
    BY NextRequest
  <2> QED BY <2>1, <1>1, LiveByLast
<1>4. ASSUME NEW x \in LiveAfter(t, n), x # t[n + 1].index
      PROVE  SizeAfter(t, n + 1, x) = SizeAfter(t, n, x)
  <2>1. PICK k : IsLast(t, n, x, k)
    BY <1>1, LiveByLast
  <2>2. IsLast(t, n + 1, x, k)
    BY <2>1, <1>4, NextRequest
  <2> QED BY <2>1, <2>2, <1>1, LiveByLast
<1> QED BY <1>2, <1>3, <1>4

\* What is live has a size, and there is only so much of it.
LEMMA LiveFacts ==
  ASSUME NEW t \in Traces, NEW n \in 0 .. Len(t)
  PROVE  /\ LiveAfter(t, n) \subseteq Indices
         /\ \A x \in LiveAfter(t, n) : SizeAfter(t, n, x) \in Nat \ {0}
         /\ IsFiniteSet(LiveAfter(t, n))
<1>1. LiveAfter(t, n) \subseteq Indices
  BY DEF LiveAfter
<1>2. ASSUME NEW x \in LiveAfter(t, n) PROVE SizeAfter(t, n, x) \in Nat \ {0}
  <2>1. PICK k : IsLast(t, n, x, k) /\ t[k].type # "FREE"
    BY LiveByLast
  <2>2. k \in DOMAIN t /\ SizeAfter(t, n, x) = t[k].size
    BY <2>1, LiveByLast
  <2> QED BY <2>1, <2>2, TraceFacts
<1>3. IsFiniteSet(LiveAfter(t, n))
  <2> DEFINE f == [k \in 1 .. n |-> t[k].index]
             T == {t[k].index : k \in 1 .. n}
  <2>1. f \in Surjection(1 .. n, T)
    BY DEF Surjection
  <2>2. IsFiniteSet(1 .. n)
    BY FS_Interval
  <2>3. IsFiniteSet(T)
    BY <2>1, <2>2, FS_Surjection
  <2>4. LiveAfter(t, n) \subseteq T
    BY DEF LiveAfter, Executed
  <2> QED BY <2>3, <2>4, FS_Subset
<1> QED BY <1>1, <1>2, <1>3
-----------------------------------------------------------------------------
(* The range list *)

Removed(s, k) == SubSeq(s, 1, k - 1) \o SubSeq(s, k + 1, Len(s))

\* A list without its k-th element has the others, each once.
LEMMA Without ==
  ASSUME NEW T, NEW s \in Seq(T), NEW k \in 1 .. Len(s)
  PROVE  /\ Removed(s, k) \in Seq(T) /\ Len(Removed(s, k)) = Len(s) - 1
         /\ \A n \in 1 .. Len(s) - 1 :
              Removed(s, k)[n] = IF n < k THEN s[n] ELSE s[n + 1]
<1> DEFINE u == SubSeq(s, 1, k - 1)
           v == SubSeq(s, k + 1, Len(s))
           w == Removed(s, k)
<1>1. Len(s) \in Nat /\ k \in Nat
  OBVIOUS
<1>2. u \in Seq(T) /\ Len(u) = k - 1 /\ \A n \in 1 .. k - 1 : u[n] = s[n]
  BY <1>1
<1>3. /\ v \in Seq(T) /\ Len(v) = Len(s) - k
      /\ \A n \in 1 .. Len(s) - k : v[n] = s[k + n]
  BY <1>1
<1> HIDE DEF u, v, w
<1>4. /\ w \in Seq(T) /\ Len(w) = Len(u) + Len(v)
      /\ \A n \in 1 .. Len(w) : w[n] = IF n <= Len(u) THEN u[n] ELSE v[n - Len(u)]
  <2>1. w = u \o v
    BY DEF u, v, w, Removed
  <2>2. /\ Len(u \o v) = Len(u) + Len(v)
        /\ \A n \in 1 .. Len(u) + Len(v) :
             (u \o v)[n] = IF n <= Len(u) THEN u[n] ELSE v[n - Len(u)]
    BY <1>2, <1>3, ConcatProperties
  <2>3. u \o v \in Seq(T)
    BY <1>2, <1>3
  <2> QED BY <2>1, <2>2, <2>3
<1>5. Len(w) = Len(s) - 1
  BY <1>1, <1>2, <1>3, <1>4
<1>6. ASSUME NEW n \in 1 .. Len(s) - 1 PROVE w[n] = IF n < k THEN s[n] ELSE s[n + 1]
  <2>1. CASE n < k
    BY <2>1, <1>1, <1>2, <1>4, <1>5
  <2>2. CASE ~(n < k)
    <3>1. w[n] = v[n - (k - 1)]
      BY <2>2, <1>1, <1>2, <1>4, <1>5
    <3>2. n - (k - 1) \in 1 .. Len(s) - k /\ k + (n - (k - 1)) = n + 1
      BY <2>2, <1>1, <1>5
    <3> QED BY <2>2, <3>1, <3>2, <1>3
  <2> QED BY <2>1, <2>2
<1> QED
  BY <1>4, <1>5, <1>6 DEF w

\* A list with a new head.
LEMMA Pushed ==
  ASSUME NEW T, NEW s \in Seq(T), NEW h \in T, NEW w, w = <<h>> \o s
  PROVE  /\ w \in Seq(T) /\ Len(w) = Len(s) + 1 /\ w[1] = h
         /\ \A n \in 1 .. Len(s) : w[n + 1] = s[n]
  OBVIOUS

\* The later range q and the earlier one r are apart, or q encloses r.
ApartOrAround(q, r) ==
  q.hi < r.lo \/ r.hi < q.lo \/ (q.lo < r.lo /\ r.hi < q.hi)

InBuffer(r) == 0 <= r.lo /\ r.lo <= r.hi /\ r.hi < MAX_HEAP

ListOK(rs) ==
  /\ rs \in Seq(Ranges)
  /\ \A k \in 1 .. Len(rs) : InBuffer(rs[k])
  /\ \A j, k \in 1 .. Len(rs) : j < k => ApartOrAround(rs[j], rs[k])

Elements(rs) == {rs[k] : k \in 1 .. Len(rs)}

\* The records of a range list have ends that are numbers, and no two of them
\* start at the same address.
LEMMA ListFacts ==
  ASSUME NEW rs, ListOK(rs)
  PROVE  /\ Len(rs) \in Nat /\ DOMAIN rs = 1 .. Len(rs)
         /\ \A k \in 1 .. Len(rs) : rs[k] \in Ranges /\ rs[k].lo \in Int /\ rs[k].hi \in Int
         /\ \A j, k \in 1 .. Len(rs) : rs[j].lo = rs[k].lo => j = k
<1>1. /\ Len(rs) \in Nat /\ DOMAIN rs = 1 .. Len(rs)
      /\ \A k \in 1 .. Len(rs) : rs[k] \in Ranges
  BY DEF ListOK
<1>2. \A k \in 1 .. Len(rs) : rs[k].lo \in Int /\ rs[k].hi \in Int
  BY <1>1 DEF Ranges
<1>3. ASSUME NEW j \in 1 .. Len(rs), NEW k \in 1 .. Len(rs), j < k
      PROVE  rs[j].lo # rs[k].lo
  BY <1>2, <1>3 DEF ListOK, ApartOrAround, InBuffer
<1> QED
  BY <1>1, <1>2, <1>3

\* What clear_ranges leaves is a range list.
LEMMA EmptyList ==
  ASSUME NEW rs, rs = <<>>
  PROVE  ListOK(rs) /\ Elements(rs) = {} /\ Len(rs) = 0
<1>1. rs \in Seq(Ranges) /\ Len(rs) = 0
  OBVIOUS
<1> QED BY <1>1 DEF ListOK, Elements

\* add_range, when it finds nothing wrong, adds the payload and keeps a range list.
LEMMA AddKeeps ==
  ASSUME NEW rs, ListOK(rs), NEW lo \in Int, NEW size \in Nat \ {0},
         NEW hs \in 0 .. MAX_HEAP, add_range_ok(rs, lo, size, hs)
  PROVE  LET w == add_range(rs, lo, size)
         IN  /\ ListOK(w) /\ Len(w) = Len(rs) + 1
             /\ Elements(w) = Elements(rs) \union {range(lo, size)}
             /\ \A r \in Elements(rs) : r.lo # lo
<1> DEFINE h == range(lo, size)
           w == add_range(rs, lo, size)
<1>1. h \in Ranges /\ h.lo = lo /\ h.hi = lo + size - 1 /\ InBuffer(h)
  <2>1. h \in Ranges /\ h.lo = lo /\ h.hi = lo + size - 1
    BY DEF range, Ranges
  <2>2. MAX_HEAP \in Nat
    BY MDriverAssumption
  <2> QED BY <2>1, <2>2 DEF add_range_ok, InBuffer
<1>2. /\ rs \in Seq(Ranges)
      /\ \A k \in 1 .. Len(rs) : InBuffer(rs[k])
      /\ \A j, k \in 1 .. Len(rs) : j < k => ApartOrAround(rs[j], rs[k])
  BY DEF ListOK
<1>3. w = <<h>> \o rs
  BY DEF add_range
<1> HIDE DEF h, w
<1>4. /\ w \in Seq(Ranges) /\ Len(w) = Len(rs) + 1 /\ w[1] = h
      /\ \A n \in 1 .. Len(rs) : w[n + 1] = rs[n]
  BY <1>1, <1>2, <1>3, Pushed
<1>5. ASSUME NEW k \in 1 .. Len(rs)
      PROVE  ApartOrAround(h, rs[k]) /\ rs[k].lo # lo
  <2>1. ~overlaps(lo, lo + size - 1, rs[k])
    BY ListFacts DEF add_range_ok
  <2>2. rs[k].lo \in Int /\ rs[k].hi \in Int /\ rs[k].lo <= rs[k].hi
    BY ListFacts, <1>2 DEF InBuffer
  <2> QED BY <1>1, <2>1, <2>2 DEF overlaps, ApartOrAround
<1>6. Len(rs) \in Nat
  BY ListFacts
<1>7. ASSUME NEW k \in 1 .. Len(w)
      PROVE  \/ k = 1 /\ w[k] = h
             \/ k - 1 \in 1 .. Len(rs) /\ w[k] = rs[k - 1]
  <2>1. CASE k = 1
    BY <1>4, <2>1
  <2>2. CASE k # 1
    <3>1. k - 1 \in 1 .. Len(rs) /\ (k - 1) + 1 = k
      BY <1>4, <1>6, <2>2
    <3> QED BY <3>1, <1>4
  <2> QED BY <2>1, <2>2
<1>8. ListOK(w)
  <2>1. \A k \in 1 .. Len(w) : InBuffer(w[k])
    BY <1>1, <1>2, <1>7
  <2>2. ASSUME NEW j \in 1 .. Len(w), NEW k \in 1 .. Len(w), j < k
        PROVE  ApartOrAround(w[j], w[k])
    <3>1. k - 1 \in 1 .. Len(rs) /\ w[k] = rs[k - 1]
      BY <2>2, <1>7
    <3>2. CASE j = 1
      BY <3>1, <3>2, <1>4, <1>5
    <3>3. CASE j # 1
      <4>1. j - 1 \in 1 .. Len(rs) /\ w[j] = rs[j - 1] /\ j - 1 < k - 1
        BY <3>3, <1>7, <2>2
      <4> QED BY <3>1, <4>1, <1>2
    <3> QED BY <3>2, <3>3
  <2> QED BY <1>4, <2>1, <2>2 DEF ListOK
<1>9. Elements(w) = Elements(rs) \union {h}
  <2>1. Elements(w) \subseteq Elements(rs) \union {h}
    BY <1>7 DEF Elements
  <2>2. \A n \in 1 .. Len(rs) : n + 1 \in 1 .. Len(w) /\ w[n + 1] = rs[n]
    BY <1>4, <1>6
  <2>3. 1 \in 1 .. Len(w)
    BY <1>4, <1>6
  <2>4. h \in Elements(w)
    BY <2>3, <1>4 DEF Elements
  <2>5. ASSUME NEW n \in 1 .. Len(rs) PROVE rs[n] \in Elements(w)
    BY <2>2 DEF Elements
  <2>6. Elements(rs) \subseteq Elements(w)
    BY <2>5 DEF Elements
  <2> QED BY <2>1, <2>4, <2>6
<1> QED
  BY <1>4, <1>5, <1>8, <1>9 DEF h, w, Elements

\* remove_range keeps a range list, and takes away the record that starts at lo.
LEMMA RemoveKeeps ==
  ASSUME NEW rs, ListOK(rs), NEW lo
  PROVE  LET w == remove_range(rs, lo)
         IN  /\ ListOK(w)
             /\ \A r \in Elements(rs) : r.lo = lo =>
                  Len(w) = Len(rs) - 1 /\ Elements(w) = Elements(rs) \ {r}
<1> DEFINE w == remove_range(rs, lo)
<1>0. Len(rs) \in Nat /\ DOMAIN rs = 1 .. Len(rs)
  BY ListFacts
<1>1. CASE \A k \in 1 .. Len(rs) : rs[k].lo # lo
  <2>1. w = rs
    BY <1>0, <1>1 DEF remove_range
  <2> QED BY <2>1, <1>1 DEF Elements
<1>2. ASSUME NEW k \in 1 .. Len(rs), rs[k].lo = lo
      PROVE  /\ ListOK(w) /\ Len(w) = Len(rs) - 1
             /\ Elements(w) = Elements(rs) \ {rs[k]}
  <2> DEFINE found(n) == rs[n].lo = lo /\ \A j \in 1 .. n - 1 : rs[j].lo # lo
  <2>1. \A n \in 1 .. Len(rs) : found(n) <=> n = k
    BY <1>0, <1>2, ListFacts
  <2>2. (CHOOSE n \in DOMAIN rs : found(n)) = k
    <3> HIDE DEF found
    <3> QED BY <1>0, <2>1
  <2>3. w = Removed(rs, k)
    BY <1>0, <1>2, <2>2 DEF remove_range, Removed
  <2> HIDE DEF w
  <2>4. /\ rs \in Seq(Ranges)
        /\ \A n \in 1 .. Len(rs) : InBuffer(rs[n])
        /\ \A j, n \in 1 .. Len(rs) : j < n => ApartOrAround(rs[j], rs[n])
    BY DEF ListOK
  <2>5. /\ w \in Seq(Ranges) /\ Len(w) = Len(rs) - 1
        /\ \A n \in 1 .. Len(rs) - 1 : w[n] = IF n < k THEN rs[n] ELSE rs[n + 1]
    BY <2>3, <2>4, Without
  <2> DEFINE old(n) == IF n < k THEN n ELSE n + 1
  <2>6. \A n \in 1 .. Len(w) : /\ old(n) \in 1 .. Len(rs) /\ old(n) # k
                               /\ w[n] = rs[old(n)]
    BY <1>0, <2>5, SMTT(30)
  <2>7. \A j, n \in 1 .. Len(w) : j < n => old(j) < old(n)
    BY <1>0, <2>5
  <2>8. \A m \in 1 .. Len(rs) : m # k => \E n \in 1 .. Len(w) : old(n) = m
    <3> SUFFICES ASSUME NEW m \in 1 .. Len(rs), m # k
                 PROVE  \E n \in 1 .. Len(w) : old(n) = m
      OBVIOUS
    <3>1. CASE m < k
      BY <3>1, <1>0, <2>5
    <3>2. CASE m > k
      <4>1. m - 1 \in 1 .. Len(w) /\ old(m - 1) = m
        BY <3>2, <1>0, <2>5
      <4> QED BY <4>1
    <3> QED BY <3>1, <3>2
  <2> HIDE DEF old
  <2>9. ListOK(w)
    <3>1. \A n \in 1 .. Len(w) : InBuffer(w[n])
      BY <2>4, <2>6
    <3>2. \A j, n \in 1 .. Len(w) : j < n => ApartOrAround(w[j], w[n])
      BY <2>4, <2>6, <2>7
    <3> QED BY <2>5, <3>1, <3>2 DEF ListOK
  <2>10. Elements(w) = Elements(rs) \ {rs[k]}
    <3>1. \A n \in 1 .. Len(rs) : rs[n] = rs[k] => n = k
      BY ListFacts
    <3>2. ASSUME NEW n \in 1 .. Len(w)
          PROVE  w[n] \in Elements(rs) /\ w[n] # rs[k]
      <4>1. old(n) \in 1 .. Len(rs) /\ old(n) # k /\ w[n] = rs[old(n)]
        BY <2>6
      <4> QED BY <4>1, <3>1 DEF Elements
    <3>3. ASSUME NEW m \in 1 .. Len(rs), rs[m] # rs[k]
          PROVE  rs[m] \in Elements(w)
      <4>1. m # k
        BY <3>3
      <4>2. PICK n \in 1 .. Len(w) : old(n) = m
        BY <4>1, <2>8
      <4> QED BY <4>2, <2>6 DEF Elements
    <3>4. Elements(w) \subseteq Elements(rs) \ {rs[k]}
      BY <3>2 DEF Elements
    <3>5. Elements(rs) \ {rs[k]} \subseteq Elements(w)
      BY <3>3 DEF Elements
    <3> QED BY <3>4, <3>5
  <2> QED BY <2>5, <2>9, <2>10
<1> HIDE DEF w
<1>3. CASE \E k \in 1 .. Len(rs) : rs[k].lo = lo
  <2>1. PICK k \in 1 .. Len(rs) : rs[k].lo = lo
    BY <1>3
  <2>2. \A r \in Elements(rs) : r.lo = lo => r = rs[k]
    BY <2>1, ListFacts DEF Elements
  <2>3. /\ ListOK(w) /\ Len(w) = Len(rs) - 1
        /\ Elements(w) = Elements(rs) \ {rs[k]}
    BY <2>1, <1>2
  <2> QED BY <2>2, <2>3 DEF w
<1> QED
  BY <1>1, <1>3 DEF w
-----------------------------------------------------------------------------
(* The invariant *)

Replaying == phase \in {"valid", "util", "speed", "libc_valid", "libc_speed"}

Size(x) == SizeAfter(trace, i, x)
Payload(x) == payload(blocks[x], Size(x))
Used == UNION {Payload(x) : x \in Live}

\* No block has been handed out twice.
BlocksDiffer ==
  \A x \in Live :
    blocks[x] \in Pointers /\ \A y \in Live : blocks[x] = blocks[y] => x = y

RangesRight ==
  /\ Elements(ranges) = {range(blocks[x], block_sizes[x]) : x \in Live}
  /\ Len(ranges) = Cardinality(Live)

\* The payloads are in the heap and apart.
Placed ==
  \A x \in Live :
    /\ Payload(x) \subseteq 0 .. heapsize - 1
    /\ \A y \in Live : x # y => Payload(x) \intersect Payload(y) = {}

HeldRight == held = {blocks[x] : x \in Live}

\* Each holds the byte that it was filled with.
Filled == \A x \in Live : \A a \in Payload(x) : mem[a] = low_byte(x)

SizesRight == \A x \in Live : block_sizes[x] = Size(x)

\* What is counted is what is used.
Counted == total_size = Cardinality(Used)

IInv ==
  /\ TypeOK
  /\ phase = "start" => i = 0
  /\ ListOK(ranges)
  /\ phase = "valid" => RangesRight /\ BlocksDiffer
  /\ Replaying /\ honest => BlocksDiffer /\ HeldRight
  /\ phase \in {"valid", "util", "speed"} /\ honest => Placed
  /\ phase \in {"valid", "util"} => SizesRight
  /\ phase = "valid" /\ honest => Filled
  /\ phase = "util" /\ honest => Counted
  /\ NoFalseAlarm /\ UtilizationAtMostOne

\* A step that allocates ptr for the next request, or takes back its block.
Take(ptr) ==
  /\ i < Len(trace) /\ op.type # "FREE"
  /\ ptr \in Pointers
  /\ UNCHANGED trace /\ i' = i + 1
  /\ blocks' = [blocks EXCEPT ![op.index] = ptr]

Give ==
  /\ i < Len(trace) /\ op.type = "FREE"
  /\ UNCHANGED <<trace, blocks>> /\ i' = i + 1

Others == Live \ {op.index}

\* An address is a number, and NULL is none.
LEMMA PointerFacts ==
  /\ Pointers \subseteq Int /\ NULL \notin Pointers
  /\ Buffer \subseteq Pointers /\ MAX_HEAP \in Nat
  BY MDriverAssumption DEF Pointers, Buffer

\* What is known of the next request: it allocates what is not live, and
\* reallocates or frees what is.
LEMMA OpFacts ==
  ASSUME TypeOK, i < Len(trace)
  PROVE  /\ trace \in Traces /\ i \in 0 .. Len(trace) - 1 /\ i + 1 \in 1 .. Len(trace)
         /\ op.type \in OpTypes /\ op.index \in Nat /\ op.index \in Indices
         /\ op.size \in Nat
         /\ (op.type = "ALLOC") <=> (op.index \notin Live)
         /\ op.type # "FREE" => op.size \in Nat \ {0}
<1>1. trace \in Traces /\ i \in 0 .. Len(trace)
  BY DEF TypeOK
<1>2. /\ i \in 0 .. Len(trace) - 1 /\ i + 1 \in 1 .. Len(trace) /\ i + 1 \in DOMAIN trace
      /\ (i + 1) - 1 = i
  BY <1>1, TraceFacts
<1>3. /\ op.type \in OpTypes /\ op.index \in Nat /\ op.index \in Indices /\ op.size \in Nat
      /\ (op.type = "ALLOC") <=> (op.index \notin LiveAfter(trace, (i + 1) - 1))
      /\ op.type # "FREE" => op.size > 0
  BY <1>1, <1>2, TraceFacts DEF op
<1> QED
  BY <1>1, <1>2, <1>3 DEF Live

\* What is live now has a size, and there is only so much of it.
LEMMA NowLive ==
  ASSUME TypeOK
  PROVE  /\ Live \subseteq Indices /\ IsFiniteSet(Live)
         /\ \A x \in Live : Size(x) \in Nat \ {0}
  BY LiveFacts DEF TypeOK, Live, Size

\* A request that allocates ptr: its block is live, all others are as they were.
LEMMA TakeFacts ==
  ASSUME TypeOK, NEW ptr, Take(ptr), NEW x, x = op.index
  PROVE  /\ x \in Indices /\ op.size \in Nat \ {0}
         /\ Live' = Others \union {x} /\ x \notin Others
         /\ blocks'[x] = ptr
         /\ Payload(x)' = payload(ptr, op.size) /\ Size(x)' = op.size
         /\ \A y \in Others : /\ y \in Live /\ y \in Indices /\ y # x
                              /\ blocks'[y] = blocks[y] /\ Size(y)' = Size(y)
                              /\ Payload(y)' = Payload(y)
         /\ (op.type = "ALLOC") <=> (x \notin Live)
<1>1. /\ trace \in Traces /\ i \in 0 .. Len(trace) - 1 /\ x \in Indices
      /\ op.size \in Nat \ {0}
      /\ (op.type = "ALLOC") <=> (x \notin Live)
  BY OpFacts DEF Take
<1>2. /\ Live' = LiveAfter(trace, i + 1)
      /\ \A y : Size(y)' = SizeAfter(trace, i + 1, y)
  BY DEF Take, Live, Size
<1>3. /\ LiveAfter(trace, i + 1) = Live \union {x}
      /\ SizeAfter(trace, i + 1, x) = op.size
      /\ \A y \in Live : y # x => SizeAfter(trace, i + 1, y) = Size(y)
  BY <1>1, LiveNext DEF Take, op, Live, Size
<1>4. blocks \in [Indices -> Pointers \union {NULL}] /\ Live \subseteq Indices
  BY NowLive DEF TypeOK
<1>5. blocks'[x] = ptr /\ \A y \in Live : y # x => blocks'[y] = blocks[y]
  BY <1>1, <1>4 DEF Take
<1>6. ASSUME NEW y \in Others
      PROVE  /\ y \in Live /\ y \in Indices /\ y # x
             /\ blocks'[y] = blocks[y] /\ Size(y)' = Size(y) /\ Payload(y)' = Payload(y)
  <2>1. /\ y \in Live /\ y # x /\ y \in Indices /\ blocks'[y] = blocks[y]
        /\ Size(y)' = Size(y)
    BY <1>2, <1>3, <1>4, <1>5 DEF Others
  <2> QED BY <2>1 DEF Payload
<1>7. Payload(x)' = payload(ptr, op.size) /\ Size(x)' = op.size
  <2>1. Size(x)' = op.size
    BY <1>2, <1>3
  <2> QED BY <2>1, <1>5 DEF Payload
<1>8. Live' = Others \union {x} /\ x \notin Others
  BY <1>2, <1>3 DEF Others
<1> QED
  BY <1>1, <1>5, <1>6, <1>7, <1>8

\* A request that frees: its block is not live any more, all others are as they
\* were.
LEMMA GiveFacts ==
  ASSUME TypeOK, Give
  PROVE  /\ op.index \in Live /\ Live' = Others
         /\ \A y \in Others : /\ y \in Live /\ y # op.index
                              /\ blocks'[y] = blocks[y] /\ Size(y)' = Size(y)
                              /\ Payload(y)' = Payload(y)
<1> DEFINE x == op.index
<1>1. /\ trace \in Traces /\ i \in 0 .. Len(trace) - 1
      /\ (op.type = "ALLOC") <=> (x \notin Live)
  BY OpFacts DEF Give
<1>2. /\ Live' = LiveAfter(trace, i + 1)
      /\ \A y : Size(y)' = SizeAfter(trace, i + 1, y)
  BY DEF Give, Live, Size
<1>3. /\ LiveAfter(trace, i + 1) = Live \ {x}
      /\ \A y \in Live : y # x => SizeAfter(trace, i + 1, y) = Size(y)
  BY <1>1, LiveNext DEF Give, op, Live, Size
<1>4. x \in Live
  BY <1>1 DEF Give
<1>5. ASSUME NEW y \in Others
      PROVE  /\ y \in Live /\ y # x /\ blocks'[y] = blocks[y]
             /\ Size(y)' = Size(y) /\ Payload(y)' = Payload(y)
  <2>1. y \in Live /\ y # x /\ blocks'[y] = blocks[y] /\ Size(y)' = Size(y)
    BY <1>2, <1>3 DEF Give, Others
  <2> QED BY <2>1 DEF Payload
<1> QED
  BY <1>2, <1>3, <1>4, <1>5 DEF Others
-----------------------------------------------------------------------------
(* What a correct answer amounts to *)

\* What an answer is in a state: ptr for the next request, next to the others.
Answer(ptr, hs) == Correct(ptr, op.size, hs, Others)

\* A block that has some bytes is at the first of them.
LEMMA PayloadFacts ==
  ASSUME NEW lo \in Int, NEW size \in Nat \ {0}
  PROVE  /\ lo \in payload(lo, size) /\ lo + size - 1 \in payload(lo, size)
         /\ payload(lo, size) \subseteq Int
         /\ \A a \in Int : a \in payload(lo, size) <=> lo <= a /\ a <= lo + size - 1
         /\ IsFiniteSet(payload(lo, size)) /\ Cardinality(payload(lo, size)) = size
<1>1. /\ lo \in payload(lo, size) /\ lo + size - 1 \in payload(lo, size)
      /\ payload(lo, size) \subseteq Int
      /\ \A a \in Int : a \in payload(lo, size) <=> lo <= a /\ a <= lo + size - 1
  BY DEF payload
<1>2. IsFiniteSet(payload(lo, size)) /\ Cardinality(payload(lo, size)) = size
  BY FS_Interval DEF payload
<1> QED BY <1>1, <1>2

\* A larger heap has the bytes of the smaller one.
LEMMA Grows ==
  ASSUME NEW m \in Int, NEW n \in Int, m <= n
  PROVE  0 .. m - 1 \subseteq 0 .. n - 1
  OBVIOUS

\* The heap is within the memory that memlib has.
LEMMA HeapInBuffer ==
  ASSUME NEW hs \in 0 .. MAX_HEAP
  PROVE  0 .. hs - 1 \subseteq Buffer
<1>1. hs \in Int /\ MAX_HEAP \in Int /\ hs <= MAX_HEAP
  BY PointerFacts
<1> QED BY <1>1, Grows DEF Buffer

\* The j-th byte of a payload.
LEMMA InPayload ==
  ASSUME NEW lo \in Int, NEW size \in Nat \ {0}, NEW j \in Int, 0 <= j, j <= size - 1
  PROVE  lo + j \in payload(lo, size)
  BY DEF payload

\* A payload of fewer bytes at the same place.
LEMMA PayloadGrows ==
  ASSUME NEW lo \in Int, NEW n \in Nat \ {0}, NEW size \in Nat \ {0}, n <= size
  PROVE  payload(lo, n) \subseteq payload(lo, size)
  BY DEF payload

\* What does not reach into a range at either end does not overlap it, as
\* overlaps sees it.
LEMMA ApartAccepted ==
  ASSUME NEW lo \in Int, NEW hi \in Int, NEW old \in Int, NEW size \in Nat \ {0},
         lo \notin payload(old, size), hi \notin payload(old, size)
  PROVE  ~overlaps(lo, hi, range(old, size))
<1>1. ~(lo >= old /\ lo <= old + size - 1) /\ ~(hi >= old /\ hi <= old + size - 1)
  BY PayloadFacts
<1>2. range(old, size).lo = old /\ range(old, size).hi = old + size - 1
  BY DEF range
<1> QED BY <1>1, <1>2 DEF overlaps

\* A correct answer is not the address of another live block.
LEMMA AnswerIsNew ==
  ASSUME TypeOK, BlocksDiffer, NEW ptr, Take(ptr), NEW hs, Answer(ptr, hs),
         NEW y \in Others
  PROVE  ptr # blocks[y]
<1>1. y \in Live /\ Size(y) \in Nat \ {0} /\ blocks[y] \in Pointers
  BY NowLive DEF Others, BlocksDiffer
<1>2. ptr \in Int /\ blocks[y] \in Int /\ op.size \in Nat \ {0}
  BY <1>1, PointerFacts, TakeFacts DEF Take
<1>3. payload(ptr, op.size) \intersect payload(blocks[y], Size(y)) = {}
  BY DEF Answer, Correct, Size
<1> QED
  BY <1>1, <1>2, <1>3, PayloadFacts

\* A block at a new address keeps the live blocks apart.
LEMMA TakeDiffer ==
  ASSUME TypeOK, BlocksDiffer, NEW ptr, Take(ptr), \A y \in Others : ptr # blocks[y]
  PROVE  BlocksDiffer'
<1> DEFINE x == op.index
<1>1. /\ Live' = Others \union {x} /\ blocks'[x] = ptr
      /\ \A y \in Others : y \in Live /\ y # x /\ blocks'[y] = blocks[y]
  BY TakeFacts
<1>2. ptr \in Pointers
  BY DEF Take
<1>3. \A y \in Others : /\ blocks[y] \in Pointers
                        /\ \A z \in Others : blocks[y] = blocks[z] => y = z
  BY <1>1 DEF BlocksDiffer
<1> HIDE DEF x
<1> QED
  BY <1>1, <1>2, <1>3 DEF BlocksDiffer

\* What is taken back at the same time.
TakenBack == IF op.type = "ALLOC" THEN {} ELSE {blocks[op.index]}

\* The blocks that are out, without the one that is taken back, are those of the
\* other live requests.
LEMMA OthersHeld ==
  ASSUME TypeOK, BlocksDiffer, HeldRight, i < Len(trace)
  PROVE  held \ TakenBack = {blocks[y] : y \in Others}
<1> DEFINE x == op.index
<1>1. CASE op.type = "ALLOC"
  <2>1. Others = Live
    BY <1>1, OpFacts DEF Others
  <2> QED BY <1>1, <2>1 DEF TakenBack, HeldRight
<1>2. CASE op.type # "ALLOC"
  <2>1. x \in Live
    BY <1>2, OpFacts
  <2>2. TakenBack = {blocks[x]}
    BY <1>2 DEF TakenBack
  <2>3. \A y \in Live : blocks[y] = blocks[x] => y = x
    BY <2>1 DEF BlocksDiffer
  <2>4. Others = Live \ {x}
    BY DEF Others
  <2> HIDE DEF x
  <2> QED BY <2>1, <2>2, <2>3, <2>4 DEF HeldRight
<1> QED BY <1>1, <1>2

\* A block handed out is known to the driver.
LEMMA TakeHeld ==
  ASSUME TypeOK, BlocksDiffer, HeldRight, NEW ptr, Take(ptr), HandOut(ptr, TakenBack)
  PROVE  HeldRight'
<1> DEFINE x == op.index
<1>1. /\ Live' = Others \union {x} /\ blocks'[x] = ptr
      /\ \A y \in Others : blocks'[y] = blocks[y]
  BY TakeFacts
<1>2. held' = (held \ TakenBack) \union {ptr}
  BY PointerFacts DEF Take, HandOut
<1>3. held \ TakenBack = {blocks[y] : y \in Others}
  BY OthersHeld DEF Take
<1> HIDE DEF x
<1> QED
  BY <1>1, <1>2, <1>3 DEF HeldRight

\* A correct answer keeps the payloads in the heap and apart.
LEMMA TakePlaced ==
  ASSUME TypeOK, Placed, NEW ptr, Take(ptr), heapsize' \in heapsize .. MAX_HEAP,
         Answer(ptr, heapsize')
  PROVE  Placed'
<1> DEFINE x == op.index
<1>1. /\ Live' = Others \union {x} /\ x \notin Others
      /\ \A y \in Others : y \in Live /\ Payload(y)' = Payload(y)
  BY TakeFacts
<1>2. \A y : y = x => Payload(y)' = payload(ptr, op.size)
  BY TakeFacts
<1>3. heapsize \in Int /\ heapsize' \in Int /\ heapsize <= heapsize'
  BY PointerFacts DEF TypeOK
<1>4. 0 .. heapsize - 1 \subseteq 0 .. heapsize' - 1
  BY <1>3, Grows
<1>5. \A y \in Others : Payload(y) \intersect payload(ptr, op.size) = {}
  BY DEF Answer, Correct, Payload, Size
<1>6. payload(ptr, op.size) \subseteq 0 .. heapsize' - 1
  BY DEF Answer, Correct
<1>7. \A y \in Others : /\ Payload(y) \subseteq 0 .. heapsize - 1
                        /\ \A z \in Others : y # z => Payload(y) \intersect Payload(z) = {}
  BY <1>1 DEF Placed
<1> HIDE DEF x
<1>8. ASSUME NEW y \in Live'
      PROVE  /\ Payload(y)' \subseteq 0 .. heapsize' - 1
             /\ \A z \in Live' : y # z => Payload(y)' \intersect Payload(z)' = {}
  <2>1. CASE y = x
    BY <2>1, <1>1, <1>2, <1>5, <1>6
  <2>2. CASE y # x
    <3>1. y \in Others /\ Payload(y)' = Payload(y)
      BY <2>2, <1>1
    <3>2. Payload(y)' \subseteq 0 .. heapsize' - 1
      BY <3>1, <1>4, <1>7
    <3> QED BY <3>1, <3>2, <1>1, <1>2, <1>5, <1>7
  <2> QED BY <2>1, <2>2
<1> QED
  BY <1>8 DEF Placed

\* A free keeps what is known of the other blocks.
LEMMA GiveKeeps ==
  ASSUME TypeOK, Give
  PROVE  /\ BlocksDiffer => BlocksDiffer'
         /\ BlocksDiffer /\ HeldRight /\ held' = held \ {blocks[op.index]} => HeldRight'
         /\ Placed /\ heapsize' = heapsize => Placed'
         /\ SizesRight /\ block_sizes' = block_sizes => SizesRight'
         /\ Filled /\ mem' = mem => Filled'
<1>1. /\ Live' = Others
      /\ \A y \in Others : /\ y \in Live /\ blocks'[y] = blocks[y]
                           /\ Size(y)' = Size(y) /\ Payload(y)' = Payload(y)
  BY GiveFacts
<1>2. BlocksDiffer => BlocksDiffer'
  BY <1>1 DEF BlocksDiffer
<1>3. BlocksDiffer /\ HeldRight /\ held' = held \ {blocks[op.index]} => HeldRight'
  <2> SUFFICES ASSUME BlocksDiffer, HeldRight, held' = held \ {blocks[op.index]}
               PROVE  HeldRight'
    OBVIOUS
  <2>1. held \ TakenBack = {blocks[y] : y \in Others}
    BY OthersHeld DEF Give
  <2>2. TakenBack = {blocks[op.index]}
    BY DEF TakenBack, Give
  <2> QED BY <1>1, <2>1, <2>2 DEF HeldRight
<1>4. Placed /\ heapsize' = heapsize => Placed'
  <2> SUFFICES ASSUME Placed, heapsize' = heapsize PROVE Placed'
    OBVIOUS
  <2>1. ASSUME NEW y \in Live'
        PROVE  /\ Payload(y)' \subseteq 0 .. heapsize' - 1
               /\ \A z \in Live' : y # z => Payload(y)' \intersect Payload(z)' = {}
    BY <1>1 DEF Placed
  <2> QED BY <2>1 DEF Placed
<1>5. SizesRight /\ block_sizes' = block_sizes => SizesRight'
  BY <1>1 DEF SizesRight
<1>6. Filled /\ mem' = mem => Filled'
  BY <1>1 DEF Filled
<1> QED BY <1>2, <1>3, <1>4, <1>5, <1>6

\* The driver remembers the size that it has asked for.
LEMMA TakeSizes ==
  ASSUME TypeOK, SizesRight, NEW ptr, Take(ptr),
         block_sizes' = [block_sizes EXCEPT ![op.index] = op.size]
  PROVE  SizesRight'
<1> DEFINE x == op.index
<1>1. /\ Live' = Others \union {x} /\ x \in Indices
      /\ \A y \in Others : y \in Live /\ y \in Indices /\ y # x /\ Size(y)' = Size(y)
  BY TakeFacts
<1>2. \A y : y = x => Size(y)' = op.size
  BY TakeFacts
<1>3. block_sizes'[x] = op.size /\ \A y \in Others : block_sizes'[y] = block_sizes[y]
  BY <1>1 DEF TypeOK
<1> HIDE DEF x
<1> QED
  BY <1>1, <1>2, <1>3 DEF SizesRight
-----------------------------------------------------------------------------
(* The range list and the payloads *)

\* Does rs hold the payloads of the requests in X?
Holds(rs, X) ==
  /\ ListOK(rs)
  /\ Elements(rs) = {range(blocks[y], block_sizes[y]) : y \in X}
  /\ Len(rs) = Cardinality(X)

\* After remove_range the list holds the payloads of the other live requests.
LEMMA RestHolds ==
  ASSUME TypeOK, BlocksDiffer, RangesRight, ListOK(ranges), NEW x \in Live
  PROVE  Holds(remove_range(ranges, blocks[x]), Live \ {x})
<1> DEFINE w == remove_range(ranges, blocks[x])
           r == range(blocks[x], block_sizes[x])
<1>1. r \in Elements(ranges) /\ r.lo = blocks[x]
  BY DEF RangesRight, range
<1>2. /\ ListOK(w) /\ Len(w) = Len(ranges) - 1
      /\ Elements(w) = Elements(ranges) \ {r}
  BY <1>1, RemoveKeeps
<1>3. Cardinality(Live \ {x}) = Cardinality(Live) - 1
  BY NowLive, FS_RemoveElement
<1>4. \A y : range(blocks[y], block_sizes[y]).lo = blocks[y]
  BY DEF range
<1>5. \A y \in Live : y # x => range(blocks[y], block_sizes[y]) # r
  <2> SUFFICES ASSUME NEW y \in Live, y # x PROVE range(blocks[y], block_sizes[y]) # r
    OBVIOUS
  <2>1. blocks[y] # blocks[x]
    BY DEF BlocksDiffer
  <2> QED BY <2>1, <1>1, <1>4
<1>6. Elements(ranges) = {range(blocks[y], block_sizes[y]) : y \in Live}
  BY DEF RangesRight
<1> HIDE DEF w
<1>7. Elements(w) = {range(blocks[y], block_sizes[y]) : y \in Live \ {x}}
  <2> DEFINE g(y) == range(blocks[y], block_sizes[y])
  <2> HIDE DEF g
  <2>1. /\ Elements(w) = Elements(ranges) \ {g(x)}
        /\ Elements(ranges) = {g(y) : y \in Live}
        /\ \A y \in Live : y # x => g(y) # g(x)
    BY <1>2, <1>5, <1>6 DEF g
  <2>2. Elements(w) = {g(y) : y \in Live \ {x}}
    BY <2>1
  <2> QED BY <2>2 DEF g
<1> QED
  BY <1>2, <1>3, <1>7 DEF Holds, RangesRight, w

\* After add_range the list holds the payloads of all live requests, and the new
\* block is none of the others.
LEMMA AddedHolds ==
  ASSUME TypeOK, NEW rs, Holds(rs, Others), NEW ptr, Take(ptr),
         heapsize' \in heapsize .. MAX_HEAP,
         add_range_ok(rs, ptr, op.size, heapsize'),
         ranges' = add_range(rs, ptr, op.size),
         block_sizes' = [block_sizes EXCEPT ![op.index] = op.size]
  PROVE  ListOK(ranges') /\ RangesRight' /\ \A y \in Others : ptr # blocks[y]
<1> DEFINE x == op.index
           g(y) == range(blocks[y], block_sizes[y])
<1>1. /\ Live' = Others \union {x} /\ x \notin Others /\ x \in Indices
      /\ blocks'[x] = ptr /\ op.size \in Nat \ {0}
      /\ \A y \in Others : /\ y \in Live /\ y \in Indices /\ y # x
                           /\ blocks'[y] = blocks[y]
  BY TakeFacts
<1>2. block_sizes'[x] = op.size /\ \A y \in Others : block_sizes'[y] = block_sizes[y]
  BY <1>1 DEF TypeOK
<1>3. heapsize' \in 0 .. MAX_HEAP /\ ptr \in Int
  BY PointerFacts DEF TypeOK, Take
<1>4. /\ ListOK(ranges') /\ Len(ranges') = Len(rs) + 1
      /\ Elements(ranges') = Elements(rs) \union {range(ptr, op.size)}
      /\ \A r \in Elements(rs) : r.lo # ptr
  BY <1>1, <1>3, AddKeeps DEF Holds
<1>5. Elements(rs) = {g(y) : y \in Others} /\ Len(rs) = Cardinality(Others)
  BY DEF Holds
<1>6. Cardinality(Live') = Cardinality(Others) + 1
  <2>1. IsFiniteSet(Others)
    BY NowLive, FS_RemoveElement DEF Others
  <2> QED BY <2>1, <1>1, FS_AddElement
<1>7. ASSUME NEW y \in Others PROVE ptr # blocks[y]
  <2>1. g(y) \in Elements(rs) /\ g(y).lo = blocks[y]
    BY <1>5 DEF range
  <2> QED BY <2>1, <1>4
<1>8. \A y \in Others : range(blocks'[y], block_sizes'[y]) = g(y)
  BY <1>1, <1>2
<1>9. range(blocks'[x], block_sizes'[x]) = range(ptr, op.size)
  BY <1>1, <1>2
<1> HIDE DEF g, x
<1>10. Elements(ranges') = {range(blocks'[y], block_sizes'[y]) : y \in Live'}
  BY <1>1, <1>4, <1>5, <1>8, <1>9
<1> QED
  <2>1. Elements(ranges)' = Elements(ranges')
    BY DEF Elements
  <2> QED BY <1>4, <1>5, <1>6, <1>7, <1>10, <2>1 DEF RangesRight

\* add_range finds nothing wrong with a correct answer.
LEMMA CorrectAccepted ==
  ASSUME TypeOK, Placed, BlocksDiffer, SizesRight, NEW rs, Holds(rs, Others),
         i < Len(trace), op.type # "FREE", NEW ptr \in Pointers,
         NEW hs \in 0 .. MAX_HEAP, Answer(ptr, hs)
  PROVE  add_range_ok(rs, ptr, op.size, hs)
<1> DEFINE hi == ptr + op.size - 1
<1>1. ptr \in Int /\ op.size \in Nat \ {0} /\ hs \in Int
  BY PointerFacts, OpFacts
<1>2. ptr % ALIGNMENT = 0 /\ payload(ptr, op.size) \subseteq 0 .. hs - 1
  BY DEF Answer, Correct
<1>3. ptr \in payload(ptr, op.size) /\ hi \in payload(ptr, op.size) /\ hi \in Int
  BY <1>1, PayloadFacts
<1>4. ASSUME NEW k \in DOMAIN rs PROVE ~overlaps(ptr, hi, rs[k])
  <2>1. rs[k] \in Elements(rs)
    BY ListFacts DEF Holds, Elements
  <2>2. PICK y \in Others : rs[k] = range(blocks[y], block_sizes[y])
    BY <2>1 DEF Holds
  <2>3. /\ y \in Live /\ block_sizes[y] = Size(y) /\ Size(y) \in Nat \ {0}
        /\ blocks[y] \in Int
    BY NowLive, PointerFacts DEF Others, SizesRight, BlocksDiffer
  <2>4. rs[k] = range(blocks[y], Size(y))
    BY <2>2, <2>3
  <2>5. ptr \notin payload(blocks[y], Size(y)) /\ hi \notin payload(blocks[y], Size(y))
    BY <1>3 DEF Answer, Correct, Size
  <2> HIDE DEF hi
  <2> QED
    BY <1>1, <1>3, <2>3, <2>4, <2>5, ApartAccepted
<1> QED
  BY <1>1, <1>2, <1>3, <1>4 DEF add_range_ok
-----------------------------------------------------------------------------
(* Bytes *)

\* A low byte is a byte.
LEMMA ByteFacts ==
  \A b \in Nat : low_byte(b) \in 0 .. 255 /\ low_byte(b) \in Int
  BY DEF low_byte

\* When memset has filled the new payload, each live payload holds its byte.
LEMMA FilledNext ==
  ASSUME TypeOK, NEW ptr, Take(ptr), Placed', NEW m,
         mem' = filled(m, ptr, op.size, low_byte(op.index)), heapsize' \in 0 .. MAX_HEAP,
         \A y \in Others : \A a \in Payload(y) : a \notin payload(ptr, op.size) => m[a] = low_byte(y)
  PROVE  Filled'
<1>0. PICK x : x = op.index
  OBVIOUS
<1>1. /\ Live' = Others \union {x} /\ x \notin Others
      /\ \A y \in Others : y # x /\ Payload(y)' = Payload(y)
  BY <1>0, TakeFacts
<1>2. Payload(x)' = payload(ptr, op.size)
  BY <1>0, TakeFacts
<1>3. \A a \in Buffer : mem'[a] = IF a \in payload(ptr, op.size) THEN low_byte(x) ELSE m[a]
  BY <1>0 DEF filled
<1>4. 0 .. heapsize' - 1 \subseteq Buffer
  BY HeapInBuffer
<1>5. /\ \A y \in Live' : Payload(y)' \subseteq Buffer
      /\ \A y, z \in Live' : y # z => Payload(y)' \intersect Payload(z)' = {}
  BY <1>4 DEF Placed
<1>6. ASSUME NEW y \in Live', NEW a \in Payload(y)'
      PROVE  mem'[a] = low_byte(y)
  <2>1. a \in Buffer
    BY <1>5
  <2>2. CASE y = x
    BY <2>1, <2>2, <1>2, <1>3
  <2>3. CASE y # x
    <3>1. y \in Others /\ a \in Payload(y)
      BY <2>3, <1>1
    <3>2. a \notin payload(ptr, op.size)
      <4>1. x \in Live' /\ Payload(x)' = payload(ptr, op.size)
        BY <1>1, <1>2
      <4> QED BY <4>1, <1>5, <2>3
    <3> QED BY <3>1, <3>2, <2>1, <1>3
  <2> QED BY <2>2, <2>3
<1> QED
  BY <1>6 DEF Filled

\* A realloc that copies keeps the old bytes, and disturbs no others.
LEMMA MovedBytes ==
  ASSUME TypeOK, Filled, NEW x \in Live, blocks[x] \in Int, NEW ptr \in Int,
         NEW size \in Nat \ {0}, NEW hs \in 0 .. MAX_HEAP,
         payload(ptr, size) \subseteq 0 .. hs - 1, Payload(x) \subseteq Buffer,
         NEW n, n = smaller(Size(x), size),
         NEW m, m = moved(mem, blocks[x], ptr, n)
  PROVE  /\ \A j \in 0 .. n - 1 : m[ptr + j] = low_byte(x)
         /\ \A a \in Buffer : a \notin payload(ptr, size) => m[a] = mem[a]
<1>1. Size(x) \in Nat \ {0} /\ n \in Nat \ {0} /\ n <= size /\ n <= Size(x)
  BY NowLive DEF smaller
<1>2. 0 .. hs - 1 \subseteq Buffer
  BY HeapInBuffer
<1>3. \A a \in Buffer : m[a] = IF a \in payload(ptr, n) THEN mem[blocks[x] + (a - ptr)]
                               ELSE mem[a]
  BY DEF moved
<1>4. ASSUME NEW j \in 0 .. n - 1 PROVE m[ptr + j] = low_byte(x)
  <2>0. j \in Int /\ 0 <= j /\ j <= n - 1
    BY <1>1
  <2>1. ptr + j \in payload(ptr, n) /\ ptr + j \in payload(ptr, size)
    BY <1>1, <2>0, InPayload
  <2>2. blocks[x] + ((ptr + j) - ptr) = blocks[x] + j
    BY <2>0
  <2>3. blocks[x] + j \in Payload(x)
    BY <1>1, <2>0, InPayload DEF Payload
  <2> QED BY <2>1, <2>2, <2>3, <1>2, <1>3 DEF Filled
<1>5. \A a \in Buffer : a \notin payload(ptr, size) => a \notin payload(ptr, n)
  <2>1. payload(ptr, n) \subseteq payload(ptr, size)
    BY <1>1, PayloadGrows
  <2> QED BY <2>1
<1> QED BY <1>3, <1>4, <1>5

\* The range of a live payload is in the buffer.
LEMMA LiveInBuffer ==
  ASSUME TypeOK, ListOK(ranges), RangesRight, BlocksDiffer, NEW x \in Live
  PROVE  /\ x \in Indices /\ blocks[x] \in Int /\ block_sizes[x] \in Nat
         /\ 0 <= blocks[x] /\ blocks[x] + block_sizes[x] - 1 < MAX_HEAP
<1>1. x \in Indices /\ blocks[x] \in Int /\ block_sizes[x] \in Nat
  BY NowLive, PointerFacts DEF TypeOK, BlocksDiffer
<1>2. range(blocks[x], block_sizes[x]) \in Elements(ranges)
  BY DEF RangesRight
<1>3. InBuffer(range(blocks[x], block_sizes[x]))
  BY <1>2 DEF Elements, ListOK
<1> QED
  BY <1>1, <1>3 DEF InBuffer, range

\* memset leaves bytes in memory.
LEMMA FilledTypes ==
  ASSUME NEW m \in [Buffer -> 0 .. 255], NEW b \in 0 .. 255, NEW lo, NEW size
  PROVE  filled(m, lo, size, b) \in [Buffer -> 0 .. 255]
  BY DEF filled

\* So does a copy of bytes of the heap.
LEMMA MovedTypes ==
  ASSUME NEW m \in [Buffer -> 0 .. 255], NEW old \in Int, NEW new \in Int, NEW n \in Int,
         0 <= old, old + n - 1 < MAX_HEAP
  PROVE  moved(m, old, new, n) \in [Buffer -> 0 .. 255]
<1>1. ASSUME NEW a \in Buffer, a \in payload(new, n) PROVE old + (a - new) \in Buffer
  BY <1>1, PointerFacts DEF payload, Buffer
<1> QED
  BY <1>1 DEF moved
-----------------------------------------------------------------------------
(* Counting *)

UsedBy(X) == UNION {Payload(y) : y \in X}

\* There is a block at lo next to those bytes of the heap that are in A.
Beside(A, lo, size, hs) ==
  /\ hs \in Int /\ lo \in Int /\ size \in Nat \ {0}
  /\ A \subseteq 0 .. hs - 1 /\ A \intersect payload(lo, size) = {}

\* A block next to those in A adds its size to what is used.
LEMMA Count ==
  ASSUME NEW hs, NEW A, NEW lo, NEW size, Beside(A, lo, size, hs)
  PROVE  /\ IsFiniteSet(A) /\ Cardinality(A) \in Nat
         /\ Cardinality(A \union payload(lo, size)) = Cardinality(A) + size
<1>0. /\ hs \in Int /\ lo \in Int /\ size \in Nat \ {0}
      /\ A \subseteq 0 .. hs - 1 /\ A \intersect payload(lo, size) = {}
  BY DEF Beside
<1>1. IsFiniteSet(0 .. hs - 1)
  BY <1>0, FS_Interval
<1>2. IsFiniteSet(A) /\ Cardinality(A) \in Nat
  BY <1>0, <1>1, FS_Subset, FS_CardinalityType
<1>3. IsFiniteSet(payload(lo, size)) /\ Cardinality(payload(lo, size)) = size
  BY <1>0, PayloadFacts
<1>4. Cardinality(A \intersect payload(lo, size)) = 0
  BY <1>0, FS_EmptySet
<1>5. Cardinality(A \union payload(lo, size))
        = Cardinality(A) + Cardinality(payload(lo, size))
            - Cardinality(A \intersect payload(lo, size))
  BY <1>2, <1>3, FS_Union
<1> QED
  BY <1>0, <1>2, <1>3, <1>4, <1>5

\* No more than the whole heap can be used.
LEMMA AtMost ==
  ASSUME NEW hs \in Nat, NEW A, A \subseteq 0 .. hs - 1
  PROVE  Cardinality(A) \in Nat /\ Cardinality(A) <= hs
<1>1. IsFiniteSet(0 .. hs - 1) /\ Cardinality(0 .. hs - 1) = hs
  BY FS_Interval
<1> QED
  BY <1>1, FS_Subset, FS_CardinalityType

\* The heap has a size, at most MAX_HEAP.
LEMMA HeapFacts ==
  ASSUME TypeOK
  PROVE  heapsize \in Nat /\ heapsize \in Int /\ heapsize <= MAX_HEAP
<1>1. heapsize \in 0 .. MAX_HEAP /\ MAX_HEAP \in Nat
  BY PointerFacts DEF TypeOK
<1> QED BY <1>1

\* What is used now, but for the block of the next request.
LEMMA UsedNow ==
  ASSUME TypeOK, Placed, BlocksDiffer, i < Len(trace)
  PROVE  /\ UsedBy(Others) \subseteq 0 .. heapsize - 1
         /\ Cardinality(UsedBy(Others)) \in Nat
         /\ op.index \notin Live => Cardinality(Used) = Cardinality(UsedBy(Others))
         /\ op.index \in Live =>
              Cardinality(Used) = Cardinality(UsedBy(Others)) + Size(op.index)
<1>0. PICK x : x = op.index
  OBVIOUS
<1>1. \A y \in Others : Payload(y) \subseteq 0 .. heapsize - 1
  BY DEF Placed, Others
<1>2. UsedBy(Others) \subseteq 0 .. heapsize - 1
  BY <1>1 DEF UsedBy
<1>3. Cardinality(UsedBy(Others)) \in Nat
  BY <1>2, AtMost, HeapFacts
<1>4. x \notin Live => Used = UsedBy(Others)
  <2>1. x \notin Live => Others = Live
    BY <1>0 DEF Others
  <2> QED BY <2>1 DEF Used, UsedBy
<1>5. ASSUME x \in Live PROVE Cardinality(Used) = Cardinality(UsedBy(Others)) + Size(x)
  <2>1. Live = Others \union {x}
    BY <1>0, <1>5 DEF Others
  <2>2. Used = UsedBy(Others) \union Payload(x)
    BY <2>1 DEF Used, UsedBy
  <2>3. \A y \in Others : Payload(y) \intersect Payload(x) = {}
    BY <1>0, <1>5 DEF Placed, Others
  <2>4. UsedBy(Others) \intersect Payload(x) = {}
    BY <2>3 DEF UsedBy
  <2>5. blocks[x] \in Int /\ Size(x) \in Nat \ {0} /\ heapsize \in Int
    <3>1. blocks[x] \in Pointers
      BY <1>5 DEF BlocksDiffer
    <3> QED BY <1>5, <3>1, NowLive, PointerFacts, HeapFacts
  <2>6. Beside(UsedBy(Others), blocks[x], Size(x), heapsize)
    BY <1>2, <2>4, <2>5 DEF Beside, Payload
  <2> QED BY <2>2, <2>6, Count DEF Payload
<1> QED
  BY <1>0, <1>2, <1>3, <1>4, <1>5

\* After a correct answer what is used has grown by the size of the block, and it
\* is at most the heap.
LEMMA UsedThen ==
  ASSUME TypeOK, Placed, BlocksDiffer, NEW ptr, Take(ptr), Placed',
         heapsize' \in 0 .. MAX_HEAP
  PROVE  /\ Cardinality(Used)' = Cardinality(UsedBy(Others)) + op.size
         /\ Cardinality(Used)' \in Nat /\ Cardinality(Used)' <= heapsize'
<1>0. PICK x : x = op.index
  OBVIOUS
<1>1. /\ Live' = Others \union {x} /\ x \notin Others
      /\ Payload(x)' = payload(ptr, op.size) /\ op.size \in Nat \ {0}
      /\ \A y \in Others : y # x /\ Payload(y)' = Payload(y)
  BY <1>0, TakeFacts
<1>2. Used' = UsedBy(Others) \union payload(ptr, op.size)
  BY <1>1 DEF Used, UsedBy
<1>3. UsedBy(Others) \intersect payload(ptr, op.size) = {}
  <2>1. \A y \in Others : Payload(y)' \intersect Payload(x)' = {}
    BY <1>1 DEF Placed
  <2>2. \A y \in Others : Payload(y) \intersect payload(ptr, op.size) = {}
    BY <2>1, <1>1
  <2> QED BY <2>2 DEF UsedBy
<1>4. UsedBy(Others) \subseteq 0 .. heapsize - 1 /\ heapsize \in Int
  BY UsedNow, HeapFacts DEF Take
<1>5. Used' \subseteq 0 .. heapsize' - 1
  BY DEF Used, Placed
<1>6. ptr \in Int /\ heapsize' \in Nat
  BY PointerFacts DEF Take
<1>7. Cardinality(Used') = Cardinality(UsedBy(Others)) + op.size
  <2>1. Beside(UsedBy(Others), ptr, op.size, heapsize)
    BY <1>1, <1>3, <1>4, <1>6 DEF Beside
  <2> QED BY <2>1, <1>2, Count
<1>8. Cardinality(Used') \in Nat /\ Cardinality(Used') <= heapsize'
  BY <1>5, <1>6, AtMost
<1> QED
  BY <1>7, <1>8
-----------------------------------------------------------------------------
(* Steps *)

\* After a fault, or the end of the program, little remains to be shown.
LEMMA Faulted ==
  ASSUME TypeOK', ListOK(ranges'), phase' \in {"invalid", "exited"}, NoFalseAlarm'
  PROVE  IInv'
<1>1. ListOK(ranges)'
  BY DEF ListOK, ApartOrAround, InBuffer
<1> QED
  BY <1>1 DEF IInv, Replaying, UtilizationAtMostOne

\* A replay begins with nothing allocated.
LEMMA Restarted ==
  ASSUME TypeOK', ListOK(ranges'), i' = 0, held' = {},
         phase' \in {"libc_valid", "libc_speed", "start", "valid", "util", "speed"},
         phase' = "valid" => ranges' = <<>>,
         phase' = "util" => total_size' = 0 /\ max_total_size' = 0
  PROVE  IInv'
<1>1. ListOK(ranges)'
  BY DEF ListOK, ApartOrAround, InBuffer
<1>2. Live' = {}
  BY NoneLive DEF TypeOK, Live
<1>3. BlocksDiffer' /\ HeldRight' /\ Placed' /\ SizesRight' /\ Filled'
  BY <1>2 DEF BlocksDiffer, HeldRight, Placed, SizesRight, Filled
<1>4. Cardinality({}) = 0
  BY FS_EmptySet
<1>5. phase' = "valid" => RangesRight'
  BY <1>2, <1>4, EmptyList DEF RangesRight, Elements
<1>6. phase' = "util" => Counted' /\ max_total_size' <= heapsize'
  <2>1. Used' = {}
    BY <1>2 DEF Used
  <2> QED BY <1>4, <2>1, PointerFacts DEF Counted, TypeOK
<1> QED
  BY <1>1, <1>3, <1>5, <1>6 DEF IInv, NoFalseAlarm, UtilizationAtMostOne, Replaying

\* A request that allocates keeps the types of the trace, i and blocks.
LEMMA TakeTypes ==
  ASSUME TypeOK, NEW ptr, Take(ptr)
  PROVE  /\ trace' \in Traces /\ i' \in 0 .. Len(trace')
         /\ blocks' \in [Indices -> Pointers \union {NULL}]
<1>1. trace \in Traces /\ i + 1 \in 1 .. Len(trace)
  BY OpFacts DEF Take
<1>2. Len(trace) \in Nat
  BY <1>1, TraceFacts
<1>3. blocks \in [Indices -> Pointers \union {NULL}] /\ ptr \in Pointers
  BY DEF TypeOK, Take
<1>4. blocks' \in [Indices -> Pointers \union {NULL}]
  BY <1>3 DEF Take
<1>5. trace' \in Traces /\ i' \in 0 .. Len(trace')
  BY <1>1, <1>2 DEF Take
<1> QED
  BY <1>4, <1>5

\* A request that frees keeps the types of the trace and i.
LEMMA GiveTypes ==
  ASSUME TypeOK, Give
  PROVE  trace' \in Traces /\ i' \in 0 .. Len(trace')
<1>1. trace \in Traces /\ i + 1 \in 1 .. Len(trace)
  BY OpFacts DEF Give
<1>2. Len(trace) \in Nat
  BY <1>1, TraceFacts
<1> QED
  BY <1>1, <1>2 DEF Give

\* What is out are addresses.
LEMMA HandOutTypes ==
  ASSUME TypeOK, NEW ptr \in Pointers \union {NULL}, NEW old, HandOut(ptr, old)
  PROVE  held' \subseteq Pointers
  BY DEF HandOut, TypeOK

\* The heap grows up to MAX_HEAP.
LEMMA HeapTypes ==
  ASSUME TypeOK, heapsize' \in heapsize .. MAX_HEAP
  PROVE  heapsize' \in 0 .. MAX_HEAP
  BY PointerFacts DEF TypeOK

\* A correct answer keeps the blocks apart and those that are out known.
LEMMA CorrectStep ==
  ASSUME TypeOK, BlocksDiffer, HeldRight, Placed, NEW ptr, Take(ptr),
         HandOut(ptr, TakenBack), heapsize' \in heapsize .. MAX_HEAP,
         Answer(ptr, heapsize')
  PROVE  BlocksDiffer' /\ HeldRight' /\ Placed'
<1>1. \A y \in Others : ptr # blocks[y]
  BY AnswerIsNew
<1> QED
  BY <1>1, TakeDiffer, TakeHeld, TakePlaced

\* The index of an allocation is not live before it.
LEMMA OthersOfNew ==
  ASSUME TypeOK, i < Len(trace), op.type = "ALLOC"
  PROVE  Live = Others
  BY OpFacts DEF Others

\* The invariant holds when main begins.
LEMMA Initially ==
  ASSUME Init PROVE IInv
<1>1. TypeOK
  <2>1. i \in 0 .. Len(trace)
    BY TraceFacts DEF Init
  <2>2. mem \in [Buffer -> 0 .. 255] /\ heapsize \in 0 .. MAX_HEAP
    BY PointerFacts DEF Init
  <2>3. blocks \in [Indices -> Pointers \union {NULL}] /\ block_sizes \in [Indices -> Nat]
    BY DEF Init
  <2> QED BY <2>1, <2>2, <2>3 DEF Init, TypeOK
<1>2. Live = {}
  BY NoneLive DEF Init, Live
<1>3. BlocksDiffer /\ HeldRight
  BY <1>2 DEF Init, BlocksDiffer, HeldRight
<1>4. ListOK(ranges)
  BY EmptyList DEF Init
<1> QED
  BY <1>1, <1>3, <1>4 DEF Init, IInv, NoFalseAlarm, UtilizationAtMostOne, Replaying

\* mm_init leaves nothing allocated, and either is ready or has failed.
LEMMA InitTypes ==
  ASSUME TypeOK, NEW ready, NEW failed, mm_init(ready, failed)
  PROVE  /\ heapsize' \in 0 .. MAX_HEAP /\ held' = {} /\ held' \subseteq Pointers
         /\ \/ phase' = ready /\ honest' = honest
            \/ phase' = failed /\ honest' = FALSE
<1>1. 0 \in 0 .. MAX_HEAP
  BY PointerFacts
<1> QED
  BY <1>1 DEF mm_init

\* eval_mm_valid clears the range list and begins.
LEMMA StartValidKeeps ==
  ASSUME IInv, StartValid PROVE IInv'
<1>1. TypeOK /\ i = 0
  BY DEF IInv, StartValid
<1>2. /\ heapsize' \in 0 .. MAX_HEAP /\ held' = {} /\ held' \subseteq Pointers
      /\ \/ phase' = "valid" /\ honest' = honest
         \/ phase' = "invalid" /\ honest' = FALSE
  BY <1>1, InitTypes DEF StartValid
<1>3. ranges' = <<>> /\ ListOK(ranges') /\ ranges' \in Seq(Ranges)
  BY EmptyList DEF StartValid, ListOK
<1>4. UNCHANGED <<trace, i, blocks, block_sizes, mem, total_size, max_total_size>>
  BY DEF StartValid, eval
<1>5. TypeOK'
  BY <1>1, <1>2, <1>3, <1>4 DEF TypeOK
<1>6. NoFalseAlarm' \/ phase' = "valid"
  BY <1>2 DEF NoFalseAlarm
<1> QED
  BY <1>1, <1>2, <1>3, <1>4, <1>5, <1>6, Faulted, Restarted

\* eval_mm_util begins with a total of 0.
LEMMA StartUtilKeeps ==
  ASSUME IInv, StartUtil PROVE IInv'
<1>1. TypeOK /\ ListOK(ranges)
  BY DEF IInv
<1>2. /\ heapsize' \in 0 .. MAX_HEAP /\ held' = {} /\ held' \subseteq Pointers
      /\ \/ phase' = "util" /\ honest' = honest
         \/ phase' = "exited" /\ honest' = FALSE
  BY <1>1, InitTypes DEF StartUtil
<1>3. /\ UNCHANGED <<trace, ranges, blocks, block_sizes, mem>>
      /\ i' = 0 /\ total_size' = 0 /\ max_total_size' = 0
  BY DEF StartUtil
<1>4. TypeOK'
  <2>1. i' \in 0 .. Len(trace)
    BY <1>1, <1>3, TraceFacts DEF TypeOK
  <2>2. phase' \in {"util", "exited"} /\ honest' \in BOOLEAN
    BY <1>1, <1>2 DEF TypeOK
  <2>3. total_size' \in Int /\ max_total_size' \in Int
    BY <1>3
  <2> QED BY <1>1, <1>2, <1>3, <2>1, <2>2, <2>3 DEF TypeOK
<1>5. NoFalseAlarm'
  BY <1>2 DEF NoFalseAlarm
<1> QED
  BY <1>1, <1>2, <1>3, <1>4, <1>5, Faulted, Restarted

\* eval_mm_speed begins, or begins again.
LEMMA StartSpeedKeeps ==
  ASSUME IInv, StartSpeed PROVE IInv'
<1>1. TypeOK /\ ListOK(ranges)
  BY DEF IInv
<1>2. /\ heapsize' \in 0 .. MAX_HEAP /\ held' = {} /\ held' \subseteq Pointers
      /\ \/ phase' = "speed" /\ honest' = honest
         \/ phase' = "exited" /\ honest' = FALSE
  BY <1>1, InitTypes DEF StartSpeed
<1>3. /\ UNCHANGED <<trace, ranges, blocks, block_sizes, mem, total_size, max_total_size>>
      /\ i' = 0
  BY DEF StartSpeed, eval
<1>4. TypeOK'
  <2>1. i' \in 0 .. Len(trace)
    BY <1>1, <1>3, TraceFacts DEF TypeOK
  <2> QED BY <1>1, <1>2, <1>3, <2>1 DEF TypeOK
<1>5. NoFalseAlarm'
  BY <1>2 DEF NoFalseAlarm
<1> QED
  BY <1>1, <1>2, <1>3, <1>4, <1>5, Faulted, Restarted

\* eval_libc_speed begins, or begins again.
LEMMA StartLibcSpeedKeeps ==
  ASSUME IInv, StartLibcSpeed PROVE IInv'
<1>1. TypeOK /\ ListOK(ranges)
  BY DEF IInv
<1>2. /\ UNCHANGED <<trace, ranges, blocks, block_sizes, mem, heapsize, total_size,
                     max_total_size, honest>>
      /\ i' = 0 /\ held' = {} /\ phase' = "libc_speed"
  BY DEF StartLibcSpeed, eval
<1>3. TypeOK'
  <2>1. i' \in 0 .. Len(trace)
    BY <1>1, <1>2, TraceFacts DEF TypeOK
  <2> QED BY <1>1, <1>2, <2>1 DEF TypeOK
<1> QED
  BY <1>1, <1>2, <1>3, Restarted

\* main goes on to the next trace with new arrays.
LEMMA NextTraceKeeps ==
  ASSUME IInv, NextTrace PROVE IInv'
<1>1. TypeOK /\ ListOK(ranges)
  BY DEF IInv
<1>2. /\ UNCHANGED <<ranges, mem, heapsize, total_size, max_total_size>>
      /\ i' = 0 /\ held' = {} /\ honest' = TRUE /\ trace' \in Traces
      /\ phase' \in {"start", "libc_valid"}
      /\ blocks' = [x \in Indices |-> NULL] /\ block_sizes' = [x \in Indices |-> 0]
  BY DEF NextTrace, eval
<1>3. TypeOK'
  <2>1. i' \in 0 .. Len(trace')
    BY <1>2, TraceFacts
  <2>2. blocks' \in [Indices -> Pointers \union {NULL}] /\ block_sizes' \in [Indices -> Nat]
    BY <1>2
  <2> QED BY <1>1, <1>2, <2>1, <2>2 DEF TypeOK
<1> QED
  BY <1>1, <1>2, <1>3, Restarted
-----------------------------------------------------------------------------
(* eval_mm_valid *)

\* Not to blame a correct allocator for what the next request brought.
LEMMA NotBlamed ==
  ASSUME trace' = trace, i' = i,
         honest' => CHAR_SIGNED /\ op.type = "REALLOC" /\ low_byte(op.index) >= 128
  PROVE  NoFalseAlarm'
  BY DEF NoFalseAlarm, op

\* A payload that eval_mm_valid accepts for the next request: rs are the ranges
\* and m the memory before it is added and filled.
LEMMA Accepted ==
  ASSUME TypeOK, BlocksDiffer, SizesRight, honest => HeldRight /\ Placed,
         NEW rs, Holds(rs, Others), NEW ptr, Take(ptr), NEW m \in [Buffer -> 0 .. 255],
         ranges' = add_range(rs, ptr, op.size),
         mem' = filled(m, ptr, op.size, low_byte(op.index)),
         block_sizes' = [block_sizes EXCEPT ![op.index] = op.size],
         HandOut(ptr, TakenBack), phase' = "valid",
         add_range_ok(rs, ptr, op.size, heapsize'),
         UNCHANGED <<total_size, max_total_size>>,
         heapsize' \in heapsize .. MAX_HEAP, honest' \in BOOLEAN,
         honest' => honest /\ Answer(ptr, heapsize'),
         honest' => \A y \in Others : \A a \in Payload(y) :
                      a \notin payload(ptr, op.size) => m[a] = low_byte(y)
  PROVE  IInv'
<1>1. /\ trace' \in Traces /\ i' \in 0 .. Len(trace')
      /\ blocks' \in [Indices -> Pointers \union {NULL}]
  BY TakeTypes
<1>2. heapsize' \in 0 .. MAX_HEAP
  BY HeapTypes
<1>3. ListOK(ranges') /\ RangesRight' /\ \A y \in Others : ptr # blocks[y]
  BY AddedHolds
<1>4. ranges' \in Seq(Ranges) /\ ListOK(ranges)'
  BY <1>3 DEF ListOK, ApartOrAround, InBuffer
<1>5. op.index \in Indices /\ op.index \in Nat /\ op.size \in Nat
  BY OpFacts DEF Take
<1>6. mem' \in [Buffer -> 0 .. 255]
  BY <1>5, ByteFacts, FilledTypes
<1>7. held' \subseteq Pointers
  BY HandOutTypes DEF Take
<1>8. block_sizes' \in [Indices -> Nat]
  BY <1>5 DEF TypeOK
<1>9. TypeOK'
  BY <1>1, <1>2, <1>4, <1>6, <1>7, <1>8 DEF TypeOK
<1>10. BlocksDiffer'
  BY <1>3, TakeDiffer
<1>11. SizesRight'
  BY TakeSizes
<1>12. honest' => HeldRight' /\ Placed'
  BY CorrectStep
<1>13. honest' => Filled'
  BY <1>2, <1>12, FilledNext
<1> QED
  BY <1>3, <1>4, <1>9, <1>10, <1>11, <1>12, <1>13
     DEF IInv, NoFalseAlarm, UtilizationAtMostOne, Replaying

\* eval_mm_valid, case ALLOC.
LEMMA ValidAllocKeeps ==
  ASSUME IInv, ValidAlloc PROVE IInv'
<1>1. /\ TypeOK /\ ListOK(ranges) /\ RangesRight /\ BlocksDiffer /\ SizesRight
      /\ phase = "valid" /\ i < Len(trace) /\ op.type = "ALLOC"
      /\ honest => HeldRight /\ Placed /\ Filled
  BY DEF IInv, ValidAlloc, NextOp, Replaying, op
<1>2. Live = Others /\ TakenBack = {} /\ op.type # "FREE"
  BY <1>1, OthersOfNew DEF TakenBack
<1>3. Holds(ranges, Others)
  BY <1>1, <1>2 DEF Holds, RangesRight
<1>4. PICK ptr \in Pointers \union {NULL} :
        /\ honest' = (honest /\ Correct(ptr, op.size, heapsize', Live))
        /\ HandOut(ptr, {})
        /\ IF ptr # NULL /\ add_range_ok(ranges, ptr, op.size, heapsize')
             THEN /\ ranges' = add_range(ranges, ptr, op.size)
                  /\ mem' = filled(mem, ptr, op.size, low_byte(op.index))
                  /\ Remember(ptr)
             ELSE Reject /\ UNCHANGED <<ranges, mem>>
  BY DEF ValidAlloc
<1>5. /\ UNCHANGED <<trace, total_size, max_total_size>>
      /\ heapsize' \in heapsize .. MAX_HEAP /\ heapsize' \in 0 .. MAX_HEAP
  BY <1>1, HeapTypes DEF ValidAlloc, eval
<1>6. honest' \in BOOLEAN /\ (honest' => honest /\ Answer(ptr, heapsize'))
  BY <1>1, <1>2, <1>4 DEF TypeOK, Answer
<1>7. held' \subseteq Pointers
  BY <1>1, <1>4, HandOutTypes
<1>8. CASE ~(ptr # NULL /\ add_range_ok(ranges, ptr, op.size, heapsize'))
  <2>1. UNCHANGED <<i, blocks, block_sizes, ranges, mem>> /\ phase' = "invalid"
    BY <1>4, <1>8 DEF Reject
  <2>2. TypeOK'
    BY <1>1, <1>5, <1>6, <1>7, <2>1 DEF TypeOK
  <2>3. ~honest'
    <3> SUFFICES ASSUME honest' PROVE FALSE
      OBVIOUS
    <3>1. ptr # NULL
      BY <1>6 DEF Answer, Correct
    <3>2. ptr \in Pointers
      BY <3>1
    <3> QED BY <1>1, <1>2, <1>3, <1>5, <1>6, <1>8, <3>1, <3>2, CorrectAccepted
  <2> QED BY <1>1, <2>1, <2>2, <2>3, Faulted DEF NoFalseAlarm
<1>9. CASE ptr # NULL /\ add_range_ok(ranges, ptr, op.size, heapsize')
  <2>1. /\ ranges' = add_range(ranges, ptr, op.size)
        /\ mem' = filled(mem, ptr, op.size, low_byte(op.index))
        /\ phase' = "valid" /\ ptr \in Pointers
        /\ block_sizes' = [block_sizes EXCEPT ![op.index] = op.size]
    BY <1>1, <1>4, <1>9 DEF Remember
  <2>2. Take(ptr)
    BY <1>1, <1>2, <1>4, <1>5, <1>9, <2>1 DEF Take, Remember
  <2>3. HandOut(ptr, TakenBack)
    BY <1>2, <1>4
  <2>4. mem \in [Buffer -> 0 .. 255]
    BY <1>1 DEF TypeOK
  <2>5. honest' => \A y \in Others : \A a \in Payload(y) : mem[a] = low_byte(y)
    BY <1>1, <1>2, <1>6 DEF Filled
  <2>6. /\ TypeOK /\ BlocksDiffer /\ SizesRight /\ Holds(ranges, Others)
        /\ honest => HeldRight /\ Placed
    BY <1>1, <1>3
  <2> QED
    BY <1>5, <1>6, <1>9, <2>1, <2>2, <2>3, <2>4, <2>5, <2>6, Accepted
<1> QED BY <1>8, <1>9

\* A byte that is read as another value was read as a signed one.
LEMMA ReadWrongly ==
  ASSUME NEW b \in 0 .. 255, as_char(b) # b
  PROVE  CHAR_SIGNED /\ b >= 128
  BY DEF as_char

\* What realloc leaves in memory, whether it copies or not.
LEMMA ReallocTypes ==
  ASSUME TypeOK, ListOK(ranges), RangesRight, BlocksDiffer, NEW x \in Live,
         NEW ptr \in Pointers, NEW copies \in BOOLEAN, NEW size \in Nat,
         NEW m, m = IF copies
                    THEN moved(mem, blocks[x], ptr, smaller(block_sizes[x], size))
                    ELSE mem
  PROVE  m \in [Buffer -> 0 .. 255]
<1>1. /\ blocks[x] \in Int /\ block_sizes[x] \in Nat
      /\ 0 <= blocks[x] /\ blocks[x] + block_sizes[x] - 1 < MAX_HEAP
  BY LiveInBuffer
<1>2. ptr \in Int /\ MAX_HEAP \in Int /\ mem \in [Buffer -> 0 .. 255]
  BY PointerFacts DEF TypeOK
<1> DEFINE n == smaller(block_sizes[x], size)
<1>3. n \in Int /\ n <= block_sizes[x]
  BY <1>1 DEF smaller
<1> HIDE DEF n
<1>4. blocks[x] + n - 1 < MAX_HEAP
  BY <1>1, <1>2, <1>3
<1>5. moved(mem, blocks[x], ptr, n) \in [Buffer -> 0 .. 255]
  BY <1>1, <1>2, <1>3, <1>4, MovedTypes
<1> QED
  BY <1>2, <1>5 DEF n

\* eval_mm_valid, case REALLOC.
LEMMA ValidReallocKeeps ==
  ASSUME IInv, ValidRealloc PROVE IInv'
<1>1. /\ TypeOK /\ ListOK(ranges) /\ RangesRight /\ BlocksDiffer /\ SizesRight
      /\ phase = "valid" /\ i < Len(trace) /\ op.type = "REALLOC"
      /\ honest => HeldRight /\ Placed /\ Filled
  BY DEF IInv, ValidRealloc, NextOp, Replaying, op
<1>2. PICK x : x = op.index
  OBVIOUS
<1>3. /\ x \in Live /\ op.size \in Nat \ {0} /\ op.size \in Nat /\ op.type # "FREE"
      /\ Others = Live \ {x} /\ TakenBack = {blocks[x]} /\ x \in Nat
  BY <1>1, <1>2, OpFacts DEF Others, TakenBack
<1>4. /\ UNCHANGED <<trace, total_size, max_total_size>>
      /\ heapsize' \in heapsize .. MAX_HEAP /\ heapsize' \in 0 .. MAX_HEAP
  BY <1>1, HeapTypes DEF ValidRealloc, eval
<1>5. PICK ptr \in Pointers \union {NULL}, copies \in BOOLEAN :
        LET oldp == blocks[op.index]
            oldsize == smaller(block_sizes[op.index], op.size)
            rest == remove_range(ranges, oldp)
            m == IF copies /\ ptr # NULL THEN moved(mem, oldp, ptr, oldsize)
                 ELSE mem
        IN  /\ honest' = (honest /\ copies /\ Correct(ptr, op.size, heapsize',
                                                      Live \ {op.index}))
            /\ HandOut(ptr, {oldp})
            /\ \/ /\ ptr = NULL
                  /\ Reject /\ UNCHANGED ranges /\ mem' = m
               \/ /\ ptr # NULL
                  /\ ~add_range_ok(rest, ptr, op.size, heapsize')
                  /\ Reject /\ ranges' = rest /\ mem' = m
               \/ /\ ptr # NULL
                  /\ add_range_ok(rest, ptr, op.size, heapsize')
                  /\ ranges' = add_range(rest, ptr, op.size)
                  /\ IF \E j \in 0 .. oldsize - 1 :
                          as_char(m[ptr + j]) # low_byte(op.index)
                       THEN Reject /\ mem' = m
                       ELSE /\ mem' = filled(m, ptr, op.size, low_byte(op.index))
                            /\ Remember(ptr)
  BY DEF ValidRealloc
<1> DEFINE rest == remove_range(ranges, blocks[x])
           n == smaller(block_sizes[x], op.size)
           m == IF copies /\ ptr # NULL THEN moved(mem, blocks[x], ptr, n) ELSE mem
<1>6. /\ honest' = (honest /\ copies /\ Correct(ptr, op.size, heapsize', Others))
      /\ HandOut(ptr, TakenBack)
  BY <1>2, <1>3, <1>5
<1>7. \/ /\ ptr = NULL
         /\ Reject /\ UNCHANGED ranges /\ mem' = m
      \/ /\ ptr # NULL
         /\ ~add_range_ok(rest, ptr, op.size, heapsize')
         /\ Reject /\ ranges' = rest /\ mem' = m
      \/ /\ ptr # NULL
         /\ add_range_ok(rest, ptr, op.size, heapsize')
         /\ ranges' = add_range(rest, ptr, op.size)
         /\ IF \E j \in 0 .. n - 1 : as_char(m[ptr + j]) # low_byte(x)
              THEN Reject /\ mem' = m
              ELSE /\ mem' = filled(m, ptr, op.size, low_byte(x))
                   /\ Remember(ptr)
  BY <1>2, <1>5
<1>8. honest' \in BOOLEAN /\ (honest' => honest /\ copies /\ Answer(ptr, heapsize'))
  BY <1>1, <1>6 DEF TypeOK, Answer
<1>9. held' \subseteq Pointers
  BY <1>1, <1>6, HandOutTypes
<1>10. Holds(rest, Others) /\ ListOK(rest) /\ rest \in Seq(Ranges)
  BY <1>1, <1>3, RestHolds DEF Holds, ListOK
<1>11. m \in [Buffer -> 0 .. 255]
  <2>1. CASE ptr = NULL
    BY <1>1, <2>1 DEF TypeOK
  <2>2. CASE ptr # NULL
    <3>1. ptr \in Pointers /\ m = IF copies THEN moved(mem, blocks[x], ptr, n) ELSE mem
      BY <2>2
    <3>2. TypeOK /\ ListOK(ranges) /\ RangesRight /\ BlocksDiffer
          /\ x \in Live /\ copies \in BOOLEAN /\ op.size \in Nat
      BY <1>1, <1>3
    <3> HIDE DEF m
    <3> QED BY <3>1, <3>2, ReallocTypes, ZenonT(40)
  <2> QED BY <2>1, <2>2
\* A correct allocator has kept the bytes.
<1>12. ASSUME honest'
       PROVE  /\ ptr \in Pointers
              /\ \A j \in 0 .. n - 1 : m[ptr + j] = low_byte(x)
              /\ \A a \in Buffer : a \notin payload(ptr, op.size) => m[a] = mem[a]
  <2>1. /\ ptr # NULL /\ payload(ptr, op.size) \subseteq 0 .. heapsize' - 1 /\ copies
        /\ honest
    BY <1>8, <1>12 DEF Answer, Correct
  <2>2. ptr \in Pointers /\ ptr \in Int /\ blocks[x] \in Int /\ block_sizes[x] = Size(x)
    BY <1>1, <1>3, <2>1, PointerFacts DEF BlocksDiffer, SizesRight
  <2>3. Payload(x) \subseteq Buffer
    <3>1. Payload(x) \subseteq 0 .. heapsize - 1
      BY <1>1, <1>3, <2>1 DEF Placed
    <3>2. heapsize \in 0 .. MAX_HEAP
      BY <1>1 DEF TypeOK
    <3> QED BY <3>1, <3>2, HeapInBuffer
  <2>4. m = moved(mem, blocks[x], ptr, smaller(Size(x), op.size)) /\ n = smaller(Size(x), op.size)
    BY <2>1, <2>2
  <2> HIDE DEF m, n
  <2> QED BY <1>1, <1>3, <1>4, <2>1, <2>2, <2>3, <2>4, MovedBytes
<1> HIDE DEF rest, m, n
<1>13. CASE ptr = NULL
  <2>1. /\ UNCHANGED <<i, blocks, block_sizes, ranges>> /\ phase' = "invalid" /\ mem' = m
    BY <1>7, <1>13 DEF Reject
  <2>2. TypeOK'
    BY <1>1, <1>4, <1>8, <1>9, <1>11, <2>1 DEF TypeOK
  <2>3. ~honest'
    BY <1>8, <1>13 DEF Answer, Correct
  <2> QED BY <1>1, <2>1, <2>2, <2>3, Faulted DEF NoFalseAlarm
<1>14. CASE ptr # NULL /\ ~add_range_ok(rest, ptr, op.size, heapsize')
  <2>1. /\ UNCHANGED <<i, blocks, block_sizes>> /\ phase' = "invalid" /\ mem' = m
        /\ ranges' = rest
    BY <1>7, <1>14 DEF Reject
  <2>2. TypeOK'
    BY <1>1, <1>4, <1>8, <1>9, <1>10, <1>11, <2>1 DEF TypeOK
  <2>3. ~honest'
    <3> SUFFICES ASSUME honest' PROVE FALSE
      OBVIOUS
    <3>1. Placed /\ ptr \in Pointers /\ Answer(ptr, heapsize')
      BY <1>1, <1>8, <1>14
    <3> QED BY <1>1, <1>3, <1>4, <1>10, <1>14, <3>1, CorrectAccepted
  <2> QED BY <1>10, <2>1, <2>2, <2>3, Faulted DEF NoFalseAlarm
<1>15. CASE ptr # NULL /\ add_range_ok(rest, ptr, op.size, heapsize')
  <2>1. ranges' = add_range(rest, ptr, op.size) /\ ptr \in Pointers /\ ptr \in Int
    BY <1>7, <1>15, PointerFacts
  <2>2. CASE \E j \in 0 .. n - 1 : as_char(m[ptr + j]) # low_byte(x)
    <3>1. UNCHANGED <<i, blocks, block_sizes>> /\ phase' = "invalid" /\ mem' = m
      BY <1>7, <1>15, <2>2 DEF Reject
    <3>2. ListOK(ranges')
      BY <1>3, <1>4, <1>10, <1>15, <2>1, AddKeeps
    <3>3. ranges' \in Seq(Ranges)
      BY <3>2 DEF ListOK
    <3>4. TypeOK'
      BY <1>1, <1>4, <1>8, <1>9, <1>11, <3>1, <3>3 DEF TypeOK
    <3>5. honest' => CHAR_SIGNED /\ low_byte(x) >= 128
      <4> SUFFICES ASSUME honest' PROVE CHAR_SIGNED /\ low_byte(x) >= 128
        OBVIOUS
      <4>1. as_char(low_byte(x)) # low_byte(x)
        BY <1>12, <2>2
      <4> QED BY <1>3, <4>1, ByteFacts, ReadWrongly
    <3>6. NoFalseAlarm'
      BY <1>1, <1>2, <1>4, <3>1, <3>5, NotBlamed
    <3> QED BY <3>1, <3>2, <3>4, <3>6, Faulted
  <2>3. CASE ~\E j \in 0 .. n - 1 : as_char(m[ptr + j]) # low_byte(x)
    <3>1. /\ mem' = filled(m, ptr, op.size, low_byte(op.index))
          /\ blocks' = [blocks EXCEPT ![op.index] = ptr]
          /\ block_sizes' = [block_sizes EXCEPT ![op.index] = op.size]
          /\ i' = i + 1 /\ phase' = "valid"
      BY <1>1, <1>2, <1>7, <1>15, <2>3 DEF Remember
    <3>2. Take(ptr)
      BY <1>1, <1>3, <1>4, <2>1, <3>1 DEF Take
    <3>3. honest' => \A y \in Others : \A a \in Payload(y) :
                       a \notin payload(ptr, op.size) => m[a] = low_byte(y)
      <4> SUFFICES ASSUME honest', NEW y \in Others, NEW a \in Payload(y),
                          a \notin payload(ptr, op.size)
                   PROVE  m[a] = low_byte(y)
        OBVIOUS
      <4>1. y \in Live /\ honest
        BY <1>8 DEF Others
      <4>2. mem[a] = low_byte(y) /\ Payload(y) \subseteq 0 .. heapsize - 1
        BY <1>1, <4>1 DEF Filled, Placed
      <4>3. heapsize \in 0 .. MAX_HEAP
        BY <1>1 DEF TypeOK
      <4>4. a \in Buffer
        BY <4>2, <4>3, HeapInBuffer
      <4> QED BY <1>12, <4>2, <4>4
    <3>4. /\ TypeOK /\ BlocksDiffer /\ SizesRight
          /\ honest => HeldRight /\ Placed
      BY <1>1
    <3>5. honest' => honest /\ Answer(ptr, heapsize')
      BY <1>8
    <3> QED
      BY <1>4, <1>6, <1>8, <1>10, <1>11, <1>15, <2>1, <3>1, <3>2, <3>3, <3>4, <3>5,
         Accepted
  <2> QED BY <2>2, <2>3
<1> QED BY <1>7, <1>13, <1>14, <1>15

\* eval_mm_valid, case FREE.
LEMMA ValidFreeKeeps ==
  ASSUME IInv, ValidFree PROVE IInv'
<1>1. /\ TypeOK /\ ListOK(ranges) /\ RangesRight /\ BlocksDiffer /\ SizesRight
      /\ phase = "valid" /\ i < Len(trace) /\ op.type = "FREE"
      /\ honest => HeldRight /\ Placed /\ Filled
  BY DEF IInv, ValidFree, NextOp, Replaying, op
<1>2. /\ ranges' = remove_range(ranges, blocks[op.index])
      /\ held' = held \ {blocks[op.index]} /\ i' = i + 1
      /\ UNCHANGED <<trace, phase, blocks, block_sizes, mem, heapsize, total_size,
                     max_total_size, honest>>
  BY DEF ValidFree, GiveBack, eval
<1>3. Give
  BY <1>1, <1>2 DEF Give
<1>4. /\ op.index \in Live /\ Live' = Others /\ Others = Live \ {op.index}
      /\ \A y \in Others : y \in Live /\ blocks'[y] = blocks[y]
  BY <1>1, <1>3, GiveFacts DEF Others
<1>5. Holds(ranges', Others)
  BY <1>1, <1>2, <1>4, RestHolds
<1>6. ListOK(ranges') /\ ListOK(ranges)' /\ ranges' \in Seq(Ranges)
  BY <1>5 DEF Holds, ListOK, ApartOrAround, InBuffer
<1>7. RangesRight'
  BY <1>2, <1>4, <1>5 DEF RangesRight, Holds, Elements
<1>8. TypeOK'
  <2>1. trace' \in Traces /\ i' \in 0 .. Len(trace') /\ held' \subseteq Pointers
    BY <1>1, <1>2, <1>3, GiveTypes DEF TypeOK
  <2> QED BY <1>1, <1>2, <1>6, <2>1 DEF TypeOK
<1>9. /\ BlocksDiffer' /\ SizesRight'
      /\ honest' => HeldRight' /\ Placed' /\ Filled'
  BY <1>1, <1>2, <1>3, GiveKeeps
<1>10. phase' = "valid"
  BY <1>1, <1>2
<1> QED
  BY <1>6, <1>7, <1>8, <1>9, <1>10 DEF IInv, NoFalseAlarm, UtilizationAtMostOne, Replaying
-----------------------------------------------------------------------------
(* The replays without a range list *)

\* What an answer of the allocator under test does there.
LEMMA Answered ==
  ASSUME TypeOK, i < Len(trace), honest => BlocksDiffer /\ HeldRight /\ Placed,
         NEW ptr \in Pointers \union {NULL}, mm_answer(ptr, TakenBack)
  PROVE  /\ heapsize' \in heapsize .. MAX_HEAP /\ heapsize' \in 0 .. MAX_HEAP
         /\ held' \subseteq Pointers /\ honest' \in BOOLEAN
         /\ honest' => honest /\ Answer(ptr, heapsize')
         /\ Take(ptr) => (honest' => BlocksDiffer' /\ HeldRight' /\ Placed')
<1>1. /\ heapsize' \in heapsize .. MAX_HEAP /\ heapsize' \in 0 .. MAX_HEAP
      /\ HandOut(ptr, TakenBack)
  BY HeapTypes DEF mm_answer
<1>2. /\ held' \subseteq Pointers
      /\ honest' = (honest /\ Correct(ptr, op.size, heapsize', Others))
  BY <1>1, HandOutTypes DEF mm_answer, Others
<1>3. /\ honest' \in BOOLEAN
      /\ honest' => honest /\ Answer(ptr, heapsize')
  BY <1>2 DEF TypeOK, Answer
<1>4. Take(ptr) => (honest' => BlocksDiffer' /\ HeldRight' /\ Placed')
  BY <1>1, <1>3, CorrectStep
<1> QED BY <1>1, <1>2, <1>3, <1>4

\* An allocation in eval_mm_util, of a new block or in place of an old one.
LEMMA UtilKeeps ==
  ASSUME IInv, phase = "util", i < Len(trace), op.type # "FREE",
         NEW n \in Int, UtilAnswer(n, TakenBack),
         honest => n = Cardinality(UsedBy(Others)) + op.size
  PROVE  IInv'
<1>1. /\ TypeOK /\ ListOK(ranges) /\ SizesRight
      /\ honest => BlocksDiffer /\ HeldRight /\ Placed /\ Counted
      /\ honest => max_total_size <= heapsize
  BY DEF IInv, Replaying, UtilizationAtMostOne
<1>2. PICK ptr \in Pointers \union {NULL} :
        /\ mm_answer(ptr, TakenBack)
        /\ IF ptr = NULL THEN Exit /\ UNCHANGED <<block_sizes, eval>>
           ELSE Remember(ptr) /\ Total(n)
  BY DEF UtilAnswer
<1>3. UNCHANGED <<trace, ranges, mem>> /\ ListOK(ranges)' /\ ListOK(ranges')
  BY <1>1 DEF UtilAnswer, ListOK, ApartOrAround, InBuffer
<1>4. /\ heapsize' \in heapsize .. MAX_HEAP /\ heapsize' \in 0 .. MAX_HEAP
      /\ held' \subseteq Pointers /\ honest' \in BOOLEAN
      /\ honest' => honest
      /\ Take(ptr) => (honest' => BlocksDiffer' /\ HeldRight' /\ Placed')
  BY <1>1, <1>2, Answered
<1>5. CASE ptr = NULL
  <2>1. /\ phase' = "exited"
        /\ UNCHANGED <<i, blocks, block_sizes, total_size, max_total_size>>
    BY <1>2, <1>5 DEF Exit, eval
  <2>2. TypeOK'
    BY <1>1, <1>3, <1>4, <2>1 DEF TypeOK
  <2> QED BY <1>3, <2>1, <2>2, Faulted DEF NoFalseAlarm
<1>6. CASE ptr # NULL
  <2>1. /\ blocks' = [blocks EXCEPT ![op.index] = ptr] /\ i' = i + 1 /\ phase' = "util"
        /\ block_sizes' = [block_sizes EXCEPT ![op.index] = op.size]
        /\ total_size' = n
        /\ max_total_size' = IF n > max_total_size THEN n ELSE max_total_size
        /\ ptr \in Pointers
    BY <1>2, <1>6 DEF Remember, Total
  <2>2. Take(ptr)
    BY <1>3, <2>1 DEF Take
  <2>3. /\ trace' \in Traces /\ i' \in 0 .. Len(trace')
        /\ blocks' \in [Indices -> Pointers \union {NULL}]
    BY <1>1, <2>2, TakeTypes
  <2>4. block_sizes' \in [Indices -> Nat]
    BY <1>1, <2>1, OpFacts DEF TypeOK
  <2>5. total_size' \in Int /\ max_total_size' \in Int
    BY <1>1, <2>1 DEF TypeOK
  <2>6. TypeOK'
    <3>1. /\ ranges' \in Seq(Ranges) /\ mem' \in [Buffer -> 0 .. 255]
          /\ phase' \in {"libc_valid", "libc_speed", "start", "valid",
                         "invalid", "util", "speed", "exited"}
      BY <1>1, <1>3, <2>1 DEF TypeOK
    <3> QED BY <1>4, <2>3, <2>4, <2>5, <3>1 DEF TypeOK
  <2>7. SizesRight'
    BY <1>1, <2>1, <2>2, TakeSizes
  <2>8. honest' => BlocksDiffer' /\ HeldRight' /\ Placed'
    BY <1>4, <2>2
  <2>9. ASSUME honest' PROVE Counted' /\ max_total_size' <= heapsize'
    <3>1. honest /\ Placed' /\ Placed /\ BlocksDiffer /\ max_total_size <= heapsize
      BY <1>1, <1>4, <2>8, <2>9
    <3>2. /\ Cardinality(Used)' = Cardinality(UsedBy(Others)) + op.size
          /\ Cardinality(Used)' \in Nat /\ Cardinality(Used)' <= heapsize'
      BY <1>1, <1>4, <2>2, <3>1, UsedThen
    <3>3. n = Cardinality(Used)'
      BY <3>1, <3>2
    <3>4. heapsize \in Int /\ heapsize' \in Int /\ heapsize <= heapsize' /\ max_total_size \in Int
      BY <1>1, <1>4, PointerFacts, HeapFacts DEF TypeOK
    <3>5. max_total_size' <= heapsize'
      BY <2>1, <3>1, <3>2, <3>3, <3>4
    <3>6. Counted'
      BY <2>1, <3>3 DEF Counted
    <3> QED BY <3>5, <3>6
  <2> QED
    BY <1>3, <2>1, <2>6, <2>7, <2>8, <2>9
       DEF IInv, NoFalseAlarm, UtilizationAtMostOne, Replaying
<1> QED BY <1>5, <1>6

\* eval_mm_util, case ALLOC.
LEMMA UtilAllocKeeps ==
  ASSUME IInv, UtilAlloc PROVE IInv'
<1>1. /\ TypeOK /\ phase = "util" /\ i < Len(trace) /\ op.type = "ALLOC"
      /\ honest => BlocksDiffer /\ Placed /\ Counted
  BY DEF IInv, UtilAlloc, NextOp, Replaying, op
<1>2. TakenBack = {} /\ op.type # "FREE" /\ op.index \notin Live /\ op.size \in Int
  BY <1>1, OpFacts DEF TakenBack
<1>3. UtilAnswer(total_size + op.size, TakenBack)
  BY <1>2 DEF UtilAlloc
<1>4. honest => total_size + op.size = Cardinality(UsedBy(Others)) + op.size
  BY <1>1, <1>2, UsedNow DEF Counted
<1>5. total_size + op.size \in Int
  BY <1>1, <1>2 DEF TypeOK
<1> QED BY <1>1, <1>2, <1>3, <1>4, <1>5, UtilKeeps

\* eval_mm_util, case REALLOC: the total loses the old size.
LEMMA UtilReallocKeeps ==
  ASSUME IInv, UtilRealloc PROVE IInv'
<1>0. PICK x : x = op.index
  OBVIOUS
<1>1. /\ TypeOK /\ phase = "util" /\ i < Len(trace) /\ op.type = "REALLOC" /\ SizesRight
      /\ honest => BlocksDiffer /\ Placed /\ Counted
  BY DEF IInv, UtilRealloc, NextOp, Replaying, op
<1>2. /\ TakenBack = {blocks[op.index]} /\ op.type # "FREE" /\ x \in Live
      /\ op.size \in Int /\ x \in Indices
  BY <1>0, <1>1, OpFacts DEF TakenBack
<1> DEFINE n == total_size + (op.size - block_sizes[x])
<1>3. UtilAnswer(n, TakenBack)
  BY <1>0, <1>2 DEF UtilRealloc
<1>4. total_size \in Int /\ block_sizes[x] \in Int /\ block_sizes[x] = Size(x)
  BY <1>1, <1>2 DEF TypeOK, SizesRight
<1>5. honest => n = Cardinality(UsedBy(Others)) + op.size
  <2> SUFFICES ASSUME honest PROVE n = Cardinality(UsedBy(Others)) + op.size
    OBVIOUS
  <2>1. /\ Cardinality(UsedBy(Others)) \in Nat
        /\ total_size = Cardinality(UsedBy(Others)) + Size(x)
    BY <1>0, <1>1, <1>2, UsedNow DEF Counted
  <2> QED BY <1>2, <1>4, <2>1
<1>6. n \in Int
  BY <1>2, <1>4
<1> HIDE DEF n
<1> QED BY <1>1, <1>2, <1>3, <1>5, <1>6, UtilKeeps

\* What a free does to the state in the replays without a range list.
LEMMA FreeTypes ==
  ASSUME TypeOK, ListOK(ranges), Give, held' = held \ {blocks[op.index]},
         total_size' \in Int,
         UNCHANGED <<phase, ranges, block_sizes, mem, heapsize, max_total_size, honest>>
  PROVE  TypeOK' /\ ListOK(ranges)'
<1>1. trace' \in Traces /\ i' \in 0 .. Len(trace') /\ held' \subseteq Pointers
  BY GiveTypes DEF TypeOK
<1>2. ListOK(ranges)'
  BY DEF ListOK, ApartOrAround, InBuffer
<1>3. blocks' = blocks
  BY DEF Give
<1> QED BY <1>1, <1>2, <1>3 DEF TypeOK

\* eval_mm_util, case FREE.
LEMMA UtilFreeKeeps ==
  ASSUME IInv, UtilFree PROVE IInv'
<1>0. PICK x : x = op.index
  OBVIOUS
<1>1. /\ TypeOK /\ ListOK(ranges) /\ SizesRight
      /\ phase = "util" /\ i < Len(trace) /\ op.type = "FREE"
      /\ honest => BlocksDiffer /\ HeldRight /\ Placed /\ Counted
      /\ honest => max_total_size <= heapsize
  BY DEF IInv, UtilFree, NextOp, Replaying, op, UtilizationAtMostOne
<1>2. /\ held' = held \ {blocks[op.index]} /\ i' = i + 1
      /\ total_size' = total_size - block_sizes[x]
      /\ UNCHANGED <<trace, phase, ranges, blocks, block_sizes, mem, heapsize,
                     max_total_size, honest>>
  BY <1>0 DEF UtilFree, GiveBack
<1>3. Give
  BY <1>1, <1>2 DEF Give
<1>4. /\ x \in Live /\ Live' = Others
      /\ \A y \in Others : Payload(y)' = Payload(y)
  BY <1>0, <1>1, <1>3, GiveFacts
<1>5. total_size \in Int /\ block_sizes[x] \in Int /\ block_sizes[x] = Size(x)
  BY <1>1, <1>4, NowLive DEF TypeOK, SizesRight
<1>6. TypeOK' /\ ListOK(ranges)'
  BY <1>1, <1>2, <1>3, <1>5, FreeTypes
<1>7. /\ SizesRight'
      /\ honest' => BlocksDiffer' /\ HeldRight' /\ Placed'
  BY <1>1, <1>2, <1>3, GiveKeeps
<1>8. ASSUME honest' PROVE Counted'
  <2>1. /\ Cardinality(UsedBy(Others)) \in Nat
        /\ total_size = Cardinality(UsedBy(Others)) + Size(x)
    BY <1>0, <1>1, <1>2, <1>4, <1>8, UsedNow DEF Counted
  <2>2. Used' = UsedBy(Others)
    BY <1>4 DEF Used, UsedBy
  <2> QED BY <1>2, <1>5, <2>1, <2>2 DEF Counted
<1>9. phase' = "util" /\ (honest' => max_total_size' <= heapsize')
  BY <1>1, <1>2
<1> QED
  BY <1>6, <1>7, <1>8, <1>9 DEF IInv, NoFalseAlarm, UtilizationAtMostOne, Replaying

\* An allocation in eval_mm_speed.
LEMMA SpeedKeeps ==
  ASSUME IInv, phase = "speed", i < Len(trace), op.type # "FREE",
         SpeedAnswer(TakenBack)
  PROVE  IInv'
<1>1. /\ TypeOK /\ ListOK(ranges)
      /\ honest => BlocksDiffer /\ HeldRight /\ Placed
  BY DEF IInv, Replaying
<1>2. PICK ptr \in Pointers \union {NULL} :
        mm_answer(ptr, TakenBack) /\ IF ptr = NULL THEN Exit ELSE Store(ptr)
  BY DEF SpeedAnswer
<1>3. /\ UNCHANGED <<trace, ranges, block_sizes, mem, total_size, max_total_size>>
      /\ ListOK(ranges)' /\ ListOK(ranges')
  BY <1>1 DEF SpeedAnswer, ListOK, ApartOrAround, InBuffer, eval
<1>4. /\ heapsize' \in 0 .. MAX_HEAP /\ held' \subseteq Pointers /\ honest' \in BOOLEAN
      /\ Take(ptr) => (honest' => BlocksDiffer' /\ HeldRight' /\ Placed')
  BY <1>1, <1>2, Answered
<1>5. CASE ptr = NULL
  <2>1. phase' = "exited" /\ UNCHANGED <<i, blocks>>
    BY <1>2, <1>5 DEF Exit
  <2>2. TypeOK'
    BY <1>1, <1>3, <1>4, <2>1 DEF TypeOK
  <2> QED BY <1>3, <2>1, <2>2, Faulted DEF NoFalseAlarm
<1>6. CASE ptr # NULL
  <2>1. /\ blocks' = [blocks EXCEPT ![op.index] = ptr] /\ i' = i + 1 /\ phase' = "speed"
        /\ ptr \in Pointers
    BY <1>2, <1>6 DEF Store
  <2>2. Take(ptr)
    BY <1>3, <2>1 DEF Take
  <2>3. /\ trace' \in Traces /\ i' \in 0 .. Len(trace')
        /\ blocks' \in [Indices -> Pointers \union {NULL}]
    BY <1>1, <2>2, TakeTypes
  <2>4. TypeOK'
    BY <1>1, <1>3, <1>4, <2>1, <2>3 DEF TypeOK
  <2>5. honest' => BlocksDiffer' /\ HeldRight' /\ Placed'
    BY <1>4, <2>2
  <2> QED
    BY <1>3, <2>1, <2>4, <2>5 DEF IInv, NoFalseAlarm, UtilizationAtMostOne, Replaying
<1> QED BY <1>5, <1>6

\* An allocation by libc, which hands out no block twice.
LEMMA LibcKeeps ==
  ASSUME IInv, InLibc, i < Len(trace), op.type # "FREE", LibcAnswer(TakenBack)
  PROVE  IInv'
<1>1. /\ TypeOK /\ ListOK(ranges)
      /\ phase \in {"libc_valid", "libc_speed"}
      /\ honest => BlocksDiffer /\ HeldRight
  BY DEF IInv, Replaying, InLibc
<1>2. PICK ptr \in (Pointers \ (held \ TakenBack)) \union {NULL} :
        HandOut(ptr, TakenBack) /\ IF ptr = NULL THEN Exit ELSE Store(ptr)
  BY DEF LibcAnswer
<1>3. /\ UNCHANGED <<trace, ranges, block_sizes, mem, heapsize, total_size,
                     max_total_size, honest>>
      /\ ListOK(ranges)' /\ ListOK(ranges')
  BY <1>1 DEF LibcAnswer, ListOK, ApartOrAround, InBuffer, eval
<1>4. held' \subseteq Pointers
  BY <1>1, <1>2, HandOutTypes
<1>5. CASE ptr = NULL
  <2>1. phase' = "exited" /\ UNCHANGED <<i, blocks>>
    BY <1>2, <1>5 DEF Exit
  <2>2. TypeOK'
    BY <1>1, <1>3, <1>4, <2>1 DEF TypeOK
  <2> QED BY <1>3, <2>1, <2>2, Faulted DEF NoFalseAlarm
<1>6. CASE ptr # NULL
  <2>1. /\ blocks' = [blocks EXCEPT ![op.index] = ptr] /\ i' = i + 1 /\ phase' = phase
        /\ ptr \in Pointers /\ ptr \notin held \ TakenBack
    BY <1>2, <1>6 DEF Store
  <2>2. Take(ptr)
    BY <1>3, <2>1 DEF Take
  <2>3. /\ trace' \in Traces /\ i' \in 0 .. Len(trace')
        /\ blocks' \in [Indices -> Pointers \union {NULL}]
    BY <1>1, <2>2, TakeTypes
  <2>4. TypeOK'
    BY <1>1, <1>3, <1>4, <2>1, <2>3 DEF TypeOK
  <2>5. ASSUME honest' PROVE BlocksDiffer' /\ HeldRight'
    <3>1. BlocksDiffer /\ HeldRight
      BY <1>1, <1>3, <2>5
    <3>2. \A y \in Others : ptr # blocks[y]
      BY <1>1, <2>1, <3>1, OthersHeld
    <3> QED BY <1>1, <1>2, <2>2, <3>1, <3>2, TakeDiffer, TakeHeld
  <2>6. phase' \in {"libc_valid", "libc_speed"}
    BY <1>1, <2>1
  <2> QED
    BY <1>3, <2>4, <2>5, <2>6 DEF IInv, NoFalseAlarm, UtilizationAtMostOne, Replaying
<1> QED BY <1>5, <1>6

\* eval_mm_speed and the replays with libc free in the same way.
LEMMA FreeKeeps ==
  ASSUME IInv, SpeedFree \/ LibcFree PROVE IInv'
<1>1. /\ TypeOK /\ ListOK(ranges) /\ i < Len(trace) /\ op.type = "FREE"
      /\ phase \in {"speed", "libc_valid", "libc_speed"}
      /\ honest => BlocksDiffer /\ HeldRight
      /\ phase = "speed" /\ honest => Placed
  BY DEF IInv, SpeedFree, LibcFree, InLibc, NextOp, Replaying, op
<1>2. /\ held' = held \ {blocks[op.index]} /\ i' = i + 1
      /\ UNCHANGED <<trace, phase, ranges, blocks, block_sizes, mem, heapsize,
                     total_size, max_total_size, honest>>
  BY DEF SpeedFree, LibcFree, GiveBack, eval
<1>3. Give
  BY <1>1, <1>2 DEF Give
<1>4. TypeOK' /\ ListOK(ranges)'
  BY <1>1, <1>2, <1>3, FreeTypes DEF TypeOK
<1>5. honest' => BlocksDiffer' /\ HeldRight'
  BY <1>1, <1>2, <1>3, GiveKeeps
<1>6. phase' = "speed" /\ honest' => Placed'
  BY <1>1, <1>2, <1>3, GiveKeeps
<1>7. phase' \in {"speed", "libc_valid", "libc_speed"}
  BY <1>1, <1>2
<1> QED
  BY <1>4, <1>5, <1>6, <1>7 DEF IInv, NoFalseAlarm, UtilizationAtMostOne, Replaying
-----------------------------------------------------------------------------
(* The invariant *)

\* Every step of main keeps the invariant.
LEMMA StepKeeps ==
  ASSUME IInv, Next PROVE IInv'
<1>1. CASE LibcAlloc
  <2>1. InLibc /\ i < Len(trace) /\ op.type = "ALLOC" /\ LibcAnswer({})
    BY <1>1 DEF LibcAlloc, NextOp, op
  <2> QED BY <2>1, LibcKeeps DEF TakenBack
<1>2. CASE LibcRealloc
  <2>1. /\ InLibc /\ i < Len(trace) /\ op.type = "REALLOC"
        /\ LibcAnswer({blocks[op.index]})
    BY <1>2 DEF LibcRealloc, NextOp, op
  <2> QED BY <2>1, LibcKeeps DEF TakenBack
<1>3. CASE SpeedAlloc
  <2>1. phase = "speed" /\ i < Len(trace) /\ op.type = "ALLOC" /\ SpeedAnswer({})
    BY <1>3 DEF SpeedAlloc, NextOp, op
  <2> QED BY <2>1, SpeedKeeps DEF TakenBack
<1>4. CASE SpeedRealloc
  <2>1. /\ phase = "speed" /\ i < Len(trace) /\ op.type = "REALLOC"
        /\ SpeedAnswer({blocks[op.index]})
    BY <1>4 DEF SpeedRealloc, NextOp, op
  <2> QED BY <2>1, SpeedKeeps DEF TakenBack
<1>5. CASE SpeedFree \/ LibcFree
  BY <1>5, FreeKeeps
<1>6. CASE StartLibcSpeed
  BY <1>6, StartLibcSpeedKeeps
<1>7. CASE StartValid
  BY <1>7, StartValidKeeps
<1>8. CASE ValidAlloc
  BY <1>8, ValidAllocKeeps
<1>9. CASE ValidRealloc
  BY <1>9, ValidReallocKeeps
<1>10. CASE ValidFree
  BY <1>10, ValidFreeKeeps
<1>11. CASE StartUtil
  BY <1>11, StartUtilKeeps
<1>12. CASE UtilAlloc
  BY <1>12, UtilAllocKeeps
<1>13. CASE UtilRealloc
  BY <1>13, UtilReallocKeeps
<1>14. CASE UtilFree
  BY <1>14, UtilFreeKeeps
<1>15. CASE StartSpeed
  BY <1>15, StartSpeedKeeps
<1>16. CASE NextTrace
  BY <1>16, NextTraceKeeps
<1> QED
  BY <1>1, <1>2, <1>3, <1>4, <1>5, <1>6, <1>7, <1>8, <1>9, <1>10, <1>11, <1>12,
     <1>13, <1>14, <1>15, <1>16 DEF Next

\* So does a step of anything else.
LEMMA IdleKeeps ==
  ASSUME IInv, UNCHANGED vars PROVE IInv'
<1>1. TypeOK'
  BY DEF vars, IInv, TypeOK
<1>2. ListOK(ranges)'
  BY DEF vars, IInv, ListOK, ApartOrAround, InBuffer
<1>3. Live' = Live /\ op' = op /\ Replaying' = Replaying /\ \A x : Payload(x)' = Payload(x) /\ Size(x)' = Size(x)
  BY DEF vars, Live, op, Replaying, Payload, Size
<1>4. /\ RangesRight => RangesRight'
      /\ BlocksDiffer => BlocksDiffer'
      /\ HeldRight => HeldRight'
      /\ SizesRight => SizesRight'
  BY <1>3 DEF vars, RangesRight, Elements, BlocksDiffer, HeldRight, SizesRight
<1>5. Placed => Placed'
  BY <1>3 DEF vars, Placed
<1>6. Filled => Filled'
  BY <1>3 DEF vars, Filled
<1>7. Counted => Counted'
  BY <1>3 DEF vars, Counted, Used
<1>8. NoFalseAlarm' /\ UtilizationAtMostOne'
  BY <1>3 DEF vars, IInv, NoFalseAlarm, UtilizationAtMostOne
<1> QED
  BY <1>1, <1>2, <1>3, <1>4, <1>5, <1>6, <1>7, <1>8 DEF vars, IInv

\* What holds throughout main, whatever the allocator under test answers: the
\* inductive invariant that the other theorems follow from.
THEOREM InvariantHolds == Spec => []IInv
<1>1. Init => IInv
  BY Initially
<1>2. IInv /\ [Next]_vars => IInv'
  BY StepKeeps, IdleKeeps
<1> QED
  BY <1>1, <1>2, PTL DEF Spec

\* The variables have their types: in particular the bytes that a realloc
\* copies are bytes of the heap, although the allocator may return any address.
THEOREM TypeCorrect == Spec => []TypeOK
<1>1. IInv => TypeOK
  BY DEF IInv
<1> QED
  BY <1>1, InvariantHolds, PTL

\* In eval_mm_valid the range list holds the payloads of the live requests and
\* nothing else, so that remove_range removes what it is meant to.
THEOREM RangesLive == Spec => []RangesAreLive
<1>1. IInv => RangesAreLive
  <2> SUFFICES ASSUME IInv, phase = "valid"
               PROVE  /\ {ranges[k] : k \in DOMAIN ranges}
                           = {range(blocks[x], block_sizes[x]) : x \in Live}
                      /\ Len(ranges) = Cardinality(Live)
    BY DEF RangesAreLive
  <2>1. RangesRight /\ ListOK(ranges)
    BY DEF IInv
  <2>2. DOMAIN ranges = 1 .. Len(ranges)
    BY <2>1, ListFacts
  <2> QED BY <2>1, <2>2 DEF RangesRight, Elements
<1> QED
  BY <1>1, InvariantHolds, PTL

\* Intervals of which one ends before the other begins have nothing in common.
LEMMA Apart ==
  ASSUME NEW a \in Int, NEW b \in Int, NEW c \in Int, NEW d \in Int,
         b < c \/ d < a
  PROVE  a .. b \intersect c .. d = {}
  OBVIOUS

\* Of two payloads that add_range has let into the list, the later one may
\* overlap the earlier one only by enclosing it.
THEOREM OverlapsAreEnclosures == Spec => []OverlapsEnclose
<1>1. IInv => OverlapsEnclose
  <2> SUFFICES ASSUME ListOK(ranges), NEW j \in DOMAIN ranges, NEW k \in DOMAIN ranges,
                      j < k
               PROVE  \/ ranges[j].lo .. ranges[j].hi
                           \intersect ranges[k].lo .. ranges[k].hi = {}
                      \/ ranges[j].lo < ranges[k].lo /\ ranges[k].hi < ranges[j].hi
    BY DEF IInv, OverlapsEnclose
  <2>1. /\ j \in 1 .. Len(ranges) /\ k \in 1 .. Len(ranges)
        /\ ranges[j].lo \in Int /\ ranges[j].hi \in Int
        /\ ranges[k].lo \in Int /\ ranges[k].hi \in Int
    BY ListFacts
  <2>2. ApartOrAround(ranges[j], ranges[k])
    BY <2>1 DEF ListOK
  <2> QED BY <2>1, <2>2, Apart DEF ApartOrAround
<1> QED
  BY <1>1, InvariantHolds, PTL

\* eval_mm_valid blames no allocator that has answered every request of the
\* trace correctly, but for the bytes that it reads as negative chars.
THEOREM NoAlarm == Spec => []NoFalseAlarm
<1>1. IInv => NoFalseAlarm
  BY DEF IInv
<1> QED
  BY <1>1, InvariantHolds, PTL

\* What eval_mm_util counts for a correct allocator is what is allocated, and
\* that is never more than the heap.
THEOREM Utilization == Spec => []UtilizationAtMostOne
<1>1. IInv => UtilizationAtMostOne
  BY DEF IInv
<1> QED
  BY <1>1, InvariantHolds, PTL

\* In every replay the blocks array has, for the live requests, exactly the
\* blocks that a correct allocator, or libc, has handed out, each once.
THEOREM BlocksAreOut == Spec => []HoldsWhatIsOut
<1>1. IInv => HoldsWhatIsOut
  <2> SUFFICES ASSUME IInv, phase \notin {"start", "invalid", "exited"}, honest
               PROVE  held = {blocks[x] : x \in Live} /\ Cardinality(held) = Cardinality(Live)
    BY DEF HoldsWhatIsOut
  <2>1. TypeOK /\ Replaying
    BY DEF IInv, TypeOK, Replaying
  <2>2. HeldRight /\ BlocksDiffer
    BY <2>1 DEF IInv
  <2> DEFINE f == [x \in Live |-> blocks[x]]
  <2>3. f \in Bijection(Live, held)
    BY <2>2 DEF Bijection, Injection, IsInjective, Surjection, HeldRight, BlocksDiffer
  <2>4. IsFiniteSet(Live)
    BY <2>1, NowLive
  <2> HIDE DEF f
  <2>5. Cardinality(held) = Cardinality(Live)
    BY <2>3, <2>4, FS_Bijection DEF ExistsBijection
  <2> QED BY <2>2, <2>5 DEF HeldRight
<1> QED
  BY <1>1, InvariantHolds, PTL
=============================================================================
