------------------------------ MODULE MMProofs ------------------------------
(***************************************************************************)
(* Proofs about the allocator of MM.tla, for every size of heap, first     *)
(* block, request and set of trace ids.                                    *)
(***************************************************************************)
EXTENDS MM, TLAPS

Memory == [Addresses -> Word]
-----------------------------------------------------------------------------
(* Memory and tags *)

SameOutside(S, m, m2) == \A x \in Addresses \ S : m2[x] = m[x]

\* mark_block sets two words and leaves all others.
LEMMA MarkFacts ==
  ASSUME NEW m \in Memory, NEW b \in Addresses, NEW n \in Nat,
         NEW f \in Addresses, f = footer_pointer(b, n), NEW alloc \in BOOLEAN
  PROVE  /\ mark_block(m, b, n, alloc) \in Memory
         /\ mark_block(m, b, n, alloc)[b] = Tag(n, alloc)
         /\ mark_block(m, b, n, alloc)[f] = Tag(n, alloc)
         /\ SameOutside({b, f}, m, mark_block(m, b, n, alloc))
<1>1. Tag(n, alloc) \in Word
  BY DEF Tag, Word
<1> QED
  BY <1>1 DEF Memory, mark_block, SameOutside

\* The fields of a tag are what mark_block packed into it.
LEMMA TagFacts ==
  ASSUME NEW n \in Nat, NEW alloc \in BOOLEAN
  PROVE  Tag(n, alloc).size = n /\ Tag(n, alloc).alloc = alloc
BY DEF Tag

\* What the proofs below use of a tiled memory.
Regular(hs, m, t) ==
  /\ 0 \in hs
  /\ \A h \in hs :
       /\ h \in Nat /\ h < t
       /\ m[h].size \in Nat /\ m[h].size >= 4 /\ m[h].alloc \in BOOLEAN
       /\ m[h + m[h].size - 1] = m[h]
       /\ h + m[h].size \in hs \union {t}
       /\ h + m[h].size <= t
       /\ h \in Addresses /\ h + m[h].size - 1 \in Addresses
  /\ \A h, g \in hs : h < g => h + m[h].size <= g
  /\ \A g \in (hs \union {t}) \ {0} : \E h \in hs : h + m[h].size = g

\* A tiled memory is regular.
LEMMA TiledFacts ==
  ASSUME NEW m \in Memory, NEW t \in Nat, t <= ADDR_LIMIT,
         NEW hs \in SUBSET (0 .. t - 1), Tiled(hs, m, t)
  PROVE  Regular(hs, m, t)
<1>1. \A h \in hs : h \in Nat /\ h < t /\ h \in Addresses /\ m[h] \in Word
  BY MMAssumption DEF Addresses, base, Memory
<1>2. \A h \in hs : m[h].size \in Nat /\ m[h].alloc \in BOOLEAN
  BY <1>1 DEF Word
<1> QED
  BY <1>1, <1>2, MMAssumption
  DEF Tiled, base, MIN_BLOCK, footer_pointer, Addresses, Regular

\* Marking the space from the block a to the block boundary e as one block.
LEMMA TiledMerged ==
  ASSUME NEW m \in Memory, NEW t \in Nat, t <= ADDR_LIMIT,
         NEW hs \in SUBSET (0 .. t - 1), Tiled(hs, m, t),
         NEW a \in hs, NEW e \in hs \union {t}, a < e,
         NEW m2 \in Memory, e = a + m2[a].size, m2[e - 1] = m2[a],
         \A x \in Addresses : x # a /\ x # e - 1 => m2[x] = m[x]
  PROVE  Tiled({h \in hs : h <= a \/ h >= e}, m2, t)
<1> DEFINE hs2 == {h \in hs : h <= a \/ h >= e}
<1> USE MMAssumption
<1>t. Regular(hs, m, t)
  BY TiledFacts
<1> USE DEF Regular
<1>0. a \in Nat /\ e \in Nat /\ e <= t
  OBVIOUS
<1>1. a + m[a].size <= e /\ m2[a].size \in Nat /\ m2[a].size >= 4
  <2>1. m2[a].size \in Nat
    BY <1>t DEF Memory, Word
  <2> QED BY <1>0, <1>t, <2>1
<1>2. \A x \in Addresses : x # a /\ x # e - 1 => m2[x] = m[x]
  OBVIOUS
<1>4. ASSUME NEW h \in hs2, h # a
      PROVE  /\ m2[h] = m[h]
             /\ m2[h + m[h].size - 1] = m[h + m[h].size - 1]
  <2>1. CASE h < a
    BY <2>1, <1>0, <1>2, <1>t
  <2>2. CASE h >= e
    BY <2>2, <1>0, <1>2, <1>t
  <2> QED BY <2>1, <2>2, <1>4, <1>0
<1>5. 0 \in hs2
  BY <1>t, <1>0
<1>6. ASSUME NEW h \in hs2
      PROVE  /\ h + m2[h].size <= t
             /\ m2[h].size >= 4
             /\ m2[h + m2[h].size - 1] = m2[h]
             /\ h + m2[h].size \in hs2 \union {t}
             /\ \A g \in hs2 : h < g => h + m2[h].size <= g
  <2>1. CASE h = a
    <3>1. h + m2[h].size = e /\ m2[h].size >= 4
      BY <2>1, <1>0, <1>1
    <3>2. e \in hs2 \union {t}
      BY <1>0
    <3>3. m2[h + m2[h].size - 1] = m2[h]
      <4>1. h + m2[h].size - 1 = e - 1
        BY <2>1, <3>1, <1>0, <1>1
      <4> QED BY <2>1, <4>1
    <3>4. \A g \in hs2 : h < g => e <= g
      BY <2>1, <1>0, <1>t
    <3> QED BY <3>1, <3>2, <3>3, <3>4, <1>0, <1>1
  <2>2. CASE h # a
    <3>1. m2[h] = m[h] /\ m2[h + m[h].size - 1] = m[h]
      BY <1>4, <2>2, <1>t
    <3>2. h + m[h].size \in hs2 \union {t}
      BY <1>t, <1>0, <2>2
    <3> QED BY <3>1, <3>2, <1>t
  <2> QED BY <2>1, <2>2
<1>7. ASSUME NEW g \in (hs2 \union {t}) \ {0}
      PROVE  \E h \in hs2 : h + m2[h].size = g
  <2>1. CASE g = e
    BY <2>1, <1>0
  <2>2. CASE g # e
    <3>1. PICK h \in hs : h + m[h].size = g
      BY <1>t, <1>0
    <3>2. h \in hs2 /\ h # a
      BY <3>1, <2>2, <1>0, <1>t, SMTT(30)
    <3> QED BY <3>1, <3>2, <1>4
  <2> QED BY <2>1, <2>2
<1> QED
  BY <1>5, <1>6, <1>7 DEF Tiled, base, MIN_BLOCK, footer_pointer

\* Splitting the block b at c.
SplitAt(b, c, e, m, m2) ==
  /\ c \in Nat /\ b + 4 <= c
  /\ e \in Nat /\ c + 4 <= e
  /\ c = b + m2[b].size /\ m2[c - 1] = m2[b]
  /\ e = c + m2[c].size /\ m2[e - 1] = m2[c]
  /\ \A x \in Addresses : x \notin {b, c - 1, c, e - 1} => m2[x] = m[x]

\* Splitting a block as mm_malloc does leaves the heap tiled.
LEMMA TiledSplit ==
  ASSUME NEW m \in Memory, NEW t \in Nat, t <= ADDR_LIMIT,
         NEW hs \in SUBSET (0 .. t - 1), Tiled(hs, m, t),
         NEW b \in hs, NEW c, NEW e, e = b + m[b].size,
         NEW m2 \in Memory, SplitAt(b, c, e, m, m2)
  PROVE  Tiled(hs \union {c}, m2, t)
<1> DEFINE hs2 == hs \union {c}
<1> USE MMAssumption
<1>t. Regular(hs, m, t)
  BY TiledFacts
<1> USE DEF Regular
<1>s. /\ c \in Nat /\ b + 4 <= c /\ e \in Nat /\ c + 4 <= e
      /\ c = b + m2[b].size /\ m2[c - 1] = m2[b]
      /\ e = c + m2[c].size /\ m2[e - 1] = m2[c]
      /\ \A x \in Addresses : x \notin {b, c - 1, c, e - 1} => m2[x] = m[x]
  BY DEF SplitAt
<1>0. /\ b \in Nat /\ e <= t /\ b < c /\ c < e /\ e \in hs \union {t}
      /\ c \in Nat /\ e \in Nat
      /\ \A g \in hs : g \in Nat /\ (b < g => e <= g /\ c <= g)
  BY <1>t, <1>s
<1>4. /\ c = b + m2[b].size /\ m2[b].size \in Nat /\ m2[b].size >= 4
      /\ e = c + m2[c].size /\ m2[c].size \in Nat /\ m2[c].size >= 4
      /\ m2[c - 1] = m2[b] /\ m2[e - 1] = m2[c]
  <2>1. b \in Addresses /\ c \in Addresses
    BY <1>0 DEF Addresses, base
  <2>2. m2[b].size \in Nat /\ m2[c].size \in Nat
    BY <2>1 DEF Memory, Word
  <2> QED BY <1>0, <1>s, <2>2
<1>5. \A x \in Addresses : x < b \/ x >= e => m2[x] = m[x]
  BY <1>0, <1>s
<1>6. ASSUME NEW h \in hs, h # b
      PROVE  /\ m2[h] = m[h]
             /\ m2[h + m[h].size - 1] = m[h + m[h].size - 1]
  <2>1. /\ h \in Addresses /\ h + m[h].size - 1 \in Addresses
        /\ h \in Nat /\ m[h].size \in Nat /\ m[h].size >= 4
    BY <1>t
  <2>2. CASE h < b
    <3>1. h + m[h].size <= b
      BY <2>2, <1>t
    <3> QED BY <2>1, <2>2, <3>1, <1>0, <1>5
  <2>3. CASE h > b
    <3>1. h >= e
      BY <2>3, <1>0
    <3> QED BY <2>1, <3>1, <1>0, <1>5
  <2> QED BY <2>1, <2>2, <2>3, <1>6, <1>0
<1>7. ASSUME NEW h \in hs2
      PROVE  /\ h + m2[h].size <= t
             /\ m2[h].size >= 4
             /\ m2[h + m2[h].size - 1] = m2[h]
             /\ h + m2[h].size \in hs2 \union {t}
             /\ \A g \in hs2 : h < g => h + m2[h].size <= g
  <2>1. CASE h = b
    <3>1. h + m2[h].size = c /\ h + m2[h].size - 1 = c - 1
      BY <2>1, <1>0, <1>4
    <3>2. ASSUME NEW g \in hs2, h < g PROVE c <= g
      <4>1. CASE g \in hs
        BY <2>1, <3>2, <4>1, <1>0
      <4>2. CASE g = c
        BY <4>2, <1>0
      <4> QED BY <4>1, <4>2
    <3> QED BY <2>1, <3>1, <3>2, <1>0, <1>4
  <2>2. CASE h = c
    <3>1. h + m2[h].size = e /\ h + m2[h].size - 1 = e - 1
      BY <2>2, <1>0, <1>4
    <3>2. ASSUME NEW g \in hs2, h < g PROVE e <= g
      <4>1. g \in hs /\ b < g
        BY <2>2, <3>2, <1>0
      <4> QED BY <4>1, <1>0
    <3> QED BY <2>2, <3>1, <3>2, <1>0, <1>4
  <2>3. CASE h # b /\ h # c
    <3>1. m2[h] = m[h] /\ m2[h + m[h].size - 1] = m[h]
      BY <1>6, <2>3, <1>t
    <3>0. h \in hs /\ h \in Nat /\ m[h].size \in Nat
      BY <2>3, <1>t
    <3>2. ASSUME NEW g \in hs2, h < g PROVE h + m[h].size <= g
      <4>1. CASE g \in hs
        BY <3>0, <3>2, <4>1, <1>t
      <4>2. CASE g = c
        <5>1. h < b
          BY <2>3, <3>0, <3>2, <4>2, <1>0
        <5>2. h + m[h].size <= b
          BY <3>0, <5>1, <1>t
        <5> QED BY <3>0, <4>2, <5>2, <1>0
      <4> QED BY <4>1, <4>2
    <3>3. h + m[h].size \in hs2 \union {t} /\ h + m[h].size <= t /\ m[h].size >= 4
      BY <3>0, <1>t
    <3> QED BY <3>1, <3>2, <3>3
  <2> QED BY <2>1, <2>2, <2>3
<1>8. ASSUME NEW g \in (hs2 \union {t}) \ {0}
      PROVE  \E h \in hs2 : h + m2[h].size = g
  <2>1. CASE g = c
    BY <2>1, <1>0, <1>4
  <2>2. CASE g = e
    <3>1. c + m2[c].size = e
      BY <1>0, <1>4
    <3> QED BY <2>2, <3>1
  <2>3. CASE g # c /\ g # e
    <3>1. g \in (hs \union {t}) \ {0}
      BY <2>3, <1>8
    <3>2. PICK h \in hs : h + m[h].size = g
      BY <1>t, <3>1
    <3>3. h # b
      BY <3>2, <2>3, <1>0
    <3> QED BY <3>2, <3>3, <1>6
  <2> QED BY <2>1, <2>2, <2>3
<1> QED
  BY <1>t, <1>7, <1>8 DEF Tiled, base, MIN_BLOCK, footer_pointer

\* A new block from the end of the heap up to e.
TopAt(t, e, m, m2) ==
  /\ e \in Nat /\ t + 4 <= e /\ e <= ADDR_LIMIT
  /\ e = t + m2[t].size /\ m2[e - 1] = m2[t]
  /\ \A x \in Addresses : x # t /\ x # e - 1 => m2[x] = m[x]

\* A block added at the end of the heap leaves it tiled.
LEMMA TiledTop ==
  ASSUME NEW m \in Memory, NEW t \in Nat,
         NEW hs \in SUBSET (0 .. t - 1), Tiled(hs, m, t),
         NEW e, NEW m2 \in Memory, TopAt(t, e, m, m2)
  PROVE  Tiled(hs \union {t}, m2, e)
<1> DEFINE hs2 == hs \union {t}
<1> USE MMAssumption DEF TopAt
<1>0. /\ t <= ADDR_LIMIT /\ t < e
      /\ \A h \in hs : h \in Nat /\ h < t
  <2>1. \A h \in hs : h \in 0 .. t - 1
    OBVIOUS
  <2>2. t <= ADDR_LIMIT /\ t < e
    OBVIOUS
  <2> QED BY <2>1, <2>2
<1>t. Regular(hs, m, t)
  BY <1>0, TiledFacts
<1> USE DEF Regular
<1>2. /\ e = t + m2[t].size /\ m2[t].size \in Nat /\ m2[t].size >= 4
      /\ m2[e - 1] = m2[t]
  <2>1. t \in Addresses
    BY <1>0 DEF Addresses, base
  <2>2. m2[t].size \in Nat
    BY <2>1 DEF Memory, Word
  <2> QED BY <1>0, <2>2
<1>3. \A x \in Addresses : x < t => m2[x] = m[x]
  BY <1>0
<1>4. ASSUME NEW h \in hs
      PROVE  m2[h] = m[h] /\ m2[h + m[h].size - 1] = m[h + m[h].size - 1]
  BY <1>0, <1>t, <1>3
<1>5. ASSUME NEW h \in hs2
      PROVE  /\ h + m2[h].size <= e
             /\ m2[h].size >= 4
             /\ m2[h + m2[h].size - 1] = m2[h]
             /\ h + m2[h].size \in hs2 \union {e}
             /\ \A g \in hs2 : h < g => h + m2[h].size <= g
  <2>1. CASE h = t
    <3>1. h + m2[h].size = e /\ h + m2[h].size - 1 = e - 1
      BY <2>1, <1>2
    <3>2. ASSUME NEW g \in hs2, h < g PROVE FALSE
      BY <2>1, <3>2, <1>0
    <3>3. m2[h + m2[h].size - 1] = m2[h]
      BY <2>1, <3>1, <1>2
    <3>4. m2[h].size >= 4
      BY <2>1, <1>2
    <3> QED BY <3>1, <3>2, <3>3, <3>4
  <2>2. CASE h \in hs
    <3>1. m2[h] = m[h] /\ m2[h + m[h].size - 1] = m[h]
      BY <2>2, <1>4, <1>t
    <3>2. \A g \in hs2 : h < g => h + m[h].size <= g
      BY <2>2, <1>0, <1>t
    <3> QED BY <2>2, <3>1, <3>2, <1>0, <1>t
  <2> QED BY <2>1, <2>2
<1>6. ASSUME NEW g \in (hs2 \union {e}) \ {0}
      PROVE  \E h \in hs2 : h + m2[h].size = g
  <2>1. CASE g = e
    BY <2>1, <1>2
  <2>2. CASE g # e
    <3>1. PICK h \in hs : h + m[h].size = g
      BY <1>t, <2>2
    <3> QED BY <3>1, <1>4
  <2> QED BY <2>1, <2>2
<1> QED
  BY <1>t, <1>5, <1>6 DEF Tiled, base, MIN_BLOCK, footer_pointer

\* A new block at the end of the heap, split at once at c.
LEMMA TiledTopSplit ==
  ASSUME NEW m \in Memory, NEW t \in Nat,
         NEW hs \in SUBSET (0 .. t - 1), Tiled(hs, m, t),
         NEW c, NEW e, e <= ADDR_LIMIT,
         NEW m2 \in Memory, SplitAt(t, c, e, m, m2)
  PROVE  Tiled(hs \union {t, c}, m2, e)
<1> DEFINE l == e - t
           w == Tag(l, TRUE)
           m1 == [m EXCEPT ![t] = w, ![e - 1] = w]
           hs1 == hs \union {t}
<1> USE MMAssumption
<1>0. /\ l \in Nat /\ l >= 4 /\ e = t + l /\ t + 4 <= e /\ e \in Nat
      /\ c \in Nat /\ t + 4 <= c /\ c + 4 <= e
  BY DEF SplitAt
<1> HIDE DEF l
<1>w. w \in Word /\ w.size = l
  BY <1>0 DEF Tag, Word
<1> HIDE DEF w
<1>1. /\ m1 \in Memory /\ m1[t] = w /\ m1[e - 1] = w
      /\ \A x \in Addresses : x # t /\ x # e - 1 => m1[x] = m[x]
  <2>1. t \in Addresses /\ e - 1 \in Addresses
    BY <1>0 DEF Addresses, base
  <2> QED BY <1>w, <2>1 DEF Memory
<1> HIDE DEF m1
<1>2. Tiled(hs1, m1, e)
  <2>1. TopAt(t, e, m, m1)
    BY <1>0, <1>1, <1>w DEF TopAt
  <2> QED BY <1>0, <1>1, <2>1, TiledTop
<1>3. hs1 \in SUBSET (0 .. e - 1) /\ t \in hs1
  <2>1. \A h \in hs1 : h \in 0 .. e - 1
    BY <1>0
  <2> QED BY <2>1
<1>4. e = t + m1[t].size
  BY <1>0, <1>1, <1>w
<1>5. \A x \in Addresses : x \notin {t, c - 1, c, e - 1} => m2[x] = m1[x]
  BY <1>1 DEF SplitAt
<1> HIDE DEF hs1
<1>6. SplitAt(t, c, e, m1, m2)
  BY <1>1, <1>5 DEF SplitAt
<1>7. Tiled(hs1 \union {c}, m2, e)
  BY <1>0, <1>1, <1>2, <1>3, <1>4, <1>6, TiledSplit
<1>8. hs1 \union {c} = hs \union {t, c}
  BY DEF hs1
<1> QED
  BY <1>7, <1>8

\* The client writes inside the block b.
WritesIn(b, m, m2) ==
  \A x \in Addresses : x <= b \/ x >= b + m[b].size - 1 => m2[x] = m[x]

\* What the client writes between the tags of a block leaves the heap tiled.
LEMMA TiledData ==
  ASSUME NEW m \in Memory, NEW t \in Nat, t <= ADDR_LIMIT,
         NEW hs \in SUBSET (0 .. t - 1), Tiled(hs, m, t),
         NEW b \in hs, NEW m2 \in Memory, WritesIn(b, m, m2)
  PROVE  /\ Tiled(hs, m2, t)
         /\ \A h \in hs : m2[h] = m[h]
<1> USE MMAssumption
<1>t. Regular(hs, m, t)
  BY TiledFacts
<1> USE DEF Regular, WritesIn
<1>1. ASSUME NEW h \in hs
      PROVE  m2[h] = m[h] /\ m2[h + m[h].size - 1] = m[h + m[h].size - 1]
  <2>1. CASE h < b
    BY <2>1, <1>t
  <2>2. CASE h = b
    BY <2>2, <1>t
  <2>3. CASE h > b
    BY <2>3, <1>t, SMTT(30)
  <2> QED BY <2>1, <2>2, <2>3, <1>t
<1> QED
  BY <1>t, <1>1, SMTT(30) DEF Tiled, base, MIN_BLOCK, footer_pointer
-----------------------------------------------------------------------------
(* Requests *)

\* adjusted_size makes room for the payload and the two tags.
LEMMA SizeFacts ==
  ASSUME NEW size \in Sizes
  PROVE  /\ roundup(size) \in Nat /\ roundup(size) >= 1
         /\ adjusted_size(size) \in Nat /\ adjusted_size(size) >= 4
         /\ roundup(size) + 2 <= adjusted_size(size)
<1>1. size \in Nat /\ size >= 1
  BY MMAssumption
<1> QED
  BY <1>1 DEF roundup, adjusted_size

\* The heap grows by what the request needs and the excess.
LEMMA ExtensionFacts ==
  ASSUME NEW n \in Nat
  PROVE  /\ excess_of(n) \in Nat
         /\ extension(n) \in Nat /\ extension(n) = n + excess_of(n)
BY MMAssumption DEF excess_of, extension
-----------------------------------------------------------------------------
(* The inductive invariant *)

IInv ==
  /\ TypeOK
  /\ HeapTiled
  /\ SearchAtBlock
  /\ NoAdjacentFree
  /\ BlocksOwned
  /\ ExtendOnlyWhenFull
  /\ Scanning

\* What the proofs below use of every state with a tiled heap.
LEMMA StateFacts ==
  ASSUME TypeOK, HeapTiled
  PROVE  /\ mem \in Memory /\ top \in Nat /\ top <= ADDR_LIMIT /\ top >= 4
         /\ heads \in SUBSET (0 .. top - 1)
         /\ Regular(heads, mem, top)
         /\ search \in Nat /\ p \in Nat
<1>1. /\ mem \in Memory /\ top \in Nat /\ top <= ADDR_LIMIT /\ top >= 4
      /\ heads \in SUBSET (0 .. top - 1)
      /\ search \in Nat /\ p \in Nat
  BY MMAssumption DEF TypeOK, Memory, base, MIN_BLOCK
<1> QED
  BY <1>1, TiledFacts DEF HeapTiled

\* A call in progress has a request.
LEMMA RequestFacts ==
  ASSUME TypeOK, pc # "idle"
  PROVE  /\ req \in [id : Ids, size : Sizes]
         /\ req.id \in Ids /\ req.size \in Sizes
         /\ total \in Nat /\ total >= 4 /\ roundup(req.size) + 2 <= total
<1>1. req \in [id : Ids, size : Sizes]
  BY DEF TypeOK
<1> QED
  BY <1>1, SizeFacts DEF total

\* The heap as mm_init leaves it.
Fresh ==
  /\ mem \in Memory
  /\ mem[0] = Tag(CHUNK_SIZE, FALSE)
  /\ mem[CHUNK_SIZE - 1] = Tag(CHUNK_SIZE, FALSE)
  /\ mem_brk = BrkAfter(mem_start_brk, CHUNK_SIZE + 1)
  /\ top = base + CHUNK_SIZE
  /\ search = base
  /\ heads = {base}
  /\ pc = "idle" /\ p = base /\ req = NULL
  /\ blocks = [id \in Ids |-> NULL]

\* The state that mm_init makes satisfies the invariant.
LEMMA FreshInv == Fresh => IInv
<1> SUFFICES ASSUME Fresh PROVE IInv
  OBVIOUS
<1> USE MMAssumption
<1>2. /\ mem \in Memory /\ mem[0] = Tag(CHUNK_SIZE, FALSE)
      /\ mem[CHUNK_SIZE - 1] = Tag(CHUNK_SIZE, FALSE)
  BY DEF Fresh
<1>3. mem[0].size = CHUNK_SIZE /\ mem[0].alloc = FALSE
  BY <1>2, TagFacts
<1>4. top = CHUNK_SIZE /\ heads = {0} /\ search = 0 /\ CHUNK_SIZE >= 4
  BY DEF Fresh, base, MIN_BLOCK
<1>5. TypeOK
  <2>1. mem_brk \in base .. top + 1
    BY MaxHeapAssumption DEF Fresh, BrkAfter, CanExtend, mem_start_brk, base
  <2>2. /\ top \in base + CHUNK_SIZE .. ADDR_LIMIT
        /\ search \in base .. top /\ p \in base .. top
        /\ heads \subseteq base .. top - 1
    BY <1>4 DEF Fresh, base
  <2>3. /\ pc \in {"idle", "fit", "wrap", "place", "fill"}
        /\ req \in [id : Ids, size : Sizes] \union {NULL}
        /\ blocks \in [Ids -> [ptr : Nat, size : Sizes] \union {NULL}]
        /\ pc = "idle" <=> req = NULL
        /\ pc = "idle" => p = base
    BY DEF Fresh
  <2> QED BY <1>2, <2>1, <2>2, <2>3 DEF TypeOK, Memory
<1>6. HeapTiled
  <2>1. mem[0 + mem[0].size - 1] = mem[0]
    <3>1. 0 + mem[0].size - 1 = CHUNK_SIZE - 1
      BY <1>3
    <3> QED BY <1>2, <3>1
  <2> QED BY <1>3, <1>4, <2>1
          DEF HeapTiled, Tiled, base, MIN_BLOCK, footer_pointer
<1>7. SearchAtBlock
  BY <1>4 DEF SearchAtBlock
<1>8. NoAdjacentFree
  BY <1>3, <1>4 DEF NoAdjacentFree, block_size
<1>9. BlocksOwned
  BY <1>3, <1>4 DEF BlocksOwned, Live, Fresh, is_allocated
<1>10. ExtendOnlyWhenFull /\ Scanning
  BY DEF ExtendOnlyWhenFull, Scanning, Fresh
<1> QED
  BY <1>5, <1>6, <1>7, <1>8, <1>9, <1>10 DEF IInv

\* mm_init marks the first block, whatever memory held before.
LEMMA FirstBlock ==
  ASSUME NEW m \in Memory
  PROVE  /\ mark_block(m, base, CHUNK_SIZE, FALSE) \in Memory
         /\ mark_block(m, base, CHUNK_SIZE, FALSE)[0] = Tag(CHUNK_SIZE, FALSE)
         /\ mark_block(m, base, CHUNK_SIZE, FALSE)[CHUNK_SIZE - 1]
              = Tag(CHUNK_SIZE, FALSE)
<1> USE MMAssumption
<1>1. Tag(CHUNK_SIZE, FALSE) \in Word
  BY DEF Tag, Word
<1>2. /\ 0 \in Addresses /\ CHUNK_SIZE - 1 \in Addresses
      /\ 0 + CHUNK_SIZE - 1 = CHUNK_SIZE - 1
  BY DEF Addresses, base, MIN_BLOCK
<1> QED
  BY <1>1, <1>2 DEF mark_block, footer_pointer, base, Memory

\* The first call of mm_init establishes the invariant.
LEMMA InitInv == Init => IInv
<1> SUFFICES ASSUME Init PROVE Fresh
  BY FreshInv
<1>1. PICK junk \in LibcWords :
        mem = mark_block([a \in Addresses |-> junk], base, CHUNK_SIZE, FALSE)
  BY DEF Init
<1>2. [a \in Addresses |-> junk] \in Memory
  BY MMAssumption DEF Memory
<1> QED
  BY <1>1, <1>2, FirstBlock DEF Init, Fresh

\* So does every later one, whatever the last trace left in memory.
LEMMA NewTraceFresh == IInv /\ NewTrace => Fresh'
<1> SUFFICES ASSUME IInv, NewTrace PROVE Fresh'
  OBVIOUS
<1>1. mem \in Memory /\ pc = "idle" /\ p = base /\ req = NULL
  BY DEF IInv, TypeOK, Memory, NewTrace
<1> QED
  BY <1>1, FirstBlock DEF NewTrace, Fresh

\* The parts of the invariant that hold on to the heap and to what is owned
\* are kept by a step that changes neither.
LEMMA SameHeap ==
  ASSUME HeapTiled, NoAdjacentFree, BlocksOwned, pc # "fill", pc' # "fill",
         UNCHANGED <<mem, top, mem_brk, heads, blocks>>
  PROVE  HeapTiled' /\ NoAdjacentFree' /\ BlocksOwned'
<1>1. HeapTiled' /\ NoAdjacentFree'
  BY DEF HeapTiled, Tiled, NoAdjacentFree, block_size, is_allocated
<1>2. BlocksOwned'
  BY DEF BlocksOwned, Live, block_of, is_allocated, block_size, block_pointer
<1> QED
  BY <1>1, <1>2

\* Calling mm_malloc preserves the invariant.
LEMMA MallocCallInv ==
  ASSUME IInv, NEW id \in Ids, NEW size \in Sizes, MallocCall(id, size)
  PROVE  IInv'
<1> USE MMAssumption DEF IInv
<1>h. UNCHANGED <<mem, top, search, mem_brk, heads, blocks>>
  BY DEF MallocCall, heap
<1>c. /\ pc = "idle" /\ pc' = "fit" /\ p' = search
      /\ blocks[id] = NULL /\ Serves(adjusted_size(size))
      /\ req' = [id |-> id, size |-> size]
  BY DEF MallocCall
<1>1. TypeOK'
  BY <1>h, <1>c DEF TypeOK
<1>2. HeapTiled' /\ NoAdjacentFree' /\ BlocksOwned'
  BY <1>h, <1>c, SameHeap
<1>3. search \in heads
  BY <1>c DEF SearchAtBlock
<1>4. SearchAtBlock' /\ ExtendOnlyWhenFull'
  BY <1>h, <1>c, <1>3 DEF SearchAtBlock, ExtendOnlyWhenFull
<1>5. Scanning'
  <2>1. \A h \in heads : ~(search <= h /\ h < search)
    BY StateFacts
  <2>2. Serves(total)'
    BY <1>h, <1>c DEF Serves, total, is_allocated, block_size
  <2> QED BY <1>h, <1>c, <1>3, <2>1, <2>2 DEF Scanning
<1> QED
  BY <1>1, <1>2, <1>4, <1>5

\* A turn of the first loop of next_fit preserves the invariant.
LEMMA ScanUpInv ==
  ASSUME IInv, ScanUp
  PROVE  IInv'
<1> USE MMAssumption DEF IInv
<1>h. UNCHANGED <<mem, top, search, mem_brk, heads, req, blocks>>
  BY DEF ScanUp, heap
<1>c. /\ pc = "fit" /\ pc' = "fit" /\ p < top /\ Skips(p)
      /\ p' = p + block_size(p)
  BY DEF ScanUp
<1>f. /\ Regular(heads, mem, top) /\ top \in Nat /\ p \in Nat
  BY StateFacts
<1>p. p \in heads /\ p' \in heads \union {top} /\ p' \in Nat /\ p' <= top
      /\ \A h \in heads : h < p' => h <= p
  <2>1. p \in heads
    BY <1>c, <1>f DEF Scanning
  <2> QED BY <1>c, <1>f, <2>1 DEF Regular, block_size
<1>1. TypeOK'
  BY <1>h, <1>c, <1>p DEF TypeOK, base
<1>2. HeapTiled' /\ NoAdjacentFree' /\ BlocksOwned'
  BY <1>h, <1>c, SameHeap
<1>4. SearchAtBlock' /\ ExtendOnlyWhenFull'
  BY <1>h, <1>c DEF SearchAtBlock, ExtendOnlyWhenFull
<1>5. Scanning'
  <2>1. \A h \in heads : Skips(h)' <=> Skips(h)
    BY <1>h DEF Skips, total, is_allocated, block_size
  <2>2. Serves(total)'
    BY <1>h, <1>c DEF Scanning, Serves, total, is_allocated, block_size
  <2>3. ASSUME NEW h \in heads, search <= h, h < p'
        PROVE  Skips(h)
    <3>1. CASE h = p
      BY <3>1, <1>c
    <3>2. CASE h < p
      BY <3>2, <2>3, <1>c DEF Scanning
    <3> QED BY <3>1, <3>2, <2>3, <1>p, <1>f DEF Regular
  <2>4. blocks'[req'.id] = NULL
    BY <1>h, <1>c DEF Scanning
  <2> QED BY <1>h, <1>c, <1>p, <2>1, <2>2, <2>3, <2>4 DEF Scanning
<1> QED
  BY <1>1, <1>2, <1>4, <1>5

\* So does its end at a block that fits ...
LEMMA FoundAboveInv ==
  ASSUME IInv, FoundAbove
  PROVE  IInv'
<1> USE MMAssumption DEF IInv
<1>h. UNCHANGED <<mem, top, mem_brk, heads, p, req, blocks>>
  BY DEF FoundAbove
<1>c. pc = "fit" /\ pc' = "place" /\ p < top /\ ~Skips(p) /\ search' = p
  BY DEF FoundAbove
<1>p. p \in heads /\ p # top
  BY <1>c, StateFacts DEF Scanning
<1>1. TypeOK'
  BY <1>h, <1>c DEF TypeOK
<1>2. HeapTiled' /\ NoAdjacentFree' /\ BlocksOwned'
  BY <1>h, <1>c, SameHeap
<1>4. SearchAtBlock' /\ ExtendOnlyWhenFull'
  BY <1>h, <1>c, <1>p DEF SearchAtBlock, ExtendOnlyWhenFull
<1>5. Scanning'
  <2>1. ~Skips(p)'
    BY <1>h, <1>c DEF Skips, total, is_allocated, block_size
  <2>2. Serves(total)'
    BY <1>h, <1>c DEF Scanning, Serves, total, is_allocated, block_size
  <2>3. blocks'[req'.id] = NULL
    BY <1>h, <1>c DEF Scanning
  <2> QED BY <1>h, <1>c, <1>p, <2>1, <2>2, <2>3 DEF Scanning
<1> QED
  BY <1>1, <1>2, <1>4, <1>5

\* ... and its end at top.
LEMMA WrapAroundInv ==
  ASSUME IInv, WrapAround
  PROVE  IInv'
<1> USE MMAssumption DEF IInv
<1>h. UNCHANGED <<mem, top, search, mem_brk, heads, req, blocks>>
  BY DEF WrapAround, heap
<1>c. pc = "fit" /\ pc' = "wrap" /\ p >= top /\ p' = 0
  BY DEF WrapAround, base
<1>f. Regular(heads, mem, top)
  BY StateFacts
<1>1. TypeOK'
  BY <1>h, <1>c, StateFacts DEF TypeOK, base
<1>2. HeapTiled' /\ NoAdjacentFree' /\ BlocksOwned'
  BY <1>h, <1>c, SameHeap
<1>4. SearchAtBlock' /\ ExtendOnlyWhenFull'
  BY <1>h, <1>c DEF SearchAtBlock, ExtendOnlyWhenFull
<1>5. Scanning'
  <2>1. \A h \in heads : Skips(h)' <=> Skips(h)
    BY <1>h DEF Skips, total, is_allocated, block_size
  <2>2. Serves(total)'
    BY <1>h, <1>c DEF Scanning, Serves, total, is_allocated, block_size
  <2>3. ASSUME NEW h \in heads, search <= h \/ h < 0
        PROVE  Skips(h)
    <3>1. search <= h /\ h < p
      BY <2>3, <1>c, <1>f, StateFacts DEF Regular
    <3> QED BY <3>1, <1>c DEF Scanning
  <2>4. blocks'[req'.id] = NULL
    BY <1>h, <1>c DEF Scanning
  <2>5. 0 \in heads
    BY <1>f DEF Regular
  <2> QED BY <1>h, <1>c, <2>1, <2>2, <2>3, <2>4, <2>5 DEF Scanning
<1> QED
  BY <1>1, <1>2, <1>4, <1>5

\* A turn of the second loop of next_fit preserves the invariant.
LEMMA ScanBelowInv ==
  ASSUME IInv, ScanBelow
  PROVE  IInv'
<1> USE MMAssumption DEF IInv
<1>h. UNCHANGED <<mem, top, search, mem_brk, heads, req, blocks>>
  BY DEF ScanBelow, heap
<1>c. /\ pc = "wrap" /\ pc' = "wrap" /\ p < search /\ Skips(p)
      /\ p' = p + block_size(p)
  BY DEF ScanBelow
<1>f. /\ Regular(heads, mem, top) /\ top \in Nat /\ p \in Nat
      /\ search \in Nat /\ search <= top
  BY StateFacts DEF TypeOK, base
<1>p. p \in heads /\ p' \in heads \union {top} /\ p' \in Nat /\ p' <= top
      /\ \A h \in heads : h < p' => h <= p
  <2>1. p \in heads
    BY <1>c, <1>f DEF Scanning
  <2> QED BY <1>c, <1>f, <2>1 DEF Regular, block_size
<1>1. TypeOK'
  BY <1>h, <1>c, <1>p DEF TypeOK, base
<1>2. HeapTiled' /\ NoAdjacentFree' /\ BlocksOwned'
  BY <1>h, <1>c, SameHeap
<1>4. SearchAtBlock' /\ ExtendOnlyWhenFull'
  BY <1>h, <1>c DEF SearchAtBlock, ExtendOnlyWhenFull
<1>5. Scanning'
  <2>1. \A h \in heads : Skips(h)' <=> Skips(h)
    BY <1>h DEF Skips, total, is_allocated, block_size
  <2>2. Serves(total)'
    BY <1>h, <1>c DEF Scanning, Serves, total, is_allocated, block_size
  <2>3. ASSUME NEW h \in heads, search <= h \/ h < p'
        PROVE  Skips(h)
    <3>1. CASE h = p
      BY <3>1, <1>c
    <3>2. CASE search <= h \/ h < p
      BY <3>2, <2>3, <1>c DEF Scanning
    <3> QED BY <3>1, <3>2, <2>3, <1>p, <1>f DEF Regular
  <2>4. blocks'[req'.id] = NULL
    BY <1>h, <1>c DEF Scanning
  <2> QED BY <1>h, <1>c, <1>p, <2>1, <2>2, <2>3, <2>4 DEF Scanning
<1> QED
  BY <1>1, <1>2, <1>4, <1>5

\* So does its end.
LEMMA SearchEndsInv ==
  ASSUME IInv, SearchEnds
  PROVE  IInv'
<1> USE MMAssumption DEF IInv
<1>h. UNCHANGED <<mem, top, mem_brk, heads, req, blocks>>
  BY DEF SearchEnds
<1>c. /\ pc = "wrap" /\ pc' = "place" /\ ~(p < search /\ Skips(p))
      /\ p' = (IF p >= search THEN top ELSE p) /\ search' = p'
  BY DEF SearchEnds
<1>f. /\ Regular(heads, mem, top) /\ top \in Nat /\ p \in Nat
      /\ search \in Nat /\ search <= top
  BY StateFacts DEF TypeOK, base
<1>p. \/ p' = top /\ \A h \in heads : Skips(h)
      \/ p' \in heads /\ p' # top /\ ~Skips(p')
  <2>1. CASE p >= search
    <3>1. \A h \in heads : search <= h \/ h < p
      BY <2>1, <1>f DEF Regular
    <3> QED BY <2>1, <3>1, <1>c DEF Scanning
  <2>2. CASE p < search
    <3>1. p \in heads /\ p # top
      BY <2>2, <1>c, <1>f DEF Scanning
    <3>2. p' = p
      BY <2>2, <1>c, <1>f
    <3> QED BY <2>2, <3>1, <3>2, <1>c
  <2> QED BY <2>1, <2>2, <1>f
<1>q. p' \in 0 .. top
  BY <1>c, <1>f
<1>1. TypeOK'
  BY <1>h, <1>c, <1>q DEF TypeOK, base
<1>2. HeapTiled' /\ NoAdjacentFree' /\ BlocksOwned'
  BY <1>h, <1>c, SameHeap
<1>s. \A h \in heads : Skips(h)' <=> Skips(h)
  BY <1>h DEF Skips, total, is_allocated, block_size
<1>4. SearchAtBlock' /\ ExtendOnlyWhenFull'
  BY <1>h, <1>c, <1>p, <1>s DEF SearchAtBlock, ExtendOnlyWhenFull
<1>5. Scanning'
  <2>2. Serves(total)'
    BY <1>h, <1>c DEF Scanning, Serves, total, is_allocated, block_size
  <2>3. ASSUME NEW h \in heads PROVE Skips(h)' <=> Skips(h)
    BY <1>s
  <2>4. blocks'[req'.id] = NULL
    BY <1>h, <1>c DEF Scanning
  <2>5. p' = top \/ (p' \in heads /\ ~Skips(p)')
    BY <1>h, <1>p DEF Skips, total, is_allocated, block_size
  <2> QED BY <1>h, <1>c, <2>2, <2>4, <2>5 DEF Scanning
<1> QED
  BY <1>1, <1>2, <1>4, <1>5

\* Splitting marks four words.
Apart(b, n, f, c, k, g) ==
  /\ b \in Addresses /\ n \in Nat /\ f \in Addresses /\ f = footer_pointer(b, n)
  /\ c \in Addresses /\ k \in Nat /\ g \in Addresses /\ g = footer_pointer(c, k)
  /\ b # c /\ b # g /\ f # c /\ f # g

MarkedTwice(m, m2, b, n, c, k) ==
  m2 = mark_block(mark_block(m, b, n, TRUE), c, k, FALSE)

TwoBlocks(m, m2, b, n, f, c, k, g) ==
  /\ m2 \in Memory
  /\ m2[b] = Tag(n, TRUE) /\ m2[f] = Tag(n, TRUE)
  /\ m2[c] = Tag(k, FALSE) /\ m2[g] = Tag(k, FALSE)
  /\ SameOutside({b, f, c, g}, m, m2)

\* The two calls of mark_block that split a block write four words only.
LEMMA MarkTwice ==
  ASSUME NEW m \in Memory, NEW m2, NEW b, NEW n, NEW f, NEW c, NEW k, NEW g,
         Apart(b, n, f, c, k, g), MarkedTwice(m, m2, b, n, c, k)
  PROVE  TwoBlocks(m, m2, b, n, f, c, k, g)
<1> DEFINE m1 == mark_block(m, b, n, TRUE)
<1> USE DEF Apart
<1>1. /\ m1 \in Memory /\ m1[b] = Tag(n, TRUE) /\ m1[f] = Tag(n, TRUE)
      /\ SameOutside({b, f}, m, m1)
  BY MarkFacts, ZenonT(40)
<1>2. m2 = mark_block(m1, c, k, FALSE)
  BY DEF MarkedTwice
<1> HIDE DEF m1
<1>3. /\ m2 \in Memory /\ m2[c] = Tag(k, FALSE) /\ m2[g] = Tag(k, FALSE)
      /\ SameOutside({c, g}, m1, m2)
  <2>1. /\ m1 \in Memory
        /\ c \in Addresses /\ k \in Nat /\ g \in Addresses
        /\ g = footer_pointer(c, k) /\ FALSE \in BOOLEAN
    BY <1>1
  <2> HIDE DEF Apart
  <2>2. /\ mark_block(m1, c, k, FALSE) \in Memory
        /\ mark_block(m1, c, k, FALSE)[c] = Tag(k, FALSE)
        /\ mark_block(m1, c, k, FALSE)[g] = Tag(k, FALSE)
        /\ SameOutside({c, g}, m1, mark_block(m1, c, k, FALSE))
    BY ONLY <2>1, MarkFacts, Zenon
  <2> QED BY <1>2, <2>2
<1> QED
  BY <1>1, <1>3 DEF SameOutside, TwoBlocks

\* A block p has been placed: the rest of the invariant follows.
LEMMA Placed ==
  ASSUME IInv, pc = "place", pc' = "fill", UNCHANGED <<search, p, req, blocks>>,
         TypeOK', HeapTiled', top' = top \/ p = top,
         heads \subseteq heads', p \in heads', mem'[p].alloc,
         total <= mem'[p].size,
         \A h \in heads : h # p => mem'[h] = mem[h],
         \A h \in heads' \ heads : h # p =>
           ~mem'[h].alloc /\ (h + mem'[h].size = top' \/ mem'[h + mem'[h].size].alloc)
  PROVE  IInv'
<1> USE MMAssumption DEF IInv
<1>f. Regular(heads, mem, top) /\ heads \in SUBSET (0 .. top - 1) /\ top \in Nat
  BY StateFacts
<1>p. p = top \/ (p \in heads /\ ~mem[p].alloc)
  BY DEF Scanning, Skips, is_allocated
<1>u. \A id \in Live : block_of(id) \in heads /\ block_of(id) # p
  <2>1. top \notin heads
    BY <1>f DEF Regular
  <2> QED BY <1>p, <2>1 DEF BlocksOwned, is_allocated
<1>1. SearchAtBlock' /\ ExtendOnlyWhenFull'
  BY DEF SearchAtBlock, ExtendOnlyWhenFull, Scanning
<1>2. NoAdjacentFree'
  <2> SUFFICES ASSUME NEW h \in heads', h + mem'[h].size # top', ~mem'[h].alloc
               PROVE  mem'[h + mem'[h].size].alloc
    BY DEF NoAdjacentFree, is_allocated, block_size
  <2>1. CASE h \notin heads
    BY <2>1
  <2>2. CASE h \in heads
    <3> DEFINE next == h + mem[h].size
    <3>1. h # p /\ mem'[h] = mem[h]
      BY <2>2
    <3>2. next \in heads \union {top}
      BY <2>2, <1>f DEF Regular
    <3>3. CASE next = p
      BY <3>1, <3>3
    <3>4. CASE next # p
      <4>1. next # top
        BY <3>1, <3>4
      <4>2. mem[next].alloc
        BY <2>2, <3>1, <4>1 DEF NoAdjacentFree, is_allocated, block_size
      <4> QED BY <3>1, <3>2, <3>4, <4>1, <4>2
    <3> QED BY <3>3, <3>4
  <2> QED BY <2>1, <2>2
<1>3. BlocksOwned'
  <2>1. Live' = Live /\ \A id \in Ids : block_of(id)' = block_of(id)
    BY DEF Live, block_of, block_pointer
  <2>2. ASSUME NEW id \in Live
        PROVE  /\ block_of(id) \in heads' /\ mem'[block_of(id)].alloc
               /\ roundup(blocks[id].size) + 2 <= mem'[block_of(id)].size
    BY <1>u DEF BlocksOwned, is_allocated, block_size
  <2>3. \A i, j \in Live : block_of(i) = block_of(j) => i = j
    BY DEF BlocksOwned
  <2>4. ASSUME NEW h \in heads', mem'[h].alloc, h # p
        PROVE  \E id \in Live : block_of(id) = h
    <3>1. h \in heads /\ mem[h].alloc
      BY <2>4
    <3> QED BY <3>1 DEF BlocksOwned, is_allocated
  <2>5. Live \subseteq Ids
    BY DEF Live
  <2> QED BY <2>1, <2>2, <2>3, <2>4, <2>5 DEF BlocksOwned, is_allocated, block_size
<1>4. Scanning'
  <2>1. Live' = Live /\ \A id \in Live : block_of(id)' = block_of(id)
    BY DEF Live, block_of, block_pointer
  <2>2. blocks'[req'.id] = NULL
    BY DEF Scanning
  <2>3. total' = total
    BY DEF total
  <2> QED BY <1>u, <2>1, <2>2, <2>3 DEF Scanning, is_allocated, block_size
<1> QED
  BY <1>1, <1>2, <1>3, <1>4

\* Placing a request in a free block preserves the invariant.
LEMMA ReuseInv ==
  ASSUME IInv, Reuse
  PROVE  IInv'
<1> USE DEF IInv
<1>h. UNCHANGED <<top, mem_brk, search, p, req, blocks>>
  BY DEF Reuse, Place
<1>c. pc = "place" /\ pc' = "fill" /\ p # top
  BY DEF Reuse, Place
<1>f. /\ Regular(heads, mem, top) /\ heads \in SUBSET (0 .. top - 1)
      /\ mem \in Memory /\ top \in Nat /\ top <= ADDR_LIMIT
  BY StateFacts
<1>r. total \in Nat /\ total >= 4
  BY <1>c, RequestFacts
<1> DEFINE size == block_size(p)
           c == p + total
           k == size - total
           e == p + size
           f == footer_pointer(p, total)
           g == footer_pointer(p, size)
<1>p. /\ p \in heads /\ p \in Nat /\ ~mem[p].alloc
      /\ size = mem[p].size /\ size \in Nat /\ total <= size
      /\ c \in Nat /\ k \in Nat /\ e \in Nat /\ e = p + size /\ e = c + k
      /\ c = p + total /\ p < e /\ e <= top /\ e \in heads \union {top}
      /\ f = c - 1 /\ g = e - 1
      /\ {p, c, f, g} \subseteq Addresses
  <2>1. p \in heads /\ ~Skips(p)
    BY <1>c DEF Scanning
  <2> QED BY <1>f, <1>r, <2>1, MMAssumption
          DEF Regular, Skips, is_allocated, block_size, footer_pointer,
              Addresses, base
<1> HIDE DEF size, c, k, e, f, g
<1>1. CASE k <= 4
  <2>1. mem' = mark_block(mem, p, size, TRUE) /\ heads' = heads \union {p}
    BY <1>1 DEF Reuse, Place, MIN_BLOCK, size, k
  <2>2. /\ mem' \in Memory /\ mem'[p] = Tag(size, TRUE)
        /\ mem'[g] = Tag(size, TRUE)
        /\ SameOutside({p, g}, mem, mem')
    <3>1. /\ size \in Nat /\ p \in Addresses /\ g \in Addresses
          /\ g = footer_pointer(p, size) /\ mem \in Memory
      BY <1>f, <1>p DEF g
    <3>2. mem' = mark_block(mem, p, size, TRUE)
      BY <2>1
    <3> QED BY <3>1, <3>2, MarkFacts
  <2>3. mem'[p].size = size /\ mem'[p].alloc = TRUE
    BY <2>2, <1>p, TagFacts
  <2>4. /\ e = p + mem'[p].size /\ mem'[e - 1] = mem'[p]
        /\ \A x \in Addresses : x # p /\ x # e - 1 => mem'[x] = mem[x]
    BY <2>2, <2>3, <1>p DEF SameOutside
  <2>5. HeapTiled'
    <3>1. Tiled({h \in heads : h <= p \/ h >= e}, mem', top)
      BY <1>f, <1>p, <2>2, <2>4, TiledMerged DEF HeapTiled
    <3>2. {h \in heads : h <= p \/ h >= e} = heads'
      <4>1. \A h \in heads : h <= p \/ h >= e
        BY <1>f, <1>p DEF Regular
      <4> QED BY <4>1, <1>p, <2>1
    <3> QED BY <1>h, <3>1, <3>2 DEF HeapTiled
  <2>6. TypeOK'
    BY <1>h, <1>c, <1>p, <2>1, <2>2 DEF TypeOK, Memory
  <2>7. \A h \in heads : h # p => mem'[h] = mem[h]
    BY <1>f, <1>p, <2>4 DEF Regular
  <2> QED BY <1>h, <1>c, <1>p, <2>1, <2>3, <2>5, <2>6, <2>7, Placed
<1>2. CASE ~(k <= 4)
  <2>1. /\ mem' = mark_block(mark_block(mem, p, total, TRUE), c, k, FALSE)
        /\ heads' = heads \union {p, c}
    BY <1>2 DEF Reuse, Place, MIN_BLOCK, size, k, c
  <2>2. /\ mem' \in Memory
        /\ mem'[p] = Tag(total, TRUE) /\ mem'[f] = Tag(total, TRUE)
        /\ mem'[c] = Tag(k, FALSE) /\ mem'[g] = Tag(k, FALSE)
        /\ SameOutside({p, f, c, g}, mem, mem')
    <3>1. /\ p \in Addresses /\ total \in Nat /\ f \in Addresses
          /\ f = footer_pointer(p, total)
          /\ c \in Addresses /\ k \in Nat /\ g \in Addresses
          /\ g = footer_pointer(c, k) /\ mem \in Memory
      BY <1>f, <1>p, <1>r DEF f, g, footer_pointer
    <3>2. p # c /\ p # g /\ f # c /\ f # g
      BY <1>2, <1>p, <1>r
    <3>3. Apart(p, total, f, c, k, g)
      BY <3>1, <3>2 DEF Apart
    <3>4. MarkedTwice(mem, mem', p, total, c, k)
      BY <2>1 DEF MarkedTwice
    <3>5. TwoBlocks(mem, mem', p, total, f, c, k, g)
      BY <3>1, <3>3, <3>4, MarkTwice
    <3> QED BY <3>5 DEF TwoBlocks
  <2>3. /\ mem'[p].size = total /\ mem'[p].alloc = TRUE
        /\ mem'[c].size = k /\ mem'[c].alloc = FALSE
    BY <2>2, <1>p, <1>r, TagFacts
  <2>4. /\ c = p + mem'[p].size /\ mem'[c - 1] = mem'[p]
        /\ e = c + mem'[c].size /\ mem'[e - 1] = mem'[c]
        /\ \A x \in Addresses :
             x \notin {p, c - 1, c, e - 1} => mem'[x] = mem[x]
    BY <2>2, <2>3, <1>p DEF SameOutside
  <2>5. HeapTiled'
    <3>1. SplitAt(p, c, e, mem, mem') /\ e = p + mem[p].size
      BY <1>2, <1>p, <1>r, <2>4 DEF SplitAt
    <3>2. Tiled(heads \union {c}, mem', top)
      <4>1. /\ mem \in Memory /\ top \in Nat /\ top <= ADDR_LIMIT
            /\ heads \in SUBSET (0 .. top - 1) /\ Tiled(heads, mem, top)
            /\ p \in heads /\ mem' \in Memory
        BY <1>f, <1>p, <2>2 DEF HeapTiled
      <4> QED BY <4>1, <3>1, TiledSplit
    <3>3. heads \union {c} = heads'
      BY <1>p, <2>1
    <3> QED BY <1>h, <3>2, <3>3 DEF HeapTiled
  <2>6. TypeOK'
    <3>1. c \in 0 .. top - 1
      BY <1>2, <1>f, <1>p
    <3> QED BY <1>h, <1>c, <1>p, <2>1, <2>2, <3>1 DEF TypeOK, Memory, base
  <2>7. ASSUME NEW h \in heads, h # p PROVE mem'[h] = mem[h]
    <3>1. h < p \/ h >= e
      BY <2>7, <1>f, <1>p, SMTT(30) DEF Regular
    <3> QED BY <3>1, <1>f, <1>p, <1>r, <1>2, <2>4 DEF Regular
  <2>8. ASSUME NEW h \in heads' \ heads, h # p
        PROVE  ~mem'[h].alloc
               /\ (h + mem'[h].size = top' \/ mem'[h + mem'[h].size].alloc)
    <3>1. h = c /\ h + mem'[h].size = e
      BY <2>8, <2>1, <2>4
    <3>2. CASE e = top
      BY <3>1, <3>2, <2>3, <1>h
    <3>3. CASE e # top
      <4>1. e \in heads /\ mem[e].alloc
        BY <3>3, <1>p DEF NoAdjacentFree, is_allocated, block_size
      <4> QED BY <3>1, <4>1, <2>3, <2>7, <1>p
    <3> QED BY <3>2, <3>3
  <2>9. heads \subseteq heads' /\ p \in heads' /\ top' = top
    BY <1>h, <2>1
  <2>10. total <= mem'[p].size
    BY <1>r, <2>3
  <2> QED
    BY <1>h, <1>c, <2>3, <2>5, <2>6, <2>7, <2>8, <2>9, <2>10, Placed
<1> QED
  BY <1>1, <1>2

\* A request that finds no block has room above top.
LEMMA RoomToExtend ==
  ASSUME IInv, pc = "place", p = top
  PROVE  top + extension(total) <= ADDR_LIMIT
<1> USE DEF IInv
<1>1. Serves(total)
  BY DEF Scanning
<1>2. ~\E h \in heads : ~is_allocated(h) /\ block_size(h) >= total
  BY RequestFacts, StateFacts
  DEF ExtendOnlyWhenFull, Skips, Regular, block_size
<1> QED
  BY <1>1, <1>2 DEF Serves

\* Placing a request in new space preserves the invariant.
LEMMA ExtendInv ==
  ASSUME IInv, Extend
  PROVE  IInv'
<1> USE DEF IInv
<1> DEFINE ext == extension(total)
           k == excess_of(total)
           c == p + total
           e == p + ext
           f == footer_pointer(p, total)
           g == footer_pointer(p, ext)
<1>h. UNCHANGED <<search, p, req, blocks>> /\ top' = top + ext
  BY DEF Extend, Place
<1>c. pc = "place" /\ pc' = "fill" /\ p = top
  BY DEF Extend, Place
<1>f. /\ Regular(heads, mem, top) /\ heads \in SUBSET (0 .. top - 1)
      /\ mem \in Memory /\ top \in Nat /\ top <= ADDR_LIMIT
  BY StateFacts
<1>r. total \in Nat /\ total >= 4
  BY <1>c, RequestFacts
<1>x. ext \in Nat /\ k \in Nat /\ ext = total + k
  BY <1>r, ExtensionFacts
<1>l. top + ext <= ADDR_LIMIT
  BY <1>c, RoomToExtend
<1>b. mem_brk' \in 0 .. top + ext + 1
  <2>1. mem_brk \in 0 .. top + 1
    BY DEF TypeOK, base
  <2>2. mem_brk' = BrkAfter(mem_brk, ext)
    BY DEF Extend, mem_sbrk
  <2> QED BY <1>f, <1>x, <2>1, <2>2 DEF BrkAfter
<1>p. /\ p \in Nat /\ c \in Nat /\ e \in Nat /\ e = p + ext /\ e = c + k
      /\ c = p + total /\ p < e /\ e = top' /\ e <= ADDR_LIMIT
      /\ f = c - 1 /\ g = e - 1
      /\ p \in Addresses /\ f \in Addresses /\ g \in Addresses
  BY <1>h, <1>c, <1>f, <1>r, <1>x, <1>l, MMAssumption
  DEF footer_pointer, Addresses, base
<1>o. /\ p \in Nat /\ c \in Nat /\ e \in Nat /\ p + 4 <= c /\ c + k = e
      /\ f = c - 1 /\ g = e - 1 /\ p + 4 <= e /\ k \in Nat /\ e <= ADDR_LIMIT
  BY <1>p, <1>r, <1>x
<1> HIDE DEF ext, k, c, e, f, g
<1>t. ASSUME heads' \in SUBSET (0 .. e - 1), mem' \in Memory PROVE TypeOK'
  <2>1. /\ top' \in base + CHUNK_SIZE .. ADDR_LIMIT
        /\ search' \in base .. top' /\ p' \in base .. top'
        /\ mem_brk' \in base .. top' + 1
    BY <1>h, <1>f, <1>p, <1>b, <1>x, MMAssumption DEF TypeOK, base
  <2>2. heads' \subseteq base .. top' - 1 /\ mem' \in [Addresses -> Word]
    BY <1>t, <1>p DEF base, Memory
  <2> QED BY <1>h, <1>c, <2>1, <2>2 DEF TypeOK
<1>1. CASE k <= 4
  <2>1. mem' = mark_block(mem, p, ext, TRUE) /\ heads' = heads \union {p}
    BY <1>1 DEF Extend, Place, MIN_BLOCK, ext, k
  <2>2. /\ mem' \in Memory /\ mem'[p] = Tag(ext, TRUE)
        /\ mem'[g] = Tag(ext, TRUE)
        /\ SameOutside({p, g}, mem, mem')
    <3>1. /\ ext \in Nat /\ p \in Addresses /\ g \in Addresses
          /\ g = footer_pointer(p, ext) /\ mem \in Memory
      BY <1>f, <1>p, <1>x DEF g
    <3>2. mem' = mark_block(mem, p, ext, TRUE)
      BY <2>1
    <3> QED BY <3>1, <3>2, MarkFacts
  <2>3. mem'[p].size = ext /\ mem'[p].alloc = TRUE
    BY <2>2, <1>x, TagFacts
  <2>4. TopAt(top, e, mem, mem')
    <3>1. \A x \in Addresses : x # top /\ x # e - 1 => mem'[x] = mem[x]
      BY <2>2, <1>p, <1>c DEF SameOutside
    <3>2. e = top + mem'[top].size
      BY <2>3, <1>p, <1>c
    <3>3. mem'[e - 1] = mem'[top]
      BY <2>2, <1>p, <1>c
    <3>4. top + 4 <= e
      BY <1>o, <1>c
    <3> QED BY <3>1, <3>2, <3>3, <3>4, <1>o DEF TopAt
  <2>5. HeapTiled'
    <3>1. Tiled(heads \union {top}, mem', e)
      BY <1>f, <2>2, <2>4, TiledTop DEF HeapTiled
    <3> QED BY <1>c, <1>p, <2>1, <3>1 DEF HeapTiled
  <2>6. TypeOK'
    <3>1. heads' \in SUBSET (0 .. e - 1)
      BY <1>f, <1>c, <1>p, <2>1
    <3> QED BY <1>t, <2>2, <3>1
  <2>7. ASSUME NEW h \in heads PROVE mem'[h] = mem[h]
    <3>1. h < p /\ h \in Nat /\ h \in Addresses
      BY <1>f, <1>c DEF Regular
    <3>2. h \notin {p, g}
      BY <3>1, <1>o
    <3> QED BY <3>1, <3>2, <2>2 DEF SameOutside
  <2>8. total <= mem'[p].size
    BY <2>3, <1>x, <1>r
  <2> QED BY <1>h, <1>c, <2>1, <2>3, <2>5, <2>6, <2>7, <2>8, Placed
<1>2. CASE ~(k <= 4)
  <2>a. c \in Addresses /\ c < e
    BY <1>2, <1>o, MMAssumption DEF Addresses, base
  <2>1. /\ mem' = mark_block(mark_block(mem, p, total, TRUE), c, k, FALSE)
        /\ heads' = heads \union {p, c}
    BY <1>2 DEF Extend, Place, MIN_BLOCK, k, c
  <2>2. TwoBlocks(mem, mem', p, total, f, c, k, g)
    <3>1. /\ g = footer_pointer(c, k) /\ f = footer_pointer(p, total)
      BY <1>p, <1>x DEF f, footer_pointer
    <3>2. p # c /\ p # g /\ f # c /\ f # g
      BY <1>2, <1>o
    <3>3. Apart(p, total, f, c, k, g)
      BY <1>p, <1>r, <1>x, <2>a, <3>1, <3>2 DEF Apart
    <3>4. MarkedTwice(mem, mem', p, total, c, k)
      BY <2>1 DEF MarkedTwice
    <3> QED BY <1>f, <3>3, <3>4, MarkTwice
  <2>3. /\ mem'[p].size = total /\ mem'[p].alloc = TRUE
        /\ mem'[c].size = k /\ mem'[c].alloc = FALSE
    BY <2>2, <1>x, <1>r, TagFacts DEF TwoBlocks
  <2>4. SplitAt(top, c, e, mem, mem')
    <3>1. \A x \in Addresses :
            x \notin {p, c - 1, c, e - 1} => mem'[x] = mem[x]
      BY <2>2, <1>p DEF SameOutside, TwoBlocks
    <3>2. /\ c = p + mem'[p].size /\ mem'[c - 1] = mem'[p]
          /\ e = c + mem'[c].size /\ mem'[e - 1] = mem'[c]
      BY <2>2, <2>3, <1>p DEF TwoBlocks
    <3>3. c \in Nat /\ top + 4 <= c /\ e \in Nat /\ c + 4 <= e
      BY <1>2, <1>p, <1>c, <1>r, <1>x
    <3> QED BY <3>1, <3>2, <3>3, <1>c DEF SplitAt
  <2>b. mem' \in Memory
    BY <2>2 DEF TwoBlocks
  <2>5. HeapTiled'
    <3>1. Tiled(heads \union {top, c}, mem', e)
      BY <1>f, <1>p, <2>b, <2>4, TiledTopSplit DEF HeapTiled
    <3> QED BY <1>c, <1>p, <2>1, <3>1 DEF HeapTiled
  <2>6. TypeOK'
    <3>1. heads' \in SUBSET (0 .. e - 1)
      <4>1. \A h \in heads' : h \in 0 .. e - 1
        BY <1>f, <1>c, <1>p, <2>1, <2>a
      <4> QED BY <4>1
    <3> QED BY <1>t, <2>b, <3>1
  <2>7. ASSUME NEW h \in heads, h # p PROVE mem'[h] = mem[h]
    <3>1. h < p /\ h \in Nat /\ h \in Addresses
      BY <1>f, <1>c DEF Regular
    <3>2. h \notin {p, f, c, g}
      BY <1>2, <3>1, <1>o
    <3> QED BY <3>1, <3>2, <2>2 DEF TwoBlocks, SameOutside
  <2>8. ASSUME NEW h \in heads' \ heads, h # p
        PROVE  ~mem'[h].alloc
               /\ (h + mem'[h].size = top' \/ mem'[h + mem'[h].size].alloc)
    BY <2>8, <2>1, <2>3, <1>p
  <2>9. heads \subseteq heads' /\ p \in heads' /\ p = top
    BY <1>c, <2>1
  <2>10. total <= mem'[p].size
    BY <1>r, <2>3
  <2> QED
    BY <1>h, <1>c, <2>3, <2>5, <2>6, <2>7, <2>8, <2>9, <2>10, Placed
<1> QED
  BY <1>1, <1>2

\* The client, writing to its payload, preserves the invariant.
LEMMA FillInv ==
  ASSUME IInv, Fill
  PROVE  IInv'
<1> USE DEF IInv
<1> DEFINE r == roundup(req.size)
           ptr == p + 1
<1>h. UNCHANGED <<top, search, mem_brk, heads>>
  BY DEF Fill
<1>c. /\ pc = "fill" /\ pc' = "idle" /\ p' = 0 /\ req' = NULL
      /\ mem' = [a \in Addresses |->
                   IF a \in ptr .. ptr + r - 1 THEN Pattern(req.id) ELSE mem[a]]
      /\ blocks' = [blocks EXCEPT ![req.id] = [ptr |-> ptr, size |-> req.size]]
  BY DEF Fill, payload_pointer, base
<1>f. /\ Regular(heads, mem, top) /\ heads \in SUBSET (0 .. top - 1)
      /\ mem \in Memory /\ top \in Nat /\ top <= ADDR_LIMIT
  BY StateFacts
<1>r. /\ req.id \in Ids /\ req.size \in Sizes
      /\ total \in Nat /\ r \in Nat /\ r + 2 <= total
  BY <1>c, RequestFacts, SizeFacts
<1>p. /\ p \in heads /\ p \in Nat /\ mem[p].alloc /\ total <= mem[p].size
      /\ mem[p].size \in Nat
      /\ \A id \in Live : block_of(id) # p
      /\ blocks[req.id] = NULL
  BY <1>c, <1>f DEF Scanning, is_allocated, block_size, Regular
<1>i. PICK rid \in Ids : rid = req.id
  BY <1>r
<1>1. mem' \in Memory
  <2>1. Pattern(req.id) \in Word
    BY <1>r, MMAssumption DEF Pattern, Tag, Word
  <2>2. \A a \in Addresses : mem[a] \in Word
    BY <1>f DEF Memory
  <2> QED BY <2>1, <2>2, <1>c DEF Memory
<1>2. WritesIn(p, mem, mem')
  <2> SUFFICES ASSUME NEW x \in Addresses,
                      x <= p \/ x >= p + mem[p].size - 1
               PROVE  mem'[x] = mem[x]
    BY DEF WritesIn
  <2>1. x \in Int
    BY MMAssumption DEF Addresses, base
  <2>2. x \notin ptr .. ptr + r - 1
    BY <2>1, <1>p, <1>r
  <2> QED BY <2>2, <1>c
<1> HIDE DEF r, ptr
<1>3. Tiled(heads, mem', top) /\ \A h \in heads : mem'[h] = mem[h]
  <2>1. /\ mem \in Memory /\ top \in Nat /\ top <= ADDR_LIMIT
        /\ heads \in SUBSET (0 .. top - 1) /\ p \in heads
    BY <1>f, <1>p
  <2>2. Tiled(heads, mem, top)
    BY DEF HeapTiled
  <2> HIDE DEF IInv
  <2> QED
    BY ONLY <2>1, <2>2, <1>1, <1>2, TiledData, ZenonT(40)
<1>4. HeapTiled'
  BY <1>h, <1>3 DEF HeapTiled
<1>5. NoAdjacentFree'
  <2> SUFFICES ASSUME NEW h \in heads, h + mem'[h].size # top, ~mem'[h].alloc
               PROVE  mem'[h + mem'[h].size].alloc
    BY <1>h DEF NoAdjacentFree, is_allocated, block_size
  <2>1. mem'[h] = mem[h] /\ h + mem[h].size \in heads
    BY <1>3, <1>f DEF Regular
  <2>2. mem[h + mem[h].size].alloc
    BY <2>1 DEF NoAdjacentFree, is_allocated, block_size
  <2> QED BY <2>1, <2>2, <1>3
<1>6. /\ Live' = Live \union {rid}
      /\ block_of(rid)' = p
      /\ blocks'[rid].size = req.size
      /\ \A id \in Live : /\ block_of(id)' = block_of(id)
                          /\ blocks'[id] = blocks[id] /\ id # rid
  <2>1. blocks \in [Ids -> [ptr : Nat, size : Sizes] \union {NULL}]
    BY DEF TypeOK
  <2>2. ptr \in Nat /\ ptr - 1 = p
    BY <1>p DEF ptr
  <2>3. blocks'[rid] = [ptr |-> ptr, size |-> req.size]
    BY <2>1, <1>c, <1>r, <1>i
  <2>4. blocks'[rid] # NULL
    BY <2>2, <2>3, <1>r, MMAssumption
  <2>5. \A id \in Ids : id # rid => blocks'[id] = blocks[id]
    BY <2>1, <1>c, <1>i
  <2>6. \A id \in Live : id \in Ids /\ id # rid
    BY <1>p, <1>i DEF Live
  <2>7. Live' = Live \union {rid}
    BY <2>4, <2>5, <2>6 DEF Live
  <2>8. block_of(rid)' = p
    BY <2>2, <2>3 DEF block_of, block_pointer
  <2>9. \A id \in Live : block_of(id)' = block_of(id)
    BY <2>5, <2>6 DEF block_of
  <2> QED BY <2>3, <2>5, <2>6, <2>7, <2>8, <2>9
<1>7. BlocksOwned'
  <2>1. ASSUME NEW id \in Live
        PROVE  /\ block_of(id) \in heads
               /\ mem'[block_of(id)].alloc
               /\ roundup(blocks[id].size) + 2 <= mem'[block_of(id)].size
    BY <1>3 DEF BlocksOwned, is_allocated, block_size
  <2>2. ASSUME NEW id \in Live'
        PROVE  /\ block_of(id)' \in heads
               /\ mem'[block_of(id)'].alloc
               /\ roundup(blocks'[id].size) + 2 <= mem'[block_of(id)'].size
    <3>1. CASE id \in Live
      BY <3>1, <2>1, <1>6
    <3>2. CASE id = rid
      <4>1. mem'[p] = mem[p]
        BY <1>3, <1>p
      <4>2. roundup(req.size) + 2 <= mem[p].size
        BY <1>p, <1>r DEF r
      <4>3. block_of(id)' = p /\ blocks'[id].size = req.size
          BY <3>2, <1>6
        <4> QED BY <4>1, <4>2, <4>3, <1>p
    <3> QED BY <3>1, <3>2, <2>2, <1>6
  <2>3. ASSUME NEW i \in Live', NEW j \in Live', block_of(i)' = block_of(j)'
        PROVE  i = j
    BY <2>3, <1>6, <1>p DEF BlocksOwned
  <2>4. ASSUME NEW h \in heads, mem'[h].alloc
        PROVE  \E id \in Live' : block_of(id)' = h
    <3>1. mem[h].alloc
      BY <2>4, <1>3
    <3>2. CASE h = p
      BY <3>2, <1>6
    <3>3. CASE h # p
      BY <3>1, <3>3, <1>6 DEF BlocksOwned, is_allocated
    <3> QED BY <3>2, <3>3
  <2> QED BY <1>h, <2>2, <2>3, <2>4 DEF BlocksOwned, is_allocated, block_size
<1>8. TypeOK'
  <2>1. [ptr |-> ptr, size |-> req.size] \in [ptr : Nat, size : Sizes]
    BY <1>p, <1>r DEF ptr
  <2>2. blocks' \in [Ids -> [ptr : Nat, size : Sizes] \union {NULL}]
    BY <2>1, <1>c DEF TypeOK
  <2>3. p' \in base .. top'
    BY <1>c, <1>h, <1>f DEF base
  <2> QED BY <1>h, <1>c, <1>1, <2>2, <2>3 DEF TypeOK, Memory, base
<1>9. SearchAtBlock' /\ ExtendOnlyWhenFull' /\ Scanning'
  BY <1>h, <1>c DEF SearchAtBlock, ExtendOnlyWhenFull, Scanning
<1> QED
  BY <1>4, <1>5, <1>7, <1>8, <1>9

\* The footer below a block leads to the block below it, and below the first
\* block there is none: what memory holds there is never taken for a footer.
LEMMA FreeNeighbour ==
  ASSUME IInv, NEW id \in Live
  PROVE  LET bp == block_of(id)
             pb == bp - block_size(bp - 1)
         IN  /\ joins_prev(pb) => /\ pb \in heads /\ pb \in Nat /\ pb < bp
                                  /\ ~mem[pb].alloc /\ pb + mem[pb].size = bp
             /\ \A h \in heads : h + mem[h].size = bp => pb = h
             /\ joins_prev(pb) <=> pb \in heads /\ ~mem[pb].alloc /\ pb < bp
<1> USE DEF IInv
<1> DEFINE bp == block_of(id)
           pb == bp - block_size(bp - 1)
           jp == joins_prev(pb)
<1>f. /\ Regular(heads, mem, top) /\ heads \in SUBSET (0 .. top - 1)
      /\ mem \in Memory /\ top \in Nat /\ top <= ADDR_LIMIT
  BY StateFacts
<1>b. bp \in heads /\ bp \in Nat /\ mem[bp].alloc /\ mem[bp].size \in Nat
  BY <1>f DEF BlocksOwned, is_allocated, Regular
<1>1. CASE bp = 0
  <2>1. mem[bp - 1].size \in Nat
    <3>1. bp - 1 \in Addresses
      BY <1>1, MMAssumption DEF Addresses, base
    <3> QED BY <3>1, <1>f DEF Memory, Word
  <2>2. ~jp
    <3>1. pb \in Int /\ pb <= 0
      BY <1>1, <2>1 DEF block_size
    <3>2. pb >= 0 => pb = bp
      BY <1>1, <3>1
    <3> QED BY <3>2, <1>b DEF joins_prev, base, is_allocated
  <2>3. \A h \in heads : h + mem[h].size # bp
    BY <1>1, <1>f DEF Regular
  <2>4. ~(pb \in heads /\ pb < bp)
    <3> HIDE DEF bp, pb
    <3>1. \A h \in heads : ~(h < 0)
      BY <1>f
    <3> QED BY <1>1, <3>1
  <2> QED BY <2>2, <2>3, <2>4
<1>2. CASE bp # 0
  <2>1. PICK h \in heads : h + mem[h].size = bp
    BY <1>2, <1>b, <1>f DEF Regular
  <2>2. ASSUME NEW g \in heads, g + mem[g].size = bp
        PROVE  pb = g
    <3>1. g \in Nat /\ mem[g].size \in Nat /\ mem[g + mem[g].size - 1] = mem[g]
      BY <1>f DEF Regular
    <3>2. mem[bp - 1] = mem[g]
      BY <2>2, <3>1
    <3>3. pb = bp - mem[g].size
      BY <3>2 DEF block_size
    <3> HIDE DEF bp, pb
    <3> QED BY <2>2, <3>1, <3>3, <1>b
  <2>3. pb = h
    BY <2>1, <2>2
  <2>4. pb \in Nat /\ pb < bp
    <3>1. h \in Nat /\ mem[h].size \in Nat /\ mem[h].size >= 4
      BY <1>f DEF Regular
    <3> HIDE DEF bp, pb
    <3> QED BY <2>1, <2>3, <3>1, <1>b
  <2>5. jp <=> ~mem[pb].alloc
    BY <2>4 DEF joins_prev, base, is_allocated
  <2> QED BY <2>1, <2>2, <2>3, <2>4, <2>5
<1> QED BY <1>1, <1>2

\* mm_free, with its merging and its care for search, preserves the invariant.
LEMMA FreeInv ==
  ASSUME IInv, NEW id \in Ids, Free(id)
  PROVE  IInv'
<1> USE DEF IInv
<1> DEFINE bp == block_of(id)
           nb == bp + block_size(bp)
           pb == bp - block_size(bp - 1)
           jn == joins_next(nb)
           jp == joins_prev(pb)
           nh == IF jp THEN pb ELSE bp
           ne == IF jn THEN nb + block_size(nb) ELSE nb
           n == ne - nh
           f == footer_pointer(nh, n)
<1>h. UNCHANGED <<top, mem_brk, pc, p, req>>
  BY DEF Free
<1>c. /\ pc = "idle" /\ id \in Live
      /\ search' = moved_search(bp, nb, pb)
      /\ mem' = mark_block(mem, nh, n, FALSE)
      /\ heads' = {h \in heads : h <= nh \/ h >= ne}
      /\ blocks' = [blocks EXCEPT ![id] = NULL]
  BY DEF Free, Live, block_of
<1>f. /\ Regular(heads, mem, top) /\ heads \in SUBSET (0 .. top - 1)
      /\ mem \in Memory /\ top \in Nat /\ top <= ADDR_LIMIT
  BY StateFacts
<1>b. /\ bp \in heads /\ bp \in Nat /\ mem[bp].alloc /\ mem[bp].size \in Nat
      /\ nb = bp + mem[bp].size /\ nb \in heads \union {top}
      /\ nb \in Nat /\ bp < nb /\ nb <= top
  <2>1. bp \in heads /\ mem[bp].alloc
    BY <1>c DEF BlocksOwned, is_allocated
  <2>2. nb = bp + mem[bp].size
    BY DEF block_size
  <2> HIDE DEF bp, nb
  <2> QED BY <2>1, <2>2, <1>f DEF Regular
<1>n. /\ jn <=> nb \in heads /\ ~mem[nb].alloc
      /\ ne \in heads \union {top} /\ ne \in Nat /\ nb <= ne /\ ne <= top
      /\ jn => ne = nb + mem[nb].size /\ nb < ne
      /\ ~jn => ne = nb
  BY <1>b, <1>f DEF joins_next, is_allocated, block_size, Regular
<1>q. /\ jp => pb \in heads /\ pb \in Nat /\ pb < bp /\ ~mem[pb].alloc
               /\ pb + mem[pb].size = bp
      /\ \A h \in heads : h + mem[h].size = bp => pb = h
      /\ jp <=> pb \in heads /\ ~mem[pb].alloc /\ pb < bp
  BY <1>c, FreeNeighbour
<1>s. search' = LET s == IF jn /\ search = nb THEN bp ELSE search
                IN  IF jp /\ s = bp THEN pb ELSE s
  BY <1>c DEF moved_search
<1>m. /\ nh = IF jp THEN pb ELSE bp
      /\ n = ne - nh /\ f = nh + n - 1
  BY DEF footer_pointer
<1> HIDE DEF bp, nb, pb, jn, jp, nh, ne, n, f
<1>a. /\ nh \in heads /\ nh \in Nat /\ nh <= bp /\ nh < ne /\ nh + 4 <= ne
      /\ n \in Nat /\ ne = nh + n /\ f = ne - 1
      /\ nh \in Addresses /\ f \in Addresses
  <2>1. nh \in heads /\ nh \in Nat /\ nh <= bp
    BY <1>b, <1>q, <1>m
  <2>2. nh < ne /\ nh + 4 <= ne
    BY <2>1, <1>b, <1>n, <1>f DEF Regular
  <2> QED BY <2>1, <2>2, <1>m, <1>n, <1>f, MMAssumption DEF Addresses, base
\* The blocks that stay, and the two that may disappear.
<1>o. ASSUME NEW h \in heads
      PROVE  h < nh \/ h >= ne \/ h = nh \/ h = bp \/ (jn /\ h = nb)
  <2>0. h \in Nat
    BY <1>f
  <2>1. CASE h < bp
    <3>1. CASE jp
      <4>1. pb \in heads /\ pb \in Nat /\ pb + mem[pb].size = bp /\ nh = pb
        BY <3>1, <1>q, <1>m
      <4>2. ~(pb < h)
        BY <2>0, <2>1, <4>1, <1>f, <1>b DEF Regular
      <4> QED BY <2>0, <4>1, <4>2
    <3>2. CASE ~jp
      BY <3>2, <2>1, <1>m
    <3> QED BY <3>1, <3>2
  <2>2. CASE h > bp
    <3>1. h >= nb
      BY <2>2, <2>0, <1>b, <1>f DEF Regular
    <3>2. CASE jn /\ h > nb
      <4>1. nb \in heads /\ ne = nb + mem[nb].size
        BY <3>2, <1>n
      <4> QED BY <3>2, <4>1, <2>0, <1>f DEF Regular
    <3>3. CASE ~jn
      BY <3>3, <3>1, <1>n
    <3> QED BY <3>1, <3>2, <3>3, <2>0, <1>b
  <2> QED BY <2>0, <2>1, <2>2, <1>b
<1>1. /\ mem' \in Memory /\ mem'[nh] = Tag(n, FALSE) /\ mem'[f] = Tag(n, FALSE)
      /\ SameOutside({nh, f}, mem, mem')
  <2>1. f = footer_pointer(nh, n)
    BY DEF f
  <2>2. mem' = mark_block(mem, nh, n, FALSE)
    BY <1>c
  <2> QED BY <1>a, <1>f, <2>1, <2>2, MarkFacts
<1>2. mem'[nh].size = n /\ mem'[nh].alloc = FALSE
  BY <1>1, <1>a, TagFacts
<1>3. /\ ne = nh + mem'[nh].size /\ mem'[ne - 1] = mem'[nh]
      /\ \A x \in Addresses : x # nh /\ x # ne - 1 => mem'[x] = mem[x]
  BY <1>1, <1>2, <1>a DEF SameOutside
<1>4. HeapTiled'
  <2>1. Tiled({h \in heads : h <= nh \/ h >= ne}, mem', top)
    BY <1>f, <1>a, <1>n, <1>1, <1>3, TiledMerged DEF HeapTiled
  <2> QED BY <1>h, <1>c, <2>1 DEF HeapTiled
<1>5. ASSUME NEW h \in heads, h < nh \/ h >= ne
      PROVE  h \in heads' /\ mem'[h] = mem[h]
  <2>1. h \in Nat /\ h \in Addresses
    BY <1>f DEF Regular
  <2>2. h # nh /\ h # ne - 1
    BY <1>5, <2>1, <1>a, <1>n
  <2>3. h \in heads'
    BY <1>5, <1>c, <2>1, <1>a
  <2>4. mem'[h] = mem[h]
    BY <2>1, <2>2, <1>3
  <2> QED BY <2>3, <2>4
<1>6. ASSUME NEW h \in heads'
      PROVE  h \in heads /\ (h = nh \/ ((h < nh \/ h >= ne) /\ mem'[h] = mem[h]))
  <2>1. h \in heads /\ (h <= nh \/ h >= ne) /\ h \in Nat
    BY <1>c, <1>f
  <2>2. CASE h = nh
    BY <2>1, <2>2
  <2>3. CASE h # nh
    <3>1. h < nh \/ h >= ne
      BY <2>1, <2>3, <1>a
    <3> QED BY <2>1, <3>1, <1>5
  <2> QED BY <2>2, <2>3
<1>7. NoAdjacentFree'
  <2> SUFFICES ASSUME NEW h \in heads', h + mem'[h].size # top, ~mem'[h].alloc
               PROVE  mem'[h + mem'[h].size].alloc
    BY <1>h DEF NoAdjacentFree, is_allocated, block_size
  <2>1. CASE h = nh
    <3>1. h + mem'[h].size = ne /\ ne # top /\ ne \in heads
      BY <2>1, <1>3, <1>n
    <3>2. mem[ne].alloc
      <4>1. CASE jn
        <5>1. nb \in heads /\ ~mem[nb].alloc /\ ne = nb + mem[nb].size
          BY <4>1, <1>n
        <5> QED BY <5>1, <3>1 DEF NoAdjacentFree, is_allocated, block_size
      <4>2. CASE ~jn
        BY <4>2, <3>1, <1>n
      <4> QED BY <4>1, <4>2
    <3>3. ne >= ne
      BY <1>n
    <3> QED BY <3>1, <3>2, <3>3, <1>5
  <2>2. CASE h # nh
    <3> DEFINE next == h + mem[h].size
    <3>1. h \in heads /\ mem'[h] = mem[h] /\ (h < nh \/ h >= ne)
      BY <2>2, <1>6
    <3>2. h \in Nat /\ mem[h].size \in Nat /\ mem[h].size >= 4
          /\ next \in heads \union {top} /\ next \in Nat
      BY <3>1, <1>f DEF Regular
    <3>3. next \in heads /\ mem[next].alloc
      <4>1. next # top
        BY <3>1, <1>h
      <4> QED BY <3>1, <3>2, <4>1 DEF NoAdjacentFree, is_allocated, block_size
    <3>4. next # nh
      <4> SUFFICES ASSUME next = nh PROVE FALSE
        OBVIOUS
      <4>1. nh = bp /\ ~jp
        BY <3>3, <1>q, <1>m
      <4>2. pb = h /\ h < bp
        BY <4>1, <3>1, <3>2, <1>q, <1>b
      <4> QED BY <4>1, <4>2, <3>1, <1>q
    <3>5. next < nh \/ next >= ne
      <4>1. h < nh => next <= nh
        BY <3>1, <1>a, <1>f DEF Regular
      <4> QED BY <4>1, <3>1, <3>2, <3>4, <1>a, <1>n
    <3>6. mem'[next] = mem[next]
      BY <3>3, <3>5, <1>5
    <3> QED BY <3>1, <3>3, <3>6
  <2> QED BY <2>1, <2>2
<1>8. /\ Live' = Live \ {id}
      /\ \A j \in Live \ {id} : /\ blocks'[j] = blocks[j]
                                /\ block_of(j)' = block_of(j)
      /\ blocks' \in [Ids -> [ptr : Nat, size : Sizes] \union {NULL}]
  <2>1. blocks \in [Ids -> [ptr : Nat, size : Sizes] \union {NULL}]
    BY DEF TypeOK
  <2>2. /\ blocks' \in [Ids -> [ptr : Nat, size : Sizes] \union {NULL}]
        /\ blocks'[id] = NULL
        /\ \A j \in Ids : j # id => blocks'[j] = blocks[j]
    BY <2>1, <1>c
  <2>3. Live' = Live \ {id}
    BY <2>2 DEF Live
  <2>4. \A j \in Live \ {id} : blocks'[j] = blocks[j]
    BY <2>2 DEF Live
  <2>5. \A j \in Live \ {id} : block_of(j)' = block_of(j)
    BY <2>4 DEF block_of
  <2> QED BY <2>2, <2>3, <2>4, <2>5
<1>9. BlocksOwned'
  <2>1. ASSUME NEW h \in heads, mem[h].alloc, h # bp
        PROVE  h < nh \/ h >= ne
    <3>1. h # nh
      BY <2>1, <1>q, <1>m
    <3>2. ~(jn /\ h = nb)
      BY <2>1, <1>n
    <3> QED BY <3>1, <3>2, <2>1, <1>o
  <2>2. ASSUME NEW j \in Live \ {id}
        PROVE  /\ block_of(j) \in heads'
               /\ mem'[block_of(j)].alloc
               /\ roundup(blocks[j].size) + 2 <= mem'[block_of(j)].size
    <3>1. /\ block_of(j) \in heads /\ mem[block_of(j)].alloc
          /\ roundup(blocks[j].size) + 2 <= mem[block_of(j)].size
          /\ block_of(j) # bp
      BY <1>c DEF BlocksOwned, is_allocated, block_size, bp
    <3>2. block_of(j) < nh \/ block_of(j) >= ne
      BY <3>1, <2>1
    <3> QED BY <3>1, <3>2, <1>5
  <2>3. \A i, j \in Live \ {id} : block_of(i) = block_of(j) => i = j
    BY DEF BlocksOwned
  <2>4. ASSUME NEW h \in heads', mem'[h].alloc
        PROVE  \E j \in Live \ {id} : block_of(j) = h
    <3>1. h # nh
      BY <2>4, <1>2
    <3>2. h \in heads /\ mem[h].alloc /\ (h < nh \/ h >= ne)
      BY <2>4, <3>1, <1>6
    <3>3. h # bp
      BY <3>2, <1>a, <1>b, <1>n, <3>1
    <3>4. PICK j \in Live : block_of(j) = h
      BY <3>2, <1>c DEF BlocksOwned, is_allocated
    <3> QED BY <3>3, <3>4 DEF bp
  <2> QED BY <1>8, <2>2, <2>3, <2>4 DEF BlocksOwned, is_allocated, block_size
<1>10. search' \in heads'
  <2>1. search \in heads /\ nh \in heads'
    BY <1>c, <1>a DEF SearchAtBlock
  <2>2. CASE search = bp \/ (jn /\ search = nb)
    <3>1. search' = nh
      BY <2>2, <1>s, <1>m
    <3> QED BY <2>1, <3>1
  <2>3. CASE ~(search = bp \/ (jn /\ search = nb))
    <3>1. search' = search
      BY <2>3, <1>s
    <3>2. search < nh \/ search >= ne \/ search = nh
      BY <2>1, <2>3, <1>o
    <3> QED BY <2>1, <3>1, <3>2, <1>5
  <2> QED BY <2>2, <2>3
<1>11. TypeOK'
  <2>1. heads' \subseteq heads
    BY <1>c
  <2>2. search' \in 0 .. top
    BY <2>1, <1>10, <1>f
  <2> QED BY <1>h, <1>1, <1>8, <2>1, <2>2 DEF TypeOK, Memory, base
<1>12. SearchAtBlock' /\ ExtendOnlyWhenFull' /\ Scanning'
  BY <1>h, <1>c, <1>10 DEF SearchAtBlock, ExtendOnlyWhenFull, Scanning
<1> QED
  BY <1>4, <1>7, <1>9, <1>11, <1>12

\* A step that changes no variable preserves the invariant.
LEMMA StutterInv == IInv /\ UNCHANGED vars => IInv'
BY DEF vars, IInv, TypeOK, HeapTiled, Tiled, SearchAtBlock, NoAdjacentFree,
       BlocksOwned, ExtendOnlyWhenFull, Scanning, Serves, Skips, total, Live,
       block_of, block_pointer, is_allocated, block_size

\* Every step of the allocator and of its client keeps the invariant.
LEMMA Inductive == IInv /\ [Next]_vars => IInv'
<1>1. IInv /\ NewTrace => IInv'
  <2>1. Fresh' => IInv'
    BY FreshInv, PTL
  <2> QED BY <2>1, NewTraceFresh
<1>2. IInv /\ (\E id \in Ids, size \in Sizes : MallocCall(id, size)) => IInv'
  BY MallocCallInv
<1>3. IInv /\ MallocStep => IInv'
  BY ScanUpInv, FoundAboveInv, WrapAroundInv, ScanBelowInv, SearchEndsInv,
     ExtendInv, ReuseInv, FillInv DEF MallocStep
<1>4. IInv /\ (\E id \in Ids : Free(id)) => IInv'
  BY FreeInv
<1>5. IInv /\ UNCHANGED vars => IInv'
  BY StutterInv
<1> QED
  BY <1>1, <1>2, <1>3, <1>4, <1>5 DEF Next
-----------------------------------------------------------------------------
(* The theorems *)

\* The inductive invariant holds in every reachable state of mm.c and its
\* client.
THEOREM Invariance == Spec => []IInv
<1> QED
  BY InitInv, Inductive, PTL DEF Spec

\* Every state has the types that the model declares, and the search pointer,
\* the break and the blocks lie within the heap (mm.c's globals and tags).
THEOREM TypeCorrect == Spec => []TypeOK
<1>1. IInv => TypeOK
  BY DEF IInv
<1> QED
  BY <1>1, Invariance, PTL

\* After any sequence of mm_malloc and mm_free, and between the steps of a
\* call, the blocks tile the heap and their two tags agree: a walk from block
\* to block never leaves the list, and the footer below a block is that of
\* its neighbour.
THEOREM HeapIsTiled == Spec => []HeapTiled
<1>1. IInv => HeapTiled
  BY DEF IInv
<1> QED
  BY <1>1, Invariance, PTL

\* No merge in mm_free leaves the next-fit pointer inside a block.
THEOREM SearchIsAtBlock == Spec => []SearchAtBlock
<1>1. IInv => SearchAtBlock
  BY DEF IInv
<1> QED
  BY <1>1, Invariance, PTL

\* Coalescing with both neighbours is enough: two free blocks are never
\* adjacent, whatever was split, extended or freed.
THEOREM Coalesced == Spec => []NoAdjacentFree
<1>1. IInv => NoAdjacentFree
  BY DEF IInv
<1> QED
  BY <1>1, Invariance, PTL

\* Blocks are neither lost nor given out twice, and hold what was asked for.
THEOREM Owned == Spec => []BlocksOwned
<1>1. IInv => BlocksOwned
  BY DEF IInv
<1> QED
  BY <1>1, Invariance, PTL

\* mm_malloc grows the heap only when no free block would have served.
THEOREM NeedsExtension == Spec => []ExtendOnlyWhenFull
<1>1. IInv => ExtendOnlyWhenFull
  BY DEF IInv
<1> QED
  BY <1>1, Invariance, PTL

\* What holds between the steps of the two loops of next_fit.
THEOREM LoopsKeepTheirPlace == Spec => []Scanning
<1>1. IInv => Scanning
  BY DEF IInv
<1> QED
  BY <1>1, Invariance, PTL
-----------------------------------------------------------------------------
(* Payloads *)

\* A payload lies between the tags of its block.
LEMMA LivePayload ==
  ASSUME TypeOK, HeapTiled, BlocksOwned, NEW id \in Live
  PROVE  /\ block_of(id) \in heads /\ block_of(id) \in Nat
         /\ mem[block_of(id)].alloc /\ mem[block_of(id)].size \in Nat
         /\ block_of(id) + mem[block_of(id)].size <= top
         /\ payload_of(id) # {}
         /\ \A a \in payload_of(id) :
              /\ a \in Addresses /\ a \in Nat
              /\ block_of(id) < a
              /\ a < block_of(id) + mem[block_of(id)].size - 1
<1> DEFINE b == block_of(id)
           q == blocks[id].ptr
           r == roundup(blocks[id].size)
<1>1. blocks[id] \in [ptr : Nat, size : Sizes]
  BY DEF Live, TypeOK
<1>2. q \in Nat /\ r \in Nat /\ r >= 1 /\ b = q - 1
  BY <1>1, SizeFacts DEF block_of, block_pointer
<1>3. b \in heads /\ mem[b].alloc /\ r + 2 <= mem[b].size
  BY DEF BlocksOwned, is_allocated, block_size
<1>4. payload_of(id) = q .. q + r - 1
  BY DEF payload_of
<1>5. /\ top \in Nat /\ top <= ADDR_LIMIT /\ heads \in SUBSET (0 .. top - 1)
      /\ Regular(heads, mem, top)
  BY StateFacts
<1> HIDE DEF b, q, r
<1>6. b \in Nat /\ mem[b].size \in Nat /\ b + mem[b].size <= top
  BY <1>3, <1>5 DEF Regular
<1>7. q \in q .. q + r - 1
  BY <1>2
<1>8. ASSUME NEW a \in q .. q + r - 1
      PROVE  a \in Addresses /\ a \in Nat /\ b < a /\ a < b + mem[b].size - 1
  <2>1. a \in Nat /\ q <= a /\ a <= q + r - 1
    BY <1>2
  <2> QED BY <2>1, <1>2, <1>3, <1>5, <1>6, MMAssumption DEF Addresses, base
<1> QED
  BY <1>3, <1>4, <1>6, <1>7, <1>8 DEF b

\* As long as memlib.c has room for what the model lets the heap grow to, the
\* break follows top: the word that mm_init reserves lies below it.
BreakAboveTop == mem_brk = top + 1

\* mem_sbrk moves the break with top, when the buffer is never exhausted.
LEMMA BreakStep ==
  ASSUME ADDR_LIMIT < MAX_HEAP, IInv, BreakAboveTop, [Next]_vars
  PROVE  BreakAboveTop'
<1> USE MMAssumption, MaxHeapAssumption
<1>1. ASSUME NewTrace PROVE BreakAboveTop'
  BY <1>1 DEF NewTrace, BreakAboveTop, BrkAfter, CanExtend, mem_start_brk,
              base, MIN_BLOCK
<1>2. ASSUME Extend PROVE BreakAboveTop'
  <2>1. /\ top' = top + extension(total) /\ mem_sbrk(extension(total))
        /\ pc = "place" /\ p = top
    BY <1>2 DEF Extend
  <2>2. top + extension(total) <= ADDR_LIMIT
    BY <2>1, RoomToExtend
  <2>3. extension(total) \in Nat
    BY <2>1, RequestFacts, ExtensionFacts DEF IInv
  <2>4. top \in Nat
    BY StateFacts DEF IInv
  <2> QED BY <2>1, <2>2, <2>3, <2>4
          DEF mem_sbrk, BrkAfter, CanExtend, BreakAboveTop
<1>3. ASSUME UNCHANGED <<top, mem_brk>> PROVE BreakAboveTop'
  BY <1>3 DEF BreakAboveTop
<1> QED
  BY <1>1, <1>2, <1>3
  DEF Next, MallocStep, MallocCall, ScanUp, FoundAbove, WrapAround, ScanBelow,
      SearchEnds, Reuse, Fill, Free, heap, vars

\* Every pointer that mm_malloc has handed out lies within the extent of the
\* heap, with its payload, if the heap never needs more than MAX_HEAP.
THEOREM PayloadsInHeap ==
  ASSUME ADDR_LIMIT < MAX_HEAP
  PROVE  Spec => []PayloadInHeap
<1>1. Init => BreakAboveTop
  BY MMAssumption, MaxHeapAssumption
  DEF Init, BreakAboveTop, BrkAfter, CanExtend, mem_start_brk, base, MIN_BLOCK
<1>2. IInv /\ BreakAboveTop /\ [Next]_vars => BreakAboveTop'
  BY BreakStep
<1>3. IInv /\ BreakAboveTop => PayloadInHeap
  <2> SUFFICES ASSUME IInv, BreakAboveTop,
                      NEW id \in Live, NEW a \in payload_of(id)
               PROVE  a <= mem_heap_hi
    BY DEF PayloadInHeap
  <2>1. /\ a \in Nat /\ a < block_of(id) + mem[block_of(id)].size - 1
        /\ block_of(id) + mem[block_of(id)].size <= top
        /\ block_of(id) \in Nat /\ mem[block_of(id)].size \in Nat
    BY LivePayload DEF IInv
  <2>2. top \in Nat
    BY StateFacts DEF IInv
  <2> QED BY <2>1, <2>2 DEF BreakAboveTop, mem_heap_hi
<1> QED
  BY <1>1, <1>2, <1>3, Invariance, PTL DEF Spec
-----------------------------------------------------------------------------
(* Refinement *)

owned == [id \in Ids |-> contents_of(id)]

\* A step that leaves the requests and the words of their payloads alone is
\* a stuttering step of the abstract allocator.
LEMMA Untouched ==
  ASSUME Live' = Live, UNCHANGED blocks,
         \A id \in Live : \A a \in payload_of(id) : mem'[a] = mem[a]
  PROVE  owned' = owned
<1>1. ASSUME NEW id \in Ids PROVE contents_of(id)' = contents_of(id)
  <2>1. payload_of(id)' = payload_of(id)
    BY DEF payload_of
  <2>2. CASE id \in Live
    BY <2>1, <2>2 DEF contents_of
  <2>3. CASE id \notin Live
    BY <2>3 DEF contents_of
  <2> QED BY <2>2, <2>3
<1> QED
  BY <1>1 DEF owned

\* What mm_malloc writes lies in the block it hands out, which no one owns.
LEMMA PlaceUntouched ==
  ASSUME IInv, pc = "place",
         NEW n \in Nat, NEW k \in Int, Place(n, k),
         NEW e \in Nat, e = p + n, k = n - total,
         \A h \in heads : h # p => h + mem[h].size <= p \/ h >= e
  PROVE  owned' = owned
<1> USE DEF IInv
<1>1. UNCHANGED blocks /\ Live' = Live
  BY DEF Place, Live
<1>2. total \in Nat /\ total >= 4 /\ p \in Nat /\ mem \in Memory
  BY RequestFacts, StateFacts
<1>3. /\ p = top \/ (p \in heads /\ ~mem[p].alloc)
      /\ top \notin heads
  BY StateFacts DEF Scanning, Skips, is_allocated, Regular
<1>4. ASSUME NEW id \in Live, NEW a \in payload_of(id)
      PROVE  mem'[a] = mem[a]
  <2> DEFINE b == block_of(id)
  <2>1. /\ b \in heads /\ b \in Nat /\ mem[b].alloc /\ mem[b].size \in Nat
        /\ a \in Addresses /\ a \in Nat /\ b < a /\ a < b + mem[b].size - 1
    BY LivePayload
  <2>2. b # p
    BY <2>1, <1>3
  <2> HIDE DEF b
  <2>3. a < p \/ a >= e
    BY <2>1, <2>2, <1>2
  <2>4. CASE k <= 4
    <3>1. mem' = mark_block(mem, p, n, TRUE)
      BY <2>4 DEF Place, MIN_BLOCK
    <3>2. a # p /\ a # p + n - 1
      BY <2>1, <2>3, <2>4, <1>2
    <3> QED BY <2>1, <3>1, <3>2, <1>2 DEF mark_block, footer_pointer, Memory
  <2>5. CASE ~(k <= 4)
    <3>1. mem' = mark_block(mark_block(mem, p, total, TRUE), p + total, k, FALSE)
      BY <2>5 DEF Place, MIN_BLOCK
    <3>2. /\ a # p /\ a # p + total - 1 /\ a # p + total
          /\ a # p + total + k - 1
      BY <2>1, <2>3, <2>5, <1>2
    <3> QED BY <2>1, <3>1, <3>2, <1>2 DEF mark_block, footer_pointer, Memory
  <2> QED BY <2>4, <2>5
<1> QED
  BY <1>1, <1>4, Untouched

\* Placing a request in a free block changes no word of a live request.
LEMMA ReuseUntouched ==
  ASSUME IInv, Reuse
  PROVE  owned' = owned
<1> USE DEF IInv
<1>1. pc = "place" /\ p # top /\ Place(block_size(p), block_size(p) - total)
  BY DEF Reuse
<1>2. total \in Nat /\ Regular(heads, mem, top) /\ p \in heads
  BY <1>1, RequestFacts, StateFacts DEF Scanning
<1>3. block_size(p) \in Nat /\ p \in Nat /\ block_size(p) = mem[p].size
  BY <1>2 DEF Regular, block_size
<1>4. ASSUME NEW h \in heads, h # p
      PROVE  h + mem[h].size <= p \/ h >= p + block_size(p)
  BY <1>2, <1>3, <1>4 DEF Regular
<1>5. p + block_size(p) \in Nat /\ block_size(p) - total \in Int
  BY <1>2, <1>3
<1> QED
  BY <1>1, <1>3, <1>4, <1>5, PlaceUntouched

\* Neither does placing one in new space.
LEMMA ExtendUntouched ==
  ASSUME IInv, Extend
  PROVE  owned' = owned
<1> USE DEF IInv
<1>1. pc = "place" /\ p = top /\ Place(extension(total), excess_of(total))
  BY DEF Extend
<1>2. total \in Nat /\ Regular(heads, mem, top) /\ p \in Nat
  BY <1>1, RequestFacts, StateFacts
<1>3. /\ extension(total) \in Nat /\ excess_of(total) \in Int
      /\ excess_of(total) = extension(total) - total
  BY <1>2, ExtensionFacts
<1>4. \A h \in heads : h + mem[h].size <= p
  BY <1>1, <1>2 DEF Regular
<1>5. p + extension(total) \in Nat
  BY <1>2, <1>3
<1> QED
  BY <1>1, <1>3, <1>4, <1>5, PlaceUntouched

\* When mm_malloc returns, its payload overlaps no other.
LEMMA FillMalloc ==
  ASSUME IInv, Fill
  PROVE  \E id \in Ids : Promise!Malloc(id)
<1> USE DEF IInv
<1>i. PICK id \in Ids : id = req.id
  BY RequestFacts DEF Fill
<1> DEFINE lo == p + 1
           n == roundup(req.size)
           S == lo .. lo + n - 1
<1>c. /\ pc = "fill"
      /\ mem' = [a \in Addresses |-> IF a \in S THEN Pattern(id) ELSE mem[a]]
      /\ blocks' = [blocks EXCEPT ![id] = [ptr |-> lo, size |-> req.size]]
  BY <1>i DEF Fill, payload_pointer
<1>r. /\ req.size \in Sizes /\ n \in Nat /\ n >= 1 /\ total \in Nat
      /\ n + 2 <= total
  BY <1>c, RequestFacts, SizeFacts
<1>f. /\ Regular(heads, mem, top) /\ mem \in Memory /\ top \in Nat
      /\ top <= ADDR_LIMIT
  BY StateFacts
<1>p. /\ p \in heads /\ p \in Nat /\ mem[p].size \in Nat
      /\ n + 2 <= mem[p].size /\ p + mem[p].size <= top
      /\ blocks[id] = NULL /\ \A j \in Live : block_of(j) # p
  BY <1>c, <1>f, <1>r, <1>i DEF Scanning, block_size, Regular
<1>s. /\ \A a \in S : a \in Addresses /\ a \in Nat /\ p < a
                      /\ a < p + mem[p].size - 1
      /\ lo \in Addresses /\ lo \in Nat
  <2>1. \A a \in S : a \in Nat /\ p < a /\ a <= p + n
    BY <1>p, <1>r
  <2> QED BY <2>1, <1>p, <1>r, <1>f, MMAssumption DEF Addresses, base
<1>1. /\ blocks' \in [Ids -> [ptr : Nat, size : Sizes] \union {NULL}]
      /\ blocks'[id] = [ptr |-> lo, size |-> req.size] /\ blocks'[id] # NULL
      /\ \A j \in Ids : j # id => blocks'[j] = blocks[j]
  <2>1. blocks \in [Ids -> [ptr : Nat, size : Sizes] \union {NULL}]
    BY DEF TypeOK
  <2>2. [ptr |-> lo, size |-> req.size] \in [ptr : Nat, size : Sizes]
    BY <1>s, <1>r
  <2> QED BY <2>1, <2>2, <1>c, MMAssumption
<1> HIDE DEF lo, n
<1>2. contents_of(id)' = [a \in S |-> Pattern(id)]
  <2>1. id \in Live' /\ payload_of(id)' = S
    BY <1>1 DEF Live, payload_of, n
  <2>2. \A a \in S : mem'[a] = Pattern(id)
    BY <1>c, <1>s
  <2> QED BY <2>1, <2>2 DEF contents_of
<1>3. ASSUME NEW j \in Live
      PROVE  /\ j # id /\ payload_of(j) \intersect S = {}
             /\ contents_of(j)' = contents_of(j)
  <2> DEFINE b == block_of(j)
  <2>1. j \in Ids /\ j # id
    BY <1>p DEF Live
  <2>2. /\ b \in heads /\ b \in Nat /\ mem[b].size \in Nat
        /\ \A a \in payload_of(j) : a \in Addresses /\ a \in Nat /\ b < a
                                    /\ a < b + mem[b].size - 1
    BY LivePayload
  <2>3. b # p
    BY <1>p
  <2> HIDE DEF b
  <2>4. b + mem[b].size <= p \/ p + mem[p].size <= b
    BY <2>2, <2>3, <1>p, <1>f DEF Regular
  <2>5. ASSUME NEW a \in payload_of(j), a \in S PROVE FALSE
    BY <2>2, <2>4, <2>5, <1>s, <1>p
  <2>6. \A a \in payload_of(j) : mem'[a] = mem[a]
    BY <2>2, <2>5, <1>c
  <2>7. j \in Live' /\ payload_of(j)' = payload_of(j)
    BY <2>1, <1>1 DEF Live, payload_of
  <2> QED BY <2>1, <2>5, <2>6, <2>7 DEF contents_of
<1>4. ASSUME NEW j \in Ids, j # id, j \notin Live
      PROVE  contents_of(j)' = contents_of(j)
  <2>1. j \notin Live'
    BY <1>1, <1>4 DEF Live
  <2> QED BY <2>1, <1>4 DEF contents_of
<1>5. id \notin Live /\ owned[id] = Promise!Nothing
  BY <1>p DEF Live, owned, contents_of, Promise!Nothing
<1>6. owned' = [owned EXCEPT ![id] = [a \in lo .. lo + n - 1 |-> Pattern(id)]]
  <2>1. \A j \in Ids : j # id => contents_of(j)' = contents_of(j)
    BY <1>3, <1>4
  <2> QED BY <2>1, <1>2 DEF owned
<1>7. ASSUME NEW j \in Ids \ {id}
      PROVE  DOMAIN owned'[id] \intersect DOMAIN owned[j] = {}
  <2>1. DOMAIN owned'[id] = S
    BY <1>2 DEF owned
  <2>2. CASE j \in Live
    BY <2>1, <2>2, <1>3 DEF owned, contents_of
  <2>3. CASE j \notin Live
    BY <2>1, <2>3 DEF owned, contents_of
  <2> QED BY <2>2, <2>3
<1>8. n \in {roundup(size) : size \in Sizes}
  BY <1>r DEF n
<1>9. \E l \in Addresses, k \in {roundup(size) : size \in Sizes} :
        owned' = [owned EXCEPT ![id] = [a \in l .. l + k - 1 |-> Pattern(id)]]
  <2>1. lo \in Addresses
    BY <1>s
  <2> QED BY <2>1, <1>6, <1>8, Zenon
<1>10. owned'[id] # Promise!Nothing
  <2>1. lo \in S
    BY <1>s, <1>r
  <2>2. DOMAIN owned'[id] = S
    BY <1>2 DEF owned
  <2>3. DOMAIN Promise!Nothing = {}
    BY DEF Promise!Nothing
  <2> QED BY <2>1, <2>2, <2>3
<1>11. Promise!Malloc(id)
  BY <1>5, <1>7, <1>9, <1>10, Zenon DEF Promise!Malloc, owned
<1> QED
  BY <1>11

\* mm_free gives up one payload and leaves every other as it is: the two tags
\* it writes lie in the block that was given back or in a free neighbour.
LEMMA FreeFree ==
  ASSUME IInv, NEW id \in Ids, Free(id)
  PROVE  Promise!Free(id)
<1> USE DEF IInv
<1> DEFINE bp == block_of(id)
           nb == bp + block_size(bp)
           pb == bp - block_size(bp - 1)
           jn == joins_next(nb)
           jp == joins_prev(pb)
           nh == IF jp THEN pb ELSE bp
           ne == IF jn THEN nb + block_size(nb) ELSE nb
<1>c. /\ pc = "idle" /\ id \in Live
      /\ mem' = mark_block(mem, nh, ne - nh, FALSE)
      /\ blocks' = [blocks EXCEPT ![id] = NULL]
  BY DEF Free, Live, block_of
<1>f. /\ Regular(heads, mem, top) /\ mem \in Memory /\ top \in Nat
      /\ heads \in SUBSET (0 .. top - 1)
  BY StateFacts
<1>b. /\ bp \in heads /\ bp \in Nat /\ mem[bp].alloc /\ mem[bp].size \in Nat
      /\ nb = bp + mem[bp].size /\ nb \in heads \union {top} /\ nb \in Nat
  <2>1. bp \in heads /\ mem[bp].alloc
    BY <1>c DEF BlocksOwned, is_allocated
  <2>2. nb = bp + mem[bp].size
    BY DEF block_size
  <2> HIDE DEF bp, nb
  <2> QED BY <2>1, <2>2, <1>f DEF Regular
<1>e. ne \in Int
  <2>1. ne = IF jn THEN nb + mem[nb].size ELSE nb
    BY DEF block_size
  <2>2. jn => nb < top
    BY DEF joins_next
  <2> HIDE DEF nb, ne, jn
  <2> QED BY <2>1, <2>2, <1>b, <1>f DEF Regular
\* A word inside another allocated block is neither of the two tags.
<1>n. ASSUME NEW h \in heads, mem[h].alloc, h # bp,
             NEW a \in Nat, h < a, a < h + mem[h].size - 1
      PROVE  a # nh /\ a # ne - 1
  <2>0. h \in Nat /\ mem[h].size \in Nat
    BY <1>f DEF Regular
  <2>1. a # bp /\ a # nb - 1
    <3> HIDE DEF bp, nb
    <3>1. h + mem[h].size <= bp \/ nb <= h
      <4>1. h < bp => h + mem[h].size <= bp
        BY <1>f, <1>b DEF Regular
      <4>2. bp < h => bp + mem[bp].size <= h
        BY <1>f, <1>b DEF Regular
      <4> QED BY <4>1, <4>2, <2>0, <1>n, <1>b
    <3>2. bp < nb
      BY <1>b, <1>f DEF Regular
    <3> QED BY <3>1, <3>2, <2>0, <1>n, <1>b
  <2>2. ASSUME jn PROVE mem[nb].size \in Nat /\ a # nb + mem[nb].size - 1
    <3> HIDE DEF nb, bp
    <3>1. nb \in heads /\ ~mem[nb].alloc
      <4>1. nb < top /\ ~mem[nb].alloc
        BY <2>2 DEF joins_next, is_allocated
      <4> QED BY <4>1, <1>b, <1>f
    <3>2. h # nb /\ mem[nb].size \in Nat /\ mem[nb].size >= 4
      BY <3>1, <1>n, <1>f DEF Regular
    <3>3. h + mem[h].size <= nb \/ nb + mem[nb].size <= h
      <4>1. h < nb => h + mem[h].size <= nb
        BY <3>1, <1>f DEF Regular
      <4>2. nb < h => nb + mem[nb].size <= h
        BY <3>1, <1>f DEF Regular
      <4> QED BY <4>1, <4>2, <3>2, <2>0, <1>b
    <3> QED BY <3>2, <3>3, <2>0, <1>n, <1>b
  <2>3. ASSUME jp PROVE a # pb
    <3>1. pb \in heads /\ ~mem[pb].alloc /\ pb \in Nat
      BY <2>3, <1>c, FreeNeighbour
    <3> HIDE DEF pb
    <3>2. h # pb
      BY <3>1, <1>n
    <3>3. h + mem[h].size <= pb \/ pb < h
      BY <3>1, <3>2, <1>f, <2>0 DEF Regular
    <3> QED BY <3>1, <3>3, <2>0, <1>n
  <2>4. /\ ne = IF jn THEN nb + mem[nb].size ELSE nb
        /\ nh = IF jp THEN pb ELSE bp
    BY DEF block_size
  <2> HIDE DEF bp, nb, pb, jn, jp, nh, ne
  <2>5. a # nh
    BY <2>1, <2>3, <2>4, Zenon
  <2>6. a # ne - 1
    <3>1. CASE jn
      <4>1. ne = nb + mem[nb].size
        BY <3>1, <2>4, Zenon
      <4>2. mem[nb].size \in Nat /\ a # nb + mem[nb].size - 1
        BY <3>1, <2>2, Zenon
      <4> QED BY <4>1, <4>2, <1>b
    <3>2. CASE ~jn
      <4>1. ne = nb
        BY <3>2, <2>4, Zenon
      <4> QED BY <4>1, <2>1
    <3> QED BY <3>1, <3>2
  <2> QED BY <2>5, <2>6
<1>1. /\ blocks' \in [Ids -> [ptr : Nat, size : Sizes] \union {NULL}]
      /\ blocks'[id] = NULL
      /\ \A j \in Ids : j # id => blocks'[j] = blocks[j]
  BY <1>c DEF TypeOK
<1>2. ASSUME NEW j \in Live, j # id
      PROVE  contents_of(j)' = contents_of(j)
  <2> DEFINE b == block_of(j)
  <2>1. /\ b \in heads /\ mem[b].alloc
        /\ \A a \in payload_of(j) : a \in Addresses /\ a \in Nat /\ b < a
                                    /\ a < b + mem[b].size - 1
    BY LivePayload
  <2>2. b # bp
    BY <1>2, <1>c DEF BlocksOwned
  <2> HIDE DEF b
  <2>3. ASSUME NEW a \in payload_of(j) PROVE mem'[a] = mem[a]
    <3>1. a \in Addresses /\ a # nh /\ a # ne - 1
      BY <2>1, <2>2, <1>n
    <3>2. nh + (ne - nh) - 1 = ne - 1
      <4>1. nh \in Nat
        BY <1>b, <1>c, FreeNeighbour
      <4>2. ne \in Int
        BY <1>e
      <4> HIDE DEF nh, ne
      <4> QED BY <4>1, <4>2
    <3> HIDE DEF nh, ne
    <3> QED BY <3>1, <3>2, <1>c, <1>f DEF mark_block, footer_pointer, Memory
  <2>4. j \in Live' /\ payload_of(j)' = payload_of(j)
    BY <1>1, <1>2 DEF Live, payload_of
  <2> QED BY <2>3, <2>4 DEF contents_of
<1>3. ASSUME NEW j \in Ids, j # id, j \notin Live
      PROVE  contents_of(j)' = contents_of(j)
  <2>1. j \notin Live'
    BY <1>1, <1>3 DEF Live
  <2> QED BY <2>1, <1>3 DEF contents_of
<1>4. contents_of(id)' = Promise!Nothing
  BY <1>1 DEF Live, contents_of, Promise!Nothing
<1>5. owned' = [owned EXCEPT ![id] = Promise!Nothing]
  <2>1. \A j \in Ids : j # id => contents_of(j)' = contents_of(j)
    BY <1>2, <1>3
  <2> QED BY <2>1, <1>4 DEF owned
<1>6. owned[id] # Promise!Nothing
  <2>1. payload_of(id) # {}
    BY <1>c, LivePayload
  <2>2. DOMAIN owned[id] = payload_of(id)
    BY <1>c DEF owned, contents_of
  <2>3. DOMAIN Promise!Nothing = {}
    BY DEF Promise!Nothing
  <2> QED BY <2>1, <2>2, <2>3
<1> QED
  BY <1>5, <1>6, Zenon DEF Promise!Free, owned

\* mm.c implements the abstract allocator of Allocator.tla: whatever the
\* client has been given is its own, with what it stored there, until it
\* frees it, and the next payload overlaps none of it.
THEOREM Refinement == Spec => ImplementsAllocator
<1>1. Init => Promise!Init
  BY DEF Init, Promise!Init, Promise!Nothing, contents_of, Live
<1>2. IInv /\ [Next]_vars => [Promise!Next]_owned
  <2> SUFFICES ASSUME IInv, [Next]_vars
               PROVE  Promise!Next \/ owned' = owned
    OBVIOUS
  <2>1. CASE NewTrace
    <3>1. \A id \in Ids : contents_of(id)' = Promise!Nothing
      BY <2>1 DEF NewTrace, contents_of, Live, Promise!Nothing
    <3>2. Promise!Reset
      BY <3>1 DEF Promise!Reset
    <3> QED BY <3>2 DEF Promise!Next
  <2>2. CASE UNCHANGED <<mem, blocks>>
    BY <2>2, Untouched DEF Live
  <2>3. CASE Extend
    BY <2>3, ExtendUntouched
  <2>4. CASE Reuse
    BY <2>4, ReuseUntouched
  <2>5. CASE Fill
    BY <2>5, FillMalloc DEF Promise!Next
  <2>6. CASE \E id \in Ids : Free(id)
    BY <2>6, FreeFree DEF Promise!Next
  <2> QED
    BY <2>1, <2>2, <2>3, <2>4, <2>5, <2>6
    DEF Next, MallocStep, MallocCall, ScanUp, FoundAbove, WrapAround,
        ScanBelow, SearchEnds, heap, vars
<1> QED
  BY <1>1, <1>2, Invariance, PTL
  DEF Spec, ImplementsAllocator, Promise!Spec, owned
=============================================================================
