----------------------------- MODULE HeapProofs -----------------------------
(***************************************************************************)
(* Proofs about the kernel heap: the list is whole in every state, nothing *)
(* leaks, and it implements the allocator of Allocator.tla.                *)
(***************************************************************************)
EXTENDS Heap, Facts, TLAPS

-----------------------------------------------------------------------------
(* Numbers.                                                                 *)

\* Rounding up neither wraps nor overshoots by an alignment, away from the top.
LEMMA AlignUp ==
    ASSUME NEW v \in Nat, v + HEAP_ALIGN <= ADDR_MOD
    PROVE  /\ align_up(v) \in Nat /\ v <= align_up(v) /\ align_up(v) < v + HEAP_ALIGN
           /\ align_up(v) % HEAP_ALIGN = 0
  <1> DEFINE w == v + HEAP_ALIGN - 1
             r == w % HEAP_ALIGN
             q == w \div HEAP_ALIGN
  <1>1. HEAP_ALIGN \in Int /\ HEAP_ALIGN > 0 /\ ADDR_MOD \in Nat /\ ADDR_MOD > 0
    BY HeapAssumption
  <1>2. w \in Nat /\ w < ADDR_MOD /\ w % ADDR_MOD = w
    BY <1>1, ModTurn
  <1>3. align_up(v) = w - r
    BY <1>2 DEF align_up
  <1>4. r \in Int /\ q \in Int /\ 0 <= r /\ r < HEAP_ALIGN /\ w = HEAP_ALIGN * q + r
    BY <1>1, <1>2, DivMod, DivModType
  <1>5. (w - r) % HEAP_ALIGN = 0
    <2> HIDE DEF q, r
    <2>1. w - r = HEAP_ALIGN * q
      BY <1>1, <1>2, <1>4
    <2> QED
      BY <1>1, <1>4, <2>1, ModOfMultiple
  <1> HIDE DEF r, q
  <1> QED
    BY <1>1, <1>3, <1>4, <1>5

LEMMA AlignDown ==
    ASSUME NEW v \in Nat
    PROVE  /\ align_down(v) \in Nat /\ align_down(v) <= v
           /\ align_down(v) % HEAP_ALIGN = 0
  <1> DEFINE r == v % HEAP_ALIGN
             q == v \div HEAP_ALIGN
  <1>1. HEAP_ALIGN \in Int /\ HEAP_ALIGN > 0
    BY HeapAssumption
  <1>2. r \in Int /\ q \in Int /\ 0 <= r /\ r < HEAP_ALIGN /\ v = HEAP_ALIGN * q + r
    BY <1>1, DivMod, DivModType
  <1>3. align_down(v) = v - r
    BY DEF align_down
  <1> HIDE DEF r, q
  <1>4. v - r = HEAP_ALIGN * q
    BY <1>1, <1>2
  <1>5. q >= 0
    BY <1>1, <1>2
  <1>6. HEAP_ALIGN * q >= 0
    BY <1>1, <1>2, <1>5
  <1> QED
    BY <1>1, <1>2, <1>3, <1>4, <1>6, ModOfMultiple

LEMMA HeapNumbers ==
    /\ HEAP_ALIGN \in Nat /\ HEAP_ALIGN > 0 /\ HDR_BYTES \in Nat /\ HDR_BYTES > 0
    /\ HDR_BYTES % HEAP_ALIGN = 0 /\ ADDR_MOD \in Nat /\ ADDR_MOD > 0
    /\ Lo \in Nat /\ Lo > 0 /\ Lo % HEAP_ALIGN = 0 /\ _heap_start <= Lo
    /\ Hi \in Nat /\ Hi < ADDR_MOD /\ Hi % HEAP_ALIGN = 0
    /\ Lo + HDR_BYTES + HEAP_ALIGN <= Hi
    /\ SPLIT_MIN = HDR_BYTES + HEAP_ALIGN
    /\ NULL = 0 /\ NULL \in Words /\ Words \subseteq Nat /\ Lo \in Words
  <1>1. /\ HEAP_ALIGN \in Nat /\ HEAP_ALIGN > 0 /\ HDR_BYTES \in Nat /\ HDR_BYTES > 0
        /\ HDR_BYTES % HEAP_ALIGN = 0 /\ ADDR_MOD \in Nat /\ ADDR_MOD > 0
        /\ _heap_start \in Nat /\ _heap_end \in Nat
        /\ 0 < _heap_start /\ _heap_start + HEAP_ALIGN <= ADDR_MOD
        /\ _heap_end < ADDR_MOD
        /\ Hi - Lo >= HDR_BYTES + HEAP_ALIGN
    BY HeapAssumption
  <1>2. /\ Lo \in Nat /\ Lo > 0 /\ Lo % HEAP_ALIGN = 0 /\ _heap_start <= Lo
    BY <1>1, AlignUp DEF Lo
  <1>3. /\ Hi \in Nat /\ Hi < ADDR_MOD /\ Hi % HEAP_ALIGN = 0
    BY <1>1, AlignDown DEF Hi
  <1>4. 0 % HEAP_ALIGN = 0
    BY <1>1, ModTurn
  <1>5. NULL = 0 /\ NULL \in Words /\ Words \subseteq Nat
    BY <1>1, <1>4 DEF NULL, Words
  <1>6. Lo \in Words
    BY <1>1, <1>2, <1>3 DEF Words
  <1> QED
    BY <1>1, <1>2, <1>3, <1>5, <1>6 DEF SPLIT_MIN

\* An address below the end of the region that is a sum of multiples is a word.
LEMMA AWord ==
    ASSUME NEW a \in Nat, a <= Hi, a % HEAP_ALIGN = 0
    PROVE  a \in Words
  BY HeapNumbers DEF Words

\* Sums and differences of aligned sizes are aligned.
LEMMA Aligned ==
    ASSUME NEW x \in Int, NEW y \in Int, x % HEAP_ALIGN = 0, y % HEAP_ALIGN = 0
    PROVE  (x + y) % HEAP_ALIGN = 0 /\ (x - y) % HEAP_ALIGN = 0
  <1>1. HEAP_ALIGN \in Int /\ HEAP_ALIGN > 0
    BY HeapNumbers
  <1> QED
    BY <1>1, MultiplesSum

LEMMA WordsFinite == IsFiniteSet(Words)
  <1>1. IsFiniteSet(0 .. ADDR_MOD - 1)
    BY HeapNumbers, FS_Interval
  <1> QED
    BY <1>1, FS_Subset DEF Words
-----------------------------------------------------------------------------
(* The inductive invariant.                                                 *)

\* Sizes as sets, so that sums are cardinalities: one pair per byte of a block.
Units(h, S) == {p \in S \X (1 .. ADDR_MOD) : p[2] <= h[p[1]].size}
SumOf(h, S) == Cardinality(Units(h, S))

Headers == [Words -> [prev : Words, next : Words, size : 0 .. ADDR_MOD - 1,
                      magic : {"none", "free", "used"}]]
Heads(h) == {a \in Words : h[a].magic # "none"}
UsedOf(h) == {a \in Words : h[a].magic = "used"}
EndOf(h, a) == a + HDR_BYTES + h[a].size

\* One header among the headers h: in the region, aligned, linked to its neighbours
\* both ways, its end where the next begins.
Linked(h, a) ==
    /\ Lo <= a /\ EndOf(h, a) <= Hi
    /\ h[a].size % HEAP_ALIGN = 0 /\ HEAP_ALIGN <= h[a].size
    /\ h[a].prev = NULL <=> a = Lo
    /\ h[a].prev # NULL => h[a].prev \in Heads(h) /\ h[h[a].prev].next = a
    /\ h[a].next = NULL => EndOf(h, a) = Hi
    /\ h[a].next # NULL => /\ h[a].next = EndOf(h, a) /\ h[a].next \in Heads(h)
                           /\ h[h[a].next].prev = a

\* Every header that is anywhere in memory is linked, and no two blocks overlap.
Chain(h) ==
    /\ h \in Headers
    /\ Lo \in Heads(h)
    /\ \A a \in Heads(h) : Linked(h, a)
    /\ \A a, b \in Heads(h) : a < b => EndOf(h, a) <= b

NoneJoinable(h) == \A a \in Heads(h) : ~Joinable(h, a)

\* What a caller is inside with was at most the total when it asked: at most the region.
HeapInv ==
    /\ Chain(hdr) /\ NoneJoinable(hdr)
    /\ g_first = Lo
    /\ want \in [Callers -> 0 .. Hi - Lo - HDR_BYTES]
    /\ g_total = SumOf(hdr, Heads(hdr))
    /\ g_used = SumOf(hdr, UsedOf(hdr))
-----------------------------------------------------------------------------
(* The walk meets every header.                                             *)

WalkOf(h, f) == LET w[i \in Steps] == IF i = 0 THEN f
                                      ELSE IF w[i - 1] = NULL THEN NULL ELSE h[w[i - 1]].next
                IN  w
BlocksOf(h, f) == {WalkOf(h, f)[i] : i \in Steps} \ {NULL}

\* The first n steps of a walk.
IsWalk(w, n, h, f) ==
    w = [i \in 0 .. n |-> IF i = 0 THEN f
                          ELSE IF w[i - 1] = NULL THEN NULL ELSE h[w[i - 1]].next]

LEMMA WalkExists == ASSUME NEW h, NEW f PROVE \A n \in Nat : \E w : IsWalk(w, n, h, f)
  <1> DEFINE G == {n \in Nat : \E w : IsWalk(w, n, h, f)}
  <1>1. 0 \in G
    <2>1. IsWalk([i \in 0 .. 0 |-> f], 0, h, f)
      BY DEF IsWalk
    <2> QED
      BY <2>1
  <1>2. ASSUME NEW n \in Nat, n \in G PROVE n + 1 \in G
    <2>1. PICK w : IsWalk(w, n, h, f)
      BY <1>2
    <2> DEFINE x == IF w[n] = NULL THEN NULL ELSE h[w[n]].next
               v == [i \in 0 .. n + 1 |-> IF i = n + 1 THEN x ELSE w[i]]
    <2>2. v[n + 1] = x /\ \A i \in 0 .. n : v[i] = w[i]
      OBVIOUS
    <2>3. ASSUME NEW i \in 0 .. n + 1
          PROVE  v[i] = IF i = 0 THEN f
                        ELSE IF v[i - 1] = NULL THEN NULL ELSE h[v[i - 1]].next
      <3>1. CASE i = n + 1
        BY <2>2, <3>1
      <3>2. CASE i = 0
        BY <2>1, <2>2, <3>2 DEF IsWalk
      <3>3. CASE i # 0 /\ i # n + 1
        <4>1. i \in 0 .. n /\ i - 1 \in 0 .. n /\ v[i] = w[i] /\ v[i - 1] = w[i - 1]
          BY <2>2, <3>3
        <4>2. w[i] = IF w[i - 1] = NULL THEN NULL ELSE h[w[i - 1]].next
          BY <2>1, <3>3, <4>1 DEF IsWalk
        <4> QED
          BY <3>3, <4>1, <4>2
      <3> QED
        BY <3>1, <3>2, <3>3
    <2>4. IsWalk(v, n + 1, h, f)
      BY <2>3 DEF IsWalk
    <2> QED
      BY <2>4
  <1> HIDE DEF G
  <1>3. Nat \subseteq G
    BY <1>1, <1>2, SetInduction
  <1> QED
    BY <1>3 DEF G

Turns == (Hi - Lo) \div SPLIT_MIN

LEMMA TurnsFacts == /\ Turns \in Nat /\ Steps = 0 .. Turns
                    /\ Hi < Lo + Turns * SPLIT_MIN + SPLIT_MIN
  <1> DEFINE d == Hi - Lo
             r == d % SPLIT_MIN
  <1>1. /\ SPLIT_MIN \in Int /\ SPLIT_MIN > 0 /\ d \in Int /\ d > 0
        /\ Hi \in Int /\ Lo \in Int /\ Hi = Lo + d
    BY HeapNumbers
  <1>2. Turns = d \div SPLIT_MIN
    BY DEF Turns
  <1> HIDE DEF d, Turns
  <1>3. Turns \in Int /\ r \in Int /\ 0 <= r /\ r < SPLIT_MIN
    BY <1>1, <1>2, DivModType
  <1>4. d = SPLIT_MIN * Turns + r
    BY <1>1, <1>2, DivMod
  <1> HIDE DEF r
  <1>5. Turns >= 0
    BY <1>1, <1>3, <1>4
  <1>6. Turns * SPLIT_MIN = SPLIT_MIN * Turns
    BY <1>1, <1>3
  <1>7. Steps = 0 .. Turns
    BY DEF Steps, Turns
  <1> QED
    BY <1>1, <1>3, <1>4, <1>5, <1>6, <1>7

LEMMA WalkSteps ==
    ASSUME NEW h, NEW f
    PROVE  \A i \in 0 .. Turns :
             WalkOf(h, f)[i] = IF i = 0 THEN f
                               ELSE IF WalkOf(h, f)[i - 1] = NULL THEN NULL
                                    ELSE h[WalkOf(h, f)[i - 1]].next
  <1>1. \E w : IsWalk(w, Turns, h, f)
    BY TurnsFacts, WalkExists
  <1>2. IsWalk(WalkOf(h, f), Turns, h, f)
    BY <1>1, TurnsFacts DEF WalkOf, IsWalk
  <1> HIDE DEF WalkOf
  <1> QED
    BY <1>2, TurnsFacts DEF IsWalk
\* Between a header and the next there is no header, and after the last none.
LEMMA NextIsNext ==
    ASSUME NEW h, Chain(h), NEW a \in Heads(h), NEW b \in Heads(h), a < b
    PROVE  h[a].next # NULL /\ h[a].next <= b
  <1>1. EndOf(h, a) <= b /\ Linked(h, a) /\ Linked(h, b) /\ a \in Nat /\ b \in Nat
    BY HeapNumbers DEF Chain, Heads
  <1>2. h[a].size \in Nat /\ h[b].size \in Nat /\ h[a].next \in Words
    BY DEF Chain, Headers, Heads
  <1> QED
    BY <1>1, <1>2, HeapNumbers DEF Linked, EndOf

\* After i steps the walk has met every header up to where it is.
Met(h, f, i) ==
    LET w == WalkOf(h, f) IN
    /\ w[i] # NULL => /\ w[i] \in Heads(h)
                      /\ Lo + i * SPLIT_MIN <= w[i]
                      /\ \A b \in Heads(h) : b <= w[i] => \E j \in 0 .. i : w[j] = b
    /\ w[i] = NULL => \A b \in Heads(h) : \E j \in 0 .. i : w[j] = b

LEMMA WalkMeets ==
    ASSUME NEW h, Chain(h)
    PROVE  \A n \in 0 .. Turns : Met(h, Lo, n)
  <1> DEFINE w == WalkOf(h, Lo)
             G == {n \in Nat : n <= Turns => Met(h, Lo, n)}
  <1>1. 0 \in G
    <2>1. w[0] = Lo
      BY WalkSteps, TurnsFacts
    <2>2. \A b \in Heads(h) : b <= Lo => b = Lo
      BY HeapNumbers DEF Chain, Linked, Heads
    <2>3. Lo \in Heads(h) /\ Lo # NULL /\ Lo + 0 * SPLIT_MIN <= Lo
      BY HeapNumbers DEF Chain
    <2>4. Met(h, Lo, 0)
      BY <2>1, <2>2, <2>3 DEF Met
    <2> QED
      BY <2>4
  <1>2. ASSUME NEW n \in Nat, n \in G, n + 1 <= Turns PROVE Met(h, Lo, n + 1)
    <2>1. Met(h, Lo, n) /\ n \in 0 .. Turns /\ n + 1 \in 0 .. Turns /\ 0 .. n \subseteq 0 .. n + 1
      BY <1>2, TurnsFacts
    <2>2. w[n + 1] = IF w[n] = NULL THEN NULL ELSE h[w[n]].next
      BY <2>1, WalkSteps
    <2> HIDE DEF w
    <2>3. CASE w[n] = NULL
      BY <2>1, <2>2, <2>3 DEF Met, w
    <2>4. CASE w[n] # NULL
      <3> DEFINE a == w[n]
      <3>1. /\ a \in Heads(h) /\ Lo + n * SPLIT_MIN <= a /\ a \in Nat
            /\ \A b \in Heads(h) : b <= a => \E j \in 0 .. n : w[j] = b
        BY <2>1, <2>4, HeapNumbers DEF Met, w, Heads
      <3>2. w[n + 1] = h[a].next
        BY <2>2, <2>4
      <3> HIDE DEF a
      <3>3. \A b \in Heads(h) : b <= a \/ (a < b /\ h[a].next # NULL /\ h[a].next <= b)
        <4>1. ASSUME NEW b \in Heads(h), a < b PROVE h[a].next # NULL /\ h[a].next <= b
          BY <3>1, <4>1, NextIsNext
        <4>2. \A b \in Heads(h) : b <= a \/ a < b
          BY <3>1, HeapNumbers DEF Heads
        <4> QED
          BY <4>1, <4>2
      <3>4. CASE h[a].next = NULL
        BY <2>1, <3>1, <3>2, <3>3, <3>4 DEF Met, w
      <3>5. CASE h[a].next # NULL
        <4>1. /\ h[a].next = a + HDR_BYTES + h[a].size /\ h[a].next \in Heads(h)
              /\ HEAP_ALIGN <= h[a].size /\ h[a].size \in Nat
          BY <3>1, <3>5 DEF Chain, Linked, EndOf, Headers, Heads
        <4>2. a + SPLIT_MIN <= h[a].next /\ h[a].next \in Nat
          BY <3>1, <4>1, HeapNumbers
        <4>3. (n + 1) * SPLIT_MIN = n * SPLIT_MIN + SPLIT_MIN /\ n * SPLIT_MIN \in Nat
          BY HeapNumbers
        <4>4. Lo + (n + 1) * SPLIT_MIN <= h[a].next
          BY <3>1, <4>2, <4>3, HeapNumbers
        <4>5. ASSUME NEW b \in Heads(h), b <= h[a].next PROVE \E j \in 0 .. n + 1 : w[j] = b
          <5>1. CASE b <= a
            BY <2>1, <3>1, <5>1
          <5>2. CASE ~(b <= a)
            <6>1. b = h[a].next
              BY <3>3, <4>2, <4>5, <5>2, HeapNumbers DEF Heads
            <6> QED
              BY <3>2, <6>1
          <5> QED
            BY <5>1, <5>2
        <4> QED
          BY <3>2, <3>5, <4>1, <4>4, <4>5 DEF Met, w
      <3> QED
        BY <3>4, <3>5
    <2> QED
      BY <2>3, <2>4
  <1>3. ASSUME NEW n \in Nat, n \in G PROVE n + 1 \in G
    BY <1>2, <1>3
  <1> HIDE DEF G
  <1>4. Nat \subseteq G
    BY <1>1, <1>3, SetInduction
  <1> QED
    BY <1>4, TurnsFacts DEF G

\* The walk from the first block is through exactly the headers there are.
LEMMA BlocksAreHeads == ASSUME NEW h, Chain(h) PROVE BlocksOf(h, Lo) = Heads(h)
  <1> DEFINE w == WalkOf(h, Lo)
  <1>1. Turns \in Nat /\ Turns \in 0 .. Turns /\ Steps = 0 .. Turns
    BY TurnsFacts
  <1>2. w[Turns] = NULL
    <2>1. SUFFICES ASSUME w[Turns] # NULL PROVE FALSE
      OBVIOUS
    <2>2. w[Turns] \in Heads(h) /\ Lo + Turns * SPLIT_MIN <= w[Turns]
      BY <1>1, <2>1, WalkMeets DEF Met
    <2>3. PICK a \in Heads(h) : a = w[Turns]
      BY <2>2
    <2>4. a + HDR_BYTES + h[a].size <= Hi /\ HEAP_ALIGN <= h[a].size /\ h[a].size \in Nat /\ a \in Nat
      BY HeapNumbers DEF Chain, Linked, EndOf, Headers, Heads
    <2>5. Turns * SPLIT_MIN \in Nat
      BY <1>1, HeapNumbers
    <2> QED
      BY <2>2, <2>3, <2>4, <2>5, TurnsFacts, HeapNumbers
  <1>3. \A b \in Heads(h) : \E j \in Steps : w[j] = b
    BY <1>1, <1>2, WalkMeets DEF Met
  <1>4. \A b \in Heads(h) : b # NULL
    BY HeapNumbers DEF Chain, Linked, Heads
  <1>5. \A j \in Steps : w[j] # NULL => w[j] \in Heads(h)
    BY <1>1, WalkMeets DEF Met
  <1> HIDE DEF w
  <1>6. BlocksOf(h, Lo) = {w[i] : i \in Steps} \ {NULL}
    BY DEF BlocksOf, w
  <1> QED
    BY <1>3, <1>4, <1>5, <1>6
-----------------------------------------------------------------------------
(* Sums of sizes.                                                           *)

LEMMA UnitsFinite ==
    ASSUME NEW h, NEW S \in SUBSET Words
    PROVE  IsFiniteSet(Units(h, S)) /\ IsFiniteSet(S) /\ SumOf(h, S) \in Nat
  <1>1. IsFiniteSet(S)
    BY WordsFinite, FS_Subset
  <1>2. IsFiniteSet(1 .. ADDR_MOD)
    BY HeapNumbers, FS_Interval
  <1>3. IsFiniteSet(S \X (1 .. ADDR_MOD))
    BY <1>1, <1>2, FS_Product
  <1>4. Units(h, S) \in SUBSET (S \X (1 .. ADDR_MOD))
    BY DEF Units
  <1>5. IsFiniteSet(Units(h, S))
    BY <1>3, <1>4, FS_Subset
  <1> QED
    BY <1>1, <1>5, FS_CardinalityType DEF SumOf

\* Only the sizes count.
LEMMA SumSame ==
    ASSUME NEW h, NEW k, NEW S, \A a \in S : h[a].size = k[a].size
    PROVE  SumOf(h, S) = SumOf(k, S)
  <1>1. Units(h, S) = Units(k, S)
    BY DEF Units
  <1> QED
    BY <1>1 DEF SumOf

LEMMA SumOfOne ==
    ASSUME NEW h, NEW a \in Words, h[a].size \in 0 .. ADDR_MOD - 1
    PROVE  SumOf(h, {a}) = h[a].size
  <1> DEFINE n == h[a].size
             f == [i \in 1 .. n |-> <<a, i>>]
  <1>1. n \in Nat /\ n < ADDR_MOD /\ ADDR_MOD \in Nat
    BY HeapNumbers
  <1>2. \A i \in 1 .. n : <<a, i>> \in Units(h, {a})
    BY <1>1 DEF Units
  <1>3. \A p \in Units(h, {a}) : p[2] \in 1 .. n /\ p = <<a, p[2]>>
    BY <1>1 DEF Units
  <1> HIDE DEF n
  <1> DEFINE U == Units(h, {a})
  <1>4. f \in Bijection(1 .. n, U)
    <2>1. f \in [1 .. n -> U]
      BY <1>2
    <2>2. \A i, j \in 1 .. n : f[i] = f[j] => i = j
      OBVIOUS
    <2>3. \A p \in U : \E i \in 1 .. n : f[i] = p
      BY <1>3
    <2> HIDE DEF f, U
    <2> QED
      BY <2>1, <2>2, <2>3 DEF Bijection, Injection, Surjection, IsInjective
  <1> HIDE DEF f, U
  <1>5. ExistsBijection(1 .. n, U)
    BY <1>4 DEF ExistsBijection
  <1>6. IsFiniteSet(1 .. n) /\ Cardinality(1 .. n) = n
    <2>1. n \in Int /\ 1 \in Int /\ n - 1 + 1 = n /\ (1 > n => n = 0)
      BY <1>1 DEF n
    <2>2. IsFiniteSet(1 .. n) /\ Cardinality(1 .. n) = IF 1 > n THEN 0 ELSE n - 1 + 1
      BY <2>1, FS_Interval
    <2> QED
      BY <2>1, <2>2
  <1> QED
    BY <1>5, <1>6, FS_Bijection DEF SumOf, n, U

LEMMA CardOfUnion ==
    ASSUME NEW S, NEW T, IsFiniteSet(S), IsFiniteSet(T), S \cap T = {}
    PROVE  Cardinality(S \cup T) = Cardinality(S) + Cardinality(T)
  <1>1. Cardinality(S) \in Nat /\ Cardinality(T) \in Nat
    BY FS_CardinalityType
  <1>2. Cardinality(S \cup T) = Cardinality(S) + Cardinality(T) - Cardinality(S \cap T)
    BY FS_Union
  <1> QED
    BY <1>1, <1>2, FS_EmptySet

LEMMA SumOfUnion ==
    ASSUME NEW h, NEW S \in SUBSET Words, NEW T \in SUBSET Words, S \cap T = {}
    PROVE  SumOf(h, S \cup T) = SumOf(h, S) + SumOf(h, T)
  <1>1. Units(h, S \cup T) = Units(h, S) \cup Units(h, T)
    BY DEF Units
  <1>2. Units(h, S) \cap Units(h, T) = {}
    BY DEF Units
  <1>3. IsFiniteSet(Units(h, S)) /\ IsFiniteSet(Units(h, T))
    BY UnitsFinite
  <1> QED
    BY <1>1, <1>2, <1>3, CardOfUnion DEF SumOf

\* One block more.
LEMMA SumAdd ==
    ASSUME NEW h, NEW S \in SUBSET Words, NEW a \in Words, a \notin S,
           h[a].size \in 0 .. ADDR_MOD - 1
    PROVE  SumOf(h, S \cup {a}) = SumOf(h, S) + h[a].size
  <1>1. {a} \in SUBSET Words /\ S \cap {a} = {}
    OBVIOUS
  <1>2. SumOf(h, S \cup {a}) = SumOf(h, S) + SumOf(h, {a})
    BY <1>1, SumOfUnion
  <1> QED
    BY <1>2, SumOfOne

\* One block less.
LEMMA SumTake ==
    ASSUME NEW h, NEW S \in SUBSET Words, NEW a \in S, h[a].size \in 0 .. ADDR_MOD - 1
    PROVE  SumOf(h, S) = SumOf(h, S \ {a}) + h[a].size
  <1>1. S = (S \ {a}) \cup {a}
    OBVIOUS
  <1> QED
    BY <1>1, SumAdd

LEMMA SumOfNone == ASSUME NEW h PROVE SumOf(h, {}) = 0
  <1>1. Units(h, {}) = {}
    BY DEF Units
  <1> QED
    BY <1>1, FS_EmptySet DEF SumOf

\* The fold of heap_check, by any choice of the next block, is that sum.
LEMMA FoldIsSum ==
    ASSUME NEW S \in SUBSET Words, hdr \in Headers
    PROVE  MapThenSumSet(Size, S) = SumOf(hdr, S)
  <1> DEFINE Is(g) == g = [s \in SUBSET S |-> IF s = {} THEN 0
                               ELSE Size(CHOOSE x \in s : TRUE) + g[s \ {CHOOSE x \in s : TRUE}]]
             sum == [s \in SUBSET S |-> SumOf(hdr, s)]
             iter == CHOOSE g : Is(g)
  <1>1. MapThenSumSet(Size, S) = iter[S]
    BY DEF MapThenSumSet, MapThenFoldSet
  <1>2. ASSUME NEW s \in SUBSET S, s # {}
        PROVE  /\ (CHOOSE x \in s : TRUE) \in s
               /\ SumOf(hdr, s) = Size(CHOOSE x \in s : TRUE)
                                  + SumOf(hdr, s \ {CHOOSE x \in s : TRUE})
    <2>1. PICK c : c = CHOOSE x \in s : TRUE
      OBVIOUS
    <2>2. c \in s
      BY <1>2, <2>1
    <2>3. hdr[c].size \in 0 .. ADDR_MOD - 1 /\ c \in Words /\ s \in SUBSET Words
      BY <2>2 DEF Headers
    <2>4. SumOf(hdr, s) = SumOf(hdr, s \ {c}) + hdr[c].size
      BY <2>2, <2>3, SumTake
    <2>5. SumOf(hdr, s \ {c}) \in Nat /\ hdr[c].size \in Nat
      BY <2>3, UnitsFinite
    <2> QED
      BY <2>1, <2>2, <2>4, <2>5 DEF Size
  <1>3. Is(sum)
    <2>1. ASSUME NEW s \in SUBSET S
          PROVE  sum[s] = IF s = {} THEN 0
                          ELSE Size(CHOOSE x \in s : TRUE) + sum[s \ {CHOOSE x \in s : TRUE}]
      <3>1. CASE s = {}
        BY <3>1, SumOfNone
      <3>2. CASE s # {}
        BY <1>2, <3>2
      <3> QED
        BY <3>1, <3>2
    <2> QED
      BY <2>1
  <1>4. Is(iter)
    <2> HIDE DEF Is
    <2> QED
      BY <1>3
  <1> DEFINE G == {s \in SUBSET S : iter[s] = SumOf(hdr, s)}
  <1> HIDE DEF iter
  <1>5. ASSUME NEW s \in SUBSET S, \A x \in s : s \ {x} \in G
        PROVE  s \in G
    <2>1. CASE s = {}
      BY <1>4, <2>1, SumOfNone
    <2>2. CASE s # {}
      BY <1>2, <1>4, <1>5, <2>2
    <2> QED
      BY <2>1, <2>2
  <1> HIDE DEF G
  <1>6. SUBSET S \subseteq G
    BY <1>5, UnitsFinite, SubsetInduction
  <1> QED
    BY <1>1, <1>6 DEF G
-----------------------------------------------------------------------------
(* What the chain says of its headers.                                      *)

LEMMA ChainFacts ==
    ASSUME NEW h, Chain(h), NEW a \in Heads(h)
    PROVE  /\ a \in Words /\ a \in Nat /\ Lo <= a /\ a # NULL
           /\ h[a].size \in Nat /\ h[a].size \in 0 .. ADDR_MOD - 1
           /\ h[a].size % HEAP_ALIGN = 0 /\ HEAP_ALIGN <= h[a].size
           /\ a + HDR_BYTES + h[a].size <= Hi
           /\ h[a].prev \in Words /\ h[a].next \in Words
           /\ a % HEAP_ALIGN = 0
           /\ h[a] \in [prev : Words, next : Words, size : 0 .. ADDR_MOD - 1,
                        magic : {"none", "free", "used"}]
  <1>1. a \in Words /\ a \in Nat /\ h \in Headers /\ Linked(h, a)
    BY HeapNumbers DEF Chain, Heads
  <1>2. h[a] \in [prev : Words, next : Words, size : 0 .. ADDR_MOD - 1,
                  magic : {"none", "free", "used"}]
    BY <1>1 DEF Headers
  <1>3. h[a].size \in Nat /\ h[a].prev \in Words /\ h[a].next \in Words
        /\ h[a].size \in 0 .. ADDR_MOD - 1
    BY <1>2
  <1> QED
    BY <1>1, <1>2, <1>3, HeapNumbers DEF Linked, EndOf, Words

LEMMA ChainNext ==
    ASSUME NEW h, Chain(h), NEW a \in Heads(h), h[a].next # NULL
    PROVE  /\ h[a].next = a + HDR_BYTES + h[a].size /\ h[a].next \in Heads(h)
           /\ h[h[a].next].prev = a /\ a < h[a].next
  BY ChainFacts, HeapNumbers DEF Chain, Linked, EndOf

LEMMA ChainPrev ==
    ASSUME NEW h, Chain(h), NEW a \in Heads(h), h[a].prev # NULL
    PROVE  /\ h[a].prev \in Heads(h) /\ h[h[a].prev].next = a /\ h[a].prev < a
  <1>1. h[a].prev \in Heads(h) /\ h[h[a].prev].next = a /\ a # NULL
    BY ChainFacts DEF Chain, Linked
  <1> QED
    BY <1>1, ChainNext

\* All that is in the blocks is in the region, a header short of it.
LEMMA SumInRegion ==
    ASSUME NEW h, Chain(h), NEW S \in SUBSET Heads(h)
    PROVE  SumOf(h, S) \in 0 .. Hi - Lo - HDR_BYTES
  <1> DEFINE U == Units(h, S)
             R == Lo + HDR_BYTES + 1 .. Hi
             f == [p \in U |-> p[1] + HDR_BYTES + p[2]]
  <1>1. S \in SUBSET Words
    BY DEF Heads
  <1>2. \A p \in U : /\ p[1] \in Heads(h) /\ p[2] \in Nat /\ 1 <= p[2] /\ p[2] <= h[p[1]].size
                     /\ p = <<p[1], p[2]>>
    BY HeapNumbers DEF Units
  <1>3. \A p \in U : p[1] + HDR_BYTES + p[2] \in R
    BY <1>2, ChainFacts, HeapNumbers
  <1>4. ASSUME NEW p \in U, NEW q \in U, f[p] = f[q] PROVE p = q
    <2>1. p[1] + HDR_BYTES + p[2] = q[1] + HDR_BYTES + q[2]
      BY <1>4
    <2>2. /\ p[1] \in Heads(h) /\ p[2] \in Nat /\ 1 <= p[2] /\ p[2] <= h[p[1]].size
          /\ q[1] \in Heads(h) /\ q[2] \in Nat /\ 1 <= q[2] /\ q[2] <= h[q[1]].size
          /\ p = <<p[1], p[2]>> /\ q = <<q[1], q[2]>>
      BY <1>2
    <2>3. /\ p[1] < q[1] => p[1] + HDR_BYTES + h[p[1]].size <= q[1]
          /\ q[1] < p[1] => q[1] + HDR_BYTES + h[q[1]].size <= p[1]
      BY <2>2 DEF Chain, EndOf
    <2>4. /\ p[1] \in Nat /\ q[1] \in Nat /\ h[p[1]].size \in Nat /\ h[q[1]].size \in Nat
      BY <2>2, ChainFacts
    <2>5. p[1] = q[1] /\ p[2] = q[2]
      BY <2>1, <2>2, <2>3, <2>4, HeapNumbers
    <2> QED
      BY <2>2, <2>5
  <1>5. f \in Injection(U, R)
    <2>1. f \in [U -> R]
      BY <1>3
    <2> HIDE DEF f, U, R
    <2> QED
      BY <1>4, <2>1 DEF Injection, IsInjective
  <1>6. IsFiniteSet(R) /\ Cardinality(R) = Hi - Lo - HDR_BYTES
    <2>1. /\ Lo + HDR_BYTES + 1 \in Int /\ Hi \in Int /\ ~(Lo + HDR_BYTES + 1 > Hi)
          /\ Hi - (Lo + HDR_BYTES + 1) + 1 = Hi - Lo - HDR_BYTES
      BY HeapNumbers
    <2>2. /\ IsFiniteSet(R)
          /\ Cardinality(R) = IF Lo + HDR_BYTES + 1 > Hi THEN 0 ELSE Hi - (Lo + HDR_BYTES + 1) + 1
      BY <2>1, FS_Interval
    <2> QED
      BY <2>1, <2>2
  <1> HIDE DEF f, R
  <1>7. Cardinality(U) <= Cardinality(R)
    BY <1>5, <1>6, FS_Injection
  <1>8. Cardinality(U) \in Nat
    BY <1>1, UnitsFinite DEF SumOf
  <1> QED
    BY <1>6, <1>7, <1>8, HeapNumbers DEF SumOf

-----------------------------------------------------------------------------
(* The invariant gives what heap_check tests.                               *)

LEMMA HeapBlocks == HeapInv => Blocks = Heads(hdr)
  <1> SUFFICES ASSUME HeapInv PROVE Blocks = Heads(hdr)
    OBVIOUS
  <1>1. Chain(hdr) /\ g_first = Lo
    BY DEF HeapInv
  <1>2. Blocks = BlocksOf(hdr, g_first)
    BY DEF Blocks, Walk, BlocksOf, WalkOf
  <1> QED
    BY <1>1, <1>2, BlocksAreHeads

LEMMA HeapInvSound == HeapInv => HeapSound
  <1> SUFFICES ASSUME HeapInv PROVE HeapSound
    OBVIOUS
  <1>1. Blocks = Heads(hdr)
    BY HeapBlocks
  <1>2. Used = UsedOf(hdr) /\ UsedOf(hdr) \subseteq Heads(hdr)
    BY <1>1 DEF Used, UsedOf, Heads
  <1>3. Chain(hdr) /\ NoneJoinable(hdr) /\ g_first = Lo /\ hdr \in Headers
    BY DEF HeapInv, Chain
  <1>4. TypeOK
    <2>1. g_total \in 0 .. Hi - Lo - HDR_BYTES /\ g_used \in 0 .. Hi - Lo - HDR_BYTES
      BY <1>2, <1>3, SumInRegion DEF HeapInv
    <2>2. 0 .. Hi - Lo - HDR_BYTES \subseteq 0 .. ADDR_MOD - 1
      BY HeapNumbers
    <2>3. want \in [Callers -> 0 .. ADDR_MOD - 1]
      BY <2>2 DEF HeapInv
    <2> QED
      BY <1>3, <2>1, <2>2, <2>3, HeapNumbers DEF TypeOK, Headers
  <1>5. ASSUME NEW a \in Heads(hdr)
        PROVE  /\ hdr[a].magic # "none"
               /\ hdr[a].prev = NULL <=> a = g_first
               /\ hdr[a].next # NULL => hdr[hdr[a].next].prev = a
               /\ hdr[a].size % HEAP_ALIGN = 0
               /\ BlockEnd(a) = IF hdr[a].next = NULL THEN Hi ELSE hdr[a].next
               /\ ~Joinable(hdr, a)
    BY <1>3 DEF Chain, Linked, EndOf, BlockEnd, Heads, NoneJoinable
  <1>6. g_used = MapThenSumSet(Size, Used) /\ g_total = MapThenSumSet(Size, Blocks)
    <2>1. UsedOf(hdr) \in SUBSET Words /\ Heads(hdr) \in SUBSET Words
      BY DEF UsedOf, Heads
    <2>2. MapThenSumSet(Size, UsedOf(hdr)) = SumOf(hdr, UsedOf(hdr))
      BY <1>3, <2>1, FoldIsSum
    <2>3. MapThenSumSet(Size, Heads(hdr)) = SumOf(hdr, Heads(hdr))
      BY <1>3, <2>1, FoldIsSum
    <2> QED
      BY <1>1, <1>2, <2>2, <2>3 DEF HeapInv
  <1>7. HeapCheck
    BY <1>1, <1>3, <1>5, <1>6 DEF HeapCheck
  <1>8. ASSUME Used = {} PROVE Blocks = {Lo} /\ hdr[Lo].size = Hi - Lo - HDR_BYTES
    <2>1. \A a \in Heads(hdr) : hdr[a].magic = "free"
      BY <1>2, <1>3, <1>8 DEF Heads, UsedOf, Headers
    <2>2. Lo \in Heads(hdr)
      BY <1>3 DEF Chain
    <2>3. hdr[Lo].next = NULL
      <3>1. hdr[Lo].next # NULL => hdr[Lo].next \in Heads(hdr)
        BY <1>3, <2>2, ChainNext
      <3>2. ~Joinable(hdr, Lo)
        BY <1>3, <2>2 DEF NoneJoinable
      <3> QED
        BY <2>1, <2>2, <3>1, <3>2 DEF Joinable
    <2>4. ASSUME NEW b \in Heads(hdr) PROVE b = Lo
      <3>1. ~(Lo < b)
        BY <1>3, <2>2, <2>3, NextIsNext
      <3>2. b \in Nat /\ Lo <= b
        BY <1>3, ChainFacts
      <3> QED
        BY <3>1, <3>2, HeapNumbers
    <2>5. Lo + HDR_BYTES + hdr[Lo].size = Hi /\ hdr[Lo].size \in Nat
      BY <1>3, <2>2, <2>3, ChainFacts DEF Chain, Linked, EndOf
    <2>6. Heads(hdr) = {Lo}
      BY <2>2, <2>4
    <2>7. hdr[Lo].size = Hi - Lo - HDR_BYTES
      BY <2>5, HeapNumbers
    <2> QED
      BY <1>1, <2>6, <2>7
  <1> QED
    BY <1>4, <1>7, <1>8 DEF HeapSound, NoLeak
-----------------------------------------------------------------------------
(* Coalescing.                                                              *)

\* The headers, field by field, once a has swallowed its neighbour.
LEMMA Swallowed ==
    ASSUME NEW h, Chain(h), NEW a \in Heads(h), Joinable(h, a)
    PROVE  LET n == h[a].next
               m == h[n].next
               k == coalesce_with_next(h, a)
           IN  /\ n \in Heads(h) /\ n # a /\ m # n /\ m # a /\ m \in Words /\ n \in Words
               /\ m # NULL => m \in Heads(h)
               /\ k \in Headers
               /\ \A u \in Words :
                   /\ k[u].size = IF u = n THEN 0
                                  ELSE IF u = a THEN h[a].size + HDR_BYTES + h[n].size
                                  ELSE h[u].size
                   /\ k[u].magic = IF u = n THEN "none" ELSE h[u].magic
                   /\ k[u].next = IF u = n THEN NULL ELSE IF u = a THEN m ELSE h[u].next
                   /\ k[u].prev = IF u = n THEN NULL
                                  ELSE IF u = m /\ m # NULL THEN a ELSE h[u].prev
  <1> DEFINE n == h[a].next
             m == h[n].next
             k == coalesce_with_next(h, a)
             Rec == [prev : Words, next : Words, size : 0 .. ADDR_MOD - 1,
                     magic : {"none", "free", "used"}]
             joined == [h EXCEPT ![a].size = @ + HDR_BYTES + h[n].size,
                                 ![a].next = h[n].next, ![n] = NoHeader]
             total == h[a].size + HDR_BYTES + h[n].size
  <1>1. /\ n # NULL /\ n \in Heads(h) /\ a < n /\ n = a + HDR_BYTES + h[a].size
        /\ a \in Nat /\ a \in Words /\ n \in Nat /\ n \in Words
        /\ a # NULL
    BY ChainNext, ChainFacts DEF Joinable
  <1>2. m # NULL => m \in Heads(h) /\ n < m
    BY <1>1, ChainNext
  <1>3. m \in Words /\ m \in Nat /\ NoHeader \in Rec /\ h \in [Words -> Rec] /\ h[a] \in Rec
    <2>1. m \in Words
      BY <1>1, ChainFacts
    <2>2. m \in Nat
      BY <2>1, HeapNumbers
    <2>3. NoHeader \in Rec
      BY HeapNumbers DEF NoHeader
    <2>4. h \in [Words -> Rec] /\ h[a] \in Rec
      BY <1>1 DEF Chain, Headers
    <2> QED
      BY <2>1, <2>2, <2>3, <2>4
  <1>4. total \in 0 .. ADDR_MOD - 1
    <2>1. h[a].size \in Nat /\ h[n].size \in Nat /\ n + HDR_BYTES + h[n].size <= Hi
      BY <1>1, ChainFacts
    <2> QED
      BY <1>1, <2>1, HeapNumbers
  <1>5. n # a /\ m # n /\ m # a
    BY <1>1, <1>2, <1>3
  <1>6. k = IF m = NULL THEN joined ELSE [joined EXCEPT ![m].prev = a]
    BY DEF coalesce_with_next
  <1> HIDE DEF n, m, k
  <1>7. /\ joined \in [Words -> Rec]
        /\ joined[n] = NoHeader
        /\ joined[a] = [h[a] EXCEPT !.size = total, !.next = m]
        /\ \A u \in Words : u # n /\ u # a => joined[u] = h[u]
    BY <1>1, <1>3, <1>4, <1>5 DEF m
  <1>8. joined[a].size = total /\ joined[a].next = m /\ joined[a].prev = h[a].prev
        /\ joined[a].magic = h[a].magic
    <2> HIDE DEF joined, total
    <2> QED
      BY <1>3, <1>7
  <1> HIDE DEF joined, total
  <1>9. \A u \in Words :
           /\ joined[u].size = IF u = n THEN 0 ELSE IF u = a THEN total ELSE h[u].size
           /\ joined[u].magic = IF u = n THEN "none" ELSE h[u].magic
           /\ joined[u].next = IF u = n THEN NULL ELSE IF u = a THEN m ELSE h[u].next
           /\ joined[u].prev = IF u = n THEN NULL ELSE h[u].prev
    <2>1. /\ NoHeader.size = 0 /\ NoHeader.magic = "none" /\ NoHeader.next = NULL
          /\ NoHeader.prev = NULL
      BY DEF NoHeader
    <2> HIDE DEF Rec
    <2> QED
      BY <1>5, <1>7, <1>8, <2>1
  <1>10. /\ k \in [Words -> Rec]
         /\ \A u \in Words :
             /\ k[u].size = joined[u].size /\ k[u].magic = joined[u].magic
             /\ k[u].next = joined[u].next
             /\ k[u].prev = IF u = m /\ m # NULL THEN a ELSE joined[u].prev
    <2>1. CASE m = NULL
      BY <1>6, <1>7, <2>1
    <2>2. CASE m # NULL
      BY <1>1, <1>3, <1>6, <1>7, <2>2
    <2> QED
      BY <2>1, <2>2
  <1>11. \A u \in Words :
           /\ k[u].size = IF u = n THEN 0 ELSE IF u = a THEN total ELSE h[u].size
           /\ k[u].magic = IF u = n THEN "none" ELSE h[u].magic
           /\ k[u].next = IF u = n THEN NULL ELSE IF u = a THEN m ELSE h[u].next
           /\ k[u].prev = IF u = n THEN NULL ELSE IF u = m /\ m # NULL THEN a ELSE h[u].prev
    BY <1>5, <1>9, <1>10
  <1> QED
    BY <1>1, <1>2, <1>3, <1>5, <1>10, <1>11 DEF n, m, k, total, Headers
\* Coalescing keeps the chain, the live blocks and their sizes; it adds the header it
\* swallows to the total; and it makes no other pair of neighbours joinable.
LEMMA Coalesced ==
    ASSUME NEW h, Chain(h), NEW a \in Heads(h)
    PROVE  LET k == coalesce_with_next(h, a) IN
           /\ Chain(k) /\ a \in Heads(k) /\ Heads(k) \subseteq Heads(h)
           /\ UsedOf(k) = UsedOf(h) /\ \A u \in UsedOf(h) : k[u].size = h[u].size
           /\ SumOf(k, Heads(k)) = SumOf(h, Heads(h)) + Joins(h, a)
           /\ \A u \in Heads(k) : u # a /\ ~Joinable(h, u) => ~Joinable(k, u)
           /\ (Joinable(h, a) => ~Joinable(h, h[a].next)) => ~Joinable(k, a)
           /\ k[a].prev = h[a].prev /\ k[a].magic = h[a].magic
           /\ \A u \in Heads(h) : u < a => k[u].next = h[u].next
  <1> DEFINE n == h[a].next
             m == h[n].next
             k == coalesce_with_next(h, a)
  <1>1. CASE ~Joinable(h, a)
    <2>1. k = h
      BY <1>1 DEF coalesce_with_next
    <2>2. SumOf(h, Heads(h)) \in Nat /\ Joins(h, a) = 0
      BY <1>1, UnitsFinite DEF Heads, Joins
    <2> QED
      BY <1>1, <2>1, <2>2
  <1>2. CASE Joinable(h, a)
    <2>1. /\ n \in Heads(h) /\ n # a /\ m # n /\ m # a /\ m \in Words /\ n \in Words
          /\ m # NULL => m \in Heads(h)
          /\ k \in Headers
      BY <1>2, Swallowed
    <2>2. \A u \in Words :
           /\ k[u].size = IF u = n THEN 0
                          ELSE IF u = a THEN h[a].size + HDR_BYTES + h[n].size ELSE h[u].size
           /\ k[u].magic = IF u = n THEN "none" ELSE h[u].magic
           /\ k[u].next = IF u = n THEN NULL ELSE IF u = a THEN m ELSE h[u].next
           /\ k[u].prev = IF u = n THEN NULL ELSE IF u = m /\ m # NULL THEN a ELSE h[u].prev
      BY <1>2, Swallowed
    <2>3. /\ h[a].next = n /\ h[n].next = m /\ n # NULL /\ h[a].magic = "free"
          /\ h[n].magic = "free"
      BY <1>2 DEF Joinable
    <2>4. /\ n = a + HDR_BYTES + h[a].size /\ h[n].prev = a /\ a < n
          /\ m # NULL => m = n + HDR_BYTES + h[n].size /\ h[m].prev = n /\ n < m
      BY <2>1, <2>3, ChainNext
    <2>5. a \in Words /\ a \in Nat /\ n \in Nat /\ h[a].size \in Nat /\ h[n].size \in Nat
          /\ a # NULL
      BY <2>1, ChainFacts
    <2> HIDE DEF n, m, k
    <2>6. Heads(k) = Heads(h) \ {n} /\ a \in Heads(k)
      BY <2>1, <2>2 DEF Heads
    <2>7. \A u \in Heads(k) : EndOf(k, u) = IF u = a THEN EndOf(h, n) ELSE EndOf(h, u)
      BY <2>2, <2>4, <2>5, <2>6, HeapNumbers DEF EndOf, Heads
    <2>8. \A u, v \in Heads(k) : u < v => EndOf(k, u) <= v
      <3> SUFFICES ASSUME NEW u \in Heads(k), NEW v \in Heads(k), u < v PROVE EndOf(k, u) <= v
        OBVIOUS
      <3>1. u \in Heads(h) /\ v \in Heads(h) /\ v # n /\ u # n
        BY <2>6
      <3>2. CASE u = a
        <4>1. EndOf(h, a) = n
          BY <2>4 DEF EndOf
        <4>2. n <= v
          BY <3>1, <3>2, <4>1 DEF Chain
        <4>3. n < v
          <5>1. v \in Nat
            BY <3>1, ChainFacts
          <5> QED
            BY <2>5, <3>1, <4>2, <5>1
        <4>4. EndOf(h, n) <= v
          BY <2>1, <3>1, <4>3 DEF Chain
        <4> QED
          BY <2>7, <3>2, <4>4
      <3>3. CASE u # a
        BY <2>7, <3>1, <3>3 DEF Chain
      <3> QED
        BY <3>2, <3>3
    <2>9. ASSUME NEW u \in Heads(k) PROVE Linked(k, u)
      <3>1. u \in Heads(h) /\ u # n /\ u \in Words /\ u # NULL
        BY <2>6, ChainFacts
      <3>2. Linked(h, u) /\ Linked(h, n)
        BY <2>1, <3>1 DEF Chain
      <3>3. /\ Lo <= u /\ EndOf(k, u) <= Hi
        BY <2>7, <3>1, <3>2, <3>3 DEF Linked
      <3>4. k[u].size % HEAP_ALIGN = 0 /\ HEAP_ALIGN <= k[u].size
        <4>1. CASE u = a
          <5>1. /\ h[a].size % HEAP_ALIGN = 0 /\ h[n].size % HEAP_ALIGN = 0
                /\ HDR_BYTES % HEAP_ALIGN = 0 /\ HEAP_ALIGN <= h[a].size
            BY <2>1, ChainFacts, HeapNumbers
          <5>2. h[a].size \in Int /\ HDR_BYTES \in Int /\ h[a].size + HDR_BYTES \in Int
                /\ h[n].size \in Int
            BY <2>5, HeapNumbers
          <5>6. (h[a].size + HDR_BYTES) % HEAP_ALIGN = 0
            BY <5>1, <5>2, Aligned
          <5>3. (h[a].size + HDR_BYTES + h[n].size) % HEAP_ALIGN = 0
            BY <5>1, <5>2, <5>6, Aligned
          <5>4. k[u].size = h[a].size + HDR_BYTES + h[n].size
            BY <2>2, <3>1, <4>1
          <5>5. HEAP_ALIGN <= h[a].size + HDR_BYTES + h[n].size
            BY <2>5, <5>1, HeapNumbers
          <5> QED
            BY <5>3, <5>4, <5>5
        <4>2. CASE u # a
          BY <2>2, <3>1, <3>2, <4>2 DEF Linked
        <4> QED
          BY <4>1, <4>2
      <3>5. k[u].prev = NULL <=> u = Lo
        <4>1. CASE u = m /\ m # NULL
          BY <2>2, <2>4, <2>3, <2>5, <3>1, <3>2, <4>1 DEF Linked
        <4>2. CASE ~(u = m /\ m # NULL)
          BY <2>2, <3>1, <3>2, <4>2 DEF Linked
        <4> QED
          BY <4>1, <4>2
      <3>6. k[u].prev # NULL => k[u].prev \in Heads(k) /\ k[k[u].prev].next = u
        <4>1. CASE u = m /\ m # NULL
          BY <2>1, <2>2, <2>5, <2>6, <3>1, <4>1
        <4>2. CASE ~(u = m /\ m # NULL)
          <5>1. k[u].prev = h[u].prev
            BY <2>2, <3>1, <4>2
          <5>2. SUFFICES ASSUME h[u].prev # NULL
                         PROVE  h[u].prev \in Heads(k) /\ k[h[u].prev].next = u
            BY <5>1
          <5>3. h[u].prev \in Heads(h) /\ h[h[u].prev].next = u /\ h[u].prev \in Words
            BY <3>1, <5>2, ChainPrev, ChainFacts
          <5>4. h[u].prev # n /\ h[u].prev # a
            BY <2>3, <3>1, <4>2, <5>3
          <5> QED
            BY <2>2, <2>6, <5>3, <5>4
        <4> QED
          BY <4>1, <4>2
      <3>7. k[u].next = NULL => EndOf(k, u) = Hi
        <4>1. CASE u = a
          BY <2>2, <2>3, <2>7, <3>1, <3>2, <4>1 DEF Linked
        <4>2. CASE u # a
          BY <2>2, <2>7, <3>1, <3>2, <4>2 DEF Linked
        <4> QED
          BY <4>1, <4>2
      <3>8. k[u].next # NULL => /\ k[u].next = EndOf(k, u) /\ k[u].next \in Heads(k)
                                /\ k[k[u].next].prev = u
        <4>1. CASE u = a
          BY <2>1, <2>2, <2>3, <2>6, <2>7, <3>1, <3>2, <4>1 DEF Linked
        <4>2. CASE u # a
          <5>1. k[u].next = h[u].next /\ EndOf(k, u) = EndOf(h, u)
            BY <2>2, <2>7, <3>1, <4>2
          <5>2. SUFFICES ASSUME h[u].next # NULL
                         PROVE  /\ h[u].next = EndOf(h, u) /\ h[u].next \in Heads(k)
                                /\ k[h[u].next].prev = u
            BY <5>1
          <5>3. /\ h[u].next \in Heads(h) /\ h[u].next = EndOf(h, u) /\ h[h[u].next].prev = u
                /\ h[u].next \in Words
            BY <3>1, <3>2, <5>2, ChainFacts DEF Linked
          <5>4. h[u].next # n /\ (m # NULL => h[u].next # m)
            BY <2>4, <3>1, <4>2, <5>3
          <5> QED
            BY <2>2, <2>6, <5>2, <5>3, <5>4
        <4> QED
          BY <4>1, <4>2
      <3> QED
        BY <3>3, <3>4, <3>5, <3>6, <3>7, <3>8 DEF Linked
    <2>10. Chain(k)
      <3>1. Lo \in Heads(k)
        BY <2>4, <2>5, <2>6, ChainFacts, HeapNumbers DEF Chain
      <3> QED
        BY <2>1, <2>8, <2>9, <3>1 DEF Chain
    <2>11. UsedOf(k) = UsedOf(h) /\ \A u \in UsedOf(h) : k[u].size = h[u].size
      BY <2>1, <2>2, <2>3 DEF UsedOf
    <2>12. SumOf(k, Heads(k)) = SumOf(h, Heads(h)) + Joins(h, a)
      <3> DEFINE S == (Heads(h) \ {n}) \ {a}
      <3>1. S \in SUBSET Words /\ Heads(h) \in SUBSET Words /\ Heads(h) \ {n} \in SUBSET Words
        BY DEF Heads
      <3>2. SumOf(h, Heads(h)) = SumOf(h, Heads(h) \ {n}) + h[n].size
        BY <2>1, <3>1, ChainFacts, SumTake
      <3>3. SumOf(h, Heads(h) \ {n}) = SumOf(h, S) + h[a].size
        BY <2>1, <3>1, ChainFacts, SumTake
      <3>4. SumOf(k, Heads(k)) = SumOf(k, S) + k[a].size
        BY <2>6, <2>10, <3>1, ChainFacts, SumTake
      <3>5. SumOf(k, S) = SumOf(h, S)
        <4>1. \A u \in S : k[u].size = h[u].size
          BY <2>2, <3>1
        <4> QED
          BY <4>1, SumSame
      <3>6. k[a].size = h[a].size + HDR_BYTES + h[n].size /\ SumOf(h, S) \in Nat
        BY <2>1, <2>2, <2>5, <3>1, UnitsFinite
      <3>7. Joins(h, a) = HDR_BYTES
        BY <1>2 DEF Joins
      <3> HIDE DEF S
      <3> QED
        BY <2>5, <3>2, <3>3, <3>4, <3>5, <3>6, <3>7, HeapNumbers
    <2>13. ASSUME NEW u \in Heads(k), u # a, Joinable(k, u) PROVE Joinable(h, u)
      <3>1. u \in Heads(h) /\ u # n /\ u \in Words
        BY <2>6, <2>13 DEF Heads
      <3>2. k[u].next = h[u].next /\ k[u].magic = h[u].magic /\ h[u].next \in Words
        BY <2>2, <2>13, <3>1, ChainFacts
      <3> QED
        BY <2>2, <2>13, <3>2 DEF Joinable
    <2>14. ASSUME ~Joinable(h, n) PROVE ~Joinable(k, a)
      BY <2>1, <2>2, <2>3, <2>5, <2>14 DEF Joinable
    <2>15. k[a].prev = h[a].prev /\ k[a].magic = h[a].magic
      BY <2>1, <2>2, <2>5
    <2>16. ASSUME NEW u \in Heads(h), u < a PROVE k[u].next = h[u].next
      BY <2>2, <2>4, <2>5, <2>16, ChainFacts
    <2> QED
      BY <1>2, <2>6, <2>10, <2>11, <2>12, <2>13, <2>14, <2>15, <2>16 DEF n, k
  <1> QED
    BY <1>1, <1>2
-----------------------------------------------------------------------------
(* Splitting.                                                               *)

CanSplit(a, n) ==
    /\ Chain(hdr) /\ a \in Heads(hdr) /\ hdr[a].magic = "free"
    /\ n \in Nat /\ n % HEAP_ALIGN = 0 /\ HEAP_ALIGN <= n
    /\ SPLIT_MIN <= hdr[a].size - n

\* The headers, field by field, once a is cut to n bytes.
LEMMA Cut ==
    ASSUME NEW a, NEW n, CanSplit(a, n)
    PROVE  LET t == a + HDR_BYTES + n
               x == hdr[a].next
               k == Split(a, n)
           IN  /\ t \in Words /\ t \notin Heads(hdr) /\ t # NULL /\ a < t
               /\ x # NULL => t < x
               /\ k \in Headers
               /\ \A u \in Words :
                   /\ k[u].size = IF u = t THEN hdr[a].size - n - HDR_BYTES
                                  ELSE IF u = a THEN n ELSE hdr[u].size
                   /\ k[u].magic = IF u = t THEN "free" ELSE IF u = a THEN "used"
                                   ELSE hdr[u].magic
                   /\ k[u].next = IF u = t THEN x ELSE IF u = a THEN t ELSE hdr[u].next
                   /\ k[u].prev = IF u = t THEN a ELSE IF u = x /\ x # NULL THEN t
                                  ELSE hdr[u].prev
  <1> DEFINE t == a + HDR_BYTES + n
             x == hdr[a].next
             k == Split(a, n)
             tail == hdr[a].size - n - HDR_BYTES
             Rec == [prev : Words, next : Words, size : 0 .. ADDR_MOD - 1,
                     magic : {"none", "free", "used"}]
             g == [hdr EXCEPT ![t] = [prev |-> a, next |-> hdr[a].next, magic |-> "free",
                                      size |-> hdr[a].size - n - HDR_BYTES],
                              ![a] = [@ EXCEPT !.next = t, !.size = n, !.magic = "used"]]
  <1> USE DEF CanSplit
  <1>1. /\ a \in Words /\ a \in Nat /\ hdr[a].size \in Nat /\ a + HDR_BYTES + hdr[a].size <= Hi
        /\ hdr[a] \in Rec /\ a % HEAP_ALIGN = 0 /\ x \in Words /\ hdr \in [Words -> Rec]
    BY ChainFacts DEF Chain, Headers
  <1>2. x # NULL => x = a + HDR_BYTES + hdr[a].size /\ x \in Heads(hdr) /\ x \in Nat
    BY ChainNext, ChainFacts
  <1>3. t \in Nat /\ t <= Hi /\ a < t /\ t # NULL /\ (x # NULL => t < x)
    BY <1>1, <1>2, HeapNumbers
  <1>4. t \in Words
    <2>1. a \in Int /\ HDR_BYTES \in Int /\ n \in Int /\ a + HDR_BYTES \in Int
          /\ HDR_BYTES % HEAP_ALIGN = 0
      BY <1>1, HeapNumbers
    <2>2. (a + HDR_BYTES) % HEAP_ALIGN = 0
      BY <1>1, <2>1, Aligned
    <2>3. t % HEAP_ALIGN = 0
      BY <2>1, <2>2, Aligned
    <2> QED
      BY <1>3, <2>3, AWord
  <1>5. t \notin Heads(hdr)
    <2>1. SUFFICES ASSUME t \in Heads(hdr) PROVE FALSE
      OBVIOUS
    <2>2. EndOf(hdr, a) <= t
      BY <1>3, <2>1 DEF Chain
    <2> QED
      BY <1>1, <2>2, HeapNumbers DEF EndOf
  <1>6. tail \in 0 .. ADDR_MOD - 1 /\ n \in 0 .. ADDR_MOD - 1
    BY <1>1, HeapNumbers
  <1>7. k = IF x = NULL THEN g ELSE [g EXCEPT ![x].prev = t]
    BY DEF Split
  <1>8. t # a /\ (x # NULL => x # a /\ x # t)
    BY <1>1, <1>2, <1>3
  <1> HIDE DEF t, k
  <1>9. /\ g \in [Words -> Rec]
        /\ g[t] = [prev |-> a, next |-> x, magic |-> "free", size |-> tail]
        /\ g[a] = [hdr[a] EXCEPT !.next = t, !.size = n, !.magic = "used"]
        /\ \A u \in Words : u # t /\ u # a => g[u] = hdr[u]
    BY <1>1, <1>4, <1>6, <1>8
  <1> HIDE DEF g, x, tail
  <1>10. /\ g[t].prev = a /\ g[t].next = x /\ g[t].magic = "free" /\ g[t].size = tail
         /\ g[a].prev = hdr[a].prev /\ g[a].next = t /\ g[a].magic = "used" /\ g[a].size = n
    BY <1>1, <1>9
  <1>11. \A u \in Words :
           /\ g[u].size = IF u = t THEN tail ELSE IF u = a THEN n ELSE hdr[u].size
           /\ g[u].magic = IF u = t THEN "free" ELSE IF u = a THEN "used" ELSE hdr[u].magic
           /\ g[u].next = IF u = t THEN x ELSE IF u = a THEN t ELSE hdr[u].next
           /\ g[u].prev = IF u = t THEN a ELSE hdr[u].prev
    <2> HIDE DEF Rec
    <2> QED
      BY <1>8, <1>9, <1>10
  <1>12. /\ k \in [Words -> Rec]
         /\ \A u \in Words :
             /\ k[u].size = g[u].size /\ k[u].magic = g[u].magic /\ k[u].next = g[u].next
             /\ k[u].prev = IF u = x /\ x # NULL THEN t ELSE g[u].prev
    <2>1. CASE x = NULL
      BY <1>7, <1>9, <2>1
    <2>2. CASE x # NULL
      BY <1>1, <1>4, <1>7, <1>9, <2>2
    <2> QED
      BY <2>1, <2>2
  <1>13. \A u \in Words :
           /\ k[u].size = IF u = t THEN tail ELSE IF u = a THEN n ELSE hdr[u].size
           /\ k[u].magic = IF u = t THEN "free" ELSE IF u = a THEN "used" ELSE hdr[u].magic
           /\ k[u].next = IF u = t THEN x ELSE IF u = a THEN t ELSE hdr[u].next
           /\ k[u].prev = IF u = t THEN a ELSE IF u = x /\ x # NULL THEN t ELSE hdr[u].prev
    BY <1>8, <1>11, <1>12
  <1> QED
    BY <1>3, <1>4, <1>5, <1>12, <1>13 DEF t, x, k, tail, Headers

\* A split keeps the chain, takes block a, and gives one header's bytes away.
LEMMA SplitKeeps ==
    ASSUME NEW a, NEW n, CanSplit(a, n), NoneJoinable(hdr)
    PROVE  LET k == Split(a, n) IN
           /\ Chain(k) /\ NoneJoinable(k)
           /\ UsedOf(k) = UsedOf(hdr) \cup {a} /\ k[a].size = n
           /\ \A u \in UsedOf(hdr) : k[u].size = hdr[u].size
           /\ SumOf(k, Heads(k)) = SumOf(hdr, Heads(hdr)) - HDR_BYTES
  <1> DEFINE t == a + HDR_BYTES + n
             x == hdr[a].next
             k == Split(a, n)
             tail == hdr[a].size - n - HDR_BYTES
  <1>1. /\ t \in Words /\ t \notin Heads(hdr) /\ t # NULL /\ a < t
        /\ x # NULL => t < x
        /\ k \in Headers
    BY Cut
  <1>2. \A u \in Words :
           /\ k[u].size = IF u = t THEN tail ELSE IF u = a THEN n ELSE hdr[u].size
           /\ k[u].magic = IF u = t THEN "free" ELSE IF u = a THEN "used" ELSE hdr[u].magic
           /\ k[u].next = IF u = t THEN x ELSE IF u = a THEN t ELSE hdr[u].next
           /\ k[u].prev = IF u = t THEN a ELSE IF u = x /\ x # NULL THEN t ELSE hdr[u].prev
    BY Cut
  <1>3. /\ a \in Words /\ a \in Nat /\ hdr[a].size \in Nat /\ a + HDR_BYTES + hdr[a].size <= Hi
        /\ a # NULL /\ Lo <= a /\ hdr[a].next = x /\ x \in Words /\ hdr[a].magic = "free"
        /\ hdr[a].size % HEAP_ALIGN = 0
        /\ n \in Nat /\ n % HEAP_ALIGN = 0 /\ HEAP_ALIGN <= n /\ SPLIT_MIN <= hdr[a].size - n
        /\ Chain(hdr) /\ a \in Heads(hdr)
    BY ChainFacts DEF CanSplit
  <1>4. x # NULL => /\ x \in Heads(hdr) /\ hdr[x].prev = a /\ a < x
                    /\ x = a + HDR_BYTES + hdr[a].size
    BY <1>3, ChainNext
  <1>5. tail \in Nat /\ HEAP_ALIGN <= tail /\ t \in Nat /\ t + HDR_BYTES + tail = EndOf(hdr, a)
    BY <1>3, HeapNumbers DEF EndOf
  <1>6. t # a /\ (x # NULL => x # a /\ x # t)
    BY <1>1, <1>3, <1>4, <1>5
  <1>7. tail % HEAP_ALIGN = 0
    <2>1. hdr[a].size \in Int /\ n \in Int /\ HDR_BYTES \in Int /\ hdr[a].size - n \in Int
          /\ HDR_BYTES % HEAP_ALIGN = 0
      BY <1>3, HeapNumbers
    <2>2. (hdr[a].size - n) % HEAP_ALIGN = 0
      BY <1>3, <2>1, Aligned
    <2> QED
      BY <2>1, <2>2, Aligned
  <1>8. EndOf(k, a) = t /\ EndOf(k, t) = EndOf(hdr, a)
    BY <1>1, <1>2, <1>3, <1>5, <1>6 DEF EndOf
  <1> HIDE DEF t, x, k, tail
  <1>9. Heads(k) = Heads(hdr) \cup {t}
    BY <1>1, <1>2, <1>3 DEF Heads
  <1>10. \A u \in Heads(hdr) : u # t /\ (u # a => EndOf(k, u) = EndOf(hdr, u))
    BY <1>1, <1>2 DEF EndOf, Heads
  <1>11. \A u, v \in Heads(k) : u < v => EndOf(k, u) <= v
    <2> SUFFICES ASSUME NEW u \in Heads(k), NEW v \in Heads(k), u < v PROVE EndOf(k, u) <= v
      OBVIOUS
    <2>1. u \in Nat /\ v \in Nat
      BY HeapNumbers DEF Heads
    <2>2. CASE u = t
      <3>1. v \in Heads(hdr) /\ a < v
        BY <1>1, <1>3, <1>5, <1>9, <2>1, <2>2
      <3>2. EndOf(hdr, a) <= v
        BY <1>3, <3>1 DEF Chain
      <3> QED
        BY <1>8, <2>2, <3>2
    <2>3. CASE u # t /\ v = t
      <3>1. u \in Heads(hdr)
        BY <1>9, <2>3
      <3>2. CASE u = a
        BY <1>5, <1>8, <2>3, <3>2
      <3>3. CASE u < a
        <4>1. EndOf(hdr, u) <= a /\ EndOf(k, u) = EndOf(hdr, u)
          <5>1. u # a
            BY <1>3, <2>1, <3>3
          <5> QED
            BY <1>3, <1>10, <3>1, <3>3, <5>1 DEF Chain
        <4>2. EndOf(hdr, u) \in Nat
          <5>1. hdr[u].size \in Nat
            BY <1>3, <3>1, ChainFacts
          <5> QED
            BY <2>1, <5>1, HeapNumbers DEF EndOf
        <4> QED
          BY <1>1, <1>3, <1>5, <2>3, <4>1, <4>2
      <3>4. CASE a < u
        <4>1. EndOf(hdr, a) <= u
          BY <1>3, <3>1, <3>4 DEF Chain
        <4> QED
          BY <1>5, <2>1, <2>3, <4>1, HeapNumbers
      <3> QED
        BY <1>3, <2>1, <3>2, <3>3, <3>4
    <2>4. CASE u # t /\ v # t
      <3>1. u \in Heads(hdr) /\ v \in Heads(hdr) /\ EndOf(hdr, u) <= v
        BY <1>3, <1>9, <2>4 DEF Chain
      <3>2. CASE u = a
        BY <1>3, <1>5, <1>8, <2>1, <3>1, <3>2, HeapNumbers
      <3>3. CASE u # a
        BY <1>10, <3>1, <3>3
      <3> QED
        BY <3>2, <3>3
    <2> QED
      BY <2>2, <2>3, <2>4
  <1>12. ASSUME NEW u \in Heads(k) PROVE Linked(k, u)
    <2>1. u \in Words /\ u \in Nat /\ u # NULL
      <3>1. u \in Words
        BY <2>1 DEF Heads
      <3>2. u # NULL
        BY <1>1, <1>3, <1>9, ChainFacts
      <3> QED
        BY <3>1, <3>2, HeapNumbers
    <2>2. CASE u = t
      <3>1. /\ k[t].size = tail /\ k[t].next = x /\ k[t].prev = a /\ k[a].next = t
        BY <1>1, <1>2, <1>3, <1>6
      <3>2. Linked(hdr, a)
        BY <1>3 DEF Chain
      <3>3. Lo <= t /\ t # Lo /\ a \in Heads(k)
        BY <1>1, <1>3, <1>5, <1>9, HeapNumbers
      <3>4. x # NULL => k[x].prev = t /\ x \in Heads(k)
        BY <1>2, <1>3, <1>4, <1>6, <1>9
      <3>5. EndOf(k, t) <= Hi /\ (x = NULL => EndOf(k, t) = Hi) /\ (x # NULL => EndOf(k, t) = x)
        BY <1>3, <1>8, <3>2 DEF Linked
      <3> QED
        BY <1>3, <1>5, <1>7, <2>2, <3>1, <3>3, <3>4, <3>5 DEF Linked
    <2>3. CASE u = a
      <3>1. /\ k[a].size = n /\ k[a].next = t /\ k[a].prev = hdr[a].prev /\ k[t].prev = a
            /\ t \in Heads(k)
        BY <1>1, <1>2, <1>3, <1>6, <1>9
      <3>2. Linked(hdr, a)
        BY <1>3 DEF Chain
      <3>3. EndOf(k, a) <= Hi
        BY <1>3, <1>5, <1>8, HeapNumbers DEF EndOf
      <3>4. hdr[a].prev # NULL => hdr[a].prev \in Heads(k) /\ k[hdr[a].prev].next = a
        <4>1. SUFFICES ASSUME hdr[a].prev # NULL
                       PROVE  hdr[a].prev \in Heads(k) /\ k[hdr[a].prev].next = a
          OBVIOUS
        <4>2. /\ hdr[a].prev \in Heads(hdr) /\ hdr[hdr[a].prev].next = a /\ hdr[a].prev < a
              /\ hdr[a].prev \in Words
          BY <1>3, <4>1, ChainPrev, ChainFacts
        <4>3. hdr[a].prev # a /\ hdr[a].prev # t
          BY <1>3, <1>10, <4>2
        <4> QED
          BY <1>2, <1>9, <4>2, <4>3
      <3> QED
        BY <1>1, <1>3, <1>8, <2>3, <3>1, <3>2, <3>3, <3>4 DEF Linked
    <2>4. CASE u # t /\ u # a
      <3>1. u \in Heads(hdr) /\ Linked(hdr, u) /\ EndOf(k, u) = EndOf(hdr, u)
        BY <1>3, <1>9, <1>10, <2>4 DEF Chain
      <3>2. k[u].size = hdr[u].size /\ k[u].next = hdr[u].next
        BY <1>2, <2>1, <2>4
      <3>3. /\ k[u].prev = NULL <=> u = Lo
            /\ k[u].prev # NULL => k[u].prev \in Heads(k) /\ k[k[u].prev].next = u
        <4>1. CASE u = x
          <5>1. k[u].prev = t /\ k[t].next = u /\ t \in Heads(k)
            BY <1>1, <1>2, <1>9, <2>1, <2>4, <4>1
          <5>2. u # Lo
            BY <1>3, <1>4, <2>1, <4>1, HeapNumbers
          <5> QED
            BY <1>1, <5>1, <5>2
        <4>2. CASE u # x
          <5>1. k[u].prev = hdr[u].prev
            BY <1>2, <2>1, <2>4, <4>2
          <5>2. ASSUME hdr[u].prev # NULL
                PROVE  hdr[u].prev \in Heads(k) /\ k[hdr[u].prev].next = u
            <6>1. /\ hdr[u].prev \in Heads(hdr) /\ hdr[hdr[u].prev].next = u
                  /\ hdr[u].prev \in Words
              BY <1>3, <3>1, <5>2, ChainPrev, ChainFacts
            <6>2. hdr[u].prev # a /\ hdr[u].prev # t
              BY <1>3, <1>10, <4>2, <6>1
            <6> QED
              BY <1>2, <1>9, <6>1, <6>2
          <5> QED
            BY <3>1, <5>1, <5>2 DEF Linked
        <4> QED
          BY <4>1, <4>2
      <3>4. ASSUME hdr[u].next # NULL
            PROVE  hdr[u].next \in Heads(k) /\ k[hdr[u].next].prev = u
        <4>1. hdr[u].next \in Heads(hdr) /\ hdr[hdr[u].next].prev = u /\ hdr[u].next \in Words
          BY <1>3, <3>1, <3>4, ChainNext, ChainFacts
        <4>2. hdr[u].next # t /\ (x # NULL => hdr[u].next # x)
          BY <1>4, <1>10, <2>4, <4>1
        <4> QED
          BY <1>2, <1>9, <3>4, <4>1, <4>2
      <3> QED
        BY <3>1, <3>2, <3>3, <3>4 DEF Linked
    <2> QED
      BY <2>2, <2>3, <2>4
  <1>13. Chain(k)
    BY <1>1, <1>3, <1>9, <1>11, <1>12 DEF Chain
  <1>14. ASSUME NEW u \in Heads(k), Joinable(k, u) PROVE FALSE
    <2>1. u \in Words /\ k[u].magic = "free" /\ k[u].next # NULL /\ k[k[u].next].magic = "free"
      BY <1>14 DEF Joinable, Heads
    <2>2. u # a
      BY <1>2, <1>3, <1>6, <2>1
    <2>3. CASE u = t
      <3>1. k[u].next = x /\ x # NULL /\ x # a /\ x # t
        BY <1>2, <1>6, <2>1, <2>3
      <3>2. hdr[x].magic = "free"
        BY <1>2, <1>3, <2>1, <3>1
      <3> QED
        BY <1>3, <3>1, <3>2 DEF NoneJoinable, Joinable
    <2>4. CASE u # t
      <3>1. u \in Heads(hdr) /\ k[u].next = hdr[u].next /\ hdr[u].magic = "free"
        BY <1>2, <1>9, <2>1, <2>2, <2>4
      <3>2. hdr[u].next \in Heads(hdr) /\ hdr[u].next \in Words
        BY <1>3, <2>1, <3>1, ChainNext, ChainFacts
      <3>3. hdr[u].next # t
        BY <1>10, <3>2
      <3>4. hdr[hdr[u].next].magic = "free"
        BY <1>2, <1>3, <2>1, <3>1, <3>2, <3>3
      <3> QED
        BY <2>1, <3>1, <3>4 DEF NoneJoinable, Joinable
    <2> QED
      BY <2>3, <2>4
  <1>15. /\ UsedOf(k) = UsedOf(hdr) \cup {a} /\ k[a].size = n
         /\ \A u \in UsedOf(hdr) : k[u].size = hdr[u].size
    <2>1. t \notin UsedOf(hdr) /\ a \notin UsedOf(hdr)
      BY <1>1, <1>3 DEF Heads, UsedOf
    <2>2. \A u \in Words : k[u].magic = "used" <=> u = a \/ hdr[u].magic = "used"
      <3>1. hdr[t].magic # "used"
        BY <1>1 DEF Heads
      <3> QED
        BY <1>2, <1>6, <3>1
    <2>3. UsedOf(k) = UsedOf(hdr) \cup {a}
      BY <1>3, <2>2 DEF UsedOf
    <2>4. k[a].size = n
      BY <1>2, <1>3, <1>6
    <2>5. \A u \in UsedOf(hdr) : k[u].size = hdr[u].size
      BY <1>2, <2>1 DEF UsedOf
    <2> QED
      BY <2>3, <2>4, <2>5
  <1>16. SumOf(k, Heads(k)) = SumOf(hdr, Heads(hdr)) - HDR_BYTES
    <2> DEFINE S == Heads(hdr) \ {a}
    <2>1. S \in SUBSET Words /\ Heads(hdr) \in SUBSET Words /\ t \notin Heads(hdr)
      BY <1>1 DEF Heads
    <2>2. SumOf(hdr, Heads(hdr)) = SumOf(hdr, S) + hdr[a].size
      BY <1>3, <2>1, ChainFacts, SumTake
    <2>3. Heads(k) \in SUBSET Words /\ t \in Heads(k) /\ Heads(k) \ {t} = Heads(hdr)
      BY <1>1, <1>9 DEF Heads
    <2>4. SumOf(k, Heads(k)) = SumOf(k, Heads(hdr)) + k[t].size
      BY <1>13, <2>3, ChainFacts, SumTake
    <2>5. SumOf(k, Heads(hdr)) = SumOf(k, S) + k[a].size
      <3>1. k[a].size \in 0 .. ADDR_MOD - 1
        BY <1>3, <1>9, <1>13, ChainFacts
      <3> QED
        BY <1>3, <2>1, <3>1, SumTake
    <2>6. SumOf(k, S) = SumOf(hdr, S)
      <3>1. \A u \in S : k[u].size = hdr[u].size
        BY <1>2, <1>10, <2>1
      <3> QED
        BY <3>1, SumSame
    <2>7. k[t].size = tail /\ k[a].size = n /\ SumOf(hdr, S) \in Nat
      BY <1>1, <1>2, <1>3, <1>6, <2>1, UnitsFinite
    <2>8. tail = hdr[a].size - n - HDR_BYTES
      BY DEF tail
    <2> HIDE DEF S
    <2> QED
      BY <1>3, <1>5, <2>2, <2>4, <2>5, <2>6, <2>7, <2>8, HeapNumbers
  <1> QED
    BY <1>13, <1>14, <1>15, <1>16 DEF NoneJoinable, k
-----------------------------------------------------------------------------
(* The operations.                                                          *)

\* Marking a block, live or free, moves nothing.
LEMMA Marked ==
    ASSUME NEW h, Chain(h), NEW a \in Heads(h), NEW mg \in {"free", "used"},
           NEW k, k = [h EXCEPT ![a].magic = mg]
    PROVE  /\ Chain(k) /\ Heads(k) = Heads(h) /\ k[a].magic = mg
           /\ \A u \in Words : /\ k[u].prev = h[u].prev /\ k[u].next = h[u].next
                               /\ k[u].size = h[u].size /\ (u # a => k[u].magic = h[u].magic)
  <1>1. h \in Headers /\ a \in Words /\ h[a].magic # "none"
    BY DEF Chain, Heads
  <1>2. k \in Headers
    BY <1>1 DEF Headers
  <1>3. /\ k[a].magic = mg
        /\ \A u \in Words : /\ k[u].prev = h[u].prev /\ k[u].next = h[u].next
                            /\ k[u].size = h[u].size /\ (u # a => k[u].magic = h[u].magic)
    BY <1>1 DEF Headers
  <1>4. Heads(k) = Heads(h)
    BY <1>1, <1>3 DEF Heads
  <1>5. \A u \in Heads(h) : EndOf(k, u) = EndOf(h, u)
    BY <1>3 DEF EndOf, Heads
  <1>6. ASSUME NEW u \in Heads(h) PROVE Linked(k, u)
    <2>1. u \in Words /\ h[u].prev \in Words /\ h[u].next \in Words /\ Linked(h, u)
      BY ChainFacts DEF Chain
    <2> QED
      BY <1>3, <1>4, <1>5, <2>1 DEF Linked
  <1>7. Chain(k)
    BY <1>2, <1>4, <1>5, <1>6 DEF Chain
  <1> QED
    BY <1>3, <1>4, <1>7

LEMMA HeapInitInv == Init => HeapInv
  <1> SUFFICES ASSUME Init PROVE HeapInv
    OBVIOUS
  <1> DEFINE whole == Hi - Lo - HDR_BYTES
  <1>1. whole \in Nat /\ HEAP_ALIGN <= whole /\ whole \in 0 .. ADDR_MOD - 1
        /\ Lo + HDR_BYTES + whole = Hi
    BY HeapNumbers
  <1>2. whole % HEAP_ALIGN = 0
    <2>1. Hi \in Int /\ Lo \in Int /\ HDR_BYTES \in Int /\ Hi - Lo \in Int
          /\ Hi % HEAP_ALIGN = 0 /\ Lo % HEAP_ALIGN = 0 /\ HDR_BYTES % HEAP_ALIGN = 0
      BY HeapNumbers
    <2>2. (Hi - Lo) % HEAP_ALIGN = 0
      BY <2>1, Aligned
    <2> QED
      BY <2>1, <2>2, Aligned
  <1> HIDE DEF whole
  <1>3. hdr = [a \in Words |-> IF a = Lo THEN [prev |-> NULL, next |-> NULL,
                                               size |-> whole, magic |-> "free"]
                               ELSE NoHeader]
    BY DEF Init, whole
  <1>4. hdr \in Headers
    BY <1>1, <1>3, HeapNumbers DEF Headers, NoHeader
  <1>5. /\ hdr[Lo].prev = NULL /\ hdr[Lo].next = NULL /\ hdr[Lo].size = whole
        /\ hdr[Lo].magic = "free" /\ Lo \in Words
        /\ \A u \in Words : u # Lo => hdr[u].magic = "none"
    BY <1>3, HeapNumbers DEF NoHeader
  <1>6. Heads(hdr) = {Lo} /\ UsedOf(hdr) = {}
    BY <1>5 DEF Heads, UsedOf
  <1>7. Linked(hdr, Lo)
    BY <1>1, <1>2, <1>5, HeapNumbers DEF Linked, EndOf
  <1>8. Chain(hdr)
    BY <1>4, <1>6, <1>7, HeapNumbers DEF Chain
  <1>9. NoneJoinable(hdr)
    BY <1>5, <1>6 DEF NoneJoinable, Joinable
  <1>10. SumOf(hdr, Heads(hdr)) = whole /\ SumOf(hdr, UsedOf(hdr)) = 0
    BY <1>1, <1>5, <1>6, SumOfOne, SumOfNone
  <1>11. want \in [Callers -> 0 .. Hi - Lo - HDR_BYTES]
    BY <1>1 DEF Init, whole
  <1> QED
    BY <1>8, <1>9, <1>10, <1>11 DEF HeapInv, Init, whole

\* The size searched for: the request rounded up, which cannot wrap.
LEMMA Rounded ==
    ASSUME HeapInv, NEW c \in Callers, want[c] # 0
    PROVE  LET n == align_up(want[c]) IN
           /\ n \in Nat /\ n % HEAP_ALIGN = 0 /\ HEAP_ALIGN <= n /\ want[c] <= n
           /\ want[c] \in Nat /\ want[c] > 0
  <1>1. want[c] \in 0 .. Hi - Lo - HDR_BYTES
    BY DEF HeapInv
  <1>2. want[c] \in Nat /\ want[c] > 0 /\ want[c] <= Hi - Lo - HDR_BYTES
    BY <1>1, HeapNumbers
  <1>3. HEAP_ALIGN <= Lo
    <2>1. HEAP_ALIGN \in Int /\ Lo \in Int
      BY HeapNumbers
    <2> QED
      BY <2>1, HeapNumbers, MultiplesApart
  <1>4. want[c] + HEAP_ALIGN <= ADDR_MOD
    BY <1>2, <1>3, HeapNumbers
  <1> DEFINE n == align_up(want[c])
  <1>5. n \in Nat /\ want[c] <= n /\ n % HEAP_ALIGN = 0
    BY <1>2, <1>4, AlignUp
  <1> HIDE DEF n
  <1>6. n > 0 /\ n \in Int /\ HEAP_ALIGN \in Int /\ HEAP_ALIGN > 0
    BY <1>2, <1>5, HeapNumbers
  <1>7. HEAP_ALIGN <= n
    BY <1>5, <1>6, MultiplesApart
  <1> QED
    BY <1>2, <1>5, <1>7 DEF n
\* What an allocation does to the heap: one free block that is large enough goes live.
Granted(c, a) ==
    /\ a \in Heads(hdr) /\ a \notin UsedOf(hdr)
    /\ UsedOf(hdr') = UsedOf(hdr) \cup {a}
    /\ \A u \in UsedOf(hdr) : hdr'[u].size = hdr[u].size
    /\ want[c] <= hdr'[a].size
    /\ want' = [want EXCEPT ![c] = 0]

LEMMA TakeKeeps ==
    ASSUME HeapInv, NEW c \in Callers, AllocTake(c)
    PROVE  HeapInv' /\ \E a \in Words : Granted(c, a)
  <1> DEFINE n == align_up(want[c])
  <1>1. /\ n \in Nat /\ n % HEAP_ALIGN = 0 /\ HEAP_ALIGN <= n /\ want[c] <= n
        /\ want[c] \in Nat /\ want[c] > 0
    BY Rounded DEF AllocTake
  <1>2. PICK a \in Blocks : FirstFit(a, n) /\ Take(c, a, n)
    BY DEF AllocTake
  <1> HIDE DEF n
  <1>3. /\ a \in Heads(hdr) /\ hdr[a].magic = "free" /\ n <= hdr[a].size
        /\ Chain(hdr) /\ NoneJoinable(hdr) /\ g_first = Lo
    BY <1>2, HeapBlocks DEF FirstFit, Fits, HeapInv
  <1>4. a \in Words /\ hdr[a].size \in Nat /\ a \notin UsedOf(hdr)
    BY <1>3, ChainFacts DEF UsedOf
  <1>5. /\ Chain(hdr') /\ NoneJoinable(hdr')
        /\ UsedOf(hdr') = UsedOf(hdr) \cup {a}
        /\ \A u \in UsedOf(hdr) : hdr'[u].size = hdr[u].size
        /\ n <= hdr'[a].size
        /\ SumOf(hdr', Heads(hdr')) = g_total'
    <2>1. CASE hdr[a].size - n >= SPLIT_MIN
      <3>1. CanSplit(a, n)
        BY <1>1, <1>3, <1>4, <2>1, HeapNumbers DEF CanSplit
      <3>2. hdr' = Split(a, n) /\ g_total' = g_total - HDR_BYTES
        BY <1>2, <2>1 DEF Take
      <3>3. g_total = SumOf(hdr, Heads(hdr))
        BY DEF HeapInv
      <3> QED
        BY <1>1, <1>3, <3>1, <3>2, <3>3, SplitKeeps
    <2>2. CASE ~(hdr[a].size - n >= SPLIT_MIN)
      <3> DEFINE k == [hdr EXCEPT ![a].magic = "used"]
      <3>1. hdr' = k /\ g_total' = g_total
        BY <1>2, <2>2 DEF Take
      <3>2. /\ Chain(k) /\ Heads(k) = Heads(hdr) /\ k[a].magic = "used"
            /\ \A u \in Words : /\ k[u].prev = hdr[u].prev /\ k[u].next = hdr[u].next
                                /\ k[u].size = hdr[u].size /\ (u # a => k[u].magic = hdr[u].magic)
        BY <1>3, Marked
      <3> HIDE DEF k
      <3>3. UsedOf(k) = UsedOf(hdr) \cup {a}
        BY <1>4, <3>2 DEF UsedOf
      <3>4. \A u \in UsedOf(hdr) : k[u].size = hdr[u].size
        BY <3>2 DEF UsedOf
      <3>5. SumOf(k, Heads(k)) = SumOf(hdr, Heads(hdr))
        <4>1. \A u \in Heads(hdr) : k[u].size = hdr[u].size
          BY <3>2 DEF Heads
        <4> QED
          BY <3>2, <4>1, SumSame
      <3>6. ASSUME NEW u \in Heads(k) PROVE ~Joinable(k, u)
        <4>1. u \in Heads(hdr) /\ u \in Words /\ hdr[u].next \in Words /\ ~Joinable(hdr, u)
          BY <1>3, <3>2, ChainFacts DEF NoneJoinable
        <4>2. k[u].next = hdr[u].next
          BY <3>2, <4>1
        <4>3. \A v \in Words : k[v].magic = "free" => hdr[v].magic = "free"
          BY <3>2
        <4> QED
          BY <4>1, <4>2, <4>3 DEF Joinable
      <3>7. n <= k[a].size
        BY <1>3, <1>4, <3>2
      <3> QED
        BY <3>1, <3>2, <3>3, <3>4, <3>5, <3>6, <3>7 DEF HeapInv, NoneJoinable
    <2> QED
      BY <2>1, <2>2
  <1>6. hdr'[a].size \in Nat /\ hdr'[a].size \in 0 .. ADDR_MOD - 1
    <2>1. a \in Heads(hdr')
      BY <1>4, <1>5 DEF UsedOf, Heads
    <2> QED
      BY <1>5, <2>1, ChainFacts
  <1>7. SumOf(hdr', UsedOf(hdr')) = g_used'
    <2>1. UsedOf(hdr) \in SUBSET Words
      BY DEF UsedOf
    <2>2. SumOf(hdr', UsedOf(hdr) \cup {a}) = SumOf(hdr', UsedOf(hdr)) + hdr'[a].size
      BY <1>4, <1>6, <2>1, SumAdd
    <2>3. SumOf(hdr', UsedOf(hdr)) = SumOf(hdr, UsedOf(hdr))
      BY <1>5, SumSame
    <2>4. g_used' = g_used + hdr'[a].size /\ g_used = SumOf(hdr, UsedOf(hdr))
      BY <1>2 DEF Take, HeapInv
    <2> QED
      BY <1>5, <2>2, <2>3, <2>4
  <1>8. /\ want' = [want EXCEPT ![c] = 0] /\ g_first' = Lo
        /\ want' \in [Callers -> 0 .. Hi - Lo - HDR_BYTES]
    <2>1. 0 \in 0 .. Hi - Lo - HDR_BYTES
      BY HeapNumbers
    <2> QED
      BY <1>2, <1>3, <2>1 DEF Take, HeapInv
  <1>9. HeapInv'
    BY <1>5, <1>7, <1>8 DEF HeapInv
  <1>10. Granted(c, a)
    BY <1>1, <1>3, <1>4, <1>5, <1>6, <1>8 DEF Granted
  <1> QED
    BY <1>4, <1>9, <1>10

\* What freeing a live block does: it is live no more, and no other block is touched.
Released(b) ==
    /\ b \in UsedOf(hdr)
    /\ UsedOf(hdr') = UsedOf(hdr) \ {b}
    /\ \A u \in UsedOf(hdr) \ {b} : hdr'[u].size = hdr[u].size
    /\ want' = want

LEMMA FreeKeeps ==
    ASSUME HeapInv, NEW q \in Words, heap_free(q)
    PROVE  HeapInv' /\ \E b \in Words : Released(b)
  <1>1. q - HDR_BYTES \in Words
    <2>1. q \in Nat /\ q % HEAP_ALIGN = 0 /\ q < ADDR_MOD
      BY HeapNumbers DEF Words
    <2>2. q >= HDR_BYTES
      BY <2>1, HeapNumbers, HeapAssumption DEF heap_free
    <2>3. q \in Int /\ HDR_BYTES \in Int /\ HDR_BYTES % HEAP_ALIGN = 0
      BY <2>1, HeapNumbers
    <2>4. (q - HDR_BYTES) % HEAP_ALIGN = 0
      BY <2>1, <2>3, Aligned
    <2> QED
      BY <2>1, <2>2, <2>4, HeapNumbers DEF Words
  <1>17. PICK b \in Words : b = q - HDR_BYTES
    BY <1>1
  <1> DEFINE freed == [hdr EXCEPT ![b].magic = "free"]
             once == coalesce_with_next(freed, b)
             p == hdr[b].prev
  <1>2. /\ hdr[b].magic = "used" /\ g_used' = g_used - hdr[b].size
        /\ hdr' = (IF p = NULL THEN once ELSE coalesce_with_next(once, p))
        /\ g_total' = g_total + Joins(freed, b) + (IF p = NULL THEN 0 ELSE Joins(once, p))
        /\ UNCHANGED <<g_first, want>>
    BY <1>17 DEF heap_free, FreeBlock
  <1>3. /\ Chain(hdr) /\ NoneJoinable(hdr) /\ g_first = Lo
        /\ g_total = SumOf(hdr, Heads(hdr)) /\ g_used = SumOf(hdr, UsedOf(hdr))
        /\ want \in [Callers -> 0 .. Hi - Lo - HDR_BYTES]
    BY DEF HeapInv
  <1>4. b \in Heads(hdr) /\ b \in UsedOf(hdr)
    BY <1>1, <1>2 DEF Heads, UsedOf
  <1>5. /\ Chain(freed) /\ Heads(freed) = Heads(hdr) /\ freed[b].magic = "free"
        /\ \A u \in Words : /\ freed[u].prev = hdr[u].prev /\ freed[u].next = hdr[u].next
                            /\ freed[u].size = hdr[u].size
                            /\ (u # b => freed[u].magic = hdr[u].magic)
    <2>1. Chain(hdr) /\ b \in Heads(hdr)
      BY <1>3, <1>4
    <2> QED
      BY <2>1, Marked
  <1> HIDE DEF freed
  <1>6. UsedOf(freed) = UsedOf(hdr) \ {b}
    BY <1>1, <1>5 DEF UsedOf
  <1>7. SumOf(freed, Heads(freed)) = g_total
    <2>1. \A u \in Heads(hdr) : freed[u].size = hdr[u].size
      BY <1>5 DEF Heads
    <2> QED
      BY <1>3, <1>5, <2>1, SumSame
  <1>8. \A u \in Heads(freed) : u # b /\ u # p => ~Joinable(freed, u)
    <2> SUFFICES ASSUME NEW u \in Heads(freed), u # b, u # p, Joinable(freed, u) PROVE FALSE
      OBVIOUS
    <2>1. u \in Heads(hdr) /\ u \in Words /\ ~Joinable(hdr, u) /\ hdr[u].next \in Words
      BY <1>3, <1>5, ChainFacts DEF NoneJoinable
    <2>2. hdr[u].next # NULL
      BY <1>5, <2>1 DEF Joinable
    <2>3. hdr[u].next # b
      BY <1>3, <2>1, <2>2, ChainNext
    <2> QED
      BY <1>5, <2>1, <2>2, <2>3 DEF Joinable
  <1>9. Joinable(freed, b) => ~Joinable(freed, freed[b].next)
    <2> SUFFICES ASSUME Joinable(freed, b) PROVE ~Joinable(freed, freed[b].next)
      OBVIOUS
    <2>1. freed[b].next # NULL
      BY DEF Joinable
    <2>2. freed[b].next \in Heads(freed) /\ b < freed[b].next /\ freed[freed[b].next].prev = b
      BY <1>4, <1>5, <2>1, ChainNext
    <2>3. freed[b].next # b /\ b \in Nat
      BY <1>3, <1>4, <2>2, ChainFacts
    <2>4. freed[b].next # p
      <3>1. p # NULL => p < b /\ p \in Nat
        BY <1>3, <1>4, ChainPrev, ChainFacts
      <3> QED
        BY <2>1, <2>2, <2>3, <3>1
    <2> QED
      BY <1>8, <2>2, <2>3, <2>4
  <1>10. /\ Chain(once) /\ b \in Heads(once) /\ Heads(once) \subseteq Heads(freed)
         /\ UsedOf(once) = UsedOf(freed) /\ \A u \in UsedOf(freed) : once[u].size = freed[u].size
         /\ SumOf(once, Heads(once)) = SumOf(freed, Heads(freed)) + Joins(freed, b)
         /\ \A u \in Heads(once) : u # b /\ ~Joinable(freed, u) => ~Joinable(once, u)
         /\ ~Joinable(once, b)
         /\ once[b].prev = freed[b].prev /\ once[b].magic = freed[b].magic
         /\ \A u \in Heads(freed) : u < b => once[u].next = freed[u].next
    BY <1>4, <1>5, <1>9, Coalesced
  <1> HIDE DEF once
  <1>11. \A u \in Heads(once) : u # p => ~Joinable(once, u)
    BY <1>8, <1>10
  <1>12. /\ Chain(hdr') /\ NoneJoinable(hdr')
         /\ UsedOf(hdr') = UsedOf(once) /\ \A u \in UsedOf(once) : hdr'[u].size = once[u].size
         /\ SumOf(hdr', Heads(hdr')) = g_total'
    <2>1. /\ g_total \in Nat /\ Joins(freed, b) \in Nat /\ Joins(once, p) \in Nat
          /\ SumOf(once, Heads(once)) = g_total + Joins(freed, b)
      <3>1. Heads(hdr) \in SUBSET Words
        BY DEF Heads
      <3> QED
        BY <1>3, <1>7, <1>10, <3>1, UnitsFinite, HeapNumbers DEF Joins
    <2>2. CASE p = NULL
      <3>1. hdr' = once /\ g_total' = g_total + Joins(freed, b)
        BY <1>2, <2>1, <2>2
      <3>2. \A u \in Heads(once) : u # p
        BY <1>10, <2>2, ChainFacts
      <3> QED
        BY <1>10, <1>11, <2>1, <3>1, <3>2 DEF NoneJoinable
    <2>3. CASE p # NULL
      <3> DEFINE k == coalesce_with_next(once, p)
      <3>1. hdr' = k /\ g_total' = g_total + Joins(freed, b) + Joins(once, p)
        BY <1>2, <2>3
      <3>2. /\ p \in Heads(freed) /\ p < b /\ hdr[p].next = b /\ freed[p].next = b
        <4>1. p \in Heads(hdr) /\ p < b /\ hdr[p].next = b /\ p \in Words
          BY <1>3, <1>4, <2>3, ChainPrev, ChainFacts
        <4> QED
          BY <1>5, <4>1
      <3>3. once[b].prev = p
        BY <1>1, <1>5, <1>10
      <3> HIDE DEF p
      <3>4. p \in Heads(once) /\ once[p].next = b
        BY <1>10, <2>3, <3>3, ChainPrev
      <3>5. Joinable(once, p) => ~Joinable(once, once[p].next)
        BY <1>10, <3>4
      <3>6. /\ Chain(k) /\ Heads(k) \subseteq Heads(once)
            /\ UsedOf(k) = UsedOf(once) /\ \A u \in UsedOf(once) : k[u].size = once[u].size
            /\ SumOf(k, Heads(k)) = SumOf(once, Heads(once)) + Joins(once, p)
            /\ \A u \in Heads(k) : u # p /\ ~Joinable(once, u) => ~Joinable(k, u)
            /\ ~Joinable(k, p)
        BY <1>10, <3>4, <3>5, Coalesced
      <3> HIDE DEF k
      <3>7. NoneJoinable(k)
        BY <1>11, <3>6 DEF NoneJoinable
      <3> QED
        BY <2>1, <3>1, <3>6, <3>7
    <2> QED
      BY <2>2, <2>3
  <1>13. /\ UsedOf(hdr') = UsedOf(hdr) \ {b}
         /\ \A u \in UsedOf(hdr) \ {b} : hdr'[u].size = hdr[u].size
    <2>1. UsedOf(hdr) \in SUBSET Words
      BY DEF UsedOf
    <2> QED
      BY <1>5, <1>6, <1>10, <1>12, <2>1
  <1>14. SumOf(hdr', UsedOf(hdr')) = g_used'
    <2>1. UsedOf(hdr) \in SUBSET Words /\ UsedOf(hdr) \ {b} \in SUBSET Words
      BY DEF UsedOf
    <2>2. hdr[b].size \in Nat /\ hdr[b].size \in 0 .. ADDR_MOD - 1
      BY <1>3, <1>4, ChainFacts
    <2>3. SumOf(hdr, UsedOf(hdr)) = SumOf(hdr, UsedOf(hdr) \ {b}) + hdr[b].size
      BY <1>4, <2>1, <2>2, SumTake
    <2>4. SumOf(hdr', UsedOf(hdr) \ {b}) = SumOf(hdr, UsedOf(hdr) \ {b})
      BY <1>13, SumSame
    <2>5. SumOf(hdr, UsedOf(hdr) \ {b}) \in Nat
      BY <2>1, UnitsFinite
    <2>6. SumOf(hdr', UsedOf(hdr')) = SumOf(hdr, UsedOf(hdr) \ {b})
      BY <1>13, <2>4
    <2>7. g_used' = SumOf(hdr, UsedOf(hdr)) - hdr[b].size
      BY <1>2, <1>3
    <2>8. g_used' = SumOf(hdr, UsedOf(hdr) \ {b})
      BY <2>2, <2>3, <2>5, <2>7
    <2> QED
      BY <2>6, <2>8
  <1>15. HeapInv'
    BY <1>2, <1>3, <1>12, <1>14 DEF HeapInv
  <1>16. Released(b)
    BY <1>2, <1>4, <1>13 DEF Released
  <1> QED
    BY <1>1, <1>15, <1>16

\* Asking and failing change nothing but what the caller is inside with.
LEMMA AskKeeps ==
    ASSUME HeapInv, NEW c \in Callers,
           AllocFail(c) \/ \E bytes \in Requests : AllocEnter(c, bytes)
    PROVE  HeapInv'
  <1>1. UNCHANGED <<hdr, g_first, g_total, g_used>>
    BY DEF AllocFail, AllocEnter
  <1>2. want' \in [Callers -> 0 .. Hi - Lo - HDR_BYTES]
    <2>1. CASE AllocFail(c)
      <3>1. 0 \in 0 .. Hi - Lo - HDR_BYTES
        BY HeapNumbers
      <3> QED
        BY <2>1, <3>1 DEF AllocFail, HeapInv
    <2>2. ASSUME NEW bytes \in Requests, AllocEnter(c, bytes)
          PROVE  want' \in [Callers -> 0 .. Hi - Lo - HDR_BYTES]
      <3>1. g_total \in 0 .. Hi - Lo - HDR_BYTES
        BY SumInRegion DEF HeapInv
      <3>2. bytes \in Nat /\ bytes <= g_total
        BY <2>2, <3>1, HeapAssumption, HeapNumbers DEF AllocEnter, Refused
      <3>3. bytes \in 0 .. Hi - Lo - HDR_BYTES
        BY <3>1, <3>2, HeapNumbers
      <3> QED
        BY <2>2, <3>3 DEF AllocEnter, HeapInv
    <2> QED
      BY <2>1, <2>2
  <1> QED
    BY <1>1, <1>2 DEF HeapInv

LEMMA HeapStep == HeapInv /\ [Next]_vars => HeapInv'
  <1> SUFFICES ASSUME HeapInv, [Next]_vars PROVE HeapInv'
    OBVIOUS
  <1>1. ASSUME NEW c \in Callers, heap_alloc(c) PROVE HeapInv'
    BY <1>1, TakeKeeps, AskKeeps DEF heap_alloc
  <1>2. ASSUME NEW p \in Words, heap_free(p) PROVE HeapInv'
    BY <1>2, FreeKeeps
  <1>3. CASE UNCHANGED vars
    BY <1>3 DEF vars, HeapInv
  <1> QED
    BY <1>1, <1>2, <1>3 DEF Next

\* heap_check() finds nothing and nothing leaks, whatever is asked for and whatever
\* pointers are freed, for every region, alignment, header size and set of tasks.
THEOREM HeapIsSound == Spec => []HeapSound
  <1>1. Spec => []HeapInv
    BY HeapInitInv, HeapStep, PTL DEF Spec
  <1> QED
    BY <1>1, HeapInvSound, PTL
-----------------------------------------------------------------------------
(* The heap is the allocator heap.h promises.                               *)

LiveOf(h) == {[base |-> a + HDR_BYTES, size |-> h[a].size] : a \in UsedOf(h)}
Live == {[base |-> a + HDR_BYTES, size |-> hdr[a].size] : a \in Used}

LEMMA LiveBefore == ASSUME HeapInv PROVE Live = LiveOf(hdr)
  <1>1. Used = UsedOf(hdr)
    BY HeapBlocks DEF Used, UsedOf, Heads
  <1> QED
    BY <1>1 DEF Live, LiveOf

LEMMA LiveAfter == ASSUME HeapInv' PROVE Live' = LiveOf(hdr')
  <1>1. Chain(hdr') /\ g_first' = Lo
    BY DEF HeapInv
  <1>2. Blocks' = BlocksOf(hdr', g_first')
    BY DEF Blocks, Walk, BlocksOf, WalkOf
  <1>3. Blocks' = Heads(hdr')
    BY <1>1, <1>2, BlocksAreHeads
  <1>4. Used' = UsedOf(hdr')
    BY <1>3 DEF Used, UsedOf, Heads
  <1> QED
    BY <1>4 DEF Live, LiveOf

LEMMA PromiseInit == Init => Promise!AllocInit
  <1> SUFFICES ASSUME Init PROVE Promise!AllocInit
    OBVIOUS
  <1>1. HeapInv
    BY HeapInitInv
  <1>2. UsedOf(hdr) = {}
    <2>1. \A u \in Words : hdr[u].magic # "used"
      BY DEF Init, NoHeader
    <2> QED
      BY <2>1 DEF UsedOf
  <1>3. Live = {}
    BY <1>1, <1>2, LiveBefore DEF LiveOf
  <1> QED
    BY <1>3 DEF Promise!AllocInit, Live, Init

\* The block that went live is a region inside the heap that no live region overlaps.
LEMMA PromiseGrant ==
    ASSUME HeapInv, HeapInv', NEW c \in Callers, want[c] # 0, NEW a \in Words, Granted(c, a)
    PROVE  Promise!Grant(c)
  <1> DEFINE r == [base |-> a + HDR_BYTES, size |-> hdr'[a].size]
  <1>1. Live = LiveOf(hdr) /\ Live' = LiveOf(hdr')
    BY LiveBefore, LiveAfter
  <1>2. Live' = Live \cup {r}
    <2>1. \A u \in UsedOf(hdr) : hdr'[u].size = hdr[u].size
      BY DEF Granted
    <2>2. UsedOf(hdr') = UsedOf(hdr) \cup {a}
      BY DEF Granted
    <2> QED
      BY <1>1, <2>1, <2>2 DEF LiveOf
  <1>3. Chain(hdr') /\ a \in Heads(hdr')
    BY DEF HeapInv, Granted, UsedOf, Heads
  <1>4. /\ a \in Nat /\ Lo <= a /\ hdr'[a].size \in Nat /\ a + HDR_BYTES + hdr'[a].size <= Hi
        /\ a % HEAP_ALIGN = 0
    BY <1>3, ChainFacts
  <1>5. (a + HDR_BYTES) % HEAP_ALIGN = 0
    <2>1. a \in Int /\ HDR_BYTES \in Int /\ HDR_BYTES % HEAP_ALIGN = 0
      BY <1>4, HeapNumbers
    <2> QED
      BY <1>4, <2>1, Aligned
  <1>6. want[c] \in Nat /\ want[c] > 0 /\ want[c] <= hdr'[a].size
    BY Rounded DEF Granted
  <1>7. ASSUME NEW s \in Live PROVE Promise!Disjoint(r, s)
    <2>1. PICK u \in UsedOf(hdr) : s = [base |-> u + HDR_BYTES, size |-> hdr[u].size]
      BY <1>1 DEF LiveOf
    <2>2. u # a /\ hdr'[u].size = hdr[u].size /\ u \in Heads(hdr')
      BY DEF Granted, UsedOf, Heads
    <2>3. u \in Nat /\ hdr'[u].size \in Nat
      BY <1>3, <2>2, ChainFacts
    <2>4. /\ u < a => u + HDR_BYTES + hdr'[u].size <= a
          /\ a < u => a + HDR_BYTES + hdr'[a].size <= u
      BY <1>3, <2>2 DEF Chain, EndOf
    <2>5. \/ r.base + r.size <= s.base
          \/ s.base + s.size <= r.base
      BY <1>4, <2>1, <2>2, <2>3, <2>4, HeapNumbers
    <2> QED
      BY <2>5 DEF Promise!Disjoint
  <1>8. want' = [want EXCEPT ![c] = 0]
    BY DEF Granted
  <1>9. /\ r \in Live' /\ r.size >= want[c] /\ r.base >= Lo /\ r.base + r.size <= Hi
        /\ r.base % HEAP_ALIGN = 0
    BY <1>2, <1>4, <1>5, <1>6, HeapNumbers
  <1> HIDE DEF r
  <1> QED
    BY <1>2, <1>6, <1>7, <1>8, <1>9 DEF Promise!Grant, Live

LEMMA PromiseRelease ==
    ASSUME HeapInv, HeapInv', NEW b \in Words, Released(b)
    PROVE  \E r \in Live : Promise!Release(r)
  <1> DEFINE r == [base |-> b + HDR_BYTES, size |-> hdr[b].size]
  <1>1. Live = LiveOf(hdr) /\ Live' = LiveOf(hdr')
    BY LiveBefore, LiveAfter
  <1>2. b \in UsedOf(hdr) /\ UsedOf(hdr') = UsedOf(hdr) \ {b}
        /\ \A u \in UsedOf(hdr) \ {b} : hdr'[u].size = hdr[u].size
    BY DEF Released
  <1>3. r \in Live
    BY <1>1, <1>2 DEF LiveOf
  <1>4. \A u \in UsedOf(hdr) : u # b => [base |-> u + HDR_BYTES, size |-> hdr[u].size] # r
    <2>1. \A u \in UsedOf(hdr) : u \in Nat
      BY HeapNumbers DEF UsedOf
    <2>2. \A u \in UsedOf(hdr) : u # b => u + HDR_BYTES # b + HDR_BYTES
      BY <1>2, <2>1, HeapNumbers
    <2> QED
      BY <2>2
  <1>5. Live' = Live \ {r}
    <2> DEFINE Reg(u) == [base |-> u + HDR_BYTES, size |-> hdr[u].size]
    <2>1. Live = {Reg(u) : u \in UsedOf(hdr)}
      BY <1>1 DEF LiveOf
    <2>2. Live' = {Reg(u) : u \in UsedOf(hdr) \ {b}}
      BY <1>1, <1>2 DEF LiveOf
    <2>3. r = Reg(b)
      OBVIOUS
    <2>4. \A u \in UsedOf(hdr) : u # b => Reg(u) # Reg(b)
      BY <1>4
    <2> HIDE DEF Reg
    <2> QED
      BY <1>2, <2>1, <2>2, <2>3, <2>4
  <1>6. want' = want
    BY DEF Released
  <1> HIDE DEF r
  <1>7. \E s \in Live : Live' = Live \ {s} /\ want' = want
    BY <1>3, <1>5, <1>6
  <1> QED
    BY <1>7 DEF Promise!Release, Live

LEMMA PromiseStep ==
    HeapInv /\ HeapInv' /\ [Next]_vars => [Promise!AllocNext]_(Promise!allocVars)
  <1> SUFFICES ASSUME HeapInv, HeapInv', [Next]_vars
               PROVE  Promise!AllocNext \/ UNCHANGED Promise!allocVars
    OBVIOUS
  <1>1. ASSUME hdr' = hdr PROVE Live' = Live
    BY <1>1, LiveBefore, LiveAfter
  <1>2. ASSUME NEW c \in Callers, NEW bytes \in Requests, AllocEnter(c, bytes)
        PROVE  Promise!AllocNext
    <2>1. bytes \in Requests \ {0} /\ Live' = Live
      BY <1>1, <1>2 DEF AllocEnter, Refused
    <2>2. Promise!Ask(c, bytes)
      BY <1>2, <2>1 DEF AllocEnter, Promise!Ask, Live
    <2> QED
      BY <2>1, <2>2 DEF Promise!AllocNext
  <1>3. ASSUME NEW c \in Callers, AllocTake(c) PROVE Promise!AllocNext
    <2>1. want[c] # 0
      BY <1>3 DEF AllocTake
    <2>2. Promise!Grant(c)
      BY <1>3, <2>1, TakeKeeps, PromiseGrant
    <2> QED
      BY <2>2 DEF Promise!AllocNext
  <1>4. ASSUME NEW c \in Callers, AllocFail(c) PROVE Promise!AllocNext
    <2>1. Live' = Live /\ want[c] # 0
      BY <1>1, <1>4 DEF AllocFail
    <2>2. want[c] > 0
      BY <2>1, Rounded
    <2>3. Promise!Refuse(c)
      BY <1>4, <2>1, <2>2 DEF AllocFail, Promise!Refuse, Live
    <2> QED
      BY <2>3 DEF Promise!AllocNext
  <1>5. ASSUME NEW p \in Words, heap_free(p) PROVE Promise!AllocNext
    <2>1. \E r \in Live : Promise!Release(r)
      BY <1>5, FreeKeeps, PromiseRelease
    <2> QED
      BY <2>1 DEF Promise!AllocNext, Live
  <1>6. CASE UNCHANGED vars
    BY <1>1, <1>6 DEF vars, Promise!allocVars, Live
  <1> QED
    BY <1>2, <1>3, <1>4, <1>5, <1>6 DEF Next, heap_alloc

\* The list implements the allocator: an allocation is an aligned region inside the heap,
\* of at least the bytes asked for, that overlaps no live one; it stays live where it is
\* until it is freed; and freeing anything else changes nothing.
THEOREM HeapImplementsAllocator == Spec => ImplementsAllocator
  <1>1. Spec => []HeapInv
    BY HeapInitInv, HeapStep, PTL DEF Spec
  <1>2. Spec => Promise!AllocInit /\ [][Promise!AllocNext]_(Promise!allocVars)
    BY <1>1, PromiseInit, PromiseStep, PTL DEF Spec
  <1> QED
    BY <1>2 DEF ImplementsAllocator, Promise!AllocSpec

=============================================================================
