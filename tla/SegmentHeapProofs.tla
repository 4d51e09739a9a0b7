------------------------- MODULE SegmentHeapProofs -------------------------
(***************************************************************************)
(* Every operation of the segmented heap keeps the counts of live blocks,  *)
(* the upper level of the bitmaps and the allocation pointer in step with  *)
(* the bits of the blocks, for all sizes of words and segments.            *)
(*                                                                         *)
(* HeapExact is kept by all operations.  PointerReady says where the       *)
(* pointer stands between two allocations, OnFree where a search leaves    *)
(* it: the bits below it in its word are set, so that a word that is left  *)
(* is full, and a mask that has rotated to the first bit stands on a bit   *)
(* that is set.  FreeReady is about the free list, Room about the segment  *)
(* that a collection leaves the pointer in.                                *)
(***************************************************************************)
EXTENDS SegmentHeap, FiniteSetTheorems, SequenceTheorems, TLAPS

-----------------------------------------------------------------------------
(***************************************************************************)
(* Induction and minima, over sets of numbers.                             *)
(***************************************************************************)
LEMMA SomeMin ==
    ASSUME NEW S \in SUBSET Nat, S # {}
    PROVE  \E x \in S : \A y \in S : x <= y
<1> DEFINE R == OpToRel(<, Nat)
<1>1. IsWellFoundedOn(R, Nat)
  BY NatLessThanWellFounded
<1>2. R = {ss \in Nat \X Nat : ss[1] < ss[2]}
  BY DEF OpToRel
<1>3. PICK x \in S : \A y \in S : ~ (<<y, x>> \in R)
  <2> HIDE DEF R
  <2> QED
    BY <1>1, WFMin
<1>4. \A y \in S : ~ (y < x)
  BY <1>2, <1>3
<1> QED
  BY <1>4

LEMMA MinIsLeast ==
    ASSUME NEW S \in SUBSET Nat, S # {}
    PROVE  Min(S) \in S /\ \A y \in S : Min(S) <= y
  BY SomeMin DEF Min

LEMMA InductionInSet ==
    ASSUME NEW S \in SUBSET Nat, 0 \in S, \A k \in S : k + 1 \in S
    PROVE  S = Nat
<1> SUFFICES ASSUME Nat \ S # {} PROVE FALSE
  OBVIOUS
<1>1. PICK x \in Nat \ S : \A y \in Nat \ S : x <= y
  <2> DEFINE T == Nat \ S
  <2>1. T \in SUBSET Nat /\ T # {}
    OBVIOUS
  <2> HIDE DEF T
  <2>2. \E x \in T : \A y \in T : x <= y
    BY <2>1, SomeMin
  <2> QED
    BY <2>2 DEF T
<1>2. x - 1 \in Nat /\ x - 1 \in S
  BY <1>1
<1>3. x - 1 + 1 \in S
  BY <1>2
<1> QED
  BY <1>1, <1>3

-----------------------------------------------------------------------------
(***************************************************************************)
(* Kept.                                                                   *)
(***************************************************************************)
LEMMA KeptIsFunction ==
    ASSUME NEW s, NEW S, Len(s) \in Nat
    PROVE  \E f : /\ f[0] = <<>> /\ Kept(s, S) = f[Len(s)]
                  /\ \A k \in Nat : 0 < k /\ k <= Len(s) =>
                        f[k] = IF s[k] \in S THEN Append(f[k - 1], s[k]) ELSE f[k - 1]
<1> DEFINE Body(f, k) == IF k = 0 THEN <<>> ELSE IF s[k] \in S THEN Append(f[k - 1], s[k]) ELSE f[k - 1]
           Is(f, n) == f = [k \in 0..n |-> Body(f, k)]
           Good == {n \in Nat : \E f : Is(f, n)}
<1>1. 0 \in Good
  <2> DEFINE h == [k \in 0..0 |-> <<>>]
  <2>1. Is(h, 0)
    OBVIOUS
  <2> HIDE DEF Is, h
  <2>2. \E f : Is(f, 0)
    BY <2>1
  <2> QED
    BY <2>2
<1>2. ASSUME NEW n \in Good PROVE n + 1 \in Good
  <2>1. n \in Nat /\ \E f : Is(f, n)
    <3> HIDE DEF Is
    <3> QED
      OBVIOUS
  <2>2. PICK f : Is(f, n)
    BY <2>1
  <2>3. \A k \in 0..n : f[k] = Body(f, k)
    BY <2>2
  <2> DEFINE h == [k \in 0..n+1 |-> IF k = n + 1 THEN Body(f, n + 1) ELSE f[k]]
  <2>4. \A k \in 0..n : h[k] = f[k] /\ k \in 0..n+1
    <3> HIDE DEF Body
    <3> QED
      BY <2>1
  <2>5. h[n + 1] = Body(f, n + 1) /\ f[n] = h[n] /\ n + 1 - 1 = n
    <3> HIDE DEF Body
    <3> QED
      BY <2>1
  <2>6. \A k \in 0..n+1 : h[k] = Body(h, k)
    <3> HIDE DEF h
    <3> TAKE k \in 0..n+1
    <3>1. CASE k = n + 1
      BY <3>1, <2>1, <2>5
    <3>2. CASE k # n + 1
      <4>1. k \in 0..n /\ (k # 0 => k - 1 \in 0..n)
        BY <3>2, <2>1
      <4> QED
        BY <4>1, <2>3, <2>4
    <3> QED
      BY <3>1, <3>2
  <2>7. h = [k \in 0..n+1 |-> h[k]]
    OBVIOUS
  <2> HIDE DEF h
  <2>8. Is(h, n + 1)
    BY <2>6, <2>7
  <2> HIDE DEF Is
  <2> QED
    BY <2>1, <2>8
<1>3. Len(s) \in Good
  <2> HIDE DEF Good
  <2>1. Good = Nat
    <3>1. Good \in SUBSET Nat
      BY DEF Good
    <3> QED
      BY <1>1, <1>2, <3>1, InductionInSet
  <2> QED
    BY <2>1
<1> DEFINE f == CHOOSE f : Is(f, Len(s))
<1>4. Is(f, Len(s))
  BY <1>3
<1>5. Kept(s, S) = f[Len(s)]
  BY DEF Kept
<1> HIDE DEF f
<1>6. \A k \in 0..Len(s) : f[k] = Body(f, k)
  BY <1>4
<1>7. f[0] = <<>>
  BY <1>6
<1>8. \A k \in Nat : 0 < k /\ k <= Len(s) => f[k] = Body(f, k)
  BY <1>6
<1> QED
  BY <1>5, <1>7, <1>8

-----------------------------------------------------------------------------
(***************************************************************************)
(* Words of bits, and addresses.                                           *)
(***************************************************************************)
LEMMA Division ==
    ASSUME NEW a \in Nat, NEW n \in Nat \ {0}
    PROVE  /\ a \div n \in Nat /\ a % n \in Nat /\ a % n < n
           /\ a = (a \div n) * n + (a % n)
  OBVIOUS

LEMMA DivisionIsUnique ==
    ASSUME NEW a \in Nat, NEW n \in Nat \ {0}, NEW q \in Nat, q * n <= a, a < q * n + n
    PROVE  a \div n = q /\ a % n = a - q * n
<1> DEFINE d == a \div n
           m == a % n
<1>2. d \in Nat /\ m \in Nat /\ m < n /\ a = d * n + m
  BY Division
<1> HIDE DEF d, m
<1>3. d <= q
  <2> SUFFICES ASSUME d >= q + 1 PROVE FALSE
    BY <1>2
  <2>1. d * n >= q * n + n
    BY <1>2
  <2> QED
    BY <1>2, <2>1
<1>4. q <= d
  <2> SUFFICES ASSUME q >= d + 1 PROVE FALSE
    BY <1>2
  <2>1. q * n >= d * n + n
    BY <1>2
  <2> QED
    BY <1>2, <2>1
<1>5. d = q
  BY <1>2, <1>3, <1>4
<1>6. m = a - q * n
  BY <1>2, <1>5
<1> QED
  BY <1>5, <1>6 DEF d, m

LEMMA WordsFacts ==
    /\ Bits \in Nat /\ 1 <= Bits /\ Blocks \in Nat /\ 2 <= Blocks
    /\ Words \in Nat /\ 1 <= Words /\ Words <= Bits
    /\ Blocks <= Words * Bits
<1>1. Bits \in Nat \ {0} /\ Blocks \in Nat /\ Blocks >= 2 /\ Blocks <= Bits * Bits
  BY HeapAssumption
<1>2. \A n \in Nat, b \in Nat \ {0} : /\ n \div b \in Nat /\ (n \div b) * b <= n /\ n < (n \div b) * b + b
  OBVIOUS
<1> DEFINE n == Blocks + Bits - 1
<1>3. n \in Nat /\ Words = n \div Bits
  BY <1>1 DEF Words
<1>4. Words \in Nat /\ Words * Bits <= n /\ n < Words * Bits + Bits
  BY <1>1, <1>2, <1>3
<1>5. Words >= 1
  BY <1>1, <1>4
<1>6. Words <= Bits
  <2> SUFFICES ASSUME Words >= Bits + 1 PROVE FALSE
    BY <1>1, <1>4
  <2>1. Words * Bits >= Bits * Bits + Bits
    BY <1>1, <1>4
  <2> QED
    BY <2>1, <1>1, <1>4
<1> QED
  BY <1>1, <1>4, <1>5, <1>6

\* The bits of a word are numbers, and those of a word of a segment are bits of
\* the segment.
LEMMA WordBitsFacts ==
    ASSUME NEW w \in Nat
    PROVE  /\ w * Bits \in Nat
           /\ \A b \in Nat : b \in WordBits(w) <=> w * Bits <= b /\ b < w * Bits + Bits
           /\ WordBits(w) \subseteq Nat
           /\ \A b \in WordBits(w) : b % Bits = b - w * Bits
           /\ w < Words => \A b \in WordBits(w) : b < Words * Bits
<1>1. Bits \in Nat /\ 1 <= Bits /\ Words \in Nat
  BY WordsFacts
<1>2. w * Bits \in Nat
  BY <1>1
<1>3. \A b \in Nat : b \in WordBits(w) <=> w * Bits <= b /\ b < w * Bits + Bits
  BY <1>1, <1>2 DEF WordBits
<1>4. WordBits(w) \subseteq Nat
  BY <1>1, <1>2 DEF WordBits
<1>5. ASSUME NEW b \in WordBits(w) PROVE b % Bits = b - w * Bits
  <2>1. b \in Nat /\ Bits \in Nat \ {0} /\ w * Bits <= b /\ b < w * Bits + Bits
    BY <1>1, <1>3, <1>4
  <2> QED
    BY <2>1, DivisionIsUnique
<1>6. ASSUME w < Words, NEW b \in WordBits(w) PROVE b < Words * Bits
  <2>1. w * Bits + Bits <= Words * Bits
    <3>1. (w + 1) * Bits <= Words * Bits
      BY <1>1, <1>6
    <3> QED
      BY <1>1, <3>1
  <2> QED
    BY <1>1, <1>2, <1>3, <1>4, <1>6, <2>1
<1> QED
  BY <1>2, <1>3, <1>4, <1>5, <1>6

\* The address of a block tells its segment and its number.
LEMMA AddressFacts ==
    ASSUME NEW s \in Nat, 1 <= s, NEW b \in Nat, b < Blocks
    PROVE  /\ Address(s, b) \in Nat /\ SegmentOf(Address(s, b)) = s /\ IndexOf(Address(s, b)) = b
           /\ b # 0 => Address(s, b) # Null
<1>1. Blocks \in Nat /\ 2 <= Blocks
  BY WordsFacts
<1> DEFINE q == s - 1
<1>2. q \in Nat /\ Address(s, b) = q * Blocks + b
  BY <1>1 DEF Address
<1>3. q * Blocks \in Nat
  BY <1>1, <1>2
<1> HIDE DEF q
<1>4. Address(s, b) \div Blocks = q /\ Address(s, b) % Blocks = b
  <2> DEFINE a == Address(s, b)
  <2>1. Blocks \in Nat \ {0} /\ a \in Nat /\ q * Blocks <= a /\ a < q * Blocks + Blocks /\ b = a - q * Blocks
    BY <1>1, <1>2, <1>3
  <2> HIDE DEF a
  <2>2. a \div Blocks = q /\ a % Blocks = a - q * Blocks
    BY <1>2, <2>1, DivisionIsUnique
  <2> QED
    BY <2>1, <2>2 DEF a
<1>5. q + 1 = s
  BY <1>2 DEF q
<1> QED
  BY <1>1, <1>2, <1>3, <1>4, <1>5 DEF SegmentOf, IndexOf, Null

LEMMA NodeFacts ==
    ASSUME NEW o \in Nat
    PROVE  /\ SegmentOf(o) \in Nat /\ 1 <= SegmentOf(o)
           /\ IndexOf(o) \in Nat /\ IndexOf(o) < Blocks
           /\ o = Address(SegmentOf(o), IndexOf(o))
<1>1. Blocks \in Nat /\ 2 <= Blocks
  BY WordsFacts
<1> DEFINE d == o \div Blocks
           r == o % Blocks
<1>3. d \in Nat /\ r \in Nat /\ r < Blocks /\ o = d * Blocks + r
  BY <1>1, Division
<1> HIDE DEF d, r
<1>4. SegmentOf(o) = d + 1 /\ IndexOf(o) = r
  BY DEF SegmentOf, IndexOf, d, r
<1>5. Address(d + 1, r) = d * Blocks + r
  BY <1>1, <1>3 DEF Address
<1> QED
  BY <1>3, <1>4, <1>5

LEMMA NextBitFacts ==
    ASSUME NEW bm, NEW from \in Nat, NEW word, word \subseteq Nat
    PROVE  \/ NextBit(bm, from, word) = None /\ \A b \in word : b >= from => b \in bm
           \/ /\ NextBit(bm, from, word) # None
              /\ NextBit(bm, from, word) \in word /\ NextBit(bm, from, word) \notin bm
              /\ NextBit(bm, from, word) >= from
              /\ \A b \in word : b >= from /\ b < NextBit(bm, from, word) => b \in bm
<1> DEFINE clear == {b \in word : b >= from /\ b \notin bm}
<1>1. NextBit(bm, from, word) = IF clear = {} THEN None ELSE Min(clear)
  BY DEF NextBit
<1>2. clear \in SUBSET Nat
  OBVIOUS
<1>3. CASE clear = {}
  BY <1>1, <1>3
<1>4. CASE clear # {}
  <2>1. Min(clear) \in clear /\ \A y \in clear : Min(clear) <= y
    <3> HIDE DEF clear
    <3> QED
      BY <1>2, <1>4, MinIsLeast
  <2> DEFINE m == Min(clear)
  <2>2. m \in clear /\ m \in Nat /\ \A y \in clear : m <= y
    BY <2>1, <1>2
  <2>3. NextBit(bm, from, word) = m
    BY <1>1, <1>4
  <2> HIDE DEF m
  <2>4. \A b \in word : b >= from /\ b < m => b \in bm
    BY <2>2
  <2> QED
    BY <2>2, <2>3, <2>4 DEF None
<1> QED
  BY <1>3, <1>4

-----------------------------------------------------------------------------
(***************************************************************************)
(* The invariant of a heap.                                                *)
(***************************************************************************)
Fixed == {0} \cup NoBlock

Segments == [bm0 : SUBSET Nat, bm1 : SUBSET Nat, live : Nat]
Pointers == [seg : Nat, idx : Nat, mask : Nat \cup {None}, block : Nat]
Heaps    == [segs : Seq(Segments), pool : Nat, free : Seq(Nat), p : Pointers, ok : BOOLEAN]

\* The words that level 1 passes over are full.
Level1Exact(bm0, bm1) == NoWord \subseteq bm1 /\ \A w \in bm1 : w < Words => WordFull(bm0, w)

SegExact(seg) ==
    /\ IsFiniteSet(seg.bm0) /\ Fixed \subseteq seg.bm0
    /\ seg.live = Cardinality(seg.bm0 \ Fixed)
    /\ Level1Exact(seg.bm0, seg.bm1)

HeapExact(h) ==
    /\ h \in Heaps
    /\ \A s \in DOMAIN h.segs : SegExact(h.segs[s])
    /\ \A k \in DOMAIN h.free : h.free[k] \in DOMAIN h.segs
    /\ h.p.seg = 0 \/ h.p.seg \in DOMAIN h.segs

\* The pointer stands on a bit, and those before it in its word are set.
Bit(p) == p.idx * Bits + p.mask

Standing(h) ==
    /\ h.p.seg \in DOMAIN h.segs
    /\ h.p.idx < Words /\ h.p.mask # None /\ h.p.mask < Bits
    /\ \A b \in Nat : h.p.idx * Bits <= b /\ b < Bit(h.p) => b \in h.segs[h.p.seg].bm0

\* The address of the pointer is that of its bit.
Pointing(h) == h.p.block = Address(h.p.seg, Bit(h.p))

PointerReady(h) == h.p.seg = 0 \/ (Standing(h) /\ (Bit(h.p) \notin h.segs[h.p.seg].bm0 => Pointing(h)))

OnFree(h) == Standing(h) /\ Bit(h.p) \notin h.segs[h.p.seg].bm0 /\ Pointing(h)

\* The nodes whose bit is set.
IsNode(o, h)    == o \in Nat /\ IndexOf(o) # 0 /\ SegmentOf(o) \in DOMAIN h.segs
MarkedIn(h)     == {o \in Nat : IsNode(o, h) /\ Marked(h, o)}

\* A search changes level 1 and the pointer only.
SameBlocks(h, g) ==
    /\ Len(g.segs) = Len(h.segs) /\ DOMAIN g.segs = DOMAIN h.segs
    /\ \A s \in DOMAIN h.segs : g.segs[s].bm0 = h.segs[s].bm0

LEMMA FixedFacts ==
    /\ IsFiniteSet(Fixed) /\ Fixed \in SUBSET Nat /\ 0 \in Fixed
    /\ \A b \in Nat : b < Words * Bits /\ b \notin Fixed => b < Blocks /\ b # 0
    /\ \A b \in Fixed : b = 0 \/ b >= Blocks
<1>1. Bits \in Nat /\ Blocks \in Nat /\ Words \in Nat
  BY WordsFacts
<1>2. Words * Bits \in Nat
  BY <1>1
<1> DEFINE last == Words * Bits - 1
<1>3. last \in Int /\ NoBlock = Blocks..last
  BY <1>2 DEF NoBlock
<1>4. \A b \in Nat : b < Words * Bits <=> b <= last
  BY <1>2
<1> HIDE DEF last
<1>5. IsFiniteSet(NoBlock)
  BY <1>1, <1>3, FS_Interval
<1>6. IsFiniteSet(Fixed)
  BY <1>5, FS_AddElement DEF Fixed
<1>7. NoBlock \in SUBSET Nat /\ \A b \in NoBlock : b >= Blocks
  BY <1>1, <1>3
<1>8. \A b \in Nat : b < Words * Bits /\ b \notin Fixed => b < Blocks /\ b # 0
  BY <1>1, <1>3, <1>4 DEF Fixed
<1> QED
  BY <1>6, <1>7, <1>8 DEF Fixed

LEMMA NoWordFacts ==
    /\ NoWord \in SUBSET Nat
    /\ \A w \in Nat : w < Bits /\ w \notin NoWord => w < Words
    /\ \A w \in NoWord : ~ (w < Words)
<1>1. Bits \in Nat /\ Words \in Nat
  BY WordsFacts
<1> QED
  BY <1>1 DEF NoWord

LEMMA ClearedSegment ==
    BITMAP_SET_LIMIT \in Segments /\ SegExact(BITMAP_SET_LIMIT) /\ BITMAP_SET_LIMIT.bm0 = Fixed
<1>1. BITMAP_SET_LIMIT = [bm0 |-> Fixed, bm1 |-> NoWord, live |-> 0]
  BY DEF BITMAP_SET_LIMIT, Fixed
<1>2. BITMAP_SET_LIMIT \in Segments
  BY <1>1, FixedFacts, NoWordFacts DEF Segments
<1>3. Cardinality(Fixed \ Fixed) = 0
  BY FS_EmptySet
<1>4. Level1Exact(Fixed, NoWord)
  BY NoWordFacts DEF Level1Exact
<1> QED
  BY <1>1, <1>2, <1>3, <1>4, FixedFacts DEF SegExact

LEMMA LastBits ==
    ASSUME NEW h, HeapExact(h), NEW s \in DOMAIN h.segs
    PROVE  /\ h.segs[s] \in Segments /\ SegExact(h.segs[s])
           /\ s \in Nat /\ 1 <= s /\ s <= Len(h.segs)
           /\ Len(h.segs) \in Nat
  BY DEF HeapExact, Heaps

-----------------------------------------------------------------------------
(***************************************************************************)
(* The search.                                                             *)
(***************************************************************************)
LEMMA SearchedWords ==
    ASSUME NEW seg \in Segments, SegExact(seg), NEW idx \in Nat, idx < Words, WordFull(seg.bm0, idx)
    PROVE  LET r == searchUnfilledNode(seg, idx)
           IN  /\ r.bm1 \in SUBSET Nat /\ Level1Exact(seg.bm0, r.bm1)
               /\ \/ r.word = None
                  \/ r.word \in Nat /\ r.word < Words /\ ~WordFull(seg.bm0, r.word)
<1> DEFINE r     == searchUnfilledNode(seg, idx)
           open  == {w \in 0..Bits - 1 : w \notin seg.bm1 \cup {idx} /\ ~WordFull(seg.bm0, w)}
           found == IF open = {} THEN None ELSE Min(open)
           past  == {w \in 0..Bits - 1 : found = None \/ w < found}
<1>1. r = [word |-> found, bm1 |-> seg.bm1 \cup {idx} \cup past]
  BY DEF searchUnfilledNode
<1>2. seg.bm1 \in SUBSET Nat /\ NoWord \subseteq seg.bm1 /\ \A w \in seg.bm1 : w < Words => WordFull(seg.bm0, w)
  BY DEF SegExact, Level1Exact, Segments
<1>3. Bits \in Nat /\ Words \in Nat /\ None = -1
  BY WordsFacts DEF None
<1>4. open \in SUBSET Nat /\ \A w \in open : w < Words /\ ~WordFull(seg.bm0, w)
  BY <1>2, <1>3, NoWordFacts
<1>5. (found = None /\ open = {}) \/ (found \in open /\ \A w \in open : found <= w)
  <2> HIDE DEF open
  <2> QED
    BY <1>4, MinIsLeast
<1>6. \A w \in past : w \in Nat /\ w \notin open
  <2> HIDE DEF open
  <2>1. found = None \/ found \in Nat
    BY <1>4, <1>5
  <2> HIDE DEF found
  <2> QED
    BY <1>3, <1>4, <1>5, <2>1
<1>7. \A w \in past : w \in seg.bm1 \/ w = idx \/ WordFull(seg.bm0, w)
  BY <1>6
<1> HIDE DEF r, open, found, past
<1>8. r.word = found /\ r.bm1 = seg.bm1 \cup {idx} \cup past
  BY <1>1
<1>9. Level1Exact(seg.bm0, r.bm1)
  BY <1>2, <1>7, <1>8 DEF Level1Exact
<1>10. r.bm1 \in SUBSET Nat
  BY <1>2, <1>6, <1>8
<1> QED
  BY <1>4, <1>5, <1>8, <1>9, <1>10 DEF r

WithBm1(h, s, bm1) == [h.segs EXCEPT ![s].bm1 = bm1]

LEMMA WithLevel1 ==
    ASSUME NEW h, HeapExact(h), NEW s \in DOMAIN h.segs, NEW bm1 \in SUBSET Nat, Level1Exact(h.segs[s].bm0, bm1),
           NEW segs, segs = WithBm1(h, s, bm1)
    PROVE  /\ segs \in Seq(Segments) /\ Len(segs) = Len(h.segs) /\ DOMAIN segs = DOMAIN h.segs
           /\ \A t \in DOMAIN segs : SegExact(segs[t]) /\ segs[t].bm0 = h.segs[t].bm0
<1>1. h.segs \in Seq(Segments) /\ s \in 1..Len(h.segs)
  BY DEF HeapExact, Heaps
<1> DEFINE new == [h.segs[s] EXCEPT !.bm1 = bm1]
<1>2. h.segs[s] \in Segments /\ SegExact(h.segs[s])
  BY LastBits
<1>3. new \in Segments /\ new.bm0 = h.segs[s].bm0 /\ new.live = h.segs[s].live /\ new.bm1 = bm1
  BY <1>2 DEF Segments
<1>4. SegExact(new)
  BY <1>2, <1>3 DEF SegExact
<1> HIDE DEF new
<1>5. segs = [h.segs EXCEPT ![s] = new]
  BY DEF new, WithBm1
<1>6. segs \in Seq(Segments) /\ Len(segs) = Len(h.segs) /\ DOMAIN segs = DOMAIN h.segs
  BY <1>1, <1>3, <1>5
<1>7. \A t \in DOMAIN h.segs : segs[t] = IF t = s THEN new ELSE h.segs[t]
  BY <1>5
<1> QED
  BY <1>3, <1>4, <1>6, <1>7, LastBits

\* The search from a bit that is set, or from any bit of the word.
LEMMA Searched ==
    ASSUME NEW h, HeapExact(h), Standing(h)
    PROVE  LET g == findNextFreeNode(h)
           IN  /\ HeapExact(g) /\ SameBlocks(h, g)
               /\ g.pool = h.pool /\ g.free = h.free /\ g.ok = h.ok /\ g.p.seg = h.p.seg
               /\ Found(g) => OnFree(g)
<1> DEFINE g    == findNextFreeNode(h)
           p    == h.p
           s    == p.seg
           seg  == h.segs[s]
           base == p.idx * Bits
           here == NextBit(seg.bm0, Bit(p), WordBits(p.idx))
           next == searchUnfilledNode(seg, p.idx)
<1>1. h \in Heaps /\ p \in Pointers /\ s \in DOMAIN h.segs /\ s # 0 /\ p.mask \in Nat /\ p.idx \in Nat
  BY DEF HeapExact, Heaps, Pointers, Standing
<1>2. seg \in Segments /\ SegExact(seg) /\ s \in Nat /\ 1 <= s /\ s <= Len(h.segs) /\ Len(h.segs) \in Nat
  BY <1>1, LastBits
<1>3. seg.bm0 \in SUBSET Nat /\ Fixed \subseteq seg.bm0
  BY <1>2 DEF SegExact, Segments
<1>4. Bits \in Nat /\ 1 <= Bits /\ Words \in Nat /\ p.idx < Words /\ p.mask < Bits
  BY <1>1, WordsFacts DEF Standing
<1>5. /\ base \in Nat /\ Bit(p) = base + p.mask
      /\ \A b \in Nat : b \in WordBits(p.idx) <=> base <= b /\ b < base + Bits
      /\ WordBits(p.idx) \in SUBSET Nat
      /\ \A b \in WordBits(p.idx) : b % Bits = b - base /\ b < Words * Bits
  BY <1>1, <1>4, WordBitsFacts DEF Bit
<1>6. \A b \in Nat : base <= b /\ b < Bit(p) => b \in seg.bm0
  BY DEF Standing
<1>7. g = IF here # None THEN [h EXCEPT !.p.mask = here % Bits, !.p.block = Address(s, here)]
          ELSE IF next.word = None THEN [h EXCEPT !.p.mask = None, !.segs[s].bm1 = next.bm1]
          ELSE LET b == NextBit(seg.bm0, next.word * Bits, WordBits(next.word))
               IN  [h EXCEPT !.segs[s].bm1 = next.bm1, !.ok = @ /\ b # None,
                             !.p.idx = next.word, !.p.mask = b % Bits, !.p.block = Address(s, b)]
  <2>1. (IF p.mask = None THEN None ELSE NextBit(seg.bm0, p.idx * Bits + p.mask, WordBits(p.idx))) = here
    BY <1>1 DEF Bit, Standing
  <2>2. p.seg # 0
    BY <1>1
  <2> HIDE DEF here
  <2> QED
    BY ONLY <2>1, <2>2, Zenon DEF findNextFreeNode, g, p, s, seg, next
<1>8. None = -1
  BY DEF None
<1>11. SUFFICES /\ HeapExact(g) /\ SameBlocks(h, g)
                /\ g.pool = h.pool /\ g.free = h.free /\ g.ok = h.ok /\ g.p.seg = h.p.seg
                /\ Found(g) => OnFree(g)
  OBVIOUS
<1>12. Bit(p) \in Nat
  BY <1>1, <1>5
<1>13. \/ here = None /\ \A b \in WordBits(p.idx) : b >= Bit(p) => b \in seg.bm0
       \/ /\ here # None /\ here \in WordBits(p.idx) /\ here \notin seg.bm0 /\ here >= Bit(p)
          /\ \A b \in WordBits(p.idx) : b >= Bit(p) /\ b < here => b \in seg.bm0
  <2> DEFINE from == Bit(p)
             bm   == seg.bm0
             word == WordBits(p.idx)
  <2>1. from \in Nat /\ word \subseteq Nat
    BY <1>5, <1>12
  <2> HIDE DEF from, bm, word
  <2>2. \/ NextBit(bm, from, word) = None /\ \A b \in word : b >= from => b \in bm
        \/ /\ NextBit(bm, from, word) # None
           /\ NextBit(bm, from, word) \in word /\ NextBit(bm, from, word) \notin bm
           /\ NextBit(bm, from, word) >= from
           /\ \A b \in word : b >= from /\ b < NextBit(bm, from, word) => b \in bm
    BY <2>1, NextBitFacts
  <2> QED
    BY <2>2 DEF from, bm, word, here
<1> HIDE DEF g, base, here, next
<1>9. CASE here # None
  <2>1. /\ here \in WordBits(p.idx) /\ here \notin seg.bm0 /\ here >= Bit(p)
        /\ \A b \in WordBits(p.idx) : b >= Bit(p) /\ b < here => b \in seg.bm0
    BY <1>9, <1>13
  <2> DEFINE m == here % Bits
  <2>2. here \in Nat /\ m = here - base /\ m \in Nat /\ m < Bits /\ here < Words * Bits
    BY <2>1, <1>5, <1>4
  <2> HIDE DEF m
  <2>3. here < Blocks
    BY <2>1, <2>2, <1>3, FixedFacts
  <2>4. Address(s, here) \in Nat
    BY <1>2, <2>2, <2>3, AddressFacts
  <2>5. g = [h EXCEPT !.p = [@ EXCEPT !.mask = m, !.block = Address(s, here)]]
    BY <1>7, <1>9 DEF m
  <2> DEFINE q == [p EXCEPT !.mask = m, !.block = Address(s, here)]
  <2>6. q \in Pointers /\ q.seg = s /\ q.idx = p.idx /\ q.mask = m /\ q.block = Address(s, here)
    BY <1>1, <2>2, <2>4 DEF Pointers
  <2>7. g \in Heaps /\ g.segs = h.segs /\ g.free = h.free /\ g.pool = h.pool /\ g.ok = h.ok /\ g.p = q
    BY <2>5, <2>6, <1>1 DEF Heaps
  <2> HIDE DEF q
  <2>8. Bit(g.p) = here
    BY <2>2, <2>6, <2>7, <1>5 DEF Bit, base
  <2>9. HeapExact(g) /\ SameBlocks(h, g)
    BY <2>6, <2>7, <1>1 DEF HeapExact, SameBlocks
  <2>10. \A b \in Nat : base <= b /\ b < here => b \in seg.bm0
    <3> TAKE b \in Nat
    <3> HAVE base <= b /\ b < here
    <3>1. b \in WordBits(p.idx)
      BY <1>5, <2>2, <1>4
    <3>2. Bit(p) \in Nat
      BY <1>5, <1>1
    <3> QED
      BY <3>1, <3>2, <2>1, <1>6
  <2>11. OnFree(g)
    BY <2>1, <2>2, <2>6, <2>7, <2>8, <2>10, <1>1, <1>4, <1>8 DEF OnFree, Standing, Pointing, base
  <2> QED
    BY <2>6, <2>7, <2>9, <2>11
<1>10. CASE here = None
  <2>1. WordFull(seg.bm0, p.idx)
    <3>1. \A b \in WordBits(p.idx) : b >= Bit(p) => b \in seg.bm0
      BY <1>10, <1>13
    <3>2. \A b \in WordBits(p.idx) : b \in Nat /\ base <= b /\ Bit(p) \in Nat
      BY <1>5, <1>1
    <3> QED
      BY <3>1, <3>2, <1>6 DEF WordFull
  <2>2. /\ next.bm1 \in SUBSET Nat /\ Level1Exact(seg.bm0, next.bm1)
        /\ \/ next.word = None
           \/ next.word \in Nat /\ next.word < Words /\ ~WordFull(seg.bm0, next.word)
    BY <2>1, <1>1, <1>2, <1>4, SearchedWords DEF next
  <2> DEFINE segs == [h.segs EXCEPT ![s].bm1 = next.bm1]
  <2>3. /\ segs \in Seq(Segments) /\ Len(segs) = Len(h.segs) /\ DOMAIN segs = DOMAIN h.segs
        /\ \A t \in DOMAIN segs : SegExact(segs[t]) /\ segs[t].bm0 = h.segs[t].bm0
    <3> HIDE DEF segs
    <3>1. segs = WithBm1(h, s, next.bm1)
      BY DEF segs, WithBm1
    <3>2. HeapExact(h) /\ s \in DOMAIN h.segs /\ next.bm1 \in SUBSET Nat /\ Level1Exact(h.segs[s].bm0, next.bm1)
      BY <2>2, <1>1
    <3> QED
      BY ONLY <3>1, <3>2, WithLevel1
  <2>4. CASE next.word = None
    <3> DEFINE q == [p EXCEPT !.mask = None]
    <3>1. q \in Pointers /\ q.seg = s /\ q.mask = None
      BY <1>1 DEF Pointers
    <3>2. g = [h EXCEPT !.p = q, !.segs = segs]
      BY <1>7, <1>10, <2>4, <1>1 DEF Heaps
    <3> HIDE DEF segs, q
    <3>3. g \in Heaps /\ g.segs = segs /\ g.free = h.free /\ g.pool = h.pool /\ g.ok = h.ok /\ g.p = q
      BY <3>1, <3>2, <2>3, <1>1 DEF Heaps
    <3>4. HeapExact(g) /\ SameBlocks(h, g) /\ ~Found(g)
      BY <3>1, <3>3, <2>3, <1>1 DEF HeapExact, SameBlocks, Found
    <3> QED
      BY <3>1, <3>3, <3>4
  <2>5. CASE next.word # None
    <3> DEFINE w == next.word
               b == NextBit(seg.bm0, w * Bits, WordBits(w))
               first == w * Bits
    <3>1. w \in Nat /\ w < Words /\ ~WordFull(seg.bm0, w)
      BY <2>2, <2>5
    <3>2. /\ first \in Nat /\ WordBits(w) \in SUBSET Nat
          /\ \A x \in Nat : x \in WordBits(w) <=> first <= x /\ x < first + Bits
          /\ \A x \in WordBits(w) : x % Bits = x - first /\ x < Words * Bits
      <4> HIDE DEF w
      <4> QED
        BY <3>1, WordBitsFacts
    <3> HIDE DEF w
    <3>3. \/ b = None /\ \A x \in WordBits(w) : x >= first => x \in seg.bm0
          \/ /\ b # None /\ b \in WordBits(w) /\ b \notin seg.bm0 /\ b >= first
             /\ \A x \in WordBits(w) : x >= first /\ x < b => x \in seg.bm0
      <4> DEFINE from == first
                 bm   == seg.bm0
                 word == WordBits(w)
      <4>1. from \in Nat /\ word \subseteq Nat
        BY <3>2
      <4> HIDE DEF from, bm, word
      <4>2. \/ NextBit(bm, from, word) = None /\ \A x \in word : x >= from => x \in bm
            \/ /\ NextBit(bm, from, word) # None
               /\ NextBit(bm, from, word) \in word /\ NextBit(bm, from, word) \notin bm
               /\ NextBit(bm, from, word) >= from
               /\ \A x \in word : x >= from /\ x < NextBit(bm, from, word) => x \in bm
        BY <4>1, NextBitFacts
      <4> QED
        BY <4>2 DEF from, bm, word
    <3>4. /\ b # None /\ b \in WordBits(w) /\ b \notin seg.bm0 /\ b >= first
          /\ \A x \in WordBits(w) : x >= first /\ x < b => x \in seg.bm0
      <4>1. \A x \in WordBits(w) : x >= first
        BY <3>2
      <4> QED
        BY <3>1, <3>3, <4>1 DEF WordFull
    <3> HIDE DEF b
    <3> DEFINE m == b % Bits
    <3>5. b \in Nat /\ m = b - first /\ m \in Nat /\ m < Bits /\ b < Words * Bits
      BY <3>2, <3>4, <1>4
    <3> HIDE DEF m
    <3>6. b < Blocks /\ Address(s, b) \in Nat
      <4>1. b < Blocks
        BY <3>4, <3>5, <1>3, FixedFacts
      <4> QED
        BY <4>1, <3>5, <1>2, AddressFacts
    <3> DEFINE q == [p EXCEPT !.idx = w, !.mask = m, !.block = Address(s, b)]
    <3>7. q \in Pointers /\ q.seg = s /\ q.idx = w /\ q.mask = m /\ q.block = Address(s, b)
      BY <1>1, <3>1, <3>5, <3>6 DEF Pointers
    <3> DEFINE ok == h.ok /\ b # None
    <3>8. ok = h.ok
      BY <3>4, <1>1 DEF Heaps
    <3>9. g = [h EXCEPT !.p = q, !.segs = segs, !.ok = ok]
      <4> HIDE DEF ok
      <4>1. g = [h EXCEPT !.segs[s].bm1 = next.bm1, !.ok = @ /\ b # None,
                          !.p.idx = w, !.p.mask = m, !.p.block = Address(s, b)]
        BY <1>7, <1>10, <2>5 DEF b, w, m
      <4> QED
        BY <4>1, <1>1 DEF Heaps, ok
    <3> HIDE DEF segs, q, ok
    <3>10. g \in Heaps /\ g.segs = segs /\ g.free = h.free /\ g.pool = h.pool /\ g.ok = h.ok /\ g.p = q
      BY <3>7, <3>8, <3>9, <2>3, <1>1 DEF Heaps
    <3>11. HeapExact(g) /\ SameBlocks(h, g)
      BY <3>7, <3>10, <2>3, <1>1 DEF HeapExact, SameBlocks
    <3>12. Bit(q) = b
      BY <3>5, <3>7, <3>2 DEF Bit
    <3>13. segs[s].bm0 = seg.bm0
      BY <2>3, <1>1
    <3>14. \A x \in Nat : first <= x /\ x < b => x \in seg.bm0
      BY <3>2, <3>4, <3>5, <1>4
    <3>15. OnFree(g)
      BY <3>1, <3>4, <3>5, <3>7, <3>10, <3>12, <3>13, <3>14, <2>3, <1>1, <1>8 DEF OnFree, Standing, Pointing
    <3> QED
      BY <3>7, <3>10, <3>11, <3>15
  <2> QED
    BY <2>4, <2>5
<1> QED
  BY <1>9, <1>10

-----------------------------------------------------------------------------
(***************************************************************************)
(* Segments that are fetched or new.                                       *)
(***************************************************************************)
\* New segments have no marked block.
Grown(h, g) ==
    /\ Len(h.segs) <= Len(g.segs)
    /\ \A s \in DOMAIN g.segs : g.segs[s].bm0 = IF s \in DOMAIN h.segs THEN h.segs[s].bm0 ELSE Fixed

LEMMA SegmentNumbers ==
    ASSUME NEW h, HeapExact(h)
    PROVE  Len(h.segs) \in Nat /\ DOMAIN h.segs = 1..Len(h.segs) /\ h.segs \in Seq(Segments)
  BY DEF HeapExact, Heaps

LEMMA GrownIsTransitive ==
    ASSUME NEW h, NEW g, NEW f, HeapExact(h), HeapExact(g), HeapExact(f), Grown(h, g), Grown(g, f)
    PROVE  Grown(h, f)
  BY SegmentNumbers DEF Grown

LEMMA SameIsGrown ==
    ASSUME NEW h, NEW g, HeapExact(h), HeapExact(g), SameBlocks(h, g)
    PROVE  Grown(h, g)
  BY SegmentNumbers DEF Grown, SameBlocks

LEMMA GrownMarks ==
    ASSUME NEW h, NEW g, HeapExact(h), HeapExact(g), Grown(h, g)
    PROVE  MarkedIn(g) = MarkedIn(h) /\ \A o : IsNode(o, h) => IsNode(o, g)
<1>1. /\ Len(h.segs) \in Nat /\ DOMAIN h.segs = 1..Len(h.segs)
      /\ Len(g.segs) \in Nat /\ DOMAIN g.segs = 1..Len(g.segs) /\ Len(h.segs) <= Len(g.segs)
  BY SegmentNumbers DEF Grown
<1>2. DOMAIN h.segs \subseteq DOMAIN g.segs
  BY <1>1
<1>3. ASSUME NEW o \in Nat, IsNode(o, g), SegmentOf(o) \notin DOMAIN h.segs PROVE ~Marked(g, o)
  <2>1. IndexOf(o) \in Nat /\ IndexOf(o) < Blocks /\ IndexOf(o) # 0 /\ Blocks \in Nat
    BY <1>3, NodeFacts, WordsFacts DEF IsNode
  <2>2. IndexOf(o) \notin Fixed
    BY <2>1, FixedFacts
  <2> QED
    BY <2>2, <1>3 DEF Grown, Marked, IsNode
<1>4. ASSUME NEW o \in Nat, IsNode(o, h) PROVE IsNode(o, g) /\ (Marked(g, o) <=> Marked(h, o))
  BY <1>2, <1>4 DEF Grown, Marked, IsNode
<1>5. ASSUME NEW o \in Nat, IsNode(o, g), SegmentOf(o) \in DOMAIN h.segs PROVE IsNode(o, h)
  BY <1>5 DEF IsNode
<1>6. \A o : IsNode(o, h) => o \in Nat
  BY DEF IsNode
<1> QED
  BY <1>3, <1>4, <1>5, <1>6 DEF MarkedIn

LEMMA HeaderBit ==
    ASSUME NEW h, HeapExact(h), NEW s \in DOMAIN h.segs, NEW block \in Nat, h.p = Pointer(s, block)
    PROVE  Standing(h) /\ PointerReady(h)
<1>1. h.segs[s] \in Segments /\ SegExact(h.segs[s])
  BY LastBits
<1>2. 0 \in h.segs[s].bm0
  BY <1>1, FixedFacts DEF SegExact
<1>3. h.p = [seg |-> s, idx |-> 0, mask |-> 0, block |-> block]
  BY DEF Pointer
<1>4. Bits \in Nat /\ 1 <= Bits /\ Words \in Nat /\ 1 <= Words
  BY WordsFacts
<1>5. Bit(h.p) = 0 /\ h.p.idx * Bits = 0
  BY <1>3, <1>4 DEF Bit
<1>6. Standing(h)
  BY <1>3, <1>4, <1>5 DEF Standing, None
<1> QED
  BY <1>2, <1>3, <1>5, <1>6 DEF PointerReady

LEMMA Fetched ==
    ASSUME NEW h, HeapExact(h), h.free # <<>>
    PROVE  LET g == fetchSegment(h)
           IN  /\ HeapExact(g) /\ SameBlocks(h, g) /\ g.pool = h.pool
               /\ Standing(g) /\ PointerReady(g) /\ Len(g.free) = Len(h.free) - 1
<1> DEFINE g == fetchSegment(h)
           p == Pointer(Head(h.free), h.p.block)
<1>1. h \in Heaps /\ h.free \in Seq(Nat) /\ h.p \in Pointers
  BY DEF HeapExact, Heaps
<1>2. Head(h.free) = h.free[1] /\ 1 \in DOMAIN h.free /\ Len(h.free) \in Nat
  BY <1>1
<1>3. Head(h.free) \in DOMAIN h.segs /\ Head(h.free) \in Nat
  BY <1>1, <1>2 DEF HeapExact
<1>4. /\ Tail(h.free) \in Seq(Nat) /\ Len(Tail(h.free)) = Len(h.free) - 1
      /\ \A k \in DOMAIN Tail(h.free) : k + 1 \in DOMAIN h.free /\ Tail(h.free)[k] = h.free[k + 1]
  BY <1>1
<1>5. p \in Pointers /\ p.seg = Head(h.free)
  BY <1>1, <1>3 DEF Pointers, Pointer
<1>6. g = [h EXCEPT !.free = Tail(@), !.p = p]
  BY DEF fetchSegment
<1> HIDE DEF g, p
<1>7. g \in Heaps /\ g.free = Tail(h.free) /\ g.p = p /\ g.segs = h.segs /\ g.pool = h.pool
  BY <1>1, <1>4, <1>5, <1>6 DEF Heaps
<1>8. HeapExact(g) /\ SameBlocks(h, g)
  BY <1>3, <1>4, <1>5, <1>7 DEF HeapExact, SameBlocks
<1>9. h.p.block \in Nat
  BY <1>1 DEF Pointers
<1>10. Standing(g) /\ PointerReady(g)
  BY <1>3, <1>7, <1>8, <1>9, HeaderBit DEF p
<1> QED
  BY <1>4, <1>7, <1>8, <1>10 DEF g

LEMMA SegmentBegun ==
    ASSUME NEW h, HeapExact(h), h.pool # 0
    PROVE  LET g == newSegment(h) IN HeapExact(g) /\ Grown(h, g) /\ Standing(g) /\ PointerReady(g)
<1> DEFINE g == newSegment(h)
           s == Len(h.segs) + 1
           p == Pointer(s, Address(s, 1))
           segs == Append(h.segs, BITMAP_SET_LIMIT)
           ok == h.ok /\ h.free = <<>>
<1>1. h \in Heaps /\ h.segs \in Seq(Segments) /\ Len(h.segs) \in Nat /\ h.pool \in Nat /\ DOMAIN h.segs = 1..Len(h.segs)
  BY DEF HeapExact, Heaps
<1>2. s \in Nat /\ 1 <= s /\ s = Len(h.segs) + 1
  BY <1>1
<1>3. Address(s, 1) \in Nat
  <2> HIDE DEF s
  <2>1. 1 < Blocks /\ Blocks \in Nat
    BY WordsFacts
  <2> QED
    BY <1>2, <2>1, AddressFacts
<1>4. segs \in Seq(Segments) /\ Len(segs) = Len(h.segs) + 1 /\ DOMAIN segs = 1..(Len(h.segs) + 1)
  BY <1>1, ClearedSegment
<1>5. segs[s] = BITMAP_SET_LIMIT /\ \A t \in DOMAIN h.segs : segs[t] = h.segs[t]
  BY <1>1
<1>6. ok \in BOOLEAN
  OBVIOUS
<1>7. p \in Pointers /\ p.seg = s
  BY <1>2, <1>3 DEF Pointers, Pointer
<1>8. g = [h EXCEPT !.ok = ok, !.segs = segs, !.pool = h.pool - 1, !.p = p]
  <2>1. g = [h EXCEPT !.ok = @ /\ h.free = <<>>,
                      !.segs = IF h.pool = 0 THEN @ ELSE Append(@, BITMAP_SET_LIMIT),
                      !.pool = IF @ = 0 THEN 0 ELSE @ - 1,
                      !.p = IF h.pool = 0 THEN @ ELSE p]
    BY ONLY Zenon DEF newSegment, g, s, p
  <2> HIDE DEF g, p
  <2> QED
    BY <2>1, <1>1 DEF Heaps
<1> HIDE DEF g, s, p, segs, ok
<1>9. g \in Heaps /\ g.segs = segs /\ g.free = h.free /\ g.p = p
  <2> DEFINE pool == h.pool - 1
  <2>1. pool \in Nat
    BY <1>1
  <2>2. g = [h EXCEPT !.ok = ok, !.segs = segs, !.pool = pool, !.p = p]
    BY <1>8
  <2> HIDE DEF pool
  <2>3. h \in Heaps /\ segs \in Seq(Segments) /\ p \in Pointers
    BY <1>1, <1>4, <1>7
  <2> QED
    BY ONLY <2>1, <2>2, <2>3, <1>6 DEF Heaps
<1>10. \A t \in DOMAIN segs : t = s \/ t \in DOMAIN h.segs
  BY <1>1, <1>2, <1>4
<1>11. s \in DOMAIN segs /\ s \notin DOMAIN h.segs /\ DOMAIN h.segs \subseteq DOMAIN segs
  BY <1>1, <1>2, <1>4
<1>12. HeapExact(g)
  BY <1>5, <1>7, <1>9, <1>10, <1>11, ClearedSegment DEF HeapExact
<1>13. Grown(h, g)
  BY <1>1, <1>4, <1>5, <1>9, <1>10, <1>11, ClearedSegment DEF Grown
<1>14. Standing(g) /\ PointerReady(g)
  BY <1>3, <1>9, <1>11, <1>12, HeaderBit DEF p
<1> QED
  BY <1>12, <1>13, <1>14 DEF g

LEMMA NoSegmentLeft ==
    ASSUME NEW h, HeapExact(h), h.pool = 0
    PROVE  HeapExact(newSegment(h)) /\ SameBlocks(h, newSegment(h)) /\ newSegment(h).p = h.p
<1> DEFINE g  == newSegment(h)
           ok == h.ok /\ h.free = <<>>
<1>1. h \in Heaps
  BY DEF HeapExact
<1>2. ok \in BOOLEAN
  OBVIOUS
<1>3. g = [h EXCEPT !.ok = ok, !.segs = h.segs, !.pool = 0, !.p = h.p]
  BY DEF newSegment
<1> HIDE DEF ok, g
<1>4. g \in Heaps /\ g.segs = h.segs /\ g.free = h.free /\ g.p = h.p
  BY <1>1, <1>2, <1>3 DEF Heaps
<1>5. HeapExact(g) /\ SameBlocks(h, g) /\ g.p = h.p
  BY <1>4 DEF HeapExact, SameBlocks
<1> QED
  BY <1>5 DEF g

-----------------------------------------------------------------------------
(***************************************************************************)
(* One more bit is set.                                                    *)
(***************************************************************************)
LEMMA OneMoreBit ==
    ASSUME NEW seg \in Segments, SegExact(seg), NEW b \in Nat, b \notin seg.bm0,
           NEW new, new.bm0 = seg.bm0 \cup {b}, new.live = seg.live + 1, Level1Exact(new.bm0, new.bm1)
    PROVE  SegExact(new)
<1> DEFINE more == seg.bm0 \cup {b}
<1>1. IsFiniteSet(seg.bm0) /\ Fixed \subseteq seg.bm0 /\ seg.live = Cardinality(seg.bm0 \ Fixed) /\ seg.live \in Nat
  BY DEF SegExact, Segments
<1>2. IsFiniteSet(more) /\ Fixed \subseteq more
  BY <1>1, FS_AddElement
<1>3. more \ Fixed = (seg.bm0 \ Fixed) \cup {b} /\ b \notin seg.bm0 \ Fixed
  BY <1>1
<1>4. IsFiniteSet(seg.bm0 \ Fixed)
  BY <1>1, FS_Subset
<1>5. Cardinality(more \ Fixed) = seg.live + 1
  BY <1>1, <1>3, <1>4, FS_AddElement
<1> HIDE DEF more
<1>6. new.bm0 = more
  BY DEF more
<1> QED
  BY <1>2, <1>5, <1>6 DEF SegExact

\* More bits leave full words full.
LEMMA StillFull ==
    ASSUME NEW bm0, NEW more, NEW bm1, bm0 \subseteq more, Level1Exact(bm0, bm1)
    PROVE  Level1Exact(more, bm1)
  BY DEF Level1Exact, WordFull

OneMore(h, g, s, b) ==
    /\ DOMAIN g.segs = DOMAIN h.segs
    /\ \A t \in DOMAIN h.segs : g.segs[t].bm0 = IF t = s THEN h.segs[t].bm0 \cup {b} ELSE h.segs[t].bm0

LEMMA OneMoreMark ==
    ASSUME NEW h, NEW g, HeapExact(h), NEW s \in DOMAIN h.segs, NEW b \in Nat, b < Blocks, b # 0,
           b \notin h.segs[s].bm0, OneMore(h, g, s, b)
    PROVE  /\ IsNode(Address(s, b), h) /\ Address(s, b) \notin MarkedIn(h) /\ Address(s, b) # Null
           /\ MarkedIn(g) = MarkedIn(h) \cup {Address(s, b)}
           /\ \A o : IsNode(o, h) <=> IsNode(o, g)
<1> DEFINE a == Address(s, b)
<1>1. s \in Nat /\ 1 <= s
  BY LastBits
<1>2. a \in Nat /\ SegmentOf(a) = s /\ IndexOf(a) = b /\ a # Null
  BY <1>1, AddressFacts
<1>3. \A o \in Nat : SegmentOf(o) = s /\ IndexOf(o) = b => o = a
  BY NodeFacts
<1> HIDE DEF a
<1>4. \A o : IsNode(o, h) <=> IsNode(o, g)
  BY DEF IsNode, OneMore
<1>5. IsNode(a, h) /\ a \notin MarkedIn(h) /\ Marked(g, a)
  BY <1>2 DEF IsNode, MarkedIn, Marked, OneMore
<1>6. ASSUME NEW o, IsNode(o, h) PROVE Marked(g, o) <=> Marked(h, o) \/ o = a
  <2>1. o \in Nat /\ SegmentOf(o) \in DOMAIN h.segs
    BY <1>6 DEF IsNode
  <2> QED
    BY <2>1, <1>2, <1>3 DEF Marked, OneMore
<1>7. MarkedIn(g) = MarkedIn(h) \cup {a}
  BY <1>2, <1>4, <1>5, <1>6 DEF MarkedIn
<1> QED
  BY <1>2, <1>4, <1>5, <1>7 DEF a

LEMMA Taken ==
    ASSUME NEW h, HeapExact(h), OnFree(h)
    PROVE  LET g == inc(h)
               o == h.p.block
           IN  /\ HeapExact(g) /\ PointerReady(g)
               /\ IsNode(o, h) /\ o \notin MarkedIn(h) /\ o # Null
               /\ MarkedIn(g) = MarkedIn(h) \cup {o}
               /\ \A n : IsNode(n, h) <=> IsNode(n, g)
<1> DEFINE g    == inc(h)
           p    == h.p
           s    == p.seg
           seg  == h.segs[s]
           base == p.idx * Bits
           b    == Bit(p)
           m    == (p.mask + 1) % Bits
           new  == [seg EXCEPT !.bm0 = seg.bm0 \cup {b}, !.live = seg.live + 1]
           q    == [p EXCEPT !.mask = m, !.block = p.block + 1]
           segs == [h.segs EXCEPT ![s] = new]
<1>1. /\ h \in Heaps /\ p \in Pointers /\ s \in DOMAIN h.segs /\ s # 0
      /\ p.mask \in Nat /\ p.idx \in Nat /\ p.block \in Nat /\ h.segs \in Seq(Segments)
  BY DEF HeapExact, Heaps, Pointers, OnFree, Standing
<1>2. seg \in Segments /\ SegExact(seg) /\ s \in Nat /\ 1 <= s /\ s <= Len(h.segs) /\ Len(h.segs) \in Nat
  BY <1>1, LastBits
<1>3. Bits \in Nat /\ 1 <= Bits /\ Words \in Nat /\ Blocks \in Nat /\ p.idx < Words /\ p.mask < Bits
  BY <1>1, WordsFacts DEF OnFree, Standing
<1>4. /\ base \in Nat /\ b = base + p.mask /\ b \in Nat
      /\ \A x \in Nat : x \in WordBits(p.idx) <=> base <= x /\ x < base + Bits
      /\ \A x \in WordBits(p.idx) : x < Words * Bits
  <2>1. /\ base \in Nat
        /\ \A x \in Nat : x \in WordBits(p.idx) <=> base <= x /\ x < base + Bits
        /\ \A x \in WordBits(p.idx) : x < Words * Bits
    <3> DEFINE w == p.idx
    <3>1. w \in Nat /\ w < Words
      BY <1>1, <1>3
    <3> HIDE DEF w
    <3>2. /\ w * Bits \in Nat
          /\ \A x \in Nat : x \in WordBits(w) <=> w * Bits <= x /\ x < w * Bits + Bits
          /\ \A x \in WordBits(w) : x < Words * Bits
      BY <3>1, WordBitsFacts
    <3> QED
      BY <3>2 DEF w
  <2>2. b = base + p.mask
    BY DEF Bit
  <2> HIDE DEF base, b
  <2> QED
    BY <2>1, <2>2, <1>1
<1>5. b \notin seg.bm0 /\ p.block = Address(s, b) /\ \A x \in Nat : base <= x /\ x < b => x \in seg.bm0
  BY DEF OnFree, Standing, Pointing
<1>6. b < Blocks /\ b # 0
  <2> DEFINE word == WordBits(p.idx)
  <2>1. b < Words * Bits
    <3>1. base <= b /\ b < base + Bits
      <4> DEFINE mask == p.mask
      <4>1. mask \in Nat /\ mask < Bits /\ Bits \in Nat /\ b = base + mask /\ base \in Nat
        BY <1>1, <1>3, <1>4
      <4> HIDE DEF mask, base, b
      <4> QED
        BY <4>1
    <3>2. b \in word
      BY <1>4, <3>1
    <3> HIDE DEF word, b
    <3> QED
      BY <1>4, <3>2 DEF word
  <2>2. b \notin Fixed
    BY <1>2, <1>5 DEF SegExact
  <2> QED
    BY <1>4, <2>1, <2>2, FixedFacts
<1>7. m \in Nat /\ m < Bits /\ (p.mask + 1 < Bits => m = p.mask + 1) /\ (p.mask + 1 = Bits => m = 0)
  <2> DEFINE a == p.mask + 1
  <2>1. a \in Nat /\ Bits \in Nat \ {0} /\ a <= Bits
    BY <1>1, <1>3
  <2> HIDE DEF a
  <2>2. a % Bits \in Nat /\ a % Bits < Bits
    BY <2>1, Division
  <2>3. CASE a < Bits
    <3>1. 0 \in Nat /\ 0 * Bits = 0
      BY <2>1
    <3>2. 0 * Bits <= a /\ a < 0 * Bits + Bits
      BY <2>1, <2>3, <3>1
    <3>3. a % Bits = a - 0 * Bits
      BY <2>1, <3>1, <3>2, DivisionIsUnique
    <3> QED
      BY <2>1, <2>2, <2>3, <3>1, <3>3 DEF a
  <2>4. CASE a = Bits
    <3>1. 1 \in Nat /\ 1 * Bits = Bits
      BY <2>1
    <3>2. 1 * Bits <= a /\ a < 1 * Bits + Bits
      BY <2>1, <2>4, <3>1
    <3>3. a % Bits = a - 1 * Bits
      BY <2>1, <3>1, <3>2, DivisionIsUnique
    <3> QED
      BY <2>1, <2>2, <2>4, <3>1, <3>3 DEF a
  <2> QED
    BY <2>1, <2>3, <2>4
<1>8. new \in Segments /\ new.bm0 = seg.bm0 \cup {b} /\ new.live = seg.live + 1 /\ new.bm1 = seg.bm1
  <2> HIDE DEF b, seg
  <2>1. seg.live + 1 \in Nat /\ seg.bm0 \cup {b} \in SUBSET Nat
    BY <1>2, <1>4 DEF Segments
  <2> QED
    BY <1>2, <2>1 DEF Segments
<1>9. SegExact(new)
  <2>1. Level1Exact(seg.bm0, seg.bm1)
    BY <1>2 DEF SegExact
  <2>2. Level1Exact(seg.bm0 \cup {b}, seg.bm1)
    BY <2>1, StillFull
  <2> HIDE DEF new, b
  <2> QED
    BY <1>2, <1>4, <1>5, <1>8, <2>2, OneMoreBit
<1>10. /\ q \in Pointers /\ q.seg = s /\ q.idx = p.idx /\ q.mask = m /\ q.block = p.block + 1
       /\ segs \in Seq(Segments) /\ Len(segs) = Len(h.segs) /\ DOMAIN segs = DOMAIN h.segs
       /\ \A t \in DOMAIN h.segs : segs[t] = IF t = s THEN new ELSE h.segs[t]
  <2> DEFINE next == p.block + 1
  <2>1. next \in Nat /\ m \in Nat
    BY <1>1, <1>7
  <2> HIDE DEF m, next, new
  <2>2. q \in Pointers /\ q.seg = s /\ q.idx = p.idx /\ q.mask = m /\ q.block = next
    BY <2>1, <1>1 DEF Pointers, next
  <2>3. /\ segs \in Seq(Segments) /\ Len(segs) = Len(h.segs) /\ DOMAIN segs = DOMAIN h.segs
        /\ \A t \in DOMAIN h.segs : segs[t] = IF t = s THEN new ELSE h.segs[t]
    <3> HIDE DEF s
    <3> QED
      BY <1>1, <1>8
  <2> QED
    BY <2>2, <2>3 DEF next
<1>11. g = [h EXCEPT !.segs = segs, !.p = q]
  <2>1. (IF p.mask = None THEN {} ELSE {p.idx * Bits + p.mask}) = {b} /\ (IF p.mask = None THEN None ELSE m) = m
    BY <1>1 DEF Bit, None
  <2>2. g = [h EXCEPT !.segs[s].bm0 = @ \cup {b}, !.segs[s].live = @ + 1,
                      !.p.mask = IF @ = None THEN None ELSE (@ + 1) % Bits,
                      !.p.block = @ + 1]
    <3> HIDE DEF b, m
    <3> QED
      BY ONLY <2>1, Zenon DEF inc, g, p, s
  <2>3. g = [h EXCEPT !.segs = [[@ EXCEPT ![s].bm0 = seg.bm0 \cup {b}] EXCEPT ![s].live = seg.live + 1],
                      !.p = q]
    <3> HIDE DEF b, g
    <3> QED
      BY <2>1, <2>2, <1>1, <1>2 DEF Heaps, Segments, Pointers
  <2>4. [[h.segs EXCEPT ![s].bm0 = seg.bm0 \cup {b}] EXCEPT ![s].live = seg.live + 1] = segs
    <3> HIDE DEF b
    <3> QED
      BY <1>1, <1>2 DEF Segments
  <2> HIDE DEF b, g, q, segs
  <2> QED
    BY <2>3, <2>4
<1> HIDE DEF g, b, new, q, base, m, segs
<1>12. /\ segs \in Seq(Segments) /\ Len(segs) = Len(h.segs) /\ DOMAIN segs = DOMAIN h.segs
       /\ \A t \in DOMAIN h.segs : segs[t] = IF t = s THEN new ELSE h.segs[t]
  BY <1>10
<1>13. g \in Heaps /\ g.segs = segs /\ g.free = h.free /\ g.p = q
  BY <1>1, <1>10, <1>11 DEF Heaps
<1>14. HeapExact(g)
  BY <1>1, <1>9, <1>10, <1>13, LastBits DEF HeapExact
<1>15. \A t \in DOMAIN h.segs : g.segs[t].bm0 = IF t = s THEN h.segs[t].bm0 \cup {b} ELSE h.segs[t].bm0
  BY <1>8, <1>12, <1>13
<1>16. /\ IsNode(Address(s, b), h) /\ Address(s, b) \notin MarkedIn(h) /\ Address(s, b) # Null
       /\ MarkedIn(g) = MarkedIn(h) \cup {Address(s, b)}
       /\ \A o : IsNode(o, h) <=> IsNode(o, g)
  <2>1. b \in Nat /\ b < Blocks /\ b # 0 /\ b \notin h.segs[s].bm0 /\ s \in DOMAIN h.segs
    BY <1>1, <1>4, <1>5, <1>6
  <2>2. OneMore(h, g, s, b)
    BY <1>12, <1>13, <1>15 DEF OneMore
  <2> QED
    BY <2>1, <2>2, OneMoreMark
<1>17. PointerReady(g)
  <2>1. g.segs[s].bm0 = seg.bm0 \cup {b} /\ s \in DOMAIN g.segs
    BY <1>1, <1>12, <1>13, <1>15
  <2>2. Bit(q) = base + m
    BY <1>10 DEF Bit, base
  <2>3. CASE p.mask + 1 < Bits
    <3>1. m = p.mask + 1 /\ Bit(q) = b + 1
      <4> HIDE DEF p
      <4> QED
        BY <2>2, <2>3, <1>1, <1>4, <1>7
    <3>2. \A x \in Nat : base <= x /\ x < b + 1 => x \in g.segs[s].bm0
      BY <2>1, <1>4, <1>5
    <3>3. q.block = Address(s, b + 1)
      <4>1. s \in Nat /\ (s - 1) * Blocks \in Int
        BY <1>2, <1>3
      <4>2. q.block = (s - 1) * Blocks + b + 1
        BY <1>5, <1>10 DEF Address
      <4> HIDE DEF s
      <4> QED
        BY <4>1, <4>2, <1>4 DEF Address
    <3>4. Standing(g)
      <4>1. g.p.seg = s /\ g.p.idx * Bits = base /\ g.p.idx < Words /\ g.p.mask = m /\ Bit(g.p) = b + 1
        BY <3>1, <1>3, <1>10, <1>13 DEF base
      <4>2. m # None /\ m < Bits
        BY <1>7 DEF None
      <4> QED
        BY <2>1, <3>2, <4>1, <4>2 DEF Standing
    <3> QED
      BY <3>1, <3>3, <3>4, <1>10, <1>13 DEF PointerReady, Pointing
  <2>4. CASE p.mask + 1 = Bits
    <3>1. m = 0 /\ Bit(q) = base
      BY <2>2, <2>4, <1>4, <1>7
    <3>2. base \in g.segs[s].bm0
      BY <2>1, <1>1, <1>4, <1>5
    <3>3. \A x \in Nat : base <= x /\ x < base => x \in g.segs[s].bm0
      BY <1>4
    <3>4. Standing(g)
      <4>1. g.p.seg = s /\ g.p.idx * Bits = base /\ g.p.idx < Words /\ g.p.mask = m /\ Bit(g.p) = base
        BY <3>1, <1>3, <1>10, <1>13 DEF base
      <4>2. m # None /\ m < Bits
        BY <1>7 DEF None
      <4> QED
        BY <2>1, <3>3, <4>1, <4>2 DEF Standing
    <3> QED
      BY <3>1, <3>2, <3>4, <1>10, <1>13 DEF PointerReady
  <2> QED
    BY <2>3, <2>4, <1>1, <1>3
<1> QED
  BY <1>5, <1>14, <1>16, <1>17 DEF g

-----------------------------------------------------------------------------
(***************************************************************************)
(* An allocation.                                                          *)
(***************************************************************************)
FetchNext(g) ==
    IF Found(g) THEN g
    ELSE findNextFreeNode([fetchSegment(g) EXCEPT !.ok = @ /\ g.segs[Head(g.free)].live < NodeCount])

LEMMA FetchIsFunction ==
    ASSUME NEW h, Len(h.free) \in Nat
    PROVE  \E f : /\ f[0] = h /\ fetchUnfilled(h) = f[Len(h.free)]
                  /\ \A k \in Nat : 0 < k /\ k <= Len(h.free) => f[k] = FetchNext(f[k - 1])
<1> DEFINE Body(f, k) == IF k = 0 THEN h ELSE FetchNext(f[k - 1])
           Is(f, n) == f = [k \in 0..n |-> Body(f, k)]
           Good == {n \in Nat : \E f : Is(f, n)}
<1>1. 0 \in Good
  <2> DEFINE ext == [k \in 0..0 |-> h]
  <2>1. Is(ext, 0)
    OBVIOUS
  <2> HIDE DEF Is, ext
  <2>2. \E f : Is(f, 0)
    BY <2>1
  <2> QED
    BY <2>2
<1>2. ASSUME NEW n \in Good PROVE n + 1 \in Good
  <2>1. n \in Nat /\ \E f : Is(f, n)
    <3> HIDE DEF Is
    <3> QED
      OBVIOUS
  <2>2. PICK f : Is(f, n)
    BY <2>1
  <2>3. \A k \in 0..n : f[k] = Body(f, k)
    BY <2>2
  <2> DEFINE ext == [k \in 0..n+1 |-> IF k = n + 1 THEN Body(f, n + 1) ELSE f[k]]
  <2>4. \A k \in 0..n : ext[k] = f[k] /\ k \in 0..n+1
    <3> HIDE DEF Body
    <3> QED
      BY <2>1
  <2>5. ext[n + 1] = Body(f, n + 1) /\ f[n] = ext[n] /\ n + 1 - 1 = n
    <3> HIDE DEF Body
    <3> QED
      BY <2>1
  <2>6. \A k \in 0..n+1 : ext[k] = Body(ext, k)
    <3> HIDE DEF ext
    <3> TAKE k \in 0..n+1
    <3>1. CASE k = n + 1
      BY <3>1, <2>1, <2>5
    <3>2. CASE k # n + 1
      <4>1. k \in 0..n /\ (k # 0 => k - 1 \in 0..n)
        BY <3>2, <2>1
      <4> QED
        BY <4>1, <2>3, <2>4
    <3> QED
      BY <3>1, <3>2
  <2>7. ext = [k \in 0..n+1 |-> ext[k]]
    OBVIOUS
  <2> HIDE DEF ext
  <2>8. Is(ext, n + 1)
    BY <2>6, <2>7
  <2> HIDE DEF Is
  <2> QED
    BY <2>1, <2>8
<1>3. Len(h.free) \in Good
  <2> HIDE DEF Good
  <2>1. Good = Nat
    <3>1. Good \in SUBSET Nat
      BY DEF Good
    <3> QED
      BY <1>1, <1>2, <3>1, InductionInSet
  <2> QED
    BY <2>1
<1> DEFINE f == CHOOSE f : Is(f, Len(h.free))
<1>4. Is(f, Len(h.free))
  BY <1>3
<1>5. fetchUnfilled(h) = f[Len(h.free)]
  BY DEF fetchUnfilled, FetchNext
<1> HIDE DEF f
<1>6. \A k \in 0..Len(h.free) : f[k] = Body(f, k)
  BY <1>4
<1>7. f[0] = h
  BY <1>6
<1>8. \A k \in Nat : 0 < k /\ k <= Len(h.free) => f[k] = Body(f, k)
  BY <1>6
<1> QED
  BY <1>5, <1>7, <1>8

\* What is left of the free list after k of its segments have been full.
FetchInv(h, g, k) ==
    /\ HeapExact(g) /\ SameBlocks(h, g) /\ g.pool = h.pool
    /\ Found(g) => OnFree(g)
    /\ ~Found(g) => Len(g.free) = Len(h.free) - k

LEMMA FetchedNext ==
    ASSUME NEW h, NEW g, HeapExact(h), NEW k \in Nat, 0 < k, k <= Len(h.free), FetchInv(h, g, k - 1)
    PROVE  FetchInv(h, FetchNext(g), k)
<1>1. CASE Found(g)
  BY <1>1 DEF FetchInv, FetchNext
<1>2. CASE ~Found(g)
  <2>1. HeapExact(g) /\ Len(h.free) \in Nat
    BY DEF FetchInv, HeapExact, Heaps
  <2>2. Len(g.free) > 0
    BY <1>2, <2>1 DEF FetchInv
  <2>3. g.free # <<>>
    BY <2>2
  <2> DEFINE f  == fetchSegment(g)
             ok == f.ok /\ g.segs[Head(g.free)].live < NodeCount
             e  == [f EXCEPT !.ok = ok]
             r  == findNextFreeNode(e)
  <2>4. /\ HeapExact(f) /\ SameBlocks(g, f) /\ f.pool = g.pool
        /\ Standing(f) /\ Len(f.free) = Len(g.free) - 1
    BY <2>1, <2>3, Fetched
  <2>5. ok \in BOOLEAN
    OBVIOUS
  <2>6. FetchNext(g) = r
    BY <1>2 DEF FetchNext
  <2> HIDE DEF f, ok
  <2>7. e \in Heaps /\ e.segs = f.segs /\ e.free = f.free /\ e.p = f.p /\ e.pool = f.pool
    BY <2>4, <2>5 DEF HeapExact, Heaps
  <2> HIDE DEF e
  <2>8. HeapExact(e) /\ Standing(e)
    BY <2>4, <2>7 DEF HeapExact, Standing
  <2>9. HeapExact(r) /\ SameBlocks(e, r) /\ r.pool = e.pool /\ r.free = e.free /\ (Found(r) => OnFree(r))
    BY <2>8, Searched
  <2> HIDE DEF r
  <2>10. SameBlocks(h, r)
    BY <2>4, <2>7, <2>9 DEF SameBlocks, FetchInv
  <2>11. Len(r.free) = Len(h.free) - k
    BY <1>2, <2>1, <2>4, <2>7, <2>9 DEF FetchInv
  <2> QED
    BY <2>4, <2>6, <2>7, <2>9, <2>10, <2>11 DEF FetchInv
<1> QED
  BY <1>1, <1>2

LEMMA FetchedUnfilled ==
    ASSUME NEW h, HeapExact(h), ~Found(h)
    PROVE  LET g == fetchUnfilled(h)
           IN  HeapExact(g) /\ SameBlocks(h, g) /\ g.pool = h.pool /\ (Found(g) => OnFree(g))
<1> DEFINE n == Len(h.free)
<1>1. n \in Nat
  BY DEF HeapExact, Heaps
<1>2. PICK f : /\ f[0] = h /\ fetchUnfilled(h) = f[n]
               /\ \A k \in Nat : 0 < k /\ k <= n => f[k] = FetchNext(f[k - 1])
  BY <1>1, FetchIsFunction
<1> DEFINE S == {k \in Nat : k <= n => FetchInv(h, f[k], k)}
<1>3. 0 \in S
  BY <1>1, <1>2 DEF FetchInv, SameBlocks
<1>4. ASSUME NEW k \in S PROVE k + 1 \in S
  <2>1. k + 1 \in Nat /\ 0 < k + 1 /\ k + 1 - 1 = k
    OBVIOUS
  <2>2. CASE k + 1 <= n
    <3>1. FetchInv(h, f[k], k) /\ f[k + 1] = FetchNext(f[k])
      BY <1>1, <1>2, <2>1, <2>2
    <3> DEFINE m == k + 1
    <3>2. m \in Nat /\ 0 < m /\ m <= n /\ m - 1 = k
      BY <2>1, <2>2
    <3> HIDE DEF m
    <3>3. FetchInv(h, FetchNext(f[k]), m)
      BY <3>1, <3>2, FetchedNext
    <3> QED
      BY <3>1, <3>2, <3>3 DEF m
  <2>3. CASE ~ (k + 1 <= n)
    BY <2>1, <2>3
  <2> QED
    BY <2>2, <2>3
<1>5. S = Nat
  <2> DEFINE T == S
  <2>1. T \in SUBSET Nat
    OBVIOUS
  <2> HIDE DEF S
  <2> QED
    BY <1>3, <1>4, <2>1, InductionInSet
<1>6. FetchInv(h, f[n], n)
  <2>1. n \in S
    <3> HIDE DEF S
    <3> QED
      BY <1>1, <1>5
  <2> QED
    BY <2>1, <1>1
<1> QED
  BY <1>2, <1>6 DEF FetchInv

LEMMA NextSegment ==
    ASSUME NEW h, HeapExact(h), ~Found(h)
    PROVE  LET g == nextSegment(h)
           IN  HeapExact(g) /\ Grown(h, g) /\ (Found(g) => OnFree(g))
<1> DEFINE g == fetchUnfilled(h)
           n == newSegment(g)
           r == findNextFreeNode(n)
<1>1. HeapExact(g) /\ SameBlocks(h, g) /\ (Found(g) => OnFree(g))
  BY FetchedUnfilled
<1>2. Grown(h, g)
  BY <1>1, SameIsGrown
<1>3. nextSegment(h) = IF Found(g) THEN g ELSE IF g.pool = 0 THEN n ELSE r
  BY DEF nextSegment
<1> HIDE DEF g
<1>4. CASE Found(g)
  BY <1>1, <1>2, <1>3, <1>4
<1>5. CASE ~Found(g) /\ g.pool = 0
  <2>1. HeapExact(n) /\ SameBlocks(g, n) /\ n.p = g.p
    BY <1>1, <1>5, NoSegmentLeft
  <2> HIDE DEF n
  <2>2. Grown(g, n) /\ ~Found(n)
    BY <1>1, <1>5, <2>1, SameIsGrown DEF Found
  <2>3. Grown(h, n)
    BY <1>1, <1>2, <2>1, <2>2, GrownIsTransitive
  <2> QED
    BY <1>3, <1>5, <2>1, <2>2, <2>3
<1>6. CASE ~Found(g) /\ g.pool # 0
  <2>1. HeapExact(n) /\ Grown(g, n) /\ Standing(n)
    BY <1>1, <1>6, SegmentBegun
  <2> HIDE DEF n
  <2>2. HeapExact(r) /\ SameBlocks(n, r) /\ (Found(r) => OnFree(r))
    BY <2>1, Searched
  <2> HIDE DEF r
  <2>3. Grown(n, r)
    BY <2>1, <2>2, SameIsGrown
  <2>4. Grown(h, n)
    BY <1>1, <1>2, <2>1, GrownIsTransitive
  <2>5. Grown(h, r)
    BY <1>1, <2>1, <2>2, <2>3, <2>4, GrownIsTransitive
  <2> QED
    BY <1>3, <1>6, <2>2, <2>5
<1> QED
  BY <1>4, <1>5, <1>6

LEMMA NoSegment ==
    ASSUME NEW h, HeapExact(h), h.p.seg = 0
    PROVE  LET g == findNextFreeNode(h)
           IN  /\ HeapExact(g) /\ SameBlocks(h, g) /\ ~Found(g)
               /\ g.free = h.free /\ g.ok = h.ok /\ g.p.seg = h.p.seg
<1> DEFINE g == findNextFreeNode(h)
           q == [h.p EXCEPT !.mask = None]
<1>1. h \in Heaps /\ h.p \in Pointers
  BY DEF HeapExact, Heaps
<1>2. g = [h EXCEPT !.p.mask = None]
  BY Zenon DEF findNextFreeNode
<1>3. q \in Pointers /\ q.seg = 0 /\ q.mask = None
  BY <1>1 DEF Pointers
<1>4. g = [h EXCEPT !.p = q]
  BY <1>2
<1> HIDE DEF g, q
<1>5. g \in Heaps /\ g.segs = h.segs /\ g.free = h.free /\ g.ok = h.ok /\ g.p = q
  BY <1>1, <1>3, <1>4 DEF Heaps
<1>6. HeapExact(g) /\ SameBlocks(h, g) /\ ~Found(g)
  BY <1>3, <1>5 DEF HeapExact, SameBlocks, Found
<1> QED
  BY <1>3, <1>5, <1>6 DEF g

\* An allocation returns a block whose bit was clear and sets its bit, or fails.
LEMMA Allocated ==
    ASSUME NEW h, HeapExact(h), PointerReady(h)
    PROVE  LET g == tryAlloc(h).heap
               o == tryAlloc(h).block
           IN  /\ HeapExact(g) /\ \A n : IsNode(n, h) => IsNode(n, g)
               /\ o # Null => /\ PointerReady(g) /\ IsNode(o, g)
                              /\ o \notin MarkedIn(h) /\ MarkedIn(g) = MarkedIn(h) \cup {o}
<1> DEFINE here == IF isMarked(h) THEN findNextFreeNode(h) ELSE h
           at   == IF isMarked(h) /\ ~Found(here) THEN nextSegment(here) ELSE here
           r    == tryAlloc(h)
<1>1. r = IF isMarked(h) /\ ~Found(at) THEN [heap |-> at, block |-> Null] ELSE [heap |-> inc(at), block |-> at.p.block]
  BY DEF tryAlloc
<1>2. ~isMarked(h) => OnFree(h)
  BY DEF PointerReady, isMarked, OnFree, Standing, Bit
<1>3. ~isMarked(h) => h.p.mask # None
  BY <1>2 DEF OnFree, Standing
<1>4. isMarked(h) => HeapExact(here) /\ SameBlocks(h, here) /\ (Found(here) => OnFree(here))
  <2>1. CASE h.p.seg = 0
    BY <2>1, NoSegment
  <2>2. CASE h.p.seg # 0
    BY <2>2, Searched DEF PointerReady
  <2> QED
    BY <2>1, <2>2
<1>5. HeapExact(here) /\ Grown(h, here) /\ (Found(here) => OnFree(here))
  <2>1. SameBlocks(h, h)
    BY DEF SameBlocks
  <2>2. ~isMarked(h) => here = h
    OBVIOUS
  <2> HIDE DEF here
  <2> QED
    BY <1>2, <1>4, <2>1, <2>2, SameIsGrown
<1>6. HeapExact(at) /\ Grown(h, at) /\ (Found(at) => OnFree(at))
  <2> HIDE DEF here
  <2>1. CASE isMarked(h) /\ ~Found(here)
    <3>1. HeapExact(at) /\ Grown(here, at) /\ (Found(at) => OnFree(at))
      BY <1>5, <2>1, NextSegment
    <3>2. Grown(h, at)
      <4> HIDE DEF at
      <4> QED
        BY <1>5, <3>1, GrownIsTransitive
    <3> QED
      BY <3>1, <3>2
  <2>2. CASE ~ (isMarked(h) /\ ~Found(here))
    BY <1>5, <2>2
  <2> QED
    BY <2>1, <2>2
<1>7. ~isMarked(h) => Found(at)
  BY <1>3 DEF Found
<1> HIDE DEF here, at, r
<1>8. CASE isMarked(h) /\ ~Found(at)
  <2>1. r.heap = at /\ r.block = Null
    BY <1>1, <1>8
  <2>2. \A n : IsNode(n, h) => IsNode(n, at)
    BY <1>6, GrownMarks
  <2> QED
    BY <1>6, <2>1, <2>2 DEF r
<1>9. CASE Found(at)
  <2> DEFINE g == inc(at)
             o == at.p.block
  <2>1. r.heap = g /\ r.block = o
    BY <1>1, <1>9
  <2>2. /\ HeapExact(g) /\ PointerReady(g)
        /\ IsNode(o, at) /\ o \notin MarkedIn(at) /\ o # Null
        /\ MarkedIn(g) = MarkedIn(at) \cup {o}
        /\ \A n : IsNode(n, at) <=> IsNode(n, g)
    BY <1>6, <1>9, Taken
  <2>3. MarkedIn(at) = MarkedIn(h) /\ \A n : IsNode(n, h) => IsNode(n, at)
    BY <1>6, GrownMarks
  <2> HIDE DEF g, o
  <2> QED
    BY <2>1, <2>2, <2>3 DEF r
<1> QED
  BY <1>7, <1>8, <1>9

-----------------------------------------------------------------------------
(***************************************************************************)
(* Collections.                                                            *)
(***************************************************************************)
LEMMA Cleared ==
    ASSUME NEW h, HeapExact(h)
    PROVE  LET g == clearAllBitMapsAndCount(h)
           IN  /\ HeapExact(g) /\ MarkedIn(g) = {} /\ g.p = h.p
               /\ \A n : IsNode(n, h) <=> IsNode(n, g)
<1> DEFINE g    == clearAllBitMapsAndCount(h)
           new  == [s \in DOMAIN h.segs |-> BITMAP_SET_LIMIT]
           segs == <<>> \o new
<1>1. h \in Heaps /\ h.segs \in Seq(Segments) /\ Len(h.segs) \in Nat /\ DOMAIN h.segs = 1..Len(h.segs)
  BY DEF HeapExact, Heaps
<1>2. new \in Seq(Segments)
  BY <1>1, ClearedSegment
<1>3. segs = new
  <2> HIDE DEF new
  <2> QED
    BY <1>2, ConcatEmptySeq
<1>4. DOMAIN new = DOMAIN h.segs /\ \A s \in DOMAIN h.segs : new[s] = BITMAP_SET_LIMIT
  OBVIOUS
<1>5. g = [h EXCEPT !.segs = segs]
  BY DEF clearAllBitMapsAndCount
<1> HIDE DEF g, segs, new
<1>6. g \in Heaps /\ g.segs = new /\ g.free = h.free /\ g.p = h.p
  BY <1>1, <1>2, <1>3, <1>5 DEF Heaps
<1>7. HeapExact(g)
  BY <1>4, <1>6, ClearedSegment DEF HeapExact
<1>8. \A n : IsNode(n, h) <=> IsNode(n, g)
  BY <1>4, <1>6 DEF IsNode
<1>9. ASSUME NEW n \in Nat, IsNode(n, g) PROVE ~Marked(g, n)
  <2>1. IndexOf(n) \in Nat /\ IndexOf(n) < Blocks /\ IndexOf(n) # 0 /\ Blocks \in Nat
    BY <1>9, NodeFacts, WordsFacts DEF IsNode
  <2>2. IndexOf(n) \notin Fixed
    BY <2>1, FixedFacts
  <2> QED
    BY <1>4, <1>6, <1>9, <2>2, ClearedSegment DEF IsNode, Marked
<1>10. MarkedIn(g) = {}
  BY <1>9 DEF MarkedIn
<1> QED
  BY <1>6, <1>7, <1>8, <1>10 DEF g

\* The bits that mark_mstack sets for an unmarked node.
LEMMA MarkIsSet ==
    ASSUME NEW h, HeapExact(h), NEW o, IsNode(o, h), ~Marked(h, o)
    PROVE  LET g == SetMark(h, o)
           IN  /\ HeapExact(g) /\ g.p = h.p
               /\ MarkedIn(g) = MarkedIn(h) \cup {o} /\ o \notin MarkedIn(h) /\ o # Null
               /\ \A n : IsNode(n, h) <=> IsNode(n, g)
<1> DEFINE g   == SetMark(h, o)
           s   == SegmentOf(o)
           b   == IndexOf(o)
           seg == h.segs[s]
           w   == b \div Bits
           bm1 == IF WordFull(seg.bm0 \cup {b}, w) THEN seg.bm1 \cup {w} ELSE seg.bm1
           new == [bm0 |-> seg.bm0 \cup {b}, bm1 |-> bm1, live |-> seg.live + 1]
           segs == [h.segs EXCEPT ![s] = new]
<1>1. o \in Nat /\ s \in DOMAIN h.segs /\ b # 0 /\ b \notin seg.bm0
  BY DEF IsNode, Marked
<1>2. b \in Nat /\ b < Blocks /\ o = Address(s, b)
  BY <1>1, NodeFacts
<1>3. seg \in Segments /\ SegExact(seg)
  BY <1>1, LastBits
<1>4. w \in Nat
  <2>1. Bits \in Nat \ {0}
    BY WordsFacts
  <2> HIDE DEF b
  <2> QED
    BY <1>2, <2>1, Division
<1>5. h \in Heaps /\ h.segs \in Seq(Segments)
  BY DEF HeapExact, Heaps
<1> HIDE DEF b, w
<1>6. seg.bm0 \cup {b} \in SUBSET Nat /\ bm1 \in SUBSET Nat /\ seg.live + 1 \in Nat
  BY <1>2, <1>3, <1>4 DEF Segments
<1>7. Level1Exact(seg.bm0 \cup {b}, bm1)
  <2>1. Level1Exact(seg.bm0, seg.bm1)
    BY <1>3 DEF SegExact
  <2>2. Level1Exact(seg.bm0 \cup {b}, seg.bm1)
    BY <2>1, StillFull
  <2> QED
    BY <2>2 DEF Level1Exact
<1> HIDE DEF bm1
<1>8. new \in Segments /\ new.bm0 = seg.bm0 \cup {b} /\ new.bm1 = bm1 /\ new.live = seg.live + 1
  BY <1>6 DEF Segments
<1>9. SegExact(new)
  <2> HIDE DEF new
  <2> QED
    BY <1>1, <1>2, <1>3, <1>7, <1>8, OneMoreBit
<1>10. g = [h EXCEPT !.segs = segs]
  BY Zenon DEF SetMark, b, bm1, w
<1> HIDE DEF g, new
<1>11. /\ segs \in Seq(Segments) /\ Len(segs) = Len(h.segs) /\ DOMAIN segs = DOMAIN h.segs
       /\ \A t \in DOMAIN h.segs : segs[t] = IF t = s THEN new ELSE h.segs[t]
  BY <1>1, <1>5, <1>8
<1> HIDE DEF segs
<1>12. g \in Heaps /\ g.segs = segs /\ g.free = h.free /\ g.p = h.p
  BY <1>5, <1>10, <1>11 DEF Heaps
<1>13. HeapExact(g)
  BY <1>1, <1>9, <1>11, <1>12, LastBits DEF HeapExact
<1>14. OneMore(h, g, s, b)
  BY <1>8, <1>11, <1>12 DEF OneMore
<1>15. /\ Address(s, b) \notin MarkedIn(h) /\ Address(s, b) # Null
       /\ MarkedIn(g) = MarkedIn(h) \cup {Address(s, b)}
       /\ \A n : IsNode(n, h) <=> IsNode(n, g)
  BY <1>1, <1>2, <1>14, OneMoreMark
<1> QED
  BY <1>2, <1>12, <1>13, <1>15 DEF g

\* The elements of Kept, and how it ends.
LEMMA KeptElements ==
    ASSUME NEW T, NEW s \in Seq(T), NEW S
    PROVE  /\ Kept(s, S) \in Seq(T)
           /\ ToSet(Kept(s, S)) = ToSet(s) \cap S
<1> DEFINE n == Len(s)
<1>1. n \in Nat /\ DOMAIN s = 1..n /\ \A k \in Nat : 0 < k /\ k <= n => s[k] \in T
  OBVIOUS
<1>2. PICK f : /\ f[0] = <<>> /\ Kept(s, S) = f[n]
               /\ \A k \in Nat : 0 < k /\ k <= n => f[k] = IF s[k] \in S THEN Append(f[k - 1], s[k]) ELSE f[k - 1]
  BY <1>1, KeptIsFunction
<1> DEFINE Good(k) == /\ f[k] \in Seq(T)
                      /\ \A x : x \in ToSet(f[k]) <=> x \in S /\ \E j \in Nat : 0 < j /\ j <= k /\ x = s[j]
           G == {k \in Nat : k <= n => Good(k)}
<1>3. 0 \in G
  <2>1. f[0] \in Seq(T) /\ ToSet(f[0]) = {}
    BY <1>2 DEF ToSet
  <2> QED
    BY <2>1
<1>4. ASSUME NEW k \in G PROVE k + 1 \in G
  <2> SUFFICES ASSUME k + 1 <= n PROVE Good(k + 1)
    OBVIOUS
  <2> DEFINE m == k + 1
  <2>1. m \in Nat /\ 0 < m /\ m <= n /\ m - 1 = k /\ k \in Nat
    OBVIOUS
  <2>2. \A j \in Nat : j <= m <=> j <= k \/ j = m
    OBVIOUS
  <2>3. Good(k)
    BY <1>1
  <2> HIDE DEF m
  <2>4. f[m] = IF s[m] \in S THEN Append(f[k], s[m]) ELSE f[k]
    BY <1>2, <2>1
  <2>5. s[m] \in T
    BY <1>1, <2>1
  <2>6. f[m] \in Seq(T)
    BY <2>3, <2>4, <2>5
  <2>7. \A x : x \in ToSet(f[m]) <=> x \in ToSet(f[k]) \/ (s[m] \in S /\ x = s[m])
    <3>1. CASE s[m] \in S
      <4> DEFINE a == f[k]
                 y == s[m]
      <4>1. a \in Seq(T) /\ y \in T /\ f[m] = Append(a, y)
        BY <2>3, <2>4, <2>5, <3>1
      <4> HIDE DEF a, y
      <4>2. Len(a) \in Nat /\ DOMAIN a = 1..Len(a) /\ DOMAIN Append(a, y) = 1..(Len(a) + 1)
        BY <4>1
      <4>3. Append(a, y)[Len(a) + 1] = y /\ \A j \in 1..Len(a) : Append(a, y)[j] = a[j]
        BY <4>1
      <4>4. ToSet(Append(a, y)) = ToSet(a) \cup {y}
        BY <4>2, <4>3 DEF ToSet
      <4> QED
        BY <4>1, <4>4, <3>1 DEF a, y
    <3>2. CASE s[m] \notin S
      BY <2>4, <3>2
    <3> QED
      BY <3>1, <3>2
  <2>8. \A x : x \in ToSet(f[m]) <=> x \in S /\ \E j \in Nat : 0 < j /\ j <= m /\ x = s[j]
    <3> TAKE x
    <3>1. x \in ToSet(f[k]) <=> x \in S /\ \E j \in Nat : 0 < j /\ j <= k /\ x = s[j]
      BY <2>3
    <3>2. (\E j \in Nat : 0 < j /\ j <= m /\ x = s[j]) <=> (\E j \in Nat : 0 < j /\ j <= k /\ x = s[j]) \/ x = s[m]
      BY <2>1, <2>2
    <3> QED
      BY <2>7, <3>1, <3>2
  <2> QED
    BY <2>6, <2>8 DEF m
<1>5. n \in G
  <2>1. G \in SUBSET Nat
    OBVIOUS
  <2>2. G = Nat
    <3> HIDE DEF G
    <3> QED
      BY <1>3, <1>4, <2>1, InductionInSet
  <2> HIDE DEF G
  <2> QED
    BY <1>1, <2>2
<1>6. Good(n)
  BY <1>1, <1>5
<1>7. \A x : x \in ToSet(s) <=> \E j \in Nat : 0 < j /\ j <= n /\ x = s[j]
  BY <1>1 DEF ToSet
<1>8. \A x : x \in ToSet(f[n]) <=> x \in ToSet(s) /\ x \in S
  BY <1>6, <1>7
<1> QED
  BY <1>2, <1>6, <1>8

LEMMA CountIsFunction ==
    ASSUME NEW h, Len(h.segs) \in Nat
    PROVE  \E f : /\ f[0] = 0 /\ count_dead(h) = f[Len(h.segs)]
                  /\ \A k \in Nat : 0 < k /\ k <= Len(h.segs) => f[k] = f[k - 1] + Dead(h.segs[k])
<1> DEFINE Body(f, k) == IF k = 0 THEN 0 ELSE f[k - 1] + Dead(h.segs[k])
           Is(f, n) == f = [k \in 0..n |-> Body(f, k)]
           Good == {n \in Nat : \E f : Is(f, n)}
<1>1. 0 \in Good
  <2> DEFINE ext == [k \in 0..0 |-> 0]
  <2>1. Is(ext, 0)
    OBVIOUS
  <2> HIDE DEF Is, ext
  <2>2. \E f : Is(f, 0)
    BY <2>1
  <2> QED
    BY <2>2
<1>2. ASSUME NEW n \in Good PROVE n + 1 \in Good
  <2>1. n \in Nat /\ \E f : Is(f, n)
    <3> HIDE DEF Is
    <3> QED
      OBVIOUS
  <2>2. PICK f : Is(f, n)
    BY <2>1
  <2>3. \A k \in 0..n : f[k] = Body(f, k)
    BY <2>2
  <2> DEFINE ext == [k \in 0..n+1 |-> IF k = n + 1 THEN Body(f, n + 1) ELSE f[k]]
  <2>4. \A k \in 0..n : ext[k] = f[k] /\ k \in 0..n+1
    <3> HIDE DEF Body
    <3> QED
      BY <2>1
  <2>5. ext[n + 1] = Body(f, n + 1) /\ f[n] = ext[n] /\ n + 1 - 1 = n
    <3> HIDE DEF Body
    <3> QED
      BY <2>1
  <2>6. \A k \in 0..n+1 : ext[k] = Body(ext, k)
    <3> HIDE DEF ext
    <3> TAKE k \in 0..n+1
    <3>1. CASE k = n + 1
      BY <3>1, <2>1, <2>5
    <3>2. CASE k # n + 1
      <4>1. k \in 0..n /\ (k # 0 => k - 1 \in 0..n)
        BY <3>2, <2>1
      <4> QED
        BY <4>1, <2>3, <2>4
    <3> QED
      BY <3>1, <3>2
  <2>7. ext = [k \in 0..n+1 |-> ext[k]]
    OBVIOUS
  <2> HIDE DEF ext
  <2>8. Is(ext, n + 1)
    BY <2>6, <2>7
  <2> HIDE DEF Is
  <2> QED
    BY <2>1, <2>8
<1>3. Len(h.segs) \in Good
  <2> HIDE DEF Good
  <2>1. Good = Nat
    <3>1. Good \in SUBSET Nat
      BY DEF Good
    <3> QED
      BY <1>1, <1>2, <3>1, InductionInSet
  <2> QED
    BY <2>1
<1> DEFINE f == CHOOSE f : Is(f, Len(h.segs))
<1>4. Is(f, Len(h.segs))
  BY <1>3
<1>5. count_dead(h) = f[Len(h.segs)]
  BY DEF count_dead
<1> HIDE DEF f
<1>6. \A k \in 0..Len(h.segs) : f[k] = Body(f, k)
  BY <1>4
<1>7. f[0] = 0
  BY <1>6
<1>8. \A k \in Nat : 0 < k /\ k <= Len(h.segs) => f[k] = Body(f, k)
  BY <1>6
<1> QED
  BY <1>5, <1>7, <1>8

LEMMA NothingDead ==
    ASSUME NEW h, HeapExact(h), \A s \in DOMAIN h.segs : ~ (Dead(h.segs[s]) > 0)
    PROVE  count_dead(h) \in Int /\ count_dead(h) <= 0
<1> DEFINE n == Len(h.segs)
<1>1. n \in Nat /\ DOMAIN h.segs = 1..n
  BY SegmentNumbers
<1>2. PICK f : /\ f[0] = 0 /\ count_dead(h) = f[n]
               /\ \A k \in Nat : 0 < k /\ k <= n => f[k] = f[k - 1] + Dead(h.segs[k])
  BY <1>1, CountIsFunction
<1> DEFINE G == {k \in Nat : k <= n => f[k] \in Int /\ f[k] <= 0}
<1>3. 0 \in G
  BY <1>2
<1>4. ASSUME NEW k \in G PROVE k + 1 \in G
  <2> SUFFICES ASSUME k + 1 <= n PROVE f[k + 1] \in Int /\ f[k + 1] <= 0
    OBVIOUS
  <2> DEFINE m == k + 1
  <2>1. m \in Nat /\ 0 < m /\ m <= n /\ m - 1 = k /\ k \in Nat
    OBVIOUS
  <2>2. f[k] \in Int /\ f[k] <= 0
    BY <1>1
  <2> HIDE DEF m
  <2>3. f[m] = f[k] + Dead(h.segs[m]) /\ m \in DOMAIN h.segs
    BY <1>1, <1>2, <2>1
  <2>4. Dead(h.segs[m]) \in Int
    BY <2>3, LastBits, WordsFacts DEF Dead, NodeCount, Segments
  <2>5. f[m] \in Int /\ f[m] <= 0
    BY <2>2, <2>3, <2>4
  <2> QED
    BY <2>5 DEF m
<1>5. n \in G
  <2>1. G \in SUBSET Nat
    OBVIOUS
  <2>2. G = Nat
    <3> HIDE DEF G
    <3> QED
      BY <1>3, <1>4, <2>1, InductionInSet
  <2> HIDE DEF G
  <2> QED
    BY <1>1, <2>2
<1> QED
  BY <1>1, <1>2, <1>5

\* After the sweep the pointer stands on a segment that is not full, or on a new
\* one; the bits are those of the marking.
LEMMA Swept ==
    ASSUME NEW h, HeapExact(h)
    PROVE  LET g == bmgc_gc_sweep(h) IN HeapExact(g) /\ Grown(h, g) /\ PointerReady(g)
<1> DEFINE new   == bmgc_gc_sweep(h)
           all   == [s \in 1..Len(h.segs) |-> s]
           some  == {s \in 1..Len(h.segs) : Dead(h.segs[s]) > 0}
           free  == Kept(all, some)
           f     == [h EXCEPT !.free = free]
           g     == rearrangeSegList(h)
           e     == HeapManager_ExpandHeap(g)
<1>1. h \in Heaps /\ Len(h.segs) \in Nat /\ DOMAIN h.segs = 1..Len(h.segs) /\ h.segs \in Seq(Segments)
  BY DEF HeapExact, Heaps
<1>2. g = IF h.segs = <<>> THEN h ELSE fetchSegment(f)
  BY DEF rearrangeSegList
<1>3. new = IF CheckFull(g) THEN newSegment(e) ELSE g
  BY DEF bmgc_gc_sweep
<1>4. all \in Seq(Nat) /\ ToSet(all) = DOMAIN h.segs
  <2> DEFINE n == Len(h.segs)
  <2>1. all \in Seq(Nat)
    BY <1>1
  <2>2. DOMAIN all = DOMAIN h.segs /\ \A s \in DOMAIN h.segs : all[s] = s
    BY <1>1
  <2> HIDE DEF all
  <2>3. ToSet(all) = DOMAIN h.segs
    BY <2>2 DEF ToSet
  <2> QED
    BY <2>1, <2>3
<1>5. free \in Seq(Nat) /\ ToSet(free) = ToSet(all) \cap some
  <2> HIDE DEF all, some
  <2> QED
    BY <1>4, KeptElements
<1>6. \A s \in DOMAIN h.segs : s \in some <=> Dead(h.segs[s]) > 0
  BY <1>1
<1> HIDE DEF all, some
<1>7. some \subseteq DOMAIN h.segs
  BY <1>1 DEF some
<1> HIDE DEF free
<1>8. \A k \in DOMAIN free : free[k] \in DOMAIN h.segs
  BY <1>4, <1>5 DEF ToSet
<1>9. f \in Heaps /\ f.segs = h.segs /\ f.free = free /\ f.p = h.p /\ f.pool = h.pool
  BY <1>1, <1>5 DEF Heaps
<1> HIDE DEF f
<1>10. HeapExact(f) /\ SameBlocks(h, f)
  BY <1>8, <1>9 DEF HeapExact, SameBlocks
<1>11. CASE h.segs = <<>>
  <2>1. g = h /\ ~CheckFull(g)
    BY <1>2, <1>11 DEF CheckFull
  <2>2. SameBlocks(h, h) /\ h.p.seg = 0
    BY <1>11 DEF SameBlocks, HeapExact
  <2>3. Grown(h, h) /\ PointerReady(h)
    BY <2>2, SameIsGrown DEF PointerReady
  <2> HIDE DEF new, g
  <2> QED
    BY <1>3, <2>1, <2>3 DEF new
<1>12. CASE h.segs # <<>>
  <2>1. HeapExact(g) /\ SameBlocks(h, g)
    <3>1. CASE free = <<>>
      <4>1. g = f
        BY <1>2, <1>9, <1>12, <3>1 DEF fetchSegment
      <4> HIDE DEF g
      <4> QED
        BY <1>10, <4>1
    <3>2. CASE free # <<>>
      <4>1. HeapExact(fetchSegment(f)) /\ SameBlocks(f, fetchSegment(f))
        BY <1>9, <1>10, <3>2, Fetched
      <4>2. g = fetchSegment(f)
        BY <1>2, <1>12
      <4> HIDE DEF g
      <4> QED
        BY <1>9, <4>1, <4>2 DEF SameBlocks
    <3> QED
      BY <3>1, <3>2
  <2>2. ~CheckFull(g) => PointerReady(g)
    <3> SUFFICES ASSUME free = <<>> PROVE CheckFull(g)
      <4>1. CASE free # <<>>
        <5>1. PointerReady(fetchSegment(f))
          BY <1>9, <1>10, <4>1, Fetched
        <5> QED
          BY <1>2, <1>12, <5>1
      <4> QED
        BY <4>1
    <3>1. g = f
      BY <1>2, <1>9, <1>12 DEF fetchSegment
    <3> HIDE DEF g
    <3>2. ToSet(free) = {}
      BY DEF ToSet
    <3>3. \A s \in DOMAIN f.segs : ~ (Dead(f.segs[s]) > 0)
      BY <1>4, <1>5, <1>6, <1>7, <1>9, <3>2
    <3>4. count_dead(f) \in Int /\ count_dead(f) <= 0
      BY <1>10, <3>3, NothingDead
    <3>5. NodeCount \in Nat /\ NodeCount > 0
      BY WordsFacts DEF NodeCount
    <3> QED
      BY <1>9, <1>12, <3>1, <3>4, <3>5 DEF CheckFull
  <2>3. Grown(h, g)
    <3> HIDE DEF g
    <3> QED
      BY <2>1, SameIsGrown
  <2> HIDE DEF g
  <2>4. CASE CheckFull(g)
    <3>1. g \in Heaps /\ MoreSegments \in Nat /\ MoreSegments # 0
      BY <2>1, HeapAssumption DEF HeapExact
    <3>2. e \in Heaps /\ e.segs = g.segs /\ e.free = g.free /\ e.p = g.p /\ e.pool = MoreSegments
      BY <3>1 DEF Heaps, HeapManager_ExpandHeap
    <3> HIDE DEF e
    <3>3. HeapExact(e) /\ SameBlocks(g, e)
      BY <2>1, <3>2 DEF HeapExact, SameBlocks
    <3> DEFINE n == newSegment(e)
    <3>4. HeapExact(n) /\ Grown(e, n) /\ PointerReady(n)
      BY <3>1, <3>2, <3>3, SegmentBegun
    <3> HIDE DEF n
    <3>5. Grown(g, e)
      BY <2>1, <3>3, SameIsGrown
    <3>6. Grown(h, e)
      BY <2>1, <2>3, <3>3, <3>5, GrownIsTransitive
    <3>7. Grown(h, n)
      BY <3>3, <3>4, <3>6, GrownIsTransitive
    <3> HIDE DEF new
    <3> QED
      BY <1>3, <2>4, <3>4, <3>7 DEF new, n
  <2>5. CASE ~CheckFull(g)
    BY <1>3, <2>1, <2>2, <2>3, <2>5
  <2> QED
    BY <2>4, <2>5
<1> QED
  BY <1>11, <1>12

-----------------------------------------------------------------------------
(***************************************************************************)
(* The assertions of gc.c.  No search fails in a word that is not full, no *)
(* full segment is fetched, and a new segment is begun only when no other  *)
(* is left.                                                                *)
(***************************************************************************)
\* The segments of a free list, each once, none of them full.
Unfilled(free, segs) ==
    /\ \A i \in DOMAIN free, j \in DOMAIN free : free[i] = free[j] => i = j
    /\ \A i \in DOMAIN free : segs[free[i]].live < NodeCount

\* The free list between two allocations: the pointer fills none of its segments.
FreeReady(h) == Unfilled(h.free, h.segs) /\ \A i \in DOMAIN h.free : h.free[i] # h.p.seg

\* The count of a segment follows its bits.
LEMMA SameLive ==
    ASSUME NEW h, NEW g, HeapExact(h), HeapExact(g), Grown(h, g)
    PROVE  \A s \in DOMAIN h.segs : g.segs[s].live = h.segs[s].live
<1>1. DOMAIN h.segs \subseteq DOMAIN g.segs
  BY SegmentNumbers DEF Grown
<1>2. ASSUME NEW s \in DOMAIN h.segs PROVE g.segs[s].live = h.segs[s].live
  <2>1. g.segs[s].bm0 = h.segs[s].bm0
    BY <1>1 DEF Grown
  <2>2. h.segs[s].live = Cardinality(h.segs[s].bm0 \ Fixed) /\ g.segs[s].live = Cardinality(g.segs[s].bm0 \ Fixed)
    BY <1>1 DEF HeapExact, SegExact
  <2> QED
    BY <2>1, <2>2
<1> QED
  BY <1>2

LEMMA UnfilledGrown ==
    ASSUME NEW h, NEW g, HeapExact(h), HeapExact(g), Grown(h, g), Unfilled(h.free, h.segs), g.free = h.free
    PROVE  Unfilled(g.free, g.segs)
<1>1. \A i \in DOMAIN h.free : h.free[i] \in DOMAIN h.segs
  BY DEF HeapExact
<1> QED
  BY <1>1, SameLive DEF Unfilled

\* The first segment of the list is not full, and is not in the rest of it.
LEMMA FetchedFree ==
    ASSUME NEW h, HeapExact(h), h.free # <<>>, Unfilled(h.free, h.segs)
    PROVE  LET g == fetchSegment(h)
           IN  FreeReady(g) /\ g.ok = h.ok /\ h.segs[Head(h.free)].live < NodeCount
<1> DEFINE g == fetchSegment(h)
           p == Pointer(Head(h.free), h.p.block)
<1>1. h \in Heaps /\ h.free \in Seq(Nat)
  BY DEF HeapExact, Heaps
<1>2. Head(h.free) = h.free[1] /\ 1 \in DOMAIN h.free
  BY <1>1
<1>3. \A k \in DOMAIN Tail(h.free) : /\ k \in Nat /\ k + 1 \in DOMAIN h.free /\ k + 1 # 1
                                     /\ Tail(h.free)[k] = h.free[k + 1]
  BY <1>1
<1>4. p.seg = Head(h.free)
  BY DEF Pointer
<1>5. g = [h EXCEPT !.free = Tail(@), !.p = p]
  BY DEF fetchSegment
<1> HIDE DEF g, p
<1>6. g.free = Tail(h.free) /\ g.p = p /\ g.segs = h.segs /\ g.ok = h.ok
  BY <1>1, <1>5 DEF Heaps
<1>7. \A i \in DOMAIN g.free, j \in DOMAIN g.free : g.free[i] = g.free[j] => i = j
  <2> SUFFICES ASSUME NEW i \in DOMAIN g.free, NEW j \in DOMAIN g.free, g.free[i] = g.free[j] PROVE i = j
    OBVIOUS
  <2>1. i + 1 = j + 1 /\ i \in Nat /\ j \in Nat
    BY <1>3, <1>6 DEF Unfilled
  <2> QED
    BY <2>1
<1>8. \A i \in DOMAIN g.free : g.segs[g.free[i]].live < NodeCount /\ g.free[i] # g.p.seg
  BY <1>2, <1>3, <1>4, <1>6 DEF Unfilled
<1>9. h.segs[Head(h.free)].live < NodeCount
  BY <1>2 DEF Unfilled
<1> QED
  BY <1>6, <1>7, <1>8, <1>9 DEF FreeReady, Unfilled, g

LEMMA FetchedNextFree ==
    ASSUME NEW g, HeapExact(g), FreeReady(g), g.ok, Found(g) \/ g.free # <<>>
    PROVE  FreeReady(FetchNext(g)) /\ FetchNext(g).ok
<1>1. CASE Found(g)
  BY <1>1 DEF FetchNext
<1>2. CASE ~Found(g)
  <2> DEFINE f  == fetchSegment(g)
             ok == f.ok /\ g.segs[Head(g.free)].live < NodeCount
             e  == [f EXCEPT !.ok = ok]
             r  == findNextFreeNode(e)
  <2>1. HeapExact(f) /\ Standing(f)
    BY <1>2, Fetched
  <2>2. FreeReady(f) /\ f.ok = g.ok /\ g.segs[Head(g.free)].live < NodeCount
    BY <1>2, FetchedFree DEF FreeReady
  <2>3. ok = TRUE
    BY <2>2
  <2>4. FetchNext(g) = r
    BY <1>2 DEF FetchNext
  <2> HIDE DEF f, ok
  <2>5. e \in Heaps /\ e.segs = f.segs /\ e.free = f.free /\ e.p = f.p /\ e.ok
    BY <2>1, <2>3 DEF HeapExact, Heaps
  <2> HIDE DEF e
  <2>6. HeapExact(e) /\ Standing(e)
    BY <2>1, <2>5 DEF HeapExact, Standing
  <2>7. HeapExact(r) /\ SameBlocks(e, r) /\ r.free = e.free /\ r.ok = e.ok /\ r.p.seg = e.p.seg
    BY <2>6, Searched
  <2> HIDE DEF r
  <2>8. Unfilled(r.free, r.segs)
    BY <2>2, <2>5, <2>6, <2>7, SameIsGrown, UnfilledGrown DEF FreeReady
  <2> QED
    BY <2>2, <2>4, <2>5, <2>7, <2>8 DEF FreeReady
<1> QED
  BY <1>1, <1>2

\* When no segment of the list has a free block, the list is empty.
LEMMA FetchedUnfilledFree ==
    ASSUME NEW h, HeapExact(h), FreeReady(h), h.ok, ~Found(h)
    PROVE  LET g == fetchUnfilled(h) IN FreeReady(g) /\ g.ok /\ (~Found(g) => g.free = <<>>)
<1> DEFINE n == Len(h.free)
<1>1. n \in Nat
  BY DEF HeapExact, Heaps
<1>2. PICK f : /\ f[0] = h /\ fetchUnfilled(h) = f[n]
               /\ \A k \in Nat : 0 < k /\ k <= n => f[k] = FetchNext(f[k - 1])
  BY <1>1, FetchIsFunction
<1> DEFINE Good(k) == FetchInv(h, f[k], k) /\ FreeReady(f[k]) /\ f[k].ok
           S == {k \in Nat : k <= n => Good(k)}
<1>3. 0 \in S
  BY <1>1, <1>2 DEF FetchInv, SameBlocks
<1>4. ASSUME NEW k \in S PROVE k + 1 \in S
  <2> SUFFICES ASSUME k + 1 <= n PROVE Good(k + 1)
    OBVIOUS
  <2> DEFINE m == k + 1
  <2>1. m \in Nat /\ 0 < m /\ m <= n /\ m - 1 = k /\ k \in Nat
    OBVIOUS
  <2>2. Good(k)
    BY <1>1
  <2> HIDE DEF m
  <2>3. f[m] = FetchNext(f[k])
    BY <1>2, <2>1
  <2>4. FetchInv(h, f[m], m)
    BY <2>1, <2>2, <2>3, FetchedNext
  <2>5. ~Found(f[k]) => f[k].free # <<>>
    <3>1. ~Found(f[k]) => Len(f[k].free) = n - k
      BY <2>2 DEF FetchInv
    <3>2. n - k # 0
      BY <1>1, <2>1
    <3> QED
      BY <3>1, <3>2
  <2>6. HeapExact(f[k])
    BY <2>2 DEF FetchInv
  <2>7. FreeReady(f[m]) /\ f[m].ok
    BY <2>2, <2>3, <2>5, <2>6, FetchedNextFree
  <2> QED
    BY <2>4, <2>7 DEF m
<1>5. S = Nat
  <2>1. S \in SUBSET Nat
    OBVIOUS
  <2> HIDE DEF S
  <2> QED
    BY <1>3, <1>4, <2>1, InductionInSet
<1>6. Good(n)
  <2>1. n \in S
    <3> HIDE DEF S
    <3> QED
      BY <1>1, <1>5
  <2> QED
    BY <2>1, <1>1
<1>7. ~Found(f[n]) => f[n].free = <<>>
  <2> SUFFICES ASSUME ~Found(f[n]) PROVE f[n].free = <<>>
    OBVIOUS
  <2>1. Len(f[n].free) = 0 /\ f[n].free \in Seq(Nat)
    BY <1>1, <1>6 DEF FetchInv, HeapExact, Heaps
  <2> QED
    BY <2>1
<1> QED
  BY <1>2, <1>6, <1>7

LEMMA NoList == ASSUME NEW h, h.free = <<>> PROVE FreeReady(h)
  BY DEF FreeReady, Unfilled

\* newSegment asserts that the free list is empty.
LEMMA BegunFree ==
    ASSUME NEW h, HeapExact(h), h.ok, h.free = <<>>
    PROVE  LET g == newSegment(h) IN g.ok /\ g.free = <<>>
  BY DEF newSegment, HeapExact, Heaps

LEMMA NextSegmentFree ==
    ASSUME NEW h, HeapExact(h), FreeReady(h), h.ok, ~Found(h)
    PROVE  LET g == nextSegment(h) IN FreeReady(g) /\ g.ok
<1> DEFINE g == fetchUnfilled(h)
           n == newSegment(g)
           r == findNextFreeNode(n)
<1>1. HeapExact(g) /\ FreeReady(g) /\ g.ok /\ (~Found(g) => g.free = <<>>)
  BY FetchedUnfilled, FetchedUnfilledFree
<1>2. nextSegment(h) = IF Found(g) THEN g ELSE IF g.pool = 0 THEN n ELSE r
  BY DEF nextSegment
<1> HIDE DEF g
<1>3. CASE Found(g)
  BY <1>1, <1>2, <1>3
<1>4. CASE ~Found(g)
  <2>1. n.ok /\ n.free = <<>>
    BY <1>1, <1>4, BegunFree
  <2>2. CASE g.pool = 0
    <3>1. FreeReady(n)
      BY <2>1, NoList
    <3> QED
      BY <1>2, <1>4, <2>1, <2>2, <3>1
  <2>3. CASE g.pool # 0
    <3>1. HeapExact(n) /\ Standing(n)
      BY <1>1, <2>3, SegmentBegun
    <3> HIDE DEF n
    <3>2. r.free = n.free /\ r.ok = n.ok
      BY <3>1, Searched
    <3>3. FreeReady(r)
      BY <2>1, <3>2, NoList
    <3> QED
      BY <1>2, <1>4, <2>1, <2>3, <3>2, <3>3
  <2> QED
    BY <2>2, <2>3
<1> QED
  BY <1>3, <1>4

\* The block that is taken is one of the segment of the pointer.
LEMMA TakenFree ==
    ASSUME NEW h, HeapExact(h), FreeReady(h), h.ok, h.p.seg \in DOMAIN h.segs
    PROVE  LET g == inc(h) IN FreeReady(g) /\ g.ok
<1> DEFINE g == inc(h)
<1>1. h \in Heaps
  BY DEF HeapExact
<1>2. /\ g.free = h.free /\ g.ok = h.ok /\ g.p.seg = h.p.seg
      /\ \A s \in DOMAIN h.segs : s # h.p.seg => g.segs[s] = h.segs[s]
  BY <1>1 DEF inc, Heaps, Pointers
<1>3. \A i \in DOMAIN h.free : h.free[i] \in DOMAIN h.segs
  BY DEF HeapExact
<1> HIDE DEF g
<1> QED
  BY <1>2, <1>3 DEF FreeReady, Unfilled, g

\* An allocation meets no assertion.
LEMMA AllocatedFree ==
    ASSUME NEW h, HeapExact(h), PointerReady(h), FreeReady(h), h.ok
    PROVE  LET g == tryAlloc(h).heap IN FreeReady(g) /\ g.ok
<1> DEFINE here == IF isMarked(h) THEN findNextFreeNode(h) ELSE h
           at   == IF isMarked(h) /\ ~Found(here) THEN nextSegment(here) ELSE here
           r    == tryAlloc(h)
<1>1. r = IF isMarked(h) /\ ~Found(at) THEN [heap |-> at, block |-> Null] ELSE [heap |-> inc(at), block |-> at.p.block]
  BY DEF tryAlloc
<1>2. ~isMarked(h) => OnFree(h)
  BY DEF PointerReady, isMarked, OnFree, Standing, Bit
<1>3. ~isMarked(h) => h.p.mask # None
  BY <1>2 DEF OnFree, Standing
<1>4. isMarked(h) => /\ HeapExact(here) /\ SameBlocks(h, here) /\ (Found(here) => OnFree(here))
                     /\ here.free = h.free /\ here.ok = h.ok /\ here.p.seg = h.p.seg
  <2>1. CASE h.p.seg = 0
    BY <2>1, NoSegment
  <2>2. CASE h.p.seg # 0
    BY <2>2, Searched DEF PointerReady
  <2> QED
    BY <2>1, <2>2
<1>5. HeapExact(here) /\ FreeReady(here) /\ here.ok /\ (Found(here) => OnFree(here))
  <2>1. ~isMarked(h) => here = h
    OBVIOUS
  <2> HIDE DEF here
  <2>2. CASE isMarked(h)
    <3>1. Unfilled(here.free, here.segs)
      BY <1>4, <2>2, SameIsGrown, UnfilledGrown DEF FreeReady
    <3> QED
      BY <1>4, <2>2, <3>1 DEF FreeReady
  <2>3. CASE ~isMarked(h)
    BY <1>2, <2>1, <2>3
  <2> QED
    BY <2>2, <2>3
<1>6. HeapExact(at) /\ FreeReady(at) /\ at.ok /\ (Found(at) => OnFree(at))
  <2> HIDE DEF here
  <2>1. CASE isMarked(h) /\ ~Found(here)
    BY <1>5, <2>1, NextSegment, NextSegmentFree
  <2>2. CASE ~ (isMarked(h) /\ ~Found(here))
    BY <1>5, <2>2
  <2> QED
    BY <2>1, <2>2
<1>7. ~isMarked(h) => Found(at)
  BY <1>3 DEF Found
<1> HIDE DEF here, at, r
<1>8. CASE isMarked(h) /\ ~Found(at)
  BY <1>1, <1>6, <1>8 DEF r
<1>9. CASE Found(at)
  <2>1. at.p.seg \in DOMAIN at.segs
    BY <1>6, <1>9 DEF OnFree, Standing
  <2>2. FreeReady(inc(at)) /\ inc(at).ok
    BY <1>6, <2>1, TakenFree
  <2> QED
    BY <1>1, <1>9, <2>2 DEF r
<1> QED
  BY <1>7, <1>8, <1>9

\* Kept takes the numbers in their order, so each once.
LEMMA KeptNumbers ==
    ASSUME NEW n \in Nat, NEW S
    PROVE  LET r == Kept([k \in 1..n |-> k], S)
           IN  \A i \in DOMAIN r, j \in DOMAIN r : r[i] = r[j] => i = j
<1> DEFINE s == [k \in 1..n |-> k]
<1>1. Len(s) = n /\ Len(s) \in Nat
  OBVIOUS
<1>2. \A k \in Nat : 0 < k /\ k <= n => s[k] = k
  OBVIOUS
<1> HIDE DEF s
<1>3. PICK f : /\ f[0] = <<>> /\ Kept(s, S) = f[n]
               /\ \A k \in Nat : 0 < k /\ k <= n => f[k] = IF s[k] \in S THEN Append(f[k - 1], s[k]) ELSE f[k - 1]
  <2>1. \E f : /\ f[0] = <<>> /\ Kept(s, S) = f[Len(s)]
               /\ \A k \in Nat : 0 < k /\ k <= Len(s) => f[k] = IF s[k] \in S THEN Append(f[k - 1], s[k]) ELSE f[k - 1]
    <3>1. Len(s) \in Nat
      BY <1>1
    <3> QED
      BY ONLY <3>1, KeptIsFunction
  <2> QED
    BY <1>1, <2>1
<1> DEFINE Good(k) == /\ f[k] \in Seq(Nat)
                      /\ \A i \in DOMAIN f[k] : f[k][i] <= k
                      /\ \A i \in DOMAIN f[k], j \in DOMAIN f[k] : f[k][i] = f[k][j] => i = j
           G == {k \in Nat : k <= n => Good(k)}
<1>4. 0 \in G
  <2>1. f[0] \in Seq(Nat) /\ DOMAIN f[0] = {}
    BY <1>3
  <2> QED
    BY <2>1
<1>5. ASSUME NEW k \in G PROVE k + 1 \in G
  <2> SUFFICES ASSUME k + 1 <= n PROVE Good(k + 1)
    OBVIOUS
  <2> DEFINE m == k + 1
  <2>1. m \in Nat /\ 0 < m /\ m <= n /\ m - 1 = k /\ k \in Nat /\ k < m
    OBVIOUS
  <2>2. Good(k)
    BY <2>1
  <2> HIDE DEF m
  <2>3. f[m] = IF m \in S THEN Append(f[k], m) ELSE f[k]
    BY <1>2, <1>3, <2>1
  <2>4. CASE m \notin S
    <3>1. f[m] = f[k]
      BY <2>3, <2>4
    <3>2. \A i \in DOMAIN f[m] : f[m][i] <= m
      <4>1. \A i \in DOMAIN f[m] : f[m][i] \in Nat /\ f[m][i] <= k
        BY <2>2, <3>1
      <4> QED
        BY <4>1, <2>1
    <3> QED
      BY <2>2, <3>1, <3>2 DEF m
  <2>5. CASE m \in S
    <3> DEFINE a == f[k]
               b == f[m]
    <3>1. a \in Seq(Nat) /\ b = Append(a, m)
      BY <2>2, <2>3, <2>5
    <3>2. /\ \A i \in DOMAIN a : a[i] <= k
          /\ \A i \in DOMAIN a, j \in DOMAIN a : a[i] = a[j] => i = j
      BY <2>2
    <3> HIDE DEF a, b
    <3>3. /\ b \in Seq(Nat) /\ Len(a) \in Nat /\ DOMAIN a = 1..Len(a) /\ DOMAIN b = 1..(Len(a) + 1)
          /\ b[Len(a) + 1] = m /\ \A i \in 1..Len(a) : b[i] = a[i] /\ a[i] \in Nat
      BY <2>1, <3>1
    <3>4. \A i \in DOMAIN b : i = Len(a) + 1 \/ i \in DOMAIN a
      BY <3>3
    <3>5. \A i \in DOMAIN a : b[i] = a[i] /\ b[i] <= k /\ b[i] \in Nat /\ b[i] # m
      BY <2>1, <3>2, <3>3
    <3>6. \A i \in DOMAIN b : b[i] <= m
      BY <2>1, <3>3, <3>4, <3>5
    <3>7. \A i \in DOMAIN b, j \in DOMAIN b : b[i] = b[j] => i = j
      BY <3>2, <3>3, <3>4, <3>5
    <3> QED
      BY <3>3, <3>6, <3>7 DEF b, m
  <2> QED
    BY <2>4, <2>5
<1>6. n \in G
  <2>1. G \in SUBSET Nat
    OBVIOUS
  <2>2. G = Nat
    <3> HIDE DEF G
    <3> QED
      BY <1>4, <1>5, <2>1, InductionInSet
  <2> HIDE DEF G
  <2> QED
    BY <2>2
<1>7. Good(n)
  BY <1>6
<1> QED
  BY <1>3, <1>7 DEF s

\* Clearing and marking meet no assertion of the heap.
LEMMA ClearedOk == \A h : HeapExact(h) => clearAllBitMapsAndCount(h).ok = h.ok
  BY DEF clearAllBitMapsAndCount, HeapExact, Heaps

LEMMA MarkedOk == \A h, o : HeapExact(h) => SetMark(h, o).ok = h.ok
  BY DEF SetMark, HeapExact, Heaps

-----------------------------------------------------------------------------
(***************************************************************************)
(* Room.  A heap whose pointer stands in a segment that is not full has a  *)
(* block to give, and so has one whose first segment is still to come.     *)
(***************************************************************************)
Room(h) == Standing(h) /\ h.segs[h.p.seg].live < NodeCount

LEMMA UnfilledWord ==
    ASSUME NEW seg \in Segments, SegExact(seg), seg.live < NodeCount
    PROVE  \E w \in Nat : w < Words /\ ~WordFull(seg.bm0, w)
<1> DEFINE blocks == 1..NodeCount
<1>1. Bits \in Nat \ {0} /\ Blocks \in Nat /\ Words \in Nat /\ Blocks <= Words * Bits /\ NodeCount \in Nat
      /\ NodeCount = Blocks - 1
  BY WordsFacts DEF NodeCount
<1>2. IsFiniteSet(seg.bm0 \ Fixed) /\ seg.live = Cardinality(seg.bm0 \ Fixed) /\ seg.live \in Nat
  BY FS_Subset DEF SegExact, Segments
<1>3. blocks \cap Fixed = {}
  BY <1>1, FixedFacts
<1>4. Cardinality(blocks) = NodeCount
  BY <1>1, FS_Interval
<1>5. ~ (blocks \subseteq seg.bm0)
  <2> SUFFICES ASSUME blocks \subseteq seg.bm0 PROVE FALSE
    OBVIOUS
  <2>1. blocks \subseteq seg.bm0 \ Fixed
    BY <1>3
  <2> HIDE DEF blocks
  <2>2. Cardinality(blocks) <= seg.live
    BY <1>2, <2>1, FS_Subset
  <2> QED
    BY <1>1, <1>2, <1>4, <2>2
<1>6. PICK b \in Nat : b < Blocks /\ b \notin seg.bm0
  BY <1>1, <1>5
<1> DEFINE w == b \div Bits
<1>7. w \in Nat /\ w * Bits <= b /\ b < w * Bits + Bits
  BY <1>1
<1> HIDE DEF w
<1>8. b \in WordBits(w)
  BY <1>7, WordBitsFacts
<1>9. w < Words
  <2> SUFFICES ASSUME Words <= w PROVE FALSE
    BY <1>1, <1>7
  <2>1. Words * Bits <= w * Bits
    BY <1>1, <1>7
  <2>2. w * Bits \in Nat /\ Words * Bits \in Nat
    BY <1>1, <1>7
  <2> QED
    BY <1>1, <1>6, <1>7, <2>1, <2>2
<1> QED
  BY <1>6, <1>7, <1>8, <1>9 DEF WordFull

\* Level 1 passes over full words only, so the search meets the word.
LEMMA OpenWord ==
    ASSUME NEW seg \in Segments, SegExact(seg), seg.live < NodeCount, NEW idx \in Nat, WordFull(seg.bm0, idx)
    PROVE  searchUnfilledNode(seg, idx).word # None
<1> DEFINE r     == searchUnfilledNode(seg, idx)
           open  == {w \in 0..Bits - 1 : w \notin seg.bm1 \cup {idx} /\ ~WordFull(seg.bm0, w)}
           found == IF open = {} THEN None ELSE Min(open)
           past  == {w \in 0..Bits - 1 : found = None \/ w < found}
<1>1. r = [word |-> found, bm1 |-> seg.bm1 \cup {idx} \cup past]
  BY DEF searchUnfilledNode
<1>2. PICK w \in Nat : w < Words /\ ~WordFull(seg.bm0, w)
  BY UnfilledWord
<1>3. w \notin seg.bm1 /\ w # idx
  BY <1>2 DEF SegExact, Level1Exact
<1>4. w \in 0..Bits - 1
  BY <1>2, WordsFacts
<1>5. w \in open
  BY <1>2, <1>3, <1>4
<1>6. open \in SUBSET Nat
  BY WordsFacts
<1> HIDE DEF open
<1>7. Min(open) \in Nat
  BY <1>5, <1>6, MinIsLeast
<1>8. found # None
  BY <1>5, <1>7 DEF None
<1> HIDE DEF found, past
<1> QED
  BY <1>1, <1>8

LEMMA FoundInRoom ==
    ASSUME NEW h, HeapExact(h), Room(h)
    PROVE  Found(findNextFreeNode(h))
<1> DEFINE g    == findNextFreeNode(h)
           p    == h.p
           s    == p.seg
           seg  == h.segs[s]
           from == Bit(p)
           word == WordBits(p.idx)
           here == NextBit(seg.bm0, from, word)
           next == searchUnfilledNode(seg, p.idx)
           b    == NextBit(seg.bm0, next.word * Bits, WordBits(next.word))
<1>1. /\ h \in Heaps /\ p \in Pointers /\ s \in DOMAIN h.segs /\ s # 0 /\ p.mask \in Nat /\ p.idx \in Nat
      /\ p.idx < Words /\ p.mask # None
  BY DEF HeapExact, Heaps, Pointers, Standing, Room
<1>2. seg \in Segments /\ SegExact(seg) /\ seg.live < NodeCount
  BY <1>1, LastBits DEF Room
<1>3. Bits \in Nat \ {0} /\ Words \in Nat /\ None = -1
  BY WordsFacts DEF None
<1>4. /\ from \in Nat /\ word \subseteq Nat
      /\ \A x \in word : p.idx * Bits <= x
  BY <1>1, <1>3, WordBitsFacts DEF Bit
<1>5. \A x \in Nat : p.idx * Bits <= x /\ x < from => x \in seg.bm0
  BY DEF Room, Standing
<1>6. \/ here = None /\ \A x \in word : x >= from => x \in seg.bm0
      \/ here # None /\ here \in word
  <2> DEFINE bm == seg.bm0
  <2> HIDE DEF from, word, bm
  <2>1. \/ NextBit(bm, from, word) = None /\ \A x \in word : x >= from => x \in bm
        \/ NextBit(bm, from, word) # None /\ NextBit(bm, from, word) \in word
    BY <1>4, NextBitFacts
  <2> QED
    BY <2>1 DEF bm
<1>7. here = None => WordFull(seg.bm0, p.idx)
  <2> HIDE DEF here, from
  <2> QED
    BY <1>4, <1>5, <1>6 DEF WordFull
<1>8. here = None => next.word \in Nat /\ ~WordFull(seg.bm0, next.word)
  <2> SUFFICES ASSUME here = None PROVE next.word \in Nat /\ ~WordFull(seg.bm0, next.word)
    OBVIOUS
  <2> HIDE DEF here, seg
  <2>1. next.word # None
    BY <1>1, <1>2, <1>7, OpenWord
  <2>2. next.word = None \/ (next.word \in Nat /\ ~WordFull(seg.bm0, next.word))
    BY <1>1, <1>2, <1>7, SearchedWords
  <2> QED
    BY <2>1, <2>2
<1>9. here = None => b \in Nat
  <2> SUFFICES ASSUME here = None PROVE b \in Nat
    OBVIOUS
  <2> DEFINE w     == next.word
             first == w * Bits
             more  == WordBits(w)
             bm    == seg.bm0
  <2>1. w \in Nat /\ ~ (more \subseteq bm)
    BY <1>8 DEF WordFull
  <2> HIDE DEF w
  <2>2. first \in Nat /\ more \subseteq Nat /\ \A x \in more : x >= first
    BY <1>3, <2>1, WordBitsFacts
  <2> HIDE DEF first, more, bm
  <2>3. \/ NextBit(bm, first, more) = None /\ \A x \in more : x >= first => x \in bm
        \/ NextBit(bm, first, more) # None /\ NextBit(bm, first, more) \in more
    BY <2>2, NextBitFacts
  <2>4. NextBit(bm, first, more) \in Nat
    BY <2>1, <2>2, <2>3
  <2> QED
    BY <2>4 DEF w, first, more, bm
<1>10. g = IF here # None THEN [h EXCEPT !.p.mask = here % Bits, !.p.block = Address(s, here)]
           ELSE IF next.word = None THEN [h EXCEPT !.p.mask = None, !.segs[s].bm1 = next.bm1]
           ELSE [h EXCEPT !.segs[s].bm1 = next.bm1, !.ok = @ /\ b # None,
                          !.p.idx = next.word, !.p.mask = b % Bits, !.p.block = Address(s, b)]
  <2>1. (IF p.mask = None THEN None ELSE NextBit(seg.bm0, p.idx * Bits + p.mask, WordBits(p.idx))) = here
    BY <1>1 DEF Bit
  <2>2. p.seg # 0
    BY <1>1
  <2> HIDE DEF here
  <2> QED
    BY ONLY <2>1, <2>2, Zenon DEF findNextFreeNode, g, p, s, seg, next, b
<1> HIDE DEF g, here, next, b, word, from
<1>11. CASE here # None
  <2>1. here \in Nat
    BY <1>4, <1>6, <1>11
  <2> DEFINE m == here % Bits
             a == Address(s, here)
  <2>2. m \in Nat
    BY <1>3, <2>1
  <2>3. g = [h EXCEPT !.p.mask = m, !.p.block = a]
    BY <1>10, <1>11
  <2> HIDE DEF m, a
  <2>4. g.p.mask = m
    BY <1>1, <2>3 DEF Heaps, Pointers
  <2> QED
    BY <1>3, <2>2, <2>4 DEF Found, g
<1>12. CASE here = None
  <2>1. b \in Nat /\ next.word # None
    BY <1>3, <1>8, <1>9, <1>12
  <2> DEFINE m  == b % Bits
             a  == Address(s, b)
             ok == h.ok /\ b # None
             segs == [h.segs EXCEPT ![s].bm1 = next.bm1]
  <2>2. m \in Nat
    BY <1>3, <2>1
  <2>3. g = [h EXCEPT !.segs = segs, !.ok = ok, !.p.idx = next.word, !.p.mask = m, !.p.block = a]
    BY <1>10, <1>12, <2>1
  <2> HIDE DEF m, a, ok, segs
  <2>4. g.p.mask = m
    BY <1>1, <2>3 DEF Heaps, Pointers
  <2> QED
    BY <1>3, <2>2, <2>4 DEF Found, g
<1> QED
  BY <1>11, <1>12

\* There is a block where there is room.
LEMMA AllocatedInRoom ==
    ASSUME NEW h, HeapExact(h), PointerReady(h), Room(h)
    PROVE  tryAlloc(h).block # Null
<1> DEFINE here == IF isMarked(h) THEN findNextFreeNode(h) ELSE h
<1>1. isMarked(h) => Found(findNextFreeNode(h)) /\ HeapExact(findNextFreeNode(h)) /\ OnFree(findNextFreeNode(h))
  BY FoundInRoom, Searched DEF Room
<1>2. ~isMarked(h) => OnFree(h) /\ Found(h)
  BY DEF PointerReady, isMarked, OnFree, Standing, Bit, Found
<1>3. HeapExact(here) /\ OnFree(here) /\ Found(here)
  BY <1>1, <1>2
<1>4. tryAlloc(h).block = here.p.block
  <2>1. tryAlloc(h) = [heap |-> inc(here), block |-> here.p.block]
    BY <1>3 DEF tryAlloc
  <2> QED
    BY <2>1
<1> HIDE DEF here
<1> QED
  BY <1>3, <1>4, Taken

LEMMA BegunRoom ==
    ASSUME NEW h, HeapExact(h), h.pool # 0
    PROVE  Room(newSegment(h))
<1> DEFINE g == newSegment(h)
           s == Len(h.segs) + 1
<1>1. HeapExact(g) /\ Grown(h, g) /\ Standing(g)
  BY SegmentBegun
<1>2. g.p.seg = s
  BY DEF newSegment, Pointer, HeapExact, Heaps
<1>3. s \notin DOMAIN h.segs
  BY SegmentNumbers
<1> HIDE DEF g
<1>4. s \in DOMAIN g.segs
  BY <1>1, <1>2 DEF Standing
<1>5. g.segs[s].bm0 = Fixed
  BY <1>1, <1>3, <1>4 DEF Grown
<1>6. g.segs[s].live = 0
  <2>1. g.segs[s].live = Cardinality(g.segs[s].bm0 \ Fixed)
    BY <1>1, <1>4 DEF HeapExact, SegExact
  <2> QED
    BY <1>5, <2>1, FS_EmptySet
<1>7. 0 < NodeCount
  BY WordsFacts DEF NodeCount
<1> QED
  BY <1>1, <1>2, <1>6, <1>7 DEF Room, g

\* The first segment is made by the first allocation.
LEMMA NoSegments ==
    ASSUME NEW h, HeapExact(h), h.segs = <<>>
    PROVE  h.free = <<>> /\ h.p.seg = 0
<1>1. h.free \in Seq(Nat) /\ DOMAIN h.segs = {}
  BY DEF HeapExact, Heaps
<1>2. \A k \in DOMAIN h.free : FALSE
  BY <1>1 DEF HeapExact
<1>3. Len(h.free) = 0
  <2>1. Len(h.free) \in Nat /\ DOMAIN h.free = 1..Len(h.free)
    BY <1>1
  <2>2. ~ (1 \in DOMAIN h.free)
    BY <1>2
  <2> QED
    BY <2>1, <2>2
<1>4. h.free = <<>>
  BY <1>1, <1>3
<1> QED
  BY <1>1, <1>4 DEF HeapExact

LEMMA NothingFetched ==
    ASSUME NEW h, HeapExact(h), h.free = <<>>
    PROVE  fetchUnfilled(h) = h
<1>1. Len(h.free) = 0 /\ Len(h.free) \in Nat
  OBVIOUS
<1>2. PICK f : f[0] = h /\ fetchUnfilled(h) = f[Len(h.free)]
  BY <1>1, FetchIsFunction
<1> QED
  BY <1>1, <1>2

LEMMA AllocatedFirst ==
    ASSUME NEW h, HeapExact(h), h.segs = <<>>, h.pool # 0
    PROVE  tryAlloc(h).block # Null
<1> DEFINE here == findNextFreeNode(h)
           n    == newSegment(here)
           at   == findNextFreeNode(n)
<1>1. h.free = <<>> /\ h.p.seg = 0 /\ isMarked(h)
  BY NoSegments DEF isMarked
<1>2. HeapExact(here) /\ ~Found(here) /\ here.free = <<>>
  BY <1>1, NoSegment
<1>3. here.pool = h.pool
  BY <1>1 DEF findNextFreeNode, HeapExact, Heaps
<1> HIDE DEF here
<1>4. nextSegment(here) = at
  <2>1. fetchUnfilled(here) = here
    BY <1>2, NothingFetched
  <2> QED
    BY <1>2, <1>3, <2>1 DEF nextSegment
<1>5. HeapExact(n) /\ Standing(n) /\ Room(n)
  BY <1>2, <1>3, SegmentBegun, BegunRoom
<1> HIDE DEF n
<1>6. Found(at) /\ HeapExact(at) /\ OnFree(at)
  BY <1>5, FoundInRoom, Searched
<1>7. tryAlloc(h).block = at.p.block
  <2>1. tryAlloc(h) = [heap |-> inc(at), block |-> at.p.block]
    <3> HIDE DEF at
    <3> QED
      BY <1>1, <1>2, <1>4, <1>6 DEF tryAlloc, here
  <2> QED
    BY <2>1
<1> HIDE DEF at
<1> QED
  BY <1>6, <1>7, Taken

\* A sweep leaves a list of segments that have dead blocks, and a pointer to one
\* of them or to a new one.
LEMMA SweptReady ==
    ASSUME NEW h, HeapExact(h), h.ok
    PROVE  LET g == bmgc_gc_sweep(h) IN FreeReady(g) /\ g.ok /\ (h.segs # <<>> => Room(g))
<1> DEFINE new   == bmgc_gc_sweep(h)
           all   == [s \in 1..Len(h.segs) |-> s]
           some  == {s \in 1..Len(h.segs) : Dead(h.segs[s]) > 0}
           free  == Kept(all, some)
           f     == [h EXCEPT !.free = free]
           g     == rearrangeSegList(h)
           e     == HeapManager_ExpandHeap(g)
<1>1. h \in Heaps /\ Len(h.segs) \in Nat /\ DOMAIN h.segs = 1..Len(h.segs) /\ h.segs \in Seq(Segments)
  BY DEF HeapExact, Heaps
<1>2. g = IF h.segs = <<>> THEN h ELSE fetchSegment(f)
  BY DEF rearrangeSegList
<1>3. new = IF CheckFull(g) THEN newSegment(e) ELSE g
  BY DEF bmgc_gc_sweep
<1>4. all \in Seq(Nat) /\ ToSet(all) = DOMAIN h.segs
  <2>1. all \in Seq(Nat)
    BY <1>1
  <2>2. DOMAIN all = DOMAIN h.segs /\ \A s \in DOMAIN h.segs : all[s] = s
    BY <1>1
  <2> HIDE DEF all
  <2>3. ToSet(all) = DOMAIN h.segs
    BY <2>2 DEF ToSet
  <2> QED
    BY <2>1, <2>3
<1>5. \A i \in DOMAIN free, j \in DOMAIN free : free[i] = free[j] => i = j
  <2> HIDE DEF some
  <2> QED
    BY <1>1, KeptNumbers
<1>6. free \in Seq(Nat) /\ ToSet(free) = ToSet(all) \cap some
  <2> HIDE DEF all, some
  <2> QED
    BY <1>4, KeptElements
<1>7. \A s \in some : s \in DOMAIN h.segs /\ Dead(h.segs[s]) > 0
  BY <1>1
<1>8. \A s \in DOMAIN h.segs : Dead(h.segs[s]) > 0 => s \in some
  BY <1>1
<1> HIDE DEF all, some
<1>9. \A s \in some : h.segs[s].live < NodeCount
  <2> TAKE s \in some
  <2>1. h.segs[s] \in Segments /\ NodeCount \in Int
    BY <1>1, <1>7, WordsFacts DEF NodeCount
  <2>2. h.segs[s].live \in Nat
    BY <2>1 DEF Segments
  <2> QED
    BY <1>7, <2>1, <2>2 DEF Dead
<1> HIDE DEF free
<1>10. \A k \in DOMAIN free : free[k] \in some
  BY <1>6 DEF ToSet
<1>11. f \in Heaps /\ f.segs = h.segs /\ f.free = free /\ f.p = h.p /\ f.ok
  BY <1>1, <1>6 DEF Heaps
<1> HIDE DEF f
<1>12. HeapExact(f) /\ Unfilled(f.free, f.segs)
  BY <1>5, <1>7, <1>9, <1>10, <1>11 DEF HeapExact, Unfilled
<1>13. g.ok /\ FreeReady(g) /\ g \in Heaps
  <2>1. CASE h.segs = <<>>
    <3>1. h.free = <<>>
      BY <2>1, NoSegments
    <3> QED
      BY <1>1, <1>2, <2>1, <3>1, NoList
  <2>2. CASE h.segs # <<>> /\ free = <<>>
    <3>1. g = f
      BY <1>2, <1>11, <2>2 DEF fetchSegment
    <3> HIDE DEF g
    <3> QED
      BY <1>11, <2>2, <3>1, NoList
  <2>3. CASE h.segs # <<>> /\ free # <<>>
    <3>1. HeapExact(fetchSegment(f)) /\ FreeReady(fetchSegment(f)) /\ fetchSegment(f).ok
      BY <1>11, <1>12, <2>3, Fetched, FetchedFree
    <3>2. g = fetchSegment(f)
      BY <1>2, <2>3
    <3> HIDE DEF g
    <3> QED
      BY <3>1, <3>2 DEF HeapExact
  <2> QED
    BY <2>1, <2>2, <2>3
<1>14. HeapExact(g)
  <2>1. CASE h.segs = <<>>
    BY <1>2, <2>1
  <2>2. CASE h.segs # <<>> /\ free = <<>>
    BY <1>2, <1>11, <1>12, <2>2 DEF fetchSegment
  <2>3. CASE h.segs # <<>> /\ free # <<>>
    BY <1>2, <1>11, <1>12, <2>3, Fetched
  <2> QED
    BY <2>1, <2>2, <2>3
<1>15. h.segs # <<>> => CheckFull(g) \/ Room(g)
  <2> SUFFICES ASSUME h.segs # <<>> PROVE CheckFull(g) \/ Room(g)
    OBVIOUS
  <2>1. CASE free = <<>>
    <3>1. g = f
      BY <1>2, <1>11, <2>1 DEF fetchSegment
    <3> HIDE DEF g
    <3>2. \A s \in DOMAIN f.segs : ~ (Dead(f.segs[s]) > 0)
      <4>1. ToSet(free) = {}
        BY <2>1 DEF ToSet
      <4> QED
        BY <1>4, <1>6, <1>11, <1>8, <4>1
    <3>3. count_dead(f) \in Int /\ count_dead(f) <= 0
      BY <1>12, <3>2, NothingDead
    <3>4. NodeCount \in Nat /\ NodeCount > 0
      BY WordsFacts DEF NodeCount
    <3> QED
      BY <1>11, <2>1, <3>1, <3>3, <3>4 DEF CheckFull
  <2>2. CASE free # <<>>
    <3>1. Standing(fetchSegment(f)) /\ f.segs[Head(f.free)].live < NodeCount
      BY <1>11, <1>12, <2>2, Fetched, FetchedFree
    <3>2. g = fetchSegment(f)
      BY <1>2
    <3>3. fetchSegment(f).p.seg = Head(f.free) /\ fetchSegment(f).segs = f.segs
      BY <1>11, <2>2 DEF fetchSegment, Pointer, Heaps
    <3> HIDE DEF g
    <3> QED
      BY <3>1, <3>2, <3>3 DEF Room
  <2> QED
    BY <2>1, <2>2
<1> HIDE DEF g
<1>16. CASE CheckFull(g)
  <2>1. g.free = <<>>
    BY <1>16 DEF CheckFull
  <2>2. MoreSegments \in Nat
    BY HeapAssumption
  <2>3. e \in Heaps /\ e.segs = g.segs /\ e.free = g.free /\ e.p = g.p /\ e.ok = g.ok /\ e.pool = MoreSegments
    BY <1>13, <2>2 DEF Heaps, HeapManager_ExpandHeap
  <2> HIDE DEF e
  <2>4. HeapExact(e)
    BY <1>14, <2>3 DEF HeapExact
  <2>5. newSegment(e).ok /\ newSegment(e).free = <<>>
    BY <1>13, <2>1, <2>3, <2>4, BegunFree
  <2>6. Room(newSegment(e))
    BY <1>13, <2>2, <2>3, <2>4, BegunRoom, HeapAssumption
  <2> QED
    BY <1>3, <1>16, <2>5, <2>6, NoList
<1>17. CASE ~CheckFull(g)
  BY <1>3, <1>13, <1>17, <1>15
<1> QED
  BY <1>16, <1>17
=============================================================================
