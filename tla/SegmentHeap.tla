---------------------------- MODULE SegmentHeap ----------------------------
(***************************************************************************)
(* The blocks of the mark and sweep collector (node/gc.c, the build with   *)
(* MOZVM_MEMORY_USE_MSGC): segments with their bitmaps, the allocation     *)
(* pointer, the free list of segments.                                     *)
(*                                                                         *)
(* All nodes have one size, so one sub-heap is in use: klass 6 on a 64-bit *)
(* machine, 2048 blocks in 32 words of 64 bits.  Block 0 of a segment is   *)
(* its NodeHeader.  Level 0 of a bitmap has a bit for every block, level 1 *)
(* a bit for every word of level 0; one word of level 1 is enough, so      *)
(* level 2 is full from the start and its search finds nothing.            *)
(*                                                                         *)
(* A bitmap is the set of the bits that are set, numbered from 0.  A heap  *)
(* is a value; the machine on top of it owns the variable.                 *)
(***************************************************************************)
EXTENDS Integers, SequencesExt

CONSTANTS
    Bits,           \* BITS, the bits of a word
    Blocks,         \* the blocks of a segment
    PoolSize,       \* SUBHEAP_DEFAULT_SEGPOOL_SIZE, the segments of the first pool
    MoreSegments    \* twice that number, the segments of every other pool

ASSUME HeapAssumption ==
    /\ Bits \in Nat \ {0} /\ PoolSize \in Nat \ {0} /\ MoreSegments \in Nat \ {0}
    /\ Blocks \in 2..Bits * Bits

Words     == (Blocks + Bits - 1) \div Bits
NodeCount == Blocks - 1             \* SegmentNodeCount
Null      == 0                      \* the address of the first header: no node

\* Addresses number the blocks of all segments; managed_heap is a multiple of
\* the size of a segment.
Address(seg, b) == (seg - 1) * Blocks + b
SegmentOf(o)    == o \div Blocks + 1
IndexOf(o)      == o % Blocks

WordBits(w)       == w * Bits .. w * Bits + Bits - 1
WordFull(bm0, w)  == WordBits(w) \subseteq bm0

\* The elements of a sequence that are in a set, in their order.
Kept(s, S) ==
    LET kept[k \in 0..Len(s)] ==
            IF k = 0 THEN <<>> ELSE IF s[k] \in S THEN Append(kept[k - 1], s[k]) ELSE kept[k - 1]
    IN  kept[Len(s)]

-----------------------------------------------------------------------------
(***************************************************************************)
(* Segments.                                                               *)
(***************************************************************************)
\* BITMAP_MASK: the bits of both levels that stand for nothing.
NoBlock == Blocks..Words * Bits - 1
NoWord  == Words..Bits - 1

\* A cleared bitmap with its limits and the bit of the header.
BITMAP_SET_LIMIT == [bm0 |-> {0} \cup NoBlock, bm1 |-> NoWord, live |-> 0]

\* mask = None is the mask 0; segment 0 is segment_dummy, whose bits are all set.
None == -1

Pointer(seg, block) == [seg |-> seg, idx |-> 0, mask |-> 0, block |-> block]

\* HeapManager_init, Heap_Init: a pool of segments, none of them in seglist.
HeapManager_init ==
    [segs |-> <<>>, pool |-> PoolSize, free |-> <<>>, p |-> Pointer(0, Null), ok |-> TRUE]

HeapManager_ExpandHeap(h) == [h EXCEPT !.pool = MoreSegments]

\* newSegment, which fails on an empty pool: seglist grows, and the pointer
\* stands on the header, with the address of the block after it.
newSegment(h) ==
    LET s == Len(h.segs) + 1
    IN  [h EXCEPT !.ok = @ /\ h.free = <<>>,
                  !.segs = IF h.pool = 0 THEN @ ELSE Append(@, BITMAP_SET_LIMIT),
                  !.pool = IF @ = 0 THEN 0 ELSE @ - 1,
                  !.p = IF h.pool = 0 THEN @ ELSE Pointer(s, Address(s, 1))]

\* fetchSegment: the address keeps its old value.
fetchSegment(h) ==
    IF h.free = <<>> THEN h
    ELSE [h EXCEPT !.free = Tail(@), !.p = Pointer(Head(h.free), @.block)]

-----------------------------------------------------------------------------
(***************************************************************************)
(* The search for a free block.                                            *)
(***************************************************************************)
\* BP_NEXT_MASK: the lowest clear bit from the mask up, among those of a word.
NextBit(bm, from, word) ==
    LET clear == {b \in word : b >= from /\ b \notin bm}
    IN  IF clear = {} THEN None ELSE Min(clear)

\* BitPtr_searchUnfilledNode on level 1: the word that is left and the full
\* words on the way are set; the word that is found is the lowest clear bit.
searchUnfilledNode(seg, idx) ==
    LET open  == {w \in 0..Bits - 1 : w \notin seg.bm1 \cup {idx} /\ ~WordFull(seg.bm0, w)}
        found == IF open = {} THEN None ELSE Min(open)
        past  == {w \in 0..Bits - 1 : found = None \/ w < found}
    IN  [word |-> found, bm1 |-> seg.bm1 \cup {idx} \cup past]

\* findNextFreeNode: the rest of the word, then the next word that is not full.
\* It fails with mask = None, which is how its result is told.
findNextFreeNode(h) ==
    LET p    == h.p
        seg  == h.segs[p.seg]
        here == IF p.mask = None THEN None
                ELSE NextBit(seg.bm0, p.idx * Bits + p.mask, WordBits(p.idx))
        next == searchUnfilledNode(seg, p.idx)
    IN  IF p.seg = 0 THEN [h EXCEPT !.p.mask = None]
        ELSE IF here # None
        THEN [h EXCEPT !.p.mask = here % Bits, !.p.block = Address(p.seg, here)]
        ELSE IF next.word = None
        THEN [h EXCEPT !.p.mask = None, !.segs[p.seg].bm1 = next.bm1]
        ELSE LET b == NextBit(seg.bm0, next.word * Bits, WordBits(next.word))
             IN  [h EXCEPT !.segs[p.seg].bm1 = next.bm1, !.ok = @ /\ b # None,
                           !.p.idx = next.word, !.p.mask = b % Bits, !.p.block = Address(p.seg, b)]

Found(h) == h.p.mask # None

\* The loop of nextSegment: a segment of the free list after the other, until one
\* has a free block.
fetchUnfilled(h) ==
    LET try[k \in 0..Len(h.free)] ==
            IF k = 0 THEN h
            ELSE LET g == try[k - 1]
                 IN  IF Found(g) THEN g
                     ELSE findNextFreeNode([fetchSegment(g) EXCEPT !.ok = @ /\ g.segs[Head(g.free)].live < NodeCount])
    IN  try[Len(h.free)]

\* nextSegment: a segment of the free list, then a new one.
nextSegment(h) ==
    LET g == fetchUnfilled(h)
        n == newSegment(g)
    IN  IF Found(g) THEN g ELSE IF g.pool = 0 THEN n ELSE findNextFreeNode(n)

\* isMarked: the bit under the pointer.
isMarked(h) ==
    \/ h.p.seg = 0
    \/ h.p.mask # None /\ h.p.idx * Bits + h.p.mask \in h.segs[h.p.seg].bm0

\* Mutant: the address stays where it is.
inc_KeepsBlock(h) ==
    LET bit == IF h.p.mask = None THEN {} ELSE {h.p.idx * Bits + h.p.mask}
    IN  [h EXCEPT !.segs[h.p.seg].bm0 = @ \cup bit, !.segs[h.p.seg].live = @ + 1,
                  !.p.mask = IF @ = None THEN None ELSE (@ + 1) % Bits]

\* inc: the bit is set and counted; the mask rotates within its word, the
\* address goes on to the next block.
inc(h) ==
    LET bit == IF h.p.mask = None THEN {} ELSE {h.p.idx * Bits + h.p.mask}
    IN  [h EXCEPT !.segs[h.p.seg].bm0 = @ \cup bit, !.segs[h.p.seg].live = @ + 1,
                  !.p.mask = IF @ = None THEN None ELSE (@ + 1) % Bits,
                  !.p.block = @ + 1]

\* tryAlloc: the heap and the block, Null if there is none.
tryAlloc(h) ==
    LET here == IF isMarked(h) THEN findNextFreeNode(h) ELSE h
        at   == IF isMarked(h) /\ ~Found(here) THEN nextSegment(here) ELSE here
    IN  IF isMarked(h) /\ ~Found(at) THEN [heap |-> at, block |-> Null]
        ELSE [heap |-> inc(at), block |-> at.p.block]

-----------------------------------------------------------------------------
(***************************************************************************)
(* Collections.                                                            *)
(***************************************************************************)
\* Mutant: the words that level 1 passes over stay so.
clearAllBitMapsAndCount_KeepsLevel1(h) ==
    [h EXCEPT !.segs = <<>> \o [s \in DOMAIN @ |-> [BITMAP_SET_LIMIT EXCEPT !.bm1 = h.segs[s].bm1]]]

clearAllBitMapsAndCount(h) == [h EXCEPT !.segs = <<>> \o [s \in DOMAIN @ |-> BITMAP_SET_LIMIT]]

Marked(h, o) == IndexOf(o) \in h.segs[SegmentOf(o)].bm0

\* Mutant: a node that is marked is not counted.
SetMark_NoCount(h, o) ==
    LET seg == h.segs[SegmentOf(o)]
        bm0 == seg.bm0 \cup {IndexOf(o)}
        w   == IndexOf(o) \div Bits
    IN  [h EXCEPT !.segs[SegmentOf(o)] =
            [bm0 |-> bm0, bm1 |-> IF WordFull(bm0, w) THEN seg.bm1 \cup {w} ELSE seg.bm1, live |-> seg.live]]

\* The bits and the count that mark_mstack sets for an unmarked node.
SetMark(h, o) ==
    LET seg == h.segs[SegmentOf(o)]
        bm0 == seg.bm0 \cup {IndexOf(o)}
        w   == IndexOf(o) \div Bits
    IN  [h EXCEPT !.segs[SegmentOf(o)] =
            [bm0 |-> bm0, bm1 |-> IF WordFull(bm0, w) THEN seg.bm1 \cup {w} ELSE seg.bm1, live |-> seg.live + 1]]

Dead(seg) == NodeCount - seg.live

\* The dead blocks of all segments.
count_dead(h) ==
    LET count[s \in 0..Len(h.segs)] == IF s = 0 THEN 0 ELSE count[s - 1] + Dead(h.segs[s])
    IN  count[Len(h.segs)]

\* rearrangeSegList: the free list is rebuilt from the counts, and its first
\* segment is fetched.
rearrangeSegList(h) ==
    LET unfilled == Kept([s \in 1..Len(h.segs) |-> s], {s \in 1..Len(h.segs) : Dead(h.segs[s]) > 0})
    IN  IF h.segs = <<>> THEN h ELSE fetchSegment([h EXCEPT !.free = unfilled])

\* checkFull: the sub-heap is about to be full.
CheckFull(h) == h.segs # <<>> /\ count_dead(h) < NodeCount /\ h.free = <<>>

\* bmgc_gc_sweep: a heap that is about to be full gets another pool and goes on
\* in a new segment.
bmgc_gc_sweep(h) ==
    LET g == rearrangeSegList(h)
    IN  IF CheckFull(g) THEN newSegment(HeapManager_ExpandHeap(g)) ELSE g
=============================================================================
