--------------------------- MODULE AstSweepProofs ---------------------------
(***************************************************************************)
(* The AST machine on the mark and sweep collector keeps the bitmaps of    *)
(* the heap exact, implements the collector of MarkSweep step by step, and *)
(* fails no assertion of gc.c and always finds a block after a collection, *)
(* for any numbers of words, blocks, segments, labels and memo slots.      *)
(***************************************************************************)
EXTENDS AstSweep, SegmentHeapProofs

-----------------------------------------------------------------------------
(***************************************************************************)
(* The invariant.                                                          *)
(***************************************************************************)
Types    == {"New", "Capture", "Tag", "Replace", "LeftFold", "Link", "Push", "Pop"}
Operands == Positions \cup Labels \cup {Nil} \cup {d.i : d \in Details} \cup Nat
Entries  == [type : Types, i : Operands, e : Operands, shift : Int]

\* What an activation or a cell takes from the log is of no matter here.
Contexts(V) == [head : Nat, spos : V, epos : V, tag : V, value : V, size : Nat, push : Nat]
Activations(V) == Seq(Contexts(V)) \ {<<>>}
Builds(V)   == [for : {"commit", "root"}, tx : Nat, label : Labels \cup {Nil}, k : Nat \ {0}, cs : Activations(V)]
Cells(V)    == [tag : V, pos : V, end : V, value : V, label : V, kids : Seq(Nat)]

\* A node in a segment of the heap.
Held(o) == o \in Nodes /\ IsNode(o, heap)

LogInv == log \in Seq(Entries) /\ \A k \in LinksOf(log) : Held(log[k].e)

MemoInv == memo \in [Slots -> Nat] /\ \A s \in Slots : memo[s] # Null => Held(memo[s])

CellInv ==
    /\ \E V : cells \in [Nodes -> Cells(V)]
    /\ \A o \in Nodes : /\ cells[o].kids # <<>> => IsNode(o, heap)
                        /\ \A n \in ToSet(cells[o].kids) : n # Null => Held(n)

BuildInv == build = Idle \/ (build.tx <= Len(log) /\ \E V : build \in Builds(V))

\* The mark stack: marked nodes, each once, and room for one more.
Distinct(s) == \A i \in DOMAIN s, j \in DOMAIN s : s[i] = s[j] => i = j

Marking == [heap : Heaps, stack : Seq(Nodes), slots : Nat \ {0}]

MarkInv(g) ==
    /\ g \in Marking /\ HeapExact(g.heap)
    /\ Len(g.stack) < g.slots /\ Distinct(g.stack)
    /\ ToSet(g.stack) \subseteq MarkedIn(g.heap)

State == [heap |-> heap, stack |-> gc.stack, slots |-> gc.slots]

GcInv ==
    /\ MarkInv(State)
    /\ gc \in [mode : {"run", "mark", "retry"}, stack : Seq(Nodes), slots : Nat \ {0}]
    /\ gc.mode # "mark" => gc.stack = <<>> /\ PointerReady(heap)

PhaseInv ==
    /\ phase \in {"parse", "parsed", "reset", "bare", "exit"} /\ roots \in BOOLEAN
    /\ build = Idle => gc.mode = "run"
    /\ phase = "parse" => roots
    /\ phase \in {"parsed", "reset", "bare"} => build = Idle
    /\ phase \in {"reset", "bare"} => log = <<>> /\ \A s \in Slots : memo[s] = Null

IInv == LogInv /\ MemoInv /\ CellInv /\ BuildInv /\ GcInv /\ PhaseInv /\ ArraysExact

-----------------------------------------------------------------------------
(***************************************************************************)
(* Nodes.                                                                  *)
(***************************************************************************)
LEMMA NodesAreNumbers == Nodes \in SUBSET Nat /\ Null \notin Nodes /\ IsFiniteSet(Nodes)
<1>1. MaxSegments \in Nat /\ Blocks \in Nat
  BY BoundAssumption, WordsFacts
<1>2. MaxSegments * Blocks \in Nat
  BY <1>1
<1> DEFINE n == MaxSegments * Blocks
<1>3. IsFiniteSet(1..n)
  <2> HIDE DEF n
  <2> QED
    BY <1>2, FS_Interval DEF n
<1>4. Nodes \subseteq 1..n
  BY DEF Nodes
<1>5. IsFiniteSet(Nodes)
  BY <1>3, <1>4, FS_Subset
<1> HIDE DEF n
<1>6. 1..n \subseteq Nat /\ 0 \notin 1..n
  BY <1>2 DEF n
<1> QED
  BY <1>4, <1>5, <1>6 DEF Null

LEMMA NodesFit ==
    ASSUME NEW h, HeapExact(h), Len(h.segs) <= MaxSegments, NEW o, IsNode(o, h)
    PROVE  o \in Nodes
<1>1. o \in Nat /\ IndexOf(o) # 0 /\ SegmentOf(o) \in DOMAIN h.segs
  BY DEF IsNode
<1> DEFINE s == SegmentOf(o)
           b == IndexOf(o)
<1>2. s \in Nat /\ 1 <= s /\ s <= MaxSegments /\ MaxSegments \in Nat /\ Blocks \in Nat
  BY <1>1, LastBits, BoundAssumption, WordsFacts
<1>3. b \in Nat /\ b < Blocks /\ b # 0 /\ o = Address(s, b)
  BY <1>1, NodeFacts
<1> HIDE DEF s, b
<1>4. o = (s - 1) * Blocks + b
  BY <1>3 DEF Address
<1>5. (s - 1) * Blocks \in Nat /\ (s - 1) * Blocks + Blocks = s * Blocks
  BY <1>2
<1>6. s * Blocks <= MaxSegments * Blocks /\ MaxSegments * Blocks \in Nat
  BY <1>2
<1>7. 1 <= o /\ o <= MaxSegments * Blocks
  <2> DEFINE x == (s - 1) * Blocks
             y == MaxSegments * Blocks
             z == s * Blocks
  <2>1. x \in Nat /\ x + Blocks = z /\ z <= y /\ y \in Nat /\ o = x + b
    BY <1>4, <1>5, <1>6
  <2> HIDE DEF x, y, z
  <2> QED
    BY <2>1, <1>2, <1>3 DEF y
<1> QED
  BY <1>1, <1>6, <1>7 DEF Nodes

LEMMA MarkedNodesAre == MarkedNodes = MarkedIn(heap) \cap Nodes
  BY NodesAreNumbers DEF MarkedNodes, MarkedIn, IsNode, Segs, Nodes

-----------------------------------------------------------------------------
(***************************************************************************)
(* The marking.                                                            *)
(***************************************************************************)
LEMMA Pushed ==
    ASSUME NEW g \in Marking, Len(g.stack) < g.slots, NEW o \in Nodes
    PROVE  LET r == mstack_push(g, o)
           IN  /\ r \in Marking /\ r.heap = g.heap /\ r.stack = Append(g.stack, o)
               /\ Len(r.stack) < r.slots
<1> DEFINE n     == Len(g.stack)
           slots == IF (n + 1) % g.slots = 0 THEN 2 * g.slots ELSE g.slots
           all   == Append(g.stack, o)
           stack == SubSeq(all, 1, (n + 1) % slots)
           r     == mstack_push(g, o)
<1>1. n \in Nat /\ g.slots \in Nat \ {0} /\ n < g.slots /\ g.stack \in Seq(Nodes)
  BY DEF Marking
<1>2. all \in Seq(Nodes) /\ Len(all) = n + 1
  BY <1>1
<1>3. n + 1 < slots /\ slots \in Nat \ {0}
  <2> DEFINE m == n + 1
  <2>1. m \in Nat /\ m <= g.slots /\ m # 0
    BY <1>1
  <2> HIDE DEF m
  <2>2. CASE m = g.slots
    <3>1. 1 \in Nat /\ 1 * g.slots = g.slots
      BY <1>1
    <3>2. 1 * g.slots <= m /\ m < 1 * g.slots + g.slots
      BY <1>1, <2>2, <3>1
    <3>3. m % g.slots = m - 1 * g.slots
      BY <1>1, <2>1, <3>1, <3>2, DivisionIsUnique
    <3>4. m % g.slots = 0
      BY <1>1, <2>1, <2>2, <3>1, <3>3
    <3>5. slots = 2 * g.slots
      BY <3>4 DEF m
    <3> HIDE DEF slots
    <3> QED
      BY <1>1, <2>1, <2>2, <3>5 DEF m
  <2>3. CASE m < g.slots
    <3>1. 0 \in Nat /\ 0 * g.slots = 0
      BY <1>1
    <3>2. 0 * g.slots <= m /\ m < 0 * g.slots + g.slots
      BY <1>1, <2>1, <2>3, <3>1
    <3>3. m % g.slots = m - 0 * g.slots
      BY <1>1, <2>1, <3>1, <3>2, DivisionIsUnique
    <3>4. m % g.slots # 0
      BY <1>1, <2>1, <3>1, <3>3
    <3>5. slots = g.slots
      BY <3>4 DEF m
    <3> HIDE DEF slots
    <3> QED
      BY <1>1, <2>1, <2>3, <3>5 DEF m
  <2> QED
    BY <1>1, <2>1, <2>2, <2>3
<1>4. r = [g EXCEPT !.slots = slots, !.stack = stack]
  BY DEF mstack_push
<1> HIDE DEF slots, r
<1>5. (n + 1) % slots = n + 1
  <2> DEFINE m == n + 1
  <2>1. m \in Nat /\ m < slots
    BY <1>1, <1>3
  <2> HIDE DEF m
  <2>2. 0 \in Nat /\ 0 * slots = 0
    BY <1>3
  <2>3. 0 * slots <= m /\ m < 0 * slots + slots
    BY <1>3, <2>1, <2>2
  <2>4. m % slots = m - 0 * slots
    BY <1>3, <2>1, <2>2, <2>3, DivisionIsUnique
  <2>5. m % slots = m
    BY <2>1, <2>2, <2>4
  <2> QED
    BY <2>5 DEF m
<1> HIDE DEF all
<1>6. stack = all
  <2>1. stack = SubSeq(all, 1, Len(all))
    BY <1>2, <1>5
  <2> QED
    BY <1>2, <2>1, SubSeqFull
<1> HIDE DEF stack
<1>7. r \in Marking /\ r.heap = g.heap /\ r.stack = all /\ r.slots = slots
  BY <1>2, <1>3, <1>4, <1>6 DEF Marking
<1> QED
  BY <1>2, <1>3, <1>7 DEF r, all

\* The elements of a longer sequence.
LEMMA AppendedSet ==
    ASSUME NEW T, NEW s \in Seq(T), NEW x \in T
    PROVE  /\ Append(s, x) \in Seq(T) /\ ToSet(Append(s, x)) = ToSet(s) \cup {x}
           /\ Distinct(s) /\ x \notin ToSet(s) => Distinct(Append(s, x))
<1> DEFINE a == Append(s, x)
<1>1. a \in Seq(T) /\ Len(s) \in Nat /\ DOMAIN s = 1..Len(s) /\ DOMAIN a = 1..(Len(s) + 1)
  OBVIOUS
<1>2. a[Len(s) + 1] = x /\ \A j \in 1..Len(s) : a[j] = s[j]
  OBVIOUS
<1> HIDE DEF a
<1>3. \A j \in DOMAIN a : j = Len(s) + 1 \/ j \in DOMAIN s
  BY <1>1
<1>4. ToSet(a) = ToSet(s) \cup {x}
  BY <1>1, <1>2, <1>3 DEF ToSet
<1>5. ASSUME Distinct(s), x \notin ToSet(s) PROVE Distinct(a)
  BY <1>1, <1>2, <1>3, <1>5 DEF Distinct, ToSet
<1> QED
  BY <1>1, <1>4, <1>5 DEF a

MarkStep(g, r, seen) ==
    /\ MarkInv(r)
    /\ \A n : IsNode(n, g.heap) <=> IsNode(n, r.heap)
    /\ MarkedIn(r.heap) = MarkedIn(g.heap) \cup seen
    /\ ToSet(r.stack) = ToSet(g.stack) \cup (seen \ MarkedIn(g.heap))

LEMMA MarkedOne ==
    ASSUME NEW g, MarkInv(g), NEW o \in Nat, o # Null => o \in Nodes /\ IsNode(o, g.heap)
    PROVE  MarkStep(g, mark_mstack(g, o), {o} \ {Null})
<1>1. g \in Marking /\ g.heap \in Heaps
  BY DEF MarkInv, Marking
<1>2. CASE o = Null
  <2> DEFINE h == [g.heap EXCEPT !.ok = FALSE]
             r == [g EXCEPT !.heap = h]
  <2>1. h \in Heaps /\ h.segs = g.heap.segs /\ h.free = g.heap.free /\ h.p = g.heap.p
    BY <1>1 DEF Heaps
  <2>2. mark_mstack(g, o) = r
    BY <1>2 DEF mark_mstack
  <2> HIDE DEF h
  <2>3. HeapExact(h)
    BY <2>1 DEF HeapExact, MarkInv
  <2>4. r \in Marking /\ r.heap = h /\ r.stack = g.stack /\ r.slots = g.slots
    BY <1>1, <2>1 DEF Marking
  <2> HIDE DEF r
  <2>5. MarkedIn(h) = MarkedIn(g.heap) /\ \A n : IsNode(n, g.heap) <=> IsNode(n, h)
    BY <2>1 DEF MarkedIn, IsNode, Marked
  <2>6. MarkInv(r)
    BY <2>3, <2>4, <2>5 DEF MarkInv
  <2>7. {o} \ {Null} = {}
    BY <1>2
  <2> QED
    BY <2>2, <2>4, <2>5, <2>6, <2>7 DEF MarkStep
<1>3. CASE o # Null /\ Marked(g.heap, o)
  <2>1. mark_mstack(g, o) = g /\ o \in MarkedIn(g.heap)
    BY <1>3 DEF mark_mstack, MarkedIn
  <2> QED
    BY <2>1 DEF MarkStep
<1>4. CASE o # Null /\ ~Marked(g.heap, o)
  <2> DEFINE h == SetMark(g.heap, o)
             e == [g EXCEPT !.heap = h]
             r == mstack_push(e, o)
  <2>1. mark_mstack(g, o) = r
    BY <1>4 DEF mark_mstack
  <2>2. /\ HeapExact(h) /\ MarkedIn(h) = MarkedIn(g.heap) \cup {o} /\ o \notin MarkedIn(g.heap)
        /\ \A n : IsNode(n, g.heap) <=> IsNode(n, h)
    BY <1>4, MarkIsSet DEF MarkInv
  <2>3. h \in Heaps
    BY <2>2 DEF HeapExact
  <2> HIDE DEF h
  <2>4. e \in Marking /\ e.heap = h /\ e.stack = g.stack /\ e.slots = g.slots
    BY <1>1, <2>3 DEF Marking
  <2> HIDE DEF e
  <2>5. r \in Marking /\ r.heap = h /\ r.stack = Append(g.stack, o) /\ Len(r.stack) < r.slots
    BY <1>4, <2>4, Pushed DEF MarkInv
  <2> HIDE DEF r
  <2>6. g.stack \in Seq(Nodes) /\ o \in Nodes /\ Distinct(g.stack) /\ o \notin ToSet(g.stack)
    BY <1>1, <1>4, <2>2 DEF Marking, MarkInv
  <2>7. ToSet(r.stack) = ToSet(g.stack) \cup {o} /\ Distinct(r.stack)
    BY <2>5, <2>6, AppendedSet
  <2>8. MarkInv(r)
    BY <2>2, <2>5, <2>7 DEF MarkInv
  <2>9. {o} \ {Null} = {o} /\ {o} \ MarkedIn(g.heap) = {o}
    BY <1>4, <2>2
  <2> QED
    BY <2>1, <2>2, <2>5, <2>7, <2>8, <2>9 DEF MarkStep
<1> QED
  BY <1>2, <1>3, <1>4

LEMMA VisitIsFunction ==
    ASSUME NEW g, NEW nodes, Len(nodes) \in Nat
    PROVE  \E f : /\ f[0] = g /\ Visit(g, nodes) = f[Len(nodes)]
                  /\ \A k \in Nat : 0 < k /\ k <= Len(nodes) => f[k] = mark_mstack(f[k - 1], nodes[k])
<1> DEFINE Body(f, k) == IF k = 0 THEN g ELSE mark_mstack(f[k - 1], nodes[k])
           Is(f, n) == f = [k \in 0..n |-> Body(f, k)]
           Good == {n \in Nat : \E f : Is(f, n)}
<1>1. 0 \in Good
  <2> DEFINE ext == [k \in 0..0 |-> g]
  <2>1. Is(ext, 0)
    OBVIOUS
  <2> HIDE DEF Is, ext
  <2>2. \E f : Is(f, 0)
    BY <2>1
  <2> QED
    BY <2>2
<1>2. ASSUME NEW n \in Good PROVE n + 1 \in Good
  <2>1. n \in Nat /\ \E f : Is(f, n)
    <3> HIDE DEF Is
    <3> QED
      OBVIOUS
  <2>2. PICK f : Is(f, n)
    BY <2>1
  <2>3. \A k \in 0..n : f[k] = Body(f, k)
    BY <2>2
  <2> DEFINE ext == [k \in 0..n+1 |-> IF k = n + 1 THEN Body(f, n + 1) ELSE f[k]]
  <2>4. \A k \in 0..n : ext[k] = f[k] /\ k \in 0..n+1
    <3> HIDE DEF Body
    <3> QED
      BY <2>1
  <2>5. ext[n + 1] = Body(f, n + 1) /\ f[n] = ext[n] /\ n + 1 - 1 = n
    <3> HIDE DEF Body
    <3> QED
      BY <2>1
  <2>6. \A k \in 0..n+1 : ext[k] = Body(ext, k)
    <3> HIDE DEF ext
    <3> TAKE k \in 0..n+1
    <3>1. CASE k = n + 1
      BY <3>1, <2>1, <2>5
    <3>2. CASE k # n + 1
      <4>1. k \in 0..n /\ (k # 0 => k - 1 \in 0..n)
        BY <3>2, <2>1
      <4> QED
        BY <4>1, <2>3, <2>4
    <3> QED
      BY <3>1, <3>2
  <2>7. ext = [k \in 0..n+1 |-> ext[k]]
    OBVIOUS
  <2> HIDE DEF ext
  <2>8. Is(ext, n + 1)
    BY <2>6, <2>7
  <2> HIDE DEF Is
  <2> QED
    BY <2>1, <2>8
<1>3. Len(nodes) \in Good
  <2> HIDE DEF Good
  <2>1. Good = Nat
    <3>1. Good \in SUBSET Nat
      BY DEF Good
    <3> QED
      BY <1>1, <1>2, <3>1, InductionInSet
  <2> QED
    BY <2>1
<1> DEFINE f == CHOOSE f : Is(f, Len(nodes))
<1>4. Is(f, Len(nodes))
  BY <1>3
<1>5. Visit(g, nodes) = f[Len(nodes)]
  BY DEF Visit
<1> HIDE DEF f
<1>6. \A k \in 0..Len(nodes) : f[k] = Body(f, k)
  BY <1>4
<1>7. f[0] = g
  BY <1>6
<1>8. \A k \in Nat : 0 < k /\ k <= Len(nodes) => f[k] = Body(f, k)
  BY <1>6
<1> QED
  BY <1>5, <1>7, <1>8

\* What a call of Visit marks.
LEMMA Visited ==
    ASSUME NEW g, MarkInv(g), NEW nodes \in Seq(Nat),
           \A n \in ToSet(nodes) : n # Null => n \in Nodes /\ IsNode(n, g.heap)
    PROVE  MarkStep(g, Visit(g, nodes), ToSet(nodes) \ {Null})
<1> DEFINE n == Len(nodes)
<1>1. n \in Nat /\ DOMAIN nodes = 1..n /\ \A k \in Nat : 0 < k /\ k <= n => nodes[k] \in Nat /\ nodes[k] \in ToSet(nodes)
  BY DEF ToSet
<1>2. PICK f : /\ f[0] = g /\ Visit(g, nodes) = f[n]
               /\ \A k \in Nat : 0 < k /\ k <= n => f[k] = mark_mstack(f[k - 1], nodes[k])
  BY <1>1, VisitIsFunction
<1> DEFINE Seen(k) == {x \in ToSet(nodes) \ {Null} : \E j \in Nat : 0 < j /\ j <= k /\ x = nodes[j]}
           Good(k) == MarkStep(g, f[k], Seen(k))
           G       == {k \in Nat : k <= n => Good(k)}
<1>3. 0 \in G
  <2>1. Seen(0) = {}
    OBVIOUS
  <2> HIDE DEF Seen
  <2>2. Good(0)
    BY <1>2, <2>1 DEF MarkStep
  <2> QED
    BY <2>2
<1>4. ASSUME NEW k \in G PROVE k + 1 \in G
  <2> SUFFICES ASSUME k + 1 <= n PROVE Good(k + 1)
    OBVIOUS
  <2> DEFINE m == k + 1
  <2>1. m \in Nat /\ 0 < m /\ m <= n /\ m - 1 = k /\ k \in Nat
    OBVIOUS
  <2>2. Good(k)
    BY <1>1
  <2>3. \A j \in Nat : j <= m <=> j <= k \/ j = m
    OBVIOUS
  <2> HIDE DEF m
  <2> DEFINE o == nodes[m]
             e == f[k]
             r == f[m]
  <2>4. o \in Nat /\ o \in ToSet(nodes) /\ r = mark_mstack(e, o)
    BY <1>1, <1>2, <2>1
  <2>5. Seen(m) = Seen(k) \cup ({o} \ {Null})
    BY <2>1, <2>3, <2>4
  <2> HIDE DEF Seen
  <2>6. /\ MarkInv(e) /\ \A x : IsNode(x, g.heap) <=> IsNode(x, e.heap)
        /\ MarkedIn(e.heap) = MarkedIn(g.heap) \cup Seen(k)
        /\ ToSet(e.stack) = ToSet(g.stack) \cup (Seen(k) \ MarkedIn(g.heap))
    BY <2>2 DEF MarkStep
  <2> HIDE DEF o, e, r
  <2>7. o # Null => o \in Nodes /\ IsNode(o, e.heap)
    BY <2>4, <2>6
  <2>8. MarkStep(e, r, {o} \ {Null})
    BY <2>4, <2>6, <2>7, MarkedOne
  <2>9. MarkStep(g, r, Seen(m))
    BY <2>5, <2>6, <2>8 DEF MarkStep
  <2> QED
    BY <2>9 DEF m, r
<1>5. n \in G
  <2>1. G \in SUBSET Nat
    OBVIOUS
  <2>2. G = Nat
    <3> HIDE DEF G
    <3> QED
      BY <1>3, <1>4, <2>1, InductionInSet
  <2> HIDE DEF G
  <2> QED
    BY <1>1, <2>2
<1>6. Good(n)
  BY <1>1, <1>5
<1>7. Seen(n) = ToSet(nodes) \ {Null}
  <2>1. \A x \in ToSet(nodes) : \E j \in Nat : 0 < j /\ j <= n /\ x = nodes[j]
    BY <1>1 DEF ToSet
  <2> QED
    BY <2>1
<1> QED
  BY <1>2, <1>6, <1>7

-----------------------------------------------------------------------------
(***************************************************************************)
(* The activations.                                                        *)
(***************************************************************************)
LEMMA SeqExcept ==
    ASSUME NEW T, NEW s \in Seq(T), NEW d, NEW x, d \in DOMAIN s => x \in T
    PROVE  LET r == [s EXCEPT ![d] = x]
           IN  r \in Seq(T) /\ Len(r) = Len(s) /\ DOMAIN r = DOMAIN s
<1> DEFINE r == [s EXCEPT ![d] = x]
<1>1. Len(s) \in Nat /\ DOMAIN s = 1..Len(s) /\ DOMAIN r = DOMAIN s
  OBVIOUS
<1>2. \A i \in DOMAIN s : r[i] \in T
  OBVIOUS
<1>3. r \in [1..Len(s) -> T]
  <2>1. r = [i \in DOMAIN s |-> r[i]]
    OBVIOUS
  <2> HIDE DEF r
  <2> QED
    BY <1>1, <1>2, <2>1
<1> HIDE DEF r
<1> QED
  BY <1>1, <1>3 DEF r

LEMMA MoreActivations ==
    ASSUME NEW V, NEW W, V \subseteq W
    PROVE  Contexts(V) \subseteq Contexts(W) /\ Activations(V) \subseteq Activations(W)
<1>1. Contexts(V) \subseteq Contexts(W)
  BY DEF Contexts
<1>2. Seq(Contexts(V)) \subseteq Seq(Contexts(W))
  <2> DEFINE A == Contexts(V)
             B == Contexts(W)
  <2> HIDE DEF A, B
  <2>1. A \subseteq B
    BY <1>1 DEF A, B
  <2> QED
    BY <2>1 DEF A, B
<1> QED
  BY <1>1, <1>2 DEF Activations

LEMMA LastActivation ==
    ASSUME NEW V, NEW cs \in Activations(V)
    PROVE  /\ Len(cs) \in Nat \ {0} /\ Len(cs) \in DOMAIN cs /\ cs \in Seq(Contexts(V))
           /\ cs[Len(cs)] \in Contexts(V) /\ Last(cs) = cs[Len(cs)]
<1> DEFINE T == Contexts(V)
<1> HIDE DEF T
<1>1. cs \in Seq(T) /\ cs # <<>>
  BY DEF Activations, T
<1>2. Len(cs) \in Nat \ {0} /\ DOMAIN cs = 1..Len(cs)
  BY <1>1
<1>3. Len(cs) \in DOMAIN cs
  BY <1>2
<1> QED
  BY <1>1, <1>2, <1>3 DEF Last, T

\* The last activation is replaced.
LEMMA Replaced ==
    ASSUME NEW V, NEW cs \in Activations(V), NEW c \in Contexts(V)
    PROVE  [cs EXCEPT ![Len(cs)] = c] \in Activations(V)
<1> DEFINE r == [cs EXCEPT ![Len(cs)] = c]
<1>1. r \in Seq(Contexts(V)) /\ Len(r) = Len(cs)
  BY LastActivation, SeqExcept
<1>2. Len(r) # 0
  <2> HIDE DEF r
  <2> QED
    BY <1>1, LastActivation
<1> HIDE DEF r
<1>3. r # <<>>
  BY <1>2
<1> QED
  BY <1>1, <1>3 DEF Activations, r

LEMMA SimpleStep ==
    ASSUME NEW V, NEW cs \in Activations(V), NEW lg \in Seq(Entries), NEW k \in DOMAIN lg,
           lg[k].type \notin {"LeftFold", "Pop"}
    PROVE  \E W : Simple(lg, cs, k) \in Activations(W)
<1> DEFINE x == lg[k]
           d == Len(cs)
           y == lg[k + 1].i
           W == V \cup {x.i, y, Nil}
<1>1. x \in Entries /\ k \in Nat /\ x.type \in Types
  <2>1. x \in Entries
    OBVIOUS
  <2> QED
    BY <2>1 DEF Entries
<1>2. cs \in Activations(W)
  BY MoreActivations
<1>3. x.i \in W /\ y \in W /\ Nil \in W
  OBVIOUS
<1> HIDE DEF W, y
<1> DEFINE c == cs[d]
<1>4. c \in Contexts(W) /\ d \in DOMAIN cs /\ cs \in Seq(Contexts(W)) /\ c.push \in Nat /\ c.size \in Nat
  <2>1. c \in Contexts(W) /\ d \in DOMAIN cs /\ cs \in Seq(Contexts(W))
    BY <1>2, LastActivation
  <2> HIDE DEF c
  <2> QED
    BY <2>1 DEF Contexts
<1>5. \A n \in Nat, v \in W, p \in Nat : Context(n, v, p) \in Contexts(W)
  BY <1>3 DEF Context, Contexts
<1>6. CASE x.type = "New"
  <2> DEFINE n == Context(k, x.i, c.push)
  <2>1. Simple(lg, cs, k) = [cs EXCEPT ![d] = n]
    BY <1>6 DEF Simple
  <2>2. n \in Contexts(W)
    <3> HIDE DEF c, x
    <3> QED
      BY <1>1, <1>3, <1>4, <1>5
  <2> HIDE DEF n
  <2>3. [cs EXCEPT ![d] = n] \in Activations(W)
    BY <1>2, <2>2, Replaced
  <2> QED
    BY <2>1, <2>3
<1>7. CASE x.type = "Capture"
  <2> DEFINE n == [c EXCEPT !.epos = x.i]
  <2>1. Simple(lg, cs, k) = [cs EXCEPT ![d] = n]
    BY <1>7 DEF Simple
  <2>2. n \in Contexts(W)
    <3> HIDE DEF c, x
    <3> QED
      BY <1>3, <1>4 DEF Contexts
  <2> HIDE DEF n
  <2>3. [cs EXCEPT ![d] = n] \in Activations(W)
    BY <1>2, <2>2, Replaced
  <2> QED
    BY <2>1, <2>3
<1>8. CASE x.type = "Tag"
  <2> DEFINE n == [c EXCEPT !.tag = x.i]
  <2>1. Simple(lg, cs, k) = [cs EXCEPT ![d] = n]
    BY <1>8 DEF Simple
  <2>2. n \in Contexts(W)
    <3> HIDE DEF c, x
    <3> QED
      BY <1>3, <1>4 DEF Contexts
  <2> HIDE DEF n
  <2>3. [cs EXCEPT ![d] = n] \in Activations(W)
    BY <1>2, <2>2, Replaced
  <2> QED
    BY <2>1, <2>3
<1>9. CASE x.type = "Replace"
  <2> DEFINE n == [c EXCEPT !.value = x.i]
  <2>1. Simple(lg, cs, k) = [cs EXCEPT ![d] = n]
    BY <1>9 DEF Simple
  <2>2. n \in Contexts(W)
    <3> HIDE DEF c, x
    <3> QED
      BY <1>3, <1>4 DEF Contexts
  <2> HIDE DEF n
  <2>3. [cs EXCEPT ![d] = n] \in Activations(W)
    BY <1>2, <2>2, Replaced
  <2> QED
    BY <2>1, <2>3
<1>10. CASE x.type = "Link"
  <2> DEFINE z == c.size + 1
             n == [c EXCEPT !.size = z]
  <2>1. Simple(lg, cs, k) = [cs EXCEPT ![d] = n]
    BY <1>10 DEF Simple
  <2>2. n \in Contexts(W)
    <3>1. z \in Nat
      BY <1>4
    <3> HIDE DEF c, x, z
    <3> QED
      BY <1>4, <3>1 DEF Contexts
  <2> HIDE DEF n
  <2>3. [cs EXCEPT ![d] = n] \in Activations(W)
    BY <1>2, <2>2, Replaced
  <2> QED
    BY <2>1, <2>3
<1>11. CASE x.type = "Push"
  <2> DEFINE n == Context(k + 1, y, k)
             r == Append(cs, n)
  <2>1. Simple(lg, cs, k) = r
    BY <1>11 DEF Simple, y
  <2>2. n \in Contexts(W)
    BY <1>1, <1>3, <1>5
  <2> HIDE DEF n
  <2>3. r \in Seq(Contexts(W)) /\ r # <<>>
    BY <1>4, <2>2
  <2> HIDE DEF r
  <2> QED
    BY <2>1, <2>3 DEF Activations
<1> QED
  BY <1>1, <1>6, <1>7, <1>8, <1>9, <1>10, <1>11 DEF Types

Stopped(b, k, cs) == [b EXCEPT !.k = k, !.cs = cs]

NextStop(lg, k) == Min({Len(lg) + 1} \cup {j \in k..Len(lg) : lg[j].type \in {"LeftFold", "Pop"}})

LEMMA ScanIsFunction ==
    ASSUME NEW b, NEW lg, NEW k0, NextStop(lg, k0) - k0 \in Nat
    PROVE  \E f : /\ f[0] = b.cs /\ ScanFrom(b, lg, k0) = Stopped(b, NextStop(lg, k0), f[NextStop(lg, k0) - k0])
                  /\ \A k \in Nat : 0 < k /\ k <= NextStop(lg, k0) - k0 => f[k] = Simple(lg, f[k - 1], k0 + k - 1)
<1> DEFINE Body(f, k) == IF k = 0 THEN b.cs ELSE Simple(lg, f[k - 1], k0 + k - 1)
           Is(f, n) == f = [k \in 0..n |-> Body(f, k)]
           Good == {n \in Nat : \E f : Is(f, n)}
<1>1. 0 \in Good
  <2> DEFINE ext == [k \in 0..0 |-> b.cs]
  <2>1. Is(ext, 0)
    OBVIOUS
  <2> HIDE DEF Is, ext
  <2>2. \E f : Is(f, 0)
    BY <2>1
  <2> QED
    BY <2>2
<1>2. ASSUME NEW n \in Good PROVE n + 1 \in Good
  <2>1. n \in Nat /\ \E f : Is(f, n)
    <3> HIDE DEF Is
    <3> QED
      OBVIOUS
  <2>2. PICK f : Is(f, n)
    BY <2>1
  <2>3. \A k \in 0..n : f[k] = Body(f, k)
    BY <2>2
  <2> DEFINE ext == [k \in 0..n+1 |-> IF k = n + 1 THEN Body(f, n + 1) ELSE f[k]]
  <2>4. \A k \in 0..n : ext[k] = f[k] /\ k \in 0..n+1
    <3> HIDE DEF Body
    <3> QED
      BY <2>1
  <2>5. ext[n + 1] = Body(f, n + 1) /\ f[n] = ext[n] /\ n + 1 - 1 = n
    <3> HIDE DEF Body
    <3> QED
      BY <2>1
  <2>6. \A k \in 0..n+1 : ext[k] = Body(ext, k)
    <3> HIDE DEF ext
    <3> TAKE k \in 0..n+1
    <3>1. CASE k = n + 1
      BY <3>1, <2>1, <2>5
    <3>2. CASE k # n + 1
      <4>1. k \in 0..n /\ (k # 0 => k - 1 \in 0..n)
        BY <3>2, <2>1
      <4> QED
        BY <4>1, <2>3, <2>4
    <3> QED
      BY <3>1, <3>2
  <2>7. ext = [k \in 0..n+1 |-> ext[k]]
    OBVIOUS
  <2> HIDE DEF ext
  <2>8. Is(ext, n + 1)
    BY <2>6, <2>7
  <2> HIDE DEF Is
  <2> QED
    BY <2>1, <2>8
<1>3. NextStop(lg, k0) - k0 \in Good
  <2> HIDE DEF Good
  <2>1. Good = Nat
    <3>1. Good \in SUBSET Nat
      BY DEF Good
    <3> QED
      BY <1>1, <1>2, <3>1, InductionInSet
  <2> QED
    BY <2>1
<1> DEFINE f == CHOOSE f : Is(f, NextStop(lg, k0) - k0)
<1>4. Is(f, NextStop(lg, k0) - k0)
  BY <1>3
<1>5. ScanFrom(b, lg, k0) = Stopped(b, NextStop(lg, k0), f[NextStop(lg, k0) - k0])
  BY DEF ScanFrom, NextStop, Stopped
<1> HIDE DEF f
<1>6. \A k \in 0..NextStop(lg, k0) - k0 : f[k] = Body(f, k)
  BY <1>4
<1>7. f[0] = b.cs
  BY <1>6
<1>8. \A k \in Nat : 0 < k /\ k <= NextStop(lg, k0) - k0 => f[k] = Body(f, k)
  BY <1>6
<1> QED
  BY <1>5, <1>7, <1>8

\* The loop of ast_create_node stops within the log or behind it, with an
\* activation to go on with.
LEMMA Scanned ==
    ASSUME NEW V, NEW b \in Builds(V), NEW lg \in Seq(Entries), NEW k0 \in Nat \ {0}, k0 <= Len(lg) + 1
    PROVE  LET r == ScanFrom(b, lg, k0)
           IN  /\ \E W : r \in Builds(W)
               /\ r.for = b.for /\ r.tx = b.tx /\ r.label = b.label
<1> DEFINE S == {Len(lg) + 1} \cup {j \in k0..Len(lg) : lg[j].type \in {"LeftFold", "Pop"}}
           next == NextStop(lg, k0)
           n == next - k0
<1>1. Len(lg) \in Nat /\ DOMAIN lg = 1..Len(lg) /\ k0 \in Nat /\ 1 <= k0
  OBVIOUS
<1>2. next \in Nat /\ k0 <= next /\ \A j \in Nat : k0 <= j /\ j < next => j \in DOMAIN lg /\ lg[j].type \notin {"LeftFold", "Pop"}
  <2>1. S \in SUBSET Nat /\ Len(lg) + 1 \in S
    BY <1>1
  <2>2. \A j \in S : k0 <= j
    BY <1>1
  <2>3. \A j \in Nat : k0 <= j /\ j <= Len(lg) /\ j \notin S => lg[j].type \notin {"LeftFold", "Pop"}
    BY <1>1
  <2>4. next = Min(S)
    BY DEF NextStop
  <2> HIDE DEF S, next
  <2>5. next \in S /\ \A j \in S : next <= j
    BY <2>1, <2>4, MinIsLeast
  <2>6. next \in Nat /\ k0 <= next /\ next <= Len(lg) + 1
    BY <2>1, <2>2, <2>5
  <2>7. ASSUME NEW j \in Nat, k0 <= j, j < next PROVE j \in DOMAIN lg /\ lg[j].type \notin {"LeftFold", "Pop"}
    <3>1. j <= Len(lg) /\ j \notin S
      BY <1>1, <2>5, <2>6, <2>7
    <3> QED
      BY <1>1, <2>3, <2>7, <3>1
  <2> QED
    BY <2>6, <2>7
<1> HIDE DEF next
<1>3. n \in Nat
  BY <1>1, <1>2
<1>4. PICK f : /\ f[0] = b.cs
               /\ ScanFrom(b, lg, k0) = Stopped(b, next, f[n])
               /\ \A k \in Nat : 0 < k /\ k <= n => f[k] = Simple(lg, f[k - 1], k0 + k - 1)
  BY <1>3, ScanIsFunction DEF next
<1> DEFINE Good(k) == \E W : f[k] \in Activations(W)
           G == {k \in Nat : k <= n => Good(k)}
<1>5. 0 \in G
  <2>1. b.cs \in Activations(V)
    BY DEF Builds
  <2> QED
    BY <1>4, <2>1
<1>6. ASSUME NEW k \in G PROVE k + 1 \in G
  <2> SUFFICES ASSUME k + 1 <= n PROVE Good(k + 1)
    OBVIOUS
  <2> DEFINE m == k + 1
             j == k0 + m - 1
  <2>1. m \in Nat /\ 0 < m /\ m <= n /\ m - 1 = k /\ k \in Nat /\ k <= n
    BY <1>3
  <2>2. j \in Nat /\ k0 <= j /\ j < next
    BY <1>1, <1>2, <2>1
  <2> HIDE DEF m, n
  <2>3. PICK W : f[k] \in Activations(W)
    BY <2>1
  <2>4. f[m] = Simple(lg, f[k], j)
    BY <1>4, <2>1
  <2> HIDE DEF j
  <2>5. j \in DOMAIN lg /\ lg[j].type \notin {"LeftFold", "Pop"}
    BY <1>2, <2>2
  <2>6. \E U : f[m] \in Activations(U)
    BY <2>3, <2>4, <2>5, SimpleStep
  <2> QED
    BY <2>6 DEF m
<1>7. n \in G
  <2>1. G \in SUBSET Nat
    OBVIOUS
  <2>2. G = Nat
    <3> HIDE DEF G
    <3> QED
      BY <1>5, <1>6, <2>1, InductionInSet
  <2> HIDE DEF G
  <2> QED
    BY <1>3, <2>2
<1>8. PICK W : f[n] \in Activations(W)
  BY <1>3, <1>7
<1> DEFINE r == [b EXCEPT !.k = next, !.cs = f[n]]
<1>9. next \in Nat \ {0}
  BY <1>1, <1>2
<1> HIDE DEF n
<1>10. r \in Builds(W) /\ r.for = b.for /\ r.tx = b.tx /\ r.label = b.label
  BY <1>8, <1>9 DEF Builds
<1> HIDE DEF r
<1> QED
  BY <1>4, <1>10 DEF r, Stopped

-----------------------------------------------------------------------------
(***************************************************************************)
(* The roots.                                                              *)
(***************************************************************************)
LEMMA NonNullElements ==
    ASSUME NEW s \in Seq(Nat)
    PROVE  NonNull(s) \in Seq(Nat) /\ ToSet(NonNull(s)) = ToSet(s) \ {Null}
  BY KeptElements DEF NonNull

\* The roots of the collector are the nodes of the links and of the memo table.
Holding(lg, m) == ({lg[k].e : k \in LinksOf(lg)} \cup {m[s] : s \in Slots}) \ {Null}

RootsExact ==
    /\ RootNodes \in Seq(Nat)
    /\ ToSet(RootNodes) = IF roots THEN Holding(log, memo) ELSE {}
    /\ \A o \in Holding(log, memo) : Held(o)

LEMMA RootsAre == LogInv /\ MemoInv /\ roots \in BOOLEAN => RootsExact
<1> SUFFICES ASSUME LogInv, MemoInv, roots \in BOOLEAN PROVE RootsExact
  OBVIOUS
<1> DEFINE links == [k \in DOMAIN log |-> IF log[k].type = "Link" THEN log[k].e ELSE Null]
<1>1. log \in Seq(Entries) /\ DOMAIN log = 1..Len(log) /\ Len(log) \in Nat /\ \A k \in LinksOf(log) : Held(log[k].e)
  BY DEF LogInv
<1>2. memo \in Seq(Nat) /\ \A s \in Slots : memo[s] # Null => Held(memo[s])
  <2>1. MemoSlots \in Nat
    BY SizeAssumption
  <2> QED
    BY <2>1 DEF MemoInv, Slots
<1>3. \A k \in DOMAIN log : links[k] \in Nat /\ links[k] = IF k \in LinksOf(log) THEN log[k].e ELSE Null
  BY <1>1, NodesAreNumbers DEF LinksOf, Held, Null
<1>4. links \in Seq(Nat) /\ DOMAIN links = DOMAIN log
  <2>1. links = [k \in 1..Len(log) |-> links[k]] /\ DOMAIN links = DOMAIN log
    BY <1>1
  <2> HIDE DEF links
  <2>2. links \in [1..Len(log) -> Nat]
    BY <1>1, <1>3, <2>1
  <2> QED
    BY <1>1, <2>1, <2>2
<1>5. ast_trace \in Seq(Nat) /\ ToSet(ast_trace) = ToSet(links) \ {Null}
  <2>1. ast_trace = NonNull(links)
    BY DEF ast_trace
  <2> HIDE DEF links
  <2> QED
    BY <1>4, <2>1, NonNullElements
<1>6. memo_trace \in Seq(Nat) /\ ToSet(memo_trace) = ToSet(memo) \ {Null}
  BY <1>2, NonNullElements DEF memo_trace
<1>7. ToSet(links) \ {Null} = {log[k].e : k \in LinksOf(log)} \ {Null}
  <2> HIDE DEF links
  <2>1. LinksOf(log) \subseteq DOMAIN log
    BY DEF LinksOf
  <2> QED
    BY <1>3, <1>4, <2>1 DEF ToSet
<1>8. ToSet(memo) = {memo[s] : s \in Slots}
  BY DEF ToSet, MemoInv
<1>9. ASSUME NEW a \in Seq(Nat), NEW b \in Seq(Nat)
      PROVE  a \o b \in Seq(Nat) /\ ToSet(a \o b) = ToSet(a) \cup ToSet(b)
  <2> DEFINE c == a \o b
  <2>1. c \in Seq(Nat) /\ Len(a) \in Nat /\ Len(b) \in Nat /\ DOMAIN a = 1..Len(a) /\ DOMAIN b = 1..Len(b)
        /\ DOMAIN c = 1..(Len(a) + Len(b))
    OBVIOUS
  <2>2. \A i \in DOMAIN c : c[i] = IF i <= Len(a) THEN a[i] ELSE b[i - Len(a)]
    OBVIOUS
  <2> HIDE DEF c
  <2>3. ASSUME NEW x \in ToSet(c) PROVE x \in ToSet(a) \cup ToSet(b)
    <3>1. PICK i \in DOMAIN c : x = c[i]
      BY DEF ToSet
    <3>2. CASE i <= Len(a)
      BY <2>1, <2>2, <3>1, <3>2 DEF ToSet
    <3>3. CASE ~ (i <= Len(a))
      <4>1. i - Len(a) \in DOMAIN b
        BY <2>1, <3>3
      <4> QED
        BY <2>2, <3>1, <3>3, <4>1 DEF ToSet
    <3> QED
      BY <3>2, <3>3
  <2>4. ASSUME NEW x \in ToSet(a) PROVE x \in ToSet(c)
    <3>1. PICK i \in DOMAIN a : x = a[i]
      BY DEF ToSet
    <3>2. i \in DOMAIN c /\ i <= Len(a)
      BY <2>1
    <3> QED
      BY <2>2, <3>1, <3>2 DEF ToSet
  <2>5. ASSUME NEW x \in ToSet(b) PROVE x \in ToSet(c)
    <3>1. PICK i \in DOMAIN b : x = b[i]
      BY DEF ToSet
    <3> DEFINE j == i + Len(a)
    <3>2. j \in DOMAIN c /\ ~ (j <= Len(a)) /\ j - Len(a) = i
      BY <2>1
    <3> HIDE DEF j
    <3> QED
      BY <2>2, <3>1, <3>2 DEF ToSet
  <2>6. ToSet(c) = ToSet(a) \cup ToSet(b)
    BY <2>3, <2>4, <2>5
  <2> QED
    BY <2>1, <2>6 DEF c
<1>10. ToSet(<<>>) = {} /\ <<>> \in Seq(Nat)
  BY DEF ToSet
<1> DEFINE both == ast_trace \o memo_trace
<1>11. both \in Seq(Nat) /\ ToSet(both) = ToSet(ast_trace) \cup ToSet(memo_trace)
  BY <1>5, <1>6, <1>9
<1>12. ToSet(both) = Holding(log, memo)
  BY <1>5, <1>6, <1>7, <1>8, <1>11 DEF Holding
<1>13. RootNodes = IF roots THEN both ELSE <<>>
  BY DEF RootNodes
<1> HIDE DEF both
<1>14. \A o \in Holding(log, memo) : Held(o)
  BY <1>1, <1>2 DEF Holding
<1> QED
  BY <1>10, <1>11, <1>12, <1>13, <1>14 DEF RootsExact

-----------------------------------------------------------------------------
(***************************************************************************)
(* A new node.                                                             *)
(***************************************************************************)
LEMMA MaxOfTwo ==
    ASSUME NEW a \in Nat, NEW b \in Nat
    PROVE  Max({a, b}) \in Nat
<1>1. \E x \in {a, b} : \A y \in {a, b} : x >= y
  <2>1. CASE a >= b
    BY <2>1
  <2>2. CASE b >= a
    BY <2>2
  <2> QED
    BY <2>1, <2>2
<1>2. Max({a, b}) \in {a, b}
  BY <1>1 DEF Max
<1> QED
  BY <1>2

LEMMA LinksAre ==
    ASSUME NEW k \in Nat, k <= Len(log), NEW from \in Nat, LogInv
    PROVE  Links(from, k) \in Seq(Nat) /\ ToSet(Links(from, k)) \subseteq LinksOf(log)
<1> DEFINE all  == [j \in 1..k |-> j]
           some == {i \in from..k : /\ log[i].type = "Link"
                                    /\ \A j \in from..i-1 : log[j].type = "Link" => j + log[j].shift < i}
<1>1. all \in Seq(Nat) /\ ToSet(all) = 1..k
  <2>1. DOMAIN all = 1..k /\ \A j \in 1..k : all[j] = j
    OBVIOUS
  <2>2. all \in [1..k -> Nat]
    OBVIOUS
  <2> HIDE DEF all
  <2> QED
    BY <2>1, <2>2 DEF ToSet
<1>2. Links(from, k) = Kept(all, some)
  BY DEF Links
<1>3. Len(log) \in Nat /\ DOMAIN log = 1..Len(log)
  BY DEF LogInv
<1>4. \A j \in some : log[j].type = "Link"
  OBVIOUS
<1> HIDE DEF all, some
<1>5. Kept(all, some) \in Seq(Nat) /\ ToSet(Kept(all, some)) = ToSet(all) \cap some
  BY <1>1, KeptElements
<1>6. ToSet(all) \cap some \subseteq LinksOf(log)
  BY <1>1, <1>3, <1>4 DEF LinksOf
<1> QED
  BY <1>2, <1>5, <1>6

Array(n) == IF n > SmallArray THEN 1 ELSE 0

\* The node in block o: its children are linked in the log, and the other nodes
\* keep theirs.
NewNode(o) ==
    /\ \E W : cells' \in [Nodes -> Cells(W)]
    /\ \A n \in Nodes : n # o => cells'[n].kids = cells[n].kids
    /\ ToSet(cells'[o].kids) \subseteq LinkNodes(log) \cup {Null}
    /\ arrays' = arrays - Array(Len(cells[o].kids)) + Array(Len(cells'[o].kids))

LEMMA Constructed ==
    ASSUME LogInv, CellInv, NEW o \in Nodes, NEW V, NEW c \in Contexts(V), NEW k \in Nat, k <= Len(log),
           constructLeft(o, c, k)
    PROVE  NewNode(o)
<1> DEFINE links == Links(c.head, k)
           size  == Max({c.size, Len(links)})
           kids  == [i \in 1..size |-> IF i <= Len(links) THEN log[links[i]].e ELSE Null]
           Label(n) == log[links[SelectLastInSeq(links, LAMBDA j : log[j].e = n)]].i
           node  == [Blank EXCEPT !.tag = c.tag, !.pos = c.spos, !.end = c.epos, !.value = c.value, !.kids = kids]
           new   == [n \in Nodes |->
                        IF n = o THEN node
                        ELSE IF n \in ToSet(kids) THEN [cells[n] EXCEPT !.label = Label(n)]
                        ELSE cells[n]]
<1>1. cells' = new /\ arrays' = arrays - deferred_sweep(o) + (IF Len(kids) > SmallArray THEN 1 ELSE 0)
  BY Zenon DEF constructLeft
<1>2. c.head \in Nat /\ c.size \in Nat
  BY DEF Contexts
<1> HIDE DEF Label
<1>3. links \in Seq(Nat) /\ Len(links) \in Nat /\ ToSet(links) \subseteq LinksOf(log)
  <2>1. links \in Seq(Nat) /\ ToSet(links) \subseteq LinksOf(log)
    BY <1>2, LinksAre
  <2> HIDE DEF links
  <2> QED
    BY <2>1
<1> HIDE DEF links
<1>4. size \in Nat
  BY <1>2, <1>3, MaxOfTwo
<1> HIDE DEF size
<1>5. kids \in Seq(Nat) /\ ToSet(kids) \subseteq LinkNodes(log) \cup {Null}
  <2>1. \A i \in 1..size : i <= Len(links) => links[i] \in LinksOf(log)
    <3>1. \A i \in 1..size : i <= Len(links) => i \in DOMAIN links
      BY <1>3, <1>4
    <3> QED
      BY <1>3, <3>1 DEF ToSet
  <2>2. \A j \in LinksOf(log) : log[j].e \in Nat
    BY NodesAreNumbers DEF LogInv, Held
  <2>3. \A i \in 1..size : kids[i] \in Nat /\ kids[i] \in LinkNodes(log) \cup {Null}
    BY <2>1, <2>2 DEF Null, LinkNodes
  <2>4. DOMAIN kids = 1..size /\ kids = [i \in 1..size |-> kids[i]]
    OBVIOUS
  <2> HIDE DEF kids
  <2>5. kids \in [1..size -> Nat]
    BY <2>3, <2>4
  <2> QED
    BY <1>4, <2>3, <2>4, <2>5 DEF ToSet
<1> HIDE DEF kids
<1>6. PICK U : cells \in [Nodes -> Cells(U)]
  BY DEF CellInv
<1> DEFINE W == U \cup {Label(n) : n \in Nodes} \cup {c.tag, c.spos, c.epos, c.value, Nil, 0}
<1>7. node \in Cells(W) /\ node.kids = kids
  BY <1>5 DEF Cells, Blank
<1>8. ASSUME NEW n \in Nodes, n # o
      PROVE  new[n] \in Cells(W) /\ new[n].kids = cells[n].kids
  <2>1. cells[n] \in Cells(U)
    BY <1>6
  <2>2. new[n] = cells[n] \/ new[n] = [cells[n] EXCEPT !.label = Label(n)]
    BY <1>8
  <2>3. Label(n) \in W /\ U \subseteq W
    OBVIOUS
  <2> HIDE DEF W, new
  <2> QED
    BY <2>1, <2>2, <2>3 DEF Cells
<1>9. new[o] = node /\ new = [n \in Nodes |-> new[n]]
  OBVIOUS
<1> HIDE DEF new, node, W
<1>10. new \in [Nodes -> Cells(W)]
  BY <1>7, <1>8, <1>9
<1>11. arrays' = arrays - Array(Len(cells[o].kids)) + Array(Len(kids))
  BY <1>1 DEF Array, deferred_sweep
<1> QED
  BY <1>1, <1>5, <1>7, <1>8, <1>9, <1>10, <1>11 DEF NewNode

-----------------------------------------------------------------------------
(***************************************************************************)
(* The log.                                                                *)
(***************************************************************************)
Follows(lg, S) == lg \in Seq(Entries) /\ LinkNodes(lg) \subseteq LinkNodes(log) \cup S

LEMMA LinkEntries ==
    ASSUME NEW l \in Operands, NEW o \in Nat, NEW shift \in Int
    PROVE  LinkEntry(l, o, shift) \in Entries /\ LinkEntry(l, o, shift).e = o
  BY DEF LinkEntry, Entries, Types, Operands

LEMMA LogAppended ==
    ASSUME NEW S, NEW lg, Follows(lg, S), NEW x \in Entries, x.type = "Link" => x.e \in S
    PROVE  Follows(Append(lg, x), S)
<1> DEFINE a == Append(lg, x)
<1>1. lg \in Seq(Entries)
  BY DEF Follows
<1>2. a \in Seq(Entries) /\ Len(lg) \in Nat /\ DOMAIN lg = 1..Len(lg) /\ DOMAIN a = 1..(Len(lg) + 1)
      /\ a[Len(lg) + 1] = x /\ \A j \in 1..Len(lg) : a[j] = lg[j]
  BY <1>1
<1> HIDE DEF a
<1>3. \A j \in LinksOf(a) : (j \in LinksOf(lg) /\ a[j].e = lg[j].e) \/ a[j].e \in S
  <2>1. \A j \in DOMAIN a : j = Len(lg) + 1 \/ j \in DOMAIN lg
    BY <1>2
  <2> QED
    BY <1>2, <2>1 DEF LinksOf
<1> QED
  BY <1>2, <1>3 DEF Follows, LinkNodes, a

LEMMA LogChanged ==
    ASSUME LogInv, NEW j, NEW x \in Entries, NEW S, x.e \in S
    PROVE  Follows([log EXCEPT ![j] = x], S) /\ Len([log EXCEPT ![j] = x]) = Len(log)
<1> DEFINE a == [log EXCEPT ![j] = x]
<1>1. log \in Seq(Entries)
  BY DEF LogInv
<1>2. a \in Seq(Entries) /\ Len(a) = Len(log) /\ DOMAIN a = DOMAIN log
  BY <1>1, SeqExcept
<1>3. \A i \in DOMAIN log : a[i] = log[i] \/ a[i] = x
  OBVIOUS
<1> HIDE DEF a
<1>4. \A i \in LinksOf(a) : (i \in LinksOf(log) /\ a[i].e = log[i].e) \/ a[i].e \in S
  BY <1>2, <1>3 DEF LinksOf
<1> QED
  BY <1>2, <1>4 DEF Follows, LinkNodes, a

LEMMA LogCut ==
    ASSUME LogInv, NEW tx \in 0..Len(log), NEW S
    PROVE  Follows(SubSeq(log, 1, tx), S)
<1> DEFINE a == SubSeq(log, 1, tx)
<1>1. log \in Seq(Entries) /\ tx \in Nat /\ Len(log) \in Nat /\ tx <= Len(log) /\ DOMAIN log = 1..Len(log)
  BY DEF LogInv
<1>2. a \in Seq(Entries) /\ DOMAIN a = 1..tx /\ \A i \in 1..tx : a[i] = log[i]
  BY <1>1
<1> HIDE DEF a
<1>3. \A i \in LinksOf(a) : i \in LinksOf(log) /\ a[i].e = log[i].e
  BY <1>1, <1>2 DEF LinksOf
<1> QED
  BY <1>2, <1>3 DEF Follows, LinkNodes, a

LEMMA LogKept == LogInv => Follows(log, {})
  BY DEF LogInv, Follows

LEMMA EmptyLog == Follows(<<>>, {})
  BY DEF Follows, LinkNodes, LinksOf

\* A log whose nodes are held, or the one that was allocated.
LEMMA LogFollows ==
    ASSUME LogInv, NEW S, Follows(log', S), \A n : IsNode(n, heap) => IsNode(n, heap'),
           \A n \in S : n \in Nodes /\ IsNode(n, heap')
    PROVE  LogInv'
<1>1. \A k \in LinksOf(log') : log'[k].e \in LinkNodes(log) \cup S
  BY DEF Follows, LinkNodes
<1>2. \A n \in LinkNodes(log) : n \in Nodes /\ IsNode(n, heap')
  BY DEF LinkNodes, LogInv, Held
<1>3. \A k \in LinksOf(log') : log'[k].e \in Nodes /\ IsNode(log'[k].e, heap')
  BY <1>1, <1>2
<1> QED
  BY <1>3 DEF LogInv, Follows, Held

LEMMA CellsFollow ==
    ASSUME LogInv, CellInv, NEW o \in Nodes, NewNode(o), IsNode(o, heap'),
           \A n : IsNode(n, heap) => IsNode(n, heap')
    PROVE  CellInv'
<1>1. \A n \in LinkNodes(log) : n \in Nodes /\ IsNode(n, heap')
  BY DEF LinkNodes, LogInv, Held
<1>2. ASSUME NEW p \in Nodes
      PROVE  /\ cells'[p].kids # <<>> => IsNode(p, heap')
             /\ \A n \in ToSet(cells'[p].kids) : n # Null => n \in Nodes /\ IsNode(n, heap')
  <2>1. CASE p = o
    BY <1>1, <2>1 DEF NewNode
  <2>2. CASE p # o
    <3>1. cells'[p].kids = cells[p].kids
      BY <2>2 DEF NewNode
    <3>2. /\ cells[p].kids # <<>> => IsNode(p, heap)
          /\ \A n \in ToSet(cells[p].kids) : n # Null => Held(n)
      BY DEF CellInv
    <3> QED
      BY <3>1, <3>2 DEF Held
  <2> QED
    BY <2>1, <2>2
<1> QED
  BY <1>2 DEF CellInv, NewNode, Held

\* The arrays that are allocated are those of the nodes with many children.
LEMMA ArraysFollow ==
    ASSUME NEW o \in Nodes, NewNode(o), ArraysExact
    PROVE  ArraysExact'
<1> DEFINE A == WithArray
           B == WithArray'
           Big(n)  == Len(cells[n].kids) > SmallArray
           BigN(n) == Len(cells'[n].kids) > SmallArray
<1>1. A = {n \in Nodes : Big(n)} /\ B = {n \in Nodes : BigN(n)}
  BY DEF WithArray
<1>2. \A n \in Nodes : n # o => (Big(n) <=> BigN(n))
  BY DEF NewNode
<1>3. arrays = Cardinality(A)
  BY DEF ArraysExact
<1>4. arrays' = arrays - (IF Big(o) THEN 1 ELSE 0) + (IF BigN(o) THEN 1 ELSE 0)
  BY DEF NewNode, Array
<1>5. arrays' = Cardinality(B) <=> ArraysExact'
  BY DEF ArraysExact
<1> HIDE DEF A, B, Big, BigN
<1>6. IsFiniteSet(A) /\ IsFiniteSet(B)
  BY <1>1, NodesAreNumbers, FS_Subset
<1> DEFINE C == A \ {o}
<1>7. IsFiniteSet(C) /\ o \notin C /\ Cardinality(C) \in Nat
  <2>1. IsFiniteSet(C)
    BY <1>6, FS_Subset
  <2> QED
    BY <2>1, FS_CardinalityType
<1>8. A = IF Big(o) THEN C \cup {o} ELSE C
  BY <1>1
<1>9. B = IF BigN(o) THEN C \cup {o} ELSE C
  BY <1>1, <1>2
<1> HIDE DEF C
<1>10. Cardinality(C \cup {o}) = Cardinality(C) + 1
  BY <1>7, FS_AddElement
<1> QED
  BY <1>3, <1>4, <1>5, <1>7, <1>8, <1>9, <1>10

-----------------------------------------------------------------------------
(***************************************************************************)
(* The node that has been allocated.                                       *)
(***************************************************************************)
\* A step of the build puts its node into the log, or ends the build.
Built(o) ==
    /\ NewNode(o) /\ Follows(log', {o}) /\ BuildInv'
    /\ build' # Idle => phase' = phase
    /\ build' = Idle => phase' \in {phase, "parsed"}

LEMMA OperandsAre ==
    ASSUME NEW x \in Entries
    PROVE  x.i \in Operands /\ x.e \in Operands /\ x.type \in Types
  BY DEF Entries

LEMMA FrontActivation ==
    ASSUME NEW V, NEW cs \in Activations(V), Len(cs) > 1
    PROVE  Front(cs) \in Activations(V) /\ Len(Front(cs)) = Len(cs) - 1
<1> DEFINE T == Contexts(V)
<1> HIDE DEF T
<1>1. cs \in Seq(T)
  BY DEF Activations, T
<1>2. Front(cs) \in Seq(T) /\ Len(Front(cs)) = Len(cs) - 1
  BY <1>1 DEF Front
<1> DEFINE f == Front(cs)
<1> HIDE DEF f
<1>3. f \in Seq(T) /\ Len(f) # 0
  BY <1>1, <1>2 DEF f
<1>4. f # <<>>
  BY <1>3
<1> QED
  BY <1>2, <1>3, <1>4 DEF Activations, T, f

LEMMA InnerStep ==
    ASSUME LogInv, CellInv, BuildInv, build # Idle, NEW o \in Nodes, Inner(o)
    PROVE  Built(o)
<1> DEFINE k  == build.k
           x  == log[k]
           cs == build.cs
           c  == Last(cs)
           d  == Len(cs)
<1>1. PICK V : build \in Builds(V)
  BY DEF BuildInv
<1>2. cs \in Activations(V) /\ k \in Nat \ {0} /\ build.tx \in Nat /\ build.tx <= Len(log) /\ build.label \in Labels \cup {Nil}
  BY <1>1 DEF BuildInv, Builds
<1>3. k <= Len(log) /\ constructLeft(o, c, k) /\ phase' = phase
  BY DEF Inner
<1>4. log \in Seq(Entries) /\ Len(log) \in Nat /\ x \in Entries
  <2>1. log \in Seq(Entries) /\ Len(log) \in Nat /\ DOMAIN log = 1..Len(log)
    BY DEF LogInv
  <2>2. k \in DOMAIN log
    BY <1>2, <1>3, <2>1
  <2> QED
    BY <2>1, <2>2
<1>5. c \in Contexts(V) /\ d \in Nat \ {0} /\ c = cs[d]
  BY <1>2, LastActivation
<1>6. NewNode(o)
  BY <1>2, <1>3, <1>5, Constructed
<1>7. o \in Nat /\ x.i \in Operands /\ x.e \in Operands
  BY <1>4, NodesAreNumbers, OperandsAre
<1>8. c.push \in Nat /\ c.head \in Nat
  BY <1>5 DEF Contexts
<1>9. ASSUME NEW W, NEW b \in Builds(W), b.tx = build.tx, build' = ScanFrom(b, log', k + 1),
             NEW j, NEW e \in Entries, e.e = o, log' = [log EXCEPT ![j] = e]
      PROVE  Built(o)
  <2>1. Follows(log', {o}) /\ Len(log') = Len(log)
    BY <1>9, LogChanged
  <2>2. log' \in Seq(Entries) /\ k + 1 \in Nat \ {0} /\ k + 1 <= Len(log') + 1
    BY <1>2, <1>3, <1>4, <2>1 DEF Follows
  <2>3. (\E U : build' \in Builds(U)) /\ build'.tx = b.tx
    BY <1>9, <2>2, Scanned
  <2>4. build'.tx <= Len(log')
    BY <1>2, <1>9, <2>1, <2>3
  <2>5. BuildInv'
    BY <2>3, <2>4 DEF BuildInv
  <2> QED
    BY <1>3, <1>6, <2>1, <2>5 DEF Built
<1>10. ASSUME x.type = "LeftFold", log' = [log EXCEPT ![k] = LinkEntry(x.e, o, 0)],
              build' = ScanFrom([build EXCEPT !.cs[d] = [Context(k, x.i, c.push) EXCEPT !.epos = c.epos, !.size = 1]],
                                log', k + 1)
       PROVE  Built(o)
  <2> DEFINE W == V \cup {x.i, Nil, c.epos}
             n == [Context(k, x.i, c.push) EXCEPT !.epos = c.epos, !.size = 1]
             t == [cs EXCEPT ![d] = n]
             b == [build EXCEPT !.cs = t]
             e == LinkEntry(x.e, o, 0)
  <2>1. n \in Contexts(W)
    <3>1. x.i \in W /\ Nil \in W /\ c.epos \in W
      OBVIOUS
    <3> HIDE DEF W, c, x, k
    <3> QED
      BY <1>2, <1>8, <3>1 DEF Contexts, Context
  <2>2. cs \in Activations(W)
    <3>1. V \subseteq W
      OBVIOUS
    <3> HIDE DEF W, cs
    <3> QED
      BY <1>2, <3>1, MoreActivations
  <2>3. t \in Activations(W)
    <3> HIDE DEF n, W, cs
    <3> QED
      BY <2>1, <2>2, Replaced
  <2>4. b \in Builds(W) /\ b.tx = build.tx
    <3> HIDE DEF t, W
    <3> QED
      BY <1>1, <2>3 DEF Builds
  <2>5. build' = ScanFrom(b, log', k + 1)
    BY <1>10
  <2>6. e \in Entries /\ e.e = o /\ log' = [log EXCEPT ![k] = e]
    BY <1>7, <1>10, LinkEntries
  <2> HIDE DEF b, W, e, k
  <2> QED
    BY <1>9, <2>4, <2>5, <2>6
<1>11. ASSUME x.type = "Pop", d > 1, log' = [log EXCEPT ![c.push] = LinkEntry(x.i, o, k - c.push)],
              build' = ScanFrom([build EXCEPT !.cs = [Front(cs) EXCEPT ![d - 1].size = @ + 1]], log', k + 1)
       PROVE  Built(o)
  <2> DEFINE f == Front(cs)
             y == f[d - 1]
             n == [y EXCEPT !.size = y.size + 1]
             t == [f EXCEPT ![d - 1] = n]
             b == [build EXCEPT !.cs = t]
             e == LinkEntry(x.i, o, k - c.push)
  <2>1. f \in Activations(V) /\ Len(f) = d - 1
    BY <1>2, <1>11, FrontActivation
  <2>2. y \in Contexts(V)
    BY <2>1, LastActivation
  <2>3. n \in Contexts(V)
    <3> HIDE DEF y
    <3>1. y.size + 1 \in Nat
      BY <2>2 DEF Contexts
    <3> DEFINE z == y.size + 1
    <3> HIDE DEF z
    <3>2. [y EXCEPT !.size = z] \in Contexts(V)
      BY <2>2, <3>1 DEF Contexts, z
    <3> QED
      BY <3>2 DEF z
  <2>4. t \in Activations(V)
    <3> HIDE DEF n, f, d
    <3> QED
      BY <2>1, <2>3, Replaced
  <2>5. b \in Builds(V) /\ b.tx = build.tx
    <3> HIDE DEF t
    <3> QED
      BY <1>1, <2>4 DEF Builds
  <2>6. build' = ScanFrom(b, log', k + 1)
    BY <1>11
  <2>7. e \in Entries /\ e.e = o /\ log' = [log EXCEPT ![c.push] = e]
    <3>1. k - c.push \in Int
      BY <1>2, <1>8
    <3> QED
      BY <1>7, <1>11, <3>1, LinkEntries
  <2> HIDE DEF b, e, k, c
  <2> QED
    BY <1>9, <2>5, <2>6, <2>7
<1> QED
  BY <1>10, <1>11 DEF Inner

LEMMA OuterStep ==
    ASSUME LogInv, CellInv, BuildInv, build # Idle, NEW o \in Nodes, Outer(o)
    PROVE  Built(o)
<1>1. PICK V : build \in Builds(V)
  BY DEF BuildInv
<1> DEFINE cs == build.cs
           c  == Last(cs)
           tx == build.tx
<1>2. cs \in Activations(V) /\ tx \in Nat /\ tx <= Len(log) /\ build.label \in Operands /\ Len(log) \in Nat
  BY <1>1 DEF BuildInv, Builds, Operands, LogInv
<1>3. constructLeft(o, c, Len(log)) /\ build' = Idle
  BY DEF Outer
<1>4. c \in Contexts(V)
  BY <1>2, LastActivation
<1>5. NewNode(o)
  BY <1>2, <1>3, <1>4, Constructed
<1>6. BuildInv'
  BY <1>3 DEF BuildInv
<1>7. Follows(log', {o}) /\ phase' \in {phase, "parsed"}
  <2>1. CASE log' = Append(SubSeq(log, 1, tx), LinkEntry(build.label, o, 0)) /\ phase' = phase
    <3> DEFINE e == LinkEntry(build.label, o, 0)
               lg == SubSeq(log, 1, tx)
    <3>1. e \in Entries /\ e.e = o
      BY <1>2, LinkEntries, NodesAreNumbers
    <3>2. Follows(lg, {o})
      BY <1>2, LogCut
    <3> HIDE DEF e, lg
    <3>3. Follows(Append(lg, e), {o})
      BY <3>1, <3>2, LogAppended
    <3> QED
      BY <2>1, <3>3 DEF e, lg
  <2>2. CASE log' = <<>> /\ phase' = "parsed"
    BY <2>2, EmptyLog DEF Follows
  <2> QED
    BY <2>1, <2>2 DEF Outer
<1> QED
  BY <1>3, <1>5, <1>6, <1>7 DEF Built

-----------------------------------------------------------------------------
(***************************************************************************)
(* The steps of the collector.                                             *)
(***************************************************************************)
Roots == ToSet(RootNodes)
Kids  == [o \in Nodes |-> ToSet(cells[o].kids) \ {Null}]
Mode  == IF gc.mode = "mark" THEN "mark" ELSE "run"

CollectorStep == [Collector!Next]_(Collector!vars)

\* The roots before and after a step.
LEMMA RootsChange ==
    ASSUME IInv, LogInv', MemoInv', PhaseInv'
    PROVE  RootsExact /\ RootsExact'
<1>1. RootsExact
  BY RootsAre DEF IInv, PhaseInv
<1>2. (LogInv /\ MemoInv /\ roots \in BOOLEAN => RootsExact)'
  BY RootsAre, PTL
<1>3. (roots \in BOOLEAN)'
  BY DEF PhaseInv
<1> QED
  BY <1>1, <1>2, <1>3

LEMMA DropStep ==
    ASSUME Mode = "run", Roots' \subseteq Roots, UNCHANGED <<heap, cells, gc>>
    PROVE  CollectorStep
<1>1. MarkedNodes' = MarkedNodes /\ Kids' = Kids /\ Mode' = Mode /\ ToSet(gc.stack)' = ToSet(gc.stack)
  BY DEF MarkedNodes, Segs, Kids, Mode
<1>2. Collector!Drop
  BY <1>1 DEF Collector!Drop, Roots, Kids, Mode
<1> QED
  BY <1>2 DEF CollectorStep, Collector!Next

\* A call of the client that neither allocates nor gives back the heap.
LEMMA ClientStep ==
    ASSUME IInv, UNCHANGED <<heap, cells, arrays, gc>>, build = Idle,
           LogInv', MemoInv', BuildInv', PhaseInv', Holding(log', memo') \subseteq Holding(log, memo),
           roots' => roots \/ Holding(log', memo') = {}
    PROVE  IInv' /\ CollectorStep
<1>1. CellInv' /\ GcInv' /\ ArraysExact'
  BY DEF IInv, CellInv, GcInv, ArraysExact, WithArray, State, Held
<1>2. Mode = "run"
  BY DEF IInv, PhaseInv, Mode
<1>3. Roots' \subseteq Roots
  BY RootsChange DEF RootsExact, Roots
<1> QED
  BY <1>1, <1>2, <1>3, DropStep DEF IInv

\* The log as Follows tells it, the memo table as it was or with a node of the
\* log or the table.
LEMMA HoldingFollows ==
    ASSUME NEW S, NEW lg, Follows(lg, S), NEW m, \A s \in Slots : m[s] \in Holding(log, memo) \cup {Null}
    PROVE  Holding(lg, m) \subseteq Holding(log, memo) \cup S
  BY DEF Holding, Follows, LinkNodes

LEMMA MemoHolding == \A s \in Slots : memo[s] \in Holding(log, memo) \cup {Null}
  BY DEF Holding

LEMMA LinkHolding == \A n \in LinkNodes(log) : n \in Holding(log, memo) \cup {Null}
  BY DEF Holding, LinkNodes

LEMMA MemoFollows ==
    ASSUME NEW m, m = memo', heap' = heap, LogInv, MemoInv, m \in [Slots -> Nat], \A s \in Slots : m[s] \in Holding(log, memo) \cup {Null}
    PROVE  MemoInv'
<1>1. \A n \in Holding(log, memo) : Held(n)
  BY DEF Holding, LogInv, MemoInv
<1> QED
  BY <1>1 DEF MemoInv, Held

-----------------------------------------------------------------------------
(***************************************************************************)
(* The calls of the client.                                                *)
(***************************************************************************)
LEMMA LogStep == ASSUME IInv, Log PROVE IInv' /\ CollectorStep
<1> USE DEF Parsing, Ready
<1>1. Log /\ UNCHANGED <<heap, cells, arrays, gc, roots, parsed, phase, before, memo, build>> /\ build = Idle
  BY DEF Log
<1>2. LogInv /\ MemoInv
  BY DEF IInv
<1>3. Follows(log', {})
  <2>1. ASSUME NEW type \in Types \ {"Link"}, NEW i \in Operands, NEW e \in Operands, Append1(type, i, e)
        PROVE  Follows(log', {})
    <3> DEFINE x == [type |-> type, i |-> i, e |-> e, shift |-> 0]
    <3>1. x \in Entries /\ x.type # "Link"
      BY DEF Entries
    <3>2. log' = Append(log, x)
      BY <2>1 DEF Append1
    <3> HIDE DEF x
    <3> QED
      BY <1>2, <3>1, <3>2, LogKept, LogAppended
  <2>2. Nil \in Operands /\ Positions \subseteq Operands /\ Labels \subseteq Operands /\ \A d \in Details : d.i \in Operands
    BY DEF Operands
  <2>3. ASSUME NEW d \in Details, Append1(d.type, d.i, Nil) PROVE Follows(log', {})
    BY <2>1, <2>2, <2>3, DetailsAssumption DEF Types
  <2>4. ASSUME NEW p \in Positions, Append1("New", p, Nil) PROVE Follows(log', {})
    BY <2>1, <2>2, <2>4 DEF Types
  <2>5. ASSUME NEW p \in Positions, NEW l \in Labels, Append1("LeftFold", p, l) PROVE Follows(log', {})
    BY <2>1, <2>2, <2>5 DEF Types
  <2>6. CASE Append1("Push", Nil, Nil)
    BY <2>1, <2>2, <2>6 DEF Types
  <2>7. ASSUME NEW l \in Labels, Append1("Pop", l, Nil) PROVE Follows(log', {})
    BY <2>1, <2>2, <2>7 DEF Types
  <2> QED
    BY <1>1, <2>3, <2>4, <2>5, <2>6, <2>7 DEF Log
<1>4. LogInv'
  BY <1>1, <1>2, <1>3, LogFollows
<1>5. MemoInv' /\ BuildInv'
  BY <1>1, <1>2 DEF MemoInv, BuildInv, Held
<1>6. PhaseInv'
  BY <1>1 DEF IInv, PhaseInv, Log
<1>7. Holding(log', memo') \subseteq Holding(log, memo)
  BY <1>1, <1>3, MemoHolding, HoldingFollows
<1> QED
  BY <1>1, <1>4, <1>5, <1>6, <1>7, ClientStep

LEMMA RollbackStep == ASSUME IInv, Rollback PROVE IInv' /\ CollectorStep
<1> USE DEF Parsing, Ready
<1>1. UNCHANGED <<heap, cells, arrays, gc, roots, parsed, phase, before, memo, build>> /\ build = Idle /\ phase = "parse"
  BY DEF Rollback
<1>2. LogInv /\ MemoInv
  BY DEF IInv
<1>3. Follows(log', {})
  BY <1>2, LogCut DEF Rollback
<1>4. LogInv'
  BY <1>1, <1>2, <1>3, LogFollows
<1>5. MemoInv' /\ BuildInv'
  BY <1>1, <1>2 DEF MemoInv, BuildInv, Held
<1>6. PhaseInv'
  BY <1>1 DEF IInv, PhaseInv
<1>7. Holding(log', memo') \subseteq Holding(log, memo)
  BY <1>1, <1>3, MemoHolding, HoldingFollows
<1> QED
  BY <1>1, <1>4, <1>5, <1>6, <1>7, ClientStep

LEMMA LookupStep == ASSUME IInv, Lookup PROVE IInv' /\ CollectorStep
<1> USE DEF Parsing, Ready
<1>1. UNCHANGED <<heap, cells, arrays, gc, roots, parsed, phase, before, memo, build>> /\ build = Idle /\ phase = "parse"
  BY DEF Lookup
<1>2. LogInv /\ MemoInv
  BY DEF IInv
<1>3. PICK s \in Slots, l \in Labels : memo[s] # Null /\ log' = Append(log, LinkEntry(l, memo[s], 0))
  BY DEF Lookup
<1> DEFINE n == memo[s]
           x == LinkEntry(l, n, 0)
<1>4. n \in Nat /\ Held(n) /\ n # Null
  BY <1>2, <1>3 DEF MemoInv
<1>5. x \in Entries /\ x.e = n /\ log' = Append(log, x)
  BY <1>3, <1>4, LinkEntries DEF Operands
<1>6. n \in Holding(log, memo)
  BY <1>4 DEF Holding
<1> HIDE DEF n, x
<1>7. Follows(log, {n})
  BY <1>2, LogKept DEF Follows
<1>8. Follows(log', {n})
  BY <1>5, <1>7, LogAppended
<1>9. LogInv'
  BY <1>1, <1>2, <1>4, <1>8, LogFollows DEF Held
<1>10. MemoInv' /\ BuildInv'
  BY <1>1, <1>2 DEF MemoInv, BuildInv, Held
<1>11. PhaseInv'
  BY <1>1 DEF IInv, PhaseInv
<1>12. Holding(log', memo') \subseteq Holding(log, memo)
  BY <1>1, <1>6, <1>8, MemoHolding, HoldingFollows
<1> QED
  BY <1>1, <1>9, <1>10, <1>11, <1>12, ClientStep

LEMMA RememberStep == ASSUME IInv, Remember PROVE IInv' /\ CollectorStep
<1> USE DEF Parsing, Ready
<1>1. UNCHANGED <<heap, cells, arrays, gc, roots, parsed, phase, before, log, build>> /\ build = Idle /\ phase = "parse"
  BY DEF Remember
<1>2. LogInv /\ MemoInv /\ memo \in [Slots -> Nat] /\ log \in Seq(Entries)
  BY DEF IInv, LogInv, MemoInv
<1>3. PICK s \in Slots : \E n : /\ memo' = [memo EXCEPT ![s] = n]
                                /\ n = Null \/ (log # <<>> /\ log[Len(log)].type = "Link" /\ n = log[Len(log)].e)
  BY DEF Remember
<1>4. PICK n : /\ memo' = [memo EXCEPT ![s] = n]
               /\ n = Null \/ (log # <<>> /\ log[Len(log)].type = "Link" /\ n = log[Len(log)].e)
  BY <1>3
<1>5. n \in Nat /\ n \in Holding(log, memo) \cup {Null}
  <2>1. CASE n = Null
    BY <2>1 DEF Null
  <2>2. CASE log # <<>> /\ log[Len(log)].type = "Link" /\ n = log[Len(log)].e
    <3>1. Len(log) \in DOMAIN log
      BY <1>2, <2>2
    <3>2. Len(log) \in LinksOf(log)
      BY <2>2, <3>1 DEF LinksOf
    <3> QED
      BY <1>2, <2>2, <3>2, LinkHolding, NodesAreNumbers DEF LinkNodes, LogInv, Held
  <2> QED
    BY <1>4, <2>1, <2>2
<1>6. memo' \in [Slots -> Nat] /\ \A t \in Slots : memo'[t] = memo[t] \/ memo'[t] = n
  BY <1>2, <1>4, <1>5
<1>7. \A t \in Slots : memo'[t] \in Holding(log, memo) \cup {Null}
  BY <1>5, <1>6, MemoHolding
<1>8. MemoInv'
  BY <1>1, <1>2, <1>6, <1>7, MemoFollows
<1>9. LogInv' /\ BuildInv'
  BY <1>1, <1>2 DEF LogInv, BuildInv, Held
<1>10. PhaseInv'
  BY <1>1 DEF IInv, PhaseInv
<1>11. Holding(log', memo') \subseteq Holding(log, memo)
  <2>1. Holding(log, memo') \subseteq Holding(log, memo) \cup {}
    BY <1>2, <1>7, LogKept, HoldingFollows
  <2> QED
    BY <1>1, <2>1
<1> QED
  BY <1>1, <1>8, <1>9, <1>10, <1>11, ClientStep

LEMMA StartStep ==
    ASSUME IInv, Ready, NEW for \in {"commit", "root"}, NEW tx \in 0..Len(log)-1, NEW label \in Labels \cup {Nil},
           Start(for, tx, label)
    PROVE  IInv' /\ CollectorStep
<1>1. UNCHANGED <<heap, cells, arrays, gc, roots, log, memo, parsed, phase>> /\ build = Idle /\ phase = "parse"
  BY DEF Start, Ready
<1>2. LogInv /\ MemoInv /\ log \in Seq(Entries) /\ Len(log) \in Nat
  BY DEF IInv, LogInv
<1>3. tx \in Nat /\ tx + 1 \in Nat \ {0} /\ tx <= Len(log) /\ tx + 1 <= Len(log) + 1
  BY <1>2
<1> DEFINE y == log[tx + 1].i
           V == {y, Nil}
           c == Context(tx + 1, y, 0)
           b == [for |-> for, tx |-> tx, label |-> label, k |-> tx + 1, cs |-> <<c>>]
<1>4. b \in Builds(V) /\ b.tx = tx
  <2>1. y \in V /\ Nil \in V
    OBVIOUS
  <2> HIDE DEF V, y
  <2>2. c \in Contexts(V)
    BY <1>3, <2>1 DEF Context, Contexts
  <2> HIDE DEF c
  <2>3. <<c>> \in Activations(V)
    BY <2>2 DEF Activations
  <2> QED
    BY <1>3, <2>3 DEF Builds
<1>5. build' = ScanFrom(b, log, tx + 1)
  BY DEF Start
<1> HIDE DEF b, V
<1>6. (\E W : build' \in Builds(W)) /\ build'.tx = tx
  BY <1>2, <1>3, <1>4, <1>5, Scanned
<1>7. BuildInv'
  BY <1>1, <1>3, <1>6 DEF BuildInv
<1>8. LogInv' /\ MemoInv'
  BY <1>1, <1>2 DEF LogInv, MemoInv, Held
<1>9. PhaseInv'
  BY <1>1 DEF IInv, PhaseInv
<1>10. Holding(log', memo') \subseteq Holding(log, memo)
  BY <1>1
<1> QED
  BY <1>1, <1>7, <1>8, <1>9, <1>10, ClientStep

LEMMA CommitStep == ASSUME IInv, Commit PROVE IInv' /\ CollectorStep
  BY StartStep DEF Commit

LEMMA GetParsedStep == ASSUME IInv, GetParsed PROVE IInv' /\ CollectorStep
<1>1. CASE phase' = "parsed" /\ UNCHANGED <<heap, cells, arrays, gc, roots, log, memo, parsed, build, before>>
  <2>1. build = Idle /\ phase = "parse"
    BY DEF GetParsed, Ready
  <2>2. LogInv' /\ MemoInv' /\ BuildInv'
    BY <1>1 DEF IInv, LogInv, MemoInv, BuildInv, Held
  <2>3. PhaseInv'
    BY <1>1, <2>1 DEF IInv, PhaseInv
  <2>4. Holding(log', memo') \subseteq Holding(log, memo)
    BY <1>1
  <2> QED
    BY <1>1, <2>1, <2>2, <2>3, <2>4, ClientStep
<1>2. ASSUME NEW k \in DOMAIN log, Ready, Start("root", k - 1, Nil)
      PROVE  IInv' /\ CollectorStep
  <2>1. log \in Seq(Entries)
    BY DEF IInv, LogInv
  <2>2. k - 1 \in 0..Len(log)-1
    BY <2>1
  <2> QED
    BY <1>2, <2>2, StartStep
<1> QED
  BY <1>1, <1>2 DEF GetParsed

LEMMA Reset1Step == ASSUME IInv, Reset1 PROVE IInv' /\ CollectorStep
<1>1. /\ UNCHANGED <<heap, cells, arrays, gc, roots, parsed, build, before>> /\ build = Idle
      /\ phase' = "reset" /\ log' = <<>> /\ memo' = [s \in Slots |-> Null]
  BY DEF Reset1, Ready, IInv, PhaseInv
<1>2. LogInv'
  BY <1>1 DEF LogInv, LinksOf
<1>3. MemoInv' /\ BuildInv'
  BY <1>1 DEF MemoInv, BuildInv, Null
<1>4. PhaseInv'
  BY <1>1 DEF IInv, PhaseInv
<1>5. Holding(log', memo') \subseteq Holding(log, memo)
  BY <1>1 DEF Holding, LinksOf
<1> QED
  BY <1>1, <1>2, <1>3, <1>4, <1>5, ClientStep

LEMMA NothingHeld == PhaseInv /\ phase \in {"reset", "bare"} => Holding(log, memo) = {}
  BY DEF PhaseInv, Holding, LinksOf

LEMMA Reset2Step == ASSUME IInv, Reset2 PROVE IInv' /\ CollectorStep
<1>1. /\ UNCHANGED <<heap, cells, arrays, gc, log, memo, parsed, build, before>> /\ build = Idle
      /\ phase = "bare" /\ phase' = "parse" /\ roots' = TRUE
  BY DEF Reset2, IInv, PhaseInv
<1>2. LogInv' /\ MemoInv' /\ BuildInv'
  BY <1>1 DEF IInv, LogInv, MemoInv, BuildInv, Held
<1>3. PhaseInv'
  BY <1>1 DEF IInv, PhaseInv
<1>4. Holding(log', memo') = {}
  BY <1>1, NothingHeld DEF IInv
<1> QED
  BY <1>1, <1>2, <1>3, <1>4, ClientStep

-----------------------------------------------------------------------------
(***************************************************************************)
(* The allocation and the collection.                                      *)
(***************************************************************************)
LEMMA PointerIsReady ==
    ASSUME IInv, gc.mode # "mark"
    PROVE  HeapExact(heap) /\ PointerReady(heap) /\ gc.stack = <<>> /\ Mode = "run"
  BY DEF IInv, GcInv, MarkInv, State, Mode

LEMMA EmptyStack ==
    ASSUME NEW h, HeapExact(h), NEW slots \in Nat \ {0}
    PROVE  MarkInv([heap |-> h, stack |-> <<>>, slots |-> slots])
<1>1. h \in Heaps
  BY DEF HeapExact
<1>2. <<>> \in Seq(Nodes) /\ Len(<<>>) = 0 /\ Distinct(<<>>) /\ ToSet(<<>>) = {}
  BY DEF Distinct, ToSet
<1> QED
  BY <1>1, <1>2 DEF MarkInv, Marking

LEMMA GcFields ==
    ASSUME IInv
    PROVE  /\ gc = [mode |-> gc.mode, stack |-> gc.stack, slots |-> gc.slots]
           /\ gc.mode \in {"run", "mark", "retry"} /\ gc.stack \in Seq(Nodes) /\ gc.slots \in Nat \ {0}
  BY DEF IInv, GcInv

LEMMA AllocatedStep ==
    ASSUME IInv, build # Idle, gc.mode # "mark", phase = "parse",
           NEW r, r = tryAlloc(heap), r.block # Null,
           heap' = r.heap, Bounded, gc' = [gc EXCEPT !.mode = "run"], Inner(r.block) \/ Outer(r.block),
           UNCHANGED <<roots, memo>>
    PROVE  IInv' /\ CollectorStep
<1> DEFINE o == r.block
<1>1. /\ HeapExact(heap) /\ PointerReady(heap) /\ gc.stack = <<>> /\ Mode = "run"
  BY PointerIsReady
<1>2. /\ HeapExact(heap') /\ PointerReady(heap') /\ IsNode(o, heap')
      /\ o \notin MarkedIn(heap) /\ MarkedIn(heap') = MarkedIn(heap) \cup {o}
      /\ \A n : IsNode(n, heap) => IsNode(n, heap')
  BY <1>1, Allocated
<1>3. o \in Nodes
  BY <1>2, NodesFit DEF Bounded
<1>4. LogInv /\ MemoInv /\ CellInv /\ BuildInv /\ ArraysExact /\ roots = TRUE
  BY DEF IInv, PhaseInv
<1>5. Built(o)
  BY <1>3, <1>4, InnerStep, OuterStep
<1> HIDE DEF o
<1>6. NewNode(o) /\ Follows(log', {o}) /\ BuildInv'
  BY <1>5 DEF Built
<1>7. LogInv'
  BY <1>2, <1>3, <1>4, <1>6, LogFollows
<1>8. CellInv'
  BY <1>2, <1>3, <1>4, <1>6, CellsFollow
<1>9. ArraysExact'
  BY <1>3, <1>4, <1>6, ArraysFollow
<1>10. MemoInv'
  BY <1>2, <1>4 DEF MemoInv, Held
<1>11. gc.slots \in Nat \ {0} /\ gc'.mode = "run" /\ gc'.stack = <<>> /\ gc'.slots = gc.slots
  BY <1>1, GcFields
<1>12. GcInv'
  <2>1. MarkInv(State')
    BY <1>2, <1>11, EmptyStack DEF State
  <2>2. gc' \in [mode : {"run", "mark", "retry"}, stack : Seq(Nodes), slots : Nat \ {0}]
    BY GcFields
  <2> QED
    BY <1>2, <1>11, <2>1, <2>2 DEF GcInv
<1>13. PhaseInv'
  BY <1>4, <1>5, <1>11 DEF IInv, PhaseInv, Built
<1>14. IInv'
  BY <1>6, <1>7, <1>8, <1>9, <1>10, <1>12, <1>13 DEF IInv
<1>15. RootsExact /\ RootsExact'
  BY <1>7, <1>10, <1>13, RootsChange
<1>16. Roots = Holding(log, memo) /\ Roots' \subseteq Roots \cup {o}
  <2>1. Holding(log', memo) \subseteq Holding(log, memo) \cup {o}
    BY <1>6, MemoHolding, HoldingFollows
  <2> QED
    BY <1>4, <1>15, <2>1 DEF RootsExact, Roots
<1>17. o \notin MarkedNodes /\ MarkedNodes' = MarkedNodes \cup {o}
  <2>1. (MarkedNodes = MarkedIn(heap) \cap Nodes)'
    BY MarkedNodesAre, PTL
  <2> QED
    BY <1>2, <1>3, <2>1, MarkedNodesAre
<1> DEFINE K == ToSet(cells'[o].kids) \ {Null}
<1>18. K \in SUBSET Roots /\ Kids' = [Kids EXCEPT ![o] = K]
  <2>1. K \subseteq LinkNodes(log) \ {Null}
    BY <1>6 DEF NewNode
  <2>2. LinkNodes(log) \ {Null} \subseteq Holding(log, memo)
    BY LinkHolding
  <2>3. \A n \in Nodes : n # o => cells'[n].kids = cells[n].kids
    BY <1>6 DEF NewNode
  <2>4. Kids' = [n \in Nodes |-> ToSet(cells'[n].kids) \ {Null}]
    BY DEF Kids
  <2> QED
    BY <1>3, <1>16, <2>1, <2>2, <2>3, <2>4 DEF Kids
<1>19. UNCHANGED <<ToSet(gc.stack), Mode>>
  BY <1>1, <1>11 DEF Mode
<1>20. Collector!Alloc(o)
  <2> HIDE DEF K
  <2> QED
    BY <1>1, <1>16, <1>17, <1>18, <1>19 DEF Collector!Alloc, Roots, Kids, Mode
<1> QED
  BY <1>3, <1>14, <1>20 DEF CollectorStep, Collector!Next

\* What a collection that visits some nodes of g leaves.
LEMMA Collected ==
    ASSUME IInv, NEW g, NEW S, NEW e, e = Visit(g, S), NEW T, MarkStep(g, e, T),
           \A n : IsNode(n, heap) => IsNode(n, g.heap),
           Collecting(e), build # Idle, UNCHANGED <<roots, log, memo, parsed, phase, build, before>>
    PROVE  /\ IInv' /\ UNCHANGED <<Roots, Kids>> /\ Mode' = "mark"
           /\ MarkedNodes' = (MarkedIn(g.heap) \cup T) \cap Nodes
           /\ ToSet(gc.stack)' = ToSet(g.stack) \cup (T \ MarkedIn(g.heap))
<1>1. /\ heap' = e.heap /\ gc' = [mode |-> "mark", stack |-> e.stack, slots |-> e.slots]
      /\ cells' = cells /\ arrays' = arrays
  BY DEF Collecting
<1>2. /\ MarkInv(e) /\ MarkedIn(e.heap) = MarkedIn(g.heap) \cup T
      /\ ToSet(e.stack) = ToSet(g.stack) \cup (T \ MarkedIn(g.heap))
      /\ \A n : IsNode(n, heap) => IsNode(n, heap')
  BY <1>1 DEF MarkStep
<1>3. LogInv' /\ MemoInv' /\ CellInv'
  BY <1>1, <1>2 DEF IInv, LogInv, MemoInv, CellInv, Held
<1>4. BuildInv' /\ ArraysExact' /\ PhaseInv'
  BY <1>1 DEF IInv, BuildInv, ArraysExact, WithArray, PhaseInv
<1>5. GcInv'
  <2>1. State' = e
    BY <1>1, <1>2 DEF State, MarkInv, Marking
  <2>2. gc' \in [mode : {"run", "mark", "retry"}, stack : Seq(Nodes), slots : Nat \ {0}]
    BY <1>1, <1>2 DEF MarkInv, Marking
  <2> QED
    BY <1>1, <1>2, <2>1, <2>2 DEF GcInv
<1>6. MarkedNodes' = (MarkedIn(g.heap) \cup T) \cap Nodes
  <2>1. (MarkedNodes = MarkedIn(heap) \cap Nodes)'
    BY MarkedNodesAre, PTL
  <2> QED
    BY <1>1, <1>2, <2>1
<1>7. UNCHANGED <<Roots, Kids>> /\ Mode' = "mark"
  BY <1>1 DEF Roots, RootNodes, ast_trace, memo_trace, Kids, Mode
<1> QED
  BY <1>1, <1>2, <1>3, <1>4, <1>5, <1>6, <1>7 DEF IInv

LEMMA CollectStep ==
    ASSUME IInv, build # Idle, gc.mode = "run", phase = "parse",
           NEW r, r = tryAlloc(heap),
           Collecting(Visit(WithHeap(clearAllBitMapsAndCount(r.heap)), RootNodes)),
           UNCHANGED <<roots, log, memo, parsed, phase, build, before>>
    PROVE  IInv' /\ CollectorStep
<1> DEFINE h == clearAllBitMapsAndCount(r.heap)
           g == WithHeap(h)
           e == Visit(g, RootNodes)
           T == ToSet(RootNodes) \ {Null}
<1>1. HeapExact(heap) /\ PointerReady(heap) /\ Mode = "run"
  BY PointerIsReady
<1>2. HeapExact(r.heap) /\ \A n : IsNode(n, heap) => IsNode(n, r.heap)
  BY <1>1, Allocated
<1>3. HeapExact(h) /\ MarkedIn(h) = {} /\ \A n : IsNode(n, heap) => IsNode(n, h)
  BY <1>2, Cleared
<1> HIDE DEF h
<1>4. MarkInv(g) /\ g.heap = h /\ ToSet(g.stack) = {}
  <2>1. MarkInv(g)
    BY <1>3, EmptyStack, GcFields DEF WithHeap
  <2>2. ToSet(<<>>) = {}
    BY DEF ToSet
  <2> QED
    BY <2>1, <2>2 DEF WithHeap
<1> HIDE DEF g
<1>5. RootsExact /\ roots = TRUE
  BY RootsAre DEF IInv, PhaseInv
<1>6. /\ RootNodes \in Seq(Nat) /\ ToSet(RootNodes) = Holding(log, memo)
      /\ \A n \in ToSet(RootNodes) : n \in Nodes /\ IsNode(n, g.heap)
  BY <1>3, <1>4, <1>5 DEF RootsExact, Held
<1>7. MarkStep(g, e, T)
  BY <1>4, <1>6, Visited
<1> DEFINE S == RootNodes
<1>8. e = Visit(g, S)
  OBVIOUS
<1>9. Collecting(e)
  BY DEF h, g
<1>10. T = Roots /\ Roots \subseteq Nodes
  BY <1>6, NodesAreNumbers DEF Roots
<1> HIDE DEF e, S, T
<1>11. /\ IInv' /\ UNCHANGED <<Roots, Kids>> /\ Mode' = "mark"
       /\ MarkedNodes' = (MarkedIn(g.heap) \cup T) \cap Nodes
       /\ ToSet(gc.stack)' = ToSet(g.stack) \cup (T \ MarkedIn(g.heap))
  BY <1>3, <1>4, <1>7, <1>8, <1>9, Collected
<1>12. MarkedNodes' = Roots /\ ToSet(gc.stack)' = Roots
  BY <1>3, <1>4, <1>10, <1>11
<1>13. Collector!Start
  BY <1>1, <1>11, <1>12 DEF Collector!Start, Roots, Kids, Mode
<1> QED
  BY <1>11, <1>13 DEF CollectorStep, Collector!Next

LEMMA StutterStep ==
    ASSUME UNCHANGED <<heap, cells, gc, roots, log, memo>>
    PROVE  CollectorStep
<1>1. UNCHANGED Collector!vars
  BY DEF Collector!vars, RootNodes, ast_trace, memo_trace, MarkedNodes, Segs
<1> QED
  BY <1>1 DEF CollectorStep

LEMMA ExitStep ==
    ASSUME IInv, build # Idle, gc.mode = "retry", phase' = "exit",
           UNCHANGED <<heap, cells, arrays, gc, roots, log, memo, parsed, build, before>>
    PROVE  IInv' /\ CollectorStep
<1>1. LogInv' /\ MemoInv' /\ CellInv' /\ BuildInv' /\ ArraysExact'
  BY DEF IInv, LogInv, MemoInv, CellInv, BuildInv, Held, ArraysExact, WithArray
<1>2. GcInv' /\ PhaseInv'
  BY DEF IInv, GcInv, State, PhaseInv
<1> QED
  BY <1>1, <1>2, StutterStep DEF IInv

LEMMA AllocStep == ASSUME IInv, Alloc PROVE IInv' /\ CollectorStep
<1>1. build # Idle /\ gc.mode # "mark" /\ phase = "parse"
  BY DEF Alloc
<1> DEFINE r == tryAlloc(heap)
<1>2. CASE /\ r.block # Null
           /\ heap' = r.heap /\ Bounded
           /\ gc' = [gc EXCEPT !.mode = "run"]
           /\ Inner(r.block) \/ Outer(r.block)
           /\ UNCHANGED <<roots, memo>>
  <2> HIDE DEF r
  <2> QED
    BY <1>1, <1>2, AllocatedStep DEF r
<1>3. CASE /\ r.block = Null /\ gc.mode = "run"
           /\ Collecting(Visit(WithHeap(clearAllBitMapsAndCount(r.heap)), RootNodes))
           /\ UNCHANGED <<roots, log, memo, parsed, phase, build, before>>
  <2> HIDE DEF r
  <2> QED
    BY <1>1, <1>3, CollectStep DEF r
<1>4. CASE /\ gc.mode = "retry" /\ phase' = "exit"
           /\ UNCHANGED <<heap, cells, arrays, gc, roots, log, memo, parsed, build, before>>
  BY <1>1, <1>4, ExitStep
<1> QED
  BY <1>2, <1>3, <1>4 DEF Alloc

\* The top of the mark stack is taken.
LEMMA Popped ==
    ASSUME NEW s \in Seq(Nodes), s # <<>>, Distinct(s)
    PROVE  /\ Last(s) \in Nodes /\ Last(s) \in ToSet(s)
           /\ Front(s) \in Seq(Nodes) /\ Distinct(Front(s)) /\ Len(Front(s)) = Len(s) - 1
           /\ ToSet(Front(s)) = ToSet(s) \ {Last(s)}
<1> DEFINE n == Len(s)
           f == Front(s)
<1>1. n \in Nat \ {0} /\ DOMAIN s = 1..n /\ Last(s) = s[n] /\ n \in DOMAIN s
  <2>1. n \in Nat \ {0} /\ DOMAIN s = 1..n /\ Last(s) = s[n]
    BY DEF Last
  <2> QED
    BY <2>1
<1>2. f \in Seq(Nodes) /\ Len(f) = n - 1 /\ DOMAIN f = 1..(n - 1) /\ \A i \in 1..(n - 1) : f[i] = s[i]
  BY <1>1 DEF Front
<1> HIDE DEF f, n
<1>3. \A i \in DOMAIN f : i \in DOMAIN s /\ i # n
  BY <1>1, <1>2
<1>4. \A i \in DOMAIN s : i = n \/ i \in DOMAIN f
  BY <1>1, <1>2
<1>5. Distinct(f)
  BY <1>2, <1>3 DEF Distinct
<1>6. ToSet(f) = ToSet(s) \ {s[n]}
  BY <1>1, <1>2, <1>3, <1>4 DEF ToSet, Distinct
<1>7. s[n] \in Nodes /\ s[n] \in ToSet(s)
  BY <1>1 DEF ToSet
<1> QED
  BY <1>1, <1>2, <1>5, <1>6, <1>7 DEF f, n

LEMMA MarkOneStep == ASSUME IInv, Mark PROVE IInv' /\ CollectorStep
<1> DEFINE n == Last(gc.stack)
           front == Front(gc.stack)
           g == [heap |-> heap, stack |-> front, slots |-> gc.slots]
           S == cells[n].kids
           T == ToSet(S) \ {Null}
           e == Visit(g, S)
<1>1. /\ gc.mode = "mark" /\ gc.stack # <<>> /\ Collecting(e)
      /\ UNCHANGED <<roots, log, memo, parsed, phase, build, before>>
  BY DEF Mark
<1>2. /\ HeapExact(heap) /\ heap \in Heaps /\ gc.stack \in Seq(Nodes) /\ Distinct(gc.stack)
      /\ Len(gc.stack) < gc.slots /\ gc.slots \in Nat \ {0} /\ ToSet(gc.stack) \subseteq MarkedIn(heap)
      /\ Mode = "mark" /\ build # Idle
  BY <1>1, GcFields DEF IInv, GcInv, MarkInv, State, Mode, HeapExact, PhaseInv
<1>3. /\ n \in Nodes /\ n \in ToSet(gc.stack)
      /\ front \in Seq(Nodes) /\ Distinct(front) /\ Len(front) = Len(gc.stack) - 1
      /\ ToSet(front) = ToSet(gc.stack) \ {n}
  BY <1>1, <1>2, Popped
<1> HIDE DEF n, front
<1>4. MarkInv(g) /\ g.heap = heap /\ g.stack = front
  <2>1. Len(front) < gc.slots
    BY <1>2, <1>3
  <2> QED
    BY <1>2, <1>3, <2>1 DEF MarkInv, Marking
<1>5. S \in Seq(Nat) /\ \A m \in ToSet(S) : m # Null => m \in Nodes /\ IsNode(m, heap)
  <2>1. \A m \in ToSet(S) : m # Null => Held(m)
    BY <1>3 DEF IInv, CellInv
  <2>2. S \in Seq(Nat)
    BY <1>3 DEF IInv, CellInv, Cells
  <2> QED
    BY <2>1, <2>2 DEF Held
<1> HIDE DEF g
<1>6. MarkStep(g, e, T)
  <2> HIDE DEF S
  <2> QED
    BY <1>4, <1>5, Visited
<1>7. T \subseteq Nodes /\ T = Kids[n]
  BY <1>3, <1>5 DEF Kids
<1>8. e = Visit(g, S)
  OBVIOUS
<1> HIDE DEF e, S, T
<1>9. /\ IInv' /\ UNCHANGED <<Roots, Kids>> /\ Mode' = "mark"
      /\ MarkedNodes' = (MarkedIn(g.heap) \cup T) \cap Nodes
      /\ ToSet(gc.stack)' = ToSet(g.stack) \cup (T \ MarkedIn(g.heap))
  BY <1>1, <1>2, <1>4, <1>6, <1>8, Collected
<1>10. MarkedNodes = MarkedIn(heap) \cap Nodes
  BY MarkedNodesAre
<1>11. MarkedNodes' = MarkedNodes \cup Kids[n]
  BY <1>4, <1>7, <1>9, <1>10
<1>12. ToSet(gc.stack)' = (ToSet(gc.stack) \ {n}) \cup (Kids[n] \ MarkedNodes)
  BY <1>3, <1>4, <1>7, <1>9, <1>10
<1>13. Collector!Mark(n)
  BY <1>2, <1>3, <1>9, <1>11, <1>12 DEF Collector!Mark, Roots, Kids, Mode
<1> QED
  BY <1>3, <1>9, <1>13 DEF CollectorStep, Collector!Next

LEMMA SweepStep == ASSUME IInv, Sweep PROVE IInv' /\ CollectorStep
<1>1. /\ gc.mode = "mark" /\ gc.stack = <<>> /\ heap' = bmgc_gc_sweep(heap) /\ gc' = [gc EXCEPT !.mode = "retry"]
      /\ UNCHANGED <<cells, arrays, roots, log, memo, parsed, phase, build, before>>
  BY DEF Sweep
<1>2. HeapExact(heap) /\ build # Idle
  BY <1>1 DEF IInv, GcInv, MarkInv, State, PhaseInv
<1>3. HeapExact(heap') /\ Grown(heap, heap') /\ PointerReady(heap')
  BY <1>1, <1>2, Swept
<1>4. MarkedIn(heap') = MarkedIn(heap) /\ \A n : IsNode(n, heap) => IsNode(n, heap')
  BY <1>2, <1>3, GrownMarks
<1>5. LogInv' /\ MemoInv' /\ CellInv' /\ BuildInv' /\ ArraysExact'
  BY <1>1, <1>4 DEF IInv, LogInv, MemoInv, CellInv, BuildInv, Held, ArraysExact, WithArray
<1>6. gc'.mode = "retry" /\ gc'.stack = <<>> /\ gc'.slots = gc.slots /\ gc.slots \in Nat \ {0}
  BY <1>1, GcFields
<1>7. GcInv'
  <2>1. MarkInv(State')
    BY <1>3, <1>6, EmptyStack DEF State
  <2>2. gc' \in [mode : {"run", "mark", "retry"}, stack : Seq(Nodes), slots : Nat \ {0}]
    BY <1>1, GcFields
  <2> QED
    BY <1>3, <1>6, <2>1, <2>2 DEF GcInv
<1>8. PhaseInv'
  BY <1>1, <1>2 DEF IInv, PhaseInv
<1>9. MarkedNodes' = MarkedNodes
  <2>1. (MarkedNodes = MarkedIn(heap) \cap Nodes)'
    BY MarkedNodesAre, PTL
  <2> QED
    BY <1>4, <2>1, MarkedNodesAre
<1>10. UNCHANGED <<Roots, Kids, ToSet(gc.stack)>> /\ ToSet(gc.stack) = {} /\ Mode = "mark" /\ Mode' = "run"
  <2>1. ToSet(<<>>) = {}
    BY DEF ToSet
  <2> QED
    BY <1>1, <1>6, <2>1 DEF Roots, RootNodes, ast_trace, memo_trace, Kids, Mode
<1>11. Collector!Finish
  BY <1>9, <1>10 DEF Collector!Finish, Roots, Kids, Mode
<1> QED
  BY <1>5, <1>7, <1>8, <1>11 DEF IInv, CollectorStep, Collector!Next

-----------------------------------------------------------------------------
(***************************************************************************)
(* A new manager.                                                          *)
(***************************************************************************)
LEMMA NewHeap ==
    ASSUME NEW ok \in BOOLEAN, NEW h, h = HeapManager_init \/ h = [HeapManager_init EXCEPT !.ok = ok]
    PROVE  HeapExact(h) /\ PointerReady(h) /\ MarkedIn(h) = {} /\ \A n : ~IsNode(n, h)
<1>1. PoolSize \in Nat /\ Pointer(0, Null) \in Pointers /\ Pointer(0, Null).seg = 0
  BY HeapAssumption DEF Pointer, Pointers, Null
<1>2. <<>> \in Seq(Segments) /\ <<>> \in Seq(Nat)
  OBVIOUS
<1> DEFINE p == Pointer(0, Null)
           g == HeapManager_init
<1>3. g = [segs |-> <<>>, pool |-> PoolSize, free |-> <<>>, p |-> p, ok |-> TRUE]
  BY DEF HeapManager_init
<1> HIDE DEF p, g
<1>4. g \in Heaps /\ g.segs = <<>> /\ g.free = <<>> /\ g.p.seg = 0
  <2> DEFINE S == Seq(Segments)
             F == Seq(Nat)
             P == Pointers
  <2>1. <<>> \in S /\ <<>> \in F /\ p \in P /\ Heaps = [segs : S, pool : Nat, free : F, p : P, ok : BOOLEAN]
    BY <1>1, <1>2 DEF Heaps, p
  <2> HIDE DEF S, F, P
  <2> QED
    BY <1>1, <1>3, <2>1 DEF p
<1>5. h \in Heaps /\ h.segs = <<>> /\ h.free = <<>> /\ h.p.seg = 0
  BY <1>4 DEF Heaps, g
<1>6. HeapExact(h)
  BY <1>5 DEF HeapExact
<1> QED
  BY <1>5, <1>6 DEF PointerReady, MarkedIn, IsNode

LEMMA BlankCells ==
    /\ [o \in Nodes |-> Blank] \in [Nodes -> Cells({Nil, 0})]
    /\ Blank.kids = <<>> /\ ToSet(<<>>) = {}
<1>1. Blank \in Cells({Nil, 0}) /\ Blank.kids = <<>>
  BY DEF Blank, Cells
<1> QED
  BY <1>1 DEF ToSet

\* HeapManager_final_free frees every block, so that no array is left.
LEMMA AllFreed ==
    ASSUME IInv
    PROVE  {o \in final_free : deferred_sweep(o) = 1} = WithArray
<1> DEFINE h == clearAllBitMapsAndCount(heap)
<1>1. HeapExact(heap) /\ CellInv
  BY DEF IInv, GcInv, MarkInv, State
<1>2. HeapExact(h) /\ MarkedIn(h) = {} /\ \A n : IsNode(n, heap) <=> IsNode(n, h)
  BY <1>1, Cleared
<1>3. final_free = {o \in Nodes : SegmentOf(o) <= Len(h.segs) /\ IndexOf(o) \notin h.segs[SegmentOf(o)].bm0}
  BY DEF final_free
<1> HIDE DEF h
<1>4. \A o \in Nodes : deferred_sweep(o) = 1 <=> Len(cells[o].kids) > SmallArray
  BY DEF deferred_sweep
<1>5. ASSUME NEW o \in WithArray PROVE o \in final_free
  <2>1. o \in Nodes /\ Len(cells[o].kids) > SmallArray
    BY DEF WithArray
  <2>2. cells[o].kids # <<>>
    <3>1. SmallArray \in Nat /\ Len(<<>>) = 0
      BY SizeAssumption
    <3> QED
      BY <2>1, <3>1
  <2>3. IsNode(o, h) /\ ~Marked(h, o)
    BY <1>1, <1>2, <2>1, <2>2 DEF CellInv, MarkedIn, IsNode
  <2>4. SegmentOf(o) <= Len(h.segs)
    BY <1>2, <2>3, SegmentNumbers DEF IsNode
  <2> QED
    BY <1>3, <2>1, <2>3, <2>4 DEF Marked
<1> QED
  BY <1>3, <1>4, <1>5 DEF WithArray

LEMMA NoArray == ASSUME \A o \in Nodes : cells[o].kids = <<>> PROVE WithArray = {} /\ Cardinality(WithArray) = 0
<1>1. Len(<<>>) = 0 /\ SmallArray \in Nat
  BY SizeAssumption
<1>2. WithArray = {}
  BY <1>1 DEF WithArray
<1> QED
  BY <1>2, FS_EmptySet

LEMMA ResetNodesStep == ASSUME IInv, ResetNodes PROVE IInv' /\ CollectorStep
<1>1. /\ phase = "reset" /\ phase' = "bare" /\ heap' = [HeapManager_init EXCEPT !.ok = heap.ok]
      /\ arrays' = arrays - Cardinality({o \in final_free : deferred_sweep(o) = 1})
      /\ cells' = [o \in Nodes |-> Blank] /\ gc' = [gc EXCEPT !.slots = MarkSlots] /\ roots' = FALSE
      /\ UNCHANGED <<log, memo, build, before>>
  BY DEF ResetNodes
<1>2. /\ gc.mode = "run" /\ gc.stack = <<>> /\ Mode = "run" /\ heap.ok \in BOOLEAN /\ build = Idle
      /\ log = <<>> /\ \A s \in Slots : memo[s] = Null
  <2>1. gc.mode = "run" /\ build = Idle /\ log = <<>> /\ \A s \in Slots : memo[s] = Null
    BY <1>1 DEF IInv, PhaseInv
  <2>2. HeapExact(heap) /\ gc.stack = <<>> /\ Mode = "run"
    BY <2>1, PointerIsReady
  <2> QED
    BY <2>1, <2>2 DEF HeapExact, Heaps
<1>3. HeapExact(heap') /\ PointerReady(heap') /\ MarkedIn(heap') = {}
  BY <1>1, <1>2, NewHeap
<1>4. gc'.mode = "run" /\ gc'.stack = <<>> /\ gc'.slots = MarkSlots /\ MarkSlots \in Nat \ {0}
  BY <1>1, <1>2, GcFields, SizeAssumption
<1>5. GcInv'
  <2>1. MarkInv(State')
    BY <1>3, <1>4, EmptyStack DEF State
  <2>2. gc' \in [mode : {"run", "mark", "retry"}, stack : Seq(Nodes), slots : Nat \ {0}]
    BY <1>1, <1>4, GcFields
  <2> QED
    BY <1>3, <1>4, <2>1, <2>2 DEF GcInv
<1>6. \A o \in Nodes : cells'[o].kids = <<>> /\ ToSet(cells'[o].kids) = {}
  BY <1>1, BlankCells
<1>7. CellInv'
  BY <1>1, <1>6, BlankCells DEF CellInv
<1>8. LogInv' /\ MemoInv' /\ BuildInv'
  BY <1>1, <1>2 DEF IInv, LogInv, MemoInv, BuildInv, LinksOf
<1>9. PhaseInv'
  BY <1>1, <1>2, <1>4 DEF IInv, PhaseInv
<1>10. ArraysExact'
  <2>1. arrays = Cardinality(WithArray) /\ IsFiniteSet(WithArray)
    BY NodesAreNumbers, FS_Subset DEF IInv, ArraysExact, WithArray
  <2>2. Cardinality(WithArray) \in Nat
    BY <2>1, FS_CardinalityType
  <2>3. arrays' = 0
    BY <1>1, <2>1, <2>2, AllFreed
  <2>4. Len(<<>>) = 0 /\ SmallArray \in Nat
    BY SizeAssumption
  <2>5. WithArray' = {}
    BY <1>6, <2>4 DEF WithArray
  <2> QED
    BY <2>3, <2>5, FS_EmptySet DEF ArraysExact
<1>11. RootsExact /\ RootsExact'
  BY <1>8, <1>9, RootsChange
<1>12. Roots = {} /\ Roots' = {}
  BY <1>1, <1>11, NothingHeld DEF IInv, RootsExact, Roots
<1>13. MarkedNodes' = {} /\ Kids' = [n \in Nodes |-> {}] /\ ToSet(gc.stack)' = ToSet(gc.stack) /\ Mode' = Mode
  <2>1. (MarkedNodes = MarkedIn(heap) \cap Nodes)'
    BY MarkedNodesAre, PTL
  <2> QED
    BY <1>2, <1>3, <1>4, <1>6, <2>1 DEF Kids, Mode
<1>14. Collector!Reset
  BY <1>2, <1>12, <1>13 DEF Collector!Reset, Roots, Kids, Mode
<1> QED
  BY <1>5, <1>7, <1>8, <1>9, <1>10, <1>14 DEF IInv, CollectorStep, Collector!Next

LEMMA InitHolds == Init => IInv /\ Collector!Init
<1> SUFFICES ASSUME Init PROVE IInv /\ Collector!Init
  OBVIOUS
<1>1. heap = HeapManager_init
  BY DEF Init
<1>2. HeapExact(heap) /\ PointerReady(heap) /\ MarkedIn(heap) = {}
  BY <1>1, NewHeap
<1>3. GcInv
  <2>1. MarkInv(State)
    BY <1>2, EmptyStack, SizeAssumption DEF State, Init
  <2>2. gc \in [mode : {"run", "mark", "retry"}, stack : Seq(Nodes), slots : Nat \ {0}] /\ gc.stack = <<>>
    BY SizeAssumption DEF Init
  <2> QED
    BY <1>2, <2>1, <2>2 DEF GcInv
<1>4. \A o \in Nodes : cells[o].kids = <<>> /\ ToSet(cells[o].kids) = {}
  BY BlankCells DEF Init
<1>5. CellInv
  BY <1>4, BlankCells DEF CellInv, Init
<1>6. LogInv /\ MemoInv /\ BuildInv /\ PhaseInv
  BY DEF Init, LogInv, MemoInv, BuildInv, PhaseInv, LinksOf, Null
<1>7. ArraysExact
  BY <1>4, NoArray DEF ArraysExact, Init
<1>8. Roots = {}
  <2>1. RootsExact
    BY <1>6, RootsAre DEF PhaseInv
  <2>2. Holding(log, memo) = {}
    BY DEF Holding, Init, LinksOf
  <2> QED
    BY <2>1, <2>2 DEF RootsExact, Roots, Init
<1>9. MarkedNodes = {} /\ Kids = [n \in Nodes |-> {}] /\ ToSet(gc.stack) = {} /\ Mode = "run"
  <2>1. ToSet(<<>>) = {}
    BY DEF ToSet
  <2> QED
    BY <1>2, <1>4, <2>1, MarkedNodesAre DEF Kids, Mode, Init
<1>10. Collector!Init
  BY <1>8, <1>9 DEF Collector!Init, Roots, Kids, Mode
<1> QED
  BY <1>3, <1>5, <1>6, <1>7, <1>10 DEF IInv

-----------------------------------------------------------------------------
(***************************************************************************)
(* The theorems.                                                           *)
(***************************************************************************)
LEMMA NextStep == IInv /\ [Next]_vars => IInv' /\ CollectorStep
<1> SUFFICES ASSUME IInv, [Next]_vars PROVE IInv' /\ CollectorStep
  OBVIOUS
<1>1. CASE UNCHANGED vars
  <2>1. UNCHANGED <<heap, cells, arrays, gc, roots, log, memo, phase, build>>
    BY <1>1 DEF vars
  <2>2. LogInv' /\ MemoInv' /\ CellInv' /\ BuildInv' /\ ArraysExact'
    BY <2>1 DEF IInv, LogInv, MemoInv, CellInv, BuildInv, Held, ArraysExact, WithArray
  <2>3. GcInv' /\ PhaseInv'
    BY <2>1 DEF IInv, GcInv, State, PhaseInv
  <2> QED
    BY <2>1, <2>2, <2>3, StutterStep DEF IInv
<1>2. CASE Client
  BY <1>2, LogStep, RollbackStep, LookupStep, RememberStep, CommitStep, GetParsedStep, Reset1Step, ResetNodesStep,
     Reset2Step DEF Client
<1>3. CASE Work
  BY <1>3, AllocStep, MarkOneStep, SweepStep DEF Work
<1> QED
  BY <1>1, <1>2, <1>3 DEF Next

LEMMA IInvHolds == Spec => []IInv
<1>1. Init => IInv
  BY InitHolds
<1>2. IInv /\ [Next]_vars => IInv'
  BY NextStep
<1> QED
  BY <1>1, <1>2, PTL DEF Spec

\* The counts of the segments, level 1 of their bitmaps and the pointer are what
\* the bits of the blocks say, through every search, expansion and collection
\* (tryAlloc, mark_mstack and bmgc_gc_sweep of gc.c).
THEOREM BitmapsAreExact == Spec => []BitmapsExact
<1>1. IInv => BitmapsExact
  <2> SUFFICES ASSUME IInv PROVE BitmapsExact
    OBVIOUS
  <2>1. HeapExact(heap)
    BY DEF IInv, GcInv, MarkInv, State
  <2>2. CountsExact
    <3> SUFFICES ASSUME NEW s \in DOMAIN heap.segs
                 PROVE  LET seg == heap.segs[s]
                        IN  /\ {0} \cup NoBlock \subseteq seg.bm0 /\ seg.live = Cardinality(seg.bm0 \ ({0} \cup NoBlock))
                            /\ \A w \in seg.bm1 : w < Words => WordFull(seg.bm0, w)
      BY DEF CountsExact, Segs
    <3>1. SegExact(heap.segs[s])
      BY <2>1, LastBits
    <3> QED
      BY <3>1 DEF SegExact, Level1Exact, Fixed
  <2>3. PointerExact
    <3> SUFFICES ASSUME ~isMarked(heap), gc.mode = "run"
                 PROVE  heap.p.block = Address(heap.p.seg, heap.p.idx * Bits + heap.p.mask)
      BY DEF PointerExact
    <3>1. PointerReady(heap)
      BY PointerIsReady
    <3> QED
      BY <3>1 DEF PointerReady, isMarked, Standing, Pointing, Bit
  <2> QED
    BY <2>2, <2>3 DEF BitmapsExact
<1> QED
  BY <1>1, IInvHolds, PTL

\* Every array of children belongs to one block: deferred_sweep frees it when the
\* block is used again, or HeapManager_final_free with the manager.
THEOREM ArraysAreExact == Spec => []ArraysExact
<1>1. IInv => ArraysExact
  BY DEF IInv
<1> QED
  BY <1>1, IInvHolds, PTL

\* Segments, bitmaps and the mark stack implement the sets of MarkSweep: every
\* step of the AST machine, of its allocations and of its collections is one of
\* the collector, or none.
THEOREM SweepImplementsCollector == Spec => Collector!Safety
<1>1. Init => Collector!Init
  BY InitHolds
<1>2. IInv /\ [Next]_vars => [Collector!Next]_(Collector!vars)
  BY NextStep DEF CollectorStep
<1> QED
  BY <1>1, <1>2, IInvHolds, PTL DEF Spec, Collector!Safety

Promised == INSTANCE MarkSweepProofs WITH
    Node   <- Nodes,
    roots  <- ToSet(RootNodes),
    kids   <- [o \in Nodes |-> ToSet(cells[o].kids) \ {Null}],
    marked <- MarkedNodes,
    grey   <- ToSet(gc.stack),
    mode   <- IF gc.mode = "mark" THEN "mark" ELSE "run"

LEMMA SweepKeepsPromise == Spec => Promised!Safety
<1>1. Collector!Init => Promised!Init
  BY DEF Collector!Init, Promised!Init
<1>2. [Collector!Next]_(Collector!vars) => [Promised!Next]_(Promised!vars)
  BY Zenon DEF Collector!Next, Promised!Next, Collector!vars, Promised!vars, Collector!Drop, Promised!Drop,
     Collector!Start, Promised!Start, Collector!Finish, Promised!Finish, Collector!Reset, Promised!Reset,
     Collector!Alloc, Promised!Alloc, Collector!Mark, Promised!Mark
<1> QED
  BY <1>1, <1>2, SweepImplementsCollector, PTL DEF Promised!Safety, Collector!Safety

\* While the program runs, the bit of every node that the log or the memo table
\* leads to is set, so that tryAlloc (gc.c:951) hands out none of them.
THEOREM ReachableIsMarked == Spec => []Collector!ReachableMarked
<1>1. Promised!ReachableMarked => Collector!ReachableMarked
  BY Zenon DEF Promised!ReachableMarked, Collector!ReachableMarked, Promised!Reachable, Collector!Reachable,
     Promised!Closed, Collector!Closed
<1>2. Promised!Safety => []Promised!ReachableMarked
  BY Promised!ReachableIsMarked
<1> QED
  BY <1>1, <1>2, SweepKeepsPromise, PTL

\* The children of such a node stay what they were, whatever is allocated and
\* collected (bm_malloc_internal, gc.c:1196).
THEOREM ReachableIsKept == Spec => Collector!ReachableKept
<1> DEFINE kids == [o \in Nodes |-> ToSet(cells[o].kids) \ {Null}]
<1>1. [\A n \in Nodes : Promised!Reachable(n) => kids'[n] = kids[n]]_kids
      => [\A n \in Nodes : Collector!Reachable(n) => kids'[n] = kids[n]]_kids
  BY Zenon DEF Promised!Reachable, Collector!Reachable, Promised!Closed, Collector!Closed
<1>2. Promised!Safety => Promised!ReachableKept
  BY Promised!ReachableIsKept
<1> QED
  BY <1>1, <1>2, SweepKeepsPromise, PTL DEF Promised!ReachableKept, Collector!ReachableKept

-----------------------------------------------------------------------------
(***************************************************************************)
(* The assertions of gc.c, for the machine: no child that is visited is    *)
(* NULL.  A commit counts the links of an activation while it scans the    *)
(* log, and collects them in another way when it builds the node; both     *)
(* must come to the same number.                                           *)
(***************************************************************************)
LEMMA VisitedOk ==
    ASSUME NEW g, MarkInv(g), NEW nodes \in Seq(Nat), g.heap.ok,
           \A n \in ToSet(nodes) : n # Null /\ n \in Nodes /\ IsNode(n, g.heap)
    PROVE  Visit(g, nodes).heap.ok /\ \A x : IsNode(x, g.heap) => IsNode(x, Visit(g, nodes).heap)
<1> DEFINE n == Len(nodes)
<1>1. n \in Nat /\ DOMAIN nodes = 1..n /\ \A k \in Nat : 0 < k /\ k <= n => nodes[k] \in Nat /\ nodes[k] \in ToSet(nodes)
  BY DEF ToSet
<1>2. PICK f : /\ f[0] = g /\ Visit(g, nodes) = f[n]
               /\ \A k \in Nat : 0 < k /\ k <= n => f[k] = mark_mstack(f[k - 1], nodes[k])
  BY <1>1, VisitIsFunction
<1> DEFINE Good(k) == MarkInv(f[k]) /\ f[k].heap.ok /\ \A x : IsNode(x, g.heap) => IsNode(x, f[k].heap)
           G       == {k \in Nat : k <= n => Good(k)}
<1>3. 0 \in G
  BY <1>2
<1>4. ASSUME NEW k \in G PROVE k + 1 \in G
  <2> SUFFICES ASSUME k + 1 <= n PROVE Good(k + 1)
    OBVIOUS
  <2> DEFINE m == k + 1
  <2>1. m \in Nat /\ 0 < m /\ m <= n /\ m - 1 = k /\ k \in Nat
    OBVIOUS
  <2>2. Good(k)
    BY <1>1
  <2> HIDE DEF m
  <2> DEFINE o == nodes[m]
             e == f[k]
             r == f[m]
  <2>3. o \in Nat /\ o \in ToSet(nodes) /\ r = mark_mstack(e, o)
    BY <1>1, <1>2, <2>1
  <2>4. MarkInv(e) /\ e.heap.ok /\ o # Null /\ o \in Nodes /\ IsNode(o, e.heap)
    BY <2>2, <2>3
  <2>5. \A x : IsNode(x, g.heap) => IsNode(x, e.heap)
    BY <2>2
  <2> HIDE DEF o, e, r
  <2>6. MarkStep(e, r, {o} \ {Null})
    BY <2>3, <2>4, MarkedOne
  <2>7. r.heap.ok
    <3>1. CASE Marked(e.heap, o)
      BY <2>3, <2>4, <3>1 DEF mark_mstack
    <3>2. CASE ~Marked(e.heap, o)
      <4> DEFINE h == SetMark(e.heap, o)
                 d == [e EXCEPT !.heap = h]
      <4>1. r = mstack_push(d, o)
        BY <2>3, <2>4, <3>2 DEF mark_mstack
      <4>2. e \in Marking /\ HeapExact(e.heap) /\ Len(e.stack) < e.slots
        BY <2>4 DEF MarkInv
      <4>3. HeapExact(h) /\ h.ok
        BY <2>4, <3>2, <4>2, MarkIsSet, MarkedOk
      <4> HIDE DEF h
      <4>4. d \in Marking /\ d.heap = h /\ d.stack = e.stack /\ d.slots = e.slots
        BY <4>2, <4>3 DEF Marking, HeapExact
      <4> HIDE DEF d
      <4>5. r.heap = h
        BY <2>4, <4>1, <4>2, <4>4, Pushed
      <4> QED
        BY <4>3, <4>5
    <3> QED
      BY <3>1, <3>2
  <2> QED
    BY <2>5, <2>6, <2>7 DEF MarkStep, m, r
<1>5. n \in G
  <2>1. G \in SUBSET Nat
    OBVIOUS
  <2>2. G = Nat
    <3> HIDE DEF G
    <3> QED
      BY <1>3, <1>4, <2>1, InductionInSet
  <2> HIDE DEF G
  <2> QED
    BY <1>1, <2>2
<1> QED
  BY <1>1, <1>2, <1>5

\* A Link of the log made from a Push spans the entries up to its Pop.  None
\* that begins before entry k reaches it.
Past(lg, k) == \A i \in LinksOf(lg) : i < k => i + lg[i].shift < k

\* No Link from entry `from' on spans entry j.
Shown(lg, from, j) == \A i \in LinksOf(lg) : from <= i /\ i < j => i + lg[i].shift < j

\* Activation d has counted links that it will find: they are not spanned by
\* others, and lie before the Push of any inner activation.
Counted(lg, cs, d, k) ==
    \E S : /\ IsFiniteSet(S) /\ Cardinality(S) = cs[d].size /\ S \subseteq LinksOf(lg)
           /\ \A j \in S : /\ cs[d].head <= j /\ j < k /\ Shown(lg, cs[d].head, j)
                           /\ \A e \in DOMAIN cs : d < e => j < cs[e].push

\* The activations of a build before entry k; the log up to tx is not scanned.
Activated(lg, cs, k, tx) ==
    /\ \A d \in DOMAIN cs : Counted(lg, cs, d, k)
    /\ \A d \in DOMAIN cs : tx < cs[d].head /\ cs[d].head <= k
    /\ \A d \in DOMAIN cs : d > 1 => cs[d].push < cs[d].head /\ Past(lg, cs[d].push)
    /\ \A d \in DOMAIN cs, e \in DOMAIN cs : d < e => cs[d].head <= cs[e].push
    /\ Past(lg, k)
    /\ \A j \in LinksOf(lg) : j <= tx \/ j >= k => lg[j].shift = 0

\* Two logs with the same links before entry k.
Agree(lg, new, k) ==
    \A j \in Nat : j < k => /\ j \in LinksOf(new) <=> j \in LinksOf(lg)
                            /\ j \in LinksOf(lg) => new[j].shift = lg[j].shift

LEMMA AgreeShown ==
    ASSUME NEW lg \in Seq(Entries), NEW new \in Seq(Entries), NEW k \in Nat, Agree(lg, new, k), NEW j \in Nat, j <= k
    PROVE  /\ Past(lg, j) => Past(new, j)
           /\ \A from \in Nat : Shown(lg, from, j) => Shown(new, from, j)
<1>1. \A i \in LinksOf(new) : i \in Nat
  BY DEF LinksOf
<1>2. \A i \in LinksOf(new) : i < j => i \in LinksOf(lg) /\ new[i].shift = lg[i].shift
  BY <1>1 DEF Agree
<1> QED
  BY <1>2 DEF Past, Shown

LEMMA Shifts ==
    ASSUME NEW lg \in Seq(Entries)
    PROVE  \A j \in LinksOf(lg) : j \in Nat /\ 1 <= j /\ j <= Len(lg) /\ lg[j].shift \in Int
<1> SUFFICES ASSUME NEW j \in LinksOf(lg) PROVE j \in Nat /\ 1 <= j /\ j <= Len(lg) /\ lg[j].shift \in Int
  OBVIOUS
<1>1. j \in DOMAIN lg /\ lg[j] \in Entries
  BY DEF LinksOf
<1> QED
  BY <1>1 DEF Entries

LEMMA ActivationFields ==
    ASSUME NEW V, NEW cs \in Activations(V)
    PROVE  /\ Len(cs) \in Nat /\ 1 <= Len(cs) /\ DOMAIN cs = 1..Len(cs)
           /\ \A d \in DOMAIN cs : d \in Nat /\ cs[d].head \in Nat /\ cs[d].push \in Nat /\ cs[d].size \in Nat
<1> DEFINE T == Contexts(V)
<1>1. cs \in Seq(T) /\ cs # <<>>
  BY DEF Activations
<1> HIDE DEF T
<1>2. Len(cs) \in Nat /\ DOMAIN cs = 1..Len(cs) /\ Len(cs) # 0 /\ \A d \in DOMAIN cs : cs[d] \in T
  BY <1>1
<1> QED
  BY <1>2 DEF T, Contexts

\* The innermost activation scans an entry, which may become a link.
LEMMA ScannedEntry ==
    ASSUME NEW V, NEW cs \in Activations(V), NEW W, NEW new \in Activations(W), NEW c,
           new = [cs EXCEPT ![Len(cs)] = c],
           NEW lg \in Seq(Entries), NEW after \in Seq(Entries), NEW k \in Nat, NEW tx \in Nat,
           Activated(lg, cs, k, tx), Agree(lg, after, k), \A j \in LinksOf(after) : j >= k => after[j].shift = 0,
           c.push = cs[Len(cs)].push, c.head \in Nat, cs[Len(cs)].head <= c.head, c.head <= k + 1,
           Counted(after, new, Len(cs), k + 1)
    PROVE  Activated(after, new, k + 1, tx)
<1> DEFINE n == Len(cs)
<1>0. n \in Nat /\ 1 <= n /\ DOMAIN cs = 1..n /\ new = [cs EXCEPT ![n] = c]
  BY ActivationFields
<1>1. /\ n \in Nat /\ 1 <= n /\ DOMAIN cs = 1..n /\ DOMAIN new = DOMAIN cs
      /\ \A d \in DOMAIN cs : d \in Nat /\ cs[d].head \in Nat /\ cs[d].push \in Nat
      /\ n \in DOMAIN cs /\ new[n] = c
      /\ \A d \in DOMAIN cs : d # n => new[d] = cs[d] /\ d < n
  <2>1. \A d \in DOMAIN cs : d \in Nat /\ cs[d].head \in Nat /\ cs[d].push \in Nat
    BY ActivationFields
  <2> HIDE DEF n
  <2>2. n \in DOMAIN cs
    BY <1>0
  <2> QED
    BY <1>0, <2>1, <2>2
<1> HIDE DEF n
<1>2. \A d \in DOMAIN cs : new[d].push = cs[d].push /\ new[d].head \in Nat /\ cs[d].head <= new[d].head
  BY <1>1 DEF n
<1>3. \A j \in LinksOf(after) : j \in Nat /\ after[j].shift \in Int
  BY Shifts
<1>4. \A j \in Nat : j <= k => /\ Past(lg, j) => Past(after, j)
                               /\ \A from \in Nat : Shown(lg, from, j) => Shown(after, from, j)
  BY AgreeShown
<1>5. ASSUME NEW d \in DOMAIN cs PROVE Counted(after, new, d, k + 1)
  <2>1. CASE d = n
    BY <2>1 DEF n
  <2>2. CASE d # n
    <3>1. new[d] = cs[d] /\ cs[d].head \in Nat
      BY <1>1, <2>2
    <3>2. PICK S : /\ IsFiniteSet(S) /\ Cardinality(S) = cs[d].size /\ S \subseteq LinksOf(lg)
                   /\ \A j \in S : /\ cs[d].head <= j /\ j < k /\ Shown(lg, cs[d].head, j)
                                   /\ \A e \in DOMAIN cs : d < e => j < cs[e].push
      BY DEF Activated, Counted
    <3>3. \A j \in S : j \in Nat
      BY <3>2, Shifts
    <3>4. S \subseteq LinksOf(after)
      BY <3>2, <3>3 DEF Agree
    <3>5. \A j \in S : j < k + 1 /\ Shown(after, cs[d].head, j)
      BY <1>4, <3>1, <3>2, <3>3
    <3>6. \A j \in S : \A e \in DOMAIN new : d < e => j < new[e].push
      BY <1>1, <1>2, <3>2
    <3> QED
      BY <3>1, <3>2, <3>4, <3>5, <3>6 DEF Counted
  <2> QED
    BY <2>1, <2>2
<1>6. \A d \in DOMAIN new : tx < new[d].head /\ new[d].head <= k + 1
  <2> TAKE d \in DOMAIN new
  <2>1. tx < cs[d].head /\ cs[d].head <= k /\ cs[d].head \in Nat
    BY <1>1 DEF Activated
  <2>2. CASE d = n
    BY <1>1, <1>2, <2>1, <2>2
  <2>3. CASE d # n
    BY <1>1, <2>1, <2>3
  <2> QED
    BY <2>2, <2>3
<1>7. ASSUME NEW d \in DOMAIN new, d > 1 PROVE new[d].push < new[d].head /\ Past(after, new[d].push)
  <2>1. cs[d].push < cs[d].head /\ Past(lg, cs[d].push) /\ cs[d].head <= k
    BY <1>1, <1>7 DEF Activated
  <2>2. cs[d].push \in Nat /\ cs[d].head \in Nat /\ cs[d].push <= k
    BY <1>1, <2>1
  <2> QED
    BY <1>1, <1>2, <1>4, <2>1, <2>2
<1>8. ASSUME NEW d \in DOMAIN new, NEW e \in DOMAIN new, d < e PROVE new[d].head <= new[e].push
  <2>1. d # n
    BY <1>1, <1>8
  <2> QED
    BY <1>1, <1>2, <1>8, <2>1 DEF Activated
<1>9. Past(after, k + 1)
  <2>1. Past(after, k)
    BY <1>4 DEF Activated
  <2>2. ASSUME NEW i \in LinksOf(after), i < k + 1 PROVE i + after[i].shift < k + 1
    <3>1. i \in Nat /\ after[i].shift \in Int
      BY <1>3
    <3> DEFINE shift == after[i].shift
    <3>2. CASE i < k
      <4>1. i + shift < k
        BY <2>1, <3>2 DEF Past
      <4> HIDE DEF shift
      <4>2. i + shift < k + 1
        BY <3>1, <4>1 DEF shift
      <4> QED
        BY <4>2 DEF shift
    <3>3. CASE i = k
      <4>1. i >= k
        BY <3>3
      <4>2. shift = 0
        BY <4>1
      <4> HIDE DEF shift
      <4>3. i + shift < k + 1
        BY <3>3, <4>2
      <4> QED
        BY <4>3 DEF shift
    <3> QED
      BY <2>2, <3>1, <3>2, <3>3
  <2> QED
    BY <2>2 DEF Past
<1>10. ASSUME NEW j \in LinksOf(after), j <= tx \/ j >= k + 1 PROVE after[j].shift = 0
  <2>1. j \in Nat
    BY <1>3
  <2>2. CASE j >= k + 1
    BY <2>1, <2>2
  <2>3. CASE j <= tx
    <3>1. j < k
      BY <1>1, <2>1, <2>3 DEF Activated
    <3>2. j \in LinksOf(lg) /\ after[j].shift = lg[j].shift
      BY <2>1, <3>1 DEF Agree
    <3> QED
      BY <2>3, <3>2 DEF Activated
  <2> QED
    BY <1>10, <2>2, <2>3
<1> QED
  BY <1>1, <1>5, <1>6, <1>7, <1>8, <1>9, <1>10 DEF Activated

\* A Push opens an activation behind it.
LEMMA OpenedEntry ==
    ASSUME NEW V, NEW cs \in Activations(V), NEW W, NEW new \in Activations(W), NEW c, new = Append(cs, c),
           NEW lg \in Seq(Entries), NEW k \in Nat, NEW tx \in Nat, Activated(lg, cs, k, tx),
           lg[k].type # "Link", c.push = k, c.head = k + 1, c.size = 0
    PROVE  Activated(lg, new, k + 1, tx)
<1> DEFINE n == Len(cs)
<1>1. /\ n \in Nat /\ 1 <= n /\ DOMAIN cs = 1..n /\ DOMAIN new = 1..(n + 1)
      /\ \A d \in DOMAIN cs : d \in Nat /\ cs[d].head \in Nat /\ cs[d].push \in Nat
      /\ new[n + 1] = c /\ \A d \in DOMAIN cs : new[d] = cs[d] /\ d <= n
  <2>1. n \in Nat /\ 1 <= n /\ \A d \in DOMAIN cs : d \in Nat /\ cs[d].head \in Nat /\ cs[d].push \in Nat
    BY ActivationFields
  <2>2. cs \in Seq(Contexts(V))
    BY DEF Activations
  <2> QED
    BY <2>1, <2>2
<1> HIDE DEF n
<1>2. \A d \in DOMAIN new : d = n + 1 \/ d \in DOMAIN cs
  BY <1>1
<1>3. \A j \in LinksOf(lg) : j \in Nat /\ lg[j].shift \in Int /\ j # k
  BY Shifts DEF LinksOf
<1>4. \A d \in DOMAIN cs : cs[d].head <= k /\ tx < cs[d].head
  BY DEF Activated
<1>5. ASSUME NEW d \in DOMAIN new PROVE Counted(lg, new, d, k + 1)
  <2>1. CASE d = n + 1
    <3>1. IsFiniteSet({}) /\ Cardinality({}) = 0
      BY FS_EmptySet
    <3> QED
      BY <1>1, <2>1, <3>1 DEF Counted
  <2>2. CASE d \in DOMAIN cs
    <3>1. new[d] = cs[d]
      BY <1>1, <2>2
    <3>2. PICK S : /\ IsFiniteSet(S) /\ Cardinality(S) = cs[d].size /\ S \subseteq LinksOf(lg)
                   /\ \A j \in S : /\ cs[d].head <= j /\ j < k /\ Shown(lg, cs[d].head, j)
                                   /\ \A e \in DOMAIN cs : d < e => j < cs[e].push
      BY <2>2 DEF Activated, Counted
    <3>3. \A j \in S : j < k + 1
      BY <1>3, <3>2
    <3>4. \A j \in S : \A e \in DOMAIN new : d < e => j < new[e].push
      <4> TAKE j \in S
      <4> TAKE e \in DOMAIN new
      <4>1. CASE e = n + 1
        BY <1>1, <3>2, <4>1
      <4>2. CASE e \in DOMAIN cs
        BY <1>1, <3>2, <4>2
      <4> QED
        BY <1>2, <4>1, <4>2
    <3> QED
      BY <3>1, <3>2, <3>3, <3>4 DEF Counted
  <2> QED
    BY <1>2, <2>1, <2>2
<1>6. ASSUME NEW d \in DOMAIN new PROVE tx < new[d].head /\ new[d].head <= k + 1
  <2>1. tx < k + 1
    BY <1>1, <1>4
  <2>2. CASE d = n + 1
    BY <1>1, <2>1, <2>2
  <2>3. CASE d \in DOMAIN cs
    BY <1>1, <1>4, <2>3
  <2> QED
    BY <1>2, <2>2, <2>3
<1>7. ASSUME NEW d \in DOMAIN new, d > 1 PROVE new[d].push < new[d].head /\ Past(lg, new[d].push)
  <2>1. CASE d = n + 1
    BY <1>1, <2>1 DEF Activated
  <2>2. CASE d \in DOMAIN cs
    BY <1>1, <1>7, <2>2 DEF Activated
  <2> QED
    BY <1>2, <2>1, <2>2
<1>8. ASSUME NEW d \in DOMAIN new, NEW e \in DOMAIN new, d < e PROVE new[d].head <= new[e].push
  <2>1. d \in DOMAIN cs
    BY <1>1, <1>2, <1>8
  <2>2. CASE e = n + 1
    BY <1>1, <1>4, <2>1, <2>2
  <2>3. CASE e \in DOMAIN cs
    BY <1>1, <1>8, <2>1, <2>3 DEF Activated
  <2> QED
    BY <1>2, <2>2, <2>3
<1>9. Past(lg, k + 1)
  <2>1. ASSUME NEW i \in LinksOf(lg), i < k + 1 PROVE i + lg[i].shift < k + 1
    <3> DEFINE shift == lg[i].shift
    <3>1. i \in Nat /\ shift \in Int /\ i < k
      BY <1>3, <2>1
    <3>2. i + shift < k
      BY <3>1 DEF Activated, Past
    <3> HIDE DEF shift
    <3>3. i + shift < k + 1
      BY <3>1, <3>2
    <3> QED
      BY <3>3 DEF shift
  <2> QED
    BY <2>1 DEF Past
<1>10. \A j \in LinksOf(lg) : j <= tx \/ j >= k + 1 => lg[j].shift = 0
  BY <1>3 DEF Activated
<1> QED
  BY <1>5, <1>6, <1>7, <1>8, <1>9, <1>10 DEF Activated

\* A log in which entry q has become a Link.
Relinked(lg, new, q, shift) ==
    /\ DOMAIN new = DOMAIN lg /\ \A j \in DOMAIN lg : j # q => new[j] = lg[j]
    /\ q \in DOMAIN lg => new[q].type = "Link" /\ new[q].shift = shift

\* The innermost activation is over, and is one more child of the one around.
Closed(cs, new) ==
    LET n == Len(cs)
    IN  /\ n > 1 /\ Len(new) = n - 1 /\ \A d \in 1..n-1 : d # n - 1 => new[d] = cs[d]
        /\ new[n - 1].head = cs[n - 1].head /\ new[n - 1].push = cs[n - 1].push
        /\ new[n - 1].size = cs[n - 1].size + 1

\* A Pop makes a Link of the Push, which is one more for the activation around.
LEMMA ClosedEntry ==
    ASSUME NEW V, NEW cs \in Activations(V), NEW W, NEW new \in Activations(W), Closed(cs, new),
           NEW lg \in Seq(Entries), NEW after \in Seq(Entries), NEW k \in DOMAIN lg, NEW tx \in Nat,
           Activated(lg, cs, k, tx), lg[k].type # "Link",
           Relinked(lg, after, cs[Len(cs)].push, k - cs[Len(cs)].push)
    PROVE  Activated(after, new, k + 1, tx)
<1> DEFINE n == Len(cs)
           q == cs[n].push
<1>0. /\ n = Len(cs) /\ q = cs[n].push
      /\ n > 1 /\ Len(new) = n - 1 /\ \A d \in 1..n-1 : d # n - 1 => new[d] = cs[d]
      /\ new[n - 1].head = cs[n - 1].head /\ new[n - 1].push = cs[n - 1].push
      /\ new[n - 1].size = cs[n - 1].size + 1
      /\ DOMAIN after = DOMAIN lg /\ \A j \in DOMAIN lg : j # q => after[j] = lg[j]
      /\ q \in DOMAIN lg => after[q].type = "Link" /\ after[q].shift = k - q
  BY DEF Closed, Relinked
<1> USE <1>0
<1> HIDE DEF n, q
<1>1. /\ n \in Nat /\ DOMAIN cs = 1..n /\ n \in DOMAIN cs /\ n - 1 \in DOMAIN cs /\ n - 1 \in Nat /\ 1 <= n - 1
      /\ DOMAIN new = 1..n-1 /\ n - 1 \in DOMAIN new
  BY ActivationFields
<1>2. \A d \in DOMAIN cs : d \in Nat /\ cs[d].head \in Nat /\ cs[d].push \in Nat /\ cs[d].size \in Nat
  BY ActivationFields
<1>3. \A d \in DOMAIN new : d \in DOMAIN cs /\ d < n /\ new[d].head = cs[d].head /\ new[d].push = cs[d].push
  BY <1>1
<1>4. k \in Nat /\ 1 <= k /\ k <= Len(lg) /\ DOMAIN lg = 1..Len(lg) /\ Len(lg) \in Nat
  OBVIOUS
<1>5. q \in Nat /\ q < k /\ Past(lg, q) /\ tx < q /\ cs[n - 1].head <= q
  <2>1. cs[n].push < cs[n].head /\ Past(lg, cs[n].push) /\ cs[n].head <= k
    BY <1>1 DEF Activated
  <2>2. tx < cs[n - 1].head /\ cs[n - 1].head <= cs[n].push
    BY <1>1 DEF Activated
  <2>3. q \in Nat /\ cs[n].head \in Nat /\ cs[n - 1].head \in Nat
    BY <1>1, <1>2
  <2> QED
    BY <1>4, <2>1, <2>2, <2>3
<1>6. q \in DOMAIN lg /\ q \in LinksOf(after) /\ after[q].shift = k - q
  <2>1. q \in DOMAIN lg
    BY <1>4, <1>5
  <2> QED
    BY <2>1 DEF LinksOf
<1>7. \A j : j # q => /\ j \in LinksOf(after) <=> j \in LinksOf(lg)
                      /\ j \in LinksOf(lg) => after[j].shift = lg[j].shift
  BY DEF LinksOf
<1>8. Agree(lg, after, q)
  BY <1>5, <1>7 DEF Agree
<1>9. \A j \in Nat : j <= q => /\ Past(lg, j) => Past(after, j)
                               /\ \A from \in Nat : Shown(lg, from, j) => Shown(after, from, j)
  BY <1>5, <1>8, AgreeShown
<1>10. \A j \in LinksOf(lg) : j \in Nat /\ lg[j].shift \in Int /\ j # k
  BY Shifts DEF LinksOf
<1>11. ASSUME NEW d \in DOMAIN new PROVE Counted(after, new, d, k + 1)
  <2>1. d \in DOMAIN cs /\ d < n /\ new[d].head = cs[d].head /\ cs[d].head \in Nat /\ cs[d].size \in Nat
    BY <1>2, <1>3
  <2>2. PICK S : /\ IsFiniteSet(S) /\ Cardinality(S) = cs[d].size /\ S \subseteq LinksOf(lg)
                 /\ \A j \in S : /\ cs[d].head <= j /\ j < k /\ Shown(lg, cs[d].head, j)
                                 /\ \A e \in DOMAIN cs : d < e => j < cs[e].push
    BY <2>1 DEF Activated, Counted
  <2>3. \A j \in S : j \in Nat /\ j < q /\ j < k + 1
    BY <1>1, <1>4, <1>10, <2>1, <2>2
  <2>4. \A j \in S : Shown(after, cs[d].head, j)
    BY <1>9, <2>1, <2>2, <2>3
  <2>5. S \subseteq LinksOf(after)
    BY <1>7, <2>2, <2>3
  <2>6. \A j \in S : \A e \in DOMAIN new : d < e => j < new[e].push
    BY <1>3, <2>2
  <2>7. CASE d # n - 1
    <3>1. new[d].size = cs[d].size
      BY <1>1, <2>7
    <3> QED
      BY <2>1, <2>2, <2>3, <2>4, <2>5, <2>6, <3>1 DEF Counted
  <2>8. CASE d = n - 1
    <3> DEFINE T == S \cup {q}
    <3>1. q \notin S
      BY <1>5, <2>3
    <3>2. IsFiniteSet(T) /\ Cardinality(T) = new[d].size
      <4>1. IsFiniteSet(T) /\ Cardinality(T) = Cardinality(S) + 1
        BY <2>2, <3>1, FS_AddElement
      <4>2. new[d].size = cs[d].size + 1
        BY <2>8
      <4> QED
        BY <2>2, <4>1, <4>2
    <3>3. Shown(after, cs[d].head, q)
      <4>1. Past(after, q)
        BY <1>5, <1>9
      <4> QED
        BY <4>1 DEF Past, Shown
    <3>4. cs[d].head <= q /\ q < k + 1
      BY <1>4, <1>5, <2>8
    <3>5. \A e \in DOMAIN new : ~ (d < e)
      BY <1>1, <2>8
    <3>6. T \subseteq LinksOf(after)
      BY <1>6, <2>5
    <3>7. \A j \in T : /\ cs[d].head <= j /\ j < k + 1 /\ Shown(after, cs[d].head, j)
      BY <2>2, <2>3, <2>4, <3>3, <3>4
    <3> HIDE DEF T
    <3> QED
      BY <2>1, <3>2, <3>5, <3>6, <3>7 DEF Counted
  <2> QED
    BY <2>7, <2>8
<1>12. ASSUME NEW d \in DOMAIN new PROVE tx < new[d].head /\ new[d].head <= k + 1
  <2>1. tx < cs[d].head /\ cs[d].head <= k /\ cs[d].head \in Nat
    BY <1>2, <1>3 DEF Activated
  <2> QED
    BY <1>3, <1>4, <2>1
<1>13. ASSUME NEW d \in DOMAIN new, d > 1 PROVE new[d].push < new[d].head /\ Past(after, new[d].push)
  <2>1. cs[d].push < cs[d].head /\ Past(lg, cs[d].push) /\ d \in DOMAIN cs /\ d < n
    BY <1>3, <1>13 DEF Activated
  <2>2. cs[d].head <= q
    BY <1>1, <2>1 DEF Activated
  <2>3. cs[d].push \in Nat /\ cs[d].push <= q
    BY <1>2, <1>5, <2>1, <2>2
  <2> QED
    BY <1>3, <1>9, <2>1, <2>3
<1>14. ASSUME NEW d \in DOMAIN new, NEW e \in DOMAIN new, d < e PROVE new[d].head <= new[e].push
  BY <1>3, <1>14 DEF Activated
<1>15. Past(after, k + 1)
  <2>1. ASSUME NEW i \in LinksOf(after), i < k + 1 PROVE i + after[i].shift < k + 1
    <3>1. CASE i = q
      BY <1>4, <1>5, <1>6, <3>1
    <3>2. CASE i # q
      <4> DEFINE shift == lg[i].shift
      <4>1. i \in LinksOf(lg) /\ after[i].shift = shift
        BY <1>7, <3>2
      <4>2. i \in Nat /\ shift \in Int /\ i < k
        BY <1>4, <1>10, <2>1, <4>1
      <4>3. i + shift < k
        BY <4>1, <4>2 DEF Activated, Past
      <4> HIDE DEF shift
      <4>4. i + shift < k + 1
        BY <1>4, <4>2, <4>3
      <4> QED
        BY <4>1, <4>4
    <3> QED
      BY <3>1, <3>2
  <2> QED
    BY <2>1 DEF Past
<1>16. ASSUME NEW j \in LinksOf(after), j <= tx \/ j >= k + 1 PROVE after[j].shift = 0
  <2>1. j # q
    BY <1>4, <1>5, <1>16
  <2>2. j \in LinksOf(lg) /\ after[j].shift = lg[j].shift /\ j \in Nat
    BY <1>7, <1>10, <2>1
  <2>3. j <= tx \/ j >= k
    BY <1>4, <1>16, <2>2
  <2> QED
    BY <2>2, <2>3 DEF Activated
<1> QED
  BY <1>11, <1>12, <1>13, <1>14, <1>15, <1>16 DEF Activated

\* What an activation has counted stays counted when nothing else is scanned.
LEMMA StillCounted ==
    ASSUME NEW V, NEW cs \in Activations(V), NEW W, NEW new \in Activations(W),
           NEW lg \in Seq(Entries), NEW k \in Nat, NEW tx \in Nat, Activated(lg, cs, k, tx),
           NEW d, d = Len(cs), Len(new) = Len(cs), new[d].head = cs[d].head,
           \/ new[d].size = cs[d].size
           \/ new[d].size = cs[d].size + 1 /\ k \in LinksOf(lg)
    PROVE  Counted(lg, new, d, k + 1)
<1>1. d \in Nat /\ d \in DOMAIN cs /\ DOMAIN new = 1..d /\ cs[d].head \in Nat /\ cs[d].size \in Nat
  BY ActivationFields
<1>2. PICK S : /\ IsFiniteSet(S) /\ Cardinality(S) = cs[d].size /\ S \subseteq LinksOf(lg)
               /\ \A j \in S : /\ cs[d].head <= j /\ j < k /\ Shown(lg, cs[d].head, j)
                               /\ \A e \in DOMAIN cs : d < e => j < cs[e].push
  BY <1>1 DEF Activated, Counted
<1>3. \A j \in S : j \in Nat /\ j < k + 1 /\ j # k
  BY <1>2, Shifts
<1>4. \A e \in DOMAIN new : ~ (d < e)
  BY <1>1
<1>5. CASE new[d].size = cs[d].size
  BY <1>2, <1>3, <1>4, <1>5 DEF Counted
<1>6. CASE new[d].size = cs[d].size + 1 /\ k \in LinksOf(lg)
  <2> DEFINE T == S \cup {k}
  <2>1. k \notin S
    BY <1>3
  <2>2. IsFiniteSet(T) /\ Cardinality(T) = Cardinality(S) + 1
    BY <1>2, <2>1, FS_AddElement
  <2>3. Shown(lg, cs[d].head, k)
    BY DEF Activated, Past, Shown
  <2>4. cs[d].head <= k
    BY <1>1 DEF Activated
  <2>5. T \subseteq LinksOf(lg)
    BY <1>2, <1>6
  <2>6. \A j \in T : cs[d].head <= j /\ j < k + 1 /\ Shown(lg, cs[d].head, j)
    BY <1>2, <1>3, <2>3, <2>4
  <2>7. Cardinality(T) = new[d].size
    BY <1>2, <1>6, <2>2
  <2> HIDE DEF T
  <2> QED
    BY <1>4, <2>2, <2>5, <2>6, <2>7 DEF Counted
<1> QED
  BY <1>5, <1>6

\* The other entries: what they do to the innermost activation.
LEMMA SimpleFields ==
    ASSUME NEW V, NEW cs \in Activations(V), NEW lg \in Seq(Entries), NEW k \in DOMAIN lg,
           lg[k].type \notin {"LeftFold", "Pop", "Push"}
    PROVE  \E c : /\ Simple(lg, cs, k) = [cs EXCEPT ![Len(cs)] = c]
                  /\ c.push = cs[Len(cs)].push
                  /\ \/ c.head = k /\ c.size = 0
                     \/ c.head = cs[Len(cs)].head /\ c.size = cs[Len(cs)].size
                     \/ c.head = cs[Len(cs)].head /\ c.size = cs[Len(cs)].size + 1 /\ k \in LinksOf(lg)
<1> DEFINE x == lg[k]
           d == Len(cs)
           b == cs[d]
<1>1. x.type \in Types
  <2>1. x \in Entries
    OBVIOUS
  <2> QED
    BY <2>1 DEF Entries
<1>2. b \in Contexts(V)
  BY LastActivation
<1>3. CASE x.type = "New"
  <2> DEFINE c == Context(k, x.i, b.push)
  <2>1. Simple(lg, cs, k) = [cs EXCEPT ![d] = c]
    BY <1>3 DEF Simple
  <2>2. c.push = b.push /\ c.head = k /\ c.size = 0
    BY DEF Context
  <2> QED
    BY <2>1, <2>2
<1>4. CASE x.type = "Capture"
  <2> DEFINE c == [b EXCEPT !.epos = x.i]
  <2>1. Simple(lg, cs, k) = [cs EXCEPT ![d] = c]
    BY <1>4 DEF Simple
  <2>2. c.push = b.push /\ c.head = b.head /\ c.size = b.size
    <3> HIDE DEF b
    <3> QED
      BY <1>2 DEF Contexts
  <2> QED
    BY <2>1, <2>2
<1>5. CASE x.type = "Tag"
  <2> DEFINE c == [b EXCEPT !.tag = x.i]
  <2>1. Simple(lg, cs, k) = [cs EXCEPT ![d] = c]
    BY <1>5 DEF Simple
  <2>2. c.push = b.push /\ c.head = b.head /\ c.size = b.size
    <3> HIDE DEF b
    <3> QED
      BY <1>2 DEF Contexts
  <2> QED
    BY <2>1, <2>2
<1>6. CASE x.type = "Replace"
  <2> DEFINE c == [b EXCEPT !.value = x.i]
  <2>1. Simple(lg, cs, k) = [cs EXCEPT ![d] = c]
    BY <1>6 DEF Simple
  <2>2. c.push = b.push /\ c.head = b.head /\ c.size = b.size
    <3> HIDE DEF b
    <3> QED
      BY <1>2 DEF Contexts
  <2> QED
    BY <2>1, <2>2
<1>7. CASE x.type = "Link"
  <2> DEFINE c == [b EXCEPT !.size = b.size + 1]
  <2>1. Simple(lg, cs, k) = [cs EXCEPT ![d] = c]
    BY <1>7 DEF Simple
  <2>2. c.push = b.push /\ c.head = b.head /\ c.size = b.size + 1
    <3> HIDE DEF b
    <3> QED
      BY <1>2 DEF Contexts
  <2>3. k \in LinksOf(lg)
    BY <1>7 DEF LinksOf
  <2> QED
    BY <2>1, <2>2, <2>3
<1> QED
  BY <1>1, <1>3, <1>4, <1>5, <1>6, <1>7 DEF Types

LEMMA SameLength == ASSUME NEW m \in Nat, NEW n \in Nat, 1 <= m, 1 <= n, 1..m = 1..n PROVE m = n
<1>1. m \in 1..n /\ n \in 1..m
  OBVIOUS
<1> QED
  BY <1>1

LEMMA SameDomain ==
    ASSUME NEW V, NEW cs \in Activations(V), NEW W, NEW new \in Activations(W), DOMAIN new = DOMAIN cs
    PROVE  Len(new) = Len(cs)
<1>1. Len(cs) \in Nat /\ 1 <= Len(cs) /\ DOMAIN cs = 1..Len(cs)
  BY ActivationFields
<1>2. Len(new) \in Nat /\ 1 <= Len(new) /\ DOMAIN new = 1..Len(new)
  BY ActivationFields
<1>3. 1..Len(new) = 1..Len(cs)
  BY <1>1, <1>2, Zenon
<1> QED
  BY <1>1, <1>2, <1>3, SameLength, Zenon

LEMMA SimpleActivated ==
    ASSUME NEW V, NEW cs \in Activations(V), NEW lg \in Seq(Entries), NEW k \in DOMAIN lg, NEW tx \in Nat,
           lg[k].type \notin {"LeftFold", "Pop"}, Activated(lg, cs, k, tx)
    PROVE  Activated(lg, Simple(lg, cs, k), k + 1, tx)
<1> DEFINE new == Simple(lg, cs, k)
           n == Len(cs)
<1>1. PICK W : new \in Activations(W)
  BY SimpleStep
<1>2. k \in Nat
  OBVIOUS
<1>3. n \in Nat /\ n \in DOMAIN cs /\ cs[n].head \in Nat /\ cs[n].size \in Nat /\ cs[n].head <= k
  BY ActivationFields DEF Activated
<1>4. CASE lg[k].type = "Push"
  <2> DEFINE c == Context(k + 1, lg[k + 1].i, k)
  <2>1. new = Append(cs, c)
    BY <1>4 DEF Simple
  <2>2. c.push = k /\ c.head = k + 1 /\ c.size = 0
    BY DEF Context
  <2> HIDE DEF new, c
  <2>3. Activated(lg, new, k + 1, tx)
    BY <1>1, <1>2, <1>4, <2>1, <2>2, OpenedEntry
  <2> QED
    BY <2>3 DEF new
<1>5. CASE lg[k].type # "Push"
  <2>1. PICK c : /\ new = [cs EXCEPT ![n] = c]
                 /\ c.push = cs[n].push
                 /\ \/ c.head = k /\ c.size = 0
                    \/ c.head = cs[n].head /\ c.size = cs[n].size
                    \/ c.head = cs[n].head /\ c.size = cs[n].size + 1 /\ k \in LinksOf(lg)
    BY <1>5, SimpleFields
  <2> HIDE DEF new
  <2>2. Len(new) = n /\ new[n] = c /\ DOMAIN new = 1..n
    <3>1. DOMAIN new = DOMAIN cs /\ new[n] = c
      BY <1>3, <2>1
    <3>2. Len(new) = n
      BY <1>1, <3>1, SameDomain
    <3>3. DOMAIN new = 1..n
      BY <1>3, <3>1, ActivationFields
    <3> QED
      BY <3>1, <3>2, <3>3
  <2>3. Counted(lg, new, n, k + 1)
    <3>1. CASE c.head = k /\ c.size = 0
      <4>1. IsFiniteSet({}) /\ Cardinality({}) = 0
        BY FS_EmptySet
      <4> QED
        BY <2>2, <3>1, <4>1 DEF Counted
    <3>2. CASE ~ (c.head = k /\ c.size = 0)
      <4>1. /\ new[n].head = cs[n].head
            /\ \/ new[n].size = cs[n].size
               \/ new[n].size = cs[n].size + 1 /\ k \in LinksOf(lg)
        BY <2>1, <2>2, <3>2
      <4>2. Len(new) = Len(cs)
        BY <2>2
      <4> HIDE DEF n
      <4>3. n = Len(cs)
        BY DEF n
      <4> QED
        BY <1>1, <1>2, <4>1, <4>2, <4>3, StillCounted
    <3> QED
      BY <3>1, <3>2
  <2>4. Agree(lg, lg, k)
    BY DEF Agree
  <2>5. \A j \in LinksOf(lg) : j >= k => lg[j].shift = 0
    BY DEF Activated
  <2>6. c.head \in Nat /\ cs[n].head <= c.head /\ c.head <= k + 1
    BY <1>2, <1>3, <2>1
  <2>7. Activated(lg, new, k + 1, tx)
    BY <1>1, <1>2, <2>1, <2>3, <2>4, <2>5, <2>6, ScannedEntry
  <2> QED
    BY <2>7 DEF new
<1> QED
  BY <1>4, <1>5

\* The loop of ast_create_node keeps the counts.
LEMMA ScannedActivated ==
    ASSUME NEW V, NEW b \in Builds(V), NEW lg \in Seq(Entries), NEW k0 \in Nat \ {0}, k0 <= Len(lg) + 1,
           NEW tx \in Nat, Activated(lg, b.cs, k0, tx)
    PROVE  LET r == ScanFrom(b, lg, k0) IN Activated(lg, r.cs, r.k, tx) /\ r.k <= Len(lg) + 1
<1> DEFINE S == {Len(lg) + 1} \cup {j \in k0..Len(lg) : lg[j].type \in {"LeftFold", "Pop"}}
           next == NextStop(lg, k0)
           n == next - k0
<1>1. Len(lg) \in Nat /\ DOMAIN lg = 1..Len(lg) /\ k0 \in Nat /\ 1 <= k0
  OBVIOUS
<1>2. /\ next \in Nat /\ k0 <= next /\ next <= Len(lg) + 1
      /\ \A j \in Nat : k0 <= j /\ j < next => j \in DOMAIN lg /\ lg[j].type \notin {"LeftFold", "Pop"}
  <2>1. S \in SUBSET Nat /\ Len(lg) + 1 \in S
    BY <1>1
  <2>2. \A j \in S : k0 <= j
    BY <1>1
  <2>3. \A j \in Nat : k0 <= j /\ j <= Len(lg) /\ j \notin S => lg[j].type \notin {"LeftFold", "Pop"}
    BY <1>1
  <2>4. next = Min(S)
    BY DEF NextStop
  <2> HIDE DEF S, next
  <2>5. next \in S /\ \A j \in S : next <= j
    BY <2>1, <2>4, MinIsLeast
  <2>6. next \in Nat /\ k0 <= next /\ next <= Len(lg) + 1
    BY <2>1, <2>2, <2>5
  <2>7. ASSUME NEW j \in Nat, k0 <= j, j < next PROVE j \in DOMAIN lg /\ lg[j].type \notin {"LeftFold", "Pop"}
    <3>1. j <= Len(lg) /\ j \notin S
      BY <1>1, <2>5, <2>6, <2>7
    <3> QED
      BY <1>1, <2>3, <2>7, <3>1
  <2> QED
    BY <2>6, <2>7
<1> HIDE DEF next
<1>3. n \in Nat /\ k0 + n = next
  BY <1>1, <1>2
<1>4. PICK f : /\ f[0] = b.cs
               /\ ScanFrom(b, lg, k0) = Stopped(b, next, f[n])
               /\ \A k \in Nat : 0 < k /\ k <= n => f[k] = Simple(lg, f[k - 1], k0 + k - 1)
  BY <1>3, ScanIsFunction DEF next
<1> DEFINE Good(k) == (\E W : f[k] \in Activations(W)) /\ Activated(lg, f[k], k0 + k, tx)
           G == {k \in Nat : k <= n => Good(k)}
<1>5. 0 \in G
  <2>1. b.cs \in Activations(V) /\ k0 + 0 = k0
    BY DEF Builds
  <2> QED
    BY <1>4, <2>1
<1>6. ASSUME NEW k \in G PROVE k + 1 \in G
  <2> SUFFICES ASSUME k + 1 <= n PROVE Good(k + 1)
    OBVIOUS
  <2> DEFINE m == k + 1
             j == k0 + k
  <2>1. m \in Nat /\ 0 < m /\ m <= n /\ m - 1 = k /\ k \in Nat /\ k <= n /\ k0 + m - 1 = j /\ k0 + m = j + 1
    BY <1>1, <1>3
  <2>2. j \in Nat /\ k0 <= j /\ j < next
    BY <1>1, <1>2, <2>1
  <2>3. Good(k)
    BY <2>1
  <2> HIDE DEF m, n, j
  <2>4. PICK W : f[k] \in Activations(W)
    BY <2>3
  <2>5. f[m] = Simple(lg, f[k], j)
    BY <1>4, <2>1
  <2>6. j \in DOMAIN lg /\ lg[j].type \notin {"LeftFold", "Pop"}
    BY <1>2, <2>2
  <2>7. \E U : f[m] \in Activations(U)
    BY <2>4, <2>5, <2>6, SimpleStep
  <2>8. Activated(lg, f[k], j, tx)
    BY <2>3 DEF j
  <2>9. Activated(lg, f[m], j + 1, tx)
    BY <2>4, <2>5, <2>6, <2>8, SimpleActivated
  <2> QED
    BY <2>1, <2>7, <2>9 DEF m
<1>7. n \in G
  <2>1. G \in SUBSET Nat
    OBVIOUS
  <2>2. G = Nat
    <3> HIDE DEF G
    <3> QED
      BY <1>5, <1>6, <2>1, InductionInSet
  <2> HIDE DEF G
  <2> QED
    BY <1>3, <2>2
<1>8. Activated(lg, f[n], next, tx)
  BY <1>3, <1>7
<1> DEFINE r == [b EXCEPT !.k = next, !.cs = f[n]]
<1>9. r.cs = f[n] /\ r.k = next
  BY DEF Builds
<1> HIDE DEF r, n
<1> QED
  BY <1>2, <1>4, <1>8, <1>9 DEF r, Stopped

\* ast_commit_tx and ast_get_parsed_node begin with one activation.
LEMMA StartActivated ==
    ASSUME NEW lg \in Seq(Entries), \A j \in LinksOf(lg) : lg[j].shift = 0, NEW tx \in Nat, NEW c,
           c.head = tx + 1, c.size = 0, NEW cs, cs = <<c>>
    PROVE  Activated(lg, cs, tx + 1, tx)
<1>1. DOMAIN cs = {1} /\ cs[1] = c
  OBVIOUS
<1>2. IsFiniteSet({}) /\ Cardinality({}) = 0
  BY FS_EmptySet
<1>3. Counted(lg, cs, 1, tx + 1)
  BY <1>1, <1>2 DEF Counted
<1>4. \A i \in LinksOf(lg) : i \in Nat /\ i + lg[i].shift = i
  BY Shifts
<1>5. Past(lg, tx + 1)
  BY <1>4 DEF Past
<1> QED
  BY <1>1, <1>3, <1>5 DEF Activated

LEMMA FirstNumbers == ASSUME NEW m \in Nat PROVE IsFiniteSet(1..m) /\ Cardinality(1..m) = m
<1>1. IsFiniteSet(1..m) /\ Cardinality(1..m) = IF 1 > m THEN 0 ELSE m - 1 + 1
  BY FS_Interval, 1 \in Int, m \in Int, Zenon
<1> QED
  BY <1>1

LEMMA SeqFacts == ASSUME NEW s \in Seq(Nat) PROVE Len(s) \in Nat /\ DOMAIN s = 1..Len(s)
  OBVIOUS

\* The links that constructLeft collects are at least those that were counted.
LEMMA AllSlotsSet ==
    ASSUME LogInv, CellInv, NEW o \in Nodes, NEW V, NEW cs \in Activations(V), NEW k \in Nat, k <= Len(log),
           NEW to \in Nat, to <= k + 1, Counted(log, cs, Len(cs), to), 1 <= cs[Len(cs)].head,
           constructLeft(o, cs[Len(cs)], k)
    PROVE  Null \notin ToSet(cells'[o].kids)
<1> DEFINE c == cs[Len(cs)]
           links == Links(c.head, k)
           size  == Max({c.size, Len(links)})
           kids  == [i \in 1..size |-> IF i <= Len(links) THEN log[links[i]].e ELSE Null]
           Label(n) == log[links[SelectLastInSeq(links, LAMBDA j : log[j].e = n)]].i
           node  == [Blank EXCEPT !.tag = c.tag, !.pos = c.spos, !.end = c.epos, !.value = c.value, !.kids = kids]
           all  == [j \in 1..k |-> j]
           some == {i \in c.head..k : /\ log[i].type = "Link"
                                      /\ \A j \in c.head..i-1 : log[j].type = "Link" => j + log[j].shift < i}
<1>1. cells' = [n \in Nodes |->
                   IF n = o THEN node
                   ELSE IF n \in ToSet(kids) THEN [cells[n] EXCEPT !.label = Label(n)]
                   ELSE cells[n]]
  BY Zenon DEF constructLeft
<1>2. c \in Contexts(V) /\ c.head \in Nat /\ c.size \in Nat /\ 1 <= c.head
  BY LastActivation DEF Contexts
<1>3. PICK S : /\ IsFiniteSet(S) /\ Cardinality(S) = c.size /\ S \subseteq LinksOf(log)
               /\ \A j \in S : c.head <= j /\ j < to /\ Shown(log, c.head, j)
  BY DEF Counted
<1>4. log \in Seq(Entries) /\ Len(log) \in Nat /\ DOMAIN log = 1..Len(log)
  BY DEF LogInv
<1>5. S \subseteq some /\ S \subseteq 1..k
  <2> SUFFICES ASSUME NEW i \in S PROVE i \in some /\ i \in 1..k
    OBVIOUS
  <2>1. i \in LinksOf(log) /\ i \in Nat /\ 1 <= i /\ i <= Len(log) /\ c.head <= i /\ i < to
    BY <1>3, <1>4, Shifts
  <2>2. i <= k
    BY <2>1
  <2>3. log[i].type = "Link"
    BY <2>1 DEF LinksOf
  <2>4. \A j \in c.head..i-1 : log[j].type = "Link" => j + log[j].shift < i
    <3> SUFFICES ASSUME NEW j \in c.head..i-1, log[j].type = "Link" PROVE j + log[j].shift < i
      OBVIOUS
    <3> HIDE DEF c, some
    <3>1. j \in Nat /\ c.head <= j /\ j < i /\ j \in DOMAIN log
      BY <1>2, <1>4, <2>1
    <3>2. j \in LinksOf(log)
      BY <3>1 DEF LinksOf
    <3> QED
      BY <1>3, <3>1, <3>2 DEF Shown
  <2> QED
    BY <1>2, <2>1, <2>2, <2>3, <2>4
<1>6. links = Kept(all, some)
  BY DEF Links
<1>7. all \in Seq(Nat) /\ ToSet(all) = 1..k
  <2>1. DOMAIN all = 1..k /\ \A j \in 1..k : all[j] = j
    OBVIOUS
  <2>2. all \in [1..k -> Nat]
    OBVIOUS
  <2> HIDE DEF all
  <2> QED
    BY <2>1, <2>2 DEF ToSet
<1>8. links \in Seq(Nat) /\ S \subseteq ToSet(links)
  <2> HIDE DEF all, some
  <2>1. Kept(all, some) \in Seq(Nat) /\ ToSet(Kept(all, some)) = ToSet(all) \cap some
    BY <1>7, KeptElements
  <2> QED
    BY <1>5, <1>6, <1>7, <2>1
<1>9. ToSet(links) \subseteq LinksOf(log)
  BY <1>2, LinksAre
<1> HIDE DEF links, Label
<1>10. Len(links) \in Nat /\ Cardinality(S) <= Len(links)
  <2> DEFINE m == Len(links)
  <2>1. m \in Nat /\ DOMAIN links = 1..m
    BY <1>8, SeqFacts
  <2> HIDE DEF m
  <2>2. IsFiniteSet(1..m) /\ Cardinality(1..m) = m
    BY <2>1, FirstNumbers
  <2>3. links \in Surjection(1..m, ToSet(links))
    <3>1. links \in [1..m -> ToSet(links)]
      BY <1>8, <2>1 DEF ToSet
    <3>2. \A t \in ToSet(links) : \E i \in 1..m : links[i] = t
      BY <2>1 DEF ToSet
    <3> QED
      BY <3>1, <3>2 DEF Surjection
  <2>4. IsFiniteSet(ToSet(links)) /\ Cardinality(ToSet(links)) <= m
    BY <2>2, <2>3, FS_Surjection
  <2>5. Cardinality(S) <= Cardinality(ToSet(links)) /\ Cardinality(S) \in Nat /\ Cardinality(ToSet(links)) \in Nat
    BY <1>3, <1>8, <2>4, FS_Subset, FS_CardinalityType
  <2> QED
    BY <2>1, <2>4, <2>5 DEF m
<1>11. size = Len(links)
  <2> DEFINE m == Len(links)
  <2>1. c.size <= m /\ m \in Nat /\ c.size \in Nat
    BY <1>2, <1>3, <1>10
  <2> HIDE DEF m, c
  <2>2. Max({c.size, m}) = m
    <3>1. m \in {c.size, m} /\ \A y \in {c.size, m} : m >= y
      BY <2>1
    <3>2. \A x \in {c.size, m} : (\A y \in {c.size, m} : x >= y) => x = m
      BY <2>1
    <3> QED
      BY <3>1, <3>2 DEF Max
  <2> QED
    BY <2>2 DEF m
<1> HIDE DEF size
<1>12. ASSUME NEW i \in DOMAIN kids PROVE kids[i] # Null
  <2>1. i \in 1..Len(links) /\ i <= Len(links)
    BY <1>10, <1>11, <1>12
  <2>2. links[i] \in LinksOf(log) /\ kids[i] = log[links[i]].e
    BY <1>8, <1>9, <1>12, <2>1 DEF ToSet
  <2>3. log[links[i]].e \in Nodes
    BY <2>2 DEF LogInv, Held
  <2> QED
    BY <2>2, <2>3, NodesAreNumbers
<1>13. cells'[o].kids = kids
  <2> HIDE DEF kids
  <2>1. node.kids = kids
    BY DEF Blank
  <2> HIDE DEF node
  <2>2. cells'[o] = node
    BY <1>1
  <2> QED
    BY <2>1, <2>2
<1> HIDE DEF kids
<1> QED
  BY <1>12, <1>13 DEF ToSet

LEMMA NotIdle == ASSUME NEW V, NEW b \in Builds(V) PROVE b # Idle
<1>1. b.for \in {"commit", "root"}
  BY DEF Builds
<1>2. Idle.for = "none"
  BY DEF Idle
<1> QED
  BY <1>1, <1>2

\* The innermost activation begins again with one child.
Folded(cs, new, k) ==
    \E c : new = [cs EXCEPT ![Len(cs)] = c] /\ c.push = cs[Len(cs)].push /\ c.head = k /\ c.size = 1

\* A LeftFold begins an activation that has counted the link it has become.
LEMMA FoldedEntry ==
    ASSUME NEW V, NEW cs \in Activations(V), NEW W, NEW new \in Activations(W),
           NEW lg \in Seq(Entries), NEW after \in Seq(Entries), NEW k \in DOMAIN lg, NEW tx \in Nat,
           Folded(cs, new, k), Activated(lg, cs, k, tx), Relinked(lg, after, k, 0)
    PROVE  Activated(after, new, k + 1, tx)
<1> DEFINE n == Len(cs)
<1>0. PICK c : new = [cs EXCEPT ![n] = c] /\ c.push = cs[n].push /\ c.head = k /\ c.size = 1
  BY DEF Folded
<1>a. DOMAIN after = DOMAIN lg /\ (\A j \in DOMAIN lg : j # k => after[j] = lg[j])
      /\ after[k].type = "Link" /\ after[k].shift = 0
  BY DEF Relinked
<1> USE <1>0, <1>a
<1>1. k \in Nat /\ k \in LinksOf(after)
  BY DEF LinksOf
<1>2. n \in DOMAIN cs /\ cs[n].head <= k
  BY ActivationFields DEF Activated
<1>3. \A j : j # k => /\ j \in LinksOf(after) <=> j \in LinksOf(lg)
                      /\ j \in LinksOf(lg) => after[j].shift = lg[j].shift
  BY DEF LinksOf
<1>4. Agree(lg, after, k)
  BY <1>1, <1>3 DEF Agree
<1>5. \A j \in LinksOf(after) : j >= k => after[j].shift = 0
  BY <1>3 DEF Activated
<1>6. DOMAIN new = DOMAIN cs /\ new[n] = c
  BY <1>2
<1>7. DOMAIN new = 1..n
  BY <1>6, ActivationFields
<1>8. Counted(after, new, n, k + 1)
  <2> DEFINE S == {k}
  <2>1. IsFiniteSet(S) /\ Cardinality(S) = 1
    BY FS_Singleton
  <2>2. Shown(after, k, k)
    BY <1>1, Shifts DEF Shown
  <2>3. \A e \in DOMAIN new : ~ (n < e)
    <3>1. n \in Nat
      BY ActivationFields
    <3> HIDE DEF n
    <3> QED
      BY <1>7, <3>1
  <2>4. new[n].head = k /\ new[n].size = 1
    BY <1>6
  <2>5. \A j \in S : k <= j /\ j < k + 1 /\ Shown(after, k, j)
    BY <1>1, <2>2
  <2>6. S \subseteq LinksOf(after)
    BY <1>1
  <2> HIDE DEF S, n
  <2> QED
    BY <2>1, <2>3, <2>4, <2>5, <2>6 DEF Counted
<1>9. k <= k + 1
  BY <1>1
<1> QED
  BY <1>1, <1>2, <1>4, <1>5, <1>8, <1>9, ScannedEntry

\* The left operand of a LeftFold, or the node of a Pop.
LEMMA InnerActivated ==
    ASSUME LogInv, CellInv, BuildInv, build # Idle, NEW o \in Nodes, Inner(o),
           Activated(log, build.cs, build.k, build.tx)
    PROVE  /\ Null \notin ToSet(cells'[o].kids)
           /\ build' # Idle /\ build'.k <= Len(log') + 1
           /\ Activated(log', build'.cs, build'.k, build'.tx)
<1> DEFINE k  == build.k
           x  == log[k]
           cs == build.cs
           c  == Last(cs)
           d  == Len(cs)
           tx == build.tx
<1>1. PICK V : build \in Builds(V)
  BY DEF BuildInv
<1>2. cs \in Activations(V) /\ k \in Nat \ {0} /\ tx \in Nat /\ tx <= Len(log) /\ build.label \in Labels \cup {Nil}
  BY <1>1 DEF BuildInv, Builds
<1>3. k <= Len(log) /\ constructLeft(o, c, k)
  BY DEF Inner
<1>4. log \in Seq(Entries) /\ Len(log) \in Nat /\ DOMAIN log = 1..Len(log) /\ k \in DOMAIN log /\ x \in Entries
  <2>1. log \in Seq(Entries) /\ Len(log) \in Nat /\ DOMAIN log = 1..Len(log)
    BY DEF LogInv
  <2>2. k \in DOMAIN log
    BY <1>2, <1>3, <2>1
  <2> QED
    BY <2>1, <2>2
<1>5. c \in Contexts(V) /\ d \in Nat \ {0} /\ c = cs[d] /\ d \in DOMAIN cs
  BY <1>2, LastActivation, ActivationFields
<1>6. Null \notin ToSet(cells'[o].kids)
  <2>1. Counted(log, cs, d, k) /\ tx < cs[d].head /\ cs[d].head \in Nat
    BY <1>2, <1>5, ActivationFields DEF Activated
  <2>2. 1 <= cs[d].head
    BY <1>2, <2>1
  <2>3. constructLeft(o, cs[d], k)
    BY <1>3, <1>5
  <2>4. k \in Nat /\ k <= k + 1
    BY <1>2
  <2> HIDE DEF k, cs
  <2> QED
    BY <1>2, <1>3, <2>1, <2>2, <2>3, <2>4, AllSlotsSet
<1>7. o \in Nat /\ x.i \in Operands /\ x.e \in Operands
  BY <1>4, NodesAreNumbers, OperandsAre
<1>8. c.push \in Nat /\ c.head \in Nat
  BY <1>5 DEF Contexts
<1> DEFINE Goal == /\ build' # Idle /\ build'.k <= Len(log') + 1
                   /\ Activated(log', build'.cs, build'.k, build'.tx)
<1>9. ASSUME NEW W, NEW b \in Builds(W), b.tx = tx, build' = ScanFrom(b, log', k + 1),
             log' \in Seq(Entries), Len(log') = Len(log), Activated(log', b.cs, k + 1, tx)
      PROVE  Goal
  <2>1. k + 1 \in Nat \ {0} /\ k + 1 <= Len(log') + 1
    BY <1>2, <1>3, <1>4, <1>9
  <2>2. (\E U : build' \in Builds(U)) /\ build'.tx = tx
    BY <1>9, <2>1, Scanned
  <2>3. build' # Idle
    BY <2>2, NotIdle
  <2>4. Activated(log', build'.cs, build'.k, tx) /\ build'.k <= Len(log') + 1
    BY <1>2, <1>9, <2>1, ScannedActivated
  <2> QED
    BY <2>2, <2>3, <2>4
<1>10. ASSUME x.type = "LeftFold", log' = [log EXCEPT ![k] = LinkEntry(x.e, o, 0)],
              build' = ScanFrom([build EXCEPT !.cs[d] = [Context(k, x.i, c.push) EXCEPT !.epos = c.epos, !.size = 1]],
                                log', k + 1)
       PROVE  Goal
  <2> DEFINE W == V \cup {x.i, Nil, c.epos}
             n == [Context(k, x.i, c.push) EXCEPT !.epos = c.epos, !.size = 1]
             t == [cs EXCEPT ![d] = n]
             b == [build EXCEPT !.cs = t]
             e == LinkEntry(x.e, o, 0)
  <2>1. n \in Contexts(W) /\ n.head = k /\ n.push = c.push /\ n.size = 1
    <3>1. x.i \in W /\ Nil \in W /\ c.epos \in W
      OBVIOUS
    <3> HIDE DEF W, c, x, k
    <3> QED
      BY <1>2, <1>8, <3>1 DEF Contexts, Context
  <2>2. cs \in Activations(W)
    <3>1. V \subseteq W
      OBVIOUS
    <3> HIDE DEF W, cs
    <3> QED
      BY <1>2, <3>1, MoreActivations
  <2>3. t \in Activations(W)
    <3> HIDE DEF n, W, cs
    <3> QED
      BY <2>1, <2>2, Replaced
  <2>4. b \in Builds(W) /\ b.tx = tx /\ b.cs = t
    <3> HIDE DEF t, W
    <3> QED
      BY <1>1, <2>3 DEF Builds
  <2>5. build' = ScanFrom(b, log', k + 1)
    BY <1>10
  <2>6. e \in Entries /\ e.e = o /\ log' = [log EXCEPT ![k] = e] /\ e.type = "Link" /\ e.shift = 0
    BY <1>7, <1>10, LinkEntries DEF LinkEntry
  <2> HIDE DEF e, W, n
  <2>7. log' \in Seq(Entries) /\ Len(log') = Len(log) /\ DOMAIN log' = DOMAIN log
    BY <1>4, <2>6, SeqExcept
  <2>8. log'[k] = e /\ \A j \in DOMAIN log : j # k => log'[j] = log[j]
    BY <1>4, <2>6
  <2>9. log'[k].type = "Link" /\ log'[k].shift = 0
    BY <2>6, <2>8
  <2>10. n.push = cs[d].push
    BY <1>5, <2>1
  <2>11. Relinked(log, log', k, 0) /\ Folded(cs, t, k)
    BY <1>4, <2>1, <2>7, <2>8, <2>9, <2>10 DEF Relinked, Folded
  <2>12. Activated(log, cs, k, tx)
    OBVIOUS
  <2> HIDE DEF k, cs, b, tx, t
  <2>13. Activated(log', t, k + 1, tx)
    BY <1>2, <1>4, <2>3, <2>7, <2>11, <2>12, FoldedEntry
  <2> HIDE DEF t
  <2> QED
    BY <1>9, <2>4, <2>5, <2>7, <2>13
<1>11. ASSUME x.type = "Pop", d > 1, log' = [log EXCEPT ![c.push] = LinkEntry(x.i, o, k - c.push)],
              build' = ScanFrom([build EXCEPT !.cs = [Front(cs) EXCEPT ![d - 1].size = @ + 1]], log', k + 1)
       PROVE  Goal
  <2> DEFINE f == Front(cs)
             y == f[d - 1]
             n == [y EXCEPT !.size = y.size + 1]
             t == [f EXCEPT ![d - 1] = n]
             b == [build EXCEPT !.cs = t]
             e == LinkEntry(x.i, o, k - c.push)
  <2>1. f \in Activations(V) /\ Len(f) = d - 1
    BY <1>2, <1>11, FrontActivation
  <2>2. y \in Contexts(V)
    BY <2>1, LastActivation
  <2>3. n \in Contexts(V) /\ n.head = y.head /\ n.push = y.push /\ n.size = y.size + 1
    <3> HIDE DEF y
    <3>1. y.size + 1 \in Nat
      BY <2>2 DEF Contexts
    <3> DEFINE z == y.size + 1
    <3> HIDE DEF z
    <3>2. [y EXCEPT !.size = z] \in Contexts(V) /\ [y EXCEPT !.size = z].size = z
          /\ [y EXCEPT !.size = z].head = y.head /\ [y EXCEPT !.size = z].push = y.push
      BY <2>2, <3>1 DEF Contexts, z
    <3> QED
      BY <3>2 DEF z
  <2>4. t \in Activations(V)
    <3> HIDE DEF n, f, d
    <3> QED
      BY <2>1, <2>3, Replaced
  <2>5. b \in Builds(V) /\ b.tx = tx /\ b.cs = t
    <3> HIDE DEF t
    <3> QED
      BY <1>1, <2>4 DEF Builds
  <2>6. build' = ScanFrom(b, log', k + 1)
    BY <1>11
  <2>7. e \in Entries /\ e.e = o /\ log' = [log EXCEPT ![c.push] = e] /\ e.type = "Link" /\ e.shift = k - c.push
    <3>1. k - c.push \in Int
      BY <1>2, <1>8
    <3> QED
      BY <1>7, <1>11, <3>1, LinkEntries DEF LinkEntry
  <2> HIDE DEF e
  <2>8. log' \in Seq(Entries) /\ Len(log') = Len(log) /\ DOMAIN log' = DOMAIN log
    BY <1>4, <2>7, SeqExcept
  <2> DEFINE q == cs[d].push
  <2>9. q = c.push
    BY <1>5
  <2>10. /\ \A j \in DOMAIN log : j # q => log'[j] = log[j]
         /\ q \in DOMAIN log => log'[q].type = "Link" /\ log'[q].shift = k - q
    BY <1>4, <2>7, <2>9
  <2>11. /\ DOMAIN t = DOMAIN f /\ d - 1 \in DOMAIN f /\ DOMAIN f = 1..d-1
         /\ \A j \in 1..d-1 : f[j] = cs[j]
    <3>1. DOMAIN f = 1..d-1 /\ d - 1 \in DOMAIN f
      BY <1>5, <1>11, <2>1, ActivationFields
    <3>2. \A j \in 1..d-1 : f[j] = cs[j]
      BY <1>5 DEF Front
    <3> HIDE DEF f, n
    <3> QED
      BY <3>1, <3>2
  <2>12. /\ Len(t) = d - 1 /\ \A j \in 1..d-1 : j # d - 1 => t[j] = cs[j]
         /\ t[d - 1].head = cs[d - 1].head /\ t[d - 1].push = cs[d - 1].push /\ t[d - 1].size = cs[d - 1].size + 1
    <3>1. Len(t) = Len(f)
      BY <2>1, <2>4, <2>11, SameDomain
    <3>2. t[d - 1] = n /\ y = cs[d - 1]
      BY <2>11
    <3>3. \A j \in 1..d-1 : j # d - 1 => t[j] = cs[j]
      BY <2>11
    <3> HIDE DEF t, n, y
    <3> QED
      BY <2>1, <2>3, <3>1, <3>2, <3>3
  <2>13. log[k].type # "Link"
    BY <1>11
  <2>14. Relinked(log, log', cs[d].push, k - cs[d].push) /\ log[k].type # "Link"
    BY <2>8, <2>10, <2>13 DEF Relinked
  <2>15. Closed(cs, t) /\ Activated(log, cs, k, tx)
    BY <1>11, <2>12 DEF Closed
  <2> HIDE DEF k, cs, tx, q, t, b
  <2>16. Activated(log', t, k + 1, tx)
    BY <1>2, <1>4, <2>4, <2>8, <2>14, <2>15, ClosedEntry
  <2> QED
    BY <1>9, <2>5, <2>6, <2>8, <2>16
<1>12. Goal
  BY <1>10, <1>11 DEF Inner
<1> QED
  BY <1>6, <1>12

\* Outside of a build every Link of the log is an entry for itself.
LinksWhole(lg) == \A j \in LinksOf(lg) : lg[j].shift = 0

\* All slots of all arrays are set: the links that a commit counts are found.
SlotsSet == \A o \in Nodes : Null \notin ToSet(cells[o].kids)

OkInv ==
    /\ heap.ok
    /\ gc.mode # "mark" => FreeReady(heap)
    /\ SlotsSet
    /\ IF build = Idle THEN LinksWhole(log)
       ELSE build.k <= Len(log) + 1 /\ Activated(log, build.cs, build.k, build.tx)

LEMMA WholeAppended ==
    ASSUME NEW lg \in Seq(Entries), LinksWhole(lg), NEW x \in Entries, x.shift = 0
    PROVE  LinksWhole(Append(lg, x))
<1> DEFINE r == Append(lg, x)
<1>1. Len(lg) \in Nat /\ DOMAIN lg = 1..Len(lg) /\ DOMAIN r = 1..Len(lg)+1 /\ r[Len(lg) + 1] = x
      /\ \A j \in DOMAIN lg : r[j] = lg[j]
  OBVIOUS
<1>2. \A j \in DOMAIN r : j \in DOMAIN lg \/ j = Len(lg) + 1
  BY <1>1
<1> HIDE DEF r
<1>3. LinksWhole(r)
  BY <1>1, <1>2 DEF LinksWhole, LinksOf
<1> QED
  BY <1>3 DEF r

LEMMA WholeCut ==
    ASSUME NEW lg \in Seq(Entries), NEW tx \in Nat, tx <= Len(lg), \A j \in LinksOf(lg) : j <= tx => lg[j].shift = 0
    PROVE  LinksWhole(SubSeq(lg, 1, tx)) /\ SubSeq(lg, 1, tx) \in Seq(Entries)
<1> DEFINE r == SubSeq(lg, 1, tx)
<1>1. r \in Seq(Entries) /\ Len(r) = tx /\ DOMAIN r = 1..tx /\ \A j \in 1..tx : r[j] = lg[j] /\ j \in DOMAIN lg /\ j <= tx
  OBVIOUS
<1> HIDE DEF r
<1>2. LinksWhole(r)
  BY <1>1 DEF LinksWhole, LinksOf
<1> QED
  BY <1>1, <1>2 DEF r

\* The node of the whole, and the log of a commit.
LEMMA OuterOk ==
    ASSUME LogInv, CellInv, BuildInv, build # Idle, NEW o \in Nodes, Outer(o), build.k <= Len(log) + 1,
           Activated(log, build.cs, build.k, build.tx)
    PROVE  Null \notin ToSet(cells'[o].kids) /\ LinksWhole(log')
<1> DEFINE cs == build.cs
           d  == Len(cs)
           k  == Len(log)
           tx == build.tx
<1>1. PICK V : build \in Builds(V)
  BY DEF BuildInv
<1>2. cs \in Activations(V) /\ tx \in Nat /\ tx <= k /\ build.k \in Nat /\ build.label \in Operands
  BY <1>1 DEF BuildInv, Builds, Operands
<1>3. log \in Seq(Entries) /\ k \in Nat /\ k <= k
  BY DEF LogInv
<1>4. cs[d] = Last(cs) /\ d \in DOMAIN cs /\ cs[d].head \in Nat
  BY <1>2, LastActivation, ActivationFields
<1>5. Null \notin ToSet(cells'[o].kids)
  <2>1. Counted(log, cs, d, build.k) /\ tx < cs[d].head
    BY <1>4 DEF Activated
  <2>2. 1 <= cs[d].head
    BY <1>2, <1>4, <2>1
  <2>3. constructLeft(o, cs[d], k)
    BY <1>4 DEF Outer
  <2> HIDE DEF cs, k
  <2> QED
    BY <1>2, <1>3, <2>1, <2>2, <2>3, AllSlotsSet DEF k
<1>6. LinksWhole(log')
  <2>1. CASE log' = Append(SubSeq(log, 1, tx), LinkEntry(build.label, o, 0))
    <3> DEFINE x == LinkEntry(build.label, o, 0)
               lg == SubSeq(log, 1, tx)
    <3>1. x \in Entries /\ x.shift = 0
      BY <1>2, LinkEntries, NodesAreNumbers DEF LinkEntry
    <3>2. \A j \in LinksOf(log) : j <= tx => log[j].shift = 0
      BY DEF Activated
    <3>3. LinksWhole(lg) /\ lg \in Seq(Entries)
      BY <1>2, <1>3, <3>2, WholeCut
    <3> HIDE DEF x, lg
    <3>4. LinksWhole(Append(lg, x))
      BY <3>1, <3>3, WholeAppended
    <3> QED
      BY <2>1, <3>4 DEF x, lg
  <2>2. CASE log' = <<>>
    BY <2>2 DEF LinksWhole, LinksOf
  <2> QED
    BY <2>1, <2>2 DEF Outer
<1> QED
  BY <1>5, <1>6

-----------------------------------------------------------------------------
(***************************************************************************)
(* The steps.                                                              *)
(***************************************************************************)
LEMMA AllocatedOk ==
    ASSUME IInv, OkInv, build # Idle, gc.mode # "mark", phase = "parse",
           NEW r, r = tryAlloc(heap), r.block # Null,
           heap' = r.heap, Bounded, Inner(r.block) \/ Outer(r.block)
    PROVE  OkInv'
<1> DEFINE o == r.block
<1>1. HeapExact(heap) /\ PointerReady(heap)
  BY PointerIsReady
<1>2. HeapExact(heap') /\ IsNode(o, heap')
  BY <1>1, Allocated
<1>3. o \in Nodes
  BY <1>2, NodesFit DEF Bounded
<1>4. FreeReady(heap') /\ heap'.ok
  BY <1>1, AllocatedFree DEF OkInv
<1>5. LogInv /\ CellInv /\ BuildInv
  BY DEF IInv
<1>6. build.k <= Len(log) + 1 /\ Activated(log, build.cs, build.k, build.tx) /\ SlotsSet
  BY DEF OkInv
<1> HIDE DEF o
<1>7. NewNode(o)
  BY <1>3, <1>5, InnerStep, OuterStep DEF Built, o
<1>8. /\ Null \notin ToSet(cells'[o].kids)
      /\ IF build' = Idle THEN LinksWhole(log')
         ELSE build'.k <= Len(log') + 1 /\ Activated(log', build'.cs, build'.k, build'.tx)
  <2>1. CASE Inner(o)
    BY <1>3, <1>5, <1>6, <2>1, InnerActivated
  <2>2. CASE Outer(o)
    <3>1. build' = Idle
      BY <2>2 DEF Outer
    <3> QED
      BY <1>3, <1>5, <1>6, <2>2, <3>1, OuterOk
  <2> QED
    BY <2>1, <2>2 DEF o
<1>9. SlotsSet'
  BY <1>6, <1>7, <1>8 DEF SlotsSet, NewNode
<1> QED
  BY <1>4, <1>8, <1>9 DEF OkInv

\* The nodes that a collection visits.
LEMMA CollectedOk ==
    ASSUME OkInv, build # Idle, NEW g, MarkInv(g), g.heap.ok, NEW S \in Seq(Nat),
           \A n \in ToSet(S) : n # Null /\ n \in Nodes /\ IsNode(n, g.heap),
           Collecting(Visit(g, S)), UNCHANGED <<log, build>>
    PROVE  OkInv' /\ \A x : IsNode(x, g.heap) => IsNode(x, heap')
<1> DEFINE e == Visit(g, S)
<1>1. e.heap.ok /\ \A x : IsNode(x, g.heap) => IsNode(x, e.heap)
  BY VisitedOk
<1> HIDE DEF e
<1>2. Collecting(e)
  BY DEF e
<1>3. heap' = e.heap /\ gc'.mode = "mark" /\ cells' = cells
  BY <1>1, <1>2 DEF Collecting
<1> QED
  BY <1>1, <1>3 DEF OkInv, SlotsSet

LEMMA CollectOk ==
    ASSUME IInv, OkInv, build # Idle, gc.mode = "run", phase = "parse",
           NEW r, r = tryAlloc(heap),
           Collecting(Visit(WithHeap(clearAllBitMapsAndCount(r.heap)), RootNodes)),
           UNCHANGED <<roots, log, memo, parsed, phase, build, before>>
    PROVE  OkInv' /\ \A n : IsNode(n, r.heap) => IsNode(n, heap')
<1> DEFINE h == clearAllBitMapsAndCount(r.heap)
           g == WithHeap(h)
<1>1. HeapExact(heap) /\ PointerReady(heap)
  BY PointerIsReady
<1>2. HeapExact(r.heap) /\ \A n : IsNode(n, heap) => IsNode(n, r.heap)
  BY <1>1, Allocated
<1>3. r.heap.ok
  BY <1>1, AllocatedFree DEF OkInv
<1>4. HeapExact(h) /\ h.ok /\ \A n : IsNode(n, r.heap) => IsNode(n, h)
  BY <1>2, <1>3, Cleared, ClearedOk
<1> HIDE DEF h
<1>5. MarkInv(g) /\ g.heap = h
  BY <1>4, EmptyStack, GcFields DEF WithHeap
<1> HIDE DEF g
<1>6. RootsExact /\ roots = TRUE
  BY RootsAre DEF IInv, PhaseInv
<1>7. RootNodes \in Seq(Nat) /\ \A n \in ToSet(RootNodes) : n # Null /\ n \in Nodes /\ IsNode(n, g.heap)
  BY <1>2, <1>4, <1>5, <1>6 DEF RootsExact, Held, Holding
<1>8. Collecting(Visit(g, RootNodes))
  BY DEF g, h
<1> QED
  BY <1>4, <1>5, <1>7, <1>8, CollectedOk

LEMMA AllocOk == ASSUME IInv, OkInv, Alloc PROVE OkInv'
<1>1. build # Idle /\ gc.mode # "mark" /\ phase = "parse"
  BY DEF Alloc
<1> DEFINE r == tryAlloc(heap)
<1>2. CASE r.block # Null /\ heap' = r.heap /\ Bounded /\ (Inner(r.block) \/ Outer(r.block))
  <2> HIDE DEF r
  <2> QED
    BY <1>1, <1>2, AllocatedOk DEF r
<1>3. CASE /\ gc.mode = "run"
           /\ Collecting(Visit(WithHeap(clearAllBitMapsAndCount(r.heap)), RootNodes))
           /\ UNCHANGED <<roots, log, memo, parsed, phase, build, before>>
  <2> HIDE DEF r
  <2> QED
    BY <1>1, <1>3, CollectOk DEF r
<1>4. CASE UNCHANGED <<heap, cells, arrays, gc, roots, log, memo, parsed, build, before>>
  BY <1>4 DEF OkInv, SlotsSet
<1> QED
  BY <1>2, <1>3, <1>4 DEF Alloc

LEMMA MarkOneOk == ASSUME IInv, OkInv, Mark PROVE OkInv' /\ \A n : IsNode(n, heap) => IsNode(n, heap')
<1> DEFINE n == Last(gc.stack)
           front == Front(gc.stack)
           g == [heap |-> heap, stack |-> front, slots |-> gc.slots]
           S == cells[n].kids
<1>1. gc.mode = "mark" /\ gc.stack # <<>> /\ Collecting(Visit(g, S)) /\ UNCHANGED <<log, build>>
  BY DEF Mark
<1>2. /\ HeapExact(heap) /\ heap \in Heaps /\ gc.stack \in Seq(Nodes) /\ Distinct(gc.stack)
      /\ Len(gc.stack) < gc.slots /\ gc.slots \in Nat \ {0} /\ ToSet(gc.stack) \subseteq MarkedIn(heap)
      /\ build # Idle
  BY <1>1, GcFields DEF IInv, GcInv, MarkInv, State, HeapExact, PhaseInv
<1>3. n \in Nodes /\ front \in Seq(Nodes) /\ Distinct(front) /\ Len(front) = Len(gc.stack) - 1
      /\ ToSet(front) \subseteq ToSet(gc.stack)
  BY <1>1, <1>2, Popped
<1> HIDE DEF n, front
<1>4. MarkInv(g) /\ g.heap = heap
  <2>1. Len(front) < gc.slots
    BY <1>2, <1>3
  <2> QED
    BY <1>2, <1>3, <2>1 DEF MarkInv, Marking
<1>5. S \in Seq(Nat) /\ \A m \in ToSet(S) : m # Null /\ m \in Nodes /\ IsNode(m, heap)
  <2>1. \A m \in ToSet(S) : m # Null
    BY <1>3 DEF OkInv, SlotsSet
  <2>2. \A m \in ToSet(S) : Held(m)
    BY <1>3, <2>1 DEF IInv, CellInv
  <2>3. S \in Seq(Nat)
    BY <1>3 DEF IInv, CellInv, Cells
  <2> QED
    BY <2>1, <2>2, <2>3 DEF Held
<1>6. g.heap.ok
  BY <1>4 DEF OkInv
<1> HIDE DEF g, S
<1> QED
  BY <1>1, <1>2, <1>4, <1>5, <1>6, CollectedOk

LEMMA SweepOk == ASSUME IInv, OkInv, Sweep PROVE OkInv'
<1>1. heap' = bmgc_gc_sweep(heap) /\ UNCHANGED <<cells, log, build>>
  BY DEF Sweep
<1>2. HeapExact(heap) /\ heap.ok
  BY DEF IInv, GcInv, MarkInv, State, OkInv
<1>3. FreeReady(heap') /\ heap'.ok
  BY <1>1, <1>2, SweptReady
<1> QED
  BY <1>1, <1>3 DEF OkInv, SlotsSet

\* The calls that change no more than the log, with no build before or after.
LEMMA ClientOk ==
    ASSUME OkInv, build = Idle, UNCHANGED <<heap, cells, gc, build>>, LinksWhole(log) => LinksWhole(log')
    PROVE  OkInv'
  BY DEF OkInv, SlotsSet

LEMMA LogOk == ASSUME IInv, OkInv, Log PROVE OkInv'
<1>1. UNCHANGED <<heap, cells, gc, build>> /\ build = Idle
  BY DEF Log, Parsing, Ready
<1>2. log \in Seq(Entries)
  BY DEF IInv, LogInv
<1>3. ASSUME NEW type \in Types, NEW i \in Operands, NEW e \in Operands, Append1(type, i, e), LinksWhole(log)
      PROVE  LinksWhole(log')
  <2> DEFINE x == [type |-> type, i |-> i, e |-> e, shift |-> 0]
  <2>1. x \in Entries /\ x.shift = 0
    BY DEF Entries
  <2>2. log' = Append(log, x)
    BY <1>3 DEF Append1
  <2> HIDE DEF x
  <2> QED
    BY <1>2, <1>3, <2>1, <2>2, WholeAppended
<1>4. Nil \in Operands /\ Positions \subseteq Operands /\ Labels \subseteq Operands /\ \A d \in Details : d.i \in Operands
  BY DEF Operands
<1>5. LinksWhole(log) => LinksWhole(log')
  <2> SUFFICES ASSUME LinksWhole(log) PROVE LinksWhole(log')
    OBVIOUS
  <2>1. CASE \E p \in Positions : Append1("New", p, Nil)
    BY <1>3, <1>4, <2>1 DEF Types
  <2>2. CASE \E p \in Positions, l \in Labels : Append1("LeftFold", p, l)
    BY <1>3, <1>4, <2>2 DEF Types
  <2>3. CASE \E d \in Details : Append1(d.type, d.i, Nil)
    BY <1>3, <1>4, <2>3, DetailsAssumption DEF Types
  <2>4. CASE Append1("Push", Nil, Nil)
    BY <1>3, <1>4, <2>4 DEF Types
  <2>5. CASE \E l \in Labels : Append1("Pop", l, Nil)
    BY <1>3, <1>4, <2>5 DEF Types
  <2>6. \/ \E p \in Positions : Append1("New", p, Nil)
        \/ \E p \in Positions, l \in Labels : Append1("LeftFold", p, l)
        \/ \E d \in Details : Append1(d.type, d.i, Nil)
        \/ Append1("Push", Nil, Nil)
        \/ \E l \in Labels : Append1("Pop", l, Nil)
    BY DEF Log
  <2> QED
    BY <2>1, <2>2, <2>3, <2>4, <2>5, <2>6
<1> QED
  BY <1>1, <1>5, ClientOk

LEMMA RollbackOk == ASSUME IInv, OkInv, Rollback PROVE OkInv'
<1>1. UNCHANGED <<heap, cells, gc, build>> /\ build = Idle
  BY DEF Rollback, Parsing, Ready
<1>2. PICK tx \in 0..Len(log) : log' = SubSeq(log, 1, tx)
  BY DEF Rollback
<1>3. log \in Seq(Entries) /\ tx \in Nat /\ tx <= Len(log)
  BY DEF IInv, LogInv
<1>4. LinksWhole(log) => LinksWhole(log')
  BY <1>2, <1>3, WholeCut DEF LinksWhole
<1> QED
  BY <1>1, <1>4, ClientOk

LEMMA LookupOk == ASSUME IInv, OkInv, Lookup PROVE OkInv'
<1>1. UNCHANGED <<heap, cells, gc, build>> /\ build = Idle
  BY DEF Lookup, Parsing, Ready
<1>2. PICK s \in Slots, l \in Labels : log' = Append(log, LinkEntry(l, memo[s], 0))
  BY DEF Lookup
<1> DEFINE x == LinkEntry(l, memo[s], 0)
<1>3. log \in Seq(Entries) /\ memo[s] \in Nat
  BY DEF IInv, LogInv, MemoInv
<1>4. x \in Entries /\ x.shift = 0
  BY <1>3, LinkEntries DEF Operands, LinkEntry
<1> HIDE DEF x
<1>5. LinksWhole(log) => LinksWhole(log')
  BY <1>2, <1>3, <1>4, WholeAppended DEF x
<1> QED
  BY <1>1, <1>5, ClientOk

LEMMA StartOk ==
    ASSUME IInv, OkInv, Ready, NEW for \in {"commit", "root"}, NEW tx \in 0..Len(log)-1, NEW label \in Labels \cup {Nil},
           Start(for, tx, label)
    PROVE  OkInv'
<1>1. UNCHANGED <<heap, cells, gc, log>> /\ build = Idle
  BY DEF Start, Ready
<1>2. log \in Seq(Entries) /\ Len(log) \in Nat /\ LinksWhole(log)
  BY <1>1 DEF IInv, LogInv, OkInv
<1>3. tx \in Nat /\ tx + 1 \in Nat \ {0} /\ tx <= Len(log) /\ tx + 1 <= Len(log) + 1
  BY <1>2
<1> DEFINE y == log[tx + 1].i
           V == {y, Nil}
           c == Context(tx + 1, y, 0)
           cs == <<c>>
           b == [for |-> for, tx |-> tx, label |-> label, k |-> tx + 1, cs |-> cs]
<1>4. b \in Builds(V) /\ b.tx = tx /\ b.cs = cs /\ c.head = tx + 1 /\ c.size = 0
  <2>1. y \in V /\ Nil \in V
    OBVIOUS
  <2> HIDE DEF V, y
  <2>2. c \in Contexts(V) /\ c.head = tx + 1 /\ c.size = 0
    BY <1>3, <2>1 DEF Context, Contexts
  <2> HIDE DEF c
  <2>3. cs \in Activations(V)
    BY <2>2 DEF Activations
  <2> QED
    BY <1>3, <2>2, <2>3 DEF Builds
<1>5. build' = ScanFrom(b, log, tx + 1)
  BY DEF Start
<1> HIDE DEF c
<1>6. Activated(log, cs, tx + 1, tx)
  BY <1>2, <1>3, <1>4, StartActivated DEF LinksWhole
<1> HIDE DEF cs, b, V
<1>7. (\E W : build' \in Builds(W)) /\ build'.tx = tx
  BY <1>2, <1>3, <1>4, <1>5, Scanned
<1>8. build' # Idle
  BY <1>7, NotIdle
<1>9. Activated(log, b.cs, tx + 1, tx)
  BY <1>4, <1>6
<1>10. Activated(log, build'.cs, build'.k, tx) /\ build'.k <= Len(log) + 1
  BY <1>2, <1>3, <1>4, <1>5, <1>9, ScannedActivated
<1> QED
  BY <1>1, <1>7, <1>8, <1>10 DEF OkInv, SlotsSet

LEMMA GetParsedOk == ASSUME IInv, OkInv, GetParsed PROVE OkInv'
<1>1. CASE UNCHANGED <<heap, cells, arrays, gc, roots, log, memo, parsed, build, before>>
  BY <1>1 DEF OkInv, SlotsSet
<1>2. ASSUME NEW k \in DOMAIN log, Ready, Start("root", k - 1, Nil)
      PROVE  OkInv'
  <2>1. log \in Seq(Entries)
    BY DEF IInv, LogInv
  <2>2. k - 1 \in 0..Len(log)-1
    BY <2>1
  <2> QED
    BY <1>2, <2>2, StartOk
<1> QED
  BY <1>1, <1>2 DEF GetParsed

LEMMA Reset1Ok == ASSUME IInv, OkInv, Reset1 PROVE OkInv'
<1>1. UNCHANGED <<heap, cells, gc, build>> /\ build = Idle /\ log' = <<>>
  BY DEF Reset1, Ready, IInv, PhaseInv
<1>2. LinksWhole(log')
  BY <1>1 DEF LinksWhole, LinksOf
<1> QED
  BY <1>1, <1>2, ClientOk

LEMMA ResetNodesOk == ASSUME IInv, OkInv, ResetNodes PROVE OkInv'
<1>1. heap' = [HeapManager_init EXCEPT !.ok = heap.ok] /\ cells' = [o \in Nodes |-> Blank] /\ UNCHANGED <<log, build>>
  BY DEF ResetNodes
<1>2. heap'.ok /\ heap'.free = <<>>
  BY <1>1 DEF HeapManager_init, OkInv
<1>3. SlotsSet'
  BY <1>1, BlankCells DEF SlotsSet
<1> QED
  BY <1>1, <1>2, <1>3, NoList DEF OkInv

LEMMA InitOk == Init => OkInv
<1> SUFFICES ASSUME Init PROVE OkInv
  OBVIOUS
<1>1. heap.ok /\ FreeReady(heap)
  BY NoList DEF Init, HeapManager_init
<1>2. SlotsSet
  BY BlankCells DEF Init, SlotsSet
<1>3. build = Idle /\ LinksWhole(log)
  BY DEF Init, LinksWhole, LinksOf
<1> QED
  BY <1>1, <1>2, <1>3 DEF OkInv

LEMMA NextOk == IInv /\ OkInv /\ [Next]_vars => OkInv'
<1> SUFFICES ASSUME IInv, OkInv, [Next]_vars PROVE OkInv'
  OBVIOUS
<1>1. CASE UNCHANGED vars
  BY <1>1 DEF vars, OkInv, SlotsSet
<1>2. CASE Remember \/ Reset2
  BY <1>2 DEF Remember, Parsing, Reset2, OkInv, SlotsSet
<1>3. CASE Commit
  BY <1>3, StartOk DEF Commit
<1>4. CASE Log \/ Rollback \/ Lookup \/ GetParsed \/ Reset1 \/ ResetNodes
  BY <1>4, LogOk, RollbackOk, LookupOk, GetParsedOk, Reset1Ok, ResetNodesOk
<1>5. CASE Work
  BY <1>5, AllocOk, MarkOneOk, SweepOk DEF Work
<1> QED
  BY <1>1, <1>2, <1>3, <1>4, <1>5 DEF Next, Client

-----------------------------------------------------------------------------
(***************************************************************************)
(* Room.  A collection comes after an allocation that has found no block,  *)
(* so with a segment, and leaves the pointer in one that is not full.      *)
(***************************************************************************)
RoomInv ==
    /\ heap.segs = <<>> => heap.pool # 0
    /\ gc.mode = "mark" => heap.segs # <<>>
    /\ gc.mode = "retry" => Room(heap)
    /\ phase # "exit"

LEMMA SomeNode ==
    ASSUME NEW h, HeapExact(h)
    PROVE  h.segs # <<>> <=> \E n : IsNode(n, h)
<1>1. h.segs \in Seq(Segments) /\ Len(h.segs) \in Nat /\ DOMAIN h.segs = 1..Len(h.segs)
  BY SegmentNumbers
<1>2. h.segs # <<>> => 1 \in DOMAIN h.segs
  BY <1>1
<1>3. Address(1, 1) \in Nat /\ SegmentOf(Address(1, 1)) = 1 /\ IndexOf(Address(1, 1)) = 1
  BY AddressFacts, WordsFacts
<1>4. 1 \in DOMAIN h.segs => IsNode(Address(1, 1), h)
  BY <1>3 DEF IsNode
<1>5. ASSUME NEW n, IsNode(n, h) PROVE h.segs # <<>>
  BY <1>5 DEF IsNode
<1> QED
  BY <1>2, <1>4, <1>5

\* An allocation leaves a segment, whether it finds a block or not.
LEMMA SegmentsBegun ==
    ASSUME NEW h, HeapExact(h), PointerReady(h), h.segs = <<>> => h.pool # 0
    PROVE  HeapExact(tryAlloc(h).heap) /\ tryAlloc(h).heap.segs # <<>>
<1> DEFINE r == tryAlloc(h)
<1>1. /\ HeapExact(r.heap) /\ \A n : IsNode(n, h) => IsNode(n, r.heap)
      /\ r.block # Null => IsNode(r.block, r.heap)
  BY Allocated
<1>2. h.segs = <<>> => r.block # Null
  BY AllocatedFirst
<1> HIDE DEF r
<1>3. \E n : IsNode(n, r.heap)
  BY <1>1, <1>2, SomeNode
<1> QED
  BY <1>1, <1>3, SomeNode DEF r

LEMMA AllocRoom == ASSUME IInv, OkInv, RoomInv, Alloc, IInv' PROVE RoomInv'
<1> DEFINE r == tryAlloc(heap)
<1>1. build # Idle /\ gc.mode # "mark" /\ phase = "parse"
  BY DEF Alloc
<1>2. HeapExact(heap) /\ PointerReady(heap)
  BY <1>1, PointerIsReady
<1>3. HeapExact(r.heap) /\ r.heap.segs # <<>>
  BY <1>2, SegmentsBegun DEF RoomInv
<1>4. gc.mode = "retry" => r.block # Null
  BY <1>2, AllocatedInRoom DEF RoomInv
<1> HIDE DEF r
<1>5. CASE heap' = r.heap /\ gc' = [gc EXCEPT !.mode = "run"] /\ (Inner(r.block) \/ Outer(r.block))
  <2>1. gc'.mode = "run"
    BY <1>5, GcFields
  <2>2. phase' = phase \/ phase' = "parsed"
    BY <1>5 DEF Inner, Outer
  <2> QED
    BY <1>1, <1>3, <1>5, <2>1, <2>2 DEF RoomInv
<1>6. CASE /\ gc.mode = "run"
           /\ Collecting(Visit(WithHeap(clearAllBitMapsAndCount(r.heap)), RootNodes))
           /\ UNCHANGED <<roots, log, memo, parsed, phase, build, before>>
  <2>1. \A n : IsNode(n, r.heap) => IsNode(n, heap')
    BY <1>1, <1>6, CollectOk DEF r
  <2>2. HeapExact(heap')
    BY DEF IInv, GcInv, MarkInv, State
  <2>3. heap'.segs # <<>>
    BY <1>3, <2>1, <2>2, SomeNode
  <2>4. gc'.mode = "mark" /\ phase' = phase
    BY <1>6 DEF Collecting
  <2> QED
    BY <2>3, <2>4 DEF RoomInv
<1> QED
  BY <1>4, <1>5, <1>6 DEF Alloc, r

LEMMA MarkRoom == ASSUME IInv, OkInv, RoomInv, Mark, IInv' PROVE RoomInv'
<1>1. \A n : IsNode(n, heap) => IsNode(n, heap')
  BY MarkOneOk
<1>2. HeapExact(heap) /\ HeapExact(heap')
  BY DEF IInv, GcInv, MarkInv, State
<1>3. gc.mode = "mark" /\ gc'.mode = "mark" /\ phase' = phase
  BY DEF Mark, Collecting
<1>4. heap'.segs # <<>>
  BY <1>1, <1>2, <1>3, SomeNode DEF RoomInv
<1> QED
  BY <1>3, <1>4 DEF RoomInv

LEMMA SweepRoom == ASSUME IInv, OkInv, RoomInv, Sweep PROVE RoomInv'
<1>1. heap' = bmgc_gc_sweep(heap) /\ gc.mode = "mark" /\ gc' = [gc EXCEPT !.mode = "retry"] /\ phase' = phase
  BY DEF Sweep
<1>2. HeapExact(heap) /\ heap.ok /\ heap.segs # <<>>
  BY <1>1 DEF IInv, GcInv, MarkInv, State, OkInv, RoomInv
<1>3. Room(heap')
  BY <1>1, <1>2, SweptReady
<1>4. heap'.segs # <<>>
  BY <1>3 DEF Room, Standing
<1>5. gc'.mode = "retry"
  BY <1>1, GcFields
<1> QED
  BY <1>1, <1>3, <1>4, <1>5 DEF RoomInv

LEMMA ClientRoom == ASSUME IInv, RoomInv, Client PROVE RoomInv'
<1>1. CASE Log \/ Rollback \/ Lookup \/ Remember
  BY <1>1 DEF RoomInv, Log, Rollback, Lookup, Remember, Parsing
<1>2. CASE Commit
  BY <1>2 DEF RoomInv, Commit, Start
<1>3. CASE GetParsed
  BY <1>3 DEF RoomInv, GetParsed, Start
<1>4. CASE Reset1 \/ Reset2
  BY <1>4 DEF RoomInv, Reset1, Reset2
<1>5. CASE ResetNodes
  <2>1. heap' = [HeapManager_init EXCEPT !.ok = heap.ok] /\ phase' = "bare" /\ gc' = [gc EXCEPT !.slots = MarkSlots]
    BY <1>5 DEF ResetNodes
  <2>2. gc.mode = "run"
    BY <1>5 DEF ResetNodes, IInv, PhaseInv
  <2>3. gc'.mode = "run"
    BY <2>1, <2>2, GcFields
  <2>4. heap'.pool = PoolSize /\ PoolSize # 0
    BY <2>1, HeapAssumption DEF HeapManager_init
  <2> QED
    BY <2>1, <2>3, <2>4 DEF RoomInv
<1> QED
  BY <1>1, <1>2, <1>3, <1>4, <1>5 DEF Client

LEMMA InitRoom == Init => RoomInv
  BY HeapAssumption DEF Init, HeapManager_init, RoomInv

\* The assertions of gc.c hold, and no collection fails to make room.  A segment
\* that an allocation takes from the free list has a dead block (fetchUnfilled), a
\* search that comes back stands on one, and no child that mark_mstack visits is
\* NULL: the slots that Node_new makes for the children that ast_create_node has
\* counted are all set.  The allocation after a collection finds a block.
THEOREM NoAssertionFails == Spec => []NoAssertFails
<1> DEFINE Inv == IInv /\ OkInv /\ RoomInv
<1>1. Init => Inv
  BY InitHolds, InitOk, InitRoom
<1>2. Inv /\ [Next]_vars => Inv'
  <2> SUFFICES ASSUME IInv, OkInv, RoomInv, [Next]_vars PROVE IInv' /\ OkInv' /\ RoomInv'
    OBVIOUS
  <2>1. IInv' /\ OkInv'
    BY NextStep, NextOk
  <2>2. RoomInv'
    <3>1. CASE UNCHANGED vars
      BY <3>1 DEF vars, RoomInv
    <3>2. CASE Next
      BY <2>1, <3>2, AllocRoom, MarkRoom, SweepRoom, ClientRoom DEF Next, Work
    <3> QED
      BY <3>1, <3>2
  <2> QED
    BY <2>1, <2>2
<1>3. Inv => NoAssertFails
  BY DEF OkInv, RoomInv, NoAssertFails
<1> QED
  BY <1>1, <1>2, <1>3, PTL DEF Spec
=============================================================================
