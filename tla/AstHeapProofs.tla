--------------------------- MODULE AstHeapProofs ---------------------------
(***************************************************************************)
(* The AST machine counts references exactly: whatever it builds, cuts     *)
(* off, memoizes or gives to the client, the count of a node is the number *)
(* of references to it, no assertion of the store fails, and nothing is    *)
(* left when nobody holds anything.                                        *)
(*                                                                         *)
(* NodeStoreProofs has the operations of the store; here the references    *)
(* from outside are those of the log, the memo table and the client, and   *)
(* ast_create_node is followed through its log: it replaces every LeftFold *)
(* and every Push by a link to the node that it builds.                    *)
(***************************************************************************)
EXTENDS AstHeap, NodeStoreProofs

Operands == Positions \cup Labels \cup {d.i : d \in Details} \cup {Nil} \cup Nat

Types == {"New", "Capture", "Tag", "Replace", "LeftFold", "Push", "Pop", "Link"}

Entries == [type : Types, i : Operands, e : Operands, shift : Int]

\* A log, whose links have nodes.
IsLog(lg) == lg \in Seq(Entries) /\ \A k \in DOMAIN lg : lg[k].type = "Link" => lg[k].e \in Nat \ {Null}

Memos == [Slots -> Nat]

\* The references from outside.
LinksTo(lg, n) == {k \in DOMAIN lg : lg[k].type = "Link" /\ lg[k].e = n}
SlotsOf(m, n)  == {s \in Slots : m[s] = n}
IsParsed(p, n) == IF p = n THEN 1 ELSE 0

HeldBy(lg, m, p, n) == Cardinality(LinksTo(lg, n)) + Cardinality(SlotsOf(m, n)) + IsParsed(p, n)

OutOf(lg, m, p) == [n \in Nat |-> IF n = Null THEN 0 ELSE HeldBy(lg, m, p, n)]

\* Between two calls, and whenever no node is new.
Exactly(st, lg, m, p) ==
    /\ st \in Stores(Operands) /\ IsLog(lg) /\ m \in Memos /\ p \in Nat
    /\ Settled(st, OutOf(lg, m, p), {}) /\ Ranked(st)

-----------------------------------------------------------------------------
(***************************************************************************)
(* The references from outside.                                            *)
(***************************************************************************)
LEMMA SomeOperands == Nil \in Operands /\ 0 \in Operands /\ Nat \subseteq Operands
  BY DEF Operands

LEMMA EntryTypes ==
    ASSUME NEW lg, IsLog(lg)
    PROVE  /\ lg \in Seq(Entries) /\ Len(lg) \in Nat /\ DOMAIN lg = 1..Len(lg)
           /\ \A k \in DOMAIN lg : /\ lg[k] \in Entries /\ lg[k].type \in Types /\ lg[k].shift \in Int
                                   /\ lg[k].i \in Operands /\ lg[k].e \in Operands
           /\ \A k \in DOMAIN lg : lg[k].type = "Link" => lg[k].e \in Nat \ {Null}
<1>1. lg \in Seq(Entries) /\ Len(lg) \in Nat /\ DOMAIN lg = 1..Len(lg)
  BY DEF IsLog
<1>2. \A k \in DOMAIN lg : lg[k] \in Entries
  BY <1>1
<1>3. \A x \in Entries : x.type \in Types /\ x.shift \in Int /\ x.i \in Operands /\ x.e \in Operands
  BY DEF Entries
<1> QED
  BY <1>1, <1>2, <1>3 DEF IsLog

LEMMA SlotNumbers == Slots = 1..MemoSlots /\ MemoSlots \in Nat /\ IsFiniteSet(Slots)
<1>1. Slots = 1..MemoSlots /\ MemoSlots \in Nat
  BY SlotsAssumption DEF Slots
<1> QED
  BY <1>1, FS_Interval

LEMMA HeldTypes ==
    ASSUME NEW lg, IsLog(lg), NEW m \in Memos, NEW p \in Nat
    PROVE  /\ OutOf(lg, m, p) \in [Nat -> Nat]
           /\ \A n \in Nat \ {Null} : OutOf(lg, m, p)[n] = HeldBy(lg, m, p, n)
           /\ \A n : /\ IsFiniteSet(LinksTo(lg, n)) /\ Cardinality(LinksTo(lg, n)) \in Nat
                     /\ IsFiniteSet(SlotsOf(m, n)) /\ Cardinality(SlotsOf(m, n)) \in Nat
                     /\ IsParsed(p, n) \in Nat
<1>1. \A n : IsFiniteSet(LinksTo(lg, n)) /\ Cardinality(LinksTo(lg, n)) \in Nat
  <2> TAKE n
  <2>1. IsFiniteSet(DOMAIN lg)
    <3>1. DOMAIN lg = 1..Len(lg) /\ Len(lg) \in Nat
      BY EntryTypes
    <3> QED
      BY <3>1, FS_Interval
  <2>2. LinksTo(lg, n) \in SUBSET DOMAIN lg
    BY DEF LinksTo
  <2> QED
    BY <2>1, <2>2, FS_Subset, FS_CardinalityType
<1>2. \A n : IsFiniteSet(SlotsOf(m, n)) /\ Cardinality(SlotsOf(m, n)) \in Nat
  <2> TAKE n
  <2>1. SlotsOf(m, n) \in SUBSET Slots
    BY DEF SlotsOf
  <2> QED
    BY <2>1, SlotNumbers, FS_Subset, FS_CardinalityType
<1>3. \A n : IsParsed(p, n) \in Nat
  BY DEF IsParsed
<1>4. \A n : HeldBy(lg, m, p, n) \in Nat
  BY <1>1, <1>2, <1>3 DEF HeldBy
<1>5. OutOf(lg, m, p) \in [Nat -> Nat]
  BY <1>4 DEF OutOf
<1>6. \A n \in Nat \ {Null} : OutOf(lg, m, p)[n] = HeldBy(lg, m, p, n)
  BY DEF OutOf
<1> QED
  BY <1>1, <1>2, <1>3, <1>5, <1>6

LEMMA NotEmpty ==
    ASSUME NEW S, IsFiniteSet(S), NEW x \in S
    PROVE  Cardinality(S) \in Nat /\ Cardinality(S) > 0
<1>1. Cardinality(S) \in Nat /\ Cardinality(S) # 0
  BY FS_CardinalityType, FS_EmptySet
<1> QED
  BY <1>1

\* Whoever has a node has a reference to it.
LEMMA LinkHolds ==
    ASSUME NEW lg, IsLog(lg), NEW m \in Memos, NEW p \in Nat, NEW k \in DOMAIN lg, lg[k].type = "Link"
    PROVE  lg[k].e \in Nat \ {Null} /\ OutOf(lg, m, p)[lg[k].e] > 0
<1> DEFINE n == lg[k].e
<1>1. n \in Nat \ {Null}
  BY EntryTypes
<1>2. k \in LinksTo(lg, n)
  BY DEF LinksTo
<1>3. Cardinality(LinksTo(lg, n)) \in Nat /\ Cardinality(LinksTo(lg, n)) > 0
  BY <1>2, HeldTypes, NotEmpty
<1> HIDE DEF n
<1>4. Cardinality(SlotsOf(m, n)) \in Nat /\ IsParsed(p, n) \in Nat /\ OutOf(lg, m, p)[n] = HeldBy(lg, m, p, n)
  BY <1>1, HeldTypes
<1>5. OutOf(lg, m, p)[n] > 0
  BY <1>3, <1>4 DEF HeldBy
<1> QED
  BY <1>1, <1>5 DEF n

LEMMA SlotHolds ==
    ASSUME NEW lg, IsLog(lg), NEW m \in Memos, NEW p \in Nat, NEW s \in Slots, m[s] # Null
    PROVE  m[s] \in Nat \ {Null} /\ OutOf(lg, m, p)[m[s]] > 0
<1> DEFINE n == m[s]
<1>1. n \in Nat \ {Null}
  BY DEF Memos
<1>2. s \in SlotsOf(m, n)
  BY DEF SlotsOf
<1>3. Cardinality(SlotsOf(m, n)) \in Nat /\ Cardinality(SlotsOf(m, n)) > 0
  BY <1>2, HeldTypes, NotEmpty
<1> HIDE DEF n
<1>4. Cardinality(LinksTo(lg, n)) \in Nat /\ IsParsed(p, n) \in Nat /\ OutOf(lg, m, p)[n] = HeldBy(lg, m, p, n)
  BY <1>1, HeldTypes
<1>5. OutOf(lg, m, p)[n] > 0
  BY <1>3, <1>4 DEF HeldBy
<1> QED
  BY <1>1, <1>5 DEF n

\* An entry that is no link is added or replaced, by a link to n or by another
\* entry that is none.
ChangedAt(lg, lg2, j) ==
    /\ j \in DOMAIN lg2 /\ DOMAIN lg \subseteq DOMAIN lg2
    /\ j \in DOMAIN lg => lg[j].type # "Link"
    /\ \A i \in DOMAIN lg2 : i # j => i \in DOMAIN lg /\ lg2[i] = lg[i]

LEMMA LinkAdded ==
    ASSUME NEW lg, IsLog(lg), NEW lg2, IsLog(lg2), NEW m \in Memos, NEW p \in Nat,
           NEW j, ChangedAt(lg, lg2, j), lg2[j].type = "Link"
    PROVE  OutOf(lg2, m, p) = [OutOf(lg, m, p) EXCEPT ![lg2[j].e] = @ + 1]
<1> DEFINE n == lg2[j].e
           out == OutOf(lg, m, p)
           out2 == OutOf(lg2, m, p)
           more == [out EXCEPT ![n] = @ + 1]
<1>1. n \in Nat \ {Null}
  BY EntryTypes DEF ChangedAt
<1>2. LinksTo(lg2, n) = LinksTo(lg, n) \cup {j} /\ j \notin LinksTo(lg, n)
  BY DEF LinksTo, ChangedAt
<1>3. \A x : x # n => LinksTo(lg2, x) = LinksTo(lg, x)
  BY DEF LinksTo, ChangedAt
<1> HIDE DEF n
<1>4. Cardinality(LinksTo(lg2, n)) = Cardinality(LinksTo(lg, n)) + 1
  <2>1. IsFiniteSet(LinksTo(lg, n))
    BY HeldTypes
  <2> DEFINE P == LinksTo(lg, n)
  <2> HIDE DEF P
  <2>2. Cardinality(P \cup {j}) = Cardinality(P) + 1
    BY <1>2, <2>1, FS_AddElement DEF P
  <2> QED
    BY <1>2, <2>2 DEF P
<1>5. out \in [Nat -> Nat] /\ out2 \in [Nat -> Nat]
  BY HeldTypes
<1>6. \A x \in Nat \ {Null} : out[x] = HeldBy(lg, m, p, x) /\ out2[x] = HeldBy(lg2, m, p, x)
  BY HeldTypes
<1>7. out[Null] = 0 /\ out2[Null] = 0
  BY DEF OutOf, Null
<1> HIDE DEF out, out2
<1>8. \A x \in Nat : out2[x] = IF x = n THEN out[x] + 1 ELSE out[x]
  <2> TAKE x \in Nat
  <2>1. CASE x = Null
    BY <1>1, <1>7, <2>1
  <2>2. CASE x = n
    <3>1. Cardinality(LinksTo(lg, n)) \in Nat /\ Cardinality(SlotsOf(m, n)) \in Nat /\ IsParsed(p, n) \in Nat
      BY HeldTypes
    <3> QED
      BY <1>1, <1>4, <1>6, <2>2, <3>1 DEF HeldBy
  <2>3. CASE x # n /\ x # Null
    BY <1>3, <1>6, <2>3 DEF HeldBy
  <2> QED
    BY <2>1, <2>2, <2>3
<1>9. more \in [Nat -> Nat] /\ \A x \in Nat : more[x] = IF x = n THEN out[x] + 1 ELSE out[x]
  <2>1. \A x \in Nat : more[x] = IF x = n THEN out[x] + 1 ELSE out[x]
    BY <1>5
  <2>2. \A x \in Nat : more[x] \in Nat
    <3> HIDE DEF more
    <3> QED
      BY <1>5, <2>1
  <2>3. more = [x \in Nat |-> more[x]]
    BY <1>5
  <2> HIDE DEF more
  <2> QED
    BY <2>1, <2>2, <2>3
<1> HIDE DEF more
<1>10. out2 = more
  BY <1>5, <1>8, <1>9
<1> QED
  BY <1>10 DEF out2, more, out, n

LEMMA NoLinkAdded ==
    ASSUME NEW lg, NEW lg2, NEW m, NEW p, NEW j, ChangedAt(lg, lg2, j), lg2[j].type # "Link"
    PROVE  OutOf(lg2, m, p) = OutOf(lg, m, p)
<1>1. \A x : LinksTo(lg2, x) = LinksTo(lg, x)
  BY DEF LinksTo, ChangedAt
<1> QED
  BY <1>1 DEF OutOf, HeldBy

-----------------------------------------------------------------------------
(***************************************************************************)
(* A node is built from the links of its activation.                       *)
(***************************************************************************)
NewOf(s) == LET c == Last(s.cs) IN Node_new(s.st, c.tag, c.spos, c.epos, c.size, c.value)

SetSteps(f, s, to) ==
    /\ f[0] = [st |-> NewOf(s), n |-> 0]
    /\ constructLeft(s, to) = IF Last(s.cs).size = 0 THEN NewOf(s) ELSE f[to].st
    /\ \A k \in Nat : 0 < k /\ k <= to =>
          f[k] = SetLink(f[k - 1], node_alloc(s.st), s.log, Links(s.log, Last(s.cs).head, to), k)

LEMMA ConstructIsFunction ==
    ASSUME NEW s, NEW to \in Nat
    PROVE  \E f : SetSteps(f, s, to)
<1> DEFINE Body(f, k) == IF k = 0 THEN [st |-> NewOf(s), n |-> 0] ELSE SetLink(f[k - 1], node_alloc(s.st), s.log, Links(s.log, Last(s.cs).head, to), k)
           Is(f, n) == f = [k \in 0..n |-> Body(f, k)]
           Good == {n \in Nat : \E f : Is(f, n)}
<1>1. 0 \in Good
  <2> DEFINE ext == [k \in 0..0 |-> [st |-> NewOf(s), n |-> 0]]
  <2>1. Is(ext, 0)
    OBVIOUS
  <2> HIDE DEF Is, ext
  <2>2. \E f : Is(f, 0)
    BY <2>1
  <2> QED
    BY <2>2
<1>2. ASSUME NEW n \in Good PROVE n + 1 \in Good
  <2>1. n \in Nat /\ \E f : Is(f, n)
    <3> HIDE DEF Is
    <3> QED
      OBVIOUS
  <2>2. PICK f : Is(f, n)
    BY <2>1
  <2>3. \A k \in 0..n : f[k] = Body(f, k)
    BY <2>2
  <2> DEFINE ext == [k \in 0..n+1 |-> IF k = n + 1 THEN Body(f, n + 1) ELSE f[k]]
  <2>4. \A k \in 0..n : ext[k] = f[k] /\ k \in 0..n+1
    <3> HIDE DEF Body
    <3> QED
      BY <2>1
  <2>5. ext[n + 1] = Body(f, n + 1) /\ f[n] = ext[n] /\ n + 1 - 1 = n
    <3> HIDE DEF Body
    <3> QED
      BY <2>1
  <2>6. \A k \in 0..n+1 : ext[k] = Body(ext, k)
    <3> HIDE DEF ext
    <3> TAKE k \in 0..n+1
    <3>1. CASE k = n + 1
      BY <3>1, <2>1, <2>5
    <3>2. CASE k # n + 1
      <4>1. k \in 0..n /\ (k # 0 => k - 1 \in 0..n)
        BY <3>2, <2>1
      <4> QED
        BY <4>1, <2>3, <2>4
    <3> QED
      BY <3>1, <3>2
  <2>7. ext = [k \in 0..n+1 |-> ext[k]]
    OBVIOUS
  <2> HIDE DEF ext
  <2>8. Is(ext, n + 1)
    BY <2>6, <2>7
  <2> HIDE DEF Is
  <2> QED
    BY <2>1, <2>8
<1>3. to \in Good
  <2> HIDE DEF Good
  <2>1. Good = Nat
    <3>1. Good \in SUBSET Nat
      BY DEF Good
    <3> QED
      BY <1>1, <1>2, <3>1, InductionInSet
  <2> QED
    BY <2>1
<1> DEFINE f == CHOOSE f : Is(f, to)
<1>4. Is(f, to)
  BY <1>3
<1>5. constructLeft(s, to) = (IF Last(s.cs).size = 0 THEN NewOf(s) ELSE f[to].st)
  BY DEF constructLeft, NewOf
<1> HIDE DEF f
<1>6. \A k \in 0..to : f[k] = Body(f, k)
  BY <1>4
<1>7. f[0] = [st |-> NewOf(s), n |-> 0]
  BY <1>6
<1>8. \A k \in Nat : 0 < k /\ k <= to => f[k] = Body(f, k)
  BY <1>6
<1> QED
  BY <1>5, <1>7, <1>8 DEF SetSteps

Contexts == [head : Nat \ {0}, spos : Operands, epos : Operands, tag : Operands, value : Operands,
             size : Nat, push : Nat]

\* A loop that fills the new node o: its places from the next one on are empty.
Filling(f, out, rank, o) ==
    /\ f.st \in Stores(Operands) /\ Settled(f.st, out, {o}) /\ RankedBy(f.st, rank)
    /\ o \in DOMAIN f.st.cells /\ ~IsFree(f.st, o) /\ f.n \in Nat
    /\ \A i \in DOMAIN f.st.cells[o].kids : i > f.n => f.st.cells[o].kids[i] = Null

LEMMA LinkSet ==
    ASSUME NEW f, NEW out, NEW b \in Nat, NEW rank \in [Nat -> 0..b], NEW o \in Nat, Filling(f, out, rank, o),
           NEW n \in Nat \ {Null}, out[n] > 0, n # o, rank[n] < rank[o], NEW label \in Operands
    PROVE  Filling([st |-> Node_set(f.st, o, f.n + 1, label, n), n |-> f.n + 1], out, rank, o)
<1> DEFINE index == f.n + 1
           st == f.st
           r == Node_set(st, o, index, label, n)
<1>1. /\ st \in Stores(Operands) /\ Settled(st, out, {o}) /\ RankedBy(st, rank)
      /\ o \in DOMAIN st.cells /\ ~IsFree(st, o) /\ f.n \in Nat
      /\ \A i \in DOMAIN st.cells[o].kids : i > f.n => st.cells[o].kids[i] = Null
  BY DEF Filling
<1>2. index \in Nat \ {0} /\ index > f.n
  BY <1>1
<1>3. st.cells[o].kids \in Seq(Nat) /\ Len(st.cells[o].kids) \in Nat /\ DOMAIN st.cells[o].kids = 1..Len(st.cells[o].kids)
  BY <1>1, CellTypes
<1> HIDE DEF index, st, r
<1>4. Node_get(st, o, index) = Null
  <2>1. CASE index <= Len(st.cells[o].kids)
    <3>1. index \in DOMAIN st.cells[o].kids
      BY <1>2, <1>3, <2>1
    <3> QED
      BY <1>1, <1>2, <3>1 DEF Node_get
  <2>2. CASE ~(index <= Len(st.cells[o].kids))
    BY <2>2 DEF Node_get, Node_length
  <2> QED
    BY <2>1, <2>2
<1>5. /\ r \in Stores(Operands) /\ Settled(r, out, {o}) /\ NewKids(st, r, o, Put(st.cells[o].kids, index, n))
      /\ \A m : IsFree(r, m) <=> IsFree(st, m)
  BY <1>1, <1>2, <1>4, ChildSet, SomeOperands DEF r
<1>6. RankedBy(r, rank)
  <2>1. n \in Nat
    OBVIOUS
  <2> QED
    BY <1>1, <1>2, <1>5, <2>1, RankFilled
<1> DEFINE kids == st.cells[o].kids
           put == Put(kids, index, n)
<1>7. r.cells[o].kids = put
  BY <1>1, <1>5 DEF NewKids
<1>8. kids \in Seq(Nat)
  BY <1>3
<1>9. \A i \in DOMAIN kids : i > f.n => kids[i] = Null
  BY <1>1
<1> HIDE DEF kids
<1>10. IsPut(put, kids, index, n)
  <2>1. n \in Nat
    OBVIOUS
  <2> QED
    BY <1>2, <1>8, <2>1, PutIs
<1> HIDE DEF put
<1>11. DOMAIN put = 1..Len(put) /\ Len(put) \in Nat
  BY <1>10 DEF IsPut
<1>16. f.n \in Nat /\ index \in Nat /\ index > f.n
  BY <1>1, <1>2
<1>12. ASSUME NEW i \in DOMAIN put, i > index PROVE put[i] = Null
  <2>1. i \in Nat
    BY <1>11
  <2> DEFINE x == f.n
  <2> HIDE DEF x
  <2>3. x \in Nat /\ index > x
    BY <1>16 DEF x
  <2>2. i # index /\ i > x
    BY <1>12, <1>16, <2>1, <2>3
  <2> USE DEF x
  <2> QED
    BY <1>9, <1>10, <1>12, <2>2 DEF IsPut
<1> DEFINE g == [st |-> r, n |-> index]
<1>13. g.st = r /\ g.n = index
  OBVIOUS
<1> HIDE DEF g
<1>14. Filling(g, out, rank, o)
  BY <1>1, <1>2, <1>5, <1>6, <1>7, <1>12, <1>13 DEF Filling, NewKids
<1> QED
  BY <1>14 DEF g, r, index, st

\* constructLeft: the new node has no references, and the counts of the others
\* are exact.
IsBuilt(st, out, o) ==
    /\ st \in Stores(Operands) /\ Settled(st, out, {o}) /\ Ranked(st)
    /\ o \in DOMAIN st.cells /\ ~IsFree(st, o) /\ o \in Nat \ {Null} /\ out[o] = 0

LEMMA Constructed ==
    ASSUME NEW s, NEW m, NEW p, Exactly(s.st, s.log, m, p), NEW c \in Contexts, Last(s.cs) = c,
           NEW k \in 0..Len(s.log)
    PROVE  IsBuilt(constructLeft(s, k), OutOf(s.log, m, p), node_alloc(s.st))
<1> DEFINE st == s.st
           lg == s.log
           out == OutOf(lg, m, p)
           o == node_alloc(st)
           new == NewOf(s)
           links == Links(lg, c.head, k)
<1>1. /\ st \in Stores(Operands) /\ IsLog(lg) /\ m \in Memos /\ p \in Nat
      /\ Settled(st, out, {}) /\ Ranked(st)
  BY DEF Exactly
<1>2. /\ c.head \in Nat \ {0} /\ c.tag \in Operands /\ c.spos \in Operands /\ c.epos \in Operands
      /\ c.size \in Nat /\ c.value \in Operands
  BY DEF Contexts
<1>3. k \in Nat /\ k <= Len(lg) /\ DOMAIN lg = 1..Len(lg) /\ Len(lg) \in Nat
  BY <1>1, EntryTypes
<1>4. new = Node_new(st, c.tag, c.spos, c.epos, c.size, c.value)
  BY DEF NewOf
<1>5. PICK f : SetSteps(f, s, k)
  BY <1>3, ConstructIsFunction
<1>6. links \in SUBSET (1..k) /\ \A j \in links : j \in DOMAIN lg /\ lg[j].type = "Link"
  BY <1>2, <1>3 DEF Links
<1>7. /\ f[0] = [st |-> new, n |-> 0]
      /\ constructLeft(s, k) = IF c.size = 0 THEN new ELSE f[k].st
      /\ \A j \in Nat : 0 < j /\ j <= k => f[j] = SetLink(f[j - 1], o, lg, links, j)
  BY <1>5, Zenon DEF SetSteps
<1>20. \A j \in Nat : 0 < j /\ j <= k => f[j] = SetLink(f[j - 1], o, lg, links, j)
  BY <1>7, Zenon
<1> HIDE DEF st, lg, out, o, new, links
<1>8. IsNewNode(Operands, st, out, {}, new, o, c.size)
  BY <1>1, <1>2, <1>4, NodeMade, SomeOperands DEF o
<1>19. HasTop(new, o)
  BY <1>1, <1>2, <1>4, RankMade, SomeOperands DEF o
<1>9. PICK b \in Nat : \E rank \in [Nat -> 0..b] : RankedBy(new, rank) /\ \A n \in Nat : n # o => rank[n] < rank[o]
  BY <1>19 DEF HasTop
<1>10. PICK rank \in [Nat -> 0..b] : RankedBy(new, rank) /\ \A n \in Nat : n # o => rank[n] < rank[o]
  BY <1>9
<1>11. /\ new \in Stores(Operands) /\ Settled(new, out, {o}) /\ o \in DOMAIN new.cells /\ o # Null /\ out[o] = 0
       /\ ~IsFree(new, o) /\ new.cells[o].kids = [i \in 1..c.size |-> Null]
  <2>1. {} \cup {o} = {o}
    OBVIOUS
  <2> QED
    BY <1>8, <2>1 DEF IsNewNode
<1>12. o \in Nat \ {Null}
  BY <1>11, SettledCounts
<1>21. out[o] = 0 /\ o \in DOMAIN new.cells
  BY <1>11
<1>22. \A i \in DOMAIN new.cells[o].kids : new.cells[o].kids[i] = Null
  BY <1>11
<1>13. Filling(f[0], out, rank, o)
  <2> DEFINE g == [st |-> new, n |-> 0]
  <2>1. g.st = new /\ g.n = 0 /\ f[0] = g
    BY <1>7
  <2>2. new \in Stores(Operands) /\ Settled(new, out, {o}) /\ ~IsFree(new, o)
    BY <1>11
  <2>3. 0 \in Nat
    OBVIOUS
  <2> HIDE DEF g
  <2> QED
    BY <1>10, <1>21, <1>22, <2>1, <2>2, <2>3, Zenon DEF Filling
<1> DEFINE Good == {j \in Nat : j <= k => Filling(f[j], out, rank, o)}
<1>14. 0 \in Good
  BY <1>13
<1>15. ASSUME NEW j \in Good PROVE j + 1 \in Good
  <2> SUFFICES ASSUME j + 1 <= k PROVE Filling(f[j + 1], out, rank, o)
    OBVIOUS
  <2>1. j \in Nat /\ Filling(f[j], out, rank, o)
    BY <1>3
  <2>2. j + 1 \in Nat /\ 0 < j + 1 /\ j + 1 - 1 = j
    BY <2>1
  <2> HIDE DEF Good
  <2>3. f[j + 1] = SetLink(f[j], o, lg, links, j + 1)
    BY <1>3, <1>20, <2>1, <2>2
  <2> DEFINE i == j + 1
  <2> HIDE DEF i
  <2>4. CASE i \in links
    <3>1. i \in DOMAIN lg /\ lg[i].type = "Link"
      BY <1>6, <2>4
    <3>2. lg[i].e \in Nat \ {Null} /\ out[lg[i].e] > 0
      BY <1>1, <3>1, LinkHolds DEF out
    <3>3. lg[i].i \in Operands
      BY <1>1, <3>1, EntryTypes
    <3>4. lg[i].e # o
      <4> DEFINE n == lg[i].e
      <4>1. out[n] > 0 /\ out[o] = 0
        BY <1>21, <3>2
      <4> HIDE DEF n
      <4>2. n # o
        BY <4>1
      <4> QED
        BY <4>2 DEF n
    <3>5. rank[lg[i].e] < rank[o]
      BY <1>10, <3>2, <3>4
    <3>6. Filling([st |-> Node_set(f[j].st, o, f[j].n + 1, lg[i].i, lg[i].e), n |-> f[j].n + 1], out, rank, o)
      BY <1>12, <2>1, <3>2, <3>3, <3>4, <3>5, LinkSet
    <3> QED
      BY <2>3, <2>4, <3>6 DEF SetLink, i
  <2>5. CASE i \notin links
    BY <2>1, <2>3, <2>5 DEF SetLink, i
  <2> QED
    BY <2>4, <2>5
<1>16. Filling(f[k], out, rank, o)
  <2>1. Good \in SUBSET Nat
    OBVIOUS
  <2>2. Good = Nat
    <3> HIDE DEF Good
    <3> QED
      BY <1>14, <1>15, <2>1, InductionInSet
  <2>3. k \in Nat /\ k <= k
    BY <1>3
  <2> QED
    BY <2>2, <2>3
<1>17. CASE c.size = 0
  <2>1. Ranked(new)
    BY <1>10 DEF Ranked
  <2> QED
    BY <1>7, <1>11, <1>12, <1>17, <2>1 DEF IsBuilt, out, o, lg, st
<1>18. CASE c.size # 0
  <2>1. Ranked(f[k].st)
    BY <1>16 DEF Ranked, Filling
  <2> QED
    BY <1>7, <1>11, <1>12, <1>16, <1>18, <2>1 DEF IsBuilt, Filling, out, o, lg, st
<1> QED
  BY <1>17, <1>18


\* The new node is held by a link that takes the place of another entry.
LEMMA LogReplaced ==
    ASSUME NEW lg, IsLog(lg), NEW j \in DOMAIN lg, lg[j].type # "Link",
           NEW l \in Operands, NEW n \in Nat \ {Null}, NEW shift \in Int
    PROVE  LET r == [lg EXCEPT ![j] = LinkEntry(l, n, shift)]
           IN  /\ IsLog(r) /\ Len(r) = Len(lg) /\ DOMAIN r = DOMAIN lg /\ ChangedAt(lg, r, j)
               /\ r[j].type = "Link" /\ r[j].e = n
               /\ \A i \in DOMAIN lg : i # j => r[i] = lg[i]
<1> DEFINE x == LinkEntry(l, n, shift)
           r == [lg EXCEPT ![j] = x]
<1>1. x \in Entries /\ x.type = "Link" /\ x.e = n
  <2>1. n \in Operands
    BY SomeOperands
  <2> QED
    BY <2>1 DEF LinkEntry, Entries, Types
<1> HIDE DEF x
<1>2. lg \in Seq(Entries) /\ \A k \in DOMAIN lg : lg[k].type = "Link" => lg[k].e \in Nat \ {Null}
  BY EntryTypes
<1>3. /\ r \in Seq(Entries) /\ Len(r) = Len(lg) /\ DOMAIN r = DOMAIN lg
      /\ \A i \in DOMAIN lg : r[i] = IF i = j THEN x ELSE lg[i]
  BY <1>1, <1>2, SeqExcept
<1> HIDE DEF r
<1>4. IsLog(r)
  BY <1>1, <1>2, <1>3 DEF IsLog
<1>5. ChangedAt(lg, r, j)
  BY <1>3 DEF ChangedAt
<1>6. r[j] = x /\ \A i \in DOMAIN lg : i # j => r[i] = lg[i]
  BY <1>3
<1> QED
  BY <1>1, <1>3, <1>4, <1>5, <1>6 DEF r, x

LEMMA BuiltHeld ==
    ASSUME NEW lg, IsLog(lg), NEW m \in Memos, NEW p \in Nat, NEW st, NEW o, IsBuilt(st, OutOf(lg, m, p), o),
           NEW lg2, IsLog(lg2), NEW j, ChangedAt(lg, lg2, j), lg2[j].type = "Link", lg2[j].e = o
    PROVE  Exactly(Retain(st, o), lg2, m, p)
<1> DEFINE r == Retain(st, o)
           out == OutOf(lg, m, p)
<1>1. /\ st \in Stores(Operands) /\ Settled(st, out, {o}) /\ Ranked(st) /\ o \in DOMAIN st.cells /\ ~IsFree(st, o)
  BY DEF IsBuilt
<1>2. OutOf(lg2, m, p) = [out EXCEPT ![o] = @ + 1]
  BY LinkAdded
<1> HIDE DEF out
<1>3. /\ r \in Stores(Operands) /\ Settled(r, [out EXCEPT ![o] = @ + 1], {o} \ {o}) /\ SameCells(st, r)
  BY <1>1, Retained
<1>4. {o} \ {o} = {}
  OBVIOUS
<1>5. Ranked(r)
  BY <1>1, <1>3, RankedKept, ShrinksSame
<1> HIDE DEF r
<1>6. Settled(r, OutOf(lg2, m, p), {})
  BY <1>2, <1>3, <1>4
<1> QED
  BY <1>3, <1>5, <1>6 DEF Exactly, r

-----------------------------------------------------------------------------
(***************************************************************************)
(* The scan of the log.                                                    *)
(***************************************************************************)
\* An activation below the innermost was left at a Push; each remembers its own.
PushesKnown(cs, lg, k0, k) ==
    /\ cs \in Seq(Contexts)
    /\ \A d \in 2..Len(cs) : cs[d].push \in k0..k-1 /\ lg[cs[d].push].type = "Push"
    /\ \A d, e \in 2..Len(cs) : cs[d].push = cs[e].push => d = e

LEMMA InnerContext ==
    ASSUME NEW cs \in Seq(Contexts), Len(cs) > 0
    PROVE  /\ Len(cs) \in Nat \ {0} /\ DOMAIN cs = 1..Len(cs) /\ Len(cs) \in DOMAIN cs
           /\ cs[Len(cs)] \in Contexts /\ Last(cs) = cs[Len(cs)]
<1> DEFINE T == Contexts
<1> HIDE DEF T
<1>1. cs \in Seq(T)
  BY DEF T
<1>2. Len(cs) \in Nat \ {0} /\ DOMAIN cs = 1..Len(cs)
  BY <1>1
<1>3. Len(cs) \in 1..Len(cs)
  BY <1>2
<1>4. cs[Len(cs)] \in T
  BY <1>1, <1>3, ElementOfSeq
<1> QED
  BY <1>2, <1>3, <1>4 DEF Last, T

LEMMA InnerReplaced ==
    ASSUME NEW cs, NEW lg, NEW k0 \in Nat, NEW k \in Nat, PushesKnown(cs, lg, k0, k), Len(cs) > 0,
           NEW c \in Contexts, c.push = cs[Len(cs)].push
    PROVE  LET r == [cs EXCEPT ![Len(cs)] = c]
           IN  PushesKnown(r, lg, k0, k + 1) /\ Len(r) = Len(cs)
<1> DEFINE r == [cs EXCEPT ![Len(cs)] = c]
<1>1. cs \in Seq(Contexts)
  BY DEF PushesKnown
<1>2. Len(cs) \in Nat /\ DOMAIN cs = 1..Len(cs)
  BY <1>1, InnerContext
<1>3. /\ r \in Seq(Contexts) /\ Len(r) = Len(cs)
      /\ \A i \in DOMAIN cs : r[i] = IF i = Len(cs) THEN c ELSE cs[i]
  BY <1>1, SeqExcept
<1> HIDE DEF r
<1>4. \A d \in 2..Len(cs) : d \in DOMAIN cs /\ r[d].push = cs[d].push
  BY <1>2, <1>3
<1>5. \A x \in k0..k-1 : x \in k0..(k+1)-1
  OBVIOUS
<1>6. PushesKnown(r, lg, k0, k + 1)
  <2>1. \A d \in 2..Len(r) : r[d].push \in k0..(k+1)-1 /\ lg[r[d].push].type = "Push"
    BY <1>3, <1>4, <1>5 DEF PushesKnown
  <2>2. \A d, e \in 2..Len(r) : r[d].push = r[e].push => d = e
    BY <1>3, <1>4 DEF PushesKnown
  <2> QED
    BY <1>3, <2>1, <2>2 DEF PushesKnown
<1> QED
  BY <1>3, <1>6 DEF r

LEMMA InnerPushed ==
    ASSUME NEW cs, NEW lg, NEW k0 \in Nat, NEW k \in Nat, k0 <= k, PushesKnown(cs, lg, k0, k),
           NEW c \in Contexts, c.push = k, lg[k].type = "Push"
    PROVE  LET r == Append(cs, c)
           IN  PushesKnown(r, lg, k0, k + 1) /\ Len(r) = Len(cs) + 1
<1> DEFINE r == Append(cs, c)
           T == Contexts
           n == Len(cs)
<1>1. cs \in Seq(T) /\ c \in T
  BY DEF PushesKnown
<1> HIDE DEF T
<1>2. /\ n \in Nat /\ r \in Seq(T) /\ Len(r) = n + 1 /\ r[n + 1] = c
      /\ \A i \in 1..n : r[i] = cs[i]
  BY <1>1
<1> HIDE DEF r, n
<1>3. \A d \in 2..(n + 1) : d = n + 1 \/ (d \in 2..n /\ d \in 1..n)
  BY <1>2
<1>4. \A d \in 2..n : cs[d].push \in k0..k-1 /\ lg[cs[d].push].type = "Push"
  BY DEF PushesKnown, n
<1>5. \A x \in k0..k-1 : x \in k0..(k+1)-1 /\ x # k
  OBVIOUS
<1>6. k \in k0..(k+1)-1
  OBVIOUS
<1>7. \A d \in 2..(n + 1) : r[d].push \in k0..(k+1)-1 /\ lg[r[d].push].type = "Push"
  BY <1>2, <1>3, <1>4, <1>5, <1>6
<1>8. \A d, e \in 2..(n + 1) : r[d].push = r[e].push => d = e
  <2>1. \A d, e \in 2..n : cs[d].push = cs[e].push => d = e
    BY DEF PushesKnown, n
  <2>2. \A d \in 2..n : r[d].push = cs[d].push /\ r[d].push # k
    BY <1>2, <1>3, <1>4, <1>5
  <2>3. r[n + 1].push = k
    BY <1>2
  <2> QED
    BY <1>3, <2>1, <2>2, <2>3
<1>9. PushesKnown(r, lg, k0, k + 1)
  BY <1>2, <1>7, <1>8 DEF PushesKnown, T
<1> QED
  BY <1>2, <1>9 DEF r, n

LEMMA InnerPopped ==
    ASSUME NEW cs, NEW lg, NEW lg2, NEW k0 \in Nat, NEW k \in Nat, PushesKnown(cs, lg, k0, k), Len(cs) > 1,
           NEW c \in Contexts, c.push = cs[Len(cs) - 1].push,
           \A i \in k0..k-1 : i # cs[Len(cs)].push => lg2[i] = lg[i]
    PROVE  LET r == [Front(cs) EXCEPT ![Len(cs) - 1] = c]
           IN  PushesKnown(r, lg2, k0, k + 1) /\ Len(r) = Len(cs) - 1
<1> DEFINE T == Contexts
           n == Len(cs) - 1
           f == Front(cs)
           r == [f EXCEPT ![n] = c]
<1>1. cs \in Seq(T) /\ c \in T
  BY DEF PushesKnown
<1> HIDE DEF T
<1>2. n \in Nat \ {0} /\ Len(cs) = n + 1 /\ f = SubSeq(cs, 1, Len(cs) - 1)
  BY <1>1 DEF Front
<1>3. f \in Seq(T) /\ Len(f) = n /\ DOMAIN f = 1..n /\ \A i \in 1..n : f[i] = cs[i]
  BY <1>1, <1>2
<1> HIDE DEF f
<1>4. /\ r \in Seq(T) /\ Len(r) = n /\ \A i \in 1..n : r[i] = IF i = n THEN c ELSE f[i]
  BY <1>1, <1>3, SeqExcept
<1>5. c.push = cs[n].push
  OBVIOUS
<1> DEFINE top == cs[Len(cs)].push
<1>6. \A i \in k0..k-1 : i # top => lg2[i] = lg[i]
  OBVIOUS
<1>7. \A d \in 2..(n + 1) : cs[d].push \in k0..k-1 /\ lg[cs[d].push].type = "Push"
  BY <1>2 DEF PushesKnown
<1>8. \A d, e \in 2..(n + 1) : cs[d].push = cs[e].push => d = e
  BY <1>2 DEF PushesKnown
<1>9. top = cs[n + 1].push
  BY <1>2
<1> HIDE DEF r, n, top
<1>10. \A d \in 2..n : d \in 1..n /\ d \in 2..(n + 1) /\ d # n + 1
  BY <1>2
<1>11. \A d \in 2..n : r[d].push = cs[d].push
  BY <1>3, <1>4, <1>5, <1>10
<1>12. n + 1 \in 2..(n + 1)
  BY <1>2
<1>13. \A d \in 2..n : cs[d].push # top
  BY <1>8, <1>9, <1>10, <1>12
<1>14. \A x \in k0..k-1 : x \in k0..(k+1)-1
  OBVIOUS
<1>15. \A d \in 2..n : r[d].push \in k0..(k+1)-1 /\ lg2[r[d].push].type = "Push"
  BY <1>6, <1>7, <1>10, <1>11, <1>13, <1>14
<1>16. \A d, e \in 2..n : r[d].push = r[e].push => d = e
  BY <1>8, <1>10, <1>11
<1>17. PushesKnown(r, lg2, k0, k + 1)
  BY <1>4, <1>15, <1>16 DEF PushesKnown, T
<1> QED
  BY <1>4, <1>17 DEF r, f, n

LEMMA PushesKept ==
    ASSUME NEW cs, NEW lg, NEW lg2, NEW k0 \in Nat, NEW k \in Nat, PushesKnown(cs, lg, k0, k),
           \A i \in k0..k-1 : lg2[i] = lg[i]
    PROVE  PushesKnown(cs, lg2, k0, k)
  BY DEF PushesKnown

-----------------------------------------------------------------------------
(***************************************************************************)
(* How many activations are open.                                          *)
(***************************************************************************)
OpenSteps(f, seg, to) ==
    /\ f[0] = 0 /\ L!OpenAfter(seg, to) = f[to]
    /\ \A k \in Nat : 0 < k /\ k <= to => f[k] = f[k - 1] + L!Opens(seg[k])

LEMMA OpenIsFunction ==
    ASSUME NEW seg, NEW to \in Nat
    PROVE  \E f : OpenSteps(f, seg, to)
<1> DEFINE Body(f, k) == IF k = 0 THEN 0 ELSE f[k - 1] + L!Opens(seg[k])
           Is(f, n) == f = [k \in 0..n |-> Body(f, k)]
           Good == {n \in Nat : \E f : Is(f, n)}
<1>1. 0 \in Good
  <2> DEFINE ext == [k \in 0..0 |-> 0]
  <2>1. Is(ext, 0)
    OBVIOUS
  <2> HIDE DEF Is, ext
  <2>2. \E f : Is(f, 0)
    BY <2>1
  <2> QED
    BY <2>2
<1>2. ASSUME NEW n \in Good PROVE n + 1 \in Good
  <2>1. n \in Nat /\ \E f : Is(f, n)
    <3> HIDE DEF Is
    <3> QED
      OBVIOUS
  <2>2. PICK f : Is(f, n)
    BY <2>1
  <2>3. \A k \in 0..n : f[k] = Body(f, k)
    BY <2>2
  <2> DEFINE ext == [k \in 0..n+1 |-> IF k = n + 1 THEN Body(f, n + 1) ELSE f[k]]
  <2>4. \A k \in 0..n : ext[k] = f[k] /\ k \in 0..n+1
    <3> HIDE DEF Body
    <3> QED
      BY <2>1
  <2>5. ext[n + 1] = Body(f, n + 1) /\ f[n] = ext[n] /\ n + 1 - 1 = n
    <3> HIDE DEF Body
    <3> QED
      BY <2>1
  <2>6. \A k \in 0..n+1 : ext[k] = Body(ext, k)
    <3> HIDE DEF ext
    <3> TAKE k \in 0..n+1
    <3>1. CASE k = n + 1
      BY <3>1, <2>1, <2>5
    <3>2. CASE k # n + 1
      <4>1. k \in 0..n /\ (k # 0 => k - 1 \in 0..n)
        BY <3>2, <2>1
      <4> QED
        BY <4>1, <2>3, <2>4
    <3> QED
      BY <3>1, <3>2
  <2>7. ext = [k \in 0..n+1 |-> ext[k]]
    OBVIOUS
  <2> HIDE DEF ext
  <2>8. Is(ext, n + 1)
    BY <2>6, <2>7
  <2> HIDE DEF Is
  <2> QED
    BY <2>1, <2>8
<1>3. to \in Good
  <2> HIDE DEF Good
  <2>1. Good = Nat
    <3>1. Good \in SUBSET Nat
      BY DEF Good
    <3> QED
      BY <1>1, <1>2, <3>1, InductionInSet
  <2> QED
    BY <2>1
<1> DEFINE f == CHOOSE f : Is(f, to)
<1>4. Is(f, to)
  BY <1>3
<1>5. L!OpenAfter(seg, to) = f[to]
  BY DEF L!OpenAfter
<1> HIDE DEF f
<1>6. \A k \in 0..to : f[k] = Body(f, k)
  BY <1>4
<1>7. f[0] = 0
  BY <1>6
<1>8. \A k \in Nat : 0 < k /\ k <= to => f[k] = Body(f, k)
  BY <1>6
<1> QED
  BY <1>5, <1>7, <1>8 DEF OpenSteps

LEMMA OpensTypes == ASSUME NEW x PROVE L!Opens(x) \in {-1, 0, 1}
  BY DEF L!Opens

\* Two runs of the sum agree.
LEMMA OpenStepsAgree ==
    ASSUME NEW seg, NEW to \in Nat, NEW to2 \in Nat, NEW f, NEW g, OpenSteps(f, seg, to), OpenSteps(g, seg, to2)
    PROVE  \A k \in Nat : k <= to /\ k <= to2 => f[k] = g[k] /\ f[k] \in Int
<1> DEFINE Good == {k \in Nat : k <= to /\ k <= to2 => f[k] = g[k] /\ f[k] \in Int}
<1>1. 0 \in Good
  BY DEF OpenSteps
<1>2. ASSUME NEW k \in Good PROVE k + 1 \in Good
  <2> SUFFICES ASSUME k + 1 <= to, k + 1 <= to2 PROVE f[k + 1] = g[k + 1] /\ f[k + 1] \in Int
    OBVIOUS
  <2>1. k \in Nat /\ f[k] = g[k] /\ f[k] \in Int
    BY <1>2
  <2> HIDE DEF Good
  <2>2. k + 1 \in Nat /\ 0 < k + 1 /\ k + 1 - 1 = k
    BY <2>1
  <2>3. f[k + 1] = f[k] + L!Opens(seg[k + 1])
    BY <2>1, <2>2 DEF OpenSteps
  <2>4. g[k + 1] = g[k] + L!Opens(seg[k + 1])
    BY <2>1, <2>2 DEF OpenSteps
  <2>5. L!Opens(seg[k + 1]) \in Int
    BY OpensTypes
  <2> QED
    BY <2>1, <2>3, <2>4, <2>5
<1>3. Good = Nat
  <2>1. Good \in SUBSET Nat
    OBVIOUS
  <2> HIDE DEF Good
  <2> QED
    BY <1>1, <1>2, <2>1, InductionInSet
<1> QED
  BY <1>3

LEMMA OpenNext ==
    ASSUME NEW seg, NEW k \in Nat
    PROVE  /\ L!OpenAfter(seg, k) \in Int
           /\ L!OpenAfter(seg, k + 1) = L!OpenAfter(seg, k) + L!Opens(seg[k + 1])
<1>1. PICK f : OpenSteps(f, seg, k)
  BY OpenIsFunction
<1>2. k + 1 \in Nat /\ 0 < k + 1 /\ k + 1 - 1 = k /\ k <= k + 1 /\ k <= k /\ k + 1 <= k + 1
  OBVIOUS
<1>3. PICK g : OpenSteps(g, seg, k + 1)
  BY <1>2, OpenIsFunction
<1>4. f[k] = g[k] /\ f[k] \in Int
  BY <1>1, <1>2, <1>3, OpenStepsAgree
<1>5. g[k + 1] = g[k] + L!Opens(seg[k + 1])
  BY <1>2, <1>3 DEF OpenSteps
<1>6. L!OpenAfter(seg, k) = f[k] /\ L!OpenAfter(seg, k + 1) = g[k + 1]
  BY <1>1, <1>3 DEF OpenSteps
<1> QED
  BY <1>4, <1>5, <1>6

LEMMA NothingOpen == ASSUME NEW seg PROVE L!OpenAfter(seg, 0) = 0
<1>1. PICK f : OpenSteps(f, seg, 0)
  BY OpenIsFunction
<1> QED
  BY <1>1 DEF OpenSteps

-----------------------------------------------------------------------------
(***************************************************************************)
(* One entry is scanned.                                                   *)
(***************************************************************************)
Begin(st, lg, k) == [st |-> st, log |-> lg, cs |-> <<Context(k, lg[k].i, 0)>>]

ScanSteps(f, st, lg, k0, to) ==
    /\ f[0] = Begin(st, lg, k0) /\ Scanned(st, lg, k0) = f[to]
    /\ \A k \in Nat : 0 < k /\ k <= to => f[k] = ScanEntry(f[k - 1], k0 + k - 1)

LEMMA ScanIsFunction ==
    ASSUME NEW st, NEW lg, NEW k0, NEW to, to = Len(lg) - k0 + 1, to \in Nat
    PROVE  \E f : ScanSteps(f, st, lg, k0, to)
<1> DEFINE Body(f, k) == IF k = 0 THEN Begin(st, lg, k0) ELSE ScanEntry(f[k - 1], k0 + k - 1)
           Is(f, n) == f = [k \in 0..n |-> Body(f, k)]
           Good == {n \in Nat : \E f : Is(f, n)}
<1>1. 0 \in Good
  <2> DEFINE ext == [k \in 0..0 |-> Begin(st, lg, k0)]
  <2>1. Is(ext, 0)
    OBVIOUS
  <2> HIDE DEF Is, ext
  <2>2. \E f : Is(f, 0)
    BY <2>1
  <2> QED
    BY <2>2
<1>2. ASSUME NEW n \in Good PROVE n + 1 \in Good
  <2>1. n \in Nat /\ \E f : Is(f, n)
    <3> HIDE DEF Is
    <3> QED
      OBVIOUS
  <2>2. PICK f : Is(f, n)
    BY <2>1
  <2>3. \A k \in 0..n : f[k] = Body(f, k)
    BY <2>2
  <2> DEFINE ext == [k \in 0..n+1 |-> IF k = n + 1 THEN Body(f, n + 1) ELSE f[k]]
  <2>4. \A k \in 0..n : ext[k] = f[k] /\ k \in 0..n+1
    <3> HIDE DEF Body
    <3> QED
      BY <2>1
  <2>5. ext[n + 1] = Body(f, n + 1) /\ f[n] = ext[n] /\ n + 1 - 1 = n
    <3> HIDE DEF Body
    <3> QED
      BY <2>1
  <2>6. \A k \in 0..n+1 : ext[k] = Body(ext, k)
    <3> HIDE DEF ext
    <3> TAKE k \in 0..n+1
    <3>1. CASE k = n + 1
      BY <3>1, <2>1, <2>5
    <3>2. CASE k # n + 1
      <4>1. k \in 0..n /\ (k # 0 => k - 1 \in 0..n)
        BY <3>2, <2>1
      <4> QED
        BY <4>1, <2>3, <2>4
    <3> QED
      BY <3>1, <3>2
  <2>7. ext = [k \in 0..n+1 |-> ext[k]]
    OBVIOUS
  <2> HIDE DEF ext
  <2>8. Is(ext, n + 1)
    BY <2>6, <2>7
  <2> HIDE DEF Is
  <2> QED
    BY <2>1, <2>8
<1>3. to \in Good
  <2> HIDE DEF Good
  <2>1. Good = Nat
    <3>1. Good \in SUBSET Nat
      BY DEF Good
    <3> QED
      BY <1>1, <1>2, <3>1, InductionInSet
  <2> QED
    BY <2>1
<1> DEFINE f == CHOOSE f : Is(f, to)
<1>4. Is(f, to)
  BY <1>3
<1>5. Scanned(st, lg, k0) = f[to]
  BY DEF Scanned, Begin
<1> HIDE DEF f
<1>6. \A k \in 0..to : f[k] = Body(f, k)
  BY <1>4
<1>7. f[0] = Begin(st, lg, k0)
  BY <1>6
<1>8. \A k \in Nat : 0 < k /\ k <= to => f[k] = Body(f, k)
  BY <1>6
<1> QED
  BY <1>5, <1>7, <1>8 DEF ScanSteps

\* The entries from k on are those of the log lg, and so are those before the
\* transaction, which begins at k0.
Scanning(s, lg, k0, k, m, p) ==
    /\ s = [st |-> s.st, log |-> s.log, cs |-> s.cs]
    /\ Exactly(s.st, s.log, m, p)
    /\ Len(s.log) = Len(lg)
    /\ \A j \in DOMAIN lg : j < k0 \/ j >= k => s.log[j] = lg[j]
    /\ PushesKnown(s.cs, s.log, k0, k)
    /\ Len(s.cs) = 1 + L!OpenAfter(SubSeq(lg, k0, Len(lg)), k - k0)

LEMMA ContextTypes ==
    ASSUME NEW head \in Nat \ {0}, NEW pos \in Operands, NEW push \in Nat
    PROVE  /\ Context(head, pos, push) \in Contexts /\ Context(head, pos, push).push = push
           /\ Context(head, pos, push).epos = pos /\ Context(head, pos, push).size = 0
  BY SomeOperands DEF Context, Contexts

\* The new contexts of the entries that change one field.
LEMMA ContextChanged ==
    ASSUME NEW c \in Contexts, NEW x \in Operands
    PROVE  /\ [c EXCEPT !.epos = x] \in Contexts /\ [c EXCEPT !.epos = x].push = c.push
           /\ [c EXCEPT !.tag = x] \in Contexts /\ [c EXCEPT !.tag = x].push = c.push
           /\ [c EXCEPT !.value = x] \in Contexts /\ [c EXCEPT !.value = x].push = c.push
  BY DEF Contexts

LEMMA ContextCounted ==
    ASSUME NEW c \in Contexts, NEW x \in Nat
    PROVE  [c EXCEPT !.size = x] \in Contexts /\ [c EXCEPT !.size = x].push = c.push
  BY DEF Contexts

\* What is known of an entry that is going to be scanned.
NextEntry(s, lg, k0, k) ==
    LET seg == SubSeq(lg, k0, Len(lg))
    IN  /\ k \in Nat \ {0} /\ k \in DOMAIN s.log /\ s.log[k] = lg[k] /\ k \in 0..Len(s.log)
        /\ IsLog(s.log) /\ s.cs \in Seq(Contexts) /\ Len(s.cs) \in Nat \ {0}
        /\ L!OpenAfter(seg, k + 1 - k0) \in Nat
        /\ 1 + L!OpenAfter(seg, k + 1 - k0) = Len(s.cs) + L!Opens(lg[k])
        /\ k = Len(lg) => L!OpenAfter(seg, k + 1 - k0) = 0

LEMMA ScanningEntry ==
    ASSUME NEW s, NEW lg, IsLog(lg), NEW k0 \in Nat \ {0}, NEW k \in DOMAIN lg, k0 <= k, NEW m, NEW p,
           Scanning(s, lg, k0, k, m, p), L!CanCreate(SubSeq(lg, k0, Len(lg)))
    PROVE  NextEntry(s, lg, k0, k)
<1> DEFINE seg == SubSeq(lg, k0, Len(lg))
           n == k - k0
<1>1. lg \in Seq(Entries) /\ Len(lg) \in Nat /\ DOMAIN lg = 1..Len(lg)
  BY EntryTypes
<1>2. k \in Nat \ {0} /\ k <= Len(lg) /\ n \in Nat /\ k + 1 - k0 = n + 1 /\ k0 + (n + 1) - 1 = k
  BY <1>1
<1>3. Len(seg) = Len(lg) - k0 + 1 /\ \A j \in 1..(Len(lg) - k0 + 1) : seg[j] = lg[k0 + j - 1]
  BY <1>1, <1>2
<1>4. seg[n + 1] = lg[k]
  <2>1. n + 1 \in 1..(Len(lg) - k0 + 1)
    BY <1>1, <1>2
  <2> HIDE DEF n
  <2> QED
    BY <1>2, <1>3, <2>1
<1>5. /\ \A j \in 1..Len(seg) : L!OpenAfter(seg, j) >= 0
      /\ L!OpenAfter(seg, Len(seg)) = 0
  BY DEF L!CanCreate
<1>6. IsLog(s.log) /\ Len(s.log) = Len(lg) /\ s.cs \in Seq(Contexts) /\ Len(s.cs) = 1 + L!OpenAfter(seg, n)
  BY DEF Scanning, Exactly, PushesKnown
<1>7. DOMAIN s.log = DOMAIN lg
  BY <1>1, <1>6, EntryTypes
<1>8. s.log[k] = lg[k]
  BY <1>2 DEF Scanning
<1> HIDE DEF seg, n
<1>9. L!OpenAfter(seg, n) \in Int /\ L!OpenAfter(seg, n + 1) \in Int /\ L!OpenAfter(seg, n + 1) = L!OpenAfter(seg, n) + L!Opens(lg[k])
  BY <1>2, <1>4, OpenNext
<1>10. L!OpenAfter(seg, n) \in Nat
  <2>1. CASE n = 0
    BY <2>1, NothingOpen
  <2>2. CASE n # 0
    <3>1. n \in 1..Len(seg)
      BY <1>1, <1>2, <1>3, <2>2 DEF n
    <3> QED
      BY <1>5, <1>9, <3>1
  <2> QED
    BY <2>1, <2>2
<1>11. n + 1 \in 1..Len(seg) /\ (k = Len(lg) => n + 1 = Len(seg))
  BY <1>1, <1>2, <1>3 DEF n
<1>12. L!OpenAfter(seg, n + 1) \in Nat /\ (k = Len(lg) => L!OpenAfter(seg, n + 1) = 0)
  BY <1>5, <1>9, <1>11
<1>13. Len(s.cs) \in Nat \ {0} /\ 1 + L!OpenAfter(seg, n + 1) = Len(s.cs) + L!Opens(lg[k])
  <2>1. L!Opens(lg[k]) \in Int
    BY OpensTypes
  <2> QED
    BY <1>6, <1>9, <1>10, <2>1
<1> QED
  BY <1>1, <1>2, <1>6, <1>7, <1>8, <1>12, <1>13 DEF seg, NextEntry

\* The next entry, given what the step does to the log and the activations.
LEMMA ScanningOn ==
    ASSUME NEW s, NEW lg, IsLog(lg), NEW k0 \in Nat \ {0}, NEW k \in DOMAIN lg, k0 <= k, NEW m, NEW p,
           Scanning(s, lg, k0, k, m, p), L!CanCreate(SubSeq(lg, k0, Len(lg))),
           NEW r, r = [st |-> r.st, log |-> r.log, cs |-> r.cs],
           Exactly(r.st, r.log, m, p), Len(r.log) = Len(s.log),
           \A j \in DOMAIN s.log : j < k0 \/ j > k => r.log[j] = s.log[j],
           PushesKnown(r.cs, r.log, k0, k + 1), Len(r.cs) = Len(s.cs) + L!Opens(lg[k])
    PROVE  Scanning(r, lg, k0, k + 1, m, p)
<1>1. Len(r.log) = Len(lg) /\ DOMAIN s.log = DOMAIN lg /\ DOMAIN lg = 1..Len(lg) /\ Len(lg) \in Nat
  BY EntryTypes DEF Scanning, Exactly
<1>2. k \in Nat
  BY <1>1
<1>3. ASSUME NEW j \in DOMAIN lg, j < k0 \/ j >= k + 1 PROVE r.log[j] = lg[j]
  <2>1. j \in Nat /\ (j < k0 \/ j > k) /\ (j < k0 \/ j >= k)
    BY <1>1, <1>2, <1>3
  <2> QED
    BY <1>1, <2>1 DEF Scanning
<1>4. Len(r.cs) = 1 + L!OpenAfter(SubSeq(lg, k0, Len(lg)), k + 1 - k0)
  BY ScanningEntry DEF NextEntry
<1> QED
  BY <1>1, <1>3, <1>4 DEF Scanning


LEMMA SimpleScan ==
    ASSUME NEW s, NEW lg, IsLog(lg), NEW k0 \in Nat \ {0}, NEW k \in DOMAIN lg, k0 <= k, NEW m, NEW p,
           Scanning(s, lg, k0, k, m, p), L!CanCreate(SubSeq(lg, k0, Len(lg))),
           lg[k].type \notin {"Push", "Pop"},
           NEW c \in Contexts, c.push = s.cs[Len(s.cs)].push
    PROVE  Scanning([s EXCEPT !.cs = [s.cs EXCEPT ![Len(s.cs)] = c]], lg, k0, k + 1, m, p)
<1> DEFINE cs == [s.cs EXCEPT ![Len(s.cs)] = c]
           r == [s EXCEPT !.cs = cs]
<1>0. NextEntry(s, lg, k0, k)
  BY ScanningEntry
<1>1. Len(s.cs) \in Nat \ {0} /\ k \in Nat
  BY <1>0 DEF NextEntry
<1>2. PushesKnown(cs, s.log, k0, k + 1) /\ Len(cs) = Len(s.cs)
  <2>1. Len(s.cs) > 0 /\ k0 \in Nat /\ PushesKnown(s.cs, s.log, k0, k)
    BY <1>1 DEF Scanning
  <2> QED
    BY <1>1, <2>1, InnerReplaced
<1> HIDE DEF cs
<1>3. r = [st |-> s.st, log |-> s.log, cs |-> cs]
  <2>1. s = [st |-> s.st, log |-> s.log, cs |-> s.cs]
    BY DEF Scanning
  <2> QED
    BY <2>1
<1> HIDE DEF r
<1>4. r.st = s.st /\ r.log = s.log /\ r.cs = cs /\ r = [st |-> r.st, log |-> r.log, cs |-> r.cs]
  BY <1>3
<1>5. L!Opens(lg[k]) = 0 /\ Len(cs) = Len(s.cs) + 0
  BY <1>1, <1>2 DEF L!Opens
<1>6. Exactly(r.st, r.log, m, p)
  BY <1>4 DEF Scanning
<1>7. Scanning(r, lg, k0, k + 1, m, p)
  BY <1>2, <1>4, <1>5, <1>6, ScanningOn
<1> QED
  BY <1>7 DEF r, cs

LEMMA PushScan ==
    ASSUME NEW s, NEW lg, IsLog(lg), NEW k0 \in Nat \ {0}, NEW k \in DOMAIN lg, k0 <= k, NEW m, NEW p,
           Scanning(s, lg, k0, k, m, p), L!CanCreate(SubSeq(lg, k0, Len(lg))), lg[k].type = "Push"
    PROVE  Scanning(ScanEntry(s, k), lg, k0, k + 1, m, p)
<1> DEFINE c == Context(k + 1, s.log[k + 1].i, k)
           cs == Append(s.cs, c)
           r == ScanEntry(s, k)
<1>0. NextEntry(s, lg, k0, k)
  BY ScanningEntry
<1>1. /\ k \in Nat /\ s.log[k] = lg[k] /\ IsLog(s.log) /\ Len(s.cs) \in Nat \ {0}
      /\ L!OpenAfter(SubSeq(lg, k0, Len(lg)), k + 1 - k0) \in Nat
      /\ 1 + L!OpenAfter(SubSeq(lg, k0, Len(lg)), k + 1 - k0) = Len(s.cs) + L!Opens(lg[k])
      /\ k = Len(lg) => L!OpenAfter(SubSeq(lg, k0, Len(lg)), k + 1 - k0) = 0
  BY <1>0 DEF NextEntry
<1>2. L!Opens(lg[k]) = 1
  BY DEF L!Opens
<1>3. k # Len(lg)
  BY <1>1, <1>2
<1>4. k + 1 \in DOMAIN s.log
  <2>1. DOMAIN lg = 1..Len(lg) /\ Len(lg) \in Nat /\ DOMAIN s.log = 1..Len(s.log) /\ Len(s.log) = Len(lg)
    BY <1>1, EntryTypes DEF Scanning
  <2> QED
    BY <1>1, <1>3, <2>1
<1>5. s.log[k + 1].i \in Operands
  BY <1>1, <1>4, EntryTypes
<1>6. c \in Contexts /\ c.push = k
  BY <1>1, <1>5, ContextTypes
<1> HIDE DEF c
<1>7. PushesKnown(cs, s.log, k0, k + 1) /\ Len(cs) = Len(s.cs) + 1
  <2>1. PushesKnown(s.cs, s.log, k0, k)
    BY DEF Scanning
  <2> QED
    BY <1>1, <1>6, <2>1, InnerPushed
<1> HIDE DEF cs
<1>8. r = [st |-> s.st, log |-> s.log, cs |-> cs]
  <2>1. s = [st |-> s.st, log |-> s.log, cs |-> s.cs]
    BY DEF Scanning
  <2>2. r = [s EXCEPT !.cs = cs]
    BY <1>1 DEF ScanEntry, cs, c
  <2> QED
    BY <2>1, <2>2
<1> HIDE DEF r
<1>9. r.st = s.st /\ r.log = s.log /\ r.cs = cs /\ r = [st |-> r.st, log |-> r.log, cs |-> r.cs]
  BY <1>8
<1>10. Exactly(r.st, r.log, m, p)
  BY <1>9 DEF Scanning
<1>11. Scanning(r, lg, k0, k + 1, m, p)
  BY <1>2, <1>7, <1>9, <1>10, ScanningOn
<1> QED
  BY <1>11 DEF r

LEMMA FoldedContext ==
    ASSUME NEW head, NEW pos, NEW push, NEW end
    PROVE  [Context(head, pos, push) EXCEPT !.epos = end, !.size = 1]
               = [head |-> head, spos |-> pos, epos |-> end, tag |-> Nil, value |-> Nil, size |-> 1, push |-> push]
<1> DEFINE c1 == [head |-> head, spos |-> pos, epos |-> end, tag |-> Nil, value |-> Nil, size |-> 0, push |-> push]
<1>1. [Context(head, pos, push) EXCEPT !.epos = end] = c1
  BY DEF Context
<1>2. [c1 EXCEPT !.size = 1]
          = [head |-> head, spos |-> pos, epos |-> end, tag |-> Nil, value |-> Nil, size |-> 1, push |-> push]
  OBVIOUS
<1> HIDE DEF c1
<1> QED
  BY <1>1, <1>2

LEMMA FoldScan ==
    ASSUME NEW s, NEW lg, IsLog(lg), NEW k0 \in Nat \ {0}, NEW k \in DOMAIN lg, k0 <= k, NEW m, NEW p,
           Scanning(s, lg, k0, k, m, p), L!CanCreate(SubSeq(lg, k0, Len(lg))), lg[k].type = "LeftFold"
    PROVE  Scanning(ScanEntry(s, k), lg, k0, k + 1, m, p)
<1> DEFINE d == Len(s.cs)
           c == s.cs[d]
           x == s.log[k]
           node == node_alloc(s.st)
           built == constructLeft(s, k)
           link == LinkEntry(x.e, node, 0)
           lg2 == [s.log EXCEPT ![k] = link]
           c2 == [Context(k, x.i, c.push) EXCEPT !.epos = c.epos, !.size = 1]
           cs == [s.cs EXCEPT ![d] = c2]
           r == ScanEntry(s, k)
<1>0. NextEntry(s, lg, k0, k)
  BY ScanningEntry
<1>1. /\ k \in Nat \ {0} /\ k \in DOMAIN s.log /\ x = lg[k] /\ k \in 0..Len(s.log) /\ IsLog(s.log)
      /\ s.cs \in Seq(Contexts) /\ d \in Nat \ {0}
  BY <1>0 DEF NextEntry
<1>2. c \in Contexts /\ Last(s.cs) = c
  <2>1. d > 0
    BY <1>1
  <2> QED
    BY <1>1, <2>1, InnerContext
<1>3. Exactly(s.st, s.log, m, p) /\ m \in Memos /\ p \in Nat
  BY DEF Scanning, Exactly
<1>4. x.type = "LeftFold" /\ x.i \in Operands /\ x.e \in Operands
  BY <1>1, EntryTypes
<1>5. IsBuilt(built, OutOf(s.log, m, p), node)
  BY <1>1, <1>2, <1>3, Constructed
<1>6. node \in Nat \ {Null}
  BY <1>5 DEF IsBuilt
<1>7. c2 \in Contexts /\ c2.push = c.push
  <2>1. c.epos \in Operands /\ c.push \in Nat
    BY <1>2 DEF Contexts
  <2>2. c2 = [head |-> k, spos |-> x.i, epos |-> c.epos, tag |-> Nil, value |-> Nil, size |-> 1, push |-> c.push]
    BY FoldedContext
  <2>3. Nil \in Operands /\ 1 \in Nat
    BY SomeOperands
  <2> DEFINE xi == x.i
             cp == c.push
             ce == c.epos
  <2>4. xi \in Operands /\ cp \in Nat /\ ce \in Operands /\ k \in Nat \ {0}
    BY <1>1, <1>4, <2>1
  <2>5. c2 = [head |-> k, spos |-> xi, epos |-> ce, tag |-> Nil, value |-> Nil, size |-> 1, push |-> cp]
    BY <2>2
  <2> HIDE DEF xi, cp, ce, c2, c, x
  <2>6. c2 \in Contexts
    BY <2>3, <2>4, <2>5 DEF Contexts
  <2>7. c2.push = cp
    BY <2>5
  <2> QED
    BY <2>6, <2>7 DEF cp
<1>8. r = [s EXCEPT !.st = Retain(built, node), !.log = lg2, !.cs = cs]
  BY <1>4 DEF ScanEntry
<1> HIDE DEF c2, node, built, r
<1>9. /\ IsLog(lg2) /\ Len(lg2) = Len(s.log) /\ DOMAIN lg2 = DOMAIN s.log /\ ChangedAt(s.log, lg2, k)
      /\ lg2[k].type = "Link" /\ lg2[k].e = node
      /\ \A i \in DOMAIN s.log : i # k => lg2[i] = s.log[i]
  <2>1. 0 \in Int /\ x.type # "Link"
    BY <1>4
  <2> QED
    BY <1>1, <1>4, <1>6, <2>1, LogReplaced
<1> HIDE DEF lg2
<1>10. Exactly(Retain(built, node), lg2, m, p)
  BY <1>1, <1>3, <1>5, <1>9, BuiltHeld
<1>11. PushesKnown(cs, lg2, k0, k + 1) /\ Len(cs) = d
  <2>0. DOMAIN s.log = 1..Len(s.log) /\ Len(s.log) \in Nat
    BY <1>1, EntryTypes
  <2>1. \A i \in k0..k-1 : lg2[i] = s.log[i]
    BY <1>1, <1>9, <2>0
  <2>2. PushesKnown(s.cs, s.log, k0, k)
    BY DEF Scanning
  <2>3. PushesKnown(s.cs, lg2, k0, k)
    BY <1>1, <2>1, <2>2, PushesKept
  <2>4. d > 0
    BY <1>1
  <2> QED
    BY <1>1, <1>7, <2>3, <2>4, InnerReplaced
<1> HIDE DEF cs
<1> DEFINE st2 == Retain(built, node)
<1> HIDE DEF st2
<1>12. r = [st |-> st2, log |-> lg2, cs |-> cs]
  <2>1. s = [st |-> s.st, log |-> s.log, cs |-> s.cs]
    BY DEF Scanning
  <2>2. r = [s EXCEPT !.st = st2, !.log = lg2, !.cs = cs]
    BY <1>8 DEF st2
  <2> QED
    BY <2>1, <2>2
<1>13. r.st = st2 /\ r.log = lg2 /\ r.cs = cs /\ r = [st |-> r.st, log |-> r.log, cs |-> r.cs]
  BY <1>12
<1>14. Exactly(r.st, r.log, m, p)
  BY <1>10, <1>13 DEF st2
<1>15. L!Opens(lg[k]) = 0 /\ Len(cs) = Len(s.cs) + 0
  BY <1>1, <1>11 DEF L!Opens
<1>16. ASSUME NEW j \in DOMAIN s.log, j < k0 \/ j > k PROVE r.log[j] = s.log[j]
  <2>1. j # k
    <3>1. j \in Nat
      BY <1>1, EntryTypes
    <3> QED
      BY <1>1, <1>16, <3>1
  <2> QED
    BY <1>9, <1>13, <2>1
<1>17. Scanning(r, lg, k0, k + 1, m, p)
  BY <1>9, <1>11, <1>13, <1>14, <1>15, <1>16, ScanningOn
<1> QED
  BY <1>17 DEF r

LEMMA PopScan ==
    ASSUME NEW s, NEW lg, IsLog(lg), NEW k0 \in Nat \ {0}, NEW k \in DOMAIN lg, k0 <= k, NEW m, NEW p,
           Scanning(s, lg, k0, k, m, p), L!CanCreate(SubSeq(lg, k0, Len(lg))), lg[k].type = "Pop"
    PROVE  Scanning(ScanEntry(s, k), lg, k0, k + 1, m, p)
<1> DEFINE d == Len(s.cs)
           c == s.cs[d]
           x == s.log[k]
           j == c.push
           node == node_alloc(s.st)
           built == constructLeft(s, k)
           shift == k - j
           link == LinkEntry(x.i, node, shift)
           lg2 == [s.log EXCEPT ![j] = link]
           b == s.cs[d - 1]
           size == b.size + 1
           c2 == [b EXCEPT !.size = size]
           cs == [Front(s.cs) EXCEPT ![d - 1] = c2]
           r == ScanEntry(s, k)
<1>0. NextEntry(s, lg, k0, k)
  BY ScanningEntry
<1>1. /\ k \in Nat \ {0} /\ k \in DOMAIN s.log /\ x = lg[k] /\ k \in 0..Len(s.log) /\ IsLog(s.log)
      /\ s.cs \in Seq(Contexts) /\ d \in Nat \ {0}
      /\ L!OpenAfter(SubSeq(lg, k0, Len(lg)), k + 1 - k0) \in Nat
      /\ 1 + L!OpenAfter(SubSeq(lg, k0, Len(lg)), k + 1 - k0) = d + L!Opens(lg[k])
  BY <1>0 DEF NextEntry
<1>2. L!Opens(lg[k]) = -1
  BY DEF L!Opens
<1>3. d > 1 /\ d - 1 \in Nat \ {0} /\ d \in 2..d
  <2> DEFINE open == L!OpenAfter(SubSeq(lg, k0, Len(lg)), k + 1 - k0)
             opens == L!Opens(lg[k])
  <2>1. open \in Nat /\ 1 + open = d + opens /\ opens = -1 /\ d \in Nat
    BY <1>1, <1>2
  <2> HIDE DEF open, opens, d
  <2> QED
    BY <2>1
<1>4. c \in Contexts /\ Last(s.cs) = c
  <2>1. d > 0
    BY <1>1
  <2> QED
    BY <1>1, <2>1, InnerContext
<1>5. b \in Contexts
  <2>1. d - 1 \in 1..d
    BY <1>1, <1>3
  <2> DEFINE T == Contexts
             i == d - 1
  <2>2. s.cs \in Seq(T) /\ i \in 1..Len(s.cs)
    BY <1>1, <2>1
  <2> HIDE DEF T, i
  <2>3. s.cs[i] \in T
    BY <2>2, ElementOfSeq
  <2> QED
    BY <2>3 DEF T, i
<1>6. Exactly(s.st, s.log, m, p) /\ m \in Memos /\ p \in Nat
  BY DEF Scanning, Exactly
<1>7. x.type = "Pop" /\ x.i \in Operands
  BY <1>1, EntryTypes
<1>8. IsBuilt(built, OutOf(s.log, m, p), node)
  BY <1>1, <1>4, <1>6, Constructed
<1>9. node \in Nat \ {Null}
  BY <1>8 DEF IsBuilt
<1>10. j \in k0..k-1 /\ s.log[j].type = "Push"
  BY <1>3 DEF Scanning, PushesKnown
<1>11. j \in DOMAIN s.log /\ shift \in Int /\ j \in Nat /\ j >= k0 /\ j < k
  <2>1. DOMAIN s.log = 1..Len(s.log) /\ Len(s.log) \in Nat
    BY <1>1, EntryTypes
  <2> HIDE DEF j
  <2> QED
    BY <1>1, <1>10, <2>1
<1>12. c2 \in Contexts /\ c2.push = b.push
  <2>1. size \in Nat
    <3>1. b.size \in Nat
      BY <1>5 DEF Contexts
    <3> QED
      BY <3>1
  <2> HIDE DEF b, size
  <2> QED
    BY <1>5, <2>1, ContextCounted
<1> DEFINE cs1 == [Front(s.cs) EXCEPT ![d - 1].size = @ + 1]
<1>13. r = [s EXCEPT !.st = Retain(built, node), !.log[j] = link, !.cs = cs1]
  <2> HIDE DEF cs1
  <2>1. ScanEntry(s, k) = [s EXCEPT !.st = Retain(constructLeft(s, k), node_alloc(s.st)),
                                    !.log[s.cs[Len(s.cs)].push] =
                                        LinkEntry(s.log[k].i, node_alloc(s.st), k - s.cs[Len(s.cs)].push),
                                    !.cs = [Front(s.cs) EXCEPT ![Len(s.cs) - 1].size = @ + 1]]
    BY <1>7 DEF ScanEntry
  <2> QED
    BY <2>1 DEF cs1
<1>14. cs1 = cs
  <2> DEFINE e == d - 1
             T == Contexts
  <2>0. e \in 1..Len(s.cs)-1 /\ s.cs \in Seq(T)
    BY <1>1, <1>3
  <2>1. Front(s.cs)[d - 1] = b
    <3> HIDE DEF T, d, e
    <3>1. Front(s.cs)[e] = s.cs[e]
      BY <2>0 DEF Front
    <3> QED
      BY <3>1 DEF e
  <2> QED
    BY <2>1
<1> HIDE DEF c2, node, built, r, shift
<1>15. /\ IsLog(lg2) /\ Len(lg2) = Len(s.log) /\ DOMAIN lg2 = DOMAIN s.log /\ ChangedAt(s.log, lg2, j)
       /\ lg2[j].type = "Link" /\ lg2[j].e = node
       /\ \A i \in DOMAIN s.log : i # j => lg2[i] = s.log[i]
  <2>1. s.log[j].type # "Link"
    BY <1>10
  <2> HIDE DEF j
  <2> QED
    BY <1>1, <1>7, <1>9, <1>11, <2>1, LogReplaced
<1> HIDE DEF lg2
<1>16. Exactly(Retain(built, node), lg2, m, p)
  BY <1>1, <1>6, <1>8, <1>15, BuiltHeld
<1>17. PushesKnown(cs, lg2, k0, k + 1) /\ Len(cs) = d - 1
  <2>0. DOMAIN s.log = 1..Len(s.log) /\ Len(s.log) \in Nat
    BY <1>1, EntryTypes
  <2>1. \A i \in k0..k-1 : i # s.cs[Len(s.cs)].push => lg2[i] = s.log[i]
    BY <1>1, <1>15, <2>0
  <2>2. PushesKnown(s.cs, s.log, k0, k)
    BY DEF Scanning
  <2>3. Len(s.cs) > 1 /\ c2.push = s.cs[Len(s.cs) - 1].push
    BY <1>3, <1>12
  <2> QED
    BY <1>1, <1>12, <2>1, <2>2, <2>3, InnerPopped
<1> HIDE DEF cs
<1> DEFINE st2 == Retain(built, node)
<1> HIDE DEF st2
<1>18. r = [st |-> st2, log |-> lg2, cs |-> cs]
  <2>1. s = [st |-> s.st, log |-> s.log, cs |-> s.cs]
    BY DEF Scanning
  <2>2. r = [s EXCEPT !.st = st2, !.log[j] = link, !.cs = cs]
    BY <1>13, <1>14 DEF st2
  <2> QED
    <3> DEFINE s1 == [s EXCEPT !.st = st2]
               s2 == [s1 EXCEPT !.log[j] = link]
    <3>1. s1 = [st |-> st2, log |-> s.log, cs |-> s.cs]
      BY <2>1
    <3> HIDE DEF s1
    <3>2. s1.log = s.log
      BY <3>1
    <3>3. s2 = [st |-> st2, log |-> lg2, cs |-> s.cs]
      BY <3>1, <3>2 DEF lg2
    <3>4. r = [s2 EXCEPT !.cs = cs]
      BY <2>2 DEF s1
    <3> HIDE DEF s2
    <3> QED
      BY <3>3, <3>4
<1>19. r.st = st2 /\ r.log = lg2 /\ r.cs = cs /\ r = [st |-> r.st, log |-> r.log, cs |-> r.cs]
  BY <1>18
<1>20. Exactly(r.st, r.log, m, p)
  BY <1>16, <1>19 DEF st2
<1>21. Len(cs) = Len(s.cs) + L!Opens(lg[k])
  BY <1>1, <1>2, <1>17
<1>22. ASSUME NEW i \in DOMAIN s.log, i < k0 \/ i > k PROVE r.log[i] = s.log[i]
  <2>1. i # j
    <3>1. i \in Nat
      BY <1>1, EntryTypes
    <3> HIDE DEF j
    <3> QED
      BY <1>1, <1>11, <1>22, <3>1
  <2> QED
    BY <1>15, <1>19, <2>1
<1>23. Scanning(r, lg, k0, k + 1, m, p)
  BY <1>15, <1>17, <1>19, <1>20, <1>21, <1>22, ScanningOn
<1> QED
  BY <1>23 DEF r

\* The entries that only change the innermost activation.
LEMMA FieldScan ==
    ASSUME NEW s, NEW lg, IsLog(lg), NEW k0 \in Nat \ {0}, NEW k \in DOMAIN lg, k0 <= k, NEW m, NEW p,
           Scanning(s, lg, k0, k, m, p), L!CanCreate(SubSeq(lg, k0, Len(lg))),
           lg[k].type \in {"New", "Capture", "Tag", "Replace", "Link"}
    PROVE  Scanning(ScanEntry(s, k), lg, k0, k + 1, m, p)
<1> DEFINE d == Len(s.cs)
           c == s.cs[d]
           x == s.log[k]
           Next1(c2) == [s EXCEPT !.cs = [s.cs EXCEPT ![d] = c2]]
<1>0. NextEntry(s, lg, k0, k)
  BY ScanningEntry
<1>1. k \in Nat \ {0} /\ k \in DOMAIN s.log /\ x = lg[k] /\ IsLog(s.log) /\ s.cs \in Seq(Contexts) /\ d \in Nat \ {0}
  BY <1>0 DEF NextEntry
<1>2. c \in Contexts
  <2>1. d > 0
    BY <1>1
  <2> QED
    BY <1>1, <2>1, InnerContext
<1>3. x.i \in Operands /\ c.push \in Nat /\ c.size + 1 \in Nat
  <2>1. x.i \in Operands
    BY <1>1, EntryTypes
  <2> HIDE DEF x, c
  <2> QED
    BY <1>2, <2>1 DEF Contexts
<1>4. \A c2 \in Contexts : c2.push = c.push => Scanning(Next1(c2), lg, k0, k + 1, m, p)
  <2>1. lg[k].type \notin {"Push", "Pop"}
    OBVIOUS
  <2> QED
    BY <2>1, SimpleScan
<1>5. CASE x.type = "New"
  <2> DEFINE c2 == Context(k, x.i, c.push)
  <2>1. ScanEntry(s, k) = Next1(c2)
    BY <1>5 DEF ScanEntry
  <2>2. c2 \in Contexts /\ c2.push = c.push
    <3> HIDE DEF x, c
    <3> QED
      BY <1>1, <1>3, ContextTypes
  <2> HIDE DEF c2, Next1, c
  <2> QED
    BY <1>4, <2>1, <2>2
<1>6. CASE x.type = "Capture"
  <2> DEFINE c2 == [c EXCEPT !.epos = x.i]
  <2>1. ScanEntry(s, k) = Next1(c2)
    BY <1>6 DEF ScanEntry
  <2>2. c2 \in Contexts /\ c2.push = c.push
    <3> HIDE DEF x, c
    <3> QED
      BY <1>2, <1>3, ContextChanged
  <2> HIDE DEF c2, Next1, c
  <2> QED
    BY <1>4, <2>1, <2>2
<1>7. CASE x.type = "Tag"
  <2> DEFINE c2 == [c EXCEPT !.tag = x.i]
  <2>1. ScanEntry(s, k) = Next1(c2)
    BY <1>7 DEF ScanEntry
  <2>2. c2 \in Contexts /\ c2.push = c.push
    <3> HIDE DEF x, c
    <3> QED
      BY <1>2, <1>3, ContextChanged
  <2> HIDE DEF c2, Next1, c
  <2> QED
    BY <1>4, <2>1, <2>2
<1>8. CASE x.type = "Replace"
  <2> DEFINE c2 == [c EXCEPT !.value = x.i]
  <2>1. ScanEntry(s, k) = Next1(c2)
    BY <1>8 DEF ScanEntry
  <2>2. c2 \in Contexts /\ c2.push = c.push
    <3> HIDE DEF x, c
    <3> QED
      BY <1>2, <1>3, ContextChanged
  <2> HIDE DEF c2, Next1, c
  <2> QED
    BY <1>4, <2>1, <2>2
<1>9. CASE x.type = "Link"
  <2> DEFINE c2 == [c EXCEPT !.size = c.size + 1]
  <2>1. ScanEntry(s, k) = Next1(c2)
    BY <1>9 DEF ScanEntry
  <2>2. c2 \in Contexts /\ c2.push = c.push
    <3> HIDE DEF x, c
    <3> QED
      BY <1>2, <1>3, ContextCounted
  <2> HIDE DEF c2, Next1, c
  <2> QED
    BY <1>4, <2>1, <2>2
<1> QED
  BY <1>1, <1>5, <1>6, <1>7, <1>8, <1>9

LEMMA EntryScan ==
    ASSUME NEW s, NEW lg, IsLog(lg), NEW k0 \in Nat \ {0}, NEW k \in DOMAIN lg, k0 <= k, NEW m, NEW p,
           Scanning(s, lg, k0, k, m, p), L!CanCreate(SubSeq(lg, k0, Len(lg)))
    PROVE  Scanning(ScanEntry(s, k), lg, k0, k + 1, m, p)
<1>1. lg[k].type \in {"New", "Capture", "Tag", "Replace", "Link", "Push", "Pop", "LeftFold"}
  BY EntryTypes DEF Types
<1>2. CASE lg[k].type \in {"New", "Capture", "Tag", "Replace", "Link"}
  BY <1>2, FieldScan
<1>3. CASE lg[k].type = "Push"
  BY <1>3, PushScan
<1>4. CASE lg[k].type = "Pop"
  BY <1>4, PopScan
<1>5. CASE lg[k].type = "LeftFold"
  BY <1>5, FoldScan
<1> QED
  BY <1>1, <1>2, <1>3, <1>4, <1>5

LEMMA FirstScan ==
    ASSUME NEW st, NEW lg, IsLog(lg), NEW k0 \in DOMAIN lg, NEW m, NEW p, Exactly(st, lg, m, p)
    PROVE  Scanning(Begin(st, lg, k0), lg, k0, k0, m, p)
<1> DEFINE c == Context(k0, lg[k0].i, 0)
           s == Begin(st, lg, k0)
<1>1. DOMAIN lg = 1..Len(lg) /\ Len(lg) \in Nat /\ k0 \in Nat \ {0} /\ lg[k0].i \in Operands
  <2>1. DOMAIN lg = 1..Len(lg) /\ Len(lg) \in Nat /\ lg[k0].i \in Operands
    BY EntryTypes
  <2> QED
    BY <2>1
<1>2. c \in Contexts
  BY <1>1, ContextTypes
<1>3. s = [st |-> st, log |-> lg, cs |-> <<c>>]
  BY DEF Begin
<1> HIDE DEF s, c
<1>4. s.st = st /\ s.log = lg /\ s.cs = <<c>> /\ s = [st |-> s.st, log |-> s.log, cs |-> s.cs]
  BY <1>3
<1>5. <<c>> \in Seq(Contexts) /\ Len(<<c>>) = 1
  <2> DEFINE T == Contexts
  <2>1. c \in T
    BY <1>2
  <2> HIDE DEF T
  <2>2. <<c>> \in Seq(T) /\ Len(<<c>>) = 1
    BY <2>1
  <2> QED
    BY <2>2 DEF T
<1>6. PushesKnown(<<c>>, lg, k0, k0)
  BY <1>5 DEF PushesKnown
<1>7. L!OpenAfter(SubSeq(lg, k0, Len(lg)), k0 - k0) = 0
  <2>1. k0 - k0 = 0
    BY <1>1
  <2> QED
    BY <2>1, NothingOpen
<1>8. \A j \in DOMAIN lg : s.log[j] = lg[j]
  BY <1>4
<1> QED
  BY <1>4, <1>5, <1>6, <1>7, <1>8 DEF Scanning, s

\* The whole loop.
LEMMA ScanDone ==
    ASSUME NEW st, NEW lg, IsLog(lg), NEW k0 \in DOMAIN lg, NEW m, NEW p, Exactly(st, lg, m, p),
           L!CanCreate(SubSeq(lg, k0, Len(lg)))
    PROVE  Scanning(Scanned(st, lg, k0), lg, k0, Len(lg) + 1, m, p)
<1>1. DOMAIN lg = 1..Len(lg) /\ Len(lg) \in Nat /\ k0 \in Nat \ {0} /\ k0 <= Len(lg)
  <2>1. DOMAIN lg = 1..Len(lg) /\ Len(lg) \in Nat
    BY EntryTypes
  <2> QED
    BY <2>1
<1> DEFINE to == Len(lg) - k0 + 1
<1>2. to \in Nat /\ k0 + to = Len(lg) + 1
  BY <1>1
<1>3. PICK f : ScanSteps(f, st, lg, k0, to)
  BY <1>2, ScanIsFunction
<1> DEFINE Good == {n \in Nat : n <= to => Scanning(f[n], lg, k0, k0 + n, m, p)}
<1>4. 0 \in Good
  <2>1. f[0] = Begin(st, lg, k0) /\ k0 + 0 = k0
    BY <1>1, <1>3 DEF ScanSteps
  <2>2. Scanning(f[0], lg, k0, k0 + 0, m, p)
    BY <2>1, FirstScan
  <2> QED
    BY <2>2
<1>5. ASSUME NEW n \in Good PROVE n + 1 \in Good
  <2>1. n \in Nat /\ (n <= to => Scanning(f[n], lg, k0, k0 + n, m, p))
    OBVIOUS
  <2> SUFFICES ASSUME n + 1 <= to PROVE Scanning(f[n + 1], lg, k0, k0 + (n + 1), m, p)
    BY <2>1
  <2> HIDE DEF Good
  <2> DEFINE k == k0 + n
  <2>2. k \in DOMAIN lg /\ k0 <= k /\ k0 + (n + 1) = k + 1 /\ k0 + (n + 1) - 1 = k
    <3> DEFINE len == Len(lg)
    <3>1. n \in Nat /\ k0 \in Nat \ {0} /\ len \in Nat /\ DOMAIN lg = 1..len /\ n + 1 <= len - k0 + 1
      BY <1>1, <2>1
    <3> HIDE DEF len
    <3> QED
      BY <3>1
  <2>3. Scanning(f[n], lg, k0, k, m, p)
    BY <1>2, <2>1
  <2>4. f[n + 1] = ScanEntry(f[n], k)
    <3>1. n + 1 \in Nat /\ 0 < n + 1 /\ (n + 1) - 1 = n
      BY <2>1
    <3>2. f[n + 1] = ScanEntry(f[(n + 1) - 1], k0 + (n + 1) - 1)
      <4> DEFINE i == n + 1
                 end == to
      <4>1. i \in Nat /\ 0 < i /\ i <= end
        BY <3>1
      <4>2. \A j \in Nat : 0 < j /\ j <= end => f[j] = ScanEntry(f[j - 1], k0 + j - 1)
        BY <1>3 DEF ScanSteps
      <4> HIDE DEF i, end
      <4>3. f[i] = ScanEntry(f[i - 1], k0 + i - 1)
        BY <4>1, <4>2
      <4> QED
        BY <4>3 DEF i
    <3> HIDE DEF k
    <3> QED
      BY <2>2, <3>1, <3>2
  <2> HIDE DEF k
  <2> QED
    BY <1>1, <2>2, <2>3, <2>4, EntryScan
<1> HIDE DEF to
<1>6. to \in Good
  <2> HIDE DEF Good
  <2>1. Good = Nat
    <3>1. Good \in SUBSET Nat
      BY DEF Good
    <3> QED
      BY <1>4, <1>5, <3>1, InductionInSet
  <2> QED
    BY <1>2, <2>1
<1>7. Scanned(st, lg, k0) = f[to]
  BY <1>3 DEF ScanSteps
<1> QED
  BY <1>2, <1>6, <1>7

\* The state in which the node of a segment has been made.
IsCreated(st, lg, k0, m, p) ==
    LET s == Scanned(st, lg, k0)
    IN  /\ IsLog(s.log) /\ Len(s.log) = Len(lg)
        /\ \A j \in DOMAIN lg : j < k0 => s.log[j] = lg[j]
        /\ IsBuilt(constructLeft(s, Len(lg)), OutOf(s.log, m, p), node_alloc(s.st))

LEMMA Created ==
    ASSUME NEW st, NEW lg, IsLog(lg), NEW k0 \in DOMAIN lg, NEW m, NEW p, Exactly(st, lg, m, p),
           L!CanCreate(SubSeq(lg, k0, Len(lg)))
    PROVE  IsCreated(st, lg, k0, m, p)
<1> DEFINE s == Scanned(st, lg, k0)
           seg == SubSeq(lg, k0, Len(lg))
<1>1. DOMAIN lg = 1..Len(lg) /\ Len(lg) \in Nat /\ k0 \in Nat \ {0} /\ k0 <= Len(lg)
  <2>1. DOMAIN lg = 1..Len(lg) /\ Len(lg) \in Nat
    BY EntryTypes
  <2> QED
    BY <2>1
<1>2. Scanning(s, lg, k0, Len(lg) + 1, m, p)
  BY ScanDone
<1> HIDE DEF s
<1>3. /\ IsLog(s.log) /\ Len(s.log) = Len(lg) /\ \A j \in DOMAIN lg : j < k0 => s.log[j] = lg[j]
      /\ Exactly(s.st, s.log, m, p) /\ s.cs \in Seq(Contexts)
      /\ Len(s.cs) = 1 + L!OpenAfter(seg, Len(lg) + 1 - k0)
  BY <1>2 DEF Scanning, Exactly, PushesKnown
<1>4. Len(s.cs) = 1
  <2>1. Len(seg) = Len(lg) + 1 - k0
    <3>1. lg \in Seq(Entries)
      BY EntryTypes
    <3> QED
      BY <1>1, <3>1
  <2>2. L!OpenAfter(seg, Len(seg)) = 0
    BY DEF L!CanCreate
  <2> HIDE DEF seg
  <2> QED
    BY <1>3, <2>1, <2>2
<1>5. s.cs[Len(s.cs)] \in Contexts /\ Last(s.cs) = s.cs[Len(s.cs)]
  <2>1. Len(s.cs) > 0
    BY <1>4
  <2> QED
    BY <1>3, <2>1, InnerContext
<1>6. Len(lg) \in 0..Len(s.log)
  BY <1>1, <1>3
<1>7. IsBuilt(constructLeft(s, Len(lg)), OutOf(s.log, m, p), node_alloc(s.st))
  BY <1>3, <1>5, <1>6, Constructed
<1> QED
  BY <1>3, <1>7 DEF IsCreated, s

-----------------------------------------------------------------------------
(***************************************************************************)
(* The log is cut or grows.                                                *)
(***************************************************************************)
LEMMA EntryAppended ==
    ASSUME NEW lg, IsLog(lg), NEW x \in Entries, x.type = "Link" => x.e \in Nat \ {Null}
    PROVE  LET r == Append(lg, x) IN IsLog(r) /\ ChangedAt(lg, r, Len(lg) + 1) /\ r[Len(lg) + 1] = x
<1> DEFINE r == Append(lg, x)
<1>1. lg \in Seq(Entries) /\ Len(lg) \in Nat /\ DOMAIN lg = 1..Len(lg)
  BY EntryTypes
<1>2. /\ r \in Seq(Entries) /\ DOMAIN r = 1..(Len(lg) + 1)
      /\ r[Len(lg) + 1] = x /\ \A i \in 1..Len(lg) : r[i] = lg[i]
  BY <1>1
<1> HIDE DEF r
<1>3. \A i \in DOMAIN r : i # Len(lg) + 1 => i \in DOMAIN lg /\ r[i] = lg[i]
  BY <1>1, <1>2
<1>4. Len(lg) + 1 \in DOMAIN r /\ Len(lg) + 1 \notin DOMAIN lg /\ DOMAIN lg \subseteq DOMAIN r
  BY <1>1, <1>2
<1>5. ChangedAt(lg, r, Len(lg) + 1)
  BY <1>3, <1>4 DEF ChangedAt
<1>6. IsLog(r)
  BY <1>2, <1>3 DEF IsLog
<1> QED
  BY <1>2, <1>5, <1>6 DEF r

LEMMA LogCut ==
    ASSUME NEW lg, IsLog(lg), NEW tx \in 0..Len(lg)
    PROVE  LET r == SubSeq(lg, 1, tx) IN IsLog(r) /\ DOMAIN r = 1..tx /\ \A i \in 1..tx : r[i] = lg[i]
<1> DEFINE r == SubSeq(lg, 1, tx)
<1>1. lg \in Seq(Entries) /\ Len(lg) \in Nat /\ DOMAIN lg = 1..Len(lg) /\ tx \in Nat /\ tx <= Len(lg)
  BY EntryTypes
<1>2. r \in Seq(Entries) /\ DOMAIN r = 1..tx /\ \A i \in 1..tx : r[i] = lg[i]
  BY <1>1
<1> HIDE DEF r
<1>3. \A i \in 1..tx : i \in DOMAIN lg
  BY <1>1
<1>4. IsLog(r)
  BY <1>2, <1>3 DEF IsLog
<1> QED
  BY <1>2, <1>4 DEF r

\* ast_rollback_tx takes away one reference for every link that it cuts off.
IsCut(st, lg, m, p, tx, Z) ==
    LET r == Cut(st, lg, tx)
    IN  r \in Stores(Operands) /\ Settled(r, OutOf(SubSeq(lg, 1, tx), m, p), Z) /\ Shrinks(st, r)

LEMMA CutOff ==
    ASSUME NEW lg, IsLog(lg), NEW m \in Memos, NEW p \in Nat, NEW tx \in 0..Len(lg),
           NEW st \in Stores(Operands), NEW Z, Settled(st, OutOf(lg, m, p), Z)
    PROVE  IsCut(st, lg, m, p, tx, Z)
<1> DEFINE nodes == [k \in 1..Len(lg) |-> IF k > tx /\ lg[k].type = "Link" THEN lg[k].e ELSE Null]
           left == SubSeq(lg, 1, tx)
           out == OutOf(lg, m, p)
           out1 == OutOf(left, m, p)
<1>1. /\ Len(lg) \in Nat /\ DOMAIN lg = 1..Len(lg)
      /\ \A k \in DOMAIN lg : lg[k].type = "Link" => lg[k].e \in Nat \ {Null}
  BY EntryTypes
<1>2. nodes \in Seq(Nat) /\ DOMAIN nodes = 1..Len(lg)
  <2>1. \A k \in 1..Len(lg) : nodes[k] \in Nat
    BY <1>1 DEF Null
  <2> QED
    BY <1>1, <2>1
<1>3. IsLog(left) /\ DOMAIN left = 1..tx /\ \A i \in 1..tx : left[i] = lg[i]
  BY LogCut
<1>4. tx \in Nat /\ tx <= Len(lg)
  BY <1>1
<1>5. out \in [Nat -> Nat] /\ out1 \in [Nat -> Nat]
  BY <1>3, HeldTypes
<1>6. \A k \in 1..Len(lg) : nodes[k] = IF k > tx /\ lg[k].type = "Link" THEN lg[k].e ELSE Null
  OBVIOUS
<1>7. Cut(st, lg, tx) = ReleaseAll(st, nodes)
  BY DEF Cut
<1> HIDE DEF nodes, left, out, out1
<1>8. ASSUME NEW n \in Nat \ {Null} PROVE out[n] = out1[n] + Cardinality(Where(nodes, n))
  <2> DEFINE A == LinksTo(left, n)
             B == Where(nodes, n)
  <2>1. LinksTo(lg, n) = A \cup B
    BY <1>1, <1>2, <1>3, <1>4, <1>6 DEF LinksTo, Where
  <2>2. A \cap B = {}
    BY <1>1, <1>2, <1>3, <1>4, <1>6 DEF LinksTo, Where
  <2>3. IsFiniteSet(A) /\ IsFiniteSet(B) /\ Cardinality(A) \in Nat /\ Cardinality(B) \in Nat
    <3>1. IsFiniteSet(A) /\ IsFiniteSet(LinksTo(lg, n))
      BY <1>3, HeldTypes
    <3>2. B \in SUBSET LinksTo(lg, n)
      BY <2>1
    <3> HIDE DEF A, B
    <3> QED
      BY <3>1, <3>2, FS_Subset, FS_CardinalityType
  <2> HIDE DEF A, B
  <2>4. Cardinality(A \cup B) = Cardinality(A) + Cardinality(B)
    <3>1. Cardinality(A \cup B) = Cardinality(A) + Cardinality(B) - Cardinality(A \cap B)
      BY <2>3, FS_Union
    <3>2. Cardinality(A \cap B) = 0
      BY <2>2, FS_EmptySet
    <3> QED
      BY <2>3, <3>1, <3>2
  <2>5. out[n] = HeldBy(lg, m, p, n) /\ out1[n] = HeldBy(left, m, p, n)
    BY <1>3, HeldTypes DEF out, out1
  <2>6. Cardinality(SlotsOf(m, n)) \in Nat /\ IsParsed(p, n) \in Nat
    BY HeldTypes
  <2>7. out[n] = Cardinality(A) + Cardinality(B) + Cardinality(SlotsOf(m, n)) + IsParsed(p, n)
    BY <2>1, <2>4, <2>5 DEF HeldBy
  <2>8. out1[n] = Cardinality(A) + Cardinality(SlotsOf(m, n)) + IsParsed(p, n)
    BY <2>5 DEF HeldBy, A
  <2>9. out[n] = out1[n] + Cardinality(B)
    BY <2>3, <2>6, <2>7, <2>8
  <2> QED
    BY <2>9 DEF B
<1> DEFINE r == ReleaseAll(st, nodes)
<1>9. r \in Stores(Operands) /\ Settled(r, out1, Z) /\ Shrinks(st, r)
  BY <1>2, <1>5, <1>8, SomeOperands, ReleasedAll DEF out
<1> QED
  BY <1>7, <1>9 DEF IsCut, out1, left

\* The node that a commit has built stays new.
LEMMA BuiltCut ==
    ASSUME NEW lg, IsLog(lg), NEW m \in Memos, NEW p \in Nat, NEW tx \in 0..Len(lg),
           NEW st, NEW o, IsBuilt(st, OutOf(lg, m, p), o)
    PROVE  IsBuilt(Cut(st, lg, tx), OutOf(SubSeq(lg, 1, tx), m, p), o)
<1> DEFINE r == Cut(st, lg, tx)
           out1 == OutOf(SubSeq(lg, 1, tx), m, p)
<1>1. st \in Stores(Operands) /\ Settled(st, OutOf(lg, m, p), {o}) /\ Ranked(st) /\ o \in Nat \ {Null}
  BY DEF IsBuilt
<1>2. r \in Stores(Operands) /\ Settled(r, out1, {o}) /\ Shrinks(st, r)
  BY <1>1, CutOff DEF IsCut
<1> HIDE DEF r, out1
<1>3. Ranked(r)
  BY <1>1, <1>2, RankedKept
<1>4. o \in DOMAIN r.cells /\ ~IsFree(r, o)
  BY <1>2 DEF Settled, NewExact
<1>5. out1[o] \in Nat /\ ~(out1[o] > 0)
  <2>1. out1[o] \in Nat
    BY <1>1, <1>2 DEF Settled, Outside
  <2>2. out1[o] > 0 => o \notin {o}
    BY <1>1, <1>2, HeldIsInUse
  <2> QED
    BY <2>1, <2>2
<1>6. out1[o] = 0
  BY <1>5
<1> QED
  BY <1>1, <1>2, <1>3, <1>4, <1>6 DEF IsBuilt, r, out1

\* Another log with the same entries up to tx.
LEMMA SameCut ==
    ASSUME NEW lg, IsLog(lg), NEW lg2, IsLog(lg2), Len(lg2) = Len(lg), NEW tx \in 0..Len(lg),
           \A j \in DOMAIN lg : j <= tx => lg2[j] = lg[j]
    PROVE  SubSeq(lg2, 1, tx) = SubSeq(lg, 1, tx)
<1>1. /\ lg \in Seq(Entries) /\ lg2 \in Seq(Entries) /\ Len(lg) \in Nat /\ DOMAIN lg = 1..Len(lg) /\ tx \in Nat /\ tx <= Len(lg)
  BY EntryTypes
<1> DEFINE a == SubSeq(lg, 1, tx)
           b == SubSeq(lg2, 1, tx)
<1>2. /\ a \in Seq(Entries) /\ b \in Seq(Entries) /\ Len(a) = tx /\ Len(b) = tx
      /\ \A i \in 1..tx : a[i] = lg[i] /\ b[i] = lg2[i]
  BY <1>1
<1>3. \A i \in 1..tx : i \in DOMAIN lg /\ i <= tx
  BY <1>1
<1> HIDE DEF a, b
<1>4. \A i \in 1..tx : a[i] = b[i]
  BY <1>2, <1>3
<1>5. a = b
  BY <1>1, <1>2, <1>4
<1> QED
  BY <1>5 DEF a, b

-----------------------------------------------------------------------------
(***************************************************************************)
(* Links, slots and the root.                                              *)
(***************************************************************************)
\* LinkNode of a node that somebody holds.
LEMMA Linked ==
    ASSUME NEW st, NEW lg, NEW m, NEW p, Exactly(st, lg, m, p), NEW label \in Operands,
           NEW n \in Nat \ {Null}, OutOf(lg, m, p)[n] > 0
    PROVE  Exactly(Retain(st, n), Append(lg, LinkEntry(label, n, 0)), m, p)
<1> DEFINE x == LinkEntry(label, n, 0)
           lg2 == Append(lg, x)
           r == Retain(st, n)
           out == OutOf(lg, m, p)
<1>1. st \in Stores(Operands) /\ IsLog(lg) /\ m \in Memos /\ p \in Nat /\ Settled(st, out, {}) /\ Ranked(st)
  BY DEF Exactly
<1>2. x \in Entries /\ x.type = "Link" /\ x.e = n
  <2>1. n \in Operands /\ 0 \in Int
    BY SomeOperands
  <2> QED
    BY <2>1 DEF LinkEntry, Entries, Types
<1> HIDE DEF x
<1>3. IsLog(lg2) /\ ChangedAt(lg, lg2, Len(lg) + 1) /\ lg2[Len(lg) + 1] = x
  BY <1>1, <1>2, EntryAppended
<1> HIDE DEF lg2
<1>4. OutOf(lg2, m, p) = [out EXCEPT ![n] = @ + 1]
  BY <1>1, <1>2, <1>3, LinkAdded
<1>5. n \in DOMAIN st.cells /\ ~IsFree(st, n)
  BY <1>1, HeldIsInUse
<1> HIDE DEF out
<1>6. r \in Stores(Operands) /\ Settled(r, [out EXCEPT ![n] = @ + 1], {} \ {n}) /\ SameCells(st, r)
  BY <1>1, <1>5, Retained
<1>7. {} \ {n} = {}
  OBVIOUS
<1>8. Ranked(r)
  BY <1>1, <1>6, RankedKept, ShrinksSame
<1> HIDE DEF r
<1>9. Settled(r, OutOf(lg2, m, p), {})
  BY <1>4, <1>6, <1>7
<1> QED
  BY <1>1, <1>3, <1>6, <1>8, <1>9 DEF Exactly, r, lg2, x

\* A new node that is given to the client.
LEMMA Given ==
    ASSUME NEW lg, IsLog(lg), NEW m \in Memos, NEW st, NEW o, IsBuilt(st, OutOf(lg, m, Null), o)
    PROVE  Exactly(Retain(st, o), lg, m, o)
<1> DEFINE r == Retain(st, o)
           out == OutOf(lg, m, Null)
           out2 == OutOf(lg, m, o)
           more == [out EXCEPT ![o] = @ + 1]
<1>1. /\ st \in Stores(Operands) /\ Settled(st, out, {o}) /\ Ranked(st) /\ o \in DOMAIN st.cells /\ ~IsFree(st, o)
      /\ o \in Nat \ {Null}
  BY DEF IsBuilt
<1>2. Null \in Nat
  BY DEF Null
<1>3. /\ out \in [Nat -> Nat] /\ out2 \in [Nat -> Nat]
      /\ \A x \in Nat \ {Null} : out[x] = HeldBy(lg, m, Null, x) /\ out2[x] = HeldBy(lg, m, o, x)
  BY <1>1, <1>2, HeldTypes
<1> HIDE DEF out, out2
<1>4. \A x \in Nat : more[x] = IF x = o THEN out[x] + 1 ELSE out[x]
  BY <1>3
<1> HIDE DEF more
<1>5. \A x \in Nat \ {Null} : out2[x] = more[x]
  <2> TAKE x \in Nat \ {Null}
  <2>1. Cardinality(LinksTo(lg, x)) \in Nat /\ Cardinality(SlotsOf(m, x)) \in Nat
    BY <1>2, HeldTypes
  <2>2. IsParsed(Null, x) = 0 /\ IsParsed(o, x) = IF x = o THEN 1 ELSE 0
    BY DEF IsParsed
  <2> QED
    BY <1>3, <1>4, <2>1, <2>2 DEF HeldBy
<1>6. /\ r \in Stores(Operands) /\ Settled(r, more, {o} \ {o}) /\ SameCells(st, r)
  BY <1>1, Retained DEF more
<1>7. {o} \ {o} = {}
  OBVIOUS
<1>8. Ranked(r)
  BY <1>1, <1>6, RankedKept, ShrinksSame
<1> HIDE DEF r
<1>9. Settled(r, more, {})
  BY <1>6, <1>7
<1>10. Settled(r, out2, {})
  BY <1>3, <1>5, <1>6, <1>9, OutsideAlike
<1> QED
  BY <1>1, <1>6, <1>8, <1>10 DEF Exactly, r, out2

\* The client gives its node back.
LEMMA GivenBack ==
    ASSUME NEW st, NEW lg, NEW m, NEW p, Exactly(st, lg, m, p), p # Null
    PROVE  Exactly(Release(st, p), lg, m, Null)
<1> DEFINE r == Release(st, p)
           out == OutOf(lg, m, p)
           out2 == OutOf(lg, m, Null)
           less == [out EXCEPT ![p] = @ - 1]
<1>1. /\ st \in Stores(Operands) /\ IsLog(lg) /\ m \in Memos /\ p \in Nat \ {Null} /\ Null \in Nat
      /\ Settled(st, out, {}) /\ Ranked(st)
  BY DEF Exactly, Null
<1>2. /\ out \in [Nat -> Nat] /\ out2 \in [Nat -> Nat]
      /\ \A x \in Nat \ {Null} : out[x] = HeldBy(lg, m, p, x) /\ out2[x] = HeldBy(lg, m, Null, x)
  BY <1>1, HeldTypes
<1> HIDE DEF out, out2
<1>3. \A x \in Nat \ {Null} : /\ out2[x] = Cardinality(LinksTo(lg, x)) + Cardinality(SlotsOf(m, x))
                              /\ out[x] = out2[x] + (IF x = p THEN 1 ELSE 0)
  <2> TAKE x \in Nat \ {Null}
  <2>1. Cardinality(LinksTo(lg, x)) \in Nat /\ Cardinality(SlotsOf(m, x)) \in Nat
    BY <1>1, HeldTypes
  <2>2. IsParsed(Null, x) = 0 /\ IsParsed(p, x) = IF x = p THEN 1 ELSE 0
    BY DEF IsParsed
  <2> QED
    BY <1>2, <2>1, <2>2 DEF HeldBy
<1>4. out[p] > 0
  BY <1>1, <1>2, <1>3
<1>5. \A x \in Nat : less[x] = IF x = p THEN out[x] - 1 ELSE out[x]
  BY <1>2
<1> HIDE DEF less
<1>6. \A x \in Nat \ {Null} : out2[x] = less[x]
  <2> TAKE x \in Nat \ {Null}
  <2>1. out2[x] \in Nat /\ out[x] = out2[x] + (IF x = p THEN 1 ELSE 0)
    BY <1>2, <1>3
  <2> QED
    BY <1>5, <2>1
<1>7. r \in Stores(Operands) /\ Settled(r, less, {}) /\ Shrinks(st, r)
  BY <1>1, <1>4, SomeOperands, Released DEF less
<1> HIDE DEF r
<1>8. Settled(r, out2, {}) /\ Ranked(r)
  BY <1>1, <1>2, <1>6, <1>7, OutsideAlike, RankedKept
<1> QED
  BY <1>1, <1>7, <1>8 DEF Exactly, r, out2

\* The slots of a node, apart from one.
LEMMA SlotsCounted ==
    ASSUME NEW m \in Memos, NEW slot \in Slots, NEW x
    PROVE  LET others == {s \in Slots \ {slot} : m[s] = x}
           IN  /\ Cardinality(others) \in Nat
               /\ Cardinality(SlotsOf(m, x)) = Cardinality(others) + (IF m[slot] = x THEN 1 ELSE 0)
<1> DEFINE S == {s \in Slots \ {slot} : m[s] = x}
<1>1. IsFiniteSet(S) /\ slot \notin S
  <2>1. S \in SUBSET Slots
    OBVIOUS
  <2> QED
    BY <2>1, SlotNumbers, FS_Subset
<1>2. SlotsOf(m, x) = IF m[slot] = x THEN S \cup {slot} ELSE S
  BY DEF SlotsOf
<1> HIDE DEF S
<1>3. Cardinality(S) \in Nat /\ Cardinality(S \cup {slot}) = Cardinality(S) + 1
  BY <1>1, FS_CardinalityType, FS_AddElement
<1>4. Cardinality(SlotsOf(m, x)) = Cardinality(S) + (IF m[slot] = x THEN 1 ELSE 0)
  BY <1>2, <1>3
<1> QED
  BY <1>3, <1>4 DEF S

\* What memo_set does to the references from outside.
MovesSlot(lg, m, m2, p, old, n) ==
    \A x \in Nat \ {Null} :
        OutOf(lg, m2, p)[x] + (IF old = x THEN 1 ELSE 0) = OutOf(lg, m, p)[x] + (IF n = x THEN 1 ELSE 0)

LEMMA SlotFilled ==
    ASSUME NEW lg, IsLog(lg), NEW m \in Memos, NEW p \in Nat, NEW slot \in Slots, NEW n \in Nat
    PROVE  LET m2 == [m EXCEPT ![slot] = n] IN m2 \in Memos /\ MovesSlot(lg, m, m2, p, m[slot], n)
<1> DEFINE m2 == [m EXCEPT ![slot] = n]
<1>1. m2 \in Memos /\ m2[slot] = n /\ \A s \in Slots : s # slot => m2[s] = m[s]
  BY DEF Memos
<1> HIDE DEF m2
<1>2. ASSUME NEW x \in Nat \ {Null}
      PROVE  OutOf(lg, m2, p)[x] + (IF m[slot] = x THEN 1 ELSE 0) = OutOf(lg, m, p)[x] + (IF n = x THEN 1 ELSE 0)
  <2> DEFINE A == {s \in Slots \ {slot} : m[s] = x}
             B == {s \in Slots \ {slot} : m2[s] = x}
  <2>1. A = B
    BY <1>1
  <2>2. Cardinality(A) \in Nat /\ Cardinality(SlotsOf(m, x)) = Cardinality(A) + (IF m[slot] = x THEN 1 ELSE 0)
    BY SlotsCounted
  <2>3. Cardinality(SlotsOf(m2, x)) = Cardinality(B) + (IF m2[slot] = x THEN 1 ELSE 0)
    BY <1>1, SlotsCounted
  <2> HIDE DEF A, B
  <2>4. Cardinality(LinksTo(lg, x)) \in Nat /\ IsParsed(p, x) \in Nat
    BY HeldTypes
  <2>5. OutOf(lg, m, p)[x] = HeldBy(lg, m, p, x)
    BY HeldTypes
  <2>6. OutOf(lg, m2, p)[x] = HeldBy(lg, m2, p, x)
    BY <1>1, HeldTypes
  <2> QED
    BY <1>1, <2>1, <2>2, <2>3, <2>4, <2>5, <2>6 DEF HeldBy
<1> QED
  BY <1>1, <1>2 DEF m2, MovesSlot

LEMMA Filled ==
    ASSUME NEW st, NEW lg, NEW m, NEW p, Exactly(st, lg, m, p), NEW slot \in Slots,
           NEW n \in Nat, n # Null => OutOf(lg, m, p)[n] > 0
    PROVE  Exactly(ReleaseIf(RetainIf(st, n), m[slot]), lg, [m EXCEPT ![slot] = n], p)
<1> DEFINE m2 == [m EXCEPT ![slot] = n]
           old == m[slot]
           out == OutOf(lg, m, p)
           out2 == OutOf(lg, m2, p)
           out1 == IF n = Null THEN out ELSE [out EXCEPT ![n] = @ + 1]
           less == IF old = Null THEN out1 ELSE [out1 EXCEPT ![old] = @ - 1]
           s1 == RetainIf(st, n)
           r == ReleaseIf(s1, old)
<1>1. /\ st \in Stores(Operands) /\ IsLog(lg) /\ m \in Memos /\ p \in Nat
      /\ Settled(st, out, {}) /\ Ranked(st) /\ old \in Nat
  BY DEF Exactly, Memos
<1>2. /\ m2 \in Memos
      /\ \A x \in Nat \ {Null} : out2[x] + (IF old = x THEN 1 ELSE 0) = out[x] + (IF n = x THEN 1 ELSE 0)
  <2>1. m2 \in Memos /\ MovesSlot(lg, m, m2, p, old, n)
    BY <1>1, SlotFilled
  <2> HIDE DEF m2, old
  <2> QED
    BY <2>1 DEF MovesSlot
<1>3. out \in [Nat -> Nat] /\ out2 \in [Nat -> Nat]
  BY <1>1, <1>2, HeldTypes
<1>4. old # Null => out[old] > 0
  BY <1>1, SlotHolds
<1> HIDE DEF m2, out, out2, old
<1>5. /\ out1 \in [Nat -> Nat]
      /\ \A x \in Nat \ {Null} : out1[x] = out[x] + (IF n = x THEN 1 ELSE 0)
  <2>1. CASE n = Null
    BY <1>3, <2>1
  <2>2. CASE n # Null
    <3> DEFINE more == [out EXCEPT ![n] = @ + 1]
    <3>1. \A x \in Nat : more[x] = (IF n = x THEN out[x] + 1 ELSE out[x]) /\ out[x] \in Nat
      BY <1>3
    <3>2. more = [x \in Nat |-> more[x]]
      BY <1>3
    <3> HIDE DEF more
    <3>3. more \in [Nat -> Nat]
      BY <3>1, <3>2
    <3>4. out1 = more
      BY <2>2 DEF more
    <3> HIDE DEF out1
    <3> QED
      BY <3>1, <3>3, <3>4
  <2> QED
    BY <2>1, <2>2
<1>6. s1 \in Stores(Operands) /\ Settled(s1, out1, {}) /\ Shrinks(st, s1)
  <2>1. CASE n = Null
    <3>1. s1 = st /\ out1 = out
      BY <2>1 DEF RetainIf
    <3>2. Shrinks(st, st)
      BY DEF Shrinks
    <3> QED
      BY <1>1, <3>1, <3>2
  <2>2. CASE n # Null
    <3>1. n \in DOMAIN st.cells /\ ~IsFree(st, n)
      BY <1>1, <2>2, HeldIsInUse DEF out
    <3>2. s1 = Retain(st, n) /\ out1 = [out EXCEPT ![n] = @ + 1]
      BY <2>2 DEF RetainIf
    <3>3. LET t == Retain(st, n)
          IN  t \in Stores(Operands) /\ Settled(t, [out EXCEPT ![n] = @ + 1], {} \ {n}) /\ SameCells(st, t)
      BY <1>1, <3>1, Retained
    <3>4. {} \ {n} = {}
      OBVIOUS
    <3> HIDE DEF s1, out1
    <3>5. s1 \in Stores(Operands) /\ Settled(s1, out1, {}) /\ SameCells(st, s1)
      BY <3>2, <3>3, <3>4
    <3> QED
      BY <3>5, ShrinksSame
  <2> QED
    BY <2>1, <2>2
<1> HIDE DEF s1, out1
<1>7. r \in Stores(Operands) /\ Settled(r, less, {}) /\ Shrinks(st, r)
  <2>1. CASE old = Null
    <3>1. r = s1 /\ less = out1
      BY <2>1 DEF ReleaseIf
    <3> QED
      BY <1>6, <3>1
  <2>2. CASE old # Null
    <3>1. old \in Nat \ {Null} /\ out1[old] > 0
      <4>1. out[old] \in Nat /\ out[old] > 0 /\ out1[old] = out[old] + (IF n = old THEN 1 ELSE 0)
        BY <1>1, <1>3, <1>4, <1>5, <2>2
      <4> QED
        BY <1>1, <2>2, <4>1
    <3>2. r = Release(s1, old) /\ less = [out1 EXCEPT ![old] = @ - 1]
      BY <2>2 DEF ReleaseIf
    <3>3. LET t == Release(s1, old)
          IN  t \in Stores(Operands) /\ Settled(t, [out1 EXCEPT ![old] = @ - 1], {}) /\ Shrinks(s1, t)
      BY <1>6, <3>1, SomeOperands, Released
    <3> HIDE DEF r, less
    <3>4. r \in Stores(Operands) /\ Settled(r, less, {}) /\ Shrinks(s1, r)
      BY <3>2, <3>3
    <3> QED
      BY <1>6, <3>4, ShrinksFurther
  <2> QED
    BY <2>1, <2>2
<1>8. \A x \in Nat \ {Null} : out2[x] = less[x]
  <2> TAKE x \in Nat \ {Null}
  <2>1. less[x] = out1[x] - (IF old = x THEN 1 ELSE 0)
    <3>1. out1[x] \in Nat
      BY <1>5
    <3>2. CASE old = Null
      BY <3>1, <3>2
    <3>3. CASE old # Null
      BY <1>5, <3>1, <3>3
    <3> QED
      BY <3>2, <3>3
  <2>2. /\ out1[x] = out[x] + (IF n = x THEN 1 ELSE 0) /\ out[x] \in Nat /\ out2[x] \in Nat
        /\ out2[x] + (IF old = x THEN 1 ELSE 0) = out[x] + (IF n = x THEN 1 ELSE 0)
    BY <1>2, <1>3, <1>5
  <2> HIDE DEF less
  <2> QED
    BY <2>1, <2>2
<1> HIDE DEF r, less
<1>9. Settled(r, out2, {}) /\ Ranked(r)
  BY <1>1, <1>3, <1>7, <1>8, OutsideAlike, RankedKept
<1>10. Exactly(r, lg, m2, p)
  BY <1>1, <1>2, <1>7, <1>9 DEF Exactly, out2
<1> QED
  BY <1>10 DEF r, s1, m2, old

\* A machine that holds nothing.
Nulls == [s \in Slots |-> Null]

LEMMA NothingHeld ==
    ASSUME NEW p \in Nat
    PROVE  /\ IsLog(<<>>) /\ Nulls \in Memos
           /\ \A n : LinksTo(<<>>, n) = {}
           /\ \A n : n # Null => SlotsOf(Nulls, n) = {}
           /\ \A n \in Nat \ {Null} : OutOf(<<>>, Nulls, p)[n] = IsParsed(p, n)
<1>1. IsLog(<<>>)
  BY DEF IsLog
<1>2. Nulls \in Memos
  BY DEF Nulls, Memos, Null
<1>3. \A n : LinksTo(<<>>, n) = {}
  BY DEF LinksTo
<1>4. \A n : n # Null => SlotsOf(Nulls, n) = {}
  BY DEF SlotsOf, Nulls
<1>5. ASSUME NEW n \in Nat \ {Null} PROVE OutOf(<<>>, Nulls, p)[n] = IsParsed(p, n)
  <2>1. OutOf(<<>>, Nulls, p)[n] = HeldBy(<<>>, Nulls, p, n) /\ IsParsed(p, n) \in Nat
    BY <1>1, <1>2, HeldTypes
  <2>2. Cardinality(LinksTo(<<>>, n)) = 0 /\ Cardinality(SlotsOf(Nulls, n)) = 0
    BY <1>3, <1>4, FS_EmptySet
  <2> QED
    BY <2>1, <2>2 DEF HeldBy
<1> QED
  BY <1>1, <1>2, <1>3, <1>4, <1>5

\* moz_runtime_reset1: the log goes first, the memo table after it.
LEMMA ResetDone ==
    ASSUME NEW st, NEW lg, NEW m, NEW p, Exactly(st, lg, m, p)
    PROVE  Exactly(ReleaseAll(Cut(st, lg, 0), m), <<>>, Nulls, p)
<1> DEFINE s == Cut(st, lg, 0)
           r == ReleaseAll(s, m)
           out == OutOf(<<>>, m, p)
           out1 == OutOf(<<>>, Nulls, p)
<1>1. /\ st \in Stores(Operands) /\ IsLog(lg) /\ m \in Memos /\ p \in Nat
      /\ Settled(st, OutOf(lg, m, p), {}) /\ Ranked(st)
  BY DEF Exactly
<1>2. SubSeq(lg, 1, 0) = <<>> /\ 0 \in 0..Len(lg)
  <2>1. lg \in Seq(Entries) /\ Len(lg) \in Nat
    BY <1>1, EntryTypes
  <2> QED
    BY <2>1
<1>3. s \in Stores(Operands) /\ Settled(s, out, {}) /\ Shrinks(st, s)
  <2>1. IsCut(st, lg, m, p, 0, {})
    BY <1>1, <1>2, CutOff
  <2> HIDE DEF s
  <2> QED
    BY <1>2, <2>1 DEF IsCut, s
<1> HIDE DEF s
<1>4. IsLog(<<>>) /\ Nulls \in Memos
  BY <1>1, NothingHeld
<1>5. out \in [Nat -> Nat] /\ out1 \in [Nat -> Nat]
  BY <1>1, <1>4, HeldTypes
<1>6. m \in Seq(Nat) /\ DOMAIN m = Slots
  <2>1. MemoSlots \in Nat /\ m \in [1..MemoSlots -> Nat] /\ Slots = 1..MemoSlots
    BY <1>1, SlotNumbers DEF Memos
  <2> QED
    BY <2>1
<1>7. ASSUME NEW n \in Nat \ {Null} PROVE out[n] = out1[n] + Cardinality(Where(m, n))
  <2>1. Where(m, n) = SlotsOf(m, n)
    BY <1>6 DEF Where, SlotsOf
  <2>2. out[n] = HeldBy(<<>>, m, p, n) /\ out1[n] = IsParsed(p, n)
    BY <1>1, <1>4, HeldTypes, NothingHeld
  <2>3. Cardinality(LinksTo(<<>>, n)) = 0
    BY <1>1, NothingHeld, FS_EmptySet
  <2>4. Cardinality(SlotsOf(m, n)) \in Nat /\ IsParsed(p, n) \in Nat
    BY <1>1, <1>4, HeldTypes
  <2> QED
    BY <2>1, <2>2, <2>3, <2>4 DEF HeldBy
<1> HIDE DEF out, out1
<1>8. r \in Stores(Operands) /\ Settled(r, out1, {}) /\ Shrinks(s, r)
  BY <1>3, <1>5, <1>6, <1>7, SomeOperands, ReleasedAll
<1> HIDE DEF r
<1>9. Ranked(r)
  BY <1>1, <1>3, <1>8, RankedKept
<1> QED
  BY <1>1, <1>4, <1>8, <1>9 DEF Exactly, out1, r, s

LEMMA Begins == Exactly(NodeManager_init, <<>>, Nulls, Null)
<1> DEFINE r == NodeManager_init
           zero == [n \in Nat |-> 0]
           out == OutOf(<<>>, Nulls, Null)
<1>1. r \in Stores(Operands) /\ Settled(r, zero, {}) /\ Ranked(r)
  BY SomeOperands, ManagerMade
<1>2. Null \in Nat
  BY DEF Null
<1>3. IsLog(<<>>) /\ Nulls \in Memos /\ \A n \in Nat \ {Null} : out[n] = IsParsed(Null, n)
  BY <1>2, NothingHeld
<1>4. out \in [Nat -> Nat]
  BY <1>2, <1>3, HeldTypes
<1> HIDE DEF out, r
<1>5. \A n \in Nat \ {Null} : out[n] = zero[n]
  BY <1>3 DEF IsParsed
<1> HIDE DEF zero
<1>6. Settled(r, out, {})
  BY <1>1, <1>4, <1>5, OutsideAlike
<1> QED
  BY <1>1, <1>2, <1>3, <1>6 DEF Exactly, out, r

LEMMA BeginsAgain ==
    ASSUME NEW st, NEW lg, NEW m, NEW p, Exactly(st, lg, m, p)
    PROVE  NodeManager_reset(st) = NodeManager_init
<1> DEFINE r == NodeManager_init
<1>1. r \in Stores(Operands) /\ r.ok = TRUE
  <2>1. r \in Stores(Operands) /\ r.ok
    BY SomeOperands, ManagerMade
  <2> HIDE DEF r
  <2>2. r.ok \in BOOLEAN
    BY <2>1 DEF Stores
  <2> QED
    BY <2>1, <2>2
<1>2. st.ok = TRUE
  <2>1. st.ok /\ st \in Stores(Operands)
    BY DEF Exactly, Settled
  <2>2. st.ok \in BOOLEAN
    BY <2>1 DEF Stores
  <2> QED
    BY <2>1, <2>2
<1> HIDE DEF r
<1>3. r = [cells |-> r.cells, free |-> r.free, count |-> r.count, ok |-> TRUE]
  BY <1>1, StoreFields
<1>4. [r EXCEPT !.ok = TRUE] = r
  BY <1>3
<1> QED
  BY <1>2, <1>4 DEF NodeManager_reset, r

-----------------------------------------------------------------------------
(***************************************************************************)
(* The inductive invariant.  Every step keeps the counts exact.            *)
(***************************************************************************)
Counts == Exactly(store, log, memo, parsed)

\* No client has a root before the parse is over; after the reset nothing is
\* left in the log and in the memo table.
Phases ==
    /\ phase \in {"parse", "parsed", "reset"}
    /\ phase = "parse" => parsed = Null
    /\ phase = "reset" => log = <<>> /\ memo = Nulls

IInv == Counts /\ Phases

LEMMA OperandTypes ==
    /\ \A x \in Positions \cup Labels : x \in Operands
    /\ \A d \in Details : d.i \in Operands /\ d.type \in {"Capture", "Tag", "Replace"}
    /\ Nil \in Operands
<1>1. \A d \in Details : d.type \in {"Capture", "Tag", "Replace"}
  BY DetailsAssumption
<1>2. \A d \in Details : d.i \in Operands
  BY DEF Operands
<1> QED
  BY <1>1, <1>2 DEF Operands

LEMMA EntryCounts ==
    ASSUME Counts, NEW type \in Types \ {"Link"}, NEW i \in Operands, NEW e \in Operands,
           Append1(type, i, e), UNCHANGED <<store, memo, parsed>>
    PROVE  Counts'
<1> DEFINE x == [type |-> type, i |-> i, e |-> e, shift |-> 0]
<1>1. x \in Entries /\ x.type # "Link"
  BY DEF Entries
<1>2. log' = Append(log, x)
  BY DEF Append1
<1> HIDE DEF x
<1>3. IsLog(log)
  BY DEF Counts, Exactly
<1>4. IsLog(log') /\ ChangedAt(log, log', Len(log) + 1) /\ log'[Len(log) + 1] = x
  BY <1>1, <1>2, <1>3, EntryAppended
<1>5. OutOf(log', memo, parsed) = OutOf(log, memo, parsed)
  BY <1>1, <1>4, NoLinkAdded
<1> QED
  BY <1>4, <1>5 DEF Counts, Exactly

LEMMA LogStep == IInv /\ Log => IInv'
<1> SUFFICES ASSUME IInv, Log PROVE IInv'
  OBVIOUS
<1>1. UNCHANGED <<store, memo, parsed, phase>> /\ phase = "parse" /\ Counts
  BY DEF IInv, Log, Parsing
<1>2. Counts'
  <2>1. CASE \E p \in Positions : Append1("New", p, Nil)
    <3>1. PICK p \in Positions : Append1("New", p, Nil)
      BY <2>1
    <3> QED
      BY <1>1, <3>1, OperandTypes, EntryCounts DEF Types
  <2>2. CASE \E p \in Positions, l \in Labels : Append1("LeftFold", p, l)
    <3>1. PICK p \in Positions, l \in Labels : Append1("LeftFold", p, l)
      BY <2>2
    <3> QED
      BY <1>1, <3>1, OperandTypes, EntryCounts DEF Types
  <2>3. CASE \E d \in Details : Append1(d.type, d.i, Nil)
    <3>1. PICK d \in Details : Append1(d.type, d.i, Nil)
      BY <2>3
    <3>2. d.type \in Types \ {"Link"} /\ d.i \in Operands /\ Nil \in Operands
      BY OperandTypes DEF Types
    <3> QED
      BY <1>1, <3>1, <3>2, EntryCounts
  <2>4. CASE Append1("Push", Nil, Nil)
    BY <1>1, <2>4, OperandTypes, EntryCounts DEF Types
  <2>5. CASE \E l \in Labels : Append1("Pop", l, Nil)
    <3>1. PICK l \in Labels : Append1("Pop", l, Nil)
      BY <2>5
    <3> QED
      BY <1>1, <3>1, OperandTypes, EntryCounts DEF Types
  <2> QED
    BY <2>1, <2>2, <2>3, <2>4, <2>5 DEF Log
<1>3. Phases'
  BY <1>1 DEF IInv, Phases
<1> QED
  BY <1>2, <1>3 DEF IInv

LEMMA RollbackStep == IInv /\ Rollback => IInv'
<1> SUFFICES ASSUME IInv, Rollback PROVE IInv'
  OBVIOUS
<1>1. PICK tx \in 0..Len(log) : store' = Cut(store, log, tx) /\ log' = SubSeq(log, 1, tx)
  BY DEF Rollback
<1>2. UNCHANGED <<memo, parsed, phase>> /\ phase = "parse"
  BY DEF Rollback, Parsing
<1>3. /\ store \in Stores(Operands) /\ IsLog(log) /\ memo \in Memos /\ parsed \in Nat
      /\ Settled(store, OutOf(log, memo, parsed), {}) /\ Ranked(store)
  BY DEF IInv, Counts, Exactly
<1>4. store' \in Stores(Operands) /\ Settled(store', OutOf(log', memo, parsed), {}) /\ Shrinks(store, store')
  <2>1. IsCut(store, log, memo, parsed, tx, {})
    BY <1>3, CutOff
  <2> QED
    BY <1>1, <2>1 DEF IsCut
<1>5. IsLog(log')
  BY <1>1, <1>3, LogCut
<1>6. Ranked(store')
  BY <1>3, <1>4, RankedKept
<1>7. Counts'
  BY <1>2, <1>3, <1>4, <1>5, <1>6 DEF Counts, Exactly
<1>8. Phases'
  BY <1>2 DEF IInv, Phases
<1> QED
  BY <1>7, <1>8 DEF IInv

LEMMA CommitStep == IInv /\ Commit => IInv'
<1> SUFFICES ASSUME IInv, Commit PROVE IInv'
  OBVIOUS
<1>1. PICK tx \in 0..Len(log)-1, label \in Labels :
          /\ log[tx + 1].type = "New" /\ L!CanCreate(SubSeq(log, tx + 1, Len(log)))
          /\ LET s     == Scanned(store, log, tx + 1)
                 built == constructLeft(s, Len(log))
             IN  /\ InPool(built)
                 /\ LinkNode(Cut(built, s.log, tx), SubSeq(log, 1, tx), label, node_alloc(s.st))
  BY DEF Commit
<1> DEFINE s     == Scanned(store, log, tx + 1)
           built == constructLeft(s, Len(log))
           o     == node_alloc(s.st)
           st    == Cut(built, s.log, tx)
           left  == SubSeq(log, 1, tx)
           x     == LinkEntry(label, o, 0)
<1>2. store' = Retain(st, o) /\ log' = Append(left, x)
  BY <1>1 DEF LinkNode
<1>3. UNCHANGED <<memo, parsed, phase>> /\ phase = "parse"
  BY DEF Commit, Parsing
<1>4. Exactly(store, log, memo, parsed) /\ IsLog(log) /\ memo \in Memos /\ parsed \in Nat
  BY DEF IInv, Counts, Exactly
<1>5. /\ Len(log) \in Nat /\ DOMAIN log = 1..Len(log)
      /\ tx \in 0..Len(log) /\ tx + 1 \in DOMAIN log /\ \A j \in DOMAIN log : j <= tx => j < tx + 1
  <2>1. Len(log) \in Nat /\ DOMAIN log = 1..Len(log)
    BY <1>4, EntryTypes
  <2> QED
    BY <2>1
<1>6. IsCreated(store, log, tx + 1, memo, parsed)
  BY <1>1, <1>4, <1>5, Created
<1>7. /\ IsLog(s.log) /\ Len(s.log) = Len(log) /\ \A j \in DOMAIN log : j <= tx => s.log[j] = log[j]
      /\ IsBuilt(built, OutOf(s.log, memo, parsed), o)
  BY <1>5, <1>6 DEF IsCreated
<1> HIDE DEF s, built, o
<1>8. SubSeq(s.log, 1, tx) = left
  BY <1>4, <1>5, <1>7, SameCut
<1>9. IsBuilt(st, OutOf(SubSeq(s.log, 1, tx), memo, parsed), o)
  BY <1>4, <1>5, <1>7, BuiltCut
<1>10. IsLog(left)
  BY <1>4, <1>5, LogCut
<1>11. IsBuilt(st, OutOf(left, memo, parsed), o) /\ o \in Nat \ {Null}
  BY <1>8, <1>9 DEF IsBuilt
<1> HIDE DEF left, st
<1>12. x \in Entries /\ x.type = "Link" /\ x.e = o
  <2>1. label \in Operands /\ o \in Operands /\ 0 \in Int
    BY <1>11, OperandTypes, SomeOperands
  <2> QED
    BY <2>1 DEF LinkEntry, Entries, Types
<1> HIDE DEF x
<1>13. IsLog(log') /\ ChangedAt(left, log', Len(left) + 1) /\ log'[Len(left) + 1] = x
  BY <1>2, <1>10, <1>11, <1>12, EntryAppended
<1>14. Exactly(store', log', memo, parsed)
  BY <1>2, <1>4, <1>10, <1>11, <1>12, <1>13, BuiltHeld
<1>15. Counts'
  BY <1>3, <1>14 DEF Counts
<1>16. Phases'
  BY <1>3 DEF IInv, Phases
<1> QED
  BY <1>15, <1>16 DEF IInv

LEMMA LookupStep == IInv /\ Lookup => IInv'
<1> SUFFICES ASSUME IInv, Lookup PROVE IInv'
  OBVIOUS
<1>1. PICK s \in Slots, label \in Labels : memo[s] # Null /\ LinkNode(store, log, label, memo[s])
  BY DEF Lookup
<1>2. UNCHANGED <<memo, parsed, phase>> /\ phase = "parse"
  BY DEF Lookup, Parsing
<1>3. Exactly(store, log, memo, parsed) /\ IsLog(log) /\ memo \in Memos /\ parsed \in Nat
  BY DEF IInv, Counts, Exactly
<1> DEFINE n == memo[s]
<1>4. n \in Nat \ {Null} /\ OutOf(log, memo, parsed)[n] > 0
  BY <1>1, <1>3, SlotHolds
<1>5. store' = Retain(store, n) /\ log' = Append(log, LinkEntry(label, n, 0))
  BY <1>1 DEF LinkNode
<1> HIDE DEF n
<1>6. Exactly(store', log', memo, parsed)
  <2>1. label \in Operands
    BY OperandTypes
  <2> QED
    BY <1>3, <1>4, <1>5, <2>1, Linked
<1>7. Counts'
  BY <1>2, <1>6 DEF Counts
<1>8. Phases'
  BY <1>2 DEF IInv, Phases
<1> QED
  BY <1>7, <1>8 DEF IInv

LEMMA FillStep ==
    ASSUME IInv, phase = "parse", NEW s \in Slots, NEW n \in Nat, n # Null => OutOf(log, memo, parsed)[n] > 0,
           Fill(s, n), UNCHANGED <<log, parsed, phase>>
    PROVE  IInv'
<1>1. Exactly(store, log, memo, parsed)
  BY DEF IInv, Counts
<1>2. store' = ReleaseIf(RetainIf(store, n), memo[s]) /\ memo' = [memo EXCEPT ![s] = n]
  BY DEF Fill
<1>3. Exactly(store', log, memo', parsed)
  BY <1>1, <1>2, Filled
<1>4. Counts'
  BY <1>3 DEF Counts
<1>5. Phases'
  BY DEF IInv, Phases
<1> QED
  BY <1>4, <1>5 DEF IInv

LEMMA TMemoStep == IInv /\ TMemo => IInv'
<1> SUFFICES ASSUME IInv, TMemo PROVE IInv'
  OBVIOUS
<1>1. PICK s \in Slots : Fill(s, lastLinked)
  BY DEF TMemo
<1>2. /\ UNCHANGED <<log, parsed, phase>> /\ phase = "parse"
      /\ log # <<>> /\ log[Len(log)].type = "Link" /\ log[Len(log)].e = lastLinked
  BY DEF TMemo, Parsing
<1>3. IsLog(log) /\ memo \in Memos /\ parsed \in Nat
  BY DEF IInv, Counts, Exactly
<1> DEFINE k == Len(log)
<1>4. k \in DOMAIN log
  <2>1. k \in Nat /\ DOMAIN log = 1..k /\ log \in Seq(Entries)
    BY <1>3, EntryTypes
  <2>2. k # 0
    BY <1>2, <2>1
  <2> QED
    BY <2>1, <2>2
<1>5. log[k].type = "Link" /\ log[k].e = lastLinked
  BY <1>2
<1> HIDE DEF k
<1>6. log[k].e \in Nat \ {Null} /\ OutOf(log, memo, parsed)[log[k].e] > 0
  BY <1>3, <1>4, <1>5, LinkHolds
<1>7. lastLinked \in Nat /\ OutOf(log, memo, parsed)[lastLinked] > 0
  BY <1>5, <1>6
<1> QED
  BY <1>1, <1>2, <1>7, FillStep

LEMMA ForgetStep == IInv /\ Forget => IInv'
<1> SUFFICES ASSUME IInv, Forget PROVE IInv'
  OBVIOUS
<1>1. PICK s \in Slots : Fill(s, Null)
  BY DEF Forget
<1>2. UNCHANGED <<log, parsed, phase>> /\ phase = "parse" /\ Null \in Nat
  BY DEF Forget, Parsing, Null
<1> QED
  BY <1>1, <1>2, FillStep

LEMMA GetParsedStep == IInv /\ GetParsed => IInv'
<1> SUFFICES ASSUME IInv, GetParsed PROVE IInv'
  OBVIOUS
<1>1. UNCHANGED memo /\ phase = "parse" /\ phase' = "parsed" /\ log' = <<>> /\ parsed = Null
  BY DEF GetParsed, IInv, Phases
<1>2. Exactly(store, log, memo, Null) /\ IsLog(log) /\ memo \in Memos /\ Null \in Nat
  BY <1>1 DEF IInv, Counts, Exactly
<1>3. Phases'
  BY <1>1 DEF Phases
<1>4. CASE log = <<>> /\ UNCHANGED <<store, parsed>>
  <2>1. Counts'
    BY <1>1, <1>2, <1>4 DEF Counts
  <2> QED
    BY <1>3, <2>1 DEF IInv
<1>5. CASE \E first \in DOMAIN log :
             /\ log[first].type = "New" /\ \A j \in 1..first-1 : log[j].type # "New"
             /\ L!CanCreate(SubSeq(log, first, Len(log)))
             /\ LET s     == Scanned(store, log, first)
                    built == constructLeft(s, Len(log))
                IN  /\ InPool(built)
                    /\ store' = Retain(Cut(built, s.log, 0), node_alloc(s.st))
                    /\ parsed' = node_alloc(s.st)
  <2>1. PICK first \in DOMAIN log :
             /\ L!CanCreate(SubSeq(log, first, Len(log)))
             /\ LET s     == Scanned(store, log, first)
                    built == constructLeft(s, Len(log))
                IN  /\ store' = Retain(Cut(built, s.log, 0), node_alloc(s.st))
                    /\ parsed' = node_alloc(s.st)
    BY <1>5
  <2> DEFINE s     == Scanned(store, log, first)
             built == constructLeft(s, Len(log))
             o     == node_alloc(s.st)
             st    == Cut(built, s.log, 0)
  <2>2. store' = Retain(st, o) /\ parsed' = o
    BY <2>1
  <2>3. IsCreated(store, log, first, memo, Null)
    BY <1>2, <2>1, Created
  <2>4. IsLog(s.log) /\ IsBuilt(built, OutOf(s.log, memo, Null), o)
    BY <2>3 DEF IsCreated
  <2> HIDE DEF s, built, o
  <2>5. SubSeq(s.log, 1, 0) = <<>> /\ 0 \in 0..Len(s.log)
    <3>1. s.log \in Seq(Entries) /\ Len(s.log) \in Nat
      BY <2>4, EntryTypes
    <3> QED
      BY <3>1
  <2>6. IsBuilt(st, OutOf(SubSeq(s.log, 1, 0), memo, Null), o)
    BY <1>2, <2>4, <2>5, BuiltCut
  <2> HIDE DEF st
  <2>7. IsBuilt(st, OutOf(<<>>, memo, Null), o)
    BY <2>5, <2>6
  <2>8. Exactly(store', <<>>, memo, parsed')
    BY <1>2, <2>2, <2>7, NothingHeld, Given
  <2>9. Counts'
    BY <1>1, <2>8 DEF Counts
  <2> QED
    BY <1>3, <2>9 DEF IInv
<1> QED
  BY <1>4, <1>5 DEF GetParsed

LEMMA ReleaseParsedStep == IInv /\ ReleaseParsed => IInv'
<1> SUFFICES ASSUME IInv, ReleaseParsed PROVE IInv'
  OBVIOUS
<1>1. /\ phase = "parsed" /\ parsed # Null /\ store' = Release(store, parsed) /\ parsed' = Null
      /\ UNCHANGED <<log, memo, phase>>
  BY DEF ReleaseParsed
<1>2. Exactly(store', log', memo', parsed')
  BY <1>1, GivenBack DEF IInv, Counts
<1>3. Counts'
  BY <1>2 DEF Counts
<1>4. Phases'
  BY <1>1 DEF IInv, Phases
<1> QED
  BY <1>3, <1>4 DEF IInv

LEMMA Reset1Step == IInv /\ Reset1 => IInv'
<1> SUFFICES ASSUME IInv, Reset1 PROVE IInv'
  OBVIOUS
<1>1. /\ store' = ReleaseAll(Cut(store, log, 0), memo) /\ log' = <<>> /\ memo' = Nulls
      /\ phase' = "reset" /\ UNCHANGED parsed
  BY DEF Reset1, Nulls
<1>2. Exactly(store', log', memo', parsed')
  BY <1>1, ResetDone DEF IInv, Counts
<1>3. Counts'
  BY <1>2 DEF Counts
<1>4. Nulls' = Nulls
  BY DEF Nulls
<1>5. Phases'
  BY <1>1, <1>4 DEF Phases
<1> QED
  BY <1>3, <1>5 DEF IInv

LEMMA ResetNodesStep == IInv /\ ResetNodes => IInv'
<1> SUFFICES ASSUME IInv, ResetNodes PROVE IInv'
  OBVIOUS
<1>1. /\ phase = "reset" /\ phase' = "parse" /\ store' = NodeManager_reset(store) /\ parsed' = Null
      /\ UNCHANGED <<log, memo>>
  BY DEF ResetNodes
<1>2. log = <<>> /\ memo = Nulls /\ store' = NodeManager_init
  BY <1>1, BeginsAgain DEF IInv, Phases, Counts
<1>3. Exactly(store', log', memo', parsed')
  BY <1>1, <1>2, Begins
<1>4. Counts'
  BY <1>3 DEF Counts
<1>5. Phases'
  BY <1>1 DEF Phases
<1> QED
  BY <1>4, <1>5 DEF IInv

LEMMA InitIInv == Init => IInv
<1> SUFFICES ASSUME Init PROVE IInv
  OBVIOUS
<1>1. store = NodeManager_init /\ log = <<>> /\ memo = Nulls /\ parsed = Null /\ phase = "parse"
  BY DEF Init, Nulls
<1>2. Counts
  BY <1>1, Begins DEF Counts
<1> QED
  BY <1>1, <1>2 DEF IInv, Phases

LEMMA NextStep == IInv /\ [Next]_vars => IInv'
<1> SUFFICES ASSUME IInv, [Next]_vars PROVE IInv'
  OBVIOUS
<1>1. CASE UNCHANGED vars
  <2>1. UNCHANGED <<store, log, memo, parsed, phase>>
    BY <1>1 DEF vars
  <2>2. Counts'
    BY <2>1 DEF IInv, Counts
  <2>3. Phases'
    BY <2>1 DEF IInv, Phases, Nulls
  <2> QED
    BY <2>2, <2>3 DEF IInv
<1>2. CASE Next
  BY <1>2, LogStep, RollbackStep, CommitStep, LookupStep, TMemoStep, ForgetStep,
     GetParsedStep, ReleaseParsedStep, Reset1Step, ResetNodesStep DEF Next
<1> QED
  BY <1>1, <1>2

\* The inductive invariant holds: between two calls of the interface the counts
\* of the store are exact (reference_count.h, ast.c, memo.c).
THEOREM IInvHolds == Spec => []IInv
  BY InitIInv, NextStep, PTL DEF Spec

-----------------------------------------------------------------------------
(***************************************************************************)
(* The safety properties.                                                  *)
(***************************************************************************)
\* The children of the live nodes are all places: a dead node has no children.
LEMMA LivePlaces ==
    ASSUME Counts, NEW n
    PROVE  UNION {{m} \X {i \in DOMAIN store.cells[m].kids : store.cells[m].kids[i] = n} : m \in Live}
               = Places(Idle(store), n)
<1> DEFINE Kids(m) == {i \in DOMAIN store.cells[m].kids : store.cells[m].kids[i] = n}
           U == UNION {{m} \X Kids(m) : m \in Live}
           P == Places(Idle(store), n)
<1>1. store \in Stores(Operands) /\ Settled(store, OutOf(log, memo, parsed), {})
  BY DEF Counts, Exactly
<1>2. \A p : p \in P <=> \E m \in DOMAIN store.cells : \E i \in Kids(m) : p = <<m, i>>
  BY <1>1, IdlePlaces
<1>3. \A p : p \in U <=> \E m \in Live : \E i \in Kids(m) : p = <<m, i>>
  OBVIOUS
<1>4. ASSUME NEW m \in DOMAIN store.cells, NEW i \in Kids(m) PROVE m \in Live
  <2>1. store.cells[m].rc > 0 <=> ~IsFree(store, m)
    BY <1>1, InUse
  <2>2. IsFree(store, m) => store.cells[m].kids = <<>>
    BY <1>1, SettledCounts
  <2>3. store.cells[m].kids # <<>>
    OBVIOUS
  <2> QED
    BY <2>1, <2>2, <2>3 DEF Live, Nodes
<1>5. Live \subseteq DOMAIN store.cells
  BY DEF Live, Nodes
<1> HIDE DEF Kids, U, P
<1>6. \A p : p \in P <=> p \in U
  BY <1>2, <1>3, <1>4, <1>5
<1>7. U = P
  BY <1>6
<1> QED
  BY <1>7 DEF U, P, Kids

LEMMA CountsAreReferences ==
    ASSUME Counts, NEW n \in Nodes
    PROVE  References(n) = IF n \in Live THEN store.cells[n].rc ELSE 0
<1> DEFINE out == OutOf(log, memo, parsed)
           P == Places(Idle(store), n)
<1>1. /\ store \in Stores(Operands) /\ Settled(store, out, {}) /\ n \in DOMAIN store.cells
      /\ IsLog(log) /\ memo \in Memos /\ parsed \in Nat
  BY DEF Counts, Exactly, Nodes
<1>2. /\ n \in Nat \ {Null} /\ out[n] \in Nat /\ Cardinality(P) \in Nat
      /\ IsFree(store, n) => out[n] = 0 /\ P = {}
      /\ ~IsFree(store, n) => store.cells[n].rc = out[n] + Cardinality(P)
  BY <1>1, SettledCounts
<1>3. n \in Live <=> ~IsFree(store, n)
  BY <1>1, InUse DEF Live, Nodes
<1>4. out[n] = HeldBy(log, memo, parsed, n)
  BY <1>1, <1>2, HeldTypes
<1> HIDE DEF out, P
<1>5. References(n) = Cardinality(LinksTo(log, n)) + Cardinality(P) + Cardinality(SlotsOf(memo, n)) + IsParsed(parsed, n)
  BY LivePlaces DEF References, LinksTo, SlotsOf, IsParsed, P
<1>6. /\ Cardinality(LinksTo(log, n)) \in Nat /\ Cardinality(SlotsOf(memo, n)) \in Nat
      /\ IsParsed(parsed, n) \in Nat
  BY <1>1, HeldTypes
<1>7. References(n) = out[n] + Cardinality(P)
  BY <1>2, <1>4, <1>5, <1>6 DEF HeldBy
<1>8. CASE IsFree(store, n)
  <2>1. out[n] = 0 /\ Cardinality(P) = 0
    BY <1>2, <1>8, FS_EmptySet
  <2> QED
    BY <1>3, <1>7, <1>8, <2>1
<1>9. CASE ~IsFree(store, n)
  BY <1>2, <1>3, <1>7, <1>9
<1> QED
  BY <1>8, <1>9

\* The count of a node is the number of references to it from the log, live
\* parents, the memo table and the client (RETAIN and RELEASE in
\* reference_count.h, Node_set, ast_log_link, ast_rollback_tx, memo_set).
THEOREM RefsExactHolds == Spec => []RefsExact
<1>1. IInv => RefsExact
  BY CountsAreReferences DEF IInv, RefsExact
<1> QED
  BY <1>1, IInvHolds, PTL

LEMMA StoreIsExact == Counts => StoreExact
<1> SUFFICES ASSUME Counts PROVE StoreExact
  OBVIOUS
<1> DEFINE F == {n \in DOMAIN store.cells : ~(store.cells[n].rc > 0)}
<1>1. store \in Stores(Operands) /\ Settled(store, OutOf(log, memo, parsed), {})
  BY DEF Counts, Exactly
<1>2. ToSet(store.free) = F /\ Len(store.free) = Cardinality(F) /\ store.count = Len(store.free)
  BY <1>1, FreeNodes
<1>3. Nodes \ Live = F
  BY DEF Nodes, Live
<1>4. store.ok
  BY <1>1 DEF Settled
<1> HIDE DEF F
<1> QED
  BY <1>2, <1>3, <1>4 DEF StoreExact, FreeListExact, NoAssertFails

\* The free list holds every node that is not in use once, its length is the
\* counter of the manager, and no assertion of node.c fails.
THEOREM StoreExactHolds == Spec => []StoreExact
<1>1. IInv => StoreExact
  BY StoreIsExact DEF IInv
<1> QED
  BY <1>1, IInvHolds, PTL

LEMMA NothingIsLeft == IInv => NothingLeaks
<1> SUFFICES ASSUME IInv, phase = "reset", parsed = Null PROVE Live = {}
  BY DEF NothingLeaks
<1>1. /\ store \in Stores(Operands) /\ Settled(store, OutOf(log, memo, parsed), {}) /\ Ranked(store)
      /\ log = <<>> /\ memo = Nulls /\ Null \in Nat
  BY DEF IInv, Counts, Phases, Exactly, Null
<1>2. \A n \in Nat \ {Null} : OutOf(log, memo, parsed)[n] = 0
  <2>1. \A n \in Nat \ {Null} : OutOf(<<>>, Nulls, Null)[n] = IsParsed(Null, n)
    BY <1>1, NothingHeld
  <2> QED
    BY <1>1, <2>1 DEF IsParsed
<1>3. \A n \in DOMAIN store.cells : ~(store.cells[n].rc > 0)
  BY <1>1, <1>2, NothingKept
<1> QED
  BY <1>3 DEF Live, Nodes

\* After moz_runtime_reset1 and the release of the root no node is in use: the
\* children of a node were made before it, so there is no cycle to keep one.
THEOREM NothingLeaksHolds == Spec => []NothingLeaks
  BY NothingIsLeft, IInvHolds, PTL

=============================================================================
