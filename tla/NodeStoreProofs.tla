-------------------------- MODULE NodeStoreProofs --------------------------
(***************************************************************************)
(* Reference counting is exact: for every operation of the node store, if  *)
(* the counts were the numbers of references before, they are afterwards,  *)
(* with all that dies on the way, and no assertion of the store fails.     *)
(*                                                                         *)
(* The references to a node are those from outside, which out counts, the  *)
(* places of the cells that hold it and, between two calls, one that is    *)
(* owed: a caller has given it up but the count does not show it yet.  A   *)
(* node whose count is zero is either being swept or new, in Z.            *)
(***************************************************************************)
EXTENDS NodeStore, FiniteSetTheorems, SequenceTheorems, TLAPS

\* The types, over a set V of tags, positions, values and labels.
Cells(V)  == [rc : Int, tag : V, pos : V, end : V, value : V, label : V, kids : Seq(Nat)]
Stores(V) == [cells : Seq(Cells(V)), free : Seq(Nat), count : Nat, ok : BOOLEAN]
Calls     == Seq([node : Nat, next : Nat \ {0}])
Works(V)  == [st : Stores(V), calls : Calls]

Idle(st) == [st |-> st, calls |-> <<>>]

IsFree(st, n) == \E i \in DOMAIN st.free : st.free[i] = n

FreeList(st) ==
    /\ st.count = Len(st.free)
    /\ \A i \in DOMAIN st.free : st.free[i] \in DOMAIN st.cells
    /\ \A i, j \in DOMAIN st.free : st.free[i] = st.free[j] => i = j

KidsIn(st) ==
    \A m \in DOMAIN st.cells : \A i \in DOMAIN st.cells[m].kids :
        st.cells[m].kids[i] \in DOMAIN st.cells \cup {Null}

\* The places of the cells, and before each the place 0.
PairsOf(st, m) == {m} \X (0..Len(st.cells[m].kids))
Pairs(st)      == UNION {PairsOf(st, m) : m \in DOMAIN st.cells}

\* The sweeps that go on have not reached the place i of m.
Ahead(calls, m, i) == \A d \in DOMAIN calls : calls[d].node = m => calls[d].next <= i

\* The places that hold the node n.
IsPlace(w, n, p) ==
    /\ p[2] # 0 /\ w.st.cells[p[1]].kids[p[2]] = n
    /\ Ahead(w.calls, p[1], p[2])
Places(w, n) == {p \in Pairs(w.st) : IsPlace(w, n, p)}

Swept(calls, n) == \E d \in DOMAIN calls : calls[d].node = n

Counted(w, out, Z, owed, n) ==
    IF IsFree(w.st, n)
    THEN /\ w.st.cells[n].rc <= 0 /\ w.st.cells[n].kids = <<>>
         /\ out[n] = 0 /\ Places(w, n) = {} /\ n # owed
    ELSE /\ w.st.cells[n].rc = out[n] + Cardinality(Places(w, n)) + (IF n = owed THEN 1 ELSE 0)
         /\ w.st.cells[n].rc = 0 => n \in Z \/ Swept(w.calls, n)

SweepsExact(w, Z) ==
    /\ \A d \in DOMAIN w.calls :
          LET o == w.calls[d].node
          IN  /\ o \in DOMAIN w.st.cells /\ ~IsFree(w.st, o) /\ w.st.cells[o].rc = 0
              /\ w.calls[d].next <= Len(w.st.cells[o].kids) + 1 /\ o \notin Z
    /\ \A d, e \in DOMAIN w.calls : w.calls[d].node = w.calls[e].node => d = e

NewExact(st, Z) == \A n \in Z : n \in DOMAIN st.cells /\ ~IsFree(st, n) /\ st.cells[n].rc = 0

Outside(st, out) ==
    /\ out \in [Nat -> Nat]
    /\ \A n \in Nat \ {Null} : out[n] > 0 => n \in DOMAIN st.cells

Exact(w, out, Z, owed) ==
    /\ w.st.ok /\ FreeList(w.st) /\ KidsIn(w.st)
    /\ Outside(w.st, out) /\ SweepsExact(w, Z) /\ NewExact(w.st, Z)
    /\ owed \in DOMAIN w.st.cells \cup {Null}
    /\ \A n \in DOMAIN w.st.cells : Counted(w, out, Z, owed, n)

\* The cells a store keeps, with their children or without.
Shrinks(st, st2) ==
    /\ DOMAIN st2.cells = DOMAIN st.cells
    /\ \A m \in DOMAIN st.cells : st2.cells[m].kids \in {st.cells[m].kids, <<>>}

-----------------------------------------------------------------------------
(***************************************************************************)
(* Sequences, sets.                                                        *)
(***************************************************************************)
LEMMA SomeMin ==
    ASSUME NEW S \in SUBSET Nat, S # {}
    PROVE  \E x \in S : \A y \in S : x <= y
<1> DEFINE R == OpToRel(<, Nat)
<1>1. IsWellFoundedOn(R, Nat)
  BY NatLessThanWellFounded
<1>2. R = {ss \in Nat \X Nat : ss[1] < ss[2]}
  BY DEF OpToRel
<1>3. PICK x \in S : \A y \in S : ~ (<<y, x>> \in R)
  <2> HIDE DEF R
  <2> QED
    BY <1>1, WFMin
<1>4. \A y \in S : ~ (y < x)
  BY <1>2, <1>3
<1> QED
  BY <1>4

LEMMA InductionInSet ==
    ASSUME NEW S \in SUBSET Nat, 0 \in S, \A k \in S : k + 1 \in S
    PROVE  S = Nat
<1> SUFFICES ASSUME Nat \ S # {} PROVE FALSE
  OBVIOUS
<1>1. PICK x \in Nat \ S : \A y \in Nat \ S : x <= y
  <2> DEFINE T == Nat \ S
  <2>1. T \in SUBSET Nat /\ T # {}
    OBVIOUS
  <2> HIDE DEF T
  <2>2. \E x \in T : \A y \in T : x <= y
    BY <2>1, SomeMin
  <2> QED
    BY <2>2 DEF T
<1>2. x - 1 \in Nat /\ x - 1 \in S
  BY <1>1
<1>3. x - 1 + 1 \in S
  BY <1>2
<1> QED
  BY <1>1, <1>3

LEMMA SeqExcept ==
    ASSUME NEW T, NEW s \in Seq(T), NEW d, NEW x, d \in DOMAIN s => x \in T
    PROVE  LET r == [s EXCEPT ![d] = x]
           IN  /\ r \in Seq(T) /\ Len(r) = Len(s) /\ DOMAIN r = DOMAIN s
               /\ \A i \in DOMAIN s : r[i] = IF i = d THEN x ELSE s[i]
<1> DEFINE r == [s EXCEPT ![d] = x]
<1>1. Len(s) \in Nat /\ DOMAIN s = 1..Len(s) /\ DOMAIN r = DOMAIN s
  OBVIOUS
<1>2. \A i \in DOMAIN s : r[i] \in T
  OBVIOUS
<1>3. r \in [1..Len(s) -> T]
  <2>1. r = [i \in DOMAIN s |-> r[i]]
    OBVIOUS
  <2> HIDE DEF r
  <2> QED
    BY <1>1, <1>2, <2>1
<1>4. \A i \in DOMAIN s : r[i] = IF i = d THEN x ELSE s[i]
  OBVIOUS
<1> HIDE DEF r
<1> QED
  BY <1>1, <1>3, <1>4 DEF r

LEMMA PairsFinite ==
    ASSUME NEW V, NEW st \in Stores(V)
    PROVE  IsFiniteSet(Pairs(st))
<1> DEFINE D == DOMAIN st.cells
           f == [m \in D |-> PairsOf(st, m)]
           T == {PairsOf(st, m) : m \in D}
<1>1. st.cells \in Seq(Cells(V)) /\ Len(st.cells) \in Nat /\ D = 1..Len(st.cells)
  BY DEF Stores
<1>2. IsFiniteSet(D)
  BY <1>1, FS_Interval
<1>3. ASSUME NEW m \in D PROVE IsFiniteSet(PairsOf(st, m))
  <2>1. st.cells[m] \in Cells(V)
    BY <1>1
  <2>2. Len(st.cells[m].kids) \in Nat
    BY <2>1 DEF Cells
  <2>3. IsFiniteSet(0..Len(st.cells[m].kids)) /\ IsFiniteSet({m})
    <3>1. IsFiniteSet(0..Len(st.cells[m].kids))
      BY <2>2, FS_Interval
    <3>2. IsFiniteSet({m})
      BY FS_Singleton
    <3> QED
      BY <3>1, <3>2
  <2> QED
    BY <2>3, FS_Product DEF PairsOf
<1>4. f \in Surjection(D, T)
  BY DEF Surjection
<1> HIDE DEF D, f
<1>5. IsFiniteSet(T)
  BY <1>2, <1>4, FS_Surjection
<1>6. \A S \in T : IsFiniteSet(S)
  BY <1>3
<1> QED
  BY <1>5, <1>6, FS_UNION DEF Pairs, D

LEMMA PlacesFinite ==
    ASSUME NEW V, NEW w \in Works(V), NEW n
    PROVE  IsFiniteSet(Places(w, n)) /\ Cardinality(Places(w, n)) \in Nat
<1>1. w.st \in Stores(V) /\ Places(w, n) \in SUBSET Pairs(w.st)
  BY DEF Works, Places
<1> QED
  BY <1>1, PairsFinite, FS_Subset, FS_CardinalityType

\* What the pairs are.
LEMMA PairsAre ==
    ASSUME NEW V, NEW st \in Stores(V)
    PROVE  \A p : p \in Pairs(st) <=> \E m \in DOMAIN st.cells : \E i \in 0..Len(st.cells[m].kids) : p = <<m, i>>
  BY DEF Pairs, PairsOf

LEMMA CellTypes ==
    ASSUME NEW V, NEW st \in Stores(V)
    PROVE  /\ st.cells \in Seq(Cells(V)) /\ DOMAIN st.cells = 1..Len(st.cells) /\ Len(st.cells) \in Nat
           /\ st.free \in Seq(Nat) /\ st.count \in Nat /\ st.ok \in BOOLEAN
           /\ \A m \in DOMAIN st.cells : /\ st.cells[m] \in Cells(V) /\ st.cells[m].rc \in Int
                                         /\ st.cells[m].kids \in Seq(Nat)
                                         /\ Len(st.cells[m].kids) \in Nat
                                         /\ DOMAIN st.cells[m].kids = 1..Len(st.cells[m].kids)
<1>1. st.cells \in Seq(Cells(V)) /\ st.free \in Seq(Nat) /\ st.count \in Nat /\ st.ok \in BOOLEAN
  BY DEF Stores
<1>2. \A m \in DOMAIN st.cells : st.cells[m] \in Cells(V)
  BY <1>1
<1>3. \A c \in Cells(V) : c.rc \in Int /\ c.kids \in Seq(Nat) /\ Len(c.kids) \in Nat /\ DOMAIN c.kids = 1..Len(c.kids)
  BY DEF Cells
<1> QED
  BY <1>1, <1>2, <1>3

-----------------------------------------------------------------------------
(***************************************************************************)
(* What the steps of a release change.                                     *)
(***************************************************************************)
\* A store that differs in the fields of one cell.
SameCells(st, st2) ==
    /\ DOMAIN st2.cells = DOMAIN st.cells
    /\ \A m \in DOMAIN st.cells : st2.cells[m].kids = st.cells[m].kids

SameFree(st, st2) == st2.free = st.free /\ st2.count = st.count

WithCount(st, n, x, b) == [st EXCEPT !.ok = b, !.cells[n].rc = x]

LEMMA CountChanged ==
    ASSUME NEW V, NEW st \in Stores(V), NEW n \in DOMAIN st.cells, NEW x \in Int, NEW b \in BOOLEAN
    PROVE  LET r == WithCount(st, n, x, b)
           IN  /\ r \in Stores(V) /\ SameCells(st, r) /\ SameFree(st, r) /\ r.ok = b
               /\ \A m \in DOMAIN st.cells : r.cells[m].rc = IF m = n THEN x ELSE st.cells[m].rc
<1> DEFINE r == [st EXCEPT !.ok = b, !.cells[n].rc = x]
           c == [st.cells[n] EXCEPT !.rc = x]
           cells == [st.cells EXCEPT ![n] = c]
<1>1. st.cells \in Seq(Cells(V)) /\ st.cells[n] \in Cells(V)
  BY CellTypes
<1>2. c \in Cells(V) /\ c.rc = x /\ c.kids = st.cells[n].kids
  BY <1>1 DEF Cells
<1>3. r = [cells |-> cells, free |-> st.free, count |-> st.count, ok |-> b]
  <2> DEFINE a == [st EXCEPT !.ok = b]
  <2>1. a = [cells |-> st.cells, free |-> st.free, count |-> st.count, ok |-> b]
    BY DEF Stores
  <2>2. r = [a EXCEPT !.cells = [a.cells EXCEPT ![n] = [a.cells[n] EXCEPT !.rc = x]]]
    OBVIOUS
  <2> HIDE DEF a, r
  <2> QED
    BY <2>1, <2>2
<1> HIDE DEF c, r
<1>5. /\ cells \in Seq(Cells(V)) /\ DOMAIN cells = DOMAIN st.cells
      /\ \A m \in DOMAIN st.cells : cells[m] = IF m = n THEN c ELSE st.cells[m]
  BY <1>1, <1>2, SeqExcept
<1> HIDE DEF cells
<1>6. r \in Stores(V)
  BY <1>3, <1>5, CellTypes DEF Stores
<1>7. SameCells(st, r) /\ SameFree(st, r)
  BY <1>2, <1>3, <1>5 DEF SameCells, SameFree
<1>8. \A m \in DOMAIN st.cells : r.cells[m].rc = IF m = n THEN x ELSE st.cells[m].rc
  BY <1>2, <1>3, <1>5
<1> QED
  BY <1>3, <1>6, <1>7, <1>8 DEF r, WithCount

LEMMA DropChanges ==
    ASSUME NEW V, NEW w \in Works(V), NEW n \in DOMAIN w.st.cells
    PROVE  LET r == Drop(w, n)
           IN  /\ r \in Works(V) /\ SameCells(w.st, r.st) /\ SameFree(w.st, r.st)
               /\ \A m \in DOMAIN w.st.cells :
                     r.st.cells[m].rc = IF m = n THEN w.st.cells[n].rc - 1 ELSE w.st.cells[m].rc
               /\ w.st.ok /\ w.st.cells[n].rc > 0 => r.st.ok
               /\ r.calls = IF w.st.cells[n].rc = 1 THEN Append(w.calls, [node |-> n, next |-> 1]) ELSE w.calls
<1>1. w.st \in Stores(V) /\ w.calls \in Calls
  BY DEF Works
<1>2. w.st.cells[n].rc \in Int /\ w.st.cells[n].rc - 1 \in Int /\ n \in Nat /\ w.st.ok \in BOOLEAN
  BY <1>1, CellTypes
<1>3. PICK b \in BOOLEAN : b = (w.st.ok /\ w.st.cells[n].rc > 0)
  OBVIOUS
<1>4. PICK x \in Int : x = w.st.cells[n].rc - 1
  BY <1>2
<1> DEFINE st == WithCount(w.st, n, x, b)
           calls == IF st.cells[n].rc = 0 THEN Append(w.calls, [node |-> n, next |-> 1]) ELSE w.calls
<1>5. Drop(w, n) = [st |-> st, calls |-> calls]
  <2> DEFINE old == [w.st EXCEPT !.ok = @ /\ w.st.cells[n].rc > 0, !.cells[n].rc = @ - 1]
  <2>1. [w.st EXCEPT !.ok = b].cells[n].rc = w.st.cells[n].rc
    BY <1>1 DEF Stores
  <2>2. old = st
    BY <1>3, <1>4, <2>1 DEF WithCount
  <2>3. Drop(w, n) = [st |-> old, calls |-> IF old.cells[n].rc = 0 THEN Append(w.calls, [node |-> n, next |-> 1])
                                                                  ELSE w.calls]
    BY DEF Drop
  <2> HIDE DEF old, st
  <2> QED
    BY <2>2, <2>3
<1>6. /\ st \in Stores(V) /\ SameCells(w.st, st) /\ SameFree(w.st, st) /\ st.ok = b
      /\ \A m \in DOMAIN w.st.cells : st.cells[m].rc = IF m = n THEN x ELSE w.st.cells[m].rc
  BY <1>1, CountChanged
<1> HIDE DEF st
<1>7. [node |-> n, next |-> 1] \in [node : Nat, next : Nat \ {0}]
  BY <1>2
<1>8. Append(w.calls, [node |-> n, next |-> 1]) \in Calls
  BY <1>1, <1>7 DEF Calls
<1>9. st.cells[n].rc = 0 <=> w.st.cells[n].rc = 1
  BY <1>2, <1>4, <1>6
<1>10. [st |-> st, calls |-> calls] \in Works(V)
  BY <1>1, <1>6, <1>8 DEF Works
<1>11. calls = IF w.st.cells[n].rc = 1 THEN Append(w.calls, [node |-> n, next |-> 1]) ELSE w.calls
  BY <1>9
<1>12. w.st.ok /\ w.st.cells[n].rc > 0 => st.ok
  BY <1>3, <1>6
<1> HIDE DEF calls
<1> QED
  BY <1>4, <1>5, <1>6, <1>10, <1>11, <1>12

\* Places depend on the children and on the sweeps.
LEMMA SamePairs ==
    ASSUME NEW st, NEW st2, SameCells(st, st2)
    PROVE  Pairs(st2) = Pairs(st)
  BY DEF SameCells, Pairs, PairsOf

LEMMA SameFreeNodes ==
    ASSUME NEW st, NEW st2, SameFree(st, st2), SameCells(st, st2)
    PROVE  /\ \A m : IsFree(st2, m) <=> IsFree(st, m)
           /\ FreeList(st) => FreeList(st2)
           /\ KidsIn(st) => KidsIn(st2)
  BY DEF SameFree, SameCells, IsFree, FreeList, KidsIn

LEMMA MoreCalls ==
    ASSUME NEW calls \in Calls, NEW n \in Nat
    PROVE  LET r == Append(calls, [node |-> n, next |-> 1])
           IN  /\ r \in Calls /\ DOMAIN calls = 1..Len(calls) /\ Len(calls) \in Nat /\ Len(r) = Len(calls) + 1
               /\ DOMAIN r = 1..(Len(calls) + 1)
               /\ \A d \in DOMAIN calls : r[d] = calls[d]
               /\ r[Len(calls) + 1].node = n /\ r[Len(calls) + 1].next = 1
               /\ \A m : \A i \in Nat \ {0} : Ahead(r, m, i) <=> Ahead(calls, m, i)
               /\ \A m : Swept(r, m) <=> Swept(calls, m) \/ m = n
<1> DEFINE x == [node |-> n, next |-> 1]
           r == Append(calls, x)
           C == [node : Nat, next : Nat \ {0}]
<1>1. x \in C /\ x.node = n /\ x.next = 1
  OBVIOUS
<1>2. calls \in Seq(C)
  BY DEF Calls
<1> HIDE DEF x, C
<1>3. r \in Seq(C) /\ Len(calls) \in Nat /\ DOMAIN calls = 1..Len(calls) /\ DOMAIN r = 1..(Len(calls) + 1) /\ Len(r) = Len(calls) + 1
  BY <1>1, <1>2
<1>4. \A d \in DOMAIN calls : r[d] = calls[d]
  BY <1>2
<1>5. r[Len(calls) + 1] = x
  BY <1>2
<1> HIDE DEF r
<1>6. \A d \in DOMAIN r : d \in DOMAIN calls \/ d = Len(calls) + 1
  BY <1>3
<1>7. \A m : \A i \in Nat \ {0} : Ahead(r, m, i) <=> Ahead(calls, m, i)
  BY <1>1, <1>3, <1>4, <1>5, <1>6 DEF Ahead
<1>8. \A m : Swept(r, m) <=> Swept(calls, m) \/ m = n
  BY <1>1, <1>3, <1>4, <1>5, <1>6 DEF Swept
<1> QED
  BY <1>1, <1>3, <1>4, <1>5, <1>7, <1>8 DEF r, x, Calls, C

-----------------------------------------------------------------------------
(***************************************************************************)
(* Giving up a reference that is owed.                                     *)
(***************************************************************************)
LEMMA Owed ==
    ASSUME NEW V, NEW w \in Works(V), NEW out, NEW Z, NEW n \in Nat \ {Null}, Exact(w, out, Z, n)
    PROVE  /\ n \in DOMAIN w.st.cells /\ ~IsFree(w.st, n) /\ w.st.cells[n].rc > 0 /\ n \notin Z /\ ~Swept(w.calls, n)
           /\ w.st.cells[n].rc = out[n] + Cardinality(Places(w, n)) + 1
<1>1. n \in DOMAIN w.st.cells /\ w.st \in Stores(V)
  BY DEF Exact, Works
<1>2. Counted(w, out, Z, n, n)
  BY <1>1 DEF Exact
<1>3. ~IsFree(w.st, n) /\ w.st.cells[n].rc = out[n] + Cardinality(Places(w, n)) + 1
  BY <1>2 DEF Counted
<1>4. out[n] \in Nat
  BY DEF Exact, Outside
<1>5. w.st.cells[n].rc > 0
  BY <1>3, <1>4, PlacesFinite
<1>6. n \notin Z /\ ~Swept(w.calls, n)
  BY <1>5 DEF Exact, NewExact, SweepsExact, Swept
<1> QED
  BY <1>1, <1>3, <1>5, <1>6

LEMMA Dropped ==
    ASSUME NEW V, NEW w \in Works(V), NEW out, NEW Z, NEW n \in Nat \ {Null}, Exact(w, out, Z, n)
    PROVE  LET r == Drop(w, n)
           IN  /\ r \in Works(V) /\ SameCells(w.st, r.st) /\ SameFree(w.st, r.st) /\ Exact(r, out, Z, Null)
               /\ \A m : \A i \in Nat \ {0} : Ahead(r.calls, m, i) <=> Ahead(w.calls, m, i)
               /\ r.calls \in {w.calls, Append(w.calls, [node |-> n, next |-> 1])}
<1> DEFINE r == Drop(w, n)
<1>1. w.st \in Stores(V) /\ w.calls \in Calls
  BY DEF Works
<1>2. /\ n \in DOMAIN w.st.cells /\ ~IsFree(w.st, n) /\ w.st.cells[n].rc > 0 /\ n \notin Z /\ ~Swept(w.calls, n)
      /\ w.st.cells[n].rc = out[n] + Cardinality(Places(w, n)) + 1
  BY Owed
<1>3. /\ r \in Works(V) /\ SameCells(w.st, r.st) /\ SameFree(w.st, r.st)
      /\ \A m \in DOMAIN w.st.cells :
            r.st.cells[m].rc = IF m = n THEN w.st.cells[n].rc - 1 ELSE w.st.cells[m].rc
      /\ w.st.ok /\ w.st.cells[n].rc > 0 => r.st.ok
      /\ r.calls = IF w.st.cells[n].rc = 1 THEN Append(w.calls, [node |-> n, next |-> 1]) ELSE w.calls
  BY <1>2, DropChanges
<1> HIDE DEF r
<1>4. r.st \in Stores(V) /\ r.calls \in Calls
  BY <1>3 DEF Works
<1>5. /\ \A m : \A i \in Nat \ {0} : Ahead(r.calls, m, i) <=> Ahead(w.calls, m, i)
      /\ \A m : Swept(r.calls, m) <=> Swept(w.calls, m) \/ (m = n /\ w.st.cells[n].rc = 1)
  BY <1>1, <1>3, MoreCalls
<1>6. DOMAIN r.st.cells = DOMAIN w.st.cells /\ \A m : IsFree(r.st, m) <=> IsFree(w.st, m)
  BY <1>3, SameFreeNodes DEF SameCells
<1>7. \A m : Places(r, m) = Places(w, m)
  <2>1. Pairs(r.st) = Pairs(w.st)
    BY <1>3, SamePairs
  <2>2. ASSUME NEW p \in Pairs(w.st), NEW m PROVE IsPlace(r, m, p) <=> IsPlace(w, m, p)
    <3>1. p[1] \in DOMAIN w.st.cells /\ p[2] \in Nat
      BY <1>1, <2>2, PairsAre, CellTypes
    <3> QED
      BY <1>3, <1>5, <3>1 DEF IsPlace, SameCells
  <2> QED
    BY <2>1, <2>2 DEF Places
<1>8. r.st.ok /\ FreeList(r.st) /\ KidsIn(r.st) /\ Outside(r.st, out) /\ NewExact(r.st, Z)
  <2>1. r.st.ok
    BY <1>2, <1>3 DEF Exact
  <2>2. FreeList(r.st) /\ KidsIn(r.st)
    BY <1>3, SameFreeNodes DEF Exact
  <2>3. Outside(r.st, out)
    BY <1>6 DEF Exact, Outside
  <2>4. NewExact(r.st, Z)
    BY <1>2, <1>3, <1>6 DEF Exact, NewExact
  <2> QED
    BY <2>1, <2>2, <2>3, <2>4
<1>9. SweepsExact(r, Z)
  <2>0. SweepsExact(w, Z)
    BY DEF Exact
  <2>1. \A o \in DOMAIN w.st.cells : /\ r.st.cells[o].kids = w.st.cells[o].kids
                                     /\ o # n => r.st.cells[o].rc = w.st.cells[o].rc
    BY <1>3 DEF SameCells
  <2>2. \A d \in DOMAIN w.calls : w.calls[d].node # n
    BY <1>2 DEF Swept
  <2>3. CASE r.calls = w.calls
    <3>1. \A d \in DOMAIN w.calls : LET o == w.calls[d].node
                                     IN  r.st.cells[o].kids = w.st.cells[o].kids /\ r.st.cells[o].rc = w.st.cells[o].rc
      BY <2>0, <2>1, <2>2 DEF SweepsExact
    <3> QED
      BY <1>6, <2>0, <2>3, <3>1 DEF SweepsExact
  <2>4. CASE w.st.cells[n].rc = 1 /\ r.calls = Append(w.calls, [node |-> n, next |-> 1])
    <3>1. /\ DOMAIN w.calls = 1..Len(w.calls) /\ Len(w.calls) \in Nat /\ DOMAIN r.calls = 1..(Len(w.calls) + 1)
          /\ \A d \in DOMAIN w.calls : r.calls[d] = w.calls[d]
          /\ r.calls[Len(w.calls) + 1].node = n /\ r.calls[Len(w.calls) + 1].next = 1
      BY <1>1, <2>4, MoreCalls
    <3>2. \A d \in DOMAIN r.calls : d \in DOMAIN w.calls \/ d = Len(w.calls) + 1
      BY <3>1
    <3>3. r.st.cells[n].rc = 0 /\ 1 <= Len(r.st.cells[n].kids) + 1
      BY <1>2, <1>3, <1>4, <1>6, <2>4, CellTypes
    <3>4. ASSUME NEW d \in DOMAIN r.calls
          PROVE  LET o == r.calls[d].node
                 IN  /\ o \in DOMAIN r.st.cells /\ ~IsFree(r.st, o) /\ r.st.cells[o].rc = 0
                     /\ r.calls[d].next <= Len(r.st.cells[o].kids) + 1 /\ o \notin Z
      <4>1. CASE d \in DOMAIN w.calls
        <5>1. r.calls[d] = w.calls[d] /\ w.calls[d].node # n
          BY <4>1, <2>2, <3>1
        <5>2. LET o == w.calls[d].node
              IN  /\ o \in DOMAIN w.st.cells /\ ~IsFree(w.st, o) /\ w.st.cells[o].rc = 0
                  /\ w.calls[d].next <= Len(w.st.cells[o].kids) + 1 /\ o \notin Z
          BY <4>1, <2>0 DEF SweepsExact
        <5> QED
          BY <1>6, <2>1, <5>1, <5>2
      <4>2. CASE d = Len(w.calls) + 1
        BY <4>2, <1>2, <1>6, <3>1, <3>3
      <4> QED
        BY <3>2, <4>1, <4>2
    <3>5. ASSUME NEW d \in DOMAIN r.calls, NEW e \in DOMAIN r.calls, r.calls[d].node = r.calls[e].node PROVE d = e
      BY <2>0, <2>2, <3>1, <3>2, <3>5 DEF SweepsExact
    <3> QED
      BY <3>4, <3>5 DEF SweepsExact
  <2> QED
    BY <1>3, <2>3, <2>4
<1>10. ASSUME NEW m \in DOMAIN r.st.cells PROVE Counted(r, out, Z, Null, m)
  <2>1. Counted(w, out, Z, n, m) /\ m \in DOMAIN w.st.cells /\ m # Null
    <3>1. m \in DOMAIN w.st.cells /\ m # Null
      BY <1>1, <1>6, CellTypes DEF Null
    <3> QED
      BY <3>1 DEF Exact
  <2>2. r.st.cells[m].kids = w.st.cells[m].kids
    BY <1>3, <2>1 DEF SameCells
  <2>3. out[n] \in Nat /\ Cardinality(Places(w, n)) \in Nat
    BY PlacesFinite DEF Exact, Outside
  <2>4. CASE IsFree(w.st, m)
    BY <1>2, <1>3, <1>6, <1>7, <2>1, <2>2, <2>4 DEF Counted
  <2>5. CASE ~IsFree(w.st, m) /\ m # n
    <3>1. r.st.cells[m].rc = w.st.cells[m].rc /\ Places(r, m) = Places(w, m) /\ ~IsFree(r.st, m)
      BY <1>3, <1>6, <1>7, <2>1, <2>5
    <3>2. /\ w.st.cells[m].rc = out[m] + Cardinality(Places(w, m)) + 0
          /\ w.st.cells[m].rc = 0 => m \in Z \/ Swept(w.calls, m)
      BY <2>1, <2>5 DEF Counted
    <3> QED
      BY <1>5, <2>1, <3>1, <3>2 DEF Counted
  <2>6. CASE m = n
    <3>1. r.st.cells[n].rc = out[n] + Cardinality(Places(w, n))
      BY <1>2, <1>3, <2>3
    <3>2. r.st.cells[n].rc = 0 => w.st.cells[n].rc = 1
      BY <1>1, <1>2, <1>3, CellTypes
    <3> QED
      BY <1>2, <1>5, <1>6, <1>7, <2>1, <2>3, <2>6, <3>1, <3>2 DEF Counted
  <2> QED
    BY <2>4, <2>5, <2>6
<1>11. Exact(r, out, Z, Null)
  BY <1>8, <1>9, <1>10 DEF Exact
<1> QED
  BY <1>3, <1>5, <1>11 DEF r

-----------------------------------------------------------------------------
(***************************************************************************)
(* A turn of a sweep: to the next child, or to the end.                    *)
(***************************************************************************)
LEMMA LastCall ==
    ASSUME NEW V, NEW w \in Works(V), w.calls # <<>>
    PROVE  /\ Len(w.calls) \in Nat \ {0} /\ Len(w.calls) \in DOMAIN w.calls /\ DOMAIN w.calls = 1..Len(w.calls)
           /\ w.calls \in Seq([node : Nat, next : Nat \ {0}])
           /\ \A d \in DOMAIN w.calls : w.calls[d].node \in Nat /\ w.calls[d].next \in Nat \ {0}
<1> DEFINE T == [node : Nat, next : Nat \ {0}]
<1>1. \A x \in T : x.node \in Nat /\ x.next \in Nat \ {0}
  OBVIOUS
<1>2. w.calls \in Seq(T)
  BY DEF Works, Calls
<1> HIDE DEF T
<1>3. Len(w.calls) \in Nat /\ DOMAIN w.calls = 1..Len(w.calls) /\ Len(w.calls) # 0
  BY <1>2
<1>4. \A d \in DOMAIN w.calls : w.calls[d] \in T
  BY <1>2
<1>5. Len(w.calls) \in Nat \ {0} /\ Len(w.calls) \in DOMAIN w.calls
  BY <1>3
<1> QED
  BY <1>1, <1>2, <1>3, <1>4, <1>5 DEF T

Advance(w) == [w EXCEPT !.calls[Len(w.calls)].next = w.calls[Len(w.calls)].next + 1]

LEMMA AdvanceChanges ==
    ASSUME NEW V, NEW w \in Works(V), w.calls # <<>>
    PROVE  LET r == Advance(w)
               d == Len(w.calls)
           IN  /\ r \in Works(V) /\ r.st = w.st /\ Len(r.calls) = d /\ DOMAIN r.calls = DOMAIN w.calls
               /\ \A e \in DOMAIN w.calls : /\ r.calls[e].node = w.calls[e].node
                                            /\ r.calls[e].next = IF e = d THEN w.calls[e].next + 1 ELSE w.calls[e].next
<1> DEFINE T == [node : Nat, next : Nat \ {0}]
           d == Len(w.calls)
           x == [w.calls[d] EXCEPT !.next = w.calls[d].next + 1]
           calls == [w.calls EXCEPT ![d] = x]
<1>1. d \in DOMAIN w.calls /\ w.calls \in Seq(T)
  BY LastCall
<1> HIDE DEF T
<1>2. w.calls[d] \in T
  BY <1>1
<1>3. x \in T /\ x.node = w.calls[d].node /\ x.next = w.calls[d].next + 1
  BY <1>2 DEF T
<1>4. Advance(w) = [st |-> w.st, calls |-> calls]
  BY DEF Advance, Works
<1> HIDE DEF x
<1>5. /\ calls \in Seq(T) /\ Len(calls) = Len(w.calls) /\ DOMAIN calls = DOMAIN w.calls
      /\ \A e \in DOMAIN w.calls : calls[e] = IF e = d THEN x ELSE w.calls[e]
  BY <1>1, <1>3, SeqExcept
<1> HIDE DEF calls
<1>6. Advance(w) \in Works(V)
  BY <1>4, <1>5 DEF Works, Calls, T
<1> QED
  BY <1>3, <1>4, <1>5, <1>6

LEMMA Advanced ==
    ASSUME NEW V, NEW w \in Works(V), NEW out, NEW Z, Exact(w, out, Z, Null), w.calls # <<>>,
           LET c == w.calls[Len(w.calls)] IN c.next <= Len(w.st.cells[c.node].kids)
    PROVE  LET c == w.calls[Len(w.calls)]
           IN  /\ Exact(Advance(w), out, Z, w.st.cells[c.node].kids[c.next])
               /\ w.st.cells[c.node].kids[c.next] \in DOMAIN w.st.cells \cup {Null}
<1> DEFINE d == Len(w.calls)
           o == w.calls[d].node
           i == w.calls[d].next
           r == Advance(w)
           kid == w.st.cells[o].kids[i]
<1>1. w.st \in Stores(V) /\ w.calls \in Calls
  BY DEF Works
<1>2. d \in Nat \ {0} /\ d \in DOMAIN w.calls /\ o \in Nat /\ i \in Nat \ {0}
  BY LastCall
<1>3. /\ r \in Works(V) /\ r.st = w.st /\ Len(r.calls) = d /\ DOMAIN r.calls = DOMAIN w.calls
      /\ \A e \in DOMAIN w.calls : /\ r.calls[e].node = w.calls[e].node
                                   /\ r.calls[e].next = IF e = d THEN w.calls[e].next + 1 ELSE w.calls[e].next
  BY AdvanceChanges
<1>4. /\ o \in DOMAIN w.st.cells /\ ~IsFree(w.st, o) /\ w.st.cells[o].rc = 0 /\ o \notin Z
      /\ \A e \in DOMAIN w.calls : w.calls[e].node = o => e = d
  BY <1>2 DEF Exact, SweepsExact
<1>5. i <= Len(w.st.cells[o].kids) /\ i \in DOMAIN w.st.cells[o].kids
  BY <1>1, <1>2, <1>4, CellTypes
<1>6. kid \in DOMAIN w.st.cells \cup {Null}
  BY <1>4, <1>5 DEF Exact, KidsIn
<1> HIDE DEF r, o, i, d, kid
<1>7. ASSUME NEW m, NEW j \in Nat
      PROVE  Ahead(r.calls, m, j) <=> Ahead(w.calls, m, j) /\ ~(m = o /\ j = i)
  <2>1. CASE m = o
    <3>1. Ahead(w.calls, m, j) <=> i <= j
      BY <1>2, <1>4, <2>1 DEF Ahead, o, i
    <3>2. Ahead(r.calls, m, j) <=> i + 1 <= j
      BY <1>2, <1>3, <1>4, <2>1 DEF Ahead, o, i
    <3> QED
      BY <1>2, <2>1, <3>1, <3>2
  <2>2. CASE m # o
    BY <1>3, <2>2 DEF Ahead, o
  <2> QED
    BY <2>1, <2>2
<1>8. <<o, i>> \in Pairs(w.st) /\ Ahead(w.calls, o, i)
  <2>1. i \in 0..Len(w.st.cells[o].kids)
    BY <1>1, <1>2, <1>4, <1>5, CellTypes
  <2>2. Ahead(w.calls, o, i)
    BY <1>2, <1>4 DEF Ahead, i
  <2> QED
    BY <1>1, <1>4, <2>1, <2>2, PairsAre
<1>9. ASSUME NEW m
      PROVE  /\ Places(r, m) = Places(w, m) \ {<<o, i>>}
             /\ <<o, i>> \in Places(w, m) <=> m = kid
  <2>1. ASSUME NEW p \in Pairs(w.st) PROVE IsPlace(r, m, p) <=> IsPlace(w, m, p) /\ p # <<o, i>>
    <3>1. PICK q \in DOMAIN w.st.cells : \E j \in 0..Len(w.st.cells[q].kids) : p = <<q, j>>
      BY <1>1, PairsAre
    <3>2. PICK j \in 0..Len(w.st.cells[q].kids) : p = <<q, j>>
      BY <3>1
    <3>3. j \in Nat
      BY <1>1, CellTypes
    <3> QED
      BY <1>3, <1>7, <3>2, <3>3 DEF IsPlace
  <2>2. Places(r, m) = Places(w, m) \ {<<o, i>>}
    BY <1>3, <2>1 DEF Places
  <2>3. <<o, i>>[1] = o /\ <<o, i>>[2] = i
    OBVIOUS
  <2>4. <<o, i>> \in Places(w, m) <=> m = kid
    BY <1>2, <1>8, <2>3 DEF Places, IsPlace, kid
  <2> QED
    BY <2>2, <2>4
<1>10. \A m : Swept(r.calls, m) <=> Swept(w.calls, m)
  BY <1>3 DEF Swept
<1>11. SweepsExact(r, Z)
  <2>1. SweepsExact(w, Z)
    BY DEF Exact
  <2>2. i + 1 <= Len(w.st.cells[o].kids) + 1
    BY <1>1, <1>2, <1>4, <1>5, CellTypes
  <2>3. ASSUME NEW e \in DOMAIN r.calls
        PROVE  LET q == r.calls[e].node
               IN  /\ q \in DOMAIN r.st.cells /\ ~IsFree(r.st, q) /\ r.st.cells[q].rc = 0
                   /\ r.calls[e].next <= Len(r.st.cells[q].kids) + 1 /\ q \notin Z
    <3>1. LET q == w.calls[e].node
          IN  /\ q \in DOMAIN w.st.cells /\ ~IsFree(w.st, q) /\ w.st.cells[q].rc = 0
              /\ w.calls[e].next <= Len(w.st.cells[q].kids) + 1 /\ q \notin Z
      BY <1>3, <2>1 DEF SweepsExact
    <3>2. e \in DOMAIN w.calls
      BY <1>3
    <3> QED
      BY <1>3, <2>2, <3>1, <3>2 DEF o, i
  <2>4. \A e, f \in DOMAIN r.calls : r.calls[e].node = r.calls[f].node => e = f
    BY <1>3, <2>1 DEF SweepsExact
  <2> QED
    BY <2>3, <2>4 DEF SweepsExact
<1>12. ASSUME NEW m \in DOMAIN r.st.cells PROVE Counted(r, out, Z, kid, m)
  <2>1. m # Null /\ Counted(w, out, Z, Null, m)
    <3>1. m \in DOMAIN w.st.cells /\ m # Null
      BY <1>1, <1>3, CellTypes DEF Null
    <3> QED
      BY <3>1 DEF Exact
  <2>2. IsFiniteSet(Places(w, m)) /\ Cardinality(Places(w, m)) \in Nat
    BY PlacesFinite
  <2>3. Cardinality(Places(r, m)) = IF m = kid THEN Cardinality(Places(w, m)) - 1 ELSE Cardinality(Places(w, m))
    <3>1. CASE m = kid
      BY <1>9, <2>2, <3>1, FS_RemoveElement
    <3>2. CASE m # kid
      <4>1. Places(r, m) = Places(w, m)
        BY <1>9, <3>2
      <4> QED
        BY <3>2, <4>1
    <3> QED
      BY <3>1, <3>2
  <2>4. CASE IsFree(w.st, m)
    <3>1. Places(w, m) = {}
      BY <2>1, <2>4 DEF Counted
    <3>2. Places(r, m) = {} /\ m # kid
      BY <1>9, <3>1
    <3> QED
      BY <1>3, <2>1, <2>4, <3>2 DEF Counted
  <2>5. CASE ~IsFree(w.st, m)
    <3>1. /\ w.st.cells[m].rc = out[m] + Cardinality(Places(w, m)) + 0
          /\ w.st.cells[m].rc = 0 => m \in Z \/ Swept(w.calls, m)
      BY <2>1, <2>5 DEF Counted
    <3>2. out[m] \in Nat
      <4>1. m \in Nat
        BY <1>1, <1>3, CellTypes
      <4> QED
        BY <4>1 DEF Exact, Outside
    <3>3. w.st.cells[m].rc = out[m] + Cardinality(Places(r, m)) + (IF m = kid THEN 1 ELSE 0)
      BY <2>2, <2>3, <3>1, <3>2
    <3> QED
      BY <1>3, <1>10, <2>5, <3>1, <3>3 DEF Counted
  <2> QED
    BY <2>4, <2>5
<1>13. Exact(r, out, Z, kid)
  BY <1>3, <1>6, <1>11, <1>12 DEF Exact
<1> QED
  BY <1>6, <1>13 DEF r, o, i, d, kid

-----------------------------------------------------------------------------
(***************************************************************************)
(* The end of a sweep.                                                     *)
(***************************************************************************)
LEMMA Prepended ==
    ASSUME NEW T, NEW s \in Seq(T), NEW x \in T
    PROVE  LET r == <<x>> \o s
           IN  /\ r \in Seq(T) /\ Len(r) = Len(s) + 1 /\ Len(s) \in Nat
               /\ DOMAIN s = 1..Len(s) /\ DOMAIN r = 1..(Len(s) + 1)
               /\ r[1] = x /\ \A i \in DOMAIN s : r[i + 1] = s[i]
  OBVIOUS

\* r is the store st in which the cell n has been freed.
IsFreed(V, st, r, n) ==
    /\ r \in Stores(V) /\ DOMAIN r.cells = DOMAIN st.cells /\ r.ok = st.ok
    /\ \A m \in DOMAIN st.cells : /\ r.cells[m].rc = IF m = n THEN -1 ELSE st.cells[m].rc
                                  /\ r.cells[m].kids = IF m = n THEN <<>> ELSE st.cells[m].kids
    /\ r.free = <<n>> \o st.free /\ r.count = st.count + 1

LEMMA FreeChanges ==
    ASSUME NEW V, Nil \in V, 0 \in V, NEW st \in Stores(V), NEW n \in DOMAIN st.cells, st.cells[n].rc = 0
    PROVE  IsFreed(V, st, node_free(st, n), n)
<1> DEFINE c == [Blank EXCEPT !.rc = -1, !.label = st.cells[n].label]
           cells == [st.cells EXCEPT ![n] = c]
           free == <<n>> \o st.free
<1>1. st.cells \in Seq(Cells(V)) /\ n \in Nat /\ st.free \in Seq(Nat) /\ st.count + 1 \in Nat /\ st.ok \in BOOLEAN
  BY CellTypes
<1>2. c \in Cells(V) /\ c.rc = -1 /\ c.kids = <<>>
  <2>1. c = [rc |-> -1, tag |-> Nil, pos |-> 0, end |-> 0, value |-> Nil,
             label |-> st.cells[n].label, kids |-> <<>>]
    <3> DEFINE b == [Blank EXCEPT !.rc = -1]
    <3>1. b = [rc |-> -1, tag |-> Nil, pos |-> 0, end |-> 0, value |-> Nil, label |-> Nil, kids |-> <<>>]
      BY DEF Blank
    <3>2. c = [b EXCEPT !.label = st.cells[n].label]
      OBVIOUS
    <3> HIDE DEF b, c
    <3> QED
      BY <3>1, <3>2
  <2>2. <<>> \in Seq(Nat) /\ -1 \in Int
    OBVIOUS
  <2>3. st.cells[n].label \in V
    <3>1. st.cells[n] \in Cells(V)
      BY <1>1
    <3> QED
      BY <3>1 DEF Cells
  <2> HIDE DEF c
  <2> QED
    BY <2>1, <2>2, <2>3 DEF Cells
<1>3. node_free(st, n) = [cells |-> cells, free |-> free, count |-> st.count + 1, ok |-> st.ok]
  <2> DEFINE s0 == [st EXCEPT !.ok = @ /\ st.cells[n].rc = 0]
             s1 == [s0 EXCEPT !.cells = [s0.cells EXCEPT ![n] = c]]
             f1 == <<n>> \o s1.free
             s2 == [s1 EXCEPT !.free = f1]
             s3 == [s2 EXCEPT !.count = s2.count + 1]
  <2>1. node_free(st, n) = s3
    BY DEF node_free
  <2> HIDE DEF c
  <2>2. s0 = [cells |-> st.cells, free |-> st.free, count |-> st.count, ok |-> st.ok]
    BY DEF Stores
  <2> HIDE DEF s0
  <2>3. s1 = [cells |-> cells, free |-> st.free, count |-> st.count, ok |-> st.ok]
    BY <2>2
  <2> HIDE DEF s1, cells
  <2>5. f1 = free
    BY <2>3
  <2> HIDE DEF f1, free
  <2>4. s2 = [cells |-> cells, free |-> free, count |-> st.count, ok |-> st.ok]
    BY <2>3, <2>5
  <2> HIDE DEF s2
  <2> QED
    BY <2>1, <2>4
<1> HIDE DEF c
<1>4. /\ cells \in Seq(Cells(V)) /\ DOMAIN cells = DOMAIN st.cells
      /\ \A m \in DOMAIN st.cells : cells[m] = IF m = n THEN c ELSE st.cells[m]
  BY <1>1, <1>2, SeqExcept
<1>5. free \in Seq(Nat)
  BY <1>1, Prepended
<1> HIDE DEF cells, free
<1>6. node_free(st, n) \in Stores(V)
  BY <1>1, <1>3, <1>4, <1>5 DEF Stores
<1> QED
  BY <1>2, <1>3, <1>4, <1>6 DEF free, IsFreed

LEMMA FreeListGrows ==
    ASSUME NEW V, NEW st \in Stores(V), NEW st2 \in Stores(V), NEW n \in DOMAIN st.cells,
           DOMAIN st2.cells = DOMAIN st.cells, st2.free = <<n>> \o st.free, st2.count = st.count + 1
    PROVE  /\ \A m : IsFree(st2, m) <=> m = n \/ IsFree(st, m)
           /\ FreeList(st) /\ ~IsFree(st, n) => FreeList(st2)
<1>1. st.free \in Seq(Nat) /\ n \in Nat
  BY CellTypes
<1>2. /\ Len(st2.free) = Len(st.free) + 1 /\ Len(st.free) \in Nat
      /\ DOMAIN st.free = 1..Len(st.free) /\ DOMAIN st2.free = 1..(Len(st.free) + 1)
      /\ st2.free[1] = n /\ \A i \in DOMAIN st.free : st2.free[i + 1] = st.free[i]
  BY <1>1, Prepended
<1>3. \A i \in DOMAIN st2.free : i = 1 \/ (i - 1 \in DOMAIN st.free /\ st2.free[i] = st.free[i - 1])
  <2> TAKE i \in DOMAIN st2.free
  <2>1. CASE i # 1
    <3>1. i - 1 \in DOMAIN st.free /\ i - 1 + 1 = i
      BY <1>2, <2>1
    <3> QED
      BY <1>2, <3>1
  <2> QED
    BY <2>1
<1>4. 1 \in DOMAIN st2.free /\ \A i \in DOMAIN st.free : i + 1 \in DOMAIN st2.free
  BY <1>2
<1>5. ASSUME NEW m PROVE IsFree(st2, m) <=> m = n \/ IsFree(st, m)
  BY <1>2, <1>3, <1>4 DEF IsFree
<1>6. ASSUME FreeList(st), ~IsFree(st, n) PROVE FreeList(st2)
  <2>1. st2.count = Len(st2.free)
    BY <1>2, <1>6 DEF FreeList
  <2>2. \A i \in DOMAIN st2.free : st2.free[i] \in DOMAIN st2.cells
    BY <1>2, <1>3, <1>6 DEF FreeList
  <2>3. ASSUME NEW i \in DOMAIN st2.free, NEW j \in DOMAIN st2.free, st2.free[i] = st2.free[j] PROVE i = j
    <3>1. i \in Nat /\ j \in Nat
      BY <1>2
    <3>2. CASE i = 1 /\ j = 1
      BY <3>2
    <3>3. CASE i = 1 /\ j # 1
      BY <1>2, <1>3, <1>6, <2>3, <3>3 DEF IsFree
    <3>4. CASE i # 1 /\ j = 1
      BY <1>2, <1>3, <1>6, <2>3, <3>4 DEF IsFree
    <3>5. CASE i # 1 /\ j # 1
      <4>1. i - 1 = j - 1
        BY <1>3, <1>6, <2>3, <3>5 DEF FreeList
      <4> QED
        BY <3>1, <4>1
    <3> QED
      BY <3>2, <3>3, <3>4, <3>5
  <2> QED
    BY <2>1, <2>2, <2>3 DEF FreeList
<1> QED
  BY <1>5, <1>6

Finish(w) == [st |-> node_free(w.st, w.calls[Len(w.calls)].node), calls |-> Front(w.calls)]

LEMMA Finished ==
    ASSUME NEW V, Nil \in V, 0 \in V, NEW w \in Works(V), NEW out, NEW Z, Exact(w, out, Z, Null), w.calls # <<>>,
           LET c == w.calls[Len(w.calls)] IN c.next > Len(w.st.cells[c.node].kids)
    PROVE  LET o == w.calls[Len(w.calls)].node
           IN  /\ Finish(w) \in Works(V) /\ Exact(Finish(w), out, Z, Null)
               /\ DOMAIN Finish(w).st.cells = DOMAIN w.st.cells
               /\ \A m \in DOMAIN w.st.cells :
                     Finish(w).st.cells[m].kids = IF m = o THEN <<>> ELSE w.st.cells[m].kids
               /\ \A m : IsFree(Finish(w).st, m) <=> m = o \/ IsFree(w.st, m)
               /\ \A e \in DOMAIN Finish(w).calls : e \in DOMAIN w.calls /\ Finish(w).calls[e] = w.calls[e] /\ e # Len(w.calls)
               /\ \A e \in DOMAIN w.calls : e # Len(w.calls) => e \in DOMAIN Finish(w).calls
<1> DEFINE d == Len(w.calls)
           o == w.calls[d].node
           i == w.calls[d].next
           r == Finish(w)
<1>1. w.st \in Stores(V) /\ w.calls \in Calls
  BY DEF Works
<1>2. d \in Nat \ {0} /\ d \in DOMAIN w.calls /\ o \in Nat /\ i \in Nat \ {0} /\ DOMAIN w.calls = 1..d
  BY LastCall
<1>3. /\ o \in DOMAIN w.st.cells /\ ~IsFree(w.st, o) /\ w.st.cells[o].rc = 0 /\ o \notin Z
      /\ i <= Len(w.st.cells[o].kids) + 1
      /\ \A e \in DOMAIN w.calls : w.calls[e].node = o => e = d
  BY <1>2 DEF Exact, SweepsExact
<1>4. /\ r.st \in Stores(V) /\ DOMAIN r.st.cells = DOMAIN w.st.cells /\ r.st.ok = w.st.ok
      /\ \A m \in DOMAIN w.st.cells : /\ r.st.cells[m].rc = IF m = o THEN -1 ELSE w.st.cells[m].rc
                                      /\ r.st.cells[m].kids = IF m = o THEN <<>> ELSE w.st.cells[m].kids
      /\ r.st.free = <<o>> \o w.st.free /\ r.st.count = w.st.count + 1
  <2>1. r.st = node_free(w.st, o)
    BY DEF Finish
  <2> HIDE DEF r, o
  <2>2. IsFreed(V, w.st, node_free(w.st, o), o)
    BY <1>1, <1>3, FreeChanges
  <2> QED
    BY <2>1, <2>2 DEF IsFreed
<1>5. /\ r.calls \in Calls /\ DOMAIN r.calls = 1..d-1
      /\ \A e \in DOMAIN r.calls : e \in DOMAIN w.calls /\ r.calls[e] = w.calls[e] /\ e # d
      /\ \A e \in DOMAIN w.calls : e # d => e \in DOMAIN r.calls
  <2> DEFINE T == [node : Nat, next : Nat \ {0}]
  <2>1. w.calls \in Seq(T) /\ w.calls # <<>> /\ r.calls = Front(w.calls)
    BY <1>1 DEF Finish, Calls
  <2> HIDE DEF T, r
  <2>2. r.calls \in Seq(T) /\ DOMAIN r.calls = 1..d-1 /\ \A e \in 1..d-1 : r.calls[e] = w.calls[e]
    BY <2>1, <1>2 DEF Front
  <2>3. r.calls \in Calls
    BY <2>2 DEF Calls, T
  <2>4. \A e \in DOMAIN r.calls : e \in 1..d /\ e # d
    <3> HIDE DEF d
    <3> QED
      BY <1>2, <2>2
  <2>5. \A e \in DOMAIN w.calls : e # d => e \in 1..d-1
    <3> HIDE DEF d
    <3> QED
      BY <1>2
  <2> QED
    BY <1>2, <2>2, <2>3, <2>4, <2>5
<1>6. r \in Works(V)
  <2>1. r = [st |-> r.st, calls |-> r.calls]
    BY DEF Finish
  <2> HIDE DEF r
  <2> QED
    BY <2>1, <1>4, <1>5 DEF Works
<1>7. i = Len(w.st.cells[o].kids) + 1
  <2>1. i > Len(w.st.cells[o].kids)
    OBVIOUS
  <2>2. Len(w.st.cells[o].kids) \in Nat
    BY <1>1, <1>3, CellTypes
  <2> HIDE DEF i, o
  <2> QED
    BY <1>2, <1>3, <2>1, <2>2
<1> HIDE DEF r, d, o, i
<1>8. /\ \A m : IsFree(r.st, m) <=> m = o \/ IsFree(w.st, m)
      /\ FreeList(r.st)
  BY <1>1, <1>3, <1>4, FreeListGrows DEF Exact
<1>9. o # Null /\ out[o] = 0 /\ Places(w, o) = {}
  <2>1. o # Null /\ Counted(w, out, Z, Null, o)
    BY <1>1, <1>3, CellTypes DEF Exact, Null
  <2>2. 0 = out[o] + Cardinality(Places(w, o)) + 0
    BY <1>3, <2>1 DEF Counted
  <2>3. out[o] \in Nat /\ Cardinality(Places(w, o)) \in Nat /\ IsFiniteSet(Places(w, o))
    BY <1>2, PlacesFinite DEF Exact, Outside
  <2>4. out[o] = 0 /\ Cardinality(Places(w, o)) = 0
    BY <2>2, <2>3
  <2> QED
    BY <2>1, <2>3, <2>4, FS_EmptySet
<1>10. ASSUME NEW m, m \in DOMAIN w.st.cells PROVE Places(r, m) = Places(w, m)
  <2>0. r.st \in Stores(V) /\ m \in Nat
    BY <1>1, <1>4, <1>10, CellTypes
  <2>1. ASSUME NEW p PROVE p \in Places(r, m) <=> p \in Places(w, m)
    <3>1. CASE p[1] = o
      <4>1. p \notin Places(r, m)
        <5>1. ASSUME p \in Pairs(r.st), p[2] # 0 PROVE FALSE
          <6>1. PICK q \in DOMAIN r.st.cells : \E j \in 0..Len(r.st.cells[q].kids) : p = <<q, j>>
            BY <1>4, <5>1, PairsAre
          <6>2. PICK j \in 0..Len(r.st.cells[q].kids) : p = <<q, j>>
            BY <6>1
          <6>3. q = o /\ r.st.cells[q].kids = <<>>
            BY <1>3, <1>4, <3>1, <6>2
          <6> QED
            BY <5>1, <6>2, <6>3
        <5> QED
          BY <5>1 DEF Places, IsPlace
      <4>2. p \notin Places(w, m)
        <5>1. ASSUME p \in Pairs(w.st), IsPlace(w, m, p) PROVE FALSE
          <6>1. PICK q \in DOMAIN w.st.cells : \E j \in 0..Len(w.st.cells[q].kids) : p = <<q, j>>
            BY <1>1, <5>1, PairsAre
          <6>2. PICK j \in 0..Len(w.st.cells[q].kids) : p = <<q, j>>
            BY <6>1
          <6>3. q = o /\ j <= Len(w.st.cells[o].kids)
            BY <3>1, <6>2
          <6>4. i <= j
            BY <1>2, <5>1, <6>2, <6>3 DEF IsPlace, Ahead, o, i
          <6>5. Len(w.st.cells[o].kids) \in Nat /\ j \in Int
            BY <1>1, <1>3, <6>2, <6>3, CellTypes
          <6> QED
            BY <1>7, <6>3, <6>4, <6>5
        <5> QED
          BY <5>1 DEF Places
      <4> QED
        BY <4>1, <4>2
    <3>2. CASE p[1] # o
      <4>1. p \in Pairs(r.st) <=> p \in Pairs(w.st)
        <5>1. ASSUME NEW q \in DOMAIN w.st.cells, NEW j, p = <<q, j>>
              PROVE  j \in 0..Len(r.st.cells[q].kids) <=> j \in 0..Len(w.st.cells[q].kids)
          BY <1>4, <3>2, <5>1
        <5> QED
          BY <1>1, <1>4, <5>1, PairsAre
      <4>2. ASSUME p \in Pairs(w.st) PROVE IsPlace(r, m, p) <=> IsPlace(w, m, p)
        <5>1. p[1] \in DOMAIN w.st.cells
          BY <1>1, <4>2, PairsAre
        <5>2. r.st.cells[p[1]].kids = w.st.cells[p[1]].kids
          BY <1>4, <3>2, <5>1
        <5>3. Ahead(r.calls, p[1], p[2]) <=> Ahead(w.calls, p[1], p[2])
          BY <1>5, <3>2 DEF Ahead, o
        <5> QED
          BY <5>2, <5>3 DEF IsPlace
      <4> QED
        BY <4>1, <4>2 DEF Places
    <3> QED
      BY <3>1, <3>2
  <2>2. Places(r, m) \subseteq Places(w, m)
    BY <2>1
  <2>3. Places(w, m) \subseteq Places(r, m)
    BY <2>1
  <2> QED
    BY <2>2, <2>3
<1>11. \A m : Swept(w.calls, m) <=> Swept(r.calls, m) \/ m = o
  <2>1. o = w.calls[d].node
    BY DEF o
  <2> QED
    BY <1>2, <1>5, <2>1 DEF Swept
<1>12. KidsIn(r.st)
  BY <1>4 DEF Exact, KidsIn
<1>13. SweepsExact(r, Z)
  <2>1. SweepsExact(w, Z)
    BY DEF Exact
  <2>2. ASSUME NEW e \in DOMAIN r.calls
        PROVE  LET q == r.calls[e].node
               IN  /\ q \in DOMAIN r.st.cells /\ ~IsFree(r.st, q) /\ r.st.cells[q].rc = 0
                   /\ r.calls[e].next <= Len(r.st.cells[q].kids) + 1 /\ q \notin Z
    <3>1. r.calls[e] = w.calls[e] /\ e \in DOMAIN w.calls /\ w.calls[e].node # o
      BY <1>3, <1>5
    <3>2. LET q == w.calls[e].node
          IN  /\ q \in DOMAIN w.st.cells /\ ~IsFree(w.st, q) /\ w.st.cells[q].rc = 0
              /\ w.calls[e].next <= Len(w.st.cells[q].kids) + 1 /\ q \notin Z
      BY <2>1, <3>1 DEF SweepsExact
    <3> QED
      BY <1>4, <1>8, <3>1, <3>2
  <2>3. \A e, f \in DOMAIN r.calls : r.calls[e].node = r.calls[f].node => e = f
    BY <1>5, <2>1 DEF SweepsExact
  <2> QED
    BY <2>2, <2>3 DEF SweepsExact
<1>14. NewExact(r.st, Z)
  <2>1. NewExact(w.st, Z)
    BY DEF Exact
  <2> QED
    BY <1>3, <1>4, <1>8, <2>1 DEF NewExact
<1>15. ASSUME NEW m \in DOMAIN r.st.cells PROVE Counted(r, out, Z, Null, m)
  <2>1. m \in DOMAIN w.st.cells /\ Counted(w, out, Z, Null, m)
    BY <1>4 DEF Exact
  <2>2. Places(r, m) = Places(w, m)
    BY <1>10, <2>1
  <2>3. CASE m = o
    <3>1. r.st.cells[m].rc = -1 /\ r.st.cells[m].kids = <<>> /\ IsFree(r.st, m)
      BY <1>4, <1>8, <2>1, <2>3
    <3>2. -1 <= 0
      OBVIOUS
    <3> QED
      BY <1>9, <2>2, <2>3, <3>1, <3>2 DEF Counted
  <2>4. CASE m # o
    <3>1. r.st.cells[m].rc = w.st.cells[m].rc /\ r.st.cells[m].kids = w.st.cells[m].kids
      BY <1>4, <2>1, <2>4
    <3>2. IsFree(r.st, m) <=> IsFree(w.st, m)
      BY <1>8, <2>4
    <3>3. Swept(r.calls, m) <=> Swept(w.calls, m)
      BY <1>11, <2>4
    <3> QED
      BY <2>1, <2>2, <3>1, <3>2, <3>3 DEF Counted
  <2> QED
    BY <2>3, <2>4
<1>16. Exact(r, out, Z, Null)
  <2>1. r.st.ok /\ Outside(r.st, out)
    BY <1>4 DEF Exact, Outside
  <2> QED
    BY <1>8, <1>12, <1>13, <1>14, <1>15, <2>1 DEF Exact
<1> QED
  BY <1>4, <1>5, <1>6, <1>8, <1>16 DEF r, o, d

-----------------------------------------------------------------------------
(***************************************************************************)
(* A release ends: every turn leaves a place, or the place 0 of a node,    *)
(* behind.                                                                 *)
(***************************************************************************)
IsLeft(w, p) ==
    /\ ~IsFree(w.st, p[1])
    /\ \A d \in DOMAIN w.calls : w.calls[d].node = p[1] => w.calls[d].next - 1 <= p[2]
PairsLeft(w) == {p \in Pairs(w.st) : IsLeft(w, p)}

LEMMA LeftFinite ==
    ASSUME NEW V, NEW w \in Works(V)
    PROVE  /\ IsFiniteSet(PairsLeft(w)) /\ Cardinality(PairsLeft(w)) \in Nat
           /\ Cardinality(PairsLeft(w)) <= Cardinality(Pairs(w.st))
<1>1. w.st \in Stores(V) /\ PairsLeft(w) \in SUBSET Pairs(w.st)
  BY DEF Works, PairsLeft
<1> QED
  BY <1>1, PairsFinite, FS_Subset, FS_CardinalityType

\* The place that the innermost sweep comes from.
Behind(w) == <<w.calls[Len(w.calls)].node, w.calls[Len(w.calls)].next - 1>>

LEMMA BehindIsLeft ==
    ASSUME NEW V, NEW w \in Works(V), NEW Z, SweepsExact(w, Z), w.calls # <<>>
    PROVE  Behind(w) \in PairsLeft(w)
<1> DEFINE d == Len(w.calls)
           o == w.calls[d].node
           i == w.calls[d].next
<1>1. w.st \in Stores(V)
  BY DEF Works
<1>2. d \in DOMAIN w.calls /\ o \in Nat /\ i \in Nat \ {0}
  BY LastCall
<1>3. /\ o \in DOMAIN w.st.cells /\ ~IsFree(w.st, o) /\ i <= Len(w.st.cells[o].kids) + 1
      /\ \A e \in DOMAIN w.calls : w.calls[e].node = o => e = d
  BY <1>2 DEF SweepsExact
<1> HIDE DEF o, d, i
<1>4. Len(w.st.cells[o].kids) \in Nat
  BY <1>1, <1>3, CellTypes
<1>5. i - 1 \in 0..Len(w.st.cells[o].kids)
  BY <1>2, <1>3, <1>4
<1>6. <<o, i - 1>> \in Pairs(w.st)
  BY <1>1, <1>3, <1>5, PairsAre
<1>7. i - 1 <= i - 1 /\ i = w.calls[d].next
  BY <1>2 DEF i
<1>8. \A e \in DOMAIN w.calls : w.calls[e].node = o => w.calls[e].next - 1 <= i - 1
  BY <1>3, <1>7
<1>9. <<o, i - 1>>[1] = o /\ <<o, i - 1>>[2] = i - 1
  OBVIOUS
<1>10. IsLeft(w, <<o, i - 1>>)
  BY <1>3, <1>8, <1>9 DEF IsLeft
<1> QED
  BY <1>6, <1>10 DEF PairsLeft, Behind, o, d, i

LEMMA LessLeft ==
    ASSUME NEW V, NEW w \in Works(V), NEW r \in Works(V), w.calls # <<>>,
           SameCells(w.st, r.st), SameFree(w.st, r.st),
           \A e \in DOMAIN w.calls : /\ e \in DOMAIN r.calls /\ r.calls[e].node = w.calls[e].node
                                     /\ r.calls[e].next = IF e = Len(w.calls) THEN w.calls[e].next + 1 ELSE w.calls[e].next
    PROVE  PairsLeft(r) \subseteq PairsLeft(w) \ {Behind(w)}
<1> DEFINE d == Len(w.calls)
           o == w.calls[d].node
           i == w.calls[d].next
<1>1. w.st \in Stores(V)
  BY DEF Works
<1>2. d \in DOMAIN w.calls /\ o \in Nat /\ i \in Nat \ {0} /\ \A e \in DOMAIN w.calls : w.calls[e].next \in Nat
  BY LastCall
<1>3. d \in DOMAIN r.calls /\ r.calls[d].node = o /\ r.calls[d].next = i + 1
  BY <1>2
<1> HIDE DEF o, d, i
<1>4. Pairs(r.st) = Pairs(w.st) /\ \A m : IsFree(r.st, m) <=> IsFree(w.st, m)
  BY SamePairs, SameFreeNodes
<1> SUFFICES ASSUME NEW p \in PairsLeft(r) PROVE p \in PairsLeft(w) /\ p # <<o, i - 1>>
  BY DEF Behind, o, i, d
<1>5. p \in Pairs(w.st) /\ IsLeft(r, p)
  BY <1>4 DEF PairsLeft
<1>6. p[2] \in Nat
  BY <1>1, <1>5, PairsAre, CellTypes
<1>7. IsLeft(w, p)
  <2>1. ASSUME NEW e \in DOMAIN w.calls, w.calls[e].node = p[1] PROVE w.calls[e].next - 1 <= p[2]
    <3>1. r.calls[e].next - 1 <= p[2]
      BY <1>5, <2>1 DEF IsLeft
    <3>2. r.calls[e].next \in {w.calls[e].next, w.calls[e].next + 1}
      OBVIOUS
    <3>3. w.calls[e].next \in Nat
      BY <1>2
    <3> DEFINE a == w.calls[e].next
               b == r.calls[e].next
    <3>4. a \in Nat /\ b \in {a, a + 1} /\ b - 1 <= p[2]
      BY <3>1, <3>2, <3>3
    <3> HIDE DEF a, b
    <3>5. a - 1 <= p[2]
      BY <1>6, <3>4
    <3> QED
      BY <3>5 DEF a
  <2> QED
    BY <1>4, <1>5, <2>1 DEF IsLeft
<1>8. p # <<o, i - 1>>
  <2> SUFFICES ASSUME p = <<o, i - 1>> PROVE FALSE
    OBVIOUS
  <2>0. p[1] = o /\ p[2] = i - 1
    OBVIOUS
  <2>1. r.calls[d].next - 1 <= p[2]
    BY <1>3, <1>5, <2>0 DEF IsLeft
  <2>2. i + 1 - 1 <= i - 1
    BY <1>2, <1>3, <2>0, <2>1
  <2> QED
    BY <1>2, <2>2
<1> QED
  BY <1>5, <1>7, <1>8 DEF PairsLeft

LEMMA ShrinksSame == ASSUME NEW st, NEW st2, SameCells(st, st2) PROVE Shrinks(st, st2)
  BY DEF SameCells, Shrinks

LEMMA ShrinksFurther ==
    ASSUME NEW a, NEW b, NEW c, Shrinks(a, b), Shrinks(b, c)
    PROVE  Shrinks(a, c)
  BY DEF Shrinks

LEMMA Turned ==
    ASSUME NEW V, Nil \in V, 0 \in V, NEW w \in Works(V), NEW out, NEW Z, Exact(w, out, Z, Null), w.calls # <<>>
    PROVE  LET r == Node_sweep(w)
           IN  /\ r \in Works(V) /\ Exact(r, out, Z, Null) /\ Shrinks(w.st, r.st)
               /\ PairsLeft(r) \subseteq PairsLeft(w) \ {Behind(w)}
<1> DEFINE d == Len(w.calls)
           o == w.calls[d].node
           i == w.calls[d].next
           kids == w.st.cells[o].kids
           next == Advance(w)
           r == Node_sweep(w)
<1>1. w.st \in Stores(V)
  BY DEF Works
<1>2. d \in DOMAIN w.calls /\ o \in Nat /\ i \in Nat \ {0} /\ o \in DOMAIN w.st.cells
  BY LastCall DEF Exact, SweepsExact
<1>3. Len(kids) \in Nat
  BY <1>1, <1>2, CellTypes
<1>4. r = IF i > Len(kids) THEN Finish(w) ELSE IF kids[i] = Null THEN next ELSE Drop(next, kids[i])
  BY DEF Node_sweep, Finish, Advance
<1>5. CASE i > Len(kids)
  <2>1. r = Finish(w)
    BY <1>4, <1>5
  <2> HIDE DEF r
  <2>2. /\ Finish(w) \in Works(V) /\ Exact(Finish(w), out, Z, Null)
        /\ DOMAIN Finish(w).st.cells = DOMAIN w.st.cells
        /\ \A m \in DOMAIN w.st.cells :
              Finish(w).st.cells[m].kids = IF m = o THEN <<>> ELSE w.st.cells[m].kids
        /\ \A m : IsFree(Finish(w).st, m) <=> m = o \/ IsFree(w.st, m)
        /\ \A e \in DOMAIN Finish(w).calls : e \in DOMAIN w.calls /\ Finish(w).calls[e] = w.calls[e] /\ e # Len(w.calls)
        /\ \A e \in DOMAIN w.calls : e # Len(w.calls) => e \in DOMAIN Finish(w).calls
    BY <1>5, Finished
  <2>3. Shrinks(w.st, r.st)
    BY <2>1, <2>2 DEF Shrinks
  <2>4. ASSUME NEW p \in PairsLeft(r) PROVE p \in PairsLeft(w) /\ p # Behind(w)
    <3>1. p \in Pairs(r.st) /\ IsLeft(r, p) /\ r.st \in Stores(V)
      BY <2>1, <2>2 DEF PairsLeft, Works
    <3>2. PICK m \in DOMAIN r.st.cells : \E j \in 0..Len(r.st.cells[m].kids) : p = <<m, j>>
      BY <3>1, PairsAre
    <3>3. PICK j \in 0..Len(r.st.cells[m].kids) : p = <<m, j>>
      BY <3>2
    <3>4. m # o /\ ~IsFree(w.st, m) /\ m \in DOMAIN w.st.cells /\ r.st.cells[m].kids = w.st.cells[m].kids
      BY <2>1, <2>2, <3>1, <3>3 DEF IsLeft
    <3>5. p \in Pairs(w.st)
      BY <1>1, <3>3, <3>4, PairsAre
    <3>6. \A e \in DOMAIN w.calls : w.calls[e].node = p[1] => e \in DOMAIN r.calls /\ r.calls[e] = w.calls[e]
      BY <2>1, <2>2, <3>3, <3>4
    <3>7. IsLeft(w, p)
      BY <3>1, <3>3, <3>4, <3>6 DEF IsLeft
    <3>8. p # Behind(w)
      BY <3>3, <3>4 DEF Behind
    <3> QED
      BY <3>5, <3>7, <3>8 DEF PairsLeft
  <2> QED
    BY <2>1, <2>2, <2>3, <2>4 DEF r
<1>6. CASE ~(i > Len(kids))
  <2>1. i <= Len(kids)
    <3> HIDE DEF i, kids
    <3> QED
      BY <1>2, <1>3, <1>6
  <2>2. Exact(next, out, Z, kids[i]) /\ kids[i] \in DOMAIN w.st.cells \cup {Null}
    BY <2>1, Advanced
  <2>3. /\ next \in Works(V) /\ next.st = w.st /\ Len(next.calls) = d /\ DOMAIN next.calls = DOMAIN w.calls
        /\ \A e \in DOMAIN w.calls : /\ next.calls[e].node = w.calls[e].node
                                     /\ next.calls[e].next = IF e = d THEN w.calls[e].next + 1 ELSE w.calls[e].next
    BY AdvanceChanges
  <2>4. SameCells(w.st, next.st) /\ SameFree(w.st, next.st)
    BY <2>3 DEF SameCells, SameFree
  <2>5. CASE kids[i] = Null
    <3>1. r = next
      BY <1>4, <1>6, <2>5
    <3>2. Exact(next, out, Z, Null)
      BY <2>2, <2>5
    <3> HIDE DEF r, next, kids, i, o, d
    <3>3. PairsLeft(next) \subseteq PairsLeft(w) \ {Behind(w)}
      BY <2>3, <2>4, LessLeft DEF d
    <3> QED
      BY <2>3, <2>4, <3>1, <3>2, <3>3, ShrinksSame DEF r
  <2>6. CASE kids[i] # Null
    <3> DEFINE kid == kids[i]
    <3>1. r = Drop(next, kid)
      <4>1. r = IF i > Len(kids) THEN Finish(w) ELSE IF kids[i] = Null THEN next ELSE Drop(next, kids[i])
        BY <1>4
      <4> HIDE DEF r, next, kids, i
      <4> QED
        BY <4>1, <1>6, <2>6
    <3>2. kid \in Nat \ {Null} /\ Exact(next, out, Z, kid)
      <4>1. kid \in DOMAIN w.st.cells /\ kid # Null /\ Exact(next, out, Z, kid)
        BY <2>2, <2>6
      <4> HIDE DEF kid, next
      <4>2. DOMAIN w.st.cells \subseteq Nat
        BY <1>1, CellTypes
      <4> QED
        BY <4>1, <4>2
    <3> HIDE DEF r, next, kid, kids, i, o, d
    <3>3. /\ r \in Works(V) /\ SameCells(next.st, r.st) /\ SameFree(next.st, r.st) /\ Exact(r, out, Z, Null)
          /\ r.calls \in {next.calls, Append(next.calls, [node |-> kid, next |-> 1])}
      BY <2>3, <3>1, <3>2, Dropped
    <3>4. next.calls \in Calls /\ \A e \in DOMAIN next.calls : e \in DOMAIN r.calls /\ r.calls[e] = next.calls[e]
      <4>1. next.calls \in Calls
        BY <2>3 DEF Works
      <4>2. LET a == Append(next.calls, [node |-> kid, next |-> 1])
            IN  \A e \in DOMAIN next.calls : e \in DOMAIN a /\ a[e] = next.calls[e]
        BY <3>2, <4>1, MoreCalls
      <4> QED
        BY <3>3, <4>1, <4>2
    <3>5. SameCells(w.st, r.st) /\ SameFree(w.st, r.st)
      BY <2>3, <3>3
    <3>6. PairsLeft(r) \subseteq PairsLeft(w) \ {Behind(w)}
      BY <2>3, <3>3, <3>4, <3>5, LessLeft DEF d
    <3> QED
      BY <3>3, <3>5, <3>6, ShrinksSame DEF r
  <2> QED
    BY <2>5, <2>6
<1> QED
  BY <1>5, <1>6

LEMMA ReleaseIsFunction ==
    ASSUME NEW st, NEW o, Turns(st) \in Nat
    PROVE  \E f : /\ f[0] = Drop(Idle(st), o) /\ Release(st, o) = f[Turns(st)].st
                  /\ \A k \in Nat : 0 < k /\ k <= Turns(st) => f[k] = Node_sweep(f[k - 1])
<1> DEFINE Body(f, k) == IF k = 0 THEN Drop(Idle(st), o) ELSE Node_sweep(f[k - 1])
           Is(f, n) == f = [k \in 0..n |-> Body(f, k)]
           Good == {n \in Nat : \E f : Is(f, n)}
<1>1. 0 \in Good
  <2> DEFINE ext == [k \in 0..0 |-> Drop(Idle(st), o)]
  <2>1. Is(ext, 0)
    OBVIOUS
  <2> HIDE DEF Is, ext
  <2>2. \E f : Is(f, 0)
    BY <2>1
  <2> QED
    BY <2>2
<1>2. ASSUME NEW n \in Good PROVE n + 1 \in Good
  <2>1. n \in Nat /\ \E f : Is(f, n)
    <3> HIDE DEF Is
    <3> QED
      OBVIOUS
  <2>2. PICK f : Is(f, n)
    BY <2>1
  <2>3. \A k \in 0..n : f[k] = Body(f, k)
    BY <2>2
  <2> DEFINE ext == [k \in 0..n+1 |-> IF k = n + 1 THEN Body(f, n + 1) ELSE f[k]]
  <2>4. \A k \in 0..n : ext[k] = f[k] /\ k \in 0..n+1
    <3> HIDE DEF Body
    <3> QED
      BY <2>1
  <2>5. ext[n + 1] = Body(f, n + 1) /\ f[n] = ext[n] /\ n + 1 - 1 = n
    <3> HIDE DEF Body
    <3> QED
      BY <2>1
  <2>6. \A k \in 0..n+1 : ext[k] = Body(ext, k)
    <3> HIDE DEF ext
    <3> TAKE k \in 0..n+1
    <3>1. CASE k = n + 1
      BY <3>1, <2>1, <2>5
    <3>2. CASE k # n + 1
      <4>1. k \in 0..n /\ (k # 0 => k - 1 \in 0..n)
        BY <3>2, <2>1
      <4> QED
        BY <4>1, <2>3, <2>4
    <3> QED
      BY <3>1, <3>2
  <2>7. ext = [k \in 0..n+1 |-> ext[k]]
    OBVIOUS
  <2> HIDE DEF ext
  <2>8. Is(ext, n + 1)
    BY <2>6, <2>7
  <2> HIDE DEF Is
  <2> QED
    BY <2>1, <2>8
<1>3. Turns(st) \in Good
  <2> HIDE DEF Good
  <2>1. Good = Nat
    <3>1. Good \in SUBSET Nat
      BY DEF Good
    <3> QED
      BY <1>1, <1>2, <3>1, InductionInSet
  <2> QED
    BY <2>1
<1> DEFINE f == CHOOSE f : Is(f, Turns(st))
<1>4. Is(f, Turns(st))
  BY <1>3
<1>5. Release(st, o) = f[Turns(st)].st
  BY DEF Release, Idle
<1> HIDE DEF f
<1>6. \A k \in 0..Turns(st) : f[k] = Body(f, k)
  BY <1>4
<1>7. f[0] = Drop(Idle(st), o)
  BY <1>6
<1>8. \A k \in Nat : 0 < k /\ k <= Turns(st) => f[k] = Body(f, k)
  BY <1>6
<1> QED
  BY <1>5, <1>7, <1>8

LEMMA NoTurnLeft == ASSUME NEW w, w.calls = <<>> PROVE Node_sweep(w) = w
  BY DEF Node_sweep

\* A reference that is owed is released.
LEMMA ReleasedOwed ==
    ASSUME NEW V, Nil \in V, 0 \in V, NEW st \in Stores(V), NEW out, NEW Z, NEW n \in Nat \ {Null},
           Exact(Idle(st), out, Z, n)
    PROVE  LET r == Release(st, n)
           IN  r \in Stores(V) /\ Exact(Idle(r), out, Z, Null) /\ Shrinks(st, r)
<1> DEFINE T == Turns(st)
<1>1. T = Cardinality(Pairs(st)) /\ T \in Nat
  <2>1. T = Cardinality(Pairs(st))
    BY DEF Turns, Pairs, PairsOf
  <2> HIDE DEF T
  <2> QED
    BY <2>1, PairsFinite, FS_CardinalityType
<1>2. PICK f : /\ f[0] = Drop(Idle(st), n) /\ Release(st, n) = f[T].st
               /\ \A k \in Nat : 0 < k /\ k <= T => f[k] = Node_sweep(f[k - 1])
  BY <1>1, ReleaseIsFunction
<1> DEFINE Good(k) == /\ f[k] \in Works(V) /\ Exact(f[k], out, Z, Null) /\ Shrinks(st, f[k].st)
                      /\ f[k].calls = <<>> \/ Cardinality(PairsLeft(f[k])) + k <= T
           G == {k \in Nat : k <= T => Good(k)}
<1> HIDE DEF T
<1>3. Good(0)
  <2>1. Idle(st) \in Works(V) /\ Idle(st).st = st
    BY DEF Idle, Works, Calls
  <2>2. f[0] \in Works(V) /\ SameCells(st, f[0].st) /\ Exact(f[0], out, Z, Null)
    <3> DEFINE w == Idle(st)
    <3>1. w \in Works(V) /\ Exact(w, out, Z, n) /\ w.st = st /\ f[0] = Drop(w, n)
      BY <1>2, <2>1
    <3> HIDE DEF w
    <3>2. Drop(w, n) \in Works(V) /\ SameCells(w.st, Drop(w, n).st) /\ Exact(Drop(w, n), out, Z, Null)
      BY <3>1, Dropped
    <3> QED
      BY <3>1, <3>2
  <2>3. Pairs(f[0].st) = Pairs(st)
    BY <2>2, SamePairs
  <2>4. Cardinality(PairsLeft(f[0])) + 0 <= T
    BY <1>1, <2>2, <2>3, LeftFinite
  <2> QED
    BY <2>2, <2>4, ShrinksSame
<1>4. ASSUME NEW k \in G PROVE k + 1 \in G
  <2> SUFFICES ASSUME k + 1 <= T PROVE Good(k + 1)
    OBVIOUS
  <2>1. k \in Nat /\ Good(k) /\ f[k + 1] = Node_sweep(f[k])
    <3>1. k \in Nat /\ k <= T /\ Good(k)
      BY <1>1
    <3>2. k + 1 \in Nat /\ 0 < k + 1 /\ k + 1 - 1 = k
      BY <3>1
    <3> QED
      BY <1>2, <3>1, <3>2
  <2>2. CASE f[k].calls = <<>>
    <3>1. f[k + 1] = f[k]
      BY <2>1, <2>2, NoTurnLeft
    <3> QED
      BY <2>1, <2>2, <3>1
  <2>3. CASE f[k].calls # <<>>
    <3>1. /\ f[k + 1] \in Works(V) /\ Exact(f[k + 1], out, Z, Null) /\ Shrinks(f[k].st, f[k + 1].st)
          /\ PairsLeft(f[k + 1]) \subseteq PairsLeft(f[k]) \ {Behind(f[k])}
      BY <2>1, <2>3, Turned
    <3>2. Behind(f[k]) \in PairsLeft(f[k])
      BY <2>1, <2>3, BehindIsLeft DEF Exact
    <3> DEFINE A == PairsLeft(f[k])
               B == PairsLeft(f[k + 1])
               x == Behind(f[k])
    <3>3. IsFiniteSet(A) /\ Cardinality(A) \in Nat /\ Cardinality(B) \in Nat
      BY <2>1, <3>1, LeftFinite
    <3>4. Cardinality(A) + k <= T
      BY <2>1, <2>3
    <3> HIDE DEF A, B, x
    <3>5. IsFiniteSet(A \ {x}) /\ Cardinality(A \ {x}) = Cardinality(A) - 1
      BY <3>2, <3>3, FS_RemoveElement DEF A, x
    <3>6. B \in SUBSET (A \ {x})
      BY <3>1 DEF A, B, x
    <3>7. Cardinality(B) <= Cardinality(A \ {x})
      BY <3>5, <3>6, FS_Subset
    <3>8. Cardinality(B) + (k + 1) <= T
      BY <1>1, <2>1, <3>3, <3>4, <3>5, <3>7
    <3>9. Shrinks(st, f[k + 1].st)
      BY <2>1, <3>1, ShrinksFurther
    <3> QED
      BY <3>1, <3>8, <3>9 DEF B
  <2> QED
    BY <2>2, <2>3
<1>5. Good(T)
  <2>1. G \in SUBSET Nat /\ 0 \in G
    BY <1>3
  <2>2. G = Nat
    <3> HIDE DEF G
    <3> QED
      BY <1>4, <2>1, InductionInSet
  <2> HIDE DEF Good
  <2> QED
    BY <1>1, <2>2
<1>6. f[T].calls = <<>>
  <2> SUFFICES ASSUME f[T].calls # <<>> PROVE FALSE
    OBVIOUS
  <2>1. Cardinality(PairsLeft(f[T])) + T <= T
    BY <1>5
  <2>2. IsFiniteSet(PairsLeft(f[T])) /\ Cardinality(PairsLeft(f[T])) \in Nat
    BY <1>5, LeftFinite
  <2>3. Cardinality(PairsLeft(f[T])) = 0
    BY <1>1, <2>1, <2>2
  <2>4. PairsLeft(f[T]) = {}
    BY <2>2, <2>3, FS_EmptySet
  <2> QED
    BY <1>5, <2>4, BehindIsLeft DEF Exact
<1>7. f[T] = Idle(f[T].st)
  BY <1>5, <1>6 DEF Works, Idle
<1>8. f[T].st \in Stores(V)
  BY <1>5 DEF Works
<1> QED
  BY <1>2, <1>5, <1>7, <1>8

-----------------------------------------------------------------------------
(***************************************************************************)
(* References from outside come and go.                                    *)
(***************************************************************************)
LEMMA IdleFields == ASSUME NEW st PROVE Idle(st).st = st /\ Idle(st).calls = <<>>
  BY DEF Idle

LEMMA IdleTypes ==
    ASSUME NEW V, NEW st \in Stores(V)
    PROVE  Idle(st) \in Works(V)
  BY DEF Idle, Works, Calls

\* Exactness between two operations, in which no sweep goes on.
Settled(st, out, Z) ==
    /\ st.ok /\ FreeList(st) /\ KidsIn(st) /\ Outside(st, out) /\ NewExact(st, Z)
    /\ \A n \in DOMAIN st.cells : Counted(Idle(st), out, Z, Null, n)

LEMMA SettledIs ==
    ASSUME NEW st, NEW out, NEW Z
    PROVE  Settled(st, out, Z) <=> Exact(Idle(st), out, Z, Null)
<1>1. SweepsExact(Idle(st), Z)
  BY DEF SweepsExact, Idle
<1> QED
  BY <1>1, IdleFields DEF Settled, Exact

LEMMA OutsideAlike ==
    ASSUME NEW V, NEW st \in Stores(V), NEW out, NEW Z, NEW out2 \in [Nat -> Nat], Settled(st, out, Z),
           \A n \in Nat \ {Null} : out2[n] = out[n]
    PROVE  Settled(st, out2, Z)
<1>1. Outside(st, out2)
  BY DEF Settled, Outside
<1>2. ASSUME NEW n \in DOMAIN st.cells PROVE Counted(Idle(st), out2, Z, Null, n)
  <2>1. n \in Nat \ {Null}
    <3>1. DOMAIN st.cells = 1..Len(st.cells) /\ Len(st.cells) \in Nat
      BY CellTypes
    <3> QED
      BY <3>1 DEF Null
  <2>2. out2[n] = out[n] /\ Counted(Idle(st), out, Z, Null, n)
    BY <2>1 DEF Settled
  <2> QED
    BY <2>2 DEF Counted
<1> QED
  BY <1>1, <1>2 DEF Settled

LEMMA HeldIsInUse ==
    ASSUME NEW V, NEW st \in Stores(V), NEW out, NEW Z, NEW n \in Nat \ {Null}, Settled(st, out, Z), out[n] > 0
    PROVE  n \in DOMAIN st.cells /\ ~IsFree(st, n) /\ n \notin Z /\ st.cells[n].rc > 0
<1>1. n \in DOMAIN st.cells /\ out[n] \in Nat
  BY DEF Settled, Outside
<1>2. Counted(Idle(st), out, Z, Null, n)
  BY <1>1 DEF Settled
<1>3. ~IsFree(st, n) /\ st.cells[n].rc = out[n] + Cardinality(Places(Idle(st), n)) + 0
  <2>1. IsFree(Idle(st).st, n) <=> IsFree(st, n)
    BY IdleFields
  <2> QED
    BY <1>1, <1>2, <2>1, IdleFields DEF Counted
<1>4. Cardinality(Places(Idle(st), n)) \in Nat
  BY IdleTypes, PlacesFinite
<1>5. st.cells[n].rc > 0
  BY <1>1, <1>3, <1>4
<1> QED
  BY <1>1, <1>3, <1>5 DEF Settled, NewExact

LEMMA Released ==
    ASSUME NEW V, Nil \in V, 0 \in V, NEW st \in Stores(V), NEW out, NEW Z, NEW n \in Nat \ {Null},
           Settled(st, out, Z), out[n] > 0
    PROVE  LET r == Release(st, n)
           IN  r \in Stores(V) /\ Settled(r, [out EXCEPT ![n] = @ - 1], Z) /\ Shrinks(st, r)
<1> DEFINE out2 == [out EXCEPT ![n] = @ - 1]
           w == Idle(st)
<1>1. out \in [Nat -> Nat] /\ n \in DOMAIN st.cells /\ ~IsFree(st, n)
  BY HeldIsInUse DEF Settled, Outside
<1>2. /\ out2 \in [Nat -> Nat] /\ out2[n] = out[n] - 1
      /\ \A m \in Nat : m # n => out2[m] = out[m]
  BY <1>1
<1> HIDE DEF out2
<1>3. Outside(st, out2)
  <2>1. ASSUME NEW m \in Nat \ {Null}, out2[m] > 0 PROVE m \in DOMAIN st.cells
    BY <1>1, <1>2, <2>1 DEF Settled, Outside
  <2> QED
    BY <1>2, <2>1 DEF Outside
<1>4. ASSUME NEW m \in DOMAIN st.cells PROVE Counted(w, out2, Z, n, m)
  <2>1. m \in Nat /\ m # Null /\ Counted(w, out, Z, Null, m) /\ w.st = st
    <3>1. m \in Nat /\ m # Null
      BY CellTypes DEF Null
    <3> QED
      BY <3>1, IdleFields DEF Settled
  <2>2. out[m] \in Nat /\ Cardinality(Places(w, m)) \in Nat
    BY <1>1, <2>1, IdleTypes, PlacesFinite
  <2> HIDE DEF w
  <2>3. CASE IsFree(st, m)
    <3>1. m # n
      BY <1>1, <2>3
    <3> QED
      BY <1>2, <2>1, <2>3, <3>1 DEF Counted
  <2>4. CASE ~IsFree(st, m)
    <3>1. /\ st.cells[m].rc = out[m] + Cardinality(Places(w, m)) + 0
          /\ st.cells[m].rc = 0 => m \in Z \/ Swept(w.calls, m)
      BY <2>1, <2>4 DEF Counted
    <3>2. st.cells[m].rc = out2[m] + Cardinality(Places(w, m)) + (IF m = n THEN 1 ELSE 0)
      BY <1>2, <2>1, <2>2, <3>1
    <3> QED
      BY <2>1, <2>4, <3>1, <3>2 DEF Counted
  <2> QED
    BY <2>3, <2>4
<1>5. Exact(w, out2, Z, n)
  <2>1. Exact(w, out, Z, Null)
    BY SettledIs
  <2> QED
    BY <1>1, <1>3, <1>4, <2>1, IdleFields DEF Exact
<1> DEFINE r == Release(st, n)
<1>6. r \in Stores(V) /\ Exact(Idle(r), out2, Z, Null) /\ Shrinks(st, r)
  BY <1>5, ReleasedOwed
<1> QED
  BY <1>6, SettledIs DEF out2

LEMMA Retained ==
    ASSUME NEW V, NEW st \in Stores(V), NEW out, NEW Z, NEW n \in DOMAIN st.cells, Settled(st, out, Z), ~IsFree(st, n)
    PROVE  LET r == Retain(st, n)
           IN  /\ r \in Stores(V) /\ Settled(r, [out EXCEPT ![n] = @ + 1], Z \ {n})
               /\ SameCells(st, r) /\ SameFree(st, r)
<1> DEFINE x == st.cells[n].rc + 1
           r == Retain(st, n)
           out2 == [out EXCEPT ![n] = @ + 1]
           w == Idle(st)
           v == Idle(r)
<1>1. st.cells[n].rc \in Int /\ x \in Int /\ n \in Nat /\ st.ok \in BOOLEAN
  BY CellTypes
<1>2. r = WithCount(st, n, x, st.ok)
  <2>1. [st EXCEPT !.ok = st.ok] = st
    BY DEF Stores
  <2> DEFINE s0 == [st EXCEPT !.ok = st.ok]
  <2>2. WithCount(st, n, x, st.ok) = [s0 EXCEPT !.cells = [s0.cells EXCEPT ![n] = [s0.cells[n] EXCEPT !.rc = x]]]
    BY DEF WithCount
  <2>3. r = [st EXCEPT !.cells = [st.cells EXCEPT ![n] = [st.cells[n] EXCEPT !.rc = x]]]
    BY DEF Retain
  <2>4. s0 = st
    BY <2>1
  <2> HIDE DEF s0, r, x
  <2> QED
    BY <2>2, <2>3, <2>4
<1> HIDE DEF x, r
<1>3. /\ r \in Stores(V) /\ SameCells(st, r) /\ SameFree(st, r) /\ r.ok = st.ok
      /\ \A m \in DOMAIN st.cells : r.cells[m].rc = IF m = n THEN x ELSE st.cells[m].rc
  BY <1>1, <1>2, CountChanged
<1>4. out \in [Nat -> Nat]
  BY DEF Settled, Outside
<1>5. /\ out2 \in [Nat -> Nat] /\ out2[n] = out[n] + 1
      /\ \A m \in Nat : m # n => out2[m] = out[m]
  BY <1>1, <1>4
<1> HIDE DEF out2
<1>6. DOMAIN r.cells = DOMAIN st.cells /\ \A m : IsFree(r, m) <=> IsFree(st, m)
  BY <1>3, SameFreeNodes DEF SameCells
<1>7. FreeList(r) /\ KidsIn(r) /\ r.ok
  BY <1>3, SameFreeNodes DEF Settled
<1>8. Outside(r, out2)
  <2>1. ASSUME NEW m \in Nat \ {Null}, out2[m] > 0 PROVE m \in DOMAIN r.cells
    BY <1>4, <1>5, <1>6, <2>1 DEF Settled, Outside
  <2> QED
    BY <1>5, <2>1 DEF Outside
<1>9. NewExact(r, Z \ {n})
  BY <1>3, <1>6 DEF Settled, NewExact
<1>10. w.st = st /\ v.st = r /\ w.calls = <<>> /\ v.calls = <<>> /\ w \in Works(V)
  BY IdleFields, IdleTypes
<1> HIDE DEF w, v
<1>11. \A m : Places(v, m) = Places(w, m)
  <2>1. Pairs(r) = Pairs(st)
    BY <1>3, SamePairs
  <2>2. ASSUME NEW p \in Pairs(st), NEW m PROVE IsPlace(v, m, p) <=> IsPlace(w, m, p)
    <3>1. p[1] \in DOMAIN st.cells
      BY <2>2, PairsAre
    <3> QED
      BY <1>3, <1>10, <3>1 DEF IsPlace, SameCells
  <2> QED
    BY <1>10, <2>1, <2>2 DEF Places
<1>12. ASSUME NEW m \in DOMAIN r.cells PROVE Counted(v, out2, Z \ {n}, Null, m)
  <2>1. m \in DOMAIN st.cells /\ m \in Nat /\ m # Null
    BY <1>6, CellTypes DEF Null
  <2>2. Counted(w, out, Z, Null, m) /\ out[m] \in Nat /\ Cardinality(Places(w, m)) \in Nat
    BY <1>4, <1>10, <2>1, PlacesFinite DEF Settled, w
  <2>3. r.cells[m].kids = st.cells[m].kids
    BY <1>3, <2>1 DEF SameCells
  <2>4. CASE IsFree(st, m)
    <3>1. m # n
      BY <2>4
    <3>2. r.cells[m].rc = st.cells[m].rc /\ out2[m] = out[m]
      BY <1>3, <1>5, <2>1, <3>1
    <3> QED
      BY <1>6, <1>10, <1>11, <2>1, <2>2, <2>3, <2>4, <3>2 DEF Counted
  <2>5. CASE ~IsFree(st, m)
    <3>1. /\ st.cells[m].rc = out[m] + Cardinality(Places(w, m)) + 0
          /\ st.cells[m].rc = 0 => m \in Z \/ Swept(w.calls, m)
      BY <1>10, <2>1, <2>2, <2>5 DEF Counted
    <3>2. CASE m = n
      <4>1. r.cells[m].rc = st.cells[m].rc + 1 /\ out2[m] = out[m] + 1
        BY <1>3, <1>5, <2>1, <3>2 DEF x
      <4>2. r.cells[m].rc = out2[m] + Cardinality(Places(w, m)) + 0 /\ r.cells[m].rc # 0
        BY <2>2, <3>1, <4>1
      <4> QED
        BY <1>6, <1>10, <1>11, <2>1, <2>5, <4>2 DEF Counted
    <3>3. CASE m # n
      <4>1. r.cells[m].rc = st.cells[m].rc /\ out2[m] = out[m]
        BY <1>3, <1>5, <2>1, <3>3
      <4>2. ~Swept(w.calls, m)
        BY <1>10 DEF Swept
      <4> QED
        BY <1>6, <1>10, <1>11, <2>1, <2>5, <3>1, <3>3, <4>1, <4>2 DEF Counted
    <3> QED
      BY <3>2, <3>3
  <2> QED
    BY <2>4, <2>5
<1>13. Settled(r, out2, Z \ {n})
  BY <1>6, <1>7, <1>8, <1>9, <1>12 DEF Settled, v
<1> QED
  BY <1>3, <1>13 DEF r, out2

ReleaseSteps(f, st, nodes) ==
    /\ f[0] = st /\ ReleaseAll(st, nodes) = f[Len(nodes)]
    /\ \A k \in Nat : 0 < k /\ k <= Len(nodes) => f[k] = ReleaseIf(f[k - 1], nodes[k])

LEMMA ReleaseAllIsFunction ==
    ASSUME NEW st, NEW nodes, Len(nodes) \in Nat
    PROVE  \E f : ReleaseSteps(f, st, nodes)
<1> DEFINE Body(f, k) == IF k = 0 THEN st ELSE ReleaseIf(f[k - 1], nodes[k])
           Is(f, n) == f = [k \in 0..n |-> Body(f, k)]
           Good == {n \in Nat : \E f : Is(f, n)}
<1>1. 0 \in Good
  <2> DEFINE ext == [k \in 0..0 |-> st]
  <2>1. Is(ext, 0)
    OBVIOUS
  <2> HIDE DEF Is, ext
  <2>2. \E f : Is(f, 0)
    BY <2>1
  <2> QED
    BY <2>2
<1>2. ASSUME NEW n \in Good PROVE n + 1 \in Good
  <2>1. n \in Nat /\ \E f : Is(f, n)
    <3> HIDE DEF Is
    <3> QED
      OBVIOUS
  <2>2. PICK f : Is(f, n)
    BY <2>1
  <2>3. \A k \in 0..n : f[k] = Body(f, k)
    BY <2>2
  <2> DEFINE ext == [k \in 0..n+1 |-> IF k = n + 1 THEN Body(f, n + 1) ELSE f[k]]
  <2>4. \A k \in 0..n : ext[k] = f[k] /\ k \in 0..n+1
    <3> HIDE DEF Body
    <3> QED
      BY <2>1
  <2>5. ext[n + 1] = Body(f, n + 1) /\ f[n] = ext[n] /\ n + 1 - 1 = n
    <3> HIDE DEF Body
    <3> QED
      BY <2>1
  <2>6. \A k \in 0..n+1 : ext[k] = Body(ext, k)
    <3> HIDE DEF ext
    <3> TAKE k \in 0..n+1
    <3>1. CASE k = n + 1
      BY <3>1, <2>1, <2>5
    <3>2. CASE k # n + 1
      <4>1. k \in 0..n /\ (k # 0 => k - 1 \in 0..n)
        BY <3>2, <2>1
      <4> QED
        BY <4>1, <2>3, <2>4
    <3> QED
      BY <3>1, <3>2
  <2>7. ext = [k \in 0..n+1 |-> ext[k]]
    OBVIOUS
  <2> HIDE DEF ext
  <2>8. Is(ext, n + 1)
    BY <2>6, <2>7
  <2> HIDE DEF Is
  <2> QED
    BY <2>1, <2>8
<1>3. Len(nodes) \in Good
  <2> HIDE DEF Good
  <2>1. Good = Nat
    <3>1. Good \in SUBSET Nat
      BY DEF Good
    <3> QED
      BY <1>1, <1>2, <3>1, InductionInSet
  <2> QED
    BY <2>1
<1> DEFINE f == CHOOSE f : Is(f, Len(nodes))
<1>4. Is(f, Len(nodes))
  BY <1>3
<1>5. ReleaseAll(st, nodes) = f[Len(nodes)]
  BY DEF ReleaseAll
<1> HIDE DEF f
<1>6. \A k \in 0..Len(nodes) : f[k] = Body(f, k)
  BY <1>4
<1>7. f[0] = st
  BY <1>6
<1>8. \A k \in Nat : 0 < k /\ k <= Len(nodes) => f[k] = Body(f, k)
  BY <1>6
<1> QED
  BY <1>5, <1>7, <1>8 DEF ReleaseSteps

\* Where the nodes, and the nodes after the first k, are n.
Where(nodes, n) == {i \in DOMAIN nodes : nodes[i] = n}
After(nodes, k, n) == {i \in k+1..Len(nodes) : nodes[i] = n}

LEMMA AfterNext ==
    ASSUME NEW nodes \in Seq(Nat), NEW k \in Nat, k + 1 <= Len(nodes), NEW n
    PROVE  /\ Cardinality(After(nodes, k, n)) \in Nat /\ Cardinality(After(nodes, k + 1, n)) \in Nat
           /\ Cardinality(After(nodes, k, n)) =
                 Cardinality(After(nodes, k + 1, n)) + (IF nodes[k + 1] = n THEN 1 ELSE 0)
<1> DEFINE A == After(nodes, k, n)
           B == After(nodes, k + 1, n)
<1>1. Len(nodes) \in Nat
  OBVIOUS
<1>2. IsFiniteSet(k+1..Len(nodes)) /\ A \in SUBSET (k+1..Len(nodes)) /\ B \in SUBSET (k+1..Len(nodes))
  <2>1. IsFiniteSet(k+1..Len(nodes))
    BY <1>1, FS_Interval
  <2>2. k+1+1..Len(nodes) \subseteq k+1..Len(nodes)
    BY <1>1
  <2> QED
    BY <2>1, <2>2 DEF After
<1>3. IsFiniteSet(A) /\ IsFiniteSet(B)
  BY <1>2, FS_Subset
<1>4. Cardinality(A) \in Nat /\ Cardinality(B) \in Nat
  BY <1>3, FS_CardinalityType
<1>5. k + 1 \notin B
  BY <1>1 DEF After
<1>6. \A i : i \in k+1..Len(nodes) <=> i = k + 1 \/ i \in k+1+1..Len(nodes)
  BY <1>1
<1>7. CASE nodes[k + 1] = n
  <2>1. A = B \cup {k + 1}
    BY <1>6, <1>7 DEF After
  <2> HIDE DEF A, B
  <2>2. Cardinality(A) = Cardinality(B) + 1
    BY <1>3, <1>5, <2>1, FS_AddElement
  <2> QED
    BY <1>4, <1>7, <2>2 DEF A, B
<1>8. CASE nodes[k + 1] # n
  <2>1. A = B
    BY <1>6, <1>8 DEF After
  <2> HIDE DEF A, B
  <2> QED
    BY <1>4, <1>8, <2>1 DEF A, B
<1> QED
  BY <1>7, <1>8

LEMMA ReleasedAll ==
    ASSUME NEW V, Nil \in V, 0 \in V, NEW st \in Stores(V), NEW out, NEW Z, Settled(st, out, Z),
           NEW nodes \in Seq(Nat), NEW out1 \in [Nat -> Nat],
           \A n \in Nat \ {Null} : out[n] = out1[n] + Cardinality(Where(nodes, n))
    PROVE  LET r == ReleaseAll(st, nodes)
           IN  r \in Stores(V) /\ Settled(r, out1, Z) /\ Shrinks(st, r)
<1> DEFINE T == Len(nodes)
           O(k) == [n \in Nat |-> out1[n] + Cardinality(After(nodes, k, n))]
<1>1. T \in Nat /\ DOMAIN nodes = 1..T
  OBVIOUS
<1>2. PICK f : /\ f[0] = st /\ ReleaseAll(st, nodes) = f[T]
               /\ \A k \in Nat : 0 < k /\ k <= T => f[k] = ReleaseIf(f[k - 1], nodes[k])
  <2>1. \E f : ReleaseSteps(f, st, nodes)
    BY <1>1, ReleaseAllIsFunction
  <2> QED
    BY <2>1 DEF ReleaseSteps
<1> HIDE DEF T
<1>3. \A k, n : k \in Nat => Cardinality(After(nodes, k, n)) \in Nat
  <2> SUFFICES ASSUME NEW k \in Nat, NEW n PROVE Cardinality(After(nodes, k, n)) \in Nat
    OBVIOUS
  <2>1. IsFiniteSet(k+1..Len(nodes)) /\ After(nodes, k, n) \in SUBSET (k+1..Len(nodes))
    <3>1. k + 1 \in Int /\ Len(nodes) \in Int
      OBVIOUS
    <3> QED
      BY <3>1, FS_Interval DEF After
  <2> QED
    BY <2>1, FS_Subset, FS_CardinalityType
<1>9. \A k \in Nat : O(k) \in [Nat -> Nat]
  <2> TAKE k \in Nat
  <2> DEFINE c(n) == Cardinality(After(nodes, k, n))
  <2>1. \A n : c(n) \in Nat
    BY <1>3
  <2> HIDE DEF c
  <2>2. [n \in Nat |-> out1[n] + c(n)] \in [Nat -> Nat]
    BY <2>1
  <2> QED
    BY <2>2 DEF c
<1>10. \A k, n : n \in Nat => O(k)[n] = out1[n] + Cardinality(After(nodes, k, n))
  OBVIOUS
<1> DEFINE Good(k) == f[k] \in Stores(V) /\ Settled(f[k], O(k), Z) /\ Shrinks(st, f[k])
           G == {k \in Nat : k <= T => Good(k)}
<1> HIDE DEF O
<1>4. Good(0)
  <2>1. ASSUME NEW n \in Nat \ {Null} PROVE O(0)[n] = out[n]
    <3>1. After(nodes, 0, n) = Where(nodes, n)
      BY <1>1 DEF After, Where, T
    <3>2. out[n] = out1[n] + Cardinality(Where(nodes, n))
      OBVIOUS
    <3>3. O(0)[n] = out1[n] + Cardinality(After(nodes, 0, n))
      BY <1>10
    <3> QED
      BY <3>1, <3>2, <3>3, Zenon
  <2>2. O(0) \in [Nat -> Nat]
    BY <1>9
  <2>3. Settled(f[0], O(0), Z)
    BY <1>2, <2>1, <2>2, OutsideAlike
  <2>4. Shrinks(st, f[0])
    BY <1>2 DEF Shrinks
  <2> QED
    BY <1>2, <2>3, <2>4
<1>5. ASSUME NEW k \in G PROVE k + 1 \in G
  <2> SUFFICES ASSUME k + 1 <= T PROVE Good(k + 1)
    OBVIOUS
  <2>1. k \in Nat /\ k <= T /\ Good(k) /\ f[k + 1] = ReleaseIf(f[k], nodes[k + 1])
    <3>1. k \in Nat /\ k <= T /\ Good(k)
      BY <1>1
    <3>2. k + 1 \in Nat /\ 0 < k + 1 /\ k + 1 - 1 = k
      BY <3>1
    <3> QED
      BY <1>2, <3>1, <3>2
  <2> HIDE DEF G
  <2> DEFINE x == nodes[k + 1]
             P == O(k)
             Q == O(k + 1)
  <2>2. x \in Nat /\ k + 1 \in Nat
    <3>1. k + 1 \in 1..T
      BY <1>1, <2>1
    <3>2. k + 1 \in DOMAIN nodes
      BY <1>1, <3>1
    <3>3. nodes[k + 1] \in Nat
      BY <1>1, <3>1, ElementOfSeq DEF T
    <3>4. k \in Nat
      BY <2>1
    <3> QED
      BY <3>3, <3>4
  <2>3. P \in [Nat -> Nat] /\ Q \in [Nat -> Nat]
    BY <1>9, <2>1, <2>2
  <2>4. ASSUME NEW n \in Nat PROVE P[n] = Q[n] + IF x = n THEN 1 ELSE 0
    <3>1. /\ Cardinality(After(nodes, k, n)) \in Nat /\ Cardinality(After(nodes, k + 1, n)) \in Nat
          /\ Cardinality(After(nodes, k, n)) =
                Cardinality(After(nodes, k + 1, n)) + (IF x = n THEN 1 ELSE 0)
      <4>1. k \in Nat /\ k + 1 <= Len(nodes)
        BY <2>1 DEF T
      <4> HIDE DEF P, Q
      <4> QED
        BY <4>1, AfterNext
    <3>2. P[n] = out1[n] + Cardinality(After(nodes, k, n)) /\ Q[n] = out1[n] + Cardinality(After(nodes, k + 1, n))
      BY <1>10
    <3>3. out1[n] \in Nat
      OBVIOUS
    <3> DEFINE a == Cardinality(After(nodes, k, n))
               b == Cardinality(After(nodes, k + 1, n))
               c == IF x = n THEN 1 ELSE 0
    <3>4. a = b + c /\ P[n] = out1[n] + a /\ Q[n] = out1[n] + b /\ a \in Nat /\ b \in Nat /\ c \in Nat
      BY <3>1, <3>2
    <3> HIDE DEF P, Q, x, a, b, c
    <3>5. P[n] = Q[n] + c
      BY <3>3, <3>4
    <3> QED
      BY <3>5 DEF c
  <2>5. f[k] \in Stores(V) /\ Settled(f[k], P, Z) /\ Shrinks(st, f[k])
    BY <2>1
  <2> HIDE DEF P, Q, x
  <2>6. CASE x = Null
    <3>1. f[k + 1] = f[k]
      BY <2>1, <2>6 DEF ReleaseIf, x
    <3>2. \A n \in Nat \ {Null} : Q[n] = P[n]
      BY <2>3, <2>4, <2>6
    <3>3. Settled(f[k + 1], Q, Z)
      BY <2>3, <2>5, <3>1, <3>2, OutsideAlike
    <3> QED
      BY <2>5, <3>1, <3>3 DEF Q
  <2>7. CASE x # Null
    <3>1. f[k + 1] = Release(f[k], x) /\ x \in Nat \ {Null}
      BY <2>1, <2>2, <2>7 DEF ReleaseIf, x
    <3>2. P[x] > 0
      <4>1. P[x] = Q[x] + 1 /\ Q[x] \in Nat
        BY <2>2, <2>3, <2>4
      <4> QED
        BY <4>1
    <3>3. Release(f[k], x) \in Stores(V) /\ Settled(Release(f[k], x), [P EXCEPT ![x] = @ - 1], Z) /\ Shrinks(f[k], Release(f[k], x))
      BY <2>5, <3>1, <3>2, Released
    <3>4. \A n \in Nat \ {Null} : Q[n] = [P EXCEPT ![x] = @ - 1][n]
      <4> TAKE n \in Nat \ {Null}
      <4>1. P[n] = Q[n] + (IF x = n THEN 1 ELSE 0) /\ P[n] \in Nat /\ Q[n] \in Nat
        BY <2>3, <2>4
      <4>2. [P EXCEPT ![x] = @ - 1][n] = IF x = n THEN P[n] - 1 ELSE P[n]
        BY <2>3
      <4>3. Q[n] = IF x = n THEN P[n] - 1 ELSE P[n]
        <5>1. CASE x = n
          <6>1. P[n] = Q[n] + 1
            BY <4>1, <5>1
          <6> QED
            BY <4>1, <5>1, <6>1
        <5>2. CASE x # n
          <6>1. P[n] = Q[n] + 0
            BY <4>1, <5>2
          <6> QED
            BY <4>1, <5>2, <6>1
        <5> QED
          BY <5>1, <5>2
      <4> QED
        BY <4>2, <4>3, Zenon
    <3>5. Settled(Release(f[k], x), Q, Z)
      BY <2>3, <3>3, <3>4, OutsideAlike
    <3>6. Shrinks(st, f[k + 1])
      BY <2>5, <3>1, <3>3, ShrinksFurther
    <3> QED
      BY <3>1, <3>3, <3>5, <3>6 DEF Q
  <2> QED
    BY <2>6, <2>7
<1>6. Good(T)
  <2>1. G \in SUBSET Nat /\ 0 \in G
    BY <1>4
  <2>2. G = Nat
    <3> HIDE DEF G
    <3> QED
      BY <1>5, <2>1, InductionInSet
  <2> HIDE DEF Good, G
  <2>3. T \in G
    BY <1>1, <2>2
  <2>4. T <= T
    BY <1>1
  <2> QED
    BY <2>3, <2>4 DEF G
<1>7. ASSUME NEW n \in Nat \ {Null} PROVE out1[n] = O(T)[n]
  <2>1. After(nodes, T, n) = {}
    <3>1. T + 1..T = {}
      BY <1>1
    <3> QED
      BY <3>1 DEF After, T
  <2>2. Cardinality(After(nodes, T, n)) = 0
    BY <2>1, FS_EmptySet
  <2>3. O(T)[n] = out1[n] + 0
    BY <1>10, <2>2
  <2> QED
    BY <2>3
<1>8. Settled(f[T], out1, Z)
  BY <1>6, <1>7, OutsideAlike
<1> QED
  BY <1>2, <1>6, <1>8

-----------------------------------------------------------------------------
(***************************************************************************)
(* New nodes.                                                              *)
(***************************************************************************)
LEMMA SettledCounts ==
    ASSUME NEW V, NEW st \in Stores(V), NEW out, NEW Z, Settled(st, out, Z), NEW n \in DOMAIN st.cells
    PROVE  /\ n \in Nat \ {Null} /\ out[n] \in Nat
           /\ IsFiniteSet(Places(Idle(st), n)) /\ Cardinality(Places(Idle(st), n)) \in Nat
           /\ IsFree(st, n) => /\ st.cells[n].rc <= 0 /\ st.cells[n].kids = <<>>
                               /\ out[n] = 0 /\ Places(Idle(st), n) = {}
           /\ ~IsFree(st, n) => /\ st.cells[n].rc = out[n] + Cardinality(Places(Idle(st), n))
                                /\ st.cells[n].rc = 0 => n \in Z
<1>1. DOMAIN st.cells = 1..Len(st.cells) /\ Len(st.cells) \in Nat
  BY CellTypes
<1>2. n \in Nat \ {Null}
  BY <1>1 DEF Null
<1>3. out[n] \in Nat
  BY <1>2 DEF Settled, Outside
<1>4. IsFiniteSet(Places(Idle(st), n)) /\ Cardinality(Places(Idle(st), n)) \in Nat
  BY IdleTypes, PlacesFinite
<1> DEFINE w == Idle(st)
           c == Cardinality(Places(w, n))
<1>5. Counted(w, out, Z, Null, n) /\ w.st = st /\ w.calls = <<>>
  BY IdleFields DEF Settled
<1> HIDE DEF w
<1>6. ~Swept(w.calls, n)
  BY <1>5 DEF Swept
<1>7. IsFree(st, n) => /\ st.cells[n].rc <= 0 /\ st.cells[n].kids = <<>>
                       /\ out[n] = 0 /\ Places(w, n) = {}
  BY <1>5 DEF Counted
<1>8. ~IsFree(st, n) => /\ st.cells[n].rc = out[n] + c
                        /\ st.cells[n].rc = 0 => n \in Z
  <2>1. ~IsFree(st, n) => /\ st.cells[n].rc = out[n] + c + 0
                          /\ st.cells[n].rc = 0 => n \in Z
    BY <1>2, <1>5, <1>6 DEF Counted
  <2>2. c \in Nat
    BY <1>4 DEF w
  <2> HIDE DEF c
  <2> QED
    BY <1>3, <2>1, <2>2
<1> QED
  BY <1>2, <1>3, <1>4, <1>7, <1>8 DEF w

\* The places between two operations.
LEMMA IdlePlaces ==
    ASSUME NEW V, NEW st \in Stores(V), NEW n
    PROVE  /\ Places(Idle(st), n) =
                 {p \in Pairs(st) : p[2] # 0 /\ st.cells[p[1]].kids[p[2]] = n}
           /\ \A p : p \in Places(Idle(st), n) <=>
                 \E m \in DOMAIN st.cells : \E i \in DOMAIN st.cells[m].kids : p = <<m, i>> /\ st.cells[m].kids[i] = n
<1> DEFINE w == Idle(st)
<1>1. w.st = st /\ w.calls = <<>>
  BY IdleFields
<1> HIDE DEF w
<1>2. \A m, i : Ahead(w.calls, m, i)
  BY <1>1 DEF Ahead
<1>3. Places(w, n) = {p \in Pairs(st) : p[2] # 0 /\ st.cells[p[1]].kids[p[2]] = n}
  BY <1>1, <1>2 DEF Places, IsPlace
<1>4. ASSUME NEW p, p \in Places(w, n)
      PROVE  \E m \in DOMAIN st.cells : \E i \in DOMAIN st.cells[m].kids : p = <<m, i>> /\ st.cells[m].kids[i] = n
  <2>1. p \in Pairs(st) /\ p[2] # 0 /\ st.cells[p[1]].kids[p[2]] = n
    BY <1>3, <1>4
  <2>2. PICK m \in DOMAIN st.cells : \E i \in 0..Len(st.cells[m].kids) : p = <<m, i>>
    BY <2>1, PairsAre
  <2>3. PICK i \in 0..Len(st.cells[m].kids) : p = <<m, i>>
    BY <2>2
  <2>4. i # 0 /\ st.cells[m].kids[i] = n
    BY <2>1, <2>3
  <2>5. Len(st.cells[m].kids) \in Nat /\ DOMAIN st.cells[m].kids = 1..Len(st.cells[m].kids)
    BY CellTypes
  <2>6. i \in DOMAIN st.cells[m].kids
    BY <2>4, <2>5
  <2> QED
    BY <2>3, <2>4, <2>6
<1>5. ASSUME NEW p, NEW m \in DOMAIN st.cells, NEW i \in DOMAIN st.cells[m].kids, p = <<m, i>>, st.cells[m].kids[i] = n
      PROVE  p \in Places(w, n)
  <2>1. Len(st.cells[m].kids) \in Nat /\ DOMAIN st.cells[m].kids = 1..Len(st.cells[m].kids)
    BY CellTypes
  <2>2. i # 0 /\ i \in 0..Len(st.cells[m].kids)
    BY <2>1
  <2>3. p \in Pairs(st) /\ p[1] = m /\ p[2] = i
    BY <1>5, <2>2, PairsAre
  <2> QED
    BY <1>3, <1>5, <2>2, <2>3
<1> QED
  BY <1>3, <1>4, <1>5 DEF w

LEMMA PageChanges ==
    ASSUME NEW V, Nil \in V, 0 \in V, NEW st \in Stores(V), st.free = <<>>
    PROVE  LET r == alloc_page(st)
               L == Len(st.cells)
           IN  /\ r \in Stores(V) /\ L \in Nat /\ DOMAIN st.cells = 1..L /\ DOMAIN r.cells = 1..(L + PageSize)
               /\ \A m \in DOMAIN st.cells : r.cells[m] = st.cells[m]
               /\ \A m \in DOMAIN r.cells : m \notin DOMAIN st.cells => r.cells[m].rc = 0 /\ r.cells[m].kids = <<>>
               /\ r.count = st.count + PageSize /\ Len(r.free) = PageSize /\ DOMAIN r.free = 1..PageSize
               /\ \A i \in 1..PageSize : r.free[i] = L + i
               /\ st.ok /\ st.count = 0 => r.ok
<1> DEFINE r == alloc_page(st)
           L == Len(st.cells)
           new == [i \in 1..PageSize |-> Blank]
           nums == [i \in 1..PageSize |-> L + i]
           cells == st.cells \o new
           free == nums \o st.free
<1>1. PageSize \in Nat /\ L \in Nat /\ DOMAIN st.cells = 1..L /\ st.cells \in Seq(Cells(V)) /\ st.count \in Nat
  BY CellTypes, PageAssumption
<1>2. Blank \in Cells(V) /\ Blank.rc = 0 /\ Blank.kids = <<>>
  <2>1. <<>> \in Seq(Nat) /\ 0 \in Int
    OBVIOUS
  <2> QED
    BY <2>1 DEF Blank, Cells
<1>3. new \in Seq(Cells(V)) /\ Len(new) = PageSize /\ \A i \in 1..PageSize : new[i] = Blank
  BY <1>1, <1>2
<1> HIDE DEF L
<1>4. nums \in Seq(Nat) /\ Len(nums) = PageSize /\ \A i \in 1..PageSize : nums[i] = L + i
  BY <1>1
<1>15. PICK b \in BOOLEAN : b = (st.ok /\ st.count = 0)
  OBVIOUS
<1>6. r = [cells |-> cells, free |-> free, count |-> st.count + PageSize, ok |-> b]
  <2> HIDE DEF cells, free
  <2> QED
    BY <1>15, Zenon DEF alloc_page, cells, free, new, nums, L
<1> HIDE DEF r, new, nums
<1>5. r.cells = cells /\ r.free = free /\ r.count = st.count + PageSize /\ r.ok = b
  <2> HIDE DEF cells, free
  <2> QED
    BY <1>6
<1>7. cells \in Seq(Cells(V)) /\ DOMAIN cells = 1..(L + PageSize)
  BY <1>1, <1>3 DEF L
<1>8. \A m \in DOMAIN st.cells : cells[m] = st.cells[m]
  BY <1>1, <1>3 DEF L
<1>9. ASSUME NEW m \in DOMAIN cells, m \notin DOMAIN st.cells PROVE cells[m] = Blank
  <2>1. m \in Nat /\ L < m /\ m <= L + PageSize
    BY <1>1, <1>7, <1>9
  <2>2. m - L \in 1..PageSize
    BY <1>1, <2>1
  <2>3. cells[m] = new[m - L]
    BY <1>1, <1>3, <2>1 DEF L
  <2> QED
    BY <1>3, <2>2, <2>3
<1>10. free = nums
  BY <1>4
<1> HIDE DEF cells, free
<1>12. r \in Stores(V)
  <2>1. r.count \in Nat
    BY <1>1, <1>5
  <2> QED
    BY <1>4, <1>5, <1>6, <1>7, <1>10, <2>1 DEF Stores
<1>13. \A m \in DOMAIN r.cells : m \notin DOMAIN st.cells => r.cells[m].rc = 0 /\ r.cells[m].kids = <<>>
  BY <1>2, <1>5, <1>9
<1>14. Len(r.free) = PageSize /\ DOMAIN r.free = 1..PageSize /\ \A i \in 1..PageSize : r.free[i] = L + i
  BY <1>1, <1>4, <1>5, <1>10
<1> QED
  BY <1>1, <1>5, <1>7, <1>8, <1>12, <1>13, <1>14, <1>15 DEF L, r

\* A page of free cells.
LEMMA PageAllocated ==
    ASSUME NEW V, Nil \in V, 0 \in V, NEW st \in Stores(V), NEW out, NEW Z, Settled(st, out, Z), st.free = <<>>
    PROVE  Settled(alloc_page(st), out, Z)
<1> DEFINE r == alloc_page(st)
           L == Len(st.cells)
<1>1. /\ r \in Stores(V) /\ L \in Nat /\ DOMAIN st.cells = 1..L /\ DOMAIN r.cells = 1..(L + PageSize)
      /\ \A m \in DOMAIN st.cells : r.cells[m] = st.cells[m]
      /\ \A m \in DOMAIN r.cells : m \notin DOMAIN st.cells => r.cells[m].rc = 0 /\ r.cells[m].kids = <<>>
      /\ r.count = st.count + PageSize /\ Len(r.free) = PageSize /\ DOMAIN r.free = 1..PageSize
      /\ \A i \in 1..PageSize : r.free[i] = L + i
      /\ st.ok /\ st.count = 0 => r.ok
  BY PageChanges
<1>2. PageSize \in Nat \ {0}
  BY PageAssumption
<1> HIDE DEF r, L
<1>3. DOMAIN st.cells \subseteq DOMAIN r.cells
  BY <1>1, <1>2
<1>4. Len(st.free) = 0 /\ DOMAIN st.free = {}
  OBVIOUS
<1>5. st.count = 0 /\ st.ok
  BY <1>4 DEF Settled, FreeList
<1>6. FreeList(r)
  <2>1. r.count = Len(r.free)
    BY <1>1, <1>2, <1>5
  <2>2. \A i \in DOMAIN r.free : r.free[i] \in DOMAIN r.cells
    BY <1>1, <1>2
  <2>3. \A i, j \in DOMAIN r.free : r.free[i] = r.free[j] => i = j
    BY <1>1, <1>2
  <2> QED
    BY <2>1, <2>2, <2>3 DEF FreeList
<1>7. \A m : ~IsFree(st, m)
  BY <1>4 DEF IsFree
<1>8. \A m \in DOMAIN r.cells : IsFree(r, m) <=> m \notin DOMAIN st.cells
  <2>1. ASSUME NEW m \in DOMAIN r.cells, IsFree(r, m) PROVE m \notin DOMAIN st.cells
    <3>1. PICK i \in 1..PageSize : r.free[i] = m
      BY <1>1, <2>1 DEF IsFree
    <3>2. m = L + i
      BY <1>1, <3>1
    <3> QED
      BY <1>1, <1>2, <3>2
  <2>2. ASSUME NEW m \in DOMAIN r.cells, m \notin DOMAIN st.cells PROVE IsFree(r, m)
    <3>1. m - L \in 1..PageSize /\ L + (m - L) = m
      BY <1>1, <1>2, <2>2
    <3>2. r.free[m - L] = m /\ m - L \in DOMAIN r.free
      BY <1>1, <3>1
    <3> QED
      BY <3>2 DEF IsFree
  <2> QED
    BY <2>1, <2>2
<1>9. KidsIn(r)
  <2> SUFFICES ASSUME NEW m \in DOMAIN r.cells, NEW i \in DOMAIN r.cells[m].kids
               PROVE  r.cells[m].kids[i] \in DOMAIN r.cells \cup {Null}
    BY DEF KidsIn
  <2>1. m \in DOMAIN st.cells
    BY <1>1
  <2>2. st.cells[m].kids[i] \in DOMAIN st.cells \cup {Null} /\ r.cells[m] = st.cells[m]
    BY <1>1, <2>1 DEF Settled, KidsIn
  <2> QED
    BY <1>3, <2>2
<1>10. \A n : Places(Idle(r), n) = Places(Idle(st), n)
  <2> TAKE n
  <2>1. ASSUME NEW p PROVE p \in Places(Idle(r), n) <=> p \in Places(Idle(st), n)
    <3>1. ASSUME p \in Places(Idle(r), n) PROVE p \in Places(Idle(st), n)
      <4>1. PICK m \in DOMAIN r.cells : \E i \in DOMAIN r.cells[m].kids : p = <<m, i>> /\ r.cells[m].kids[i] = n
        BY <1>1, <3>1, IdlePlaces
      <4>2. m \in DOMAIN st.cells /\ r.cells[m] = st.cells[m]
        BY <1>1, <4>1
      <4> QED
        BY <4>1, <4>2, IdlePlaces
    <3>2. ASSUME p \in Places(Idle(st), n) PROVE p \in Places(Idle(r), n)
      <4>1. PICK m \in DOMAIN st.cells : \E i \in DOMAIN st.cells[m].kids : p = <<m, i>> /\ st.cells[m].kids[i] = n
        BY <3>2, IdlePlaces
      <4>2. m \in DOMAIN r.cells /\ r.cells[m] = st.cells[m]
        BY <1>1, <1>3, <4>1
      <4> QED
        BY <1>1, <4>1, <4>2, IdlePlaces
    <3> QED
      BY <3>1, <3>2
  <2>2. Places(Idle(r), n) \subseteq Places(Idle(st), n) /\ Places(Idle(st), n) \subseteq Places(Idle(r), n)
    BY <2>1
  <2> QED
    BY <2>2
<1>11. Outside(r, out)
  BY <1>3 DEF Settled, Outside
<1>12. NewExact(r, Z)
  BY <1>1, <1>3, <1>8 DEF Settled, NewExact
<1>13. ASSUME NEW n \in DOMAIN r.cells PROVE Counted(Idle(r), out, Z, Null, n)
  <2>0. n # Null /\ n \in Nat
    BY <1>1, CellTypes DEF Null
  <2>1. CASE n \in DOMAIN st.cells
    <3>1. Counted(Idle(st), out, Z, Null, n) /\ ~IsFree(Idle(st).st, n) /\ ~IsFree(Idle(r).st, n)
      BY <1>7, <1>8, <2>1, IdleFields DEF Settled
    <3>2. Idle(r).st.cells[n] = Idle(st).st.cells[n] /\ Idle(r).calls = Idle(st).calls
      BY <1>1, <2>1, IdleFields
    <3> QED
      BY <1>10, <3>1, <3>2 DEF Counted
  <2>2. CASE n \notin DOMAIN st.cells
    <3>1. IsFree(Idle(r).st, n) /\ Idle(r).st.cells[n].rc = 0 /\ Idle(r).st.cells[n].kids = <<>>
      BY <1>1, <1>8, <2>2, IdleFields
    <3>2. out[n] = 0
      <4>1. out[n] \in Nat /\ ~(out[n] > 0)
        BY <2>0, <2>2 DEF Settled, Outside
      <4> QED
        BY <4>1
    <3>3. Places(Idle(st), n) = {}
      <4> SUFFICES ASSUME NEW p \in Places(Idle(st), n) PROVE FALSE
        OBVIOUS
      <4>1. PICK m \in DOMAIN st.cells : \E i \in DOMAIN st.cells[m].kids : p = <<m, i>> /\ st.cells[m].kids[i] = n
        BY IdlePlaces
      <4> QED
        BY <2>0, <2>2, <4>1 DEF Settled, KidsIn
    <3>4. 0 <= 0
      OBVIOUS
    <3> QED
      BY <1>10, <2>0, <3>1, <3>2, <3>3, <3>4 DEF Counted
  <2> QED
    BY <2>1, <2>2
<1> QED
  BY <1>1, <1>5, <1>6, <1>9, <1>11, <1>12, <1>13 DEF Settled, r

LEMMA Refilled ==
    ASSUME NEW V, Nil \in V, 0 \in V, NEW st \in Stores(V), NEW out, NEW Z, Settled(st, out, Z)
    PROVE  LET r == Refill(st)
           IN  /\ r \in Stores(V) /\ Settled(r, out, Z) /\ r.free # <<>>
               /\ DOMAIN st.cells \subseteq DOMAIN r.cells
               /\ \A m \in DOMAIN r.cells :
                     r.cells[m].kids = IF m \in DOMAIN st.cells THEN st.cells[m].kids ELSE <<>>
<1>1. CASE st.free = <<>>
  <2> DEFINE r == alloc_page(st)
             L == Len(st.cells)
  <2>1. /\ r \in Stores(V) /\ L \in Nat /\ DOMAIN st.cells = 1..L /\ DOMAIN r.cells = 1..(L + PageSize)
        /\ \A m \in DOMAIN st.cells : r.cells[m] = st.cells[m]
        /\ \A m \in DOMAIN r.cells : m \notin DOMAIN st.cells => r.cells[m].rc = 0 /\ r.cells[m].kids = <<>>
        /\ Len(r.free) = PageSize
    BY <1>1, PageChanges
  <2>2. Settled(r, out, Z)
    BY <1>1, PageAllocated
  <2>3. PageSize \in Nat \ {0}
    BY PageAssumption
  <2>4. Refill(st) = r
    BY <1>1 DEF Refill
  <2> HIDE DEF r, L
  <2>5. DOMAIN st.cells \subseteq DOMAIN r.cells
    BY <2>1, <2>3
  <2>6. r.free # <<>>
    BY <2>1, <2>3
  <2> QED
    BY <2>1, <2>2, <2>4, <2>5, <2>6
<1>2. CASE st.free # <<>>
  BY <1>2 DEF Refill
<1> QED
  BY <1>1, <1>2

LEMMA StoreFields ==
    ASSUME NEW V, NEW st \in Stores(V)
    PROVE  st = [cells |-> st.cells, free |-> st.free, count |-> st.count, ok |-> st.ok]
  BY DEF Stores

LEMMA NewChanges ==
    ASSUME NEW V, NEW st \in Stores(V), Refill(st) \in Stores(V), FreeList(Refill(st)), Refill(st).free # <<>>,
           NEW tag \in V, NEW pos \in V, NEW end \in V, NEW value \in V, NEW size \in Nat
    PROVE  LET page == Refill(st)
               o == node_alloc(st)
               r == Node_new(st, tag, pos, end, size, value)
           IN  /\ r \in Stores(V) /\ DOMAIN r.cells = DOMAIN page.cells /\ r.ok = page.ok
               /\ o \in DOMAIN page.cells /\ IsFree(page, o)
               /\ \A m \in DOMAIN page.cells : m # o => r.cells[m] = page.cells[m]
               /\ r.cells[o].rc = 0 /\ r.cells[o].kids = [i \in 1..size |-> Null]
               /\ FreeList(r)
               /\ \A m : IsFree(r, m) <=> IsFree(page, m) /\ m # o
<1> DEFINE page == Refill(st)
           o == node_alloc(st)
           r == Node_new(st, tag, pos, end, size, value)
           nulls == [i \in 1..size |-> Null]
           c == [rc |-> 0, tag |-> tag, pos |-> pos, end |-> end, value |-> value,
                 label |-> page.cells[o].label, kids |-> nulls]
           cells == [page.cells EXCEPT ![o] = c]
           free == Tail(page.free)
<1>1. page.free \in Seq(Nat) /\ page.free # <<>> /\ page.count = Len(page.free) /\ page.cells \in Seq(Cells(V)) /\ page.ok \in BOOLEAN
  BY CellTypes DEF FreeList
<1>2. o = page.free[1]
  BY <1>1 DEF node_alloc
<1>3. Len(page.free) \in Nat \ {0} /\ DOMAIN page.free = 1..Len(page.free) /\ 1 \in DOMAIN page.free
  <2>1. Len(page.free) \in Nat /\ DOMAIN page.free = 1..Len(page.free) /\ Len(page.free) # 0
    BY <1>1
  <2> QED
    BY <2>1
<1>4. o \in DOMAIN page.cells /\ IsFree(page, o)
  BY <1>2, <1>3 DEF FreeList, IsFree
<1>5. nulls \in Seq(Nat)
  BY DEF Null
<1> HIDE DEF nulls
<1>6. page.cells[o] \in Cells(V)
  BY <1>1, <1>4
<1>8. page.cells[o].label \in V
  BY <1>6 DEF Cells
<1>9. r = [cells |-> cells, free |-> free, count |-> page.count - 1, ok |-> page.ok]
  <2> DEFINE s1 == [page EXCEPT !.free = free]
             s2 == [s1 EXCEPT !.count = s1.count - 1]
             s3 == [s2 EXCEPT !.cells = [s2.cells EXCEPT ![o] = c]]
  <2>1. r = s3
    BY DEF Node_new, nulls
  <2>5. page = [cells |-> page.cells, free |-> page.free, count |-> page.count, ok |-> page.ok]
    BY StoreFields
  <2> HIDE DEF c, free, page
  <2>2. s1 = [cells |-> page.cells, free |-> free, count |-> page.count, ok |-> page.ok]
    BY <2>5
  <2> HIDE DEF s1
  <2>3. s2 = [cells |-> page.cells, free |-> free, count |-> page.count - 1, ok |-> page.ok]
    BY <2>2
  <2> HIDE DEF s2
  <2>4. s3 = [cells |-> cells, free |-> free, count |-> page.count - 1, ok |-> page.ok]
    BY <2>3
  <2> QED
    BY <2>1, <2>4
<1> HIDE DEF r
<1>10. c \in Cells(V)
  <2>1. 0 \in Int
    OBVIOUS
  <2> QED
    BY <1>5, <1>8, <2>1 DEF Cells
<1>11. c.rc = 0 /\ c.kids = nulls
  OBVIOUS
<1> HIDE DEF c
<1>12. /\ cells \in Seq(Cells(V)) /\ DOMAIN cells = DOMAIN page.cells
       /\ \A m \in DOMAIN page.cells : cells[m] = IF m = o THEN c ELSE page.cells[m]
  BY <1>1, <1>10, SeqExcept
<1> HIDE DEF cells, o, page
<1>13. /\ free \in Seq(Nat) /\ Len(free) = Len(page.free) - 1 /\ DOMAIN free = 1..(Len(page.free) - 1)
       /\ \A i \in DOMAIN free : free[i] = page.free[i + 1]
  BY <1>1, <1>3
<1> HIDE DEF free
<1>14. r.cells = cells /\ r.free = free /\ r.count = page.count - 1 /\ r.ok = page.ok
  BY <1>9
<1>15. r \in Stores(V)
  BY <1>1, <1>3, <1>9, <1>12, <1>13 DEF Stores
<1>16. \A i \in DOMAIN free : i + 1 \in DOMAIN page.free /\ i \in Nat /\ i # 0
  BY <1>3, <1>13
<1>17. \A i \in DOMAIN page.free : i = 1 \/ (i - 1 \in DOMAIN free /\ i - 1 + 1 = i)
  BY <1>3, <1>13
<1>18. FreeList(page)
  BY DEF page
<1>19. FreeList(r)
  <2>1. r.count = Len(r.free)
    BY <1>1, <1>3, <1>13, <1>14
  <2>2. \A i \in DOMAIN r.free : r.free[i] \in DOMAIN r.cells
    BY <1>12, <1>13, <1>14, <1>16, <1>18 DEF FreeList
  <2>3. ASSUME NEW i \in DOMAIN r.free, NEW j \in DOMAIN r.free, r.free[i] = r.free[j] PROVE i = j
    <3>1. i + 1 = j + 1
      BY <1>13, <1>14, <1>16, <1>18, <2>3 DEF FreeList
    <3> QED
      BY <1>14, <1>16, <3>1
  <2> QED
    BY <2>1, <2>2, <2>3 DEF FreeList
<1>20. ASSUME NEW m PROVE IsFree(r, m) <=> IsFree(page, m) /\ m # o
  <2>1. ASSUME IsFree(r, m) PROVE IsFree(page, m) /\ m # o
    <3>1. PICK i \in DOMAIN free : free[i] = m
      BY <1>14, <2>1 DEF IsFree
    <3>2. page.free[i + 1] = m /\ i + 1 \in DOMAIN page.free /\ i + 1 # 1
      BY <1>13, <1>16, <3>1
    <3> QED
      BY <1>2, <1>3, <1>18, <3>2 DEF IsFree, FreeList
  <2>2. ASSUME IsFree(page, m), m # o PROVE IsFree(r, m)
    <3>1. PICK i \in DOMAIN page.free : page.free[i] = m
      BY <2>2 DEF IsFree
    <3>2. i - 1 \in DOMAIN free /\ i - 1 + 1 = i
      BY <1>2, <1>17, <2>2, <3>1
    <3>3. free[i - 1] = m
      BY <1>13, <3>1, <3>2
    <3> QED
      BY <1>14, <3>2, <3>3 DEF IsFree
  <2> QED
    BY <2>1, <2>2
<1> QED
  BY <1>4, <1>11, <1>12, <1>14, <1>15, <1>19, <1>20 DEF r, o, page, nulls

\* A node is made: it has no references yet.
IsNewNode(V, st, out, Z, r, o, size) ==
    /\ r \in Stores(V) /\ Settled(r, out, Z \cup {o})
    /\ DOMAIN st.cells \subseteq DOMAIN r.cells /\ o \in DOMAIN r.cells /\ o # Null
    /\ out[o] = 0 /\ ~IsFree(r, o)
    /\ r.cells[o].kids = [i \in 1..size |-> Null]
    /\ \A m \in DOMAIN r.cells : m # o =>
          r.cells[m].kids = IF m \in DOMAIN st.cells THEN st.cells[m].kids ELSE <<>>
    /\ \A m \in DOMAIN r.cells : \A i \in DOMAIN r.cells[m].kids : r.cells[m].kids[i] # o

LEMMA NodeMade ==
    ASSUME NEW V, Nil \in V, 0 \in V, NEW st \in Stores(V), NEW out, NEW Z, Settled(st, out, Z),
           NEW tag \in V, NEW pos \in V, NEW end \in V, NEW value \in V, NEW size \in Nat
    PROVE  IsNewNode(V, st, out, Z, Node_new(st, tag, pos, end, size, value), node_alloc(st), size)
<1> DEFINE page == Refill(st)
           o == node_alloc(st)
           r == Node_new(st, tag, pos, end, size, value)
<1>1. /\ page \in Stores(V) /\ Settled(page, out, Z) /\ page.free # <<>>
      /\ DOMAIN st.cells \subseteq DOMAIN page.cells
      /\ \A m \in DOMAIN page.cells :
            page.cells[m].kids = IF m \in DOMAIN st.cells THEN st.cells[m].kids ELSE <<>>
  BY Refilled
<1>2. FreeList(page)
  BY <1>1 DEF Settled
<1>3. /\ r \in Stores(V) /\ DOMAIN r.cells = DOMAIN page.cells /\ r.ok = page.ok
      /\ o \in DOMAIN page.cells /\ IsFree(page, o)
      /\ \A m \in DOMAIN page.cells : m # o => r.cells[m] = page.cells[m]
      /\ r.cells[o].rc = 0 /\ r.cells[o].kids = [i \in 1..size |-> Null]
      /\ FreeList(r)
      /\ \A m : IsFree(r, m) <=> IsFree(page, m) /\ m # o
  BY <1>1, <1>2, NewChanges
<1> HIDE DEF page, o, r
<1>4. /\ o \in Nat \ {Null} /\ page.cells[o].kids = <<>> /\ out[o] = 0 /\ Places(Idle(page), o) = {}
  BY <1>1, <1>3, SettledCounts
<1>5. \A n : n # Null => Places(Idle(r), n) = Places(Idle(page), n)
  <2> SUFFICES ASSUME NEW n, n # Null PROVE Places(Idle(r), n) = Places(Idle(page), n)
    OBVIOUS
  <2>1. ASSUME NEW p PROVE p \in Places(Idle(r), n) <=> p \in Places(Idle(page), n)
    <3>1. ASSUME p \in Places(Idle(r), n) PROVE p \in Places(Idle(page), n)
      <4>1. PICK m \in DOMAIN r.cells : \E i \in DOMAIN r.cells[m].kids : p = <<m, i>> /\ r.cells[m].kids[i] = n
        BY <1>3, <3>1, IdlePlaces
      <4>2. m # o
        BY <1>3, <4>1
      <4>3. m \in DOMAIN page.cells /\ r.cells[m] = page.cells[m]
        BY <1>3, <4>2
      <4> QED
        BY <1>1, <4>1, <4>3, IdlePlaces
    <3>2. ASSUME p \in Places(Idle(page), n) PROVE p \in Places(Idle(r), n)
      <4>1. PICK m \in DOMAIN page.cells : \E i \in DOMAIN page.cells[m].kids : p = <<m, i>> /\ page.cells[m].kids[i] = n
        BY <1>1, <3>2, IdlePlaces
      <4>2. m # o
        BY <1>4, <4>1
      <4>3. m \in DOMAIN r.cells /\ r.cells[m] = page.cells[m]
        BY <1>3, <4>1, <4>2
      <4> QED
        BY <1>3, <4>1, <4>3, IdlePlaces
    <3> QED
      BY <3>1, <3>2
  <2>2. Places(Idle(r), n) \subseteq Places(Idle(page), n) /\ Places(Idle(page), n) \subseteq Places(Idle(r), n)
    BY <2>1
  <2> QED
    BY <2>2
<1>6. ASSUME NEW m \in DOMAIN r.cells, NEW i \in DOMAIN r.cells[m].kids
      PROVE  r.cells[m].kids[i] # o /\ r.cells[m].kids[i] \in DOMAIN r.cells \cup {Null}
  <2>1. CASE m = o
    BY <1>3, <1>4, <1>6, <2>1
  <2>2. CASE m # o
    <3>1. m \in DOMAIN page.cells /\ r.cells[m] = page.cells[m]
      BY <1>3, <2>2
    <3>2. page.cells[m].kids[i] \in DOMAIN page.cells \cup {Null}
      BY <1>1, <1>6, <3>1 DEF Settled, KidsIn
    <3>3. page.cells[m].kids[i] # o
      <4> SUFFICES ASSUME page.cells[m].kids[i] = o PROVE FALSE
        OBVIOUS
      <4>1. <<m, i>> \in Places(Idle(page), o)
        BY <1>1, <1>6, <3>1, IdlePlaces
      <4> QED
        BY <1>4, <4>1
    <3> QED
      BY <1>3, <3>1, <3>2, <3>3
  <2> QED
    BY <2>1, <2>2
<1>7. r.ok /\ KidsIn(r) /\ Outside(r, out) /\ NewExact(r, Z \cup {o})
  <2>1. r.ok /\ Outside(r, out)
    BY <1>1, <1>3 DEF Settled, Outside
  <2>2. KidsIn(r)
    BY <1>6 DEF KidsIn
  <2>3. NewExact(r, Z \cup {o})
    BY <1>1, <1>3 DEF Settled, NewExact
  <2> QED
    BY <2>1, <2>2, <2>3
<1>8. ASSUME NEW n \in DOMAIN r.cells PROVE Counted(Idle(r), out, Z \cup {o}, Null, n)
  <2>1. n # Null /\ n \in DOMAIN page.cells /\ Places(Idle(r), n) = Places(Idle(page), n)
    BY <1>1, <1>3, <1>5, SettledCounts
  <2>2. CASE n = o
    <3>1. ~IsFree(Idle(r).st, n) /\ Idle(r).st.cells[n].rc = 0
      BY <1>3, <2>2, IdleFields
    <3>2. Cardinality(Places(Idle(r), n)) = 0 /\ out[n] = 0
      BY <1>4, <2>1, <2>2, FS_EmptySet
    <3>3. 0 = 0 + 0 + 0
      OBVIOUS
    <3> QED
      BY <2>1, <2>2, <3>1, <3>2, <3>3 DEF Counted
  <2>3. CASE n # o
    <3>1. Counted(Idle(page), out, Z, Null, n)
      BY <1>1, <2>1 DEF Settled
    <3>2. IsFree(Idle(r).st, n) <=> IsFree(Idle(page).st, n)
      BY <1>3, <2>3, IdleFields
    <3>3. Idle(r).st.cells[n] = Idle(page).st.cells[n] /\ Idle(r).calls = Idle(page).calls
      BY <1>3, <2>1, <2>3, IdleFields
    <3> QED
      BY <2>1, <3>1, <3>2, <3>3 DEF Counted
  <2> QED
    BY <2>2, <2>3
<1>9. Settled(r, out, Z \cup {o})
  BY <1>3, <1>7, <1>8 DEF Settled
<1>10. ASSUME NEW m \in DOMAIN r.cells, m # o
       PROVE  r.cells[m].kids = IF m \in DOMAIN st.cells THEN st.cells[m].kids ELSE <<>>
  BY <1>1, <1>3, <1>10
<1> QED
  BY <1>1, <1>3, <1>4, <1>6, <1>9, <1>10 DEF r, o, IsNewNode


-----------------------------------------------------------------------------
(***************************************************************************)
(* A child is stored.                                                      *)
(***************************************************************************)
IsPut(r, kids, index, n) ==
    /\ r \in Seq(Nat) /\ index \in DOMAIN r /\ DOMAIN kids \subseteq DOMAIN r /\ r[index] = n
    /\ \A k \in DOMAIN r : k # index => r[k] = IF k \in DOMAIN kids THEN kids[k] ELSE Null

LEMMA PutIs ==
    ASSUME NEW kids \in Seq(Nat), NEW index \in Nat \ {0}, NEW n \in Nat
    PROVE  IsPut(Put(kids, index, n), kids, index, n)
<1> DEFINE r == Put(kids, index, n)
           s == IF index > Len(kids) THEN index ELSE Len(kids)
<1>1. Len(kids) \in Nat /\ DOMAIN kids = 1..Len(kids) /\ \A k \in 1..Len(kids) : kids[k] \in Nat
  BY ElementOfSeq
<1>2. s \in Nat /\ index <= s /\ Len(kids) <= s
  BY <1>1
<1>3. r = [k \in 1..s |-> IF k = index THEN n ELSE IF k <= Len(kids) THEN kids[k] ELSE Null]
  BY DEF Put
<1> HIDE DEF r, s
<1>4. DOMAIN r = 1..s /\ \A k \in 1..s : r[k] = IF k = index THEN n ELSE IF k <= Len(kids) THEN kids[k] ELSE Null
  BY <1>3
<1>5. index \in 1..s /\ DOMAIN kids \subseteq 1..s /\ \A k \in 1..s : k <= Len(kids) <=> k \in DOMAIN kids
  BY <1>1, <1>2
<1>6. \A k \in 1..s : r[k] \in Nat
  BY <1>1, <1>4, <1>5 DEF Null
<1>7. r \in Seq(Nat)
  <2>1. r \in [1..s -> Nat]
    BY <1>3, <1>4, <1>6
  <2> QED
    BY <1>2, <2>1
<1> QED
  BY <1>4, <1>5, <1>7 DEF r, IsPut

LEMMA SetChanges ==
    ASSUME NEW V, NEW st \in Stores(V), NEW o \in DOMAIN st.cells, NEW n \in DOMAIN st.cells, o # n,
           NEW index \in Nat \ {0}, NEW label \in V, Node_get(st, o, index) = Null
    PROVE  LET r == Node_set(st, o, index, label, n)
           IN  /\ r \in Stores(V) /\ DOMAIN r.cells = DOMAIN st.cells /\ SameFree(st, r) /\ r.ok = st.ok
               /\ \A m \in DOMAIN st.cells : r.cells[m].rc = Retain(st, n).cells[m].rc
               /\ \A m \in DOMAIN st.cells :
                     r.cells[m].kids = IF m = o THEN Put(st.cells[o].kids, index, n) ELSE st.cells[m].kids
<1> DEFINE s == Retain(st, n)
           r == Node_set(st, o, index, label, n)
           x == st.cells[n].rc + 1
<1>1. st.cells[n].rc \in Int /\ x \in Int /\ n \in Nat /\ st.ok \in BOOLEAN
  BY CellTypes
<1>2. s = WithCount(st, n, x, st.ok)
  <2>1. [st EXCEPT !.ok = st.ok] = st
    BY DEF Stores
  <2> DEFINE s0 == [st EXCEPT !.ok = st.ok]
  <2>2. WithCount(st, n, x, st.ok) = [s0 EXCEPT !.cells = [s0.cells EXCEPT ![n] = [s0.cells[n] EXCEPT !.rc = x]]]
    BY DEF WithCount
  <2>3. s = [st EXCEPT !.cells = [st.cells EXCEPT ![n] = [st.cells[n] EXCEPT !.rc = x]]]
    BY DEF Retain
  <2>4. s0 = st
    BY <2>1
  <2> HIDE DEF s0, s, x
  <2> QED
    BY <2>2, <2>3, <2>4
<1> HIDE DEF x
<1>3. s \in Stores(V) /\ SameCells(st, s) /\ SameFree(st, s) /\ s.ok = st.ok
  <2> HIDE DEF s
  <2> QED
    BY <1>1, <1>2, CountChanged
<1>4. r = [s EXCEPT !.ok = s.ok /\ o # n,
                    !.cells[o].kids = Put(@, index, n),
                    !.cells[n].label = label]
  BY DEF Node_set, ReleaseIf
<1> HIDE DEF s, r
<1>5. PICK b \in BOOLEAN : b = (s.ok /\ o # n)
  OBVIOUS
<1>6. b = st.ok
  BY <1>1, <1>3, <1>5
<1> DEFINE co == [s.cells[o] EXCEPT !.kids = Put(s.cells[o].kids, index, n)]
           c1 == [s.cells EXCEPT ![o] = co]
           cn == [c1[n] EXCEPT !.label = label]
           c2 == [c1 EXCEPT ![n] = cn]
<1>7. r = [cells |-> c2, free |-> s.free, count |-> s.count, ok |-> b]
  <2> DEFINE s1 == [s EXCEPT !.ok = b]
             s2 == [s1 EXCEPT !.cells = [s1.cells EXCEPT ![o] = [s1.cells[o] EXCEPT !.kids = Put(s1.cells[o].kids, index, n)]]]
             s3 == [s2 EXCEPT !.cells = [s2.cells EXCEPT ![n] = [s2.cells[n] EXCEPT !.label = label]]]
  <2>1. r = s3
    BY <1>4, <1>5, Zenon
  <2>2. s = [cells |-> s.cells, free |-> s.free, count |-> s.count, ok |-> s.ok]
    BY <1>3, StoreFields
  <2>3. s1 = [cells |-> s.cells, free |-> s.free, count |-> s.count, ok |-> b]
    BY <2>2
  <2> HIDE DEF s1
  <2>4. s2 = [cells |-> c1, free |-> s.free, count |-> s.count, ok |-> b]
    BY <2>3
  <2> HIDE DEF s2, c1
  <2>5. s3 = [cells |-> c2, free |-> s.free, count |-> s.count, ok |-> b]
    BY <2>4
  <2> QED
    BY <2>1, <2>5
<1> DEFINE kids == Put(st.cells[o].kids, index, n)
<1>8. s.cells \in Seq(Cells(V)) /\ DOMAIN s.cells = DOMAIN st.cells /\ s.cells[o] \in Cells(V) /\ s.cells[o].kids = st.cells[o].kids
  BY <1>3, CellTypes DEF SameCells
<1>9. kids \in Seq(Nat)
  BY <1>1, CellTypes, PutIs DEF IsPut
<1>10. co \in Cells(V) /\ co.rc = s.cells[o].rc /\ co.kids = kids
  <2> HIDE DEF kids
  <2>1. co = [s.cells[o] EXCEPT !.kids = kids]
    BY <1>8 DEF kids
  <2> HIDE DEF co
  <2> QED
    BY <1>8, <1>9, <2>1 DEF Cells
<1> HIDE DEF co, kids
<1>11. /\ c1 \in Seq(Cells(V)) /\ DOMAIN c1 = DOMAIN st.cells
       /\ \A m \in DOMAIN st.cells : c1[m] = IF m = o THEN co ELSE s.cells[m]
  BY <1>8, <1>10, SeqExcept
<1> HIDE DEF c1
<1>12. cn \in Cells(V) /\ cn.rc = s.cells[n].rc /\ cn.kids = s.cells[n].kids
  <2>1. c1[n] = s.cells[n] /\ s.cells[n] \in Cells(V)
    BY <1>3, <1>8, <1>11, CellTypes
  <2> QED
    BY <2>1 DEF Cells
<1> HIDE DEF cn
<1>13. /\ c2 \in Seq(Cells(V)) /\ DOMAIN c2 = DOMAIN st.cells
       /\ \A m \in DOMAIN st.cells : c2[m] = IF m = n THEN cn ELSE c1[m]
  BY <1>11, <1>12, SeqExcept
<1> HIDE DEF c2
<1>14. r.cells = c2 /\ r.free = s.free /\ r.count = s.count /\ r.ok = b
  BY <1>7
<1>15. r \in Stores(V)
  <2>1. s.free \in Seq(Nat) /\ s.count \in Nat
    BY <1>3, CellTypes
  <2> QED
    BY <1>7, <1>13, <2>1 DEF Stores
<1>16. \A m \in DOMAIN st.cells : r.cells[m].rc = s.cells[m].rc
  BY <1>10, <1>11, <1>12, <1>13, <1>14
<1>17. \A m \in DOMAIN st.cells : r.cells[m].kids = IF m = o THEN kids ELSE st.cells[m].kids
  BY <1>3, <1>10, <1>11, <1>12, <1>13, <1>14 DEF SameCells
<1> QED
  BY <1>3, <1>6, <1>13, <1>14, <1>15, <1>16, <1>17 DEF SameFree, r, s, kids

\* A place that was empty gets a node: a reference from outside moves there.
LEMMA PlaceAdded ==
    ASSUME NEW V, NEW st \in Stores(V), NEW r \in Stores(V), NEW out, NEW Z, Settled(st, out, Z),
           NEW n \in Nat \ {Null}, out[n] > 0, NEW o \in DOMAIN st.cells, ~IsFree(st, o),
           NEW index \in Nat \ {0}, index \in DOMAIN st.cells[o].kids => st.cells[o].kids[index] = Null,
           DOMAIN r.cells = DOMAIN st.cells, SameFree(st, r), r.ok,
           \A m \in DOMAIN st.cells : r.cells[m].rc = st.cells[m].rc,
           \A m \in DOMAIN st.cells :
              r.cells[m].kids = IF m = o THEN Put(st.cells[o].kids, index, n) ELSE st.cells[m].kids
    PROVE  Settled(r, [out EXCEPT ![n] = @ - 1], Z)
<1> DEFINE out2 == [out EXCEPT ![n] = @ - 1]
           w == Idle(st)
           v == Idle(r)
           kids == st.cells[o].kids
           put == Put(kids, index, n)
<1>1. out \in [Nat -> Nat] /\ n \in DOMAIN st.cells /\ ~IsFree(st, n)
  BY HeldIsInUse DEF Settled, Outside
<1>2. /\ out2 \in [Nat -> Nat] /\ out2[n] = out[n] - 1
      /\ \A m \in Nat : m # n => out2[m] = out[m]
  BY <1>1
<1> HIDE DEF out2
<1>3. /\ index \in DOMAIN put /\ DOMAIN kids \subseteq DOMAIN put /\ put[index] = n
      /\ \A k \in DOMAIN put : k # index => put[k] = IF k \in DOMAIN kids THEN kids[k] ELSE Null
  <2>1. kids \in Seq(Nat) /\ n \in Nat
    BY CellTypes
  <2> HIDE DEF kids
  <2>2. index \in Nat \ {0}
    OBVIOUS
  <2>3. IsPut(put, kids, index, n)
    <3> HIDE DEF kids
    <3> QED
      BY <2>1, <2>2, PutIs
  <2> HIDE DEF put
  <2> QED
    BY <2>3 DEF IsPut
<1> HIDE DEF put
<1>4. /\ \A m \in DOMAIN st.cells : m # o => r.cells[m].kids = st.cells[m].kids
      /\ r.cells[o].kids = put
  BY DEF put
<1>5. \A m : IsFree(r, m) <=> IsFree(st, m)
  BY DEF IsFree, SameFree
<1>6. FreeList(r) /\ Outside(r, out2) /\ NewExact(r, Z)
  <2>1. FreeList(r)
    BY DEF Settled, FreeList, SameFree
  <2>2. ASSUME NEW m \in Nat \ {Null}, out2[m] > 0 PROVE m \in DOMAIN r.cells
    BY <1>1, <1>2, <2>2 DEF Settled, Outside
  <2>3. NewExact(r, Z)
    BY <1>5 DEF Settled, NewExact
  <2> QED
    BY <1>2, <2>1, <2>2, <2>3 DEF Outside
<1>7. ASSUME NEW m \in DOMAIN r.cells, NEW i \in DOMAIN r.cells[m].kids
      PROVE  r.cells[m].kids[i] \in DOMAIN r.cells \cup {Null}
  <2>0. \A k \in DOMAIN st.cells[m].kids : st.cells[m].kids[k] \in DOMAIN st.cells \cup {Null}
    BY DEF Settled, KidsIn
  <2>1. CASE m = o
    <3>1. r.cells[m].kids = put
      BY <1>4, <2>1
    <3>2. i = index \/ put[i] = IF i \in DOMAIN kids THEN kids[i] ELSE Null
      BY <1>3, <1>7, <3>1
    <3> QED
      BY <1>1, <1>3, <2>0, <2>1, <3>1, <3>2
  <2>2. CASE m # o
    BY <1>4, <1>7, <2>0, <2>2
  <2> QED
    BY <2>1, <2>2
<1>8. KidsIn(r)
  BY <1>7 DEF KidsIn
<1> DEFINE q == <<o, index>>
<1>9. \A m \in DOMAIN st.cells : m # Null => Places(v, m) = Places(w, m) \cup (IF m = n THEN {q} ELSE {})
  <2> SUFFICES ASSUME NEW m \in DOMAIN st.cells, m # Null
               PROVE  Places(v, m) = Places(w, m) \cup (IF m = n THEN {q} ELSE {})
    OBVIOUS
  <2> DEFINE new == IF m = n THEN {q} ELSE {}
  <2>1. ASSUME NEW p \in Places(v, m) PROVE p \in Places(w, m) \cup new
    <3>1. PICK a \in DOMAIN r.cells : \E i \in DOMAIN r.cells[a].kids : p = <<a, i>> /\ r.cells[a].kids[i] = m
      BY <2>1, IdlePlaces
    <3>2. PICK i \in DOMAIN r.cells[a].kids : p = <<a, i>> /\ r.cells[a].kids[i] = m
      BY <3>1
    <3>3. CASE a = o /\ i = index
      <4>1. m = n
        BY <1>3, <1>4, <3>2, <3>3
      <4> QED
        BY <3>2, <3>3, <4>1
    <3>4. CASE ~(a = o /\ i = index)
      <4>1. i \in DOMAIN st.cells[a].kids /\ st.cells[a].kids[i] = m
        BY <1>3, <1>4, <3>1, <3>2, <3>4
      <4>2. p \in Places(w, m)
        BY <3>1, <3>2, <4>1, IdlePlaces
      <4> QED
        BY <4>2
    <3> QED
      BY <3>3, <3>4
  <2>2. ASSUME NEW p \in Places(w, m) PROVE p \in Places(v, m)
    <3>1. PICK a \in DOMAIN st.cells : \E i \in DOMAIN st.cells[a].kids : p = <<a, i>> /\ st.cells[a].kids[i] = m
      BY <2>2, IdlePlaces
    <3>2. PICK i \in DOMAIN st.cells[a].kids : p = <<a, i>> /\ st.cells[a].kids[i] = m
      BY <3>1
    <3>3. i \in DOMAIN r.cells[a].kids /\ r.cells[a].kids[i] = m
      BY <1>3, <1>4, <2>2, <3>1, <3>2
    <3> QED
      BY <3>1, <3>2, <3>3, IdlePlaces
  <2>3. ASSUME m = n PROVE q \in Places(v, m)
    <3>1. o \in DOMAIN r.cells /\ index \in DOMAIN r.cells[o].kids /\ r.cells[o].kids[index] = m
      BY <1>3, <1>4, <2>3
    <3> QED
      BY <3>1, IdlePlaces
  <2> HIDE DEF q, v, w
  <2> QED
    BY <2>1, <2>2, <2>3
<1>10. q \notin Places(w, n)
  <2> SUFFICES ASSUME q \in Places(w, n) PROVE FALSE
    OBVIOUS
  <2>1. PICK a \in DOMAIN st.cells : \E i \in DOMAIN st.cells[a].kids : q = <<a, i>> /\ st.cells[a].kids[i] = n
    BY IdlePlaces
  <2> QED
    BY <2>1
<1>11. ASSUME NEW m \in DOMAIN r.cells PROVE Counted(v, out2, Z, Null, m)
  <2>1. m \in DOMAIN st.cells /\ m \in Nat /\ m # Null
    BY CellTypes DEF Null
  <2>2. /\ out[m] \in Nat /\ IsFiniteSet(Places(w, m)) /\ Cardinality(Places(w, m)) \in Nat
        /\ IsFree(st, m) => /\ st.cells[m].rc <= 0 /\ st.cells[m].kids = <<>>
                            /\ out[m] = 0 /\ Places(w, m) = {}
        /\ ~IsFree(st, m) => /\ st.cells[m].rc = out[m] + Cardinality(Places(w, m))
                             /\ st.cells[m].rc = 0 => m \in Z
    BY <2>1, SettledCounts
  <2>3. v.st = r /\ v.calls = <<>>
    BY IdleFields
  <2> HIDE DEF v, w, q
  <2>4. CASE m = n
    <3>1. Places(v, m) = Places(w, m) \cup {q}
      BY <1>9, <2>1, <2>4
    <3>2. Cardinality(Places(v, m)) = Cardinality(Places(w, m)) + 1
      <4>1. q \notin Places(w, m)
        BY <1>10, <2>4
      <4> DEFINE P == Places(w, m)
      <4>2. IsFiniteSet(P) /\ q \notin P
        BY <2>2, <4>1
      <4> HIDE DEF P
      <4>3. Cardinality(P \cup {q}) = Cardinality(P) + 1
        BY <4>2, FS_AddElement
      <4> QED
        BY <3>1, <4>3 DEF P
    <3>3. r.cells[m].rc = out[m] + Cardinality(Places(w, m))
      BY <1>1, <2>1, <2>2, <2>4
    <3>4. r.cells[m].rc = out2[m] + Cardinality(Places(v, m)) + 0 /\ r.cells[m].rc # 0
      <4>1. out2[m] = out[m] - 1 /\ out[m] > 0
        BY <1>2, <2>4
      <4> QED
        BY <2>2, <3>2, <3>3, <4>1
    <3>5. ~IsFree(r, m)
      BY <1>1, <1>5, <2>4
    <3> QED
      BY <2>1, <2>3, <3>4, <3>5 DEF Counted
  <2>5. CASE m # n
    <3>1. Places(v, m) = Places(w, m)
      <4>1. Places(v, m) = Places(w, m) \cup {}
        BY <1>9, <2>1, <2>5
      <4> QED
        BY <4>1
    <3>2. out2[m] = out[m]
      BY <1>2, <2>1, <2>5
    <3>3. CASE IsFree(st, m)
      <4>1. r.cells[m].kids = <<>>
        <5>1. m # o
          BY <3>3
        <5> QED
          BY <1>4, <2>1, <2>2, <3>3, <5>1
      <4> QED
        BY <1>5, <2>1, <2>2, <2>3, <3>1, <3>2, <3>3, <4>1 DEF Counted
    <3>4. CASE ~IsFree(st, m)
      <4>1. r.cells[m].rc = out2[m] + Cardinality(Places(v, m)) + 0
        BY <2>1, <2>2, <3>1, <3>2, <3>4
      <4> QED
        BY <1>5, <2>1, <2>2, <2>3, <3>4, <4>1 DEF Counted
    <3> QED
      BY <3>3, <3>4
  <2> QED
    BY <2>4, <2>5
<1> QED
  BY <1>6, <1>8, <1>11 DEF Settled, out2, v

LEMMA KidTypes ==
    ASSUME NEW V, NEW st \in Stores(V), NEW m \in DOMAIN st.cells, NEW i \in DOMAIN st.cells[m].kids
    PROVE  m \in Nat \ {Null} /\ i \in Nat \ {0} /\ st.cells[m].kids[i] \in Nat
<1> DEFINE kids == st.cells[m].kids
<1>1. kids \in Seq(Nat) /\ DOMAIN kids = 1..Len(kids) /\ Len(kids) \in Nat
  BY CellTypes
<1>2. DOMAIN st.cells = 1..Len(st.cells) /\ Len(st.cells) \in Nat
  BY CellTypes
<1>3. i \in DOMAIN kids
  OBVIOUS
<1> HIDE DEF kids
<1>4. kids[i] \in Nat
  BY <1>1, <1>3, ElementOfSeq
<1>5. i \in Nat \ {0}
  BY <1>1, <1>3
<1>6. m \in Nat \ {Null}
  BY <1>2 DEF Null
<1> QED
  BY <1>4, <1>5, <1>6 DEF kids

NewKids(st, r, o, kids) ==
    /\ DOMAIN r.cells = DOMAIN st.cells
    /\ \A m \in DOMAIN st.cells : r.cells[m].kids = IF m = o THEN kids ELSE st.cells[m].kids

\* A node that is held from outside becomes a child.
LEMMA ChildSet ==
    ASSUME NEW V, NEW st \in Stores(V), NEW out, NEW Z, Settled(st, out, Z),
           NEW o \in DOMAIN st.cells, ~IsFree(st, o), NEW n \in Nat \ {Null}, out[n] > 0, o # n,
           NEW index \in Nat \ {0}, NEW label \in V, Node_get(st, o, index) = Null
    PROVE  LET r == Node_set(st, o, index, label, n)
           IN  /\ r \in Stores(V) /\ Settled(r, out, Z) /\ NewKids(st, r, o, Put(st.cells[o].kids, index, n))
               /\ \A m : IsFree(r, m) <=> IsFree(st, m)
<1> DEFINE r == Node_set(st, o, index, label, n)
           s == Retain(st, n)
           out1 == [out EXCEPT ![n] = @ + 1]
<1>1. n \in DOMAIN st.cells /\ ~IsFree(st, n) /\ n \notin Z /\ out \in [Nat -> Nat]
  BY HeldIsInUse DEF Settled, Outside
<1>2. s \in Stores(V) /\ Settled(s, out1, Z \ {n}) /\ SameCells(st, s) /\ SameFree(st, s)
  BY <1>1, Retained
<1>3. Z \ {n} = Z
  BY <1>1
<1>4. /\ r \in Stores(V) /\ DOMAIN r.cells = DOMAIN st.cells /\ SameFree(st, r) /\ r.ok = st.ok
      /\ \A m \in DOMAIN st.cells : r.cells[m].rc = s.cells[m].rc
      /\ \A m \in DOMAIN st.cells :
            r.cells[m].kids = IF m = o THEN Put(st.cells[o].kids, index, n) ELSE st.cells[m].kids
  BY <1>1, SetChanges
<1>5. out1 \in [Nat -> Nat] /\ out1[n] > 0 /\ [out1 EXCEPT ![n] = @ - 1] = out
  <2>1. out1 \in [Nat -> Nat] /\ out1[n] = out[n] + 1 /\ \A m \in Nat : m # n => out1[m] = out[m]
    BY <1>1
  <2> HIDE DEF out1
  <2> DEFINE back == [out1 EXCEPT ![n] = @ - 1]
  <2>2. back \in [Nat -> Int] /\ \A m \in Nat : back[m] = out[m]
    BY <1>1, <2>1
  <2> HIDE DEF back
  <2>3. back = out
    BY <1>1, <2>2
  <2> QED
    BY <1>1, <2>1, <2>3 DEF back
<1> HIDE DEF s, r, out1
<1>6. index \in DOMAIN st.cells[o].kids => st.cells[o].kids[index] = Null
  BY CellTypes DEF Node_get, Node_length
<1>7. o \in DOMAIN s.cells /\ s.cells[o].kids = st.cells[o].kids /\ ~IsFree(s, o) /\ DOMAIN s.cells = DOMAIN st.cells
  BY <1>2, SameFreeNodes DEF SameCells
<1>8. SameFree(s, r) /\ r.ok
  BY <1>2, <1>4 DEF SameFree, Settled
<1>9. \A m \in DOMAIN s.cells :
         r.cells[m].kids = IF m = o THEN Put(s.cells[o].kids, index, n) ELSE s.cells[m].kids
  BY <1>2, <1>4, <1>7 DEF SameCells
<1>10. Settled(r, [out1 EXCEPT ![n] = @ - 1], Z)
  <2>1. s \in Stores(V) /\ r \in Stores(V) /\ Settled(s, out1, Z) /\ out1[n] > 0
    BY <1>2, <1>3, <1>4, <1>5
  <2>2. o \in DOMAIN s.cells /\ ~IsFree(s, o)
    BY <1>7
  <2>3. index \in DOMAIN s.cells[o].kids => s.cells[o].kids[index] = Null
    BY <1>6, <1>7
  <2>4. DOMAIN r.cells = DOMAIN s.cells /\ \A m \in DOMAIN s.cells : r.cells[m].rc = s.cells[m].rc
    BY <1>4, <1>7
  <2> QED
    BY <1>8, <1>9, <2>1, <2>2, <2>3, <2>4, PlaceAdded, Zenon
<1>11. \A m : IsFree(r, m) <=> IsFree(st, m)
  BY <1>4 DEF SameFree, IsFree
<1> QED
  BY <1>4, <1>5, <1>10, <1>11 DEF r, NewKids

-----------------------------------------------------------------------------
(***************************************************************************)
(* No node is below itself: a child has a lower rank than its parent.      *)
(***************************************************************************)
RankedBy(st, rank) ==
    \A m \in DOMAIN st.cells : \A i \in DOMAIN st.cells[m].kids :
        st.cells[m].kids[i] # Null => rank[st.cells[m].kids[i]] < rank[m]

Ranked(st) == \E b \in Nat : \E rank \in [Nat -> 0..b] : RankedBy(st, rank)

LEMMA RankKept ==
    ASSUME NEW st, NEW st2, NEW rank, RankedBy(st, rank), Shrinks(st, st2)
    PROVE  RankedBy(st2, rank)
<1> SUFFICES ASSUME NEW m \in DOMAIN st2.cells, NEW i \in DOMAIN st2.cells[m].kids, st2.cells[m].kids[i] # Null
             PROVE  rank[st2.cells[m].kids[i]] < rank[m]
  BY DEF RankedBy
<1>1. m \in DOMAIN st.cells /\ st2.cells[m].kids \in {st.cells[m].kids, <<>>}
  BY DEF Shrinks
<1>2. DOMAIN <<>> = {}
  OBVIOUS
<1>3. st2.cells[m].kids = st.cells[m].kids
  BY <1>1, <1>2
<1> QED
  BY <1>1, <1>3 DEF RankedBy

LEMMA RankedKept ==
    ASSUME NEW st, NEW st2, Ranked(st), Shrinks(st, st2)
    PROVE  Ranked(st2)
  BY RankKept DEF Ranked

\* A new node gets the highest rank, above all that may become its children.
HasTop(r, o) ==
    \E b \in Nat : \E rank \in [Nat -> 0..b] : RankedBy(r, rank) /\ \A m \in Nat : m # o => rank[m] < rank[o]

LEMMA RankMade ==
    ASSUME NEW V, Nil \in V, 0 \in V, NEW st \in Stores(V), NEW out, NEW Z, Settled(st, out, Z), Ranked(st),
           NEW tag \in V, NEW pos \in V, NEW end \in V, NEW value \in V, NEW size \in Nat
    PROVE  LET o == node_alloc(st)
               r == Node_new(st, tag, pos, end, size, value)
           IN  HasTop(r, o)
<1> DEFINE o == node_alloc(st)
           r == Node_new(st, tag, pos, end, size, value)
<1>1. /\ r \in Stores(V) /\ o \in DOMAIN r.cells /\ o # Null
      /\ r.cells[o].kids = [i \in 1..size |-> Null]
      /\ \A m \in DOMAIN r.cells : m # o =>
            r.cells[m].kids = IF m \in DOMAIN st.cells THEN st.cells[m].kids ELSE <<>>
      /\ \A m \in DOMAIN r.cells : \A i \in DOMAIN r.cells[m].kids : r.cells[m].kids[i] # o
  <2>1. IsNewNode(V, st, out, Z, r, o, size)
    BY NodeMade
  <2> HIDE DEF o, r
  <2> QED
    BY <2>1 DEF IsNewNode
<1>2. PICK b \in Nat : \E rank \in [Nat -> 0..b] : RankedBy(st, rank)
  BY DEF Ranked
<1>3. PICK rank \in [Nat -> 0..b] : RankedBy(st, rank)
  BY <1>2
<1> HIDE DEF o, r
<1> DEFINE rank2 == [rank EXCEPT ![o] = b + 1]
<1>4. o \in Nat /\ b + 1 \in Nat
  <2>1. r \in Stores(V) /\ o \in DOMAIN r.cells
    BY <1>1
  <2>2. DOMAIN r.cells = 1..Len(r.cells) /\ Len(r.cells) \in Nat
    BY <2>1, CellTypes
  <2> QED
    BY <2>1, <2>2
<1>5. /\ rank2 \in [Nat -> 0..(b + 1)] /\ rank2[o] = b + 1
      /\ \A m \in Nat : m # o => rank2[m] = rank[m]
  <2>1. rank2[o] = b + 1 /\ \A m \in Nat : m # o => rank2[m] = rank[m]
    BY <1>4
  <2>2. \A m \in Nat : rank[m] \in 0..b
    OBVIOUS
  <2>3. DOMAIN rank2 = Nat /\ rank2 = [m \in Nat |-> rank2[m]]
    OBVIOUS
  <2> HIDE DEF rank2
  <2>4. \A m \in Nat : rank2[m] \in 0..(b + 1)
    BY <1>4, <2>1, <2>2
  <2> QED
    BY <2>1, <2>3, <2>4
<1>6. \A m \in Nat : rank[m] \in 0..b
  OBVIOUS
<1> HIDE DEF rank2
<1>7. ASSUME NEW m \in DOMAIN r.cells, NEW i \in DOMAIN r.cells[m].kids, r.cells[m].kids[i] # Null
      PROVE  rank2[r.cells[m].kids[i]] < rank2[m]
  <2>1. m # o
    BY <1>1, <1>7
  <2>2. DOMAIN <<>> = {}
    OBVIOUS
  <2>3. m \in DOMAIN st.cells /\ r.cells[m].kids = st.cells[m].kids
    BY <1>1, <1>7, <2>1, <2>2
  <2>4. rank[r.cells[m].kids[i]] < rank[m]
    BY <1>3, <1>7, <2>3 DEF RankedBy
  <2>5. m \in Nat /\ r.cells[m].kids[i] \in Nat
    <3>1. i \in DOMAIN st.cells[m].kids
      BY <1>7, <2>3
    <3> QED
      BY <2>3, <3>1, KidTypes
  <2>6. r.cells[m].kids[i] # o
    BY <1>1, <1>7
  <2> QED
    BY <1>5, <2>1, <2>4, <2>5, <2>6
<1>8. RankedBy(r, rank2)
  BY <1>7 DEF RankedBy
<1>9. \A m \in Nat : m # o => rank2[m] < rank2[o]
  BY <1>4, <1>5, <1>6
<1> QED
  BY <1>4, <1>5, <1>8, <1>9 DEF o, r, HasTop

LEMMA RankFilled ==
    ASSUME NEW V, NEW st \in Stores(V), NEW r, NEW rank, RankedBy(st, rank), NEW o \in DOMAIN st.cells,
           NEW n \in Nat, NEW index \in Nat \ {0}, rank[n] < rank[o],
           NewKids(st, r, o, Put(st.cells[o].kids, index, n))
    PROVE  RankedBy(r, rank)
<1> DEFINE kids == st.cells[o].kids
           put == Put(kids, index, n)
<1>1. /\ kids \in Seq(Nat) /\ DOMAIN r.cells = DOMAIN st.cells
      /\ \A m \in DOMAIN st.cells : r.cells[m].kids = IF m = o THEN put ELSE st.cells[m].kids
  BY CellTypes DEF NewKids
<1> HIDE DEF kids
<1>2. put[index] = n /\ \A k \in DOMAIN put : k # index => put[k] = IF k \in DOMAIN kids THEN kids[k] ELSE Null
  BY <1>1, PutIs DEF IsPut
<1> HIDE DEF put
<1>3. \A i \in DOMAIN kids : kids[i] # Null => rank[kids[i]] < rank[o]
  BY DEF RankedBy, kids
<1> SUFFICES ASSUME NEW m \in DOMAIN r.cells, NEW i \in DOMAIN r.cells[m].kids, r.cells[m].kids[i] # Null
             PROVE  rank[r.cells[m].kids[i]] < rank[m]
  BY DEF RankedBy
<1>4. CASE m = o
  <2>1. r.cells[m].kids = put
    BY <1>1, <1>4
  <2>2. CASE i = index
    BY <1>2, <1>4, <2>1, <2>2
  <2>3. CASE i # index
    BY <1>2, <1>3, <1>4, <2>1, <2>3
  <2> QED
    BY <2>2, <2>3
<1>5. CASE m # o
  BY <1>1, <1>5 DEF RankedBy
<1> QED
  BY <1>4, <1>5

-----------------------------------------------------------------------------
(***************************************************************************)
(* What exact counts say when no node is new.                              *)
(***************************************************************************)
\* The nodes in use are those that are not free.
LEMMA InUse ==
    ASSUME NEW V, NEW st \in Stores(V), NEW out, Settled(st, out, {}), NEW n \in DOMAIN st.cells
    PROVE  st.cells[n].rc > 0 <=> ~IsFree(st, n)
<1>1. /\ out[n] \in Nat /\ Cardinality(Places(Idle(st), n)) \in Nat
      /\ IsFree(st, n) => st.cells[n].rc <= 0
      /\ ~IsFree(st, n) => /\ st.cells[n].rc = out[n] + Cardinality(Places(Idle(st), n))
                           /\ st.cells[n].rc # 0
  BY SettledCounts
<1>2. st.cells[n].rc \in Int
  BY CellTypes
<1> QED
  BY <1>1, <1>2

LEMMA FreeNodes ==
    ASSUME NEW V, NEW st \in Stores(V), NEW out, Settled(st, out, {})
    PROVE  LET F == {n \in DOMAIN st.cells : ~(st.cells[n].rc > 0)}
           IN  ToSet(st.free) = F /\ Len(st.free) = Cardinality(F) /\ st.count = Len(st.free)
<1> DEFINE F == {n \in DOMAIN st.cells : ~(st.cells[n].rc > 0)}
           L == Len(st.free)
<1>1. st.free \in Seq(Nat) /\ L \in Nat /\ DOMAIN st.free = 1..L
  BY CellTypes
<1>2. FreeList(st)
  BY DEF Settled
<1>3. \A i \in 1..L : st.free[i] \in F
  <2> TAKE i \in 1..L
  <2>1. st.free[i] \in DOMAIN st.cells /\ IsFree(st, st.free[i])
    BY <1>1, <1>2 DEF FreeList, IsFree
  <2> QED
    BY <2>1, InUse
<1>4. \A n \in F : \E i \in 1..L : st.free[i] = n
  <2> TAKE n \in F
  <2>1. n \in DOMAIN st.cells /\ IsFree(st, n)
    BY InUse
  <2> QED
    BY <1>1, <2>1 DEF IsFree
<1>5. \A i, j \in 1..L : st.free[i] = st.free[j] => i = j
  BY <1>1, <1>2 DEF FreeList
<1>6. ToSet(st.free) = {st.free[i] : i \in DOMAIN st.free}
  BY DEF ToSet
<1> HIDE DEF F, L
<1>7. ToSet(st.free) = F
  BY <1>1, <1>3, <1>4, <1>6
<1>8. st.free \in Bijection(1..L, F)
  <2>1. st.free \in [1..L -> F]
    <3>1. st.free = [i \in 1..L |-> st.free[i]]
      BY <1>1
    <3> QED
      BY <1>3, <3>1
  <2>2. IsInjective(st.free)
    BY <1>1, <1>5 DEF IsInjective
  <2>3. st.free \in Surjection(1..L, F)
    BY <1>4, <2>1 DEF Surjection
  <2> QED
    BY <2>1, <2>2, <2>3 DEF Bijection, Injection
<1>9. Cardinality(F) = L
  <2>1. IsFiniteSet(1..L) /\ Cardinality(1..L) = L
    <3>1. IsFiniteSet(1..L) /\ Cardinality(1..L) = IF 1 > L THEN 0 ELSE L - 1 + 1
      BY <1>1, FS_Interval
    <3> QED
      BY <1>1, <3>1
  <2> QED
    BY <1>8, <2>1, FS_Bijection DEF ExistsBijection
<1> QED
  BY <1>2, <1>7, <1>9 DEF F, L, FreeList

\* Without references from outside, no node is in use: one of the highest rank
\* has no parent.
LEMMA NothingKept ==
    ASSUME NEW V, NEW st \in Stores(V), NEW out, Settled(st, out, {}), Ranked(st),
           \A n \in Nat \ {Null} : out[n] = 0
    PROVE  \A n \in DOMAIN st.cells : ~(st.cells[n].rc > 0)
<1> SUFFICES ASSUME NEW n0 \in DOMAIN st.cells, st.cells[n0].rc > 0 PROVE FALSE
  OBVIOUS
<1>1. PICK b \in Nat : \E rank \in [Nat -> 0..b] : RankedBy(st, rank)
  BY DEF Ranked
<1>2. PICK rank \in [Nat -> 0..b] : RankedBy(st, rank)
  BY <1>1
<1> DEFINE Kept == {n \in DOMAIN st.cells : st.cells[n].rc > 0}
           S == {b - rank[n] : n \in Kept}
<1>3. \A n \in Nat : rank[n] \in 0..b
  OBVIOUS
<1>4. \A n \in DOMAIN st.cells : n \in Nat \ {Null}
  BY SettledCounts
<1>5. S \in SUBSET Nat /\ S # {}
  <2>1. n0 \in Kept
    OBVIOUS
  <2>2. ASSUME NEW n \in Kept PROVE b - rank[n] \in Nat
    <3>1. rank[n] \in 0..b
      BY <1>3, <1>4
    <3> QED
      BY <3>1
  <2> QED
    BY <2>1, <2>2
<1>6. PICK n \in Kept : \A m \in Kept : b - rank[n] <= b - rank[m]
  <2> HIDE DEF Kept
  <2>1. \E x \in S : \A y \in S : x <= y
    <3> HIDE DEF S
    <3> QED
      BY <1>5, SomeMin
  <2> QED
    BY <2>1
<1>7. /\ out[n] \in Nat /\ IsFiniteSet(Places(Idle(st), n)) /\ Cardinality(Places(Idle(st), n)) \in Nat
      /\ ~IsFree(st, n) => st.cells[n].rc = out[n] + Cardinality(Places(Idle(st), n))
      /\ n \in Nat \ {Null}
  BY SettledCounts
<1>8. Cardinality(Places(Idle(st), n)) # 0
  <2>1. ~IsFree(st, n) /\ st.cells[n].rc > 0
    BY InUse
  <2> QED
    BY <1>7, <2>1
<1>9. PICK p : p \in Places(Idle(st), n)
  BY <1>8, FS_EmptySet
<1>10. PICK m \in DOMAIN st.cells : \E i \in DOMAIN st.cells[m].kids : p = <<m, i>> /\ st.cells[m].kids[i] = n
  BY <1>9, IdlePlaces
<1>11. rank[n] < rank[m]
  BY <1>2, <1>7, <1>10 DEF RankedBy
<1>12. ~IsFree(st, m)
  <2>1. IsFree(st, m) => st.cells[m].kids = <<>>
    BY SettledCounts
  <2>2. DOMAIN <<>> = {}
    OBVIOUS
  <2> QED
    BY <1>10, <2>1, <2>2
<1>13. m \in Kept
  BY <1>12, InUse
<1>14. rank[n] \in 0..b /\ rank[m] \in 0..b /\ b - rank[n] <= b - rank[m]
  BY <1>3, <1>4, <1>6, <1>13
<1> QED
  BY <1>11, <1>14

\* The store that NodeManager_init makes has a page of free cells.
LEMMA ManagerMade ==
    ASSUME NEW V, Nil \in V, 0 \in V
    PROVE  LET r == NodeManager_init
           IN  /\ r \in Stores(V) /\ Settled(r, [n \in Nat |-> 0], {}) /\ Ranked(r) /\ r.ok
<1> DEFINE out == [n \in Nat |-> 0]
           r == NodeManager_init
<1>1. Empty \in Stores(V) /\ Empty.free = <<>> /\ Empty.cells = <<>> /\ Empty.count = 0 /\ Empty.ok
  <2>1. <<>> \in Seq(Cells(V)) /\ <<>> \in Seq(Nat) /\ 0 \in Nat /\ TRUE \in BOOLEAN
    OBVIOUS
  <2> QED
    BY <2>1 DEF Empty, Stores
<1>2. out \in [Nat -> Nat] /\ \A n \in Nat : out[n] = 0
  OBVIOUS
<1> HIDE DEF out
<1>3. Settled(Empty, out, {})
  <2>1. DOMAIN Empty.cells = {} /\ DOMAIN Empty.free = {} /\ Len(Empty.free) = 0
    BY <1>1
  <2>2. FreeList(Empty) /\ KidsIn(Empty) /\ Outside(Empty, out) /\ NewExact(Empty, {})
    BY <1>1, <1>2, <2>1 DEF FreeList, KidsIn, Outside, NewExact
  <2> QED
    BY <1>1, <2>1, <2>2 DEF Settled
<1>4. Settled(r, out, {})
  BY <1>1, <1>3, PageAllocated DEF NodeManager_init
<1>5. /\ r \in Stores(V) /\ Len(Empty.cells) = 0 /\ DOMAIN Empty.cells = {}
      /\ \A m \in DOMAIN r.cells : m \notin DOMAIN Empty.cells => r.cells[m].kids = <<>>
  <2>1. Len(Empty.cells) = 0 /\ DOMAIN Empty.cells = {}
    BY <1>1
  <2>2. r \in Stores(V)
    BY <1>1, PageChanges DEF NodeManager_init
  <2>3. \A m \in DOMAIN r.cells : m \notin DOMAIN Empty.cells => r.cells[m].kids = <<>>
    BY <1>1, PageChanges DEF NodeManager_init
  <2> QED
    BY <2>1, <2>2, <2>3
<1>6. \A m \in DOMAIN r.cells : r.cells[m].kids = <<>>
  BY <1>5
<1> HIDE DEF r
<1>7. Ranked(r)
  <2> DEFINE rank == [n \in Nat |-> 0]
  <2>1. rank \in [Nat -> 0..0]
    OBVIOUS
  <2> HIDE DEF rank
  <2>2. DOMAIN <<>> = {}
    OBVIOUS
  <2>3. RankedBy(r, rank)
    BY <1>6, <2>2 DEF RankedBy
  <2> QED
    BY <2>1, <2>3 DEF Ranked
<1>8. r.ok
  BY <1>4 DEF Settled
<1> QED
  BY <1>4, <1>5, <1>7, <1>8 DEF r, out

=============================================================================
