-------------------------- MODULE MemoTableProofs --------------------------
(***************************************************************************)
(* The memo table holds one reference for every slot, and a hit tells the  *)
(* last outcome of its own key, for every number of keys, slots and nodes. *)
(*                                                                         *)
(* References are counted by slots: a call changes one slot, so that the   *)
(* set of slots that hold a node gains or loses that slot only.  A hit is  *)
(* true because the hash of a key is not the hash of another one.          *)
(***************************************************************************)
EXTENDS MemoTable, FiniteSetTheorems, TLAPS

Hash(k) == memo_hash(k[1], k[2])
Slot(k) == memo_index(Hash(k))
Slots   == 0..memo_len-1

-----------------------------------------------------------------------------
(***************************************************************************)
(* Hashes and slots.                                                       *)
(***************************************************************************)
LEMMA LenIsPositive == memo_len \in Nat /\ memo_len > 0
  BY MemoSizeAssumption

\* A product with a larger factor is larger by one factor at least.
LEMMA Multiples ==
    ASSUME NEW a \in Nat, NEW b \in Nat, NEW m \in Nat, a < b
    PROVE  a * m + m <= b * m
<1>1. PICK d \in Nat : b = a + 1 + d
  <2>1. b - a - 1 \in Nat /\ b = a + 1 + (b - a - 1)
    OBVIOUS
  <2> QED
    BY <2>1
<1>2. b * m = a * m + m + d * m
  BY <1>1
<1>3. d * m \in Nat /\ a * m \in Nat
  OBVIOUS
<1> QED
  BY <1>2, <1>3

\* memo_hash: a position is shifted past the memo points, so that two keys have
\* two hashes, none of them the 0 of an empty entry.
LEMMA HashIsExact ==
    /\ \A k \in Keys : Hash(k) \in Nat /\ Hash(k) # 0
    /\ \A k, l \in Keys : Hash(k) = Hash(l) => k = l
<1> DEFINE m == 2^memo_shift
<1>1. m \in Nat /\ MemoPoints \in Nat /\ MemoPoints >= 2 /\ MemoPoints <= m
      /\ SourceAddr \in Nat /\ SourceAddr > 0
  BY MemoSizeAssumption, MemoAssumption
<1>2. ASSUME NEW k \in Keys
      PROVE  /\ k = <<k[1], k[2]>> /\ k[1] \in Nat /\ k[2] \in Nat /\ k[2] < m
             /\ Hash(k) = (SourceAddr + k[1]) * m + k[2]
  <2>1. Hash(k) = (SourceAddr + k[1]) * m + k[2]
    BY DEF Hash, memo_hash
  <2>2. k = <<k[1], k[2]>> /\ k[1] \in Positions /\ k[2] \in 0..MemoPoints-1
    BY DEF Keys, MemoIds
  <2>3. k[1] \in Nat
    BY <2>2, MemoTableAssumption
  <2> HIDE DEF m
  <2>4. k[2] \in Nat /\ k[2] < m
    BY <1>1, <2>2
  <2> QED
    BY <2>1, <2>2, <2>3, <2>4
<1> HIDE DEF m
<1>3. ASSUME NEW k \in Keys PROVE Hash(k) \in Nat /\ Hash(k) # 0
  <2>1. 0 * m + m <= (SourceAddr + k[1]) * m
    BY <1>1, <1>2, Multiples
  <2> QED
    BY <1>1, <1>2, <2>1
<1>4. ASSUME NEW k \in Keys, NEW l \in Keys, k[1] < l[1] PROVE Hash(k) < Hash(l)
  <2>1. (SourceAddr + k[1]) * m + m <= (SourceAddr + l[1]) * m
    BY <1>1, <1>2, <1>4, Multiples
  <2>2. /\ (SourceAddr + k[1]) * m \in Nat /\ (SourceAddr + l[1]) * m \in Nat
        /\ k[2] \in Nat /\ l[2] \in Nat /\ k[2] < m
        /\ Hash(k) = (SourceAddr + k[1]) * m + k[2]
        /\ Hash(l) = (SourceAddr + l[1]) * m + l[2]
    BY <1>1, <1>2
  <2> QED
    BY <1>1, <2>1, <2>2
<1>5. ASSUME NEW k \in Keys, NEW l \in Keys, Hash(k) = Hash(l) PROVE k = l
  <2>1. k[1] = l[1]
    BY <1>2, <1>3, <1>4, <1>5
  <2>2. (SourceAddr + k[1]) * m \in Nat /\ k[2] \in Nat /\ l[2] \in Nat
    BY <1>1, <1>2
  <2>3. k[2] = l[2]
    BY <1>2, <1>5, <2>1, <2>2
  <2> QED
    BY <1>2, <2>1, <2>3
<1> QED
  BY <1>3, <1>5

LEMMA SlotInTable == \A k \in Keys : Slot(k) \in Slots
  BY HashIsExact, LenIsPositive DEF Slot, Slots, memo_index

-----------------------------------------------------------------------------
(***************************************************************************)
(* The inductive invariant.                                                *)
(***************************************************************************)
Results == Nodes \union {NoNode, FailedResult}
Entries == [hash : Nat, result : Results,
            consumed : Consumed \union {0}, state : States \union {0}]

\* What an entry with the hash of a key tells of that key.  The state of a
\* failure is the state of the entry it evicted: nothing is said of it.
Tells(e, o) ==
    /\ e.result = o.result /\ o.state \in States
    /\ e.result # FailedResult => e.consumed = o.consumed /\ e.state = o.state

EntriesTell ==
    \A k \in Keys : memo[Slot(k)].hash = Hash(k) => Tells(memo[Slot(k)], outcome[k])

IInv ==
    /\ memo \in [Slots -> Entries]
    /\ refs \in [Nodes -> Nat]
    /\ DOMAIN outcome = Keys
    /\ RefsExact
    /\ EntriesTell

\* The slots that hold n.
HoldingIn(m, n) == {i \in DOMAIN m : m[i].result = n}

LEMMA HoldingIsFinite ==
    ASSUME NEW m \in [Slots -> Entries], NEW n
    PROVE  IsFiniteSet(HoldingIn(m, n)) /\ Cardinality(HoldingIn(m, n)) \in Nat
<1>1. IsFiniteSet(Slots)
  BY FS_Interval, LenIsPositive DEF Slots
<1>2. HoldingIn(m, n) \in SUBSET (Slots)
  BY DEF HoldingIn
<1> QED
  BY <1>1, <1>2, FS_Subset, FS_CardinalityType

\* Writing a slot moves one reference from what it held to what it holds.
LEMMA OneSlotCounts ==
    ASSUME NEW m \in [Slots -> Entries], NEW i \in Slots,
           NEW w \in [Slots -> Entries], NEW n,
           \A j \in Slots : j # i => w[j] = m[j]
    PROVE  Cardinality(HoldingIn(w, n)) =
               Cardinality(HoldingIn(m, n))
               + (IF w[i].result = n THEN 1 ELSE 0)
               - (IF m[i].result = n THEN 1 ELSE 0)
<1> DEFINE old == HoldingIn(m, n)
           new == HoldingIn(w, n)
<1>1. IsFiniteSet(old) /\ Cardinality(old) \in Nat
  BY HoldingIsFinite
<1>2. i \in old <=> m[i].result = n
  BY DEF HoldingIn
<1>3. new = IF w[i].result = n THEN old \union {i} ELSE old \ {i}
  BY DEF HoldingIn
<1>4. /\ Cardinality(old \union {i}) =
           IF i \in old THEN Cardinality(old) ELSE Cardinality(old) + 1
      /\ Cardinality(old \ {i}) =
           IF i \in old THEN Cardinality(old) - 1 ELSE Cardinality(old)
  BY <1>1, FS_AddElement, FS_RemoveElement
<1> HIDE DEF old, new
<1>5. Cardinality(new) = Cardinality(old) + (IF w[i].result = n THEN 1 ELSE 0)
                         - (IF m[i].result = n THEN 1 ELSE 0)
  BY <1>1, <1>2, <1>3, <1>4
<1> QED
  BY <1>5 DEF old, new

\* Writing the entry of a key leaves every other key with what it had, or
\* without a hit.
LEMMA OneEntryTells ==
    ASSUME NEW l \in Keys, NEW e \in Entries, e.hash = Hash(l), NEW o, Tells(e, o),
           memo \in [Slots -> Entries], DOMAIN outcome = Keys, EntriesTell,
           memo' = [memo EXCEPT ![Slot(l)] = e], outcome' = [outcome EXCEPT ![l] = o]
    PROVE  EntriesTell' /\ DOMAIN outcome' = Keys
<1>1. DOMAIN outcome' = Keys
  OBVIOUS
<1>2. ASSUME NEW k \in Keys, memo'[Slot(k)].hash = Hash(k)
      PROVE  Tells(memo'[Slot(k)], outcome'[k])
  <2>1. CASE k = l
    BY <2>1, SlotInTable
  <2>2. CASE k # l
    <3>1. Slot(k) # Slot(l)
      BY <1>2, <2>2, HashIsExact, SlotInTable
    <3> QED
      BY <1>2, <2>2, <3>1, SlotInTable DEF EntriesTell
  <2> QED
    BY <2>1, <2>2
<1>3. EntriesTell'
  BY <1>2 DEF EntriesTell, Slot, Hash, memo_hash, memo_index
<1> QED
  BY <1>1, <1>3

LEMMA InitHolds == Init => IInv
<1> SUFFICES ASSUME Init PROVE IInv
  OBVIOUS
<1>1. memo \in [Slots -> Entries]
  BY DEF Init, memo_elastic_init, Slots, Entries, Results
<1>2. refs \in [Nodes -> Nat] /\ DOMAIN outcome = Keys
  BY DEF Init
<1>3. RefsExact
  <2>1. ASSUME NEW n \in Nodes PROVE refs[n] = Cardinality(Holding(n))
    <3>1. Holding(n) = {}
      BY MemoTableAssumption DEF Init, memo_elastic_init, Slots, Holding
    <3> QED
      BY <3>1, FS_EmptySet DEF Init
  <2> QED
    BY <2>1 DEF RefsExact
<1>4. EntriesTell
  <2>1. \A k \in Keys : memo[Slot(k)].hash = 0
    BY SlotInTable DEF Init, memo_elastic_init, Slots
  <2> QED
    BY <2>1, HashIsExact DEF EntriesTell
<1> QED
  BY <1>1, <1>2, <1>3, <1>4 DEF IInv

\* A call that writes e into the slot of l, counting its node and releasing the
\* one of the entry it evicts.
LEMMA WriteKeeps ==
    ASSUME IInv, NEW l \in Keys, NEW e \in Entries, e.hash = Hash(l),
           NEW o, Tells(e, o),
           memo' = [memo EXCEPT ![Slot(l)] = e],
           outcome' = [outcome EXCEPT ![l] = o],
           refs' = Release(Retain(refs, e.result), memo[Slot(l)].result)
    PROVE  IInv'
<1> DEFINE i == Slot(l)
           was == memo[i].result
<1>1. i \in Slots /\ was \in Results
  BY SlotInTable DEF IInv, Entries
<1>2. memo' \in [Slots -> Entries]
  BY <1>1 DEF IInv
<1>3. EntriesTell' /\ DOMAIN outcome' = Keys
  BY OneEntryTells DEF IInv
<1>4. ASSUME NEW n \in Nodes
      PROVE  /\ refs'[n] = Cardinality(HoldingIn(memo', n))
             /\ refs'[n] \in Nat
  <2>1. Cardinality(HoldingIn(memo', n)) =
            Cardinality(HoldingIn(memo, n))
            + (IF e.result = n THEN 1 ELSE 0) - (IF was = n THEN 1 ELSE 0)
    <3>1. /\ memo \in [Slots -> Entries] /\ memo'[i] = e
          /\ \A j \in Slots : j # i => memo'[j] = memo[j]
      BY <1>1 DEF IInv
    <3> HIDE DEF i
    <3>2. Cardinality(HoldingIn(memo', n)) =
              Cardinality(HoldingIn(memo, n))
              + (IF memo'[i].result = n THEN 1 ELSE 0)
              - (IF memo[i].result = n THEN 1 ELSE 0)
      BY ONLY <1>1, <1>2, <3>1, OneSlotCounts
    <3> QED
      BY <3>1, <3>2
  <2>2. refs[n] = Cardinality(HoldingIn(memo, n)) /\ refs[n] \in Nat
    BY DEF IInv, RefsExact, Holding, HoldingIn
  <2>3. refs'[n] = refs[n] + (IF e.result = n THEN 1 ELSE 0) - (IF was = n THEN 1 ELSE 0)
    BY <1>1 DEF IInv, Release, Retain
  <2>4. Cardinality(HoldingIn(memo', n)) \in Nat
    BY <1>2, HoldingIsFinite
  <2> QED
    BY <2>1, <2>2, <2>3, <2>4
<1>5. refs' \in [Nodes -> Nat]
  <2>1. refs' = [n \in Nodes |-> refs'[n]]
    BY DEF IInv, Release, Retain
  <2> QED
    BY <1>4, <2>1
<1>6. RefsExact'
  BY <1>4 DEF RefsExact, Holding, HoldingIn
<1> QED
  BY <1>2, <1>3, <1>5, <1>6 DEF IInv

LEMMA NextKeeps == IInv /\ [Next]_vars => IInv'
<1> SUFFICES ASSUME IInv, [Next]_vars PROVE IInv'
  OBVIOUS
<1>1. ASSUME NEW k \in Keys, NEW state \in States,
             NEW node \in Nodes \union {NoNode}, NEW consumed \in Consumed,
             Set(k[1], k[2], node, consumed, state)
      PROVE  IInv'
  <2> DEFINE e == [hash |-> Hash(k), result |-> node,
                   consumed |-> consumed, state |-> state]
             o == [result |-> node, consumed |-> consumed, state |-> state]
  <2>1. e \in Entries /\ e.hash = Hash(k) /\ Tells(e, o)
    BY HashIsExact DEF Entries, Results, Tells
  <2>2. /\ memo' = [memo EXCEPT ![Slot(k)] = e]
        /\ refs' = Release(Retain(refs, e.result), memo[Slot(k)].result)
    BY <1>1 DEF Set, memo_set, memo_entry, Slot, Hash
  <2>3. outcome' = [outcome EXCEPT ![k] = o]
    <3>1. k = <<k[1], k[2]>>
      BY DEF Keys
    <3> QED
      BY <1>1, <3>1 DEF Set
  <2> QED
    BY <2>1, <2>2, <2>3, WriteKeeps
<1>2. ASSUME NEW k \in Keys, NEW state \in States, SetFailed(k[1], k[2], state)
      PROVE  IInv'
  <2> DEFINE old == memo[Slot(k)]
             e == [hash |-> Hash(k), result |-> FailedResult,
                   consumed |-> old.consumed, state |-> old.state]
             o == [result |-> FailedResult, consumed |-> 0, state |-> state]
  <2>1. e \in Entries /\ e.hash = Hash(k) /\ Tells(e, o)
    BY HashIsExact, SlotInTable DEF IInv, Entries, Results, Tells
  <2>2. memo' = [memo EXCEPT ![Slot(k)] = e]
    BY <1>2 DEF SetFailed, memo_fail, Slot, Hash
  <2>3. refs' = Release(Retain(refs, e.result), old.result)
    BY <1>2, MemoTableAssumption DEF SetFailed, memo_entry, Slot, Hash, Retain
  <2>4. outcome' = [outcome EXCEPT ![k] = o]
    <3>1. k = <<k[1], k[2]>>
      BY DEF Keys
    <3> QED
      BY <1>2, <3>1 DEF SetFailed
  <2> QED
    BY <2>1, <2>2, <2>3, <2>4, WriteKeeps
<1>3. ASSUME Reset PROVE IInv'
  <2>1. /\ memo' \in [Slots -> Entries]
        /\ \A i \in Slots : memo'[i].hash = 0 /\ memo'[i].result = NoNode
    BY <1>3 DEF Reset, memo_elastic_init, Slots, Entries, Results
  <2>2. ASSUME NEW n \in Nodes
        PROVE  refs'[n] = 0 /\ Cardinality(HoldingIn(memo', n)) = 0
    <3>1. refs[n] = Cardinality(HoldingIn(memo, n))
      BY DEF IInv, RefsExact, Holding, HoldingIn
    <3>2. Cardinality(HoldingIn(memo, n)) \in Nat
      BY HoldingIsFinite DEF IInv
    <3>3. refs'[n] = refs[n] - Cardinality(HoldingIn(memo, n))
      BY <1>3 DEF Reset, Holding, HoldingIn
    <3>4. HoldingIn(memo', n) = {}
      BY <2>1, MemoTableAssumption DEF HoldingIn
    <3> QED
      BY <3>1, <3>2, <3>3, <3>4, FS_EmptySet
  <2>3. refs' \in [Nodes -> Nat]
    BY <1>3, <2>2 DEF Reset
  <2>4. RefsExact'
    BY <2>2 DEF RefsExact, Holding, HoldingIn
  <2>5. DOMAIN outcome' = Keys
    BY <1>3 DEF Reset
  <2>6. EntriesTell'
    <3>1. \A k \in Keys : memo'[Slot(k)].hash # Hash(k)
      BY <2>1, SlotInTable, HashIsExact
    <3> QED
      BY <3>1 DEF EntriesTell, Slot, Hash, memo_hash, memo_index
  <2> QED
    BY <2>1, <2>3, <2>4, <2>5, <2>6 DEF IInv
<1>4. ASSUME UNCHANGED vars PROVE IInv'
  BY <1>4 DEF vars, IInv, RefsExact, Holding, EntriesTell, Slot, Hash,
              memo_hash, memo_index
<1> QED
  BY <1>1, <1>2, <1>3, <1>4 DEF Next

THEOREM IInvHolds == Spec => []IInv
  BY InitHolds, NextKeeps, PTL DEF Spec

-----------------------------------------------------------------------------
(***************************************************************************)
(* The properties.                                                         *)
(***************************************************************************)
\* The table has a slot for every index, a slot holds a node, NULL or the mark of
\* a failure, and no count of memo.c goes below zero.
THEOREM TypeCorrect == Spec => []TypeOK
<1>1. IInv => TypeOK
  BY DEF IInv, TypeOK, Slots, Entries, Results
<1> QED
  BY <1>1, IInvHolds, PTL

\* memo_set, memo_fail and memo_dispose retain and release so that the table holds
\* one reference per slot, whatever the sizes of the window and of the program.
THEOREM ReferencesAreExact == Spec => []RefsExact
<1>1. IInv => RefsExact
  BY DEF IInv
<1> QED
  BY <1>1, IInvHolds, PTL

\* A hit of memo_get that is no failure is the last outcome of its key: node,
\* consumed length and state.
NodeHitsTellOutcome ==
    \A k \in Keys, state \in States :
        memo_hit(memo, k[1], k[2], state)
            /\ memo_entry(memo, k[1], k[2]).result # FailedResult =>
                LET e == memo_entry(memo, k[1], k[2])
                IN  /\ e.result = outcome[k].result
                    /\ e.consumed = outcome[k].consumed
                    /\ state = outcome[k].state

\* memo_get with instructions of any number of states: what it returns as a node
\* is always right.
THEOREM NodeHitsAreExact == Spec => []NodeHitsTellOutcome
<1>1. IInv => NodeHitsTellOutcome
  BY DEF IInv, EntriesTell, Tells, NodeHitsTellOutcome,
         memo_hit, memo_entry, Slot, Hash
<1> QED
  BY <1>1, IInvHolds, PTL

\* memo_get with one state, which is what the compiler emits: failures are right
\* too, although memo_fail leaves the state of the evicted entry in place.
THEOREM HitsAreExact ==
    ASSUME \A s, t \in States : s = t
    PROVE  Spec => []HitTellsLastOutcome
<1>1. IInv => HitTellsLastOutcome
  BY DEF IInv, EntriesTell, Tells, HitTellsLastOutcome,
         memo_hit, memo_entry, Slot, Hash
<1> QED
  BY <1>1, IInvHolds, PTL
=============================================================================
