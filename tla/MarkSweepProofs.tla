-------------------------- MODULE MarkSweepProofs --------------------------
(***************************************************************************)
(* What the program can reach is never handed out again (MarkSweep), for   *)
(* any set of blocks, finite or not.                                       *)
(*                                                                         *)
(* That the reachable nodes are marked is not inductive by itself: in the  *)
(* middle of a collection they are not.  What every step keeps is the      *)
(* invariant of marking, that the children of a marked node are marked     *)
(* unless the node is still grey.                                          *)
(***************************************************************************)
EXTENDS MarkSweep, TLAPS

\* The type invariant of the collector.
THEOREM TypeCorrect == Safety => []TypeOK
<1>1. Init => TypeOK
  BY DEF Init, TypeOK
<1>2. TypeOK /\ [Next]_vars => TypeOK'
  <2> SUFFICES ASSUME TypeOK, [Next]_vars PROVE TypeOK'
    OBVIOUS
  <2> USE DEF TypeOK
  <2>1. CASE Drop
    BY <2>1 DEF Drop
  <2>2. CASE Start
    BY <2>2 DEF Start
  <2>3. CASE Finish
    BY <2>3 DEF Finish
  <2>4. CASE Reset
    BY <2>4 DEF Reset
  <2>5. ASSUME NEW n \in Node, Alloc(n) PROVE TypeOK'
    BY <2>5 DEF Alloc
  <2>6. ASSUME NEW n \in Node, Mark(n) PROVE TypeOK'
    BY <2>6 DEF Mark
  <2>7. CASE UNCHANGED vars
    BY <2>7 DEF vars
  <2> QED
    BY <2>1, <2>2, <2>3, <2>4, <2>5, <2>6, <2>7 DEF Next
<1> QED
  BY <1>1, <1>2, PTL DEF Safety

\* No node is grey while the program runs, the roots are marked, and a node
\* that is marked and visited has marked children.
IInv ==
    /\ TypeOK
    /\ mode = "run" => grey = {}
    /\ roots \subseteq marked
    /\ grey \subseteq marked
    /\ \A n \in marked \ grey : kids[n] \subseteq marked

LEMMA IInvHolds == Safety => []IInv
<1>1. Init => IInv
  BY DEF Init, IInv, TypeOK
<1>2. TypeOK' /\ IInv /\ [Next]_vars => IInv'
  <2> SUFFICES ASSUME TypeOK', IInv, [Next]_vars PROVE IInv'
    OBVIOUS
  <2> USE DEF IInv, TypeOK
  <2>1. CASE Drop
    BY <2>1 DEF Drop
  <2>2. CASE Start
    BY <2>2 DEF Start
  <2>3. CASE Finish
    BY <2>3 DEF Finish
  <2>4. CASE Reset
    BY <2>4 DEF Reset
  <2>5. ASSUME NEW n \in Node, Alloc(n) PROVE IInv'
    \* The children of the new node are roots, and roots are marked.
    BY <2>5 DEF Alloc
  <2>6. ASSUME NEW n \in Node, Mark(n) PROVE IInv'
    BY <2>6 DEF Mark
  <2>7. CASE UNCHANGED vars
    BY <2>7 DEF vars
  <2> QED
    BY <2>1, <2>2, <2>3, <2>4, <2>5, <2>6, <2>7 DEF Next
<1> QED
  BY <1>1, <1>2, TypeCorrect, PTL DEF Safety

\* While the program runs, the bit of every node that it can reach is set, so
\* that no allocation takes the node: the marked nodes are a closed set around
\* the roots.
THEOREM ReachableIsMarked == Safety => []ReachableMarked
<1>1. IInv => ReachableMarked
  <2> SUFFICES ASSUME IInv, mode = "run", NEW n \in Node, Reachable(n)
               PROVE  n \in marked
    BY DEF ReachableMarked
  <2>1. marked \in SUBSET Node /\ roots \subseteq marked /\ Closed(marked)
    BY DEF IInv, TypeOK, Closed
  <2> QED
    BY <2>1 DEF Reachable
<1> QED
  BY <1>1, IInvHolds, PTL

\* No block that the program can reach is handed out again: what it points to
\* stays what it was.
THEOREM ReachableIsKept == Safety => ReachableKept
<1>1. IInv /\ [Next]_vars => [\A n \in Node : Reachable(n) => kids'[n] = kids[n]]_kids
  <2> SUFFICES ASSUME IInv, [Next]_vars, NEW n \in Node, Reachable(n)
               PROVE  kids'[n] = kids[n]
    OBVIOUS
  <2>1. n \in marked \/ mode = "mark"
    <3>1. mode = "run" => marked \in SUBSET Node /\ roots \subseteq marked /\ Closed(marked)
      BY DEF IInv, TypeOK, Closed
    <3> QED
      BY <3>1 DEF Reachable, IInv, TypeOK
  <2>2. ASSUME NEW m \in Node, Alloc(m) PROVE kids'[n] = kids[n]
    BY <2>1, <2>2 DEF Alloc, IInv, TypeOK
  <2>3. CASE Reset
    \* Nothing is reachable without roots.
    <3>1. roots \subseteq {} /\ Closed({})
      BY <2>3 DEF Reset, Closed
    <3> QED
      BY <3>1 DEF Reachable
  <2> QED
    BY <2>2, <2>3 DEF Next, Drop, Start, Finish, Mark, vars
<1> QED
  BY <1>1, IInvHolds, PTL DEF Safety, ReachableKept
=============================================================================
