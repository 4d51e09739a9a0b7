----------------------------- MODULE MarkSweep -----------------------------
(***************************************************************************)
(* What the mark and sweep collector promises: a node that can be reached  *)
(* from the roots is never handed out again, whatever the program does     *)
(* between the collections and however a collection orders its marking.    *)
(*                                                                         *)
(* Segments, bitmaps and the stack of the collector are sets here.         *)
(* AstSweep implements this with those of node/gc.c.                       *)
(***************************************************************************)
EXTENDS Integers, FiniteSets

CONSTANT Node       \* the blocks that can hold a node

VARIABLES
    roots,      \* the nodes that the root functions visit
    kids,       \* the children of every block, the stale ones of a dead node too
    marked,     \* the blocks whose bit is set
    grey,       \* the marked nodes whose children are not visited yet
    mode        \* "run", or "mark" during a collection

vars == <<roots, kids, marked, grey, mode>>

TypeOK ==
    /\ roots \subseteq Node /\ marked \subseteq Node /\ grey \subseteq Node
    /\ kids \in [Node -> SUBSET Node]
    /\ mode \in {"run", "mark"}

Init ==
    /\ roots = {} /\ marked = {} /\ grey = {}
    /\ kids = [n \in Node |-> {}]
    /\ mode = "run"

\* The program lets go of some nodes.
Drop == mode = "run" /\ roots' \in SUBSET roots /\ UNCHANGED <<kids, marked, grey, mode>>

\* A block whose bit is clear becomes a node, with children that the program
\* holds; then the program may let go of some nodes.
Alloc(n) ==
    /\ mode = "run" /\ n \notin marked
    /\ \E K \in SUBSET roots : kids' = [kids EXCEPT ![n] = K]
    /\ marked' = marked \cup {n}
    /\ roots' \in SUBSET (roots \cup {n})
    /\ UNCHANGED <<grey, mode>>

\* A collection clears the bits and marks the roots, ...
Start ==
    /\ mode = "run" /\ mode' = "mark"
    /\ marked' = roots /\ grey' = roots
    /\ UNCHANGED <<roots, kids>>

\* ... visits the children of one marked node after the other, ...
Mark(n) ==
    /\ n \in grey
    /\ marked' = marked \cup kids[n]
    /\ grey' = (grey \ {n}) \cup (kids[n] \ marked)
    /\ UNCHANGED <<roots, kids, mode>>

\* ... and ends when there is none left.
Finish == mode = "mark" /\ grey = {} /\ mode' = "run" /\ UNCHANGED <<roots, kids, marked, grey>>

\* All memory is given back and the manager starts anew.
Reset ==
    /\ mode = "run" /\ roots = {}
    /\ marked' = {} /\ kids' = [n \in Node |-> {}]
    /\ UNCHANGED <<roots, grey, mode>>

Next ==
    \/ Drop \/ Start \/ Finish \/ Reset
    \/ \E n \in Node : Alloc(n) \/ Mark(n)

\* A collection runs to its end before the program goes on.
Collect == Finish \/ \E n \in Node : Mark(n)

Safety == Init /\ [][Next]_vars

Spec == Safety /\ WF_vars(Collect)

-----------------------------------------------------------------------------
Closed(S) == \A n \in S : kids[n] \subseteq S

\* A node is reachable if it is in every closed set around the roots.
Reachable(n) == \A S \in SUBSET Node : roots \subseteq S /\ Closed(S) => n \in S

\* While the program runs, the bit of every node that it can reach is set, so
\* that no allocation takes it (tryAlloc, gc.c:951).
ReachableMarked == mode = "run" => \A n \in Node : Reachable(n) => n \in marked

\* The children of a node that the program can reach stay what they were: its
\* block is not handed out again (bm_malloc_internal, gc.c:1196).
ReachableKept == [][\A n \in Node : Reachable(n) => kids'[n] = kids[n]]_kids
=============================================================================
