----------------------------- MODULE MCAstSweep -----------------------------
(***************************************************************************)
(* The instance of the AST machine on the collector.                       *)
(***************************************************************************)
EXTENDS AstSweep

CONSTANT NoNode     \* no tree, in the mapping to AstTrees

Held == Reach(InUse \cup ({parsed} \ {Null}) \cup LinkNodes(before))

\* Two states that differ in what dead blocks contain behave alike: the program
\* reads no more of a dead block than whether it has an array to free, and then
\* both sides of ArraysExact change by the same number.  After a parse nothing
\* is allocated in the heap before it is given back.
View == <<IF phase \in {"parsed", "reset"} THEN heap.ok ELSE heap,
          [o \in Nodes |-> IF o \in Held THEN cells[o] ELSE Blank], arrays - Cardinality(WithArray),
          gc, roots, log, memo, parsed, phase, build, before>>

-----------------------------------------------------------------------------
(***************************************************************************)
(* Refinement of AstTrees.                                                 *)
(***************************************************************************)
RECURSIVE TreeOf(_)
TreeOf(n) ==
    LET c == cells[n]
    IN  [tag |-> c.tag, pos |-> c.pos, end |-> c.end, value |-> c.value,
         kids |-> [k \in DOMAIN c.kids |-> [label |-> cells[c.kids[k]].label, node |-> TreeOf(c.kids[k])]]]

TreeOrNone(n) == IF n = Null THEN NoNode ELSE TreeOf(n)

Entry(x) == [type |-> x.type, i |-> x.i, e |-> IF x.type = "Link" THEN TreeOf(x.e) ELSE x.e]

TheLog == IF build = Idle THEN log ELSE before

Trees == INSTANCE AstTrees WITH
    log   <- [k \in DOMAIN TheLog |-> Entry(TheLog[k])],
    memo  <- [s \in Slots |-> TreeOrNone(memo[s])],
    root  <- TreeOrNone(parsed),
    phase <- IF phase = "bare" THEN "parse" ELSE phase

\* A collection in the middle of a commit, a block that is used again and a stale
\* mark never change a tree that the log, the memo table or the client holds.  The
\* run has one label; what Node_set does to a second one is a matter of MCAstHeap.
ImplementsTrees == Trees!Spec
=============================================================================
