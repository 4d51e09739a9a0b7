------------------------------ MODULE MemoTable ------------------------------
(***************************************************************************)
(* The memo table and its client, the memo instructions of the VM, with    *)
(* the references that the table holds on nodes (libnez/memo.c).           *)
(*                                                                         *)
(* One step is one call of memo_set or memo_fail, or memo_dispose followed *)
(* by memo_init; memo_get changes nothing, the properties speak of it.     *)
(* The calls come in any order, with any of the states in States: several  *)
(* Memo and MemoFail instructions have each their own state operand.       *)
(***************************************************************************)
EXTENDS Integers, FiniteSets, Memo

CONSTANTS
    Positions,      \* the positions of the input
    Nodes,          \* the nodes that may be memoized
    Consumed,       \* how much a memoized expression may consume
    States          \* the state operands of the memo instructions

\* Positions are offsets into the input; a node is neither NULL nor the mark of
\* a failure.
ASSUME MemoTableAssumption ==
    /\ Positions \subseteq Nat
    /\ NoNode \notin Nodes /\ FailedResult \notin Nodes

VARIABLES
    memo,           \* the table
    refs,           \* the references the table holds on each node
    outcome         \* history: the outcome recorded last at every key

vars == <<memo, refs, outcome>>

MemoIds == 0..MemoPoints-1
Keys    == Positions \X MemoIds

None == [result |-> NoNode, consumed |-> 0, state |-> -1]

\* NODE_GC_RETAIN and NODE_GC_RELEASE.  A release asserts a positive count.
Retain_Forgotten(r, n) == r      \* mutant: no reference is counted

Retain(r, n) == IF n \in Nodes THEN [r EXCEPT ![n] = @ + 1] ELSE r

Release_Forgotten(r, n) == r     \* mutant: the evicted entry is not released

Release(r, n) == IF n \in Nodes THEN [r EXCEPT ![n] = @ - 1] ELSE r

Init ==
    /\ memo = memo_elastic_init
    /\ refs = [n \in Nodes |-> 0]
    /\ outcome = [k \in Keys |-> None]

\* Memo and TMemo.  The new node is retained before the old one is released:
\* they may be the same.
Set(pos, id, node, consumed, state) ==
    /\ memo' = memo_set(memo, pos, id, node, consumed, state)
    /\ refs' = Release(Retain(refs, node), memo_entry(memo, pos, id).result)
    /\ outcome' = [outcome EXCEPT ![<<pos, id>>] =
                      [result |-> node, consumed |-> consumed, state |-> state]]

\* MemoFail, whose state operand is not used.
SetFailed(pos, id, state) ==
    /\ memo' = memo_fail(memo, pos, id)
    /\ refs' = Release(refs, memo_entry(memo, pos, id).result)
    /\ outcome' = [outcome EXCEPT ![<<pos, id>>] =
                      [result |-> FailedResult, consumed |-> 0, state |-> state]]

Holding(n) == {i \in DOMAIN memo : memo[i].result = n}

\* moz_runtime_reset1 disposes of the table, releasing every entry, and makes a
\* new one.
Reset ==
    /\ refs' = [n \in Nodes |-> refs[n] - Cardinality(Holding(n))]
    /\ memo' = memo_elastic_init
    /\ outcome' = [k \in Keys |-> None]

Next ==
    \/ \E k \in Keys, state \in States :
          \/ \E node \in Nodes \union {NoNode}, consumed \in Consumed :
                Set(k[1], k[2], node, consumed, state)
          \/ SetFailed(k[1], k[2], state)
    \/ Reset

Spec == Init /\ [][Next]_vars

-----------------------------------------------------------------------------
\* The table has a slot for every index; a slot holds a node, NoNode or the
\* mark of a failure.
TypeOK ==
    /\ DOMAIN memo = 0..memo_len-1
    /\ \A i \in DOMAIN memo : memo[i].result \in Nodes \union {NoNode, FailedResult}
    /\ refs \in [Nodes -> Nat]

\* The table holds exactly one reference per slot on the nodes in it: an evicted
\* or overwritten entry is released once and never while it is still held.
RefsExact == \A n \in Nodes : refs[n] = Cardinality(Holding(n))

\* A hit of memo_get tells the outcome recorded last at that position, by that
\* memo point, under that state: neither another key of the same slot nor an
\* outcome of the same key under another state.
HitTellsLastOutcome ==
    \A k \in Keys, state \in States :
        memo_hit(memo, k[1], k[2], state) =>
            LET e == memo_entry(memo, k[1], k[2])
            IN  /\ e.result = outcome[k].result
                /\ outcome[k].state = state
                /\ e.result # FailedResult => e.consumed = outcome[k].consumed
=============================================================================
