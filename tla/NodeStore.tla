----------------------------- MODULE NodeStore -----------------------------
(***************************************************************************)
(* The node store (node/node.c, node/node.h, core/reference_count.h) of    *)
(* the default build: nodes in pages of a memory pool, a free list,        *)
(* reference counts.                                                       *)
(*                                                                         *)
(* A store is a value; the machines that use it own the variable.  A node  *)
(* is an index of its cells.  The link of the free list, which the code    *)
(* keeps in the tag of a free cell, is the sequence free.  ok turns false  *)
(* when an assertion of the code fails.  The length of a node is modelled  *)
(* by the position where it ends.                                          *)
(***************************************************************************)
EXTENDS Integers, SequencesExt

CONSTANTS
    PageSize,       \* PAGE_OBJECT_SIZE, the number of nodes of a page
    Nil             \* no tag, no value, no label

ASSUME PageAssumption == PageSize \in Nat \ {0}

Null == 0

\* A cell as calloc leaves it.
Blank == [rc |-> 0, tag |-> Nil, pos |-> 0, end |-> 0, value |-> Nil, label |-> Nil, kids |-> <<>>]

Empty == [cells |-> <<>>, free |-> <<>>, count |-> 0, ok |-> TRUE]

-----------------------------------------------------------------------------
(***************************************************************************)
(* Cells.                                                                  *)
(***************************************************************************)
alloc_page(st) ==
    [cells |-> st.cells \o [i \in 1..PageSize |-> Blank],
     free  |-> [i \in 1..PageSize |-> Len(st.cells) + i] \o st.free,
     count |-> st.count + PageSize,
     ok    |-> st.ok /\ st.count = 0]

NodeManager_init == alloc_page(Empty)

\* What NodeManager_dispose and NodeManager_init leave of any store.
NodeManager_reset(st) == [NodeManager_init EXCEPT !.ok = st.ok]

Refill(st) == IF st.free = <<>> THEN alloc_page(st) ELSE st

\* The node that node_alloc returns.
node_alloc(st) == Head(Refill(st).free)

\* The label of a reused cell stays what it was.
Node_new(st, tag, pos, end, size, value) ==
    LET page == Refill(st)
        o    == node_alloc(st)
    IN  [page EXCEPT !.free = Tail(@), !.count = @ - 1,
             !.cells[o] = [rc |-> 0, tag |-> tag, pos |-> pos, end |-> end, value |-> value,
                           label |-> page.cells[o].label, kids |-> [i \in 1..size |-> Null]]]

\* The label stays for the next node of the cell.  Nothing reads the other fields
\* of a free cell; the model clears them.
node_free(st, n) ==
    [st EXCEPT !.ok = @ /\ st.cells[n].rc = 0,
               !.cells[n] = [Blank EXCEPT !.rc = -1, !.label = st.cells[n].label],
               !.free = <<n>> \o @, !.count = @ + 1]

-----------------------------------------------------------------------------
(***************************************************************************)
(* Reference counts.                                                       *)
(***************************************************************************)
Retain(st, n) == [st EXCEPT !.cells[n].rc = @ + 1]

RetainIf(st, n) == IF n = Null THEN st ELSE Retain(st, n)

\* Releasing a node calls Node_sweep if that was the last reference.  calls are
\* the activations of Node_sweep, the innermost last: the node and the child that
\* is released next.
Drop(w, n) ==
    LET st == [w.st EXCEPT !.ok = @ /\ w.st.cells[n].rc > 0, !.cells[n].rc = @ - 1]
    IN  [st    |-> st,
         calls |-> IF st.cells[n].rc = 0 THEN Append(w.calls, [node |-> n, next |-> 1]) ELSE w.calls]

\* Mutant: the children keep the reference of the dead node.
Node_sweep_ForgetsChildren(w) ==
    IF w.calls = <<>> THEN w ELSE [st |-> node_free(w.st, Last(w.calls).node), calls |-> Front(w.calls)]

\* One turn of the innermost Node_sweep: it releases a child, which may call it
\* again, or frees the node after the last one.
Node_sweep(w) ==
    LET d    == Len(w.calls)
        o    == w.calls[d].node
        i    == w.calls[d].next
        kids == w.st.cells[o].kids
        next == [w EXCEPT !.calls[d].next = i + 1]
    IN  IF w.calls = <<>> THEN w
        ELSE IF i > Len(kids) THEN [st |-> node_free(w.st, o), calls |-> Front(w.calls)]
        ELSE IF kids[i] = Null THEN next
        ELSE Drop(next, kids[i])

\* As many turns as can happen: one for every child and one for every node.
Turns(st) == Cardinality(UNION {{n} \X (0..Len(st.cells[n].kids)) : n \in DOMAIN st.cells})

\* Mutant: the node is not swept.
Release_NoSweep(st, n) == [st EXCEPT !.ok = @ /\ st.cells[n].rc > 0, !.cells[n].rc = @ - 1]

\* MOZ_RC_RELEASE, with all that dies with the node.
Release(st, n) ==
    LET turns == Turns(st)
        sweep[k \in 0..turns] ==
            IF k = 0 THEN Drop([st |-> st, calls |-> <<>>], n) ELSE Node_sweep(sweep[k - 1])
    IN  sweep[turns].st

ReleaseIf(st, n) == IF n = Null THEN st ELSE Release(st, n)

\* The nodes of a sequence, one after the other.
ReleaseAll(st, nodes) ==
    LET done[k \in 0..Len(nodes)] == IF k = 0 THEN st ELSE ReleaseIf(done[k - 1], nodes[k])
    IN  done[Len(nodes)]

-----------------------------------------------------------------------------
(***************************************************************************)
(* Children.                                                               *)
(***************************************************************************)
Node_length(st, o) == Len(st.cells[o].kids)

Node_get(st, o, index) == IF index <= Node_length(st, o) THEN st.cells[o].kids[index] ELSE Null

\* Node_set fills up the slots below index with NULL, by Node_append.
Put(kids, index, n) ==
    [k \in 1..(IF index > Len(kids) THEN index ELSE Len(kids)) |->
        IF k = index THEN n ELSE IF k <= Len(kids) THEN kids[k] ELSE Null]

\* Mutant: a node that has a label, from another parent or from the node that had
\* the cell before, keeps it.
Node_set_KeepsLabel(st, o, index, label, n) ==
    LET s == ReleaseIf(Retain(st, n), Node_get(st, o, index))
    IN  [s EXCEPT !.ok = @ /\ o # n,
                  !.cells[o].kids = Put(@, index, n),
                  !.cells[n].label = IF @ = Nil THEN label ELSE @]

\* The label is stored in the child, which other nodes may share.
Node_set(st, o, index, label, n) ==
    LET s == ReleaseIf(Retain(st, n), Node_get(st, o, index))
    IN  [s EXCEPT !.ok = @ /\ o # n,
                  !.cells[o].kids = Put(@, index, n),
                  !.cells[n].label = label]
=============================================================================
