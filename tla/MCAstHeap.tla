----------------------------- MODULE MCAstHeap -----------------------------
(***************************************************************************)
(* The instance of the AST machine on the node store.                      *)
(***************************************************************************)
EXTENDS AstHeap

CONSTANT NoNode     \* no tree, in the mapping to AstTrees

OneTag == {[type |-> "Tag", i |-> "t"]}

\* No action treats one label differently from another.
LabelSymmetry == Permutations(Labels)

Children == UNION {ToSet(store.cells[p].kids) : p \in Live}

\* States that differ in the label of a node without a parent behave alike: Node_set
\* overwrites it when the node gets one, and the label is read with a child only.
View == <<[store EXCEPT !.cells = [n \in Nodes |->
              IF n \in Children THEN @[n] ELSE [@[n] EXCEPT !.label = Nil]]],
          log, lastLinked, memo, parsed, phase>>
-----------------------------------------------------------------------------
(***************************************************************************)
(* Refinement.                                                             *)
(***************************************************************************)
\* What is seen of the field of an entry or a node: all of it, or all but labels.
Shown(x, labelled) == IF labelled \/ x \notin Labels THEN x ELSE Nil

\* The tree that a node denotes.
RECURSIVE TreeOf(_, _)
TreeOf(n, labelled) ==
    LET c == store.cells[n]
    IN  [tag |-> c.tag, value |-> c.value,
         pos |-> Shown(c.pos, labelled), end |-> Shown(c.end, labelled),
         kids |-> [k \in DOMAIN c.kids |-> [label |-> Shown(store.cells[c.kids[k]].label, labelled),
                                            node  |-> TreeOf(c.kids[k], labelled)]]]

TreeOrNone(n, labelled) == IF n = Null THEN NoNode ELSE TreeOf(n, labelled)

Entry(x, labelled) ==
    [type |-> x.type,
     i |-> Shown(x.i, labelled),
     e |-> IF x.type = "Link" THEN TreeOf(x.e, labelled) ELSE Shown(x.e, labelled)]

Trees == INSTANCE AstTrees WITH
    log  <- [k \in DOMAIN log |-> Entry(log[k], TRUE)],
    memo <- [s \in Slots |-> TreeOrNone(memo[s], TRUE)],
    root <- TreeOrNone(parsed, TRUE)

Shapes == INSTANCE AstTrees WITH
    Labels <- {Nil},
    log    <- [k \in DOMAIN log |-> Entry(log[k], FALSE)],
    memo   <- [s \in Slots |-> TreeOrNone(memo[s], FALSE)],
    root   <- TreeOrNone(parsed, FALSE)

\* The step gives a new parent to a node under another label than the one that its
\* parents show, or to one that the log links under two labels.
Relabels ==
    \E p \in Live' \ Live : \E n \in ToSet(store'.cells[p].kids) :
        \/ n \in Children /\ store'.cells[n].label # store.cells[n].label
        \/ \E j, k \in DOMAIN log : /\ log[j].type = "Link" /\ log[j].e = n
                                    /\ log[k].type = "Link" /\ log[k].e = n
                                    /\ log[j].i # log[k].i

\* The shared nodes behave like trees that are values: building one in place,
\* evicting one or freeing its cell never changes another.  There is one exception:
\* a node has room for one label (node.c:81), so a node that is linked again under
\* another label shows this one to its earlier parents as well.  Such a step is
\* still a step of AstTrees when labels are left aside: it changes no tag, no
\* position, no value and no order of children.
ImplementsTrees == Trees!Init /\ [][Trees!Next \/ (Relabels /\ Shapes!Next)]_Trees!vars
=============================================================================
