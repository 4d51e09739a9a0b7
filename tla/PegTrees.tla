------------------------------ MODULE PegTrees ------------------------------
(***************************************************************************)
(* The expressions that the grammar compiler works on (expression.h), as   *)
(* trees, and what they mean: a functional reference, for TLC.             *)
(*                                                                         *)
(* A grammar is a function from names to trees.  The operations that build *)
(* a node are not structured here, as they are not in the compiler: what a *)
(* match does is the list of those that it executes, each with its         *)
(* position.                                                               *)
(***************************************************************************)
EXTENDS Integers, Sequences

Tree(type, c, kids) == [type |-> type, c |-> c, kids |-> kids]

Leaf(type)  == Tree(type, 0, <<>>)

\* A function on 1..n as a tuple, whose elements TLC evaluates once.
Each(seq) == <<>> \o seq

Match(i, did) == [ok |-> TRUE, i |-> i, did |-> did]
NoMatch       == [ok |-> FALSE, i |-> 0, did |-> <<>>]

Terminals == {"Any", "Byte", "Str", "Set"}

\* The length of what a terminal matches at position i of the input w, -1 if
\* it does not match.
Matched(w, e, i) ==
    CASE e.type = "Any"  -> IF i < Len(w) THEN 1 ELSE -1
      [] e.type = "Byte" -> IF i < Len(w) /\ w[i + 1] = e.c THEN 1 ELSE -1
      [] e.type = "Set"  -> IF i < Len(w) /\ w[i + 1] \in e.c THEN 1 ELSE -1
      [] e.type = "Str"  -> IF i + Len(e.c) <= Len(w) /\ SubSeq(w, i + 1, i + Len(e.c)) = e.c
                            THEN Len(e.c) ELSE -1

\* The meaning of e in the grammar G, at position i of w.
RECURSIVE Parse(_, _, _, _)
Parse(G, w, e, i) ==
    LET rest == [e EXCEPT !.kids = Tail(@)]
    IN
    CASE e.type \in Terminals ->
            LET n == Matched(w, e, i) IN IF n = -1 THEN NoMatch ELSE Match(i + n, <<>>)
      [] e.type = "Empty"  -> Match(i, <<>>)
      [] e.type = "Fail"   -> NoMatch
      [] e.type = "Invoke" -> Parse(G, w, G[e.c], i)
      [] e.type = "And"    -> IF Parse(G, w, e.kids[1], i).ok THEN Match(i, <<>>) ELSE NoMatch
      [] e.type = "Not"    -> IF Parse(G, w, e.kids[1], i).ok THEN NoMatch ELSE Match(i, <<>>)
      [] e.type = "Option" -> LET r == Parse(G, w, e.kids[1], i) IN IF r.ok THEN r ELSE Match(i, <<>>)
      [] e.type = "Choice" ->
            IF e.kids = <<>> THEN NoMatch
            ELSE LET r == Parse(G, w, e.kids[1], i) IN IF r.ok THEN r ELSE Parse(G, w, rest, i)
      [] e.type = "Sequence" ->
            IF e.kids = <<>> THEN Match(i, <<>>)
            ELSE LET r == Parse(G, w, e.kids[1], i)
                     s == Parse(G, w, rest, r.i)
                 IN  IF r.ok /\ s.ok THEN Match(s.i, r.did \o s.did) ELSE NoMatch
      [] e.type = "Repetition" ->
            LET r == Parse(G, w, [e EXCEPT !.type = "Sequence"], i)
                s == Parse(G, w, e, r.i)
            IN  IF r.ok /\ r.i # i THEN Match(s.i, r.did \o s.did) ELSE Match(i, <<>>)
      [] e.type \in {"Tnew", "Tcapture", "Tpush"} -> Match(i, <<<<e.type, i>>>>)
      [] e.type \in {"Ttag", "Tpop"} -> Match(i, <<<<e.type, e.c, i>>>>)
=============================================================================
