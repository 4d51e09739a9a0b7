---------------------------- MODULE PegOptimizer ----------------------------
(***************************************************************************)
(* The front end of the grammar compiler (compiler/expression.c): it makes *)
(* expressions from the syntax tree of a grammar and optimises them until  *)
(* nothing changes.                                                        *)
(*                                                                         *)
(* Expressions are cells with a reference count.  x+ refers twice to x and *)
(* inlining a rule makes a second reference to its body, so that the       *)
(* expressions of a grammar are a graph, which the optimiser changes in    *)
(* place.  One step of the model optimises one rule.                       *)
(*                                                                         *)
(* A node of the syntax tree is a record: its tag, its text (a sequence of *)
(* characters, for a class the ranges of characters) and its kids.  A      *)
(* grammar is a sequence of rules with a name and a body.                  *)
(***************************************************************************)
EXTENDS PegTrees
LOCAL INSTANCE SequencesExt
LOCAL INSTANCE FiniteSetsExt

CONSTANTS
    Grammars,       \* the grammars to compile
    Bytes           \* the characters of the inputs, without NUL

VARIABLES
    grammar,
    st,             \* the memory: heap (cells), decl (rules), modified, ok
    decls,          \* C->decls, the rules that are left, as indexes of st.decl
    k,              \* the rules that this pass has done
    phase           \* "mark", "optimize", "done"

vars == <<grammar, st, decls, k, phase>>

-----------------------------------------------------------------------------
(***************************************************************************)
(* Cells and their counts.  A cell of type Freed has been swept; its       *)
(* memory is cleared and freed, and what is read from it is no type of an  *)
(* expression.                                                             *)
(***************************************************************************)
Cell(type, c, kids, decl) == [type |-> type, rc |-> 0, c |-> c, kids |-> kids, decl |-> decl]

Freed == Cell("Freed", 0, <<>>, 0)

Alloc(s, cell) == [s EXCEPT !.heap = Append(@, cell)]

Newest(s) == Len(s.heap)

Retain(s, x) == [s EXCEPT !.heap[x].rc = @ + 1]

RetainDecl(s, d) == IF d = 0 THEN s ELSE [s EXCEPT !.decl[d].rc = @ + 1]

RECURSIVE Release(_, _), ReleaseDecl(_, _), moz_expr_sweep(_, _)

Release(s, x) ==
    LET t == [s EXCEPT !.heap[x].rc = @ - 1, !.ok = @ /\ s.heap[x].rc > 0]
    IN  IF t.heap[x].rc = 0 THEN moz_expr_sweep(t, x) ELSE t

\* The sweep of an Invoke without a rule is a crash.
ReleaseDecl(s, d) ==
    IF d = 0 THEN [s EXCEPT !.ok = FALSE]
    ELSE LET t == [s EXCEPT !.decl[d].rc = @ - 1, !.ok = @ /\ s.decl[d].rc > 0]
         IN  IF t.decl[d].rc # 0 THEN t
             ELSE [Release(t, t.decl[d].body) EXCEPT !.decl[d].body = 0]

\* Mutant: the expressions of a list are not released.
moz_expr_sweep_Shallow(s, x) == [s EXCEPT !.heap[x] = Freed]

moz_expr_sweep(s, x) ==
    LET cell == s.heap[x]
        t    == IF cell.type = "Invoke" THEN ReleaseDecl(s, cell.decl) ELSE FoldLeft(Release, s, cell.kids)
    IN  [t EXCEPT !.heap[x] = Freed]

\* A reference: the body of a rule, or kid n of a cell.
Body(d)   == [decl |-> d, cell |-> 0, n |-> 0]
Kid(x, n) == [decl |-> 0, cell |-> x, n |-> n]

Deref(s, ref) == IF ref.decl # 0 THEN s.decl[ref.decl].body ELSE s.heap[ref.cell].kids[ref.n]

Type(s, x) == s.heap[x].type

Modified(s) == [s EXCEPT !.modified = TRUE]

Refer(s, ref, x) ==
    IF ref.decl # 0 THEN [s EXCEPT !.decl[ref.decl].body = x] ELSE [s EXCEPT !.heap[ref.cell].kids[ref.n] = x]

\* MOZ_RC_ASSIGN
Assign(s, ref, x) == Modified(Refer(Release(Retain(s, x), Deref(s, ref)), ref, x))

-----------------------------------------------------------------------------
(***************************************************************************)
(* From syntax trees to expressions.                                       *)
(***************************************************************************)
Backslash == 92

\* What follows a backslash, and what it stands for.
Escapes == [b |-> <<98, 8>>, f |-> <<102, 12>>, v |-> <<118, 11>>, n |-> <<110, 10>>,
            r |-> <<114, 13>>, t |-> <<116, 9>>, backslash |-> <<92, 92>>]

Simple == {Escapes[e] : e \in DOMAIN Escapes}

\* As a byte: what is no digit is -1.
to_hex(c) ==
    CASE c \in 48..57  -> c - 48
      [] c \in 97..102 -> c - 87
      [] c \in 65..70  -> c - 55
      [] OTHER         -> 255

HexEscape == 120

\* parseEscapedChar: the byte that the text begins with as an escape, or -1.
parseEscapedChar(text) ==
    IF Len(text) < 2 \/ text[1] # Backslash THEN -1
    ELSE IF \E e \in Simple : e[1] = text[2] THEN (CHOOSE e \in Simple : e[1] = text[2])[2]
    ELSE IF text[2] = HexEscape /\ Len(text) >= 4
         THEN (to_hex(text[3]) * 256 + to_hex(text[4])) % 256
    ELSE -1

\* The first rule with a name, 0 if there is none.
Lookup(g, text) ==
    LET found == {d \in DOMAIN g : g[d].name = text}
    IN  IF found = {} THEN 0 ELSE Min(found)

RangesOf(text) == UNION {IF r[1] <= r[2] THEN r[1]..r[2] ELSE r[2]..r[1] : r \in ToSet(text)}

IsSingle(text) == Len(text) = 1 /\ text[1][1] = text[1][2]

\* The cell of a node without kids.
Atom(g, node) ==
    LET text  == node.text
        str   == Cell("Str", text, <<>>, 0)
        byte  == parseEscapedChar(text)
        rule  == Lookup(g, text)
    IN
    CASE node.tag = "NonTerminal" -> Cell("Invoke", text, <<>>, rule)
      [] node.tag = "String" -> IF rule # 0 THEN Cell("Invoke", text, <<>>, rule) ELSE str
      [] node.tag = "Character" ->
            IF text = <<>> THEN Cell("Empty", 0, <<>>, 0)
            ELSE IF byte # -1 THEN Cell("Byte", byte, <<>>, 0)
            ELSE IF Len(text) = 1 THEN Cell("Byte", text[1], <<>>, 0) ELSE str
      [] node.tag = "Class" -> IF IsSingle(text) THEN Cell("Byte", text[1][1], <<>>, 0)
                               ELSE Cell("Set", RangesOf(text), <<>>, 0)
      [] node.tag = "Tagging" -> Cell("Ttag", text, <<>>, 0)
      [] OTHER -> Cell(node.tag, 0, <<>>, 0)      \* Any, Empty

\* A new cell with the given kids, which it retains.
WithKids(s, type, kids) == Alloc(FoldLeft(Retain, s, kids), Cell(type, 0, kids, 0))

\* The memory with the expression of a node; it is the newest cell.
RECURSIVE compile_expression(_, _, _)

\* The expressions of several nodes, and where they are.
compile_List(s, g, nodes) ==
    FoldLeft(LAMBDA acc, node : LET t == compile_expression(acc.s, g, node)
                                IN  [s |-> t, kids |-> Append(acc.kids, Newest(t))],
             [s |-> s, kids |-> <<>>], nodes)

\* An expression between two operations, in a sequence.
Bracket(s, g, before, node, after) ==
    LET t == Alloc(s, before)
        u == compile_expression(t, g, node)
        v == Alloc(u, after)
    IN  WithKids(v, "Sequence", <<Newest(t), Newest(u), Newest(v)>>)

compile_expression(s, g, node) ==
    LET l == compile_List(s, g, node.kids)
    IN
    CASE node.tag \in {"And", "Not", "Option", "Choice", "Sequence", "Repetition"} ->
            WithKids(l.s, node.tag, l.kids)
      [] node.tag = "Repetition1" ->
            LET rep == WithKids(l.s, "Repetition", l.kids)
            IN  WithKids(rep, "Sequence", l.kids \o <<Newest(rep)>>)
      [] node.tag = "Link" ->
            Bracket(s, g, Cell("Tpush", 0, <<>>, 0), Last(node.kids), Cell("Tpop", node.text, <<>>, 0))
      [] node.tag = "New" ->
            Bracket(s, g, Cell("Tnew", 0, <<>>, 0), node.kids[1], Cell("Tcapture", 0, <<>>, 0))
      [] OTHER ->
            LET cell == Atom(g, node) IN Alloc(RetainDecl(s, cell.decl), cell)
            
\* moz_ast_prepare and the first part of moz_node_to_ast.
moz_node_to_ast(g) ==
    FoldLeftDomain(LAMBDA s, d : LET t == compile_expression(s, g, g[d].body)
                                 IN  Retain([t EXCEPT !.decl[d].body = Newest(t)], Newest(t)),
                   [heap |-> <<>>, modified |-> FALSE, ok |-> TRUE,
                    decl |-> [d \in DOMAIN g |-> [rc |-> IF d = 1 THEN 1 ELSE 0, body |-> 0]]],
                   g)

-----------------------------------------------------------------------------
(***************************************************************************)
(* The optimiser.                                                          *)
(***************************************************************************)
\* One Invoke, and the mark of the pass.
moz_decl_use_once(s, d) == s.decl[d].rc = 2

RECURSIVE isPatternMatchOnly(_, _)
isPatternMatchOnly(s, x) ==
    \/ Type(s, x) \in {"Empty", "Any", "Byte", "Str", "Set", "Fail"}
    \/ /\ Type(s, x) \in {"And", "Not", "Option", "Choice", "Sequence", "Repetition"}
       /\ \A y \in ToSet(s.heap[x].kids) : isPatternMatchOnly(s, y)

\* Mutant: modified, also where nothing is inlined.
moz_Invoke_optimize_Modifies(s, ref) ==
    LET d == s.heap[Deref(s, ref)].decl
    IN  IF d # 0 /\ moz_decl_use_once(s, d) THEN Assign(s, ref, s.decl[d].body) ELSE Modified(s)

\* The second test of moz_Invoke_optimize, for rules of one expression, is
\* true for none that the first one leaves.
moz_Invoke_optimize(s, ref) ==
    LET d == s.heap[Deref(s, ref)].decl
    IN  IF d # 0 /\ (moz_decl_use_once(s, d) \/ isPatternMatchOnly(s, s.decl[d].body))
        THEN Assign(s, ref, s.decl[d].body) ELSE s

RECURSIVE moz_expr_optimize(_, _)

OptimizeKids(s, x) ==
    FoldLeftDomain(LAMBDA t, n : moz_expr_optimize(t, Kid(x, n)), s, s.heap[x].kids)

\* The list of x after it was replaced by its only element: ARRAY_dispose.
Dispose(s, x) == [s EXCEPT !.heap[x].kids = <<>>]

\* Replace x by its only element.
Collapse(s, ref, x) == Dispose(Assign(s, ref, s.heap[x].kids[1]), x)

ByteSet(cell) == IF cell.type = "Byte" THEN {cell.c} ELSE cell.c

isByteOrSet(s, x) == Type(s, x) \in {"Byte", "Set"}

\* A choice of bytes and sets is a set; a Not of one among them fails the
\* assertion "not tested".
moz_Choice_optimize(s, ref, x) ==
    LET t     == OptimizeKids(s, x)
        kids  == t.heap[x].kids
        nots  == {y \in ToSet(kids) : Type(t, y) = "Not" /\ isByteOrSet(t, t.heap[y].kids[1])}
        bytes == Alloc(t, Cell("Set", UNION {ByteSet(t.heap[y]) : y \in ToSet(kids)}, <<>>, 0))
    IN  IF Len(kids) = 1 THEN Collapse(t, ref, x)
        ELSE IF \E y \in ToSet(kids) \ nots : ~ isByteOrSet(t, y) THEN t
        ELSE IF nots # {} THEN [t EXCEPT !.ok = FALSE]
        ELSE Assign(bytes, ref, Newest(bytes))

\* The element n of the list of x is removed, without its reference.
RemoveElement(s, x, n) == [s EXCEPT !.heap[x].kids = RemoveAt(@, n)]

\* Elements n and n + 1 of the list of x are replaced by a new cell.
Merge(s, x, n, cell) ==
    LET kids == s.heap[x].kids
        t    == RemoveElement(Refer(Retain(Alloc(s, cell), Newest(s) + 1), Kid(x, n), Newest(s) + 1), x, n + 1)
    IN  Modified(Release(Release(t, kids[n]), kids[n + 1]))

\* moz_Sequence_do_flatten
Flatten(s, x, n) ==
    LET seq == s.heap[x].kids[n]
        t   == [s EXCEPT !.heap[x].kids = SubSeq(@, 1, n - 1) \o s.heap[seq].kids \o SubSeq(@, n + 1, Len(@))]
    IN  Modified(Release(FoldLeft(Retain, t, s.heap[seq].kids), seq))

\* The elements n and n + 1 of the list of x are of these types.
Adjacent(s, x, n, type1, type2) ==
    LET kids == s.heap[x].kids
    IN  n < Len(kids) /\ Type(s, kids[n]) = type1 /\ Type(s, kids[n + 1]) = type2

\* The loop that joins strings, from element n on; child is what the element
\* was at first.  A byte is added to the string in place.
RECURSIVE JoinStrings(_, _, _, _)
JoinStrings(s, x, n, child) ==
    LET kids == s.heap[x].kids
        next == kids[n + 1]
        cell == s.heap[next]
        both == Cell("Str", s.heap[child].c \o cell.c, <<>>, 0)
        cleared == [s EXCEPT !.heap[child].c = <<>>, !.heap[next].c = <<>>]
        t    == RemoveElement(Refer(Retain(Alloc(cleared, both), Newest(s) + 1), Kid(x, n), Newest(s) + 1), x, n + 1)
    IN  IF Type(s, child) # "Str" \/ n = Len(kids) THEN s
        ELSE IF cell.type = "Byte"
        THEN JoinStrings(Modified(RemoveElement(Release([s EXCEPT !.heap[child].c = Append(@, cell.c)], next), x, n + 1)),
                         x, n, child)
        ELSE IF cell.type = "Str" THEN JoinStrings(Modified(Release(Release(t, child), next)), x, n, child)
        ELSE s

\* Mutant: any byte but NUL.
ButByte_Any(c) == Cell("Set", Bytes, <<>>, 0)

\* Any byte but c and NUL.
ButByte(c) == Cell("Set", Bytes \ {c}, <<>>, 0)

\* The body of the loop of _moz_Sequence_optimize: the element is replaced by
\* its elements, joined with those that follow, or is a Not before an Any.
Rewrite(s, x, n) ==
    LET kids  == s.heap[x].kids
        child == s.heap[kids[n]]
    IN  IF child.type = "Sequence" THEN Flatten(s, x, n)
        ELSE IF Adjacent(s, x, n, "Byte", "Byte")
             THEN Merge(s, x, n, Cell("Str", <<child.c, s.heap[kids[n + 1]].c>>, <<>>, 0))
        ELSE IF child.type = "Str" THEN JoinStrings(s, x, n, kids[n])
        ELSE IF Adjacent(s, x, n, "Not", "Any") /\ Type(s, child.kids[1]) = "Byte"
             THEN Merge(s, x, n, ButByte(s.heap[child.kids[1]].c))
        ELSE s

RECURSIVE RewriteFrom(_, _, _)
RewriteFrom(s, x, n) == IF n > Len(s.heap[x].kids) THEN s ELSE RewriteFrom(Rewrite(s, x, n), x, n + 1)

\* Mutant: the list is changed, which nobody is told.
DropEmpty_Unnoticed(s, x, n) ==
    LET y == s.heap[x].kids[n]
    IN  IF Type(s, y) = "Empty" THEN Release(RemoveElement(s, x, n), y) ELSE s

DropEmpty(s, x, n) ==
    LET y == s.heap[x].kids[n]
    IN  IF Type(s, y) = "Empty" THEN Modified(Release(RemoveElement(s, x, n), y)) ELSE s

moz_Sequence_optimize(s, ref, x) ==
    LET t == RewriteFrom(OptimizeKids(s, x), x, 1)
        u == FoldLeft(LAMBDA v, n : DropEmpty(v, x, n), t, Reverse([n \in DOMAIN t.heap[x].kids |-> n]))
    IN  IF Len(u.heap[x].kids) = 1 THEN Collapse(u, ref, x) ELSE u

moz_expr_optimize(s, ref) ==
    LET x == Deref(s, ref)
    IN
    CASE Type(s, x) = "Invoke"   -> moz_Invoke_optimize(s, ref)
      [] Type(s, x) = "Choice"   -> moz_Choice_optimize(s, ref, x)
      [] Type(s, x) = "Sequence" -> moz_Sequence_optimize(s, ref, x)
      [] Type(s, x) \in {"And", "Not", "Option", "Repetition"} -> OptimizeKids(s, x)
      [] OTHER                   -> s

-----------------------------------------------------------------------------
(***************************************************************************)
(* The passes of moz_ast_optimize.                                         *)
(***************************************************************************)
Init ==
    /\ grammar \in Grammars
    /\ st = moz_node_to_ast(grammar)
    /\ decls = [d \in DOMAIN grammar |-> d]
    /\ k = 0
    /\ phase = "mark"

\* moz_ast_mark_live_decl
Mark ==
    /\ phase = "mark" /\ phase' = "optimize"
    /\ st' = [FoldLeft(RetainDecl, st, decls) EXCEPT !.modified = FALSE]
    /\ k' = 0
    /\ UNCHANGED <<grammar, decls>>

Optimize ==
    /\ phase = "optimize" /\ k < Len(decls)
    /\ st' = IF st.decl[decls[k + 1]].body = 0 THEN [st EXCEPT !.ok = FALSE]
             ELSE moz_expr_optimize(st, Body(decls[k + 1]))
    /\ k' = k + 1
    /\ UNCHANGED <<grammar, decls, phase>>

\* Mutant: nothing is removed.
Unmark_KeepsUnused(acc, d) == [s |-> ReleaseDecl(acc.s, d), left |-> Append(acc.left, d)]

\* A rule that only its mark holds is removed.  Its own count falls to 0, with
\* the counts of the rules that it calls.
Unmark(acc, d) ==
    [s |-> ReleaseDecl(acc.s, d), left |-> IF acc.s.decl[d].rc = 1 THEN acc.left ELSE Append(acc.left, d)]

\* moz_ast_remove_unused_decl
RemoveUnused ==
    /\ phase = "optimize" /\ k = Len(decls)
    /\ LET r == FoldLeft(Unmark, [s |-> st, left |-> <<>>], decls)
       IN  st' = r.s /\ decls' = r.left
    /\ phase' = IF st.modified THEN "mark" ELSE "done"
    /\ UNCHANGED <<grammar, k>>

Next == Mark \/ Optimize \/ RemoveUnused

\* The compiler runs until it is done.  This is WF_vars(Next), where what
\* enables Next is written out.
Fairness == []<>(phase = "done") \/ []<><<Next>>_vars

Spec == Init /\ [][Next]_vars /\ Fairness

-----------------------------------------------------------------------------
(***************************************************************************)
(* What the compiler has to keep.                                          *)
(***************************************************************************)
Mark1(n) == IF n THEN 1 ELSE 0

Live == {x \in DOMAIN st.heap : Type(st, x) # "Freed"}

LiveDecls == {d \in DOMAIN st.decl : st.decl[d].body # 0}

Occurrences(x, seq) == Cardinality({n \in DOMAIN seq : seq[n] = x})

References(x) ==
    MapThenSumSet(LAMBDA y : Occurrences(x, st.heap[y].kids), Live)
    + Cardinality({d \in LiveDecls : st.decl[d].body = x})

Calls(d) == Cardinality({x \in Live : st.heap[x].decl = d})

\* Every expression and every rule is counted once for each reference to it,
\* and nothing refers to one that was freed: the lists that are spliced and
\* the expressions that are replaced keep their books, also where an
\* expression is shared.  moz_decl_use_once and moz_ast_remove_unused_decl
\* decide by these counts.
CountsExact ==
    /\ \A x \in DOMAIN st.heap : References(x) = IF x \in Live THEN st.heap[x].rc ELSE 0
    /\ \A d \in DOMAIN st.decl :
          /\ d \in LiveDecls =>
                st.decl[d].rc = Calls(d) + Mark1(d = 1) + Mark1(phase = "optimize" /\ d \in ToSet(decls))
          /\ d \notin LiveDecls => Calls(d) = 0 /\ d \notin ToSet(decls)

\* No assertion fails, and no rule is used after it was freed.
NoAssertFails == st.ok

\* The meaning of the text of a literal: escapes stand for one character each.
RECURSIVE Unescaped(_)
Unescaped(text) ==
    IF text = <<>> THEN <<>>
    ELSE IF Len(text) < 2 \/ text[1] # Backslash THEN <<text[1]>> \o Unescaped(Tail(text))
    ELSE IF text[2] = HexEscape THEN <<16 * to_hex(text[3]) + to_hex(text[4])>> \o Unescaped(SubSeq(text, 5, Len(text)))
    ELSE LET e == {s \in Simple : s[1] = text[2]}
         IN  <<IF e = {} THEN text[2] ELSE (CHOOSE s \in e : TRUE)[2]>> \o Unescaped(SubSeq(text, 3, Len(text)))

\* The expression that a node of the syntax tree stands for.
RECURSIVE Source(_)
Source(node) ==
    LET kids == Each([n \in DOMAIN node.kids |-> Source(node.kids[n])])
        rule == Lookup(grammar, node.text)
        InSequence(es) == Tree("Sequence", 0, es)
    IN
    CASE node.tag = "NonTerminal" -> Tree("Invoke", rule, <<>>)
      [] node.tag = "String" -> IF rule # 0 THEN Tree("Invoke", rule, <<>>) ELSE Tree("Str", node.text, <<>>)
      [] node.tag = "Character" -> Tree("Str", Unescaped(node.text), <<>>)
      [] node.tag = "Class"   -> Tree("Set", RangesOf(node.text), <<>>)
      [] node.tag = "Tagging" -> Tree("Ttag", node.text, <<>>)
      [] node.tag = "Link" -> InSequence(<<Leaf("Tpush"), Last(kids), Tree("Tpop", node.text, <<>>)>>)
      [] node.tag = "New"  -> InSequence(<<Leaf("Tnew"), kids[1], Leaf("Tcapture")>>)
      [] node.tag = "Repetition1" -> InSequence(<<kids[1], Tree("Repetition", 0, kids)>>)
      [] OTHER -> Tree(node.tag, 0, kids)

\* The expression at a cell.
RECURSIVE TreeOf(_)
TreeOf(x) ==
    LET cell == st.heap[x]
    IN  Tree(cell.type, IF cell.type = "Invoke" THEN cell.decl ELSE cell.c,
             Each([n \in DOMAIN cell.kids |-> TreeOf(cell.kids[n])]))

CONSTANT InputBound     \* the longest input that meanings are compared on

Inputs == UNION {[1..n -> Bytes] : n \in 0..InputBound}

\* Between two passes and at the end, every rule that is left matches what it
\* matched in the source, and executes the same operations on the tree.
\* Inlining, splicing, joining strings and replacing expressions in place
\* never change another rule, or another use of the same expression.
SameMeaning ==
    phase \in {"mark", "done"} =>
        LET source == Each([d \in DOMAIN grammar |-> Source(grammar[d].body)])
            now    == Each([d \in DOMAIN grammar |-> IF d \in LiveDecls THEN TreeOf(st.decl[d].body) ELSE Leaf("Fail")])
        IN  \A d \in ToSet(decls), w \in Inputs : Parse(now, w, now[d], 0) = Parse(source, w, source[d], 0)

RECURSIVE Within(_)
Within(x) == {x} \cup UNION {Within(y) : y \in ToSet(st.heap[x].kids)}

\* What the rules that are left consist of.
Reached == UNION {Within(st.decl[d].body) : d \in ToSet(decls)}

\* A pass that modifies nothing leaves nothing to do: no list in a list, no
\* strings to join, no rule to inline, although the loop over a list passes
\* over elements while it changes the list.
NothingLeftToDo ==
    phase = "done" =>
        \A x \in Reached :
            LET kids == st.heap[x].kids
            IN  CASE Type(st, x) = "Invoke" -> ~ isPatternMatchOnly(st, st.decl[st.heap[x].decl].body)
                  [] Type(st, x) = "Choice" -> Len(kids) > 1 /\ \E y \in ToSet(kids) : ~ isByteOrSet(st, y)
                  [] Type(st, x) = "Sequence" ->
                        /\ Len(kids) # 1
                        /\ \A y \in ToSet(kids) : Type(st, y) \notin {"Sequence", "Empty"}
                        /\ \A n \in 1..Len(kids)-1 :
                              /\ ~ Adjacent(st, x, n, "Byte", "Byte")
                              /\ ~ Adjacent(st, x, n, "Str", "Byte")
                              /\ ~ Adjacent(st, x, n, "Str", "Str")
                  [] OTHER -> TRUE

\* The passes end.
Terminates == <>(phase = "done")
=============================================================================
