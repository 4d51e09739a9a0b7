------------------------------ MODULE Grammars ------------------------------
(***************************************************************************)
(* The grammars the VM is checked on.  A grammar is a sequence of rules,   *)
(* rule 1 is the start; the input alphabet is the bytes 1 and 2.           *)
(***************************************************************************)
EXTENDS PegReference

a == Byte(1)
b == Byte(2)

-----------------------------------------------------------------------------
(***************************************************************************)
(* Every parsing expression of depth at most two over the leaves.          *)
(***************************************************************************)
Leaves == <<a, b, Empty>>

Pairs(s, Op(_, _)) ==
    [k \in 1..Len(s) * Len(s) |-> Op(s[((k - 1) \div Len(s)) + 1], s[((k - 1) % Len(s)) + 1])]

Units(s, Op(_)) == [k \in 1..Len(s) |-> Op(s[k])]

Deeper(s) == s \o Pairs(s, Then) \o Pairs(s, Or) \o Units(s, Star) \o Units(s, Opt)
               \o Units(s, And) \o Units(s, Not)

Expressions == LET es == Deeper(Deeper(Leaves)) IN [k \in 1..Len(es) |-> <<es[k]>>]

-----------------------------------------------------------------------------
(***************************************************************************)
(* Nodes: choices that abandon a half-built node, loops of links, links    *)
(* inside links, left folds, tags set before a failure.                    *)
(***************************************************************************)
A == Node(Then(a, Tag("A")))
B == Node(Then(b, Tag("B")))

Trees == <<
    <<A>>,
    <<Or(Node(Then(a, Then(Tag("x"), b))), A)>>,
    <<Node(Star(Link("l", Or(A, B))))>>,
    <<Node(Star(Tx("l", Or(A, B))))>>,
    <<Node(Then(Tx("x", A), Then(Opt(Then(Tx("y", B), a)), Star(Tx("z", Or(A, B))))))>>,
    <<Or(Node(Then(Link("x", A), Then(Link("y", A), b))), Node(Then(Link("z", NT(2)), Opt(b)))),
      Node(Then(Tx("i", A), Opt(Link("j", A))))>>,
    <<Then(A, Star(Fold("left", Then(Link("right", Or(A, B)), Tag("F")))))>>,
    <<Then(A, Then(Star(Then(a, Fold("left", Tx("right", B)))), Opt(b)))>>,
    <<Node(Then(Not(Tx("x", A)), Then(Star(Tx("y", B)), Value("v"))))>>,
    <<Node(Or(Then(Tx("p", NT(2)), b), Tx("q", NT(2)))),
      Node(Then(a, Opt(Tx("n", NT(2)))))>>,
    <<Node(Then(Star(Then(Tx("l", A), Opt(Tx("m", Then(B, Not(b)))))), Tag("S")))>> >>

(***************************************************************************)
(* Memo points: results reused after backtracking, failures remembered,    *)
(* nodes linked from the memo table, entries evicted by other positions.   *)
(***************************************************************************)
M(n)     == Memoed(n, n - 2)
ML(l, n) == MemoLink(l, n, n - 2)

Packrat == <<
    <<Or(Then(M(2), b), Then(M(2), Star(a))), Then(a, Opt(a))>>,
    <<Or(Then(M(2), Then(M(3), a)), Or(Then(M(2), M(3)), M(2))), Star(a), Star(b)>>,
    <<Or(Then(M(2), a), Or(Then(M(3), a), Or(M(2), M(3)))), Then(a, b), Or(Then(b, a), b)>>,
    <<Then(M(2), Star(AnyByte)), Or(Then(a, Then(M(2), b)), Or(Then(a, M(2)), a))>>,
    <<Or(Node(Then(ML("x", 2), b)), Node(Then(ML("y", 2), Star(a)))), A>>,
    <<Node(Or(Then(ML("x", 2), Then(ML("y", 2), b)), Star(ML("z", 2)))), Or(A, B)>>,
    <<Node(Or(Then(ML("x", 2), b), ML("x", 2))),
      Node(Then(a, Opt(Or(Then(ML("k", 2), b), ML("k", 2)))))>>,
    <<Or(Node(Then(ML("x", 2), Then(ML("y", 3), a))),
         Or(Node(Then(ML("x", 3), Then(ML("y", 2), a))), Node(Star(ML("z", 2))))),
      Or(A, B), B>>,
    <<Star(M(2)), Opt(a)>> >>

(***************************************************************************)
(* Symbol tables, with the definitions undone by a failure, by the end of  *)
(* a block and by the end of a local scope.                                *)
(***************************************************************************)
X == Set({1, 2})

Scopes == <<
    <<Then(Def("T", X), Is("T", X))>>,
    <<Then(Def("T", a), Then(Def("T", b), Isa("T", X)))>>,
    <<Then(Block(Then(Def("T", a), Def("U", b))), Then(Not(Exists("T")), Then(Not(Exists("U")), Opt(X))))>>,
    <<Then(Opt(Then(Def("T", X), a)), Or(Exists("T"), X))>>,
    <<Then(Star(Def("T", X)), Then(IsDef("T", <<1>>), Not(IsDef("T", <<2>>))))>>,
    <<Then(Def("T", Star(a)), Then(b, Then(MatchSym("T"), Not(AnyByte))))>>,
    <<Then(Or(Then(Def("T", a), Then(Block(Then(Def("T", b), Isa("T", a))), b)), Def("T", X)),
           Star(MatchSym("T")))>>,
    <<Then(Def("T", X), Then(Block(Or(Then(Def("T", b), a), Is("T", X))), Opt(MatchSym("T"))))>> >>

\* test/it/pass021_symbol_table_def_local.nez, and a mask that hides a symbol.
Locals == <<
    <<Then(Local("T", Def("T", a)), Then(Not(Exists("T")), b))>>,
    <<Then(Def("T", a), Then(Local("T", Then(Not(IsDef("T", <<1>>)), Opt(Def("T", b)))), Isa("T", a)))>> >>

(***************************************************************************)
(* The other instructions, and recursion that needs the stack.             *)
(***************************************************************************)
Shorthands == <<
    <<Then(Prim("NByte", 1), Then(Prim("OByte", 2), Then(Prim("RByte", 1), Prim("NAny", 0))))>>,
    <<Then(Prim("NSet", {1}), Then(Prim("OSet", {2}), Then(Prim("RSet", {1, 2}), Prim("NAny", 0))))>>,
    <<Then(Prim("NStr", <<1, 1>>), Then(Prim("OStr", <<1, 2>>), Then(Prim("RStr", <<2>>), Opt(Str(<<1, 1>>)))))>>,
    <<Then(Set({1, 2}), Then(AnyByte, Then(Prim("Nop", 0), Not(AnyByte))))>>,
    <<Star(Dispatch("First", 1, Opt(b), Dispatch("TblJump1", 2, Empty, Then(a, a))))>>,
    <<Or(Dispatch("TblJump2", 1, Then(b, b), Dispatch("TblJump3", 2, a, AnyByte)), X)>>,
    <<Or(Then(a, Then(NT(1), b)), Empty)>>,
    <<Then(Opt(a), Then(Star(Or(Then(a, NT(2)), b)), Not(AnyByte))), Or(Then(b, NT(2)), And(AnyByte))>>,
    <<Or(Then(a, Then(b, NT(1))), Then(Star(a), Not(AnyByte)))>> >>

(***************************************************************************)
(* Programs that end the parse otherwise: instructions that abort, a left  *)
(* recursion, a transaction and a whole parse without a node, a Pop that   *)
(* closes nothing, a loop around an empty local scope.                     *)
(***************************************************************************)
Faults == <<
    <<Or(Then(b, Prim("RAny", 0)), Then(a, Opt(Prim("SCount", 0))))>>,
    <<Or(Then(NT(1), a), a)>>,
    <<Node(Then(Def("T", a), Then(Tx("l", NT(1)), Opt(b))))>>,
    <<Block(Then(Def("T", X), Or(Then(b, Local("T", NT(1))), And(NT(1)))))>>,
    <<Then(Opt(Def("T", X)), Node(Then(Opt(A), Tx("l", Star(b)))))>>,
    <<Then(Def("T", X), Then(Opt(Then(Tag("x"), b)), Tag("y")))>>,
    <<Node(Then(Tx("l", Then(A, Prim("TPop", 0))), b))>>,
    <<Star(Local("T", Opt(a)))>> >>
=============================================================================
