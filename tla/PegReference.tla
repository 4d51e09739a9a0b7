---------------------------- MODULE PegReference ----------------------------
(***************************************************************************)
(* Parsing expressions with AST construction and symbol tables: what they  *)
(* mean, and the bytecode a compiler emits for them.                       *)
(*                                                                         *)
(* Eval is the reference: a functional semantics without stack, log, frame *)
(* or memo table.  It maps an expression, a position, a symbol table and   *)
(* the node under construction to a result; what a failed alternative did  *)
(* is simply not in the result of the next one.                            *)
(*                                                                         *)
(* Compile stands for the compiler that produces bytecode files, the Nez   *)
(* tool, which is outside the repository: it emits the instruction         *)
(* patterns that the interpreter expects.                                  *)
(***************************************************************************)
EXTENDS Integers, Sequences

CONSTANTS
    NoSym, Nil,
    Bytes           \* the bytes that occur in inputs, and NUL

S == INSTANCE SymTable

-----------------------------------------------------------------------------
(***************************************************************************)
(* Expressions.                                                            *)
(***************************************************************************)
Empty       == [op |-> "empty"]
Byte(c)     == [op |-> "byte", c |-> c]
AnyByte     == [op |-> "any"]
Set(cs)     == [op |-> "set", c |-> cs]
Str(s)      == [op |-> "str", c |-> s]
Then(a, b)  == [op |-> "seq", a |-> a, b |-> b]
Or(a, b)    == [op |-> "alt", a |-> a, b |-> b]
Star(a)     == [op |-> "star", a |-> a]
Opt(a)      == [op |-> "opt", a |-> a]
And(a)      == [op |-> "and", a |-> a]
Not(a)      == [op |-> "not", a |-> a]
Prim(op, c) == [op |-> op, c |-> c]     \* NByte, OSet, RStr, ...: one instruction

\* Choose by the next byte; the first branch has consumed c.
Dispatch(by, c, a, b) == [op |-> "dispatch", by |-> by, c |-> c, a |-> a, b |-> b]

NT(n)         == [op |-> "call", n |-> n]                   \* rule number n
Memoed(n, id) == [op |-> "memo", n |-> n, id |-> id]        \* with memo point id

Node(a)     == [op |-> "new", a |-> a]                      \* { a }
Fold(l, a)  == [op |-> "fold", l |-> l, a |-> a]            \* {$l a }
Tag(t)      == [op |-> "tag", t |-> t]
Value(v)    == [op |-> "value", v |-> v]
Link(l, a)  == [op |-> "link", l |-> l, a |-> a]            \* $l(a), by TPush and TPop
Tx(l, a)    == [op |-> "tx", l |-> l, a |-> a]              \* $l(a), by TStart and TCommit
MemoLink(l, n, id) == [op |-> "memolink", l |-> l, a |-> NT(n), id |-> id]

Block(a)    == [op |-> "block", a |-> a]
Local(t, a) == [op |-> "local", t |-> t, a |-> a]
Def(t, a)   == [op |-> "def", t |-> t, a |-> a]
Is(t, a)    == [op |-> "is", t |-> t, a |-> a]
Isa(t, a)   == [op |-> "isa", t |-> t, a |-> a]
MatchSym(t) == [op |-> "match", t |-> t]
Exists(t)   == [op |-> "exists", t |-> t]
IsDef(t, s) == [op |-> "isdef", t |-> t, c |-> s]

-----------------------------------------------------------------------------
(***************************************************************************)
(* The reference semantics.  G is the sequence of rules, w the input.      *)
(***************************************************************************)
Fails == [ok |-> FALSE]
Yields(i, t, c) == [ok |-> TRUE, i |-> i, t |-> t, c |-> c]

Char(w, i) == IF i < Len(w) THEN w[i + 1] ELSE 0

HasPrefix(w, i, s) == i + Len(s) <= Len(w) /\ SubSeq(w, i + 1, i + Len(s)) = s

NewNode(i) == [tag |-> Nil, pos |-> i, end |-> i, value |-> Nil, kids |-> <<>>]

AddKid(c, l, n) == [c EXCEPT !.kids = Append(@, [label |-> l, node |-> n])]

Base(op) ==     \* the matcher an N-, O- or R-instruction repeats
    CASE op \in {"NByte", "OByte", "RByte"} -> "byte"
      [] op \in {"NSet", "OSet", "RSet"}    -> "set"
      [] op \in {"NStr", "OStr", "RStr"}    -> "str"
      [] op = "NAny"                        -> "any"

Wrap(e) ==
    LET a == [op |-> Base(e.op), c |-> e.c]
    IN  CASE e.op \in {"NByte", "NSet", "NStr", "NAny"} -> [op |-> "not", a |-> a]
          [] e.op \in {"OByte", "OSet", "OStr"}         -> [op |-> "opt", a |-> a]
          [] e.op \in {"RByte", "RSet", "RStr"}         -> [op |-> "star", a |-> a]

RECURSIVE Eval(_, _, _, _, _, _)
Eval(G, w, e, i, t, c) ==
    CASE e.op \in {"empty", "Nop"} -> Yields(i, t, c)
      [] e.op = "byte"  -> IF Char(w, i) = e.c THEN Yields(i + 1, t, c) ELSE Fails
      [] e.op = "any"   -> IF i < Len(w) THEN Yields(i + 1, t, c) ELSE Fails
      [] e.op = "set"   -> IF Char(w, i) \in e.c THEN Yields(i + 1, t, c) ELSE Fails
      [] e.op = "str"   -> IF HasPrefix(w, i, e.c) THEN Yields(i + Len(e.c), t, c) ELSE Fails
      [] e.op = "seq"   -> LET r == Eval(G, w, e.a, i, t, c)
                           IN  IF r.ok THEN Eval(G, w, e.b, r.i, r.t, r.c) ELSE Fails
      [] e.op = "alt"   -> LET r == Eval(G, w, e.a, i, t, c)
                           IN  IF r.ok THEN r ELSE Eval(G, w, e.b, i, t, c)
      [] e.op = "opt"   -> LET r == Eval(G, w, e.a, i, t, c)
                           IN  IF r.ok THEN r ELSE Yields(i, t, c)
      [] e.op = "star"  -> LET r == Eval(G, w, e.a, i, t, c)
                           IN  IF r.ok /\ r.i # i THEN Eval(G, w, e, r.i, r.t, r.c)
                                                  ELSE Yields(i, t, c)
      [] e.op = "and"   -> IF Eval(G, w, e.a, i, t, c).ok THEN Yields(i, t, c) ELSE Fails
      [] e.op = "not"   -> IF Eval(G, w, e.a, i, t, c).ok THEN Fails ELSE Yields(i, t, c)
      [] e.op \in {"call", "memo"} -> Eval(G, w, G[e.n], i, t, c)
      [] e.op = "new"   -> LET r == Eval(G, w, e.a, i, t, NewNode(i))
                           IN  IF r.ok THEN Yields(r.i, r.t, [r.c EXCEPT !.end = r.i]) ELSE Fails
      [] e.op = "fold"  -> LET r == Eval(G, w, e.a, i, t, AddKid(NewNode(i), e.l, c))
                           IN  IF r.ok THEN Yields(r.i, r.t, [r.c EXCEPT !.end = r.i]) ELSE Fails
      [] e.op = "tag"   -> Yields(i, t, [c EXCEPT !.tag = e.t])
      [] e.op = "value" -> Yields(i, t, [c EXCEPT !.value = e.v])
      [] e.op \in {"link", "tx", "memolink"} ->
                           LET r == Eval(G, w, e.a, i, t, Nil)
                           IN  IF r.ok THEN Yields(r.i, r.t, AddKid(c, e.l, r.c)) ELSE Fails
      [] e.op = "block" -> LET r == Eval(G, w, e.a, i, t, c)
                           IN  IF r.ok THEN Yields(r.i, t, r.c) ELSE Fails
      [] e.op = "local" -> LET r == Eval(G, w, e.a, i, S!symtable_add_symbol_mask(t, e.t, NoSym), c)
                           IN  IF r.ok THEN Yields(r.i, t, r.c) ELSE Fails
      [] e.op \in {"def", "is", "isa"} ->
            LET r    == Eval(G, w, e.a, i, t, c)
                text == SubSeq(w, i + 1, r.i)
            IN  IF ~r.ok THEN Fails
                ELSE IF e.op = "def" THEN Yields(r.i, S!symtable_add_symbol(r.t, e.t, text), r.c)
                ELSE IF IF e.op = "is" THEN S!symtable_get_symbol(r.t, e.t) = text
                                       ELSE S!symtable_contains(r.t, e.t, text)
                     THEN r ELSE Fails
      [] e.op = "match" -> LET s == S!symtable_get_symbol(t, e.t)
                           IN  IF s # NoSym /\ HasPrefix(w, i, s) THEN Yields(i + Len(s), t, c) ELSE Fails
      [] e.op = "exists" -> IF S!symtable_has_symbol(t, e.t) THEN Yields(i, t, c) ELSE Fails
      [] e.op = "isdef" -> IF S!symtable_contains(t, e.t, e.c) THEN Yields(i, t, c) ELSE Fails
      [] e.op = "dispatch" -> IF Char(w, i) = e.c THEN Eval(G, w, e.a, i + 1, t, c)
                                                  ELSE Eval(G, w, e.b, i, t, c)
      [] OTHER          -> Eval(G, w, Wrap(e), i, t, c)

Meaning(G, w) == Eval(G, w, G[1], 0, <<>>, Nil)

-----------------------------------------------------------------------------
(***************************************************************************)
(* The compiler.                                                           *)
(***************************************************************************)
I(op) == [op |-> op, arg |-> 0, label |-> Nil, shift |-> 0,
          memoId |-> 0, state |-> 0, to |-> 0, next |-> 0]

IArg(op, x)   == [I(op) EXCEPT !.arg = x]
ILabel(op, l) == [I(op) EXCEPT !.label = l]
ITo(op, k)    == [I(op) EXCEPT !.to = k]
IMemo(op, id) == [I(op) EXCEPT !.memoId = id]
ILookup(op, id, l, k) == [IMemo(op, id) EXCEPT !.label = l, !.to = k]
ICall(k, next) == [ITo("Call", k) EXCEPT !.next = next]

\* The code of e placed at address k; addr gives the address of every rule.
RECURSIVE Compile(_, _, _)
Compile(addr, e, k) ==
    LET Around(pre, a, post) == <<pre>> \o Compile(addr, a, k + 1) \o <<post>>
        Size(a) == Len(Compile(addr, a, 0))
    IN
    CASE e.op = "empty" -> <<>>
      [] e.op = "byte"  -> <<IArg("Byte", e.c)>>
      [] e.op = "any"   -> <<I("Any")>>
      [] e.op = "set"   -> <<IArg("Set", e.c)>>
      [] e.op = "str"   -> <<IArg("Str", e.c)>>
      [] e.op = "seq"   -> Compile(addr, e.a, k) \o Compile(addr, e.b, k + Size(e.a))
      [] e.op = "alt"   -> LET L == k + Size(e.a) + 3
                           IN  Around(ITo("Alt", L), e.a, I("Succ"))
                               \o <<ITo("Jump", L + Size(e.b))>> \o Compile(addr, e.b, L)
      [] e.op = "star"  -> Around(ITo("Alt", k + Size(e.a) + 3), e.a, I("Skip"))
                               \o <<ITo("Jump", k + 1)>>
      [] e.op = "opt"   -> Around(ITo("Alt", k + Size(e.a) + 2), e.a, I("Succ"))
      [] e.op = "and"   -> Around(I("Pos"), e.a, I("Back"))
      [] e.op = "not"   -> Around(ITo("Alt", k + Size(e.a) + 3), e.a, I("Succ")) \o <<I("Fail")>>
      [] e.op = "call"  -> <<ICall(addr[e.n], k + 1)>>
      [] e.op = "memo"  -> <<ILookup("Lookup", e.id, Nil, k + 6), ITo("Alt", k + 5),
                             ICall(addr[e.n], k + 3), IMemo("Memo", e.id),
                             ITo("Jump", k + 6), IMemo("MemoFail", e.id)>>
      [] e.op = "new"   -> Around(I("TNew"), e.a, I("TCapture"))
      [] e.op = "fold"  -> Around(ILabel("TLeftFold", e.l), e.a, I("TCapture"))
      [] e.op = "tag"   -> <<IArg("TTag", e.t)>>
      [] e.op = "value" -> <<IArg("TReplace", e.v)>>
      [] e.op = "link"  -> Around(I("TPush"), e.a, ILabel("TPop", e.l))
      [] e.op = "tx"    -> Around(I("TStart"), e.a, ILabel("TCommit", e.l))
      [] e.op = "memolink" ->
                           <<ILookup("TLookup", e.id, e.l, k + 8), ITo("Alt", k + 7),
                             I("TStart"), ICall(addr[e.a.n], k + 4), ILabel("TCommit", e.l),
                             IMemo("TMemo", e.id), ITo("Jump", k + 8), IMemo("MemoFail", e.id)>>
      [] e.op = "block" -> Around(I("SOpen"), e.a, I("SClose"))
      [] e.op = "local" -> Around(IArg("SMask", e.t), e.a, I("SClose"))
      [] e.op = "def"   -> Around(I("Pos"), e.a, IArg("SDef", e.t))
      [] e.op = "is"    -> Around(I("Pos"), e.a, IArg("SIs", e.t))
      [] e.op = "isa"   -> Around(I("Pos"), e.a, IArg("SIsa", e.t))
      [] e.op = "match" -> <<IArg("SMatch", e.t)>>
      [] e.op = "exists" -> <<IArg("SExists", e.t)>>
      [] e.op = "isdef" -> <<[IArg("SIsDef", e.t) EXCEPT !.label = e.c]>>
      [] e.op = "dispatch" ->
            LET L == k + Size(e.a) + 3
            IN  <<IArg(e.by, [x \in Bytes |-> IF x = e.c THEN k + 1 ELSE L]),
                  [I("Consume") EXCEPT !.shift = 1]>> \o Compile(addr, e.a, k + 2)
                \o <<ITo("Jump", L + Size(e.b))>> \o Compile(addr, e.b, L)
      [] OTHER          -> <<IArg(e.op, e.c)>>

\* bytecode_base (Exit 0, Exit 1), then every rule followed by Ret.
Program(G) ==
    LET size(n) == Len(Compile([r \in DOMAIN G |-> 0], G[n], 0)) + 1
        addr[n \in DOMAIN G] == IF n = 1 THEN 3 ELSE addr[n - 1] + size(n - 1)
        code[n \in 0..Len(G)] ==
            IF n = 0 THEN <<IArg("Exit", 0), IArg("Exit", 1)>>
            ELSE code[n - 1] \o Compile(addr, G[n], addr[n]) \o <<I("Ret")>>
    IN  code[Len(G)]
=============================================================================
