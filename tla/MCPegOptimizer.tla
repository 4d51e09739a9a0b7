--------------------------- MODULE MCPegOptimizer ---------------------------
(***************************************************************************)
(* Grammars for the optimiser.                                             *)
(***************************************************************************)
EXTENDS PegOptimizer
LOCAL INSTANCE SequencesExt

N(tag, text, kids) == [tag |-> tag, text |-> text, kids |-> kids]
Rule(name, body)   == [name |-> <<name>>, body |-> body]

Chars(text)   == N("Character", text, <<>>)
String(text)  == N("String", text, <<>>)
Class(ranges) == N("Class", ranges, <<>>)
NT(name)      == N("NonTerminal", <<name>>, <<>>)
AnyByte       == N("Any", <<>>, <<>>)
Seq2(x, y)    == N("Sequence", <<>>, <<x, y>>)
Seq3(x, y, z) == N("Sequence", <<>>, <<x, y, z>>)
Or(x, y)      == N("Choice", <<>>, <<x, y>>)
Un(tag, x)    == N(tag, <<>>, <<x>>)

a == Chars(<<1>>)
b == Chars(<<2>>)

-----------------------------------------------------------------------------
(***************************************************************************)
(* Grammars that share no string and no sequence.  The body of x+, and the *)
(* rule A where it is used more than once, is one terminal, a choice of    *)
(* terminals, or a recursive rule, which is not inlined.                   *)
(***************************************************************************)
Terms == {a, b, AnyByte}
Leaves == Terms \cup {Chars(<<>>), String(<<1, 2>>), NT("A")}

Shareable == {a, Class(<<<<1, 2>>>>), Or(a, b), Or(a, AnyByte)}

Unary == {"Not", "And", "Option", "Repetition"}
Small == Leaves \cup {Un(tag, x) : tag \in Unary, x \in Leaves} \cup {Un("Repetition1", x) : x \in Shareable}
                \cup {Seq2(x, y) : x \in Leaves, y \in Leaves} \cup {Or(x, y) : x \in Leaves, y \in Leaves}

Starts == {Seq2(x, y) : x \in Small, y \in {a, AnyByte, NT("A")}}
            \cup {Seq2(y, x) : x \in Small, y \in {a, String(<<1, 2>>), NT("A")}}
            \cup {Or(x, b) : x \in {x \in Small : x.tag # "Not"}} \cup {Un("Repetition", x) : x \in Small}

\* 'a' A 'b' / 'b'
Recursive == Or(Seq3(a, NT("A"), b), b)

RECURSIVE Uses(_)
Uses(node) == IF node.tag = "NonTerminal" THEN 1 ELSE FoldLeft(LAMBDA n, x : n + Uses(x), 0, node.kids)

Once    == {String(<<2, 1>>), Seq3(a, Chars(<<>>), Un("Option", b)), Seq2(b, Un("Not", a))}
Several == {a, Or(b, a), Recursive}

UnsharedGrammars ==
    {<<Rule("S", s), Rule("A", x)>> : s \in {s \in Starts : Uses(s) <= 1}, x \in Once \cup Several}
    \cup {<<Rule("S", s), Rule("A", x)>> : s \in {s \in Starts : Uses(s) = 2}, x \in Several}

-----------------------------------------------------------------------------
(***************************************************************************)
(* Larger ones: chains of rules, lists with nodes, numbers, some after the *)
(* files of test/it.                                                       *)
(***************************************************************************)
Node(x)        == Un("New", x)
Link(label, x) == N("Link", label, <<x>>)
Tag(t)         == N("Tagging", t, <<>>)
C12            == Class(<<<<2, 1>>>>)

Named ==
    { <<Rule("File", NT("AA")), Rule("AA", NT("AB")), Rule("AB", NT("BA")), Rule("BA", NT("BB")),
        Rule("BB", String(<<2, 2>>))>>,
      <<Rule("File", Seq2(Node(Seq2(Un("Option", a), NT("INT"))), Un("Repetition", NT("S")))),
        Rule("INT", Or(b, Seq2(C12, Un("Repetition", NT("DIGIT"))))), Rule("DIGIT", C12),
        Rule("FRAC", Seq2(b, Un("Repetition1", NT("DIGIT")))), Rule("S", a)>>,
      <<Rule("File", Seq2(Node(Seq2(Link(<<>>, NT("A")), Un("Repetition", Seq2(b, Link(<<>>, NT("A")))))),
                          Un("Repetition", AnyByte))),
        Rule("A", Node(Seq2(Or(a, Seq2(b, Un("Repetition", b))), Tag("A"))))>>,
      <<Rule("File", NT("Object")),
        Rule("Object", Or(Seq3(a, NT("Value"), b), NT("Value"))),
        Rule("Value", Node(Seq2(String(<<1, 2>>), Tag("Null"))))>>,
      <<Rule("File", Seq3(NT("AddSub"), Un("Repetition", a), Un("Not", AnyByte))),
        Rule("AddSub", Or(Seq3(NT("Value"), a, NT("AddSub")), Or(Seq3(NT("Value"), b, NT("AddSub")), NT("Value")))),
        Rule("Value", Or(Seq3(a, NT("AddSub"), b), b))>>,
      <<Rule("File", Seq3(a, Un("Repetition", Seq3(a, C12, Seq2(Un("Not", b), AnyByte))), b))>>,
      <<Rule("File", Seq3(a, Chars(<<>>), b))>> }

MCGrammars == UnsharedGrammars \cup Named

-----------------------------------------------------------------------------
(***************************************************************************)
(* Grammars that share a string or a sequence.                             *)
(***************************************************************************)
\* A string, the rule A, which two sequences use.
StringGrammars ==
    {<<Rule("S", Or(Seq2(NT("A"), x), Seq2(NT("A"), y))), Rule("A", String(<<1, 2>>))>> : x \in Leaves, y \in Leaves}

\* A sequence in x+, or the body of a rule that is used once.
SequenceGrammars ==
    {<<Rule("S", Un("Repetition1", Seq2(x, y)))>> : x \in Terms, y \in Terms}
    \cup {<<Rule("S", Un(tag, NT("A"))), Rule("A", Seq2(x, y))>> : tag \in Unary, x \in Terms, y \in Terms}

SharedGrammars == StringGrammars \cup SequenceGrammars
=============================================================================
