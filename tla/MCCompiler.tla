----------------------------- MODULE MCCompiler -----------------------------
(***************************************************************************)
(* Grammars for the code generator, in the form that the optimiser leaves: *)
(* no list in a list, adjacent bytes joined to strings, choices of single  *)
(* characters joined to sets, short rules inlined.                         *)
(***************************************************************************)
EXTENDS Compiler
LOCAL INSTANCE SequencesExt

a   == Tree("Byte", 1, <<>>)
b   == Tree("Byte", 2, <<>>)
ab  == Tree("Str", <<1, 2>>, <<>>)
ba  == Tree("Str", <<2, 1>>, <<>>)
any == Leaf("Any")
set == Tree("Set", {1, 2}, <<>>)

Un(type, x)   == Tree(type, 0, <<x>>)
Then(kids)     == Tree("Sequence", 0, kids)
Or(kids)      == Tree("Choice", 0, kids)
Many1(kids)   == Tree("Repetition", 0, kids)
Call(d)       == Tree("Invoke", d, <<>>)

Tag(t)        == Tree("Ttag", t, <<>>)
Node(x, t)    == <<Leaf("Tnew")>> \o x \o <<Tag(t), Leaf("Tcapture")>>
Link(x)       == <<Leaf("Tpush")>> \o x \o <<Tree("Tpop", "L", <<>>)>>

-----------------------------------------------------------------------------
(***************************************************************************)
(* One rule, operators in operators.                                       *)
(***************************************************************************)
Terms == {a, ab, any}

Level1 == Terms
    \cup {Un(type, x) : type \in {"And", "Not", "Option", "Repetition"}, x \in Terms}
    \cup {Then(<<x, y>>) : x \in {ab, any}, y \in {a, any}}
    \cup {Or(<<ab, y>>) : y \in {a, any, Leaf("Empty")}}

\* The bodies of loops consume; a loop over nothing does not end.
Bodies == {<<x>> : x \in {x \in Level1 : x.type \in {"Sequence", "Choice"}}} \cup {<<x, y>> : x \in Terms, y \in Level1}

Level2 == Level1
    \cup {Un(type, x) : type \in {"And", "Not", "Option"}, x \in Level1}
    \cup {Many1(kids) : kids \in {kids \in Bodies : Consumes(Then(kids))}}
    \cup {Then(<<x, y>>) : x \in Level1, y \in {a, set}}
    \cup {Or(<<x, y>>) : x \in Level1, y \in Level1}

-----------------------------------------------------------------------------
(***************************************************************************)
(* Several rules, nodes, and nested loops.                                 *)
(***************************************************************************)
Spaces == Many1(<<set>>)

Named ==
    { \* calls of a rule that cannot fail, twice and in a loop
      <<Then(<<Call(2), a, Call(2)>>), Then(<<Un("Option", ab), Spaces>>)>>,
      <<Many1(<<a, Call(2)>>), Then(<<Un("Option", Then(<<ab, Call(3)>>)), Tag("T")>>), Many1(<<b>>)>>,
      \* a rule that fails, and one that calls itself
      <<Or(<<Call(2), ab>>), Then(<<a, a>>)>>,
      <<Or(<<Then(<<a, Call(1), b>>), b>>)>>,
      <<Un("Option", Then(<<a, Call(1)>>))>>,
      \* strings and tags that differ, and that occur twice
      <<Or(<<ab, Then(<<ba, Un("Option", ab)>>), Many1(<<ba>>)>>)>>,
      <<Then(<<Un("Option", ab), Tag("X"), Un("Option", ba), Tag("Y"), Many1(<<set>>), Tag("X")>>)>>,
      \* nodes and lists of nodes
      <<Then(Node(<<Many1(<<b>>)>>, "T") \o <<a>>)>>,
      <<Then(Node(Link(<<Call(2)>>) \o <<Many1(<<b>> \o Link(<<Call(2)>>))>>, "List")), Then(Node(<<Many1(<<a>>)>>, "Item"))>>,
      <<Many1(<<Or(<<Then(<<ab>> \o Node(<<Un("Option", a)>>, "X")), Then(<<b, Tag("Y")>>)>>)>>)>>,
      \* predicates in sequences and in predicates
      <<Then(<<Un("And", Then(<<a, b>>)), any, Un("Not", ab), Many1(<<any>>), Un("Not", any)>>)>>,
      <<Un("Not", Un("Not", ab))>>,
      <<Un("And", Un("Not", ab))>>,
      \* loops in loops
      <<Then(<<b, Many1(<<a, Many1(<<Then(<<b, any>>)>>)>>)>>)>>,
      <<Many1(<<a, Many1(<<ab, Many1(<<b>>)>>), Un("Option", b)>>)>>,
      <<Many1(<<Or(<<Then(<<ab, Many1(<<a>>)>>), Then(<<set, Un("Option", Then(<<ab, Un("Option", b)>>))>>)>>)>>)>> }

MCGrammars == {<<x>> : x \in Level2} \cup Named

-----------------------------------------------------------------------------
\* After each alternative of a choice comes the same instruction.
LabelGrammars == {<<Then(<<Or(<<ab, x>>), y>>)>> : x \in {ab, b, any}, y \in {a, set}}

\* A rule that is a loop and whose last part is a loop.
LoopGrammars == {<<Many1(<<a, Many1(<<x, y>>)>>)>> : x \in Terms, y \in Terms}

=============================================================================
