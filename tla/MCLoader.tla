------------------------------ MODULE MCLoader ------------------------------
(***************************************************************************)
(* Instances of the loader.                                                *)
(***************************************************************************)
EXTENDS Loader, SequencesExt

MCInst(op, data, next) == [op |-> op, data |-> data, next |-> next]

Plain(op)      == MCInst(op, [none |-> 0], None)
Label(p)       == MCInst("Label", [label |-> p], None)
Byte(next)     == MCInst("Byte", [byte |-> 7], next)
To(op, t)      == MCInst(op, [jump |-> t], None)
Call(next, t)  == MCInst("Call", [prod |-> 0, next |-> next, jump |-> t], None)

-----------------------------------------------------------------------------
(***************************************************************************)
(* The files as the compiler of nez writes them.                           *)
(***************************************************************************)
Two(n)     == <<n \div 256, n % 256>>
Text(name) == Two(Len(name)) \o name \o <<0>>

Word(set, w) == FoldLeft(LAMBDA n, k : n + IF k + IntBit * w \in set THEN 2^k ELSE 0, 0, [i \in 1..IntBit |-> i - 1])
SetText(set) == FlattenSeq([w \in 1..Words |-> <<0, 0>> \o Two(Word(set, w - 1))])

Texts(names) == Two(Len(names)) \o FlattenSeq([n \in DOMAIN names |-> Text(names[n])])

HeadText(type, c) ==
    type \o <<0, 0, 4, 0, 2, 0, 0>> \o Texts(c.prods)
    \o Two(Len(c.sets)) \o FlattenSeq([n \in DOMAIN c.sets |-> SetText(c.sets[n])])
    \o Texts(c.strs) \o Texts(c.tags) \o Texts(c.tables)

Nez == <<78, 69, 90>>

MCFile(type, c, insts) == [head |-> HeadText(type, c), insts |-> insts, consts |-> c]

A == <<65>>

Few == [prods |-> <<A, <<66, 66>>>>, sets |-> <<{1, 5}>>, strs |-> <<A>>, tags |-> <<A>>, tables |-> <<A>>]

-----------------------------------------------------------------------------
Ends(x) == x.op \in {"Jump", "Call", "Ret"} \/ x.next # None

\* Programs that do not run off their end, with one label of a name.
WellFormed(insts, n) ==
    {f \in [1..n -> insts] :
        /\ Ends(f[n])
        /\ \A i, m \in 1..n : i # m /\ f[i].op = "Label" /\ f[m].op = "Label" => f[i].data # f[m].data}

\* All short programs of calls, alternatives, jumps and returns; the longer
\* ones have jumps only.
FlowCode ==
    LET branches(n) == {To(op, t) : op \in {"Alt", "Jump"}, t \in 0..n-1}
        bytes(n)    == {Byte(next) : next \in 0..n-1 \cup {None}}
        calls(n)    == {Call(next, t) : next \in 0..n-1, t \in 0..n-1}
        jumps(n)    == {To("Jump", t) : t \in 0..n-1}
    IN  WellFormed(branches(3) \cup bytes(3) \cup calls(3) \cup {Plain("Nop"), Plain("Ret"), Label(0), Label(1)}, 3)
        \cup WellFormed(jumps(4) \cup bytes(4) \cup {Plain("Nop"), Plain("Ret"), Label(0)}, 4)

\* Two Firsts with targets of every kind: the first with every choice of five
\* jumps, repeated, or with one up to nine different jumps in several orders,
\* the second with a table of its size or of another.
TableCode ==
    LET entries  == 0..TableSize
        first(f) == MCInst("First", [table |-> f], None)
        code(f, m) ==
            <<first(f), Plain("Ret"), To("Jump", 1), Byte(2), Plain("Nop"), Byte(None),
              MCInst("Lookup", [state |-> 1, memo |-> 1, jump |-> 1], None), Label(1), Byte(1), Plain("Ret"),
              first([i \in entries |-> 1 + ((i + f[0]) % m)])>>
    IN  {code([i \in entries |-> f[i % 5]], 1 + f[0]) : f \in [0..4 -> 1..5]}
        \cup {code([i \in entries |-> 1 + ((a * i + b) % n)], m) : a \in 1..4, b \in 0..2, n \in 1..9, m \in {1, 4, 6, 9}}

\* Every operand, with values that differ.
OperandCode ==
    {<<Label(0), MCInst(op, [state |-> 3, memo |-> 8, jump |-> 4, tag |-> 5, table |-> 6, str |-> 7, set |-> 9,
                             shift |-> 2, byte |-> 1, status |-> 10], next),
       Plain("Any"), Plain("Ret"), Byte(2), Plain("Fail")>> :
       op \in Opcodes \ (Jumps \cup {"Nop", "Label", "Jump", "Call", "Ret"}), next \in {None, 3}}

\* Sections of no, one and several entries, with names that are empty, have a
\* NUL in them or are longer, and sets that are empty, full or of either word.
Names     == {<<>>, <<0>>, A, <<65, 0, 66>>}
NameLists == {<<>>} \cup {<<n>> : n \in Names} \cup {<<n, m>> : n \in Names, m \in Names}
SetLists  == {<<>>, <<{}>>, <<0..7>>, <<{0, 4, 7}, {}>>, <<{3}, {4}>>}

ConstantFiles ==
    {MCFile(Nez, [Few EXCEPT !.prods = <<n, m>>], <<Plain("Ret")>>) : n \in Names, m \in Names}
    \cup {MCFile(Nez, [Few EXCEPT !.sets = sets, !.strs = strs], <<Plain("Ret")>>) : sets \in SetLists, strs \in NameLists}
    \cup {MCFile(Nez, [Few EXCEPT !.tags = tags, !.tables = tables], <<Plain("Ret")>>) :
            tags \in NameLists, tables \in NameLists}
    \cup {MCFile(<<78, 69, 88>>, Few, <<Plain("Ret")>>)}

MCFiles == ConstantFiles \cup {MCFile(Nez, Few, insts) : insts \in FlowCode \cup TableCode \cup OperandCode}
=============================================================================
