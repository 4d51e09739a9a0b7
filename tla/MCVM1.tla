------------------------------- MODULE MCVM1 -------------------------------
(***************************************************************************)
(* Instances of the interpreter: grammars, compiled, on every short input. *)
(***************************************************************************)
EXTENDS VM1, SequencesExt

CONSTANTS
    Sources,        \* a sequence of grammars
    InputBound      \* the longest input

G == INSTANCE Grammars WITH Bytes <- {NUL, 1, 2}

Parses == G!Trees \o G!Packrat \o G!Scopes \o G!Locals \o G!Shorthands \o G!Expressions
Faults == G!Locals \o G!Faults

\* TLC evaluates the definitions above once; the .cfg files name these.
ParseSources == Parses
FaultSources == Faults

MCPrograms == [p \in DOMAIN Sources |-> G!Program(Sources[p])]
MCInputs   == BoundedSeq({1, 2}, InputBound)

\* The unset field of a mask: NULL, or also a token that the slot held before.
NullLeftOver == {NoSym}
AnyLeftOver  == {NoSym, <<1>>, <<2>>}

-----------------------------------------------------------------------------
\* The interpreter accepts exactly what the expression matches, at the same
\* position, with the same symbol table and the same tree as the functional
\* semantics: frames, rollbacks, commits and memo hits leave no trace.
AgreesWithPEG ==
    LET m == G!Meaning(Sources[prog], input)
    IN  /\ status = "done" => /\ m.ok /\ pos = m.i /\ table = m.t
                              /\ parsed = IF m.c = Nil THEN NoNode ELSE m.c
        /\ status = "reject" => ~m.ok

\* An entry of the memo table tells what its rule does at its position: that it
\* fails there, or how much it consumes and which node it makes.  Here rule
\* id + 2 has the memo point id.
MemoSound ==
    \A at \in 0..Len(input), id \in 0..MemoPoints-1 :
        LET e == memo_entry(memo, at, id)
            r == G!Eval(Sources[prog], input, G!NT(id + 2), at, <<>>, Nil)
        IN  memo_hit(memo, at, id, 0) =>
                IF e.result = FailedResult THEN ~r.ok
                ELSE /\ r.ok /\ r.i = at + e.consumed
                     /\ r.c = IF e.result = NoNode THEN Nil ELSE e.result

\* The node that TMemo memoizes, ast->last_linked, is the one of the expression
\* that just ended: its link is the last entry of the log, which therefore
\* still holds a reference on it.
TMemoLinks ==
    At({"TMemo"}) =>
        /\ log # <<>>
        /\ log[Len(log)].type = "Link" /\ log[Len(log)].e = lastLinked
=============================================================================
