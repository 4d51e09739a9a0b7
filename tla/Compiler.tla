------------------------------ MODULE Compiler ------------------------------
(***************************************************************************)
(* What the code generator and the second interpreter promise.             *)
(***************************************************************************)
EXTENDS VM2
LOCAL INSTANCE SequencesExt

CONSTANT Fuel       \* the instructions that Exec executes at most

Compiled == phase # "translate"

-----------------------------------------------------------------------------
(***************************************************************************)
(* The flow graph.                                                         *)
(***************************************************************************)
Left == ToSet(W.C.order)

Of(b) == {W.C.irs[id] : id \in ToSet(W.C.blocks[b].insts)}

Targets(b) == {ir.target : ir \in {ir \in Of(b) : ir.type = "Jump"}}

\* At any time the edges are those of the jumps, from both ends, and no jump,
\* no failure and no call goes to a block that was merged away or emptied.
EdgesExact ==
    \A b \in Left :
        LET block == W.C.blocks[b]
        IN  /\ block.insts # <<>>
            /\ ToSet(block.succs) = Targets(b) /\ Targets(b) \subseteq Left
            /\ ToSet(block.preds) = {p \in Left : b \in Targets(p)}
            /\ \A ir \in Of(b) : /\ ir.fail \in Left
                                 /\ ir.type = "Invoke" => W.C.entry[ir.target] \in Left

\* The assertions of the compiler hold: each block has one terminator, no
\* block is linked to itself, what is merged as an exit is one, the handlers
\* that are removed are handlers, and no freed jump is looked at.
NoAssertFails == W.C.ok

-----------------------------------------------------------------------------
(***************************************************************************)
(* The meaning of blocks: execution as the translation intends it, where a *)
(* rule that fails resets the position and goes to the failure of the call.*)
(***************************************************************************)
Lost == [end |-> "lost", i |-> 0, did |-> <<>>]

\* From instruction n of block b of C on; s has the position i, the positions
\* that are saved and what was done to the log.
RECURSIVE Exec(_, _, _, _, _, _)
Exec(C, w, b, n, s, fuel) ==
    LET ir   == WithConstant(C, C.irs[C.blocks[b].insts[n]])
        j    == AfterMatch(w, ir, s.i)
        GoTo(block, t) == Exec(C, w, block, 1, t, fuel - 1)
        Step(t)        == Exec(C, w, b, n + 1, t, fuel - 1)
        call == Exec(C, w, C.entry[ir.target], 1, [s EXCEPT !.saved = <<>>], fuel - 1)
    IN
    IF fuel = 0 \/ n > Len(C.blocks[b].insts) THEN Lost ELSE
    CASE ir.type \in Matching -> IF j = -1 THEN GoTo(ir.fail, s) ELSE Step([s EXCEPT !.i = j])
      [] ir.type = "Jump"     -> GoTo(ir.target, s)
      [] ir.type = "Ret"      -> [end |-> "matched", i |-> s.i, did |-> s.did]
      [] ir.type = "Fail"     -> [end |-> "failed", i |-> 0, did |-> s.did]
      [] ir.type = "PStore"   -> Step([s EXCEPT !.saved = Append(@, s.i)])
      [] ir.type = "PLoad"    -> IF s.saved = <<>> THEN Lost
                                 ELSE Step([s EXCEPT !.i = Last(s.saved), !.saved = Front(@)])
      [] ir.type = "Invoke"   ->
            CASE call.end = "matched" -> Step([s EXCEPT !.i = call.i, !.did = call.did])
              [] call.end = "failed"  -> GoTo(ir.fail, [s EXCEPT !.did = call.did])
              [] OTHER -> Lost
      [] ir.type \in {"TNew", "TCapture", "TPush"} -> Step([s EXCEPT !.did = Append(@, <<ir.type, s.i>>)])
      [] ir.type \in {"TPop", "TTag"} -> Step([s EXCEPT !.did = Append(@, <<ir.type, ir.c, s.i>>)])

Meaning(C, w, d) == Exec(C, w, C.entry[d], 1, [i |-> 0, saved |-> <<>>, did |-> <<>>], Fuel)

\* No simplification changes what a rule does on any input: verdict, position
\* and operations are those of the translation.  Blocks are copied into each
\* block that jumps to them, exits are copied, handlers are bypassed, in an
\* order that the work list decides.
SimplifiedAlike ==
    Compiled => LET C == moz_ast_to_ir(grammar)
                IN  \A d \in DOMAIN grammar, w \in Inputs : Meaning(W.C, w, d) = Meaning(C, w, d)

-----------------------------------------------------------------------------
(***************************************************************************)
(* The expressions that are compiled as they are meant.  A failure is a    *)
(* jump that restores nothing, so that an expression whose failure is      *)
(* caught has to fail before it does something.                            *)
(***************************************************************************)
RECURSIVE CanFail(_), Clean(_), NoOps(_), Consumes(_)

\* The rules of the grammars call later rules only, or themselves.
CanFail(e) ==
    CASE e.type \in {"And", "Not", "Fail"} \cup Single -> TRUE
      [] e.type = "Invoke"   -> CanFail(grammar[e.c])
      [] e.type = "Choice"   -> \A x \in ToSet(e.kids) : CanFail(x)
      [] e.type = "Sequence" -> \E x \in ToSet(e.kids) : CanFail(x)
      [] OTHER -> FALSE

\* If e fails, it has done nothing.
Clean(e) ==
    CASE e.type \in {"And"} -> FALSE
      [] e.type = "Not"      -> e.kids[1].type = "Any"
      [] e.type = "Choice"   -> \A x \in ToSet(e.kids) : Clean(x)
      [] e.type = "Sequence" -> Clean(e.kids[1]) /\ \A x \in ToSet(Tail(e.kids)) : ~ CanFail(x)
      [] OTHER -> TRUE

\* e leaves no entry in the log and no word on the stack.
NoOps(e) ==
    CASE e.type \in {"Tnew", "Tcapture", "Tpush", "Tpop", "Ttag", "And", "Not"} -> FALSE
      [] e.type = "Invoke" -> NoOps(grammar[e.c])
      [] OTHER -> \A x \in ToSet(e.kids) : NoOps(x)

\* If e matches, it consumes.
Consumes(e) ==
    CASE e.type \in Single   -> TRUE
      [] e.type = "Choice"   -> \A x \in ToSet(e.kids) : Consumes(x)
      [] e.type = "Sequence" -> \E x \in ToSet(e.kids) : Consumes(x)
      [] OTHER -> FALSE

\* e begins with a loop in the block where it is translated.
RECURSIVE LoopsHere(_)
LoopsHere(e) ==
    CASE e.type = "Repetition" -> ~ (Len(e.kids) = 1 /\ e.kids[1].type \in Single)
      [] e.type = "Option" -> LoopsHere(e.kids[1])
      [] OTHER -> FALSE

RECURSIVE Translatable(_)
Translatable(e) ==
    /\ \A x \in ToSet(e.kids) : Translatable(x)
    /\ CASE e.type = "Choice"     -> \A x \in ToSet(Front(e.kids)) : Clean(x)
         [] e.type = "Option"     -> Clean(e.kids[1])
         [] e.type = "Repetition" -> LET s == Tree("Sequence", 0, e.kids) IN Clean(s) /\ Consumes(s)
         [] e.type \in {"And", "Not"} -> NoOps(e.kids[1]) /\ ~ LoopsHere(e.kids[1])
         [] e.type = "Invoke"     -> ~ CanFail(grammar[e.c])
         [] OTHER -> TRUE

\* The label of every copy of an instruction leads to the first instruction
\* of the block that it stands for.
LabelLeads(x, label, b) == \E y \in ToSet(Encode(W.C)) : y.head = x.tail + label /\ y.id = First(W.C, b)

LabelsReach ==
    code # <<>> =>
        LET copies == Encode(W.C)
        IN  \A n \in DOMAIN copies :
                LET ir == W.C.irs[copies[n].id]
                IN  /\ ir.type \in Labelled => LabelLeads(code[n], code[n].fail, ir.fail)
                    /\ ir.type = "Jump" => LabelLeads(code[n], code[n].jump, ir.target)
                    /\ ir.type = "Invoke" => LabelLeads(code[n], code[n].jump, W.C.entry[ir.target])

AsEmitted(did) == [n \in DOMAIN did |-> [did[n] EXCEPT ![1] = Emitted[@]]]

\* A grammar that is compiled as it is meant is parsed as it is meant: the
\* interpreter ends at one of its two exits, with the verdict, the position
\* and the operations of the parsing expression.
AgreesWithPEG ==
    vm.status # "running" /\ (\A d \in DOMAIN grammar : Translatable(grammar[d])) /\ LabelsReach =>
        LET r == Parse(grammar, input, grammar[1], 0)
        IN  /\ vm.status = IF r.ok THEN "matched" ELSE "failed"
            /\ r.ok => vm.cur = r.i /\ vm.did = AsEmitted(r.did)

\* Every compilation and every parse ends.
Terminates == <>(vm.status # "running")
=============================================================================
