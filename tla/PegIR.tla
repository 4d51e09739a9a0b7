------------------------------- MODULE PegIR --------------------------------
(***************************************************************************)
(* The second half of the grammar compiler: basic blocks (block.c), the    *)
(* translation of expressions and the simplification of the flow graph     *)
(* (compiler.c), addresses and labels (module.c, linker.c).                *)
(*                                                                         *)
(* Operators on a compilation C: its blocks and instructions, by their     *)
(* ids; order, the blocks that are left (C->blocks); cur, where            *)
(* instructions are added; entry, the first block of each rule; pools, the *)
(* constants that instructions name by index; ok, that no assertion        *)
(* failed.  An instruction that can fail does not end its block: it names  *)
(* the block that handles the failure.                                     *)
(***************************************************************************)
EXTENDS PegTrees
LOCAL INSTANCE SequencesExt

NoCode == [blocks |-> <<>>, irs |-> <<>>, order |-> <<>>, cur |-> 0, entry |-> <<>>,
           pools |-> [strs |-> <<>>, sets |-> <<>>, tags |-> <<>>], ok |-> TRUE]

Block(type) == [type |-> type, insts |-> <<>>, preds |-> <<>>, succs |-> <<>>]

\* An instruction: c is its operand, target the block of a Jump or the rule
\* of an Invoke.
Inst(type, c, target) == [type |-> type, c |-> c, target |-> target]

Op(type)    == Inst(type, 0, 0)
Jump(block) == Inst("Jump", 0, block)

AddOnce(seq, x) == IF x \in ToSet(seq) THEN seq ELSE Append(seq, x)

Without(seq, x) == SelectSeq(seq, LAMBDA y : y # x)

block_link(C, pred, succ) ==
    [C EXCEPT !.blocks[pred].succs = AddOnce(@, succ), !.blocks[succ].preds = AddOnce(@, pred)]

block_unlink(C, pred, succ) ==
    [C EXCEPT !.blocks[pred].succs = Without(@, succ), !.blocks[succ].preds = Without(@, pred)]

block_set_type(C, b, types) == [C EXCEPT !.blocks[b].type = @ \cup types]

block_is(C, b, type) == type \in C.blocks[b].type

\* The type of the instruction that ends a block.
Terminator(C, b) ==
    LET insts == C.blocks[b].insts
        last  == IF insts = <<>> THEN "None" ELSE C.irs[Last(insts)].type
    IN  IF last \in {"Jump", "Ret", "Fail"} THEN last ELSE "None"

-----------------------------------------------------------------------------
(***************************************************************************)
(* Translation.  Instructions are added to the current block; fail is the  *)
(* block that handles their failures.                                      *)
(***************************************************************************)
moz_compiler_create_block(C, type) ==
    [C EXCEPT !.blocks = Append(@, Block(type)), !.order = Append(@, Len(C.blocks) + 1)]

CreateBlocks(C, n) == FoldLeft(LAMBDA D, i : moz_compiler_create_block(D, {}), C, [i \in 1..n |-> i])

SetLabel(C, b) == [C EXCEPT !.cur = b]

-----------------------------------------------------------------------------
(***************************************************************************)
(* Constants.  Equal ones are kept once.                                   *)
(***************************************************************************)
PoolOf == [type \in {"Str", "OStr", "RStr"} |-> "strs"] @@ [type \in {"Set", "OSet", "RSet"} |-> "sets"]
          @@ [type \in {"TPop", "TTag"} |-> "tags"]

\* Mutant: strings of one length are taken for equal.
SameText_Length(x, y) == Len(x) = Len(y)

\* The lengths are equal and strncmp, which stops at a NUL, is 0.
SameText(x, y) ==
    /\ Len(x) = Len(y)
    /\ \A i \in DOMAIN x : x[i] = y[i] \/ \E m \in 1..i-1 : x[m] = 0 /\ y[m] = 0

\* The constants of a pool that are found for x.
Same(pool, name, x) == {i \in DOMAIN pool : IF name = "strs" THEN SameText(pool[i], x) ELSE pool[i] = x}

\* moz_compiler_add_string, moz_compiler_add_tag, moz_compiler_add_set: the
\* pools with a constant, and its index.
AddConstant(pools, name, x) ==
    LET same == Same(pools[name], name, x)
    IN  IF same # {} THEN [pools |-> pools, id |-> Min(same) - 1]
        ELSE [pools |-> [pools EXCEPT ![name] = Append(@, x)], id |-> Len(pools[name])]

\* An instruction with its operand as the interpreter finds it: the pools are
\* copied to the runtime.
WithConstant(C, x) == IF x.type \in DOMAIN PoolOf THEN [x EXCEPT !.c = C.pools[PoolOf[x.type]][@ + 1]] ELSE x

-----------------------------------------------------------------------------
(***************************************************************************)
(* Instructions.                                                           *)
(***************************************************************************)
\* A new instruction at the end of the current block.
Emit(C, fail, inst) ==
    LET added == IF inst.type \in DOMAIN PoolOf THEN AddConstant(C.pools, PoolOf[inst.type], inst.c)
                 ELSE [pools |-> C.pools, id |-> inst.c] IN
    [C EXCEPT !.irs = Append(@, [type |-> inst.type, c |-> added.id, target |-> inst.target, fail |-> fail]),
              !.pools = added.pools,
              !.blocks = [block_set_type(C, fail, {"handler"}).blocks
                             EXCEPT ![C.cur].insts = Append(@, Len(C.irs) + 1)],
              !.ok = @ /\ Terminator(C, C.cur) # "Jump"]

\* The current block goes on at block b.
moz_compiler_link(C, fail, b) ==
    [block_link(Emit(C, fail, Jump(b)), C.cur, b) EXCEPT !.ok = @ /\ C.cur # b]

RECURSIVE moz_expr_to_ir(_, _, _)

\* Mutant: all alternatives fail to where the choice fails.
FailOf_Outer(blocks, i, fail) == fail

\* An alternative fails to the next one, the last one to where the choice does.
FailOf(blocks, i, fail) == IF i = Len(blocks) THEN fail ELSE blocks[i + 1]

moz_Choice_to_ir(C, fail, kids) ==
    LET blocks == [i \in 1..Len(kids) |-> Len(C.blocks) + i]
        next   == Len(C.blocks) + Len(kids) + 1
        Alternative(D, e, i) ==
            LET failOf == FailOf(blocks, i, fail)
            IN  moz_compiler_link(moz_expr_to_ir(SetLabel(D, blocks[i]), failOf, e), failOf, next)
        head   == moz_compiler_link(CreateBlocks(C, Len(kids) + 1), fail, blocks[1])
    IN  SetLabel(FoldLeftDomain(LAMBDA D, i : Alternative(D, kids[i], i), head, kids), next)

moz_Sequence_to_ir(C, fail, kids) ==
    LET next     == Len(C.blocks) + 1
        Part(D, i) == moz_expr_to_ir(SetLabel(moz_compiler_link(D, fail, next + i), next + i), fail, kids[i])
        parts    == FoldLeftDomain(Part, CreateBlocks(C, Len(kids) + 1), kids)
    IN  SetLabel(moz_compiler_link(parts, fail, next), next)

\* Blocks head, next and a third one.  The expression goes on at matched or at
\* missed; in next the position is loaded again, the third block fails.
Predicate(C, fail, e, matched, missed) ==
    LET head == Len(C.blocks) + 1
        next == head + 1
        body == moz_expr_to_ir(Emit(SetLabel(moz_compiler_link(CreateBlocks(C, 3), fail, head), head),
                                    missed, Op("PStore")), missed, e)
        load == Emit(SetLabel(moz_compiler_link(body, missed, matched), next), fail, Op("PLoad"))
    IN  SetLabel(moz_compiler_link(SetLabel(load, next + 1), missed, fail), next)

moz_And_to_ir(C, fail, e) == Predicate(C, fail, e, Len(C.blocks) + 2, Len(C.blocks) + 3)

moz_Not_to_ir(C, fail, e) ==
    IF e.type = "Any" THEN Emit(C, fail, Op("NAny"))
    ELSE Predicate(C, fail, e, Len(C.blocks) + 3, Len(C.blocks) + 2)

Optional == [Byte |-> "OByte", Str |-> "OStr", Set |-> "OSet"]
Repeated == [Any |-> "RAny", Byte |-> "RByte", Str |-> "RStr", Set |-> "RSet"]

moz_Option_to_ir(C, fail, e) ==
    LET next == Len(C.blocks) + 1
        body == moz_expr_to_ir(CreateBlocks(C, 1), next, e)
    IN  IF e.type \in DOMAIN Optional THEN Emit(C, fail, Inst(Optional[e.type], e.c, 0))
        ELSE SetLabel(moz_compiler_link(body, next, next), next)

\* The last element goes back to the block where the repetition began.
moz_Repetition_to_ir(C, fail, kids) ==
    LET n      == Len(C.blocks)
        end    == n + Len(kids) + 1
        After(i) == IF i = Len(kids) THEN C.cur ELSE n + i + 1
        Part(D, i) == moz_compiler_link(moz_expr_to_ir(SetLabel(D, n + i), end, kids[i]), end, After(i))
        head   == moz_compiler_link(CreateBlocks(block_set_type(C, C.cur, {"loop"}), Len(kids) + 1), end, n + 1)
    IN  IF Len(kids) = 1 /\ kids[1].type \in DOMAIN Repeated
        THEN Emit(C, fail, Inst(Repeated[kids[1].type], kids[1].c, 0))
        ELSE SetLabel(FoldLeftDomain(Part, head, kids), end)

Emitted == [Any |-> "Any", Byte |-> "Byte", Str |-> "Str", Set |-> "Set", Tnew |-> "TNew",
            Tcapture |-> "TCapture", Tpush |-> "TPush", Tpop |-> "TPop", Ttag |-> "TTag"]

moz_expr_to_ir(C, fail, e) ==
    CASE e.type \in DOMAIN Emitted -> Emit(C, fail, Inst(Emitted[e.type], e.c, 0))
      [] e.type = "Empty"      -> C
      [] e.type = "Invoke"     -> Emit(C, fail, Inst("Invoke", 0, e.c))
      [] e.type = "Fail"       -> Emit(C, fail, Jump(fail))
      [] e.type = "Choice"     -> moz_Choice_to_ir(C, fail, e.kids)
      [] e.type = "Sequence"   -> moz_Sequence_to_ir(C, fail, e.kids)
      [] e.type = "And"        -> moz_And_to_ir(C, fail, e.kids[1])
      [] e.type = "Not"        -> moz_Not_to_ir(C, fail, e.kids[1])
      [] e.type = "Option"     -> moz_Option_to_ir(C, fail, e.kids[1])
      [] e.type = "Repetition" -> moz_Repetition_to_ir(C, fail, e.kids)

\* A rule begins in an entry block and ends in an exit or a fail block.
moz_decl_to_ir(C, body) ==
    LET head == Len(C.blocks) + 1
        exit == head + 1
        fail == head + 2
        init == FoldLeft(moz_compiler_create_block, [C EXCEPT !.entry = Append(@, head)],
                         <<{"entry"}, {"exit"}, {"fail"}>>)
        code == moz_compiler_link(moz_expr_to_ir(SetLabel(init, head), fail, body), fail, exit)
    IN  Emit(SetLabel(Emit(SetLabel(code, exit), fail, Op("Ret")), fail), fail, Op("Fail"))

moz_ast_to_ir(grammar) == FoldLeft(moz_decl_to_ir, NoCode, grammar)

-----------------------------------------------------------------------------
(***************************************************************************)
(* Simplification.  Each operator takes and returns a record of the        *)
(* compilation, the work list and whether it has modified something.       *)
(***************************************************************************)
Push(W, b) == [W EXCEPT !.work = AddOnce(@, b)]

RemoveBlock(C, b) == [C EXCEPT !.order = Without(@, b)]

Special == {"entry", "fail", "loop", "handler"}

\* The predecessors of b that jump to it, in the order they are visited.
Jumping(C, b) == SelectSeq(Reverse(C.blocks[b].preds), LAMBDA p : Terminator(C, p) = "Jump")

\* Mutant: the instructions of b are put at the start of its predecessor.
Merged_AtStart(C, pred, insts) == insts \o Front(C.blocks[pred].insts)

\* The instructions of a predecessor before its jump, then those of b.
Merged(C, pred, insts) == Front(C.blocks[pred].insts) \o insts

\* Remove indirect jump: b, which jumps to succ, is copied into pred.
\* Instructions are shared, but the jump of pred is kept.
MergeInto(W, b, pred) ==
    LET C    == W.C
        succ == C.blocks[b].succs[1]
        jump == Last(C.blocks[pred].insts)
        D    == [C EXCEPT !.blocks[pred].insts = Append(Merged(C, pred, Front(C.blocks[b].insts)), jump),
                          !.irs[jump].target = succ]
        E    == block_set_type(D, pred, C.blocks[b].type)
    IN  Push([W EXCEPT !.C = block_link(block_unlink(E, pred, b), pred, succ)], pred)

\* Merge exit block to predecessor block.
ReturnIn(W, b, pred) ==
    LET C == W.C
        D == [C EXCEPT !.blocks[pred].insts = Merged(C, pred, C.blocks[b].insts)]
    IN  Push([W EXCEPT !.C = block_unlink(block_set_type(D, pred, C.blocks[b].type), pred, b)], pred)

Report(W, n) == [W EXCEPT !.modified = @ \/ n > 0]

RemoveIndirectJump(W, b) ==
    LET preds == Jumping(W.C, b)
        succ  == W.C.blocks[b].succs[1]
        V     == FoldLeft(LAMBDA X, p : MergeInto(X, b, p), W, preds)
        gone  == [block_unlink(RemoveBlock(V.C, b), b, succ) EXCEPT !.blocks[b].insts = <<>>,
                                                                    !.ok = @ /\ preds # <<>>]
        X     == IF Len(preds) = Len(W.C.blocks[b].preds) THEN [V EXCEPT !.C = gone] ELSE V
    IN  Report(IF preds = <<>> THEN X ELSE Push(X, succ), Len(preds))

\* The block keeps its instructions.
MergeExit(W, b) ==
    LET preds == Jumping(W.C, b)
        V     == FoldLeft(LAMBDA X, p : ReturnIn(X, b, p), W, preds)
        C     == [V.C EXCEPT !.ok = @ /\ W.C.blocks[b].succs = <<>> /\ block_is(W.C, b, "exit")]
    IN  Report([V EXCEPT !.C = IF Len(preds) = Len(W.C.blocks[b].preds) THEN RemoveBlock(C, b) ELSE C], Len(preds))

\* A block that no jump names and that jumps itself is freed, and its jump is
\* looked at afterwards; ok is FALSE then.
simplify_cfg(W, b) ==
    LET block == W.C.blocks[b]
    IN  IF block.insts = <<>> \/ block.type \cap Special # {} \/ b \in ToSet(block.preds) THEN W
        ELSE IF Len(block.succs) = 1 /\ Terminator(W.C, b) = "Jump" THEN RemoveIndirectJump(W, b)
        ELSE IF Terminator(W.C, b) = "Ret" THEN MergeExit(W, b)
        ELSE W

\* Mutant: the failures that b handled still name it.
Retarget_Never(C, b, succ) == C

\* Instructions of the blocks that are left that fail to b fail to succ.
Retarget(C, b, succ) ==
    LET left == UNION {ToSet(C.blocks[x].insts) : x \in ToSet(C.order)}
    IN  [C EXCEPT !.irs = Each([id \in DOMAIN C.irs |->
            IF id \in left /\ C.irs[id].fail = b THEN [C.irs[id] EXCEPT !.fail = succ] ELSE C.irs[id]])]

remove_indirect_jump_handler(W, b) ==
    LET C     == [W.C EXCEPT !.ok = @ /\ block_is(W.C, b, "handler")]
        block == C.blocks[b]
        succ  == block.succs[1]
        gone  == [block_unlink(RemoveBlock(C, b), b, succ) EXCEPT !.blocks[b].insts = <<>>]
    IN  IF /\ Len(block.succs) = 1 /\ block.preds = <<>>
           /\ Len(block.insts) = 1 /\ Terminator(C, b) = "Jump" /\ Len(C.blocks[succ].preds) = 1
        THEN Report(Push([W EXCEPT !.C = Retarget(gone, b, succ)], succ), 1)
        ELSE [W EXCEPT !.C = C]

-----------------------------------------------------------------------------
(***************************************************************************)
(* Encoding.  The code is the sequence of all instructions in the order of *)
(* the blocks, each with the addresses where it begins and ends.  The      *)
(* linker knows one head and one tail for an instruction, those of its     *)
(* last copy, and a label is the distance from a tail to a head.           *)
(***************************************************************************)
Labelled == {"Any", "Byte", "Str", "Set", "NAny", "Invoke"}

\* The opcode, labels and operands, in bytes.
Width(type) ==
    1 + (CASE type \in {"Jump", "Any", "NAny"} -> 4
           [] type = "Invoke" -> 8
           [] type = "Byte" -> 5
           [] type \in {"Str", "Set"} -> 6
           [] type \in {"OByte", "RByte", "TNew", "TCapture"} -> 1
           [] type \in {"OStr", "OSet", "RStr", "RSet", "TPop", "TTag"} -> 2
           [] OTHER -> 0)

EncodeBlock(C, code, b) ==
    FoldLeft(LAMBDA s, id : LET at == IF s = <<>> THEN 0 ELSE Last(s).tail
                            IN  Append(s, [id |-> id, head |-> at, tail |-> at + Width(C.irs[id].type)]),
             code, C.blocks[b].insts)

Encode(C) == FoldLeft(LAMBDA s, b : EncodeBlock(C, s, b), <<>>, C.order)

\* The copy of an instruction whose addresses are kept.
Kept(code, id) == SelectLastInSeq(code, LAMBDA x : x.id = id)

First(C, b) == C.blocks[b].insts[1]

\* mozlinker_resolve: the label of instruction id for block b.
Label(C, code, id, b) == code[Kept(code, First(C, b))].head - code[Kept(code, id)].tail

Resolved(C, code, x) ==
    LET ir == C.irs[x.id]
    IN  [type |-> ir.type, c |-> ir.c, head |-> x.head, tail |-> x.tail,
         fail |-> IF ir.type \in Labelled THEN Label(C, code, x.id, ir.fail) ELSE 0,
         jump |-> CASE ir.type = "Jump"   -> Label(C, code, x.id, ir.target)
                    [] ir.type = "Invoke" -> Label(C, code, x.id, C.entry[ir.target])
                    [] OTHER -> 0]

moz_vm2_module_compile(C) == LET code == Encode(C) IN Each([n \in DOMAIN code |-> Resolved(C, code, code[n])])
=============================================================================
