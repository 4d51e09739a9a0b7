-------------------------------- MODULE VM2 ---------------------------------
(***************************************************************************)
(* From the expressions of a grammar to a parse with the second            *)
(* interpreter: the code generator of the compiler (PegIR), one step for   *)
(* each block that a pass looks at, and the instructions of vm2            *)
(* (vm2/vm2.vmdef, vm2/mozvm2.c) on the bytes of the linked code.          *)
(*                                                                         *)
(* A grammar is a sequence of expressions, the bodies of the rules that    *)
(* the optimiser left; all of them are in use.                             *)
(***************************************************************************)
EXTENDS PegIR
LOCAL INSTANCE SequencesExt
LOCAL INSTANCE FiniteSetsExt

CONSTANTS
    Grammars,
    Bytes,          \* the characters of inputs, without NUL
    InputBound,     \* the longest input
    StackBound      \* the words of the stack

Inputs == UNION {[1..n -> Bytes] : n \in 0..InputBound}

VARIABLES
    grammar,
    W,              \* C, the compilation; work, the work list; modified
    phase,          \* "translate", "cfg", "handlers", "linked", "run"
    code,           \* the linked code
    input,
    vm              \* the interpreter: pc, cur, stack, fp, did, status

vars == <<grammar, W, phase, code, input, vm>>

-----------------------------------------------------------------------------
(***************************************************************************)
(* The compiler: moz_ast_to_ir, moz_ir_optimize, moz_vm2_module_compile.   *)
(***************************************************************************)
\* An address in the code, in the two exit instructions of the interpreter, or
\* a number that is no address.
Pointer(base, at) == [base |-> base, at |-> at]

Idle == [pc |-> Pointer("code", 0), cur |-> 0, stack |-> <<>>, fp |-> 0, did |-> <<>>, status |-> "running"]

Init ==
    /\ grammar \in Grammars
    /\ W = [C |-> NoCode, work |-> <<>>, modified |-> FALSE]
    /\ phase = "translate"
    /\ code = <<>>
    /\ input = <<>>
    /\ vm = Idle

\* Mutant: the second pass looks at all blocks.
Handlers_All(C) == C.order

Handlers(C) == SelectSeq(C.order, LAMBDA b : block_is(C, b, "handler"))

\* Mutant: modified is not reset.
moz_ir_optimize_NoReset(C) == [C |-> C, work |-> C.order, modified |-> TRUE]

moz_ir_optimize(C) == [C |-> C, work |-> C.order, modified |-> FALSE]

Translate ==
    /\ phase = "translate"
    /\ LET C == moz_ast_to_ir(grammar)
       IN  W' = moz_ir_optimize([C EXCEPT !.ok = @ /\ \A b \in ToSet(C.order) : Terminator(C, b) # "None"])
    /\ phase' = "cfg"
    /\ UNCHANGED <<grammar, code, input, vm>>

\* One step of WORK_LIST_apply takes the last block of the list.
Simplify ==
    /\ phase \in {"cfg", "handlers"}
    /\ W.work # <<>>
    /\ LET X == [W EXCEPT !.work = Front(@)]
       IN  W' = IF phase = "cfg" THEN simplify_cfg(X, Last(W.work)) ELSE remove_indirect_jump_handler(X, Last(W.work))
    /\ UNCHANGED <<grammar, phase, code, input, vm>>

NextPass ==
    /\ W.work = <<>>
    /\ \/ /\ phase = "cfg"
          /\ phase' = "handlers"
          /\ W' = [W EXCEPT !.work = Handlers(W.C)]
          /\ UNCHANGED code
       \/ /\ phase = "handlers" /\ W.modified
          /\ phase' = "cfg"
          /\ W' = moz_ir_optimize(W.C)
          /\ UNCHANGED code
       \/ /\ phase = "handlers" /\ ~ W.modified
          /\ phase' = "linked"
          /\ code' = moz_vm2_module_compile(W.C)
          /\ UNCHANGED W
    /\ UNCHANGED <<grammar, input, vm>>

-----------------------------------------------------------------------------
(***************************************************************************)
(* The interpreter.  The stack is a sequence of words: positions that      *)
(* PStore left, and frames of four words: the enclosing frame, the         *)
(* position, where a return and where a failure goes.                      *)
(***************************************************************************)
FrameSize == 4

Frame(fp, pos, next, fail) == <<fp, pos, next, fail>>

\* moz_vm2_runtime_parse
Start ==
    /\ phase = "linked"
    /\ input' \in Inputs
    /\ phase' = "run"
    /\ vm' = [Idle EXCEPT !.stack = Frame(0, 0, Pointer("exits", 0), Pointer("exits", 2)), !.fp = 1]
    /\ UNCHANGED <<grammar, W, code>>

\* The instruction at the program counter.  Between two instructions, or
\* outside of the code, there is none.
Here == {x \in ToSet(code) : vm.pc = Pointer("code", x.head)}

Running == phase = "run" /\ vm.status = "running"

Execute(types, Do(_)) ==
    /\ Running
    /\ \E x \in Here : x.type \in types /\ vm' = Do(x)
    /\ UNCHANGED <<grammar, W, phase, code, input>>

\* What is read when an instruction has its operands.
GoOn(x, v)        == [v EXCEPT !.pc = Pointer("code", x.tail)]
JUMP(x, label, v) == [v EXCEPT !.pc = Pointer("code", x.tail + label)]

Single   == {"Any", "Byte", "Str", "Set"}
Maybe    == {"OByte", "OStr", "OSet"}
Many     == {"RAny", "RByte", "RStr", "RSet"}

TerminalOf(x) ==
    Tree(CASE x.type \in {"OByte", "RByte"} -> "Byte"
           [] x.type \in {"OStr", "RStr"} -> "Str"
           [] x.type \in {"OSet", "RSet"} -> "Set"
           [] x.type = "RAny" -> "Any"
           [] OTHER -> x.type, x.c, <<>>)

RECURSIVE AfterMany(_, _, _)
AfterMany(w, e, i) == LET n == Matched(w, e, i) IN IF n = -1 THEN i ELSE AfterMany(w, e, i + n)

\* The position after a matching instruction, -1 if it fails.  At the end the
\* interpreter reads the NUL behind the input.
AfterMatch(w, x, i) ==
    LET n == Matched(w, TerminalOf(x), i)
    IN  CASE x.type = "NAny"     -> IF i < Len(w) THEN -1 ELSE i
          [] x.type \in Single   -> IF n = -1 THEN -1 ELSE i + n
          [] x.type \in Maybe    -> IF n = -1 THEN i ELSE i + n
          [] x.type \in Many     -> AfterMany(w, TerminalOf(x), i)

Matching == Single \cup Maybe \cup Many \cup {"NAny"}

\* A failure is a jump: position, log and stack stay as they are.
FAIL(x, v) == JUMP(x, x.fail, v)

IMatch ==
    Execute(Matching, LAMBDA x :
        LET i == AfterMatch(input, WithConstant(W.C, x), vm.cur)
        IN  IF i = -1 THEN FAIL(x, vm) ELSE GoOn(x, [vm EXCEPT !.cur = i]))

IJump == Execute({"Jump"}, LAMBDA x : JUMP(x, x.jump, vm))

\* Beyond the end of the stack memory of others is overwritten.
Overflows(words) == Len(vm.stack) + words > StackBound

IPStore ==
    Execute({"PStore"}, LAMBDA x :
        IF Overflows(1) THEN [vm EXCEPT !.status = "overflow"]
        ELSE GoOn(x, [vm EXCEPT !.stack = Append(@, vm.cur)]))

\* A word of a frame is no position.
IPLoad ==
    Execute({"PLoad"}, LAMBDA x :
        IF Len(vm.stack) < vm.fp + FrameSize THEN [vm EXCEPT !.status = "astray"]
        ELSE GoOn(x, [vm EXCEPT !.cur = Last(vm.stack), !.stack = Front(@)]))

\* The frame keeps the label of the instruction, which is no address.
IInvoke ==
    Execute({"Invoke"}, LAMBDA x :
        IF Overflows(FrameSize) THEN [vm EXCEPT !.status = "overflow"]
        ELSE JUMP(x, x.jump,
                  [vm EXCEPT !.fp = Len(vm.stack) + 1,
                             !.stack = @ \o Frame(vm.fp, vm.cur, Pointer("code", x.tail), Pointer("number", x.fail))]))

\* POP_FRAME
Popped == [vm EXCEPT !.stack = SubSeq(@, 1, vm.fp - 1), !.fp = vm.stack[vm.fp]]

IRet == Execute({"Ret"}, LAMBDA x : [Popped EXCEPT !.pc = vm.stack[vm.fp + 2]])

IFail == Execute({"Fail"}, LAMBDA x : [Popped EXCEPT !.cur = vm.stack[vm.fp + 1], !.pc = vm.stack[vm.fp + 3]])

\* Operations on the log of the AST machine, with what they are given.
ITree ==
    Execute({"TNew", "TCapture", "TPush"},
            LAMBDA x : GoOn(x, [vm EXCEPT !.did = Append(@, <<x.type, vm.cur>>)]))

ITagged ==
    Execute({"TPop", "TTag"},
            LAMBDA x : GoOn(x, [vm EXCEPT !.did = Append(@, <<x.type, WithConstant(W.C, x).c, vm.cur>>)]))

IExit ==
    /\ Running /\ vm.pc.base = "exits"
    /\ vm' = [vm EXCEPT !.status = IF vm.pc.at = 0 THEN "matched" ELSE "failed"]
    /\ UNCHANGED <<grammar, W, phase, code, input>>

\* The program counter is at no instruction.
Astray ==
    /\ Running /\ vm.pc.base # "exits" /\ Here = {}
    /\ vm' = [vm EXCEPT !.status = "astray"]
    /\ UNCHANGED <<grammar, W, phase, code, input>>

Compile   == Translate \/ Simplify \/ NextPass
Interpret == \/ IMatch \/ IJump \/ IPStore \/ IPLoad \/ IInvoke \/ IRet \/ IFail
             \/ ITree \/ ITagged \/ IExit \/ Astray

Next == Compile \/ Start \/ Interpret

\* The compiler and the interpreter go on until they are done.
Fairness == []<>(vm.status # "running") \/ []<><<Next>>_vars

Spec == Init /\ [][Next]_vars /\ Fairness
=============================================================================
