--------------------------------- MODULE VM1 ---------------------------------
(***************************************************************************)
(* The bytecode interpreter of moz (vm1/mozvm1.c, vm1/instruction.def)     *)
(* together with what its instructions change: the operation log of the    *)
(* AST machine, the symbol table and the memo table.                       *)
(*                                                                         *)
(* One step executes one instruction.  A program is a sequence of          *)
(* instructions whose jump targets are indexes into it; the loader has     *)
(* already turned them into relative addresses.  Its first two             *)
(* instructions are bytecode_base, Exit 0 and Exit 1.                      *)
(*                                                                         *)
(* A stack cell is a frame (the five words of PUSH_FRAME) or one pushed    *)
(* word: a return address, a position, an AST transaction or a symbol      *)
(* table savepoint.  The C stack does not tell these apart; an instruction *)
(* whose operand is of another kind has no step here, and the machine      *)
(* would deadlock.                                                         *)
(*                                                                         *)
(* The field was of a cell is history: the log and the symbol table at the *)
(* time when the cell was written.  No guard reads it.                     *)
(***************************************************************************)
EXTENDS Integers, Sequences, SymTable, Memo, AstLog

CONSTANTS
    Programs,       \* a sequence of programs
    Inputs,         \* a set of input texts, sequences of bytes 1..127
    LeftOver,       \* what the unset sym field of a mask entry may hold
    StackSize       \* the number of words of the stack

VARIABLES
    prog, code,     \* the program that runs, an index of Programs, and its code
    input,          \* the text it parses, followed by NUL bytes
    pc, pos, head,  \* PC, CURRENT, runtime->head
    stack, fp,      \* the cells below SP and the cell FP points at (0: none)
    log, lastLinked, parsed,    \* the AstMachine
    table,          \* the symtable
    memo,           \* the memo table
    status          \* "running", or how the parse ended

vars == <<prog, code, input, pc, pos, head, stack, fp, log, lastLinked, parsed, table, memo, status>>

frozen == <<prog, code, input, parsed>>

Start == 3          \* the first instruction after bytecode_base

Instr == code[pc]

OperandsOK(instr) ==
    /\ instr.memoId \in Nat
    /\ instr.op = "Consume" => instr.shift \in Nat
    /\ instr.op \in {"Str", "OStr", "RStr", "NStr"} => Len(instr.arg) \in Nat

ASSUME ProgramAssumption ==
    \A p \in DOMAIN Programs : \A k \in DOMAIN Programs[p] : OperandsOK(Programs[p][k])

ASSUME LeftOverAssumption == \A s \in LeftOver : s # NoSym => Len(s) \in Nat

-----------------------------------------------------------------------------
(***************************************************************************)
(* The stack.                                                              *)
(***************************************************************************)
Snapshot == [log |-> log, table |-> table]

Frame(next) ==
    [kind |-> "frame", fp |-> fp, pos |-> pos, next |-> next,
     ast |-> ast_save_tx(log), sym |-> symtable_savepoint(table), was |-> Snapshot]

RetCell(next) == [kind |-> "ret", next |-> next]
PosCell       == [kind |-> "pos", pos |-> pos]
TxCell        == [kind |-> "tx", ast |-> ast_save_tx(log), was |-> Snapshot]
SymCell       == [kind |-> "sym", sym |-> symtable_savepoint(table), was |-> Snapshot]

Words(s) == Len(s) + 4 * Len(SelectSeq(s, LAMBDA c : c.kind = "frame"))

\* Pushing checks no limit in the code; here it needs room, see Overflow.
Room(cell) == Words(Append(stack, cell)) <= StackSize

PUSH(cell) ==
    /\ Room(cell)
    /\ stack' = Append(stack, cell)
    /\ UNCHANGED fp

PUSH_FRAME(next) ==
    /\ Room(Frame(next))
    /\ stack' = Append(stack, Frame(next))
    /\ fp' = Len(stack) + 1

Top(kind) == stack # <<>> /\ stack[Len(stack)].kind = kind

TopCell == stack[Len(stack)]

POP(kind) ==
    /\ Top(kind)
    /\ stack' = SubSeq(stack, 1, Len(stack) - 1)
    /\ UNCHANGED fp

\* Mutant: the frame itself stays on the stack.
DROP_FRAME_KeepsFrame ==
    /\ fp # 0
    /\ stack' = SubSeq(stack, 1, fp)
    /\ fp' = stack[fp].fp

\* SP = FP, which also drops whatever was pushed above the frame.
DROP_FRAME ==
    /\ fp # 0
    /\ stack' = SubSeq(stack, 1, fp - 1)
    /\ fp' = stack[fp].fp

\* L_fail: back to the innermost frame.  The position is set only when this
\* moves it backwards.
FAIL_IMPL ==
    /\ DROP_FRAME
    /\ pos' = IF stack[fp].pos < pos THEN stack[fp].pos ELSE pos
    /\ head' = IF stack[fp].pos < pos /\ head < pos THEN pos ELSE head
    /\ log' = ast_rollback_tx(log, stack[fp].ast)
    /\ table' = symtable_rollback(table, stack[fp].sym)
    /\ pc' = stack[fp].next
    /\ UNCHANGED lastLinked

At(ops) == status = "running" /\ pc \in DOMAIN code /\ Instr.op \in ops

-----------------------------------------------------------------------------
(***************************************************************************)
(* Control.                                                                *)
(***************************************************************************)
Nop ==
    /\ At({"Nop", "Label"})
    /\ pc' = pc + 1
    /\ UNCHANGED <<frozen, pos, head, stack, fp, log, lastLinked, table, memo, status>>

Fail ==
    /\ At({"Fail"})
    /\ FAIL_IMPL
    /\ UNCHANGED <<frozen, memo, status>>

Alt ==
    /\ At({"Alt"})
    /\ PUSH_FRAME(Instr.to)
    /\ pc' = pc + 1
    /\ UNCHANGED <<frozen, pos, head, log, lastLinked, table, memo, status>>

Succ ==
    /\ At({"Succ"})
    /\ DROP_FRAME
    /\ pc' = pc + 1
    /\ UNCHANGED <<frozen, pos, head, log, lastLinked, table, memo, status>>

Jump ==
    /\ At({"Jump"})
    /\ pc' = Instr.to
    /\ UNCHANGED <<frozen, pos, head, stack, fp, log, lastLinked, table, memo, status>>

Call ==
    /\ At({"Call"})
    /\ PUSH(RetCell(Instr.next))
    /\ pc' = Instr.to
    /\ UNCHANGED <<frozen, pos, head, log, lastLinked, table, memo, status>>

Ret ==
    /\ At({"Ret"})
    /\ POP("ret")
    /\ pc' = TopCell.next
    /\ UNCHANGED <<frozen, pos, head, log, lastLinked, table, memo, status>>

Pos ==
    /\ At({"Pos"})
    /\ PUSH(PosCell)
    /\ pc' = pc + 1
    /\ UNCHANGED <<frozen, pos, head, log, lastLinked, table, memo, status>>

Back ==
    /\ At({"Back"})
    /\ POP("pos")
    /\ pos' = TopCell.pos
    /\ pc' = pc + 1
    /\ UNCHANGED <<frozen, head, log, lastLinked, table, memo, status>>

\* The end of a loop body: fail when the body matched nothing, else move the
\* loop's frame up to here.  A loop body leaves the stack as it found it, so
\* the frame is the top cell.
\* Mutants: the AST savepoint of the frame stays where it was; a body that
\* matches nothing repeats.
SkipFrame_KeepsSavepoint == [Frame(stack[fp].next) EXCEPT !.fp = stack[fp].fp, !.ast = stack[fp].ast]

Progress_NotChecked == TRUE

SkipFrame == [Frame(stack[fp].next) EXCEPT !.fp = stack[fp].fp]

Progress == stack[fp].pos # pos

Skip ==
    /\ At({"Skip"})
    /\ fp # 0 /\ fp = Len(stack)
    /\ \/ /\ ~Progress
          /\ FAIL_IMPL
       \/ /\ Progress
          /\ stack' = [stack EXCEPT ![fp] = SkipFrame]
          /\ pc' = pc + 1
          /\ UNCHANGED <<pos, head, fp, log, lastLinked, table>>
    /\ UNCHANGED <<frozen, memo, status>>

Exit ==
    /\ At({"Exit"})
    /\ status' = IF Instr.arg = 0 THEN "accept" ELSE "reject"
    /\ UNCHANGED <<frozen, pc, pos, head, stack, fp, log, lastLinked, table, memo>>

\* ABORT(): the instructions that are not implemented.
Abort ==
    /\ At({"OAny", "RAny", "TAbort", "SDefNum", "SCount"})
    /\ status' = "abort"
    /\ UNCHANGED <<frozen, pc, pos, head, stack, fp, log, lastLinked, table, memo>>

-----------------------------------------------------------------------------
(***************************************************************************)
(* Matching input.                                                         *)
(***************************************************************************)
NUL == 0

CharAt(at) == IF at < Len(input) THEN input[at + 1] ELSE NUL

StartsWith(at, str) ==
    /\ at + Len(str) <= Len(input)
    /\ SubSeq(input, at + 1, at + Len(str)) = str

\* What the operand of a Byte, Set or Str instruction matches at a position,
\* and how much of the input that is.
Matches(kind, at) ==
    CASE kind = "Byte" -> CharAt(at) = Instr.arg
      [] kind = "Set"  -> CharAt(at) \in Instr.arg
      [] kind = "Str"  -> StartsWith(at, Instr.arg)
      [] kind = "Any"  -> at # Len(input)

Width(kind) == IF kind = "Str" THEN Len(Instr.arg) ELSE 1

Kind ==
    CASE Instr.op \in {"Byte", "NByte", "OByte", "RByte"} -> "Byte"
      [] Instr.op \in {"Set", "NSet", "OSet", "RSet"}     -> "Set"
      [] Instr.op \in {"Str", "NStr", "OStr", "RStr"}     -> "Str"
      [] Instr.op \in {"Any", "NAny"}                     -> "Any"

Advance(n) ==
    /\ pos' = pos + n
    /\ pc' = pc + 1
    /\ UNCHANGED <<head, stack, fp, log, lastLinked, table>>

Match ==
    /\ At({"Byte", "Any", "Str", "Set"})
    /\ \/ Matches(Kind, pos) /\ Advance(Width(Kind))
       \/ ~Matches(Kind, pos) /\ FAIL_IMPL
    /\ UNCHANGED <<frozen, memo, status>>

NotMatch ==
    /\ At({"NByte", "NAny", "NStr", "NSet"})
    /\ \/ ~Matches(Kind, pos) /\ Advance(0)
       \/ Matches(Kind, pos) /\ FAIL_IMPL
    /\ UNCHANGED <<frozen, memo, status>>

OptMatch ==
    /\ At({"OByte", "OStr", "OSet"})
    /\ Advance(IF Matches(Kind, pos) THEN Width(Kind) ELSE 0)
    /\ UNCHANGED <<frozen, memo, status>>

\* The longest run of matches; the loop ends because its operand is not empty
\* and the NUL after the input is in no operand.
LongestRun(n) ==
    /\ \A k \in 0..n-1 : Matches(Kind, pos + k * Width(Kind))
    /\ ~Matches(Kind, pos + n * Width(Kind))

RepMatch ==
    /\ At({"RByte", "RStr", "RSet"})
    /\ \E n \in 0..Len(input) : LongestRun(n) /\ Advance(n * Width(Kind))
    /\ UNCHANGED <<frozen, memo, status>>

\* The shift is an int8_t; the programs consume forwards (OperandsOK).
Consume ==
    /\ At({"Consume"})
    /\ Advance(Instr.shift)
    /\ UNCHANGED <<frozen, memo, status>>

\* First, and the bit-sliced tables TblJump1..3 that replace it.
First ==
    /\ At({"First", "TblJump1", "TblJump2", "TblJump3"})
    /\ pc' = Instr.arg[CharAt(pos)]
    /\ UNCHANGED <<frozen, pos, head, stack, fp, log, lastLinked, table, memo, status>>

-----------------------------------------------------------------------------
(***************************************************************************)
(* Memoization.                                                            *)
(***************************************************************************)
Entry == memo_entry(memo, pos, Instr.memoId)
Hit   == memo_hit(memo, pos, Instr.memoId, Instr.state)

\* ast_log_link and ast_commit_tx set last_linked with the log.
\* Mutant: last_linked is not set.
Link_KeepsLastLinked(newLog, node) == log' = newLog /\ lastLinked' = lastLinked

Link(newLog, node) == log' = newLog /\ lastLinked' = node

\* Lookup and TLookup: a hit skips the memoized expression; TLookup links the
\* memoized node.
Lookup ==
    /\ At({"Lookup", "TLookup"})
    /\ \/ /\ ~Hit
          /\ pc' = pc + 1
          /\ UNCHANGED <<pos, head, stack, fp, log, lastLinked, table>>
       \/ /\ Hit /\ Entry.result = FailedResult
          /\ FAIL_IMPL
       \/ /\ Hit /\ Entry.result # FailedResult
          /\ pos' = pos + Entry.consumed
          /\ pc' = Instr.to
          /\ IF Instr.op = "TLookup"
             THEN Link(ast_log_link(log, Instr.label, Entry.result), Entry.result)
             ELSE UNCHANGED <<log, lastLinked>>
          /\ UNCHANGED <<head, stack, fp, table>>
    /\ UNCHANGED <<frozen, memo, status>>

\* Mutant: the difference is taken the wrong way round.
MemoConsumed_Swapped == stack[fp].pos - pos

MemoConsumed == pos - stack[fp].pos

\* Memo and TMemo drop the frame of the memoized expression and record what it
\* consumed; TMemo records the node linked last.
Memoize ==
    /\ At({"Memo", "TMemo"})
    /\ DROP_FRAME
    /\ memo' = memo_set(memo, stack[fp].pos, Instr.memoId,
                        IF Instr.op = "TMemo" THEN lastLinked ELSE NoNode,
                        MemoConsumed, Instr.state)
    /\ pc' = pc + 1
    /\ UNCHANGED <<frozen, pos, head, log, lastLinked, table, status>>

MemoFail ==
    /\ At({"MemoFail"})
    /\ memo' = memo_fail(memo, pos, Instr.memoId)
    /\ FAIL_IMPL
    /\ UNCHANGED <<frozen, status>>

-----------------------------------------------------------------------------
(***************************************************************************)
(* The AST machine.                                                        *)
(***************************************************************************)
Logged(newLog) ==
    /\ log' = newLog
    /\ pc' = pc + 1
    /\ UNCHANGED <<frozen, pos, head, stack, fp, lastLinked, table, memo, status>>

TPush     == At({"TPush"})     /\ Logged(ast_log_push(log))
TPop      == At({"TPop"})      /\ Logged(ast_log_pop(log, Instr.label))
TLeftFold == At({"TLeftFold"}) /\ Logged(ast_log_swap(log, pos + Instr.shift, Instr.label))
TNew      == At({"TNew"})      /\ Logged(ast_log_new(log, pos + Instr.shift))
TCapture  == At({"TCapture"})  /\ Logged(ast_log_capture(log, pos + Instr.shift))
TTag      == At({"TTag"})      /\ Logged(ast_log_tag(log, Instr.arg))
TReplace  == At({"TReplace"})  /\ Logged(ast_log_replace(log, Instr.arg))

TStart ==
    /\ At({"TStart"})
    /\ PUSH(TxCell)
    /\ pc' = pc + 1
    /\ UNCHANGED <<frozen, pos, head, log, lastLinked, table, memo, status>>

\* The node of the transaction replaces its log entries by one link.
TCommit ==
    /\ At({"TCommit"})
    /\ POP("tx")
    /\ \/ /\ CanCreate(Segment(log, TopCell.ast))
          /\ Link(ast_commit_tx(log, Instr.label, TopCell.ast),
                  ast_create_node(Segment(log, TopCell.ast)))
          /\ UNCHANGED status
       \/ /\ ~CanCreate(Segment(log, TopCell.ast))
          /\ status' = "crash"
          /\ UNCHANGED <<log, lastLinked>>
    /\ pc' = pc + 1
    /\ UNCHANGED <<frozen, pos, head, table, memo>>

-----------------------------------------------------------------------------
(***************************************************************************)
(* The symbol table.                                                       *)
(***************************************************************************)
\* The text between the position on top of the stack and the current one.
Captured == SubSeq(input, TopCell.pos + 1, pos)

SOpen ==
    /\ At({"SOpen"})
    /\ PUSH(SymCell)
    /\ pc' = pc + 1
    /\ UNCHANGED <<frozen, pos, head, log, lastLinked, table, memo, status>>

SClose ==
    /\ At({"SClose"})
    /\ POP("sym")
    /\ table' = symtable_rollback(table, TopCell.sym)
    /\ pc' = pc + 1
    /\ UNCHANGED <<frozen, pos, head, log, lastLinked, memo, status>>

SMask ==
    /\ At({"SMask"})
    /\ PUSH(SymCell)
    /\ \E s \in LeftOver : table' = symtable_add_symbol_mask(table, Instr.arg, s)
    /\ pc' = pc + 1
    /\ UNCHANGED <<frozen, pos, head, log, lastLinked, memo, status>>

SDef ==
    /\ At({"SDef"})
    /\ POP("pos")
    /\ table' = symtable_add_symbol(table, Instr.arg, Captured)
    /\ pc' = pc + 1
    /\ UNCHANGED <<frozen, pos, head, log, lastLinked, memo, status>>

\* SIsDef and SExists only test the table.
SymTest ==
    IF Instr.op = "SIsDef" THEN symtable_contains(table, Instr.arg, Instr.label)
                           ELSE symtable_has_symbol(table, Instr.arg)

STest ==
    /\ At({"SIsDef", "SExists"})
    /\ \/ SymTest /\ Advance(0)
       \/ ~SymTest /\ FAIL_IMPL
    /\ UNCHANGED <<frozen, memo, status>>

\* SMatch matches the innermost symbol again.
Symbol == symtable_get_symbol(table, Instr.arg)

SMatch ==
    /\ At({"SMatch"})
    /\ \/ Symbol # NoSym /\ StartsWith(pos, Symbol) /\ Advance(Len(Symbol))
       \/ (Symbol = NoSym \/ ~StartsWith(pos, Symbol)) /\ FAIL_IMPL
    /\ UNCHANGED <<frozen, memo, status>>

\* SIs and SIsa compare the captured text with the innermost symbol and with
\* all of them.  Where they fail, the frame drops the position they popped or
\* did not pop.
IsSymbol ==
    IF Instr.op = "SIs" THEN Symbol # NoSym /\ Symbol = Captured
                        ELSE symtable_contains(table, Instr.arg, Captured)

SIs ==
    /\ At({"SIs", "SIsa"})
    /\ Top("pos")
    /\ \/ /\ IsSymbol
          /\ POP("pos")
          /\ pc' = pc + 1
          /\ UNCHANGED <<pos, head, log, lastLinked, table>>
       \/ /\ ~IsSymbol
          /\ FAIL_IMPL
    /\ UNCHANGED <<frozen, memo, status>>

-----------------------------------------------------------------------------
(***************************************************************************)
(* The parse.  moz_runtime_parse_init pushes a frame whose failure is      *)
(* Exit 1 and the return address Exit 0.                                   *)
(***************************************************************************)
Init ==
    /\ \E p \in DOMAIN Programs : prog = p /\ code = Programs[p]
    /\ input \in Inputs
    /\ pc = Start /\ pos = 0 /\ head = 0
    /\ stack = << [kind |-> "frame", fp |-> 0, pos |-> 0, next |-> 2, ast |-> 0, sym |-> 0,
                   was |-> [log |-> <<>>, table |-> <<>>]],
                  [kind |-> "ret", next |-> 1] >>
    /\ fp = 1
    /\ log = <<>> /\ lastLinked = NoNode /\ parsed = NoNode
    /\ table = <<>>
    /\ memo = memo_elastic_init
    /\ status = "running"

\* The cell an instruction is about to push.
Pushes(op) ==
    CASE op = "Alt"  -> Frame(Instr.to)
      [] op = "Call" -> RetCell(Instr.next)
      [] op = "Pos"  -> PosCell
      [] op = "TStart" -> TxCell
      [] op \in {"SOpen", "SMask"} -> SymCell

\* A push beyond the last word of the stack writes over other memory.
Overflow ==
    /\ At({"Alt", "Call", "Pos", "TStart", "SOpen", "SMask"})
    /\ ~Room(Pushes(Instr.op))
    /\ status' = "overflow"
    /\ UNCHANGED <<frozen, pc, pos, head, stack, fp, log, lastLinked, table, memo>>

\* The client of an accepted parse takes the root node.  A log without a New
\* makes ast_get_parsed_node retain NULL.
GetParsed ==
    /\ status = "accept"
    /\ \/ /\ log = <<>>
          /\ status' = "done"
          /\ UNCHANGED <<parsed, log>>
       \/ /\ log # <<>> /\ FirstNew(log) # 0 /\ CanCreate(RootSegment(log))
          /\ parsed' = ast_create_node(RootSegment(log))
          /\ log' = ast_rollback_tx(log, 0)
          /\ status' = "done"
       \/ /\ log # <<>> /\ ~(FirstNew(log) # 0 /\ CanCreate(RootSegment(log)))
          /\ status' = "crash"
          /\ UNCHANGED <<parsed, log>>
    /\ UNCHANGED <<prog, code, input, pc, pos, head, stack, fp, lastLinked, table, memo>>

Ended == {"done", "reject", "abort", "crash", "overflow"}

Terminated == status \in Ended /\ UNCHANGED vars

Control  == Nop \/ Fail \/ Alt \/ Succ \/ Jump \/ Call \/ Ret \/ Pos \/ Back \/ Skip
              \/ Exit \/ Abort \/ Overflow
Matching == Match \/ NotMatch \/ OptMatch \/ RepMatch \/ Consume \/ First
Memoing  == Lookup \/ Memoize \/ MemoFail
Building == TPush \/ TPop \/ TLeftFold \/ TNew \/ TCapture \/ TTag \/ TReplace
              \/ TStart \/ TCommit
Symbols  == SOpen \/ SClose \/ SMask \/ SDef \/ STest \/ SMatch \/ SIs

Step == Control \/ Matching \/ Memoing \/ Building \/ Symbols \/ GetParsed

Next == Step \/ Terminated

\* The interpreter is one thread that always executes its next instruction.
\* This is WF_vars(Step), where what enables Step is written out: a parse that
\* has not ended (that no other state is stuck is what deadlock checks).
Fairness == []<>(status \in Ended) \/ []<><<Step>>_vars

Spec == Init /\ [][Next]_vars /\ Fairness

-----------------------------------------------------------------------------
(***************************************************************************)
(* What the interpreter guarantees while it runs, whatever the program.    *)
(***************************************************************************)
Running == status = "running"

HasPos(c) == c.kind \in {"frame", "pos"}
HasAst(c) == c.kind \in {"frame", "tx"}
HasSym(c) == c.kind \in {"frame", "sym"}

CellOK(c) ==
    /\ c.kind \in {"frame", "ret", "pos", "tx", "sym"}
    /\ HasPos(c) => c.pos \in Nat
    /\ HasAst(c) => c.ast \in Nat
    /\ HasSym(c) => c.sym \in Nat

MemoOK(m) == DOMAIN m = 0..memo_len-1 /\ \A k \in DOMAIN m : m[k].consumed \in Nat

\* The type invariant: stack, log and table are sequences, every cell of the
\* stack has the words of its kind, every symbol is a text, and the memo table
\* has a slot for every index.
TypeOK ==
    /\ status \in Ended \union {"running", "accept"}
    /\ \A k \in DOMAIN code : OperandsOK(code[k])
    /\ pos \in Nat
    /\ IsSeq(log) /\ IsSeq(table) /\ IsSeq(stack)
    /\ \A i \in 1..Len(stack) : CellOK(stack[i])
    /\ Texts(table)
    /\ MemoOK(memo)

\* top is the innermost frame of a stack and the saved FP of every frame is the
\* next frame out.
Chain(stk, top) ==
    /\ top # 0 => top \in 1..Len(stk) /\ stk[top].kind = "frame"
    /\ \A i \in 1..Len(stk) : stk[i].kind = "frame" =>
          /\ i <= top
          /\ stk[i].fp \in 0..i-1
          /\ stk[i].fp # 0 => stk[stk[i].fp].kind = "frame"
          /\ \A j \in 1..i-1 : stk[j].kind = "frame" => j <= stk[i].fp

\* FP points at the innermost frame (PUSH_FRAME, POP_FRAME, DROP_FRAME): a
\* failure never skips an alternative that is still open nor returns to one
\* that is closed.
FrameChain == Running => Chain(stack, fp)

\* The savepoints of a stack grow from its bottom to its top, up to the bounds.
Nest(stk, p, logLen, tableLen) ==
    /\ \A i \in 1..Len(stk) :
          /\ HasPos(stk[i]) => stk[i].pos <= p
          /\ HasAst(stk[i]) => stk[i].ast <= logLen
          /\ HasSym(stk[i]) => stk[i].sym <= tableLen
    /\ \A i \in 1..Len(stk) : \A j \in 1..i-1 :
          /\ HasPos(stk[i]) /\ HasPos(stk[j]) => stk[j].pos <= stk[i].pos
          /\ HasAst(stk[i]) /\ HasAst(stk[j]) => stk[j].ast <= stk[i].ast
          /\ HasSym(stk[i]) /\ HasSym(stk[j]) => stk[j].sym <= stk[i].sym

\* The positions, log lengths and table sizes saved on the stack are in order
\* and none is beyond the current one.
SavepointsNest == Running => Nest(stack, pos, Len(log), Len(table))

Exact(stk, lg, tbl) ==
    \A i \in 1..Len(stk) :
        /\ HasAst(stk[i]) => SubSeq(lg, 1, stk[i].ast) = stk[i].was.log
        /\ HasSym(stk[i]) => SubSeq(tbl, 1, stk[i].sym) = stk[i].was.table

\* What a savepoint cuts off is exactly what was added after it: below it the
\* log and the symbol table are still what they were when it was taken,
\* whatever commits, rollbacks, scopes and memo hits came in between.
BacktrackExact == Running => Exact(stack, log, table)

\* A step that ends a frame by a failure, and not by Succ, Memo or TMemo.
Failing ==
    /\ Running /\ fp # 0 /\ fp' # fp /\ Len(stack') < fp
    /\ Instr.op \notin {"Succ", "Memo", "TMemo"}

\* L_fail undoes the failed alternative completely: position, log and symbol
\* table are those of the moment its frame was pushed (or moved by Skip), even
\* though the position is only ever restored backwards.
FailRestores ==
    [][Failing => /\ pos'   = stack[fp].pos
                  /\ log'   = stack[fp].was.log
                  /\ table' = stack[fp].was.table]_vars

\* A rejected parse leaves an empty log, symbol table and stack, and an accepted
\* one just the outermost frame, so that the next parse starts clean.
EndsClean ==
    /\ status = "reject" => log = <<>> /\ table = <<>> /\ stack = <<>> /\ pos = 0
    /\ status = "accept" => fp = 1 /\ Len(stack) = 1

\* The assertions of ast_create_node hold wherever a node is built.
NoCrash == status # "crash"

\* Every parse ends: Skip leaves a loop whose body matched nothing.
Terminates == <>(status \in Ended)
=============================================================================
