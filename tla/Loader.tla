------------------------------- MODULE Loader -------------------------------
(***************************************************************************)
(* The bytecode loader (loader.c), with the optimisation on, as all its    *)
(* callers have it.  After the constants of the file it makes two passes   *)
(* over the instructions: the first decodes them and writes instructions   *)
(* of other widths to a buffer, the second walks the buffer, replaces      *)
(* indexes of instructions by relative addresses, in place, and rewrites   *)
(* jumps to a return into returns.  What was loaded is used for parses,    *)
(* which are not part of this module, and freed by the runtime             *)
(* (runtime.c) and by the loader.                                          *)
(*                                                                         *)
(* An instruction of the file is a record: its opcode, its operands by     *)
(* kind (data; the table of First is a function on 0..TableSize), and next,*)
(* the target that follows when bit 0x80 of the opcode is set.             *)
(* Instructions are numbered from 0, as in the file.  An instruction of    *)
(* the buffer has its operands in their order.                             *)
(***************************************************************************)
EXTENDS JumpTable, BytecodeFile, SequencesExt

CONSTANTS
    UseProd,        \* MOZVM_USE_PROD
    None            \* no next, nothing

-----------------------------------------------------------------------------
(***************************************************************************)
(* Opcodes that have their operands in common.                             *)
(***************************************************************************)
Chars   == {"Byte", "NByte", "OByte", "RByte"}
Strings == {"Str", "NStr", "OStr", "RStr", "TReplace"}
BitSets == {"Set", "NSet", "OSet", "RSet"}
Shifts  == {"Consume", "TNew", "TCapture"}
Tags    == {"TPop", "TTag", "TCommit"}
Symbols == {"SMask", "SDef", "SExists", "SMatch", "SIs", "SIsa"}
Memos   == {"Memo", "MemoFail", "TMemo"}
Jumps   == {"TblJump1", "TblJump2", "TblJump3", "First"}
Others  == {"Nop", "Label", "Fail", "Succ", "Pos", "Back", "Skip", "Any", "NAny", "OAny", "RAny", "TPush",
            "TStart", "SOpen", "SClose", "Exit", "Alt", "Jump", "Call", "Ret", "Lookup", "TLookup",
            "TLeftFold", "SIsDef"}
Opcodes == Chars \cup Strings \cup BitSets \cup Shifts \cup Tags \cup Symbols \cup Memos \cup Jumps \cup Others

\* Instructions of a file have their jumps in a First.
FileOpcodes == Opcodes \ {"TblJump1", "TblJump2", "TblJump3"}

\* What the compiler of nez writes: known opcodes, tables as First only, and one
\* label, without a next, for a production, which is one of those counted in the
\* header.
ASSUME FilesAssumption ==
    \A f \in Files :
        LET label(i) == f.insts[i].data.label
            Labels   == {i \in DOMAIN f.insts : f.insts[i].op = "Label"}
        IN  /\ Len(f.head) >= 12
            /\ Len(f.insts) \in Nat /\ DOMAIN f.insts = 1..Len(f.insts)
            /\ \A i \in DOMAIN f.insts : f.insts[i].op \in FileOpcodes
            /\ \A i \in Labels : f.insts[i].next = None /\ label(i) \in 0..ProdSize(f)-1
            /\ \A i, k \in Labels : label(i) = label(k) => i = k

\* None is no opcode.
ASSUME NoneAssumption == None \notin Opcodes

VARIABLES
    table,          \* L->table: the address of every instruction read
    buf,            \* L->buf: instructions with their addresses
    pools,          \* C.jumps, C.jumps1, C.jumps2, C.jumps3
    prods,          \* begin and end of the productions, by number
    prod,           \* the production that is being read
    j,              \* the address that the second pass has come to
    heap,           \* what is allocated
    bad             \* something was freed that is not allocated

vars == <<file, pos, consts, phase, table, buf, pools, prods, prod, j, heap, bad>>

-----------------------------------------------------------------------------
\* The operands of an instruction, as it is defined for the interpreter.
Operands(op) ==
    CASE op \in Chars   -> <<"byte">>
      [] op \in Strings -> <<"str">>
      [] op \in BitSets -> <<"set">>
      [] op \in Shifts  -> <<"shift">>
      [] op \in Tags    -> <<"tag">>
      [] op \in Symbols -> <<"table">>
      [] op \in Memos   -> <<"state", "memo">>
      [] op \in Jumps   -> <<"tblId">>
      [] op \in {"Alt", "Jump", "Ret"} -> <<"jump">>
      [] op = "Call"      -> <<"next", "jump">>
      [] op = "Exit"      -> <<"status">>
      [] op = "TLeftFold" -> <<"shift", "tag">>
      [] op = "SIsDef"    -> <<"table", "str">>
      [] op = "Lookup"    -> <<"state", "memo", "jump">>
      [] op = "TLookup"   -> <<"state", "tag", "memo", "jump">>
      [] OTHER            -> <<>>

Falls(x) == x.op \notin {"Ret", "Call", "First", "Fail", "Exit"}

\* The control flow of instruction i of a file: its targets are instructions of
\* the file, control does not run off the end, a First does not jump to
\* instruction 0, a memo point has 16 bits.
Flows(f, i) ==
    LET x       == f.insts[i]
        targets == 0..Len(f.insts)-1
        kinds   == Range(Operands(x.op))
    IN  /\ x.next \in targets \cup {None}
        /\ Falls(x) /\ x.op # "Jump" /\ x.next = None => i < Len(f.insts)
        /\ x.op # "Ret" => \A kind \in {"next", "jump"} \cap kinds : x.data[kind] \in targets
        /\ x.op = "First" => \A ch \in 0..TableSize : x.data.table[ch] \in targets \ {0}
        /\ "memo" \in kinds => x.data.memo \in Nat /\ x.data.memo < 65536

ASSUME FlowAssumption == \A f \in Files : \A i \in DOMAIN f.insts : Flows(f, i)

\* Mutant: the tag of TLookup is written where the file has it.
Written_InFileOrder(op) ==
    IF op = "TLookup" THEN <<"state", "memo", "jump", "tag">> ELSE Operands(op)

\* Mutant: one of the operands of Lookup is not written.
Written_NoState(op) ==
    IF op = "Lookup" THEN <<"memo", "jump">> ELSE Operands(op)

\* The operands that mozvm_loader_load_inst writes, case by case.
Written(op) ==
    CASE op \in {"Alt", "Jump", "Ret"} -> <<"jump">>
      [] op = "Call"    -> IF UseProd THEN <<"prod", "next", "jump">> ELSE <<"next", "jump">>
      [] op \in Chars   -> <<"byte">>
      [] op \in Strings -> <<"str">>
      [] op \in BitSets -> <<"set">>
      [] op \in Shifts  -> <<"shift">>
      [] op \in Jumps   -> <<"tblId">>
      [] op = "Lookup"  -> <<"state", "memo", "jump">>
      [] op \in Memos   -> <<"state", "memo">>
      [] op \in Tags    -> <<"tag">>
      [] op = "TLeftFold" -> <<"shift", "tag">>
      [] op = "TLookup"   -> <<"state", "tag", "memo", "jump">>
      [] op = "SIsDef"    -> <<"table", "str">>
      [] op \in Symbols   -> <<"table">>
      [] op = "Exit"      -> <<"status">>
      [] OTHER            -> <<>>

Size1 == {"byte", "shift", "state", "status"}
Size4 == {"next", "jump"}

\* The size of an opcode with operands: an operand has one byte, a second one
\* unless its size is 1, and two more if its size is 4.
WidthOf(kinds) ==
    1 + Len(kinds) + Cardinality({n \in DOMAIN kinds : kinds[n] \notin Size1})
      + 2 * Cardinality({n \in DOMAIN kinds : kinds[n] \in Size4})

\* mozvm1_opcode_size, which vmgen.rb derives from the definitions.
Width == [op \in Opcodes |-> WidthOf(Operands(op))]

\* ARRAY_size(L->buf)
WrittenWidth == [op \in Opcodes |-> WidthOf(Written(op))]
End(code) == IF code = <<>> THEN 0 ELSE Last(code).at + WrittenWidth[Last(code).op]

Code(op, at, data) == [op |-> op, at |-> at, data |-> data]

\* What get_opcode finds at an address: no instruction if none begins there.
EntryAt(code, at) ==
    IF \E e \in ToSet(code) : e.at = at THEN CHOOSE e \in ToSet(code) : e.at = at
    ELSE Code(None, at, <<>>)

Bytes == 0..TableSize-1

-----------------------------------------------------------------------------
(***************************************************************************)
(* Memory.  A block is the array of a section, or one of its names, or     *)
(* stands for itself.                                                      *)
(***************************************************************************)
Whole(names) == {<<name, 0>> : name \in names}

SectionBlocks(section, n) ==
    IF n = 0 THEN {} ELSE {<<section, i>> : i \in 0..IF section = "sets" THEN 0 ELSE n}

PoolBlocks == Whole({op \in Jumps : pools[op] # <<>>})

Free(blocks) ==
    /\ heap' = heap \ blocks
    /\ bad' = (bad \/ ~ blocks \subseteq heap)

\* Mutant: names are not freed with their array.
RuntimeBlocks_NoNames ==
    Whole({"runtime", "ast", "symtable", "memo"} \cup {section \in DOMAIN consts : consts[section] # <<>>})
    \cup PoolBlocks

\* What moz_runtime_dispose frees, by the sizes and pointers of C.
RuntimeBlocks ==
    Whole({"runtime", "ast", "symtable", "memo"}) \cup PoolBlocks
    \cup UNION {SectionBlocks(section, Len(consts[section])) : section \in DOMAIN consts}

-----------------------------------------------------------------------------
(***************************************************************************)
(* The first pass.                                                         *)
(***************************************************************************)
\* The distinct jumps of a First, in the order of their first occurrence.
Targets(jumps) ==
    LET found[n \in 0..TableSize+1] ==
            IF n = 0 THEN <<>>
            ELSE IF Contains(found[n - 1], jumps[n - 1]) THEN found[n - 1]
            ELSE Append(found[n - 1], jumps[n - 1])
    IN  found[TableSize + 1]

\* Mutant: one target too many for a table of two bits.
TableOf_OffByOne(size) == IF size <= 1 THEN 1 ELSE IF size <= 5 THEN 2 ELSE IF size <= 8 THEN 3 ELSE 0

\* The number of bit sets, 0 for a table of all jumps.
TableOf(size) == IF size <= 1 THEN 1 ELSE IF size <= 4 THEN 2 ELSE IF size <= 8 THEN 3 ELSE 0

\* The opcode and the table for the jumps of a First.
First(all) ==
    LET target == Targets(all)
        size   == Len(target)
        n      == TableOf(size)
        jumps  == [ch \in Bytes |-> all[ch]]
    IN  IF n = 0 THEN [op |-> "First", table |-> jumps]
        ELSE [op    |-> <<"TblJump1", "TblJump2", "TblJump3">>[n],
              table |-> jump_table_init(n, Padded(n, [i \in 0..size-1 |-> target[i + 1]], size), jumps)]

\* A First gets the next table of its pool.
Allocate(x) ==
    IF x.op # "First" THEN pools
    ELSE LET first == First(x.data.table) IN [pools EXCEPT ![first.op] = Append(@, first.table)]

Dropped == {"Nop", "Label"}

\* The value that is written for an operand: 32 bits of the file are written
\* as the 16 bits of a memo point.
Value(x, kind) == IF x.op = "Ret" THEN 0 ELSE IF kind = "memo" THEN x.data.memo % 65536 ELSE x.data[kind]

\* The instruction for x, if there is one.
Main(code, x) ==
    CASE x.op \in Dropped -> <<>>
      [] x.op = "First"   -> LET op == First(x.data.table).op IN <<Code(op, End(code), <<Len(pools[op])>>)>>
      [] OTHER            -> <<Code(x.op, End(code), [n \in DOMAIN Written(x.op) |-> Value(x, Written(x.op)[n])])>>

\* Mutant: the jump to the next instruction is forgotten.
mozvm_loader_load_inst_NoNext(code, x) == code \o Main(code, x)

\* The buffer with the code of x.  A Jump and a Call read the last of their
\* jumps themselves and leave no next.
mozvm_loader_load_inst(code, x) ==
    LET main == code \o Main(code, x)
    IN  IF x.next = None THEN main ELSE Append(main, Code("Jump", End(main), <<x.next>>))

\* The opcode is compared with Label before bit 0x80 is taken off.
BeginsProduction(x) == x.op = "Label" /\ x.next = None

\* Mutant: a production ends where its last instruction begins.
Extend_TooShort(x, begin, end) ==
    IF BeginsProduction(x) THEN [prods EXCEPT ![x.data.label] = [begin |-> begin, end |-> end]]
    ELSE [prods EXCEPT ![prod].end = begin]

\* A label begins its production, every instruction extends the current one.
Extend(x, begin, end) ==
    IF BeginsProduction(x) THEN [prods EXCEPT ![x.data.label] = [begin |-> begin, end |-> end]]
    ELSE [prods EXCEPT ![prod].end = end]

Init ==
    /\ FileInit
    /\ table = <<>> /\ buf = <<>>
    /\ pools = [op \in Jumps |-> <<>>]
    /\ prods = <<>> /\ prod = 0 /\ j = 0
    /\ heap = Whole({"input", "data"}) /\ bad = FALSE

Header ==
    /\ ReadHeader
    /\ heap' = IF phase' = "exit" THEN heap
               ELSE heap \cup Whole({"table", "buf", "runtime", "ast", "symtable", "memo"})
    /\ UNCHANGED <<table, buf, pools, prods, prod, j, bad>>

\* The productions are allocated with their names; where they begin and end
\* is not yet written.
Section ==
    /\ ReadSection
    /\ prods' = IF phase = "prods" THEN [p \in 0..read16(pos)-1 |-> [begin |-> None, end |-> None]]
                ELSE prods
    /\ heap' = heap \cup SectionBlocks(phase, Len(consts'[phase]))
    /\ UNCHANGED <<table, buf, pools, prod, j, bad>>

LoadInst ==
    /\ phase = "load" /\ Len(table) < Len(file.insts)
    /\ LET x == file.insts[Len(table) + 1] IN
       /\ table' = Append(table, End(buf))
       /\ buf' = mozvm_loader_load_inst(buf, x)
       /\ pools' = Allocate(x)
       /\ heap' = heap \cup (PoolBlocks)'
       /\ prod' = IF BeginsProduction(x) THEN x.data.label ELSE prod
       /\ prods' = Extend(x, End(buf), End(buf'))
    /\ UNCHANGED <<file, pos, consts, phase, j, bad>>

StartLink ==
    /\ phase = "load" /\ Len(table) = Len(file.insts)
    /\ phase' = "link"
    /\ UNCHANGED <<file, pos, consts, table, buf, pools, prods, prod, j, heap, bad>>

-----------------------------------------------------------------------------
(***************************************************************************)
(* The second pass.                                                        *)
(***************************************************************************)
\* L->table[t] - (j + shift)
Relative(e) == [t \in 0..Len(table)-1 |-> table[t + 1] - (e.at + Width[e.op])]

\* The operands with an address for the one that is n from the end.
Patched(e, data, n) == [data EXCEPT ![Len(data) - n] = Relative(e)[@]]

\* The switch of the second loop of mozvm_loader_load: what becomes of the
\* instruction ...
Linked(e) ==
    CASE e.op = "Jump" ->
            Code(IF EntryAt(buf, table[Last(e.data) + 1]).op = "Ret" THEN "Ret" ELSE "Jump",
                 e.at, Patched(e, e.data, 0))
      [] e.op = "Call" -> [e EXCEPT !.data = Patched(e, Patched(e, @, 1), 0)]
      [] e.op \in {"Alt", "Lookup", "TLookup"} -> [e EXCEPT !.data = Patched(e, @, 0)]
      [] OTHER -> e

\* ... and of its table.
LinkedPools(e) ==
    IF e.op \notin Jumps THEN pools
    ELSE [pools EXCEPT ![e.op][Last(e.data) + 1] =
             IF e.op = "First" THEN [ch \in Bytes |-> Relative(e)[@[ch]]] ELSE encode_jumps(@, Relative(e))]

Link ==
    LET e == EntryAt(buf, j) IN
    /\ phase = "link" /\ j < End(buf)
    /\ e.op # None
    /\ buf' = [i \in DOMAIN buf |-> IF buf[i].at = j THEN Linked(e) ELSE buf[i]]
    /\ pools' = LinkedPools(e)
    /\ j' = j + Width[e.op]
    /\ UNCHANGED <<file, pos, consts, phase, table, prods, prod, heap, bad>>

\* mozvm_loader_freeze, and the end of mozvm_loader_load_syntax2.  The table
\* is kept here for the properties.
Freeze ==
    /\ phase = "link" /\ j >= End(buf)
    /\ phase' = "done"
    /\ Free(Whole({"table", "data"}))
    /\ UNCHANGED <<file, pos, consts, table, buf, pools, prods, prod, j>>

-----------------------------------------------------------------------------
\* moz_runtime_dispose, then mozvm_loader_dispose, as the tools call them.
DisposeRuntime ==
    /\ phase = "done"
    /\ phase' = "disposing"
    /\ Free(RuntimeBlocks)
    /\ UNCHANGED <<file, pos, consts, table, buf, pools, prods, prod, j>>

DisposeLoader ==
    /\ phase = "disposing"
    /\ phase' = "disposed"
    /\ Free(Whole({"buf", "input"}))
    /\ UNCHANGED <<file, pos, consts, table, buf, pools, prods, prod, j>>

Next == Header \/ Section \/ LoadInst \/ StartLink \/ Link \/ Freeze \/ DisposeRuntime \/ DisposeLoader

Spec == Init /\ [][Next]_vars

-----------------------------------------------------------------------------
(***************************************************************************)
(* Where control goes, in the file and in the loaded code.                 *)
(***************************************************************************)
Silent == {"Nop", "Label", "Jump"}

Inst(i) == file.insts[i + 1]

After(i) == IF Inst(i).op = "Jump" THEN Inst(i).data.jump
            ELSE IF Inst(i).next # None THEN Inst(i).next ELSE i + 1

Onward(i) == IF Inst(i).op \in Silent THEN After(i) ELSE i

\* The instruction that runs when control comes to instruction i of the file,
\* a silent one if it never leaves the silent ones.
Lands(i) ==
    LET at[n \in 0..Len(file.insts)] == IF n = 0 THEN i ELSE Onward(at[n - 1])
    IN  at[Len(file.insts)]

EndOf(e) == e.at + Width[e.op]

OnwardAt(e) == IF e.op = "Jump" THEN EntryAt(buf, EndOf(e) + e.data[1]) ELSE e

\* The same for the loaded code, after the jumps.
LandsAt(at) ==
    LET e[n \in 0..Len(buf)] == IF n = 0 THEN EntryAt(buf, at) ELSE OnwardAt(e[n - 1])
    IN  e[Len(buf)]

\* Control at instruction t of the file is control at address at of the code.
SameControl(t, at) ==
    LET x == Inst(Lands(t))
        e == LandsAt(at)
    IN  \/ x.op \in Silent /\ e.op = "Jump"
        \/ x.op \notin Silent /\ e.at = table[Lands(t) + 1]
        \/ x.op = "Ret" /\ e.op = "Ret"

\* The jump that First or TblJump1..3 takes on a byte.
JumpOn(e, ch) ==
    LET tbl == pools[e.op][e.data[1] + 1] IN IF e.op = "First" THEN tbl[ch] ELSE jump_table_jump(tbl, ch)

\* The interpreter reads the operands of e as the file has those of x.
SameOperands(x, e) ==
    \A n \in DOMAIN Operands(x.op) :
        LET kind == Operands(x.op)[n] IN
        IF kind \in Size4 THEN SameControl(x.data[kind], EndOf(e) + e.data[n]) ELSE e.data[n] = x.data[kind]

SameInstruction(i) ==
    LET x == Inst(i)
        e == EntryAt(buf, table[i + 1])
    IN  /\ IF x.op = "First"
           THEN e.op \in Jumps /\ \A ch \in Bytes : SameControl(x.data.table[ch], EndOf(e) + JumpOn(e, ch))
           ELSE x.op = e.op /\ (x.op # "Ret" => SameOperands(x, e))
        /\ Falls(x) => SameControl(After(i), EndOf(e))

\* Every instruction of the file is in the loaded code, with its operands
\* where the interpreter reads them, and from it control goes, on every branch
\* and every byte, to the code of the instruction that the file names:
\* whatever was dropped, inserted, rewritten or encoded in between, and in
\* whatever order the buffer and the tables were patched.
LoadedFaithfully ==
    phase = "done" => \A i \in 0..Len(file.insts)-1 : Inst(i).op \notin Silent => SameInstruction(i)

\* The second pass, which goes by the sizes of the definitions, only comes to
\* addresses where the first pass, which goes by what it writes, put an opcode.
WalkMeetsOpcodes == phase = "link" /\ j < End(buf) => EntryAt(buf, j).op # None

\* The runtime frees, by the sizes and pointers that it finds, what the loader
\* allocated while it read the file: every block once, and all of them.
NothingLeaks == ~ bad /\ (phase = "disposed" => heap = {})

\* The code between begin and end of a production is the code of the
\* instructions that follow its label.
ProductionsTile ==
    phase = "done" =>
        \A i \in 0..Len(file.insts)-1 :
            LET labels == {m \in 0..i : Inst(m).op = "Label"}
                p      == Inst(Max(labels)).data.label
            IN  labels # {} /\ Inst(i).op \notin Dropped =>
                    prods[p].begin <= table[i + 1] /\ table[i + 1] < prods[p].end
=============================================================================
