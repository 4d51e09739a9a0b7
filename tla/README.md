# A verification development for moz

moz is a parsing virtual machine written in C. It loads a grammar compiled to
bytecode, runs it on an input as a packrat parser with backtracking, and builds
a syntax tree. This directory holds TLA+ models of the machine, TLC
configurations that check them on small instances, and TLAPS proofs of
theorems that hold for every instance. Source paths are relative to the
repository (`src/vm1/mozvm1.c`, ...).

## 1. The system

| Component | Source | State | Operations |
| --- | --- | --- | --- |
| Bytecode interpreter, vm1 | `src/vm1/mozvm1.c`, `instruction.def` | PC, CURRENT, SP, FP, the word stack, `runtime->head` | 60 instructions; `moz_runtime_parse_init`, `moz_runtime_parse` |
| AST machine | `src/libnez/ast.c` | the operation log, `last_linked`, `parsed` | append, save, roll back, commit a transaction, build a node, get the root |
| Symbol table | `src/libnez/symtable.c` | the array of (tag, token) entries | define, mask, three searches, savepoint, rollback |
| Memo table | `src/libnez/memo.c` | a direct-mapped table of (hash, result, consumed, state) | get, set, fail, init, dispose |
| Node store | `src/node/node.c`, `src/core/reference_count.h` | pages of nodes, free list, reference counts | new, append, get, set, retain, release, sweep, reset |
| Collector | `src/node/gc.c` | segments of blocks, their bitmaps, the allocation pointer, a mark stack, the registered roots | allocate, mark, sweep, expand the heap, reset; the memory manager of builds with `MOZVM_MEMORY_USE_MSGC`, the default build counts references |
| Runtime | `src/runtime.c`, `src/mozvm.h` | owns all of the above | init, set_source, reset1, reset2, dispose |
| Loader | `src/loader.c` | constants, code, jump tables | read a bytecode file section by section, decode and link its instructions, load the input, dispose |
| Jump tables | `src/jmptbl.h` | bit slices | build a table from 256 targets, look a byte up |
| Grammar compiler | `src/compiler/*.c` | expressions, declarations, blocks of IR with fail edges | translate, optimise, simplify the flow graph, emit vm2 modules |
| Second interpreter, vm2 | `src/vm2` | registers and an operand stack | the instructions the compiler emits |
| Tools | `src/cli` | none | the loop over several parses, a comparison of trees |

How they interact. One thread runs `moz_runtime_parse`. An instruction reads
and writes the stack and calls the other components directly. Three of them
hold state that a failed alternative must not leave behind (position, log,
symbol table); a frame on the stack, pushed by `Alt`, stores one savepoint of
each, and `L_fail` restores all three. The memo table is the fourth: it
survives failures on purpose. It refers to nodes that the AST machine built,
so it shares ownership of them with the log and the tree.

What is hard. Nothing runs in parallel, and nothing is persisted. The hard part
is the *protocol* between the five pieces of state: a savepoint is an integer
into a log that is cut, rewritten by commits and extended by memo hits while
the savepoint waits on the stack; frames are dropped with whatever lies above
them; loops rewrite their frame in place; a memo slot is shared by many keys
and evicted at any time. A mistake shows only after a particular sequence of
instructions, often far from its cause. `PROJECT.json` lists these hazards at
their lines, with the properties that cover them.

What makes each component correct:

* interpreter: FP is always the innermost open frame; a failure restores
  exactly the state at the frame's creation; the result is the one that the
  PEG semantics defines; every parse ends;
* AST machine: a rollback cuts exactly what was appended; a commit sees
  balanced Push and Pop entries; the tree is the one the successful
  alternatives describe;
* symbol table: scopes end with the table they began with;
* memo table: a hit tells the truth about its own key; one reference per slot;
* node store: a node in use is never freed, an unused one is, once;
* collector: what the roots reach is never handed out again, in particular not
  while a tree is half built;
* loader: every constant, operand and target is the one in the file, although
  widths, order and addresses change, and all memory is given back.

## 2. Modules and how they correspond to the code

| Module | Models | Form |
| --- | --- | --- |
| `SymTable` | `symtable.c`, `symtable.h`, `token.h` | operators on the sequence of entries |
| `Memo` | `memo.c`, `memo.h`, elastic table | operators on the table |
| `AstLog` | `ast.c`, `ast.h` | operators on the log; nodes as the trees they denote |
| `VM1` | `mozvm1.c`, `instruction.def` | the state machine; composes the three above |
| `PegReference` | the PEG semantics, and the external Nez compiler | recursive functions, only for TLC |
| `Grammars`, `MCVM1` | the instances of `VM1` | data; `AgreesWithPEG`, `MemoSound`, `TMemoLinks` |
| `MemoTable` | the memo table and its references on nodes | a state machine of its own |
| `NodeStore` | `node/node.c`, `reference_count.h` | operators on pages, cells and the free list |
| `AstTrees` | what `ast.h` and `memo.h` promise | abstract state machine; nodes are values |
| `AstHeap`, `MCAstHeap` | `ast.c`, `memo.c` and the calls of `runtime.c` on the node store | state machine; implements `AstTrees` |
| `JumpTable` | `jmptbl.h` | operators |
| `SegmentHeap` | segments, bitmaps and the allocator of `node/gc.c` | operators on the heap |
| `MarkSweep` | what a collector promises to the nodes that are reached | abstract state machine; sets instead of bitmaps |
| `AstSweep`, `MCAstSweep` | `ast.c` and the calls of `runtime.c` on `node/gc.c` | state machine; implements `AstTrees` and `MarkSweep` |
| `BytecodeFile` | the header and the constants of a file, `loader.c` | the variables and actions that `Loader` extends |
| `Loader`, `MCLoader` | the two passes of `loader.c`, disposal in `runtime.c` | state machine; uses `JumpTable` and `BytecodeFile` |
| `PegTrees` | expressions as trees, and what they match | recursive operators, only for TLC |
| `PegOptimizer`, `MCPegOptimizer` | `compiler/expression.c` | state machine, a rule per step |
| `PegIR` | `compiler/compiler.c`, `block.c`, `module.c`, `linker.c` | operators on a compilation |
| `VM2` | the passes over the blocks, `vm2/mozvm2.c`, `vm2.vmdef` | state machine; uses `PegIR` |
| `Compiler`, `MCCompiler` | | what `PegIR` and `VM2` promise together |
| `VM1Proofs` | | theorems about `VM1`, after lemmas about `SymTable` |
| `MemoTableProofs`, `MarkSweepProofs` | | theorems about `MemoTable`, `MarkSweep` |
| `SegmentHeapProofs`, `AstSweepProofs` | | lemmas about the operators of `SegmentHeap`, theorems about `AstSweep` |
| `NodeStoreProofs`, `AstHeapProofs` | | lemmas about the operators of `NodeStore`, theorems about `AstHeap` |
| `LoaderProofs` | | theorems about `Loader` and `JumpTable` |

**VM1.** `pc`, `pos`, `head`, `stack`, `fp` are PC, CURRENT, `runtime->head`,
the words below SP and FP. One step executes one instruction, from its first
statement to the dispatch of the next one, including the jump to `L_fail`.
Instructions that share their C text up to the operand are one action
(`Match` is `Byte`, `Any`, `Str`, `Set`; `NotMatch`, `OptMatch`, `RepMatch`
the same operands with the other loops). The five words of a frame are one
cell of `stack`; `Words` counts them as five, so that `StackSize` is in words.
A cell has a `kind`, which the C stack has not. An instruction that would pop
another kind has no step, so that TLC reports a deadlock: deadlock is checked
in both runs of the interpreter.

The field `was` of a cell is a history variable: the log and the table when
the cell was written. No guard reads it, and the properties about exact
backtracking are stated with it.

Pushing checks no limit in the code. `Overflow` stands for a push that finds no
room: the parse ends with the status `overflow`, because what happens after a
write beyond the stack is undefined. A failed assertion in `ast_create_node`
gives the status `crash`, an instruction that calls `ABORT` gives `abort`.
`GetParsed` is the client's call of `ast_get_parsed_node` after `Exit 0`.

The outermost frame points to itself in the code (its saved FP is the FP of the
new frame); the model has 0 there. It is dropped only when the parse fails as a
whole, and FP is not used after that.

**AstLog.** `ast_create_node` is one scan of the log, whose recursion at `Push`
is a stack of contexts. `CanCreate` collects its assertions. A node is
the tree it denotes; the `parent` and `next` pointers of the log entries, which
the code uses while it scans, are the list `kids`.

**SymTable.** A token stands for its own hash. `leftover` is the `sym` field of
a mask entry, which `symtable_add_symbol_mask` leaves uninitialised: whatever
the slot on the C stack held. `has_symbol`, `get_symbol` and `contains` treat
masks differently in the code, and so they do here.

**Memo.** The table has `WindowSize * 2^LOG2(MemoPoints)` slots; the slot and
the hash are computed as in the code from the address of the position
(`SourceAddr + pos`, the default build passes pointers). `memo_elastic_fail`
writes the hash and the mark of a failure and keeps `consumed` and `state`.

**PegReference.** `Eval` gives the meaning of an expression as a function, with
no stack, log, frame or memo table; an alternative that failed contributes
nothing. `Compile` emits the patterns that the Nez tool emits (it is not in
the repository, so that module is marked external; the patterns are those that
`instruction.def` and the files of `test` expect).

**NodeStore, AstTrees, AstHeap.** `NodeStore` has the cells of all pages, their
counts and the free list. `AstHeap` runs the AST machine on it: log entries
refer to cells, a commit builds nodes in place, the memo table and the client
share them, a rollback releases what it cuts. One step is one call of `ast.h`
or `memo.h`, or one of the calls that `moz` and the tests make around a parse
(`GetParsed`, `ReleaseParsed`, `Reset1`, `ResetNodes`). The calls come in any
order the interpreter can make them in; positions and keys are left to `VM1` and
`MemoTable`. `Node_sweep`, which is recursive in C, is a stack of activations:
each turn goes on with the topmost one, releases its next child or frees its
cell, and a release of all turns has one turn per place of a child at most
(`Turns`). Loops (`constructLeft`, `ast_create_node`, a rollback) are functions
on the numbers of their rounds (`set`, `scan`, `done`). `AstTrees` has the same calls with nodes as values, no cells, no
counts, no sharing; `ImplementsTrees` maps every cell to the tree it is the
root of (`TreeOf`, in `MCAstHeap`), see below for labels. The guard of `TMemo` (a memoised node is linked) is not
assumed: `TMemoLinks` of `MCVM1` discharges it. `Begun` says that a
transaction starts with New, as all compiled code does.

`Node_set` stores the label of a link in the child itself (`node.c:81`), so that
a child with two parents has one label, that of the link made last: a node that
a memo hit links again under another label changes the label that its first
parent shows. No document or test says which label it should be. The nodes are
therefore not quite values, and `ImplementsTrees` says what they are: every step
is a step of `AstTrees`, except those that relabel (`Relabels`: a new parent
takes a child of a node in use under another label, or the log links one node
under two labels), and these are steps of `AstTrees` with the labels erased from
both sides (`Shapes`). Without that exception TLC refutes the property. `VM1`
has nodes as values, so its properties do not see this. The
label of a node without a parent is not read before it is overwritten, so the
view of the run leaves it out.

Assertions of `node.c` are conditions (`NoAssertFails`, a part of `StoreExact`).

**SegmentHeap, MarkSweep, AstSweep.** The same AST machine with the other
memory manager. A bitmap is the set of its set bits; `SegmentHeap` has the two
levels of a segment that are in use, the counts of live nodes, the list of
segments with room, and the allocation pointer, which keeps an address and a
bit that must stay together (`PointerExact`, a part of `BitmapsExact`). `tryAlloc` is the search of the
code: the pointer's bit, the rest of its segment, another segment. Loops over
segments, nodes and entries are functions on the numbers of the rounds
(`fetchUnfilled`, `count_dead`, `Visit`, `ScanFrom`), and assertions of `gc.c`
set `ok` to false.

In `AstSweep` a build is interrupted: `ast_create_node` is a stack of
activations (`build`), and each node of it is one `Alloc`, which may start a
collection. `Mark` takes one node from the mark stack, `Sweep` ends the
marking, and the allocation is tried again. The nodes that `Inner` has built
are reached only through the log entries that it has rewritten to links:
nothing else of the activations is a root. The roots are those of `ast_trace`
(the links of the log) and `memo_trace`; `last_linked` and `parsed` are not
among them. A dead node keeps its array of children until its block is used
again (`deferred_sweep`), so that `arrays` counts across collections. Freeing
the manager frees the arrays of all blocks (`final_free`). The assertion of
`ast_create_node` that a Pop has its Push is a guard of `Inner`; `CanCreate`
says that it holds where a build begins. `Bounded` caps the number of segments;
`BoundAssumption` gives the nodes of a state (`Fits`) room in one segment less,
so that no allocation is stopped by it (`BuildEnds` would fail).

It implements two abstract machines. `ImplementsTrees` is the refinement that
`AstHeap` has, so that both memory managers are shown to keep the same
promise; the log of a build in progress maps to the log before it (`before`, a
history variable), and the build takes effect with its last node.
`ImplementsMarkSweep` maps bitmaps and the mark stack to the sets of a
textbook collector; a slot of an array of children that was never set is no
child. `MarkSweep` states the order of marking nowhere, and its program may drop
nodes at any time. One step of `AstSweep` may visit several
nodes that turn grey together, as one step of `MarkSweep` does.

The sizes are scaled down (words of 2 bits, segments of 4 blocks, a mark stack
of 2 slots) and counted as in the code: the last word of a segment may be
short, block 0 is the header, the mark stack doubles before its tail wraps.
Generations, safe points and statistics are not compiled in that build.

**JumpTable, BytecodeFile, Loader.** `JumpTable` has the three table sizes, each
a number of bit slices over the byte. `BytecodeFile` reads the header and the
five sections of constants from bytes, with the position that the code has:
nothing separates two entries, so that one length that is off shifts all that
follows. Instructions follow as records; their operands are named by kind.

The first pass writes every instruction to a buffer (`LoadInst`; some are
dropped, some inserted, all change their width). It writes the operands in the
order of `loader.c` (`Written`); the interpreter and the second pass use the
sizes and the order of `instruction.def` (`Operands`). These are two lists, kept
by hand, and the properties compare them. The tables of `First` go to one of
four pools (`Allocate`, `LinkedPools`). `StartLink` builds their contents; the
second pass walks the buffer by address (`j`), adding the sizes, and replaces
indexes of instructions by relative addresses in place, while it turns jumps
to a return into returns (`Link`). The optimisation flag is on, as with all
callers. `heap` holds the allocations by name; `DisposeRuntime` and
`DisposeLoader` free what they find through the runtime and the loader, and
`bad` records a block freed twice.

A Label ends the production before it only if its opcode byte has no bit 0x80
(the comparison comes before the bit is removed); the files here have no Label
with a next. `UseProd` is MOZVM_USE_PROD, which is off: with it the loader
writes one operand more for `Call`, and the definition would have it under
another macro, which nothing sets.

**PegOptimizer.** Expressions are counted cells that the optimiser changes in
place. One step optimises one rule; a pass over all rules is repeated until
nothing was modified, then unused rules go. The meaning of an expression is
that of `PegTrees`.

**PegIR, VM2.** A compilation `C` has blocks, instructions with the block that
handles their failure, and the list of blocks that are left. `Translate` is one
step; the passes `simplify_cfg` and `remove_indirect_jump_handler` take one
step for each block that they pop from their work list (`Simplify`), because
their states in between are what goes wrong. `NextPass` repeats them, encodes
and links: an instruction has one head and one tail for all its copies, as in
the code. The interpreter then runs on byte addresses. A pointer says whether
it is an address in the code, one of the two exits, or a number, so that a
return to a number is seen: the status `astray`. Instructions of `vm2.vmdef`
that nothing emits are left out. Operations on trees are recorded in `did` and
not executed. Strings, sets and tags are in the pools of the compilation, and
an instruction has an index into one of them; the constant is found again by
comparison (`SameText` stops at a NUL as `strncmp` does). The interpreter
resolves the index in the pools as `moz_vm2_module_new` copies them.

## 3. Runs

| Run | Question | Result |
| --- | --- | --- |
| `VM1_parses` | Do frames, savepoints, commits, memo hits and scopes compose, and is the control part a PEG parser? 39 grammars and all expressions of depth 2, every input of up to 4 bytes | all properties hold |
| `VM1_faults` | Is backtracking still exact on the way to an overflow, an abort, a failed assertion, with masks that hold any leftover token? | it is, and the parse ends |
| `MemoTable` | Any order of calls on six keys that share slots | one reference per slot, hits tell the last outcome |
| `MemoTable_states` | The same with two states | violated, see section 6 |
| `AstHeap` | Any order of calls on nodes with one tag and two labels, 3 log entries besides the pairs of Push and Pop, 3 pages | counts and free list exact, no leak, nodes are values but for labels that a second link overwrites |
| `AstSweep` | The calls on collected nodes, two segments of three nodes, one label, a collection before any allocation that finds no room | counts, pointer and arrays exact, nodes are values, the collector is one |
| `Loader` | Every program of three instructions with calls and alternatives, of four with jumps; two Firsts with one to nine targets; every opcode with all its operands; sections of constants | the loaded code is that of the file, its memory is given back |
| `PegOptimizer` | Nearly 4800 grammars without shared strings and sequences | every rule keeps its meaning, passes end |
| `PegOptimizer_shared` | The grammars with them | violated, see section 6 |
| `Compiler` | 689 grammars, from expressions to vm2, every input of up to 3 bytes | all properties hold |
| `Compiler_labels` | A choice followed by a terminal | violated, see section 6 |
| `Compiler_handlers` | A loop at the end of a rule that is a loop | violated, see section 6 |

Properties of the interpreter (`VM1`, `MCVM1`):

* `FrameChain`: FP is the innermost frame, and the saved FPs lead through all
  of them;
* `SavepointsNest`: saved positions, log lengths and table sizes grow from the
  bottom of the stack to the current values;
* `BacktrackExact`: below every savepoint on the stack the log and the symbol
  table are still what they were when it was taken;
* `FailRestores` (of steps): a failure restores position, log and table
  exactly, although the code restores the position only backwards;
* `EndsClean`: what a parse leaves on the stack, in the log and the table;
* `NoCrash`: no assertion of `ast_create_node` fails for well-formed grammars;
* `AgreesWithPEG`: verdict, position, symbol table and tree are those of `Eval`;
* `MemoSound`: what the table says of a rule and a position is true;
* `TMemoLinks`: `TMemo` finds a linked node where it memoises one;
* `Terminates`: every parse ends.

Of the AST machine and the memo table (`AstHeap`, `MemoTable`):

* `RefsExact`: the count of every node is the number of its references: links of
  the log, children of nodes in use, entries of the memo table, and the client;
  `last_linked` is none;
* `StoreExact`: the cells that are not in use are in the free list, once, and
  the assertions of `node.c` hold;
* `NothingLeaks`: after a reset and the release of the root no node is in use;
* `ImplementsTrees`: the calls give the results of `AstTrees`, in which nodes
  are values; a step that gives a shared node another label does so when labels
  are left aside;
* `HitTellsLastOutcome`: a hit is the last outcome recorded under its own key.

Of the collector (`AstSweep`):

* `BitmapsExact`: the counts of live nodes and the upper level of the bitmaps
  tell what the lower level has (they decide what is searched and when the
  heap grows), and the address that is returned is that of the bit that is set;
* `NoAssertFails`: no assertion of `gc.c` fails, no NULL is visited, and a
  collection or an expansion always finds room;
* `ArraysExact`: the array of a dead node is freed once;
* `ImplementsTrees`: a collection in the middle of a commit changes no tree
  that the log, the memo table or the client holds;
* `ImplementsMarkSweep`: bitmaps and mark stack are a mark and sweep collector;
* `BuildEnds`: a tree that is begun is finished, with all its collections.

Of the loader:

* `ConstantsExact`: the sections are read as they were written, and the
  instructions from where they begin;
* `LoadedFaithfully` compares, for every instruction of the file and every
  byte, what is executed next, and with which operands, in the file and in the
  loaded code;
* `WalkMeetsOpcodes`: the second pass, which goes by the sizes of
  `instruction.def`, meets only addresses where the first wrote an opcode;
* `ProductionsTile`: the productions divide the code;
* `NothingLeaks`: runtime and loader free everything that was allocated, once.

Of the optimiser: `CountsExact` (counts equal references), `SameMeaning` (each
rule that is left matches what its source matches), `NothingLeftToDo` (the
passes reach the normal form that the code generator takes for granted).

Of the code generator (`Compiler`):

* `EdgesExact`: at every step of the simplification the two lists of edges and
  the jumps agree, and nothing refers to a block that is gone;
* `SimplifiedAlike`: at every step, the flow graph, executed directly with
  calls that return and fail as intended, does what the first one did
  (`Fuel` = 100 instructions, more than any of these inputs needs);
* `AgreesWithPEG`: vm2 on the linked code has the verdict and the position of
  the expression, for grammars that are `Translatable` and whose labels reach
  their targets (`LabelsReach`);
* `LabelsReach`: every failure label of the linked code leads to its block.

`Translatable` names what the translation does not handle at all: a failure
that is caught after something was consumed (blocks of a choice or a
not-predicate do not restore the position), and a call of a rule that can fail
(the relative label on the stack is taken for an address). 418 of the 689
grammars are translatable; six of them break `LabelsReach`. The other three
properties are checked for all.

Bounds. Inputs of four bytes suffice for a loop with two iterations, a
backtrack out of it and a reparse of what was memoised; with `WindowSize = 4`
and two memo points positions 0 and 4 share slots, so that entries are evicted.
`StackSize` is 60 words where recursion is bounded by the input, 30 where the
overflow itself is of interest. Each group in `Grammars` says what its members
provoke; the expressions of depth 2 are not chosen at all. In `AstHeap` three
entries hold a transaction with two links or two transactions; a Push and its
Pop come on top (`Room`), with a node between them and a link after them. Three
nodes are a memoised one, its first parent and the one that takes it under the
other label. The labels are interchangeable (`LabelSymmetry`; no liveness is
checked in this run). Pages of one cell make every allocation beyond the free
list extend the store; a step that needs more room or more than `MaxPages` pages
is not taken. The loader's jump
tables have 8 bytes instead of 256 (`TableSize`), which has all three sizes of
table and a First with one target too many; a set is two words of 4 bits
(`IntBit`). In `AstSweep` at most three nodes are in use or begun, with three
blocks for nodes in a segment: segments fill up, are collected, and a second one is
added. A build of several nodes collects between them, with one memo slot and
one link of a lookup (`MaxLinks`) that share nodes. The heap expands
after a collection that leaves fewer than a segment's worth of dead blocks and no
segment in the free list (`CheckFull`), but never because that is the only way to
find room: three live nodes fit into one segment (`BoundAssumption`). `MCPegOptimizer` takes all
expressions of one operator with one or two neighbours, as the only rule and
as rules that call each other, and named grammars for what needs more; it
leaves out strings and sequences with two references (`PegOptimizer_shared`)
and a `Not` whose siblings in a choice are all terminals (the code stops there
with the assertion "not tested", which the model has as `ok = FALSE`).
`MCCompiler` takes the expressions of depth 2 in the normal form that
`NothingLeftToDo` describes, loops over bodies that consume something, and
named grammars with calls and spaces. `StackBound` is 40 words: no input of
three bytes needs more unless a grammar is left recursive.

Fairness. The program is one thread: the interpreters are loops that execute
the next instruction, the compiler is a loop that handles the next rule or
block; nothing can disable or delay them. So all state machines with a liveness
property assume weak fairness of their next-state relation and nothing else. It
is written as `[]<>ended \/ []<><<Next>>_vars`, which is the same since a step
is enabled exactly until the end, and spares TLC the evaluation of ENABLED.
In `AstSweep` only the work that a call has begun is fair (`Work`), the client
may stop at any time. `MarkSweep` has `WF_vars(Collect)`: a collection runs to its end
before the program goes on, as `bm_malloc_internal` calls it; TLC derives it
from the fairness of `Work` as part of `ImplementsMarkSweep`.

Deadlock. It is checked for the interpreter `VM1` (where a step on a wrong cell
would be one), for `MemoTable` and `AstHeap`. Loading, optimising and compiling
end, so that it is not checked there; the first has its end in its
properties, the other two have `Terminates`. `AstSweep` may stop too: a process
without memory exits, which `NoAssertFails` then reports.

## 4. Proofs

The theorems hold for all values of the constants, under the named
assumptions at the end of this section.

| Theorem | States |
| --- | --- |
| `VM1Proofs`: `BacktrackingIsExact`, `FailureRestores`, `FramesAreChained`, `SavepointsAreNested`, `TypeCorrect` | `Spec => []BacktrackExact`, `FailRestores`, `[]FrameChain`, `[]SavepointsNest`, `[]TypeOK` |
| `MemoTableProofs`: `ReferencesAreExact`, `HitsAreExact`, `NodeHitsAreExact` | `Spec => []RefsExact`; `[]HitTellsLastOutcome` for one state; the same for all hits but failures with any states |
| `LoaderProofs`: `ConstantsAreExact` | `Spec => []ConstantsExact` |
| `LoaderProofs`: `LoadedIsFaithful` | `Spec => []LoadedFaithfully` if not `UseProd` |
| `LoaderProofs`: `WalkIsAligned`, `ProductionsAreTiled`, `EverythingIsFreed` | `Spec => []WalkMeetsOpcodes` if not `UseProd`, `[]ProductionsTile`, `[]NothingLeaks` |
| `MarkSweepProofs`: `ReachableIsMarked`, `ReachableIsKept` | `Safety => []ReachableMarked`, `ReachableKept`, for the abstract collector |
| `AstSweepProofs`: `BitmapsAreExact`, `ArraysAreExact` | `Spec => []BitmapsExact`, `[]ArraysExact` |
| `AstSweepProofs`: `SweepImplementsCollector` | `Spec => Collector!Safety`: the refinement `ImplementsMarkSweep` without its fairness |
| `AstSweepProofs`: `ReachableIsMarked`, `ReachableIsKept` | `Spec => []Collector!ReachableMarked`, `Collector!ReachableKept`: the promise, kept by `gc.c` |
| `AstSweepProofs`: `NoAssertionFails` | `Spec => []NoAssertFails`: the assertions of `gc.c`, and room after every collection |
| `AstHeapProofs`: `RefsExactHolds`, `StoreExactHolds`, `NothingLeaksHolds` | `Spec => []RefsExact`, `[]StoreExact`, `[]NothingLeaks`, with `IInvHolds` for their inductive invariant |
| `LoaderProofs`: `LoadedTableIsExact` | a table that is built and encoded leads each byte to its target |

**The interpreter.** The program is arbitrary, so that it
need not come from a compiler: every sequence of instructions whose operands
have the right types (`ProgramAssumption`) is covered. An instruction that
meets a wrong cell stops the model.

The four invariants are proved together. `IInv` is their conjunction: exactness
alone is not inductive, because a rollback of an inner savepoint keeps an
outer one exact only if the inner one is not smaller (`SavepointsNest`), and a
failure returns to the right cell only if FP is the innermost frame
(`FrameChain`); `Skip` moves a frame forward in place, which keeps the order
only because the frame is the top cell and the position did not go back.
There is one lemma per instruction family; `Push`, `Pop`, `Drop`
and `Fail` are done once, as lemmas about the stack. `FailRestores` follows
from `IInv` on the state before the step: the savepoints of the frame are
within the current bounds, so that cutting there gives the snapshot `was`.

`VM1Proofs` begins with lemmas on sequences and on the searches of the symbol
table (a finite non-empty set of entries has an innermost one; the symbol
found is a text).

**The memo table.** `RefsExact` is inductive together with the types: a step
writes one slot, so that the set of slots that hold a node gains and loses at
most that one, and its cardinality moves as the counts do (`OneSlotCounts`).
This includes a node that replaces itself. For the hits, `EntriesTell` says of
every slot and every key: if the hash of the slot is that of the key, the slot
holds the key's last outcome (result and consumed; of a failure only that it is
one). It is kept because `memo_hash` is injective
on keys (`HashIsExact`, from the power of two that `LOG2` yields being at least
the number of memo points), so that only the key that was written has the hash
of the slot, and because a slot that is evicted only ceases to tell. The state
is told by entries of nodes alone: `memo_fail` leaves the
old one, which is why `HitsAreExact` needs that all instructions have one
state, and `NodeHitsAreExact` does not.

**Reference counts.** The counts are not exact while a call is at work: in the
middle of a sweep a cell has given up some of its children and not yet others,
and a node that has just been built is in use with the count 0. `Exact(w, out, Z, owed)` of
`NodeStoreProofs` is what holds there. For a store and a stack of sweeps `w` it
says that the count of each node is the number of its references from outside
(`out`) plus the places of children, of nodes in use and of cells that a sweep
has not yet reached, plus one for the reference that is just being given back
(`owed`); `Z` are the new nodes with the count 0. Each turn of `Node_sweep`
keeps it. Each turn also leaves fewer places, so that `Turns` of them end with
an empty stack and the release is complete: this is where the recursion in C is
shown to end. Counts alone do not exclude a cycle of nodes that keep each other
alive. Therefore `Ranked` is kept besides: every node has a rank, higher than those
of its children. Children exist before the node that is built over them, so a new
node can be given the highest rank. A node in use that nothing outside refers
to would have a parent in use of higher rank, and so on, which cannot go on for
ever (`NothingKept`); this is `NothingLeaks`.

`AstHeapProofs` follows `ast_create_node` through its log. `Scanning` says of
entry `k` that the store is exact with the log as it is rewritten so far, and
`PushesKnown` that every activation on the stack remembers its own `Push`, which
lies before all that the activations above it have read. So the `LeftFold` or
`Push` that is replaced by a link was no link before, and each new node gets
just the one reference of the log that stands for it. When the loop has ended, the
root is in use and has no reference (`Z` is its singleton), while its children
lose those of the log (`BuiltCut`); then it is linked, or given to the client
(`BuiltHeld`). The invariant is `IInv == Counts /\ Phases`: `Counts` is `Exact`
with the log, the memo table and the client as the outside, `Phases` says what
is empty after a reset. `Fits` and `InPool`, the bounds of the model, are not
used by any proof.

**The constants of a file.** `Layout` says where the five sections of a file
begin, from the constants it was written from alone, `HasSection` that the bytes
of a section are those constants. `ReadEntries` shows, by induction over the
constants of a section, that reading from where it begins yields them and ends
where the next one begins. The bytes of a name are arbitrary, NUL included, so
are the names, their number and the words of a set: a bit of a word stands for
one element, since a number has one quotient and one remainder by `IntBit`
(`DivFacts`). `ConstantsInv` says which sections are read in which phase.

**The loader.** `Tiled` says that the buffer begins at 0, that each entry begins
where the one before it ends, and has the width of its opcode. `LoadInst`
keeps it because the two lists of operands, `Written` and `Operands`,
have the same widths for every opcode of a file (`WrittenWidth`), which is
where `UseProd` matters; the second pass keeps it because it rewrites an entry
to one of the same width (the loader writes a Ret as wide as a Jump). Then `j`
is always the address of an entry or the end (`WalkInv`). `ProdsInv` and
`BoundInv` keep, for the instructions read so far, that each lies between begin
and end of the last label before it. An instruction extends the production of
the last label only, and a new label takes no bounds away, since labels are
distinct. `HeapInv` gives the exact set of allocated blocks
for each phase, as a function of the sections and pools, so that what
`DisposeRuntime` and `DisposeLoader` free is what is left.

**The loaded code.** The first pass drops, inserts and moves instructions, the
second rewrites them where they stand, so that `LoadedFaithfully` compares two
programs of different shape. `RawInv` is what the first pass keeps: the code of
each instruction, itself and then a jump to its `next` where one is needed,
stands where the pass placed it, bare `Nop`s and `Label`s have no code, and each
instruction with a table has a table of its own. `LinkInv` is what the second
keeps: code and tables are those of the first pass, patched below `j` and
untouched from there on. Operands follow from it one kind at a time
(`LinkedOperands`), the tables of `First` from every target being listed once
(`TargetsFacts`) and `LoadedTableIsExact`.

What is left is where control goes. The loader turns a jump to a return into a
return, which may itself be the target of another jump, so the invariant has to
hold in every order of patching: a jump became a return only if control
at its target returns (`RetMeans`). File and code are then compared as two
finite machines of silent steps (`Machine`): after as many steps as it has
states a machine has come to rest or never will (`Landing`), so the chains of
that length in `Lands` and `LandsAt` say as much as chains of any length. The states
of the two machines are related by closed sets (`LeadsToCode`): a silent
step of the file is none or some of the code (`JumpsAreSilent`), and what is
silent in the code is so in the file (`SilentsAreJumps`). Two machines that are related in
this way come to rest at corresponding instructions, or both go round in a
loop of jumps for ever; the first is what `SameAtJump` and `SameAtTable` say of
branches and of tables.

**The abstract collector.** `ReachableMarked` fails in the middle of a
collection, so that it is not inductive. The invariant of marking is: roots are
marked, grey nodes are marked, the children of a marked node that is not grey are
marked, and nothing is grey while the program runs. Then the marked nodes are a
closed set around the roots, which is what `Reachable` quantifies over.

**The heap of segments.** `SegmentHeapProofs` has a lemma for every operator of
`SegmentHeap`, for all sizes of words, segments and pools, a short last word
included. `HeapExact` holds of every heap: the count of a segment is the number
of its marked blocks, the bit of the header and those that stand for no block
are set, a word that level 1 passes over is full, the free list names segments.
The pointer needs an invariant of its own, because the code does not look at the
bits it has passed: `PointerReady` says that, between two allocations, the bits
below the pointer in its word are set, and that the address is the one of the
pointer's bit unless that bit is set. This is why a word that is left is full
and may be closed in level 1 (`findNextFreeNode`), why a mask that has rotated
to the first bit of its word finds a set one, and why a fetched segment, whose
address is that of the last search, is right: its pointer stands on the header.
`OnFree` is where a successful search leaves the pointer. `Allocated` puts these
together: `tryAlloc` returns a block whose bit was clear, sets that bit and no
other, or it returns none; blocks of the heap stay blocks of it.
`Cleared`, `MarkIsSet` and `Swept` are the same for a collection; a sweep
changes no bit.

The loops (`fetchUnfilled`, `count_dead`, `Kept`) are recursive functions over an
interval of numbers. The lemmas `...IsFunction` unfold them, and facts about
all rounds come from `InductionInSet`, the principle of induction in terms of
sets.

**The AST machine on that heap.** `IInv` of `AstSweepProofs` is the conjunction of
what the log, the memo table, the cells, the build, the mark stack and the
phase are. Links, results and children are nodes in segments of the heap
(`LogInv`, `MemoInv`, `CellInv`); a block with children is one of a segment, so
that the array of a block that was never used is not counted. The mark stack
(`MarkInv`) holds marked nodes, each once, and has room for one more: the tail,
which the code takes modulo the number of slots, never wraps, and nothing on
the stack is lost. `ArraysExact` is one of the conjuncts: an allocation frees
the array of the dead node in its block, if it has one, and `final_free`, on cleared
bitmaps, reaches every block of a segment.

Each action is shown to keep `IInv` and to be a step of `MarkSweep`: a call of
the client that only loses references is a `Drop`, and so is one that copies a
reference it holds; the node of an `Inner` or `Outer` is an `Alloc` whose
children were held by the log; the start of a collection is a `Start` with the
roots (`RootsAre`: the functions that trace log and memo table visit exactly
the nodes in them); a node from the mark stack is a `Mark`, in which `Visit` over
its children adds those that were unmarked; the sweep is `Finish`; a reset of the
manager is `Reset`. Everything else stutters. So `SweepImplementsCollector`
follows, and the theorems of `MarkSweepProofs`, instantiated with the
refinement mapping (`Promised`), hold of the implementation: no block
that the log or the memo table reaches is handed out again, also in the middle
of a commit. The bitmaps of the theorem are arbitrary, so is the number
of memo slots and of links.

**The assertions of the collector.** `NoAssertionFails` covers `heap.ok`, which
conjoins the assertions of the allocator (`gc.c:741`, `797`, `944`) and that no
child to be marked is NULL, and the exit of a process whose collection made no
room. Three invariants are added to `IInv`.

`FreeReady` is about the free list between two allocations: its segments are
distinct, none is full, none is the one the pointer fills. So `nextSegment`
fetches no full segment, a search takes the segments off the list one by one
(`FetchedUnfilledFree`), and `newSegment` is called when it is empty. A
collection clears the bitmaps under the list, which is why `FreeReady` is
suspended while nodes are marked; `SweptReady` shows that `rearrangeSegList`
makes it anew.

`OkInv` also says that no slot of an array of children is NULL (`SlotsSet`), so
that `mark_mstack` visits nodes only. `ast_create_node` counts the links of a
node in one way, while it scans the log, and `constructLeft` finds them in
another, from the first entry to the last, passing over what the links of inner
nodes span. `Activated` relates the two: for every activation that is open there
is a set of links, as many as have been counted, between the head of the
activation and the `Push` of the next one, that no other link spans. It is kept
by every entry of the log (`SimpleActivated`), by a left fold (`FoldedEntry`) and
by a `Pop`, whose new link spans exactly what the inner activation has read
(`ClosedEntry`). Outside of a commit every link stands for one entry
(`LinksWhole`).

`RoomInv` is about running out. An allocation that finds no block has a segment,
so a collection always has something to sweep. Either its free list is not
empty: then the pointer is on a segment that has a dead block. Or nothing is
dead: then `count_dead` is below the threshold of `checkFull` and the heap grows.
In both cases the pointer stands in a segment that is not full (`Room`), level 1
passes over full words only, so the search finds a block (`FoundInRoom`), and the
second attempt of `bm_malloc_internal` succeeds however much the client holds.
Memory that the system refuses is not modelled, and `MaxSegments` is any number.

**Jump tables.** `LoadedTableIsExact`: for one, two and three slices,
every order of the distinct targets, any set of bytes and all addresses,
the table that is built, encoded and looked up leads each byte to the address
of its target. The target 0 is excluded: an unused place of the target list is
0 too, and `L_encode_jumps` gives it no address; it is a hazard at its line.

Assumptions, all on constants and evaluated by TLC in the runs:

* `MemoAssumption`: at least two memo points, a power of two as window (`LOG2`
  is undefined in C for others);
* `MemoSizeAssumption`: the table is not empty, and `2^LOG2(MemoPoints)` is a
  natural number, not below `MemoPoints`; the prover has no theory of
  exponents, these are facts of arithmetic;
* `MemoTableAssumption`: positions are offsets; a node is neither NULL nor the
  mark of a failure;
* `ProgramAssumption`, `LeftOverAssumption`: operands have their types, texts
  have a length;
* `FilesAssumption`: a file has a header, opcodes that `loader.c` knows, and
  one label for each production it names; `FlowAssumption`: its targets are
  instructions of the file, control does not run off the end, a `First` does
  not jump to instruction 0, a memo point has 16 bits (`loader.c` tests none of
  these; they hold of what the compiler of nez writes, and `LoadedIsFaithful` is
  the only theorem that needs them); `NoneAssumption`: the mark for "no
  instruction" is not an opcode;
* `BitSetAssumption`: the sizes of a set are numbers; `HeadAssumption`: the head of
  a file is its header and the sections as they were written, and nothing else;
* `HeapAssumption`: words, pools and segments are not empty, and a segment has at
  most as many words as a word has bits (one word of level 1 is enough for the
  segments of `gc.c`);
* `SizeAssumption`: the mark stack has a slot, the other sizes are natural numbers;
  `DetailsAssumption`: the instructions that only set a detail of a node;
* `BoundAssumption`: the bounds of the model are numbers; that they leave room
  matters to `BuildEnds` only, no proof uses it;
* `PageAssumption`: a page of the counting node store has a cell;
  `SlotsAssumption`: the number of memo slots is a natural number.

Only checked by TLC, and why:

* liveness: `Terminates` everywhere, `BuildEnds`, and the fairness in
  `ImplementsMarkSweep`;
* what recursive operators say, by induction over expressions:
  `AgreesWithPEG`, `MemoSound`, `SameMeaning`, `SimplifiedAlike`,
  `NothingLeftToDo`;
* what depends on the program being compiled from a grammar: `NoCrash`,
  `EndsClean` and `TMemoLinks`. For an arbitrary program they are false;
* `ImplementsTrees`, where the tree of a node is a recursive operator;
* the modules that use recursive operators, where the prover has no arithmetic:
  `PegOptimizer` and `Compiler` with all their properties.

## 5. Not modelled

Of the collector: the order of its initialisation. `moz_runtime_init`
(`runtime.c:37`) registers the roots before the tool has called
`NodeManager_init`, in the build with the collector through a manager that is
not there yet; the model begins after both. Only one class of sub-heap is used,
all nodes having one size, so that the others are left out.

Of the loader: what `LOADER_DEBUG` prints, the statistics of
profiling builds and their dump of the code, direct threading and the JIT.

In the compiler: symbol operations and left folds (`X...`, `Tlfold`,
`Treplace`, `Tdetree`), and literals with escapes such as in test pass011
(`compiler/expression.c:447`, a hazard). Two strings that are equal up to a NUL
are one constant; the comparison is modelled, but no grammar of the runs has a
NUL. Of vm2: instructions that the code generator does not emit. The disposal of
a vm2 module is not modelled either: `moz_vm2_module_new` hands arrays of
constants to the runtime without their sizes, so that `moz_runtime_dispose`,
which goes by the sizes, does not free them.

Printing of trees and of modules; MD5; the arrays and buffers of `src/core` (as
sequences they are part of the modules that use them); the option parsing of
the tools; the profiling allocator. Bytes above 127 (negative `char`s in the
code) and LOG2 of a single memo point are excluded by assumption and listed as
hazards.

## 6. Findings

`MemoTable_states`: `memo_elastic_fail` does not record the state of the
lookup: the entry keeps the state of whatever it evicts. With two states, a
failure recorded under one is a hit under the other. The comment at the
instruction asks the question ("FIXME MemoFail needs state???").

`PegOptimizer_shared`: the optimiser changes cells in place that others refer
to. A sequence of one element is replaced by it and its list disposed, which is
also the body of the repetition that `x+` made; a string that inlining shared
is joined with what follows it in one place.

`Compiler_labels`: the simplification copies instructions into several blocks,
the linker knows one address for each. The failure label of all copies but the
last is wrong.

`Compiler_handlers`: removing a handler puts its successor in the list of
handlers without making it one; the assertion at the top of the loop fails for
`(a (b c)*)*`. The Release build defines NDEBUG and goes on; `EdgesExact` and
`SimplifiedAlike` say that the result is right for the grammars of `Compiler`.

## 7. Plan

Done: the interpreter with symbol table, log and memo table; the proofs of
exact backtracking; the memo table by itself; the AST machine on counted nodes
and on the collector, both implementing trees; jump tables with their theorem;
the loader from the first byte of a file to the disposal of what it loaded; the
compiler from syntax trees to the second interpreter, with its constants.

Proved: the interpreter's savepoints; the memo table; the loader's constants,
walk, productions and memory, and the faithfulness of the code it loads; jump
tables; the counts, the free list and the absence of leaks of the counted nodes
under the AST machine; the segments of the collector, and that it implements
marking and sweeping under the AST machine, fails none of its assertions and
always makes room.

Next:

* The edges of the flow graph: `block_link` and `block_unlink` keep both lists
  in step, as lemmas.
