------------------------------ MODULE AstSweep ------------------------------
(***************************************************************************)
(* The AST machine (libnez/ast.c) on the mark and sweep collector          *)
(* (node/gc.c): the build with MOZVM_MEMORY_USE_MSGC, where nothing counts *)
(* references and an allocation in the middle of a commit may collect.     *)
(*                                                                         *)
(* A call of the client is one step, except that building a tree takes one *)
(* step for every node of it, for every node that the collector visits and *)
(* for its sweep.                                                          *)
(***************************************************************************)
EXTENDS SegmentHeap

CONSTANTS
    Nil,                                \* no tag, no value, no label
    SmallArray,                         \* MOZVM_SMALL_ARRAY_LIMIT, the children kept in the node
    MarkSlots,                          \* the slots of the mark stack at first
    Positions, Details, Labels,         \* the operands of the instructions
    MemoSlots,                          \* how many slots the memo table has
    MaxLinks, MaxNodes, MaxSegments     \* bounds of the model

\* A heap of that many segments is not expanded.
ASSUME BoundAssumption ==
    /\ MaxSegments \in Nat /\ MaxNodes \in Nat
    /\ MaxNodes <= (MaxSegments - 1) * NodeCount

ASSUME SizeAssumption == MemoSlots \in Nat /\ MarkSlots \in Nat \ {0} /\ SmallArray \in Nat

ASSUME DetailsAssumption == \A d \in Details : d.type \in {"Capture", "Tag", "Replace"}

VARIABLES
    heap,       \* the blocks
    cells,      \* the content of every block
    arrays,     \* how many arrays of children are allocated
    gc,         \* mode: "run", "mark" or "retry"; the mark stack and its slots
    roots,      \* the roots are registered with the manager
    log,        \* the entries: type, i, e (a node where it is a Link), shift
    memo,       \* the result of every slot, Null or a node
    parsed,     \* ast->parsed
    phase,      \* "parse", "parsed", "reset", "bare"; "exit": out of memory
    build,      \* the activations of ast_create_node, Idle outside of it
    before      \* history: the log when the build began

vars == <<heap, cells, arrays, gc, roots, log, memo, parsed, phase, build, before>>

L == INSTANCE AstLog

Slots == 1..MemoSlots

Idle  == [for |-> "none", tx |-> 0, label |-> Nil, k |-> 0, cs |-> <<>>]
\* The blocks that can hold a node.
Nodes == {o \in 1..MaxSegments * Blocks : IndexOf(o) # 0}

Blank == [tag |-> Nil, pos |-> 0, end |-> 0, value |-> Nil, label |-> Nil, kids |-> <<>>]

-----------------------------------------------------------------------------
(***************************************************************************)
(* The mark stack and the marking of a node.  g is gc with the heap.       *)
(***************************************************************************)
\* Mutant: the stack does not grow.
mstack_push_NoGrowth(g, o) == [g EXCEPT !.stack = SubSeq(Append(@, o), 1, (Len(@) + 1) % g.slots)]

\* mstack_push: the tail wraps at the number of slots, a power of 2, which is
\* doubled before it does.
mstack_push(g, o) ==
    LET slots == IF (Len(g.stack) + 1) % g.slots = 0 THEN 2 * g.slots ELSE g.slots
    IN  [g EXCEPT !.slots = slots,
                  !.stack = SubSeq(Append(@, o), 1, (Len(@) + 1) % slots)]

\* mark_mstack reads the header of the segment of the node: no child is NULL.
mark_mstack(g, o) ==
    IF o = Null THEN [g EXCEPT !.heap.ok = FALSE]
    ELSE IF Marked(g.heap, o) THEN g
    ELSE mstack_push([g EXCEPT !.heap = SetMark(@, o)], o)

Visit(g, nodes) ==
    LET visit[k \in 0..Len(nodes)] == IF k = 0 THEN g ELSE mark_mstack(visit[k - 1], nodes[k])
    IN  visit[Len(nodes)]

LinksOf(lg)   == {k \in DOMAIN lg : lg[k].type = "Link"}
LinkNodes(lg) == {lg[k].e : k \in LinksOf(lg)}

NonNull(nodes) == Kept(nodes, ToSet(nodes) \ {Null})

\* ast_trace: the nodes of the links, in the order of the log.
ast_trace == NonNull([k \in DOMAIN log |-> IF log[k].type = "Link" THEN log[k].e ELSE Null])

\* memo_trace: the results in the order of the table.
memo_trace == NonNull(memo)

\* Mutant: the results of the memo table are not visited.
RootNodes_NoMemo == IF roots THEN ast_trace ELSE <<>>

\* What the root functions visit, if they are registered.
RootNodes == IF roots THEN ast_trace \o memo_trace ELSE <<>>

Collecting(g) ==
    /\ heap' = g.heap
    /\ gc' = [mode |-> "mark", stack |-> g.stack, slots |-> g.slots]
    /\ UNCHANGED <<cells, arrays>>

WithHeap(h) == [heap |-> h, stack |-> <<>>, slots |-> gc.slots]

-----------------------------------------------------------------------------
(***************************************************************************)
(* Building a node.                                                        *)
(***************************************************************************)
Context(head, pos, push) ==
    [head |-> head, spos |-> pos, epos |-> pos, tag |-> Nil, value |-> Nil, size |-> 0, push |-> push]

\* The links of an activation from one entry to another, in their order; a Link
\* made from a Push spans the entries up to its Pop.
Links(from, to) ==
    Kept([k \in 1..to |-> k],
         {k \in from..to : /\ log[k].type = "Link"
                           /\ \A j \in from..k-1 : log[j].type = "Link" => j + log[j].shift < k})

LinkEntry(label, n, shift) == [type |-> "Link", i |-> label, e |-> n, shift |-> shift]

\* Mutant: the array of the dead node in the block is forgotten.
deferred_sweep_KeepsArray(o) == 0

\* deferred_sweep: the arrays that are freed with what the block held.
deferred_sweep(o) == IF Len(cells[o].kids) > SmallArray THEN 1 ELSE 0

\* constructLeft in block o: Node_new with c.size slots, then Node_set for every
\* link; the label is stored in the child.
constructLeft(o, c, k) ==
    LET links == Links(c.head, k)
        kids  == [i \in 1..Max({c.size, Len(links)}) |-> IF i <= Len(links) THEN log[links[i]].e ELSE Null]
        Label(n) == log[links[SelectLastInSeq(links, LAMBDA j : log[j].e = n)]].i
    IN  /\ cells' = [n \in Nodes |->
                        IF n = o THEN [Blank EXCEPT !.tag = c.tag, !.pos = c.spos, !.end = c.epos,
                                                    !.value = c.value, !.kids = kids]
                        ELSE IF n \in ToSet(kids) THEN [cells[n] EXCEPT !.label = Label(n)]
                        ELSE cells[n]]
        /\ arrays' = arrays - deferred_sweep(o) + (IF Len(kids) > SmallArray THEN 1 ELSE 0)

\* An entry that builds nothing: its effect on the activations.
Simple(lg, cs, k) ==
    LET x == lg[k]
        d == Len(cs)
    IN CASE x.type = "New"     -> [cs EXCEPT ![d] = Context(k, x.i, @.push)]
         [] x.type = "Capture" -> [cs EXCEPT ![d].epos = x.i]
         [] x.type = "Tag"     -> [cs EXCEPT ![d].tag = x.i]
         [] x.type = "Replace" -> [cs EXCEPT ![d].value = x.i]
         [] x.type = "Link"    -> [cs EXCEPT ![d].size = @ + 1]
         [] x.type = "Push"    -> Append(cs, Context(k + 1, lg[k + 1].i, k))

\* The loop of ast_create_node from entry k to the next one that builds a node,
\* or to the end.
ScanFrom(b, lg, k) ==
    LET next == Min({Len(lg) + 1} \cup {j \in k..Len(lg) : lg[j].type \in {"LeftFold", "Pop"}})
        scan[i \in 0..next - k] == IF i = 0 THEN b.cs ELSE Simple(lg, scan[i - 1], k + i - 1)
    IN  [b EXCEPT !.k = next, !.cs = scan[next - k]]

\* A node for the left operand of a LeftFold or for the entries up to a Pop.
Inner(o) ==
    LET k == build.k
        x == log[k]
        c == Last(build.cs)
        d == Len(build.cs)
    IN  /\ k <= Len(log)
        /\ constructLeft(o, c, k)
        /\ \/ /\ x.type = "LeftFold"
              /\ log' = [log EXCEPT ![k] = LinkEntry(x.e, o, 0)]
              /\ build' = ScanFrom([build EXCEPT !.cs[d] = [Context(k, x.i, c.push) EXCEPT !.epos = c.epos, !.size = 1]],
                                   log', k + 1)
           \/ /\ x.type = "Pop" /\ d > 1
              /\ log' = [log EXCEPT ![c.push] = LinkEntry(x.i, o, k - c.push)]
              /\ build' = ScanFrom([build EXCEPT !.cs = [Front(build.cs) EXCEPT ![d - 1].size = @ + 1]], log', k + 1)
        /\ UNCHANGED <<parsed, phase, before>>

\* The node of the whole: ast_commit_tx links it, ast_get_parsed_node keeps it.
Outer(o) ==
    /\ build.k > Len(log)
    /\ constructLeft(o, Last(build.cs), Len(log))
    /\ build' = Idle /\ before' = <<>>
    /\ \/ /\ build.for = "commit"
          /\ log' = Append(SubSeq(log, 1, build.tx), LinkEntry(build.label, o, 0))
          /\ UNCHANGED <<parsed, phase>>
       \/ /\ build.for = "root"
          /\ log' = <<>> /\ parsed' = o /\ phase' = "parsed"

\* A bound of the model, which BoundAssumption keeps from being met.
Bounded == Len(heap'.segs) <= MaxSegments

\* bm_malloc_internal: a block, or a collection after which it is tried again.
Alloc ==
    /\ build # Idle /\ gc.mode # "mark" /\ phase = "parse"
    /\ \E r \in {tryAlloc(heap)} :
          \/ /\ r.block # Null
             /\ heap' = r.heap /\ Bounded
             /\ gc' = [gc EXCEPT !.mode = "run"]
             /\ Inner(r.block) \/ Outer(r.block)
             /\ UNCHANGED <<roots, memo>>
          \/ /\ r.block = Null /\ gc.mode = "run"
             /\ Collecting(Visit(WithHeap(clearAllBitMapsAndCount(r.heap)), RootNodes))
             /\ UNCHANGED <<roots, log, memo, parsed, phase, build, before>>
          \/ /\ r.block = Null /\ gc.mode = "retry"
             /\ phase' = "exit"
             /\ UNCHANGED <<heap, cells, arrays, gc, roots, log, memo, parsed, build, before>>

\* bmgc_gc_mark: the node on top of the mark stack and its children.
Mark ==
    /\ gc.mode = "mark" /\ gc.stack # <<>>
    /\ Collecting(Visit([heap |-> heap, stack |-> Front(gc.stack), slots |-> gc.slots],
                        cells[Last(gc.stack)].kids))
    /\ UNCHANGED <<roots, log, memo, parsed, phase, build, before>>

Sweep ==
    /\ gc.mode = "mark" /\ gc.stack = <<>>
    /\ heap' = bmgc_gc_sweep(heap) /\ Bounded
    /\ gc' = [gc EXCEPT !.mode = "retry"]
    /\ UNCHANGED <<cells, arrays, roots, log, memo, parsed, phase, build, before>>

-----------------------------------------------------------------------------
(***************************************************************************)
(* The calls of the client.                                                *)
(***************************************************************************)
Ready == phase = "parse" /\ build = Idle
Parsing == Ready /\ UNCHANGED <<heap, cells, arrays, gc, roots, parsed, phase, before>>

Init ==
    /\ heap = HeapManager_init
    /\ cells = [o \in Nodes |-> Blank]
    /\ arrays = 0
    /\ gc = [mode |-> "run", stack |-> <<>>, slots |-> MarkSlots]
    /\ roots = TRUE
    /\ log = <<>>
    /\ memo = [s \in Slots |-> Null]
    /\ parsed = Null
    /\ phase = "parse"
    /\ build = Idle /\ before = <<>>

Append1(type, i, e) == log' = Append(log, [type |-> type, i |-> i, e |-> e, shift |-> 0])

\* The nodes that S leads to.
Reach(S) ==
    LET reach[T \in SUBSET Nodes] ==
            LET more == T \cup (UNION {ToSet(cells[n].kids) : n \in T} \ {Null})
            IN  IF more = T THEN T ELSE reach[more]
    IN  reach[S]

InUse == Reach((LinkNodes(log) \cup ToSet(memo)) \ {Null})

\* The nodes in use and those that have been begun fit into the segments of the
\* model.
Fits(lg) == Cardinality(InUse) + Len(SelectSeq(lg, LAMBDA x : x.type \in {"New", "LeftFold"})) <= MaxNodes

\* Something other than a New may come next: a node has been begun.
Begun == log # <<>> /\ log[Len(log)].type # "Push"

\* ast_log_new, _swap, _push, _pop; ast_log_capture, _tag and _replace.  A Pop
\* comes after its Push.
Log ==
    /\ Parsing
    /\ \/ \E p \in Positions : Append1("New", p, Nil)
       \/ /\ Begun
          /\ \/ \E p \in Positions, l \in Labels : Append1("LeftFold", p, l)
             \/ \E d \in Details : Append1(d.type, d.i, Nil)
             \/ Append1("Push", Nil, Nil)
             \/ \E l \in Labels : L!OpenAfter(log, Len(log)) > 0 /\ Append1("Pop", l, Nil)
    /\ Fits(log')
    /\ UNCHANGED <<memo, build>>

\* ast_rollback_tx only cuts the log.
Rollback ==
    /\ Parsing
    /\ \E tx \in 0..Len(log) : log' = SubSeq(log, 1, tx)
    /\ UNCHANGED <<memo, build>>

\* TLookup of an entry with a node.
Lookup ==
    /\ Parsing /\ Begun /\ Cardinality(LinksOf(log)) < MaxLinks
    /\ \E s \in Slots, l \in Labels :
          /\ memo[s] # Null
          /\ log' = Append(log, LinkEntry(l, memo[s], 0))
    /\ UNCHANGED <<memo, build>>

\* TMemo takes ast->last_linked, which is no root: it comes after the TCommit of
\* its expression, whose link is the last entry (TMemoLinks of MCVM1).  Memo and
\* MemoFail leave no node in the slot.
Remember ==
    /\ Parsing
    /\ \E s \in Slots :
          \/ /\ log # <<>> /\ log[Len(log)].type = "Link"
             /\ memo' = [memo EXCEPT ![s] = log[Len(log)].e]
          \/ memo' = [memo EXCEPT ![s] = Null]
    /\ UNCHANGED <<log, build>>

Start(for, tx, label) ==
    LET seg == SubSeq(log, tx + 1, Len(log))
    IN  /\ L!CanCreate(seg)
        /\ build' = ScanFrom([for |-> for, tx |-> tx, label |-> label, k |-> tx + 1,
                              cs |-> <<Context(tx + 1, log[tx + 1].i, 0)>>], log, tx + 1)
        /\ before' = log
        /\ UNCHANGED <<heap, cells, arrays, gc, roots, log, memo, parsed, phase>>

\* ast_commit_tx; the New after a Push is that of its Pop.
Commit ==
    /\ Ready
    /\ \E tx \in 0..Len(log)-1, l \in Labels :
          /\ log[tx + 1].type = "New" /\ (tx # 0 => log[tx].type # "Push")
          /\ Start("commit", tx, l)

\* ast_get_parsed_node, after an accepted parse.
GetParsed ==
    /\ Ready
    /\ \/ /\ log = <<>>
          /\ phase' = "parsed"
          /\ UNCHANGED <<heap, cells, arrays, gc, roots, log, memo, parsed, build, before>>
       \/ \E k \in DOMAIN log :
             /\ log[k].type = "New" /\ \A j \in 1..k-1 : log[j].type # "New"
             /\ Start("root", k - 1, Nil)

\* moz_runtime_reset1: a new log and a new memo table; the registered ones are
\* freed, and the manager is reset before the next allocation.
Reset1 ==
    /\ phase = "parsed" \/ Ready
    /\ phase' = "reset"
    /\ log' = <<>>
    /\ memo' = [s \in Slots |-> Null]
    /\ UNCHANGED <<heap, cells, arrays, gc, roots, parsed, build, before>>

\* Mutant: only what is dead is freed.
final_free_DeadOnly ==
    {o \in Nodes : SegmentOf(o) <= Len(heap.segs) /\ IndexOf(o) \notin heap.segs[SegmentOf(o)].bm0}

\* HeapManager_final_free: every block whose bit is clear after the bits have
\* been cleared.
final_free ==
    LET h == clearAllBitMapsAndCount(heap)
    IN  {o \in Nodes : SegmentOf(o) <= Len(h.segs) /\ IndexOf(o) \notin h.segs[SegmentOf(o)].bm0}

\* NodeManager_reset: the manager goes with its heap, its mark stack and its
\* roots.
ResetNodes ==
    /\ phase = "reset" /\ phase' = "bare"
    /\ heap' = [HeapManager_init EXCEPT !.ok = heap.ok]
    /\ arrays' = arrays - Cardinality({o \in final_free : deferred_sweep(o) = 1})
    /\ cells' = [o \in Nodes |-> Blank]
    /\ gc' = [gc EXCEPT !.slots = MarkSlots]
    /\ roots' = FALSE
    /\ parsed' = Null
    /\ UNCHANGED <<log, memo, build, before>>

\* moz_runtime_reset2
Reset2 ==
    /\ phase = "bare" /\ phase' = "parse"
    /\ roots' = TRUE
    /\ UNCHANGED <<heap, cells, arrays, gc, log, memo, parsed, build, before>>

Client == Log \/ Rollback \/ Lookup \/ Remember \/ Commit \/ GetParsed \/ Reset1 \/ ResetNodes \/ Reset2
Work   == Alloc \/ Mark \/ Sweep
Next   == Client \/ Work

\* A call that has begun goes on; the client may stop at any time.  This is
\* WF_vars(Work): Work is enabled exactly while a build is going on.
Fairness == []<>(build = Idle \/ phase = "exit") \/ []<><<Work>>_vars

Spec == Init /\ [][Next]_vars /\ Fairness

-----------------------------------------------------------------------------
(***************************************************************************)
(* Properties.                                                             *)
(***************************************************************************)
Segs == DOMAIN heap.segs
MarkedNodes == {o \in Nodes : SegmentOf(o) \in Segs /\ Marked(heap, o)}

\* live_count is the number of nodes whose bit is set, the header is never one
\* of them, and a word that level 1 passes over is full: the counts decide which
\* segments are searched again and when the heap grows.
CountsExact ==
    \A s \in Segs : LET seg == heap.segs[s] IN
        /\ {0} \cup NoBlock \subseteq seg.bm0 /\ seg.live = Cardinality(seg.bm0 \ ({0} \cup NoBlock))
        /\ \A w \in seg.bm1 : w < Words => WordFull(seg.bm0, w)

\* The address that the next allocation returns is the one of the bit that it
\* sets, unless that bit is set and a search comes first.
PointerExact == ~isMarked(heap) /\ gc.mode = "run" =>
                    heap.p.block = Address(heap.p.seg, heap.p.idx * Bits + heap.p.mask)

\* What an allocation goes by is what the bitmaps say: the counts, level 1 and
\* the pointer, through allocations, collections and expansions (gc.c:883).
BitmapsExact == CountsExact /\ PointerExact

\* The assertions of gc.c, and no collection fails to make room.
NoAssertFails == heap.ok /\ phase # "exit"

WithArray == {o \in Nodes : Len(cells[o].kids) > SmallArray}

\* Every array of children belongs to one block: it is freed when the block is
\* used again or with the manager, once.
ArraysExact == arrays = Cardinality(WithArray)

\* A tree that is being built is finished, whatever is collected on the way.
BuildEnds == build # Idle ~> build = Idle

-----------------------------------------------------------------------------
(***************************************************************************)
(* Refinement of the collector.  A slot of an array that is not set is no  *)
(* child.                                                                  *)
(***************************************************************************)
Collector == INSTANCE MarkSweep WITH
    Node   <- Nodes,
    roots  <- ToSet(RootNodes),
    kids   <- [o \in Nodes |-> ToSet(cells[o].kids) \ {Null}],
    marked <- MarkedNodes,
    grey   <- ToSet(gc.stack),
    mode   <- IF gc.mode = "mark" THEN "mark" ELSE "run"

\* Bitmaps, segments and the mark stack implement the sets of MarkSweep.
ImplementsMarkSweep == Collector!Spec
=============================================================================
