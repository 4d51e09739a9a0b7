------------------------------ MODULE AstHeap ------------------------------
(***************************************************************************)
(* The AST machine (libnez/ast.c) on the node store: its log holds         *)
(* references to nodes, a commit builds nodes from the log in place and    *)
(* the memo table and the client share them.                               *)
(*                                                                         *)
(* One step is one call of the interface of ast.h or memo.h, or one of the *)
(* calls that moz and test.c make around a parse.  The calls come in any   *)
(* order that the interpreter can make them in; positions and memo keys    *)
(* are left to VM1 and MemoTable, a call may use any slot.                 *)
(***************************************************************************)
EXTENDS NodeStore

CONSTANTS
    Positions, Details, Labels,         \* the operands of the instructions
    MemoSlots,                          \* how many slots the memo table has
    MaxLog, MaxPages                    \* bounds of the model

ASSUME DetailsAssumption == \A d \in Details : d.type \in {"Capture", "Tag", "Replace"}

ASSUME SlotsAssumption == MemoSlots \in Nat

VARIABLES
    store,      \* the node store
    log,        \* the entries: type, i, e (a node where it is a Link), shift
    lastLinked, \* ast->last_linked
    memo,       \* the result of every slot, Null or a node
    parsed,     \* the node that the client holds
    phase       \* "parse", "parsed", "reset": moz_runtime_reset1 has run

vars == <<store, log, lastLinked, memo, parsed, phase>>

L == INSTANCE AstLog

Slots == 1..MemoSlots

-----------------------------------------------------------------------------
(***************************************************************************)
(* Building a node, in place.  s.cs is the stack of the activations of     *)
(* ast_create_node, with their locals; push is the entry that called.      *)
(***************************************************************************)
Context(head, pos, push) ==
    [head |-> head, spos |-> pos, epos |-> pos, tag |-> Nil, value |-> Nil, size |-> 0, push |-> push]

\* The links of an activation: a Link made from a Push spans the entries up to
\* its Pop.
Links(lg, from, to) ==
    {k \in from..to : lg[k].type = "Link" /\ \A j \in from..k-1 : lg[j].type = "Link" => j + lg[j].shift < k}

\* A step of the loop of constructLeft: entry j, if it is one of the links.
SetLink(f, o, lg, links, j) ==
    IF j \in links THEN [st |-> Node_set(f.st, o, f.n + 1, lg[j].i, lg[j].e), n |-> f.n + 1] ELSE f

\* Mutant: the children come in the order from the last link to the first.
constructLeft_Backwards(s, k) ==
    LET c     == Last(s.cs)
        new   == Node_new(s.st, c.tag, c.spos, c.epos, c.size, c.value)
        links == Links(s.log, c.head, k)
        set[j \in 0..k] == IF j = 0 THEN [st |-> new, n |-> 0]
                           ELSE SetLink(set[j - 1], node_alloc(s.st), s.log, links, k + 1 - j)
    IN  IF c.size = 0 THEN new ELSE set[k].st

\* constructLeft: the store with the new node, whose children are the links
\* from c.head to entry k.
constructLeft(s, k) ==
    LET c     == Last(s.cs)
        new   == Node_new(s.st, c.tag, c.spos, c.epos, c.size, c.value)
        links == Links(s.log, c.head, k)
        set[j \in 0..k] == IF j = 0 THEN [st |-> new, n |-> 0]
                           ELSE SetLink(set[j - 1], node_alloc(s.st), s.log, links, j)
    IN  IF c.size = 0 THEN new ELSE set[k].st

LinkEntry(label, n, shift) == [type |-> "Link", i |-> label, e |-> n, shift |-> shift]

\* The switch of ast_create_node.
ScanEntry(s, k) ==
    LET d    == Len(s.cs)
        c    == s.cs[d]
        x    == s.log[k]
        node == node_alloc(s.st)
    IN CASE x.type = "New"     -> [s EXCEPT !.cs[d] = Context(k, x.i, c.push)]
         [] x.type = "Capture" -> [s EXCEPT !.cs[d].epos = x.i]
         [] x.type = "Tag"     -> [s EXCEPT !.cs[d].tag = x.i]
         [] x.type = "Replace" -> [s EXCEPT !.cs[d].value = x.i]
         [] x.type = "Link"    -> [s EXCEPT !.cs[d].size = @ + 1]
         [] x.type = "Push"    -> [s EXCEPT !.cs = Append(@, Context(k + 1, s.log[k + 1].i, k))]
         [] x.type = "LeftFold" ->
                [s EXCEPT !.st = Retain(constructLeft(s, k), node),
                          !.log[k] = LinkEntry(x.e, node, 0),
                          !.cs[d] = [Context(k, x.i, c.push) EXCEPT !.epos = c.epos, !.size = 1]]
         [] x.type = "Pop" ->
                [s EXCEPT !.st = Retain(constructLeft(s, k), node),
                          !.log[c.push] = LinkEntry(x.i, node, k - c.push),
                          !.cs = [Front(s.cs) EXCEPT ![d - 1].size = @ + 1]]

\* The state after the loop of ast_create_node from entry k on.
Scanned(st, lg, k) ==
    LET scan[i \in 0..Len(lg) - k + 1] ==
            IF i = 0 THEN [st |-> st, log |-> lg, cs |-> <<Context(k, lg[k].i, 0)>>]
            ELSE ScanEntry(scan[i - 1], k + i - 1)
    IN  scan[Len(lg) - k + 1]

-----------------------------------------------------------------------------
(***************************************************************************)
(* The operations.                                                         *)
(***************************************************************************)
\* Mutant: the links that are cut off keep their references.
Cut_KeepsReferences(st, lg, tx) == st

\* ast_rollback_tx releases the nodes of the links it cuts off.
Cut(st, lg, tx) ==
    ReleaseAll(st, [k \in 1..Len(lg) |-> IF k > tx /\ lg[k].type = "Link" THEN lg[k].e ELSE Null])

Append1(type, i, e) == log' = Append(log, [type |-> type, i |-> i, e |-> e, shift |-> 0])

Parsing == phase = "parse" /\ UNCHANGED <<parsed, phase>>

Init ==
    /\ store = NodeManager_init
    /\ log = <<>> /\ lastLinked = Null
    /\ memo = [s \in Slots |-> Null]
    /\ parsed = Null
    /\ phase = "parse"

\* The nodes that have been begun fit into the pool of the model, next to those
\* in use.
Fits(lg) == Len(store.cells) - store.count + Len(SelectSeq(lg, LAMBDA x : x.type \in {"New", "LeftFold"}))
                <= MaxPages * PageSize

\* Something other than a New may come next: a node has been begun.
Begun == log # <<>> /\ log[Len(log)].type # "Push"

\* The bound of the log: a Push and its Pop do not count.
Room(lg) ==
    LET pops == Len(SelectSeq(lg, LAMBDA x : x.type = "Pop"))
    IN  Len(lg) - (IF L!OpenAfter(lg, Len(lg)) >= 0 THEN 2 * pops ELSE 0) <= MaxLog

\* ast_log_new, _swap, _push, _pop; ast_log_capture, _tag and _replace, which
\* add a detail to the node.
Log ==
    /\ Parsing
    /\ \/ \E p \in Positions : Append1("New", p, Nil)
       \/ /\ Begun
          /\ \/ \E p \in Positions, l \in Labels : Append1("LeftFold", p, l)
             \/ \E d \in Details : Append1(d.type, d.i, Nil)
             \/ Append1("Push", Nil, Nil)
             \/ \E l \in Labels : Append1("Pop", l, Nil)
    /\ Room(log') /\ Fits(log')
    /\ UNCHANGED <<store, lastLinked, memo>>

\* A failure cuts the log at any length that a frame has saved.
Rollback ==
    /\ Parsing
    /\ \E tx \in 0..Len(log) : store' = Cut(store, log, tx) /\ log' = SubSeq(log, 1, tx)
    /\ UNCHANGED <<lastLinked, memo>>

\* Mutant: the new node is linked without a reference.
LinkNode_NoRetain(st, lg, label, n) ==
    /\ store' = st
    /\ log' = Append(lg, LinkEntry(label, n, 0))
    /\ lastLinked' = n

\* ast_log_link
LinkNode(st, lg, label, n) ==
    /\ store' = Retain(st, n)
    /\ log' = Append(lg, LinkEntry(label, n, 0))
    /\ lastLinked' = n

\* The pool may grow up to the bound of the model.
InPool(st) == Len(st.cells) <= MaxPages * PageSize

\* ast_commit_tx: the node is built before its children lose the references of
\* the log.
Commit ==
    /\ Parsing
    /\ \E tx \in 0..Len(log)-1, label \in Labels :
          /\ log[tx + 1].type = "New" /\ L!CanCreate(SubSeq(log, tx + 1, Len(log)))
          /\ LET s     == Scanned(store, log, tx + 1)
                 built == constructLeft(s, Len(log))
             IN  /\ InPool(built)
                 /\ LinkNode(Cut(built, s.log, tx), SubSeq(log, 1, tx), label, node_alloc(s.st))
    /\ UNCHANGED memo

\* TLookup of an entry with a node.
Lookup ==
    /\ Parsing /\ Begun
    /\ \E s \in Slots, label \in Labels : memo[s] # Null /\ LinkNode(store, log, label, memo[s])
    /\ Room(log')
    /\ UNCHANGED memo

\* memo_set retains the new result and then releases the old one.
Fill(slot, n) ==
    /\ store' = ReleaseIf(RetainIf(store, n), memo[slot])
    /\ memo' = [memo EXCEPT ![slot] = n]

\* TMemo takes ast->last_linked.  It comes after the TCommit of the expression:
\* the last entry is the link of that node (TMemoLinks of MCVM1).
TMemo ==
    /\ Parsing
    /\ log # <<>> /\ log[Len(log)].type = "Link" /\ log[Len(log)].e = lastLinked
    /\ \E s \in Slots : Fill(s, lastLinked)
    /\ UNCHANGED <<log, lastLinked>>

\* Memo and MemoFail leave no node in the slot.
Forget ==
    /\ Parsing
    /\ \E s \in Slots : Fill(s, Null)
    /\ UNCHANGED <<log, lastLinked>>

\* ast_get_parsed_node, after an accepted parse.
GetParsed ==
    /\ phase = "parse" /\ phase' = "parsed"
    /\ log' = <<>>
    /\ \/ log = <<>> /\ UNCHANGED <<store, parsed>>
       \/ \E first \in DOMAIN log :
             /\ log[first].type = "New" /\ \A j \in 1..first-1 : log[j].type # "New"
             /\ L!CanCreate(SubSeq(log, first, Len(log)))
             /\ LET s     == Scanned(store, log, first)
                    built == constructLeft(s, Len(log))
                IN  /\ InPool(built)
                    /\ store' = Retain(Cut(built, s.log, 0), node_alloc(s.st))
                    /\ parsed' = node_alloc(s.st)
    /\ UNCHANGED <<lastLinked, memo>>

\* moz and mozvm release the root; test.c does not.
ReleaseParsed ==
    /\ phase = "parsed" /\ parsed # Null
    /\ store' = Release(store, parsed)
    /\ parsed' = Null
    /\ UNCHANGED <<log, lastLinked, memo, phase>>

\* moz_runtime_reset1, after a parse that was accepted or rejected: dispose of
\* the AST machine, then of the memo table, and make new ones.
Reset1 ==
    /\ phase \in {"parse", "parsed"} /\ phase' = "reset"
    /\ store' = ReleaseAll(Cut(store, log, 0), memo)
    /\ log' = <<>> /\ lastLinked' = Null
    /\ memo' = [s \in Slots |-> Null]
    /\ UNCHANGED parsed

\* NodeManager_reset frees all pages and starts with a new one.
ResetNodes ==
    /\ phase = "reset" /\ phase' = "parse"
    /\ store' = NodeManager_reset(store)
    /\ parsed' = Null
    /\ UNCHANGED <<log, lastLinked, memo>>

Next ==
    \/ Log \/ Rollback \/ Commit \/ Lookup \/ TMemo \/ Forget
    \/ GetParsed \/ ReleaseParsed \/ Reset1 \/ ResetNodes

Spec == Init /\ [][Next]_vars

-----------------------------------------------------------------------------
(***************************************************************************)
(* Properties.                                                             *)
(***************************************************************************)
Nodes == DOMAIN store.cells
Live  == {n \in Nodes : store.cells[n].rc > 0}

References(n) ==
    Cardinality({k \in DOMAIN log : log[k].type = "Link" /\ log[k].e = n})
    + Cardinality(UNION {{m} \X {i \in DOMAIN store.cells[m].kids : store.cells[m].kids[i] = n} : m \in Live})
    + Cardinality({s \in Slots : memo[s] = n})
    + (IF parsed = n THEN 1 ELSE 0)

\* A node's count is the number of references to it, from links of the log,
\* children of live nodes, memo slots and the client: nothing that is in use is
\* free, and nothing that is not in use is kept.
RefsExact == \A n \in Nodes : References(n) = IF n \in Live THEN store.cells[n].rc ELSE 0

\* The free list holds every cell that is not in use exactly once, and
\* free_object_count is its length, which alloc_page relies on.
FreeListExact ==
    /\ ToSet(store.free) = Nodes \ Live
    /\ Len(store.free) = Cardinality(Nodes \ Live)
    /\ store.count = Len(store.free)

\* The assertions of the store: no release of a dead node, no free of a node in
\* use, a page only when the list is empty, no node its own child.
NoAssertFails == store.ok

\* The free list is exact, and so the assertions of the store, which go by it
\* and by the counts, hold (node.c:264, node.c:379).
StoreExact == FreeListExact /\ NoAssertFails

\* Between two parses of a client that has released the root, the runtime holds
\* no node: no cycle, no forgotten reference.
NothingLeaks == phase = "reset" /\ parsed = Null => Live = {}
=============================================================================
