------------------------------- MODULE AstLog -------------------------------
(***************************************************************************)
(* The operation log of the AST machine of libnez (ast.c, ast.h).          *)
(*                                                                         *)
(* While it parses, the VM only appends to a log; a node is built from the *)
(* end of the log when a transaction is committed.  A log entry is the C   *)
(* record: its type and the two unions i (position, tag, value or label)   *)
(* and e (label or node).  Here a node is the tree it denotes: its tag,    *)
(* the positions where it starts and ends, its value and its children with *)
(* their labels.  Who owns a node and when it is freed is left to the heap *)
(* below this module.                                                      *)
(***************************************************************************)
EXTENDS Integers, SequencesExt

CONSTANT Nil        \* no tag, no value, no label

ast_log(log, type, i, e) == Append(log, [type |-> type, i |-> i, e |-> e])

ast_log_new(log, pos)           == ast_log(log, "New", pos, Nil)
ast_log_capture(log, pos)       == ast_log(log, "Capture", pos, Nil)
ast_log_tag(log, tag)           == ast_log(log, "Tag", tag, Nil)
ast_log_replace(log, str)       == ast_log(log, "Replace", str, Nil)
ast_log_swap(log, pos, label)   == ast_log(log, "LeftFold", pos, label)
ast_log_push(log)               == ast_log(log, "Push", Nil, Nil)
ast_log_pop(log, label)         == ast_log(log, "Pop", label, Nil)
ast_log_link(log, label, node)  == ast_log(log, "Link", label, node)

\* Mutants: a transaction that starts after the next entry, a rollback that
\* does nothing.
ast_save_tx_OffByOne(log)           == Len(log) + 1
ast_rollback_tx_KeepsEntries(log, tx) == log

ast_save_tx(log)         == Len(log)
ast_rollback_tx(log, tx) == SubSeq(log, 1, tx)

-----------------------------------------------------------------------------
(***************************************************************************)
(* Building a node.  ast_create_node scans the log once; a Push recurses   *)
(* until the matching Pop.  The recursion is a stack of contexts, the last *)
(* one innermost: the local variables of one activation, with the links    *)
(* between head and cur as the list of children.                           *)
(***************************************************************************)
Context(pos) == [spos |-> pos, epos |-> pos, tag |-> Nil, value |-> Nil, kids |-> <<>>]

constructLeft(c) ==
    [tag |-> c.tag, pos |-> c.spos, end |-> c.epos, value |-> c.value, kids |-> c.kids]

Child(label, node) == [label |-> label, node |-> node]

AddChild(c, label, node) == [c EXCEPT !.kids = Append(@, Child(label, node))]

\* The effect of one log entry on the innermost context.
Scan(c, entry) ==
    CASE entry.type = "New"      -> Context(entry.i)
      [] entry.type = "Capture"  -> [c EXCEPT !.epos = entry.i]
      [] entry.type = "Tag"      -> [c EXCEPT !.tag = entry.i]
      [] entry.type = "Replace"  -> [c EXCEPT !.value = entry.i]
      [] entry.type = "LeftFold" -> [c EXCEPT !.spos = entry.i, !.tag = Nil, !.value = Nil,
                                              !.kids = <<Child(entry.e, constructLeft(c))>>]
      [] entry.type = "Link"     -> AddChild(c, entry.i, entry.e)

\* How an entry changes the number of open activations.
Opens(entry) == IF entry.type = "Push" THEN 1 ELSE IF entry.type = "Pop" THEN -1 ELSE 0

\* How many activations are open after the first k entries, besides the first.
OpenAfter(seg, k) ==
    LET open[j \in 0..k] == IF j = 0 THEN 0 ELSE open[j - 1] + Opens(seg[j]) IN open[k]

\* Push and Pop enter and leave an activation; every other entry is scanned by
\* the innermost one, number d.
ScanAt(seg, cs, k) ==
    LET d == 1 + OpenAfter(seg, k - 1)
    IN  CASE seg[k].type = "Push" -> Append(cs, Context(seg[k+1].i))
          [] seg[k].type = "Pop"  -> [Front(cs) EXCEPT ![d-1] =
                                          AddChild(@, seg[k].i, constructLeft(cs[d]))]
          [] OTHER -> [cs EXCEPT ![d] = Scan(@, seg[k])]

ast_create_node(seg) ==
    constructLeft(Head(FoldLeftDomain(LAMBDA cs, k : ScanAt(seg, cs, k),
                                      <<Context(seg[1].i)>>, seg)))

\* The assertions of ast_create_node: no Pop without a Push (pushed != NULL)
\* and every Push turned into a Link by its Pop.  A third one, of constructLeft
\* (child != NULL), is left out: a Link without a node could only come from a TMemo
\* without one, which TMemoLinks of MCVM1 rules out.
CanCreate(seg) ==
    /\ seg # <<>>
    /\ \A k \in 1..Len(seg) : OpenAfter(seg, k) >= 0
    /\ OpenAfter(seg, Len(seg)) = 0

\* The log of a transaction, from tx to the tail.
Segment(log, tx) == SubSeq(log, tx + 1, Len(log))

ast_commit_tx(log, label, tx) ==
    ast_log_link(ast_rollback_tx(log, tx), label, ast_create_node(Segment(log, tx)))

\* ast_get_parsed_node builds the root from the first New of the log.
FirstNew(log) == SelectInSeq(log, LAMBDA x : x.type = "New")

RootSegment(log) == SubSeq(log, FirstNew(log), Len(log))
=============================================================================
