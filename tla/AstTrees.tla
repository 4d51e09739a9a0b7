------------------------------ MODULE AstTrees ------------------------------
(***************************************************************************)
(* What the AST machine and the memo table promise to the interpreter,     *)
(* with nodes as values: a node in the log, in the memo table or in the    *)
(* hands of the client is a tree, and nothing that happens elsewhere       *)
(* changes it.  AstHeap implements this with shared, counted nodes, but    *)
(* for the labels of nodes that are linked again (ImplementsTrees of       *)
(* MCAstHeap says how far).                                                *)
(***************************************************************************)
EXTENDS AstLog

CONSTANTS
    Positions, Details, Labels,         \* the operands of the instructions
    Slots,                              \* the slots of the memo table
    NoNode                              \* an empty slot; no tree to return

VARIABLES
    log,        \* the operation log
    memo,       \* the tree in every slot
    root,       \* the tree that ast_get_parsed_node returned
    phase       \* "parse", "parsed": the client has the root, "reset"

vars == <<log, memo, root, phase>>

Init ==
    /\ log = <<>>
    /\ memo = [s \in Slots |-> NoNode]
    /\ root = NoNode
    /\ phase = "parse"

Parsing == phase = "parse" /\ UNCHANGED <<root, phase>>

\* The calls that change the log, as relations of the log before and the log next
\* that they leave.
Simple(next) == next \in
    {ast_log_new(log, p) : p \in Positions} \cup {ast_log_push(log)}
    \cup {ast_log(log, d.type, d.i, Nil) : d \in Details}
    \cup {ast_log_swap(log, p, l) : p \in Positions, l \in Labels}
    \cup {ast_log_pop(log, l) : l \in Labels}

\* The savepoint is the length of what is left.
Rollback(next) == Len(next) <= Len(log) /\ next = ast_rollback_tx(log, Len(next))

\* The savepoint is the length of what is left below the link of the new node.
Commit(next) ==
    LET tx == Len(next) - 1
    IN  /\ tx \in 0..Len(log) /\ CanCreate(Segment(log, tx))
        /\ \E l \in Labels : next = ast_commit_tx(log, l, tx)

Lookup(next) == \E s \in Slots, l \in Labels :
    memo[s] # NoNode /\ next = ast_log_link(log, l, memo[s])

\* The node linked last, while its link is the last entry of the log.
TMemo == \E s \in Slots :
    /\ log # <<>> /\ log[Len(log)].type = "Link"
    /\ memo' = [memo EXCEPT ![s] = log[Len(log)].e]

Forget == \E s \in Slots : memo' = [memo EXCEPT ![s] = NoNode]

GetParsed ==
    /\ phase = "parse" /\ phase' = "parsed"
    /\ log' = <<>>
    /\ \/ log = <<>> /\ root' = NoNode
       \/ FirstNew(log) # 0 /\ CanCreate(RootSegment(log)) /\ root' = ast_create_node(RootSegment(log))
    /\ UNCHANGED memo

Released == phase = "parsed" /\ root' = NoNode /\ UNCHANGED <<log, memo, phase>>

Reset1 ==
    /\ phase \in {"parse", "parsed"} /\ phase' = "reset"
    /\ log' = <<>> /\ memo' = [s \in Slots |-> NoNode]
    /\ UNCHANGED root

ResetNodes == phase = "reset" /\ phase' = "parse" /\ root' = NoNode /\ UNCHANGED <<log, memo>>

Next ==
    \/ Parsing /\ UNCHANGED log /\ (Forget \/ TMemo)
    \/ /\ Parsing /\ UNCHANGED memo
       /\ \E next \in {log'} : Rollback(next) \/ Simple(next) \/ Lookup(next) \/ Commit(next)
    \/ GetParsed \/ Released \/ Reset1 \/ ResetNodes

Spec == Init /\ [][Next]_vars
=============================================================================
