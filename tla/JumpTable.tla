----------------------------- MODULE JumpTable -----------------------------
(***************************************************************************)
(* The jump tables of jmptbl.h.  A table of n bit sets and 2^n jumps       *)
(* stands for an array that maps every byte to one of the jumps: the bits  *)
(* of a byte in the sets are the index of its jump.                        *)
(*                                                                         *)
(* jump_table1_t, 2_t and 3_t are the cases n = 1, 2, 3.                   *)
(***************************************************************************)
EXTENDS Integers

\* The indexes that have bit s - 1: those that the init functions test when
\* they set a bit of b[s - 1].
On == <<{1, 3, 5, 7}, {2, 3, 6, 7}, {4, 5, 6, 7}>>

\* The number of jumps of a table.
Size == <<2, 4, 8>>

\* jump_table1_init, jump_table2_init, jump_table3_init: targets are indexed
\* from 0, jumps are the jumps of the bytes.
jump_table_init(n, targets, jumps) ==
    [b     |-> [s \in 1..n |-> {ch \in DOMAIN jumps :
                                  \E k \in On[s] : k < Size[n] /\ targets[k] = jumps[ch]}],
     jumps |-> targets]

Bit(tbl, s, ch) == IF s \in DOMAIN tbl.b /\ ch \in tbl.b[s] THEN 1 ELSE 0

\* jump_table1_jump, jump_table2_jump, jump_table3_jump
jump_table_jump(tbl, ch) == tbl.jumps[Bit(tbl, 1, ch) + 2 * Bit(tbl, 2, ch) + 4 * Bit(tbl, 3, ch)]

-----------------------------------------------------------------------------
\* The targets of a table as the loader gives them: the size first ones are
\* the distinct jumps, the rest is 0.
Padded(n, target, size) == [k \in 0..Size[n]-1 |-> IF k < size THEN target[k] ELSE 0]

INT_MAX == 2147483647

\* L_encode_jumps: the table with addresses for targets.
encode_jumps(tbl, addr) ==
    [tbl EXCEPT !.jumps = [k \in DOMAIN @ |-> IF @[k] # 0 THEN addr[@[k]] ELSE INT_MAX]]
=============================================================================
