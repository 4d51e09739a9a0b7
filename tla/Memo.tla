-------------------------------- MODULE Memo --------------------------------
(***************************************************************************)
(* The elastic memo table of libnez (memo.c, memo.h): a direct-mapped      *)
(* cache of parse results keyed by position and memo point.                *)
(*                                                                         *)
(* A position is an address (mozpos_t is const char* in the default build) *)
(* and is modelled by its distance from the start of the input, which lies *)
(* at SourceAddr.                                                          *)
(***************************************************************************)
EXTENDS Naturals

CONSTANTS
    WindowSize,     \* MOZ_MEMO_DEFAULT_WINDOW_SIZE, the parameter w
    MemoPoints,     \* the number n of memo points of the bytecode
    SourceAddr,     \* the address of the input
    NoNode,         \* the NULL node
    FailedResult    \* MEMO_ENTRY_FAILED, which shares a union with the node

\* LOG2(1) is __builtin_clzl(0), which C leaves undefined, and LOG2(0) shifts by
\* the width of int; the mask needs a power of two; no input lies at address 0.
ASSUME MemoAssumption ==
    /\ MemoPoints \in Nat /\ MemoPoints >= 2
    /\ \E k \in 0..10 : WindowSize = 2^k
    /\ SourceAddr \in Nat \ {0}

LOG2(n) == CHOOSE k \in 0..n : 2^k >= n /\ \A j \in 0..k-1 : 2^j < n

memo_len   == WindowSize * 2^LOG2(MemoPoints)
memo_shift == LOG2(MemoPoints) + 1

\* The table has a slot, and the shift makes room for every memo point: what the
\* definitions above give for a memo point count that LOG2 is defined for.
ASSUME MemoSizeAssumption ==
    /\ memo_len \in Nat \ {0}
    /\ 2^memo_shift \in Nat /\ MemoPoints <= 2^memo_shift

\* (pos << shift) | memoId, for memoId < 2^shift
memo_hash(pos, memoId) == (SourceAddr + pos) * 2^memo_shift + memoId

\* hash & mask, where mask = len - 1
memo_index(hash) == hash % memo_len

memo_elastic_init ==
    [i \in 0..memo_len-1 |->
        [hash |-> 0, result |-> NoNode, consumed |-> 0, state |-> 0]]

memo_set(memo, pos, memoId, result, consumed, state) ==
    LET h == memo_hash(pos, memoId)
    IN  [memo EXCEPT ![memo_index(h)] =
            [hash |-> h, result |-> result, consumed |-> consumed, state |-> state]]

\* Mutant: the hash of the evicted entry stays.
memo_fail_KeepsHash(memo, pos, memoId) ==
    [memo EXCEPT ![memo_index(memo_hash(pos, memoId))].result = FailedResult]

\* The consumed and state fields keep what the evicted entry had.
memo_fail(memo, pos, memoId) ==
    LET h   == memo_hash(pos, memoId)
        old == memo[memo_index(h)]
    IN  [memo EXCEPT ![memo_index(h)] =
            [hash |-> h, result |-> FailedResult,
             consumed |-> old.consumed, state |-> old.state]]

\* memo_get returns the entry, or NULL when there is no hit.
memo_entry(memo, pos, memoId) == memo[memo_index(memo_hash(pos, memoId))]

\* Mutant: any entry in the slot is a hit.
memo_hit_IgnoresHash(memo, pos, memoId, state) ==
    memo_entry(memo, pos, memoId).state = state

memo_hit(memo, pos, memoId, state) ==
    /\ memo_entry(memo, pos, memoId).hash = memo_hash(pos, memoId)
    /\ memo_entry(memo, pos, memoId).state = state
=============================================================================
