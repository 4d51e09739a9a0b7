------------------------------ MODULE SymTable ------------------------------
(***************************************************************************)
(* The symbol table of libnez (symtable.c, symtable.h, token.h).           *)
(*                                                                         *)
(* A symbol table is a stack of entries.  An entry belongs to a named      *)
(* table (its tag) and carries a token, or is a mask that hides the outer  *)
(* entries of its table.  A token is modelled by the text it denotes, a    *)
(* sequence of bytes, and stands for its own FNV-1a hash.  NoSym is the    *)
(* token with s == NULL; it stands for the hash 0, which no text is        *)
(* assumed to have.                                                        *)
(*                                                                         *)
(* The operators below are the functions of symtable.c on the array of     *)
(* entries; the machines that extend this module own the variable.         *)
(***************************************************************************)
EXTENDS Naturals, Sequences

CONSTANT NoSym

\* What a table is: a sequence of entries whose symbols are texts.
IsSeq(s) == Len(s) \in Nat /\ s = [i \in 1..Len(s) |-> s[i]]

Texts(tbl) == \A i \in 1..Len(tbl) : tbl[i].sym # NoSym => Len(tbl[i].sym) \in Nat

symtable_savepoint(tbl) == Len(tbl)

\* Mutants: a rollback that cuts one entry too many, one that does nothing, one
\* that cuts at the wrong end.
symtable_rollback_OffByOne(tbl, saved)    == SubSeq(tbl, 1, saved - 1)
symtable_rollback_CutsOldest(tbl, saved)  == SubSeq(tbl, Len(tbl) - saved + 1, Len(tbl))
symtable_rollback_KeepsEntries(tbl, saved) == tbl

\* Only the size is reset; tbl->state keeps counting and is read by nobody.
symtable_rollback(tbl, saved) == SubSeq(tbl, 1, saved)

symtable_push(tbl, tag, hash, sym) == Append(tbl, [tag |-> tag, hash |-> hash, sym |-> sym])

fnv1a(token) == token

symtable_add_symbol(tbl, tag, token) == symtable_push(tbl, tag, fnv1a(token), token)

\* The entry of a mask has the hash 0 and leaves its sym field unset: leftover is
\* whatever the C stack slot held, NULL or the pointer of some earlier token.
symtable_add_symbol_mask(tbl, tag, leftover) == symtable_push(tbl, tag, NoSym, leftover)

\* The entries of one table, by position.
EntriesOf(tbl, tag) == {i \in 1..Len(tbl) : tbl[i].tag = tag}

Innermost(S) == CHOOSE i \in S : \A j \in S : j <= i

\* The innermost entry of the table decides alone.
symtable_has_symbol(tbl, tag) ==
    LET S == EntriesOf(tbl, tag)
    IN  S # {} /\ tbl[Innermost(S)].sym # NoSym

\* The innermost token, or NoSym when the function returns 0.  A mask does not
\* end this search.
symtable_get_symbol(tbl, tag) ==
    LET S == {i \in EntriesOf(tbl, tag) : tbl[i].sym # NoSym}
    IN  IF S = {} THEN NoSym ELSE tbl[Innermost(S)].sym

\* A token equal to t inside the innermost mask of the table.
symtable_contains(tbl, tag, t) ==
    \E i \in EntriesOf(tbl, tag) :
        /\ tbl[i].hash = fnv1a(t) /\ tbl[i].sym = t
        /\ \A j \in EntriesOf(tbl, tag) : j >= i => tbl[j].sym # NoSym
=============================================================================
