---------------------------- MODULE BytecodeFile ----------------------------
(***************************************************************************)
(* The file of bytecode before its instructions (loader.c): a header, and  *)
(* five sections of constants, which the instructions name by index.  They *)
(* are read byte by byte, with nothing between them that tells where one   *)
(* ends: a length that is read or skipped wrongly shifts everything after. *)
(*                                                                         *)
(* A file is a record: the bytes of its header and constants (head), its   *)
(* instructions (insts), and the constants it was written from (consts).   *)
(***************************************************************************)
EXTENDS Integers, Sequences, Functions

CONSTANTS
    Files,          \* the files to load
    TableSize,      \* MOZ_JMPTABLE_SIZE, the number of bytes
    IntBit          \* INT_BIT, the bits of a word that a set uses

ASSUME BitSetAssumption == TableSize \in Nat /\ IntBit \in Nat \ {0}

VARIABLES
    file,           \* the file
    pos,            \* is->pos
    consts,         \* L->R->C: the constants, by section
    phase           \* "header", a section, "load", "link", "done",
                    \* "disposing", "disposed", "exit"

fileVars == <<file, pos, consts, phase>>

Sections == <<"prods", "sets", "strs", "tags", "tables", "load">>

-----------------------------------------------------------------------------
read8(at)  == IF at < Len(file.head) THEN file.head[at + 1] ELSE 0
read16(at) == read8(at) * 256 + read8(at + 1)
read32(at) == read16(at) * 65536 + read16(at + 2)

\* Mutant: the NUL that ends a name is not skipped.
Name_KeepsNul(at) ==
    [value |-> [i \in 1..read16(at) |-> read8(at + 1 + i)], next |-> at + 2 + read16(at)]

\* A length, that many bytes, which may be NULs, and a NUL.
Name(at) ==
    [value |-> [i \in 1..read16(at) |-> read8(at + 1 + i)], next |-> at + 2 + read16(at) + 1]

Words == TableSize \div IntBit

HasBit(word, b) == (word \div 2^b) % 2 = 1

BitSet(at) ==
    [value |-> {s[1] + IntBit * s[2] : s \in
                   {b \in (0..IntBit-1) \X (0..Words-1) : HasBit(read32(at + 4 * b[2]), b[1])}},
     next  |-> at + 4 * Words]

Entry(section, at) == IF section = "sets" THEN BitSet(at) ELSE Name(at)

\* The entries of a section whose count is at a position.
Entries(section, at) ==
    LET read[n \in 0..read16(at)] ==
            IF n = 0 THEN [values |-> <<>>, next |-> at + 2]
            ELSE LET entry == Entry(section, read[n - 1].next)
                 IN  [values |-> Append(read[n - 1].values, entry.value), next |-> entry.next]
    IN  read[read16(at)]

-----------------------------------------------------------------------------
FileInit ==
    /\ file \in Files
    /\ pos = 0 /\ phase = "header"
    /\ consts = [section \in {"prods", "sets", "strs", "tags", "tables"} |-> <<>>]

\* The last of the sizes of the header.
ProdSize(f) == f.head[11] * 256 + f.head[12]

checkFileType == <<read8(0), read8(1), read8(2)>> = <<78, 69, 90>>      \* "NEZ"

\* The version, which is not negative, always passes.  Four sizes follow: the
\* last is the count of the productions.
ReadHeader ==
    /\ phase = "header"
    /\ phase' = IF checkFileType THEN "prods" ELSE "exit"
    /\ pos' = IF checkFileType THEN 10 ELSE pos
    /\ UNCHANGED <<file, consts>>

ReadSection ==
    \E s \in 1..5 :
        LET entries == Entries(Sections[s], pos) IN
        /\ phase = Sections[s]
        /\ consts' = [consts EXCEPT ![phase] = entries.values]
        /\ pos' = entries.next
        /\ phase' = Sections[s + 1]
        /\ UNCHANGED file

-----------------------------------------------------------------------------
(***************************************************************************)
(* The format, as the compiler of nez writes it.                           *)
(***************************************************************************)
ByteAt(f, at)         == f.head[at + 1]
HasNumber(f, at, n)   == ByteAt(f, at) * 256 + ByteAt(f, at + 1) = n
HasName(f, at, name)  == HasNumber(f, at, Len(name)) /\ \A i \in DOMAIN name : ByteAt(f, at + 1 + i) = name[i]
WordAt(f, at)         == (ByteAt(f, at) * 256 + ByteAt(f, at + 1)) * 65536
                           + (ByteAt(f, at + 2) * 256 + ByteAt(f, at + 3))
HasBitSet(f, at, set) ==
    \A b \in 0..IntBit-1, w \in 0..Words-1 :
        b + IntBit * w \in set <=> HasBit(WordAt(f, at + 4 * w), b)

\* A constant takes its bytes, the two of its length and a NUL.
SizeIn(section, const) == IF section = "sets" THEN 4 * Words ELSE Len(const) + 3

\* Where the constants of a section begin that begins with its count, and where
\* the next section does.
Places(f, section, begin) ==
    LET place[n \in 1..Len(f.consts[section]) + 1] ==
            IF n = 1 THEN begin + 2 ELSE place[n - 1] + SizeIn(section, f.consts[section][n - 1])
    IN  place

Past(f, section, begin) == Places(f, section, begin)[Len(f.consts[section]) + 1]

Layout(f) ==
    LET sets   == Past(f, "prods", 10)
        strs   == Past(f, "sets", sets)
        tags   == Past(f, "strs", strs)
        tables == Past(f, "tags", tags)
    IN  <<10, sets, strs, tags, tables, Past(f, "tables", tables)>>

HasSection(f, section, begin) ==
    LET list == f.consts[section] IN
    /\ list \in Seq(Range(list)) /\ HasNumber(f, begin, Len(list))
    /\ \A n \in DOMAIN list :
          LET at == Places(f, section, begin)[n] IN
          IF section = "sets" THEN list[n] \subseteq 0..IntBit*Words-1 /\ HasBitSet(f, at, list[n])
          ELSE list[n] \in Seq(0..255) /\ HasName(f, at, list[n])

\* The file is its header, the sections, and nothing else.
ASSUME HeadAssumption ==
    \A f \in Files :
        /\ f.head \in Seq(0..255) /\ Len(f.head) = Layout(f)[6]
        /\ f.consts = [section \in {Sections[s] : s \in 1..5} |-> f.consts[section]]
        /\ \A s \in 1..5 : HasSection(f, Sections[s], Layout(f)[s])

-----------------------------------------------------------------------------
\* Every constant that an index can name is the one the file was written
\* from, in its place, whatever bytes the names and the words of the sets
\* have, and the instructions are read from where they begin.
ConstantsExact ==
    /\ \A section \in DOMAIN consts : consts[section] \in {<<>>, file.consts[section]}
    /\ phase \in {"load", "link", "done"} => consts = file.consts /\ pos = Len(file.head)
=============================================================================
