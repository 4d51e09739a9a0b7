---------------------------- MODULE LoaderProofs ----------------------------
(***************************************************************************)
(* The loader walks its own code, bounds productions, reads the constants, *)
(* frees what it allocated, and loads what the file says, for every file   *)
(* that the compiler of nez may write.                                     *)
(*                                                                         *)
(* The invariants, each on its own: the buffer is tiled by instructions    *)
(* (Tiled), a production that has begun holds the addresses of the         *)
(* instructions after its label (BoundInv), the heap is what the phase     *)
(* says (HeapIs), the sections that have been read are those of the file   *)
(* (ConstantsInv), and code and tables are the ones the first pass wrote,  *)
(* linked below the address the second pass has come to (LinkInv).         *)
(***************************************************************************)
EXTENDS Loader, FiniteSetTheorems, SequenceTheorems, TLAPS

-----------------------------------------------------------------------------
(***************************************************************************)
(* Opcodes and their sizes.                                                *)
(***************************************************************************)
LEMMA WidthIsPositive ==
    ASSUME NEW kinds, Len(kinds) \in Nat, DOMAIN kinds = 1..Len(kinds)
    PROVE  WidthOf(kinds) \in Nat /\ WidthOf(kinds) > 0
<1> DEFINE A == {n \in DOMAIN kinds : kinds[n] \notin Size1}
           B == {n \in DOMAIN kinds : kinds[n] \in Size4}
<1>1. IsFiniteSet(1..Len(kinds))
  BY FS_Interval
<1>2. A \in SUBSET (1..Len(kinds)) /\ B \in SUBSET (1..Len(kinds))
  OBVIOUS
<1>3. Cardinality(A) \in Nat /\ Cardinality(B) \in Nat
  BY <1>1, <1>2, FS_Subset, FS_CardinalityType
<1>4. WidthOf(kinds) = 1 + Len(kinds) + Cardinality(A) + 2 * Cardinality(B)
  BY DEF WidthOf
<1> HIDE DEF A, B
<1> QED
  BY <1>3, <1>4

LEMMA OpcodesAreOpcodes ==
    /\ FileOpcodes \subseteq Opcodes /\ Jumps \subseteq Opcodes
    /\ "Jump" \in Opcodes /\ "Ret" \in Opcodes
  BY DEF FileOpcodes, Opcodes, Jumps, Others

LEMMA WrittenIsSequence ==
    \A op \in Opcodes : Len(Written(op)) \in Nat /\ DOMAIN Written(op) = 1..Len(Written(op))
<1> SUFFICES ASSUME NEW op \in Opcodes
             PROVE  Len(Written(op)) \in Nat /\ DOMAIN Written(op) = 1..Len(Written(op))
  OBVIOUS
<1>1. Written(op) \in {<<"jump">>, <<"prod", "next", "jump">>, <<"next", "jump">>,
                        <<"byte">>, <<"str">>, <<"set">>, <<"shift">>, <<"tblId">>,
                        <<"state", "memo", "jump">>, <<"state", "memo">>, <<"tag">>,
                        <<"shift", "tag">>, <<"state", "tag", "memo", "jump">>,
                        <<"table", "str">>, <<"table">>, <<"status">>, <<>>}
  BY DEF Written
<1> QED
  BY <1>1

LEMMA WrittenWidthIsPositive ==
    \A op \in Opcodes : WrittenWidth[op] \in Nat /\ WrittenWidth[op] > 0
  BY WrittenIsSequence, WidthIsPositive DEF WrittenWidth

\* With and without MOZVM_USE_PROD a jump and a return have one size.
LEMMA RetIsWideAsJump == WrittenWidth["Jump"] = WrittenWidth["Ret"]
<1>1. Written("Jump") = <<"jump">> /\ Written("Ret") = <<"jump">>
  BY DEF Written, Chars, Strings, BitSets, Shifts, Tags, Symbols, Memos, Jumps
<1>2. \A op \in Opcodes : WrittenWidth[op] = WidthOf(Written(op))
  BY DEF WrittenWidth
<1> QED
  BY <1>1, <1>2, OpcodesAreOpcodes

\* mozvm1_opcode_size and mozvm_loader_load_inst agree.
LEMMA WidthsAgree ==
    ASSUME ~ UseProd
    PROVE  \A op \in Opcodes : Width[op] = WrittenWidth[op]
<1>1. \A op \in Opcodes : Operands(op) = Written(op)
  BY DEF Operands, Written, Opcodes, Chars, Strings, BitSets, Shifts, Tags, Symbols,
         Memos, Jumps, Others
<1> QED
  BY <1>1 DEF Width, WrittenWidth

-----------------------------------------------------------------------------
(***************************************************************************)
(* The buffer.                                                             *)
(***************************************************************************)
IsSeq(s) == s \in Seq({s[i] : i \in DOMAIN s})

LEMMA SeqFacts ==
    ASSUME NEW s, IsSeq(s)
    PROVE  Len(s) \in Nat /\ DOMAIN s = 1..Len(s)
  BY DEF IsSeq

LEMMA AppendFacts ==
    ASSUME NEW s, IsSeq(s), NEW x
    PROVE  /\ IsSeq(Append(s, x)) /\ Append(s, x) # <<>>
           /\ Len(Append(s, x)) = Len(s) + 1
           /\ \A i \in 1..Len(s) : Append(s, x)[i] = s[i]
           /\ Append(s, x)[Len(s) + 1] = x
           /\ s \o <<x>> = Append(s, x)
<1> DEFINE S == {s[i] : i \in DOMAIN s} \cup {x}
<1>1. s \in Seq(S) /\ x \in S
  <2>1. Len(s) \in Nat /\ DOMAIN s = 1..Len(s) /\ s \in Seq({s[i] : i \in DOMAIN s})
    BY SeqFacts DEF IsSeq
  <2> QED
    BY <2>1
<1> HIDE DEF S
<1>2. /\ Append(s, x) \in Seq(S) /\ Append(s, x) # <<>>
      /\ Len(Append(s, x)) = Len(s) + 1
      /\ \A i \in 1..Len(s) : Append(s, x)[i] = s[i]
      /\ Append(s, x)[Len(s) + 1] = x
  BY <1>1, AppendProperties
<1>3. IsSeq(Append(s, x))
  BY <1>2 DEF IsSeq
<1>4. s \o <<x>> = Append(s, x)
  BY <1>1, AppendIsConcat
<1> QED
  BY <1>2, <1>3, <1>4

IsCode(e) == e = Code(e.op, e.at, e.data) /\ e.op \in Opcodes /\ e.at \in Nat

\* Instructions follow each other from address 0, each as wide as it was written.
Tiled(code) ==
    /\ IsSeq(code)
    /\ \A i \in 1..Len(code) : IsCode(code[i])
    /\ Len(code) > 0 => code[1].at = 0
    /\ \A i, k \in 1..Len(code) :
          i < k => code[i].at + WrittenWidth[code[i].op] <= code[k].at
    /\ \A i, k \in 1..Len(code) :
          k = i + 1 => code[k].at = code[i].at + WrittenWidth[code[i].op]

LEMMA EndIsAfter ==
    ASSUME NEW code, Tiled(code)
    PROVE  /\ End(code) \in Nat
           /\ Len(code) = 0 => End(code) = 0
           /\ Len(code) > 0 =>
                 End(code) = code[Len(code)].at + WrittenWidth[code[Len(code)].op]
           /\ \A i \in 1..Len(code) : code[i].at + WrittenWidth[code[i].op] <= End(code)
<1>0. Len(code) \in Nat
  BY SeqFacts DEF Tiled
<1>1. Len(code) \in Nat /\ DOMAIN code = 1..Len(code) /\ (code = <<>> <=> Len(code) = 0)
  BY SeqFacts, EmptySeq DEF Tiled, IsSeq
<1>2. CASE Len(code) = 0
  BY <1>1, <1>2 DEF End
<1>3. CASE Len(code) > 0
  <2>1. End(code) = code[Len(code)].at + WrittenWidth[code[Len(code)].op]
    BY <1>1, <1>3 DEF End, Last
  <2>2. code[Len(code)].op \in Opcodes /\ code[Len(code)].at \in Nat
    BY <1>1, <1>3 DEF Tiled, IsCode
  <2>3. WrittenWidth[code[Len(code)].op] \in Nat
    BY <2>2, WrittenWidthIsPositive
  <2>4. ASSUME NEW i \in 1..Len(code)
        PROVE  code[i].at + WrittenWidth[code[i].op] <= End(code)
    <3>1. CASE i = Len(code)
      BY <2>1, <2>2, <2>3, <3>1
    <3>2. CASE i < Len(code)
      <4>1. code[i].at + WrittenWidth[code[i].op] <= code[Len(code)].at
        BY <1>1, <1>3, <3>2 DEF Tiled
      <4>2. code[i].at \in Nat /\ WrittenWidth[code[i].op] \in Nat
        BY WrittenWidthIsPositive DEF Tiled, IsCode
      <4> QED
        BY <2>1, <2>2, <2>3, <4>1, <4>2
    <3>3. i = Len(code) \/ i < Len(code)
      BY <1>0
    <3> QED
      BY <3>1, <3>2, <3>3
  <2> QED
    BY <1>3, <2>1, <2>2, <2>3, <2>4
<1> QED
  BY <1>1, <1>2, <1>3

LEMMA AppendTiles ==
    ASSUME NEW code, Tiled(code), NEW op \in Opcodes, NEW data
    PROVE  LET new == Append(code, Code(op, End(code), data))
           IN  /\ Tiled(new)
               /\ End(new) = End(code) + WrittenWidth[op]
<1> DEFINE x   == Code(op, End(code), data)
           new == Append(code, x)
<1>0. Len(code) \in Nat
  BY SeqFacts DEF Tiled
<1>1. Len(code) \in Nat /\ DOMAIN code = 1..Len(code)
  BY SeqFacts DEF Tiled
<1>2. /\ IsSeq(new) /\ new # <<>> /\ Len(new) = Len(code) + 1
      /\ \A i \in 1..Len(code) : new[i] = code[i]
      /\ new[Len(code) + 1] = x
  BY AppendFacts DEF Tiled
<1>3. x.op = op /\ x.at = End(code) /\ IsCode(x)
  BY EndIsAfter DEF Code, IsCode
<1>4. WrittenWidth[op] \in Nat
  BY WrittenWidthIsPositive
<1> HIDE DEF new, x
<1>5. \A i \in 1..Len(new) : IsCode(new[i])
  BY <1>1, <1>2, <1>3 DEF Tiled
<1>6. new[1].at = 0
  BY <1>1, <1>2, <1>3, EndIsAfter DEF Tiled
<1>7. ASSUME NEW i \in 1..Len(new), NEW k \in 1..Len(new), i < k
      PROVE  /\ new[i].at + WrittenWidth[new[i].op] <= new[k].at
             /\ k = i + 1 => new[k].at = new[i].at + WrittenWidth[new[i].op]
  <2>1. i \in 1..Len(code) /\ new[i] = code[i]
    BY <1>1, <1>2, <1>7
  <2>2. CASE k \in 1..Len(code)
    BY <1>2, <1>7, <2>1, <2>2 DEF Tiled
  <2>3. CASE k = Len(code) + 1
    <3>1. new[k].at = End(code)
      BY <1>2, <1>3, <2>3
    <3>2. k = i + 1 => i = Len(code) /\ Len(code) > 0
      BY <1>0, <2>1, <2>3
    <3>3. code[i].at + WrittenWidth[code[i].op] <= End(code)
      BY <2>1, EndIsAfter
    <3>4. k = i + 1 => End(code) = code[i].at + WrittenWidth[code[i].op]
      BY <3>2, EndIsAfter
    <3> QED
      BY <2>1, <3>1, <3>3, <3>4
  <2> QED
    BY <1>1, <1>2, <2>2, <2>3
<1>8. Tiled(new)
  BY <1>1, <1>2, <1>5, <1>6, <1>7 DEF Tiled
<1>9. End(new) = End(code) + WrittenWidth[op]
  BY <1>1, <1>2, <1>3, <1>8, EndIsAfter
<1> QED
  BY <1>8, <1>9 DEF new, x

LEMMA FirstIsOpcode == \A all : First(all).op \in Opcodes
<1> SUFFICES ASSUME NEW all PROVE First(all).op \in Opcodes
  OBVIOUS
<1>1. \A size : TableOf(size) \in {0, 1, 2, 3}
  BY DEF TableOf
<1>2. First(all).op \in {"First", <<"TblJump1", "TblJump2", "TblJump3">>[1],
                         <<"TblJump1", "TblJump2", "TblJump3">>[2],
                         <<"TblJump1", "TblJump2", "TblJump3">>[3]}
  BY <1>1 DEF First
<1>3. {"First", "TblJump1", "TblJump2", "TblJump3"} \subseteq Opcodes
  BY DEF Opcodes, Jumps
<1> QED
  BY <1>2, <1>3

\* mozvm_loader_load_inst appends instructions, none only for a Nop or a Label
\* without a next.
LEMMA LoadTiles ==
    ASSUME NEW code, Tiled(code), NEW x, x.op \in FileOpcodes
    PROVE  LET new == mozvm_loader_load_inst(code, x)
           IN  /\ Tiled(new)
               /\ End(code) <= End(new)
               /\ x.op \notin Dropped => End(code) < End(new)
<1> DEFINE main == code \o Main(code, x)
           new  == mozvm_loader_load_inst(code, x)
<1>1. /\ Tiled(main) /\ End(code) <= End(main)
      /\ x.op \notin Dropped => End(code) < End(main)
  <2>1. CASE x.op \in Dropped
    <3>1. Main(code, x) = <<>>
      BY <2>1 DEF Main, Dropped
    <3>2. main = code
      BY <3>1, ConcatEmptySeq DEF Tiled, IsSeq
    <3> QED
      BY <2>1, <3>2, EndIsAfter
  <2>2. CASE x.op \notin Dropped
    <3>1. PICK op, data : op \in Opcodes /\ Main(code, x) = <<Code(op, End(code), data)>>
      <4>1. CASE x.op = "First"
        BY <2>2, <4>1, FirstIsOpcode DEF Main
      <4>2. CASE x.op # "First"
        BY <2>2, <4>2, OpcodesAreOpcodes DEF Main
      <4> QED
        BY <4>1, <4>2
    <3>2. main = Append(code, Code(op, End(code), data))
      BY <3>1, AppendFacts DEF Tiled
    <3>3. Tiled(main) /\ End(main) = End(code) + WrittenWidth[op]
      BY <3>1, <3>2, AppendTiles
    <3>4. WrittenWidth[op] \in Nat /\ WrittenWidth[op] > 0 /\ End(code) \in Nat
      BY <3>1, EndIsAfter, WrittenWidthIsPositive
    <3> HIDE DEF main
    <3> QED
      BY <2>2, <3>3, <3>4
  <2> QED
    BY <2>1, <2>2
<1>2. CASE x.next = None
  <2>1. new = main
    BY <1>2 DEF mozvm_loader_load_inst
  <2> QED
    BY <1>1, <2>1
<1>3. CASE x.next # None
  <2>1. new = Append(main, Code("Jump", End(main), <<x.next>>))
    BY <1>3 DEF mozvm_loader_load_inst
  <2> HIDE DEF main, new
  <2>2. Tiled(new) /\ End(new) = End(main) + WrittenWidth["Jump"]
    BY <1>1, <2>1, AppendTiles, OpcodesAreOpcodes
  <2>3. WrittenWidth["Jump"] \in Nat /\ WrittenWidth["Jump"] > 0
    BY OpcodesAreOpcodes, WrittenWidthIsPositive
  <2>4. End(main) \in Nat /\ End(code) \in Nat
    BY <1>1, EndIsAfter
  <2>5. End(code) <= End(new) /\ (x.op \notin Dropped => End(code) < End(new))
    BY <1>1, <2>2, <2>3, <2>4
  <2> QED
    BY <2>2, <2>5 DEF new
<1> QED
  BY <1>2, <1>3

\* The second pass changes operands, and jumps into returns of the same size.
LEMMA LinkedInPlace ==
    ASSUME NEW e, IsCode(e)
    PROVE  /\ IsCode(Linked(e)) /\ Linked(e).at = e.at
           /\ WrittenWidth[Linked(e).op] = WrittenWidth[e.op]
<1>1. CASE e.op = "Jump"
  <2>1. PICK op, data : op \in {"Jump", "Ret"} /\ Linked(e) = Code(op, e.at, data)
    BY <1>1 DEF Linked
  <2>2. Linked(e).op = op /\ Linked(e).at = e.at /\ Linked(e).data = data
    BY <2>1 DEF Code
  <2>3. op \in Opcodes /\ WrittenWidth[op] = WrittenWidth[e.op]
    BY <1>1, <2>1, OpcodesAreOpcodes, RetIsWideAsJump
  <2> QED
    BY <2>1, <2>2, <2>3 DEF IsCode
<1>2. CASE e.op # "Jump"
  <2>1. PICK data : Linked(e) = Code(e.op, e.at, data)
    <3>1. \A data : [e EXCEPT !.data = data] = Code(e.op, e.at, data)
      <4>1. \A op, at, old, data : [Code(op, at, old) EXCEPT !.data = data] = Code(op, at, data)
        BY DEF Code
      <4> QED
        BY <4>1 DEF IsCode
    <3>2. CASE e.op = "Call"
      BY <3>1, <3>2 DEF Linked
    <3>3. CASE e.op \in {"Alt", "Lookup", "TLookup"}
      BY <3>1, <3>3 DEF Linked
    <3>4. CASE e.op \notin {"Call", "Alt", "Lookup", "TLookup"}
      <4>1. Linked(e) = e
        BY <1>2, <3>4 DEF Linked
      <4> QED
        BY <4>1 DEF IsCode
    <3> QED
      BY <3>2, <3>3, <3>4
  <2>2. Linked(e).op = e.op /\ Linked(e).at = e.at /\ Linked(e).data = data
    BY <2>1 DEF Code
  <2> QED
    BY <2>1, <2>2 DEF IsCode
<1> QED
  BY <1>1, <1>2

-----------------------------------------------------------------------------
(***************************************************************************)
(* The walk of the second pass.                                            *)
(***************************************************************************)
FileInv ==
    /\ file \in Files
    /\ IsSeq(table) /\ Len(table) <= Len(file.insts)
    /\ \A i \in 1..Len(table) : table[i] \in Nat

WalkInv ==
    /\ phase = "link" => j = End(buf) \/ \E i \in 1..Len(buf) : buf[i].at = j
    /\ phase \in {"header", "prods", "sets", "strs", "tags", "tables", "load"} => j = 0

LoadInv == FileInv /\ Tiled(buf)

\* An entry that is found is in the buffer, and there is one at an address only.
LEMMA EntryIsThere ==
    ASSUME NEW code, Tiled(code), NEW at
    PROVE  /\ EntryAt(code, at).op # None =>
                 \E i \in 1..Len(code) : code[i].at = at /\ EntryAt(code, at) = code[i]
           /\ \A i \in 1..Len(code) : code[i].at = at => EntryAt(code, at) = code[i]
           /\ \A i, k \in 1..Len(code) : code[i].at = code[k].at => i = k
<1>1. Len(code) \in Nat /\ DOMAIN code = 1..Len(code)
  BY SeqFacts DEF Tiled
<1>2. ASSUME NEW i \in 1..Len(code), NEW k \in 1..Len(code), i < k
      PROVE  code[i].at # code[k].at
  <2>1. code[i].at \in Nat /\ code[k].at \in Nat /\ code[i].op \in Opcodes
    BY DEF Tiled, IsCode
  <2>2. WrittenWidth[code[i].op] \in Nat /\ WrittenWidth[code[i].op] > 0
    BY <2>1, WrittenWidthIsPositive
  <2>3. code[i].at + WrittenWidth[code[i].op] <= code[k].at
    BY <1>2 DEF Tiled
  <2> QED
    BY <2>1, <2>2, <2>3
<1>3. \A i, k \in 1..Len(code) : code[i].at = code[k].at => i = k
  <2> SUFFICES ASSUME NEW i \in 1..Len(code), NEW k \in 1..Len(code), i # k
               PROVE  code[i].at # code[k].at
    OBVIOUS
  <2>1. i < k \/ k < i
    <3>1. i \in Nat /\ k \in Nat
      OBVIOUS
    <3> QED
      BY <3>1
  <2> QED
    BY <1>2, <2>1
<1>4. \A e : e \in ToSet(code) <=> \E i \in 1..Len(code) : e = code[i]
  BY <1>1 DEF ToSet
<1>5. CASE \E e \in ToSet(code) : e.at = at
  <2>1. EntryAt(code, at) \in ToSet(code) /\ EntryAt(code, at).at = at
    BY <1>5 DEF EntryAt
  <2>2. PICK i \in 1..Len(code) : EntryAt(code, at) = code[i]
    BY <1>4, <2>1
  <2> QED
    BY <1>3, <2>1, <2>2
<1>6. CASE ~ \E e \in ToSet(code) : e.at = at
  <2>1. EntryAt(code, at).op = None
    BY <1>6 DEF EntryAt, Code
  <2> QED
    BY <1>3, <1>4, <1>6, <2>1
<1> QED
  BY <1>5, <1>6

\* A linked buffer is tiled as it was.
LEMMA LinkKeepsTiles ==
    ASSUME NEW code, Tiled(code), NEW at, NEW new,
           new = [i \in DOMAIN code |-> IF code[i].at = at THEN Linked(EntryAt(code, at)) ELSE code[i]]
    PROVE  /\ Tiled(new) /\ Len(new) = Len(code) /\ End(new) = End(code)
           /\ \A i \in 1..Len(code) : new[i].at = code[i].at
<1>1. Len(code) \in Nat /\ DOMAIN code = 1..Len(code)
  BY SeqFacts DEF Tiled
<1>2. ASSUME NEW i \in 1..Len(code)
      PROVE  /\ IsCode(new[i]) /\ new[i].at = code[i].at
             /\ WrittenWidth[new[i].op] = WrittenWidth[code[i].op]
  <2>1. IsCode(code[i])
    BY DEF Tiled
  <2>2. CASE code[i].at = at
    <3>1. new[i] = Linked(code[i])
      BY <1>1, <2>2, EntryIsThere
    <3> QED
      BY <2>1, <3>1, LinkedInPlace
  <2>3. CASE code[i].at # at
    BY <1>1, <2>1, <2>3
  <2> QED
    BY <2>2, <2>3
<1>3. IsSeq(new) /\ Len(new) = Len(code) /\ DOMAIN new = 1..Len(code)
  BY <1>1 DEF IsSeq
<1>4. Tiled(new)
  BY <1>2, <1>3 DEF Tiled
<1>5. End(new) = End(code)
  <2>1. CASE Len(code) = 0
    BY <1>3, <1>4, <2>1, EndIsAfter
  <2>2. CASE Len(code) > 0
    BY <1>1, <1>2, <1>3, <1>4, <2>2, EndIsAfter
  <2> QED
    BY <1>1, <2>1, <2>2
<1> QED
  BY <1>2, <1>3, <1>4, <1>5

\* What is said of the buffer does not depend on the phase.
Idle == UNCHANGED <<file, table, buf>>

LEMMA IdleKeeps == LoadInv /\ Idle => LoadInv'
  BY DEF LoadInv, Idle, FileInv

\* The next instruction that is read is one of the file.
LEMMA NextInst ==
    ASSUME LoadInv, Len(table) < Len(file.insts)
    PROVE  /\ Len(table) + 1 \in DOMAIN file.insts
           /\ file.insts[Len(table) + 1].op \in FileOpcodes
<1>1. Len(table) \in Nat
  BY SeqFacts DEF LoadInv, FileInv
<1>2. Len(file.insts) \in Nat /\ DOMAIN file.insts = 1..Len(file.insts)
  BY FilesAssumption DEF LoadInv, FileInv
<1>3. Len(table) + 1 \in DOMAIN file.insts
  BY <1>1, <1>2
<1> QED
  BY <1>3, FilesAssumption DEF LoadInv, FileInv

LEMMA LoadInvNext == LoadInv /\ [Next]_vars => LoadInv'
<1> SUFFICES ASSUME LoadInv, [Next]_vars PROVE LoadInv'
  OBVIOUS
<1>1. CASE Header
  BY <1>1, IdleKeeps DEF Header, ReadHeader, Idle
<1>2. CASE Section
  BY <1>2, IdleKeeps DEF Section, ReadSection, Idle
<1>3. CASE LoadInst
  <2> DEFINE x == file.insts[Len(table) + 1]
  <2>1. /\ file' = file /\ table' = Append(table, End(buf))
        /\ buf' = mozvm_loader_load_inst(buf, x) /\ Len(table) < Len(file.insts)
    BY <1>3 DEF LoadInst
  <2>2. x.op \in FileOpcodes
    BY <2>1, NextInst
  <2>3. Tiled(buf')
    BY <2>1, <2>2, LoadTiles DEF LoadInv
  <2>4. /\ IsSeq(table') /\ Len(table') = Len(table) + 1
        /\ \A i \in 1..Len(table) : table'[i] = table[i]
        /\ table'[Len(table) + 1] = End(buf)
    BY <2>1, AppendFacts DEF LoadInv, FileInv
  <2>5. Len(table) \in Nat /\ Len(file.insts) \in Nat /\ End(buf) \in Nat
    BY SeqFacts, FilesAssumption, EndIsAfter DEF LoadInv, FileInv
  <2>6. \A i \in 1..Len(table') : table'[i] \in Nat
    BY <2>4, <2>5 DEF LoadInv, FileInv
  <2>7. Len(table') <= Len(file'.insts)
    BY <2>1, <2>4, <2>5
  <2> QED
    BY <2>1, <2>3, <2>4, <2>6, <2>7 DEF LoadInv, FileInv
<1>4. CASE StartLink
  BY <1>4, IdleKeeps DEF StartLink, Idle
<1>5. CASE Link
  <2>1. Tiled(buf')
    <3>1. buf' = [i \in DOMAIN buf |-> IF buf[i].at = j THEN Linked(EntryAt(buf, j)) ELSE buf[i]]
      BY <1>5 DEF Link
    <3> QED
      BY <3>1, LinkKeepsTiles DEF LoadInv
  <2> QED
    BY <1>5, <2>1 DEF Link, LoadInv, FileInv
<1>6. CASE Freeze
  BY <1>6, IdleKeeps DEF Freeze, Idle
<1>7. CASE DisposeRuntime
  BY <1>7, IdleKeeps DEF DisposeRuntime, Idle
<1>8. CASE DisposeLoader
  BY <1>8, IdleKeeps DEF DisposeLoader, Idle
<1>9. CASE UNCHANGED vars
  BY <1>9, IdleKeeps DEF vars, Idle
<1> QED
  BY <1>1, <1>2, <1>3, <1>4, <1>5, <1>6, <1>7, <1>8, <1>9 DEF Next

LEMMA LoadInvHolds == Spec => []LoadInv
<1>1. Init => LoadInv
  <2> SUFFICES ASSUME Init PROVE LoadInv
    OBVIOUS
  <2>1. table = <<>> /\ buf = <<>> /\ file \in Files
    BY DEF Init, FileInit
  <2>2. IsSeq(<<>>) /\ Len(<<>>) = 0
    BY DEF IsSeq
  <2>3. 0 <= Len(file.insts)
    BY <2>1, FilesAssumption
  <2> QED
    BY <2>1, <2>2, <2>3 DEF LoadInv, FileInv, Tiled
<1> QED
  BY <1>1, LoadInvNext, PTL DEF Spec

LEMMA WalkInvNext ==
    ASSUME ~ UseProd
    PROVE  LoadInv /\ WalkInv /\ [Next]_vars => WalkInv'
<1> SUFFICES ASSUME LoadInv, WalkInv, [Next]_vars PROVE WalkInv'
  OBVIOUS
<1>1. CASE Header
  BY <1>1 DEF Header, ReadHeader, WalkInv
<1>2. CASE Section
  <2>1. phase \in {"prods", "sets", "strs", "tags", "tables"}
        /\ phase' \in {"sets", "strs", "tags", "tables", "load"}
    BY <1>2 DEF Section, ReadSection, Sections
  <2>2. j' = j
    BY <1>2 DEF Section
  <2> QED
    BY <2>1, <2>2 DEF WalkInv
<1>3. CASE LoadInst
  BY <1>3 DEF LoadInst, WalkInv
<1>4. CASE StartLink
  <2>1. phase' = "link" /\ buf' = buf /\ j' = 0
    BY <1>4 DEF StartLink, WalkInv
  <2>2. Len(buf) \in Nat /\ (Len(buf) = 0 => End(buf) = 0) /\ (Len(buf) > 0 => buf[1].at = 0)
    BY SeqFacts, EndIsAfter DEF LoadInv, Tiled
  <2>3. Len(buf) > 0 => 1 \in 1..Len(buf)
    BY <2>2
  <2> QED
    BY <2>1, <2>2, <2>3 DEF WalkInv
<1>5. CASE Link
  <2>1. /\ phase = "link" /\ phase' = phase
        /\ EntryAt(buf, j).op # None
        /\ buf' = [i \in DOMAIN buf |-> IF buf[i].at = j THEN Linked(EntryAt(buf, j)) ELSE buf[i]]
        /\ j' = j + Width[EntryAt(buf, j).op]
    BY <1>5 DEF Link
  <2>2. PICK i \in 1..Len(buf) : buf[i].at = j /\ EntryAt(buf, j) = buf[i]
    BY <2>1, EntryIsThere DEF LoadInv
  <2>3. j' = buf[i].at + WrittenWidth[buf[i].op]
    BY <2>1, <2>2, WidthsAgree DEF LoadInv, Tiled, IsCode
  <2>4. /\ Tiled(buf') /\ Len(buf') = Len(buf) /\ End(buf') = End(buf)
        /\ \A k \in 1..Len(buf) : buf'[k].at = buf[k].at
    BY <2>1, LinkKeepsTiles DEF LoadInv
  <2>5. Len(buf) \in Nat
    BY SeqFacts DEF LoadInv, Tiled
  <2>6. CASE i = Len(buf)
    <3>1. j' = End(buf')
      BY <2>3, <2>4, <2>5, <2>6, EndIsAfter DEF LoadInv
    <3> QED
      BY <2>1, <3>1 DEF WalkInv
  <2>7. CASE i < Len(buf)
    <3>1. i + 1 \in 1..Len(buf)
      BY <2>5, <2>7
    <3>2. buf'[i + 1].at = j'
      BY <2>3, <2>4, <3>1 DEF LoadInv, Tiled
    <3> QED
      BY <2>1, <2>4, <3>1, <3>2 DEF WalkInv
  <2>8. i = Len(buf) \/ i < Len(buf)
    BY <2>5
  <2> QED
    BY <2>6, <2>7, <2>8
<1>6. CASE Freeze
  BY <1>6 DEF Freeze, WalkInv
<1>7. CASE DisposeRuntime
  BY <1>7 DEF DisposeRuntime, WalkInv
<1>8. CASE DisposeLoader
  BY <1>8 DEF DisposeLoader, WalkInv
<1>9. CASE UNCHANGED vars
  BY <1>9 DEF vars, WalkInv
<1> QED
  BY <1>1, <1>2, <1>3, <1>4, <1>5, <1>6, <1>7, <1>8, <1>9 DEF Next

\* The second pass of mozvm_loader_load, which steps by mozvm1_opcode_size, comes
\* to nothing but opcodes that the first pass wrote, in every build without
\* MOZVM_USE_PROD.
THEOREM WalkIsAligned ==
    ASSUME ~ UseProd
    PROVE  Spec => []WalkMeetsOpcodes
<1>1. Init => WalkInv
  BY DEF Init, FileInit, WalkInv
<1>2. LoadInv /\ WalkInv => WalkMeetsOpcodes
  <2> SUFFICES ASSUME LoadInv, WalkInv, phase = "link", j < End(buf)
               PROVE  EntryAt(buf, j).op # None
    BY DEF WalkMeetsOpcodes
  <2>1. End(buf) \in Nat
    BY EndIsAfter DEF LoadInv
  <2>2. PICK i \in 1..Len(buf) : buf[i].at = j
    BY <2>1 DEF WalkInv
  <2>3. EntryAt(buf, j) = buf[i] /\ buf[i].op \in Opcodes
    BY <2>2, EntryIsThere DEF LoadInv, Tiled, IsCode
  <2> QED
    BY <2>3, NoneAssumption
<1> QED
  BY <1>1, <1>2, WalkInvNext, LoadInvHolds, PTL DEF Spec

-----------------------------------------------------------------------------
(***************************************************************************)
(* The bounds of productions.                                              *)
(***************************************************************************)
IsLabel(i) == Inst(i).op = "Label"

\* The label that the production of instruction i begins with.
LastLabel(i, m) ==
    /\ m \in Nat /\ m <= i /\ IsLabel(m)
    /\ \A n \in Nat : n <= i /\ IsLabel(n) => n <= m

NoLabel(i) == \A n \in Nat : n <= i => ~ IsLabel(n)

ProdOf(m) == prods[Inst(m).data.label]

\* The header is at 10 when the productions are counted, and their array is there
\* from then on.
ProdsInv ==
    /\ phase = "prods" => pos = 10
    /\ phase \in {"sets", "strs", "tags", "tables", "load"} =>
          prods \in [0..ProdSize(file)-1 -> [begin : Nat \cup {None}, end : Nat \cup {None}]]
    /\ phase \in {"link", "done"} => Len(table) = Len(file.insts)
    /\ phase \in {"header", "prods", "sets", "strs", "tags", "tables"} => Len(table) = 0

BoundInv ==
    /\ \A m \in Nat : m < Len(table) /\ IsLabel(m) =>
          /\ ProdOf(m).begin \in Nat /\ ProdOf(m).end \in Nat
          /\ ProdOf(m).begin <= ProdOf(m).end /\ ProdOf(m).end <= End(buf)
    /\ Len(table) > 0 =>
          \/ NoLabel(Len(table) - 1)
          \/ \E m \in Nat : LastLabel(Len(table) - 1, m) /\ prod = Inst(m).data.label
    /\ \A i \in Nat : i < Len(table) => NoLabel(i) \/ \E m \in Nat : LastLabel(i, m)
    /\ \A i, m \in Nat : i < Len(table) /\ LastLabel(i, m) =>
          /\ ProdOf(m).begin <= table[i + 1]
          /\ Inst(i).op \notin Dropped => table[i + 1] < ProdOf(m).end

LEMMA ProdsInvNext == LoadInv /\ ProdsInv /\ [Next]_vars => ProdsInv'
<1> SUFFICES ASSUME LoadInv, ProdsInv, [Next]_vars PROVE ProdsInv'
  OBVIOUS
<1> DEFINE Rec == [begin : Nat \cup {None}, end : Nat \cup {None}]
<1>1. CASE Header
  <2>1. phase' \in {"prods", "exit"} /\ (phase' = "prods" => pos' = 10) /\ table' = table
        /\ phase = "header"
    BY <1>1 DEF Header, ReadHeader
  <2> QED
    BY <2>1 DEF ProdsInv
<1>2. CASE Section
  <2>1. phase \in {"prods", "sets", "strs", "tags", "tables"}
        /\ phase' \in {"sets", "strs", "tags", "tables", "load"}
        /\ file' = file /\ table' = table
    BY <1>2 DEF Section, ReadSection, Sections
  <2>2. prods' \in [0..ProdSize(file)-1 -> Rec]
    <3>1. CASE phase = "prods"
      <4>1. prods' = [p \in 0..read16(10)-1 |-> [begin |-> None, end |-> None]]
        BY <1>2, <3>1 DEF Section, ProdsInv
      <4>2. read16(10) = ProdSize(file)
        <5>1. Len(file.head) >= 12
          BY FilesAssumption DEF LoadInv, FileInv
        <5>2. 10 < Len(file.head) /\ 11 < Len(file.head)
          BY <5>1
        <5> QED
          BY <5>2 DEF read16, read8, ProdSize
      <4> QED
        BY <4>1, <4>2
    <3>2. CASE phase # "prods"
      BY <1>2, <2>1, <3>2 DEF Section, ProdsInv
    <3> QED
      BY <3>1, <3>2
  <2> QED
    BY <2>1, <2>2 DEF ProdsInv
<1>3. CASE LoadInst
  <2> DEFINE x == file.insts[Len(table) + 1]
  <2>1. phase = "load" /\ phase' = "load" /\ file' = file
        /\ prods' = Extend(x, End(buf), End(buf'))
    BY <1>3 DEF LoadInst
  <2>2. End(buf) \in Nat /\ End(buf') \in Nat
    BY <1>3, LoadInvNext, EndIsAfter DEF LoadInv
  <2>3. prods \in [0..ProdSize(file)-1 -> Rec]
    BY <2>1 DEF ProdsInv
  <2>4. Extend(x, End(buf), End(buf')) \in [0..ProdSize(file)-1 -> Rec]
    BY <2>2, <2>3 DEF Extend
  <2> QED
    BY <2>1, <2>4 DEF ProdsInv
<1>4. CASE StartLink
  BY <1>4 DEF StartLink, ProdsInv
<1>5. CASE Link
  BY <1>5 DEF Link, ProdsInv
<1>6. CASE Freeze
  BY <1>6 DEF Freeze, ProdsInv
<1>7. CASE DisposeRuntime
  BY <1>7 DEF DisposeRuntime, ProdsInv
<1>8. CASE DisposeLoader
  BY <1>8 DEF DisposeLoader, ProdsInv
<1>9. CASE UNCHANGED vars
  BY <1>9 DEF vars, ProdsInv
<1> QED
  BY <1>1, <1>2, <1>3, <1>4, <1>5, <1>6, <1>7, <1>8, <1>9 DEF Next

\* BoundInv speaks of the file, the table, the bounds and where the buffer ends.
LEMMA BoundInvIdle ==
    ASSUME BoundInv, file' = file, table' = table, prods' = prods, prod' = prod,
           End(buf') = End(buf)
    PROVE  BoundInv'
  BY DEF BoundInv, ProdOf, LastLabel, NoLabel, IsLabel, Inst

\* What the assumption on files says of the labels of the file that is loaded.
LEMMA LabelFacts ==
    ASSUME LoadInv, NEW m \in Nat, m < Len(file.insts), IsLabel(m)
    PROVE  /\ Inst(m).next = None
           /\ Inst(m).data.label \in 0..ProdSize(file)-1
           /\ \A n \in Nat : n < Len(file.insts) /\ IsLabel(n)
                             /\ Inst(m).data.label = Inst(n).data.label => m = n
<1> DEFINE label(i) == file.insts[i].data.label
           Labels   == {i \in DOMAIN file.insts : file.insts[i].op = "Label"}
<1>1. /\ Len(file.insts) \in Nat /\ DOMAIN file.insts = 1..Len(file.insts)
      /\ \A i \in Labels : file.insts[i].next = None /\ label(i) \in 0..ProdSize(file)-1
      /\ \A i, k \in Labels : label(i) = label(k) => i = k
  BY FilesAssumption DEF LoadInv, FileInv
<1>2. \A n \in Nat : n < Len(file.insts) /\ IsLabel(n) => n + 1 \in Labels
  BY <1>1 DEF IsLabel, Inst
<1> HIDE DEF Labels
<1>3. m + 1 \in Labels
  BY <1>2
<1>4. Inst(m).next = None /\ Inst(m).data.label \in 0..ProdSize(file)-1
  BY <1>1, <1>3 DEF Inst
<1>5. ASSUME NEW n \in Nat, n < Len(file.insts), IsLabel(n),
             Inst(m).data.label = Inst(n).data.label
      PROVE  m = n
  <2>1. n + 1 \in Labels
    BY <1>2, <1>5
  <2>2. m + 1 = n + 1
    BY <1>1, <1>3, <1>5, <2>1 DEF Inst
  <2> QED
    BY <2>2
<1> QED
  BY <1>4, <1>5

LEMMA LoadInstBounds ==
    ASSUME LoadInv, LoadInv', ProdsInv, BoundInv, LoadInst
    PROVE  BoundInv'
<1>0. PICK n : n = Len(table)
  OBVIOUS
<1> DEFINE x == Inst(n)
           begin == End(buf)
           end   == End(buf')
<1>1. /\ file' = file /\ table' = Append(table, begin)
      /\ prods' = Extend(x, begin, end) /\ n < Len(file.insts) /\ phase = "load"
      /\ prod' = IF BeginsProduction(x) THEN x.data.label ELSE prod
      /\ buf' = mozvm_loader_load_inst(buf, x)
  BY <1>0 DEF LoadInst, Inst
<1>2. n \in Nat /\ x.op \in FileOpcodes
  BY <1>0, <1>1, SeqFacts, NextInst DEF LoadInv, FileInv, Inst
<1>3. begin \in Nat /\ end \in Nat /\ begin <= end /\ (x.op \notin Dropped => begin < end)
  BY <1>1, <1>2, LoadTiles, EndIsAfter DEF LoadInv
<1>4. Len(table') = n + 1 /\ table'[n + 1] = begin
      /\ \A i \in Nat : i < n => table'[i + 1] = table[i + 1]
  <2>1. \A i \in Nat : i < n => i + 1 \in 1..n
    BY <1>2
  <2> QED
    BY <1>0, <1>1, <1>2, <2>1, AppendFacts DEF LoadInv, FileInv
<1>5. IsLabel(n) <=> BeginsProduction(x)
  BY <1>1, <1>2, LabelFacts DEF IsLabel, BeginsProduction
<1>6. prods \in [0..ProdSize(file)-1 -> [begin : Nat \cup {None}, end : Nat \cup {None}]]
  BY <1>1 DEF ProdsInv
<1>7. /\ \A i : IsLabel(i)' <=> IsLabel(i)
      /\ \A i : NoLabel(i)' <=> NoLabel(i)
      /\ \A i, m : LastLabel(i, m)' <=> LastLabel(i, m)
      /\ \A i : Inst(i)' = Inst(i)
  BY <1>1 DEF IsLabel, NoLabel, LastLabel, Inst
<1>8. \A m \in Nat : m < n /\ IsLabel(m) => Inst(m).data.label \in 0..ProdSize(file)-1
  BY <1>1, <1>2, LabelFacts, FilesAssumption DEF LoadInv, FileInv
<1>9. ASSUME NEW m \in Nat, m < n, IsLabel(m)
      PROVE  /\ ProdOf(m).begin \in Nat /\ ProdOf(m).end \in Nat
             /\ ProdOf(m).begin <= ProdOf(m).end /\ ProdOf(m).end <= begin
  BY <1>0, <1>9 DEF BoundInv
<1>10. ASSUME NEW i \in Nat, i < n
       PROVE  /\ NoLabel(i) \/ \E m \in Nat : LastLabel(i, m)
              /\ \A m \in Nat : LastLabel(i, m) =>
                    /\ ProdOf(m).begin <= table[i + 1]
                    /\ Inst(i).op \notin Dropped => table[i + 1] < ProdOf(m).end
              /\ table[i + 1] \in Nat
  <2>1. i + 1 \in 1..Len(table)
    BY <1>0, <1>2, <1>10
  <2> QED
    BY <1>0, <1>10, <2>1 DEF BoundInv, LoadInv, FileInv
<1>11. n > 0 => \/ NoLabel(n - 1)
                \/ \E m \in Nat : LastLabel(n - 1, m) /\ prod = Inst(m).data.label
  BY <1>0 DEF BoundInv
<1> HIDE DEF x, begin, end
<1>12. CASE IsLabel(n)
  <2>1. prods' = [prods EXCEPT ![x.data.label] = [begin |-> begin, end |-> end]]
        /\ prod' = x.data.label
    BY <1>1, <1>5, <1>12 DEF Extend
  <2>2. x.data.label \in 0..ProdSize(file)-1
    BY <1>1, <1>2, <1>12, LabelFacts DEF x
  <2>3. ProdOf(n)' = [begin |-> begin, end |-> end]
    BY <1>6, <1>7, <2>1, <2>2 DEF ProdOf, x
  <2>4. ASSUME NEW m \in Nat, m < n, IsLabel(m) PROVE ProdOf(m)' = ProdOf(m)
    <3>1. m < Len(file.insts) /\ n < Len(file.insts) /\ m # n
      BY <1>1, <1>2, <2>4, FilesAssumption DEF LoadInv, FileInv
    <3>2. Inst(m).data.label # x.data.label
      BY <1>2, <1>12, <2>4, <3>1, LabelFacts DEF x
    <3> QED
      BY <1>7, <2>1, <3>2 DEF ProdOf
  <2>5. LastLabel(n, n) /\ \A m \in Nat : LastLabel(n, m) => m = n
    BY <1>2, <1>12 DEF LastLabel
  <2>6. ASSUME NEW m \in Nat, m < n + 1, IsLabel(m)
        PROVE  /\ ProdOf(m)'.begin \in Nat /\ ProdOf(m)'.end \in Nat
               /\ ProdOf(m)'.begin <= ProdOf(m)'.end /\ ProdOf(m)'.end <= end
    <3>1. CASE m = n
      BY <1>3, <2>3, <3>1
    <3>2. CASE m < n
      BY <1>3, <1>9, <2>4, <2>6, <3>2
    <3> QED
      BY <1>2, <2>6, <3>1, <3>2
  <2>7. ASSUME NEW i \in Nat, i < n + 1
        PROVE  /\ NoLabel(i) \/ \E m \in Nat : LastLabel(i, m)
               /\ \A m \in Nat : LastLabel(i, m) =>
                     /\ ProdOf(m)'.begin <= table'[i + 1]
                     /\ Inst(i).op \notin Dropped => table'[i + 1] < ProdOf(m)'.end
    <3>1. CASE i = n
      <4>1. Inst(n).op \in Dropped
        BY <1>12 DEF IsLabel, Dropped
      <4> QED
        BY <1>2, <1>3, <1>4, <2>3, <2>5, <3>1, <4>1
    <3>2. CASE i < n
      <4>1. \A m \in Nat : LastLabel(i, m) => m < n /\ IsLabel(m)
        BY <1>2, <3>2 DEF LastLabel
      <4> QED
        BY <1>4, <1>10, <2>4, <3>2, <4>1
    <3> QED
      BY <1>2, <2>7, <3>1, <3>2
  <2>8. LastLabel(n, n) /\ prod' = Inst(n).data.label
    BY <2>1, <2>5 DEF x
  <2>9. n + 1 - 1 = n
    BY <1>2
  <2> QED
    BY <1>2, <1>4, <1>7, <2>6, <2>7, <2>8, <2>9 DEF BoundInv, end
<1>13. CASE ~ IsLabel(n)
  <2>1. prods' = [prods EXCEPT ![prod].end = end] /\ prod' = prod
    BY <1>1, <1>5, <1>13 DEF Extend
  <2>2. ASSUME NEW m \in Nat, m < n, IsLabel(m)
        PROVE  /\ ProdOf(m)'.begin = ProdOf(m).begin
               /\ ProdOf(m)'.end = IF Inst(m).data.label = prod THEN end ELSE ProdOf(m).end
    <3>1. Inst(m).data.label \in 0..ProdSize(file)-1
      BY <1>8, <2>2
    <3>2. ProdOf(m)' = IF Inst(m).data.label = prod THEN [ProdOf(m) EXCEPT !.end = end]
                       ELSE ProdOf(m)
      BY <1>6, <1>7, <2>1, <3>1 DEF ProdOf
    <3>3. ProdOf(m) \in [begin : Nat \cup {None}, end : Nat \cup {None}]
      BY <1>6, <3>1 DEF ProdOf
    <3> QED
      BY <3>2, <3>3
  <2>3. ASSUME NEW m \in Nat, LastLabel(n, m)
        PROVE  n > 0 /\ m < n /\ IsLabel(m) /\ LastLabel(n - 1, m)
    BY <1>2, <1>13, <2>3 DEF LastLabel
  <2>4. ASSUME n > 0, NEW m \in Nat, LastLabel(n - 1, m) PROVE LastLabel(n, m) /\ m < n /\ IsLabel(m)
    <3>1. \A k \in Nat : k <= n => k <= n - 1 \/ k = n
      BY <1>2
    <3> QED
      BY <1>2, <1>13, <2>4, <3>1 DEF LastLabel
  <2>5. NoLabel(n) \/ \E m \in Nat : LastLabel(n, m) /\ prod = Inst(m).data.label
    <3>1. CASE n = 0 \/ NoLabel(n - 1)
      <4>1. \A k \in Nat : k <= n => k = n \/ (n > 0 /\ k <= n - 1)
        BY <1>2
      <4> QED
        BY <1>2, <1>13, <3>1, <4>1 DEF NoLabel
    <3>2. CASE n > 0 /\ ~ NoLabel(n - 1)
      BY <1>11, <2>4, <3>2
    <3> QED
      BY <1>2, <3>1, <3>2
  <2>6. \A m \in Nat : LastLabel(n, m) => prod = Inst(m).data.label
    <3> SUFFICES ASSUME NEW m \in Nat, LastLabel(n, m) PROVE prod = Inst(m).data.label
      OBVIOUS
    <3>1. ~ NoLabel(n)
      BY DEF NoLabel, LastLabel
    <3>2. PICK k \in Nat : LastLabel(n, k) /\ prod = Inst(k).data.label
      BY <2>5, <3>1
    <3>3. k = m
      BY <3>2 DEF LastLabel
    <3> QED
      BY <3>2, <3>3
  <2>7. ASSUME NEW m \in Nat, m < n + 1, IsLabel(m)
        PROVE  /\ ProdOf(m)'.begin \in Nat /\ ProdOf(m)'.end \in Nat
               /\ ProdOf(m)'.begin <= ProdOf(m)'.end /\ ProdOf(m)'.end <= end
    <3>1. m < n
      BY <1>2, <1>13, <2>7
    <3> QED
      BY <1>3, <1>9, <2>2, <2>7, <3>1
  <2>8. ASSUME NEW i \in Nat, i < n + 1
        PROVE  /\ NoLabel(i) \/ \E m \in Nat : LastLabel(i, m)
               /\ \A m \in Nat : LastLabel(i, m) =>
                     /\ ProdOf(m)'.begin <= table'[i + 1]
                     /\ Inst(i).op \notin Dropped => table'[i + 1] < ProdOf(m)'.end
    <3>1. CASE i = n
      <4>1. ASSUME NEW m \in Nat, LastLabel(n, m)
            PROVE  ProdOf(m)'.begin <= begin /\ ProdOf(m)'.end = end
        BY <1>3, <1>9, <2>2, <2>3, <2>6, <4>1
      <4>2. Inst(i).op \notin Dropped => begin < end
        BY <1>3, <3>1 DEF x
      <4> QED
        BY <1>4, <2>5, <3>1, <4>1, <4>2
    <3>2. CASE i < n
      <4>1. ASSUME NEW m \in Nat, LastLabel(i, m)
            PROVE  /\ m < n /\ IsLabel(m) /\ ProdOf(m)'.begin = ProdOf(m).begin
                   /\ ProdOf(m).end \in Nat /\ ProdOf(m)'.end \in Nat
                   /\ ProdOf(m).end <= ProdOf(m)'.end
        <5>1. m < n /\ IsLabel(m)
          BY <1>2, <3>2, <4>1 DEF LastLabel
        <5> QED
          BY <1>3, <1>9, <2>2, <5>1
      <4>2. ASSUME NEW m \in Nat, LastLabel(i, m)
            PROVE  /\ ProdOf(m)'.begin <= table'[i + 1]
                   /\ Inst(i).op \notin Dropped => table'[i + 1] < ProdOf(m)'.end
        <5>1. table'[i + 1] = table[i + 1] /\ table[i + 1] \in Nat
          BY <1>4, <1>10, <3>2
        <5>2. /\ ProdOf(m).begin <= table[i + 1]
              /\ Inst(i).op \notin Dropped => table[i + 1] < ProdOf(m).end
          BY <1>10, <3>2, <4>2
        <5> QED
          BY <4>1, <4>2, <5>1, <5>2
      <4> QED
        BY <1>10, <3>2, <4>2
    <3> QED
      BY <1>2, <2>8, <3>1, <3>2
  <2>9. n + 1 - 1 = n
    BY <1>2
  <2> QED
    BY <1>2, <1>4, <1>7, <2>1, <2>5, <2>7, <2>8, <2>9 DEF BoundInv, end
<1> QED
  BY <1>12, <1>13

LEMMA BoundInvNext == LoadInv /\ ProdsInv /\ BoundInv /\ [Next]_vars => BoundInv'
<1> SUFFICES ASSUME LoadInv, ProdsInv, BoundInv, [Next]_vars PROVE BoundInv'
  OBVIOUS
<1>0. LoadInv' /\ ProdsInv'
  BY LoadInvNext, ProdsInvNext
<1>1. ASSUME Len(table) = 0, table' = table PROVE BoundInv'
  BY <1>1 DEF BoundInv
<1>2. CASE Header \/ Section
  <2>1. Len(table) = 0 /\ table' = table
    BY <1>2 DEF Header, Section, ReadHeader, ReadSection, Sections, ProdsInv
  <2> QED
    BY <1>1, <2>1
<1>3. CASE LoadInst
  BY <1>0, <1>3, LoadInstBounds
<1>4. CASE Link
  <2>1. End(buf') = End(buf)
    BY <1>4, LinkKeepsTiles DEF Link, LoadInv
  <2> QED
    BY <1>4, <2>1, BoundInvIdle DEF Link
<1>5. CASE StartLink
  BY <1>5, BoundInvIdle DEF StartLink
<1>6. CASE Freeze
  BY <1>6, BoundInvIdle DEF Freeze
<1>7. CASE DisposeRuntime
  BY <1>7, BoundInvIdle DEF DisposeRuntime
<1>8. CASE DisposeLoader
  BY <1>8, BoundInvIdle DEF DisposeLoader
<1>9. CASE UNCHANGED vars
  BY <1>9, BoundInvIdle DEF vars
<1> QED
  BY <1>2, <1>3, <1>4, <1>5, <1>6, <1>7, <1>8, <1>9 DEF Next

\* The label that LastLabel tells is the greatest one.
LEMMA MaxIsLast ==
    ASSUME NEW i \in Nat, NEW m \in Nat, LastLabel(i, m)
    PROVE  Max({k \in 0..i : Inst(k).op = "Label"}) = m
<1> DEFINE S == {k \in 0..i : Inst(k).op = "Label"}
<1>1. m \in S /\ S \subseteq Nat /\ \A k \in S : m >= k
  BY DEF LastLabel, IsLabel
<1> HIDE DEF S
<1>2. Max(S) \in S /\ \A k \in S : Max(S) >= k
  BY <1>1 DEF Max
<1>3. Max(S) \in Nat /\ m >= Max(S) /\ Max(S) >= m
  BY <1>1, <1>2
<1>4. \A a, b \in Nat : a >= b /\ b >= a => a = b
  OBVIOUS
<1> QED
  BY <1>3, <1>4 DEF S

\* moz_production_t: begin and end, which mozvm_loader_load_inst writes, hold the
\* addresses of the instructions of a production and no others before its label.
THEOREM ProductionsAreTiled == Spec => []ProductionsTile
<1>1. Init => ProdsInv /\ BoundInv
  <2> SUFFICES ASSUME Init PROVE ProdsInv /\ BoundInv
    OBVIOUS
  <2>1. Len(table) = 0 /\ phase = "header"
    BY DEF Init, FileInit
  <2> QED
    BY <2>1 DEF ProdsInv, BoundInv
<1>2. LoadInv /\ ProdsInv /\ BoundInv => ProductionsTile
  <2> SUFFICES ASSUME LoadInv, ProdsInv, BoundInv, phase = "done",
                      NEW i \in 0..Len(file.insts)-1,
                      {m \in 0..i : Inst(m).op = "Label"} # {}, Inst(i).op \notin Dropped
               PROVE  LET p == Inst(Max({m \in 0..i : Inst(m).op = "Label"})).data.label
                      IN  prods[p].begin <= table[i + 1] /\ table[i + 1] < prods[p].end
    BY DEF ProductionsTile
  <2>1. i \in Nat /\ i < Len(table)
    <3>1. Len(file.insts) \in Nat /\ Len(table) = Len(file.insts)
      BY FilesAssumption DEF LoadInv, FileInv, ProdsInv
    <3> QED
      BY <3>1
  <2>2. ~ NoLabel(i)
    BY <2>1 DEF NoLabel, IsLabel
  <2>3. PICK m \in Nat : LastLabel(i, m)
    BY <2>1, <2>2 DEF BoundInv
  <2>4. ProdOf(m).begin <= table[i + 1] /\ table[i + 1] < ProdOf(m).end
    BY <2>1, <2>3 DEF BoundInv
  <2> QED
    BY <2>1, <2>3, <2>4, MaxIsLast DEF ProdOf
<1> QED
  BY <1>1, <1>2, BoundInvNext, ProdsInvNext, LoadInvHolds, PTL DEF Spec

-----------------------------------------------------------------------------
(***************************************************************************)
(* Memory.                                                                 *)
(***************************************************************************)
SectionNames == {"prods", "sets", "strs", "tags", "tables"}

\* What the constants and the tables of the runtime occupy.
Constants == UNION {SectionBlocks(section, Len(consts[section])) : section \in SectionNames}

Blocks(names) == Whole(names) \cup PoolBlocks \cup Constants

\* The sections from that of the phase on have not been read.
Unread == CASE phase = "header" -> SectionNames
            [] phase = "prods"  -> SectionNames
            [] phase = "sets"   -> {"sets", "strs", "tags", "tables"}
            [] phase = "strs"   -> {"strs", "tags", "tables"}
            [] phase = "tags"   -> {"tags", "tables"}
            [] phase = "tables" -> {"tables"}
            [] OTHER            -> {}

RuntimeNames == {"runtime", "ast", "symtable", "memo"}
LoadNames    == {"input", "data", "table", "buf"} \cup RuntimeNames

\* What each phase has allocated: the names of the runtime are what
\* moz_runtime_dispose frees, the rest is freed with the loader.
HeapIs ==
    CASE phase \in {"header", "exit"} -> Whole({"input", "data"})
      [] phase = "done"      -> Blocks({"input", "buf"} \cup RuntimeNames)
      [] phase = "disposing" -> Whole({"input", "buf"})
      [] phase = "disposed"  -> {}
      [] OTHER -> Blocks(LoadNames)

Phases == {"header", "exit", "load", "link", "done", "disposing", "disposed"} \cup SectionNames

HeapInv ==
    /\ ~ bad /\ phase \in Phases
    /\ DOMAIN consts = SectionNames
    /\ \A section \in Unread : consts[section] = <<>>
    /\ DOMAIN pools = Jumps /\ \A op \in Jumps : IsSeq(pools[op])
    /\ phase \in {"header"} \cup SectionNames => pools = [op \in Jumps |-> <<>>]
    /\ heap = HeapIs

LEMMA HeapInvInit == Init => HeapInv
<1> SUFFICES ASSUME Init PROVE HeapInv
  OBVIOUS
<1>1. /\ phase = "header" /\ bad = FALSE /\ pools = [op \in Jumps |-> <<>>]
      /\ heap = Whole({"input", "data"})
      /\ consts = [section \in SectionNames |-> <<>>]
  BY DEF Init, FileInit, SectionNames
<1>2. Unread = SectionNames /\ HeapIs = Whole({"input", "data"}) /\ phase \in Phases
  <2>1. Unread = SectionNames
    BY <1>1, Zenon DEF Unread
  <2>2. HeapIs = Whole({"input", "data"})
    BY <1>1 DEF HeapIs
  <2>3. phase \in Phases
    BY <1>1 DEF Phases
  <2> QED
    BY <2>1, <2>2, <2>3
<1>3. IsSeq(<<>>)
  BY DEF IsSeq
<1>4. ~ bad
  BY <1>1
<1>5. DOMAIN consts = SectionNames /\ \A section \in Unread : consts[section] = <<>>
  BY <1>1, <1>2
<1>6. DOMAIN pools = Jumps /\ \A op \in Jumps : IsSeq(pools[op])
  BY <1>1, <1>3
<1> QED
  BY <1>1, <1>2, <1>4, <1>5, <1>6 DEF HeapInv

\* An empty section or pool has no block.
LEMMA NoBlocks ==
    /\ (\A section \in SectionNames : consts[section] = <<>>) => Constants = {}
    /\ (pools = [op \in Jumps |-> <<>>]) => PoolBlocks = {}
<1>1. ASSUME \A section \in SectionNames : consts[section] = <<>> PROVE Constants = {}
  <2>1. Len(<<>>) = 0
    OBVIOUS
  <2>2. \A section \in SectionNames : SectionBlocks(section, Len(consts[section])) = {}
    BY <1>1, <2>1 DEF SectionBlocks
  <2> QED
    BY <2>2 DEF Constants
<1>2. ASSUME pools = [op \in Jumps |-> <<>>] PROVE PoolBlocks = {}
  BY <1>2 DEF PoolBlocks, Whole
<1> QED
  BY <1>1, <1>2

\* Blocks are told apart by their names.
LEMMA BlockNames ==
    /\ \A names, b : b \in Whole(names) <=> \E name \in names : b = <<name, 0>>
    /\ \A b \in PoolBlocks : b[1] \in Jumps
    /\ \A b \in Constants : b[1] \in SectionNames
<1>1. \A names, b : b \in Whole(names) <=> \E name \in names : b = <<name, 0>>
  BY DEF Whole
<1>2. \A b \in PoolBlocks : b[1] \in Jumps
  BY <1>1 DEF PoolBlocks
<1>3. ASSUME NEW b \in Constants PROVE b[1] \in SectionNames
  <2>1. PICK section \in SectionNames : b \in SectionBlocks(section, Len(consts[section]))
    BY DEF Constants
  <2>2. \A n, k : k \in SectionBlocks(section, n) => k[1] = section
    BY DEF SectionBlocks
  <2> QED
    BY <2>1, <2>2
<1> QED
  BY <1>1, <1>2, <1>3

\* Taking names from Blocks, each of which is there.
LEMMA FreeNames ==
    ASSUME NEW names, NEW gone, gone \subseteq names,
           gone \cap (Jumps \cup SectionNames) = {}
    PROVE  /\ Whole(gone) \subseteq Blocks(names)
           /\ Blocks(names) \ Whole(gone) = Blocks(names \ gone)
<1>1. \A b : b \in Whole(gone) => b[1] \in gone
  BY BlockNames
<1>2. \A b : b \in Blocks(names) <=> b \in Whole(names) \/ b \in PoolBlocks \/ b \in Constants
  BY DEF Blocks
<1>3. \A b : b \in Blocks(names \ gone) <=> b \in Whole(names \ gone) \/ b \in PoolBlocks \/ b \in Constants
  BY DEF Blocks
<1>4. \A b : b \in PoolBlocks \cup Constants => b \notin Whole(gone)
  BY <1>1, BlockNames
<1>5. \A b : b \in Whole(names \ gone) <=> b \in Whole(names) /\ b \notin Whole(gone)
  <2>1. \A n, m : <<n, 0>> = <<m, 0>> => n = m
    OBVIOUS
  <2> QED
    BY <2>1, BlockNames
<1> QED
  BY <1>2, <1>3, <1>4, <1>5, BlockNames

LEMMA ExceptFacts ==
    ASSUME NEW s, IsSeq(s), NEW k, NEW v
    PROVE  /\ IsSeq([s EXCEPT ![k] = v])
           /\ [s EXCEPT ![k] = v] = <<>> <=> s = <<>>
<1> DEFINE t == [s EXCEPT ![k] = v]
<1>1. Len(s) \in Nat /\ DOMAIN s = 1..Len(s)
  BY SeqFacts
<1>2. t = [i \in 1..Len(s) |-> t[i]]
  BY <1>1
<1> HIDE DEF t
<1>3. t \in Seq({t[i] : i \in 1..Len(s)}) /\ Len(t) = Len(s) /\ DOMAIN t = 1..Len(s)
  BY <1>1, <1>2
<1>4. IsSeq(t)
  BY <1>3 DEF IsSeq
<1>5. \A u : IsSeq(u) => (u = <<>> <=> Len(u) = 0)
  BY EmptySeq DEF IsSeq
<1>6. t = <<>> <=> s = <<>>
  BY <1>3, <1>4, <1>5
<1> QED
  BY <1>4, <1>6 DEF t

\* A step that leaves the constants, the pools and what is allocated as they are.
LEMMA HeapIdle ==
    ASSUME HeapInv, phase' \in {"load", "link"}, phase \in {"load", "link"},
           consts' = consts, pools' = pools, heap' = heap, bad' = bad
    PROVE  HeapInv'
<1>1. HeapIs = Blocks(LoadNames)
      /\ HeapIs' = HeapIs /\ Unread' = {} /\ phase' \in Phases
  <2>1. HeapIs = Blocks(LoadNames)
    BY DEF HeapIs
  <2>2. HeapIs' = Blocks(LoadNames)'
    BY DEF HeapIs
  <2>3. \A names : Blocks(names)' = Blocks(names)
    BY DEF Blocks, PoolBlocks, Constants
  <2>4. Unread' = {}
    BY DEF Unread
  <2>5. phase' \in Phases
    BY DEF Phases
  <2> QED
    BY <2>1, <2>2, <2>3, <2>4, <2>5
<1> QED
  BY <1>1 DEF HeapInv, SectionNames

LEMMA HeapInvNext == HeapInv /\ [Next]_vars => HeapInv'
<1> SUFFICES ASSUME HeapInv, [Next]_vars PROVE HeapInv'
  OBVIOUS
<1>1. CASE Header
  <2>1. /\ phase = "header" /\ phase' \in {"prods", "exit"}
        /\ consts' = consts /\ pools' = pools /\ bad' = bad
    BY <1>1 DEF Header, ReadHeader
  <2>2. /\ \A section \in SectionNames : consts[section] = <<>>
        /\ pools = [op \in Jumps |-> <<>>]
        /\ heap = Whole({"input", "data"})
    BY <2>1 DEF HeapInv, HeapIs, Unread
  <2>3. heap' = HeapIs'
    <3>1. CASE phase' = "exit"
      <4>1. heap' = heap
        BY <1>1, <3>1 DEF Header
      <4>2. HeapIs' = Whole({"input", "data"})
        BY <3>1 DEF HeapIs
      <4> QED
        BY <2>2, <4>1, <4>2
    <3>2. CASE phase' = "prods"
      <4>1. heap' = Whole({"input", "data"})
                    \cup Whole({"table", "buf", "runtime", "ast", "symtable", "memo"})
        BY <1>1, <2>2, <3>2 DEF Header
      <4>2. HeapIs' = Blocks(LoadNames)'
        BY <3>2 DEF HeapIs
      <4>3. Constants' = {} /\ PoolBlocks' = {}
        BY <2>1, <2>2, NoBlocks DEF Constants, PoolBlocks
      <4>4. Blocks(LoadNames)' = Whole(LoadNames)
        BY <4>3 DEF Blocks
      <4>5. \A names1, names2 : Whole(names1) \cup Whole(names2) = Whole(names1 \cup names2)
        BY DEF Whole
      <4>6. LoadNames = {"input", "data"}
                        \cup {"table", "buf", "runtime", "ast", "symtable", "memo"}
        BY DEF LoadNames, RuntimeNames
      <4> QED
        BY <4>1, <4>2, <4>4, <4>5, <4>6
    <3> QED
      BY <2>1, <3>1, <3>2
  <2>4. phase' \in Phases
    BY <2>1 DEF Phases, SectionNames
  <2>5. \A section \in Unread' : section \in SectionNames
    BY <2>1 DEF Unread
  <2> QED
    BY <2>1, <2>2, <2>3, <2>4, <2>5 DEF HeapInv
<1>2. CASE Section
  <2>1. /\ phase \in SectionNames /\ pools' = pools /\ bad' = bad
        /\ phase' = CASE phase = "prods" -> "sets" [] phase = "sets" -> "strs"
                      [] phase = "strs" -> "tags"  [] phase = "tags" -> "tables"
                      [] phase = "tables" -> "load"
    BY <1>2 DEF Section, ReadSection, Sections, SectionNames
  <2>2. PICK values : consts' = [consts EXCEPT ![phase] = values]
    BY <1>2 DEF Section, ReadSection
  <2>3. heap' = heap \cup SectionBlocks(phase, Len(consts'[phase]))
    BY <1>2 DEF Section
  <2>4. phase \in Unread /\ Unread' = Unread \ {phase}
    BY <2>1 DEF Unread, SectionNames
  <2>5. consts[phase] = <<>> /\ heap = Blocks(LoadNames)
        /\ pools = [op \in Jumps |-> <<>>]
    BY <2>1, <2>4 DEF HeapInv, HeapIs, SectionNames
  <2>6. phase' \in Phases /\ HeapIs' = Blocks(LoadNames)'
    BY <2>1 DEF Phases, SectionNames, HeapIs
  <2>7. /\ DOMAIN consts' = SectionNames
        /\ \A section \in SectionNames : section # phase => consts'[section] = consts[section]
    BY <2>2 DEF HeapInv
  <2>8. Constants' = Constants \cup SectionBlocks(phase, Len(consts'[phase]))
    <3>1. SectionBlocks(phase, Len(consts[phase])) = {}
      <4>1. Len(<<>>) = 0
        OBVIOUS
      <4> QED
        BY <2>5, <4>1 DEF SectionBlocks
    <3> QED
      BY <2>1, <2>7, <3>1 DEF Constants
  <2>9. heap' = HeapIs'
    <3>1. PoolBlocks' = PoolBlocks
      BY <2>1 DEF PoolBlocks
    <3> QED
      BY <2>3, <2>5, <2>6, <2>8, <3>1 DEF Blocks
  <2>10. \A section \in Unread' : consts'[section] = <<>>
    <3>1. Unread \subseteq SectionNames
      BY DEF Unread, SectionNames
    <3> QED
      BY <2>4, <2>7, <3>1 DEF HeapInv
  <2> QED
    BY <2>1, <2>5, <2>6, <2>7, <2>9, <2>10 DEF HeapInv
<1>3. CASE LoadInst
  <2> DEFINE x == file.insts[Len(table) + 1]
             first == First(x.data.table)
  <2>1. /\ phase = "load" /\ phase' = "load" /\ consts' = consts /\ bad' = bad
        /\ pools' = Allocate(x) /\ heap' = heap \cup PoolBlocks'
    BY <1>3 DEF LoadInst
  <2>2. \/ pools' = pools
        \/ \E p, t : pools' = [pools EXCEPT ![p] = Append(pools[p], t)]
    <3>1. pools' = pools \/ pools' = [pools EXCEPT ![first.op] = Append(@, first.table)]
      BY <2>1 DEF Allocate
    <3> HIDE DEF first
    <3> QED
      BY <3>1
  <2>3. /\ DOMAIN pools' = Jumps
        /\ \A op \in Jumps : IsSeq(pools'[op]) /\ (pools[op] # <<>> => pools'[op] # <<>>)
    <3>1. DOMAIN pools = Jumps /\ \A op \in Jumps : IsSeq(pools[op])
      BY DEF HeapInv
    <3>2. \A op \in Jumps : \A t : IsSeq(Append(pools[op], t)) /\ Append(pools[op], t) # <<>>
      BY <3>1, AppendFacts
    <3>3. CASE pools' = pools
      BY <3>1, <3>3
    <3>4. ASSUME NEW p, NEW t, pools' = [pools EXCEPT ![p] = Append(pools[p], t)]
          PROVE  /\ DOMAIN pools' = Jumps
                 /\ \A op \in Jumps : IsSeq(pools'[op]) /\ (pools[op] # <<>> => pools'[op] # <<>>)
      BY <3>1, <3>2, <3>4
    <3> QED
      BY <2>2, <3>3, <3>4
  <2>4. PoolBlocks \subseteq PoolBlocks'
    <3>1. \A b : b \in PoolBlocks <=> \E op \in Jumps : pools[op] # <<>> /\ b = <<op, 0>>
      BY DEF PoolBlocks, Whole
    <3>2. \A b : b \in PoolBlocks' <=> \E op \in Jumps : pools'[op] # <<>> /\ b = <<op, 0>>
      BY DEF PoolBlocks, Whole
    <3> QED
      BY <2>3, <3>1, <3>2
  <2>5. heap = Blocks(LoadNames) /\ HeapIs' = Blocks(LoadNames)'
    BY <2>1 DEF HeapInv, HeapIs
  <2>6. heap' = HeapIs'
    <3>1. Constants' = Constants
      BY <2>1 DEF Constants
    <3> QED
      BY <2>1, <2>4, <2>5, <3>1 DEF Blocks
  <2>7. phase' \in Phases /\ phase' \notin {"header"} \cup SectionNames /\ Unread' = {}
    BY <2>1 DEF Phases, SectionNames, Unread
  <2> QED
    BY <2>1, <2>3, <2>6, <2>7 DEF HeapInv
<1>4. CASE StartLink
  BY <1>4, HeapIdle DEF StartLink
<1>5. CASE Link
  <2> DEFINE e == EntryAt(buf, j)
  <2>1. /\ phase = "link" /\ phase' = "link" /\ consts' = consts /\ bad' = bad
        /\ pools' = LinkedPools(e) /\ heap' = heap
    BY <1>5 DEF Link
  <2>2. \/ pools' = pools
        \/ \E k, t : pools' = [pools EXCEPT ![e.op] = [pools[e.op] EXCEPT ![k] = t]]
    BY <2>1 DEF LinkedPools
  <2>3. /\ DOMAIN pools' = Jumps
        /\ \A op \in Jumps : IsSeq(pools'[op]) /\ (pools[op] # <<>> <=> pools'[op] # <<>>)
    <3>1. CASE pools' = pools
      BY <3>1 DEF HeapInv
    <3>2. ASSUME NEW k, NEW t, pools' = [pools EXCEPT ![e.op] = [pools[e.op] EXCEPT ![k] = t]]
          PROVE  /\ DOMAIN pools' = Jumps
                 /\ \A op \in Jumps : IsSeq(pools'[op]) /\ (pools[op] # <<>> <=> pools'[op] # <<>>)
      <4>1. DOMAIN pools = Jumps /\ \A op \in Jumps : IsSeq(pools[op])
        BY DEF HeapInv
      <4>2. \A op \in Jumps : /\ IsSeq([pools[op] EXCEPT ![k] = t])
                              /\ [pools[op] EXCEPT ![k] = t] = <<>> <=> pools[op] = <<>>
        BY <4>1, ExceptFacts
      <4> HIDE DEF e
      <4> QED
        BY <3>2, <4>1, <4>2
    <3> QED
      BY <2>2, <3>1, <3>2
  <2>4. PoolBlocks' = PoolBlocks
    BY <2>3 DEF PoolBlocks
  <2>5. heap = Blocks(LoadNames) /\ HeapIs' = Blocks(LoadNames)'
    BY <2>1 DEF HeapInv, HeapIs
  <2>6. heap' = HeapIs'
    BY <2>1, <2>4, <2>5 DEF Blocks, Constants
  <2>7. phase' \in Phases /\ phase' \notin {"header"} \cup SectionNames /\ Unread' = {}
    BY <2>1 DEF Phases, SectionNames, Unread
  <2> QED
    BY <2>1, <2>3, <2>6, <2>7 DEF HeapInv
<1>6. CASE Freeze
  <2>1. /\ phase = "link" /\ phase' = "done" /\ consts' = consts /\ pools' = pools
        /\ heap' = heap \ Whole({"table", "data"})
        /\ bad' = (bad \/ ~ Whole({"table", "data"}) \subseteq heap)
    BY <1>6 DEF Freeze, Free
  <2>2. heap = Blocks(LoadNames) /\ HeapIs' = Blocks({"input", "buf"} \cup RuntimeNames)'
    BY <2>1 DEF HeapInv, HeapIs
  <2>3. /\ {"table", "data"} \subseteq LoadNames
        /\ {"table", "data"} \cap (Jumps \cup SectionNames) = {}
        /\ LoadNames \ {"table", "data"} = {"input", "buf"} \cup RuntimeNames
    BY DEF LoadNames, RuntimeNames, Jumps, SectionNames
  <2>4. ~ bad' /\ heap' = Blocks({"input", "buf"} \cup RuntimeNames)
    <3>1. /\ Whole({"table", "data"}) \subseteq Blocks(LoadNames)
          /\ Blocks(LoadNames) \ Whole({"table", "data"}) =
                 Blocks(LoadNames \ {"table", "data"})
      BY <2>3, FreeNames
    <3> QED
      BY <2>1, <2>2, <2>3, <3>1 DEF HeapInv
  <2>5. heap' = HeapIs'
    BY <2>1, <2>2, <2>4 DEF Blocks, PoolBlocks, Constants
  <2>6. phase' \in Phases /\ phase' \notin {"header"} \cup SectionNames /\ Unread' = {}
    BY <2>1 DEF Phases, SectionNames, Unread
  <2> QED
    BY <2>1, <2>4, <2>5, <2>6 DEF HeapInv
<1>7. CASE DisposeRuntime
  <2>1. /\ phase = "done" /\ phase' = "disposing" /\ consts' = consts /\ pools' = pools
        /\ heap' = heap \ RuntimeBlocks
        /\ bad' = (bad \/ ~ RuntimeBlocks \subseteq heap)
    BY <1>7 DEF DisposeRuntime, Free
  <2>2. RuntimeBlocks = Blocks(RuntimeNames)
    BY DEF RuntimeBlocks, Blocks, RuntimeNames, Constants, HeapInv
  <2>3. heap = Blocks({"input", "buf"} \cup RuntimeNames) /\ HeapIs' = Whole({"input", "buf"})
    BY <2>1 DEF HeapInv, HeapIs
  <2>4. heap = Whole({"input", "buf"}) \cup Blocks(RuntimeNames)
    <3>1. \A names1, names2 : Whole(names1 \cup names2) = Whole(names1) \cup Whole(names2)
      BY DEF Whole
    <3> QED
      BY <2>3, <3>1 DEF Blocks
  <2>5. \A b \in Whole({"input", "buf"}) : b \notin Blocks(RuntimeNames)
    <3>1. \A b \in Whole({"input", "buf"}) : b[1] \in {"input", "buf"}
      BY BlockNames
    <3>2. \A b \in Blocks(RuntimeNames) : b[1] \in RuntimeNames \cup Jumps \cup SectionNames
      BY BlockNames DEF Blocks
    <3>3. {"input", "buf"} \cap (RuntimeNames \cup Jumps \cup SectionNames) = {}
      BY DEF RuntimeNames, Jumps, SectionNames
    <3> QED
      BY <3>1, <3>2, <3>3
  <2>6. ~ bad' /\ heap' = HeapIs'
    BY <2>1, <2>2, <2>3, <2>4, <2>5 DEF HeapInv
  <2>7. phase' \in Phases /\ phase' \notin {"header"} \cup SectionNames /\ Unread' = {}
    BY <2>1 DEF Phases, SectionNames, Unread
  <2> QED
    BY <2>1, <2>6, <2>7 DEF HeapInv
<1>8. CASE DisposeLoader
  <2>1. /\ phase = "disposing" /\ phase' = "disposed" /\ consts' = consts /\ pools' = pools
        /\ heap' = heap \ Whole({"buf", "input"})
        /\ bad' = (bad \/ ~ Whole({"buf", "input"}) \subseteq heap)
    BY <1>8 DEF DisposeLoader, Free
  <2>2. heap = Whole({"buf", "input"}) /\ HeapIs' = {}
    <3>1. heap = Whole({"input", "buf"}) /\ HeapIs' = {}
      BY <2>1 DEF HeapInv, HeapIs
    <3>2. {"input", "buf"} = {"buf", "input"}
      OBVIOUS
    <3> QED
      BY <3>1, <3>2
  <2>3. ~ bad' /\ heap' = HeapIs'
    BY <2>1, <2>2 DEF HeapInv
  <2>4. phase' \in Phases /\ phase' \notin {"header"} \cup SectionNames /\ Unread' = {}
    BY <2>1 DEF Phases, SectionNames, Unread
  <2> QED
    BY <2>1, <2>3, <2>4 DEF HeapInv
<1>9. CASE UNCHANGED vars
  <2>1. phase' = phase /\ consts' = consts /\ pools' = pools /\ heap' = heap /\ bad' = bad
    BY <1>9 DEF vars
  <2>2. HeapIs' = HeapIs /\ Unread' = Unread
    BY <2>1 DEF HeapIs, Unread, Blocks, PoolBlocks, Constants
  <2> QED
    BY <2>1, <2>2 DEF HeapInv
<1> QED
  BY <1>1, <1>2, <1>3, <1>4, <1>5, <1>6, <1>7, <1>8, <1>9 DEF Next

\* moz_runtime_dispose and mozvm_loader_dispose free every block that loading
\* allocated, once, whatever sections and tables the file has.
THEOREM EverythingIsFreed == Spec => []NothingLeaks
<1>1. HeapInv => NothingLeaks
  BY DEF HeapInv, HeapIs, NothingLeaks
<1> QED
  BY <1>1, HeapInvInit, HeapInvNext, PTL DEF Spec

-----------------------------------------------------------------------------
(***************************************************************************)
(* A jump table jumps where the array it was made from does.               *)
(***************************************************************************)
\* If a target occurs twice then the last one is equal to it.
Repeats(n, targets) ==
    \A k, l \in 0..Size[n]-1 : k < l /\ targets[k] = targets[l] => targets[Size[n]-1] = targets[k]

(***************************************************************************)
(* Padding distinct targets with 0 is such a list.                         *)
(***************************************************************************)
LEMMA PaddedRepeats ==
    ASSUME NEW n \in 1..3, NEW size \in 0..Size[n], NEW target,
           \A k, l \in 0..size-1 : target[k] = target[l] => k = l
    PROVE  Repeats(n, Padded(n, target, size))
<1>1. Size[n] \in {2, 4, 8}
    BY DEF Size
<1> SUFFICES ASSUME NEW k \in 0..Size[n]-1, NEW l \in 0..Size[n]-1, k < l,
                    Padded(n, target, size)[k] = Padded(n, target, size)[l]
             PROVE  Padded(n, target, size)[Size[n]-1] = Padded(n, target, size)[k]
    BY DEF Repeats
<1>2. /\ Padded(n, target, size)[k] = IF k < size THEN target[k] ELSE 0
      /\ Padded(n, target, size)[l] = IF l < size THEN target[l] ELSE 0
      /\ Padded(n, target, size)[Size[n]-1] = IF Size[n]-1 < size THEN target[Size[n]-1] ELSE 0
    BY <1>1 DEF Padded
<1>3. CASE l < size
  <2>1. k \in 0..size-1 /\ l \in 0..size-1
    BY <1>1, <1>3
  <2>2. k < size
    BY <1>1, <1>3
  <2>3. target[k] = target[l]
    BY <1>2, <1>3, <2>2, Zenon
  <2> QED
    BY <2>1, <2>3
<1>4. CASE ~ (l < size)
  <2>1. ~ (Size[n]-1 < size)
    BY <1>1, <1>4
  <2> QED
    BY <1>2, <1>4, <2>1
<1> QED
    BY <1>3, <1>4

(***************************************************************************)
(* jmptbl.h: the jump of a byte is the one of the array.                   *)
(***************************************************************************)
LEMMA TableIsArray ==
    ASSUME NEW n \in 1..3, NEW targets, NEW jumps,
           Repeats(n, targets),
           NEW ch \in DOMAIN jumps,
           \E k \in 0..Size[n]-1 : targets[k] = jumps[ch]
    PROVE  LET tbl == jump_table_init(n, targets, jumps)
               i   == Bit(tbl, 1, ch) + 2 * Bit(tbl, 2, ch) + 4 * Bit(tbl, 3, ch)
           IN  i \in 0..Size[n]-1 /\ targets[i] = jumps[ch]
<1> DEFINE tbl == jump_table_init(n, targets, jumps)
           Is(k) == k < Size[n] /\ targets[k] = jumps[ch]
<1>1. \A s \in 1..3 : Bit(tbl, s, ch) = IF s <= n /\ (\E k \in On[s] : Is(k)) THEN 1 ELSE 0
  <2>1. tbl.b = [s \in 1..n |-> {c \in DOMAIN jumps : \E k \in On[s] : k < Size[n] /\ targets[k] = jumps[c]}]
    BY DEF jump_table_init
  <2> QED
    BY <2>1 DEF Bit
<1>2. /\ (\E k \in On[1] : Is(k)) <=> (Is(1) \/ Is(3) \/ Is(5) \/ Is(7))
      /\ (\E k \in On[2] : Is(k)) <=> (Is(2) \/ Is(3) \/ Is(6) \/ Is(7))
      /\ (\E k \in On[3] : Is(k)) <=> (Is(4) \/ Is(5) \/ Is(6) \/ Is(7))
  <2>1. On[1] = {1, 3, 5, 7} /\ On[2] = {2, 3, 6, 7} /\ On[3] = {4, 5, 6, 7}
    BY DEF On
  <2> HIDE DEF Is
  <2> QED
    BY <2>1
<1>3. /\ Bit(tbl, 1, ch) = IF Is(1) \/ Is(3) \/ Is(5) \/ Is(7) THEN 1 ELSE 0
      /\ Bit(tbl, 2, ch) = IF n >= 2 /\ (Is(2) \/ Is(3) \/ Is(6) \/ Is(7)) THEN 1 ELSE 0
      /\ Bit(tbl, 3, ch) = IF n >= 3 /\ (Is(4) \/ Is(5) \/ Is(6) \/ Is(7)) THEN 1 ELSE 0
  <2> HIDE DEF Is, tbl
  <2> QED
    BY <1>1, <1>2
<1> HIDE DEF tbl
<1>4. CASE n = 1
  <2>1. Size[n] = 2
    BY <1>4 DEF Size
  <2>2. /\ Bit(tbl, 1, ch) = IF Is(1) THEN 1 ELSE 0
        /\ Bit(tbl, 2, ch) = 0 /\ Bit(tbl, 3, ch) = 0
    BY <1>3, <1>4, <2>1
  <2>3. targets[0] = jumps[ch] \/ targets[1] = jumps[ch]
    BY <2>1
  <2> QED
    BY <2>1, <2>2, <2>3 DEF tbl
<1>5. CASE n = 2
  <2>1. Size[n] = 4
    BY <1>5 DEF Size
  <2>2. /\ Bit(tbl, 1, ch) = IF Is(1) \/ Is(3) THEN 1 ELSE 0
        /\ Bit(tbl, 2, ch) = IF Is(2) \/ Is(3) THEN 1 ELSE 0
        /\ Bit(tbl, 3, ch) = 0
    BY <1>3, <1>5, <2>1
  <2>3. \E k \in {0, 1, 2, 3} : targets[k] = jumps[ch]
    BY <2>1
  <2>4. \A k, l \in {0, 1, 2, 3} : k < l /\ targets[k] = targets[l] => targets[3] = targets[k]
    BY <2>1 DEF Repeats
  <2> QED
    BY <2>1, <2>2, <2>3, <2>4 DEF tbl
<1>6. CASE n = 3
  <2>1. Size[n] = 8
    BY <1>6 DEF Size
  <2>2. /\ Bit(tbl, 1, ch) = IF Is(1) \/ Is(3) \/ Is(5) \/ Is(7) THEN 1 ELSE 0
        /\ Bit(tbl, 2, ch) = IF Is(2) \/ Is(3) \/ Is(6) \/ Is(7) THEN 1 ELSE 0
        /\ Bit(tbl, 3, ch) = IF Is(4) \/ Is(5) \/ Is(6) \/ Is(7) THEN 1 ELSE 0
    BY <1>3, <1>6, <2>1
  <2>3. \E k \in {0, 1, 2, 3, 4, 5, 6, 7} : targets[k] = jumps[ch]
    BY <2>1
  <2>4. \A k, l \in {0, 1, 2, 3, 4, 5, 6, 7} : k < l /\ targets[k] = targets[l] => targets[7] = targets[k]
    BY <2>1 DEF Repeats
  <2> QED
    BY <2>1, <2>2, <2>3, <2>4, SMTT(60) DEF tbl
<1> QED
    BY <1>4, <1>5, <1>6

(***************************************************************************)
(* loader.c, case First and L_encode_jumps: whatever the order in which    *)
(* the distinct targets are listed, the loaded table jumps, on every byte, *)
(* to the address of the target that the bytecode file names, as long as   *)
(* no target is instruction 0.                                             *)
(***************************************************************************)
THEOREM LoadedTableIsExact ==
    ASSUME NEW n \in 1..3, NEW size \in 0..Size[n], NEW target, NEW jumps, NEW addr,
           \A k, l \in 0..size-1 : target[k] = target[l] => k = l,
           \A c \in DOMAIN jumps : \E k \in 0..size-1 : target[k] = jumps[c],
           NEW ch \in DOMAIN jumps, jumps[ch] # 0
    PROVE  jump_table_jump(encode_jumps(jump_table_init(n, Padded(n, target, size), jumps), addr), ch)
           = addr[jumps[ch]]
<1> DEFINE targets == Padded(n, target, size)
           tbl     == jump_table_init(n, targets, jumps)
           enc     == encode_jumps(tbl, addr)
           i       == Bit(tbl, 1, ch) + 2 * Bit(tbl, 2, ch) + 4 * Bit(tbl, 3, ch)
<1>1. Size[n] \in {2, 4, 8}
    BY DEF Size
<1>2. \E k \in 0..Size[n]-1 : targets[k] = jumps[ch]
  <2>1. PICK k \in 0..size-1 : target[k] = jumps[ch]
    OBVIOUS
  <2>2. k \in 0..Size[n]-1 /\ targets[k] = target[k]
    BY <1>1 DEF Padded
  <2> QED
    BY <2>1, <2>2
<1>3. i \in 0..Size[n]-1 /\ targets[i] = jumps[ch]
    BY <1>2, PaddedRepeats, TableIsArray
<1>4. /\ enc.b = tbl.b
      /\ enc.jumps = [k \in 0..Size[n]-1 |-> IF targets[k] # 0 THEN addr[targets[k]] ELSE INT_MAX]
  <2>1. tbl.jumps = targets /\ DOMAIN targets = 0..Size[n]-1
    BY DEF jump_table_init, Padded
  <2>2. tbl = [b |-> tbl.b, jumps |-> tbl.jumps]
    BY DEF jump_table_init
  <2> QED
    BY <2>1, <2>2 DEF encode_jumps
<1>5. jump_table_jump(enc, ch) = enc.jumps[i]
    BY <1>4 DEF jump_table_jump, Bit
<1> QED
    BY <1>3, <1>4, <1>5


-----------------------------------------------------------------------------
(***************************************************************************)
(* Numbers.                                                                *)
(***************************************************************************)
\* A nonempty set of numbers has a least one.
LEMMA SomeMin ==
    ASSUME NEW S \in SUBSET Nat, S # {}
    PROVE  \E x \in S : \A y \in S : x <= y
<1> DEFINE R == OpToRel(<, Nat)
<1>1. IsWellFoundedOn(R, Nat)
  BY NatLessThanWellFounded
<1>2. R = {ss \in Nat \X Nat : ss[1] < ss[2]}
  BY DEF OpToRel
<1>3. PICK x \in S : \A y \in S : ~ (<<y, x>> \in R)
  <2> HIDE DEF R
  <2> QED
    BY <1>1, WFMin
<1>4. \A y \in S : ~ (y < x)
  BY <1>2, <1>3
<1> QED
  BY <1>4

\* Induction over the numbers.
LEMMA InductionInSet ==
    ASSUME NEW S \in SUBSET Nat, 0 \in S, \A k \in S : k + 1 \in S
    PROVE  S = Nat
<1> SUFFICES ASSUME Nat \ S # {} PROVE FALSE
  OBVIOUS
<1>1. PICK x \in Nat \ S : \A y \in Nat \ S : x <= y
  <2> DEFINE T == Nat \ S
  <2>1. T \in SUBSET Nat /\ T # {}
    OBVIOUS
  <2> HIDE DEF T
  <2>2. \E x \in T : \A y \in T : x <= y
    BY <2>1, SomeMin
  <2> QED
    BY <2>2 DEF T
<1>2. x - 1 \in Nat /\ x - 1 \in S
  BY <1>1
<1>3. x - 1 + 1 \in S
  BY <1>2
<1> QED
  BY <1>1, <1>3


-----------------------------------------------------------------------------
(***************************************************************************)
(* The constants are read as they were written.                            *)
(***************************************************************************)
LEMMA SectionsAre ==
    /\ Sections[1] = "prods" /\ Sections[2] = "sets" /\ Sections[3] = "strs" /\ Sections[4] = "tags"
    /\ Sections[5] = "tables" /\ Sections[6] = "load"
    /\ {Sections[s] : s \in 1..5} = SectionNames
<1>1. /\ Sections[1] = "prods" /\ Sections[2] = "sets" /\ Sections[3] = "strs" /\ Sections[4] = "tags"
      /\ Sections[5] = "tables" /\ Sections[6] = "load"
  BY DEF Sections
<1>2. 1..5 = {1, 2, 3, 4, 5}
  OBVIOUS
<1>3. {Sections[s] : s \in 1..5} = {Sections[1], Sections[2], Sections[3], Sections[4], Sections[5]}
  BY <1>2
<1> QED
  BY <1>1, <1>3 DEF SectionNames

IsSum(f, N, a, size) == f = [n \in 1..N + 1 |-> IF n = 1 THEN a ELSE f[n - 1] + size[n - 1]]

LEMMA SumExists ==
    ASSUME NEW N \in Nat, NEW a, NEW size
    PROVE  \E f : IsSum(f, N, a, size)
<1> DEFINE Body(f, n) == IF n = 1 THEN a ELSE f[n - 1] + size[n - 1]
           Is(f, k) == f = [n \in 1..k + 1 |-> Body(f, n)]
           Good == {k \in Nat : \E f : Is(f, k)}
<1>1. 0 \in Good
  <2> DEFINE f == [n \in 1..0 + 1 |-> a]
  <2>1. Is(f, 0)
    OBVIOUS
  <2> HIDE DEF f, Is
  <2>2. \E g : Is(g, 0)
    BY <2>1
  <2> QED
    BY <2>2
<1>2. ASSUME NEW k \in Good PROVE k + 1 \in Good
  <2>1. k \in Nat /\ \E f : Is(f, k)
    <3> HIDE DEF Is
    <3> QED
      OBVIOUS
  <2>2. PICK f : Is(f, k)
    BY <2>1
  <2>3. \A n \in 1..k + 1 : f[n] = Body(f, n)
    BY <2>2
  <2> DEFINE g == [n \in 1..(k + 1) + 1 |-> IF n = k + 2 THEN f[k + 1] + size[k + 1] ELSE f[n]]
  <2>4. \A n \in 1..k + 1 : g[n] = f[n]
    BY <2>1
  <2>5. g[k + 2] = f[k + 1] + size[k + 1]
    BY <2>1
  <2>6. g = [n \in 1..(k + 1) + 1 |-> g[n]]
    OBVIOUS
  <2> HIDE DEF g
  <2>7. \A n \in 1..(k + 1) + 1 : g[n] = Body(g, n)
    <3> TAKE n \in 1..(k + 1) + 1
    <3>1. CASE n = k + 2
      <4>1. n # 1 /\ n - 1 = k + 1 /\ k + 1 \in 1..k + 1
        BY <2>1, <3>1
      <4> QED
        BY <4>1, <3>1, <2>4, <2>5
    <3>2. CASE n # k + 2
      <4>1. n \in 1..k + 1 /\ (n # 1 => n - 1 \in 1..k + 1)
        BY <2>1, <3>2
      <4> QED
        BY <4>1, <2>3, <2>4
    <3> QED
      BY <3>1, <3>2
  <2>8. Is(g, k + 1)
    BY <2>6, <2>7
  <2> HIDE DEF Is
  <2> QED
    BY <2>1, <2>8
<1>3. N \in Good
  <2> HIDE DEF Good
  <2>1. Good \in SUBSET Nat
    BY DEF Good
  <2>2. Good = Nat
    BY <1>1, <1>2, <2>1, InductionInSet
  <2> QED
    BY <2>2
<1> QED
  BY <1>3 DEF IsSum


\* Where constants begin, for a list that is as a file has it.
SizesOf(f, section) == [n \in 1..Len(f.consts[section]) |-> SizeIn(section, f.consts[section][n])]

LEMMA PlacesAreSums ==
    ASSUME NEW f, NEW section, NEW begin \in Nat, Len(f.consts[section]) \in Nat,
           \A n \in 1..Len(f.consts[section]) : SizeIn(section, f.consts[section][n]) \in Nat
    PROVE  LET N     == Len(f.consts[section])
               place == Places(f, section, begin)
           IN  /\ place[1] = begin + 2
               /\ \A n \in 1..N : place[n + 1] = place[n] + SizeIn(section, f.consts[section][n])
               /\ \A n \in 1..N + 1 : place[n] \in Nat /\ begin + 2 <= place[n]
               /\ \A n \in 1..N : place[n + 1] <= place[N + 1]
               /\ Past(f, section, begin) = place[N + 1]
<1> DEFINE N     == Len(f.consts[section])
           sizes == SizesOf(f, section)
           place == Places(f, section, begin)
           Is(g) == g = [n \in 1..N + 1 |-> IF n = 1 THEN begin + 2
                                            ELSE g[n - 1] + SizeIn(section, f.consts[section][n - 1])]
<1>0. N \in Nat
  OBVIOUS
<1>1. \E g : Is(g)
  <2>1. PICK g : IsSum(g, N, begin + 2, sizes)
    BY <1>0, SumExists
  <2>2. \A n \in 1..N + 1 : n # 1 => n - 1 \in 1..N
    BY <1>0
  <2>3. \A n \in 1..N : sizes[n] = SizeIn(section, f.consts[section][n])
    BY DEF SizesOf
  <2>4. [n \in 1..N + 1 |-> IF n = 1 THEN begin + 2 ELSE g[n - 1] + sizes[n - 1]]
        = [n \in 1..N + 1 |-> IF n = 1 THEN begin + 2
                              ELSE g[n - 1] + SizeIn(section, f.consts[section][n - 1])]
    <3> HIDE DEF N, sizes
    <3> QED
      BY <2>2, <2>3
  <2> HIDE DEF sizes, N
  <2>5. Is(g)
    BY <2>1, <2>4, Zenon DEF IsSum
  <2> QED
    BY <2>5
<1>2. place = CHOOSE g : Is(g)
  BY DEF Places
<1>3. Is(place)
  <2> HIDE DEF place, Is
  <2> QED
    BY <1>1, <1>2
<1> HIDE DEF place
<1>4. place[1] = begin + 2
  BY <1>0, <1>3
<1>5. \A n \in 1..N : place[n + 1] = place[n] + SizeIn(section, f.consts[section][n])
  <2> TAKE n \in 1..N
  <2>1. n + 1 \in 1..N + 1 /\ n + 1 # 1 /\ (n + 1) - 1 = n
    BY <1>0
  <2> HIDE DEF N
  <2> QED
    BY <1>3, <2>1
<1> DEFINE Low == {k \in Nat : k <= N => place[k + 1] \in Nat /\ begin + 2 <= place[k + 1]}
           Up  == {k \in Nat : k < N => place[(N - k) + 1] <= place[N + 1]}
<1>6. Low = Nat
  <2>1. 0 \in Low
    BY <1>4
  <2>2. ASSUME NEW k \in Low PROVE k + 1 \in Low
    <3>1. CASE k + 1 <= N
      <4>1. k + 1 \in 1..N /\ k <= N
        BY <1>0, <3>1
      <4>2. place[(k + 1) + 1] = place[k + 1] + SizeIn(section, f.consts[section][k + 1])
        BY <1>5, <4>1
      <4>3. place[k + 1] \in Nat /\ begin + 2 <= place[k + 1]
        BY <4>1
      <4>4. SizeIn(section, f.consts[section][k + 1]) \in Nat
        BY <4>1
      <4> DEFINE a == place[k + 1]  b == SizeIn(section, f.consts[section][k + 1])
      <4> HIDE DEF a, b
      <4>5. a \in Nat /\ b \in Nat /\ begin + 2 <= a /\ place[(k + 1) + 1] = a + b
        BY <4>2, <4>3, <4>4 DEF a, b
      <4>6. place[(k + 1) + 1] \in Nat /\ begin + 2 <= place[(k + 1) + 1]
        BY <4>5
      <4> QED
        BY <4>6
    <3>2. CASE ~(k + 1 <= N)
      BY <3>2
    <3> QED
      BY <3>1, <3>2
  <2>3. Low \in SUBSET Nat
    OBVIOUS
  <2> HIDE DEF Low
  <2> QED
    BY <2>1, <2>2, <2>3, InductionInSet
<1>7. \A n \in 1..N + 1 : place[n] \in Nat /\ begin + 2 <= place[n]
  <2> TAKE n \in 1..N + 1
  <2>1. n - 1 \in Nat /\ n - 1 <= N /\ (n - 1) + 1 = n
    BY <1>0
  <2> HIDE DEF N
  <2>2. n - 1 \in Low
    BY <1>6, <2>1
  <2> QED
    BY <2>1, <2>2
<1>8. Up = Nat
  <2>0. N + 1 \in 1..N + 1 /\ N - 0 = N
    BY <1>0
  <2>1. 0 \in Up
    BY <1>7, <2>0
  <2>2. ASSUME NEW k \in Up PROVE k + 1 \in Up
    <3>1. CASE k + 1 < N
      <4> DEFINE m == N - (k + 1)
      <4>1. m + 1 \in 1..N /\ (m + 1) + 1 = (N - k) + 1 /\ k < N /\ m + 1 \in 1..N + 1 /\ (m + 1) + 1 \in 1..N + 1
        BY <1>0, <3>1
      <4>2. place[(N - k) + 1] <= place[N + 1]
        BY <4>1
      <4> HIDE DEF m, N
      <4>3. place[(m + 1) + 1] = place[m + 1] + SizeIn(section, f.consts[section][m + 1])
        BY <1>5, <4>1
      <4>4. SizeIn(section, f.consts[section][m + 1]) \in Nat
        BY <4>1 DEF N
      <4>5. place[m + 1] \in Nat /\ place[(m + 1) + 1] \in Nat /\ place[N + 1] \in Nat
        BY <1>7, <4>1, <1>0
      <4> DEFINE a == place[m + 1]  b == SizeIn(section, f.consts[section][m + 1])
                 c == place[N + 1]  d == place[(m + 1) + 1]
      <4>6. a \in Nat /\ b \in Nat /\ c \in Nat /\ d \in Nat /\ d = a + b /\ d <= c
        BY <4>1, <4>2, <4>3, <4>4, <4>5
      <4> HIDE DEF a, b, c, d
      <4>7. a <= c
        BY <4>6
      <4> QED
        BY <4>7 DEF a, c, m
    <3>2. CASE ~(k + 1 < N)
      BY <3>2
    <3> QED
      BY <3>1, <3>2
  <2>3. Up \in SUBSET Nat
    OBVIOUS
  <2> HIDE DEF Up
  <2> QED
    BY <2>1, <2>2, <2>3, InductionInSet
<1>9. \A n \in 1..N : place[n + 1] <= place[N + 1]
  <2> TAKE n \in 1..N
  <2>1. N - n \in Nat /\ N - n < N /\ N - (N - n) = n
    BY <1>0
  <2> HIDE DEF N
  <2>2. N - n \in Up
    BY <1>8, <2>1
  <2> QED
    BY <2>1, <2>2
<1> QED
  BY <1>4, <1>5, <1>7, <1>9 DEF place, Past


LEMMA WordsAreCounted == Words \in Nat
  BY BitSetAssumption DEF Words

LEMMA SectionFacts ==
    ASSUME NEW f \in Files, NEW s \in 1..5
    PROVE  LET section == Sections[s]
               list    == f.consts[section]
               at(n)   == Places(f, section, Layout(f)[s])[n]
           IN  /\ list \in Seq(Range(list)) /\ HasNumber(f, Layout(f)[s], Len(list))
               /\ \A n \in 1..Len(list) :
                     /\ section = "sets" => list[n] \subseteq 0..IntBit*Words-1 /\ HasBitSet(f, at(n), list[n])
                     /\ section # "sets" => list[n] \in Seq(0..255) /\ HasName(f, at(n), list[n])
                     /\ SizeIn(section, list[n]) \in Nat
<1> DEFINE section == Sections[s]
           list    == f.consts[section]
           at(n)   == Places(f, section, Layout(f)[s])[n]
<1>1. HasSection(f, section, Layout(f)[s])
  BY HeadAssumption
<1> HIDE DEF section
<1>2. list \in Seq(Range(list)) /\ HasNumber(f, Layout(f)[s], Len(list))
  BY <1>1 DEF HasSection
<1>3. DOMAIN list = 1..Len(list)
  <2> HIDE DEF list
  <2> QED
    BY <1>2
<1>4. \A n \in DOMAIN list :
          IF section = "sets" THEN list[n] \subseteq 0..IntBit*Words-1 /\ HasBitSet(f, at(n), list[n])
          ELSE list[n] \in Seq(0..255) /\ HasName(f, at(n), list[n])
  BY <1>1 DEF HasSection
<1>5. \A n \in DOMAIN list : SizeIn(section, list[n]) \in Nat
  <2> SUFFICES ASSUME NEW n \in DOMAIN list PROVE SizeIn(section, list[n]) \in Nat
    OBVIOUS
  <2>1. CASE section = "sets"
    BY <2>1, WordsAreCounted DEF SizeIn
  <2>2. CASE section # "sets"
    <3> DEFINE name == list[n]
    <3>1. name \in Seq(0..255)
      BY <1>4, <2>2
    <3> HIDE DEF name
    <3>2. Len(name) + 3 \in Nat
      BY <3>1
    <3> QED
      BY <2>2, <3>2 DEF SizeIn, name
  <2> QED
    BY <2>1, <2>2
<1> HIDE DEF list
<1> QED
  BY <1>2, <1>3, <1>4, <1>5 DEF section, list

PlacesIn(f, s, begin) ==
    LET section == Sections[s]
        list    == f.consts[section]
        place   == Places(f, section, begin)
    IN  /\ place[1] = begin + 2
        /\ \A n \in 1..Len(list) : place[n + 1] = place[n] + SizeIn(section, list[n])
        /\ \A n \in 1..Len(list) + 1 : place[n] \in Nat /\ begin + 2 <= place[n]
        /\ \A n \in 1..Len(list) : place[n + 1] <= place[Len(list) + 1]
        /\ Past(f, section, begin) = place[Len(list) + 1]
        /\ Past(f, section, begin) \in Nat /\ begin + 2 <= Past(f, section, begin)

LEMMA PlacesFacts ==
    ASSUME NEW f \in Files, NEW s \in 1..5, NEW begin \in Nat
    PROVE  PlacesIn(f, s, begin)
<1> DEFINE section == Sections[s]
           list    == f.consts[section]
<1>1. Len(list) \in Nat /\ \A n \in 1..Len(list) : SizeIn(section, list[n]) \in Nat
  <2>1. list \in Seq(Range(list)) /\ \A n \in 1..Len(list) : SizeIn(section, list[n]) \in Nat
    BY SectionFacts
  <2> HIDE DEF list
  <2> QED
    BY <2>1
<1> HIDE DEF section
<1>2. Len(list) + 1 \in 1..Len(list) + 1
  <2> DEFINE N == Len(list)
  <2>1. N \in Nat
    BY <1>1
  <2> HIDE DEF N
  <2>2. N + 1 \in 1..N + 1
    BY <2>1
  <2> QED
    BY <2>2 DEF N
<1> DEFINE place == Places(f, section, begin)
<1>3. /\ place[1] = begin + 2
      /\ \A n \in 1..Len(list) : place[n + 1] = place[n] + SizeIn(section, list[n])
      /\ \A n \in 1..Len(list) + 1 : place[n] \in Nat /\ begin + 2 <= place[n]
      /\ \A n \in 1..Len(list) : place[n + 1] <= place[Len(list) + 1]
      /\ Past(f, section, begin) = place[Len(list) + 1]
  BY <1>1, PlacesAreSums
<1> HIDE DEF place
<1>4. Past(f, section, begin) \in Nat /\ begin + 2 <= Past(f, section, begin)
  BY <1>2, <1>3
<1> QED
  BY <1>3, <1>4 DEF PlacesIn, section, place

\* The sections follow one another.
LEMMA LayoutFacts ==
    ASSUME NEW f \in Files
    PROVE  /\ Layout(f)[1] = 10 /\ Layout(f)[6] = Len(f.head)
           /\ \A s \in 1..5 :
                 /\ Layout(f)[s] \in Nat /\ PlacesIn(f, s, Layout(f)[s])
                 /\ Layout(f)[s + 1] = Past(f, Sections[s], Layout(f)[s])
                 /\ Layout(f)[s + 1] <= Len(f.head)
<1> DEFINE sets   == Past(f, "prods", 10)
           strs   == Past(f, "sets", sets)
           tags   == Past(f, "strs", strs)
           tables == Past(f, "tags", tags)
           end    == Past(f, "tables", tables)
<1>1. Layout(f) = <<10, sets, strs, tags, tables, end>>
  BY DEF Layout
<1>2. Len(f.head) = Layout(f)[6]
  BY HeadAssumption
<1>3. \A s \in 1..5, b \in Nat : PlacesIn(f, s, b)
  BY PlacesFacts
<1>4. \A s \in 1..5, b \in Nat : Past(f, Sections[s], b) \in Nat /\ b + 2 <= Past(f, Sections[s], b)
  BY <1>3 DEF PlacesIn
<1>5. \A name \in SectionNames, b \in Nat : Past(f, name, b) \in Nat /\ b + 2 <= Past(f, name, b)
  BY <1>4, SectionsAre
<1>6. sets \in Nat /\ 12 <= sets
  BY <1>5 DEF SectionNames
<1> HIDE DEF sets
<1>7. strs \in Nat /\ sets <= strs
  BY <1>5, <1>6 DEF SectionNames
<1> HIDE DEF strs
<1>8. tags \in Nat /\ strs <= tags
  BY <1>5, <1>7 DEF SectionNames
<1> HIDE DEF tags
<1>9. tables \in Nat /\ tags <= tables
  BY <1>5, <1>8 DEF SectionNames
<1> HIDE DEF tables
<1>10. end \in Nat /\ tables <= end
  BY <1>5, <1>9 DEF SectionNames
<1> HIDE DEF end
<1>11. \A s \in 1..5 : Layout(f)[s] \in Nat /\ Layout(f)[s + 1] <= end
  BY <1>1, <1>6, <1>7, <1>8, <1>9, <1>10
<1>12. \A s \in 1..5 : Layout(f)[s + 1] = Past(f, Sections[s], Layout(f)[s])
  <2>1. 1..5 = {1, 2, 3, 4, 5}
    OBVIOUS
  <2> QED
    BY <1>1, SectionsAre, <2>1 DEF sets, strs, tags, tables, end
<1> QED
  BY <1>1, <1>2, <1>3, <1>11, <1>12


\* A byte in the head is read as it is there; a number is its two bytes.
LEMMA ReadFacts ==
    ASSUME file \in Files
    PROVE  /\ Len(file.head) \in Nat
           /\ \A at \in Nat : at < Len(file.head) => read8(at) = ByteAt(file, at)
           /\ \A at \in Nat : \A n : at + 2 <= Len(file.head) /\ HasNumber(file, at, n) => read16(at) = n
           /\ \A at \in Nat : at + 4 <= Len(file.head) => read32(at) = WordAt(file, at)
<1> DEFINE head == file.head
<1>1. head \in Seq(0..255)
  BY HeadAssumption
<1> HIDE DEF head
<1>2. Len(head) \in Nat
  BY <1>1
<1>3. \A at \in Nat : at < Len(head) => read8(at) = ByteAt(file, at)
  BY DEF read8, ByteAt, head
<1>4. \A at \in Nat : at + 2 <= Len(head) => read16(at) = ByteAt(file, at) * 256 + ByteAt(file, at + 1)
  <2> TAKE at \in Nat
  <2> HAVE at + 2 <= Len(head)
  <2>1. read8(at) = ByteAt(file, at) /\ read8(at + 1) = ByteAt(file, at + 1)
    BY <1>2, <1>3
  <2> QED
    BY <2>1 DEF read16
<1>5. \A at \in Nat : at + 4 <= Len(head) => read32(at) = WordAt(file, at)
  <2> TAKE at \in Nat
  <2> HAVE at + 4 <= Len(head)
  <2>1. /\ read16(at) = ByteAt(file, at) * 256 + ByteAt(file, at + 1)
        /\ read16(at + 2) = ByteAt(file, at + 2) * 256 + ByteAt(file, (at + 2) + 1)
    BY <1>2, <1>4
  <2>2. (at + 2) + 1 = at + 3
    OBVIOUS
  <2> QED
    BY <2>1, <2>2 DEF read32, WordAt
<1> QED
  BY <1>2, <1>3, <1>4, <1>5 DEF head, HasNumber

LEMMA DivFacts ==
    ASSUME NEW c \in Nat, NEW d \in Nat \ {0}, NEW m \in Nat, c < d * m
    PROVE  \E b \in 0..d-1, w \in 0..m-1 : c = b + d * w
<1>1. c \div d \in Int /\ c % d \in 0..d-1 /\ c = (c % d) + d * (c \div d)
  OBVIOUS
<1>2. PICK b \in 0..d-1, w \in Int : c = b + d * w
  BY <1>1
<1>3. 0 <= w
  BY <1>2
<1>4. w < m
  <2> SUFFICES ASSUME m <= w PROVE FALSE
    BY <1>2
  <2>1. d * m <= d * w
    BY <1>2
  <2> QED
    BY <1>2, <2>1
<1> QED
  BY <1>2, <1>3, <1>4

LEMMA ReadSet ==
    ASSUME file \in Files, NEW at \in Nat, at + 4 * Words <= Len(file.head),
           NEW set \in SUBSET (0..IntBit*Words-1), HasBitSet(file, at, set)
    PROVE  BitSet(at) = [value |-> set, next |-> at + 4 * Words]
<1> DEFINE bits == {b \in (0..IntBit-1) \X (0..Words-1) : HasBit(read32(at + 4 * b[2]), b[1])}
           value == {s[1] + IntBit * s[2] : s \in bits}
<1>1. \A w \in 0..Words-1 : read32(at + 4 * w) = WordAt(file, at + 4 * w)
  <2> TAKE w \in 0..Words-1
  <2>1. at + 4 * w \in Nat /\ (at + 4 * w) + 4 <= Len(file.head)
    BY WordsAreCounted, ReadFacts
  <2> QED
    BY <2>1, ReadFacts
<1>2. \A b \in 0..IntBit-1, w \in 0..Words-1 : HasBit(read32(at + 4 * w), b) <=> b + IntBit * w \in set
  BY <1>1 DEF HasBitSet
<1>3. \A b \in 0..IntBit-1, w \in 0..Words-1 : <<b, w>> \in bits <=> b + IntBit * w \in set
  <2> TAKE b \in 0..IntBit-1, w \in 0..Words-1
  <2>1. <<b, w>> \in bits <=> HasBit(read32(at + 4 * w), b)
    OBVIOUS
  <2> QED
    BY <1>2, <2>1
<1>4. value \subseteq set
  <2> SUFFICES ASSUME NEW s \in bits PROVE s[1] + IntBit * s[2] \in set
    OBVIOUS
  <2>1. s[1] \in 0..IntBit-1 /\ s[2] \in 0..Words-1 /\ s = <<s[1], s[2]>>
    OBVIOUS
  <2> HIDE DEF bits
  <2> QED
    BY <1>3, <2>1
<1>5. set \subseteq value
  <2> SUFFICES ASSUME NEW c \in set PROVE c \in value
    OBVIOUS
  <2>1. c \in Nat /\ c < IntBit * Words
    BY WordsAreCounted, BitSetAssumption
  <2>2. PICK b \in 0..IntBit-1, w \in 0..Words-1 : c = b + IntBit * w
    BY <2>1, WordsAreCounted, BitSetAssumption, DivFacts
  <2>3. <<b, w>> \in bits
    <3> HIDE DEF bits
    <3> QED
      BY <1>3, <2>2
  <2> DEFINE s == <<b, w>>
  <2>4. s \in bits /\ c = s[1] + IntBit * s[2]
    BY <2>2, <2>3
  <2> HIDE DEF s, bits
  <2> QED
    BY <2>4
<1> QED
  BY <1>4, <1>5 DEF BitSet

LEMMA ReadName ==
    ASSUME file \in Files, NEW name \in Seq(0..255), NEW at \in Nat, at + Len(name) + 3 <= Len(file.head),
           HasName(file, at, name)
    PROVE  Name(at) = [value |-> name, next |-> at + (Len(name) + 3)]
<1>1. read16(at) = Len(name)
  BY ReadFacts DEF HasName
<1>2. \A i \in 1..Len(name) : read8(at + 1 + i) = name[i]
  <2> TAKE i \in 1..Len(name)
  <2>1. at + 1 + i \in Nat /\ at + 1 + i < Len(file.head)
    BY ReadFacts
  <2>2. ByteAt(file, at + 1 + i) = name[i]
    BY DEF HasName
  <2> QED
    BY <2>1, <2>2, ReadFacts
<1>3. [i \in 1..Len(name) |-> read8(at + 1 + i)] = name
  <2>1. [i \in 1..Len(name) |-> read8(at + 1 + i)] = [i \in 1..Len(name) |-> name[i]]
    BY <1>2
  <2>2. name = [i \in 1..Len(name) |-> name[i]]
    OBVIOUS
  <2> QED
    BY <2>1, <2>2
<1>4. at + 2 + read16(at) + 1 = at + (Len(name) + 3)
  BY <1>1
<1> QED
  BY <1>1, <1>3, <1>4 DEF Name


\* The first n elements of a list.
Firsts(list, n) == [i \in 1..n |-> list[i]]

LEMMA FirstsFacts ==
    ASSUME NEW list, list \in Seq(Range(list))
    PROVE  /\ Firsts(list, 0) = <<>> /\ Firsts(list, Len(list)) = list
           /\ \A n \in Nat : n < Len(list) => Append(Firsts(list, n), list[n + 1]) = Firsts(list, n + 1)
<1> DEFINE T == Range(list)
<1>0. list \in Seq(T)
  OBVIOUS
<1> HIDE DEF T
<1>1. \A n \in Nat : n <= Len(list) => Firsts(list, n) \in Seq(T) /\ Len(Firsts(list, n)) = n
  <2> TAKE n \in Nat
  <2> HAVE n <= Len(list)
  <2>1. \A i \in 1..n : list[i] \in T
    BY <1>0
  <2>2. Firsts(list, n) \in [1..n -> T]
    BY <2>1 DEF Firsts
  <2> QED
    BY <2>2, SeqDef
<1>2. Firsts(list, 0) = <<>>
  <2>1. Firsts(list, 0) \in Seq(T) /\ Len(Firsts(list, 0)) = 0
    BY <1>0, <1>1
  <2> QED
    BY <2>1, EmptySeq
<1>3. Firsts(list, Len(list)) = list
  BY <1>0 DEF Firsts
<1>4. \A n \in Nat : n < Len(list) => Append(Firsts(list, n), list[n + 1]) = Firsts(list, n + 1)
  <2> TAKE n \in Nat
  <2> HAVE n < Len(list)
  <2>1. n + 1 \in Nat /\ n + 1 <= Len(list) /\ n <= Len(list) /\ n + 1 \in 1..Len(list)
    BY <1>0
  <2> DEFINE s == Firsts(list, n)  t == Firsts(list, n + 1)
  <2>2. s \in Seq(T) /\ Len(s) = n /\ t \in Seq(T) /\ Len(t) = n + 1 /\ list[n + 1] \in T
    BY <1>0, <1>1, <2>1
  <2>3. /\ \A i \in 1..n : s[i] = list[i]
        /\ \A i \in 1..n + 1 : t[i] = list[i]
    BY DEF Firsts
  <2> HIDE DEF s, t
  <2> DEFINE a == Append(s, list[n + 1])
  <2>4. a \in Seq(T) /\ Len(a) = n + 1 /\ \A i \in 1..n : a[i] = s[i]
    BY <2>2
  <2>5. a[n + 1] = list[n + 1]
    BY <2>2
  <2> HIDE DEF a
  <2>6. \A i \in 1..n + 1 : a[i] = t[i]
    BY <2>1, <2>3, <2>4, <2>5
  <2>7. a = t
    BY <2>2, <2>4, <2>6, SeqEqual
  <2> QED
    BY <2>7 DEF a, s, t
<1> QED
  BY <1>2, <1>3, <1>4

\* One entry.
LEMMA ReadEntry ==
    ASSUME file \in Files, NEW s \in 1..5, NEW n \in 1..Len(file.consts[Sections[s]])
    PROVE  LET place == Places(file, Sections[s], Layout(file)[s])
           IN  Entry(Sections[s], place[n]) = [value |-> file.consts[Sections[s]][n], next |-> place[n + 1]]
<1> DEFINE section == Sections[s]
           list    == file.consts[section]
           place   == Places(file, section, Layout(file)[s])
           N       == Len(list)
<1>0. N \in Nat
  <2>1. list \in Seq(Range(list))
    BY SectionFacts
  <2> HIDE DEF list
  <2> QED
    BY <2>1
<1>1. /\ section = "sets" => list[n] \subseteq 0..IntBit*Words-1 /\ HasBitSet(file, place[n], list[n])
      /\ section # "sets" => list[n] \in Seq(0..255) /\ HasName(file, place[n], list[n])
  BY SectionFacts
<1>2. PlacesIn(file, s, Layout(file)[s]) /\ Past(file, section, Layout(file)[s]) <= Len(file.head)
  <2>1. PlacesIn(file, s, Layout(file)[s]) /\ Layout(file)[s + 1] = Past(file, Sections[s], Layout(file)[s])
        /\ Layout(file)[s + 1] <= Len(file.head)
    BY LayoutFacts
  <2> QED
    BY <2>1
<1>3. /\ place[n + 1] = place[n] + SizeIn(section, list[n])
      /\ place[n] \in Nat /\ place[n + 1] \in Nat /\ place[n + 1] <= Past(file, section, Layout(file)[s])
      /\ Past(file, section, Layout(file)[s]) \in Nat
  <2>1. n \in 1..N + 1 /\ n + 1 \in 1..N + 1
    BY <1>0
  <2> QED
    BY <1>2, <2>1 DEF PlacesIn
<1> HIDE DEF place, section
<1>4. place[n + 1] <= Len(file.head)
  BY <1>2, <1>3, ReadFacts
<1> DEFINE at == place[n]  c == list[n]
<1>5. CASE section = "sets"
  <2>1. place[n + 1] = at + 4 * Words
    BY <1>3, <1>5 DEF SizeIn
  <2>2. BitSet(at) = [value |-> c, next |-> at + 4 * Words]
    <3>1. c \in SUBSET (0..IntBit*Words-1) /\ HasBitSet(file, at, c)
      BY <1>1, <1>5
    <3> HIDE DEF c, at, list
    <3> QED
      BY <1>3, <1>4, <2>1, <3>1, ReadSet DEF at
  <2> QED
    BY <1>5, <2>1, <2>2 DEF Entry, section, place
<1>6. CASE section # "sets"
  <2>1. place[n + 1] = at + (Len(c) + 3)
    BY <1>3, <1>6 DEF SizeIn
  <2>2. Name(at) = [value |-> c, next |-> at + (Len(c) + 3)]
    <3>1. c \in Seq(0..255) /\ HasName(file, at, c) /\ at \in Nat
      BY <1>1, <1>3, <1>6
    <3> HIDE DEF c, at, list
    <3>2. at + Len(c) + 3 <= Len(file.head)
      <4>1. Len(c) \in Nat
        BY <3>1
      <4> QED
        BY <1>4, <2>1, <3>1, <4>1
    <3> QED
      BY <3>1, <3>2, ReadName
  <2> QED
    BY <1>6, <2>1, <2>2 DEF Entry, section, place
<1> QED
  BY <1>5, <1>6


\* A section is the list it was written from, and ends where the next begins.
LEMMA ReadEntries ==
    ASSUME file \in Files, NEW s \in 1..5
    PROVE  Entries(Sections[s], Layout(file)[s])
           = [values |-> file.consts[Sections[s]], next |-> Layout(file)[s + 1]]
<1> DEFINE section == Sections[s]
           list    == file.consts[section]
           begin   == Layout(file)[s]
           place   == Places(file, section, begin)
           N       == Len(list)
           Step(r) == LET entry == Entry(section, r.next)
                      IN  [values |-> Append(r.values, entry.value), next |-> entry.next]
           Is(g)   == g = [n \in 0..N |-> IF n = 0 THEN [values |-> <<>>, next |-> begin + 2] ELSE Step(g[n - 1])]
           all     == [n \in 0..N |-> [values |-> Firsts(list, n), next |-> place[n + 1]]]
<1>0. list \in Seq(Range(list)) /\ HasNumber(file, begin, N)
  BY SectionFacts
<1>1. N \in Nat
  <2> HIDE DEF list
  <2> QED
    BY <1>0
<1>2. /\ begin \in Nat /\ begin + 2 <= Len(file.head) /\ place[1] = begin + 2
      /\ place[N + 1] = Layout(file)[s + 1]
  <2>1. /\ begin \in Nat /\ PlacesIn(file, s, begin) /\ Layout(file)[s + 1] = Past(file, section, begin)
        /\ Layout(file)[s + 1] <= Len(file.head)
    BY LayoutFacts
  <2> HIDE DEF begin
  <2>2. /\ place[1] = begin + 2 /\ Past(file, section, begin) = place[N + 1]
        /\ Past(file, section, begin) \in Nat /\ begin + 2 <= Past(file, section, begin)
    BY <2>1 DEF PlacesIn
  <2> QED
    BY <2>1, <2>2, ReadFacts
<1>3. read16(begin) = N
  BY <1>0, <1>2, ReadFacts
<1>4. \A n \in 1..N : Entry(section, place[n]) = [value |-> list[n], next |-> place[n + 1]]
  BY ReadEntry
<1>5. Firsts(list, 0) = <<>> /\ Firsts(list, N) = list
      /\ \A n \in Nat : n < N => Append(Firsts(list, n), list[n + 1]) = Firsts(list, n + 1)
  BY <1>0, FirstsFacts
<1>6. Entries(section, begin) = (CHOOSE g : Is(g))[N]
  <2> HIDE DEF begin, N
  <2> QED
    BY <1>3, Zenon DEF Entries
<1> HIDE DEF place, begin, section, list, N
<1>7. \A n \in 1..N : Step(all[n - 1]) = all[n]
  <2> TAKE n \in 1..N
  <2>1. n - 1 \in 0..N /\ n \in 0..N /\ (n - 1) + 1 = n /\ n - 1 < N /\ n - 1 \in Nat
    BY <1>1
  <2>2. all[n - 1] = [values |-> Firsts(list, n - 1), next |-> place[n]]
    BY <2>1
  <2>3. all[n] = [values |-> Firsts(list, n), next |-> place[n + 1]]
    BY <2>1
  <2>4. Append(Firsts(list, n - 1), list[n]) = Firsts(list, n)
    BY <1>5, <2>1
  <2> DEFINE r == all[n - 1]  e == Entry(section, r.next)
  <2>5. r.next = place[n] /\ r.values = Firsts(list, n - 1)
    BY <2>2
  <2>6. e = [value |-> list[n], next |-> place[n + 1]]
    BY <1>4, <2>5
  <2>7. Step(r) = [values |-> Append(r.values, e.value), next |-> e.next]
    OBVIOUS
  <2> HIDE DEF all, r, e, Step
  <2>8. Step(r) = [values |-> Firsts(list, n), next |-> place[n + 1]]
    BY <2>4, <2>5, <2>6, <2>7
  <2> QED
    BY <2>3, <2>8 DEF r
<1>8. all[0] = [values |-> <<>>, next |-> begin + 2]
  BY <1>1, <1>2, <1>5
<1>9. all = [n \in 0..N |-> all[n]]
  OBVIOUS
<1> HIDE DEF all, Step
<1>10. Is(all)
  <2>1. \A n \in 0..N : n # 0 => n \in 1..N
    BY <1>1
  <2>2. [n \in 0..N |-> all[n]]
        = [n \in 0..N |-> IF n = 0 THEN [values |-> <<>>, next |-> begin + 2] ELSE Step(all[n - 1])]
    BY <1>7, <1>8, <2>1
  <2> QED
    BY <1>9, <2>2, Zenon
<1> DEFINE h == CHOOSE g : Is(g)
<1>11. Is(h)
  <2> HIDE DEF Is
  <2> QED
    BY <1>10
<1> HIDE DEF h
<1> DEFINE Same == {k \in Nat : k <= N => h[k] = all[k]}
<1>12. Same = Nat
  <2>1. 0 \in Same
    BY <1>1, <1>8, <1>11
  <2>2. ASSUME NEW k \in Same PROVE k + 1 \in Same
    <3>1. CASE k + 1 <= N
      <4>1. k + 1 \in 0..N /\ k + 1 # 0 /\ (k + 1) - 1 = k /\ k <= N /\ k + 1 \in 1..N
        BY <1>1, <3>1
      <4>2. h[k + 1] = Step(h[k])
        BY <1>11, <4>1
      <4>3. all[k + 1] = Step(all[k])
        BY <1>7, <4>1
      <4>4. h[k] = all[k]
        BY <4>1
      <4> HIDE DEF Is
      <4> QED
        BY <4>2, <4>3, <4>4
    <3>2. CASE ~(k + 1 <= N)
      BY <3>2
    <3> QED
      BY <3>1, <3>2
  <2>3. Same \in SUBSET Nat
    OBVIOUS
  <2> HIDE DEF Same
  <2> QED
    BY <2>1, <2>2, <2>3, InductionInSet
<1>13. h[N] = all[N]
  <2>1. N \in Same
    BY <1>1, <1>12
  <2> HIDE DEF Is
  <2> QED
    BY <1>1, <2>1
<1>14. all[N] = [values |-> list, next |-> Layout(file)[s + 1]]
  BY <1>1, <1>2, <1>5 DEF all
<1> HIDE DEF Is
<1>15. Entries(section, begin) = h[N]
  BY <1>6 DEF h
<1> QED
  BY <1>13, <1>14, <1>15 DEF section, list, begin


Late == {"load", "link", "done", "disposing", "disposed"}

ConstantsInv ==
    /\ file \in Files
    /\ consts = [section \in SectionNames |-> consts[section]]
    /\ phase \in {"header", "exit"} \cup SectionNames \cup Late
    /\ phase \in {"header", "exit"} => \A section \in SectionNames : consts[section] = <<>>
    /\ \A s \in 1..5 : phase = Sections[s] =>
          /\ pos = Layout(file)[s]
          /\ \A t \in 1..5 : consts[Sections[t]] = IF t < s THEN file.consts[Sections[t]] ELSE <<>>
    /\ phase \in Late => consts = file.consts /\ pos = Len(file.head)

LEMMA SectionsDiffer ==
    /\ \A s, t \in 1..5 : Sections[s] = Sections[t] => s = t
    /\ \A s \in 1..5 : Sections[s] \in SectionNames
    /\ \A section \in SectionNames : \E s \in 1..5 : section = Sections[s]
    /\ \A s \in 1..4 : s + 1 \in 1..5
    /\ SectionNames \cap (Late \cup {"header", "exit"}) = {}
<1>1. 1..5 = {1, 2, 3, 4, 5} /\ 1..4 = {1, 2, 3, 4}
  OBVIOUS
<1> QED
  BY <1>1, SectionsAre DEF SectionNames, Late

LEMMA HeaderReads == ConstantsInv /\ ReadHeader => ConstantsInv'
<1> SUFFICES ASSUME ConstantsInv, ReadHeader PROVE ConstantsInv'
  OBVIOUS
<1>1. /\ phase = "header" /\ UNCHANGED <<file, consts>>
      /\ \/ phase' = "prods" /\ pos' = 10
         \/ phase' = "exit"
  BY DEF ReadHeader
<1>2. /\ file \in Files /\ consts = [section \in SectionNames |-> consts[section]]
      /\ \A section \in SectionNames : consts[section] = <<>>
  BY <1>1 DEF ConstantsInv
<1>3. CASE phase' = "exit"
  <2>1. phase' \notin SectionNames /\ phase' \notin Late
    BY <1>3 DEF SectionNames, Late
  <2>2. \A s \in 1..5 : phase' # Sections[s]
    BY <2>1, SectionsDiffer
  <2> QED
    BY <1>1, <1>2, <1>3, <2>1, <2>2 DEF ConstantsInv
<1>4. CASE phase' = "prods" /\ pos' = 10
  <2>1. phase' \in SectionNames /\ phase' \notin Late /\ phase' \notin {"header", "exit"}
    BY <1>4 DEF SectionNames, Late
  <2>2. \A s \in 1..5 : phase' = Sections[s] => s = 1
    BY <1>4, SectionsAre, SectionsDiffer
  <2>3. Layout(file)[1] = 10
    BY <1>2, LayoutFacts
  <2>4. \A s \in 1..5 : phase' = Sections[s] =>
          /\ pos' = Layout(file)[s]
          /\ \A t \in 1..5 : consts[Sections[t]] = IF t < s THEN file.consts[Sections[t]] ELSE <<>>
    BY <1>2, <1>4, <2>2, <2>3, SectionsDiffer
  <2> QED
    BY <1>1, <1>2, <2>1, <2>4 DEF ConstantsInv
<1> QED
  BY <1>1, <1>3, <1>4

LEMMA SectionReads == ConstantsInv /\ ReadSection => ConstantsInv'
<1> SUFFICES ASSUME ConstantsInv, ReadSection PROVE ConstantsInv'
  OBVIOUS
<1>1. PICK s \in 1..5 :
          /\ phase = Sections[s] /\ file' = file /\ phase' = Sections[s + 1]
          /\ consts' = [consts EXCEPT ![phase] = Entries(Sections[s], pos).values]
          /\ pos' = Entries(Sections[s], pos).next
  BY DEF ReadSection
<1>2. /\ file \in Files /\ consts = [section \in SectionNames |-> consts[section]]
      /\ pos = Layout(file)[s]
      /\ \A t \in 1..5 : consts[Sections[t]] = IF t < s THEN file.consts[Sections[t]] ELSE <<>>
  BY <1>1 DEF ConstantsInv
<1>3. consts' = [consts EXCEPT ![Sections[s]] = file.consts[Sections[s]]] /\ pos' = Layout(file)[s + 1]
  <2>1. Entries(Sections[s], Layout(file)[s])
        = [values |-> file.consts[Sections[s]], next |-> Layout(file)[s + 1]]
    BY <1>2, ReadEntries
  <2>2. Entries(Sections[s], pos) = Entries(Sections[s], Layout(file)[s])
    BY <1>2
  <2> DEFINE r == Entries(Sections[s], pos)
  <2>3. r.values = file.consts[Sections[s]] /\ r.next = Layout(file)[s + 1]
    BY <2>1, <2>2
  <2>4. consts' = [consts EXCEPT ![Sections[s]] = r.values] /\ pos' = r.next
    BY <1>1
  <2> HIDE DEF r
  <2> QED
    BY <2>3, <2>4
<1>4. /\ consts' = [section \in SectionNames |-> consts'[section]]
      /\ \A t \in 1..5 : consts'[Sections[t]] = IF t < s + 1 THEN file.consts[Sections[t]] ELSE <<>>
  <2>1. \A section \in SectionNames :
            consts'[section] = IF section = Sections[s] THEN file.consts[section] ELSE consts[section]
    BY <1>2, <1>3, Zenon
  <2>2. consts' = [section \in SectionNames |-> consts'[section]]
    BY <1>2, <1>3
  <2>3. \A t \in 1..5 : consts'[Sections[t]] = IF t = s THEN file.consts[Sections[t]] ELSE consts[Sections[t]]
    BY <2>1, SectionsDiffer
  <2>4. \A t \in 1..5 : (t < s + 1) <=> (t < s \/ t = s)
    OBVIOUS
  <2> QED
    BY <1>2, <2>2, <2>3, <2>4
<1>5. CASE s = 5
  <2>1. phase' = "load" /\ phase' \in Late /\ phase' \notin SectionNames /\ phase' \notin {"header", "exit"}
    BY <1>1, <1>5, SectionsAre DEF Late, SectionNames
  <2>2. pos' = Len(file.head)
    BY <1>2, <1>3, <1>5, LayoutFacts
  <2>3. \A section \in SectionNames : consts'[section] = file.consts[section]
    <3>1. \A t \in 1..5 : consts'[Sections[t]] = file.consts[Sections[t]]
      BY <1>4, <1>5
    <3> QED
      BY <3>1, SectionsDiffer
  <2>4. file.consts = [section \in SectionNames |-> file.consts[section]]
    BY <1>2, HeadAssumption, SectionsAre
  <2>5. consts' = file.consts
    BY <1>4, <2>3, <2>4
  <2>6. \A t \in 1..5 : phase' # Sections[t]
    BY <2>1, SectionsDiffer
  <2> QED
    BY <1>1, <1>2, <1>4, <2>1, <2>2, <2>5, <2>6 DEF ConstantsInv
<1>6. CASE s # 5
  <2>1. s + 1 \in 1..5
    BY <1>6
  <2>2. phase' \in SectionNames /\ phase' \notin Late /\ phase' \notin {"header", "exit"}
    BY <1>1, <2>1, SectionsDiffer
  <2>3. \A t \in 1..5 : phase' = Sections[t] => t = s + 1
    BY <1>1, <2>1, SectionsDiffer
  <2> QED
    BY <1>1, <1>2, <1>3, <1>4, <2>2, <2>3 DEF ConstantsInv
<1> QED
  BY <1>5, <1>6

LEMMA ConstantsInvNext == ConstantsInv /\ [Next]_vars => ConstantsInv'
<1> SUFFICES ASSUME ConstantsInv, [Next]_vars PROVE ConstantsInv'
  OBVIOUS
<1>1. CASE Header
  BY <1>1, HeaderReads DEF Header
<1>2. CASE Section
  BY <1>2, SectionReads DEF Section
<1>3. CASE /\ UNCHANGED <<file, pos, consts>> /\ phase \in Late /\ phase' \in Late
  <2>1. phase' \notin SectionNames /\ phase' \notin {"header", "exit"}
    BY <1>3 DEF Late, SectionNames
  <2>2. \A s \in 1..5 : phase' # Sections[s]
    BY <2>1, SectionsDiffer
  <2> QED
    BY <1>3, <2>1, <2>2 DEF ConstantsInv
<1>4. CASE LoadInst \/ StartLink \/ Link \/ Freeze \/ DisposeRuntime \/ DisposeLoader
  BY <1>3, <1>4 DEF LoadInst, StartLink, Link, Freeze, DisposeRuntime, DisposeLoader, Late
<1>5. CASE UNCHANGED vars
  BY <1>5 DEF ConstantsInv, vars
<1> QED
  BY <1>1, <1>2, <1>4, <1>5 DEF Next

(***************************************************************************)
(* The constants that an index of the loaded code names are those that the *)
(* file was written from, whatever their number and their bytes are, and   *)
(* the instructions begin where the last section ends (mozvm_loader_load_  *)
(* syntax2 and the functions that it calls on the sections).               *)
(***************************************************************************)
THEOREM ConstantsAreExact == Spec => []ConstantsExact
<1>1. Init => ConstantsInv
  <2> SUFFICES ASSUME Init PROVE ConstantsInv
    OBVIOUS
  <2>1. /\ file \in Files /\ phase = "header"
        /\ consts = [section \in SectionNames |-> <<>>]
    BY DEF Init, FileInit, SectionNames
  <2>2. \A s \in 1..5 : phase # Sections[s]
    BY <2>1, SectionsDiffer
  <2> QED
    BY <2>1, <2>2 DEF ConstantsInv, Late
<1>2. ConstantsInv => ConstantsExact
  <2> SUFFICES ASSUME ConstantsInv PROVE ConstantsExact
    OBVIOUS
  <2>1. \A section \in SectionNames : consts[section] \in {<<>>, file.consts[section]}
    <3>1. CASE phase \in {"header", "exit"} \/ phase \in Late
      BY <3>1 DEF ConstantsInv
    <3>2. CASE phase \in SectionNames
      <4>1. PICK s \in 1..5 : phase = Sections[s]
        BY <3>2, SectionsDiffer
      <4>2. \A t \in 1..5 : consts[Sections[t]] \in {<<>>, file.consts[Sections[t]]}
        BY <4>1 DEF ConstantsInv
      <4> QED
        BY <4>2, SectionsDiffer
    <3> QED
      BY <3>1, <3>2 DEF ConstantsInv
  <2>2. DOMAIN consts = SectionNames
    BY DEF ConstantsInv
  <2> QED
    BY <2>1, <2>2 DEF ConstantsExact, ConstantsInv, Late
<1> QED
  BY <1>1, <1>2, ConstantsInvNext, PTL DEF Spec

-----------------------------------------------------------------------------
(***************************************************************************)
(* Machines that go on from the states in Go and stay in the others.       *)
(***************************************************************************)
Machine(D, Go, s) ==
    s \in [D -> D] /\ Go \subseteq D /\ \A d \in D \ Go : s[d] = d

Closed(C, D, s) == C \subseteq D /\ \A d \in C : s[d] \in C

\* M steps of a machine from d.
IsChain(c, s, d, M) == c = [n \in 0..M |-> IF n = 0 THEN d ELSE s[c[n - 1]]]

\* A machine has a chain of any length.
LEMMA ChainExists ==
    ASSUME NEW s, NEW d, NEW M \in Nat
    PROVE  \E c : IsChain(c, s, d, M)
<1> DEFINE Good == {k \in Nat : \E c : IsChain(c, s, d, k)}
<1>1. 0 \in Good
  <2> DEFINE c == [n \in 0..0 |-> d]
  <2>1. c = [n \in 0..0 |-> IF n = 0 THEN d ELSE s[c[n - 1]]]
    OBVIOUS
  <2> HIDE DEF c
  <2>2. IsChain(c, s, d, 0)
    BY <2>1 DEF IsChain
  <2> QED
    BY <2>2
<1>2. ASSUME NEW k \in Good PROVE k + 1 \in Good
  <2>1. k \in Nat /\ \E c : IsChain(c, s, d, k)
    OBVIOUS
  <2>2. PICK c : IsChain(c, s, d, k)
    BY <2>1
  <2>3. \A n \in 0..k : c[n] = IF n = 0 THEN d ELSE s[c[n - 1]]
    BY <2>1, <2>2 DEF IsChain
  <2> DEFINE g == [n \in 0..k + 1 |-> IF n = k + 1 THEN s[c[k]] ELSE c[n]]
  <2>4. /\ \A n \in 0..k : g[n] = c[n]
        /\ g[k + 1] = s[c[k]] /\ g = [n \in 0..k + 1 |-> g[n]]
    BY <2>1
  <2> HIDE DEF g
  <2>5. ASSUME NEW n \in 0..k + 1 PROVE g[n] = IF n = 0 THEN d ELSE s[g[n - 1]]
    <3>1. CASE n = k + 1
      <4>1. n # 0 /\ n - 1 = k /\ k \in 0..k
        BY <2>1, <3>1
      <4> QED
        BY <4>1, <3>1, <2>4
    <3>2. CASE n # k + 1
      <4>1. n \in 0..k /\ (n # 0 => n - 1 \in 0..k)
        BY <2>1, <3>2
      <4> QED
        BY <4>1, <2>3, <2>4
    <3> QED
      BY <3>1, <3>2
  <2>6. IsChain(g, s, d, k + 1)
    BY <2>4, <2>5 DEF IsChain
  <2> QED
    BY <2>1, <2>6
<1>3. Good = Nat
  <2> HIDE DEF Good
  <2>1. Good \in SUBSET Nat
    BY DEF Good
  <2> QED
    BY <1>1, <1>2, <2>1, InductionInSet
<1> QED
  BY <1>3

\* A chain stays where the machine cannot leave.
LEMMA ChainWithin ==
    ASSUME NEW D, NEW s, NEW C, Closed(C, D, s), NEW d \in C,
           NEW M \in Nat, NEW c, IsChain(c, s, d, M)
    PROVE  /\ \A n \in 0..M : c[n] \in C
           /\ c[0] = d /\ \A n \in 0..M : n < M => c[n + 1] = s[c[n]]
<1>1. \A n \in 0..M : c[n] = IF n = 0 THEN d ELSE s[c[n - 1]]
  BY DEF IsChain
<1>2. c[0] = d
  BY <1>1
<1>3. ASSUME NEW n \in 0..M, n < M PROVE c[n + 1] = s[c[n]]
  <2>1. n + 1 \in 0..M /\ n + 1 # 0 /\ (n + 1) - 1 = n
    BY <1>3
  <2> QED
    BY <1>1, <2>1
<1> DEFINE Good == {n \in Nat : n <= M => c[n] \in C}
<1>4. 0 \in Good
  BY <1>2
<1>5. ASSUME NEW n \in Good PROVE n + 1 \in Good
  <2>1. n \in Nat /\ (n <= M => c[n] \in C)
    OBVIOUS
  <2>2. n + 1 <= M => n \in 0..M /\ n < M
    BY <2>1
  <2>3. n + 1 <= M => c[n + 1] \in C
    BY <1>3, <2>1, <2>2 DEF Closed
  <2> QED
    BY <2>1, <2>3
<1>6. Good = Nat
  <2> HIDE DEF Good
  <2>1. Good \in SUBSET Nat
    BY DEF Good
  <2> QED
    BY <1>4, <1>5, <2>1, InductionInSet
<1>7. \A n \in 0..M : c[n] \in C
  <2> TAKE n \in 0..M
  <2>1. n \in Good /\ n <= M
    BY <1>6
  <2> QED
    BY <2>1
<1> QED
  BY <1>2, <1>3, <1>7

\* A chain rests where the machine stays.
LEMMA ChainRests ==
    ASSUME NEW D, NEW Go, NEW s, Machine(D, Go, s), NEW d \in D,
           NEW M \in Nat, NEW c, IsChain(c, s, d, M),
           NEW n \in 0..M, c[n] \notin Go
    PROVE  c[M] = c[n]
<1>1. Closed(D, D, s)
  BY DEF Machine, Closed
<1>2. c[n] \in D /\ \A k \in 0..M : k < M => c[k + 1] = s[c[k]]
  BY <1>1, ChainWithin
<1>3. s[c[n]] = c[n]
  BY <1>2 DEF Machine
<1> DEFINE Good == {k \in Nat : n + k <= M => c[n + k] = c[n]}
<1>4. 0 \in Good
  OBVIOUS
<1>5. ASSUME NEW k \in Good PROVE k + 1 \in Good
  <2>1. k \in Nat /\ (n + k <= M => c[n + k] = c[n])
    OBVIOUS
  <2>2. n + (k + 1) <= M => n + k \in 0..M /\ n + k < M /\ n + (k + 1) = (n + k) + 1
    BY <2>1
  <2>3. n + (k + 1) <= M => c[n + (k + 1)] = s[c[n + k]]
    BY <1>2, <2>2
  <2> QED
    BY <1>3, <2>1, <2>2, <2>3
<1>6. Good = Nat
  <2> HIDE DEF Good
  <2>1. Good \in SUBSET Nat
    BY DEF Good
  <2> QED
    BY <1>4, <1>5, <2>1, InductionInSet
<1>7. M - n \in Good
  <2> HIDE DEF Good
  <2>1. M - n \in Nat
    OBVIOUS
  <2> QED
    BY <1>6, <2>1
<1>8. n + (M - n) <= M => c[n + (M - n)] = c[n]
  BY <1>7
<1>9. n + (M - n) = M
  OBVIOUS
<1> QED
  BY <1>8, <1>9

\* A machine that is still going after as many steps as it has states goes on
\* for ever.
LEMMA ChainLands ==
    ASSUME NEW D, NEW Go, NEW s, Machine(D, Go, s), IsFiniteSet(D), NEW d \in D,
           NEW M \in Nat, Cardinality(D) <= M, NEW c, IsChain(c, s, d, M), c[M] \in Go
    PROVE  \E C : Closed(C, D, s) /\ C \subseteq Go /\ d \in C
<1>1. Closed(D, D, s)
  BY DEF Machine, Closed
<1>2. /\ \A n \in 0..M : c[n] \in D
      /\ c[0] = d /\ \A n \in 0..M : n < M => c[n + 1] = s[c[n]]
  BY <1>1, ChainWithin
<1>3. \A n \in 0..M : c[n] \in Go
  BY ChainRests
<1>4. c \in [0..M -> D]
  BY <1>2 DEF IsChain
<1>5. IsFiniteSet(0..M) /\ Cardinality(0..M) = M + 1
  <2>1. 0 <= M /\ M - 0 + 1 = M + 1
    OBVIOUS
  <2> QED
    BY <2>1, FS_Interval
<1>6. PICK i, k \in 0..M : i # k /\ c[i] = c[k]
  <2>1. Cardinality(D) \in Nat
    BY FS_CardinalityType
  <2>2. Cardinality(D) < Cardinality(0..M)
    BY <1>5, <2>1
  <2> QED
    BY <1>4, <1>5, <2>2, FS_PigeonHole
<1>7. PICK a, b \in 0..M : a < b /\ c[a] = c[b]
  <2>1. i < k \/ k < i
    BY <1>6
  <2> QED
    BY <1>6, <2>1
<1> DEFINE C == {c[n] : n \in 0..b - 1}
<1>8. d \in C
  BY <1>2, <1>7
<1>9. C \subseteq Go /\ C \subseteq D
  BY <1>3, <1>2
<1>10. ASSUME NEW x \in C PROVE s[x] \in C
  <2>1. PICK n \in 0..b - 1 : x = c[n]
    OBVIOUS
  <2>2. n \in 0..M /\ n < M /\ s[x] = c[n + 1]
    BY <1>2, <2>1
  <2>3. CASE n = b - 1
    <3>1. n + 1 = b /\ a \in 0..b - 1
      BY <1>7, <2>3
    <3> QED
      BY <1>7, <2>2, <3>1
  <2>4. CASE n # b - 1
    <3>1. n + 1 \in 0..b - 1
      BY <2>4
    <3> QED
      BY <2>2, <3>1
  <2> QED
    BY <2>3, <2>4
<1> HIDE DEF C
<1> QED
  BY <1>8, <1>9, <1>10 DEF Closed

\* Where a machine lands does not depend on the first step.
LEMMA ChainShifts ==
    ASSUME NEW D, NEW Go, NEW s, Machine(D, Go, s), IsFiniteSet(D), NEW d \in D,
           NEW M \in Nat, Cardinality(D) <= M,
           NEW c, IsChain(c, s, d, M), NEW e, IsChain(e, s, s[d], M)
    PROVE  /\ c[M] \in D /\ e[M] \in D
           /\ c[M] \notin Go \/ e[M] \notin Go => c[M] = e[M]
<1>1. Closed(D, D, s) /\ s[d] \in D
  BY DEF Machine, Closed
<1>2. /\ \A n \in 0..M : c[n] \in D
      /\ c[0] = d /\ \A n \in 0..M : n < M => c[n + 1] = s[c[n]]
  BY <1>1, ChainWithin
<1>3. /\ \A n \in 0..M : e[n] \in D
      /\ e[0] = s[d] /\ \A n \in 0..M : n < M => e[n + 1] = s[e[n]]
  BY <1>1, ChainWithin
<1> DEFINE Good == {n \in Nat : n <= M => e[n] = s[c[n]]}
<1>4. 0 \in Good
  BY <1>2, <1>3
<1>5. ASSUME NEW n \in Good PROVE n + 1 \in Good
  <2>1. n \in Nat /\ (n <= M => e[n] = s[c[n]])
    OBVIOUS
  <2>2. n + 1 <= M => n \in 0..M /\ n < M
    BY <2>1
  <2> QED
    BY <1>2, <1>3, <2>1, <2>2
<1>6. Good = Nat
  <2> HIDE DEF Good
  <2>1. Good \in SUBSET Nat
    BY DEF Good
  <2> QED
    BY <1>4, <1>5, <2>1, InductionInSet
<1>7. e[M] = s[c[M]]
  <2>1. M \in Good /\ M <= M
    BY <1>6
  <2> QED
    BY <2>1
<1>8. c[M] \in D /\ e[M] \in D
  BY <1>2, <1>3
<1>9. CASE c[M] \notin Go
  BY <1>7, <1>8, <1>9 DEF Machine
<1>10. CASE c[M] \in Go /\ e[M] \notin Go
  <2>1. PICK C : Closed(C, D, s) /\ C \subseteq Go /\ d \in C
    BY <1>10, ChainLands
  <2>2. c[M] \in C
    BY <2>1, ChainWithin
  <2>3. e[M] \in C
    BY <1>7, <2>1, <2>2 DEF Closed
  <2> QED
    BY <1>10, <2>1, <2>3
<1> QED
  BY <1>8, <1>9, <1>10

Landing(s, M, d, l) == \E c : IsChain(c, s, d, M) /\ l = c[M]

\* Where a machine lands.
LEMMA LandingFacts ==
    ASSUME NEW D, NEW Go, NEW s, Machine(D, Go, s), IsFiniteSet(D), NEW d \in D,
           NEW M \in Nat, Cardinality(D) <= M, NEW l, Landing(s, M, d, l)
    PROVE  /\ l \in D
           /\ \A C : Closed(C, D, s) /\ d \in C => l \in C
           /\ l \in Go => \E C : Closed(C, D, s) /\ C \subseteq Go /\ d \in C
           /\ d \notin Go => l = d
           /\ \A k : Landing(s, M, s[d], k) /\ (l \notin Go \/ k \notin Go) => l = k
<1>1. PICK c : IsChain(c, s, d, M) /\ l = c[M]
  BY DEF Landing
<1>2. Closed(D, D, s)
  BY DEF Machine, Closed
<1>3. \A C : Closed(C, D, s) /\ d \in C => c[M] \in C
  BY <1>1, ChainWithin
<1>4. c[M] \in Go => \E C : Closed(C, D, s) /\ C \subseteq Go /\ d \in C
  BY <1>1, ChainLands
<1>5. d \notin Go => c[M] = d
  <2>1. c[0] = d /\ 0 \in 0..M
    BY <1>1, <1>2, ChainWithin
  <2> QED
    BY <1>1, <2>1, ChainRests
<1>6. ASSUME NEW k, Landing(s, M, s[d], k), l \notin Go \/ k \notin Go PROVE l = k
  <2>1. PICK e : IsChain(e, s, s[d], M) /\ k = e[M]
    BY <1>6 DEF Landing
  <2> QED
    BY <1>1, <1>6, <2>1, ChainShifts
<1>7. l \in D
  BY <1>1, <1>2, <1>3
<1> QED
  BY <1>1, <1>3, <1>4, <1>5, <1>6, <1>7

-----------------------------------------------------------------------------
(***************************************************************************)
(* Control in the file.                                                    *)
(***************************************************************************)
Insts   == 0..Len(file.insts)-1
Silents == {i \in Insts : Inst(i).op \in Silent}
Going   == [i \in Insts |-> Onward(i)]

\* A Nop or a Label that has no next: no code is written for it.
Bare(i) == Inst(i).op \in Dropped /\ Inst(i).next = None

\* FlowAssumption for the file, and what it makes of the silent instructions.
LEMMA FlowFacts ==
    ASSUME file \in Files
    PROVE  /\ Len(file.insts) \in Nat /\ DOMAIN file.insts = 1..Len(file.insts)
           /\ \A i \in Insts :
                 LET x == Inst(i) IN
                 /\ i + 1 \in DOMAIN file.insts /\ x.op \in FileOpcodes
                 /\ x.next \in Insts \cup {None}
                 /\ Falls(x) /\ x.op # "Jump" /\ x.next = None => i + 1 \in Insts
                 /\ x.op # "Ret" =>
                       \A kind \in {"next", "jump"} : kind \in Range(Operands(x.op)) => x.data[kind] \in Insts
                 /\ x.op = "First" => \A ch \in 0..TableSize : x.data.table[ch] \in Insts \ {0}
                 /\ "memo" \in Range(Operands(x.op)) => x.data.memo \in Nat /\ x.data.memo < 65536
                 /\ Onward(i) \in Insts
                 /\ Bare(i) => Onward(i) = i + 1
                 /\ x.op = "Jump" => x.data.jump \in Insts
<1>1. Len(file.insts) \in Nat /\ DOMAIN file.insts = 1..Len(file.insts)
  BY FilesAssumption
<1>2. ASSUME NEW i \in Insts
      PROVE  LET x == Inst(i) IN
             /\ i + 1 \in DOMAIN file.insts /\ x.op \in FileOpcodes
             /\ x.next \in Insts \cup {None}
             /\ Falls(x) /\ x.op # "Jump" /\ x.next = None => i + 1 \in Insts
             /\ x.op # "Ret" =>
                   \A kind \in {"next", "jump"} : kind \in Range(Operands(x.op)) => x.data[kind] \in Insts
             /\ x.op = "First" => \A ch \in 0..TableSize : x.data.table[ch] \in Insts \ {0}
             /\ "memo" \in Range(Operands(x.op)) => x.data.memo \in Nat /\ x.data.memo < 65536
             /\ Onward(i) \in Insts
             /\ Bare(i) => Onward(i) = i + 1
             /\ x.op = "Jump" => x.data.jump \in Insts
  <2> DEFINE x == Inst(i)
             kinds == Range(Operands(x.op))
  <2>1. i + 1 \in DOMAIN file.insts /\ x = file.insts[i + 1] /\ i \in Nat
    BY <1>1 DEF Insts, Inst
  <2>2. x.op \in FileOpcodes
    BY <2>1, FilesAssumption
  <2> DEFINE targets == 0..Len(file.insts)-1
  <2>3. Flows(file, i + 1)
    BY <2>1, FlowAssumption
  <2>31. x.next \in targets \cup {None}
    BY <2>3 DEF Flows, Inst
  <2>32. Falls(x) /\ x.op # "Jump" /\ x.next = None => i + 1 < Len(file.insts)
    BY <2>3 DEF Flows, Inst
  <2>33. x.op # "Ret" => \A kind \in {"next", "jump"} \cap kinds : x.data[kind] \in targets
    BY <2>3 DEF Flows, Inst
  <2>34. x.op = "First" => \A ch \in 0..TableSize : x.data.table[ch] \in targets \ {0}
    BY <2>3 DEF Flows, Inst
  <2>35. "memo" \in kinds => x.data.memo \in Nat /\ x.data.memo < 65536
    BY <2>3 DEF Flows, Inst
  <2>36. targets = Insts
    BY DEF Insts
  <2> HIDE DEF x, targets, kinds
  <2>37. x.op # "Ret" => \A kind \in {"next", "jump"} : kind \in kinds => x.data[kind] \in Insts
    BY <2>33, <2>36, Zenon
  <2>38. x.op = "First" => \A ch \in 0..TableSize : x.data.table[ch] \in Insts \ {0}
    BY <2>34, <2>36
  <2>39. x.next \in Insts \cup {None}
    BY <2>31, <2>36
  <2>40. \A kind \in {"next", "jump"} : x.op # "Ret" /\ kind \in Range(Operands(x.op)) => x.data[kind] \in Insts
    BY <2>37 DEF kinds
  <2>41. "memo" \in Range(Operands(x.op)) => x.data.memo \in Nat /\ x.data.memo < 65536
    BY <2>35 DEF kinds
  <2>4. Falls(x) /\ x.op # "Jump" /\ x.next = None => i + 1 \in Insts
    <3> SUFFICES ASSUME Falls(x) /\ x.op # "Jump" /\ x.next = None PROVE i + 1 \in Insts
      OBVIOUS
    <3>1. i + 1 < Len(file.insts)
      BY <2>32
    <3> QED
      BY <1>1, <2>1, <3>1 DEF Insts
  <2>5. x.op = "Jump" => x.data.jump \in Insts
    <3> SUFFICES ASSUME x.op = "Jump" PROVE x.data.jump \in Insts
      OBVIOUS
    <3>1. Operands("Jump") = <<"jump">>
      BY DEF Operands, Chars, Strings, BitSets, Shifts, Tags, Symbols, Memos, Jumps
    <3>2. "jump" \in kinds
      BY <3>1 DEF Range, kinds
    <3> QED
      BY <2>37, <3>2
  <2>6. x.op \in Dropped => Falls(x) /\ x.op # "Jump" /\ x.op \in Silent
    BY DEF Falls, Dropped, Silent
  <2>7. x.op \in Silent /\ x.op # "Jump" => x.op \in Dropped
    BY DEF Dropped, Silent
  <2>8. After(i) = IF x.op = "Jump" THEN x.data.jump ELSE IF x.next # None THEN x.next ELSE i + 1
    BY DEF After, x
  <2>9. Onward(i) = IF x.op \in Silent THEN After(i) ELSE i
    BY DEF Onward, x
  <2>10. Onward(i) \in Insts
    BY <2>31, <2>36, <2>4, <2>5, <2>6, <2>7, <2>8, <2>9
  <2>11. Bare(i) => Onward(i) = i + 1
    BY <2>6, <2>8, <2>9 DEF Bare, x
  <2> QED
    BY <2>1, <2>2, <2>38, <2>39, <2>40, <2>41, <2>4, <2>5, <2>10, <2>11 DEF x
<1> QED
  BY <1>1, <1>2

\* Lands is where control lands in the file.
LEMMA LandsFacts ==
    ASSUME file \in Files, NEW i \in Insts
    PROVE  /\ Lands(i) \in Insts
           /\ \A C : Closed(C, Insts, Going) /\ i \in C => Lands(i) \in C
           /\ Lands(i) \in Silents => \E C : Closed(C, Insts, Going) /\ C \subseteq Silents /\ i \in C
           /\ i \notin Silents => Lands(i) = i
           /\ Lands(i) \notin Silents \/ Lands(Onward(i)) \notin Silents => Lands(i) = Lands(Onward(i))
<1> DEFINE N == Len(file.insts)
<1>1. N \in Nat /\ \A k \in Insts : Onward(k) \in Insts
  BY FlowFacts
<1>2. Machine(Insts, Silents, Going)
  <2>1. \A k \in Insts : Inst(k).op \notin Silent => Onward(k) = k
    BY DEF Onward
  <2> QED
    BY <1>1, <2>1 DEF Machine, Silents, Going
<1>3. IsFiniteSet(Insts) /\ Cardinality(Insts) <= N
  <2>1. 0 \in Int /\ N - 1 \in Int /\ (N - 1) - 0 + 1 = N
    BY <1>1
  <2>2. IsFiniteSet(0..N - 1) /\ Cardinality(0..N - 1) = IF 0 > N - 1 THEN 0 ELSE (N - 1) - 0 + 1
    BY <2>1, FS_Interval
  <2> HIDE DEF N
  <2> QED
    BY <1>1, <2>1, <2>2 DEF Insts, N
<1> HIDE DEF N
<1>4. ASSUME NEW k \in Insts PROVE Landing(Going, N, k, Lands(k))
  <2> DEFINE Is(at) == at = [n \in 0..N |-> IF n = 0 THEN k ELSE Onward(at[n - 1])]
             at == CHOOSE at : Is(at)
  <2>1. PICK c : IsChain(c, Going, k, N)
    BY <1>1, ChainExists
  <2>2. Closed(Insts, Insts, Going)
    BY <1>2 DEF Machine, Closed
  <2>3. \A n \in 0..N : c[n] \in Insts
    BY <1>1, <2>1, <2>2, ChainWithin
  <2>4. c = [n \in 0..N |-> IF n = 0 THEN k ELSE Going[c[n - 1]]]
    BY <2>1 DEF IsChain
  <2>5. \A n \in 0..N : n # 0 => n - 1 \in 0..N
    BY <1>1
  <2>6. \A n \in 0..N : n # 0 => Going[c[n - 1]] = Onward(c[n - 1])
    BY <2>3, <2>5 DEF Going
  <2>7. Is(c)
    BY <2>4, <2>6
  <2>8. Is(at)
    <3> HIDE DEF Is
    <3> QED
      BY <2>7
  <2>9. Lands(k) = at[N]
    BY DEF Lands, N
  <2> HIDE DEF at
  <2>10. \A n \in 0..N : at[n] = IF n = 0 THEN k ELSE Onward(at[n - 1])
    BY <2>8
  <2> DEFINE Good == {n \in Nat : n <= N => at[n] \in Insts}
  <2>11. 0 \in Good
    BY <1>1, <2>10
  <2>12. ASSUME NEW n \in Good PROVE n + 1 \in Good
    <3>1. n \in Nat /\ (n <= N => at[n] \in Insts)
      OBVIOUS
    <3>2. n + 1 <= N => n + 1 \in 0..N /\ n <= N /\ (n + 1) - 1 = n /\ n + 1 # 0
      BY <1>1, <3>1
    <3> QED
      BY <1>1, <2>10, <3>1, <3>2
  <2>13. Good = Nat
    <3> HIDE DEF Good
    <3>1. Good \in SUBSET Nat
      BY DEF Good
    <3> QED
      BY <2>11, <2>12, <3>1, InductionInSet
  <2>14. \A n \in 0..N : at[n] \in Insts
    <3> TAKE n \in 0..N
    <3>1. n \in Good /\ n <= N
      BY <1>1, <2>13
    <3> QED
      BY <3>1
  <2>15. \A n \in 0..N : n # 0 => Going[at[n - 1]] = Onward(at[n - 1])
    BY <2>5, <2>14 DEF Going
  <2>16. at = [n \in 0..N |-> IF n = 0 THEN k ELSE Going[at[n - 1]]]
    BY <2>8, <2>15
  <2>17. IsChain(at, Going, k, N)
    BY <2>16 DEF IsChain
  <2> QED
    BY <2>9, <2>17 DEF Landing
<1>5. Going[i] = Onward(i) /\ Onward(i) \in Insts
  BY <1>1 DEF Going
<1>6. Landing(Going, N, i, Lands(i)) /\ Landing(Going, N, Going[i], Lands(Onward(i)))
  BY <1>4, <1>5
<1> QED
  BY <1>1, <1>2, <1>3, <1>6, LandingFacts

-----------------------------------------------------------------------------
(***************************************************************************)
(* What the first pass has written.                                        *)
(***************************************************************************)
Has(code, e) == \E k \in 1..Len(code) : code[k] = e

\* What is written for x, which is not dropped; a First has its table.
IsMain(m, x, pls) ==
    IF x.op = "First"
    THEN \E n \in Nat :
            /\ m = Code(First(x.data.table).op, m.at, <<n>>)
            /\ n < Len(pls[First(x.data.table).op])
            /\ pls[First(x.data.table).op][n + 1] = First(x.data.table).table
    ELSE m = Code(x.op, m.at, [n \in DOMAIN Written(x.op) |-> Value(x, Written(x.op)[n])])

\* The code of x is at a: itself, the jump to its next, and then nxt.
Placed(code, pls, x, a, nxt) ==
    \E mid :
        /\ x.op \in Dropped => mid = a
        /\ x.op \notin Dropped =>
              \E m : Has(code, m) /\ m.at = a /\ IsMain(m, x, pls) /\ mid = a + WrittenWidth[m.op]
        /\ x.next = None => nxt = mid
        /\ x.next # None => Has(code, Code("Jump", mid, <<x.next>>))

NextAt(code, tbl, i) == IF i + 1 < Len(tbl) THEN tbl[i + 2] ELSE End(code)

\* Every instruction with a table has one of its own.
OwnTables(code, pls) ==
    /\ DOMAIN pls = Jumps /\ \A op \in Jumps : IsSeq(pls[op])
    /\ \A k \in 1..Len(code) :
          code[k].op \in Jumps => \E n \in Nat : code[k].data = <<n>> /\ n < Len(pls[code[k].op])
    /\ \A k, l \in 1..Len(code) :
          code[k].op \in Jumps /\ code[k].op = code[l].op /\ code[k].data = code[l].data => k = l

RawInv(code, tbl, pls) ==
    /\ Tiled(code) /\ OwnTables(code, pls)
    /\ \A i \in Nat : i < Len(tbl) => Placed(code, pls, Inst(i), tbl[i + 1], NextAt(code, tbl, i))

\* Appending to code keeps what it has.
LEMMA HasGrows ==
    ASSUME NEW code, IsSeq(code), NEW y
    PROVE  /\ \A e : Has(code, e) => Has(Append(code, y), e)
           /\ Has(Append(code, y), y)
<1>1. /\ Len(Append(code, y)) = Len(code) + 1 /\ Len(code) \in Nat
      /\ \A i \in 1..Len(code) : Append(code, y)[i] = code[i]
      /\ Append(code, y)[Len(code) + 1] = y
  BY AppendFacts, SeqFacts
<1>2. \A i \in 1..Len(code) : i \in 1..Len(Append(code, y))
  BY <1>1
<1>3. Len(code) + 1 \in 1..Len(Append(code, y))
  BY <1>1
<1> QED
  BY <1>1, <1>2, <1>3 DEF Has

\* A First and what it is loaded as have a table.
LEMMA FirstIsJumps == \A all : First(all).op \in Jumps
<1> SUFFICES ASSUME NEW all PROVE First(all).op \in Jumps
  OBVIOUS
<1>1. \A size : TableOf(size) \in {0, 1, 2, 3}
  BY DEF TableOf
<1>2. First(all).op \in {"First", <<"TblJump1", "TblJump2", "TblJump3">>[1],
                         <<"TblJump1", "TblJump2", "TblJump3">>[2],
                         <<"TblJump1", "TblJump2", "TblJump3">>[3]}
  BY <1>1 DEF First
<1> QED
  BY <1>2 DEF Jumps

\* Later code and later tables change nothing of what has been written.
PoolsGrow(pls, new) ==
    \A op \in Jumps, n \in Nat : n < Len(pls[op]) => n < Len(new[op]) /\ new[op][n + 1] = pls[op][n + 1]

\* What is in its place stays there.
LEMMA PlacedGrows ==
    ASSUME NEW code, NEW pls, NEW x, NEW a, NEW nxt, Placed(code, pls, x, a, nxt),
           NEW code2, \A e : Has(code, e) => Has(code2, e),
           NEW pls2, PoolsGrow(pls, pls2)
    PROVE  Placed(code2, pls2, x, a, nxt)
<1>1. \A m : IsMain(m, x, pls) => IsMain(m, x, pls2)
  BY FirstIsJumps DEF IsMain, PoolsGrow
<1> QED
  BY <1>1 DEF Placed

\* An instruction that has no table needs none.
LEMMA TablesKept ==
    ASSUME NEW code, IsSeq(code), NEW pls, OwnTables(code, pls), NEW y, y.op \notin Jumps
    PROVE  OwnTables(Append(code, y), pls)
<1> DEFINE new == Append(code, y)
<1>1. /\ Len(new) = Len(code) + 1 /\ Len(code) \in Nat
      /\ \A i \in 1..Len(code) : new[i] = code[i]
      /\ new[Len(code) + 1] = y
  BY AppendFacts, SeqFacts
<1> HIDE DEF new
<1>2. \A i \in 1..Len(new) : new[i].op \in Jumps => i \in 1..Len(code) /\ new[i] = code[i]
  BY <1>1
<1>3. OwnTables(new, pls)
  BY <1>2 DEF OwnTables
<1> QED
  BY <1>3 DEF new

\* An instruction with a table gets a new one.
LEMMA TablesGrow ==
    ASSUME NEW code, IsSeq(code), NEW pls, OwnTables(code, pls), NEW op \in Jumps, NEW tbl, NEW y,
           y.op = op, y.data = <<Len(pls[op])>>
    PROVE  LET grown == [pls EXCEPT ![op] = Append(@, tbl)] IN
           /\ OwnTables(Append(code, y), grown) /\ PoolsGrow(pls, grown)
           /\ Len(pls[op]) \in Nat /\ Len(pls[op]) < Len(grown[op]) /\ grown[op][Len(pls[op]) + 1] = tbl
<1> DEFINE pool == Append(pls[op], tbl)
           npls == [pls EXCEPT ![op] = pool]
           new  == Append(code, y)
<1>1. /\ Len(new) = Len(code) + 1 /\ Len(code) \in Nat
      /\ \A i \in 1..Len(code) : new[i] = code[i]
      /\ new[Len(code) + 1] = y
  BY AppendFacts, SeqFacts
<1>2. IsSeq(pls[op])
  BY DEF OwnTables
<1>3. /\ IsSeq(pool) /\ Len(pool) = Len(pls[op]) + 1 /\ Len(pls[op]) \in Nat
      /\ \A i \in 1..Len(pls[op]) : pool[i] = pls[op][i]
      /\ pool[Len(pls[op]) + 1] = tbl
  BY <1>2, AppendFacts, SeqFacts
<1>4. /\ DOMAIN npls = Jumps /\ npls[op] = pool
      /\ \A other \in Jumps : other # op => npls[other] = pls[other]
  BY DEF OwnTables
<1>5. [pls EXCEPT ![op] = Append(@, tbl)] = npls
  OBVIOUS
<1> HIDE DEF new, npls, pool
<1>6. PoolsGrow(pls, npls)
  <2> SUFFICES ASSUME NEW other \in Jumps, NEW n \in Nat, n < Len(pls[other])
               PROVE  n < Len(npls[other]) /\ npls[other][n + 1] = pls[other][n + 1]
    BY DEF PoolsGrow
  <2>1. CASE other = op
    <3>1. n + 1 \in 1..Len(pls[op])
      BY <1>3, <2>1
    <3> QED
      BY <1>3, <1>4, <2>1, <3>1
  <2>2. CASE other # op
    BY <1>4, <2>2
  <2> QED
    BY <2>1, <2>2
<1>7. OwnTables(new, npls)
  <2>1. \A other \in Jumps : IsSeq(npls[other])
    BY <1>3, <1>4 DEF OwnTables
  <2>2. ASSUME NEW k \in 1..Len(new), new[k].op \in Jumps
        PROVE  \E n \in Nat : new[k].data = <<n>> /\ n < Len(npls[new[k].op])
    <3>1. CASE k = Len(code) + 1
      BY <1>1, <1>3, <1>4, <3>1
    <3>2. CASE k # Len(code) + 1
      <4>1. k \in 1..Len(code) /\ new[k] = code[k]
        BY <1>1, <3>2
      <4>2. PICK n \in Nat : code[k].data = <<n>> /\ n < Len(pls[code[k].op])
        BY <2>2, <4>1 DEF OwnTables
      <4> QED
        BY <1>6, <2>2, <4>1, <4>2 DEF PoolsGrow
    <3> QED
      BY <3>1, <3>2
  <2>3. ASSUME NEW k \in 1..Len(code), code[k].op = op PROVE code[k].data # y.data
    <3>1. PICK n \in Nat : code[k].data = <<n>> /\ n < Len(pls[code[k].op])
      BY <2>3 DEF OwnTables
    <3>2. code[k].data[1] = n /\ y.data[1] = Len(pls[op])
      BY <3>1
    <3> QED
      BY <1>3, <2>3, <3>1, <3>2
  <2>4. ASSUME NEW k \in 1..Len(new), NEW l \in 1..Len(new),
               new[k].op \in Jumps, new[k].op = new[l].op, new[k].data = new[l].data
        PROVE  k = l
    <3>1. CASE k \in 1..Len(code) /\ l \in 1..Len(code)
      BY <1>1, <2>4, <3>1 DEF OwnTables
    <3>2. CASE k \in 1..Len(code) /\ l = Len(code) + 1
      BY <1>1, <2>3, <2>4, <3>2
    <3>3. CASE k = Len(code) + 1 /\ l \in 1..Len(code)
      BY <1>1, <2>3, <2>4, <3>3
    <3>4. CASE k = Len(code) + 1 /\ l = Len(code) + 1
      BY <3>4
    <3> QED
      BY <1>1, <3>1, <3>2, <3>3, <3>4
  <2> QED
    BY <1>4, <2>1, <2>2, <2>4 DEF OwnTables
<1>8. Len(pls[op]) < Len(npls[op]) /\ npls[op][Len(pls[op]) + 1] = tbl
  BY <1>3, <1>4
<1>9. OwnTables(Append(code, y), npls)
  BY <1>7 DEF new
<1> QED
  BY <1>3, <1>5, <1>6, <1>8, <1>9

\* The code of x itself is appended to code.
MainWritten(code, x, main, new) ==
    /\ Tiled(main) /\ OwnTables(main, new) /\ PoolsGrow(pools, new)
    /\ \A e : Has(code, e) => Has(main, e)
    /\ x.op \in Dropped => main = code
    /\ x.op \notin Dropped =>
          \E m : Has(main, m) /\ m.at = End(code) /\ IsMain(m, x, new) /\ End(main) = End(code) + WrittenWidth[m.op]

\* The switch of mozvm_loader_load_inst.
LEMMA MainIsWritten ==
    ASSUME NEW code, Tiled(code), OwnTables(code, pools), NEW x, x.op \in FileOpcodes
    PROVE  MainWritten(code, x, code \o Main(code, x), Allocate(x))
<1> DEFINE main == code \o Main(code, x)
           new  == Allocate(x)
           first == First(x.data.table)
<1>0. PoolsGrow(pools, pools)
  BY DEF PoolsGrow
<1>s. IsSeq(code)
  BY DEF Tiled
<1>1. CASE x.op \in Dropped
  <2>1. Main(code, x) = <<>> /\ x.op # "First"
    BY <1>1 DEF Main, Dropped
  <2>2. main = code
    BY <2>1, ConcatEmptySeq DEF Tiled, IsSeq
  <2>3. new = pools
    BY <2>1 DEF Allocate
  <2> HIDE DEF main, new
  <2>4. MainWritten(code, x, main, new)
    BY <1>0, <1>1, <2>2, <2>3 DEF MainWritten
  <2> QED
    BY <2>4 DEF main, new
<1>2. CASE x.op = "First"
  <2> DEFINE n == Len(pools[first.op])
             m == Code(first.op, End(code), <<n>>)
  <2>1. x.op \notin Dropped
    BY <1>2 DEF Dropped
  <2>2. Main(code, x) = <<m>>
    BY <1>2, <2>1 DEF Main
  <2>3. main = Append(code, m)
    BY <1>s, <2>2, AppendFacts
  <2>4. new = [pools EXCEPT ![first.op] = Append(@, first.table)]
    BY <1>2 DEF Allocate
  <2>5. first.op \in Jumps /\ first.op \in Opcodes
    BY FirstIsJumps, OpcodesAreOpcodes
  <2> HIDE DEF first
  <2>6. m.op = first.op /\ m.at = End(code) /\ m.data = <<n>>
    BY DEF Code
  <2>7. Tiled(main) /\ End(main) = End(code) + WrittenWidth[first.op]
    BY <2>3, <2>5, AppendTiles
  <2>8. /\ OwnTables(main, new) /\ PoolsGrow(pools, new)
        /\ n \in Nat /\ n < Len(new[first.op]) /\ new[first.op][n + 1] = first.table
    <3> DEFINE op == first.op
               tbl == first.table
               grown == [pools EXCEPT ![op] = Append(@, tbl)]
    <3>1. op \in Jumps /\ m.op = op /\ m.data = <<Len(pools[op])>>
      BY <2>5, <2>6
    <3>2. main = Append(code, m) /\ new = grown
      BY <2>3, <2>4
    <3> HIDE DEF op, tbl, m, main, new
    <3>3. /\ OwnTables(Append(code, m), grown) /\ PoolsGrow(pools, grown)
          /\ Len(pools[op]) \in Nat /\ Len(pools[op]) < Len(grown[op]) /\ grown[op][Len(pools[op]) + 1] = tbl
      BY <1>s, <3>1, TablesGrow
    <3> HIDE DEF grown
    <3>4. n = Len(pools[op])
      BY DEF op
    <3> QED
      BY <3>2, <3>3, <3>4 DEF op, tbl
  <2>9. Has(main, m) /\ \A e : Has(code, e) => Has(main, e)
    BY <1>s, <2>3, HasGrows
  <2>10. m = Code(first.op, m.at, <<n>>)
    BY <2>6
  <2> HIDE DEF main, new, m, n
  <2>11. IsMain(m, x, new)
    BY <1>2, <2>8, <2>10 DEF IsMain, first
  <2>12. MainWritten(code, x, main, new)
    BY <2>1, <2>6, <2>7, <2>8, <2>9, <2>11 DEF MainWritten
  <2> QED
    BY <2>12 DEF main, new
<1>3. CASE x.op \notin Dropped /\ x.op # "First"
  <2> DEFINE data == [n \in DOMAIN Written(x.op) |-> Value(x, Written(x.op)[n])]
             m    == Code(x.op, End(code), data)
  <2>2. Main(code, x) = <<m>>
    BY <1>3 DEF Main
  <2>3. main = Append(code, m)
    BY <1>s, <2>2, AppendFacts
  <2>4. new = pools
    BY <1>3 DEF Allocate
  <2>5. x.op \notin Jumps /\ x.op \in Opcodes
    BY <1>3 DEF FileOpcodes, Jumps
  <2> HIDE DEF data
  <2>6. m.op = x.op /\ m.at = End(code) /\ m = Code(x.op, m.at, data)
    BY DEF Code
  <2>7. Tiled(main) /\ End(main) = End(code) + WrittenWidth[x.op]
    BY <2>3, <2>5, AppendTiles
  <2>8. OwnTables(main, pools)
    BY <1>s, <2>3, <2>5, <2>6, TablesKept
  <2>9. Has(main, m) /\ \A e : Has(code, e) => Has(main, e)
    BY <1>s, <2>3, HasGrows
  <2> HIDE DEF main, new, m
  <2>11. IsMain(m, x, new)
    BY <1>3, <2>6 DEF IsMain, data
  <2>12. MainWritten(code, x, main, new)
    BY <1>0, <1>3, <2>4, <2>6, <2>7, <2>8, <2>9, <2>11 DEF MainWritten
  <2> QED
    BY <2>12 DEF main, new
<1> QED
  BY <1>1, <1>2, <1>3

\* The same with the jump to the next instruction.
LEMMA CodeIsWritten ==
    ASSUME NEW code, Tiled(code), OwnTables(code, pools), NEW x, x.op \in FileOpcodes
    PROVE  LET all == mozvm_loader_load_inst(code, x)
               new == Allocate(x)
           IN  /\ OwnTables(all, new) /\ PoolsGrow(pools, new)
               /\ \A e : Has(code, e) => Has(all, e)
               /\ Placed(all, new, x, End(code), End(all))
<1> DEFINE main == code \o Main(code, x)
           all  == mozvm_loader_load_inst(code, x)
           new  == Allocate(x)
           mid  == End(main)
           y    == Code("Jump", mid, <<x.next>>)
<1>1. MainWritten(code, x, main, new)
  BY MainIsWritten
<1>2. all = IF x.next = None THEN main ELSE Append(main, y)
  BY DEF mozvm_loader_load_inst
<1> HIDE DEF main, new, all
<1>3. Tiled(main) /\ OwnTables(main, new) /\ PoolsGrow(pools, new) /\ IsSeq(main)
  BY <1>1 DEF MainWritten, Tiled
<1>4. y.op \notin Jumps
  BY DEF Code, Jumps
<1> HIDE DEF y
<1>5. \A e : Has(main, e) => Has(all, e)
  BY <1>2, <1>3, HasGrows
<1>6. OwnTables(all, new)
  BY <1>2, <1>3, <1>4, TablesKept
<1>7. \A e : Has(code, e) => Has(all, e)
  BY <1>1, <1>5 DEF MainWritten
<1>8. x.next # None => Has(all, Code("Jump", mid, <<x.next>>))
  <2>1. x.next # None => Has(all, y)
    BY <1>2, <1>3, HasGrows
  <2> QED
    BY <2>1 DEF y
<1>9. x.next = None => End(all) = mid
  BY <1>2
<1> HIDE DEF mid
<1>10. x.op \in Dropped => mid = End(code)
  BY <1>1 DEF MainWritten, mid
<1>11. x.op \notin Dropped =>
           \E m : Has(all, m) /\ m.at = End(code) /\ IsMain(m, x, new) /\ mid = End(code) + WrittenWidth[m.op]
  BY <1>1, <1>5 DEF MainWritten, mid
<1>12. Placed(all, new, x, End(code), End(all))
  BY <1>8, <1>9, <1>10, <1>11 DEF Placed
<1> QED
  BY <1>3, <1>6, <1>7, <1>12 DEF all, new

\* A step of the first pass writes one more instruction in its place.
LEMMA LoadKeepsRaw ==
    ASSUME RawInv(buf, table, pools), FileInv, LoadInst
    PROVE  RawInv(buf', table', pools')
<1> DEFINE x == file.insts[Len(table) + 1]
<1>1. /\ file' = file /\ table' = Append(table, End(buf))
      /\ buf' = mozvm_loader_load_inst(buf, x) /\ pools' = Allocate(x) /\ Len(table) < Len(file.insts)
  BY DEF LoadInst
<1>2. Tiled(buf) /\ OwnTables(buf, pools) /\ LoadInv
  BY DEF RawInv, LoadInv
<1>3. x.op \in FileOpcodes
  BY <1>1, <1>2, NextInst
<1>4. /\ IsSeq(table') /\ Len(table') = Len(table) + 1 /\ Len(table) \in Nat
      /\ \A i \in 1..Len(table) : table'[i] = table[i]
      /\ table'[Len(table) + 1] = End(buf)
  BY <1>1, AppendFacts, SeqFacts DEF FileInv
<1>5. x = Inst(Len(table)) /\ \A i : Inst(i)' = Inst(i)
  BY <1>1 DEF Inst
<1> HIDE DEF x
<1>6. Tiled(buf')
  BY <1>1, <1>2, <1>3, LoadTiles
<1>7. /\ OwnTables(buf', pools') /\ PoolsGrow(pools, pools')
      /\ \A e : Has(buf, e) => Has(buf', e)
      /\ Placed(buf', pools', x, End(buf), End(buf'))
  BY <1>1, <1>2, <1>3, CodeIsWritten
<1>8. ASSUME NEW i \in Nat, i < Len(table')
      PROVE  Placed(buf', pools', Inst(i), table'[i + 1], NextAt(buf', table', i))
  <2>1. CASE i = Len(table)
    <3>1. table'[i + 1] = End(buf) /\ NextAt(buf', table', i) = End(buf')
      BY <1>4, <2>1 DEF NextAt
    <3> QED
      BY <1>5, <1>7, <2>1, <3>1
  <2>2. CASE i # Len(table)
    <3>1. i < Len(table)
      BY <1>4, <1>8, <2>2
    <3>2. Placed(buf, pools, Inst(i), table[i + 1], NextAt(buf, table, i))
      BY <3>1 DEF RawInv
    <3>3. Placed(buf', pools', Inst(i), table[i + 1], NextAt(buf, table, i))
      BY <1>7, <3>2, PlacedGrows
    <3>4. table'[i + 1] = table[i + 1]
      <4>1. i + 1 \in 1..Len(table)
        BY <1>4, <3>1
      <4> QED
        BY <1>4, <4>1
    <3>5. NextAt(buf', table', i) = NextAt(buf, table, i)
      <4>1. CASE i + 1 < Len(table)
        <5>1. i + 2 \in 1..Len(table) /\ i + 1 < Len(table')
          BY <1>4, <4>1
        <5> QED
          BY <1>4, <4>1, <5>1 DEF NextAt
      <4>2. CASE ~ (i + 1 < Len(table))
        <5>1. i + 2 = Len(table) + 1 /\ i + 1 < Len(table')
          BY <1>4, <3>1, <4>2
        <5> QED
          BY <1>4, <4>2, <5>1 DEF NextAt
      <4> QED
        BY <4>1, <4>2
    <3> QED
      BY <3>3, <3>4, <3>5
  <2> QED
    BY <2>1, <2>2
<1> QED
  BY <1>5, <1>6, <1>7, <1>8 DEF RawInv

-----------------------------------------------------------------------------
(***************************************************************************)
(* Where control goes, from instruction to instruction and from code to    *)
(* code, in the end of the first pass.                                     *)
(***************************************************************************)
\* The operand of a Jump.
LEMMA SingleData ==
    ASSUME NEW x, x.op = "Jump"
    PROVE  [n \in DOMAIN Written(x.op) |-> Value(x, Written(x.op)[n])] = <<x.data.jump>>
<1>1. Written(x.op) = <<"jump">>
  BY DEF Written, Chars, Strings, BitSets, Shifts, Tags, Symbols, Memos, Jumps
<1>2. Value(x, "jump") = x.data.jump
  BY DEF Value
<1> DEFINE w == Written(x.op)
<1>3. DOMAIN w = 1..1 /\ w[1] = "jump"
  BY <1>1
<1> HIDE DEF w
<1>4. [n \in 1..1 |-> Value(x, w[n])] = <<Value(x, w[1])>>
  OBVIOUS
<1> QED
  BY <1>2, <1>3, <1>4 DEF w

\* From u, code begins with that of k, which is not bare.
Leads(u, k) ==
    /\ k \in Insts /\ ~ Bare(k) /\ table[k + 1] = table[u + 1]
    /\ \A C : Closed(C, Insts, Going) /\ u \in C => k \in C
    /\ Lands(u) \notin Silents \/ Lands(k) \notin Silents => Lands(u) = Lands(k)

\* After bare instructions there is one that is not: control does not run off the end.
LEMMA LeadsSomewhere ==
    ASSUME FileInv, Len(table) = Len(file.insts), NEW raw, NEW pls, RawInv(raw, table, pls),
           NEW u \in Insts
    PROVE  \E k : Leads(u, k)
<1> DEFINE N == Len(file.insts)
           Good == {n \in Nat : \A i \in Insts : i + n = N - 1 => \E k : Leads(i, k)}
<1>0. file \in Files
  BY DEF FileInv
<1>1. N \in Nat /\ Insts = 0..N - 1
  BY <1>0, FlowFacts DEF Insts
<1>2. ASSUME NEW i \in Insts, ~ Bare(i) PROVE \E k : Leads(i, k)
  BY <1>2 DEF Leads
<1>3. ASSUME NEW i \in Insts, Bare(i)
      PROVE  i + 1 \in Insts /\ table[i + 2] = table[i + 1] /\ Onward(i) = i + 1
  <2>1. Onward(i) = i + 1 /\ i + 1 \in Insts
    BY <1>0, <1>3, FlowFacts
  <2>2. i \in Nat /\ i < Len(table) /\ i + 1 < Len(table)
    BY <1>1, <2>1
  <2>3. Placed(raw, pls, Inst(i), table[i + 1], NextAt(raw, table, i))
    BY <2>2 DEF RawInv
  <2>4. NextAt(raw, table, i) = table[i + 1]
    BY <1>3, <2>3 DEF Placed, Bare
  <2> QED
    BY <2>1, <2>2, <2>4 DEF NextAt
<1>4. ASSUME NEW i \in Insts, Bare(i), \E k : Leads(i + 1, k) PROVE \E k : Leads(i, k)
  <2>1. PICK k : Leads(i + 1, k)
    BY <1>4
  <2>2. i + 1 \in Insts /\ table[i + 2] = table[i + 1] /\ Onward(i) = i + 1
    BY <1>3, <1>4
  <2>3. (i + 1) + 1 = i + 2
    BY <1>1
  <2>4. table[k + 1] = table[i + 1]
    BY <2>1, <2>2, <2>3 DEF Leads
  <2>5. \A C : Closed(C, Insts, Going) /\ i \in C => i + 1 \in C
    BY <2>2 DEF Closed, Going
  <2>6. Lands(i) \notin Silents \/ Lands(i + 1) \notin Silents => Lands(i) = Lands(i + 1)
    BY <1>0, <2>2, LandsFacts
  <2>7. Leads(i, k)
    BY <2>1, <2>4, <2>5, <2>6 DEF Leads
  <2> QED
    BY <2>7
<1>5. 0 \in Good
  <2> SUFFICES ASSUME NEW i \in Insts, i + 0 = N - 1 PROVE \E k : Leads(i, k)
    OBVIOUS
  <2>1. ~ (i + 1 \in Insts)
    BY <1>1
  <2> QED
    BY <1>2, <1>3, <2>1
<1>6. ASSUME NEW n \in Good PROVE n + 1 \in Good
  <2> SUFFICES ASSUME NEW i \in Insts, i + (n + 1) = N - 1 PROVE \E k : Leads(i, k)
    OBVIOUS
  <2>1. n \in Nat /\ \A k \in Insts : k + n = N - 1 => \E m : Leads(k, m)
    OBVIOUS
  <2>2. CASE Bare(i)
    <3>1. i + 1 \in Insts /\ (i + 1) + n = N - 1
      BY <1>1, <1>3, <2>1, <2>2
    <3> QED
      BY <1>4, <2>1, <2>2, <3>1
  <2> QED
    BY <1>2, <2>2
<1>7. Good = Nat
  <2> HIDE DEF Good
  <2>1. Good \in SUBSET Nat
    BY DEF Good
  <2> QED
    BY <1>5, <1>6, <2>1, InductionInSet
<1>8. (N - 1) - u \in Good /\ u + ((N - 1) - u) = N - 1
  <2>1. (N - 1) - u \in Nat /\ u + ((N - 1) - u) = N - 1
    BY <1>1
  <2> HIDE DEF Good
  <2> QED
    BY <1>7, <2>1
<1> QED
  BY <1>8

\* The code of a silent instruction is a jump to the next one.
LEMMA SilentIsJump ==
    ASSUME FileInv, Len(table) = Len(file.insts), NEW raw, NEW pls, RawInv(raw, table, pls),
           NEW k \in Insts, ~ Bare(k)
    PROVE  /\ k \in Silents => Onward(k) \in Insts /\ Has(raw, Code("Jump", table[k + 1], <<Onward(k)>>))
           /\ k \notin Silents => \E m : Has(raw, m) /\ m.at = table[k + 1] /\ IsMain(m, Inst(k), pls)
<1> DEFINE x == Inst(k)
           a == table[k + 1]
<1>1. file \in Files /\ k \in Nat /\ k < Len(table)
  BY FlowFacts DEF FileInv, Insts
<1>2. Placed(raw, pls, x, a, NextAt(raw, table, k))
  BY <1>1 DEF RawInv
<1>3. PICK mid :
        /\ x.op \in Dropped => mid = a
        /\ x.op \notin Dropped =>
              \E m : Has(raw, m) /\ m.at = a /\ IsMain(m, x, pls) /\ mid = a + WrittenWidth[m.op]
        /\ x.next # None => Has(raw, Code("Jump", mid, <<x.next>>))
  BY <1>2 DEF Placed
<1>4. Onward(k) = IF x.op \in Silent THEN IF x.op = "Jump" THEN x.data.jump
                                         ELSE IF x.next # None THEN x.next ELSE k + 1
                  ELSE k
  BY DEF Onward, After
<1>5. Onward(k) \in Insts
  BY <1>1, FlowFacts
<1>6. k \in Silents <=> x.op \in Silent
  BY DEF Silents
<1>7. Bare(k) <=> x.op \in Dropped /\ x.next = None
  BY DEF Bare
<1> HIDE DEF x, a
<1>8. CASE x.op \in Dropped
  <2>1. x.next # None /\ mid = a /\ Onward(k) = x.next
    BY <1>3, <1>4, <1>7, <1>8 DEF Dropped, Silent
  <2>2. k \in Silents
    BY <1>6, <1>8 DEF Dropped, Silent
  <2> QED
    BY <1>3, <1>5, <2>1, <2>2 DEF a
<1>9. CASE x.op = "Jump"
  <2>1. k \in Silents /\ x.op \notin Dropped /\ Onward(k) = x.data.jump
    BY <1>4, <1>6, <1>9 DEF Silent, Dropped
  <2>2. PICK m : Has(raw, m) /\ m.at = a /\ IsMain(m, x, pls)
    BY <1>3, <2>1
  <2>3. m = Code("Jump", a, <<Onward(k)>>)
    <3>1. m = Code(x.op, m.at, [n \in DOMAIN Written(x.op) |-> Value(x, Written(x.op)[n])])
      BY <1>9, <2>2 DEF IsMain
    <3>2. [n \in DOMAIN Written(x.op) |-> Value(x, Written(x.op)[n])] = <<x.data.jump>>
      BY <1>9, SingleData
    <3> QED
      BY <1>9, <2>1, <2>2, <3>1, <3>2
  <2> QED
    BY <1>5, <2>1, <2>2, <2>3 DEF a
<1>10. CASE x.op \notin Dropped /\ x.op # "Jump"
  <2>1. k \notin Silents
    BY <1>6, <1>10 DEF Silent, Dropped
  <2> QED
    BY <1>3, <1>10, <2>1 DEF a, x
<1> QED
  BY <1>8, <1>9, <1>10

-----------------------------------------------------------------------------
(***************************************************************************)
(* What the second pass has linked.                                        *)
(***************************************************************************)
\* e is what becomes of r: a jump to t may have become a return only if control
\* at t returns.
IsLinked(r, e) ==
    /\ e.at = r.at
    /\ r.op # "Jump" => e = Linked(r)
    /\ r.op = "Jump" => \A t \in Insts : r.data = <<t>> =>
          /\ e.data = <<Relative(r)[t]>>
          /\ e.op = "Jump" \/ (e.op = "Ret" /\ Inst(Lands(t)).op = "Ret")

LinkedTable(r, tbl) ==
    IF r.op = "First" THEN [ch \in Bytes |-> Relative(r)[tbl[ch]]] ELSE encode_jumps(tbl, Relative(r))

\* Code and tables are linked below an address and as they were from there.
LinkedTo(raw, rawpools, code, pls, at) ==
    /\ Len(code) = Len(raw)
    /\ \A k \in 1..Len(raw) :
          /\ code[k].at = raw[k].at
          /\ raw[k].at >= at => code[k] = raw[k]
          /\ raw[k].at < at => IsLinked(raw[k], code[k])
    /\ DOMAIN pls = Jumps /\ \A op \in Jumps : IsSeq(pls[op]) /\ Len(pls[op]) = Len(rawpools[op])
    /\ \A k \in 1..Len(raw), n \in Nat :
          raw[k].op \in Jumps /\ raw[k].data = <<n>> =>
             pls[raw[k].op][n + 1] =
                IF raw[k].at < at THEN LinkedTable(raw[k], rawpools[raw[k].op][n + 1])
                ELSE rawpools[raw[k].op][n + 1]

LinkedSomehow == \E raw, rawpools : RawInv(raw, table, rawpools) /\ LinkedTo(raw, rawpools, buf, pools, j)

LinkInv ==
    /\ phase \in {"header", "prods", "sets", "strs", "tags", "tables", "load"} => RawInv(buf, table, pools)
    /\ phase \in {"link", "done"} => LinkedSomehow

\* Only a jump becomes another instruction.
LEMMA LinkedKeepsOp ==
    ASSUME NEW e, IsCode(e), e.op # "Jump"
    PROVE  Linked(e).op = e.op
<1>1. \A data : [e EXCEPT !.data = data].op = e.op
  <2>1. \A op, at, old, data : [Code(op, at, old) EXCEPT !.data = data].op = op
    BY DEF Code
  <2> QED
    BY <2>1 DEF IsCode
<1>2. CASE e.op = "Call"
  BY <1>1, <1>2 DEF Linked
<1>3. CASE e.op \in {"Alt", "Lookup", "TLookup"}
  BY <1>1, <1>3 DEF Linked
<1>4. CASE e.op \notin {"Call", "Alt", "Lookup", "TLookup"}
  BY <1>4 DEF Linked
<1> QED
  BY <1>2, <1>3, <1>4

\* An instruction becomes one of its own kind.
LEMMA MainKind ==
    ASSUME NEW m, NEW x, x.op \notin Silent, NEW pls, IsMain(m, x, pls)
    PROVE  /\ m.op # "Jump" /\ (m.op = "Ret" => x.op = "Ret")
           /\ x.op # "First" => m.op = x.op
           /\ x.op = "First" => m.op = First(x.data.table).op /\ m.op \in Jumps
<1>1. CASE x.op = "First"
  <2>1. m.op = First(x.data.table).op
    BY <1>1 DEF IsMain, Code
  <2> QED
    BY <1>1, <2>1, FirstIsJumps DEF Jumps
<1>2. CASE x.op # "First"
  <2>1. m.op = x.op
    BY <1>2 DEF IsMain, Code
  <2> QED
    BY <1>2, <2>1 DEF Silent
<1> QED
  BY <1>1, <1>2

\* Where code returns in the place of u, control at u returns.
LEMMA RetMeans ==
    ASSUME LoadInv, Len(table) = Len(file.insts), NEW raw, NEW rawpools, RawInv(raw, table, rawpools),
           LinkedTo(raw, rawpools, buf, pools, j), j \in Nat,
           NEW u \in Insts, EntryAt(buf, table[u + 1]).op = "Ret"
    PROVE  Inst(Lands(u)).op = "Ret"
<1>1. PICK k : Leads(u, k)
  BY LeadsSomewhere DEF LoadInv
<1>2. /\ k \in Insts /\ ~ Bare(k) /\ table[k + 1] = table[u + 1]
      /\ Lands(u) \notin Silents \/ Lands(k) \notin Silents => Lands(u) = Lands(k)
  BY <1>1 DEF Leads
<1>3. file \in Files /\ Tiled(raw) /\ Tiled(buf) /\ Len(buf) = Len(raw)
  BY DEF LoadInv, FileInv, RawInv, LinkedTo
<1>4. ASSUME NEW p \in 1..Len(raw), raw[p].at = table[u + 1]
      PROVE  /\ IsCode(raw[p]) /\ buf[p].op = "Ret"
             /\ raw[p].at >= j => buf[p] = raw[p]
             /\ raw[p].at < j => IsLinked(raw[p], buf[p])
             /\ raw[p].at >= j \/ raw[p].at < j
  <2>1. IsCode(raw[p])
    BY <1>3 DEF Tiled
  <2>2. buf[p].at = raw[p].at
    BY DEF LinkedTo
  <2>3. EntryAt(buf, table[u + 1]) = buf[p]
    BY <1>3, <1>4, <2>2, EntryIsThere
  <2>4. raw[p].at \in Nat
    BY <2>1 DEF IsCode
  <2> QED
    BY <2>1, <2>3, <2>4 DEF LinkedTo
<1>5. CASE k \in Silents
  <2>1. Onward(k) \in Insts /\ Has(raw, Code("Jump", table[k + 1], <<Onward(k)>>))
    BY <1>2, <1>5, SilentIsJump DEF LoadInv
  <2>2. PICK p \in 1..Len(raw) : raw[p] = Code("Jump", table[k + 1], <<Onward(k)>>)
    BY <2>1 DEF Has
  <2>3. raw[p].op = "Jump" /\ raw[p].at = table[u + 1] /\ raw[p].data = <<Onward(k)>>
    BY <1>2, <2>2 DEF Code
  <2>4. IsLinked(raw[p], buf[p]) /\ buf[p].op = "Ret"
    BY <1>4, <2>3
  <2>5. Inst(Lands(Onward(k))).op = "Ret"
    BY <2>1, <2>3, <2>4 DEF IsLinked
  <2>6. Lands(Onward(k)) \notin Silents
    BY <2>5 DEF Silents, Silent
  <2>7. Lands(k) = Lands(Onward(k))
    BY <1>2, <1>3, <2>6, LandsFacts
  <2> QED
    BY <1>2, <2>5, <2>6, <2>7
<1>6. CASE k \notin Silents
  <2>1. PICK m : Has(raw, m) /\ m.at = table[k + 1] /\ IsMain(m, Inst(k), rawpools)
    BY <1>2, <1>6, SilentIsJump DEF LoadInv
  <2>2. PICK p \in 1..Len(raw) : raw[p] = m
    BY <2>1 DEF Has
  <2>3. Inst(k).op \notin Silent
    BY <1>2, <1>6 DEF Silents
  <2>4. m.op # "Jump" /\ (m.op = "Ret" => Inst(k).op = "Ret")
    BY <2>1, <2>3, MainKind
  <2>5. buf[p].op = m.op
    BY <1>2, <1>4, <2>1, <2>2, <2>4, LinkedKeepsOp DEF IsLinked
  <2>6. Inst(k).op = "Ret"
    BY <1>2, <1>4, <2>1, <2>2, <2>4, <2>5
  <2>7. Lands(k) = k
    BY <1>2, <1>3, <1>6, LandsFacts
  <2> QED
    BY <1>2, <1>6, <2>6, <2>7
<1> QED
  BY <1>5, <1>6

\* The switch on a jump.
LEMMA JumpIsLinked ==
    ASSUME NEW r, IsCode(r), r.op = "Jump", NEW t, r.data = <<t>>
    PROVE  /\ Linked(r).data = <<Relative(r)[t]>>
           /\ Linked(r).op = "Jump" \/ (Linked(r).op = "Ret" /\ EntryAt(buf, table[t + 1]).op = "Ret")
<1>1. Last(r.data) = t /\ Len(r.data) - 0 = 1
  BY DEF Last
<1>2. Patched(r, r.data, 0) = [r.data EXCEPT ![1] = Relative(r)[@]]
  BY <1>1 DEF Patched
<1>3. [r.data EXCEPT ![1] = Relative(r)[@]] = <<Relative(r)[t]>>
  OBVIOUS
<1> DEFINE op == IF EntryAt(buf, table[t + 1]).op = "Ret" THEN "Ret" ELSE "Jump"
<1>4. Linked(r) = Code(op, r.at, <<Relative(r)[t]>>)
  BY <1>1, <1>2, <1>3 DEF Linked
<1>5. op = "Jump" \/ (op = "Ret" /\ EntryAt(buf, table[t + 1]).op = "Ret")
  OBVIOUS
<1> HIDE DEF op
<1>6. Linked(r).op = op /\ Linked(r).data = <<Relative(r)[t]>>
  BY <1>4 DEF Code
<1> QED
  BY <1>5, <1>6

\* Exactly the table of the instruction is linked.
LEMMA TablesLinked ==
    ASSUME NEW raw, NEW rawpools, RawInv(raw, table, rawpools),
           LinkedTo(raw, rawpools, buf, pools, j), NEW p \in 1..Len(raw), raw[p].at = j
    PROVE  LET new == LinkedPools(raw[p]) IN
           /\ DOMAIN new = Jumps /\ \A op \in Jumps : IsSeq(new[op]) /\ Len(new[op]) = Len(rawpools[op])
           /\ \A k \in 1..Len(raw), n \in Nat :
                 raw[k].op \in Jumps /\ raw[k].data = <<n>> =>
                    new[raw[k].op][n + 1] =
                       IF k = p THEN LinkedTable(raw[k], pools[raw[k].op][n + 1]) ELSE pools[raw[k].op][n + 1]
<1> DEFINE r   == raw[p]
           new == LinkedPools(r)
<1>1. /\ DOMAIN pools = Jumps
      /\ \A op \in Jumps : IsSeq(pools[op]) /\ Len(pools[op]) = Len(rawpools[op])
  BY DEF LinkedTo
<1>2. OwnTables(raw, rawpools)
  BY DEF RawInv
<1>3. CASE r.op \notin Jumps
  <2>1. new = pools
    BY <1>3 DEF LinkedPools
  <2>2. \A k \in 1..Len(raw) : raw[k].op \in Jumps => k # p
    BY <1>3
  <2> HIDE DEF new
  <2> QED
    BY <1>1, <2>1, <2>2 DEF new
<1>4. CASE r.op \in Jumps
  <2>1. PICK m \in Nat : r.data = <<m>> /\ m < Len(rawpools[r.op])
    BY <1>2, <1>4 DEF OwnTables
  <2> DEFINE op   == r.op
             pool == pools[op]
             tbl  == LinkedTable(r, pool[m + 1])
             npl  == [pool EXCEPT ![m + 1] = tbl]
  <2>2. Last(r.data) = m
    BY <2>1 DEF Last
  <2>3. IsSeq(pool) /\ Len(pool) \in Nat /\ DOMAIN pool = 1..Len(pool) /\ m + 1 \in DOMAIN pool
    <3>1. IsSeq(pool) /\ Len(pool) = Len(rawpools[op])
      BY <1>1, <1>4
    <3>2. Len(pool) \in Nat /\ DOMAIN pool = 1..Len(pool)
      BY <3>1, SeqFacts
    <3> HIDE DEF pool
    <3> QED
      BY <2>1, <3>1, <3>2
  <2>4. new = [pools EXCEPT ![op] = npl]
    <3>1. new = [pools EXCEPT ![op][m + 1] =
                    IF op = "First" THEN [ch \in Bytes |-> Relative(r)[@[ch]]] ELSE encode_jumps(@, Relative(r))]
      BY <1>4, <2>2 DEF LinkedPools
    <3>2. new = [pools EXCEPT ![op] = [pools[op] EXCEPT ![m + 1] =
                    IF op = "First" THEN [ch \in Bytes |-> Relative(r)[pools[op][m + 1][ch]]]
                    ELSE encode_jumps(pools[op][m + 1], Relative(r))]]
      BY <3>1
    <3> QED
      BY <3>2 DEF LinkedTable
  <2> HIDE DEF tbl, new
  <2>5. /\ DOMAIN npl = 1..Len(pool) /\ npl[m + 1] = tbl
        /\ \A i \in 1..Len(pool) : i # m + 1 => npl[i] = pool[i]
        /\ npl = [i \in 1..Len(pool) |-> npl[i]]
    <3> HIDE DEF pool
    <3> QED
      BY <2>3
  <2> HIDE DEF npl
  <2>6. IsSeq(npl) /\ Len(npl) = Len(pool)
    BY <2>3, <2>5 DEF IsSeq
  <2> HIDE DEF pool
  <2>7. DOMAIN new = Jumps /\ new[op] = npl /\ \A other \in Jumps : other # op => new[other] = pools[other]
    BY <1>1, <1>4, <2>4
  <2>8. Len(pool) = Len(rawpools[op])
    BY <1>1, <1>4 DEF pool
  <2>9. \A other \in Jumps : IsSeq(new[other]) /\ Len(new[other]) = Len(rawpools[other])
    BY <1>1, <2>6, <2>7, <2>8
  <2>10. ASSUME NEW k \in 1..Len(raw), NEW n \in Nat, raw[k].op \in Jumps, raw[k].data = <<n>>
         PROVE  new[raw[k].op][n + 1] =
                   IF k = p THEN LinkedTable(raw[k], pools[raw[k].op][n + 1]) ELSE pools[raw[k].op][n + 1]
    <3>1. CASE k = p
      <4>1. n = m
        BY <2>1, <2>10, <3>1
      <4> QED
        BY <2>5, <2>7, <3>1, <4>1 DEF tbl, pool
    <3>2. CASE k # p /\ raw[k].op = op
      <4>1. raw[k].data # r.data
        BY <1>2, <1>4, <2>10, <3>2 DEF OwnTables
      <4>2. n # m
        BY <2>1, <2>10, <4>1
      <4>3. n < Len(pool)
        <5>1. PICK i \in Nat : raw[k].data = <<i>> /\ i < Len(rawpools[raw[k].op])
          BY <1>2, <2>10 DEF OwnTables
        <5>2. i = n
          BY <2>10, <5>1
        <5> QED
          BY <2>8, <3>2, <5>1, <5>2
      <4>4. n + 1 \in 1..Len(pool) /\ n + 1 # m + 1
        BY <2>3, <4>2, <4>3
      <4>5. npl[n + 1] = pool[n + 1]
        BY <2>5, <4>4
      <4> QED
        BY <2>7, <3>2, <4>5 DEF pool
    <3>3. CASE raw[k].op # op
      BY <2>7, <2>10, <3>3
    <3> QED
      BY <3>1, <3>2, <3>3
  <2> QED
    BY <2>7, <2>9, <2>10 DEF new
<1> QED
  BY <1>3, <1>4

\* The file does not change.
LEMMA LandsUnchanged ==
    ASSUME UNCHANGED file, NEW i
    PROVE  Lands(i)' = Lands(i)
  BY DEF Lands, Onward, After, Inst

\* An instruction other than a jump is linked by the table of addresses alone.
LEMMA LinkedUnchanged ==
    ASSUME UNCHANGED table, NEW e, e.op # "Jump"
    PROVE  Linked(e)' = Linked(e)
  BY DEF Linked, Patched, Relative

\* What is written depends on the buffer and the tables of jumps.
LEMMA RawUnchanged ==
    ASSUME UNCHANGED file
    PROVE  RawInv(buf', table', pools') => RawInv(buf, table, pools)'
  BY DEF RawInv, Inst

\* What is linked depends on the file and the addresses, which the second pass does not change.
LEMMA LinkedIsKept ==
    ASSUME UNCHANGED <<file, table>>, NEW raw, NEW rawpools, RawInv(raw, table, rawpools),
           LinkedTo(raw, rawpools, buf', pools', j')
    PROVE  LinkedSomehow'
<1>1. RawInv(raw, table, rawpools)'
  BY DEF RawInv, Inst
<1>2. \A r : Relative(r)' = Relative(r)
  BY DEF Relative
<1>3. \A t : Inst(Lands(t))' = Inst(Lands(t))
  BY LandsUnchanged DEF Inst
<1>4. ASSUME NEW k \in 1..Len(raw), IsLinked(raw[k], buf'[k]) PROVE IsLinked(raw[k], buf[k])'
  <2>1. Insts' = Insts
    BY DEF Insts
  <2>2. raw[k].op # "Jump" => Linked(raw[k])' = Linked(raw[k])
    BY LinkedUnchanged
  <2> QED
    BY <1>2, <1>3, <1>4, <2>1, <2>2 DEF IsLinked
<1>5. \A r, tbl : LinkedTable(r, tbl)' = LinkedTable(r, tbl)
  BY <1>2 DEF LinkedTable
<1>6. LinkedTo(raw, rawpools, buf, pools, j)'
  BY <1>4, <1>5 DEF LinkedTo
<1> QED
  BY <1>1, <1>6 DEF LinkedSomehow

\* A step of the second pass links one more instruction and its table.
LEMMA LinkStep ==
    ASSUME ~ UseProd, LoadInv, WalkInv, Len(table) = Len(file.insts), Link,
           NEW raw, NEW rawpools, RawInv(raw, table, rawpools),
           LinkedTo(raw, rawpools, buf, pools, j)
    PROVE  LinkedTo(raw, rawpools, buf', pools', j')
<1>1. /\ phase = "link" /\ j < End(buf)
      /\ buf' = [i \in DOMAIN buf |-> IF buf[i].at = j THEN Linked(EntryAt(buf, j)) ELSE buf[i]]
      /\ pools' = LinkedPools(EntryAt(buf, j))
      /\ j' = j + Width[EntryAt(buf, j).op]
  BY DEF Link
<1>2. /\ Tiled(raw) /\ Tiled(buf) /\ Len(buf) = Len(raw) /\ DOMAIN buf = 1..Len(raw)
      /\ Len(raw) \in Nat /\ End(buf) \in Nat
  BY SeqFacts, EndIsAfter DEF LoadInv, RawInv, LinkedTo, Tiled
<1>3. \A k \in 1..Len(raw) : IsCode(raw[k]) /\ raw[k].at \in Nat /\ buf[k].at = raw[k].at
  BY <1>2 DEF Tiled, IsCode, LinkedTo
<1>4. PICK p \in 1..Len(raw) : buf[p].at = j
  BY <1>1, <1>2 DEF WalkInv
<1>5. /\ EntryAt(buf, j) = buf[p] /\ raw[p].at = j /\ j \in Nat
      /\ \A k \in 1..Len(raw) : raw[k].at = j => k = p
  BY <1>2, <1>3, <1>4, EntryIsThere
<1>6. buf[p] = raw[p]
  BY <1>5 DEF LinkedTo
<1>7. j' = j + WrittenWidth[raw[p].op] /\ WrittenWidth[raw[p].op] \in Nat /\ WrittenWidth[raw[p].op] > 0
  BY <1>1, <1>3, <1>5, <1>6, WidthsAgree, WrittenWidthIsPositive DEF IsCode
<1>8. ASSUME NEW k \in 1..Len(raw)
      PROVE  /\ raw[k].at < j' <=> raw[k].at < j \/ k = p
             /\ raw[k].at >= j' => raw[k].at >= j /\ k # p
  <2>1. CASE k = p
    BY <1>5, <1>7, <2>1
  <2>2. CASE k < p
    <3>1. raw[k].at + WrittenWidth[raw[k].op] <= raw[p].at
      BY <1>2, <2>2 DEF Tiled
    <3>2. WrittenWidth[raw[k].op] \in Nat /\ WrittenWidth[raw[k].op] > 0
      BY <1>3, WrittenWidthIsPositive DEF IsCode
    <3>3. raw[k].at < j /\ k # p
      BY <1>3, <1>5, <2>2, <3>1, <3>2
    <3>4. raw[k].at \in Nat
      BY <1>3
    <3> QED
      BY <1>5, <1>7, <3>3, <3>4
  <2>3. CASE p < k
    <3>1. raw[p].at + WrittenWidth[raw[p].op] <= raw[k].at
      BY <1>2, <2>3 DEF Tiled
    <3> QED
      BY <1>3, <1>5, <1>7, <2>3, <3>1
  <2> QED
    BY <2>1, <2>2, <2>3
<1>9. IsLinked(raw[p], Linked(raw[p]))
  <2>1. IsCode(raw[p]) /\ Linked(raw[p]).at = raw[p].at
    BY <1>3, LinkedInPlace
  <2>2. ASSUME raw[p].op = "Jump", NEW t \in Insts, raw[p].data = <<t>>
        PROVE  /\ Linked(raw[p]).data = <<Relative(raw[p])[t]>>
               /\ Linked(raw[p]).op = "Jump" \/ (Linked(raw[p]).op = "Ret" /\ Inst(Lands(t)).op = "Ret")
    <3>1. /\ Linked(raw[p]).data = <<Relative(raw[p])[t]>>
          /\ Linked(raw[p]).op = "Jump" \/ (Linked(raw[p]).op = "Ret" /\ EntryAt(buf, table[t + 1]).op = "Ret")
      BY <2>1, <2>2, JumpIsLinked
    <3>2. EntryAt(buf, table[t + 1]).op = "Ret" => Inst(Lands(t)).op = "Ret"
      BY <1>5, RetMeans
    <3> QED
      BY <3>1, <3>2
  <2> QED
    BY <2>1, <2>2 DEF IsLinked
<1>10. \A k \in 1..Len(raw) : buf'[k] = IF k = p THEN Linked(raw[p]) ELSE buf[k]
  BY <1>1, <1>2, <1>3, <1>4, <1>5, <1>6
<1>11. Len(buf') = Len(raw)
  BY <1>1, <1>2, LinkKeepsTiles
<1>12. ASSUME NEW k \in 1..Len(raw)
       PROVE  /\ buf'[k].at = raw[k].at
              /\ raw[k].at >= j' => buf'[k] = raw[k]
              /\ raw[k].at < j' => IsLinked(raw[k], buf'[k])
  <2>1. CASE k = p
    BY <1>8, <1>9, <1>10, <2>1 DEF IsLinked
  <2>2. CASE k # p
    BY <1>8, <1>10, <2>2 DEF LinkedTo
  <2> QED
    BY <2>1, <2>2
<1>13. /\ DOMAIN pools' = Jumps /\ \A op \in Jumps : IsSeq(pools'[op]) /\ Len(pools'[op]) = Len(rawpools[op])
       /\ \A k \in 1..Len(raw), n \in Nat :
             raw[k].op \in Jumps /\ raw[k].data = <<n>> =>
                pools'[raw[k].op][n + 1] =
                   IF k = p THEN LinkedTable(raw[k], pools[raw[k].op][n + 1]) ELSE pools[raw[k].op][n + 1]
  <2>1. pools' = LinkedPools(raw[p])
    BY <1>1, <1>5, <1>6
  <2> QED
    BY <1>5, <2>1, TablesLinked
<1>14. ASSUME NEW k \in 1..Len(raw), NEW n \in Nat, raw[k].op \in Jumps, raw[k].data = <<n>>
       PROVE  pools'[raw[k].op][n + 1] =
                 IF raw[k].at < j' THEN LinkedTable(raw[k], rawpools[raw[k].op][n + 1])
                 ELSE rawpools[raw[k].op][n + 1]
  <2>1. pools[raw[k].op][n + 1] =
           IF raw[k].at < j THEN LinkedTable(raw[k], rawpools[raw[k].op][n + 1])
           ELSE rawpools[raw[k].op][n + 1]
    BY <1>14 DEF LinkedTo
  <2>2. pools'[raw[k].op][n + 1] =
           IF k = p THEN LinkedTable(raw[k], pools[raw[k].op][n + 1]) ELSE pools[raw[k].op][n + 1]
    BY <1>13, <1>14
  <2>3. CASE k = p
    <3>1. ~ (raw[k].at < j) /\ raw[k].at < j'
      BY <1>5, <1>8, <2>3
    <3> QED
      BY <2>1, <2>2, <2>3, <3>1
  <2>4. CASE k # p
    <3>1. raw[k].at < j' <=> raw[k].at < j
      BY <1>8, <2>4
    <3> QED
      BY <2>1, <2>2, <2>4, <3>1
  <2> QED
    BY <2>3, <2>4
<1> QED
  BY <1>11, <1>12, <1>13, <1>14 DEF LinkedTo

\* The strengthening of LoadedFaithfully is inductive.
LEMMA LinkInvNext ==
    ASSUME ~ UseProd
    PROVE  LoadInv /\ WalkInv /\ ProdsInv /\ LinkInv /\ [Next]_vars => LinkInv'
<1> SUFFICES ASSUME LoadInv, WalkInv, ProdsInv, LinkInv, [Next]_vars PROVE LinkInv'
  OBVIOUS
<1> DEFINE Early == {"header", "prods", "sets", "strs", "tags", "tables", "load"}
<1>1. ASSUME phase \in Early, phase' \in Early \cup {"exit"}, UNCHANGED <<file, table, buf, pools>>
      PROVE  LinkInv'
  <2>1. RawInv(buf, table, pools)
    BY <1>1 DEF LinkInv
  <2>2. RawInv(buf, table, pools)'
    BY <1>1, <2>1, RawUnchanged
  <2>3. phase' \notin {"link", "done"}
    BY <1>1
  <2> QED
    BY <2>2, <2>3 DEF LinkInv
<1>2. ASSUME phase \in {"link", "done"}, phase' \in {"link", "done"}, UNCHANGED <<file, table, buf, pools, j>>
      PROVE  LinkInv'
  <2>1. PICK raw, rawpools : RawInv(raw, table, rawpools) /\ LinkedTo(raw, rawpools, buf, pools, j)
    BY <1>2 DEF LinkInv, LinkedSomehow
  <2>2. LinkedTo(raw, rawpools, buf', pools', j')
    BY <1>2, <2>1
  <2>3. LinkedSomehow'
    BY <1>2, <2>1, <2>2, LinkedIsKept
  <2> QED
    BY <1>2, <2>3 DEF LinkInv
<1>3. CASE Header
  BY <1>1, <1>3 DEF Header, ReadHeader
<1>4. CASE Section
  <2>1. phase \in Early /\ phase' \in Early
    BY <1>4 DEF Section, ReadSection, Sections
  <2> QED
    BY <1>1, <1>4, <2>1 DEF Section, ReadSection
<1>5. CASE LoadInst
  <2>1. phase = "load" /\ phase' = "load" /\ UNCHANGED file
    BY <1>5 DEF LoadInst
  <2>2. RawInv(buf, table, pools)
    BY <2>1 DEF LinkInv
  <2>3. RawInv(buf, table, pools)'
    BY <1>5, <2>1, <2>2, LoadKeepsRaw, RawUnchanged DEF LoadInv
  <2> QED
    BY <2>1, <2>3 DEF LinkInv
<1>6. CASE StartLink
  <2>1. phase = "load" /\ phase' = "link" /\ UNCHANGED <<file, table, buf, pools, j>>
    BY <1>6 DEF StartLink
  <2>2. RawInv(buf, table, pools) /\ j = 0
    BY <2>1 DEF LinkInv, WalkInv
  <2>3. \A k \in 1..Len(buf) : buf[k].at \in Nat
    BY <2>2 DEF RawInv, Tiled, IsCode
  <2>4. \A k \in 1..Len(buf) : buf[k].at >= 0 /\ ~ (buf[k].at < 0)
    BY <2>3
  <2>5. DOMAIN pools = Jumps /\ \A op \in Jumps : IsSeq(pools[op])
    BY <2>2 DEF RawInv, OwnTables
  <2>6. LinkedTo(buf, pools, buf, pools, 0)
    BY <2>4, <2>5 DEF LinkedTo
  <2>7. PICK raw, rawpools : RawInv(raw, table, rawpools) /\ LinkedTo(raw, rawpools, buf', pools', j')
    BY <2>1, <2>2, <2>6
  <2>8. LinkedSomehow'
    BY <2>1, <2>7, LinkedIsKept
  <2> QED
    BY <2>1, <2>8 DEF LinkInv
<1>7. CASE Link
  <2>1. phase = "link" /\ phase' = "link" /\ UNCHANGED <<file, table>>
    BY <1>7 DEF Link
  <2>2. Len(table) = Len(file.insts)
    BY <2>1 DEF ProdsInv
  <2>3. PICK raw, rawpools : RawInv(raw, table, rawpools) /\ LinkedTo(raw, rawpools, buf, pools, j)
    BY <2>1 DEF LinkInv, LinkedSomehow
  <2>4. LinkedTo(raw, rawpools, buf', pools', j')
    BY <1>7, <2>2, <2>3, LinkStep
  <2>5. LinkedSomehow'
    BY <2>1, <2>3, <2>4, LinkedIsKept
  <2> QED
    BY <2>1, <2>5 DEF LinkInv
<1>8. CASE Freeze
  BY <1>2, <1>8 DEF Freeze
<1>9. CASE DisposeRuntime
  BY <1>9 DEF DisposeRuntime, LinkInv
<1>10. CASE DisposeLoader
  BY <1>10 DEF DisposeLoader, LinkInv
<1>11. CASE UNCHANGED vars
  <2>1. phase' = phase /\ UNCHANGED <<file, table, buf, pools, j>>
    BY <1>11 DEF vars
  <2> QED
    BY <1>1, <1>2, <2>1 DEF LinkInv
<1> QED
  BY <1>3, <1>4, <1>5, <1>6, <1>7, <1>8, <1>9, <1>10, <1>11 DEF Next

-----------------------------------------------------------------------------
(***************************************************************************)
(* The loaded code, whose jumps are linked.                                *)
(***************************************************************************)
Loaded(raw, rawpools) ==
    /\ LoadInv /\ Len(table) = Len(file.insts)
    /\ RawInv(raw, table, rawpools) /\ LinkedTo(raw, rawpools, buf, pools, j)
    /\ j \in Nat /\ j >= End(buf)

\* Where code begins that was written as r.
LEMMA EntryFacts ==
    ASSUME ~ UseProd, NEW raw, NEW rawpools, Loaded(raw, rawpools), NEW r, Has(raw, r)
    PROVE  LET e == EntryAt(buf, r.at) IN
           /\ e \in ToSet(buf) /\ e.at = r.at /\ IsLinked(r, e)
           /\ IsCode(r) /\ IsCode(e) /\ r.at < j
           /\ WrittenWidth[r.op] \in Nat /\ Width[r.op] = WrittenWidth[r.op]
<1>1. PICK k \in 1..Len(raw) : raw[k] = r
  BY DEF Has
<1>2. Tiled(raw) /\ Tiled(buf) /\ Len(buf) = Len(raw) /\ j \in Nat /\ j >= End(buf)
  BY DEF Loaded, LoadInv, RawInv, LinkedTo
<1>3. buf[k].at = r.at /\ (r.at < j => IsLinked(r, buf[k]))
  BY <1>1 DEF Loaded, LinkedTo
<1>4. IsCode(r) /\ IsCode(buf[k]) /\ k \in 1..Len(buf)
  BY <1>1, <1>2 DEF Tiled
<1>5. WrittenWidth[r.op] \in Nat /\ Width[r.op] = WrittenWidth[r.op]
  BY <1>4, WrittenWidthIsPositive, WidthsAgree DEF IsCode
<1>6. EntryAt(buf, r.at) = buf[k]
  BY <1>2, <1>3, <1>4, EntryIsThere
<1>7. buf[k] \in ToSet(buf)
  <2>1. DOMAIN buf = 1..Len(buf)
    BY <1>2, SeqFacts DEF Tiled
  <2> QED
    BY <1>4, <2>1 DEF ToSet
<1>8. r.at < j
  <2>1. buf[k].at \in Nat /\ WrittenWidth[buf[k].op] \in Nat /\ WrittenWidth[buf[k].op] > 0
    BY <1>4, WrittenWidthIsPositive DEF IsCode
  <2>2. buf[k].at + WrittenWidth[buf[k].op] <= End(buf) /\ End(buf) \in Nat
    BY <1>2, <1>4, EndIsAfter
  <2> QED
    BY <1>2, <1>3, <2>1, <2>2
<1> QED
  BY <1>3, <1>4, <1>5, <1>6, <1>7, <1>8

\* e is a jump to the code of t, or returns as control at t does.
JumpsTo(e, t) ==
    /\ e \in ToSet(buf)
    /\ \/ e.op = "Jump" /\ EndOf(e) + e.data[1] = table[t + 1]
       \/ e.op = "Ret" /\ Inst(Lands(t)).op = "Ret"

Ent(u) == EntryAt(buf, table[u + 1])

\* The relative address of an instruction.
LEMMA TableFacts ==
    ASSUME FileInv, Len(table) = Len(file.insts), NEW t \in Insts
    PROVE  /\ table[t + 1] \in Nat
           /\ \A r : Relative(r)[t] = table[t + 1] - (r.at + Width[r.op])
<1>1. file \in Files
  BY DEF FileInv
<1>2. Len(table) \in Nat /\ t \in Nat /\ t < Len(table)
  BY <1>1, FlowFacts DEF Insts
<1>3. t \in 0..Len(table)-1 /\ t + 1 \in 1..Len(table)
  BY <1>2
<1> QED
  BY <1>3 DEF FileInv, Relative

\* A jump of the first pass goes where it was written for.
LEMMA JumpEntry ==
    ASSUME ~ UseProd, NEW raw, NEW rawpools, Loaded(raw, rawpools),
           NEW a, NEW t \in Insts, Has(raw, Code("Jump", a, <<t>>))
    PROVE  JumpsTo(EntryAt(buf, a), t)
<1> DEFINE r == Code("Jump", a, <<t>>)
           e == EntryAt(buf, a)
<1>1. r.op = "Jump" /\ r.at = a /\ r.data = <<t>> /\ Has(raw, r)
  BY DEF Code
<1> HIDE DEF r
<1>2. /\ EntryAt(buf, r.at) \in ToSet(buf) /\ EntryAt(buf, r.at).at = r.at
      /\ IsLinked(r, EntryAt(buf, r.at)) /\ IsCode(r)
      /\ WrittenWidth[r.op] \in Nat /\ Width[r.op] = WrittenWidth[r.op]
  BY <1>1, EntryFacts
<1>3. e \in ToSet(buf) /\ e.at = a /\ IsLinked(r, e)
  BY <1>1, <1>2
<1>4. Relative(r)[t] = table[t + 1] - (a + Width["Jump"]) /\ table[t + 1] \in Nat
  BY <1>1, TableFacts DEF Loaded, LoadInv
<1>5. /\ e.data = <<Relative(r)[t]>>
      /\ e.op = "Jump" \/ (e.op = "Ret" /\ Inst(Lands(t)).op = "Ret")
  BY <1>1, <1>3 DEF IsLinked
<1>6. a \in Nat /\ Width["Jump"] \in Nat
  BY <1>1, <1>2 DEF IsCode
<1> HIDE DEF e
<1>7. e.op = "Jump" => EndOf(e) + e.data[1] = table[t + 1]
  <2>1. e.op = "Jump" => EndOf(e) = a + Width["Jump"]
    BY <1>3 DEF EndOf
  <2>2. e.data[1] = table[t + 1] - (a + Width["Jump"])
    BY <1>4, <1>5
  <2> QED
    BY <1>4, <1>6, <2>1, <2>2
<1>8. JumpsTo(e, t)
  BY <1>3, <1>5, <1>7 DEF JumpsTo
<1> QED
  BY <1>8 DEF e

\* Where the code of an instruction begins, nothing is written for a bare one,
\* there is a jump for another silent one, itself for one that is not silent.
LEMMA HeadFacts ==
    ASSUME ~ UseProd, NEW raw, NEW rawpools, Loaded(raw, rawpools), NEW v \in Insts
    PROVE  /\ Onward(v) \in Insts
           /\ Bare(v) => v \in Silents /\ Ent(Onward(v)) = Ent(v)
           /\ ~ Bare(v) /\ v \in Silents => JumpsTo(Ent(v), Onward(v))
           /\ v \notin Silents =>
                 ~ Bare(v) /\ Ent(v) \in ToSet(buf) /\ Ent(v).op # "Jump" /\ Ent(v).at = table[v + 1]
<1>1. FileInv /\ file \in Files /\ Len(table) = Len(file.insts) /\ RawInv(raw, table, rawpools)
  BY DEF Loaded, LoadInv, FileInv
<1>2. Onward(v) \in Insts /\ Len(file.insts) \in Nat
  BY <1>1, FlowFacts
<1>3. Bare(v) => v \in Silents
  BY DEF Bare, Silents, Dropped, Silent
<1>4. ASSUME Bare(v) PROVE Ent(Onward(v)) = Ent(v)
  <2>1. Onward(v) = v + 1
    BY <1>1, <1>4, FlowFacts
  <2>2. v \in Nat /\ v < Len(table) /\ v + 1 < Len(table)
    BY <1>1, <1>2, <2>1 DEF Insts
  <2>3. Placed(raw, rawpools, Inst(v), table[v + 1], NextAt(raw, table, v))
    BY <1>1, <2>2 DEF RawInv
  <2>4. NextAt(raw, table, v) = table[v + 1]
    BY <1>4, <2>3 DEF Placed, Bare
  <2>5. table[v + 2] = table[v + 1] /\ (v + 1) + 1 = v + 2
    BY <2>2, <2>4 DEF NextAt
  <2> QED
    BY <2>1, <2>5 DEF Ent
<1>5. ASSUME ~ Bare(v), v \in Silents PROVE JumpsTo(Ent(v), Onward(v))
  <2>1. Has(raw, Code("Jump", table[v + 1], <<Onward(v)>>))
    BY <1>1, <1>5, SilentIsJump
  <2> QED
    BY <1>2, <2>1, JumpEntry DEF Ent
<1>6. ASSUME v \notin Silents
      PROVE  Ent(v) \in ToSet(buf) /\ Ent(v).op # "Jump" /\ Ent(v).at = table[v + 1]
  <2>1. ~ Bare(v)
    BY <1>3, <1>6
  <2>2. PICK m : Has(raw, m) /\ m.at = table[v + 1] /\ IsMain(m, Inst(v), rawpools)
    BY <1>1, <1>6, <2>1, SilentIsJump
  <2>3. Inst(v).op \notin Silent
    BY <1>6 DEF Silents
  <2>4. m.op # "Jump"
    BY <2>2, <2>3, MainKind
  <2>5. /\ Ent(v) \in ToSet(buf) /\ Ent(v).at = m.at /\ IsLinked(m, Ent(v)) /\ IsCode(m)
    BY <2>2, EntryFacts DEF Ent
  <2>6. Ent(v).op = m.op
    BY <2>4, <2>5, LinkedKeepsOp DEF IsLinked
  <2> QED
    BY <2>2, <2>4, <2>5, <2>6
<1> QED
  BY <1>2, <1>3, <1>4, <1>5, <1>6

-----------------------------------------------------------------------------
(***************************************************************************)
(* Control in the loaded code.                                             *)
(***************************************************************************)
\* Where control can be: a jump goes to the code of an instruction.
Heads     == {e \in ToSet(buf) : e.op = "Jump" => \E t \in Insts : EndOf(e) + e.data[1] = table[t + 1]}
JumpHeads == {e \in Heads : e.op = "Jump"}
GoingAt   == [e \in Heads |-> OnwardAt(e)]

\* There are not more places than the buffer has instructions.
LEMMA HeadsAreFinite ==
    ASSUME Tiled(buf)
    PROVE  Len(buf) \in Nat /\ IsFiniteSet(Heads) /\ Cardinality(Heads) <= Len(buf)
<1>1. Len(buf) \in Nat /\ DOMAIN buf = 1..Len(buf)
  BY SeqFacts DEF Tiled
<1>2. buf \in Seq(ToSet(buf))
  BY DEF Tiled, IsSeq, ToSet
<1>3. buf \in [1..Len(buf) -> ToSet(buf)]
  BY <1>2
<1>4. buf \in Surjection(1..Len(buf), ToSet(buf))
  BY <1>1, <1>3 DEF Surjection, ToSet
<1>5. IsFiniteSet(1..Len(buf)) /\ Cardinality(1..Len(buf)) = Len(buf)
  <2>1. IsFiniteSet(1..Len(buf)) /\ Cardinality(1..Len(buf)) = IF 1 > Len(buf) THEN 0 ELSE Len(buf) - 1 + 1
    BY <1>1, FS_Interval
  <2> QED
    BY <1>1, <2>1
<1>6. IsFiniteSet(ToSet(buf)) /\ Cardinality(ToSet(buf)) <= Len(buf)
  BY <1>4, <1>5, FS_Surjection
<1>7. Heads \in SUBSET ToSet(buf)
  BY DEF Heads
<1>8. IsFiniteSet(Heads) /\ Cardinality(Heads) <= Cardinality(ToSet(buf))
  BY <1>6, <1>7, FS_Subset
<1>9. Cardinality(Heads) \in Nat /\ Cardinality(ToSet(buf)) \in Nat
  BY <1>6, <1>8, FS_CardinalityType
<1> QED
  BY <1>1, <1>6, <1>8, <1>9

\* One step of control from a jump.
LEMMA JumpsToFacts ==
    ASSUME NEW t \in Insts, NEW e, JumpsTo(e, t)
    PROVE  /\ e \in Heads /\ e.op \in {"Jump", "Ret"}
           /\ e.op = "Jump" => OnwardAt(e) = Ent(t)
           /\ e.op = "Ret" => Inst(Lands(t)).op = "Ret"
  BY DEF JumpsTo, Heads, OnwardAt, Ent

\* Control can be where the code of an instruction begins.
LEMMA EntIsHead ==
    ASSUME ~ UseProd, NEW raw, NEW rawpools, Loaded(raw, rawpools), NEW u \in Insts
    PROVE  Ent(u) \in Heads
<1>1. FileInv /\ Len(table) = Len(file.insts) /\ RawInv(raw, table, rawpools)
  BY DEF Loaded, LoadInv
<1>2. PICK k : Leads(u, k)
  BY <1>1, LeadsSomewhere
<1>3. k \in Insts /\ ~ Bare(k) /\ Ent(k) = Ent(u)
  BY <1>2 DEF Leads, Ent
<1>4. CASE k \in Silents
  <2>1. Onward(k) \in Insts /\ JumpsTo(Ent(k), Onward(k))
    BY <1>3, <1>4, HeadFacts
  <2> QED
    BY <1>3, <2>1, JumpsToFacts
<1>5. CASE k \notin Silents
  <2>1. Ent(k) \in ToSet(buf) /\ Ent(k).op # "Jump"
    BY <1>3, <1>5, HeadFacts
  <2> QED
    BY <1>3, <2>1 DEF Heads
<1> QED
  BY <1>4, <1>5

\* Control in the loaded code is a machine.
LEMMA MachineAt ==
    ASSUME ~ UseProd, NEW raw, NEW rawpools, Loaded(raw, rawpools)
    PROVE  Machine(Heads, JumpHeads, GoingAt) /\ \A e \in Heads : OnwardAt(e) \in Heads
<1>1. ASSUME NEW e \in Heads PROVE OnwardAt(e) \in Heads
  <2>1. CASE e.op = "Jump"
    <3>1. PICK t \in Insts : EndOf(e) + e.data[1] = table[t + 1]
      BY <2>1 DEF Heads
    <3>2. OnwardAt(e) = Ent(t)
      BY <2>1, <3>1 DEF OnwardAt, Ent
    <3> QED
      BY <3>2, EntIsHead
  <2>2. CASE e.op # "Jump"
    BY <2>2 DEF OnwardAt
  <2> QED
    BY <2>1, <2>2
<1>2. \A e \in Heads : e.op # "Jump" => OnwardAt(e) = e
  BY DEF OnwardAt
<1> QED
  BY <1>1, <1>2 DEF Machine, JumpHeads, GoingAt

\* LandsAt is where control lands in the loaded code.
LEMMA LandsAtFacts ==
    ASSUME ~ UseProd, NEW raw, NEW rawpools, Loaded(raw, rawpools), NEW a, EntryAt(buf, a) \in Heads
    PROVE  /\ LandsAt(a) \in Heads
           /\ \A C : Closed(C, Heads, GoingAt) /\ EntryAt(buf, a) \in C => LandsAt(a) \in C
           /\ LandsAt(a) \in JumpHeads =>
                 \E C : Closed(C, Heads, GoingAt) /\ C \subseteq JumpHeads /\ EntryAt(buf, a) \in C
           /\ EntryAt(buf, a) \notin JumpHeads => LandsAt(a) = EntryAt(buf, a)
           /\ \A b : EntryAt(buf, b) = OnwardAt(EntryAt(buf, a))
                        /\ (LandsAt(a) \notin JumpHeads \/ LandsAt(b) \notin JumpHeads)
                     => LandsAt(a) = LandsAt(b)
<1> DEFINE N == Len(buf)
<1>1. N \in Nat /\ IsFiniteSet(Heads) /\ Cardinality(Heads) <= N
  BY HeadsAreFinite DEF Loaded, LoadInv
<1>2. Machine(Heads, JumpHeads, GoingAt) /\ \A e \in Heads : OnwardAt(e) \in Heads
  BY MachineAt
<1> HIDE DEF N
<1>4. ASSUME NEW b, EntryAt(buf, b) \in Heads PROVE Landing(GoingAt, N, EntryAt(buf, b), LandsAt(b))
  <2> DEFINE d == EntryAt(buf, b)
             Is(at) == at = [n \in 0..N |-> IF n = 0 THEN d ELSE OnwardAt(at[n - 1])]
             at == CHOOSE at : Is(at)
  <2>0. d \in Heads
    BY <1>4
  <2>9. LandsAt(b) = at[N]
    BY DEF LandsAt, N
  <2> HIDE DEF d
  <2>1. PICK c : IsChain(c, GoingAt, d, N)
    BY <1>1, ChainExists
  <2>2. Closed(Heads, Heads, GoingAt)
    BY <1>2 DEF Machine, Closed
  <2>3. \A n \in 0..N : c[n] \in Heads
    BY <1>1, <2>0, <2>1, <2>2, ChainWithin
  <2>4. c = [n \in 0..N |-> IF n = 0 THEN d ELSE GoingAt[c[n - 1]]]
    BY <2>1 DEF IsChain
  <2>5. \A n \in 0..N : n # 0 => n - 1 \in 0..N
    BY <1>1
  <2>6. \A n \in 0..N : n # 0 => GoingAt[c[n - 1]] = OnwardAt(c[n - 1])
    BY <2>3, <2>5 DEF GoingAt
  <2>7. Is(c)
    BY <2>4, <2>6
  <2>8. Is(at)
    <3> HIDE DEF Is
    <3> QED
      BY <2>7
  <2> HIDE DEF at
  <2>10. \A n \in 0..N : at[n] = IF n = 0 THEN d ELSE OnwardAt(at[n - 1])
    BY <2>8
  <2> DEFINE Good == {n \in Nat : n <= N => at[n] \in Heads}
  <2>11. 0 \in Good
    BY <1>1, <2>0, <2>10
  <2>12. ASSUME NEW n \in Good PROVE n + 1 \in Good
    <3>1. n \in Nat /\ (n <= N => at[n] \in Heads)
      OBVIOUS
    <3>2. n + 1 <= N => n + 1 \in 0..N /\ n <= N /\ (n + 1) - 1 = n /\ n + 1 # 0
      BY <1>1, <3>1
    <3> QED
      BY <1>2, <2>10, <3>1, <3>2
  <2>13. Good = Nat
    <3> HIDE DEF Good
    <3>1. Good \in SUBSET Nat
      BY DEF Good
    <3> QED
      BY <2>11, <2>12, <3>1, InductionInSet
  <2>14. \A n \in 0..N : at[n] \in Heads
    <3> TAKE n \in 0..N
    <3>1. n \in Good /\ n <= N
      BY <1>1, <2>13
    <3> QED
      BY <3>1
  <2>15. \A n \in 0..N : n # 0 => GoingAt[at[n - 1]] = OnwardAt(at[n - 1])
    BY <2>5, <2>14 DEF GoingAt
  <2>16. at = [n \in 0..N |-> IF n = 0 THEN d ELSE GoingAt[at[n - 1]]]
    BY <2>8, <2>15
  <2>17. IsChain(at, GoingAt, d, N)
    BY <2>16 DEF IsChain
  <2> QED
    BY <2>9, <2>17 DEF Landing, d
<1> DEFINE d == EntryAt(buf, a)
<1>5. GoingAt[d] = OnwardAt(d) /\ OnwardAt(d) \in Heads
  BY <1>2 DEF GoingAt
<1>6. Landing(GoingAt, N, d, LandsAt(a))
  BY <1>4
<1>7. \A b : EntryAt(buf, b) = OnwardAt(d) => Landing(GoingAt, N, GoingAt[d], LandsAt(b))
  BY <1>4, <1>5
<1>8. d \in Heads
  OBVIOUS
<1> HIDE DEF d
<1> DEFINE l == LandsAt(a)
<1>m. Machine(Heads, JumpHeads, GoingAt)
  BY <1>2
<1>n. N \in Nat /\ IsFiniteSet(Heads) /\ Cardinality(Heads) <= N /\ Landing(GoingAt, N, d, l)
  BY <1>1, <1>6
<1> HIDE DEF l
<1>9. /\ l \in Heads
      /\ \A C : Closed(C, Heads, GoingAt) /\ d \in C => l \in C
      /\ l \in JumpHeads => \E C : Closed(C, Heads, GoingAt) /\ C \subseteq JumpHeads /\ d \in C
      /\ d \notin JumpHeads => l = d
      /\ \A k : Landing(GoingAt, N, GoingAt[d], k) /\ (l \notin JumpHeads \/ k \notin JumpHeads) => l = k
  BY <1>m, <1>n, <1>8, LandingFacts
<1>10. ASSUME NEW b, EntryAt(buf, b) = OnwardAt(d), LandsAt(a) \notin JumpHeads \/ LandsAt(b) \notin JumpHeads
       PROVE  LandsAt(a) = LandsAt(b)
  <2>1. Landing(GoingAt, N, GoingAt[d], LandsAt(b))
    BY <1>7, <1>10
  <2> QED
    BY <1>9, <1>10, <2>1 DEF l
<1>11. \A b : EntryAt(buf, b) = OnwardAt(d) /\ (LandsAt(a) \notin JumpHeads \/ LandsAt(b) \notin JumpHeads)
             => LandsAt(a) = LandsAt(b)
  BY <1>10
<1> QED
  BY <1>9, <1>11 DEF d, l

-----------------------------------------------------------------------------
(***************************************************************************)
(* Control in the file is control in the loaded code.                      *)
(***************************************************************************)
\* Both go on for ever, or come to the same instruction or to returns.
Same(t, at) ==
    LET x == Inst(Lands(t))
        e == LandsAt(at)
    IN  \/ x.op \in Silent /\ e.op = "Jump"
        \/ /\ x.op \notin Silent /\ e.op # "Jump"
           /\ e.at = table[Lands(t) + 1] \/ (x.op = "Ret" /\ e.op = "Ret")

\* Same is what the property needs, and a little more.
LEMMA SameIsSameControl ==
    ASSUME NEW t, NEW at, Same(t, at)
    PROVE  SameControl(t, at)
<1> DEFINE x == Inst(Lands(t))
           e == LandsAt(at)
<1>1. \/ x.op \in Silent /\ e.op = "Jump"
      \/ x.op \notin Silent /\ e.op # "Jump" /\ (e.at = table[Lands(t) + 1] \/ (x.op = "Ret" /\ e.op = "Ret"))
  BY DEF Same
<1>2. SameControl(t, at) <=> \/ x.op \in Silent /\ e.op = "Jump"
                             \/ x.op \notin Silent /\ e.at = table[Lands(t) + 1]
                             \/ x.op = "Ret" /\ e.op = "Ret"
  BY DEF SameControl
<1> HIDE DEF x, e
<1> QED
  BY <1>1, <1>2

\* Code from where control comes to q leads to the code of q.
LEMMA LeadsToCode ==
    ASSUME ~ UseProd, NEW raw, NEW rawpools, Loaded(raw, rawpools), NEW q \in Insts \ Silents
    PROVE  Closed({Ent(u) : u \in {v \in Insts : Lands(v) = q}}, Heads, GoingAt)
<1> DEFINE P == {Ent(u) : u \in {v \in Insts : Lands(v) = q}}
<1>1. FileInv /\ file \in Files /\ Len(table) = Len(file.insts) /\ RawInv(raw, table, rawpools)
  BY DEF Loaded, LoadInv, FileInv
<1>2. ASSUME NEW e \in P PROVE e \in Heads /\ GoingAt[e] \in P
  <2>1. PICK u \in Insts : e = Ent(u) /\ Lands(u) = q
    OBVIOUS
  <2>2. e \in Heads
    BY <2>1, EntIsHead
  <2>3. GoingAt[e] = OnwardAt(e)
    BY <2>2 DEF GoingAt
  <2>4. CASE e.op # "Jump"
    BY <2>2, <2>3, <2>4 DEF OnwardAt
  <2>5. CASE e.op = "Jump"
    <3>1. PICK k : Leads(u, k)
      BY <1>1, <2>1, LeadsSomewhere
    <3>2. k \in Insts /\ ~ Bare(k) /\ Ent(k) = e /\ Lands(k) = q
      BY <2>1, <3>1 DEF Leads, Ent
    <3>3. k \in Silents
      BY <2>5, <3>2, HeadFacts
    <3>4. Onward(k) \in Insts /\ JumpsTo(e, Onward(k))
      BY <3>2, <3>3, HeadFacts
    <3>5. OnwardAt(e) = Ent(Onward(k))
      BY <2>5, <3>4, JumpsToFacts
    <3>6. Lands(Onward(k)) = q
      BY <1>1, <3>2, LandsFacts
    <3> QED
      BY <2>2, <2>3, <3>4, <3>5, <3>6
  <2> QED
    BY <2>4, <2>5
<1> QED
  BY <1>2 DEF Closed

\* Instructions whose code is nothing but jumps are silent.
LEMMA JumpsAreSilent ==
    ASSUME ~ UseProd, NEW raw, NEW rawpools, Loaded(raw, rawpools),
           NEW C, Closed(C, Heads, GoingAt), C \subseteq JumpHeads
    PROVE  LET S == {v \in Insts : Ent(v) \in C} IN Closed(S, Insts, Going) /\ S \subseteq Silents
<1> DEFINE S == {v \in Insts : Ent(v) \in C}
<1>1. ASSUME NEW v \in S PROVE v \in Silents /\ Going[v] \in S
  <2>1. v \in Insts /\ Ent(v) \in C
    OBVIOUS
  <2>2. Ent(v) \in Heads /\ Ent(v).op = "Jump"
    BY <2>1 DEF JumpHeads
  <2>3. v \in Silents /\ Onward(v) \in Insts /\ Going[v] = Onward(v)
    BY <2>1, <2>2, HeadFacts DEF Going
  <2>4. CASE Bare(v)
    <3>1. Ent(Onward(v)) = Ent(v)
      BY <2>1, <2>4, HeadFacts
    <3> QED
      BY <2>1, <2>3, <3>1
  <2>5. CASE ~ Bare(v)
    <3>1. JumpsTo(Ent(v), Onward(v))
      BY <2>1, <2>3, <2>5, HeadFacts
    <3>2. OnwardAt(Ent(v)) = Ent(Onward(v))
      BY <2>2, <2>3, <3>1, JumpsToFacts
    <3>3. GoingAt[Ent(v)] = Ent(Onward(v)) /\ GoingAt[Ent(v)] \in C
      BY <2>1, <2>2, <3>2 DEF Closed, GoingAt
    <3> QED
      BY <2>3, <3>3
  <2> QED
    BY <2>4, <2>5
<1> QED
  BY <1>1 DEF Closed

\* The code of instructions that are silent for ever is nothing but jumps.
LEMMA SilentsAreJumps ==
    ASSUME ~ UseProd, NEW raw, NEW rawpools, Loaded(raw, rawpools),
           NEW C, Closed(C, Insts, Going), C \subseteq Silents
    PROVE  LET P == {Ent(u) : u \in C} IN Closed(P, Heads, GoingAt) /\ P \subseteq JumpHeads
<1> DEFINE P == {Ent(u) : u \in C}
<1>1. FileInv /\ file \in Files /\ Len(table) = Len(file.insts) /\ RawInv(raw, table, rawpools)
  BY DEF Loaded, LoadInv, FileInv
<1>2. ASSUME NEW e \in P PROVE e \in JumpHeads /\ GoingAt[e] \in P
  <2>1. PICK u \in C : e = Ent(u)
    OBVIOUS
  <2>2. u \in Insts
    BY <2>1 DEF Closed
  <2>3. PICK k : Leads(u, k)
    BY <1>1, <2>2, LeadsSomewhere
  <2>4. k \in Insts /\ ~ Bare(k) /\ Ent(k) = e /\ k \in C
    BY <2>1, <2>3 DEF Leads, Ent
  <2>5. k \in Silents /\ Onward(k) \in Insts /\ Onward(k) \in C
    <3>1. k \in Silents /\ Going[k] = Onward(k) /\ Going[k] \in C
      BY <2>4 DEF Closed, Going
    <3> QED
      BY <3>1 DEF Closed
  <2>6. JumpsTo(e, Onward(k))
    BY <2>4, <2>5, HeadFacts
  <2>7. e.op # "Ret"
    <3>1. Lands(Onward(k)) \in C
      BY <1>1, <2>5, LandsFacts
    <3>2. Inst(Lands(Onward(k))).op \in Silent
      BY <3>1 DEF Silents
    <3> QED
      BY <2>5, <2>6, <3>2, JumpsToFacts DEF Silent
  <2>8. e \in Heads /\ e.op = "Jump" /\ OnwardAt(e) = Ent(Onward(k))
    BY <2>5, <2>6, <2>7, JumpsToFacts
  <2>9. GoingAt[e] = Ent(Onward(k))
    BY <2>8 DEF GoingAt
  <2> QED
    BY <2>5, <2>8, <2>9 DEF JumpHeads
<1> QED
  BY <1>2 DEF Closed, JumpHeads

\* Control at the code of an instruction is control at the instruction.
LEMMA SameAtTable ==
    ASSUME ~ UseProd, NEW raw, NEW rawpools, Loaded(raw, rawpools), NEW t \in Insts
    PROVE  Same(t, table[t + 1])
<1> DEFINE q == Lands(t)
           l == LandsAt(table[t + 1])
<1>1. FileInv /\ file \in Files /\ Len(table) = Len(file.insts) /\ RawInv(raw, table, rawpools)
  BY DEF Loaded, LoadInv, FileInv
<1>2. q \in Insts
  BY <1>1, LandsFacts
<1>3. Ent(t) \in Heads /\ Ent(t) = EntryAt(buf, table[t + 1])
  BY EntIsHead DEF Ent
<1>4. l \in Heads /\ \A C : Closed(C, Heads, GoingAt) /\ Ent(t) \in C => l \in C
  BY <1>3, LandsAtFacts
<1>5. l \in JumpHeads => \E C : Closed(C, Heads, GoingAt) /\ C \subseteq JumpHeads /\ Ent(t) \in C
  BY <1>3, LandsAtFacts
<1> HIDE DEF l
<1>6. CASE q \notin Silents
  <2>1. Closed({Ent(u) : u \in {v \in Insts : Lands(v) = q}}, Heads, GoingAt)
    BY <1>2, <1>6, LeadsToCode
  <2>2. l \in {Ent(u) : u \in {v \in Insts : Lands(v) = q}}
    <3>1. Ent(t) \in {Ent(u) : u \in {v \in Insts : Lands(v) = q}}
      OBVIOUS
    <3> HIDE DEF q
    <3> QED
      BY <1>4, <2>1, <3>1
  <2>3. PICK u \in Insts : l = Ent(u) /\ Lands(u) = q
    BY <2>2
  <2>4. l.op # "Jump"
    <3> SUFFICES ASSUME l.op = "Jump" PROVE FALSE
      OBVIOUS
    <3>1. PICK C : Closed(C, Heads, GoingAt) /\ C \subseteq JumpHeads /\ Ent(t) \in C
      BY <1>4, <1>5 DEF JumpHeads
    <3> DEFINE S == {v \in Insts : Ent(v) \in C}
    <3>2. Closed(S, Insts, Going) /\ S \subseteq Silents /\ t \in S
      BY <3>1, JumpsAreSilent
    <3> HIDE DEF S
    <3>3. q \in S
      BY <1>1, <3>2, LandsFacts
    <3> QED
      BY <1>6, <3>2, <3>3
  <2>5. PICK k : Leads(u, k)
    BY <1>1, <2>3, LeadsSomewhere
  <2>6. k \in Insts /\ ~ Bare(k) /\ Ent(k) = l /\ Lands(k) = q
    BY <1>6, <2>3, <2>5 DEF Leads, Ent
  <2>7. l.at = table[q + 1] \/ (Inst(q).op = "Ret" /\ l.op = "Ret")
    <3>1. CASE k \in Silents
      <4>1. Onward(k) \in Insts /\ JumpsTo(l, Onward(k))
        BY <2>6, <3>1, HeadFacts
      <4>2. Lands(Onward(k)) = q
        BY <1>1, <1>6, <2>6, LandsFacts
      <4>3. l.op = "Ret" /\ Inst(Lands(Onward(k))).op = "Ret"
        BY <2>4, <4>1, JumpsToFacts
      <4> QED
        BY <4>2, <4>3
    <3>2. CASE k \notin Silents
      <4>1. k = q
        BY <1>1, <2>6, <3>2, LandsFacts
      <4>2. Ent(k).at = table[k + 1]
        BY <2>6, <3>2, HeadFacts
      <4> QED
        BY <2>6, <4>1, <4>2
    <3> QED
      BY <3>1, <3>2
  <2>8. Inst(q).op \notin Silent
    BY <1>2, <1>6 DEF Silents
  <2> QED
    BY <2>4, <2>7, <2>8 DEF Same, l
<1>7. CASE q \in Silents
  <2>1. PICK C : Closed(C, Insts, Going) /\ C \subseteq Silents /\ t \in C
    BY <1>1, <1>7, LandsFacts
  <2> DEFINE P == {Ent(u) : u \in C}
  <2>2. Closed(P, Heads, GoingAt) /\ P \subseteq JumpHeads /\ Ent(t) \in P
    BY <2>1, SilentsAreJumps
  <2> HIDE DEF P
  <2>3. l.op = "Jump"
    BY <1>4, <2>2 DEF JumpHeads
  <2>4. Inst(q).op \in Silent
    BY <1>7 DEF Silents
  <2> QED
    BY <2>3, <2>4 DEF Same, l
<1> QED
  BY <1>6, <1>7

\* A jump that was written for t is control at t.
LEMMA SameAtJump ==
    ASSUME ~ UseProd, NEW raw, NEW rawpools, Loaded(raw, rawpools),
           NEW a, NEW t \in Insts, JumpsTo(EntryAt(buf, a), t)
    PROVE  Same(t, a)
<1> DEFINE e == EntryAt(buf, a)
           b == table[t + 1]
<1>1. e \in Heads /\ e.op \in {"Jump", "Ret"} /\ (e.op = "Ret" => Inst(Lands(t)).op = "Ret")
      /\ (e.op = "Jump" => OnwardAt(e) = EntryAt(buf, b))
  BY JumpsToFacts DEF Ent
<1>2. Same(t, b)
  BY SameAtTable
<1>3. LandsAt(a) \in Heads /\ (e \notin JumpHeads => LandsAt(a) = e)
  BY <1>1, LandsAtFacts
<1>4. OnwardAt(e) = EntryAt(buf, b) /\ (LandsAt(a) \notin JumpHeads \/ LandsAt(b) \notin JumpHeads)
      => LandsAt(a) = LandsAt(b)
  BY <1>1, LandsAtFacts
<1> HIDE DEF e
<1>5. CASE e.op = "Ret"
  <2>1. LandsAt(a).op = "Ret" /\ Inst(Lands(t)).op = "Ret"
    BY <1>1, <1>3, <1>5 DEF JumpHeads
  <2> QED
    BY <2>1 DEF Same, Silent
<1>6. CASE e.op = "Jump"
  <2>1. CASE LandsAt(a) = LandsAt(b)
    <3> HIDE DEF b
    <3> QED
      BY <1>2, <2>1 DEF Same
  <2>2. CASE LandsAt(a) # LandsAt(b)
    <3>1. LandsAt(a).op = "Jump" /\ LandsAt(b).op = "Jump"
      BY <1>1, <1>4, <1>6, <2>2 DEF JumpHeads
    <3>2. Inst(Lands(t)).op \in Silent
      BY <1>2, <3>1 DEF Same
    <3> QED
      BY <3>1, <3>2 DEF Same
  <2> QED
    BY <2>1, <2>2
<1> QED
  BY <1>1, <1>5, <1>6

-----------------------------------------------------------------------------
(***************************************************************************)
(* What the second pass makes of the operands.                             *)
(***************************************************************************)
IsList(N, s) == s = [n \in 1..N |-> s[n]]

\* A function on 1..N is a sequence.
LEMMA ListFacts ==
    ASSUME NEW N \in Nat, NEW s, IsList(N, s)
    PROVE  IsSeq(s) /\ Len(s) = N /\ DOMAIN s = 1..N
  BY DEF IsSeq, IsList

IsPatched(r, N, data, last, new) ==
    IsList(N, new) /\ \A n \in 1..N : new[n] = IF n = last THEN Relative(r)[data[n]] ELSE data[n]

\* One operand is replaced.
LEMMA PatchedFacts ==
    ASSUME NEW r, NEW N \in Nat, NEW data, IsList(N, data), NEW k \in Nat, k < N
    PROVE  IsPatched(r, N, data, N - k, Patched(r, data, k))
<1>1. Len(data) = N /\ DOMAIN data = 1..N
  BY ListFacts
<1>2. Patched(r, data, k) = [data EXCEPT ![N - k] = Relative(r)[@]]
  BY <1>1 DEF Patched
<1>3. N - k \in 1..N
  OBVIOUS
<1> QED
  BY <1>1, <1>2, <1>3 DEF IsList, IsPatched

\* The operands with an address are the last ones of four instructions.
LEMMA OperandFacts ==
    ASSUME NEW op \in FileOpcodes \ {"First", "Jump", "Ret"}, NEW kinds, kinds = Operands(op)
    PROVE  /\ IsList(Len(kinds), kinds) /\ Len(kinds) \in Nat /\ DOMAIN kinds = 1..Len(kinds)
           /\ op = "Call" => Len(kinds) = 2 /\ \A n \in 1..2 : kinds[n] \in Size4
           /\ op \in {"Alt", "Lookup", "TLookup"} =>
                 Len(kinds) > 0 /\ \A n \in 1..Len(kinds) : kinds[n] \in Size4 <=> n = Len(kinds)
           /\ op \notin {"Call", "Alt", "Lookup", "TLookup"} => \A n \in 1..Len(kinds) : kinds[n] \notin Size4
           /\ ~ UseProd => Written(op) = kinds
<1>0. ASSUME NEW S, kinds \in Seq(S)
      PROVE  IsList(Len(kinds), kinds) /\ Len(kinds) \in Nat /\ DOMAIN kinds = 1..Len(kinds)
  BY <1>0 DEF IsList
<1>1. CASE op = "Call"
  <2>1. kinds = <<"next", "jump">>
    BY <1>1 DEF Operands, Chars, Strings, BitSets, Shifts, Tags, Symbols, Memos, Jumps
  <2>2. ~ UseProd => Written(op) = kinds
    BY <1>1, <2>1 DEF Written, Chars, Strings, BitSets, Shifts, Tags, Symbols, Memos, Jumps
  <2>3. kinds \in Seq({"next", "jump"}) /\ Len(kinds) = 2 /\ kinds[1] = "next" /\ kinds[2] = "jump"
    BY <2>1
  <2>4. \A n \in 1..2 : kinds[n] \in Size4
    BY <2>3 DEF Size4
  <2> QED
    BY <1>0, <1>1, <2>2, <2>3, <2>4
<1>2. CASE op = "Alt"
  <2>1. kinds = <<"jump">>
    BY <1>2 DEF Operands, Chars, Strings, BitSets, Shifts, Tags, Symbols, Memos, Jumps
  <2>2. Written(op) = kinds
    BY <1>2, <2>1 DEF Written, Chars, Strings, BitSets, Shifts, Tags, Symbols, Memos, Jumps
  <2>3. kinds \in Seq({"jump"}) /\ Len(kinds) = 1 /\ kinds[1] = "jump"
    BY <2>1
  <2>4. \A n \in 1..Len(kinds) : kinds[n] \in Size4 <=> n = Len(kinds)
    BY <2>3 DEF Size4
  <2> QED
    BY <1>0, <1>2, <2>2, <2>3, <2>4
<1>3. CASE op = "Lookup"
  <2>1. kinds = <<"state", "memo", "jump">>
    BY <1>3 DEF Operands, Chars, Strings, BitSets, Shifts, Tags, Symbols, Memos, Jumps
  <2>2. Written(op) = kinds
    BY <1>3, <2>1 DEF Written, Chars, Strings, BitSets, Shifts, Tags, Symbols, Memos, Jumps
  <2>3. kinds \in Seq({"state", "memo", "jump"}) /\ Len(kinds) = 3 /\ kinds[1] = "state" /\ kinds[2] = "memo" /\ kinds[3] = "jump"
    BY <2>1
  <2>4. \A n \in 1..Len(kinds) : kinds[n] \in Size4 <=> n = Len(kinds)
    BY <2>3 DEF Size4
  <2> QED
    BY <1>0, <1>3, <2>2, <2>3, <2>4
<1>4. CASE op = "TLookup"
  <2>1. kinds = <<"state", "tag", "memo", "jump">>
    BY <1>4 DEF Operands, Chars, Strings, BitSets, Shifts, Tags, Symbols, Memos, Jumps
  <2>2. Written(op) = kinds
    BY <1>4, <2>1 DEF Written, Chars, Strings, BitSets, Shifts, Tags, Symbols, Memos, Jumps
  <2>3. /\ kinds \in Seq({"state", "tag", "memo", "jump"}) /\ Len(kinds) = 4 /\ kinds[1] = "state" /\ kinds[2] = "tag"
        /\ kinds[3] = "memo" /\ kinds[4] = "jump"
    BY <2>1
  <2>4. \A n \in 1..Len(kinds) : kinds[n] \in Size4 <=> n = Len(kinds)
    BY <2>3 DEF Size4
  <2> QED
    BY <1>0, <1>4, <2>2, <2>3, <2>4
<1>5. CASE op \notin {"Call", "Alt", "Lookup", "TLookup"}
  <2>1. kinds \in {<<"byte">>, <<"str">>, <<"set">>, <<"shift">>, <<"tag">>, <<"table">>, <<"state", "memo">>,
                   <<"tblId">>, <<"status">>, <<"shift", "tag">>, <<"table", "str">>, <<>>}
    BY <1>5 DEF Operands
  <2>2. op \in Opcodes
    BY OpcodesAreOpcodes
  <2>3. Written(op) = kinds
    BY <1>5, <2>2 DEF Operands, Written, Opcodes, Chars, Strings, BitSets, Shifts, Tags, Symbols,
         Memos, Jumps, Others
  <2>4. \E S : kinds \in Seq(S)
    <3>1. kinds = <<>> \/ (\E a : kinds = <<a>>) \/ (\E a, b : kinds = <<a, b>>)
      BY <2>1
    <3>2. CASE kinds = <<>>
      BY <3>2
    <3>3. CASE \E a : kinds = <<a>>
      <4>1. PICK a : kinds = <<a>>
        BY <3>3
      <4>2. kinds \in Seq({a})
        BY <4>1
      <4> QED
        BY <4>2
    <3>4. CASE \E a, b : kinds = <<a, b>>
      <4>1. PICK a, b : kinds = <<a, b>>
        BY <3>4
      <4>2. kinds \in Seq({a, b})
        BY <4>1
      <4> QED
        BY <4>2
    <3> QED
      BY <3>1, <3>2, <3>3, <3>4
  <2>5. \A n \in 1..Len(kinds) : kinds[n] \notin Size4
    BY <2>1 DEF Size4
  <2> QED
    BY <1>0, <1>5, <2>3, <2>4, <2>5
<1> QED
  BY <1>1, <1>2, <1>3, <1>4, <1>5

\* The operands are the ones of the file, and addresses in the place of targets.
LEMMA LinkedOperands ==
    ASSUME ~ UseProd, NEW x, x.op \in FileOpcodes \ {"First", "Jump", "Ret"},
           "memo" \in Range(Operands(x.op)) => x.data.memo \in Nat /\ x.data.memo < 65536,
           NEW m, NEW pls, IsMain(m, x, pls),
           NEW n \in DOMAIN Operands(x.op)
    PROVE  LET kind == Operands(x.op)[n] IN
           Linked(m).data[n] = IF kind \in Size4 THEN Relative(m)[x.data[kind]] ELSE x.data[kind]
<1> DEFINE kinds == Operands(x.op)
           N     == Len(kinds)
           data  == [k \in DOMAIN Written(x.op) |-> Value(x, Written(x.op)[k])]
<1>0. x.op \in FileOpcodes \ {"First", "Jump", "Ret"} /\ kinds = Operands(x.op)
  OBVIOUS
<1>k. "memo" \in Range(kinds) => x.data.memo \in Nat /\ x.data.memo < 65536
  OBVIOUS
<1>n. n \in DOMAIN kinds
  OBVIOUS
<1> HIDE DEF kinds
<1>1. IsList(N, kinds) /\ N \in Nat /\ DOMAIN kinds = 1..N /\ Written(x.op) = kinds
  BY <1>0, OperandFacts
<1>c. x.op = "Call" => N = 2 /\ \A k \in 1..2 : kinds[k] \in Size4
  BY <1>0, OperandFacts
<1>j. x.op \in {"Alt", "Lookup", "TLookup"} => N > 0 /\ \A k \in 1..N : kinds[k] \in Size4 <=> k = N
  BY <1>0, OperandFacts
<1>o. x.op \notin {"Call", "Alt", "Lookup", "TLookup"} => \A k \in 1..N : kinds[k] \notin Size4
  BY <1>0, OperandFacts
<1> HIDE DEF N
<1>2. m.op = x.op /\ m.data = data /\ IsList(N, data) /\ \A new : [m EXCEPT !.data = new].data = new
  <2>1. data = [k \in 1..N |-> Value(x, Written(x.op)[k])]
    BY <1>1
  <2>2. m = Code(x.op, m.at, data)
    BY <1>0 DEF IsMain
  <2> HIDE DEF data, N
  <2>3. IsList(N, data)
    BY <2>1 DEF IsList
  <2> QED
    BY <2>2, <2>3 DEF Code
<1>3. ASSUME NEW k \in 1..N PROVE data[k] = x.data[kinds[k]]
  <2>1. data[k] = Value(x, kinds[k])
    BY <1>1
  <2>2. CASE kinds[k] = "memo"
    <3>1. "memo" \in Range(kinds)
      BY <1>1, <2>2 DEF Range
    <3>2. x.data.memo \in Nat /\ x.data.memo < 65536
      BY <1>k, <3>1
    <3>3. x.data.memo % 65536 = x.data.memo
      BY <3>2
    <3>4. Value(x, "memo") = x.data.memo % 65536
      BY DEF Value
    <3> QED
      BY <2>1, <2>2, <3>3, <3>4
  <2>3. CASE kinds[k] # "memo"
    BY <2>1, <2>3 DEF Value
  <2> QED
    BY <2>2, <2>3
<1>w. N \in Nat /\ n \in 1..N
  BY <1>1, <1>n
<1> HIDE DEF data, kinds, N
<1>i. IsList(N, data) /\ N \in Nat
  BY <1>2, <1>w
<1>4. \A new : [m EXCEPT !.data = new].data = new
  BY <1>2
<1>5. CASE x.op = "Call"
  <2>1. N = 2 /\ \A k \in 1..2 : kinds[k] \in Size4
    BY <1>c, <1>5
  <2> DEFINE first == Patched(m, data, 1)
             both  == Patched(m, first, 0)
  <2>2. Linked(m) = [m EXCEPT !.data = Patched(m, Patched(m, m.data, 1), 0)]
    BY <1>2, <1>5 DEF Linked
  <2>3. Linked(m).data = both
    <3>1. Linked(m) = [m EXCEPT !.data = both]
      BY <1>2, <2>2
    <3> HIDE DEF both
    <3> QED
      BY <1>4, <3>1
  <2>n. 1 \in Nat /\ 1 < N /\ 0 \in Nat /\ 0 < N
    BY <2>1
  <2>4. IsPatched(m, N, data, N - 1, first)
    BY <1>i, <2>n, PatchedFacts
  <2> HIDE DEF first
  <2>l. IsList(N, first)
    BY <2>4 DEF IsPatched
  <2>5. IsPatched(m, N, first, N - 0, both)
    BY <1>i, <2>n, <2>l, PatchedFacts
  <2> HIDE DEF both
  <2>6. both[n] = Relative(m)[data[n]] /\ kinds[n] \in Size4
    BY <1>w, <2>1, <2>4, <2>5 DEF IsPatched
  <2> QED
    BY <1>w, <1>3, <2>3, <2>6 DEF kinds
<1>6. CASE x.op \in {"Alt", "Lookup", "TLookup"}
  <2>1. N > 0 /\ \A k \in 1..N : kinds[k] \in Size4 <=> k = N
    BY <1>j, <1>6
  <2>2. Linked(m) = [m EXCEPT !.data = Patched(m, m.data, 0)]
    BY <1>2, <1>6 DEF Linked
  <2>3. Linked(m).data = Patched(m, data, 0)
    <3> DEFINE both == Patched(m, data, 0)
    <3>1. Linked(m) = [m EXCEPT !.data = both]
      BY <1>2, <2>2
    <3> HIDE DEF both
    <3>2. Linked(m).data = both
      BY <1>4, <3>1
    <3> QED
      BY <3>2 DEF both
  <2>n. 0 \in Nat /\ 0 < N
    BY <1>i, <2>1
  <2>4. IsPatched(m, N, data, N - 0, Patched(m, data, 0))
    BY <1>i, <2>n, PatchedFacts
  <2>5. Linked(m).data[n] = IF kinds[n] \in Size4 THEN Relative(m)[data[n]] ELSE data[n]
    BY <1>w, <2>1, <2>3, <2>4 DEF IsPatched
  <2> QED
    BY <1>w, <1>3, <2>5 DEF kinds
<1>7. CASE x.op \notin {"Call", "Alt", "Lookup", "TLookup"}
  <2>1. Linked(m) = m
    BY <1>2, <1>7 DEF Linked
  <2>2. kinds[n] \notin Size4
    BY <1>o, <1>w, <1>7
  <2> QED
    BY <1>2, <1>w, <1>3, <2>1, <2>2 DEF kinds
<1> QED
  BY <1>5, <1>6, <1>7

-----------------------------------------------------------------------------
(***************************************************************************)
(* Every instruction is in the loaded code.                                *)
(***************************************************************************)
\* m was written for i, and is followed by the code that follows i.
IsCodeOf(m, i, raw, rawpools) ==
    /\ Has(raw, m) /\ IsMain(m, Inst(i), rawpools) /\ m.op # "Jump"
    /\ Ent(i) = Linked(m) /\ Ent(i).op = m.op /\ EndOf(Ent(i)) = m.at + Width[m.op]
    /\ m.at \in Nat /\ Width[m.op] \in Nat /\ m.at < j
    /\ Falls(Inst(i)) => Same(After(i), EndOf(Ent(i)))

\* Every instruction that is not silent has its code.
LEMMA CodeOfInst ==
    ASSUME ~ UseProd, NEW raw, NEW rawpools, Loaded(raw, rawpools), NEW i \in Insts \ Silents
    PROVE  \E m : IsCodeOf(m, i, raw, rawpools)
<1> DEFINE x == Inst(i)
           e == Ent(i)
<1>1. /\ FileInv /\ file \in Files /\ Len(table) = Len(file.insts) /\ RawInv(raw, table, rawpools)
      /\ i \in Insts
  BY DEF Loaded, LoadInv, FileInv
<1>2. i \in Nat /\ i < Len(table) /\ Len(table) \in Nat
  BY <1>1, FlowFacts DEF Insts
<1>3. Placed(raw, rawpools, x, table[i + 1], NextAt(raw, table, i))
  BY <1>1, <1>2 DEF RawInv
<1>4. x.op \notin Silent /\ x.op \notin Dropped /\ x.op # "Jump"
  BY DEF Silents, Silent, Dropped
<1>5. PICK mid :
        /\ \E m : Has(raw, m) /\ m.at = table[i + 1] /\ IsMain(m, x, rawpools) /\ mid = table[i + 1] + WrittenWidth[m.op]
        /\ x.next = None => NextAt(raw, table, i) = mid
        /\ x.next # None => Has(raw, Code("Jump", mid, <<x.next>>))
  BY <1>3, <1>4 DEF Placed
<1>6. PICK m : Has(raw, m) /\ m.at = table[i + 1] /\ IsMain(m, x, rawpools) /\ mid = table[i + 1] + WrittenWidth[m.op]
  BY <1>5
<1>7. m.op # "Jump"
  BY <1>4, <1>6, MainKind
<1>8. /\ EntryAt(buf, m.at).at = m.at /\ IsLinked(m, EntryAt(buf, m.at)) /\ IsCode(m) /\ m.at < j
      /\ WrittenWidth[m.op] \in Nat /\ Width[m.op] = WrittenWidth[m.op]
  BY <1>6, EntryFacts
<1>9. e = EntryAt(buf, m.at)
  BY <1>6 DEF Ent
<1> HIDE DEF e
<1>10. e.at = m.at /\ e = Linked(m) /\ e.op = m.op
  BY <1>7, <1>8, <1>9, LinkedKeepsOp DEF IsLinked
<1>11. EndOf(e) = m.at + Width[m.op] /\ EndOf(e) = mid /\ m.at \in Nat /\ Width[m.op] \in Nat
  BY <1>6, <1>8, <1>10 DEF EndOf, IsCode
<1>12. After(i) = IF x.next # None THEN x.next ELSE i + 1
  BY <1>4 DEF After
<1>13. /\ x.next \in Insts \cup {None}
       /\ Falls(x) /\ x.op # "Jump" /\ x.next = None => i + 1 \in Insts
  BY <1>1, FlowFacts
<1> HIDE DEF x
<1>14. ASSUME Falls(x) PROVE Same(After(i), mid)
  <2>1. CASE x.next = None
    <3>1. i + 1 \in Insts /\ After(i) = i + 1
      BY <1>4, <1>12, <1>13, <1>14, <2>1
    <3>2. i + 1 < Len(table) /\ (i + 1) + 1 = i + 2
      BY <1>1, <1>2, <3>1 DEF Insts
    <3>3. mid = table[(i + 1) + 1]
      BY <1>5, <2>1, <3>2 DEF NextAt
    <3> QED
      BY <3>1, <3>3, SameAtTable
  <2>2. CASE x.next # None
    <3>1. x.next \in Insts /\ After(i) = x.next
      BY <1>12, <1>13, <2>2
    <3>2. JumpsTo(EntryAt(buf, mid), x.next)
      BY <1>5, <2>2, <3>1, JumpEntry
    <3> QED
      BY <3>1, <3>2, SameAtJump
  <2> QED
    BY <2>1, <2>2
<1>15. IsCodeOf(m, i, raw, rawpools)
  BY <1>6, <1>7, <1>8, <1>10, <1>11, <1>14 DEF IsCodeOf, x, e
<1> QED
  BY <1>15

\* The operands of the loaded code are those of the file.
LEMMA OperandsAreSame ==
    ASSUME ~ UseProd, NEW raw, NEW rawpools, Loaded(raw, rawpools), NEW i \in Insts \ Silents,
           Inst(i).op \notin {"First", "Ret"}
    PROVE  Inst(i).op = Ent(i).op /\ SameOperands(Inst(i), Ent(i))
<1> DEFINE x == Inst(i)
           e == Ent(i)
<1>1. FileInv /\ file \in Files /\ Len(table) = Len(file.insts) /\ i \in Insts
  BY DEF Loaded, LoadInv, FileInv
<1>2. PICK m : IsCodeOf(m, i, raw, rawpools)
  BY CodeOfInst
<1>3. /\ IsMain(m, x, rawpools) /\ e = Linked(m) /\ e.op = m.op /\ EndOf(e) = m.at + Width[m.op]
      /\ m.at \in Nat /\ Width[m.op] \in Nat
  BY <1>2 DEF IsCodeOf
<1>4. x.op \notin Silent
  BY DEF Silents
<1>5. x.op \in FileOpcodes \ {"First", "Jump", "Ret"}
  BY <1>1, <1>4, FlowFacts DEF Silent
<1>6. "memo" \in Range(Operands(x.op)) => x.data.memo \in Nat /\ x.data.memo < 65536
  BY <1>1, FlowFacts
<1>7. x.op # "Ret" => \A kind \in {"next", "jump"} : kind \in Range(Operands(x.op)) => x.data[kind] \in Insts
  BY <1>1, FlowFacts
<1>8. m.op = x.op
  BY <1>3, <1>4, <1>5, MainKind
<1> HIDE DEF x, e
<1>9. ASSUME NEW n \in DOMAIN Operands(x.op)
      PROVE  LET kind == Operands(x.op)[n] IN
             IF kind \in Size4 THEN SameControl(x.data[kind], EndOf(e) + e.data[n]) ELSE e.data[n] = x.data[kind]
  <2> DEFINE kind == Operands(x.op)[n]
  <2>1. Linked(m).data[n] = IF kind \in Size4 THEN Relative(m)[x.data[kind]] ELSE x.data[kind]
    BY <1>3, <1>5, <1>6, LinkedOperands
  <2>2. kind \in Range(Operands(x.op))
    BY DEF Range
  <2> HIDE DEF kind
  <2>3. CASE kind \in Size4
    <3> DEFINE t == x.data[kind]
    <3>1. t \in Insts
      BY <1>5, <1>7, <2>2, <2>3 DEF Size4
    <3> HIDE DEF t
    <3>2. Relative(m)[t] = table[t + 1] - (m.at + Width[m.op]) /\ table[t + 1] \in Nat
      BY <1>1, <3>1, TableFacts
    <3>3. e.data[n] = table[t + 1] - (m.at + Width[m.op])
      BY <1>3, <2>1, <2>3, <3>2 DEF t
    <3>4. EndOf(e) + e.data[n] = table[t + 1]
      BY <1>3, <3>2, <3>3
    <3>5. SameControl(t, table[t + 1])
      BY <3>1, SameAtTable, SameIsSameControl
    <3> QED
      BY <2>3, <3>4, <3>5 DEF t, kind
  <2>4. CASE kind \notin Size4
    BY <1>3, <2>1, <2>4 DEF kind
  <2> QED
    BY <2>3, <2>4
<1>10. SameOperands(x, e)
  BY <1>9 DEF SameOperands
<1> QED
  BY <1>3, <1>8, <1>10 DEF x, e

-----------------------------------------------------------------------------
(***************************************************************************)
(* The jumps of a First.                                                   *)
(***************************************************************************)
Added(found, jump) == IF Contains(found, jump) THEN found ELSE Append(found, jump)

IsFound(c, jumps, N) == c = [n \in 0..N |-> IF n = 0 THEN <<>> ELSE Added(c[n - 1], jumps[n - 1])]

\* The list of distinct jumps is well defined.
LEMMA FoundExists ==
    ASSUME NEW jumps, NEW M \in Nat
    PROVE  \E c : IsFound(c, jumps, M)
<1> DEFINE Good == {k \in Nat : \E c : IsFound(c, jumps, k)}
<1>1. 0 \in Good
  <2> DEFINE c == [n \in 0..0 |-> <<>>]
  <2>1. c = [n \in 0..0 |-> IF n = 0 THEN <<>> ELSE Added(c[n - 1], jumps[n - 1])]
    OBVIOUS
  <2> HIDE DEF c
  <2>2. IsFound(c, jumps, 0)
    BY <2>1 DEF IsFound
  <2> QED
    BY <2>2
<1>2. ASSUME NEW k \in Good PROVE k + 1 \in Good
  <2>1. k \in Nat /\ \E c : IsFound(c, jumps, k)
    OBVIOUS
  <2>2. PICK c : IsFound(c, jumps, k)
    BY <2>1
  <2>3. \A n \in 0..k : c[n] = IF n = 0 THEN <<>> ELSE Added(c[n - 1], jumps[n - 1])
    BY <2>1, <2>2 DEF IsFound
  <2> DEFINE g == [n \in 0..k + 1 |-> IF n = k + 1 THEN Added(c[k], jumps[k]) ELSE c[n]]
  <2>4. /\ \A n \in 0..k : g[n] = c[n]
        /\ g[k + 1] = Added(c[k], jumps[k]) /\ g = [n \in 0..k + 1 |-> g[n]]
    BY <2>1
  <2> HIDE DEF g
  <2>5. ASSUME NEW n \in 0..k + 1 PROVE g[n] = IF n = 0 THEN <<>> ELSE Added(g[n - 1], jumps[n - 1])
    <3>1. CASE n = k + 1
      <4>1. n # 0 /\ n - 1 = k /\ k \in 0..k
        BY <2>1, <3>1
      <4> QED
        BY <4>1, <3>1, <2>4
    <3>2. CASE n # k + 1
      <4>1. n \in 0..k /\ (n # 0 => n - 1 \in 0..k)
        BY <2>1, <3>2
      <4> QED
        BY <4>1, <2>3, <2>4
    <3> QED
      BY <3>1, <3>2
  <2>6. IsFound(g, jumps, k + 1)
    BY <2>4, <2>5 DEF IsFound
  <2> QED
    BY <2>1, <2>6
<1>3. Good = Nat
  <2> HIDE DEF Good
  <2>1. Good \in SUBSET Nat
    BY DEF Good
  <2> QED
    BY <1>1, <1>2, <2>1, InductionInSet
<1> QED
  BY <1>3

\* list has every one of the first n jumps, and none twice.
Lists(list, jumps, n) ==
    /\ IsSeq(list)
    /\ \A p, q \in 1..Len(list) : list[p] = list[q] => p = q
    /\ \A k \in 0..n-1 : \E p \in 1..Len(list) : list[p] = jumps[k]

\* One more jump is listed.
LEMMA AddedLists ==
    ASSUME NEW list, NEW jumps, NEW n \in Nat, Lists(list, jumps, n)
    PROVE  Lists(Added(list, jumps[n]), jumps, n + 1)
<1> DEFINE x == jumps[n]
<1>1. IsSeq(list) /\ Len(list) \in Nat
  BY SeqFacts DEF Lists
<1>2. \A k \in 0..(n + 1)-1 : k = n \/ k \in 0..n-1
  OBVIOUS
<1>3. CASE Contains(list, x)
  <2>1. \E p \in 1..Len(list) : list[p] = x
    BY <1>3 DEF Contains
  <2>2. Added(list, x) = list
    BY <1>3 DEF Added
  <2>3. \A k \in 0..(n + 1)-1 : \E p \in 1..Len(list) : list[p] = jumps[k]
    BY <1>2, <2>1 DEF Lists
  <2> QED
    BY <2>2, <2>3 DEF Lists
<1>4. CASE ~ Contains(list, x)
  <2> DEFINE new == Append(list, x)
  <2>1. \A p \in 1..Len(list) : list[p] # x
    BY <1>4 DEF Contains
  <2>2. Added(list, x) = new
    BY <1>4 DEF Added
  <2>3. /\ IsSeq(new) /\ Len(new) = Len(list) + 1
        /\ \A p \in 1..Len(list) : new[p] = list[p]
        /\ new[Len(list) + 1] = x
    BY <1>1, AppendFacts
  <2> HIDE DEF new
  <2>4. \A p \in 1..Len(new) : p = Len(list) + 1 \/ p \in 1..Len(list)
    BY <1>1, <2>3
  <2>5. \A p, q \in 1..Len(new) : new[p] = new[q] => p = q
    <3> SUFFICES ASSUME NEW p \in 1..Len(new), NEW q \in 1..Len(new), new[p] = new[q] PROVE p = q
      OBVIOUS
    <3>1. CASE p \in 1..Len(list) /\ q \in 1..Len(list)
      BY <2>3, <3>1 DEF Lists
    <3>2. CASE ~ (p \in 1..Len(list) /\ q \in 1..Len(list))
      BY <2>1, <2>3, <2>4, <3>2
    <3> QED
      BY <3>1, <3>2
  <2>6. ASSUME NEW k \in 0..(n + 1)-1 PROVE \E p \in 1..Len(new) : new[p] = jumps[k]
    <3>1. CASE k = n
      <4>1. Len(list) + 1 \in 1..Len(new)
        BY <1>1, <2>3
      <4> QED
        BY <2>3, <3>1, <4>1
    <3>2. CASE k \in 0..n-1
      <4>1. PICK p \in 1..Len(list) : list[p] = jumps[k]
        BY <3>2 DEF Lists
      <4>2. p \in 1..Len(new)
        BY <1>1, <2>3
      <4> QED
        BY <2>3, <4>1, <4>2
    <3> QED
      BY <1>2, <3>1, <3>2
  <2> QED
    BY <2>2, <2>3, <2>5, <2>6 DEF Lists
<1> QED
  BY <1>3, <1>4

\* Targets lists every jump once.
LEMMA TargetsFacts ==
    ASSUME NEW jumps
    PROVE  Lists(Targets(jumps), jumps, TableSize + 1)
<1> DEFINE N == TableSize + 1
           Is(c) == c = [n \in 0..N |-> IF n = 0 THEN <<>>
                                        ELSE IF Contains(c[n - 1], jumps[n - 1]) THEN c[n - 1]
                                        ELSE Append(c[n - 1], jumps[n - 1])]
           found == CHOOSE c : Is(c)
<1>1. N \in Nat
  BY BitSetAssumption
<1>2. Targets(jumps) = found[N]
  BY DEF Targets
<1>3. \A c : IsFound(c, jumps, N) <=> Is(c)
  BY DEF IsFound, Added
<1> HIDE DEF N, Is
<1>4. Is(found)
  <2>1. PICK c : IsFound(c, jumps, N)
    BY <1>1, FoundExists
  <2> QED
    BY <1>3, <2>1
<1> HIDE DEF found
<1>5. IsFound(found, jumps, N)
  BY <1>3, <1>4
<1>6. \A n \in 0..N : found[n] = IF n = 0 THEN <<>> ELSE Added(found[n - 1], jumps[n - 1])
  BY <1>5 DEF IsFound
<1> DEFINE Good == {n \in Nat : n <= N => Lists(found[n], jumps, n)}
<1>7. 0 \in Good
  <2>1. found[0] = <<>>
    BY <1>1, <1>6
  <2>2. IsSeq(<<>>) /\ Len(<<>>) = 0
    BY DEF IsSeq
  <2>3. Lists(<<>>, jumps, 0)
    BY <2>2 DEF Lists
  <2> QED
    BY <2>1, <2>3
<1>8. ASSUME NEW n \in Good PROVE n + 1 \in Good
  <2>1. n \in Nat /\ (n <= N => Lists(found[n], jumps, n))
    OBVIOUS
  <2>2. n + 1 <= N => n + 1 \in 0..N /\ n + 1 # 0 /\ n <= N /\ (n + 1) - 1 = n
    BY <1>1, <2>1
  <2>3. n + 1 <= N => found[n + 1] = Added(found[n], jumps[n])
    BY <1>6, <2>2
  <2>4. n + 1 <= N => Lists(found[n + 1], jumps, n + 1)
    BY <2>1, <2>2, <2>3, AddedLists
  <2> QED
    BY <2>1, <2>4
<1>9. Good = Nat
  <2> HIDE DEF Good
  <2>1. Good \in SUBSET Nat
    BY DEF Good
  <2> QED
    BY <1>7, <1>8, <2>1, InductionInSet
<1>10. N \in Good /\ N <= N
  <2> HIDE DEF Good
  <2> QED
    BY <1>1, <1>9
<1>11. Lists(found[N], jumps, N)
  BY <1>10
<1> QED
  BY <1>2, <1>11 DEF N

\* A table of bits has room for the distinct jumps.
LEMMA TableOfFacts ==
    ASSUME NEW size \in Nat
    PROVE  TableOf(size) \in {0, 1, 2, 3} /\ (TableOf(size) # 0 => size \in 0..Size[TableOf(size)])
  BY DEF TableOf, Size

\* The two cases of First.
LEMMA FirstFacts ==
    ASSUME NEW all
    PROVE  LET target == Targets(all)
               size   == Len(target)
               n      == TableOf(size)
               jumps  == [ch \in Bytes |-> all[ch]]
           IN  /\ n = 0 => First(all).op = "First" /\ First(all).table = jumps
               /\ n # 0 => First(all).op # "First" /\
                     First(all).table =
                        jump_table_init(n, Padded(n, [i \in 0..size-1 |-> target[i + 1]], size), jumps)
<1> DEFINE target == Targets(all)
           size   == Len(target)
           n      == TableOf(size)
           jumps  == [ch \in Bytes |-> all[ch]]
           tbl    == jump_table_init(n, Padded(n, [i \in 0..size-1 |-> target[i + 1]], size), jumps)
<1>1. First(all) = IF n = 0 THEN [op |-> "First", table |-> jumps]
                   ELSE [op |-> <<"TblJump1", "TblJump2", "TblJump3">>[n], table |-> tbl]
  BY DEF First
<1>2. n \in {0, 1, 2, 3}
  BY DEF TableOf
<1> HIDE DEF n, jumps, tbl, target, size
<1>3. n # 0 => <<"TblJump1", "TblJump2", "TblJump3">>[n] # "First"
  BY <1>2
<1>4. /\ n = 0 => First(all).op = "First" /\ First(all).table = jumps
      /\ n # 0 => First(all).op # "First" /\ First(all).table = tbl
  BY <1>1, <1>3
<1> QED
  BY <1>4 DEF n, jumps, tbl, target, size

\* With addresses, the table jumps where the First does.
LEMMA FirstJumps ==
    ASSUME NEW all, NEW addr, NEW ch \in Bytes, all[ch] # 0
    PROVE  LET tbl == First(all).table IN
           /\ First(all).op = "First" => [c \in Bytes |-> addr[tbl[c]]][ch] = addr[all[ch]]
           /\ First(all).op # "First" => jump_table_jump(encode_jumps(tbl, addr), ch) = addr[all[ch]]
<1> DEFINE target == Targets(all)
           size   == Len(target)
           n      == TableOf(size)
           jumps  == [c \in Bytes |-> all[c]]
           list   == [i \in 0..size-1 |-> target[i + 1]]
           tbl    == First(all).table
<1>1. /\ n = 0 => First(all).op = "First" /\ tbl = jumps
      /\ n # 0 => First(all).op # "First" /\ tbl = jump_table_init(n, Padded(n, list, size), jumps)
  BY FirstFacts
<1>2. DOMAIN jumps = Bytes /\ \A c \in Bytes : jumps[c] = all[c]
  OBVIOUS
<1>3. Lists(target, all, TableSize + 1)
  BY TargetsFacts
<1> HIDE DEF target
<1>4. size \in Nat
  BY <1>3, SeqFacts DEF Lists
<1>5. n \in {0, 1, 2, 3} /\ (n # 0 => size \in 0..Size[n])
  BY <1>4, TableOfFacts
<1>6. \A k \in 0..size-1 : list[k] = target[k + 1] /\ k + 1 \in 1..Len(target)
  BY <1>4
<1>s. size = Len(target)
  OBVIOUS
<1> HIDE DEF n, jumps, list, tbl, size
<1>7. \A k, l \in 0..size-1 : list[k] = list[l] => k = l
  <2> SUFFICES ASSUME NEW k \in 0..size-1, NEW l \in 0..size-1, list[k] = list[l] PROVE k = l
    OBVIOUS
  <2>1. k + 1 = l + 1
    BY <1>3, <1>6 DEF Lists
  <2> QED
    BY <1>4, <2>1
<1>8. \A c \in DOMAIN jumps : \E k \in 0..size-1 : list[k] = jumps[c]
  <2> SUFFICES ASSUME NEW c \in Bytes PROVE \E k \in 0..size-1 : list[k] = all[c]
    BY <1>2
  <2>1. c \in 0..(TableSize + 1)-1
    BY BitSetAssumption DEF Bytes
  <2>2. PICK p \in 1..Len(target) : target[p] = all[c]
    BY <1>3, <2>1 DEF Lists
  <2>3. p - 1 \in 0..size-1 /\ (p - 1) + 1 = p
    BY <1>4, <1>s
  <2> QED
    BY <1>6, <2>2, <2>3
<1>9. CASE n = 0
  BY <1>1, <1>2, <1>9 DEF tbl
<1>10. CASE n # 0
  <2>1. n \in 1..3 /\ size \in 0..Size[n] /\ ch \in DOMAIN jumps /\ jumps[ch] # 0
    BY <1>2, <1>5, <1>10
  <2>2. jump_table_jump(encode_jumps(jump_table_init(n, Padded(n, list, size), jumps), addr), ch) = addr[jumps[ch]]
    BY <1>7, <1>8, <2>1, LoadedTableIsExact
  <2> QED
    BY <1>1, <1>2, <1>10, <2>2 DEF tbl
<1> QED
  BY <1>9, <1>10

\* On every byte a loaded First goes where the file says.
LEMMA FirstIsSame ==
    ASSUME ~ UseProd, NEW raw, NEW rawpools, Loaded(raw, rawpools), NEW i \in Insts,
           Inst(i).op = "First"
    PROVE  LET x == Inst(i)
               e == Ent(i)
           IN  e.op \in Jumps /\ \A ch \in Bytes : SameControl(x.data.table[ch], EndOf(e) + JumpOn(e, ch))
<1> DEFINE x   == Inst(i)
           e   == Ent(i)
           all == x.data.table
           op  == First(all).op
<1>1. FileInv /\ file \in Files /\ Len(table) = Len(file.insts)
  BY DEF Loaded, LoadInv, FileInv
<1>2. i \in Insts \ Silents
  BY DEF Silents, Silent
<1>3. PICK m : IsCodeOf(m, i, raw, rawpools)
  BY <1>2, CodeOfInst
<1>4. /\ Has(raw, m) /\ IsMain(m, x, rawpools) /\ e = Linked(m) /\ e.op = m.op /\ EndOf(e) = m.at + Width[m.op]
      /\ m.at \in Nat /\ Width[m.op] \in Nat /\ m.at < j
  BY <1>3 DEF IsCodeOf
<1>5. PICK n \in Nat : /\ m = Code(op, m.at, <<n>>) /\ n < Len(rawpools[op])
                       /\ rawpools[op][n + 1] = First(all).table
  BY <1>4 DEF IsMain
<1>6. m.op = op /\ m.data = <<n>>
  BY <1>5 DEF Code
<1>7. op \in Jumps
  BY FirstIsJumps
<1> HIDE DEF op
<1>8. e = m
  BY <1>4, <1>6, <1>7 DEF Linked, Jumps
<1>9. pools[op][n + 1] = LinkedTable(m, First(all).table)
  <2>1. PICK k \in 1..Len(raw) : raw[k] = m
    BY <1>4 DEF Has
  <2>2. raw[k].op \in Jumps /\ raw[k].data = <<n>> /\ raw[k].at < j
    BY <1>4, <1>6, <1>7, <2>1
  <2>3. pools[raw[k].op][n + 1] = LinkedTable(raw[k], rawpools[raw[k].op][n + 1])
    BY <2>2 DEF Loaded, LinkedTo
  <2> QED
    BY <1>5, <1>6, <2>1, <2>3
<1>10. \A ch \in 0..TableSize : all[ch] \in Insts \ {0}
  BY <1>1, FlowFacts
<1> HIDE DEF x, e, all
<1>11. ASSUME NEW ch \in Bytes PROVE SameControl(all[ch], EndOf(e) + JumpOn(e, ch))
  <2>1. all[ch] \in Insts /\ all[ch] # 0
    <3>1. ch \in 0..TableSize
      BY BitSetAssumption DEF Bytes
    <3> QED
      BY <1>10, <3>1
  <2> DEFINE t   == all[ch]
             tbl == First(all).table
  <2>2. JumpOn(e, ch) = IF op = "First" THEN LinkedTable(m, tbl)[ch] ELSE jump_table_jump(LinkedTable(m, tbl), ch)
    BY <1>6, <1>8, <1>9 DEF JumpOn
  <2>3. /\ op = "First" => [c \in Bytes |-> Relative(m)[tbl[c]]][ch] = Relative(m)[t]
        /\ op # "First" => jump_table_jump(encode_jumps(tbl, Relative(m)), ch) = Relative(m)[t]
    BY <2>1, FirstJumps DEF op
  <2>4. LinkedTable(m, tbl) = IF op = "First" THEN [c \in Bytes |-> Relative(m)[tbl[c]]]
                              ELSE encode_jumps(tbl, Relative(m))
    BY <1>6 DEF LinkedTable
  <2> HIDE DEF tbl, t
  <2>5. JumpOn(e, ch) = Relative(m)[t]
    BY <2>2, <2>3, <2>4
  <2>6. t \in Insts
    BY <2>1 DEF t
  <2>7. Relative(m)[t] = table[t + 1] - (m.at + Width[m.op]) /\ table[t + 1] \in Nat
    BY <1>1, <2>6, TableFacts
  <2>8. EndOf(e) + JumpOn(e, ch) = table[t + 1]
    BY <1>4, <2>5, <2>7
  <2>9. SameControl(t, table[t + 1])
    BY <2>6, SameAtTable, SameIsSameControl
  <2> QED
    BY <2>8, <2>9 DEF t
<1> QED
  BY <1>4, <1>6, <1>7, <1>11 DEF x, e, all

-----------------------------------------------------------------------------
\* The second pass has come to the end.
DoneInv == phase = "done" => j \in Nat /\ j >= End(buf)

\* The second pass ends at the end of the buffer.
LEMMA DoneInvNext == LoadInv /\ WalkInv /\ DoneInv /\ [Next]_vars => DoneInv'
<1> SUFFICES ASSUME LoadInv, WalkInv, DoneInv, [Next]_vars PROVE DoneInv'
  OBVIOUS
<1>1. CASE Freeze
  <2>1. phase = "link" /\ j >= End(buf) /\ UNCHANGED <<buf, j>>
    BY <1>1 DEF Freeze
  <2>2. j \in Nat
    <3>1. End(buf) \in Nat
      BY EndIsAfter DEF LoadInv
    <3>2. \A k \in 1..Len(buf) : buf[k].at \in Nat
      BY DEF LoadInv, Tiled, IsCode
    <3> QED
      BY <2>1, <3>1, <3>2 DEF WalkInv
  <2> QED
    BY <2>1, <2>2 DEF DoneInv
<1>2. CASE UNCHANGED vars
  BY <1>2 DEF vars, DoneInv
<1>3. CASE Header \/ Section \/ LoadInst \/ StartLink \/ Link \/ DisposeRuntime \/ DisposeLoader
  <2>1. phase' # "done"
    BY <1>3 DEF Header, ReadHeader, Section, ReadSection, Sections, LoadInst, StartLink, Link,
                DisposeRuntime, DisposeLoader
  <2> QED
    BY <2>1 DEF DoneInv
<1> QED
  BY <1>1, <1>2, <1>3 DEF Next

\* mozvm_loader_load: whatever was dropped, inserted, rewritten or encoded,
\* the loaded code runs, instruction by instruction, branch by branch and byte
\* by byte, as the file says, in every build without MOZVM_USE_PROD.
THEOREM LoadedIsFaithful ==
    ASSUME ~ UseProd
    PROVE  Spec => []LoadedFaithfully
<1>1. Init => WalkInv /\ ProdsInv /\ LinkInv /\ DoneInv
  <2> SUFFICES ASSUME Init PROVE WalkInv /\ ProdsInv /\ LinkInv /\ DoneInv
    OBVIOUS
  <2>1. /\ phase = "header" /\ j = 0 /\ table = <<>> /\ buf = <<>>
        /\ pools = [op \in Jumps |-> <<>>]
    BY DEF Init, FileInit
  <2>2. WalkInv /\ DoneInv
    BY <2>1 DEF WalkInv, DoneInv
  <2>3. ProdsInv
    BY <2>1 DEF ProdsInv
  <2>4. IsSeq(<<>>) /\ Len(<<>>) = 0
    BY DEF IsSeq
  <2>5. Tiled(<<>>)
    BY <2>4 DEF Tiled
  <2>6. OwnTables(<<>>, pools)
    BY <2>1, <2>4 DEF OwnTables
  <2>7. RawInv(buf, table, pools)
    BY <2>1, <2>4, <2>5, <2>6 DEF RawInv
  <2> QED
    BY <2>1, <2>2, <2>3, <2>7 DEF LinkInv
<1>2. LoadInv /\ ProdsInv /\ LinkInv /\ DoneInv => LoadedFaithfully
  <2> SUFFICES ASSUME LoadInv, ProdsInv, LinkInv, DoneInv, phase = "done",
                      NEW i \in Insts, Inst(i).op \notin Silent
               PROVE  SameInstruction(i)
    BY DEF LoadedFaithfully, Insts
  <2>1. PICK raw, rawpools : RawInv(raw, table, rawpools) /\ LinkedTo(raw, rawpools, buf, pools, j)
    BY DEF LinkInv, LinkedSomehow
  <2>2. Len(table) = Len(file.insts)
    BY DEF ProdsInv
  <2>3. Loaded(raw, rawpools)
    BY <2>1, <2>2 DEF Loaded, DoneInv
  <2>4. i \in Insts \ Silents
    BY DEF Silents
  <2> DEFINE x == Inst(i)
             e == Ent(i)
  <2>5. x.op = "First" =>
           e.op \in Jumps /\ \A ch \in Bytes : SameControl(x.data.table[ch], EndOf(e) + JumpOn(e, ch))
    BY <2>3, FirstIsSame
  <2>6. x.op \notin {"First", "Ret"} => x.op = e.op /\ SameOperands(x, e)
    BY <2>3, <2>4, OperandsAreSame
  <2>7. PICK m : IsCodeOf(m, i, raw, rawpools)
    BY <2>3, <2>4, CodeOfInst
  <2>8. x.op = "Ret" => e.op = "Ret"
    <3>1. x.op = "Ret" => m.op = x.op
      BY <2>7, MainKind DEF IsCodeOf, Silent
    <3> QED
      BY <2>7, <3>1 DEF IsCodeOf
  <2>9. Falls(x) => SameControl(After(i), EndOf(e))
    BY <2>7, SameIsSameControl DEF IsCodeOf
  <2>10. SameInstruction(i) <=>
           /\ IF x.op = "First"
              THEN e.op \in Jumps /\ \A ch \in Bytes : SameControl(x.data.table[ch], EndOf(e) + JumpOn(e, ch))
              ELSE x.op = e.op /\ (x.op # "Ret" => SameOperands(x, e))
           /\ Falls(x) => SameControl(After(i), EndOf(e))
    BY DEF SameInstruction, Ent
  <2> HIDE DEF x, e
  <2> QED
    BY <2>5, <2>6, <2>8, <2>9, <2>10
<1> QED
  BY <1>1, <1>2, LoadInvHolds, WalkInvNext, ProdsInvNext, LinkInvNext, DoneInvNext, PTL DEF Spec
=============================================================================
