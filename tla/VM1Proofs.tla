------------------------------ MODULE VM1Proofs ------------------------------
(***************************************************************************)
(* Proofs about the bytecode interpreter, for every program, every input   *)
(* and every stack size.                                                   *)
(*                                                                         *)
(* The inductive invariant says of a running machine that its frames are   *)
(* chained, that the savepoints on its stack are in order and that each of *)
(* them still marks the log and the symbol table it was taken of.  The     *)
(* three parts need one another: a frame is dropped together with all that *)
(* lies above it because the chain names the innermost one, and cutting    *)
(* the log at its savepoint leaves the outer savepoints intact because     *)
(* they are in order.                                                      *)
(*                                                                         *)
(* The lemmas about the symbol table come first.                           *)
(***************************************************************************)
EXTENDS VM1, SequenceTheorems, WellFoundedInduction, TLAPS

-----------------------------------------------------------------------------
(***************************************************************************)
(* Sequences.                                                              *)
(***************************************************************************)
\* A sequence by IsSeq belongs to Seq(T) if its elements belong to T.
LEMMA SeqOfElements ==
    ASSUME NEW s, IsSeq(s), NEW T, \A i \in 1..Len(s) : s[i] \in T
    PROVE  s \in Seq(T)
<1>1. s \in [1..Len(s) -> T]
  BY DEF IsSeq
<1> QED
  BY <1>1, SeqDef DEF IsSeq

\* Every member of Seq(T) is a sequence by IsSeq.
LEMMA IsSeqOfSeq ==
    ASSUME NEW T, NEW s \in Seq(T)
    PROVE  IsSeq(s)
BY LenProperties DEF IsSeq

\* What Append does to a sequence.
LEMMA AppendFacts ==
    ASSUME NEW s, IsSeq(s), NEW e
    PROVE  /\ IsSeq(Append(s, e))
           /\ Len(Append(s, e)) = Len(s) + 1
           /\ \A i \in 1..Len(s) : Append(s, e)[i] = s[i]
           /\ Append(s, e)[Len(s) + 1] = e
<1> DEFINE T == {s[i] : i \in 1..Len(s)} \union {e}
<1>1. s \in Seq(T)
  <2>1. \A i \in 1..Len(s) : s[i] \in T
    OBVIOUS
  <2> HIDE DEF T
  <2> QED
    BY <2>1, SeqOfElements
<1>2. e \in T
  OBVIOUS
<1> HIDE DEF T
<1>3. /\ Append(s, e) \in Seq(T)
      /\ Len(Append(s, e)) = Len(s) + 1
      /\ \A i \in 1..Len(s) : Append(s, e)[i] = s[i]
      /\ Append(s, e)[Len(s) + 1] = e
  BY <1>1, <1>2, AppendProperties
<1>4. IsSeq(Append(s, e))
  BY <1>3, IsSeqOfSeq
<1> QED
  BY <1>3, <1>4

\* What cutting a sequence does.
LEMMA CutFacts ==
    ASSUME NEW s, IsSeq(s), NEW n \in 0..Len(s)
    PROVE  /\ IsSeq(SubSeq(s, 1, n))
           /\ Len(SubSeq(s, 1, n)) = n
           /\ \A i \in 1..n : SubSeq(s, 1, n)[i] = s[i]
<1> DEFINE T == {s[i] : i \in 1..Len(s)}
<1>1. Len(s) \in Nat
  BY DEF IsSeq
<1>2. \A i \in 1..n : s[i] \in T
  BY <1>1
<1> HIDE DEF T
<1>3. SubSeq(s, 1, n) \in Seq(T)
  BY <1>1, <1>2, SubSeqProperties
<1>4. /\ Len(SubSeq(s, 1, n)) = n
      /\ \A i \in 1..n : SubSeq(s, 1, n)[i] = s[i]
  BY <1>1, <1>2, SubSeqProperties
<1> QED
  BY <1>3, <1>4, IsSeqOfSeq

\* Two sequences with the same elements are equal.
LEMMA SameSeq ==
    ASSUME NEW s, IsSeq(s), NEW t, IsSeq(t), Len(s) = Len(t),
           \A i \in 1..Len(s) : s[i] = t[i]
    PROVE  s = t
BY DEF IsSeq

\* A cut below a cut is the cut of the whole.
LEMMA CutOfCut ==
    ASSUME NEW s, IsSeq(s), NEW n \in 0..Len(s), NEW m \in 0..n
    PROVE  SubSeq(SubSeq(s, 1, n), 1, m) = SubSeq(s, 1, m)
<1>1. Len(s) \in Nat /\ m \in 0..Len(s)
  BY DEF IsSeq
<1> QED
  BY <1>1, CutFacts, SameSeq

\* Appending does not disturb what is below.
LEMMA CutOfAppend ==
    ASSUME NEW s, IsSeq(s), NEW e, NEW m \in 0..Len(s)
    PROVE  SubSeq(Append(s, e), 1, m) = SubSeq(s, 1, m)
<1>1. Len(s) \in Nat /\ m \in 0..Len(Append(s, e)) /\ IsSeq(Append(s, e))
  BY AppendFacts DEF IsSeq
<1> QED
  BY <1>1, AppendFacts, CutFacts, SameSeq

\* Cutting nothing off.
LEMMA CutNothing ==
    ASSUME NEW s, IsSeq(s)
    PROVE  SubSeq(s, 1, Len(s)) = s
<1>1. Len(s) \in 0..Len(s)
  BY DEF IsSeq
<1> DEFINE t == SubSeq(s, 1, Len(s))
<1>2. IsSeq(t) /\ Len(t) = Len(s) /\ \A i \in 1..Len(t) : t[i] = s[i]
  BY <1>1, CutFacts
<1> HIDE DEF t
<1>3. t = s
  BY <1>2, SameSeq
<1> QED
  BY <1>3 DEF t

-----------------------------------------------------------------------------
(***************************************************************************)
(* Symbol tables.                                                          *)
(***************************************************************************)
\* A nonempty set of numbers has a least one.
LEMMA SomeMin ==
    ASSUME NEW S \in SUBSET Nat, S # {}
    PROVE  \E x \in S : \A y \in S : x <= y
<1> DEFINE R == OpToRel(<, Nat)
<1>1. IsWellFoundedOn(R, Nat)
  BY NatLessThanWellFounded
<1>2. R = {ss \in Nat \X Nat : ss[1] < ss[2]}
  BY DEF OpToRel
<1>3. PICK x \in S : \A y \in S : ~ (<<y, x>> \in R)
  <2> HIDE DEF R
  <2> QED
    BY <1>1, WFMin
<1>4. \A y \in S : ~ (y < x)
  BY <1>2, <1>3
<1> QED
  BY <1>4

\* A nonempty set of positions has an innermost one: the distances to n have a
\* least element.
LEMMA InnermostExists ==
    ASSUME NEW n \in Nat, NEW S \in SUBSET (1..n), S # {}
    PROVE  Innermost(S) \in S
<1> DEFINE T == {n - i : i \in S}
<1>1. \A i \in S : i \in Nat /\ i <= n /\ n - i \in Nat
  OBVIOUS
<1>2. T \in SUBSET Nat /\ T # {}
  BY <1>1
<1>3. PICK x \in T : \A y \in T : x <= y
  <2> HIDE DEF T
  <2> QED
    BY <1>2, SomeMin
<1>4. PICK i \in S : x = n - i
  OBVIOUS
<1>5. \A j \in S : j <= i
  <2>1. \A j \in S : n - i <= n - j
    BY <1>3, <1>4
  <2> QED
    BY <1>1, <1>4, <2>1
<1> QED
  BY <1>5 DEF Innermost

\* The symbol that symtable_get_symbol finds is a text.
LEMMA SymbolIsText ==
    ASSUME NEW tbl, IsSeq(tbl), Texts(tbl), NEW tag, symtable_get_symbol(tbl, tag) # NoSym
    PROVE  Len(symtable_get_symbol(tbl, tag)) \in Nat
<1> DEFINE S == {i \in EntriesOf(tbl, tag) : tbl[i].sym # NoSym}
<1>1. Len(tbl) \in Nat /\ S \in SUBSET (1..Len(tbl))
  BY DEF IsSeq, EntriesOf
<1>2. S # {} /\ symtable_get_symbol(tbl, tag) = tbl[Innermost(S)].sym
  BY DEF symtable_get_symbol
<1>3. Innermost(S) \in S
  <2> HIDE DEF S
  <2> QED
    BY <1>1, <1>2, InnermostExists
<1> QED
  BY <1>1, <1>2, <1>3 DEF Texts

\* Cutting the table and adding a text, or the leftover of a mask, keep Texts.
LEMMA TextsCut ==
    ASSUME NEW tbl, IsSeq(tbl), Texts(tbl), NEW n \in 0..Len(tbl)
    PROVE  Texts(SubSeq(tbl, 1, n))
<1>1. Len(tbl) \in Nat
  BY DEF IsSeq
<1> QED
  BY <1>1, CutFacts DEF Texts

LEMMA TextsPush ==
    ASSUME NEW tbl, IsSeq(tbl), Texts(tbl), NEW tag, NEW hash,
           NEW sym, sym # NoSym => Len(sym) \in Nat
    PROVE  Texts(symtable_push(tbl, tag, hash, sym))
<1> DEFINE e == [tag |-> tag, hash |-> hash, sym |-> sym]
<1>1. e.sym = sym /\ Len(tbl) \in Nat
  BY DEF IsSeq
<1> HIDE DEF e
<1>2. Texts(Append(tbl, e))
  BY <1>1, AppendFacts DEF Texts
<1> QED
  BY <1>2 DEF symtable_push, e

-----------------------------------------------------------------------------
(***************************************************************************)
(* Stacks.  A stack with its FP, the position, the log and the table is    *)
(* Sound when the three parts of the invariant hold of them.               *)
(***************************************************************************)
Cells(stk) == IsSeq(stk) /\ \A i \in 1..Len(stk) : CellOK(stk[i])

Sound(stk, f, p, lg, tbl) ==
    /\ Cells(stk) /\ IsSeq(lg) /\ IsSeq(tbl) /\ p \in Nat
    /\ Chain(stk, f)
    /\ Nest(stk, p, Len(lg), Len(tbl))
    /\ Exact(stk, lg, tbl)

\* A cell that saves the current position, log and table.
Saves(c, p, lg, tbl) ==
    /\ CellOK(c)
    /\ HasPos(c) => c.pos = p
    /\ HasAst(c) => c.ast = Len(lg) /\ c.was.log = lg
    /\ HasSym(c) => c.sym = Len(tbl) /\ c.was.table = tbl

\* Pushing such a cell: the new FP is the cell if it is a frame, linked to the
\* old one.
LEMMA SoundPush ==
    ASSUME NEW stk, NEW f, NEW p, NEW lg, NEW tbl, Sound(stk, f, p, lg, tbl),
           NEW c, Saves(c, p, lg, tbl),
           f \in Nat, c.kind = "frame" => c.fp = f
    PROVE  Sound(Append(stk, c), IF c.kind = "frame" THEN Len(stk) + 1 ELSE f, p, lg, tbl)
<1> DEFINE new == Append(stk, c)
<1>1. /\ IsSeq(new) /\ Len(new) = Len(stk) + 1 /\ Len(stk) \in Nat
      /\ \A i \in 1..Len(stk) : new[i] = stk[i]
      /\ new[Len(stk) + 1] = c
  BY AppendFacts DEF Sound, Cells, IsSeq
<1> HIDE DEF new
<1>2. Cells(new)
  BY <1>1 DEF Sound, Cells, Saves
<1>3. Chain(new, IF c.kind = "frame" THEN Len(stk) + 1 ELSE f)
  <2> DEFINE g == IF c.kind = "frame" THEN Len(stk) + 1 ELSE f
  <2>1. Chain(stk, f)
    BY DEF Sound
  <2>2. g # 0 => g \in 1..Len(new) /\ new[g].kind = "frame"
    BY <1>1, <2>1 DEF Chain
  <2>3. ASSUME NEW i \in 1..Len(new), new[i].kind = "frame"
        PROVE  /\ i <= g
               /\ new[i].fp \in 0..i-1
               /\ new[i].fp # 0 => new[new[i].fp].kind = "frame"
               /\ \A j \in 1..i-1 : new[j].kind = "frame" => j <= new[i].fp
    <3>1. CASE i \in 1..Len(stk)
      <4>1. /\ i <= f
            /\ stk[i].fp \in 0..i-1
            /\ stk[i].fp # 0 => stk[stk[i].fp].kind = "frame"
            /\ \A j \in 1..i-1 : stk[j].kind = "frame" => j <= stk[i].fp
        BY <1>1, <2>1, <2>3, <3>1 DEF Chain
      <4>2. new[i] = stk[i] /\ \A j \in 1..i-1 : new[j] = stk[j]
        BY <1>1, <3>1
      <4> QED
        BY <1>1, <3>1, <4>1, <4>2
    <3>2. CASE i = Len(stk) + 1
      <4>1. new[i].fp = f /\ g = i
        BY <1>1, <2>3, <3>2
      <4>2. f # 0 => f \in 1..Len(stk) /\ stk[f].kind = "frame"
        BY <2>1 DEF Chain
      <4>3. \A j \in 1..i-1 : new[j] = stk[j] /\ (stk[j].kind = "frame" => j <= f)
        BY <1>1, <2>1, <3>2 DEF Chain
      <4> QED
        BY <1>1, <3>2, <4>1, <4>2, <4>3
    <3> QED
      BY <1>1, <3>1, <3>2
  <2> QED
    BY <2>2, <2>3 DEF Chain
<1>4. Nest(new, p, Len(lg), Len(tbl))
  <2>1. /\ HasPos(c) => c.pos = p
        /\ HasAst(c) => c.ast = Len(lg)
        /\ HasSym(c) => c.sym = Len(tbl)
    BY DEF Saves
  <2>2. p \in Nat /\ Len(lg) \in Nat /\ Len(tbl) \in Nat /\ Nest(stk, p, Len(lg), Len(tbl))
    BY DEF Sound, IsSeq
  <2>3. \A i \in 1..Len(new) :
           /\ HasPos(new[i]) => new[i].pos <= p
           /\ HasAst(new[i]) => new[i].ast <= Len(lg)
           /\ HasSym(new[i]) => new[i].sym <= Len(tbl)
    BY <1>1, <2>1, <2>2 DEF Nest
  <2>4. ASSUME NEW i \in 1..Len(new), NEW j \in 1..i-1
        PROVE  /\ HasPos(new[i]) /\ HasPos(new[j]) => new[j].pos <= new[i].pos
               /\ HasAst(new[i]) /\ HasAst(new[j]) => new[j].ast <= new[i].ast
               /\ HasSym(new[i]) /\ HasSym(new[j]) => new[j].sym <= new[i].sym
    <3>1. CASE i \in 1..Len(stk)
      <4>1. j \in 1..Len(stk) /\ new[i] = stk[i] /\ new[j] = stk[j]
        BY <1>1, <3>1
      <4> QED
        BY <3>1, <4>1, <2>2 DEF Nest
    <3>2. CASE i = Len(stk) + 1
      BY <1>1, <3>2, <2>1, <2>3
    <3> QED
      BY <1>1, <3>1, <3>2
  <2> QED
    BY <2>3, <2>4 DEF Nest
<1>5. Exact(new, lg, tbl)
  <2>1. /\ HasAst(c) => SubSeq(lg, 1, c.ast) = c.was.log
        /\ HasSym(c) => SubSeq(tbl, 1, c.sym) = c.was.table
    BY CutNothing DEF Sound, Saves
  <2> QED
    BY <1>1, <2>1 DEF Sound, Exact
<1> QED
  BY <1>2, <1>3, <1>4, <1>5 DEF Sound, new

\* Cutting the stack below cell k, with the FP that the frame k saved or, above
\* all frames, the FP as it is.
LEMMA SoundCut ==
    ASSUME NEW stk, NEW f, NEW p, NEW lg, NEW tbl, Sound(stk, f, p, lg, tbl),
           NEW k \in 1..Len(stk), NEW g \in Nat,
           \/ k = f /\ g = stk[k].fp
           \/ k = Len(stk) /\ stk[k].kind # "frame" /\ g = f
    PROVE  /\ Sound(SubSeq(stk, 1, k - 1), g, p, lg, tbl)
           /\ Len(SubSeq(stk, 1, k - 1)) = k - 1
           /\ \A i \in 1..k-1 : SubSeq(stk, 1, k - 1)[i] = stk[i]
<1> DEFINE new == SubSeq(stk, 1, k - 1)
<1>0. Len(stk) \in Nat /\ k - 1 \in 0..Len(stk)
  BY DEF Sound, Cells, IsSeq
<1>1. /\ IsSeq(new) /\ Len(new) = k - 1
      /\ \A i \in 1..k-1 : new[i] = stk[i]
  BY <1>0, CutFacts DEF Sound, Cells
<1> HIDE DEF new
<1>2. Cells(new)
  BY <1>0, <1>1 DEF Sound, Cells
<1>3. Chain(new, g)
  <2>1. Chain(stk, f)
    BY DEF Sound
  <2>2. /\ g # 0 => g \in 1..k-1 /\ stk[g].kind = "frame"
        /\ \A i \in 1..k-1 : stk[i].kind = "frame" => i <= g
    <3>1. CASE k = f /\ g = stk[k].fp
      <4>1. stk[k].kind = "frame"
        BY <2>1, <3>1 DEF Chain
      <4> QED
        BY <1>0, <2>1, <3>1, <4>1 DEF Chain
    <3>2. CASE k = Len(stk) /\ stk[k].kind # "frame" /\ g = f
      <4>1. g # k
        BY <2>1, <3>2 DEF Chain
      <4> QED
        BY <1>0, <2>1, <3>2, <4>1 DEF Chain
    <3> QED
      BY <3>1, <3>2
  <2>3. ASSUME NEW i \in 1..k-1, stk[i].kind = "frame"
        PROVE  /\ stk[i].fp \in 0..i-1
               /\ stk[i].fp # 0 => stk[stk[i].fp].kind = "frame"
               /\ \A j \in 1..i-1 : stk[j].kind = "frame" => j <= stk[i].fp
    BY <1>0, <2>1, <2>3 DEF Chain
  <2>4. ASSUME NEW i \in 1..k-1, new[i].kind = "frame"
        PROVE  /\ i <= g
               /\ new[i].fp \in 0..i-1
               /\ new[i].fp # 0 => new[new[i].fp].kind = "frame"
               /\ \A j \in 1..i-1 : new[j].kind = "frame" => j <= new[i].fp
    <3>1. i \in Nat /\ new[i] = stk[i] /\ \A j \in 1..i-1 : new[j] = stk[j]
      BY <1>0, <1>1
    <3>2. i <= g
      BY <2>2, <2>4, <3>1
    <3>3. /\ stk[i].fp \in 0..i-1
          /\ stk[i].fp # 0 => stk[stk[i].fp].kind = "frame"
          /\ \A j \in 1..i-1 : stk[j].kind = "frame" => j <= stk[i].fp
      BY <2>3, <2>4, <3>1
    <3> QED
      BY <3>1, <3>2, <3>3
  <2> QED
    BY <1>0, <1>1, <2>2, <2>4 DEF Chain
<1>4. \A i \in 1..Len(new) : i \in 1..Len(stk) /\ new[i] = stk[i]
  BY <1>0, <1>1
<1>5. Nest(new, p, Len(lg), Len(tbl))
  BY <1>4 DEF Sound, Nest
<1>6. Exact(new, lg, tbl)
  BY <1>4 DEF Sound, Exact
<1> QED
  BY <1>1, <1>2, <1>3, <1>5, <1>6 DEF Sound, new

\* The position may be any that no cell is beyond.
LEMMA SoundPos ==
    ASSUME NEW stk, NEW f, NEW p, NEW lg, NEW tbl, Sound(stk, f, p, lg, tbl),
           NEW q \in Nat, \A i \in 1..Len(stk) : HasPos(stk[i]) => stk[i].pos <= q
    PROVE  Sound(stk, f, q, lg, tbl)
BY DEF Sound, Nest

\* Appending to the log or to the table.
LEMMA SoundGrow ==
    ASSUME NEW stk, NEW f, NEW p, NEW lg, NEW tbl, Sound(stk, f, p, lg, tbl), NEW e
    PROVE  /\ Sound(stk, f, p, Append(lg, e), tbl)
           /\ Sound(stk, f, p, lg, Append(tbl, e))
<1>1. /\ IsSeq(Append(lg, e)) /\ Len(Append(lg, e)) = Len(lg) + 1
      /\ IsSeq(Append(tbl, e)) /\ Len(Append(tbl, e)) = Len(tbl) + 1
      /\ Len(lg) \in Nat /\ Len(tbl) \in Nat
  BY AppendFacts DEF Sound, IsSeq
<1>2. \A i \in 1..Len(stk) :
         /\ CellOK(stk[i])
         /\ HasAst(stk[i]) => stk[i].ast \in 0..Len(lg)
         /\ HasSym(stk[i]) => stk[i].sym \in 0..Len(tbl)
  BY <1>1 DEF Sound, Nest, Cells, CellOK
<1>3. /\ \A m \in 0..Len(lg) : SubSeq(Append(lg, e), 1, m) = SubSeq(lg, 1, m)
      /\ \A m \in 0..Len(tbl) : SubSeq(Append(tbl, e), 1, m) = SubSeq(tbl, 1, m)
  BY CutOfAppend DEF Sound
<1>4. /\ Nest(stk, p, Len(lg) + 1, Len(tbl))
      /\ Nest(stk, p, Len(lg), Len(tbl) + 1)
  BY <1>1, <1>2 DEF Sound, Nest
<1>5. /\ Exact(stk, Append(lg, e), tbl)
      /\ Exact(stk, lg, Append(tbl, e))
  BY <1>2, <1>3 DEF Sound, Exact
<1> QED
  BY <1>1, <1>4, <1>5 DEF Sound

\* Cutting the log or the table where no cell is beyond the cut.
LEMMA SoundRollback ==
    ASSUME NEW stk, NEW f, NEW p, NEW lg, NEW tbl, Sound(stk, f, p, lg, tbl),
           NEW m \in 0..Len(lg), \A i \in 1..Len(stk) : HasAst(stk[i]) => stk[i].ast <= m,
           NEW n \in 0..Len(tbl), \A i \in 1..Len(stk) : HasSym(stk[i]) => stk[i].sym <= n
    PROVE  Sound(stk, f, p, SubSeq(lg, 1, m), SubSeq(tbl, 1, n))
<1>1. /\ IsSeq(SubSeq(lg, 1, m)) /\ Len(SubSeq(lg, 1, m)) = m
      /\ IsSeq(SubSeq(tbl, 1, n)) /\ Len(SubSeq(tbl, 1, n)) = n
  BY CutFacts DEF Sound
<1>2. Nest(stk, p, m, n)
  BY DEF Sound, Nest
<1>3. \A i \in 1..Len(stk) :
         /\ HasAst(stk[i]) => stk[i].ast \in 0..m
         /\ HasSym(stk[i]) => stk[i].sym \in 0..n
  BY DEF Sound, Cells, CellOK
<1>4. /\ \A j \in 0..m : SubSeq(SubSeq(lg, 1, m), 1, j) = SubSeq(lg, 1, j)
      /\ \A j \in 0..n : SubSeq(SubSeq(tbl, 1, n), 1, j) = SubSeq(tbl, 1, j)
  BY CutOfCut DEF Sound
<1>5. Exact(stk, SubSeq(lg, 1, m), SubSeq(tbl, 1, n))
  BY <1>3, <1>4 DEF Sound, Exact
<1> QED
  BY <1>1, <1>2, <1>5 DEF Sound

\* Replacing the top frame by one that saves the current state (Skip).
LEMMA SoundReplace ==
    ASSUME NEW stk, NEW f, NEW p, NEW lg, NEW tbl, Sound(stk, f, p, lg, tbl),
           f = Len(stk), f # 0,
           NEW c, Saves(c, p, lg, tbl), c.kind = "frame", c.fp = stk[f].fp
    PROVE  Sound([stk EXCEPT ![f] = c], f, p, lg, tbl)
<1> DEFINE below == SubSeq(stk, 1, f - 1)
           new   == [stk EXCEPT ![f] = c]
<1>1. f \in Nat \ {0} /\ Cells(stk) /\ Chain(stk, f) /\ IsSeq(stk)
  BY DEF Sound, Cells, IsSeq
<1>2. stk[f].kind = "frame" /\ c.fp \in Nat
  BY <1>1 DEF Chain
<1>3. /\ Sound(below, c.fp, p, lg, tbl)
      /\ Len(below) = f - 1
      /\ \A i \in 1..f-1 : below[i] = stk[i]
  BY <1>1, <1>2, SoundCut
<1>4. /\ IsSeq(below) /\ IsSeq(Append(below, c)) /\ Len(Append(below, c)) = f
      /\ \A i \in 1..f-1 : Append(below, c)[i] = stk[i]
      /\ Append(below, c)[f] = c
  <2>1. IsSeq(below)
    BY <1>3 DEF Sound, Cells
  <2> HIDE DEF below
  <2> QED
    BY <1>1, <1>3, <2>1, AppendFacts
<1>5. Sound(Append(below, c), f, p, lg, tbl)
  <2> HIDE DEF below
  <2>1. Sound(Append(below, c), Len(below) + 1, p, lg, tbl)
    BY <1>2, <1>3, SoundPush
  <2> QED
    BY <1>1, <1>3, <2>1
<1>6. new = Append(below, c)
  <2>1. DOMAIN stk = 1..f
    BY <1>1 DEF IsSeq
  <2>2. new = [i \in 1..f |-> IF i = f THEN c ELSE stk[i]]
    BY <2>1
  <2> HIDE DEF below, new
  <2>3. Append(below, c) = [i \in 1..f |-> Append(below, c)[i]]
    BY <1>4 DEF IsSeq
  <2>4. \A i \in 1..f : Append(below, c)[i] = IF i = f THEN c ELSE stk[i]
    BY <1>1, <1>4
  <2> QED
    BY <2>2, <2>3, <2>4
<1> QED
  BY <1>5, <1>6

\* The log and the table, cut where a cell says, are those it was taken of.
Marks(c, lg, tbl) == SubSeq(lg, 1, c.ast) = c.was.log /\ SubSeq(tbl, 1, c.sym) = c.was.table

\* Dropping the innermost frame: what is left saves nothing beyond what the
\* frame saved, and the frame still marks what it was taken of.
LEMMA SoundDrop ==
    ASSUME NEW stk, NEW f \in Nat, NEW p, NEW lg, NEW tbl, Sound(stk, f, p, lg, tbl), f # 0,
           NEW c, c = stk[f], NEW new, new = SubSeq(stk, 1, f - 1)
    PROVE  /\ Sound(new, c.fp, p, lg, tbl) /\ c.fp \in Nat
           /\ c.kind = "frame" /\ c.pos \in 0..p /\ c.ast \in 0..Len(lg) /\ c.sym \in 0..Len(tbl)
           /\ Len(new) = f - 1
           /\ \A i \in 1..Len(new) : /\ HasPos(new[i]) => new[i].pos <= c.pos
                                     /\ HasAst(new[i]) => new[i].ast <= c.ast
                                     /\ HasSym(new[i]) => new[i].sym <= c.sym
           /\ Marks(c, lg, tbl)
<1>1. f \in 1..Len(stk) /\ c.kind = "frame" /\ c.fp \in Nat /\ Len(stk) \in Nat
  BY DEF Sound, Chain, Cells, IsSeq
<1>2. /\ Sound(new, c.fp, p, lg, tbl)
      /\ Len(new) = f - 1
      /\ \A i \in 1..f-1 : new[i] = stk[i]
  BY <1>1, SoundCut
<1>3. HasPos(c) /\ HasAst(c) /\ HasSym(c) /\ CellOK(c)
  BY <1>1 DEF HasPos, HasAst, HasSym, Sound, Cells
<1>4. c.pos \in 0..p /\ c.ast \in 0..Len(lg) /\ c.sym \in 0..Len(tbl)
  BY <1>1, <1>3 DEF CellOK, Sound, Nest, IsSeq
<1>5. \A i \in 1..f-1 : /\ HasPos(stk[i]) => stk[i].pos <= c.pos
                        /\ HasAst(stk[i]) => stk[i].ast <= c.ast
                        /\ HasSym(stk[i]) => stk[i].sym <= c.sym
  BY <1>1, <1>3 DEF Sound, Nest
<1>6. Marks(c, lg, tbl)
  BY <1>1, <1>3 DEF Sound, Exact, Marks
<1>7. \A i \in 1..Len(new) : /\ HasPos(new[i]) => new[i].pos <= c.pos
                             /\ HasAst(new[i]) => new[i].ast <= c.ast
                             /\ HasSym(new[i]) => new[i].sym <= c.sym
  BY <1>2, <1>5
<1> QED
  BY <1>1, <1>2, <1>4, <1>6, <1>7

\* The same for a cell that is not a frame, on top of the stack.
LEMMA SoundPop ==
    ASSUME NEW stk, NEW f \in Nat, NEW p, NEW lg, NEW tbl, Sound(stk, f, p, lg, tbl),
           NEW k, k = Len(stk), k # 0,
           NEW c, c = stk[k], c.kind # "frame", NEW new, new = SubSeq(stk, 1, k - 1)
    PROVE  /\ Sound(new, f, p, lg, tbl) /\ CellOK(c)
           /\ HasPos(c) => /\ c.pos \in 0..p
                           /\ \A i \in 1..Len(new) : HasPos(new[i]) => new[i].pos <= c.pos
           /\ HasAst(c) => /\ c.ast \in 0..Len(lg)
                           /\ \A i \in 1..Len(new) : HasAst(new[i]) => new[i].ast <= c.ast
           /\ HasSym(c) => /\ c.sym \in 0..Len(tbl)
                           /\ \A i \in 1..Len(new) : HasSym(new[i]) => new[i].sym <= c.sym
<1>1. k \in Nat
  BY DEF Sound, Cells, IsSeq
<1>3. k \in 1..Len(stk) /\ CellOK(c)
  BY <1>1 DEF Sound, Cells
<1>4. /\ Sound(new, f, p, lg, tbl)
      /\ Len(new) = k - 1
      /\ \A i \in 1..k-1 : new[i] = stk[i]
  BY <1>3, SoundCut
<1>5. /\ HasPos(c) => /\ c.pos \in 0..p
                      /\ \A i \in 1..k-1 : HasPos(stk[i]) => stk[i].pos <= c.pos
      /\ HasAst(c) => /\ c.ast \in 0..Len(lg)
                      /\ \A i \in 1..k-1 : HasAst(stk[i]) => stk[i].ast <= c.ast
      /\ HasSym(c) => /\ c.sym \in 0..Len(tbl)
                      /\ \A i \in 1..k-1 : HasSym(stk[i]) => stk[i].sym <= c.sym
  BY <1>1, <1>3 DEF Sound, Nest, CellOK, IsSeq
<1> QED
  BY <1>1, <1>3, <1>4, <1>5

-----------------------------------------------------------------------------
(***************************************************************************)
(* The memo table.                                                         *)
(***************************************************************************)
\* Every hash has a slot.
LEMMA SlotExists ==
    ASSUME NEW p \in Nat, NEW id \in Nat
    PROVE  memo_index(memo_hash(p, id)) \in 0..memo_len-1
<1>1. memo_hash(p, id) \in Nat
  <2> DEFINE w == 2^memo_shift
  <2>1. SourceAddr + p \in Nat /\ w \in Nat
    BY MemoAssumption, MemoSizeAssumption
  <2> HIDE DEF w
  <2>2. (SourceAddr + p) * w \in Nat
    BY <2>1
  <2> QED
    BY <2>1, <2>2 DEF memo_hash, w
<1> DEFINE h == memo_hash(p, id)
<1>2. memo_len \in Nat \ {0}
  BY MemoSizeAssumption
<1> HIDE DEF h
<1> QED
  BY <1>1, <1>2 DEF memo_index, h

\* The operations keep the table one.
LEMMA MemoKept ==
    ASSUME NEW m, MemoOK(m), NEW p \in Nat, NEW id \in Nat,
           NEW result, NEW consumed \in Nat, NEW state
    PROVE  /\ MemoOK(memo_set(m, p, id, result, consumed, state))
           /\ MemoOK(memo_fail(m, p, id))
           /\ memo_entry(m, p, id).consumed \in Nat
<1> DEFINE k == memo_index(memo_hash(p, id))
<1>1. k \in DOMAIN m
  BY SlotExists DEF MemoOK
<1>2. memo_entry(m, p, id).consumed \in Nat
  BY <1>1 DEF MemoOK, memo_entry
<1>3. MemoOK(memo_set(m, p, id, result, consumed, state))
  <2> DEFINE e == [hash |-> memo_hash(p, id), result |-> result,
                   consumed |-> consumed, state |-> state]
  <2>1. memo_set(m, p, id, result, consumed, state) = [m EXCEPT ![k] = e]
    BY DEF memo_set
  <2>2. e.consumed \in Nat
    OBVIOUS
  <2> HIDE DEF e, k
  <2> QED
    BY <1>1, <2>1, <2>2 DEF MemoOK
<1>4. MemoOK(memo_fail(m, p, id))
  <2> DEFINE e == [hash |-> memo_hash(p, id), result |-> FailedResult,
                   consumed |-> m[k].consumed, state |-> m[k].state]
  <2>1. memo_fail(m, p, id) = [m EXCEPT ![k] = e]
    BY DEF memo_fail
  <2>2. e.consumed \in Nat
    BY <1>1 DEF MemoOK
  <2> HIDE DEF e, k
  <2> QED
    BY <1>1, <2>1, <2>2 DEF MemoOK
<1> QED
  BY <1>2, <1>3, <1>4

-----------------------------------------------------------------------------
(***************************************************************************)
(* The inductive invariant, and what a step must establish to keep it.     *)
(***************************************************************************)
IInv == TypeOK /\ FrameChain /\ SavepointsNest /\ BacktrackExact

SoundNow == Sound(stack, fp, pos, log, table) /\ Texts(table)

\* What FailRestores says of one step.
Restores == Failing => /\ pos'   = stack[fp].pos
                       /\ log'   = stack[fp].was.log
                       /\ table' = stack[fp].was.table

StepOK == SoundNow' /\ Restores

Others ==
    /\ code' = code
    /\ MemoOK(memo')
    /\ status' \in Ended \union {"running", "accept"}

LEMMA RunningIsSound ==
    ASSUME IInv, Running
    PROVE  SoundNow /\ fp \in Nat /\ MemoOK(memo) /\ Len(stack) \in Nat
           /\ (fp # 0 => fp \in 1..Len(stack))
<1>1. SoundNow
  BY DEF IInv, Running, SoundNow, Sound, Cells, TypeOK, FrameChain, SavepointsNest, BacktrackExact
<1> QED
  BY <1>1 DEF IInv, TypeOK, SoundNow, Sound, Cells, Chain, IsSeq

LEMMA KeepsIInv ==
    ASSUME IInv, StepOK, Others
    PROVE  IInv'
BY DEF IInv, StepOK, Others, SoundNow, Sound, Cells, TypeOK, FrameChain, SavepointsNest, BacktrackExact

\* A step that keeps FP, or the frame it points at, does not fail.
LEMMA NotFailing ==
    ASSUME IInv, Running, fp' = fp \/ (Len(stack') \in Nat /\ Len(stack') >= fp)
    PROVE  Restores
BY RunningIsSound DEF Restores, Failing

\* Steps that leave the stack alone and only append.
LEMMA StillOK ==
    ASSUME IInv, Running, UNCHANGED <<stack, fp, table>>, pos' \in Nat, pos' >= pos,
           NEW e, log' = log \/ log' = Append(log, e)
    PROVE  StepOK
<1>1. SoundNow /\ Restores
  BY RunningIsSound, NotFailing
<1>2. \A i \in 1..Len(stack) : HasPos(stack[i]) => stack[i].pos <= pos'
  BY <1>1 DEF SoundNow, Sound, Cells, CellOK, Nest
<1>3. Sound(stack, fp, pos', log, table)
  BY <1>1, <1>2, SoundPos DEF SoundNow
<1>4. Sound(stack, fp, pos', log', table)
  BY <1>3, SoundGrow
<1> QED
  BY <1>1, <1>4 DEF SoundNow, StepOK

\* Pushing a cell that saves the current state.
LEMMA PushOK ==
    ASSUME IInv, Running, UNCHANGED <<pos, log, table>>,
           NEW c, Saves(c, pos, log, table),
           \/ c.kind # "frame" /\ PUSH(c)
           \/ c.kind = "frame" /\ c.fp = fp /\ stack' = Append(stack, c) /\ fp' = Len(stack) + 1
    PROVE  StepOK
<1>1. SoundNow /\ fp \in Nat
  BY RunningIsSound
<1>2. stack' = Append(stack, c) /\ fp' = IF c.kind = "frame" THEN Len(stack) + 1 ELSE fp
  BY DEF PUSH
<1>3. Sound(stack', fp', pos, log, table)
  BY <1>1, <1>2, SoundPush DEF SoundNow
<1>4. Len(stack') = Len(stack) + 1 /\ Len(stack) \in Nat
  BY <1>1, <1>2, AppendFacts DEF SoundNow, Sound, Cells, IsSeq
<1>5. Restores
  BY <1>2, <1>4, NotFailing, RunningIsSound
<1> QED
  BY <1>1, <1>3, <1>5 DEF SoundNow, StepOK

\* The cells that the instructions push save the current state.
LEMMA CellsSave ==
    ASSUME IInv, Running
    PROVE  /\ \A next : Saves(Frame(next), pos, log, table)
           /\ \A next : Saves(RetCell(next), pos, log, table)
           /\ Saves(PosCell, pos, log, table)
           /\ Saves(TxCell, pos, log, table)
           /\ Saves(SymCell, pos, log, table)
<1>1. pos \in Nat /\ Len(log) \in Nat /\ Len(table) \in Nat
  BY RunningIsSound DEF SoundNow, Sound, IsSeq
<1> QED
  BY <1>1 DEF Saves, CellOK, HasPos, HasAst, HasSym, Frame, RetCell, PosCell, TxCell, SymCell,
              Snapshot, ast_save_tx, symtable_savepoint

\* L_fail.
LEMMA FailOK ==
    ASSUME IInv, Running, FAIL_IMPL
    PROVE  StepOK
<1> DEFINE c == stack[fp]
<1>1. SoundNow /\ fp \in Nat /\ fp # 0 /\ stack' = SubSeq(stack, 1, fp - 1) /\ fp' = c.fp
  BY RunningIsSound DEF FAIL_IMPL, DROP_FRAME
<1>2. /\ Sound(stack', fp', pos, log, table)
      /\ c.pos \in 0..pos /\ c.ast \in 0..Len(log) /\ c.sym \in 0..Len(table)
      /\ \A i \in 1..Len(stack') : /\ HasPos(stack'[i]) => stack'[i].pos <= c.pos
                                   /\ HasAst(stack'[i]) => stack'[i].ast <= c.ast
                                   /\ HasSym(stack'[i]) => stack'[i].sym <= c.sym
      /\ Marks(c, log, table)
  <2> DEFINE new == SubSeq(stack, 1, fp - 1)
  <2>1. /\ Sound(new, c.fp, pos, log, table)
        /\ c.pos \in 0..pos /\ c.ast \in 0..Len(log) /\ c.sym \in 0..Len(table)
        /\ \A i \in 1..Len(new) :
              /\ HasPos(new[i]) => new[i].pos <= c.pos
              /\ HasAst(new[i]) => new[i].ast <= c.ast
              /\ HasSym(new[i]) => new[i].sym <= c.sym
        /\ Marks(c, log, table)
    <3>1. /\ Sound(stack, fp, pos, log, table) /\ fp \in Nat /\ fp # 0
          /\ c = stack[fp] /\ new = SubSeq(stack, 1, fp - 1)
      BY <1>1 DEF SoundNow
    <3> HIDE DEF c, new
    <3> QED
      BY ONLY <3>1, SoundDrop, ZenonT(60)
  <2>2. stack' = new /\ fp' = c.fp
    BY <1>1
  <2> HIDE DEF new, c
  <2> QED
    BY <2>1, <2>2
<1>3. /\ pos' = c.pos
      /\ log' = SubSeq(log, 1, c.ast)
      /\ table' = SubSeq(table, 1, c.sym)
  <2>1. pos \in Nat
    BY <1>1 DEF SoundNow, Sound
  <2> QED
    BY <1>2, <2>1 DEF FAIL_IMPL, ast_rollback_tx, symtable_rollback
<1> HIDE DEF c
<1>4. Sound(stack', fp', pos, log', table')
  BY <1>2, <1>3, SoundRollback
<1>5. Sound(stack', fp', pos', log', table')
  <2>1. c.pos \in Nat
    BY <1>1, <1>2 DEF SoundNow, Sound
  <2>2. \A i \in 1..Len(stack') : HasPos(stack'[i]) => stack'[i].pos <= pos'
    BY <1>2, <1>3
  <2> QED
    BY <1>3, <1>4, <2>1, <2>2, SoundPos
<1>6. Texts(table')
  BY <1>1, <1>2, <1>3, TextsCut DEF SoundNow, Sound
<1>7. Restores
  BY <1>2, <1>3 DEF Restores, Marks, c
<1> QED
  BY <1>5, <1>6, <1>7 DEF StepOK, SoundNow

\* SP = FP without a failure: Succ, Memo and TMemo.
LEMMA DropOK ==
    ASSUME IInv, Running, DROP_FRAME, UNCHANGED <<pos, log, table>>,
           Instr.op \in {"Succ", "Memo", "TMemo"}
    PROVE  StepOK /\ pos - stack[fp].pos \in Nat /\ stack[fp].pos \in Nat
<1> DEFINE c == stack[fp]
<1>1. SoundNow /\ fp \in Nat /\ fp # 0 /\ stack' = SubSeq(stack, 1, fp - 1) /\ fp' = c.fp
  BY RunningIsSound DEF DROP_FRAME
<1>2. Sound(stack', fp', pos, log, table) /\ c.pos \in 0..pos
  <2>1. /\ Sound(stack, fp, pos, log, table) /\ fp \in Nat /\ fp # 0
        /\ c = stack[fp] /\ stack' = SubSeq(stack, 1, fp - 1)
    BY <1>1 DEF SoundNow
  <2>2. fp' = c.fp
    BY <1>1
  <2> HIDE DEF c
  <2> QED
    BY <2>1, <2>2, SoundDrop
<1>3. pos \in Nat
  BY <1>1 DEF SoundNow, Sound
<1>4. Restores
  BY DEF Restores, Failing
<1> QED
  BY <1>1, <1>2, <1>3, <1>4 DEF StepOK, SoundNow

\* Popping a cell that is not a frame.  The position it saves and the log and
\* the table cut at its savepoint may replace the current ones.
LEMMA PopOK ==
    ASSUME IInv, Running, NEW kind, kind # "frame", POP(kind)
    PROVE  /\ Restores
           /\ Sound(stack', fp', pos, log, table)
           /\ HasPos(TopCell) => TopCell.pos \in Nat /\ Sound(stack', fp', TopCell.pos, log, table)
           /\ HasAst(TopCell) => /\ TopCell.ast \in 0..Len(log)
                                 /\ Sound(stack', fp', pos, SubSeq(log, 1, TopCell.ast), table)
           /\ HasSym(TopCell) => /\ TopCell.sym \in 0..Len(table)
                                 /\ Sound(stack', fp', pos, log, SubSeq(table, 1, TopCell.sym))
<1> DEFINE k == Len(stack)
           c == stack[k]
<1>1. /\ Sound(stack, fp, pos, log, table) /\ fp \in Nat /\ stack # <<>>
      /\ c.kind # "frame" /\ c.kind = kind
      /\ stack' = SubSeq(stack, 1, Len(stack) - 1) /\ fp' = fp
  BY RunningIsSound DEF POP, Top, SoundNow
<1>2. c = TopCell
  BY DEF TopCell
<1>3. /\ k = Len(stack) /\ k # 0
      /\ c = stack[k] /\ stack' = SubSeq(stack, 1, k - 1)
  <2>1. stack = [i \in 1..k |-> stack[i]] /\ k \in Nat
    BY <1>1 DEF Sound, Cells, IsSeq
  <2>2. k # 0
    BY <1>1, <2>1
  <2> QED
    BY <1>1, <2>2
<1> HIDE DEF c, k
<1>4. /\ Sound(stack', fp, pos, log, table) /\ CellOK(c)
      /\ HasPos(c) => /\ c.pos \in 0..pos
                      /\ \A i \in 1..Len(stack') : HasPos(stack'[i]) => stack'[i].pos <= c.pos
      /\ HasAst(c) => /\ c.ast \in 0..Len(log)
                      /\ \A i \in 1..Len(stack') : HasAst(stack'[i]) => stack'[i].ast <= c.ast
      /\ HasSym(c) => /\ c.sym \in 0..Len(table)
                      /\ \A i \in 1..Len(stack') : HasSym(stack'[i]) => stack'[i].sym <= c.sym
  BY <1>1, <1>3, SoundPop
<1>5. /\ IsSeq(log) /\ IsSeq(table) /\ Len(log) \in 0..Len(log) /\ Len(table) \in 0..Len(table)
      /\ SubSeq(log, 1, Len(log)) = log /\ SubSeq(table, 1, Len(table)) = table
      /\ \A i \in 1..Len(stack') : /\ HasAst(stack'[i]) => stack'[i].ast <= Len(log)
                                   /\ HasSym(stack'[i]) => stack'[i].sym <= Len(table)
  <2>1. IsSeq(log) /\ IsSeq(table)
    BY <1>4 DEF Sound
  <2>2. Len(log) \in Nat /\ Len(table) \in Nat
    BY <2>1 DEF IsSeq
  <2>3. SubSeq(log, 1, Len(log)) = log /\ SubSeq(table, 1, Len(table)) = table
    BY <2>1, CutNothing
  <2>4. \A i \in 1..Len(stack') :
           /\ HasAst(stack'[i]) => stack'[i].ast <= Len(log)
           /\ HasSym(stack'[i]) => stack'[i].sym <= Len(table)
    BY <1>4 DEF Sound, Nest
  <2> QED
    BY <2>1, <2>2, <2>3, <2>4
<1>6. HasPos(c) => c.pos \in Nat /\ Sound(stack', fp, c.pos, log, table)
  <2>1. pos \in Nat
    BY <1>1 DEF Sound
  <2> QED
    BY <1>4, <2>1, SoundPos
<1>7. HasAst(c) => /\ c.ast \in 0..Len(log)
                   /\ Sound(stack', fp, pos, SubSeq(log, 1, c.ast), table)
  <2> SUFFICES ASSUME HasAst(c)
               PROVE  Sound(stack', fp, pos, SubSeq(log, 1, c.ast), table)
    BY <1>4
  <2>1. Sound(stack', fp, pos, SubSeq(log, 1, c.ast), SubSeq(table, 1, Len(table)))
    BY <1>4, <1>5, SoundRollback
  <2> QED
    BY <1>5, <2>1
<1>8. HasSym(c) => /\ c.sym \in 0..Len(table)
                   /\ Sound(stack', fp, pos, log, SubSeq(table, 1, c.sym))
  <2> SUFFICES ASSUME HasSym(c)
               PROVE  Sound(stack', fp, pos, log, SubSeq(table, 1, c.sym))
    BY <1>4
  <2>1. Sound(stack', fp, pos, SubSeq(log, 1, Len(log)), SubSeq(table, 1, c.sym))
    BY <1>4, <1>5, SoundRollback
  <2> QED
    BY <1>5, <2>1
<1>9. Restores
  BY <1>1, NotFailing
<1> QED
  BY <1>1, <1>2, <1>4, <1>6, <1>7, <1>8, <1>9

-----------------------------------------------------------------------------
(***************************************************************************)
(* The instructions.                                                       *)
(***************************************************************************)
\* What holds of the instruction that runs.
LEMMA InstrFacts ==
    ASSUME IInv, NEW ops, At(ops)
    PROVE  Running /\ OperandsOK(Instr) /\ Instr.op \in ops /\ pos \in Nat /\ MemoOK(memo)
BY DEF IInv, TypeOK, At, Running, Instr

LEMMA StillSteps ==
    ASSUME IInv, Nop \/ Jump \/ Exit \/ Abort \/ Overflow \/ First
    PROVE  StepOK /\ Others
<1>1. Running /\ pos \in Nat /\ MemoOK(memo)
  BY InstrFacts DEF Nop, Jump, Exit, Abort, Overflow, First
<1>2. UNCHANGED <<pos, stack, fp, log, table, memo, code>>
  BY DEF Nop, Jump, Exit, Abort, Overflow, First, frozen
<1>3. status' \in Ended \union {"running", "accept"}
  BY <1>1 DEF Nop, Jump, Exit, Abort, Overflow, First, Ended, Running
<1>4. StepOK
  BY <1>1, <1>2, StillOK
<1> QED
  BY <1>1, <1>2, <1>3, <1>4 DEF Others

\* The instructions that only append to the log.
LEMMA LogSteps ==
    ASSUME IInv, TPush \/ TPop \/ TLeftFold \/ TNew \/ TCapture \/ TTag \/ TReplace
    PROVE  StepOK /\ Others
<1>1. Running /\ pos \in Nat /\ MemoOK(memo)
  BY InstrFacts DEF TPush, TPop, TLeftFold, TNew, TCapture, TTag, TReplace
<1>2. PICK newLog : Logged(newLog) /\ \E e : newLog = Append(log, e)
  BY DEF TPush, TPop, TLeftFold, TNew, TCapture, TTag, TReplace, ast_log, ast_log_push,
         ast_log_pop, ast_log_swap, ast_log_new, ast_log_capture, ast_log_tag, ast_log_replace
<1>3. UNCHANGED <<pos, stack, fp, table, memo, code, status>> /\ log' = newLog
  BY <1>2 DEF Logged, frozen
<1>4. StepOK
  BY <1>1, <1>2, <1>3, StillOK
<1> QED
  BY <1>1, <1>3, <1>4 DEF Others, Running

\* The instructions that push a cell.
LEMMA PushSteps ==
    ASSUME IInv, Alt \/ Call \/ Pos \/ TStart \/ SOpen
    PROVE  StepOK /\ Others
<1>1. Running /\ pos \in Nat /\ MemoOK(memo)
  BY InstrFacts DEF Alt, Call, Pos, TStart, SOpen
<1>2. UNCHANGED <<pos, log, table, memo, code, status>>
  BY DEF Alt, Call, Pos, TStart, SOpen, frozen
<1>3. StepOK
  <2>1. CASE Alt
    <3>1. /\ stack' = Append(stack, Frame(Instr.to)) /\ fp' = Len(stack) + 1
          /\ Frame(Instr.to).kind = "frame" /\ Frame(Instr.to).fp = fp
      BY <2>1 DEF Alt, PUSH_FRAME, Frame
    <3> QED
      BY <1>1, <1>2, <3>1, CellsSave, PushOK
  <2>2. CASE Call
    BY <1>1, <1>2, <2>2, CellsSave, PushOK DEF Call, RetCell
  <2>3. CASE Pos
    BY <1>1, <1>2, <2>3, CellsSave, PushOK DEF Pos, PosCell
  <2>4. CASE TStart
    BY <1>1, <1>2, <2>4, CellsSave, PushOK DEF TStart, TxCell
  <2>5. CASE SOpen
    BY <1>1, <1>2, <2>5, CellsSave, PushOK DEF SOpen, SymCell
  <2> QED
    BY <2>1, <2>2, <2>3, <2>4, <2>5
<1> QED
  BY <1>1, <1>2, <1>3 DEF Others, Running

\* A mask is pushed and added.
LEMMA SMaskStep ==
    ASSUME IInv, SMask
    PROVE  StepOK /\ Others
<1>1. Running /\ SoundNow /\ MemoOK(memo) /\ fp \in Nat /\ Len(stack) \in Nat
  BY InstrFacts, RunningIsSound DEF SMask
<1>2. PICK s \in LeftOver : table' = symtable_push(table, Instr.arg, NoSym, s)
  BY DEF SMask, symtable_add_symbol_mask
<1>3. /\ stack' = Append(stack, SymCell) /\ fp' = fp /\ SymCell.kind = "sym"
      /\ UNCHANGED <<pos, log, memo, code, status>>
  BY DEF SMask, PUSH, SymCell, frozen
<1>4. Sound(stack', fp', pos, log, table)
  <2>1. Saves(SymCell, pos, log, table)
    BY <1>1, CellsSave
  <2>2. Sound(Append(stack, SymCell), IF SymCell.kind = "frame" THEN Len(stack) + 1 ELSE fp,
              pos, log, table)
    BY <1>1, <1>3, <2>1, SoundPush DEF SoundNow
  <2> QED
    BY <1>3, <2>2
<1>5. Sound(stack', fp', pos', log', table')
  BY <1>2, <1>3, <1>4, SoundGrow DEF symtable_push
<1>6. Texts(table')
  BY <1>1, <1>2, LeftOverAssumption, TextsPush DEF SoundNow, Sound
<1>7. Restores
  BY <1>1, <1>3, NotFailing
<1> QED
  BY <1>1, <1>3, <1>5, <1>6, <1>7 DEF StepOK, SoundNow, Others, Running

\* The instructions that drop the innermost frame without a failure.
LEMMA DropSteps ==
    ASSUME IInv, Succ \/ Memoize
    PROVE  StepOK /\ Others
<1>1. /\ Running /\ OperandsOK(Instr) /\ pos \in Nat /\ MemoOK(memo)
      /\ Instr.op \in {"Succ", "Memo", "TMemo"}
  BY InstrFacts DEF Succ, Memoize
<1>2. DROP_FRAME /\ UNCHANGED <<pos, log, table, code, status>>
  BY DEF Succ, Memoize, frozen
<1>3. StepOK /\ pos - stack[fp].pos \in Nat /\ stack[fp].pos \in Nat
  BY <1>1, <1>2, DropOK
<1>4. MemoOK(memo')
  <2>1. CASE Succ
    BY <1>1, <2>1 DEF Succ
  <2>2. CASE Memoize
    <3>1. Instr.memoId \in Nat
      BY <1>1 DEF OperandsOK
    <3> QED
      BY <1>1, <1>3, <2>2, <3>1, MemoKept DEF Memoize, MemoConsumed
  <2> QED
    BY <2>1, <2>2
<1> QED
  BY <1>1, <1>2, <1>3, <1>4 DEF Others, Running

\* The instructions that pop a cell.
LEMMA PopSteps ==
    ASSUME IInv, Ret \/ Back \/ SClose
    PROVE  StepOK /\ Others
<1>1. Running /\ MemoOK(memo) /\ SoundNow
  BY InstrFacts, RunningIsSound DEF Ret, Back, SClose
<1>2. UNCHANGED <<log, memo, code, status>>
  BY DEF Ret, Back, SClose, frozen
<1>3. StepOK
  <2>1. CASE Ret
    <3>1. Restores /\ Sound(stack', fp', pos, log, table)
      BY <1>1, <2>1, PopOK DEF Ret
    <3> QED
      BY <1>1, <2>1, <3>1 DEF Ret, StepOK, SoundNow
  <2>2. CASE Back
    <3>1. HasPos(TopCell)
      BY <2>2 DEF Back, POP, Top, TopCell, HasPos
    <3>2. Restores /\ Sound(stack', fp', TopCell.pos, log, table)
      BY <1>1, <2>2, <3>1, PopOK DEF Back
    <3> QED
      BY <1>1, <2>2, <3>2 DEF Back, StepOK, SoundNow
  <2>3. CASE SClose
    <3>1. HasSym(TopCell)
      BY <2>3 DEF SClose, POP, Top, TopCell, HasSym
    <3>2. /\ Restores /\ TopCell.sym \in 0..Len(table)
          /\ Sound(stack', fp', pos, log, SubSeq(table, 1, TopCell.sym))
      BY <1>1, <2>3, <3>1, PopOK DEF SClose
    <3>3. table' = SubSeq(table, 1, TopCell.sym) /\ pos' = pos /\ log' = log
      BY <2>3 DEF SClose, symtable_rollback
    <3>4. Texts(table')
      BY <1>1, <3>2, <3>3, TextsCut DEF SoundNow, Sound
    <3> QED
      BY <3>2, <3>3, <3>4 DEF StepOK, SoundNow
  <2> QED
    BY <2>1, <2>2, <2>3
<1> QED
  BY <1>1, <1>2, <1>3 DEF Others, Running

\* The captured text is one, wherever the position was pushed.
LEMMA CapturedIsText ==
    ASSUME TopCell.pos \in Nat, pos \in Nat
    PROVE  Len(Captured) \in Nat
<1> DEFINE T == {input[i] : i \in TopCell.pos + 1..pos}
<1>1. \A i \in TopCell.pos + 1..pos : input[i] \in T
  OBVIOUS
<1> HIDE DEF T
<1>2. Len(Captured) = IF TopCell.pos + 1 <= pos THEN pos - (TopCell.pos + 1) + 1 ELSE 0
  BY <1>1, SubSeqProperties DEF Captured
<1> QED
  BY <1>2

LEMMA SDefStep ==
    ASSUME IInv, SDef
    PROVE  StepOK /\ Others
<1>1. Running /\ MemoOK(memo) /\ SoundNow /\ pos \in Nat
  BY InstrFacts, RunningIsSound DEF SDef
<1>2. POP("pos") /\ UNCHANGED <<pos, log, memo, code, status>>
  BY DEF SDef, frozen
<1>3. HasPos(TopCell)
  BY <1>2 DEF POP, Top, TopCell, HasPos
<1>4. Restores /\ Sound(stack', fp', pos, log, table) /\ TopCell.pos \in Nat
  BY <1>1, <1>2, <1>3, PopOK
<1>5. table' = symtable_push(table, Instr.arg, fnv1a(Captured), Captured)
  BY DEF SDef, symtable_add_symbol
<1>6. Sound(stack', fp', pos, log, table')
  BY <1>4, <1>5, SoundGrow DEF symtable_push
<1>7. Texts(table')
  BY <1>1, <1>4, <1>5, CapturedIsText, TextsPush DEF SoundNow, Sound
<1> QED
  BY <1>1, <1>2, <1>4, <1>6, <1>7 DEF StepOK, SoundNow, Others, Running

\* A commit cuts the log at the transaction and appends one link.
LEMMA TCommitStep ==
    ASSUME IInv, TCommit
    PROVE  StepOK /\ Others
<1>1. Running /\ MemoOK(memo) /\ SoundNow
  BY InstrFacts, RunningIsSound DEF TCommit
<1>2. POP("tx") /\ UNCHANGED <<pos, table, memo, code>>
  BY DEF TCommit, frozen
<1>3. HasAst(TopCell)
  BY <1>2 DEF POP, Top, TopCell, HasAst
<1>4. /\ Restores /\ Sound(stack', fp', pos, log, table)
      /\ Sound(stack', fp', pos, SubSeq(log, 1, TopCell.ast), table)
  BY <1>1, <1>2, <1>3, PopOK
<1>5. status' \in {status, "crash"}
  BY DEF TCommit
<1>6. \/ log' = log
      \/ \E e : log' = Append(SubSeq(log, 1, TopCell.ast), e)
  BY DEF TCommit, Link, ast_commit_tx, ast_log_link, ast_log, ast_rollback_tx
<1>7. Sound(stack', fp', pos, log', table)
  BY <1>4, <1>6, SoundGrow
<1> QED
  BY <1>1, <1>2, <1>4, <1>5, <1>7 DEF StepOK, SoundNow, Others, Running, Ended

LEMMA FailStep ==
    ASSUME IInv, Fail
    PROVE  StepOK /\ Others
BY InstrFacts, FailOK DEF Fail, Others, Running, frozen

\* Skip fails or moves the frame of the loop.
LEMMA SkipStep ==
    ASSUME IInv, Skip
    PROVE  StepOK /\ Others
<1>1. Running /\ MemoOK(memo) /\ SoundNow
  BY InstrFacts, RunningIsSound DEF Skip
<1>2. UNCHANGED <<memo, code, status>> /\ fp # 0 /\ fp = Len(stack)
  BY DEF Skip, frozen
<1>3. CASE FAIL_IMPL
  BY <1>1, <1>2, <1>3, FailOK DEF Others, Running
<1>4. CASE /\ stack' = [stack EXCEPT ![fp] = SkipFrame]
           /\ UNCHANGED <<pos, fp, log, table>>
  <2>1. /\ Saves(Frame(stack[fp].next), pos, log, table)
        /\ SkipFrame = [Frame(stack[fp].next) EXCEPT !.fp = stack[fp].fp]
    BY <1>1, CellsSave DEF SkipFrame
  <2>2. /\ Saves(SkipFrame, pos, log, table)
        /\ SkipFrame.kind = "frame" /\ SkipFrame.fp = stack[fp].fp
    BY <2>1 DEF Saves, CellOK, HasPos, HasAst, HasSym, Frame
  <2>3. Sound(stack', fp', pos', log', table')
    BY <1>1, <1>2, <1>4, <2>2, SoundReplace DEF SoundNow
  <2>4. Restores
    BY <1>1, <1>4, NotFailing
  <2> QED
    BY <1>1, <1>2, <1>4, <2>3, <2>4 DEF StepOK, SoundNow, Others, Running
<1> QED
  BY <1>3, <1>4 DEF Skip

\* A step that advances by a number.
LEMMA AdvanceOK ==
    ASSUME IInv, Running, NEW n \in Nat, Advance(n)
    PROVE  StepOK
<1>1. UNCHANGED <<stack, fp, log, table>> /\ pos' = pos + n /\ pos \in Nat
  BY RunningIsSound DEF Advance, SoundNow, Sound
<1> QED
  BY <1>1, StillOK

LEMMA WidthIsNat ==
    ASSUME OperandsOK(Instr),
           Instr.op \in {"Byte", "Any", "Str", "Set", "OByte", "OStr", "OSet", "RByte", "RStr", "RSet"}
    PROVE  Width(Kind) \in Nat
<1>1. CASE Instr.op \in {"Str", "OStr", "RStr"}
  BY <1>1 DEF OperandsOK, Width, Kind
<1>2. CASE Instr.op \notin {"Str", "OStr", "RStr"}
  BY <1>2 DEF Width, Kind
<1> QED
  BY <1>1, <1>2

\* The instructions that match the input.
LEMMA MatchSteps ==
    ASSUME IInv, Match \/ NotMatch \/ OptMatch \/ RepMatch \/ Consume
    PROVE  StepOK /\ Others
<1>1. Running /\ OperandsOK(Instr) /\ MemoOK(memo)
  BY InstrFacts DEF Match, NotMatch, OptMatch, RepMatch, Consume
<1>2. UNCHANGED <<memo, code, status>>
  BY DEF Match, NotMatch, OptMatch, RepMatch, Consume, frozen
<1>3. FAIL_IMPL \/ \E n \in Nat : Advance(n)
  <2>1. CASE Match
    BY <1>1, <2>1, WidthIsNat, InstrFacts DEF Match
  <2>2. CASE NotMatch
    BY <2>2 DEF NotMatch
  <2>3. CASE OptMatch
    <3>1. Width(Kind) \in Nat
      BY <1>1, <2>3, WidthIsNat, InstrFacts DEF OptMatch
    <3> QED
      BY <2>3, <3>1 DEF OptMatch
  <2>4. CASE RepMatch
    <3>1. Width(Kind) \in Nat
      BY <1>1, <2>4, WidthIsNat, InstrFacts DEF RepMatch
    <3>2. PICK n \in 0..Len(input) : Advance(n * Width(Kind))
      BY <2>4 DEF RepMatch
    <3>3. n * Width(Kind) \in Nat
      BY <3>1, <3>2
    <3> QED
      BY <3>2, <3>3
  <2>5. CASE Consume
    BY <1>1, <2>5 DEF Consume, OperandsOK, At
  <2> QED
    BY <2>1, <2>2, <2>3, <2>4, <2>5
<1>4. StepOK
  BY <1>1, <1>3, FailOK, AdvanceOK
<1> QED
  BY <1>1, <1>2, <1>4 DEF Others, Running

\* A memo hit advances, links a node or fails.
LEMMA LookupStep ==
    ASSUME IInv, Lookup
    PROVE  StepOK /\ Others
<1>1. Running /\ OperandsOK(Instr) /\ MemoOK(memo) /\ pos \in Nat
  BY InstrFacts DEF Lookup
<1>2. UNCHANGED <<memo, code, status>>
  BY DEF Lookup, frozen
<1>3. Entry.consumed \in Nat
  BY <1>1, MemoKept DEF Entry, OperandsOK
<1>4. StepOK
  <2>1. CASE FAIL_IMPL
    BY <1>1, <2>1, FailOK
  <2>2. CASE UNCHANGED <<pos, stack, fp, log, table>>
    BY <1>1, <2>2, StillOK
  <2>3. CASE /\ pos' = pos + Entry.consumed
             /\ UNCHANGED <<stack, fp, table>>
             /\ \E e : log' = log \/ log' = Append(log, e)
    BY <1>1, <1>3, <2>3, StillOK
  <2> QED
    BY <2>1, <2>2, <2>3 DEF Lookup, Link, ast_log_link, ast_log
<1> QED
  BY <1>1, <1>2, <1>4 DEF Others, Running

LEMMA MemoFailStep ==
    ASSUME IInv, MemoFail
    PROVE  StepOK /\ Others
<1>1. Running /\ OperandsOK(Instr) /\ MemoOK(memo) /\ pos \in Nat
  BY InstrFacts DEF MemoFail
<1>2. FAIL_IMPL /\ memo' = memo_fail(memo, pos, Instr.memoId) /\ UNCHANGED <<code, status>>
  BY DEF MemoFail, frozen
<1>3. MemoOK(memo')
  BY <1>1, <1>2, MemoKept DEF OperandsOK
<1> QED
  BY <1>1, <1>2, <1>3, FailOK DEF Others, Running

\* The instructions that test the symbol table.
LEMMA SymbolSteps ==
    ASSUME IInv, STest \/ SMatch \/ SIs
    PROVE  StepOK /\ Others
<1>1. Running /\ MemoOK(memo) /\ SoundNow
  BY InstrFacts, RunningIsSound DEF STest, SMatch, SIs
<1>2. UNCHANGED <<memo, code, status>>
  BY DEF STest, SMatch, SIs, frozen
<1>3. CASE FAIL_IMPL
  BY <1>1, <1>2, <1>3, FailOK DEF Others, Running
<1>4. CASE STest /\ Advance(0)
  BY <1>1, <1>2, <1>4, AdvanceOK DEF Others, Running
<1>5. CASE SMatch /\ Symbol # NoSym /\ Advance(Len(Symbol))
  <2>1. Len(Symbol) \in Nat
    BY <1>1, <1>5, SymbolIsText DEF Symbol, SoundNow, Sound
  <2> QED
    BY <1>1, <1>2, <1>5, <2>1, AdvanceOK DEF Others, Running
<1>6. CASE POP("pos") /\ UNCHANGED <<pos, log, table>>
  <2>1. Restores /\ Sound(stack', fp', pos, log, table)
    BY <1>1, <1>6, PopOK
  <2> QED
    BY <1>1, <1>2, <1>6, <2>1 DEF StepOK, SoundNow, Others, Running
<1> QED
  BY <1>3, <1>4, <1>5, <1>6 DEF STest, SMatch, SIs

\* Taking the root node ends the parse; only the types are left to keep.
LEMMA GetParsedStep ==
    ASSUME IInv, GetParsed
    PROVE  IInv' /\ Restores
<1>1. /\ TypeOK /\ status = "accept" /\ status' \in Ended /\ status' # "running"
      /\ UNCHANGED <<code, pos, stack, fp, table, memo>>
  BY DEF IInv, GetParsed, Ended
<1>2. log' = log \/ log' = SubSeq(log, 1, 0)
  BY DEF GetParsed, ast_rollback_tx
<1>3. IsSeq(log')
  <2>1. IsSeq(log) /\ 0 \in 0..Len(log)
    BY <1>1 DEF TypeOK, IsSeq
  <2> QED
    BY <1>2, <2>1, CutFacts
<1>4. TypeOK'
  BY <1>1, <1>3 DEF TypeOK
<1>5. ~Running /\ ~Running'
  BY <1>1 DEF Running
<1> QED
  BY <1>4, <1>5 DEF IInv, FrameChain, SavepointsNest, BacktrackExact, Restores, Failing

LEMMA InitIInv == Init => IInv
<1> SUFFICES ASSUME Init
             PROVE  IInv
  OBVIOUS
<1>1. IsSeq(<<>>) /\ Len(<<>>) = 0 /\ SubSeq(<<>>, 1, 0) = <<>>
  BY SubSeqEmpty DEF IsSeq
<1>2. PICK f, r : /\ stack = <<f, r>> /\ f.kind = "frame" /\ f.fp = 0 /\ f.pos = 0
                  /\ f.ast = 0 /\ f.sym = 0 /\ f.was.log = <<>> /\ f.was.table = <<>>
                  /\ r.kind = "ret"
  BY DEF Init
<1>3. /\ IsSeq(stack) /\ Len(stack) = 2 /\ 1..Len(stack) = {1, 2}
      /\ stack[1] = f /\ stack[2] = r
  BY <1>2 DEF IsSeq
<1>4. log = <<>> /\ table = <<>> /\ pos = 0 /\ fp = 1 /\ status = "running"
  BY DEF Init
<1>5. MemoOK(memo)
  BY DEF Init, MemoOK, memo_elastic_init
<1>6. \A k \in DOMAIN code : OperandsOK(code[k])
  BY ProgramAssumption DEF Init
<1>7. TypeOK
  BY <1>1, <1>2, <1>3, <1>4, <1>5, <1>6
  DEF TypeOK, Texts, CellOK, HasPos, HasAst, HasSym, Ended
<1>8. Chain(stack, fp)
  BY <1>2, <1>3, <1>4 DEF Chain
<1>9. Nest(stack, pos, Len(log), Len(table))
  BY <1>1, <1>2, <1>3, <1>4 DEF Nest, HasPos, HasAst, HasSym
<1>10. Exact(stack, log, table)
  BY <1>1, <1>2, <1>3, <1>4 DEF Exact, HasAst, HasSym
<1> QED
  BY <1>7, <1>8, <1>9, <1>10 DEF IInv, FrameChain, SavepointsNest, BacktrackExact

\* Every step keeps the invariant and restores what a failure must restore.
LEMMA NextIInv == IInv /\ [Next]_vars => IInv' /\ Restores
<1> SUFFICES ASSUME IInv, [Next]_vars
             PROVE  IInv' /\ Restores
  OBVIOUS
<1>1. CASE StepOK /\ Others
  BY <1>1, KeepsIInv DEF StepOK
<1>2. CASE GetParsed
  BY <1>2, GetParsedStep
<1>3. CASE UNCHANGED vars
  <2>1. UNCHANGED <<code, pos, stack, fp, log, table, memo, status>>
    BY <1>3 DEF vars
  <2>2. IInv'
    BY <2>1 DEF IInv, TypeOK, FrameChain, SavepointsNest, BacktrackExact, Running
  <2>3. Restores
    BY <2>1 DEF Restores, Failing
  <2> QED
    BY <2>2, <2>3
<1>4. CASE Control
  BY <1>1, <1>4, StillSteps, PushSteps, DropSteps, PopSteps, FailStep, SkipStep DEF Control
<1>5. CASE Matching
  BY <1>1, <1>5, StillSteps, MatchSteps DEF Matching
<1>6. CASE Memoing
  BY <1>1, <1>6, LookupStep, DropSteps, MemoFailStep DEF Memoing
<1>7. CASE Building
  BY <1>1, <1>7, LogSteps, PushSteps, TCommitStep DEF Building
<1>8. CASE Symbols
  BY <1>1, <1>8, PushSteps, PopSteps, SMaskStep, SDefStep, SymbolSteps DEF Symbols
<1> QED
  BY <1>2, <1>3, <1>4, <1>5, <1>6, <1>7, <1>8 DEF Next, Step, Terminated

-----------------------------------------------------------------------------
(***************************************************************************)
(* The theorems.                                                           *)
(***************************************************************************)
\* The inductive invariant holds of every state of every parse.
THEOREM IInvHolds == Spec => []IInv
BY InitIInv, NextIInv, PTL DEF Spec

\* Every cell of the stack has the words of its kind, log and table stay
\* sequences, the memo table keeps a slot for every index.
THEOREM TypeCorrect == Spec => []TypeOK
<1>1. IInv => TypeOK
  BY DEF IInv
<1> QED
  BY <1>1, IInvHolds, PTL

\* FP is the innermost frame and the saved FPs lead through all frames.
THEOREM FramesAreChained == Spec => []FrameChain
<1>1. IInv => FrameChain
  BY DEF IInv
<1> QED
  BY <1>1, IInvHolds, PTL

\* The saved positions, log lengths and table sizes are in order.
THEOREM SavepointsAreNested == Spec => []SavepointsNest
<1>1. IInv => SavepointsNest
  BY DEF IInv
<1> QED
  BY <1>1, IInvHolds, PTL

\* Every savepoint on the stack still marks the log and the symbol table that it
\* was taken of.
THEOREM BacktrackingIsExact == Spec => []BacktrackExact
<1>1. IInv => BacktrackExact
  BY DEF IInv
<1> QED
  BY <1>1, IInvHolds, PTL

\* Every failure restores position, log and symbol table to what they were when
\* its frame was pushed.
THEOREM FailureRestores == Spec => FailRestores
<1>1. IInv /\ [Next]_vars => [Restores]_vars
  BY NextIInv
<1>2. Spec => [][Restores]_vars
  BY <1>1, IInvHolds, PTL DEF Spec
<1> QED
  BY <1>2 DEF FailRestores, Restores
=============================================================================
