-------------------------- MODULE Disassembler_proofs --------------------------
(***************************************************************************)
(* Proofs about the batch loops of the Disassembler, for every buffer      *)
(* length, every longest instruction and every set of budgets: what        *)
(* DisassembleMany and DisassembleDump return is the reference             *)
(* disassembly.                                                            *)
(*                                                                         *)
(* Each iteration of either loop emits exactly one line, the right line    *)
(* for the unit it starts at, and consumes exactly that line's units, so   *)
(* the output tiles the data from its start and the offset is its end.     *)
(***************************************************************************)
EXTENDS Disassembler, SequenceTheorems, WellFoundedInduction, TLAPS

\* The lines of the output buffer.
EntryT == [addr : Units, kind : Kinds, len : 1..BufLen, showAddr : BOOLEAN]

\* e ends the block of units of the dump that have unit a's validity.
BlockEndOK(a, e) ==
  /\ e \in a..BufLen
  /\ \A u \in a..e : valid[u] = valid[a]
  /\ e = BufLen \/ valid[e + 1] # valid[a]

\* BlockEnd's CHOOSE has a witness: the unit before the first unit after a
\* whose validity differs, or the last unit when there is none.
LEMMA BlockEndSpec ==
  ASSUME valid \in [Units -> BOOLEAN], NEW a \in Units
  PROVE  BlockEndOK(a, BlockEnd(a))
<1>1. BufLen \in Nat /\ a \in 1..BufLen
  BY DisassemblerAssumption DEF Units
<1>2. \E e \in a..BufLen :
        /\ \A u \in a..e : valid[u] = valid[a]
        /\ e = BufLen \/ valid[e + 1] # valid[a]
  <2> DEFINE S == {u \in a..BufLen : valid[u] # valid[a]}
  <2>1. CASE S = {}
    <3>1. \A u \in a..BufLen : valid[u] = valid[a]
      BY <2>1
    <3> QED
      BY <1>1, <3>1
  <2>2. CASE S # {}
    <3>1. S \subseteq Nat
      BY <1>1
    <3>2. PICK x \in S : \A y \in S : ~(<<y, x>> \in OpToRel(<, Nat))
      BY <2>2, <3>1, NatLessThanWellFounded, WFMin
    <3>3. \A y \in S : ~(y < x)
      BY <3>1, <3>2 DEF OpToRel
    <3>4. x \in a + 1..BufLen /\ valid[x] # valid[a]
      BY <1>1
    <3>5. \A u \in a..x - 1 : valid[u] = valid[a]
      BY <1>1, <3>3, <3>4
    <3>6. x - 1 \in a..BufLen /\ valid[(x - 1) + 1] # valid[a]
      BY <1>1, <3>4
    <3> QED
      BY <3>5, <3>6
  <2> QED
    BY <2>1, <2>2
<1> QED
  BY <1>2 DEF BlockEnd, BlockEndOK

\* r emits exactly one line, the right line for unit a, and consumes
\* exactly its units, which lie inside the data.
GoodLine(a, r) ==
  \E e \in EntryT :
    /\ r.lines = <<e>>
    /\ e.addr = a
    /\ r.consumed = e.len
    /\ a + e.len <= BufLen + 1
    /\ RightLine(e)

\* The options of the batch loops show undecodable instructions, and the
\* addresses as the caller asked.
LEMMA BatchOptionsSpec ==
  ASSUME opts \in [emitAddresses : BOOLEAN, emitUndecodable : BOOLEAN]
  PROVE  /\ BatchOptions(opts).emitUndecodable = TRUE
         /\ BatchOptions(opts).emitAddresses = opts.emitAddresses
BY DEF BatchOptions

\* One iteration of DisassembleMany: every unit of a buffer is mapped, so
\* DisassembleOne's check against the end of the buffer is RightLine's.
LEMMA ManyLine ==
  ASSUME TypeOK, \A u \in Units : valid[u], NEW a \in Units
  PROVE  GoodLine(a, DisassembleOne(a, BufLen, BatchOptions(opts)))
<1> DEFINE n == code[a]
           o == BatchOptions(opts)
<1>1. o.emitUndecodable = TRUE /\ o.emitAddresses = opts.emitAddresses
  BY BatchOptionsSpec DEF TypeOK
<1>2. BufLen \in Nat /\ a \in 1..BufLen /\ n \in Nat /\ valid[a]
  BY DisassemblerAssumption DEF TypeOK, Units
<1>3. CASE n > 0 /\ a + n - 1 <= BufLen
  <2> DEFINE e == Entry(a, "insn", n, opts.emitAddresses)
  <2>1. DisassembleOne(a, BufLen, o) = [consumed |-> n, lines |-> <<e>>]
    BY <1>1, <1>3 DEF DisassembleOne
  <2>2. e \in EntryT
    BY <1>2, <1>3 DEF Entry, EntryT, Kinds, TypeOK, Units
  <2>4. /\ e.addr = a /\ e.kind = "insn" /\ e.len = n
        /\ e.showAddr = opts.emitAddresses
    BY DEF Entry
  <2>5. \A u \in a..a + n - 1 : valid[u]
    BY <1>2, <1>3 DEF Units
  <2>3. RightLine(e)
    <3>1. e.addr + e.len - 1 <= BufLen
      BY <1>3, <2>4
    <3>2. \A u \in e.addr..e.addr + e.len - 1 : valid[u] = valid[e.addr]
      <4>1. \A u \in e.addr..e.addr + e.len - 1 : valid[u] = TRUE
        BY <2>4, <2>5
      <4>2. valid[e.addr] = TRUE
        BY <1>2, <2>4
      <4> QED
        BY <4>1, <4>2
    <3>3. /\ valid[e.addr]
          /\ e.showAddr = opts.emitAddresses
          /\ code[e.addr] > 0 /\ e.addr + code[e.addr] - 1 <= BufLen
          /\ \A u \in e.addr..e.addr + code[e.addr] - 1 : valid[u]
          /\ e.kind = "insn" /\ e.len = code[e.addr]
      BY <1>2, <1>3, <2>4, <2>5
    <3> QED
      BY <3>1, <3>2, <3>3, Zenon DEF RightLine
  <2> QED
    BY <1>2, <1>3, <2>1, <2>2, <2>3, <2>4 DEF GoodLine
<1>4. CASE ~(n > 0 /\ a + n - 1 <= BufLen)
  <2> DEFINE e == Entry(a, "data", 1, opts.emitAddresses)
  <2>1. DisassembleOne(a, BufLen, o) = [consumed |-> 1, lines |-> <<e>>]
    BY <1>1, <1>4 DEF DisassembleOne
  <2>2. e \in EntryT
    BY <1>2 DEF Entry, EntryT, Kinds, TypeOK, Units
  <2>4. /\ e.addr = a /\ e.kind = "data" /\ e.len = 1
        /\ e.showAddr = opts.emitAddresses
    BY DEF Entry
  <2>3. RightLine(e)
    BY <1>2, <1>4, <2>4 DEF RightLine
  <2> QED
    BY <1>2, <2>1, <2>2, <2>3, <2>4 DEF GoodLine
<1> QED
  BY <1>3, <1>4

\* The line DumpStep emits at unit a of the dump.
DumpResult(a) ==
  IF valid[a] THEN DisassembleOne(a, BlockEnd(a), BatchOptions(opts))
              ELSE UnmappedBlock(a)

\* One iteration of DisassembleDump.  In a mapped block DisassembleOne
\* gets the data up to the block's end, so an instruction that runs into
\* the next unmapped range does not decode, as RightLine requires; an
\* unmapped block is one line up to the next mapped unit.
LEMMA DumpLine ==
  ASSUME TypeOK, NEW a \in Units
  PROVE  GoodLine(a, DumpResult(a))
<1> DEFINE n == code[a]
           o == BatchOptions(opts)
<1>0. PICK b : b = BlockEnd(a)
  OBVIOUS
<1>1. o.emitUndecodable = TRUE /\ o.emitAddresses = opts.emitAddresses
  BY BatchOptionsSpec DEF TypeOK
<1>2. BufLen \in Nat /\ a \in 1..BufLen /\ n \in Nat /\ valid \in [Units -> BOOLEAN]
  BY DisassemblerAssumption DEF TypeOK, Units
<1>3. BlockEndOK(a, b)
  BY <1>0, <1>2, BlockEndSpec
<1>7. b \in a..BufLen
  BY <1>3 DEF BlockEndOK
<1>8. \A u \in a..b : valid[u] = valid[a]
  BY <1>3 DEF BlockEndOK
<1>9. b = BufLen \/ valid[b + 1] # valid[a]
  BY <1>3 DEF BlockEndOK
<1>4. CASE valid[a] /\ n > 0 /\ a + n - 1 <= b
  <2> DEFINE e == Entry(a, "insn", n, opts.emitAddresses)
  <2>1. DumpResult(a) = [consumed |-> n, lines |-> <<e>>]
    BY <1>0, <1>1, <1>4 DEF DumpResult, DisassembleOne
  <2>6. a + n - 1 <= BufLen /\ n \in 1..BufLen
    BY <1>2, <1>4, <1>7
  <2>2. e \in EntryT
    BY <1>2, <2>6 DEF Entry, EntryT, Kinds, TypeOK, Units
  <2>3. /\ e.addr = a /\ e.kind = "insn" /\ e.len = n
        /\ e.showAddr = opts.emitAddresses
    BY DEF Entry
  <2>7. \A u \in a..a + n - 1 : u \in a..b
    BY <1>2, <1>4, <1>7
  <2>4. \A u \in a..a + n - 1 : valid[u]
    BY <1>4, <1>8, <2>7, Zenon
  <2>5. RightLine(e)
    <3>1. e.addr + e.len - 1 <= BufLen
      BY <2>3, <2>6
    <3>2. \A u \in e.addr..e.addr + e.len - 1 : valid[u] = valid[e.addr]
      <4>1. \A u \in e.addr..e.addr + e.len - 1 : valid[u] = TRUE
        BY <2>3, <2>4
      <4>2. valid[e.addr] = TRUE
        BY <1>4, <2>3
      <4> QED
        BY <4>1, <4>2
    <3>3. /\ valid[e.addr]
          /\ e.showAddr = opts.emitAddresses
          /\ code[e.addr] > 0 /\ e.addr + code[e.addr] - 1 <= BufLen
          /\ \A u \in e.addr..e.addr + code[e.addr] - 1 : valid[u]
          /\ e.kind = "insn" /\ e.len = code[e.addr]
      BY <1>4, <2>3, <2>4, <2>6
    <3> QED
      BY <3>1, <3>2, <3>3, Zenon DEF RightLine
  <2> QED
    BY <1>2, <2>1, <2>2, <2>3, <2>5, <2>6 DEF GoodLine
<1>5. CASE valid[a] /\ ~(n > 0 /\ a + n - 1 <= b)
  <2> DEFINE e == Entry(a, "data", 1, opts.emitAddresses)
  <2>1. DumpResult(a) = [consumed |-> 1, lines |-> <<e>>]
    BY <1>0, <1>1, <1>5 DEF DumpResult, DisassembleOne
  <2>2. e \in EntryT
    BY <1>2 DEF Entry, EntryT, Kinds, TypeOK, Units
  <2>3. /\ e.addr = a /\ e.kind = "data" /\ e.len = 1
        /\ e.showAddr = opts.emitAddresses
    BY DEF Entry
  <2>4. ~(/\ n > 0 /\ a + n - 1 <= BufLen
          /\ \A u \in a..a + n - 1 : valid[u])
    <3> SUFFICES ASSUME n > 0, a + n - 1 <= BufLen, \A u \in a..a + n - 1 : valid[u]
                 PROVE  FALSE
      OBVIOUS
    <3>1. b < BufLen /\ b + 1 \in a..a + n - 1
      BY <1>2, <1>5, <1>7
    <3>2. valid[b + 1] = TRUE /\ valid[a] = TRUE
      BY <1>5, <3>1
    <3>3. b # BufLen
      BY <1>2, <1>7, <3>1
    <3>4. valid[b + 1] # valid[a]
      BY <1>9, <3>3
    <3> QED
      BY <3>2, <3>4, Zenon
  <2>5. RightLine(e)
    <3>1. e.addr + e.len - 1 <= BufLen
      BY <1>2, <2>3
    <3>2. \A u \in e.addr..e.addr + e.len - 1 : valid[u] = valid[e.addr]
      BY <1>2, <2>3
    <3>3. /\ valid[e.addr]
          /\ e.showAddr = opts.emitAddresses
          /\ ~(/\ code[e.addr] > 0 /\ e.addr + code[e.addr] - 1 <= BufLen
               /\ \A u \in e.addr..e.addr + code[e.addr] - 1 : valid[u])
          /\ e.kind = "data" /\ e.len = 1
      BY <1>5, <2>3, <2>4
    <3> QED
      BY <3>1, <3>2, <3>3, Zenon DEF RightLine
  <2> QED
    BY <1>2, <2>1, <2>2, <2>3, <2>5 DEF GoodLine
<1>6. CASE ~valid[a]
  <2> DEFINE e == [addr |-> a, kind |-> "unmapped", len |-> b - a + 1, showAddr |-> TRUE]
  <2>6. b - a + 1 \in 1..BufLen /\ a + (b - a + 1) <= BufLen + 1
    BY <1>2, <1>7
  <2>2. e \in EntryT
    BY <1>2, <2>6 DEF Entry, EntryT, Kinds, Units
  <2>3. /\ e.addr = a /\ e.kind = "unmapped" /\ e.len = b - a + 1 /\ e.showAddr
    BY DEF Entry
  <2>4. b = BufLen \/ valid[b + 1]
    <3>1. b # BufLen => b + 1 \in Units
      BY <1>2, <1>7 DEF Units
    <3>2. b # BufLen => valid[b + 1] \in BOOLEAN
      BY <1>2, <3>1
    <3>3. CASE b = BufLen
      BY <3>3
    <3>4. CASE b # BufLen
      <4>1. valid[b + 1] # valid[a] /\ valid[b + 1] \in BOOLEAN /\ valid[a] \in BOOLEAN
        BY <1>2, <1>9, <3>2, <3>4
      <4> QED
        BY <1>6, <4>1, Zenon
    <3> QED
      BY <3>3, <3>4
  <2>7. b \in Int /\ b <= BufLen /\ a \in Int
    BY <1>2, <1>7
  <2>5. RightLine(e)
    <3>1. e.addr + e.len - 1 = b /\ b <= BufLen
      BY <2>3, <2>7
    <3>2. \A u \in e.addr..e.addr + e.len - 1 : valid[u] = valid[e.addr]
      BY <1>8, <2>3, <3>1
    <3>3. ~valid[e.addr] /\ e.kind = "unmapped" /\ e.showAddr
      BY <1>6, <2>3
    <3>4. e.addr + e.len - 1 = BufLen \/ valid[e.addr + e.len - 1 + 1]
      BY <2>4, <3>1
    <3> QED
      BY <3>1, <3>2, <3>3, <3>4, Zenon DEF RightLine
  <2>8. a + e.len <= BufLen + 1
    BY <2>3, <2>6, <2>7
  <2>9. DumpResult(a).lines = <<e>> /\ DumpResult(a).consumed = e.len
    BY <1>0, <1>6, <2>7 DEF DumpResult, UnmappedBlock, Entry
  <2> QED
    BY <2>2, <2>3, <2>5, <2>8, <2>9 DEF GoodLine
<1> QED
  BY <1>4, <1>5, <1>6


-----------------------------------------------------------------------------
(* The loop invariant of both batch loops                                  *)

\* The unit after the last line emitted so far.
OutEnd ==
  IF Len(out) = 0 THEN 1 ELSE out[Len(out)].addr + out[Len(out)].len

\* What the loops of DisassembleMany and DisassembleDump keep true: the
\* lines emitted so far tile the data from its start, each is the right
\* line for its address, the offset is the unit after the last one, every
\* line was counted, the budget was never overrun, and the loop returned
\* only at the end of the data or of the budget.  A buffer is mapped
\* throughout.
DInv ==
  /\ TypeOK
  /\ call = "many" => \A u \in Units : valid[u]
  /\ Len(out) > 0 => out[1].addr = 1
  /\ \A i \in 1..Len(out) - 1 : out[i + 1].addr = out[i].addr + out[i].len
  /\ \A i \in 1..Len(out) : RightLine(out[i])
  /\ count = Len(out)
  /\ offset = OutEnd
  /\ Len(out) < offset
  /\ maxInstr # 0 => Len(out) <= maxInstr
  /\ pc = "done" => offset > BufLen \/ ~InBudget


\* One iteration of either loop that emits a good line at the offset
\* keeps the loop invariant.
LEMMA EmitLine ==
  ASSUME DInv, NEW e \in EntryT,
         e.addr = offset, offset + e.len <= BufLen + 1, RightLine(e),
         pc = "loop", InBudget,
         offset' = offset + e.len, out' = out \o <<e>>, count' = count + 1,
         UNCHANGED <<call, code, valid, maxInstr, opts, pc>>
  PROVE  DInv'
<1> DEFINE n == Len(out)
<1>1. out \in Seq(EntryT) /\ n \in Nat /\ BufLen \in Nat
  BY DisassemblerAssumption DEF DInv, TypeOK, EntryT
<1>2. e.len \in 1..BufLen /\ e.addr \in Units
  BY DEF EntryT
<1>0. /\ offset \in 1..BufLen + 1 /\ count = n /\ n < offset
      /\ offset = OutEnd
      /\ maxInstr # 0 => n < maxInstr
      /\ MaxIterations = BufLen + 1
      /\ maxInstr \in Nat
  BY DisassemblerAssumption DEF DInv, TypeOK, InBudget, MaxIterations
<1>3. /\ out' = Append(out, e)
      /\ Len(out') = n + 1
      /\ out'[n + 1] = e
      /\ \A i \in 1..n : out'[i] = out[i]
  <2>1. out' = Append(out, e)
    BY <1>1, AppendIsConcat
  <2> QED
    BY <1>1, <2>1, AppendProperties
<1>4. TypeOK'
  <2>1. out' \in Seq([addr : Units, kind : Kinds, len : 1..BufLen, showAddr : BOOLEAN])
    BY <1>1, <1>3 DEF EntryT
  <2>2. offset' \in 1..BufLen + 1 /\ count' \in 0..MaxIterations
    BY <1>0, <1>1, <1>2
  <2>3. /\ call' \in {"many", "dump"}
        /\ code' \in [Units -> 0..MaxLen]
        /\ valid' \in [Units -> BOOLEAN]
        /\ maxInstr' \in Budgets
        /\ opts' \in [emitAddresses : BOOLEAN, emitUndecodable : BOOLEAN]
        /\ pc' \in {"loop", "done"}
    BY DEF DInv, TypeOK
  <2> QED
    BY <2>1, <2>2, <2>3 DEF TypeOK
<1>5. Len(out') > 0 => out'[1].addr = 1
  <2>1. CASE n = 0
    BY <1>3, <2>1 DEF DInv, OutEnd
  <2>2. CASE n # 0
    BY <1>1, <1>3, <2>2 DEF DInv
  <2> QED
    BY <2>1, <2>2
<1>6. \A i \in 1..Len(out') - 1 : out'[i + 1].addr = out'[i].addr + out'[i].len
  <2> SUFFICES ASSUME NEW i \in 1..n PROVE out'[i + 1].addr = out'[i].addr + out'[i].len
    BY <1>1, <1>3
  <2>1. CASE i = n
    BY <1>1, <1>3, <2>1 DEF DInv, OutEnd
  <2>2. CASE i < n
    BY <1>1, <1>3, <2>2 DEF DInv
  <2> QED
    BY <1>1, <2>1, <2>2
<1>7. (\A i \in 1..Len(out) : RightLine(out[i]))'
  <2>1. \A i \in 1..n + 1 : RightLine(out'[i])
    <3> SUFFICES ASSUME NEW i \in 1..n + 1 PROVE RightLine(out'[i])
      OBVIOUS
    <3>1. CASE i = n + 1
      BY <1>3, <3>1
    <3>2. CASE i \in 1..n
      BY <1>3, <3>2 DEF DInv
    <3> QED
      BY <1>1, <3>1, <3>2
  <2> QED
    BY <1>3, <2>1 DEF RightLine
<1>8. /\ count' = Len(out')
      /\ offset' = OutEnd'
      /\ Len(out') < offset'
  <2>2. OutEnd' = e.addr + e.len
    BY <1>3 DEF OutEnd
  <2> QED
    BY <1>0, <1>1, <1>2, <1>3, <2>2
<1>9. maxInstr' # 0 => Len(out') <= maxInstr'
  <2>1. maxInstr' = maxInstr
    OBVIOUS
  <2> QED
    BY <1>0, <1>1, <1>3, <2>1
<1>10. /\ call' = "many" => \A u \in Units : valid'[u]
       /\ pc' = "done" => offset' > BufLen \/ ~InBudget'
  BY DEF DInv
<1> QED
  BY <1>4, <1>5, <1>6, <1>7, <1>8, <1>9, <1>10 DEF DInv


\* An iteration of DisassembleMany keeps the loop invariant.
LEMMA ManyStepDInv ==
  ASSUME DInv, ManyStep
  PROVE  DInv'
<1> DEFINE r == DisassembleOne(offset, BufLen, BatchOptions(opts))
<1>1. offset \in Units /\ \A u \in Units : valid[u]
  BY DEF ManyStep, DInv, TypeOK, Units
<1>2. GoodLine(offset, r)
  BY <1>1, ManyLine DEF DInv
<1>3. PICK e \in EntryT :
        /\ r.lines = <<e>>
        /\ e.addr = offset
        /\ r.consumed = e.len
        /\ offset + e.len <= BufLen + 1
        /\ RightLine(e)
  BY <1>2 DEF GoodLine
<1>4. offset' = offset + e.len /\ out' = out \o <<e>> /\ count' = count + 1
  BY <1>3 DEF ManyStep
<1>5. /\ pc = "loop" /\ InBudget
      /\ UNCHANGED <<call, code, valid, maxInstr, opts, pc>>
  BY DEF ManyStep
<1> QED
  BY <1>3, <1>4, <1>5, EmitLine

\* An iteration of DisassembleDump keeps the loop invariant.
LEMMA DumpStepDInv ==
  ASSUME DInv, DumpStep
  PROVE  DInv'
<1> DEFINE r == DumpResult(offset)
<1>1. offset \in Units
  BY DEF DumpStep, DInv, TypeOK, Units
<1>2. GoodLine(offset, r)
  BY <1>1, DumpLine DEF DInv
<1>3. PICK e \in EntryT :
        /\ r.lines = <<e>>
        /\ e.addr = offset
        /\ r.consumed = e.len
        /\ offset + e.len <= BufLen + 1
        /\ RightLine(e)
  BY <1>2 DEF GoodLine
<1>4. offset' = offset + e.len /\ out' = out \o <<e>> /\ count' = count + 1
  BY <1>3 DEF DumpStep, DumpResult
<1>5. /\ pc = "loop" /\ InBudget
      /\ UNCHANGED <<call, code, valid, maxInstr, opts, pc>>
  BY DEF DumpStep
<1> QED
  BY <1>3, <1>4, <1>5, EmitLine

\* A step that changes nothing but the program counter, and sets it to
\* "done" only at the end of the data or of the budget, keeps the loop
\* invariant: Return, and a stuttering step.
LEMMA FrameDInv ==
  ASSUME DInv,
         UNCHANGED <<call, code, valid, maxInstr, opts, offset, count, out>>,
         pc' \in {"loop", "done"},
         pc' = "done" => offset > BufLen \/ ~InBudget
  PROVE  DInv'
<1>1. TypeOK'
  BY DEF DInv, TypeOK
<1>2. (\A i \in 1..Len(out) : RightLine(out[i]))'
  BY DEF DInv, RightLine
<1>3. (pc = "done" => offset > BufLen \/ ~InBudget)'
  BY DEF InBudget
<1>4. /\ (call = "many" => \A u \in Units : valid[u])'
      /\ (Len(out) > 0 => out[1].addr = 1)'
      /\ (\A i \in 1..Len(out) - 1 : out[i + 1].addr = out[i].addr + out[i].len)'
      /\ (count = Len(out))'
      /\ (offset = OutEnd)'
      /\ (Len(out) < offset)'
      /\ (maxInstr # 0 => Len(out) <= maxInstr)'
  BY DEF DInv, OutEnd
<1> QED
  BY <1>1, <1>2, <1>3, <1>4 DEF DInv

\* The loop invariant holds when the call starts.
LEMMA InitDInv ==
  Init => DInv
<1> SUFFICES ASSUME Init PROVE DInv
  OBVIOUS
<1>1. TypeOK
  <2>1. valid \in [Units -> BOOLEAN]
    BY DEF Init
  <2>2. offset \in 1..BufLen + 1 /\ count \in 0..MaxIterations
    BY DisassemblerAssumption DEF Init, MaxIterations
  <2> QED
    BY <2>1, <2>2 DEF Init, TypeOK
<1>2. call = "many" => \A u \in Units : valid[u]
  BY DEF Init
<1>3. Len(out) = 0 /\ offset = 1 /\ count = 0 /\ pc = "loop" /\ maxInstr \in Nat
  BY DisassemblerAssumption DEF Init
<1>4. /\ Len(out) > 0 => out[1].addr = 1
      /\ \A i \in 1..Len(out) - 1 : out[i + 1].addr = out[i].addr + out[i].len
      /\ \A i \in 1..Len(out) : RightLine(out[i])
  BY <1>3
<1>5. /\ count = Len(out)
      /\ offset = OutEnd
      /\ Len(out) < offset
      /\ maxInstr # 0 => Len(out) <= maxInstr
      /\ pc = "done" => offset > BufLen \/ ~InBudget
  BY <1>3 DEF OutEnd
<1> QED
  BY <1>1, <1>2, <1>4, <1>5 DEF DInv

\* Every step keeps the loop invariant.
LEMMA NextDInv ==
  DInv /\ [Next]_vars => DInv'
<1> SUFFICES ASSUME DInv, [Next]_vars PROVE DInv'
  OBVIOUS
<1>1. CASE ManyStep
  BY <1>1, ManyStepDInv
<1>2. CASE DumpStep
  BY <1>2, DumpStepDInv
<1>3. CASE Return
  BY <1>3, FrameDInv DEF Return
<1>4. CASE UNCHANGED vars
  BY <1>4, FrameDInv DEF vars, DInv, TypeOK
<1> QED
  BY <1>1, <1>2, <1>3, <1>4 DEF Next


\* When the loop invariant holds, a call that has returned has produced
\* the reference disassembly: the budget or the end of the data stopped it.
LEMMA DInvOutput ==
  DInv => OutputMatchesReference
<1> SUFFICES ASSUME DInv, pc = "done"
             PROVE  OutputMatchesReference
  BY DEF OutputMatchesReference
<1> DEFINE n == Len(out)
<1>1. /\ offset \in 1..BufLen + 1 /\ offset = OutEnd /\ count = n
      /\ maxInstr \in Nat /\ n \in Nat /\ BufLen \in Nat
      /\ offset > BufLen \/ ~InBudget
      /\ maxInstr # 0 => n <= maxInstr
  BY DisassemblerAssumption DEF DInv, TypeOK
<1>4. IF maxInstr = 0 THEN OutEnd = BufLen + 1
                      ELSE n <= maxInstr /\ (n = maxInstr \/ OutEnd = BufLen + 1)
  <2>1. CASE maxInstr = 0
    <3>1. offset > BufLen
      BY <1>1, <2>1 DEF InBudget
    <3> QED
      BY <1>1, <2>1, <3>1
  <2>2. CASE maxInstr # 0
    <3>1. ~InBudget => count >= maxInstr
      BY <1>1, <2>2 DEF InBudget
    <3> QED
      BY <1>1, <2>2, <3>1
  <2> QED
    BY <2>1, <2>2
<1> QED
  BY <1>4 DEF DInv, OutputMatchesReference, OutEnd

\* DisassembleMany and DisassembleDump keep their output typed: every line
\* lies in the data, the offset never passes the end by more than one
\* unit, and *instruction_count stays within the iteration bound.
THEOREM TypeCorrect ==
  Spec => []TypeOK
<1>1. DInv => TypeOK
  BY DEF DInv
<1> QED
  BY InitDInv, NextDInv, <1>1, PTL DEF Spec

\* Whatever the bytes, the mapped ranges, the options and the budget, a
\* call of DisassembleMany or DisassembleDump that returns has produced the
\* reference disassembly: lines that tile the data from its start, each the
\* right line for its address, covering all of it unless max_instructions
\* lines were emitted, with *instruction_count the number of lines.
THEOREM OutputMatchesReferenceHolds ==
  Spec => []OutputMatchesReference
BY InitDInv, NextDInv, DInvOutput, PTL DEF Spec

=============================================================================
