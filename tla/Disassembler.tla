----------------------------- MODULE Disassembler -----------------------------
(***************************************************************************)
(* The batch rules of zxdb's Disassembler (src/bin/zxdb/client/            *)
(* disassembler.h): DisassembleOne on one instruction, and the loops of    *)
(* DisassembleMany over a buffer and DisassembleDump over a memory dump,   *)
(* with their instruction budget and their forward-progress rule.          *)
(*                                                                         *)
(* The instruction decoder is an external library.  It is abstracted to a  *)
(* table: code[a] is the length, in decode units, of the instruction that  *)
(* starts at unit a, or 0 when the bytes there do not decode.  An          *)
(* instruction that runs past the data it is given does not decode either. *)
(* Text is abstracted to one entry per emitted line: its address, its kind *)
(* (instruction, "data" placeholder, unmapped range), its length, and      *)
(* whether its address is shown.                                           *)
(*                                                                         *)
(* One behaviour is one call: Init chooses the call and its inputs, and    *)
(* each step is one iteration of the call's loop.                          *)
(***************************************************************************)
EXTENDS Naturals, Sequences

CONSTANTS
  BufLen,   \* length of the buffer or dump, in decode units
  MaxLen,   \* longest instruction, in decode units
  Budgets   \* the max_instructions values a caller may pass (0 = no limit)

ASSUME DisassemblerAssumption ==
  /\ BufLen \in Nat \ {0}
  /\ MaxLen \in Nat \ {0}
  /\ Budgets \subseteq Nat

VARIABLES
  call,       \* "many" (DisassembleMany) or "dump" (DisassembleDump)
  code,       \* the decoder's view of the data
  valid,      \* valid[a]: unit a is mapped (always TRUE for a buffer)
  maxInstr,   \* max_instructions
  opts,       \* Options: emit_addresses and emit_undecodable
  offset,     \* the unit the loop decodes next
  count,      \* *instruction_count
  out,        \* the OutputBuffer, one entry per line
  pc          \* "loop" while the call runs, "done" once it returned

vars == <<call, code, valid, maxInstr, opts, offset, count, out, pc>>

Units == 1..BufLen

Kinds == {"insn", "data", "unmapped"}

Entry(a, kind, len, showAddr) ==
  [addr |-> a, kind |-> kind, len |-> len, showAddr |-> showAddr]

\* A bound on the iterations of one loop: a loop that makes progress takes
\* at most BufLen of them.
MaxIterations == BufLen + 1

-----------------------------------------------------------------------------
(* DisassembleOne                                                          *)

\* Mutant: an instruction is taken whole even when it runs past the data.
DisassembleOneUnchecked(a, limit, o) ==
  IF code[a] > 0
    THEN [consumed |-> code[a], lines |-> <<Entry(a, "insn", code[a], o.emitAddresses)>>]
    ELSE [consumed |-> 1, lines |-> <<Entry(a, "data", 1, o.emitAddresses)>>]

\* DisassembleOne at unit a, given the data up to unit limit.  A decodable
\* instruction is emitted and its length consumed.  An undecodable one
\* consumes nothing and emits nothing unless emit_undecodable is set; then
\* a "data" line is emitted and one decode unit consumed.
DisassembleOne(a, limit, o) ==
  LET n == code[a]
  IN  IF n > 0 /\ a + n - 1 <= limit
        THEN [consumed |-> n, lines |-> <<Entry(a, "insn", n, o.emitAddresses)>>]
      ELSE IF o.emitUndecodable
        THEN [consumed |-> 1, lines |-> <<Entry(a, "data", 1, o.emitAddresses)>>]
      ELSE [consumed |-> 0, lines |-> <<>>]

\* Mutant: the batch loops decode with the caller's options.
BatchOptionsAsGiven(o) == o

\* The options DisassembleMany and DisassembleDump decode with: the
\* caller's, except that undecodable instructions are always shown, or the
\* loop would not advance.
BatchOptions(o) == [o EXCEPT !.emitUndecodable = TRUE]

\* Whether the budget allows one more instruction.
InBudget == maxInstr = 0 \/ count < maxInstr

-----------------------------------------------------------------------------
(* The calls                                                               *)

Init ==
  /\ call \in {"many", "dump"}
  /\ code \in [Units -> 0..MaxLen]
  /\ valid \in IF call = "many" THEN {[a \in Units |-> TRUE]}
                                ELSE [Units -> BOOLEAN]
  /\ maxInstr \in Budgets
  /\ opts \in [emitAddresses : BOOLEAN, emitUndecodable : BOOLEAN]
  /\ offset = 1
  /\ count = 0
  /\ out = <<>>
  /\ pc = "loop"

\* One iteration of DisassembleMany: decode at the offset with the data up
\* to the end of the buffer.
ManyStep ==
  /\ call = "many" /\ pc = "loop"
  /\ offset <= BufLen /\ InBudget
  /\ count < MaxIterations
  /\ LET r == DisassembleOne(offset, BufLen, BatchOptions(opts))
     IN  /\ offset' = offset + r.consumed
         /\ out' = out \o r.lines
         /\ count' = count + 1
  /\ UNCHANGED <<call, code, valid, maxInstr, opts, pc>>

\* The last unit of the dump's block that holds unit a.
BlockEnd(a) ==
  CHOOSE e \in a..BufLen :
    /\ \A u \in a..e : valid[u] = valid[a]
    /\ e = BufLen \/ valid[e + 1] # valid[a]

\* Mutant: every unit of an unmapped range gets a line of its own.
UnmappedBlockPerUnit(a) ==
  [consumed |-> 1, lines |-> <<Entry(a, "unmapped", 1, TRUE)>>]

\* An unmapped block of the dump is one line, and one instruction of the
\* budget, and shows its address whatever the options say.
UnmappedBlock(a) ==
  LET len == BlockEnd(a) - a + 1
  IN  [consumed |-> len, lines |-> <<Entry(a, "unmapped", len, TRUE)>>]

\* One iteration of DisassembleDump: an unmapped block is skipped as one
\* line; in a mapped block, one instruction is decoded with the data up to
\* the end of the block.
DumpStep ==
  /\ call = "dump" /\ pc = "loop"
  /\ offset <= BufLen /\ InBudget
  /\ count < MaxIterations
  /\ LET r == IF valid[offset]
                THEN DisassembleOne(offset, BlockEnd(offset), BatchOptions(opts))
                ELSE UnmappedBlock(offset)
     IN  /\ offset' = offset + r.consumed
         /\ out' = out \o r.lines
         /\ count' = count + 1
  /\ UNCHANGED <<call, code, valid, maxInstr, opts, pc>>

\* The loop ends when the data is used up or the budget is spent; the
\* number of units consumed and *instruction_count are returned.
Return ==
  /\ pc = "loop"
  /\ offset > BufLen \/ ~InBudget
  /\ pc' = "done"
  /\ UNCHANGED <<call, code, valid, maxInstr, opts, offset, count, out>>

Next == ManyStep \/ DumpStep \/ Return

\* The loops run on the caller's thread to their end.
Spec == Init /\ [][Next]_vars /\ WF_vars(Next)

-----------------------------------------------------------------------------
(* Properties                                                              *)

TypeOK ==
  /\ call \in {"many", "dump"}
  /\ code \in [Units -> 0..MaxLen]
  /\ valid \in [Units -> BOOLEAN]
  /\ maxInstr \in Budgets
  /\ opts \in [emitAddresses : BOOLEAN, emitUndecodable : BOOLEAN]
  /\ offset \in 1..BufLen + 1
  /\ count \in 0..MaxIterations
  /\ out \in Seq([addr : Units, kind : Kinds, len : 1..BufLen, showAddr : BOOLEAN])
  /\ pc \in {"loop", "done"}

\* The reference: the line that belongs at unit a, stated from the
\* contract rather than from the loop.  An unmapped unit starts a line
\* that covers the whole unmapped range after it, with its address; a
\* mapped unit starts an instruction when the decoder reads one that stays
\* inside the mapped data, and a one-unit "data" line otherwise.
RightLine(e) ==
  LET a == e.addr
      last == a + e.len - 1
  IN  /\ last <= BufLen
      /\ \A u \in a..last : valid[u] = valid[a]
      /\ IF ~valid[a]
           THEN /\ e.kind = "unmapped" /\ e.showAddr
                /\ last = BufLen \/ valid[last + 1]
           ELSE /\ e.showAddr = opts.emitAddresses
                /\ IF code[a] > 0 /\ a + code[a] - 1 <= BufLen
                      /\ \A u \in a..a + code[a] - 1 : valid[u]
                     THEN e.kind = "insn" /\ e.len = code[a]
                     ELSE e.kind = "data" /\ e.len = 1

\* When DisassembleMany or DisassembleDump returns, its output is the
\* reference disassembly: lines that tile the data from its start without
\* gap or overlap, each the right line for its address; it covers the
\* whole data when max_instructions is 0, and otherwise holds exactly
\* max_instructions lines or covers the whole data; and *instruction_count
\* is the number of lines.
OutputMatchesReference ==
  pc = "done" =>
    LET n == Len(out)
        End == IF n = 0 THEN 1 ELSE out[n].addr + out[n].len
    IN  /\ n > 0 => out[1].addr = 1
        /\ \A i \in 1..n - 1 : out[i + 1].addr = out[i].addr + out[i].len
        /\ \A i \in 1..n : RightLine(out[i])
        /\ count = n
        /\ offset = End
        /\ IF maxInstr = 0 THEN End = BufLen + 1
                           ELSE n <= maxInstr /\ (n = maxInstr \/ End = BufLen + 1)

\* Forward progress: every call of DisassembleMany and DisassembleDump
\* returns, whatever bytes it is given and whatever the options say about
\* undecodable instructions.
Termination == <>(pc = "done")

=============================================================================
