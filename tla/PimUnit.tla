------------------------------ MODULE PimUnit -------------------------------
(***************************************************************************)
(* One PIM unit and the memory commands that drive it, as the kernels of   *)
(* include/executor use them (the device is external; its registers are    *)
(* those of external_libs/include/dramsim2).  In mode HAB_PIM every column *)
(* command to a bank executes an instruction of the CRF; what the          *)
(* instruction works on follows from the column, not from the order in     *)
(* which commands arrive.                                                  *)
(*                                                                         *)
(* Values are terms: <<"op0", bank, location>> is what operand op0 held    *)
(* there, <<"ADD", v, w>> a sum, <<"SUM", S>> the sum of the products of   *)
(* weights and inputs in S, each once.                                     *)
(***************************************************************************)
EXTENDS PimCrf

Garbage == <<"?">>
NoProducts == <<"SUM", {}>>

\* A unit: the mode of its memory (SB, HAB, HAB_PIM), how many of the four
\* writes that lead to HAB have come, the words of the CRF that were written, as
\* the unit decodes them, its program counter, how often the instruction has been repeated, the
\* jump taken last and how often it will still be taken, and its registers.
Regs == [i \in 0 .. NumGrf - 1 |-> Garbage]
NoJump == [at |-> -1, left |-> 0]
UnitInit == [mode |-> "SB", ab |-> 0, crf |-> << >>, pc |-> 0, rep |-> 0,
             jump |-> NoJump, GRF_A |-> Regs, GRF_B |-> Regs, srf |-> FALSE]

-----------------------------------------------------------------------------
(* Instructions.                                                           *)

\* The instruction at the program counter; one that was not loaded is unknown.
Fetch(u) ==
  IF u.pc \in DOMAIN u.crf THEN u.crf[u.pc] ELSE [PimCommand EXCEPT !.type = "?"]

\* Commands an instruction takes.
Takes(ins) ==
  CASE ins.type = "NOP"                      -> ins.loop_counter + 1
    [] ins.type = "FILL" \/ ins.is_auto = 1  -> NumGrf
    [] OTHER                                 -> 1

\* The next instruction.  A jump takes no command; no jump follows another.
AfterInstruction(u) ==
  LET n    == u.pc + 1
      cmd  == Fetch([u EXCEPT !.pc = n])
      left == IF u.jump.at = n THEN u.jump.left ELSE cmd.loop_counter
  IN  IF cmd.type # "JUMP" THEN [u EXCEPT !.pc = n, !.rep = 0]
      ELSE IF left > 0
        THEN [u EXCEPT !.pc = n - cmd.loop_offset + 1, !.rep = 0,
                       !.jump = [at |-> n, left |-> left - 1]]
        ELSE [u EXCEPT !.pc = n + 1, !.rep = 0, !.jump = [at |-> n, left |-> 0]]

Step(u) ==
  LET ins == Fetch(u)
  IN  IF ins.type \in {"EXIT", "?"} THEN u
      ELSE IF u.rep + 1 < Takes(ins) THEN [u EXCEPT !.rep = @ + 1]
      ELSE AfterInstruction(u)

\* A command c to a bank, [k, bank, loc] with k "R" or "W": the registers it
\* works on are those of its column.
Col(c) == c.loc % NumGrf

\* What an instruction reads: data is what c reads of its bank.
Operand(u, c, data, src) ==
  CASE src = "EVEN_BANK" -> IF c.bank = 0 THEN data ELSE Garbage
    [] src = "ODD_BANK"  -> IF c.bank = 1 THEN data ELSE Garbage
    [] src = "GRF_A"     -> u.GRF_A[Col(c)]
    [] src = "GRF_B"     -> u.GRF_B[Col(c)]
    [] OTHER             -> Garbage

\* One more product in a sum; a product that is there already spoils it.
Accumulate(sum, x, w) ==
  IF /\ sum[1] = "SUM" /\ x[1] = "x" /\ w[1] = "w"
     /\ <<w[2], x[2]>> \notin sum[2]
    THEN <<"SUM", sum[2] \cup {<<w[2], x[2]>>}>>
    ELSE Garbage

\* The register of GRF_B a product goes to: by row parity and group of columns.
High(c) == (c.loc \div NumGrf) % NumGrf

Compute(u, c, data, ins) ==
  LET v(src) == Operand(u, c, data, src)
      put(file, val) == IF ins.dst = file THEN [u[file] EXCEPT ![Col(c)] = val] ELSE u[file]
      set(val) == [u EXCEPT !.GRF_A = put("GRF_A", val), !.GRF_B = put("GRF_B", val)]
  IN  CASE ins.type = "FILL" ->
             set(IF ins.is_relu = 1 THEN <<"RELU", v(ins.src0)>> ELSE v(ins.src0))
        [] ins.type \in {"ADD", "MUL"} -> set(<<ins.type, v(ins.src0), v(ins.src1)>>)
        [] ins.type = "MAD" ->
             set(IF u.srf THEN <<"MAD", v(ins.src0), ins.src1_idx>> ELSE Garbage)
        [] ins.type = "MAC" ->
             [u EXCEPT !.GRF_B[High(c)] = Accumulate(@, v(ins.src0), v(ins.src1))]
        [] ins.type = "?" -> [u EXCEPT !.GRF_A = Regs, !.GRF_B = Regs]
        [] OTHER -> u

\* The unit after a command to a bank.
AfterBank(u, c, data) ==
  IF u.mode # "HAB_PIM" THEN u
  ELSE Step(Compute(u, c, IF c.k = "R" THEN data ELSE Garbage, Fetch(u)))

\* What a write puts into the bank: while the program idles, the registers.
Written(u, c) ==
  IF u.mode = "HAB_PIM" /\ Fetch(u).type = "NOP"
    THEN IF c.bank = 0 THEN u.GRF_A[Col(c)] ELSE u.GRF_B[Col(c)]
    ELSE Garbage

-----------------------------------------------------------------------------
(* Writes to registers.  i is the write, lane the pair of threads it is    *)
(* from.  In mode SB only those that lead to and from HAB have an effect.  *)

\* The words of a program that are in the same 32 bytes.
Column(words, lane) == {n \in DOMAIN words : n \div 8 = lane}

AfterRegister(u, i, lane) ==
  IF u.mode = "SB" /\ i.k \notin {"AB", "SB", "PARK"} THEN u
  ELSE CASE i.k = "AB" ->
         IF u.mode = "SB" /\ u.ab = i.n - 1
           THEN [u EXCEPT !.ab = i.n, !.mode = IF i.n = 4 THEN "HAB" ELSE @] ELSE u
    [] i.k = "SB" -> IF u.mode = "HAB" THEN [u EXCEPT !.mode = "SB", !.ab = 0] ELSE u
    [] i.k = "HAB_PIM" -> [u EXCEPT !.mode = "HAB_PIM", !.pc = 0, !.rep = 0,
                                    !.jump = NoJump,
                                    !.GRF_B = IF i.clear
                                                THEN [n \in DOMAIN @ |-> NoProducts] ELSE @]
    [] i.k = "HAB" -> [u EXCEPT !.mode = "HAB"]
    [] i.k = "CRF" -> [u EXCEPT !.crf = [n \in DOMAIN @ \cup Column(i.words, lane) |->
                                        IF n \in Column(i.words, lane) THEN i.words[n] ELSE @[n]]]
    [] i.k = "SRF" -> [u EXCEPT !.srf = TRUE]
    [] i.k = "GRF" -> [u EXCEPT !.GRF_A[lane] = <<"x", i.base + lane>>]
    [] OTHER -> u
=============================================================================
