------------------------------- MODULE PimCrf -------------------------------
(***************************************************************************)
(* The microprograms of the PIM units: the commands of PimCommand.cpp and  *)
(* the programs PimCrfBinGen.cpp makes of them for an operation and the    *)
(* size of its operands.                                                   *)
(*                                                                         *)
(* The counters the code writes as 7, 15 and 23 are one less than one, two *)
(* and three times NumGrf.  A 32-bit word is the set of its one bits.      *)
(***************************************************************************)
EXTENDS PimGeometry, Sequences

-----------------------------------------------------------------------------
(* Commands.                                                               *)

PimCmdType == <<"NOP", "ADD", "MUL", "MAC", "MAD", "REV0", "REV1", "REV2", "MOV",
                "FILL", "REV3", "REV4", "REV5", "REV6", "JUMP", "EXIT">>
PimOpdType == <<"A_OUT", "M_OUT", "EVEN_BANK", "ODD_BANK",
                "GRF_A", "GRF_B", "SRF_M", "SRF_A">>

\* The number of an enumerator.
Ord(enum, x) == (CHOOSE i \in DOMAIN enum : enum[i] = x) - 1

\* The constructors of PimCommand.
PimCommand ==
  [type |-> "NOP", dst |-> "A_OUT", src0 |-> "A_OUT", src1 |-> "A_OUT",
   src2 |-> "A_OUT", loop_counter |-> 0, loop_offset |-> 0, is_auto |-> 0,
   dst_idx |-> 0, src0_idx |-> 0, src1_idx |-> 0, is_relu |-> 0]
Control(type, lc) == [PimCommand EXCEPT !.type = type, !.loop_counter = lc]
Jump(lc, offset) ==
  [PimCommand EXCEPT !.type = "JUMP", !.loop_counter = lc, !.loop_offset = offset]
Fill(dst, src0, is_auto, is_relu) ==
  [PimCommand EXCEPT !.type = "FILL", !.dst = dst, !.src0 = src0,
                     !.is_auto = is_auto, !.is_relu = is_relu]
Alu(type, dst, src0, src1) ==
  [PimCommand EXCEPT !.type = type, !.dst = dst, !.src0 = src0, !.src1 = src1,
                     !.is_auto = 1]
Mad(dst, src0, src1_idx) ==
  [PimCommand EXCEPT !.type = "MAD", !.dst = dst, !.src0 = src0, !.src1 = "SRF_M",
                     !.src2 = "SRF_A", !.is_auto = 1, !.src1_idx = src1_idx]

\* val shifted right by up to len bits: a negative value has the bits of its
\* two's complement.
Shifted(val, len) ==
  LET sh[n \in 0 .. len] == IF n = 0 THEN val ELSE sh[n - 1] \div 2
  IN  sh

to_bit(val, len, pos) ==
  LET sh == Shifted(val, len)
  IN  {pos + i : i \in {j \in 0 .. len - 1 : sh[j] % 2 = 1}}

\* The value of the field, bit by bit from the highest one down.
from_bit(word, len, pos) ==
  LET top[n \in 0 .. len] ==
        IF n = 0 THEN 0 ELSE 2 * top[n - 1] + (IF pos + len - n \in word THEN 1 ELSE 0)
  IN  top[len]

\* The largest count the 17 bits of a JUMP hold.
MaxLoop == 512 * 256 - 1

to_int(c) ==
  LET opd(x) == Ord(PimOpdType, x)
      idx    == to_bit(c.dst_idx, 4, 8) \cup to_bit(c.src0_idx, 4, 4)
                  \cup to_bit(c.src1_idx, 4, 0)
      regs   == to_bit(opd(c.dst), 3, 25) \cup to_bit(opd(c.src0), 3, 22)
  IN  to_bit(Ord(PimCmdType, c.type), 4, 28) \cup
      CASE c.type = "NOP"  -> to_bit(c.loop_counter, 11, 0)
        [] c.type = "JUMP" -> to_bit(c.loop_counter, 17, 11)
                                \cup to_bit(c.loop_offset, 11, 0)
        [] c.type \in {"FILL", "MOV"} -> regs \cup idx \cup to_bit(c.is_relu, 1, 12)
        [] c.type \in {"ADD", "MUL", "MAC", "MAD"} ->
             regs \cup idx \cup to_bit(opd(c.src1), 3, 19) \cup to_bit(c.is_auto, 1, 15)
               \cup (IF c.type = "MAD" THEN to_bit(opd(c.src2), 3, 16) ELSE {})
        [] OTHER -> {}

from_int(word) ==
  LET type      == PimCmdType[from_bit(word, 4, 28) + 1]
      opd(pos)  == PimOpdType[from_bit(word, 3, pos) + 1]
      fresh     == [PimCommand EXCEPT !.type = type]
      moved     == [fresh EXCEPT !.dst = opd(25), !.src0 = opd(22),
                                 !.dst_idx = from_bit(word, 4, 8),
                                 !.src0_idx = from_bit(word, 4, 4),
                                 !.src1_idx = from_bit(word, 4, 0)]
  IN  CASE type = "NOP"  -> [fresh EXCEPT !.loop_counter = from_bit(word, 11, 0)]
        [] type = "JUMP" -> [fresh EXCEPT !.loop_counter = from_bit(word, 17, 11),
                                          !.loop_offset = from_bit(word, 11, 0)]
        [] type \in {"FILL", "MOV"} ->
             [moved EXCEPT !.is_relu = from_bit(word, 1, 12)]
        [] type \in {"ADD", "MUL", "MAC", "MAD"} ->
             [moved EXCEPT !.src1 = opd(19), !.is_auto = from_bit(word, 1, 15),
                           !.src2 = IF type = "MAD" THEN opd(16) ELSE @]
        [] OTHER -> fresh

-----------------------------------------------------------------------------
(* Programs.                                                               *)

\* The unit does nothing for the commands of n windows of NumGrf columns.
Idle(n) == Control("NOP", n * NumGrf - 1)

CeilHalf(n) == (n + 1) \div 2

\* Mutant of Body: an elementwise program that idles for two windows.
Body_short(op, lc) ==
  IF op \in {"ADD", "MUL"}
    THEN << Fill("GRF_A", "EVEN_BANK", 0, 0), Alu(op, "GRF_A", "GRF_A", "EVEN_BANK"),
            Idle(2),
            Fill("GRF_B", "ODD_BANK", 0, 0), Alu(op, "GRF_B", "GRF_B", "ODD_BANK"),
            Idle(2) >>
    ELSE << >>

\* The loop body of each operation: lc is the loop counter.
Body(op, lc) ==
  CASE op \in {"ADD", "MUL"} ->
         << Fill("GRF_A", "EVEN_BANK", 0, 0), Alu(op, "GRF_A", "GRF_A", "EVEN_BANK"),
            Idle(3),
            Fill("GRF_B", "ODD_BANK", 0, 0), Alu(op, "GRF_B", "GRF_B", "ODD_BANK"),
            Idle(3) >>
    [] op = "RELU" ->
         << Fill("GRF_A", "EVEN_BANK", 1, 1), Idle(2),
            Fill("GRF_B", "ODD_BANK", 1, 1), Idle(2) >>
    [] op = "COPY" ->
         << Fill("GRF_A", "EVEN_BANK", 1, 0), Idle(2),
            Fill("GRF_B", "ODD_BANK", 1, 0), Idle(2) >>
    [] op = "GEMV" ->
         << Alu("MAC", "GRF_B", "GRF_A", "EVEN_BANK"), Jump(NumGrf * CeilHalf(lc) - 1, 2),
            Alu("MAC", "GRF_B", "GRF_A", "ODD_BANK"), Jump(NumGrf * (lc \div 2) - 1, 2),
            Idle(3) >>
    [] op = "BN" ->
         << Mad("GRF_A", "EVEN_BANK", 0), Idle(1), Mad("GRF_A", "GRF_A", 1), Idle(1),
            Mad("GRF_B", "ODD_BANK", 0), Idle(1), Mad("GRF_B", "GRF_B", 1), Idle(3) >>

\* Mutant of create_pim_cmd: the jump counts itself twice.
create_pim_cmd_far(op, lc) ==
  LET body == Body(op, lc)
      cmds == Append(Append(body, Jump(lc, Len(body) + 2)), Control("EXIT", 0))
  IN  cmds \o [i \in 1 .. 8 - (Len(cmds) % 8) |-> Control("NOP", 0)]

\* is_gemv_tile_tree_ is false: both executors set TILE_ACCUM.
create_pim_cmd(op, lc) ==
  LET body   == Body(op, lc)
      looped == IF op # "GEMV" THEN Append(body, Jump(lc, Len(body) + 1)) ELSE body
      cmds   == Append(looped, Control("EXIT", 0))
  IN  cmds \o [i \in 1 .. 8 - (Len(cmds) % 8) |-> Control("NOP", 0)]

\* The loop counter, given the size of the operands in transactions of all
\* units and registers of one bank (4096 of 32 bytes), and for a product the
\* number of tiles of its input.
get_loop_counter(op, size) == IF op = "GEMV" THEN size ELSE size \div 2 - 1

\* make_crf_bin: the program as the unit reads it, word 0 first.
make_crf_bin(op, size) ==
  LET cmds == create_pim_cmd(op, get_loop_counter(op, size))
  IN  [i \in 0 .. Len(cmds) - 1 |-> from_int(to_int(cmds[i + 1]))]
=============================================================================
