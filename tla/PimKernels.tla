----------------------------- MODULE PimKernels -----------------------------
(***************************************************************************)
(* The kernels under include/executor/hip, as HipPimExecutor.cpp launches  *)
(* them for the device: elementwise operations, batch normalization and    *)
(* the two gemm kernels, with the programs of PimCrf and the weights of    *)
(* PimLayout.                                                              *)
(*                                                                         *)
(* A kernel is a sequence of windows that end in a fence (B_CMD).  A window*)
(* is a sequence of accesses; each is made by the pairs of threads (lanes) *)
(* it names, a pair making the two halves of a transaction.  Within a      *)
(* window the memory takes accesses in any order, except those of one lane *)
(* to one place.  Reading a register back, which the kernels do to be sure *)
(* of a write, is left out.                                                *)
(*                                                                         *)
(* All channels and units do the same on their own banks; one of them is   *)
(* followed.  Sizes count what one bank of every unit holds in half its    *)
(* registers' columns: 2^17 bytes in the code.                             *)
(***************************************************************************)
EXTENDS PimUnit, PimLayout, SequencesExt

CONSTANTS
  Jobs,     \* the operations a client asks for
  Units,    \* the units that are followed, as <<channel, number in it>>
  TmpSlots  \* the tiles of outputs pim_gemv_tmp_buffer_ has room for, 64 in the code

VARIABLES
  stage,    \* "idle", "convert", "run" or "done"
  job,      \* the operation in progress
  at,       \* the unit that is followed
  u,        \* its state
  window,   \* the number of the window the kernel is in
  code,     \* the accesses of that window
  pending,  \* accesses of that window still to come, as <<index, lane>>
  mem,      \* the buffer the kernel writes, at this unit, by <<bank, location>>
  weight,   \* the converted weight at this unit
  result    \* the outputs a gemm stored, by their offset

\* Shapes and sizes are positive; in_cnt of a gemm see below.
ASSUME JobsAssumption ==
  \A j \in Jobs :
    IF j.op = "GEMV" THEN {j.s.nc, j.s.out, j.s.in_cnt, j.inout_h} \subseteq Nat \ {0}
    ELSE j.op \in {"ADD", "MUL", "RELU", "COPY", "BN"} /\ j.size \in Nat

\* Units have a channel and a number the memory has.
ASSUME UnitsAssumption == Units \subseteq (0 .. NumChan - 1) \X (0 .. NumPimBlocks - 1)

ASSUME TmpAssumption == TmpSlots \in Nat

vars == <<stage, job, at, u, window, code, pending, mem, weight, result, conv, dst>>

-----------------------------------------------------------------------------
(* Accesses and windows.                                                   *)

Lanes == 0 .. NumGrf - 1

Reg(k) == [k |-> k, lanes |-> {0}]
R_CMD(buf, bank, base) ==
  [k |-> "R", buf |-> buf, bank |-> bank, base |-> base, lanes |-> Lanes]
W_CMD(buf, bank, base) ==
  [k |-> "W", buf |-> buf, bank |-> bank, base |-> base, lanes |-> Lanes]

\* A write to an unused row of every bank.
park == << <<Reg("PARK")>> >>

change_sb_hab == [n \in 1 .. 4 |-> <<[k |-> "AB", n |-> n, lanes |-> {0}]>>]
\* Each of the lanes writes a column of the program.
program_crf(words, lanes) == <<[k |-> "CRF", words |-> words, lanes |-> 0 .. lanes - 1]>>
program_srf == <<Reg("SRF")>>
change_hab_habpim(clear, lanes) == <<[k |-> "HAB_PIM", clear |-> clear, lanes |-> lanes]>>
change_habpim_hab(lanes) == << <<[k |-> "HAB", lanes |-> lanes]>> >>

\* Mutant of change_hab_sb: the registers that leave HAB are not written.
change_hab_sb_parked == << <<Reg("PARK")>> >>

change_hab_sb == << <<[k |-> "SB", lanes |-> {0, 1}]>> >>

-----------------------------------------------------------------------------
(* Elementwise kernels.  A job is [op, size, out]: out is "out", or "op0"  *)
(* for an operation in place.                                              *)

\* Tiles the kernel goes through: one per bank pair and NumGrf columns.
NumTile(j) == IF j.op \in {"ADD", "MUL"} THEN (j.size + 1) \div 2 ELSE j.size \div 2

\* Mutant of elt_op_pim: no fence between the second operand and the writes.
elt_op_pim_unfenced(j, base) ==
  FlattenSeq([b \in 1 .. 2 |->
    << <<R_CMD("op0", b - 1, base)>>,
       <<R_CMD("op1", b - 1, base), W_CMD(j.out, b - 1, base),
         W_CMD(j.out, b - 1, base), R_CMD(j.out, b - 1, base)>> >>])

\* What elt_op_pim, relu_pim, copy_pim and bn_pim_nr_sip do for a tile.
elt_op_pim(j, base) ==
  FlattenSeq([b \in 1 .. 2 |->
    << <<R_CMD("op0", b - 1, base)>>, <<R_CMD("op1", b - 1, base)>>,
       <<W_CMD(j.out, b - 1, base), W_CMD(j.out, b - 1, base),
         R_CMD(j.out, b - 1, base)>> >>])

relu_pim(j, base) ==
  FlattenSeq([b \in 1 .. 2 |->
    << <<R_CMD("op0", b - 1, base)>>,
       <<W_CMD(j.out, b - 1, base), R_CMD(j.out, b - 1, base)>> >>])

copy_pim(j, base) ==
  FlattenSeq([b \in 1 .. 2 |->
    << <<R_CMD("op0", b - 1, base)>>,
       <<W_CMD(j.out, b - 1, base), R_CMD(j.out, b - 1, base)>> >>])

bn_pim_nr_sip(j, base) ==
  [n \in 1 .. 7 |-> <<R_CMD("op0", IF n <= 4 THEN 0 ELSE 1, base)>>]
    \o << <<W_CMD(j.out, 0, base)>>, <<W_CMD(j.out, 1, base), R_CMD(j.out, 1, base)>> >>

\* The CRF is one column of eight words, two for batch normalization, which
\* programs them only when the units are in mode HAB_PIM.
EltKernel(j) ==
  LET tile(t) == CASE j.op \in {"ADD", "MUL"} -> elt_op_pim(j, t * NumGrf)
                   [] j.op = "RELU" -> relu_pim(j, t * NumGrf)
                   [] j.op = "COPY" -> copy_pim(j, t * NumGrf)
                   [] j.op = "BN" -> bn_pim_nr_sip(j, t * NumGrf)
      words == make_crf_bin(j.op, j.size)
      setup == IF j.op = "BN"
                 THEN << program_srf \o change_hab_habpim(FALSE, {0}), program_crf(words, 2) >>
                 ELSE << program_crf(words, 1) \o change_hab_habpim(FALSE, {0}) >>
  IN  park \o change_sb_hab \o setup
        \o FlattenSeq([t \in 1 .. NumTile(j) |-> tile(t - 1)])
        \o change_habpim_hab({0, 1}) \o change_hab_sb \o park
-----------------------------------------------------------------------------
(* Gemm kernels.  A job is ["GEMV", s, inout_h, bias, relu]: the weight s   *)
(* (see PimLayout), the rows of each input matrix, whether there is a bias  *)
(* and whether the activation is relu.  in_cnt is a multiple of 2 * NumGrf. *)

Chwise(j) == check_chwise_gemm_bo(j.s)
InTiles(j) == j.s.in_cnt \div NumGrf
OutTiles(j) == IF Chwise(j) THEN 1 ELSE j.s.out \div OutTile
IterCnt(j) == IF Chwise(j) THEN j.s.nc \div (OutTile \div j.s.out)
              ELSE (j.s.nc * j.s.out) \div OutTile

\* The tiles of outputs, each with a slot of partial sums.  Nothing in the code
\* asks whether the buffer has that many: past its end the model says nothing.
TileCount(j) == (IterCnt(j) * j.inout_h) * OutTiles(j)
SumsFit(j) == TileCount(j) <= TmpSlots

\* The transactions of the input that go with the first tile of inputs.
InputBase(j, ch, i, in_idx) ==
  LET perIter   == OutTile \div j.s.out
      chsPerOp  == NumChan \div perIter
  IN  IF Chwise(j) THEN (ch \div chsPerOp + i * perIter) * j.s.in_cnt
      ELSE (i * j.inout_h + in_idx) * j.s.in_cnt

\* Row 0 of the weights of iteration i, as a location.
WeightBase(j, i) == PerBank(i * j.s.in_cnt * (IF Chwise(j) THEN OutTile ELSE j.s.out))

\* Where the partial sums of a tile of outputs go.
SumBase(j, i, in_idx, o_idx) ==
  IF Chwise(j) THEN i * NumGrf
  ELSE ((i * j.inout_h + in_idx) * OutTiles(j) + o_idx) * NumGrf

\* Mutant of weight_rows: the second tile of outputs reads the first one's rows.
weight_rows_first(j, i, o_idx, i_idx) ==
  LET even_row == 2 * (i_idx \div 2)
  IN  FlattenSeq([r \in 1 .. 2 |-> [c \in 1 .. ColsPerRow \div NumGrf |->
        R_CMD("weight", i_idx % 2, WeightBase(j, i)
              + (even_row + r - 1) * ColsPerRow + (c - 1) * NumGrf)]])

\* One input tile against its weights: two rows, in the even bank for even tiles.
weight_rows(j, i, o_idx, i_idx) ==
  LET r_offset == (o_idx * InTiles(j)) \div 2
      even_row == 2 * (i_idx \div 2 + r_offset)
  IN  FlattenSeq([r \in 1 .. 2 |-> [c \in 1 .. ColsPerRow \div NumGrf |->
        R_CMD("weight", i_idx % 2, WeightBase(j, i)
              + (even_row + r - 1) * ColsPerRow + (c - 1) * NumGrf)]])

\* One tile of outputs for one row of the input: the even input tiles, the odd
\* ones, then the partial sums.
gemm_tile(j, ch, i, in_idx, o_idx) ==
  LET in_tile(i_idx) ==
        << <<[k |-> "GRF", lanes |-> Lanes,
              base |-> InputBase(j, ch, i, in_idx) + i_idx * NumGrf]>>,
           weight_rows(j, i, o_idx, i_idx) >>
      half  == InTiles(j) \div 2
      sums  == SumBase(j, i, in_idx, o_idx)
  IN  << change_hab_habpim(TRUE, Lanes) >>
        \o FlattenSeq([n \in 1 .. half |-> in_tile(2 * (n - 1))])
        \o FlattenSeq([n \in 1 .. half |-> in_tile(2 * (n - 1) + 1)])
        \o << <<W_CMD("sum", 1, sums), W_CMD("sum", 1, sums), R_CMD("sum", 1, sums)>> >>
        \o change_habpim_hab(Lanes)

\* pim_chwise_gemm_bias_relu_fp16 and pim_aligned_gemm_bias_relu_fp16, and the
\* copies of them for a fixed number of input tiles.
GemmKernel(j, ch) ==
  park \o change_sb_hab \o << program_crf(make_crf_bin("GEMV", InTiles(j)), 1) >>
    \o FlattenSeq([i \in 1 .. IterCnt(j) |->
         FlattenSeq([r \in 1 .. j.inout_h |->
           FlattenSeq([o \in 1 .. OutTiles(j) |->
             gemm_tile(j, ch, i - 1, r - 1, o - 1)])])])
    \o change_hab_sb \o park

\* REDUCE_SUM: the outputs the threads of unit b in channel ch store, each with
\* the location of its partial sum and the offset of its bias.  By channels only
\* output and sums move on with the iterations, not the bias.
Stored(j, ch, b) ==
  LET lane(t) == t % NumGrf
      t_idx(t) == ch * NumPimBlocks * NumGrf + t
      perRow == ColsPerRow \div NumGrf
      Place(i, r, o, t) ==
        IF Chwise(j) THEN <<i * OutTile + t_idx(t), i * NumGrf + lane(t), t_idx(t)>>
        ELSE LET li == (i * j.inout_h + r) * OutTiles(j) + o
                 out_offset == (i * j.inout_h + r) * j.s.out + o * OutTile + t_idx(t)
             IN  <<out_offset,
                   (li \div perRow) * ColsPerRow + (li % perRow) * NumGrf + lane(t),
                   out_offset>>
  IN  {Place(i, r, o, b * NumGrf + t) :
         i \in 0 .. IterCnt(j) - 1, r \in 0 .. j.inout_h - 1,
         o \in 0 .. OutTiles(j) - 1, t \in Lanes}

-----------------------------------------------------------------------------
(* Running.                                                                *)

IsGemm(j) == j.op = "GEMV"

Windows(j, unit) == IF IsGemm(j) THEN GemmKernel(j, unit[1]) ELSE EltKernel(j)

\* Entering window w: its accesses, none after the last one.
Enter(w, windows) ==
  /\ window' = w
  /\ code' = IF w <= Len(windows) THEN windows[w] ELSE << >>
  /\ pending' = UNION {{<<n, lane>> : lane \in code'[n].lanes} : n \in DOMAIN code'}

\* Locations in each bank of the buffer the kernel writes: pim_gemv_tmp_buffer_,
\* or the tiles of the output.
Reach(j) == (IF IsGemm(j) THEN TmpSlots ELSE NumTile(j)) * NumGrf

\* The part of the converted weight in the banks of unit <<ch, b>>.
WeightAt(ch, b) ==
  LET perBg == BanksPerBg \div 2
      cell(d) == <<ch, b \div perBg, 2 * (b % perBg) + d[1], d[2]>>
      here == {<<d[3] % 2, d[4]>> :
                 d \in {e \in DOMAIN dst : e[1] = ch /\ e[2] = b \div perBg
                                           /\ e[3] \div 2 = b % perBg}}
  IN  [d \in here |-> dst[cell(d)]]

NoJob == [op |-> "none"]

Init ==
  /\ LayoutInit
  /\ stage = "idle" /\ job = NoJob /\ at \in Units
  /\ u = UnitInit
  /\ window = 0 /\ code = << >> /\ pending = {}
  /\ mem = << >> /\ weight = << >> /\ result = << >>

\* The launch: the buffer holds what was there, the weight is laid out.
Run(j) ==
  /\ stage' = "run" /\ job' = j
  /\ Enter(1, Windows(j, at'))
  /\ mem' = [d \in {0, 1} \X (0 .. Reach(j) - 1) |-> <<j.out, d[1], d[2]>>]
  /\ UNCHANGED <<u, result>>

LaunchElt(j) ==
  /\ stage = "idle" /\ ~IsGemm(j)
  /\ at' \in Units
  /\ Run(j)
  /\ UNCHANGED <<weight, conv, dst>>

\* PimConvertGemmWeight, or the conversion execute_gemm asks for.
ConvertWeight(j) ==
  /\ stage = "idle" /\ IsGemm(j)
  /\ StartConversion(j.s, j.on_device)
  /\ stage' = "convert" /\ job' = j
  /\ UNCHANGED <<at, u, window, code, pending, mem, weight, result>>

Converting ==
  /\ stage = "convert"
  /\ LayoutNext
  /\ stage' = IF conv'.pc = "idle" THEN "idle" ELSE stage
  /\ job' = IF conv'.pc = "idle" THEN NoJob ELSE job
  /\ UNCHANGED <<at, u, window, code, pending, mem, weight, result>>

LaunchGemm ==
  /\ stage = "convert" /\ conv.pc = "converted"
  /\ at' \in Units
  /\ Run(job)
  /\ weight' = WeightAt(at'[1], at'[2])
  /\ conv' = ConvIdle /\ dst' = << >>

\* What a read of a bank brings.
Contents(c) ==
  CASE c.buf = "weight" -> IF <<c.bank, c.loc>> \in DOMAIN weight
                             THEN <<"w", weight[<<c.bank, c.loc>>]>> ELSE Garbage
    [] c.buf = job.out  -> mem[<<c.bank, c.loc>>]
    [] OTHER            -> <<c.buf, c.bank, c.loc>>

\* Accesses of one lane to one place keep their order.
SamePlace(i, k) ==
  {i.k, k.k} \subseteq {"R", "W"} /\ i.buf = k.buf /\ i.bank = k.bank /\ i.base = k.base
Ready ==
  {p \in pending :
     \A q \in pending : q[2] = p[2] /\ q[1] < p[1] =>
       ~SamePlace(code[q[1]], code[p[1]])}

\* The memory takes one access; after the last of a window comes the next one.
Access ==
  /\ stage = "run" /\ pending # {}
  /\ \E p \in Ready :
       LET i == code[p[1]] IN
       /\ IF i.k \in {"R", "W"}
            THEN LET c == [k |-> i.k, buf |-> i.buf, bank |-> i.bank,
                           loc |-> i.base + p[2]]
                 IN  /\ u' = AfterBank(u, c, Contents(c))
                     /\ mem' = IF i.k = "W"
                                 THEN [mem EXCEPT ![<<c.bank, c.loc>>] =
                                         Written(u, c)]
                                 ELSE mem
            ELSE u' = AfterRegister(u, i, p[2]) /\ UNCHANGED mem
       /\ IF pending = {p}
            THEN Enter(window + 1, Windows(job, at))
            ELSE pending' = pending \ {p} /\ UNCHANGED <<window, code>>
  /\ UNCHANGED <<stage, job, at, weight, result, conv, dst>>

\* The end of the kernel; a gemm adds the partial sums, the bias, applies relu.
Finish ==
  /\ stage = "run" /\ pending = {}
  /\ stage' = "done"
  /\ result' =
       IF ~IsGemm(job) THEN << >>
       ELSE LET st == Stored(job, at[1], at[2])
            IN  [o \in {p[1] : p \in st} |->
                   LET p == CHOOSE q \in st : q[1] = o
                   IN  <<mem[<<1, p[2]>>], IF job.bias THEN p[3] ELSE -1, job.relu>>]
  /\ UNCHANGED <<job, at, u, window, code, pending, mem, weight, conv, dst>>

\* The next operation finds the registers as some other left them.
Return ==
  /\ stage = "done"
  /\ stage' = "idle" /\ job' = NoJob /\ window' = 0 /\ code' = << >>
  /\ u' = [UnitInit EXCEPT !.mode = u.mode, !.ab = u.ab]
  /\ mem' = << >> /\ weight' = << >> /\ result' = << >>
  /\ UNCHANGED <<at, pending, conv, dst>>

Next ==
  \/ \E j \in Jobs : LaunchElt(j) \/ ConvertWeight(j)
  \/ Converting \/ LaunchGemm \/ Access \/ Finish \/ Return

Spec == Init /\ [][Next]_vars

-----------------------------------------------------------------------------
(* Properties.                                                             *)

TypeOK ==
  /\ stage \in {"idle", "convert", "run", "done"}
  /\ job \in Jobs \cup {NoJob} /\ (stage = "idle") = (job = NoJob)
  /\ at \in Units
  /\ u.mode \in {"SB", "HAB", "HAB_PIM"} /\ u.ab \in 0 .. 4
  /\ stage = "run" =>
       /\ u.pc \in 0 .. 31
       /\ u.jump.left \in 0 .. MaxLoop
       /\ \A p \in pending : p[1] \in DOMAIN code /\ p[2] \in code[p[1]].lanes
  /\ conv.pc \in {"idle", "host", "converted"}

\* What the elementwise operation j leaves at place d.
EltValue(j, d) ==
  LET x(buf) == <<buf, d[1], d[2]>>
  IN  CASE j.op \in {"ADD", "MUL"} -> <<j.op, x("op0"), x("op1")>>
        [] j.op = "RELU" -> <<"RELU", x("op0")>>
        [] j.op = "COPY" -> x("op0")
        [] j.op = "BN"   -> <<"MAD", <<"MAD", x("op0"), 0>>, 1>>

\* An elementwise kernel leaves the operation's result in all of its output, in
\* place too, and nothing outside of it, in whatever order the memory takes the
\* accesses between two fences.
EltResult ==
  stage = "done" /\ ~IsGemm(job) =>
    \A d \in DOMAIN mem :
      mem[d] = IF d[2] < (job.size * NumGrf) \div 2 THEN EltValue(job, d)
               ELSE <<job.out, d[1], d[2]>>

\* Output o of a product: row r of input matrix m against its weights, each
\* product once.
Product(j, o) ==
  LET r == o \div j.s.out
      m == r \div j.inout_h
  IN  <<"SUM", {<<(m * j.s.out + (o % j.s.out)) * j.s.in_cnt + k, r * j.s.in_cnt + k>> :
                  k \in 0 .. j.s.in_cnt - 1}>>
Outputs(j) == 0 .. j.s.nc * j.inout_h * j.s.out - 1

\* The offsets all units together store outputs at.
AllStored(j) ==
  UNION {{p[1] : p \in Stored(j, ch, b)} : ch \in 0 .. NumChan - 1,
                                           b \in 0 .. NumPimBlocks - 1}

\* A gemm stores the product of input and weight, with the bias of that output:
\* from the conversion of the weight over the order of tiles, the program's two
\* loops and the partial sums to the place of the output.  Some unit stores
\* each output.
GemmResult ==
  stage = "done" /\ IsGemm(job) =>
    /\ \A o \in DOMAIN result \cap Outputs(job) :
         result[o] = <<Product(job, o), IF job.bias THEN o ELSE -1, job.relu>>
    /\ Outputs(job) \subseteq AllStored(job)

\* A gemm stores its outputs and nothing else.
GemmExact ==
  stage = "done" /\ IsGemm(job) => AllStored(job) = Outputs(job)

\* Program and kernel agree on the number of commands: the program has not
\* ended, and is loaded, while there are accesses to banks, and it has ended
\* when the kernel leaves HAB_PIM.
InStep ==
  stage = "run" /\ u.mode = "HAB_PIM" =>
    \A p \in pending :
      LET k == code[p[1]].k
      IN  /\ k \in {"R", "W"} => Fetch(u).type \notin {"EXIT", "?"}
          /\ k = "HAB" => Fetch(u).type = "EXIT"

\* A kernel leaves the memory in the mode hosts and other kernels use it in.
Restored == stage = "idle" => u.mode = "SB" /\ u.ab = 0
=============================================================================
