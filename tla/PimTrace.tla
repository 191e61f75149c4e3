------------------------------ MODULE PimTrace ------------------------------
(***************************************************************************)
(* The emulator build: instead of driving PIM memory a kernel records its  *)
(* 16-byte accesses, block by block, in one array; the executor moves the  *)
(* blocks' rows together, and coalesce_trace (PimTraceCoalescer.cpp) makes *)
(* 32-byte commands of them for the simulator.                             *)
(*                                                                         *)
(* Threads 2l and 2l + 1, lane l, make the two halves of a transaction.    *)
(* The threads of a block execute an instruction together, and record it   *)
(* in thread order, except that the halves of a transaction may come in    *)
(* the other order.  Address 2a + h is half h of transaction a of the      *)
(* block's channel.                                                        *)
(***************************************************************************)
EXTENDS Integers, Sequences, FiniteSets, SequencesExt

CONSTANTS
  NumBlocks,  \* blocks of a launch, one per channel
  Width,      \* fmtd_size_per_ch_: entries of a block's row
  Tiles,      \* tiles an elementwise kernel may go through
  MaxSwaps    \* bound: transactions whose halves come in the other order

VARIABLES
  pc,       \* "idle", "kernel", "collect", "coalesce" or "done"
  kernel,   \* the instructions of the kernel
  next,     \* per block, the instruction it executes next
  ridx,     \* g_ridx: per block, the entries recorded
  frd_size, \* the number of entries the kernel reports
  fmtd16,   \* the entries recorded, by index: a row of Width for each block
  i,        \* the loop counter of the executor, then of coalesce_trace
  fmtd32,   \* the commands made so far
  prev,     \* prev_cmd and prev_addr of coalesce_trace
  swaps     \* swapped transactions so far

ASSUME TraceAssumption ==
  NumBlocks \in Nat \ {0} /\ Width \in Nat /\ Tiles \subseteq Nat /\ MaxSwaps \in Nat

vars == <<pc, kernel, next, ridx, frd_size, fmtd16, i, fmtd32, prev, swaps>>

BlockIds == 0 .. NumBlocks - 1

-----------------------------------------------------------------------------
(* Kernels.  An instruction is [cmd, at, data]: at holds, for every lane,  *)
(* the transaction it makes; data says what it records of what it writes:  *)
(* nothing, zeroes, or two halves that differ.                             *)

R_CMD(at) == <<[cmd |-> "R", at |-> at, data |-> "none"]>>
W_CMD(at) == <<[cmd |-> "W", at |-> at, data |-> "none"]>>
W_CMD_R(at, src) == <<[cmd |-> "W", at |-> at, data |-> src]>>
\* The address of a barrier is 0, its data are zeroes.
B_CMD(lanes) == <<[cmd |-> "B", at |-> [l \in 1 .. lanes |-> 0], data |-> "none"]>>

\* Transactions: registers, unused rows, columns of the operands.
Mode == 0
Crf == 1
ABMR == <<2, 3, 4, 5>>
SBMR == <<6, 7>>
ParkRow == <<8, 9>>
GrfA == <<10, 11>>
Columns(buffer, n) == <<12 + 6 * n + 2 * buffer, 13 + 6 * n + 2 * buffer>>

park_in == W_CMD(ParkRow) \o B_CMD(2)
park_out == W_CMD(ParkRow)
change_sb_hab == FlattenSeq([n \in 1 .. 4 |-> W_CMD(<<ABMR[n]>>) \o B_CMD(1)])
program_crf == W_CMD_R(<<Crf>>, "halves")
program_crf_mod == W_CMD_R(<<Crf>>, "halves") \o R_CMD(<<Crf>>) \o B_CMD(1)
change_hab_habpim == W_CMD_R(<<Mode>>, "halves") \o R_CMD(<<Mode>>)
\* Executed by two lanes or more, all of them to the same register.
change_habpim_hab == W_CMD_R(<<Mode, Mode>>, "zeroes") \o R_CMD(<<Mode, Mode>>) \o B_CMD(2)
change_hab_sb == W_CMD(SBMR) \o R_CMD(SBMR) \o B_CMD(2)

\* One bank of a tile; the other is the same at other addresses.
elt_op_pim(tiles) ==
  park_in \o change_sb_hab \o program_crf \o change_hab_habpim \o B_CMD(1)
    \o FlattenSeq([n \in 1 .. tiles |->
         LET op(b) == Columns(b, n - 1) IN
         R_CMD(op(0)) \o B_CMD(2) \o R_CMD(op(1)) \o B_CMD(2)
           \o W_CMD(op(2)) \o W_CMD(op(2)) \o R_CMD(op(2)) \o B_CMD(2)])
    \o change_habpim_hab \o change_hab_sb \o park_out

\* A product of one tile: the input goes to GRF_A, the weights are read.  The
\* halves of gemv_hab_to_hab_pim, which all lanes write, differ.
gemm_fp16 ==
  park_in \o change_sb_hab \o program_crf_mod
    \o W_CMD_R(<<Mode, Mode>>, "halves") \o R_CMD(<<Mode, Mode>>) \o B_CMD(2)
    \o W_CMD_R(GrfA, "halves") \o R_CMD(GrfA) \o B_CMD(2)
    \o R_CMD(Columns(0, 0)) \o R_CMD(Columns(0, 1)) \o B_CMD(2)
    \o W_CMD(Columns(1, 0)) \o W_CMD(Columns(1, 0)) \o R_CMD(Columns(1, 0)) \o B_CMD(2)
    \o change_habpim_hab \o change_hab_sb \o park_out

Kernels == {elt_op_pim(n) : n \in Tiles} \cup {gemm_fp16}

-----------------------------------------------------------------------------
(* Recording.                                                              *)

Stale == <<"stale">>

\* What lane l's half h of instruction ins writes.
Datum(ins, l, h) ==
  CASE ins.data = "none"   -> Stale
    [] ins.data = "zeroes" -> <<0>>
    [] OTHER               -> <<ins.at[l], h>>

\* The entry of half h of lane l.
Entry(b, ins, l, h) ==
  IF ins.cmd = "B" THEN [cmd |-> "B", block |-> b, addr |-> 0, data |-> Stale]
  ELSE [cmd |-> ins.cmd, block |-> b, addr |-> 2 * ins.at[l] + h, data |-> Datum(ins, l, h)]

\* The entries of instruction ins in block b, in the order of their indices.
Recorded(b, ins, swapped) ==
  FlattenSeq([l \in DOMAIN ins.at |->
    IF l \in swapped THEN <<Entry(b, ins, l, 1), Entry(b, ins, l, 0)>>
    ELSE <<Entry(b, ins, l, 0), Entry(b, ins, l, 1)>>])

Init ==
  /\ pc = "idle" /\ kernel = << >>
  /\ next = [b \in BlockIds |-> 0] /\ ridx = next
  /\ frd_size = 0
  /\ fmtd16 = << >> /\ fmtd32 = << >>
  /\ i = 0 /\ prev = [cmd |-> "B", addr |-> -1] /\ swaps = 0

\* hipLaunchKernelGGL
Launch(k) ==
  /\ pc = "idle"
  /\ pc' = "kernel" /\ kernel' = k
  /\ next' = [b \in BlockIds |-> 0]
  /\ UNCHANGED <<ridx, frd_size, fmtd16, i, fmtd32, prev, swaps>>

\* Mutant of Start: the index goes on where the last kernel stopped.
Start_kept(b) ==
  /\ pc = "kernel" /\ next[b] = 0
  /\ next' = [next EXCEPT ![b] = 1]
  /\ UNCHANGED <<pc, kernel, ridx, frd_size, fmtd16, i, fmtd32, prev, swaps>>

\* A block sets up its tracer.
Start(b) ==
  /\ pc = "kernel" /\ next[b] = 0
  /\ next' = [next EXCEPT ![b] = 1]
  /\ ridx' = [ridx EXCEPT ![b] = 0]
  /\ UNCHANGED <<pc, kernel, frd_size, fmtd16, i, fmtd32, prev, swaps>>

\* The threads of block b execute the next instruction.  An index past the row
\* is not noticed.
Execute(b) ==
  /\ pc = "kernel" /\ next[b] \in DOMAIN kernel
  /\ \E swapped \in SUBSET DOMAIN kernel[next[b]].at :
       LET new == Recorded(b, kernel[next[b]], swapped)
           at  == b * Width + ridx[b]
       IN  /\ swaps + Cardinality(swapped) <= MaxSwaps
           /\ kernel[next[b]].cmd = "B" => swapped = {}
           /\ swaps' = swaps + Cardinality(swapped)
           /\ fmtd16' = [n \in DOMAIN fmtd16 \cup at .. at + Len(new) - 1 |->
                           IF n - at + 1 \in DOMAIN new THEN new[n - at + 1] ELSE fmtd16[n]]
           /\ ridx' = [ridx EXCEPT ![b] = @ + Len(new)]
  /\ next' = [next EXCEPT ![b] = @ + 1]
  /\ frd_size' = IF b = 0 /\ next[b] = Len(kernel) THEN ridx'[0] ELSE frd_size
  /\ UNCHANGED <<pc, kernel, i, fmtd32, prev>>

-----------------------------------------------------------------------------
(* The executor, after the kernel.                                         *)

Finished == \A b \in BlockIds : next[b] = Len(kernel) + 1

\* hipStreamSynchronize and the copies to the host.
Synchronized ==
  /\ pc = "kernel" /\ Finished
  /\ pc' = "collect" /\ i' = 1
  /\ UNCHANGED <<kernel, next, ridx, frd_size, fmtd16, fmtd32, prev, swaps>>

\* The row of block i moves behind the rows before it.  All are taken to be as
\* long as that of block 0.  memcpy between ranges that overlap may lose what
\* they share.
Collect ==
  /\ pc = "collect" /\ i < NumBlocks
  /\ LET moved == i * frd_size .. (i + 1) * frd_size - 1
         from(n) == n - i * frd_size + i * Width
         shared == {n \in moved : from(n) \in moved}
         kept == {n \in DOMAIN fmtd16 : n \notin moved}
         arrived == {n \in moved : from(n) \in DOMAIN fmtd16}
     IN  \E lost \in {{}, shared} :
           fmtd16' = [n \in kept \cup (arrived \ lost) |->
                        IF n \in moved THEN fmtd16[from(n)] ELSE fmtd16[n]]
  /\ i' = i + 1
  /\ UNCHANGED <<pc, kernel, next, ridx, frd_size, fmtd32, prev, swaps>>

\* convert_mem_trace_from_16B_to_32B of the first frd_size entries.
Collected ==
  /\ pc = "collect" /\ i = NumBlocks
  /\ frd_size' = frd_size * NumBlocks
  /\ fmtd16' = [n \in DOMAIN fmtd16 \cap 0 .. frd_size' - 1 |-> fmtd16[n]]
  /\ pc' = "coalesce" /\ i' = 0
  /\ fmtd32' = << >> /\ prev' = [cmd |-> "B", addr |-> -1]
  /\ UNCHANGED <<kernel, next, ridx, swaps>>

-----------------------------------------------------------------------------
(* coalesce_trace, entry by entry.                                         *)

\* addr & MASK
Masked(addr) == 2 * (addr \div 2)

\* The addresses of two channels differ.
Whole(e) == <<e.block, Masked(e.addr)>>

\* Mutant of coalesced_update: the address is remembered as it came.
coalesced_update_raw(e) ==
  /\ fmtd32' = Append(fmtd32, [cmd |-> e.cmd, block |-> e.block, addr |-> e.addr,
                               data |-> IF e.cmd = "W" THEN <<e.data, Stale>>
                                        ELSE <<Stale, Stale>>])
  /\ prev' = [cmd |-> e.cmd, addr |-> <<e.block, e.addr>>]

\* A command of its own, with the first half of its data.
coalesced_update(e) ==
  /\ fmtd32' = Append(fmtd32, [cmd |-> e.cmd, block |-> e.block, addr |-> e.addr,
                               data |-> IF e.cmd = "W" THEN <<e.data, Stale>>
                                        ELSE <<Stale, Stale>>])
  /\ prev' = [cmd |-> e.cmd, addr |-> Whole(e)]

\* The command that was made last gets another half; one that comes before the
\* other moves it.
Merge(e) ==
  LET last   == fmtd32[Len(fmtd32)]
      before == e.addr < last.addr
      merged == [last EXCEPT
                   !.addr = IF before THEN Masked(e.addr) ELSE @,
                   !.data = IF e.cmd # "W" THEN @
                            ELSE IF before THEN <<e.data, @[1]>> ELSE <<@[1], e.data>>]
  IN  /\ fmtd32' = [fmtd32 EXCEPT ![Len(fmtd32)] = merged]
      /\ UNCHANGED prev

Barrier(e) ==
  /\ fmtd32' = Append(fmtd32, [cmd |-> "B", block |-> e.block, addr |-> 0,
                               data |-> <<Stale, Stale>>])
  /\ prev' = [cmd |-> "B", addr |-> -1]

coalesce_trace ==
  /\ pc = "coalesce" /\ i < frd_size
  /\ LET e == fmtd16[i] IN
       \/ e.cmd = "B" /\ Barrier(e)
       \/ e.cmd \in {"R", "W"} /\ prev.cmd = e.cmd /\ prev.addr = Whole(e) /\ Merge(e)
       \/ e.cmd \in {"R", "W"} /\ ~(prev.cmd = e.cmd /\ prev.addr = Whole(e))
            /\ coalesced_update(e)
  /\ i' = i + 1
  /\ UNCHANGED <<pc, kernel, next, ridx, frd_size, fmtd16, swaps>>

Coalesced ==
  /\ pc = "coalesce" /\ i = frd_size
  /\ pc' = "done"
  /\ UNCHANGED <<kernel, next, ridx, frd_size, fmtd16, i, fmtd32, prev, swaps>>

\* The simulator has executed the commands.  What the arrays hold then is of no
\* use to the next kernel.
Simulated ==
  /\ pc = "done"
  /\ pc' = "idle" /\ kernel' = << >> /\ swaps' = 0 /\ i' = 0
  /\ fmtd16' = << >> /\ fmtd32' = << >> /\ frd_size' = 0
  /\ prev' = [cmd |-> "B", addr |-> -1]
  /\ next' = [b \in BlockIds |-> 0]
  /\ UNCHANGED ridx

Next ==
  \/ \E k \in Kernels : Launch(k)
  \/ \E b \in BlockIds : Start(b) \/ Execute(b)
  \/ Synchronized \/ Collect \/ Collected
  \/ coalesce_trace \/ Coalesced \/ Simulated

Spec == Init /\ [][Next]_vars

-----------------------------------------------------------------------------
(* Properties.                                                             *)

\* The entries a block records for the first n instructions of kernel k.
Entries(k, n) ==
  LET upTo[m \in 0 .. Len(k)] == IF m = 0 THEN 0 ELSE upTo[m - 1] + 2 * Len(k[m].at)
  IN  upTo[n]

\* No kernel records more than half a row.
HalfARow == \A k \in Kernels : 2 * Entries(k, Len(k)) <= Width

\* Types; a block's entries stay in its row, what the executor hands on was
\* recorded by this kernel, and the commands, whose array has as many elements,
\* are no more than the entries.
TypeOK ==
  /\ pc \in {"idle", "kernel", "collect", "coalesce", "done"}
  /\ next \in [BlockIds -> Nat] /\ ridx \in [BlockIds -> 0 .. Width]
  /\ frd_size \in 0 .. NumBlocks * Width
  /\ DOMAIN fmtd16 \subseteq 0 .. NumBlocks * Width - 1
  /\ i \in 0 .. NumBlocks * Width
  /\ pc \in {"coalesce", "done"} => Len(fmtd32) <= i
  /\ pc = "coalesce" /\ i = 0 => DOMAIN fmtd16 = 0 .. frd_size - 1

\* The lanes whose transaction no other lane makes.
Alone(ins) ==
  {l \in DOMAIN ins.at : \A k \in DOMAIN ins.at : k # l => ins.at[k] # ins.at[l]}

\* The commands instruction ins stands for: barriers of all its threads, or one
\* command for each transaction, with the halves of the data in their order, and
\* whether several lanes make it.
BarrierCommand(b) == <<"B", b, 0, << >>, FALSE>>
LaneCommands(b, ins, l) ==
  IF ins.cmd = "B" THEN <<BarrierCommand(b), BarrierCommand(b)>>
  ELSE IF \E k \in 1 .. l - 1 : ins.at[k] = ins.at[l] THEN << >>
  ELSE << <<ins.cmd, b, 2 * ins.at[l],
            IF ins.data # "none" THEN <<Datum(ins, l, 0), Datum(ins, l, 1)>> ELSE << >>,
            l \notin Alone(ins)>> >>
Commands(b, ins) == FlattenSeq([l \in DOMAIN ins.at |-> LaneCommands(b, ins, l)])

\* What the blocks did, one after the other.
Expected ==
  FlattenSeq([b \in 1 .. NumBlocks |->
    FlattenSeq([n \in DOMAIN kernel |-> Commands(b - 1, kernel[n])])])

InOrder(c, e) == e[4] # << >> => c.data = e[4]

\* What the simulator gets is what the kernel did, block after block: no command
\* is lost, split or merged with another, however the blocks' accesses interleave
\* and the halves of a transaction come.  What a lane alone writes has its halves
\* in their order; a write of several lanes may have the first one twice.
CommandsRight ==
  pc = "done" =>
    LET expected == Expected IN
    /\ Len(fmtd32) = Len(expected)
    /\ \A n \in DOMAIN expected :
         LET c == fmtd32[n]
             e == expected[n]
         IN  /\ <<c.cmd, c.block, c.addr>> = <<e[1], e[2], e[3]>>
             /\ InOrder(c, e) \/ (e[5] /\ c.data = <<e[4][1], e[4][1]>>)

=============================================================================
