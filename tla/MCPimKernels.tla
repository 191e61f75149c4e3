---------------------------- MODULE MCPimKernels ----------------------------
(* Small instances of PimKernels: two channels of four units with two      *)
(* registers.                                                              *)
EXTENDS PimKernels

Elt(op, size, out) == [op |-> op, size |-> size, out |-> out]
Gemm(nc, outs, in_tiles, inout_h, bias, on_device) ==
  [op |-> "GEMV", out |-> "sum", s |-> [nc |-> nc, out |-> outs, in_cnt |-> in_tiles * NumGrf],
   inout_h |-> inout_h, bias |-> bias, relu |-> nc = 1, on_device |-> on_device]

\* Whole tiles, into another buffer and in place.
EltJobs == {Elt(op, size, out) : op \in {"ADD", "MUL", "RELU", "COPY", "BN"},
                                 size \in {2, 4}, out \in {"out", "op0"}}

\* Products of one tile of outputs at a time, of every shape: more input tiles,
\* matrices and rows, and the layout by channels with two and four matrices, the
\* latter, which takes two iterations, without a bias.
ExactJobs ==
  {Gemm(1, OutTile, 4, 1, TRUE, FALSE), Gemm(2, OutTile, 2, 2, FALSE, FALSE),
   Gemm(2, OutTile, 2, 1, TRUE, TRUE), Gemm(2, OutTile \div 2, 4, 1, TRUE, FALSE),
   Gemm(4, OutTile \div 2, 2, 1, FALSE, TRUE)}
AllUnits == (0 .. NumChan - 1) \X (0 .. NumPimBlocks - 1)

\* Two tiles of outputs.
TallJobs == {Gemm(1, 2 * OutTile, 2, 1, TRUE, FALSE), Gemm(2, 2 * OutTile, 2, 2, FALSE, FALSE)}

AllJobs == EltJobs \cup ExactJobs \cup TallJobs
=============================================================================
