---------------------------- MODULE PimGeometry -----------------------------
(***************************************************************************)
(* The PIM memory as the code sees it (PimBlockInfo of PimInfo.h).  A      *)
(* channel has banks in groups; each even bank and the odd bank after it   *)
(* share a PIM unit with two register files of NumGrf vectors.             *)
(***************************************************************************)
EXTENDS Integers

CONSTANTS
  NumGrf,       \* vectors in GRF_A, and in GRF_B (8)
  NumChan,      \* channels (64)
  NumBg,        \* bank groups of a channel (4)
  BanksPerBg    \* banks of a bank group (4)

ASSUME GeometryAssumption ==
  /\ {NumGrf, NumChan, NumBg, BanksPerBg} \subseteq Nat \ {0}
  /\ NumGrf % 2 = 0 /\ BanksPerBg % 2 = 0

NumBanks == NumBg * BanksPerBg
NumPimBlocks == NumBanks \div 2

\* Columns of a row: two rows of a bank hold NumGrf vectors for each of NumGrf
\* outputs (32).
ColsPerRow == (NumGrf * NumGrf) \div 2

\* Outputs of a product that all units compute at a time: PIM_GEMV_OUT_ALIGN.
OutTile == NumGrf * NumPimBlocks * NumChan

\* Locations of a bank that n transactions take, spread over all banks.
PerBank(n) == n \div (NumChan * NumBanks)
=============================================================================
