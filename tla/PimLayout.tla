----------------------------- MODULE PimLayout ------------------------------
(***************************************************************************)
(* The layout of gemm weights in PIM memory: convert_data_layout of        *)
(* HipMemoryManager.cpp, by the host, transaction by transaction, or by a  *)
(* kernel on the device, for I_X_W products in the build for the device.   *)
(*                                                                         *)
(* A transaction of 32 bytes is one item.  The source holds, for every     *)
(* output, its in_cnt items one after the other.  A cell of the destination*)
(* is <<channel, bank group, bank, location>>, the location being row *    *)
(* ColsPerRow + column: addr_gen is a bijection of those coordinates and   *)
(* addr_gen_safe carries columns into rows.  There is one rank.            *)
(***************************************************************************)
EXTENDS PimGeometry

VARIABLES
  conv,  \* the conversion: the loops' counters
  dst    \* the destination, cell by cell, as numbers of source items

layoutVars == <<conv, dst>>

Unknown == -1

ConvIdle == [pc |-> "idle"]

\* A weight s is nc matrices of out outputs with in_cnt items each.
LayoutInit == conv = ConvIdle /\ dst = << >>

-----------------------------------------------------------------------------
(* Which layout.                                                           *)

\* A weight is laid out by channels if its outputs only together fill tiles.
check_chwise_gemm_bo(s) == s.out < OutTile /\ (s.nc * s.out) % OutTile = 0

\* The outer loops: over matrices and their tiles of outputs, or over tiles of
\* outputs of all matrices.
Iterations(s) == IF check_chwise_gemm_bo(s) THEN (s.nc * s.out) \div OutTile ELSE s.nc
OutCnt(s) == IF check_chwise_gemm_bo(s) THEN OutTile ELSE s.out

-----------------------------------------------------------------------------
(* On the host.                                                            *)

Begin(s) == [pc |-> "host", s |-> s, iter |-> 0, y |-> 0, x |-> 0, tiled_y |-> 0,
             bank |-> 0, bg |-> 0, cidx |-> 0, start |-> [p \in 0 .. 1 |-> 0]]

\* The counters of the next unit, with their carries.
NextBank(c) ==
  LET bank == c.bank + NumBanks \div NumPimBlocks
      bg   == IF bank >= NumBanks \div NumBg THEN c.bg + 1 ELSE c.bg
      cidx == IF bg >= NumBg THEN c.cidx + 1 ELSE c.cidx
  IN  [c EXCEPT !.bank = IF bank >= NumBanks \div NumBg THEN 0 ELSE bank,
                !.bg = IF bg >= NumBg THEN 0 ELSE bg,
                !.cidx = IF cidx >= NumChan THEN 0 ELSE cidx]

\* Mutant of NextStart: the next tile of the same parity overwrites this one.
NextStart_kept(c) == c

\* After the last channel the next tile of this parity starts behind this one.
NextStart(c) ==
  LET p    == (c.x \div NumGrf) % 2
      next == NextBank(c)
  IN  IF next.bank = 0 /\ next.bg = 0 /\ next.cidx = 0
        THEN [c EXCEPT !.start[p] = @ + NumGrf * NumGrf] ELSE c

\* The loops' counters after a unit's part of a tile.
Advance(c) ==
  LET ty   == c.tiled_y + NumGrf
      x    == IF ty < OutTile THEN c.x ELSE c.x + NumGrf
      y    == IF x < c.s.in_cnt THEN c.y ELSE c.y + OutTile
      iter == IF y < OutCnt(c.s) THEN c.iter ELSE c.iter + 1
      next == [NextBank(NextStart(c)) EXCEPT
                 !.tiled_y = IF ty < OutTile THEN ty ELSE 0,
                 !.x = IF x < c.s.in_cnt THEN x ELSE 0,
                 !.y = IF y < OutCnt(c.s) THEN y ELSE 0]
  IN  IF iter = c.iter THEN next
      ELSE IF iter < Iterations(c.s) THEN [Begin(c.s) EXCEPT !.iter = iter]
      ELSE [pc |-> "converted", s |-> c.s]

\* The cells a unit's part of a tile goes to, and the items that go there.
TilePart(c) ==
  LET p    == (c.x \div NumGrf) % 2
      base == c.iter * OutCnt(c.s) * c.s.in_cnt
      cell(b, a) == <<c.cidx, c.bg, c.bank + p,
                      PerBank(base) + c.start[p] + b * NumGrf + a>>
      item(b, a) == base + (c.y + c.tiled_y + b) * c.s.in_cnt + c.x + a
      at   == (0 .. NumGrf - 1) \X (0 .. NumGrf - 1)
  IN  [d \in {cell(i[1], i[2]) : i \in at} |->
         LET i == CHOOSE j \in at : cell(j[1], j[2]) = d IN item(i[1], i[2])]

\* f, and g where f is not defined.
Over(f, g) ==
  [d \in DOMAIN f \cup DOMAIN g |-> IF d \in DOMAIN f THEN f[d] ELSE g[d]]

\* One unit's part of a tile: NumGrf * NumGrf copies.
ConvertTilePart ==
  /\ conv.pc = "host"
  /\ dst' = Over(TilePart(conv), dst)
  /\ conv' = Advance(conv)

\* A copy fails: the conversion is given up.  Nobody looks at the error, but the
\* weight is still of type RAW, with which execute_hip_gemm launches no kernel.
ConvertFails ==
  /\ conv.pc = "host"
  /\ conv' = ConvIdle /\ dst' = << >>

-----------------------------------------------------------------------------
(* On the device: the place of item k of output o of matrix m.             *)

\* Both functions after prev_el_count, which counts the items before.
PlaceOf(base, prev, x_tile, grfb, grfa) ==
  LET start == (prev \div (NumGrf * NumGrf)) \div (NumBanks * NumChan)
      grf   == (prev % (NumGrf * NumGrf * NumPimBlocks * NumChan)) \div (NumGrf * NumGrf)
      unit  == grf % NumPimBlocks
      perBg == NumPimBlocks \div NumBg
  IN  <<grf \div NumPimBlocks, unit \div perBg, 2 * (unit % perBg) + (x_tile % 2),
        PerBank(base) + start * NumGrf * NumGrf + grfb * NumGrf + grfa>>

\* y_tile_data_size multiplies by in_tile_size what in_cnt already counts.
convert_idx_aligned(s, m, o, k) ==
  LET x_tile == k \div NumGrf
      y_off  == o % OutTile
      prev   == (o \div OutTile) * (OutTile * s.in_cnt * NumGrf) + x_tile * OutTile * NumGrf
                  + (y_off \div NumGrf) * NumGrf * NumGrf + (y_off % NumGrf) * NumGrf + (k % NumGrf)
  IN  PlaceOf(m * s.in_cnt * s.out, prev, x_tile, y_off % NumGrf, k % NumGrf)

convert_idx_chwise(s, m, o, k) ==
  LET x_tile == k \div NumGrf
      flat   == m * s.out + o
      y_off  == flat % OutTile
      prev   == x_tile * OutTile * NumGrf
                  + (y_off \div NumGrf) * NumGrf * NumGrf + (y_off % NumGrf) * NumGrf + (k % NumGrf)
  IN  PlaceOf((flat \div OutTile) * OutTile * s.in_cnt, prev, x_tile, y_off % NumGrf, k % NumGrf)

\* The threads of fill_gemm_weight write in no particular order.
fill_gemm_weight(s) ==
  LET items == (0 .. s.nc - 1) \X (0 .. s.out - 1) \X (0 .. s.in_cnt - 1)
      place == [i \in items |-> IF check_chwise_gemm_bo(s)
                                  THEN convert_idx_chwise(s, i[1], i[2], i[3])
                                  ELSE convert_idx_aligned(s, i[1], i[2], i[3])]
      item(i) == (i[1] * s.out + i[2]) * s.in_cnt + i[3]
  IN  [d \in {place[i] : i \in items} |->
         LET at == {i \in items : place[i] = d}
         IN  IF \E i \in at : at = {i} THEN item(CHOOSE i \in at : TRUE) ELSE Unknown]

-----------------------------------------------------------------------------
\* PimConvertGemmWeight starts a conversion.
StartConversion(s, on_device) ==
  /\ conv.pc = "idle"
  /\ IF on_device
       THEN dst' = fill_gemm_weight(s) /\ conv' = [pc |-> "converted", s |-> s]
       ELSE dst' = << >> /\ conv' = Begin(s)

LayoutNext == ConvertTilePart \/ ConvertFails

\* Where the gemm kernels read item k of output o of matrix m, if the item is
\* to meet item k of the input in the unit that computes output o.
ReadFrom(s, m, o, k) ==
  LET tile  == IF check_chwise_gemm_bo(s) THEN (m * s.out + o) \div OutTile
               ELSE m * (s.out \div OutTile) + o \div OutTile
      inOut == IF check_chwise_gemm_bo(s) THEN (m * s.out + o) % OutTile ELSE o % OutTile
      unit  == inOut \div NumGrf
      bgs   == (unit % NumPimBlocks) \div (BanksPerBg \div 2)
      bank  == 2 * (unit % (BanksPerBg \div 2)) + ((k \div NumGrf) % 2)
  IN  <<unit \div NumPimBlocks, bgs, bank,
        (tile * (s.in_cnt \div (2 * NumGrf)) + k \div (2 * NumGrf)) * NumGrf * NumGrf
          + (inOut % NumGrf) * NumGrf + (k % NumGrf)>>

\* A converted weight is where the kernels look for it, each item once: the
\* carries of the counters and the starts of even and odd tiles leave neither
\* a gap nor an overlap, and the index arithmetic on the device agrees.
LayoutRight ==
  conv.pc = "converted" =>
    LET s == conv.s IN
    \A m \in 0 .. s.nc - 1, o \in 0 .. s.out - 1, k \in 0 .. s.in_cnt - 1 :
      LET d == ReadFrom(s, m, o, k)
      IN  d \in DOMAIN dst /\ dst[d] = (m * s.out + o) * s.in_cnt + k
=============================================================================
