---------------------------- MODULE PimGemmProofs ----------------------------
(***************************************************************************)
(* Proofs about the product of PimKernels: its kernel makes as many        *)
(* accesses as its program takes commands, so every kernel does            *)
(* (AllInStep), and stores the product in its outputs (GemmRight), for     *)
(* every geometry and every order in which the memory takes the accesses   *)
(* of a window.                                                            *)
(***************************************************************************)
EXTENDS PimKernelsProofs

-----------------------------------------------------------------------------
(* The program of a product, as the unit reads it and goes through it.     *)

Mac(n) == Alu("MAC", "GRF_B", "GRF_A", IF n = 0 THEN "EVEN_BANK" ELSE "ODD_BANK")

\* Each MAC is executed rounds times, a jump going back to it.
GemmLoaded(crf, rounds) ==
  /\ 0 .. 5 \subseteq DOMAIN crf
  /\ crf[0] = Mac(0) /\ crf[1] = Jump(rounds - 1, 2)
  /\ crf[2] = Mac(1) /\ crf[3] = Jump(rounds - 1, 2)
  /\ crf[4] = Idle(3) /\ crf[5] = Exit

\* A product of 2 * h tiles of inputs, which the program's jumps can count.
Rounds(h) == NumGrf * h
Tiled(h) == h \in Nat \ {0} /\ Rounds(h) - 1 <= MaxLoop

\* The program make_crf_bin makes for 2 * h tiles of inputs.
LEMMA GemmProgram ==
  ASSUME ShortIdle, NEW h, Tiled(h), NEW size, size = 2 * h, NEW P, P = make_crf_bin("GEMV", size)
  PROVE  GemmLoaded(P, Rounds(h)) /\ DOMAIN P = 0 .. 7
<1>1. PICK t : t = create_pim_cmd("GEMV", size)
  OBVIOUS
<1>2. P = [i \in 0 .. Len(t) - 1 |-> from_int(to_int(t[i + 1]))]
  BY <1>1, Zenon DEF make_crf_bin, get_loop_counter
<1>3. PICK x \in 0 .. MaxLoop : x = Rounds(h) - 1
  <2>1. NumGrf \in Nat \ {0} /\ h \in Nat \ {0}
    BY GeometryAssumption DEF Tiled
  <2>2. NumGrf * h \in Nat \ {0}
    BY <2>1
  <2> QED BY <2>2, MaxLoopIs DEF Tiled, Rounds
<1>4. CeilHalf(size) = h /\ size \div 2 = h
  BY DEF Tiled, CeilHalf
<1>5. PICK a, b, c, d : a = Mac(0) /\ b = Jump(x, 2) /\ c = Mac(1) /\ d = Idle(3)
  OBVIOUS
<1>6. PICK body : body = Body("GEMV", size)
  OBVIOUS
<1>7. body = <<a, b, c, b, d>>
  <2>1. NumGrf * CeilHalf(size) - 1 = x /\ NumGrf * (size \div 2) - 1 = x
    BY <1>3, <1>4, Zenon DEF Rounds
  <2>2. a = Alu("MAC", "GRF_B", "GRF_A", "EVEN_BANK") /\ c = Alu("MAC", "GRF_B", "GRF_A", "ODD_BANK")
    BY <1>5 DEF Mac
  <2> QED BY <1>5, <1>6, <2>1, <2>2, Zenon DEF Body
<1>8. IsSeq(body) /\ Len(body) = 5
  BY <1>7, BodiesAre
<1>9. IsProgram(t, 8, 5, body, FALSE, size)
  <2>1. 8 = IF "GEMV" # "GEMV" THEN IF 5 < 6 THEN 8 ELSE 16 ELSE 8
    OBVIOUS
  <2>2. IsProgram(t, 8, 5, body, "GEMV" # "GEMV", size)
    BY <1>1, <1>6, <1>8, <2>1, ProgramIs
  <2> QED BY <2>2
<1>10. Len(t) = 8 /\ (\A i \in 1 .. 5 : t[i] = body[i]) /\ t[5 + 1] = Exit
  BY <1>9, Zenon DEF IsProgram
<1>11. t[1] = a /\ t[2] = b /\ t[3] = c /\ t[4] = b /\ t[5] = d /\ t[6] = Exit
  BY <1>7, <1>10
<1>12. DOMAIN P = 0 .. 7 /\ \A i \in 0 .. 7 : P[i] = from_int(to_int(t[i + 1]))
  BY <1>2, <1>10
<1>13. from_int(to_int(a)) = a /\ from_int(to_int(c)) = c
  BY <1>5, AluRead DEF Mac, Operands
<1>14. from_int(to_int(b)) = b
  <2>1. 2 \in 0 .. MaxIdle
    BY MaxIdleIs
  <2>2. PICK y \in 0 .. MaxLoop : /\ from_int(to_int(Jump(x, 2))) = Jump(y, 2)
                                  /\ x \in 0 .. MaxLoop => y = x
    BY <2>1, JumpRead
  <2> QED BY <1>5, <2>2
<1>15. from_int(to_int(d)) = d /\ from_int(to_int(Exit)) = Exit
  BY <1>5, IdleRead, ExitRead DEF Exit
<1>16. P[0] = a /\ P[1] = b /\ P[2] = c /\ P[3] = b /\ P[4] = d /\ P[5] = Exit
  BY <1>11, <1>12, <1>13, <1>14, <1>15
<1>17. 0 .. 5 \subseteq DOMAIN P
  BY <1>12
<1> QED BY <1>3, <1>5, <1>12, <1>16, <1>17 DEF GemmLoaded

\* The jump at n, taken e times of rounds - 1.
Turned(jump, n, rounds, e) ==
  IF e = 0 THEN jump.at # n ELSE jump = [at |-> n, left |-> rounds - 1 - e]

\* Execution e of the MAC of phase 0 or 1, rep commands into it; phase 2 idles.
GemmControl(v, rounds, ph, e, rep) ==
  /\ DOMAIN v = UnitFields /\ GemmLoaded(v.crf, rounds) /\ v.pc = 2 * ph /\ v.rep = rep
  /\ Turned(v.jump, 2 * ph + 1, rounds, e)
GemmEnded(v, rounds) == DOMAIN v = UnitFields /\ GemmLoaded(v.crf, rounds) /\ v.pc = 5

\* The commands of an instruction.
LEMMA GemmTakes ==
  /\ \A n \in 0 .. 1 : Takes(Mac(n)) = NumGrf /\ Mac(n).type = "MAC"
  /\ Takes(Idle(3)) = 3 * NumGrf /\ Idle(3).type = "NOP" /\ Exit.type = "EXIT"
BY InsTakes, PlainTypes DEF Mac, Exit

GemmMoves(w, rounds, ph, e, rep) ==
  /\ ph < 2 /\ rep + 1 < NumGrf => GemmControl(w, rounds, ph, e, rep + 1)
  /\ ph < 2 /\ rep + 1 = NumGrf /\ e < rounds - 1 => GemmControl(w, rounds, ph, e + 1, 0)
  /\ ph < 2 /\ rep + 1 = NumGrf /\ e = rounds - 1 => GemmControl(w, rounds, ph + 1, 0, 0)
  /\ ph = 2 /\ rep + 1 < 3 * NumGrf => GemmControl(w, rounds, ph, e, rep + 1)
  /\ ph = 2 /\ rep + 1 = 3 * NumGrf => GemmEnded(w, rounds)

\* What a command does to the program counter.
LEMMA GemmStep ==
  ASSUME NEW rounds \in Nat \ {0}, NEW ph \in 0 .. 2, NEW e \in 0 .. rounds - 1, ph = 2 => e = 0,
         NEW rep \in Nat, rep < IF ph = 2 THEN 3 * NumGrf ELSE NumGrf,
         NEW v, GemmControl(v, rounds, ph, e, rep), NEW w, w = Step(v)
  PROVE  /\ Fetch(v).type \notin {"EXIT", "?"}
         /\ GemmMoves(w, rounds, ph, e, rep)
<1>0. PICK G \in Nat \ {0} : G = NumGrf
  BY GeometryAssumption
<1>1. PICK K \in Nat : K = (IF ph = 2 THEN 3 * G ELSE G) /\ rep < K
  BY <1>0
<1>2. /\ DOMAIN v = UnitFields /\ GemmLoaded(v.crf, rounds) /\ v.pc = 2 * ph /\ v.rep = rep
      /\ Turned(v.jump, 2 * ph + 1, rounds, e)
  BY DEF GemmControl
<1>3. PICK ins : ins = Fetch(v)
  OBVIOUS
<1>4. ins = IF ph = 2 THEN Idle(3) ELSE Mac(ph)
  BY <1>2, <1>3 DEF Fetch, GemmLoaded
<1>5. ins.type \notin {"EXIT", "?"} /\ Takes(ins) = K
  BY <1>0, <1>1, <1>4, GemmTakes
<1>6. CASE rep + 1 < K
  <2>1. w = [v EXCEPT !.rep = rep + 1]
    BY <1>2, <1>3, <1>5, <1>6 DEF Step
  <2>2. DOMAIN w = UnitFields /\ w.crf = v.crf /\ w.jump = v.jump /\ w.pc = 2 * ph /\ w.rep = rep + 1
    BY <1>2, <2>1 DEF UnitFields
  <2>3. GemmControl(w, rounds, ph, e, rep + 1)
    BY <1>2, <2>2 DEF GemmControl
  <2> QED BY <1>0, <1>1, <1>3, <1>5, <1>6, <2>3 DEF GemmMoves
<1>7. CASE rep + 1 = K
  <2>0. w = AfterInstruction(v)
    BY <1>2, <1>3, <1>5, <1>7 DEF Step
  <2>1. PICK m \in {1, 3, 5} : m = 2 * ph + 1 /\ v.pc + 1 = m
    BY <1>2
  <2>2. PICK x : x = [v EXCEPT !.pc = m]
    OBVIOUS
  <2>3. x.crf = v.crf /\ x.pc = m
    BY <1>2, <2>2 DEF UnitFields
  <2>4. PICK cmd : cmd = Fetch(x)
    OBVIOUS
  <2>5. PICK left : left = IF v.jump.at = m THEN v.jump.left ELSE cmd.loop_counter
    OBVIOUS
  <2>6. w = IF cmd.type # "JUMP" THEN [v EXCEPT !.pc = m, !.rep = 0]
            ELSE IF left > 0
              THEN [v EXCEPT !.pc = m - cmd.loop_offset + 1, !.rep = 0,
                             !.jump = [at |-> m, left |-> left - 1]]
              ELSE [v EXCEPT !.pc = m + 1, !.rep = 0, !.jump = [at |-> m, left |-> 0]]
    BY <2>0, <2>1, <2>2, <2>4, <2>5, Zenon DEF AfterInstruction
  <2>7. CASE ph = 2
    <3>1. m = 5 /\ cmd = Exit
      BY <1>2, <2>1, <2>3, <2>4, <2>7 DEF Fetch, GemmLoaded
    <3>2. w = [v EXCEPT !.pc = 5, !.rep = 0]
      BY <2>6, <3>1, GemmTakes
    <3>3. DOMAIN w = UnitFields /\ w.crf = v.crf /\ w.pc = 5
      BY <1>2, <3>2 DEF UnitFields
    <3>4. GemmEnded(w, rounds)
      BY <1>2, <3>3 DEF GemmEnded
    <3> QED BY <1>0, <1>1, <1>3, <1>5, <1>7, <2>7, <3>4 DEF GemmMoves
  <2>8. CASE ph < 2
    <3>1. m \in {1, 3} /\ cmd = Jump(rounds - 1, 2)
      BY <1>2, <2>1, <2>3, <2>4, <2>8 DEF Fetch, GemmLoaded
    <3>2. cmd.type = "JUMP" /\ cmd.loop_counter = rounds - 1 /\ cmd.loop_offset = 2
      BY <3>1 DEF Jump, PimCommand
    <3>3. left = rounds - 1 - e
      <4>1. CASE e = 0
        <5>1. v.jump.at # m
          BY <1>2, <2>1, <4>1 DEF Turned
        <5> QED BY <2>5, <3>2, <4>1, <5>1
      <4>2. CASE e # 0
        <5>1. v.jump = [at |-> m, left |-> rounds - 1 - e]
          BY <1>2, <2>1, <4>2 DEF Turned
        <5>2. v.jump.at = m /\ v.jump.left = rounds - 1 - e
          BY <5>1
        <5> QED BY <2>5, <5>2
      <4> QED BY <4>1, <4>2
    <3>4. CASE e < rounds - 1
      <4>1. PICK jmp : jmp = [at |-> m, left |-> left - 1]
        OBVIOUS
      <4>2. m - cmd.loop_offset + 1 = 2 * ph /\ left > 0
        BY <2>1, <3>2, <3>3, <3>4
      <4>3. w = [v EXCEPT !.pc = 2 * ph, !.rep = 0, !.jump = jmp]
        BY <2>6, <3>2, <4>1, <4>2
      <4>4. DOMAIN w = UnitFields /\ w.crf = v.crf /\ w.jump = jmp /\ w.pc = 2 * ph /\ w.rep = 0
        BY <1>2, <4>3 DEF UnitFields
      <4>5. Turned(jmp, m, rounds, e + 1)
        <5>1. left - 1 = rounds - 1 - (e + 1) /\ e + 1 # 0
          BY <3>3
        <5> QED BY <4>1, <5>1 DEF Turned
      <4>6. GemmControl(w, rounds, ph, e + 1, 0)
        BY <1>2, <2>1, <4>4, <4>5 DEF GemmControl
      <4> QED BY <1>0, <1>1, <1>3, <1>5, <1>7, <2>8, <3>4, <4>6 DEF GemmMoves
    <3>5. CASE e = rounds - 1
      <4>1. PICK jmp : jmp = [at |-> m, left |-> 0]
        OBVIOUS
      <4>2. ~(left > 0) /\ m + 1 = 2 * (ph + 1)
        BY <2>1, <3>3, <3>5
      <4>3. w = [v EXCEPT !.pc = 2 * (ph + 1), !.rep = 0, !.jump = jmp]
        BY <2>6, <3>2, <4>1, <4>2
      <4>4. DOMAIN w = UnitFields /\ w.crf = v.crf /\ w.jump = jmp /\ w.pc = 2 * (ph + 1) /\ w.rep = 0
        BY <1>2, <4>3 DEF UnitFields
      <4>5. Turned(jmp, 2 * (ph + 1) + 1, rounds, 0)
        <5>1. jmp.at = m /\ m # 2 * (ph + 1) + 1
          BY <2>1, <4>1
        <5> QED BY <5>1 DEF Turned
      <4>6. GemmControl(w, rounds, ph + 1, 0, 0)
        BY <1>2, <4>4, <4>5 DEF GemmControl
      <4> QED BY <1>0, <1>1, <1>3, <1>5, <1>7, <2>8, <3>5, <4>6 DEF GemmMoves
    <3> QED BY <3>4, <3>5
  <2> QED BY <2>7, <2>8
<1> QED BY <1>1, <1>6, <1>7

\* The program after X commands.
GemmWhere(rounds, X, ph, e, rep) ==
  /\ ph \in 0 .. 2 /\ e \in 0 .. rounds - 1 /\ rep \in Nat /\ (ph = 2 => e = 0)
  /\ X = (ph * rounds + e) * NumGrf + rep
  /\ rep < IF ph = 2 THEN 3 * NumGrf ELSE NumGrf
GemmAt(v, rounds, X) ==
  \E ph, e, rep : GemmWhere(rounds, X, ph, e, rep) /\ GemmControl(v, rounds, ph, e, rep)

\* Commands of the first MAC, of both, and of the whole program.
FirstMac(rounds) == rounds * NumGrf
BothMacs(rounds) == 2 * (rounds * NumGrf)
AllCommands(rounds) == 2 * (rounds * NumGrf) + 3 * NumGrf

\* The instruction after X commands.
LEMMA GemmFetches ==
  ASSUME NEW rounds \in Nat \ {0}, NEW X, NEW v, GemmAt(v, rounds, X)
  PROVE  /\ X \in Nat /\ X < AllCommands(rounds)
         /\ Fetch(v) = IF X < FirstMac(rounds) THEN Mac(0) ELSE IF X < BothMacs(rounds) THEN Mac(1) ELSE Idle(3)
<1>0. PICK G \in Nat \ {0} : G = NumGrf
  BY GeometryAssumption
<1>1. PICK ph, e, rep : GemmWhere(rounds, X, ph, e, rep) /\ GemmControl(v, rounds, ph, e, rep)
  BY DEF GemmAt
<1>2. /\ ph \in 0 .. 2 /\ e \in 0 .. rounds - 1 /\ rep \in Nat /\ (ph = 2 => e = 0)
      /\ X = (ph * rounds + e) * G + rep /\ rep < IF ph = 2 THEN 3 * G ELSE G
  BY <1>0, <1>1 DEF GemmWhere
<1>3. Fetch(v) = IF ph = 2 THEN Idle(3) ELSE Mac(ph)
  <2>1. GemmLoaded(v.crf, rounds) /\ v.pc = 2 * ph
    BY <1>1 DEF GemmControl
  <2> QED BY <1>2, <2>1 DEF Fetch, GemmLoaded
<1>4. PICK N \in Nat : N = rounds * G
  BY MulNat
<1>5. CASE ph = 2
  <2>1. X = 2 * N + rep
    <3>1. (2 * rounds + 0) * G = 2 * (rounds * G)
      OBVIOUS
    <3> QED BY <1>2, <1>4, <1>5, <3>1
  <2> QED BY <1>0, <1>2, <1>3, <1>4, <1>5, <2>1 DEF FirstMac, BothMacs, AllCommands
<1>6. CASE ph # 2
  <2>1. PICK x \in 0 .. N - 1 : x = e * G + rep
    <3>1. rep \in 0 .. G - 1 /\ e \in 0 .. rounds - 1
      BY <1>2, <1>6
    <3>2. e * G + rep \in 0 .. rounds * G - 1
      BY <3>1, DigitsBound
    <3> QED BY <1>4, <3>2
  <2>2. X = ph * N + x
    <3>1. (ph * rounds + e) * G + rep = ph * (rounds * G) + (e * G + rep)
      BY <1>2
    <3> QED BY <1>2, <1>4, <2>1, <3>1
  <2>3. X = IF ph = 0 THEN x ELSE N + x
    BY <1>2, <1>4, <1>6, <2>2
  <2> QED BY <1>0, <1>2, <1>3, <1>4, <1>6, <2>3 DEF FirstMac, BothMacs, AllCommands
<1> QED BY <1>5, <1>6

\* The digits of the number of commands after one more.
GemmCarry(rounds, X, ph, e, rep) ==
  /\ ph < 2 /\ rep + 1 < NumGrf => GemmWhere(rounds, X + 1, ph, e, rep + 1)
  /\ ph < 2 /\ rep + 1 = NumGrf /\ e < rounds - 1 => GemmWhere(rounds, X + 1, ph, e + 1, 0)
  /\ ph < 2 /\ rep + 1 = NumGrf /\ e = rounds - 1 => GemmWhere(rounds, X + 1, ph + 1, 0, 0)
  /\ ph = 2 /\ rep + 1 < 3 * NumGrf => GemmWhere(rounds, X + 1, ph, e, rep + 1)
  /\ ph = 2 => (rep + 1 = 3 * NumGrf <=> X + 1 = AllCommands(rounds))
  /\ ph < 2 => X + 1 < AllCommands(rounds)

\* One more command.
LEMMA GemmCarries ==
  ASSUME NEW rounds \in Nat \ {0}, NEW X, NEW ph, NEW e, NEW rep, GemmWhere(rounds, X, ph, e, rep)
  PROVE  GemmCarry(rounds, X, ph, e, rep)
<1>0. PICK G \in Nat \ {0} : G = NumGrf
  BY GeometryAssumption
<1>2. /\ ph \in 0 .. 2 /\ e \in 0 .. rounds - 1 /\ rep \in Nat /\ (ph = 2 => e = 0)
      /\ X = (ph * rounds + e) * G + rep /\ rep < IF ph = 2 THEN 3 * G ELSE G
  BY <1>0 DEF GemmWhere
<1>3. PICK N \in Nat : N = rounds * G
  BY MulNat
<1>4. PICK y \in Nat : y = (ph * rounds + e) * G
  BY <1>2
<1>5. ((ph * rounds + (e + 1)) * G) + 0 = y + G
  BY <1>2, <1>4
<1>6. e = rounds - 1 => ((ph + 1) * rounds + 0) * G + 0 = y + G
  BY <1>2, <1>4
<1>7. ph = 2 => y = 2 * N
  <2>1. (2 * rounds + 0) * G = 2 * (rounds * G)
    OBVIOUS
  <2> QED BY <1>2, <1>3, <1>4, <2>1
<1>8. ph < 2 => X + 1 <= 2 * N
  <2> SUFFICES ASSUME ph < 2 PROVE X + 1 <= 2 * N
    OBVIOUS
  <2>1. rep \in 0 .. G - 1 /\ ph * rounds + e \in 0 .. 2 * rounds - 1
    BY <1>2
  <2>2. PICK M \in Nat : M = 2 * rounds
    OBVIOUS
  <2>7. PICK d \in 0 .. M - 1 : d = ph * rounds + e
    BY <2>1, <2>2
  <2>3. d * G + rep \in 0 .. M * G - 1
    BY <2>1, DigitsBound
  <2>4. M * G = 2 * N
    BY <1>3, <2>2
  <2>5. X = d * G + rep
    BY <1>2, <2>7
  <2>6. PICK z \in Nat : z = M * G
    BY <2>2
  <2> QED BY <2>3, <2>4, <2>5, <2>6
<1>9. ASSUME ph < 2, rep + 1 < G PROVE GemmWhere(rounds, X + 1, ph, e, rep + 1)
  BY <1>0, <1>2, <1>4, <1>9 DEF GemmWhere
<1>10. ASSUME ph < 2, rep + 1 = G, e < rounds - 1 PROVE GemmWhere(rounds, X + 1, ph, e + 1, 0)
  <2>1. X + 1 = (ph * rounds + (e + 1)) * G + 0
    BY <1>2, <1>4, <1>5, <1>10
  <2> QED BY <1>0, <1>2, <1>10, <2>1 DEF GemmWhere
<1>11. ASSUME ph < 2, rep + 1 = G, e = rounds - 1 PROVE GemmWhere(rounds, X + 1, ph + 1, 0, 0)
  <2>1. X + 1 = ((ph + 1) * rounds + 0) * G + 0
    BY <1>2, <1>4, <1>6, <1>11
  <2> QED BY <1>0, <1>2, <1>11, <2>1 DEF GemmWhere
<1>12. ASSUME ph = 2, rep + 1 < 3 * G PROVE GemmWhere(rounds, X + 1, ph, e, rep + 1)
  BY <1>0, <1>2, <1>4, <1>12 DEF GemmWhere
<1>13. AllCommands(rounds) = 2 * N + 3 * G
  BY <1>0, <1>3 DEF AllCommands
<1>14. ph = 2 => (rep + 1 = 3 * G <=> X + 1 = AllCommands(rounds))
  BY <1>2, <1>3, <1>4, <1>7, <1>13
<1>15. ph < 2 => X + 1 < AllCommands(rounds)
  BY <1>0, <1>3, <1>2, <1>4, <1>8, <1>13
<1> QED BY <1>0, <1>9, <1>10, <1>11, <1>12, <1>14, <1>15, Zenon DEF GemmCarry

\* The program goes on with the command to a bank.
GemmGoesOn(w, rounds, X) ==
  /\ X + 1 < AllCommands(rounds) => GemmAt(w, rounds, X + 1)
  /\ X + 1 = AllCommands(rounds) => GemmEnded(w, rounds)

\* It does so with each of them.
LEMMA GemmCommand ==
  ASSUME NEW rounds \in Nat \ {0}, NEW X, NEW v, GemmAt(v, rounds, X), v.mode = "HAB_PIM",
         NEW c, NEW data, NEW w, w = AfterBank(v, c, data)
  PROVE  GemmGoesOn(w, rounds, X)
<1>1. PICK ph, e, rep : GemmWhere(rounds, X, ph, e, rep) /\ GemmControl(v, rounds, ph, e, rep)
  BY DEF GemmAt
<1>2. PICK x : x = Compute(v, c, IF c.k = "R" THEN data ELSE Garbage, Fetch(v))
  OBVIOUS
<1>3. w = Step(x)
  BY <1>2 DEF AfterBank
<1>4. SameControl(v, x)
  BY <1>1, <1>2, ComputeKeepsControl DEF GemmControl
<1>5. GemmControl(x, rounds, ph, e, rep)
  BY <1>1, <1>4 DEF GemmControl, SameControl, SameMode
<1>6. GemmCarry(rounds, X, ph, e, rep)
  BY <1>1, GemmCarries
<1>7. /\ ph \in 0 .. 2 /\ e \in 0 .. rounds - 1 /\ rep \in Nat /\ (ph = 2 => e = 0)
      /\ rep < IF ph = 2 THEN 3 * NumGrf ELSE NumGrf
  BY <1>1 DEF GemmWhere
<1>8. GemmMoves(w, rounds, ph, e, rep)
  BY <1>3, <1>5, <1>7, GemmStep
<1>9. NumGrf \in Nat
  BY GeometryAssumption
<1>15. PICK all \in Nat : all = AllCommands(rounds) /\ X + 1 \in Nat
  <2>1. X \in Nat
    BY GemmFetches
  <2>2. rounds * NumGrf \in Nat
    BY <1>9, MulNat
  <2> QED BY <1>9, <2>1, <2>2 DEF AllCommands
<1>16. ASSUME GemmAt(w, rounds, X + 1), X + 1 # all PROVE GemmGoesOn(w, rounds, X)
  BY <1>15, <1>16, Zenon DEF GemmGoesOn
<1>17. ph < 2 => X + 1 # all
  <2>1. ph < 2 => X + 1 < all
    BY <1>6, <1>15, Zenon DEF GemmCarry
  <2> QED BY <1>15, <2>1
<1>10. CASE ph < 2 /\ rep + 1 < NumGrf
  <2>1. GemmWhere(rounds, X + 1, ph, e, rep + 1) /\ GemmControl(w, rounds, ph, e, rep + 1)
    BY <1>6, <1>8, <1>10, Zenon DEF GemmCarry, GemmMoves
  <2> QED BY <1>10, <1>16, <1>17, <2>1, Zenon DEF GemmAt
<1>11. CASE ph < 2 /\ rep + 1 = NumGrf /\ e < rounds - 1
  <2>1. GemmWhere(rounds, X + 1, ph, e + 1, 0) /\ GemmControl(w, rounds, ph, e + 1, 0)
    BY <1>6, <1>8, <1>11, Zenon DEF GemmCarry, GemmMoves
  <2> QED BY <1>11, <1>16, <1>17, <2>1, Zenon DEF GemmAt
<1>12. CASE ph < 2 /\ rep + 1 = NumGrf /\ e = rounds - 1
  <2>1. GemmWhere(rounds, X + 1, ph + 1, 0, 0) /\ GemmControl(w, rounds, ph + 1, 0, 0)
    BY <1>6, <1>8, <1>12, Zenon DEF GemmCarry, GemmMoves
  <2> QED BY <1>12, <1>16, <1>17, <2>1, Zenon DEF GemmAt
<1>13. CASE ph = 2 /\ rep + 1 < 3 * NumGrf
  <2>1. GemmWhere(rounds, X + 1, ph, e, rep + 1) /\ GemmControl(w, rounds, ph, e, rep + 1)
    BY <1>6, <1>8, <1>13, Zenon DEF GemmCarry, GemmMoves
  <2>2. rep + 1 # 3 * NumGrf
    BY <1>7, <1>9, <1>13
  <2>3. X + 1 # all
    BY <1>6, <1>13, <1>15, <2>2, Zenon DEF GemmCarry
  <2> QED BY <1>16, <2>1, <2>3, Zenon DEF GemmAt
<1>14. CASE ph = 2 /\ rep + 1 = 3 * NumGrf
  <2>1. GemmEnded(w, rounds) /\ X + 1 = all
    BY <1>6, <1>8, <1>14, <1>15, Zenon DEF GemmCarry, GemmMoves
  <2>2. ~(all < all)
    BY <1>15
  <2> QED BY <1>15, <2>1, <2>2, Zenon DEF GemmGoesOn
<1> QED BY <1>7, <1>9, <1>10, <1>11, <1>12, <1>13, <1>14

-----------------------------------------------------------------------------
(* The windows of a product.                                               *)

\* The x-th of the 2 * h tiles of inputs that a tile of outputs goes through,
\* first the even ones, then the odd ones: its pair, and its place in it, which
\* is the bank its weights are in.
PairOf(h, x) == IF x < h THEN x ELSE x - h
BankAt(h, x) == IF x < h THEN 0 ELSE 1
InTileOf(h, x) == 2 * PairOf(h, x) + BankAt(h, x)

\* The windows of a tile of outputs.
ClearAll == [k |-> "HAB_PIM", clear |-> TRUE, lanes |-> Lanes]
GrfWrite(base) == [k |-> "GRF", lanes |-> Lanes, base |-> base]
WeightWin(bank, base) == [n \in 1 .. NumGrf |-> R_CMD("weight", bank, base + (n - 1) * NumGrf)]
SumWin(base) == <<W_CMD("sum", 1, base), W_CMD("sum", 1, base), R_CMD("sum", 1, base)>>
HabAll == [k |-> "HAB", lanes |-> Lanes]

\* Columns of a row, and groups of them.
LEMMA Columns ==
  \E g \in Nat \ {0} : /\ NumGrf = 2 * g /\ ColsPerRow \div NumGrf = g /\ ColsPerRow = g * NumGrf
                       /\ NumGrf * NumGrf = 2 * ColsPerRow
<1>1. PICK g \in Nat \ {0} : NumGrf = 2 * g
  <2>1. NumGrf \div 2 \in Nat \ {0} /\ NumGrf = 2 * (NumGrf \div 2)
    BY GeometryAssumption
  <2> QED BY <2>1
<1>2. ColsPerRow = NumGrf * g
  <2>1. NumGrf * NumGrf = 2 * (NumGrf * g) /\ NumGrf * g \in Nat
    BY <1>1
  <2> QED BY <2>1 DEF ColsPerRow
<1>3. (NumGrf * g) \div NumGrf = g
  BY <1>1
<1> QED BY <1>1, <1>2, <1>3

\* A pair of input tiles.
LEMMA PairNumbers ==
  ASSUME NEW h \in Nat \ {0}, NEW x \in 0 .. 2 * h - 1
  PROVE  /\ PairOf(h, x) \in 0 .. h - 1 /\ BankAt(h, x) \in 0 .. 1 /\ InTileOf(h, x) \in 0 .. 2 * h - 1
         /\ InTileOf(h, x) \div 2 = PairOf(h, x) /\ InTileOf(h, x) % 2 = BankAt(h, x)
BY DEF PairOf, BankAt, InTileOf

\* The rows of a bank that hold a tile of weights.
LEMMA WeightRowsAre ==
  ASSUME NEW j, NEW h \in Nat \ {0}, InTiles(j) = 2 * h, NEW i, WeightBase(j, i) \in Nat,
         NEW o \in Nat, NEW x \in 0 .. 2 * h - 1, NEW base,
         base = WeightBase(j, i) + (o * h + PairOf(h, x)) * (NumGrf * NumGrf)
  PROVE  weight_rows(j, i, o, InTileOf(h, x)) = WeightWin(BankAt(h, x), base)
<1>1. PICK g \in Nat \ {0} : /\ NumGrf = 2 * g /\ ColsPerRow \div NumGrf = g /\ ColsPerRow = g * NumGrf
                             /\ NumGrf * NumGrf = 2 * ColsPerRow
  BY Columns
<1>0. PICK wb \in Nat, p \in Nat : wb = WeightBase(j, i) /\ p = PairOf(h, x)
  BY PairNumbers
<1>2. PICK bk : wb = WeightBase(j, i) /\ p = PairOf(h, x) /\ bk = BankAt(h, x)
  BY <1>0
<1>3. PICK C \in Nat, G \in Nat \ {0} : C = ColsPerRow /\ G = NumGrf /\ C = g * G /\ G * G = 2 * C /\ G = 2 * g
  <2>1. NumGrf \in Nat \ {0} /\ ColsPerRow \in Nat
    BY <1>1
  <2> QED BY <1>1, <2>1
<1>4. InTileOf(h, x) \div 2 = p /\ InTileOf(h, x) % 2 = bk
  BY <1>2, PairNumbers
<1>5. (o * InTiles(j)) \div 2 = o * h
  <2>1. PICK y \in Nat : y = o * h
    BY MulNat
  <2>2. o * (2 * h) = 2 * y
    BY <2>1
  <2>3. (2 * y) \div 2 = y
    BY <2>1
  <2> QED BY <2>1, <2>2, <2>3
<1>6. PICK e \in Nat : e = p + o * h
  <2>1. o * h \in Nat
    BY MulNat
  <2> QED BY <2>1
<1> DEFINE access(r, c) == R_CMD("weight", bk, wb + (2 * e + r - 1) * C + (c - 1) * G)
           want(n) == R_CMD("weight", bk, base + (n - 1) * G)
<1>7. PICK f, s : f = weight_rows(j, i, o, InTileOf(h, x)) /\ s = [r \in 1 .. 2 |-> [c \in 1 .. g |-> access(r, c)]]
  OBVIOUS
<1>8. f = FlattenSeq(s)
  BY <1>1, <1>2, <1>3, <1>4, <1>5, <1>6, <1>7, Zenon DEF weight_rows
<1>9. PICK y \in Nat : y = e * (G * G) /\ base = wb + y
  <2>1. e * (G * G) \in Nat
    BY <1>3, <1>6
  <2>2. o * h + p = p + o * h
    <3>1. o * h \in Nat
      BY MulNat
    <3> QED BY <3>1
  <2> QED BY <1>2, <1>3, <1>6, <2>1, <2>2, Zenon
<1>10. (2 * e + 1 - 1) * C = y /\ (2 * e + 2 - 1) * C = y + g * G
  <2>1. (2 * e + 1 - 1) * C = e * (2 * C) /\ (2 * e + 2 - 1) * C = e * (2 * C) + C
    BY <1>3, <1>6
  <2> QED BY <1>3, <1>9, <2>1
<1>11. ASSUME NEW c \in 1 .. g PROVE access(1, c) = want(c) /\ access(2, c) = want(g + c)
  <2>1. PICK z \in Nat : z = (c - 1) * G
    BY <1>3
  <2>2. PICK t \in Nat : t = g * G
    BY <1>3
  <2>3. (g + c - 1) * G = t + z
    BY <1>3, <2>1, <2>2
  <2>4. wb + y + z = base + z /\ wb + (y + t) + z = base + (t + z)
    BY <1>9, <2>1, <2>2
  <2>5. wb + (2 * e + 1 - 1) * C + (c - 1) * G = base + (c - 1) * G
    BY <1>10, <2>1, <2>4, Zenon
  <2>6. wb + (2 * e + 2 - 1) * C + (c - 1) * G = base + (g + c - 1) * G
    BY <1>10, <2>1, <2>2, <2>3, <2>4, Zenon
  <2>7. access(1, c) = R_CMD("weight", bk, wb + (2 * e + 1 - 1) * C + (c - 1) * G)
    OBVIOUS
  <2>8. access(2, c) = R_CMD("weight", bk, wb + (2 * e + 2 - 1) * C + (c - 1) * G)
    OBVIOUS
  <2>9. want(c) = R_CMD("weight", bk, base + (c - 1) * G) /\ want(g + c) = R_CMD("weight", bk, base + (g + c - 1) * G)
    OBVIOUS
  <2> HIDE DEF access, want
  <2> QED BY <2>5, <2>6, <2>7, <2>8, <2>9
<1> HIDE DEF access, want
<1>12. PICK a : a = [c \in 1 .. g |-> access(1, c)]
  OBVIOUS
<1>13. PICK b : b = [c \in 1 .. g |-> access(2, c)]
  OBVIOUS
<1>14. PICK S : S = {access(1, c) : c \in 1 .. g} \cup {access(2, c) : c \in 1 .. g}
  OBVIOUS
<1>15. a \in Seq(S) /\ Len(a) = g /\ b \in Seq(S) /\ Len(b) = g
  BY <1>12, <1>13, <1>14
<1>16. s = <<a, b>>
  <2>1. s[1] = a /\ s[2] = b /\ s = [r \in 1 .. 2 |-> s[r]]
    BY <1>7, <1>12, <1>13
  <2> QED BY <2>1, SmallTuples, Zenon
<1>17. f = a \o b
  BY <1>8, <1>15, <1>16, FlattenTwo
<1>18. Joins(f, a, b)
  BY <1>15, <1>17, SeqIsSeq, ConcatJoins
<1>19. f = [n \in 1 .. G |-> f[n]]
  <2>1. IsSeq(f) /\ Len(f) = G
    BY <1>3, <1>15, <1>18 DEF Joins
  <2> QED BY <2>1 DEF IsSeq
<1>20. ASSUME NEW n \in 1 .. G PROVE f[n] = want(n)
  <2>1. CASE n <= g
    <3>1. n \in 1 .. g
      BY <2>1
    <3>2. f[n] = a[n]
      BY <1>15, <1>18, <3>1 DEF Joins
    <3> QED BY <1>11, <1>12, <3>1, <3>2
  <2>2. CASE ~(n <= g)
    <3>1. PICK c \in 1 .. g : n = g + c
      <4>1. n - g \in 1 .. g /\ n = g + (n - g)
        BY <1>3, <2>2
      <4> QED BY <4>1
    <3>2. f[g + c] = b[c]
      BY <1>15, <1>18, <3>1 DEF Joins
    <3>3. b[c] = access(2, c)
      BY <1>13
    <3> QED BY <1>11, <3>1, <3>2, <3>3
  <2> QED BY <2>1, <2>2
<1>21. f = [n \in 1 .. G |-> want(n)]
  BY <1>19, <1>20
<1> QED BY <1>2, <1>3, <1>7, <1>21, Zenon DEF WeightWin, want

\* The windows f of a tile of outputs, of 2 * h tiles of inputs that begin at ib,
\* with weights from wb on and sums that go to sums.
GemmTileIs(f, h, ib, wb, sums) ==
  /\ IsSeq(f) /\ Len(f) = 4 * h + 3
  /\ f[1] = <<ClearAll>>
  /\ \A x \in 0 .. 2 * h - 1 :
       /\ f[2 * x + 2] = <<GrfWrite(ib + InTileOf(h, x) * NumGrf)>>
       /\ f[2 * x + 3] = WeightWin(BankAt(h, x), wb + PairOf(h, x) * (NumGrf * NumGrf))
  /\ f[4 * h + 2] = SumWin(sums) /\ f[4 * h + 3] = <<HabAll>>

\* Where the weights of a tile of outputs begin.
TileWeights(j, h, i, o) == WeightBase(j, i) + (o * h) * (NumGrf * NumGrf)

\* The windows one after another.
LEMMA GemmTileWindows ==
  ASSUME NEW j, NEW h \in Nat \ {0}, InTiles(j) = 2 * h, NEW ch, NEW i, WeightBase(j, i) \in Nat,
         NEW r, NEW o \in Nat
  PROVE  GemmTileIs(gemm_tile(j, ch, i, r, o), h, InputBase(j, ch, i, r), TileWeights(j, h, i, o),
                    SumBase(j, i, r, o))
<1> DEFINE ib == InputBase(j, ch, i, r)
           sums == SumBase(j, i, r, o)
           in_tile(y) == << <<GrfWrite(ib + y * NumGrf)>>, weight_rows(j, i, o, y) >>
<1>1. PICK f : f = gemm_tile(j, ch, i, r, o)
  OBVIOUS
<1>2. PICK even : even = [n \in 1 .. h |-> in_tile(2 * (n - 1))]
  OBVIOUS
<1>3. PICK odd : odd = [n \in 1 .. h |-> in_tile(2 * (n - 1) + 1)]
  OBVIOUS
<1>4. InTiles(j) \div 2 = h
  OBVIOUS
<1>5. PICK on, out, off : on = << <<ClearAll>> >> /\ out = << SumWin(sums) >> /\ off = << <<HabAll>> >>
  OBVIOUS
<1>6. f = on \o FlattenSeq(even) \o FlattenSeq(odd) \o out \o off
  BY <1>1, <1>2, <1>3, <1>4, <1>5, Zenon
     DEF gemm_tile, change_hab_habpim, change_habpim_hab, ClearAll, HabAll, GrfWrite, SumWin
<1> HIDE DEF ib, sums
<1>7. \A y : IsSeq(in_tile(y)) /\ Len(in_tile(y)) = 2
  BY DEF IsSeq, Range
<1>8. \A y : in_tile(y)[1] = <<GrfWrite(ib + y * NumGrf)>> /\ in_tile(y)[2] = weight_rows(j, i, o, y)
  OBVIOUS
<1> HIDE DEF in_tile
<1>9. PICK E, D : E = FlattenSeq(even) /\ D = FlattenSeq(odd)
  OBVIOUS
<1>10. IsEven(E, even, h, 2)
  <2>1. even = [n \in 1 .. h |-> even[n]] /\ \A n \in 1 .. h : IsSeq(even[n]) /\ Len(even[n]) = 2
    BY <1>2, <1>7
  <2> QED BY <1>9, <2>1, FlattenEven DEF IsFamily
<1>11. IsEven(D, odd, h, 2)
  <2>1. odd = [n \in 1 .. h |-> odd[n]] /\ \A n \in 1 .. h : IsSeq(odd[n]) /\ Len(odd[n]) = 2
    BY <1>3, <1>7
  <2> QED BY <1>9, <2>1, FlattenEven DEF IsFamily
<1>12. /\ IsSeq(on) /\ Len(on) = 1 /\ on[1] = <<ClearAll>>
       /\ IsSeq(out) /\ Len(out) = 1 /\ out[1] = SumWin(sums)
       /\ IsSeq(off) /\ Len(off) = 1 /\ off[1] = <<HabAll>>
  BY <1>5 DEF IsSeq, Range
<1>13. IsSeq(E) /\ Len(E) = 2 * h /\ IsSeq(D) /\ Len(D) = 2 * h
  BY <1>10, <1>11 DEF IsEven
<1>14. PICK a, b, c : a = on \o E /\ b = a \o D /\ c = b \o out
  OBVIOUS
<1>15. Joins(a, on, E)
  BY <1>12, <1>13, <1>14, ConcatJoins
<1>16. IsSeq(a) /\ Len(a) = 2 * h + 1 /\ a[1] = <<ClearAll>> /\ \A n \in 1 .. 2 * h : a[1 + n] = E[n]
  BY <1>12, <1>13, <1>15 DEF Joins
<1>17. Joins(b, a, D)
  BY <1>13, <1>14, <1>16, ConcatJoins
<1>18. /\ IsSeq(b) /\ Len(b) = 4 * h + 1 /\ (\A n \in 1 .. 2 * h + 1 : b[n] = a[n])
       /\ \A n \in 1 .. 2 * h : b[2 * h + 1 + n] = D[n]
  BY <1>13, <1>16, <1>17 DEF Joins
<1>19. Joins(c, b, out)
  BY <1>12, <1>14, <1>18, ConcatJoins
<1>20. /\ IsSeq(c) /\ Len(c) = 4 * h + 2 /\ (\A n \in 1 .. 4 * h + 1 : c[n] = b[n])
       /\ c[4 * h + 1 + 1] = SumWin(sums)
  BY <1>12, <1>18, <1>19 DEF Joins
<1>21. Joins(f, c, off)
  <2>1. f = c \o off
    BY <1>6, <1>9, <1>14, Zenon
  <2> QED BY <1>12, <1>20, <2>1, ConcatJoins
<1>22. /\ IsSeq(f) /\ Len(f) = 4 * h + 3 /\ (\A n \in 1 .. 4 * h + 2 : f[n] = c[n])
       /\ f[4 * h + 2 + 1] = <<HabAll>>
  BY <1>12, <1>20, <1>21 DEF Joins
<1>23. f[1] = <<ClearAll>> /\ f[4 * h + 2] = SumWin(sums) /\ f[4 * h + 3] = <<HabAll>>
  <2>1. 1 \in 1 .. 4 * h + 2 /\ 1 \in 1 .. 4 * h + 1 /\ 1 \in 1 .. 2 * h + 1
        /\ 4 * h + 2 \in 1 .. 4 * h + 2 /\ 4 * h + 1 + 1 = 4 * h + 2 /\ 4 * h + 2 + 1 = 4 * h + 3
    OBVIOUS
  <2> QED BY <1>16, <1>18, <1>20, <1>22, <2>1
<1>24. ASSUME NEW x \in 0 .. 2 * h - 1, NEW y, y = InTileOf(h, x)
       PROVE  f[2 * x + 2] = in_tile(y)[1] /\ f[2 * x + 3] = in_tile(y)[2]
  <2>1. CASE x < h
    <3>1. y = 2 * x /\ x \in 0 .. h - 1 /\ x + 1 \in 1 .. h /\ 2 * ((x + 1) - 1) = 2 * x
      BY <1>24, <2>1 DEF InTileOf, PairOf, BankAt
    <3>2. E[x * 2 + 1] = even[x + 1][1] /\ E[x * 2 + 2] = even[x + 1][2]
      <4>1. \A m \in 0 .. h - 1 : \A q \in 1 .. 2 : E[m * 2 + q] = even[m + 1][q]
        BY <1>10, Zenon DEF IsEven
      <4>2. 1 \in 1 .. 2 /\ 2 \in 1 .. 2
        OBVIOUS
      <4> QED BY <3>1, <4>1, <4>2, Zenon
    <3>3. even[x + 1] = in_tile(y)
      BY <1>2, <3>1
    <3>4. /\ 1 + (x * 2 + 1) = 2 * x + 2 /\ 1 + (x * 2 + 2) = 2 * x + 3
          /\ x * 2 + 1 \in 1 .. 2 * h /\ x * 2 + 2 \in 1 .. 2 * h
          /\ 2 * x + 2 \in 1 .. 2 * h + 1 /\ 2 * x + 3 \in 1 .. 2 * h + 1
          /\ 2 * x + 2 \in 1 .. 4 * h + 1 /\ 2 * x + 3 \in 1 .. 4 * h + 1
          /\ 2 * x + 2 \in 1 .. 4 * h + 2 /\ 2 * x + 3 \in 1 .. 4 * h + 2
      BY <3>1
    <3>5. a[2 * x + 2] = E[x * 2 + 1] /\ a[2 * x + 3] = E[x * 2 + 2]
      BY <1>16, <3>4
    <3>6. f[2 * x + 2] = a[2 * x + 2] /\ f[2 * x + 3] = a[2 * x + 3]
      BY <1>18, <1>20, <1>22, <3>4, Zenon
    <3> QED BY <3>2, <3>3, <3>5, <3>6
  <2>2. CASE ~(x < h)
    <3>1. PICK z \in 0 .. h - 1 : x = h + z
      <4>1. x - h \in 0 .. h - 1 /\ x = h + (x - h)
        BY <2>2
      <4> QED BY <4>1
    <3>2. y = 2 * z + 1 /\ z + 1 \in 1 .. h /\ 2 * ((z + 1) - 1) + 1 = 2 * z + 1
      BY <1>24, <2>2, <3>1 DEF InTileOf, PairOf, BankAt
    <3>3. D[z * 2 + 1] = odd[z + 1][1] /\ D[z * 2 + 2] = odd[z + 1][2]
      <4>1. \A m \in 0 .. h - 1 : \A q \in 1 .. 2 : D[m * 2 + q] = odd[m + 1][q]
        BY <1>11, Zenon DEF IsEven
      <4>2. 1 \in 1 .. 2 /\ 2 \in 1 .. 2
        OBVIOUS
      <4> QED BY <3>1, <4>1, <4>2, Zenon
    <3>4. odd[z + 1] = in_tile(y)
      BY <1>3, <3>2
    <3>5. /\ 2 * h + 1 + (z * 2 + 1) = 2 * x + 2 /\ 2 * h + 1 + (z * 2 + 2) = 2 * x + 3
          /\ z * 2 + 1 \in 1 .. 2 * h /\ z * 2 + 2 \in 1 .. 2 * h
          /\ 2 * x + 2 \in 1 .. 4 * h + 1 /\ 2 * x + 3 \in 1 .. 4 * h + 1
          /\ 2 * x + 2 \in 1 .. 4 * h + 2 /\ 2 * x + 3 \in 1 .. 4 * h + 2
      BY <3>1
    <3>6. b[2 * x + 2] = D[z * 2 + 1] /\ b[2 * x + 3] = D[z * 2 + 2]
      <4>1. b[2 * h + 1 + (z * 2 + 1)] = D[z * 2 + 1] /\ b[2 * h + 1 + (z * 2 + 2)] = D[z * 2 + 2]
        BY <1>18, <3>5
      <4> QED BY <3>5, <4>1
    <3>7. f[2 * x + 2] = b[2 * x + 2] /\ f[2 * x + 3] = b[2 * x + 3]
      BY <1>20, <1>22, <3>5, Zenon
    <3> QED BY <3>3, <3>4, <3>6, <3>7
  <2> QED BY <2>1, <2>2
<1>25. ASSUME NEW x \in 0 .. 2 * h - 1
       PROVE  /\ f[2 * x + 2] = <<GrfWrite(ib + InTileOf(h, x) * NumGrf)>>
              /\ f[2 * x + 3] = WeightWin(BankAt(h, x), TileWeights(j, h, i, o) + PairOf(h, x) * (NumGrf * NumGrf))
  <2>1. PICK y : y = InTileOf(h, x)
    OBVIOUS
  <2>2. f[2 * x + 2] = in_tile(y)[1] /\ f[2 * x + 3] = in_tile(y)[2]
    BY <1>24, <2>1
  <2>3. weight_rows(j, i, o, y) =
          WeightWin(BankAt(h, x), WeightBase(j, i) + (o * h + PairOf(h, x)) * (NumGrf * NumGrf))
    BY <2>1, WeightRowsAre
  <2>4. WeightBase(j, i) + (o * h + PairOf(h, x)) * (NumGrf * NumGrf)
          = TileWeights(j, h, i, o) + PairOf(h, x) * (NumGrf * NumGrf)
    <3>1. PICK wb \in Nat, p \in Nat, oh \in Nat, g \in Nat :
            wb = WeightBase(j, i) /\ p = PairOf(h, x) /\ oh = o * h /\ g = NumGrf * NumGrf
      <4>1. o * h \in Nat /\ PairOf(h, x) \in Nat /\ NumGrf * NumGrf \in Nat
        <5>1. PairOf(h, x) \in 0 .. h - 1
          BY PairNumbers
        <5>2. NumGrf \in Nat
          BY GeometryAssumption
        <5> QED BY <5>1, <5>2, MulNat
      <4> QED BY <4>1
    <3>2. wb + (oh + p) * g = wb + oh * g + p * g
      OBVIOUS
    <3> QED BY <3>1, <3>2, Zenon DEF TileWeights
  <2> QED BY <1>8, <2>1, <2>2, <2>3, <2>4, Zenon
<1> QED BY <1>1, <1>22, <1>23, <1>25, Zenon DEF GemmTileIs, ib, sums

\* The tiles of outputs of a product, numbered as the kernel goes through them.
TileNum(j, i, r, o) == (i * j.inout_h + r) * OutTiles(j) + o
IsTile(j, i, r, o) == i \in 0 .. IterCnt(j) - 1 /\ r \in 0 .. j.inout_h - 1 /\ o \in 0 .. OutTiles(j) - 1

\* Windows of a tile.
GemmLen(h) == 4 * h + 3

\* The windows of a product.
GemmIs(W, j, ch, h) ==
  /\ Len(W) = 8 + TileCount(j) * GemmLen(h)
  /\ W[6] = program_crf(make_crf_bin("GEMV", InTiles(j)), 1)
  /\ \A i, r, o, q : IsTile(j, i, r, o) /\ q \in 0 .. GemmLen(h) - 1 =>
       W[7 + TileNum(j, i, r, o) * GemmLen(h) + q] = gemm_tile(j, ch, i, r, o)[q + 1]

\* Three loops of which the innermost makes pieces of length L.
Nested(F, a, b, c, I, H, O, L) ==
  /\ IsEven(F, a, I, H * (O * L))
  /\ \A i \in 0 .. I - 1 : IsEven(a[i + 1], b[i], H, O * L)
  /\ \A i \in 0 .. I - 1 : \A r \in 0 .. H - 1 : IsEven(b[i][r + 1], c[i][r], O, L)
Unfolded(F, c, I, H, O, L) ==
  \A i \in 0 .. I - 1 : \A r \in 0 .. H - 1 : \A o \in 0 .. O - 1 : \A q \in 1 .. L :
    F[((i * H + r) * O + o) * L + q] = c[i][r][o + 1][q]

\* What such loops make, by the number of the piece.
LEMMA NestedLoops ==
  ASSUME NEW I \in Nat, NEW H \in Nat, NEW O \in Nat, NEW L \in Nat \ {0}, NEW F, NEW a, NEW b, NEW c,
         Nested(F, a, b, c, I, H, O, L)
  PROVE  Unfolded(F, c, I, H, O, L)
<1> SUFFICES ASSUME NEW i \in 0 .. I - 1, NEW r \in 0 .. H - 1, NEW o \in 0 .. O - 1, NEW q \in 1 .. L
             PROVE  F[((i * H + r) * O + o) * L + q] = c[i][r][o + 1][q]
  BY DEF Unfolded
<1>0. /\ IsEven(F, a, I, H * (O * L))
      /\ IsEven(a[i + 1], b[i], H, O * L)
      /\ IsEven(b[i][r + 1], c[i][r], O, L)
  BY DEF Nested
<1>1. PICK A \in Nat, B \in Nat : A = O * L /\ B = H * (O * L)
  BY MulNat
<1>2. o * L + (q - 1) \in 0 .. O * L - 1
  <2>1. q - 1 \in 0 .. L - 1
    OBVIOUS
  <2> QED BY <2>1, DigitsBound
<1>3. PICK z \in 1 .. A : z = o * L + q
  <2>1. PICK y \in Nat : y = o * L
    OBVIOUS
  <2>2. y + (q - 1) \in 0 .. A - 1
    BY <1>1, <1>2, <2>1
  <2> QED BY <2>1, <2>2
<1>4. r * A + (z - 1) \in 0 .. H * A - 1
  <2>1. A \in Nat \ {0} /\ z - 1 \in 0 .. A - 1
    OBVIOUS
  <2> QED BY <2>1, DigitsBound
<1>5. PICK t \in 1 .. B : t = r * A + z
  <2>1. PICK y \in Nat : y = r * A
    OBVIOUS
  <2>2. y + (z - 1) \in 0 .. B - 1
    BY <1>1, <1>4, <2>1
  <2> QED BY <2>1, <2>2
<1>6. F[i * B + t] = a[i + 1][t]
  BY <1>0, <1>1, <1>5 DEF IsEven
<1>7. a[i + 1][r * A + z] = b[i][r + 1][z]
  <2>1. IsEven(a[i + 1], b[i], H, A)
    BY <1>0, <1>1
  <2> QED BY <1>3, <2>1 DEF IsEven
<1>8. b[i][r + 1][o * L + q] = c[i][r][o + 1][q]
  <2> QED BY <1>0 DEF IsEven
<1>9. ((i * H + r) * O + o) * L + q = i * B + t
  <2>1. ((i * H + r) * O + o) * L + q = i * (H * (O * L)) + (r * (O * L) + (o * L + q))
    OBVIOUS
  <2> QED BY <1>1, <1>3, <1>5, <2>1
<1> QED BY <1>3, <1>5, <1>6, <1>7, <1>8, <1>9

\* The weights of every iteration start at a location.
WeightsPlaced(j) == \A i \in Nat : WeightBase(j, i) \in Nat

\* The kernel is made of those windows.
LEMMA GemmKernelIs ==
  ASSUME NEW j \in Jobs, IsGemm(j), NEW h \in Nat \ {0}, InTiles(j) = 2 * h, NEW ch,
         WeightsPlaced(j)
  PROVE  GemmIs(GemmKernel(j, ch), j, ch, h)
<1>0. PICK I \in Nat, H \in Nat, O \in Nat : I = IterCnt(j) /\ H = j.inout_h /\ O = OutTiles(j)
  BY GemmNumbers
<1>1. PICK L \in Nat \ {0} : L = GemmLen(h)
  BY DEF GemmLen
<1>2. PICK c : c = [i \in 0 .. I - 1 |-> [r \in 0 .. H - 1 |-> [o \in 1 .. O |-> gemm_tile(j, ch, i, r, o - 1)]]]
  OBVIOUS
<1>3. PICK b : b = [i \in 0 .. I - 1 |-> [r \in 1 .. H |-> FlattenSeq(c[i][r - 1])]]
  OBVIOUS
<1>4. PICK a : a = [i \in 1 .. I |-> FlattenSeq(b[i - 1])]
  OBVIOUS
<1>5. PICK F : F = FlattenSeq(a)
  OBVIOUS
<1>6. ASSUME NEW i \in 0 .. I - 1, NEW r \in 0 .. H - 1
      PROVE  IsEven(FlattenSeq(c[i][r]), c[i][r], O, L)
  <2>1. PICK s : s = c[i][r]
    OBVIOUS
  <2>2. s = [o \in 1 .. O |-> gemm_tile(j, ch, i, r, o - 1)]
    BY <1>2, <2>1
  <2>3. ASSUME NEW o \in 1 .. O PROVE IsSeq(s[o]) /\ Len(s[o]) = L
    <3>1. o - 1 \in Nat /\ i \in Nat
      OBVIOUS
    <3>2. GemmTileIs(gemm_tile(j, ch, i, r, o - 1), h, InputBase(j, ch, i, r), TileWeights(j, h, i, o - 1),
                     SumBase(j, i, r, o - 1))
      BY <3>1, GemmTileWindows DEF WeightsPlaced
    <3>3. IsSeq(gemm_tile(j, ch, i, r, o - 1)) /\ Len(gemm_tile(j, ch, i, r, o - 1)) = 4 * h + 3
      BY <3>2, Zenon DEF GemmTileIs
    <3> QED BY <1>1, <2>2, <3>3 DEF GemmLen
  <2>4. s = [o \in 1 .. O |-> s[o]]
    BY <2>2
  <2> QED BY <2>1, <2>3, <2>4, FlattenEven DEF IsFamily
<1>7. ASSUME NEW i \in 0 .. I - 1 PROVE IsEven(FlattenSeq(b[i]), b[i], H, O * L)
  <2>1. PICK s : s = b[i]
    OBVIOUS
  <2>2. s = [r \in 1 .. H |-> FlattenSeq(c[i][r - 1])]
    BY <1>3, <2>1
  <2>3. ASSUME NEW r \in 1 .. H PROVE IsSeq(s[r]) /\ Len(s[r]) = O * L
    <3>1. r - 1 \in 0 .. H - 1
      OBVIOUS
    <3>2. IsEven(FlattenSeq(c[i][r - 1]), c[i][r - 1], O, L)
      BY <1>6, <3>1
    <3> QED BY <2>2, <3>2 DEF IsEven
  <2>4. s = [r \in 1 .. H |-> s[r]] /\ O * L \in Nat
    BY <2>2, MulNat
  <2> QED BY <2>1, <2>3, <2>4, FlattenEven DEF IsFamily
<1>8. IsEven(F, a, I, H * (O * L))
  <2>1. ASSUME NEW i \in 1 .. I PROVE IsSeq(a[i]) /\ Len(a[i]) = H * (O * L)
    <3>1. i - 1 \in 0 .. I - 1
      OBVIOUS
    <3>2. IsEven(FlattenSeq(b[i - 1]), b[i - 1], H, O * L)
      BY <1>7, <3>1
    <3> QED BY <1>4, <3>2 DEF IsEven
  <2>2. a = [i \in 1 .. I |-> a[i]]
    BY <1>4
  <2>3. O * L \in Nat
    BY MulNat
  <2>4. H * (O * L) \in Nat
    BY <2>3, MulNat
  <2> QED BY <1>5, <2>1, <2>2, <2>4, FlattenEven DEF IsFamily
<1>9. F = FlattenSeq([i \in 1 .. I |-> FlattenSeq([r \in 1 .. H |-> FlattenSeq([o \in 1 .. O |->
            gemm_tile(j, ch, i - 1, r - 1, o - 1)])])])
  <2>1. ASSUME NEW i \in 1 .. I, NEW r \in 1 .. H
        PROVE  c[i - 1][r - 1] = [o \in 1 .. O |-> gemm_tile(j, ch, i - 1, r - 1, o - 1)]
    <3>1. i - 1 \in 0 .. I - 1 /\ r - 1 \in 0 .. H - 1
      OBVIOUS
    <3> QED BY <1>2, <3>1
  <2>2. ASSUME NEW i \in 1 .. I
        PROVE  b[i - 1] = [r \in 1 .. H |-> FlattenSeq([o \in 1 .. O |-> gemm_tile(j, ch, i - 1, r - 1, o - 1)])]
    <3>1. i - 1 \in 0 .. I - 1
      OBVIOUS
    <3>2. b[i - 1] = [r \in 1 .. H |-> FlattenSeq(c[i - 1][r - 1])]
      BY <1>3, <3>1
    <3> QED BY <2>1, <3>2
  <2>3. a = [i \in 1 .. I |-> FlattenSeq([r \in 1 .. H |-> FlattenSeq([o \in 1 .. O |->
              gemm_tile(j, ch, i - 1, r - 1, o - 1)])])]
    BY <1>4, <2>2
  <2> QED BY <1>5, <2>3, Zenon
<1>10. PICK p, C, A : /\ p = program_crf(make_crf_bin("GEMV", InTiles(j)), 1) /\ C = <<p>>
                      /\ A = park \o change_sb_hab
  OBVIOUS
<1>11. GemmKernel(j, ch) = A \o C \o F \o change_hab_sb \o park
  BY <1>0, <1>9, <1>10, Zenon DEF GemmKernel
<1>12. IsSeq(A) /\ IsSeq(C) /\ Len(C) = 1 /\ C[1] = p /\ IsSeq(F)
  <2>1. IsSeq(A)
    BY <1>10, FrameSeqs, ConcatIsSeq
  <2>2. IsSeq(C) /\ Len(C) = 1 /\ C[1] = p
    BY <1>10 DEF IsSeq, Range
  <2>3. IsSeq(F)
    BY <1>8 DEF IsEven
  <2> QED BY <2>1, <2>2, <2>3
<1>13. PICK mid, W : mid = C \o F /\ W = GemmKernel(j, ch)
  OBVIOUS
<1>14. W = Frame(mid)
  <2>2. (A \o C) \o F = A \o (C \o F)
    <3>1. IsSeq(A) /\ IsSeq(C) /\ IsSeq(F)
      BY <1>12
    <3>2. PICK S : S = Range(A) \cup Range(C) \cup Range(F)
      OBVIOUS
    <3>3. A \in Seq(S) /\ C \in Seq(S) /\ F \in Seq(S)
      BY <3>1, <3>2 DEF IsSeq
    <3> QED BY <3>3
  <2>1. (A \o C) \o F = A \o mid
    BY <1>13, <2>2, Zenon
  <2> QED BY <1>10, <1>11, <1>13, <2>1, Zenon DEF Frame
<1>15. Joins(mid, C, F)
  BY <1>12, <1>13, ConcatJoins
<1>16. IsSeq(mid) /\ Len(F) \in Nat /\ Len(mid) = 1 + Len(F) /\ mid[1] = p /\ \A n \in 1 .. Len(F) : mid[1 + n] = F[n]
  BY <1>12, <1>15 DEF Joins
<1>17. Len(W) = 7 + Len(mid) /\ \A n \in 1 .. Len(mid) : W[5 + n] = mid[n]
  BY <1>14, <1>16, FrameMid DEF FrameHas
<1>18. PICK len \in Nat : len = ((I * H) * O) * L /\ Len(F) = len
  <2>1. ((I * H) * O) * L = I * (H * (O * L))
    OBVIOUS
  <2>2. Len(F) = I * (H * (O * L))
    BY <1>8 DEF IsEven
  <2> QED BY <1>16, <2>1, <2>2
<1>19. W[6] = p /\ Len(W) = 8 + len
  BY <1>16, <1>17, <1>18
<1>20. ASSUME NEW i \in 0 .. I - 1, NEW r \in 0 .. H - 1, NEW o \in 0 .. O - 1, NEW q \in 0 .. L - 1
       PROVE  W[7 + ((i * H + r) * O + o) * L + q] = gemm_tile(j, ch, i, r, o)[q + 1]
  <2>1. q + 1 \in 1 .. L /\ o + 1 \in 1 .. O /\ (o + 1) - 1 = o
    OBVIOUS
  <2>2. /\ \A k \in 0 .. I - 1 : IsEven(a[k + 1], b[k], H, O * L)
        /\ \A k \in 0 .. I - 1 : \A m \in 0 .. H - 1 : IsEven(b[k][m + 1], c[k][m], O, L)
    <3>1. ASSUME NEW k \in 0 .. I - 1 PROVE a[k + 1] = FlattenSeq(b[k])
      <4>1. k + 1 \in 1 .. I /\ (k + 1) - 1 = k
        OBVIOUS
      <4> QED BY <1>4, <4>1
    <3>2. ASSUME NEW k \in 0 .. I - 1, NEW m \in 0 .. H - 1 PROVE b[k][m + 1] = FlattenSeq(c[k][m])
      <4>1. m + 1 \in 1 .. H /\ (m + 1) - 1 = m
        OBVIOUS
      <4> QED BY <1>3, <4>1
    <3> QED BY <1>6, <1>7, <3>1, <3>2
  <2>3. F[((i * H + r) * O + o) * L + (q + 1)] = c[i][r][o + 1][q + 1]
    <3>1. Nested(F, a, b, c, I, H, O, L)
      BY <1>8, <2>2, Zenon DEF Nested
    <3>2. PICK n \in 1 .. L : n = q + 1
      BY <2>1
    <3>4. Unfolded(F, c, I, H, O, L)
      BY <3>1, NestedLoops
    <3>3. F[((i * H + r) * O + o) * L + n] = c[i][r][o + 1][n]
      BY <3>4, Zenon DEF Unfolded
    <3> QED BY <3>2, <3>3
  <2>4. c[i][r][o + 1] = gemm_tile(j, ch, i, r, o)
    BY <1>2, <2>1
  <2>5. PICK d \in Nat : d = (i * H + r) * O + o /\ d * L + q \in 0 .. len - 1
    <3>1. i * H + r \in 0 .. I * H - 1
      <4>1. H \in Nat \ {0}
        OBVIOUS
      <4> QED BY <4>1, DigitsBound
    <3>2. PICK e \in Nat, N \in Nat : e = i * H + r /\ N = I * H /\ e \in 0 .. N - 1
      <4>1. I * H \in Nat
        BY MulNat
      <4> QED BY <3>1, <4>1
    <3>3. e * O + o \in 0 .. N * O - 1
      <4>1. O \in Nat \ {0}
        OBVIOUS
      <4> QED BY <3>2, <4>1, DigitsBound
    <3>4. PICK d \in Nat, M \in Nat : d = e * O + o /\ M = N * O /\ d \in 0 .. M - 1
      <4>1. N * O \in Nat
        BY MulNat
      <4> QED BY <3>3, <4>1
    <3>5. d * L + q \in 0 .. M * L - 1
      BY <3>4, DigitsBound
    <3>6. M * L = len
      BY <1>18, <3>2, <3>4
    <3> QED BY <3>2, <3>4, <3>5, <3>6
  <2>6. PICK n \in 1 .. len : n = d * L + (q + 1)
    <3>1. PICK y \in Nat : y = d * L
      OBVIOUS
    <3> QED BY <2>5, <3>1
  <2>7. W[6 + n] = F[n]
    <3>1. 1 + n \in 1 .. Len(mid) /\ 5 + (1 + n) = 6 + n /\ n \in 1 .. Len(F)
      BY <1>16, <1>18
    <3>2. W[5 + (1 + n)] = mid[1 + n] /\ mid[1 + n] = F[n]
      BY <1>16, <1>17, <3>1
    <3> QED BY <3>1, <3>2
  <2>8. 7 + d * L + q = 6 + n
    <3>1. PICK y \in Nat : y = d * L
      OBVIOUS
    <3> QED BY <2>6, <3>1
  <2>9. F[n] = gemm_tile(j, ch, i, r, o)[q + 1]
    BY <2>3, <2>4, <2>5, <2>6, Zenon
  <2>10. W[7 + d * L + q] = F[n]
    BY <2>7, <2>8
  <2> QED BY <2>5, <2>9, <2>10, Zenon
<1>21. ASSUME NEW i, NEW r, NEW o, NEW q, IsTile(j, i, r, o), q \in 0 .. GemmLen(h) - 1
       PROVE  W[7 + TileNum(j, i, r, o) * GemmLen(h) + q] = gemm_tile(j, ch, i, r, o)[q + 1]
  <2>1. i \in 0 .. I - 1 /\ r \in 0 .. H - 1 /\ o \in 0 .. O - 1 /\ q \in 0 .. L - 1
    BY <1>0, <1>1, <1>21, Zenon DEF IsTile
  <2>2. W[7 + ((i * H + r) * O + o) * L + q] = gemm_tile(j, ch, i, r, o)[q + 1]
    BY <1>20, <2>1
  <2> QED BY <1>0, <1>1, <2>2, Zenon DEF TileNum
<1>22. Len(W) = 8 + TileCount(j) * GemmLen(h)
  BY <1>0, <1>1, <1>18, <1>19, Zenon DEF TileCount
<1>23. W[6] = program_crf(make_crf_bin("GEMV", InTiles(j)), 1)
  BY <1>10, <1>19, Zenon
<1>25. \A i, r, o, q : IsTile(j, i, r, o) /\ q \in 0 .. GemmLen(h) - 1 =>
         W[7 + TileNum(j, i, r, o) * GemmLen(h) + q] = gemm_tile(j, ch, i, r, o)[q + 1]
  BY <1>21
<1>24. GemmIs(W, j, ch, h)
  BY <1>22, <1>23, <1>25 DEF GemmIs
<1> QED BY <1>13, <1>24, Zenon

-----------------------------------------------------------------------------
(* What the accesses of a product do to the unit.                          *)

\* What a command leaves alone besides the program counter.
Steady(v, w) == RegsOK(w) /\ w.mode = v.mode /\ w.crf = v.crf

\* A step of the program counter leaves registers and program alone.
LEMMA StepKeepsRegs ==
  ASSUME NEW v, DOMAIN v = UnitFields
  PROVE  SameRegs(v, Step(v)) /\ Step(v).crf = v.crf
<1>1. SameRegs(v, AfterInstruction(v)) /\ AfterInstruction(v).crf = v.crf
  BY DEF AfterInstruction, SameRegs, UnitFields
<1>2. SameRegs(v, [v EXCEPT !.rep = @ + 1]) /\ [v EXCEPT !.rep = @ + 1].crf = v.crf
  BY DEF SameRegs, UnitFields
<1>3. SameRegs(v, v)
  BY DEF SameRegs
<1> QED BY <1>1, <1>2, <1>3 DEF Step

\* The operands of a MAC.
LEMMA MacOperands ==
  ASSUME NEW b \in 0 .. 1, NEW v, NEW c, c.bank = b, NEW data
  PROVE  /\ Mac(b).type = "MAC"
         /\ Operand(v, c, data, Mac(b).src0) = v.GRF_A[Col(c)]
         /\ Operand(v, c, data, Mac(b).src1) = data
<1>1. Mac(b).src0 = "GRF_A" /\ Mac(b).src1 = IF b = 0 THEN "EVEN_BANK" ELSE "ODD_BANK"
  BY DEF Mac, Alu, PimCommand
<1>2. Mac(b).type = "MAC"
  BY GemmTakes
<1> QED BY <1>1, <1>2 DEF Operand

\* A MAC adds a product to one register.
LEMMA MacStep ==
  ASSUME NEW b \in 0 .. 1, NEW v, RegsOK(v), v.mode = "HAB_PIM", Fetch(v) = Mac(b),
         NEW c, c.k = "R", c.bank = b, NEW data, NEW w, w = AfterBank(v, c, data)
  PROVE  /\ Steady(v, w) /\ w.GRF_A = v.GRF_A
         /\ w.GRF_B = [v.GRF_B EXCEPT ![High(c)] = Accumulate(v.GRF_B[High(c)], v.GRF_A[Col(c)], data)]
<1>1. PICK x : x = Compute(v, c, data, Mac(b))
  OBVIOUS
<1>2. w = Step(x)
  BY <1>1 DEF AfterBank
<1>3. PICK n, B, f : n = High(c) /\ B = v.GRF_B /\ f = Accumulate(B[n], v.GRF_A[Col(c)], data)
  OBVIOUS
<1>4. x = [v EXCEPT !.GRF_B[n] = f]
  BY <1>1, <1>3, MacOperands DEF Compute
<1>5. DOMAIN v = UnitFields
  BY DEF RegsOK
<1>6. x.GRF_A = v.GRF_A /\ x.GRF_B = [B EXCEPT ![n] = f] /\ DOMAIN x = UnitFields /\ x.mode = v.mode /\ x.crf = v.crf
  BY <1>3, <1>4, <1>5 DEF UnitFields
<1>7. SameRegs(x, w) /\ w.crf = x.crf /\ SameMode(x, w)
  BY <1>2, <1>6, StepKeepsRegs, InstructionKeepsMode
<1>8. DOMAIN [B EXCEPT ![n] = f] = Lanes
  BY <1>3 DEF RegsOK
<1>9. RegsOK(w)
  BY <1>6, <1>7, <1>8 DEF RegsOK, SameRegs, SameMode
<1> QED BY <1>3, <1>6, <1>7, <1>9 DEF Steady, SameRegs, SameMode

\* While the program idles registers stay, and a write writes GRF_B.
LEMMA SumStep ==
  ASSUME NEW v, RegsOK(v), v.mode = "HAB_PIM", Fetch(v) = Idle(3),
         NEW c, c.bank = 1, NEW data, NEW w, w = AfterBank(v, c, data)
  PROVE  /\ Steady(v, w) /\ w.GRF_A = v.GRF_A /\ w.GRF_B = v.GRF_B
         /\ Written(v, c) = v.GRF_B[Col(c)]
<1>1. Idle(3).type = "NOP"
  BY GemmTakes
<1>2. w = Step(v)
  BY <1>1, ComputeNothing DEF AfterBank
<1>3. DOMAIN v = UnitFields
  BY DEF RegsOK
<1>4. SameRegs(v, w) /\ w.crf = v.crf /\ SameMode(v, w)
  BY <1>2, <1>3, StepKeepsRegs, InstructionKeepsMode
<1> QED BY <1>1, <1>4 DEF Steady, RegsOK, SameRegs, SameMode, Written

\* A write of an input leaves all else alone.
InputPut(v, w, base, l) ==
  /\ Steady(v, w) /\ w.GRF_A = [v.GRF_A EXCEPT ![l] = <<"x", base + l>>] /\ w.GRF_B = v.GRF_B
  /\ w.pc = v.pc /\ w.rep = v.rep /\ w.jump = v.jump

\* The write of one lane.
LEMMA GrfStep ==
  ASSUME NEW v, RegsOK(v), v.mode # "SB", NEW base, NEW l \in Lanes, NEW w, w = AfterRegister(v, GrfWrite(base), l)
  PROVE  InputPut(v, w, base, l)
<1>1. DOMAIN v = UnitFields
  BY DEF RegsOK
<1>2. PICK f : f = <<"x", base + l>>
  OBVIOUS
<1>3. w = [v EXCEPT !.GRF_A[l] = f]
  BY <1>2 DEF AfterRegister, GrfWrite
<1>4. w.GRF_A = [v.GRF_A EXCEPT ![l] = f] /\ w.GRF_B = v.GRF_B /\ DOMAIN w = UnitFields
  BY <1>1, <1>3 DEF UnitFields
<1>5. w.pc = v.pc /\ w.rep = v.rep /\ w.jump = v.jump /\ w.mode = v.mode /\ w.crf = v.crf
  BY <1>1, <1>3 DEF UnitFields
<1>6. DOMAIN w.GRF_A = Lanes /\ DOMAIN w.GRF_B = Lanes
  BY <1>4 DEF RegsOK
<1> QED BY <1>2, <1>4, <1>5, <1>6 DEF InputPut, Steady, RegsOK

\* A write that clears the sums and turns HAB_PIM on.
LEMMA ClearStep ==
  ASSUME NEW v, RegsOK(v), v.mode # "SB", NEW l, NEW w, w = AfterRegister(v, ClearAll, l)
  PROVE  RegsOK(w) /\ w.crf = v.crf /\ On(w) /\ w.GRF_B = [n \in Lanes |-> NoProducts]
<1>1. DOMAIN v = UnitFields /\ DOMAIN v.GRF_B = Lanes /\ DOMAIN v.GRF_A = Lanes
  BY DEF RegsOK
<1>2. PICK f : f = [n \in Lanes |-> NoProducts]
  OBVIOUS
<1>3. w = [v EXCEPT !.mode = "HAB_PIM", !.pc = 0, !.rep = 0, !.jump = NoJump, !.GRF_B = f]
  BY <1>1, <1>2 DEF AfterRegister, ClearAll
<1>4. /\ w.GRF_A = v.GRF_A /\ w.GRF_B = f /\ DOMAIN w = UnitFields /\ w.crf = v.crf
  BY <1>1, <1>3 DEF UnitFields
<1>5. w.mode = "HAB_PIM" /\ w.pc = 0 /\ w.rep = 0 /\ w.jump = NoJump
  BY <1>1, <1>3 DEF UnitFields
<1>6. DOMAIN f = Lanes
  BY <1>2
<1> QED BY <1>1, <1>2, <1>4, <1>5, <1>6 DEF RegsOK, On

\* A write that leaves HAB_PIM.
LEMMA HabStep ==
  ASSUME NEW v, RegsOK(v), v.mode # "SB", NEW l, NEW w, w = AfterRegister(v, HabAll, l)
  PROVE  RegsOK(w) /\ w.crf = v.crf /\ w.mode = "HAB"
<1>1. DOMAIN v = UnitFields /\ DOMAIN v.GRF_B = Lanes /\ DOMAIN v.GRF_A = Lanes
  BY DEF RegsOK
<1>2. w = [v EXCEPT !.mode = "HAB"]
  BY DEF AfterRegister, HabAll
<1>3. /\ w.GRF_A = v.GRF_A /\ w.GRF_B = v.GRF_B /\ DOMAIN w = UnitFields /\ w.crf = v.crf /\ w.mode = "HAB"
  BY <1>1, <1>2 DEF UnitFields
<1> QED BY <1>1, <1>3 DEF RegsOK

-----------------------------------------------------------------------------
(* The sums of products.                                                   *)

\* A product K: 2 * h tiles of inputs, C tiles of outputs, whose sums fit; ib and wb say where the
\* inputs and the weights of a tile of outputs begin.
IsProduct(K) ==
  /\ Tiled(K.h) /\ K.C \in 0 .. TmpSlots
  /\ \A t \in 0 .. K.C - 1 : K.ib[t] \in Nat /\ K.wb[t] \in Nat

Square == NumGrf * NumGrf
Squares(b) == b % Square = 0

\* The input and the weight of product <<x, l>> of register n in tile t.
InputOf(K, t, x, l) == K.ib[t] + InTileOf(K.h, x) * NumGrf + l
PlaceFor(K, t, x, n, l) == <<BankAt(K.h, x), (K.wb[t] + PairOf(K.h, x) * Square) + n * NumGrf + l>>
TermOf(K, wt, t, n, d) == <<wt[PlaceFor(K, t, d[1], n, d[2])], InputOf(K, t, d[1], d[2])>>
PartSum(K, wt, t, n, D) == <<"SUM", {TermOf(K, wt, t, n, d) : d \in D}>>

\* The products of all tiles of inputs before x, and of x itself as far as the
\* accesses P are not to come; those of all tiles.
UpTo(x) == (0 .. x - 1) \X Lanes
Until(x, P, n) == UpTo(x) \cup {d \in {x} \X Lanes : <<n + 1, d[2]>> \notin P}
TileSum(K, wt, t, n) == PartSum(K, wt, t, n, UpTo(2 * K.h))

\* The weights of tile t are in memory, where rows of weights begin.
HasWeights(K, wt, t) ==
  /\ Squares(K.wb[t])
  /\ \A x \in 0 .. 2 * K.h - 1 : \A n \in Lanes : \A l \in Lanes : PlaceFor(K, t, x, n, l) \in DOMAIN wt

\* No tile of inputs comes twice.
LEMMA InTileUnique ==
  ASSUME NEW h \in Nat \ {0}, NEW x \in 0 .. 2 * h - 1, NEW y \in 0 .. 2 * h - 1, InTileOf(h, x) = InTileOf(h, y)
  PROVE  x = y
BY DEF InTileOf, PairOf, BankAt

\* The numbers of a product.
LEMMA ProductNumbers ==
  ASSUME NEW K, IsProduct(K)
  PROVE  K.h \in Nat \ {0} /\ K.C \in Nat /\ Rounds(K.h) \in Nat \ {0} /\ NumGrf \in Nat \ {0} /\ Square \in Nat \ {0}
<1>1. PICK h \in Nat \ {0} : h = K.h
  BY DEF IsProduct, Tiled
<1>2. PICK g \in Nat \ {0} : g = NumGrf
  BY GeometryAssumption
<1>3. g * h \in Nat \ {0} /\ g * g \in Nat \ {0}
  OBVIOUS
<1> QED BY <1>1, <1>2, <1>3 DEF IsProduct, Rounds, Square

\* The sums of a tile have a place in the buffer.
LEMMA SumPlace ==
  ASSUME NEW K, IsProduct(K), NEW t \in 0 .. K.C - 1, NEW l \in Lanes
  PROVE  Spot(1, t, l) \in Places(TmpSlots)
<1>1. TmpSlots \in Nat /\ t \in 0 .. TmpSlots - 1 /\ 1 \in 0 .. 1
  BY TmpAssumption DEF IsProduct
<1> QED BY <1>1, SpotIn

SameInput(K, t, x, l, y, k) == InputOf(K, t, x, l) = InputOf(K, t, y, k)

\* No two products of a tile have the same input.
LEMMA InputUnique ==
  ASSUME NEW K, IsProduct(K), NEW t \in 0 .. K.C - 1, NEW x \in 0 .. 2 * K.h - 1, NEW y \in 0 .. 2 * K.h - 1,
         NEW l \in Lanes, NEW k \in Lanes, SameInput(K, t, x, l, y, k)
  PROVE  x = y /\ l = k
<1>1. PICK h \in Nat \ {0}, g \in Nat \ {0} : h = K.h /\ g = NumGrf
  BY ProductNumbers
<1>2. PICK i \in Nat : i = K.ib[t]
  BY DEF IsProduct
<1>3. PICK a \in Nat, b \in Nat : a = InTileOf(h, x) /\ b = InTileOf(h, y)
  <2>1. x \in 0 .. 2 * h - 1 /\ y \in 0 .. 2 * h - 1
    BY <1>1
  <2>2. InTileOf(h, x) \in 0 .. 2 * h - 1
    BY <2>1, PairNumbers
  <2>3. InTileOf(h, y) \in 0 .. 2 * h - 1
    BY <2>1, PairNumbers
  <2> QED BY <2>2, <2>3
<1>4. l \in 0 .. g - 1 /\ k \in 0 .. g - 1
  BY <1>1 DEF Lanes
<1>5. i + a * g + l = i + b * g + k
  BY <1>1, <1>2, <1>3 DEF SameInput, InputOf
<1>6. a * g + l = b * g + k
  <2>1. PICK y1 \in Nat, y2 \in Nat : y1 = a * g /\ y2 = b * g
    OBVIOUS
  <2> QED BY <1>2, <1>4, <1>5, <2>1
<1>7. a = b /\ l = k
  BY <1>4, <1>6, DigitsUnique
<1> QED BY <1>1, <1>3, <1>7, InTileUnique

\* One more product in a sum of such products.
LEMMA SumGrows ==
  ASSUME NEW K, IsProduct(K), NEW wt, NEW t \in 0 .. K.C - 1, NEW n, NEW D, D \subseteq UpTo(2 * K.h),
         NEW d \in UpTo(2 * K.h), d \notin D
  PROVE  Accumulate(PartSum(K, wt, t, n, D), <<"x", InputOf(K, t, d[1], d[2])>>,
                    <<"w", wt[PlaceFor(K, t, d[1], n, d[2])]>>) = PartSum(K, wt, t, n, D \cup {d})
<1>1. PICK a, b : a = wt[PlaceFor(K, t, d[1], n, d[2])] /\ b = InputOf(K, t, d[1], d[2])
  OBVIOUS
<1>2. PICK S : S = {TermOf(K, wt, t, n, e) : e \in D}
  OBVIOUS
<1>3. TermOf(K, wt, t, n, d) = <<a, b>>
  BY <1>1 DEF TermOf
<1>4. <<a, b>> \notin S
  <2> SUFFICES ASSUME NEW e \in D, TermOf(K, wt, t, n, e) = <<a, b>> PROVE FALSE
    BY <1>2
  <2>1. e \in UpTo(2 * K.h)
    OBVIOUS
  <2>2. /\ e[1] \in 0 .. 2 * K.h - 1 /\ e[2] \in Lanes /\ e = <<e[1], e[2]>>
        /\ d[1] \in 0 .. 2 * K.h - 1 /\ d[2] \in Lanes /\ d = <<d[1], d[2]>>
    BY <2>1 DEF UpTo
  <2>3. InputOf(K, t, e[1], e[2]) = b
    BY DEF TermOf
  <2>4. SameInput(K, t, e[1], e[2], d[1], d[2])
    BY <1>1, <2>3 DEF SameInput
  <2>5. e[1] = d[1] /\ e[2] = d[2]
    BY <2>2, <2>4, InputUnique
  <2>6. e = d
    BY <2>2, <2>5, Zenon
  <2> QED BY <2>6
<1>5. {TermOf(K, wt, t, n, e) : e \in D \cup {d}} = S \cup {<<a, b>>}
  BY <1>2, <1>3
<1>6. Accumulate(<<"SUM", S>>, <<"x", b>>, <<"w", a>>) = <<"SUM", S \cup {<<a, b>>}>>
  BY <1>4 DEF Accumulate
<1>7. PartSum(K, wt, t, n, D) = <<"SUM", S>>
  BY <1>2 DEF PartSum
<1>8. PartSum(K, wt, t, n, D \cup {d}) = <<"SUM", S \cup {<<a, b>>}>>
  BY <1>5 DEF PartSum
<1> QED BY <1>1, <1>6, <1>7, <1>8, Zenon

\* Location loc is that of weight <<n, l>> in square y after b.
InSquare(loc, b, y, n, l) == loc = (b + y * Square) + n * NumGrf + l

\* The register and the column a weight meets.
LEMMA WeightColumn ==
  ASSUME NEW b \in Nat, Squares(b), NEW y \in Nat, NEW n \in Lanes, NEW l \in Lanes,
         NEW loc, InSquare(loc, b, y, n, l)
  PROVE  loc % NumGrf = l /\ (loc \div NumGrf) % NumGrf = n
<1>1. PICK g \in Nat \ {0} : g = NumGrf
  BY GeometryAssumption
<1>2. PICK sq \in Nat \ {0} : sq = g * g /\ sq = Square
  BY <1>1 DEF Square
<1>3. PICK q \in Nat : b = q * sq
  BY <1>2, DivExact DEF Squares
<1>4. n \in 0 .. g - 1 /\ l \in 0 .. g - 1
  BY <1>1 DEF Lanes
<1>5. PICK z \in Nat : z = (q + y) * g + n
  <2>1. q + y \in Nat
    OBVIOUS
  <2>2. (q + y) * g \in Nat
    BY <2>1, MulNat
  <2> QED BY <1>4, <2>2
<1>6. loc = z * g + l
  <2>1. loc = (q * sq + y * sq) + n * g + l
    BY <1>1, <1>2, <1>3 DEF InSquare
  <2>2. z * g = (q * (g * g) + y * (g * g)) + n * g
    BY <1>4, <1>5
  <2> QED BY <1>2, <2>1, <2>2
<1>7. loc \div g = z /\ loc % g = l
  BY <1>4, <1>6, DivNat
<1>8. z % g = n
  <2>1. q + y \in Nat
    OBVIOUS
  <2> QED BY <1>4, <1>5, <2>1, DivNat
<1> QED BY <1>1, <1>7, <1>8

-----------------------------------------------------------------------------
(* The program through the windows of a tile of outputs.                   *)

\* The accesses of k commands of all lanes.
Block(k) == (1 .. k) \X Lanes

\* How many there are.
LEMMA BlockCount ==
  ASSUME NEW k \in Nat \ {0}
  PROVE  IsFiniteSet(Block(k)) /\ Cardinality(Block(k)) = k * NumGrf
BY GridCount DEF Block

\* What holds in all windows of the tiles.
Base(K, v, m) == RegsOK(v) /\ GemmLoaded(v.crf, Rounds(K.h)) /\ DOMAIN m = Places(TmpSlots)

\* The program in the windows that clear the sums and turn HAB_PIM on, write a tile
\* of inputs, read its weights, write the sums, and leave HAB_PIM.
ClearAt(K, P, v) == P \subseteq Block(1) /\ (P # Block(1) => On(v))
InputAt(K, x, P, v) ==
  /\ x \in 0 .. 2 * K.h - 1 /\ P \subseteq Block(1)
  /\ v.mode = "HAB_PIM" /\ GemmAt(v, Rounds(K.h), x * Square)
WeightsAt(K, x, P, v) ==
  /\ x \in 0 .. 2 * K.h - 1 /\ P \subseteq Block(NumGrf)
  /\ v.mode = "HAB_PIM" /\ GemmAt(v, Rounds(K.h), (x + 1) * Square - Cardinality(P))
SumsAt(K, P, v) ==
  /\ P \subseteq Block(3)
  /\ v.mode = "HAB_PIM" /\ GemmAt(v, Rounds(K.h), (2 * K.h) * Square + 3 * NumGrf - Cardinality(P))
LeaveAt(K, P, v) ==
  /\ P \subseteq Block(1)
  /\ v.mode = "HAB_PIM" => GemmEnded(v, Rounds(K.h))

\* Commands and squares.
LEMMA CommandNumbers ==
  ASSUME NEW K, IsProduct(K)
  PROVE  /\ FirstMac(Rounds(K.h)) = K.h * Square
         /\ BothMacs(Rounds(K.h)) = (2 * K.h) * Square
         /\ AllCommands(Rounds(K.h)) = (2 * K.h) * Square + 3 * NumGrf
<1>1. PICK h \in Nat \ {0}, g \in Nat \ {0} : h = K.h /\ g = NumGrf
  BY ProductNumbers
<1>2. (g * h) * g = h * (g * g) /\ 2 * ((g * h) * g) = (2 * h) * (g * g)
  OBVIOUS
<1> QED BY <1>1, <1>2, Zenon DEF FirstMac, BothMacs, AllCommands, Rounds, Square

\* The program has been turned on.
LEMMA OnStarts ==
  ASSUME NEW K, IsProduct(K), NEW v, RegsOK(v), GemmLoaded(v.crf, Rounds(K.h)), On(v)
  PROVE  GemmAt(v, Rounds(K.h), 0 * Square)
<1>1. PICK N \in Nat \ {0}, g \in Nat \ {0} : N = Rounds(K.h) /\ g = NumGrf
  BY ProductNumbers
<1>2. 0 * Square = 0
  BY ProductNumbers
<1>3. GemmWhere(N, 0, 0, 0, 0)
  BY <1>1 DEF GemmWhere
<1>4. GemmControl(v, N, 0, 0, 0)
  <2>1. v.jump.at = -1
    BY DEF On, NoJump
  <2>2. Turned(v.jump, 1, N, 0)
    BY <2>1 DEF Turned
  <2>3. 2 * 0 = 0 /\ 2 * 0 + 1 = 1
    OBVIOUS
  <2> QED BY <1>1, <2>2, <2>3 DEF GemmControl, On, RegsOK
<1> QED BY <1>1, <1>2, <1>3, <1>4, Zenon DEF GemmAt

\* Writes of inputs leave the program where it is.
LEMMA GrfKeepsProgram ==
  ASSUME NEW rounds, NEW X, NEW v, GemmAt(v, rounds, X), NEW w, Steady(v, w),
         w.pc = v.pc, w.rep = v.rep, w.jump = v.jump
  PROVE  GemmAt(w, rounds, X)
<1>1. PICK ph, e, rep : GemmWhere(rounds, X, ph, e, rep) /\ GemmControl(v, rounds, ph, e, rep)
  BY DEF GemmAt
<1>2. GemmControl(w, rounds, ph, e, rep)
  BY <1>1 DEF GemmControl, Steady, RegsOK
<1> QED BY <1>1, <1>2 DEF GemmAt

\* The next window with none of its accesses made.
AfterInput(K, x, v) == WeightsAt(K, x, Block(NumGrf), v)
AfterWeights(K, x, v) ==
  /\ x + 1 < 2 * K.h => InputAt(K, x + 1, Block(1), v)
  /\ x + 1 = 2 * K.h => SumsAt(K, Block(3), v)

\* A clearing write.
LEMMA ClearMoves ==
  ASSUME NEW K, IsProduct(K), NEW m, NEW P, NEW v, Base(K, v, m), ClearAt(K, P, v), v.mode # "SB",
         NEW p \in P, NEW w, w = AfterRegister(v, ClearAll, p[2])
  PROVE  /\ Base(K, w, m) /\ ClearAt(K, P \ {p}, w)
         /\ P = {p} => InputAt(K, 0, Block(1), w)
<1>1. RegsOK(w) /\ w.crf = v.crf /\ On(w)
  BY ClearStep DEF Base
<1>2. Base(K, w, m)
  BY <1>1 DEF Base
<1>3. ClearAt(K, P \ {p}, w)
  BY <1>1 DEF ClearAt
<1>4. GemmAt(w, Rounds(K.h), 0 * Square)
  BY <1>1, <1>2, OnStarts DEF Base
<1>5. 0 \in 0 .. 2 * K.h - 1
  BY ProductNumbers
<1> QED BY <1>1, <1>2, <1>3, <1>4, <1>5 DEF InputAt, On

\* A write of an input.
LEMMA InputMoves ==
  ASSUME NEW K, IsProduct(K), NEW m, NEW x, NEW P, NEW v, Base(K, v, m), InputAt(K, x, P, v),
         NEW base, NEW p \in P, NEW w, w = AfterRegister(v, GrfWrite(base), p[2])
  PROVE  /\ Base(K, w, m) /\ InputAt(K, x, P \ {p}, w)
         /\ P = {p} => AfterInput(K, x, w)
<1>1. p[2] \in Lanes
  BY DEF InputAt, Block
<1>2. v.mode = "HAB_PIM"
  BY DEF InputAt
<1>3. Steady(v, w) /\ w.pc = v.pc /\ w.rep = v.rep /\ w.jump = v.jump
  <2>1. PICK l \in Lanes : l = p[2]
    BY <1>1
  <2>2. RegsOK(v) /\ v.mode # "SB" /\ w = AfterRegister(v, GrfWrite(base), l)
    BY <1>2, <2>1 DEF Base
  <2>3. InputPut(v, w, base, l)
    BY <2>2, GrfStep
  <2> QED BY <2>3 DEF InputPut
<1>4. Base(K, w, m)
  BY <1>3 DEF Base, Steady
<1>5. GemmAt(w, Rounds(K.h), x * Square)
  BY <1>3, GrfKeepsProgram DEF InputAt
<1>6. (x + 1) * Square - Cardinality(Block(NumGrf)) = x * Square
  <2>1. PICK g \in Nat \ {0} : g = NumGrf
    BY ProductNumbers
  <2>2. Cardinality(Block(g)) = g * g
    BY <2>1, BlockCount
  <2>3. x \in Int
    BY ProductNumbers DEF InputAt
  <2>4. (x + 1) * (g * g) - g * g = x * (g * g)
    BY <2>3
  <2> QED BY <2>1, <2>2, <2>4 DEF Square
<1> QED BY <1>2, <1>3, <1>4, <1>5, <1>6 DEF InputAt, AfterInput, WeightsAt, Steady

\* The command after some accesses of a block.
LEMMA BlockLess ==
  ASSUME NEW k \in Nat \ {0}, NEW P, P \subseteq Block(k), NEW p \in P
  PROVE  \E y \in 1 .. k * NumGrf : LeftOver(P, p, y)
<1>1. IsFiniteSet(Block(k)) /\ Cardinality(Block(k)) = k * NumGrf
  BY BlockCount
<1> QED BY <1>1, OneLess

\* A read of weights.
LEMMA WeightsMove ==
  ASSUME NEW K, IsProduct(K), NEW m, NEW x, NEW P, NEW v, Base(K, v, m), WeightsAt(K, x, P, v),
         NEW p \in P, NEW c, c.k = "R", c.bank = BankAt(K.h, x), NEW data, NEW w, w = AfterBank(v, c, data)
  PROVE  /\ Fetch(v) = Mac(BankAt(K.h, x)) /\ Base(K, w, m)
         /\ P # {p} => WeightsAt(K, x, P \ {p}, w)
         /\ P = {p} => AfterWeights(K, x, w)
<1>1. PICK h \in Nat \ {0}, g \in Nat \ {0} : h = K.h /\ g = NumGrf
  BY ProductNumbers
<1>2. PICK N \in Nat \ {0}, sq \in Nat \ {0} : N = Rounds(K.h) /\ sq = Square
  BY ProductNumbers
<1>3. x \in 0 .. 2 * h - 1 /\ v.mode = "HAB_PIM" /\ P \subseteq Block(g)
  BY <1>1 DEF WeightsAt
<1>4. PICK y \in 1 .. sq : LeftOver(P, p, y)
  <2>1. PICK y \in 1 .. g * g : LeftOver(P, p, y)
    BY <1>1, <1>3, BlockLess
  <2> QED BY <1>1, <1>2, <2>1 DEF Square
<1>5. y = Cardinality(P) /\ Cardinality(P \ {p}) = y - 1 /\ (y = 1 <=> P = {p})
  BY <1>4 DEF LeftOver
<1>6. PICK X : X = (x + 1) * sq - y /\ GemmAt(v, N, X)
  BY <1>2, <1>5 DEF WeightsAt
<1>7. PICK a \in Nat, b \in Nat : a = x * sq /\ b = (x + 1) * sq /\ b = a + sq
  <2>1. x \in Nat
    BY <1>3
  <2>2. x * sq \in Nat /\ (x + 1) * sq = x * sq + sq
    BY <2>1
  <2> QED BY <2>2
<1>8. PICK H \in Nat : H = h * sq /\ (2 * h) * sq = 2 * H
  <2>1. h * sq \in Nat /\ (2 * h) * sq = 2 * (h * sq)
    OBVIOUS
  <2> QED BY <2>1
<1>9. FirstMac(N) = H /\ BothMacs(N) = 2 * H /\ AllCommands(N) = 2 * H + 3 * g
  BY <1>1, <1>2, <1>8, CommandNumbers, Zenon
<1>10. (x < h => b <= H) /\ (x >= h => a >= H) /\ b <= 2 * H /\ (x + 1 = 2 * h => b = 2 * H)
  <2>1. x < h => b <= H
    <3>1. x + 1 \in Nat /\ (x < h => x + 1 <= h)
      BY <1>3
    <3> QED BY <1>7, <1>8, <3>1, MulLe
  <2>2. x >= h => a >= H
    <3>1. x \in Nat
      BY <1>3
    <3> QED BY <1>7, <1>8, <3>1, MulLe
  <2>3. b <= 2 * H
    <3>1. x + 1 \in Nat /\ 2 * h \in Nat /\ x + 1 <= 2 * h
      BY <1>3
    <3> QED BY <1>7, <1>8, <3>1, MulLe
  <2>4. x + 1 = 2 * h => b = 2 * H
    BY <1>7, <1>8
  <2> QED BY <2>1, <2>2, <2>3, <2>4
<1>11. X = b - y /\ X \in Nat
  BY <1>4, <1>6, <1>7
<1>12. Fetch(v) = IF X < H THEN Mac(0) ELSE IF X < 2 * H THEN Mac(1) ELSE Idle(3)
  BY <1>6, <1>9, GemmFetches
<1>13. Fetch(v) = Mac(BankAt(h, x))
  <2>1. CASE x < h
    <3>1. X < H
      BY <1>4, <1>10, <1>11, <2>1
    <3> QED BY <1>12, <2>1, <3>1 DEF BankAt
  <2>2. CASE ~(x < h)
    <3>1. ~(X < H) /\ X < 2 * H
      BY <1>3, <1>4, <1>7, <1>10, <1>11, <2>2
    <3> QED BY <1>12, <2>2, <3>1 DEF BankAt
  <2> QED BY <2>1, <2>2
<1>14. GemmGoesOn(w, N, X)
  BY <1>3, <1>6, GemmCommand
<1>15. GemmAt(w, N, X + 1)
  <2>1. X + 1 < 2 * H + 3 * g
    BY <1>4, <1>10, <1>11
  <2> QED BY <1>9, <1>14, <2>1 DEF GemmGoesOn
<1>16. Steady(v, w)
  <2>1. BankAt(h, x) \in 0 .. 1
    BY <1>3, PairNumbers
  <2> QED BY <1>1, <1>3, <1>13, <2>1, MacStep DEF Base
<1>17. Base(K, w, m) /\ w.mode = "HAB_PIM"
  BY <1>3, <1>16 DEF Base, Steady
<1>18. ASSUME P # {p} PROVE WeightsAt(K, x, P \ {p}, w)
  <2>1. X + 1 = b - (y - 1)
    BY <1>4, <1>11
  <2>2. GemmAt(w, Rounds(K.h), (x + 1) * Square - Cardinality(P \ {p}))
    BY <1>2, <1>5, <1>7, <1>15, <2>1
  <2> QED BY <1>1, <1>3, <1>17, <2>2 DEF WeightsAt
<1>19. ASSUME P = {p} PROVE AfterWeights(K, x, w)
  <2>1. X + 1 = b
    BY <1>5, <1>11, <1>19
  <2>2. ASSUME x + 1 < 2 * h PROVE InputAt(K, x + 1, Block(1), w)
    <3>1. x + 1 \in 0 .. 2 * h - 1
      BY <1>3, <2>2
    <3>2. GemmAt(w, Rounds(K.h), (x + 1) * Square)
      BY <1>2, <1>7, <1>15, <2>1, Zenon
    <3> QED BY <1>1, <1>17, <3>1, <3>2, Zenon DEF InputAt
  <2>3. ASSUME x + 1 = 2 * h PROVE SumsAt(K, Block(3), w)
    <3>1. Cardinality(Block(3)) = 3 * g
      BY <1>1, BlockCount
    <3>2. b + 3 * g - 3 * g = b
      OBVIOUS
    <3>3. b = (2 * K.h) * Square
      BY <1>1, <1>2, <1>8, <1>10, <2>3
    <3>4. GemmAt(w, Rounds(K.h), (2 * K.h) * Square + 3 * NumGrf - Cardinality(Block(3)))
      BY <1>1, <1>2, <1>15, <2>1, <3>1, <3>2, <3>3, Zenon
    <3> QED BY <1>17, <3>4, Zenon DEF SumsAt
  <2> QED BY <1>1, <2>2, <2>3 DEF AfterWeights
<1> QED BY <1>1, <1>13, <1>17, <1>18, <1>19, Zenon

\* An access to the sums.
LEMMA SumsMove ==
  ASSUME NEW K, IsProduct(K), NEW m, NEW P, NEW v, Base(K, v, m), SumsAt(K, P, v),
         NEW p \in P, NEW c, c.bank = 1, NEW data, NEW w, w = AfterBank(v, c, data)
  PROVE  /\ Fetch(v) = Idle(3) /\ Base(K, w, m)
         /\ P # {p} => SumsAt(K, P \ {p}, w)
         /\ P = {p} => LeaveAt(K, Block(1), w)
<1>1. PICK h \in Nat \ {0}, g \in Nat \ {0} : h = K.h /\ g = NumGrf
  BY ProductNumbers
<1>2. PICK N \in Nat \ {0}, sq \in Nat \ {0} : N = Rounds(K.h) /\ sq = Square
  BY ProductNumbers
<1>3. v.mode = "HAB_PIM" /\ P \subseteq Block(3)
  BY DEF SumsAt
<1>4. PICK y \in 1 .. 3 * g : LeftOver(P, p, y)
  BY <1>1, <1>3, BlockLess
<1>5. y = Cardinality(P) /\ Cardinality(P \ {p}) = y - 1 /\ (y = 1 <=> P = {p})
  BY <1>4 DEF LeftOver
<1>6. PICK b \in Nat : b = (2 * h) * sq
  <2>1. 2 * h \in Nat
    OBVIOUS
  <2> QED BY <2>1, MulNat
<1>7. GemmAt(v, N, b + 3 * g - y)
  BY <1>1, <1>2, <1>5, <1>6 DEF SumsAt
<1>8. PICK X \in Nat : X = b + 3 * g - y
  BY <1>4
<1>9. BothMacs(N) = b /\ AllCommands(N) = b + 3 * g
  BY <1>1, <1>2, <1>6, CommandNumbers, Zenon
<1>10. PICK f \in Nat : f = FirstMac(N) /\ f <= b
  <2>1. h * sq \in Nat /\ (2 * h) * sq = 2 * (h * sq)
    OBVIOUS
  <2>2. FirstMac(N) = h * sq
    BY <1>1, <1>2, CommandNumbers
  <2>3. PICK f \in Nat : f = h * sq
    BY <2>1
  <2>4. b = 2 * f
    BY <1>6, <2>1, <2>3
  <2> QED BY <2>2, <2>3, <2>4
<1>11. Fetch(v) = Idle(3)
  <2>1. Fetch(v) = IF X < f THEN Mac(0) ELSE IF X < b THEN Mac(1) ELSE Idle(3)
    BY <1>7, <1>8, <1>9, <1>10, GemmFetches
  <2>2. ~(X < f) /\ ~(X < b)
    BY <1>4, <1>8, <1>10
  <2> QED BY <2>1, <2>2
<1>12. GemmGoesOn(w, N, X)
  BY <1>3, <1>7, <1>8, GemmCommand
<1>13. Steady(v, w)
  BY <1>3, <1>11, SumStep DEF Base
<1>14. Base(K, w, m) /\ w.mode = "HAB_PIM"
  BY <1>3, <1>13 DEF Base, Steady
<1>15. ASSUME P # {p} PROVE SumsAt(K, P \ {p}, w)
  <2>1. X + 1 < b + 3 * g /\ X + 1 = b + 3 * g - (y - 1)
    BY <1>4, <1>5, <1>8, <1>15
  <2>2. GemmAt(w, N, b + 3 * g - (y - 1))
    BY <1>9, <1>12, <2>1 DEF GemmGoesOn
  <2>3. GemmAt(w, Rounds(K.h), (2 * K.h) * Square + 3 * NumGrf - Cardinality(P \ {p}))
    BY <1>1, <1>2, <1>5, <1>6, <2>2, Zenon
  <2>4. P \ {p} \subseteq Block(3)
    BY <1>3
  <2> QED BY <1>14, <2>3, <2>4, Zenon DEF SumsAt
<1>16. ASSUME P = {p} PROVE LeaveAt(K, Block(1), w)
  <2>1. X + 1 = b + 3 * g
    BY <1>5, <1>8, <1>16
  <2>2. GemmEnded(w, N)
    BY <1>9, <1>12, <2>1 DEF GemmGoesOn
  <2> QED BY <1>2, <2>2, Zenon DEF LeaveAt
<1> QED BY <1>11, <1>14, <1>15, <1>16

\* A write that leaves HAB_PIM.
LEMMA LeaveMoves ==
  ASSUME NEW K, NEW m, NEW P, NEW v, Base(K, v, m), LeaveAt(K, P, v), v.mode # "SB",
         NEW p \in P, NEW w, w = AfterRegister(v, HabAll, p[2])
  PROVE  Base(K, w, m) /\ LeaveAt(K, P \ {p}, w) /\ ClearAt(K, Block(1), w)
<1>1. RegsOK(w) /\ w.crf = v.crf /\ w.mode = "HAB"
  BY HabStep DEF Base
<1> QED BY <1>1 DEF Base, LeaveAt, ClearAt

-----------------------------------------------------------------------------
(* Registers and sums through the windows of a tile of outputs.            *)

HasInput(K, t, x, v, l) == v.GRF_A[l] = <<"x", InputOf(K, t, x, l)>>
Sums(K, wt, t, x, v) == \A n \in Lanes : v.GRF_B[n] = PartSum(K, wt, t, n, UpTo(x))

ClearData(P, v) == P # Block(1) => \A n \in Lanes : v.GRF_B[n] = NoProducts
InputData(K, wt, t, x, P, v) ==
  /\ \A l \in Lanes : <<1, l>> \notin P => HasInput(K, t, x, v, l)
  /\ Sums(K, wt, t, x, v)
WeightsData(K, wt, t, x, P, v) ==
  /\ \A l \in Lanes : HasInput(K, t, x, v, l)
  /\ \A n \in Lanes : v.GRF_B[n] = PartSum(K, wt, t, n, Until(x, P, n))
SumStored(K, wt, t, m, l) == m[<<1, t * NumGrf + l>>] = TileSum(K, wt, t, l)
SumsData(K, wt, t, P, v, m) ==
  /\ Sums(K, wt, t, 2 * K.h, v)
  /\ \A l \in Lanes : <<1, l>> \notin P => SumStored(K, wt, t, m, l)
LeaveData(K, wt, t, m) == \A l \in Lanes : SumStored(K, wt, t, m, l)

\* No products yet.
LEMMA ClearFills ==
  ASSUME NEW K, NEW wt, NEW t, NEW P, NEW v, ClearData(P, v), P # Block(1)
  PROVE  InputData(K, wt, t, 0, Block(1), v)
<1>1. UpTo(0) = {}
  BY DEF UpTo
<1>2. ASSUME NEW n \in Lanes PROVE v.GRF_B[n] = PartSum(K, wt, t, n, UpTo(0))
  <2>1. {TermOf(K, wt, t, n, d) : d \in UpTo(0)} = {}
    BY <1>1
  <2>2. v.GRF_B[n] = <<"SUM", {}>>
    BY DEF ClearData, NoProducts
  <2> QED BY <2>1, <2>2 DEF PartSum
<1>3. \A l \in Lanes : <<1, l>> \in Block(1)
  BY DEF Block
<1> QED BY <1>2, <1>3 DEF InputData, Sums

\* A write of an input.
LEMMA InputFills ==
  ASSUME NEW K, NEW wt, NEW t, NEW x, NEW P, NEW v, RegsOK(v), InputData(K, wt, t, x, P, v),
         NEW l \in Lanes, NEW w, w.GRF_A = [v.GRF_A EXCEPT ![l] = <<"x", InputOf(K, t, x, l)>>], w.GRF_B = v.GRF_B
  PROVE  InputData(K, wt, t, x, P \ {<<1, l>>}, w)
<1>1. Sums(K, wt, t, x, w)
  BY DEF InputData, Sums
<1>2. ASSUME NEW k \in Lanes, <<1, k>> \notin P \ {<<1, l>>} PROVE HasInput(K, t, x, w, k)
  <2>1. DOMAIN v.GRF_A = Lanes
    BY DEF RegsOK
  <2>2. CASE k = l
    BY <2>1, <2>2 DEF HasInput
  <2>3. CASE k # l
    <3>1. <<1, k>> \notin P
      BY <1>2, <2>3
    <3>2. w.GRF_A[k] = v.GRF_A[k]
      BY <2>1, <2>3
    <3> QED BY <3>1, <3>2 DEF InputData, HasInput
  <2> QED BY <2>2, <2>3
<1> QED BY <1>1, <1>2 DEF InputData

\* All inputs of a tile are written.
LEMMA InputsFilled ==
  ASSUME NEW K, NEW wt, NEW t, NEW x, NEW v, InputData(K, wt, t, x, {}, v)
  PROVE  WeightsData(K, wt, t, x, Block(NumGrf), v)
<1>1. ASSUME NEW n \in Lanes PROVE Until(x, Block(NumGrf), n) = UpTo(x)
  <2>1. n + 1 \in 1 .. NumGrf
    BY GeometryAssumption DEF Lanes
  <2> QED BY <2>1 DEF Until, Block
<1> QED BY <1>1 DEF InputData, WeightsData, Sums

\* A read of a weight.
LEMMA WeightsFill ==
  ASSUME NEW K, IsProduct(K), NEW wt, NEW t \in 0 .. K.C - 1, NEW x \in 0 .. 2 * K.h - 1, NEW P,
         NEW v, RegsOK(v), WeightsData(K, wt, t, x, P, v),
         NEW n \in Lanes, NEW l \in Lanes, <<n + 1, l>> \in P, NEW w, w.GRF_A = v.GRF_A,
         NEW data, data = <<"w", wt[PlaceFor(K, t, x, n, l)]>>,
         w.GRF_B = [v.GRF_B EXCEPT ![n] = Accumulate(v.GRF_B[n], v.GRF_A[l], data)]
  PROVE  WeightsData(K, wt, t, x, P \ {<<n + 1, l>>}, w)
<1>1. \A k \in Lanes : HasInput(K, t, x, w, k)
  BY DEF WeightsData, HasInput
<1>2. ASSUME NEW k \in Lanes PROVE w.GRF_B[k] = PartSum(K, wt, t, k, Until(x, P \ {<<n + 1, l>>}, k))
  <2>1. DOMAIN v.GRF_B = Lanes
    BY DEF RegsOK
  <2>2. CASE k # n
    <3>1. w.GRF_B[k] = v.GRF_B[k]
      BY <2>1, <2>2
    <3>2. k + 1 # n + 1
      BY <2>2, GeometryAssumption DEF Lanes
    <3>3. Until(x, P \ {<<n + 1, l>>}, k) = Until(x, P, k)
      BY <3>2 DEF Until
    <3> QED BY <3>1, <3>3 DEF WeightsData
  <2>3. CASE k = n
    <3>1. PICK D, d : D = Until(x, P, n) /\ d = <<x, l>>
      OBVIOUS
    <3>2. Until(x, P \ {<<n + 1, l>>}, n) = D \cup {d}
      BY <3>1 DEF Until
    <3>3. d \in UpTo(2 * K.h) /\ d \notin D /\ D \subseteq UpTo(2 * K.h)
      <4>1. PICK h \in Nat \ {0} : h = K.h
        BY ProductNumbers
      <4>2. x \in 0 .. 2 * h - 1 /\ x \notin 0 .. x - 1 /\ 0 .. x - 1 \subseteq 0 .. 2 * h - 1
        BY <4>1
      <4> QED BY <3>1, <4>1, <4>2 DEF UpTo, Until
    <3>4. v.GRF_B[n] = PartSum(K, wt, t, n, D) /\ v.GRF_A[l] = <<"x", InputOf(K, t, d[1], d[2])>>
      BY <3>1 DEF WeightsData, HasInput
    <3>5. data = <<"w", wt[PlaceFor(K, t, d[1], n, d[2])]>>
      BY <3>1
    <3>6. Accumulate(v.GRF_B[n], v.GRF_A[l], data) = PartSum(K, wt, t, n, D \cup {d})
      BY <3>3, <3>4, <3>5, SumGrows
    <3>7. w.GRF_B[n] = Accumulate(v.GRF_B[n], v.GRF_A[l], data)
      BY <2>1
    <3> QED BY <2>3, <3>2, <3>6, <3>7, Zenon
  <2> QED BY <2>2, <2>3
<1> QED BY <1>1, <1>2 DEF WeightsData

\* All products of a tile of inputs are added.
LEMMA WeightsFilled ==
  ASSUME NEW K, NEW wt, NEW t, NEW x \in Nat, NEW v, WeightsData(K, wt, t, x, {}, v)
  PROVE  Sums(K, wt, t, x + 1, v)
<1>1. ASSUME NEW n \in Lanes PROVE Until(x, {}, n) = UpTo(x + 1)
  <2>1. 0 .. (x + 1) - 1 = (0 .. x - 1) \cup {x}
    OBVIOUS
  <2>2. Until(x, {}, n) = ((0 .. x - 1) \X Lanes) \cup ({x} \X Lanes)
    BY DEF Until, UpTo
  <2>3. UpTo(x + 1) = ((0 .. x - 1) \cup {x}) \X Lanes
    BY <2>1 DEF UpTo
  <2> QED BY <2>2, <2>3
<1> QED BY <1>1 DEF WeightsData, Sums

\* The next tile of inputs, and the sums.
LEMMA SumsBegin ==
  ASSUME NEW K, NEW wt, NEW t, NEW x, NEW v, Sums(K, wt, t, x, v)
  PROVE  /\ InputData(K, wt, t, x, Block(1), v)
         /\ x = 2 * K.h => \A m : SumsData(K, wt, t, Block(3), v, m)
<1>1. \A l \in Lanes : <<1, l>> \in Block(1) /\ <<1, l>> \in Block(3)
  BY DEF Block
<1> QED BY <1>1 DEF InputData, SumsData

\* An access to the sums.
LEMMA SumsFill ==
  ASSUME NEW K, IsProduct(K), NEW wt, NEW t \in 0 .. K.C - 1, NEW P, NEW v, NEW m, DOMAIN m = Places(TmpSlots),
         SumsData(K, wt, t, P, v, m), NEW n \in 1 .. 3, NEW l \in Lanes, NEW w, w.GRF_B = v.GRF_B,
         NEW m2, Stores(m, m2, n < 3, <<1, t * NumGrf + l>>, v.GRF_B[l])
  PROVE  SumsData(K, wt, t, P \ {<<n, l>>}, w, m2)
<1>1. Sums(K, wt, t, 2 * K.h, w)
  BY DEF SumsData, Sums
<1>2. ASSUME NEW k \in Lanes, <<1, k>> \notin P \ {<<n, l>>} PROVE SumStored(K, wt, t, m2, k)
  <2>1. Spot(1, t, k) \in DOMAIN m /\ Spot(1, t, l) \in DOMAIN m
    BY SumPlace
  <2>2. CASE k = l /\ n < 3
    <3>1. m2[<<1, t * NumGrf + l>>] = v.GRF_B[l]
      BY <2>1, <2>2 DEF Stores, Spot
    <3>2. v.GRF_B[l] = TileSum(K, wt, t, l)
      BY DEF SumsData, Sums, TileSum
    <3> QED BY <2>2, <3>1, <3>2 DEF SumStored
  <2>3. CASE ~(k = l /\ n < 3)
    <3>1. m2[<<1, t * NumGrf + k>>] = m[<<1, t * NumGrf + k>>]
      <4>1. CASE n < 3
        <5>1. t \in Nat /\ k # l
          BY <2>3, <4>1
        <5>2. ~SameSpot(1, t, k, 1, t, l)
          BY <5>1, SpotUnique
        <5>3. <<1, t * NumGrf + k>> # <<1, t * NumGrf + l>>
          BY <5>2 DEF SameSpot, Spot
        <5> QED BY <2>1, <4>1, <5>3 DEF Stores, Spot
      <4>2. CASE ~(n < 3)
        BY <4>2 DEF Stores
      <4> QED BY <4>1, <4>2
    <3>2. <<1, k>> \notin P
      BY <1>2, <2>3
    <3> QED BY <3>1, <3>2 DEF SumsData, SumStored
  <2> QED BY <2>2, <2>3
<1> QED BY <1>1, <1>2 DEF SumsData

\* The sums are stored.
LEMMA SumsFilled ==
  ASSUME NEW K, NEW wt, NEW t, NEW v, NEW m, SumsData(K, wt, t, {}, v, m)
  PROVE  LeaveData(K, wt, t, m)
BY DEF SumsData, LeaveData

-----------------------------------------------------------------------------
(* A tile of outputs, window by window: program, registers and sums.       *)

InClear(K, wt, t, P, v) == ClearAt(K, P, v) /\ (HasWeights(K, wt, t) => ClearData(P, v))
InInput(K, wt, t, x, P, v) == InputAt(K, x, P, v) /\ (HasWeights(K, wt, t) => InputData(K, wt, t, x, P, v))
InWeights(K, wt, t, x, P, v) ==
  WeightsAt(K, x, P, v) /\ (HasWeights(K, wt, t) => WeightsData(K, wt, t, x, P, v))
InSums(K, wt, t, P, v, m) == SumsAt(K, P, v) /\ (HasWeights(K, wt, t) => SumsData(K, wt, t, P, v, m))
InLeave(K, wt, t, P, v, m) == LeaveAt(K, P, v) /\ (HasWeights(K, wt, t) => LeaveData(K, wt, t, m))

\* The clearing window.
LEMMA ClearAccess ==
  ASSUME NEW K, IsProduct(K), NEW wt, NEW t, NEW m, NEW P, NEW v, Base(K, v, m), InClear(K, wt, t, P, v),
         v.mode # "SB", NEW p \in P, NEW w, w = AfterRegister(v, ClearAll, p[2])
  PROVE  /\ Base(K, w, m)
         /\ P # {p} => InClear(K, wt, t, P \ {p}, w)
         /\ P = {p} => InInput(K, wt, t, 0, Block(1), w)
<1>1. ClearAt(K, P, v)
  BY DEF InClear
<1>2. Base(K, w, m) /\ ClearAt(K, P \ {p}, w) /\ (P = {p} => InputAt(K, 0, Block(1), w))
  BY <1>1, ClearMoves
<1>3. w.GRF_B = [n \in Lanes |-> NoProducts]
  BY ClearStep DEF Base
<1>4. ClearData(P \ {p}, w)
  BY <1>3 DEF ClearData
<1>5. P = {p} => InputData(K, wt, t, 0, Block(1), w)
  <2>1. P \ {p} # Block(1)
    BY <1>1 DEF ClearAt
  <2> QED BY <1>4, <2>1, ClearFills
<1> QED BY <1>2, <1>4, <1>5 DEF InClear, InInput

\* A window that writes inputs.
LEMMA InputAccess ==
  ASSUME NEW K, IsProduct(K), NEW wt, NEW t, NEW x, NEW m, NEW P, NEW v, Base(K, v, m), InInput(K, wt, t, x, P, v),
         NEW l, <<1, l>> \in P, NEW w, w = AfterRegister(v, GrfWrite(K.ib[t] + InTileOf(K.h, x) * NumGrf), l)
  PROVE  /\ Base(K, w, m)
         /\ P # {<<1, l>>} => InInput(K, wt, t, x, P \ {<<1, l>>}, w)
         /\ P = {<<1, l>>} => InWeights(K, wt, t, x, Block(NumGrf), w)
<1>1. InputAt(K, x, P, v)
  BY DEF InInput
<1>0. PICK p \in P : p = <<1, l>> /\ p[2] = l
  OBVIOUS
<1>2. PICK base : p = <<1, l>> /\ p[2] = l /\ base = K.ib[t] + InTileOf(K.h, x) * NumGrf
  BY <1>0
<1>3. w = AfterRegister(v, GrfWrite(base), p[2])
  BY <1>2
<1>4. Base(K, w, m) /\ InputAt(K, x, P \ {p}, w) /\ (P = {p} => AfterInput(K, x, w))
  BY <1>1, <1>3, InputMoves
<1>5. l \in Lanes /\ v.mode = "HAB_PIM"
  BY <1>1 DEF InputAt, Block
<1>6. InputPut(v, w, base, l)
  BY <1>2, <1>3, <1>5, GrfStep DEF Base
<1>7. w.GRF_A = [v.GRF_A EXCEPT ![l] = <<"x", InputOf(K, t, x, l)>>] /\ w.GRF_B = v.GRF_B
  BY <1>2, <1>6, Zenon DEF InputPut, InputOf
<1>8. ASSUME HasWeights(K, wt, t) PROVE InputData(K, wt, t, x, P \ {p}, w)
  BY <1>2, <1>5, <1>7, <1>8, InputFills DEF InInput, Base
<1>9. ASSUME HasWeights(K, wt, t), P = {p} PROVE WeightsData(K, wt, t, x, Block(NumGrf), w)
  <2>1. P \ {p} = {}
    BY <1>9
  <2>2. InputData(K, wt, t, x, {}, w)
    BY <1>8, <1>9, <2>1
  <2> QED BY <2>2, InputsFilled
<1> QED BY <1>2, <1>4, <1>8, <1>9 DEF InInput, InWeights, AfterInput

WeightsNext(K, wt, t, x, w) ==
  /\ x + 1 < 2 * K.h => InInput(K, wt, t, x + 1, Block(1), w)
  /\ x + 1 = 2 * K.h => \A m : InSums(K, wt, t, Block(3), w, m)

\* A window that reads weights.
LEMMA WeightsAccess ==
  ASSUME NEW K, IsProduct(K), NEW wt, NEW t \in 0 .. K.C - 1, NEW x, NEW m, NEW P, NEW v, Base(K, v, m),
         InWeights(K, wt, t, x, P, v), NEW n, NEW l, <<n, l>> \in P,
         NEW c, c.k = "R", c.bank = BankAt(K.h, x), InSquare(c.loc, K.wb[t], PairOf(K.h, x), n - 1, l),
         NEW data, HasWeights(K, wt, t) => data = <<"w", wt[PlaceFor(K, t, x, n - 1, l)]>>,
         NEW w, w = AfterBank(v, c, data)
  PROVE  /\ Base(K, w, m)
         /\ P # {<<n, l>>} => InWeights(K, wt, t, x, P \ {<<n, l>>}, w)
         /\ P = {<<n, l>>} => WeightsNext(K, wt, t, x, w)
<1>1. WeightsAt(K, x, P, v)
  BY DEF InWeights
<1>2. PICK p \in P : p = <<n, l>>
  OBVIOUS
<1>3. /\ Fetch(v) = Mac(BankAt(K.h, x)) /\ Base(K, w, m)
      /\ P # {p} => WeightsAt(K, x, P \ {p}, w)
      /\ P = {p} => AfterWeights(K, x, w)
  BY <1>1, WeightsMove
<1>4. v.mode = "HAB_PIM" /\ x \in 0 .. 2 * K.h - 1 /\ n \in 1 .. NumGrf /\ l \in Lanes
  BY <1>1 DEF WeightsAt, Block
<1>5. PICK k \in Lanes : k = n - 1 /\ n = k + 1
  <2>1. n - 1 \in 0 .. NumGrf - 1 /\ n = (n - 1) + 1
    BY <1>4, GeometryAssumption
  <2> QED BY <2>1 DEF Lanes
<1>6. BankAt(K.h, x) \in 0 .. 1 /\ PairOf(K.h, x) \in Nat
  <2>1. PICK h \in Nat \ {0} : h = K.h
    BY ProductNumbers
  <2>2. BankAt(h, x) \in 0 .. 1 /\ PairOf(h, x) \in 0 .. h - 1
    BY <1>4, <2>1, PairNumbers
  <2> QED BY <2>1, <2>2
<1>7. ASSUME HasWeights(K, wt, t) PROVE WeightsData(K, wt, t, x, P \ {p}, w)
  <2>1. Col(c) = l /\ High(c) = k
    <3>1. K.wb[t] \in Nat /\ Squares(K.wb[t])
      BY <1>7 DEF IsProduct, HasWeights
    <3>2. InSquare(c.loc, K.wb[t], PairOf(K.h, x), k, l)
      BY <1>5
    <3> QED BY <1>4, <1>6, <3>1, <3>2, WeightColumn DEF Col, High
  <2>2. /\ w.GRF_A = v.GRF_A
        /\ w.GRF_B = [v.GRF_B EXCEPT ![k] = Accumulate(v.GRF_B[k], v.GRF_A[l], data)]
    BY <1>3, <1>4, <1>6, <2>1, MacStep DEF Base
  <2>3. data = <<"w", wt[PlaceFor(K, t, x, k, l)]>>
    BY <1>5, <1>7
  <2>4. WeightsData(K, wt, t, x, P \ {<<k + 1, l>>}, w)
    <3>1. RegsOK(v) /\ WeightsData(K, wt, t, x, P, v) /\ <<k + 1, l>> \in P
      BY <1>5, <1>7 DEF Base, InWeights
    <3> QED BY <1>4, <2>2, <2>3, <3>1, WeightsFill
  <2> QED BY <1>2, <1>5, <2>4
<1>8. ASSUME P = {p} PROVE WeightsNext(K, wt, t, x, w)
  <2>1. ASSUME HasWeights(K, wt, t) PROVE Sums(K, wt, t, x + 1, w)
    <3>1. P \ {p} = {}
      BY <1>8
    <3>2. WeightsData(K, wt, t, x, {}, w)
      BY <1>7, <2>1, <3>1
    <3>3. x \in Nat
      BY <1>4, ProductNumbers
    <3> QED BY <3>2, <3>3, WeightsFilled
  <2>2. AfterWeights(K, x, w)
    BY <1>3, <1>8
  <2>3. ASSUME x + 1 < 2 * K.h PROVE InInput(K, wt, t, x + 1, Block(1), w)
    BY <2>1, <2>2, <2>3, SumsBegin DEF AfterWeights, InInput
  <2>4. ASSUME x + 1 = 2 * K.h, NEW mm PROVE InSums(K, wt, t, Block(3), w, mm)
    <3>1. SumsAt(K, Block(3), w)
      BY <2>2, <2>4 DEF AfterWeights
    <3>2. ASSUME HasWeights(K, wt, t) PROVE SumsData(K, wt, t, Block(3), w, mm)
      <4>1. Sums(K, wt, t, x + 1, w)
        BY <2>1, <3>2
      <4> QED BY <2>4, <4>1, SumsBegin
    <3> QED BY <3>1, <3>2 DEF InSums
  <2> QED BY <2>3, <2>4 DEF WeightsNext
<1> QED BY <1>2, <1>3, <1>7, <1>8 DEF InWeights

\* The window that writes the sums.
LEMMA SumsAccess ==
  ASSUME NEW K, IsProduct(K), NEW wt, NEW t \in 0 .. K.C - 1, NEW m, NEW P, NEW v, Base(K, v, m),
         InSums(K, wt, t, P, v, m), NEW n, NEW l, <<n, l>> \in P,
         NEW c, c.bank = 1, c.loc = t * NumGrf + l, NEW data, NEW w, w = AfterBank(v, c, data),
         NEW m2, Stores(m, m2, n < 3, <<1, t * NumGrf + l>>, Written(v, c))
  PROVE  /\ Base(K, w, m2)
         /\ P # {<<n, l>>} => InSums(K, wt, t, P \ {<<n, l>>}, w, m2)
         /\ P = {<<n, l>>} => InLeave(K, wt, t, Block(1), w, m2)
<1>1. SumsAt(K, P, v)
  BY DEF InSums
<1>2. PICK p \in P : p = <<n, l>>
  OBVIOUS
<1>3. /\ Fetch(v) = Idle(3) /\ Base(K, w, m)
      /\ P # {p} => SumsAt(K, P \ {p}, w)
      /\ P = {p} => LeaveAt(K, Block(1), w)
  BY <1>1, SumsMove
<1>4. v.mode = "HAB_PIM" /\ n \in 1 .. 3 /\ l \in Lanes
  BY <1>1 DEF SumsAt, Block
<1>5. Col(c) = l
  BY <1>4, LaneColumn DEF Col
<1>6. w.GRF_B = v.GRF_B /\ Written(v, c) = v.GRF_B[l]
  BY <1>3, <1>4, <1>5, SumStep DEF Base
<1>7. DOMAIN m = Places(TmpSlots) /\ DOMAIN m2 = Places(TmpSlots)
  BY DEF Base, Stores
<1>8. Base(K, w, m2)
  BY <1>3, <1>7 DEF Base
<1>9. ASSUME HasWeights(K, wt, t) PROVE SumsData(K, wt, t, P \ {p}, w, m2)
  <2>1. SumsData(K, wt, t, P, v, m)
    BY <1>9 DEF InSums
  <2>2. Stores(m, m2, n < 3, <<1, t * NumGrf + l>>, v.GRF_B[l])
    BY <1>6
  <2>3. SumsData(K, wt, t, P \ {<<n, l>>}, w, m2)
    BY <1>4, <1>6, <1>7, <2>1, <2>2, SumsFill
  <2> QED BY <1>2, <2>3
<1>10. ASSUME HasWeights(K, wt, t), P = {p} PROVE LeaveData(K, wt, t, m2)
  <2>1. P \ {p} = {}
    BY <1>10
  <2>2. SumsData(K, wt, t, {}, w, m2)
    BY <1>9, <1>10, <2>1
  <2> QED BY <2>2, SumsFilled
<1> QED BY <1>2, <1>3, <1>8, <1>9, <1>10 DEF InSums, InLeave

\* The window that leaves HAB_PIM.
LEMMA LeaveAccess ==
  ASSUME NEW K, NEW wt, NEW t, NEW m, NEW P, NEW v, Base(K, v, m), InLeave(K, wt, t, P, v, m),
         v.mode # "SB", NEW p \in P, NEW w, w = AfterRegister(v, HabAll, p[2])
  PROVE  Base(K, w, m) /\ InLeave(K, wt, t, P \ {p}, w, m) /\ \A s : InClear(K, wt, s, Block(1), w)
<1>1. LeaveAt(K, P, v)
  BY DEF InLeave
<1>2. Base(K, w, m) /\ LeaveAt(K, P \ {p}, w) /\ ClearAt(K, Block(1), w)
  BY <1>1, LeaveMoves
<1>3. ClearData(Block(1), w)
  BY DEF ClearData
<1> QED BY <1>2, <1>3 DEF InLeave, InClear

-----------------------------------------------------------------------------
(* The kernel of a product, window by window.                              *)

WindowAt(K, t, q) == 7 + t * GemmLen(K.h) + q
AfterProduct(K) == 7 + K.C * GemmLen(K.h)

\* The windows W of product K.
TileWindows(W, K, t) ==
  /\ W[WindowAt(K, t, 0)] = <<ClearAll>>
  /\ \A x \in 0 .. 2 * K.h - 1 :
       /\ W[WindowAt(K, t, 2 * x + 1)] = <<GrfWrite(K.ib[t] + InTileOf(K.h, x) * NumGrf)>>
       /\ W[WindowAt(K, t, 2 * x + 2)] = WeightWin(BankAt(K.h, x), K.wb[t] + PairOf(K.h, x) * Square)
  /\ W[WindowAt(K, t, 4 * K.h + 1)] = SumWin(t * NumGrf)
  /\ W[WindowAt(K, t, 4 * K.h + 2)] = <<HabAll>>
OfProduct(W, K, words) ==
  /\ IsProduct(K) /\ K.C > 0 /\ Framed(W) /\ Len(W) = AfterProduct(K) + 1
  /\ W[6] = program_crf(words, 1) /\ DOMAIN words = 0 .. 7 /\ GemmLoaded(words, Rounds(K.h))
  /\ \A t \in 0 .. K.C - 1 : TileWindows(W, K, t)

\* The tiles before t that have weights have stored their sums.
Earlier(K, wt, t, m) == \A s \in 0 .. t - 1 : HasWeights(K, wt, s) => LeaveData(K, wt, s, m)

\* In window q of a tile.
TileIn(K, wt, t, q, P, v, m) ==
  \/ q = 0 /\ InClear(K, wt, t, P, v)
  \/ \E x \in 0 .. 2 * K.h - 1 : q = 2 * x + 1 /\ InInput(K, wt, t, x, P, v)
  \/ \E x \in 0 .. 2 * K.h - 1 : q = 2 * x + 2 /\ InWeights(K, wt, t, x, P, v)
  \/ q = 4 * K.h + 1 /\ InSums(K, wt, t, P, v, m)
  \/ q = 4 * K.h + 2 /\ InLeave(K, wt, t, P, v, m)
Tiling(K, wt, t, q, P, v, m) ==
  /\ t \in 0 .. K.C - 1 /\ q \in 0 .. GemmLen(K.h) - 1
  /\ Base(K, v, m) /\ Earlier(K, wt, t, m) /\ TileIn(K, wt, t, q, P, v, m)
ProductAt(K, wt, w, P, v, m) ==
  /\ w \in 1 .. 6 => RegsOK(v) /\ DOMAIN m = Places(TmpSlots)
  /\ w = 6 => P \subseteq {<<1, 0>>}
  /\ w \in 7 .. AfterProduct(K) - 1 => \E t, q : w = WindowAt(K, t, q) /\ Tiling(K, wt, t, q, P, v, m)
  /\ w >= AfterProduct(K) => Earlier(K, wt, K.C, m)

\* Numbers of windows.
LEMMA ProductWindows ==
  ASSUME NEW W, NEW K, NEW words, OfProduct(W, K, words)
  PROVE  /\ K.h \in Nat \ {0} /\ K.C \in Nat \ {0} /\ GemmLen(K.h) \in Nat \ {0} /\ GemmLen(K.h) = 4 * K.h + 3
         /\ AfterProduct(K) \in Nat /\ AfterProduct(K) > 7
         /\ Len(W) = AfterProduct(K) + 1 /\ IsProduct(K)
<1>1. IsProduct(K) /\ K.C > 0 /\ Len(W) = AfterProduct(K) + 1
  BY DEF OfProduct
<1>2. PICK h \in Nat \ {0}, C \in Nat \ {0} : h = K.h /\ C = K.C
  BY <1>1, ProductNumbers
<1>3. PICK L \in Nat \ {0} : L = GemmLen(K.h) /\ L = 4 * h + 3
  BY <1>2 DEF GemmLen
<1>4. PICK b \in Nat \ {0} : b = C * L
  OBVIOUS
<1>5. AfterProduct(K) = 7 + b
  BY <1>2, <1>3, <1>4, Zenon DEF AfterProduct
<1>6. AfterProduct(K) \in Nat /\ AfterProduct(K) > 7
  BY <1>5
<1>7. GemmLen(K.h) \in Nat \ {0} /\ GemmLen(K.h) = 4 * K.h + 3
  BY <1>2, <1>3
<1> QED BY <1>1, <1>2, <1>6, <1>7

\* A window of a tile, by its number.
LEMMA TileWindowNumber ==
  ASSUME NEW W, NEW K, NEW words, OfProduct(W, K, words), NEW t \in 0 .. K.C - 1, NEW q \in 0 .. GemmLen(K.h) - 1
  PROVE  /\ WindowAt(K, t, q) \in 7 .. AfterProduct(K) - 1
         /\ WindowAt(K, t, q) + 1 = WindowAt(K, t, q + 1)
         /\ q + 1 = GemmLen(K.h) => WindowAt(K, t, q) + 1 = WindowAt(K, t + 1, 0)
         /\ q + 1 = GemmLen(K.h) /\ t + 1 = K.C => WindowAt(K, t, q) + 1 = AfterProduct(K)
<1>1. PICK L \in Nat \ {0}, C \in Nat \ {0} : L = GemmLen(K.h) /\ C = K.C
  BY ProductWindows
<1>2. t * L + q \in 0 .. C * L - 1
  BY <1>1, DigitsBound
<1>3. PICK a \in Nat, b \in Nat : a = t * L /\ b = C * L
  BY <1>1, MulNat
<1>4. (t + 1) * L = a + L
  BY <1>1, <1>3
<1>5. /\ WindowAt(K, t, q) = 7 + a + q /\ WindowAt(K, t, q + 1) = 7 + a + (q + 1) /\ AfterProduct(K) = 7 + b
      /\ WindowAt(K, t + 1, 0) = 7 + (a + L) + 0
  BY <1>1, <1>3, <1>4, Zenon DEF WindowAt, AfterProduct
<1>6. q \in Nat /\ q < L /\ a + q \in 0 .. b - 1
  BY <1>1, <1>2, <1>3
<1>7. t + 1 = C => a + L = b
  BY <1>1, <1>3, <1>4
<1> QED BY <1>1, <1>5, <1>6, <1>7

\* The accesses of the windows of a tile.
LEMMA TileAccesses ==
  /\ Accesses(<<ClearAll>>) = Block(1) /\ Accesses(<<HabAll>>) = Block(1)
  /\ \A base : Accesses(<<GrfWrite(base)>>) = Block(1)
  /\ \A bank, base : Accesses(WeightWin(bank, base)) = Block(NumGrf)
  /\ \A base : Accesses(SumWin(base)) = Block(3)
<1>1. ASSUME NEW k \in Nat, NEW W, DOMAIN W = 1 .. k, \A n \in 1 .. k : W[n].lanes = Lanes
      PROVE  Accesses(W) = Block(k)
  <2>1. Accesses(W) = UNION {{<<n, lane>> : lane \in Lanes} : n \in 1 .. k}
    BY <1>1 DEF Accesses
  <2> QED BY <2>1 DEF Block
<1>2. ClearAll.lanes = Lanes /\ HabAll.lanes = Lanes /\ \A base : GrfWrite(base).lanes = Lanes
  BY DEF ClearAll, HabAll, GrfWrite
<1>3. ASSUME NEW a, a.lanes = Lanes PROVE Accesses(<<a>>) = Block(1)
  <2>1. DOMAIN <<a>> = 1 .. 1 /\ \A n \in 1 .. 1 : <<a>>[n].lanes = Lanes
    BY <1>3
  <2> QED BY <1>1, <2>1
<1>4. ASSUME NEW bank, NEW base PROVE Accesses(WeightWin(bank, base)) = Block(NumGrf)
  <2>1. DOMAIN WeightWin(bank, base) = 1 .. NumGrf /\ \A n \in 1 .. NumGrf : WeightWin(bank, base)[n].lanes = Lanes
    BY DEF WeightWin, R_CMD
  <2>2. NumGrf \in Nat
    BY GeometryAssumption
  <2> QED BY <1>1, <2>1, <2>2
<1>5. ASSUME NEW base PROVE Accesses(SumWin(base)) = Block(3)
  <2>1. DOMAIN SumWin(base) = 1 .. 3 /\ \A n \in 1 .. 3 : SumWin(base)[n].lanes = Lanes
    BY DEF SumWin, R_CMD, W_CMD
  <2> QED BY <1>1, <2>1
<1>6. Accesses(<<ClearAll>>) = Block(1) /\ Accesses(<<HabAll>>) = Block(1)
  BY <1>2, <1>3
<1>7. \A base : Accesses(<<GrfWrite(base)>>) = Block(1)
  BY <1>2, <1>3
<1> QED BY <1>4, <1>5, <1>6, <1>7

\* The kernel is in a window of a tile.
LEMMA ProductInTile ==
  ASSUME NEW W, NEW K, NEW words, OfProduct(W, K, words), NEW wt, NEW w, NEW P, NEW v, NEW m, NEW t, NEW q,
         w = WindowAt(K, t, q), Tiling(K, wt, t, q, P, v, m)
  PROVE  ProductAt(K, wt, w, P, v, m)
<1>1. w \in 7 .. AfterProduct(K) - 1
  BY TileWindowNumber DEF Tiling
<1>2. AfterProduct(K) \in Nat
  BY ProductWindows
<1>3. w \notin 1 .. 6 /\ w # 6 /\ ~(w >= AfterProduct(K))
  BY <1>1, <1>2
<1> QED BY <1>3 DEF ProductAt

\* Stores of a tile's sums leave those of others alone.
LEMMA EarlierStays ==
  ASSUME NEW K, IsProduct(K), NEW wt, NEW t \in 0 .. K.C - 1, NEW m, DOMAIN m = Places(TmpSlots), Earlier(K, wt, t, m),
         NEW l \in Lanes, NEW wr, NEW val, NEW m2, Stores(m, m2, wr, <<1, t * NumGrf + l>>, val)
  PROVE  Earlier(K, wt, t, m2)
<1> SUFFICES ASSUME NEW s \in 0 .. t - 1, HasWeights(K, wt, s), NEW k \in Lanes PROVE SumStored(K, wt, s, m2, k)
  BY DEF Earlier, LeaveData
<1>1. SumStored(K, wt, s, m, k)
  BY DEF Earlier, LeaveData
<1>2. s \in Nat /\ t \in Nat /\ s # t /\ s \in 0 .. K.C - 1
  BY ProductNumbers
<1>3. ~SameSpot(1, s, k, 1, t, l)
  BY <1>2, SpotUnique
<1>4. <<1, s * NumGrf + k>> # <<1, t * NumGrf + l>>
  BY <1>3 DEF SameSpot, Spot
<1>5. Spot(1, s, k) \in DOMAIN m
  BY <1>2, SumPlace
<1>6. m2[<<1, s * NumGrf + k>>] = m[<<1, s * NumGrf + k>>]
  BY <1>4, <1>5 DEF Stores, Spot
<1> QED BY <1>1, <1>6 DEF SumStored

\* One more tile.
LEMMA EarlierNext ==
  ASSUME NEW K, NEW wt, NEW t \in Nat, NEW m, Earlier(K, wt, t, m), HasWeights(K, wt, t) => LeaveData(K, wt, t, m)
  PROVE  Earlier(K, wt, t + 1, m)
BY DEF Earlier

\* What an access of window q of tile t brings: the same window, the next one, or
\* the end of the tile.
TileOver(K, wt, t, v, m) == Base(K, v, m) /\ Earlier(K, wt, t + 1, m) /\ \A s : InClear(K, wt, s, Block(1), v)
Goes(W, K, wt, t, q, P, p, v, m) ==
  /\ P # {p} => Tiling(K, wt, t, q, P \ {p}, v, m)
  /\ P = {p} /\ q + 1 < GemmLen(K.h) => Tiling(K, wt, t, q + 1, Accesses(W[WindowAt(K, t, q + 1)]), v, m)
  /\ P = {p} /\ q + 1 = GemmLen(K.h) => TileOver(K, wt, t, v, m)

\* The window before the last.
Going(W, K, words, w, n, l, t, q, P, v, m) ==
  /\ OfProduct(W, K, words) /\ w = WindowAt(K, t, q) /\ MadeAt(W, w, n, l) /\ <<n, l>> \in P
  /\ t \in 0 .. K.C - 1 /\ q \in 0 .. GemmLen(K.h) - 1 /\ Base(K, v, m)

\* An access to a register.
LEMMA OneRegister ==
  ASSUME NEW W, NEW w, NEW n, NEW l, MadeAt(W, w, n, l), NEW a, W[w] = <<a>>, a.k \notin {"R", "W"},
         NEW j, NEW v, NEW m, NEW v2, NEW m2, AccessIs(j, W[w][n], l, v, m, v2, m2)
  PROVE  n = 1 /\ l \in a.lanes /\ v2 = AfterRegister(v, a, l) /\ m2 = m
<1>1. n = 1 /\ W[w][n] = a
  BY DEF MadeAt
<1> QED BY <1>1 DEF MadeAt, AccessIs

\* The clearing window.
LEMMA GoesClear ==
  ASSUME NEW W, NEW K, NEW words, NEW w, NEW n, NEW l, NEW t, NEW q, NEW P, NEW v, NEW m,
         Going(W, K, words, w, n, l, t, q, P, v, m), v.mode # "SB", NEW wt, Earlier(K, wt, t, m),
         NEW j, NEW v2, NEW m2, AccessIs(j, W[w][n], l, v, m, v2, m2),
         q = 0, InClear(K, wt, t, P, v)
  PROVE  Goes(W, K, wt, t, q, P, <<n, l>>, v2, m2)
<1>1. /\ OfProduct(W, K, words) /\ w = WindowAt(K, t, q) /\ MadeAt(W, w, n, l) /\ <<n, l>> \in P
      /\ t \in 0 .. K.C - 1 /\ Base(K, v, m) /\ IsProduct(K) /\ TileWindows(W, K, t)
  BY DEF Going, OfProduct
<1>2. PICK h \in Nat \ {0} : h = K.h /\ GemmLen(K.h) = 4 * h + 3
  BY <1>1, ProductWindows
<1>3. W[w] = <<ClearAll>>
  BY <1>1, Zenon DEF TileWindows
<1>4. n = 1 /\ v2 = AfterRegister(v, ClearAll, l) /\ m2 = m
  <2>1. ClearAll.k \notin {"R", "W"}
    BY DEF ClearAll
  <2> QED BY <1>1, <1>3, <2>1, OneRegister
<1>5. PICK p \in P : p = <<n, l>> /\ p[2] = l
  BY <1>1
<1>6. /\ Base(K, v2, m)
      /\ P # {p} => InClear(K, wt, t, P \ {p}, v2)
      /\ P = {p} => InInput(K, wt, t, 0, Block(1), v2)
  <2>1. v2 = AfterRegister(v, ClearAll, p[2])
    BY <1>4, <1>5
  <2> QED BY <1>1, <2>1, ClearAccess
<1>7. ASSUME P # {p} PROVE Tiling(K, wt, t, q, P \ {p}, v2, m2)
  BY <1>1, <1>4, <1>6, <1>7 DEF Tiling, TileIn, Going
<1>8. ASSUME P = {p} PROVE Tiling(K, wt, t, q + 1, Accesses(W[WindowAt(K, t, q + 1)]), v2, m2)
  <2>1. 0 \in 0 .. 2 * K.h - 1 /\ 1 = 2 * 0 + 1 /\ q + 1 = 1 /\ 1 \in 0 .. GemmLen(K.h) - 1
    BY <1>2
  <2>2. W[WindowAt(K, t, q + 1)] = <<GrfWrite(K.ib[t] + InTileOf(K.h, 0) * NumGrf)>>
    BY <1>1, <2>1, Zenon DEF TileWindows
  <2>3. Accesses(W[WindowAt(K, t, q + 1)]) = Block(1)
    BY <2>2, TileAccesses
  <2>4. TileIn(K, wt, t, q + 1, Block(1), v2, m2)
    BY <1>6, <1>8, <2>1 DEF TileIn
  <2> QED BY <1>1, <1>4, <1>6, <2>1, <2>3, <2>4 DEF Tiling
<1>9. q + 1 # GemmLen(K.h)
  BY <1>2
<1> QED BY <1>5, <1>7, <1>8, <1>9, Zenon DEF Goes

\* A window that writes inputs.
LEMMA GoesInput ==
  ASSUME NEW W, NEW K, NEW words, NEW w, NEW n, NEW l, NEW t, NEW q, NEW P, NEW v, NEW m,
         Going(W, K, words, w, n, l, t, q, P, v, m), NEW wt, Earlier(K, wt, t, m),
         NEW j, NEW v2, NEW m2, AccessIs(j, W[w][n], l, v, m, v2, m2),
         NEW x \in 0 .. 2 * K.h - 1, q = 2 * x + 1, InInput(K, wt, t, x, P, v)
  PROVE  Goes(W, K, wt, t, q, P, <<n, l>>, v2, m2)
<1>1. /\ OfProduct(W, K, words) /\ w = WindowAt(K, t, q) /\ MadeAt(W, w, n, l) /\ <<n, l>> \in P
      /\ t \in 0 .. K.C - 1 /\ Base(K, v, m) /\ IsProduct(K) /\ TileWindows(W, K, t)
  BY DEF Going, OfProduct
<1>2. PICK h \in Nat \ {0} : h = K.h /\ GemmLen(K.h) = 4 * h + 3
  BY <1>1, ProductWindows
<1>3. PICK base : base = K.ib[t] + InTileOf(K.h, x) * NumGrf /\ W[w] = <<GrfWrite(base)>>
  BY <1>1, Zenon DEF TileWindows
<1>4. n = 1 /\ v2 = AfterRegister(v, GrfWrite(base), l) /\ m2 = m
  <2>1. GrfWrite(base).k \notin {"R", "W"}
    BY DEF GrfWrite
  <2> QED BY <1>1, <1>3, <2>1, OneRegister
<1>5. PICK p \in P : p = <<n, l>> /\ p = <<1, l>>
  BY <1>1, <1>4
<1>6. /\ Base(K, v2, m)
      /\ P # {p} => InInput(K, wt, t, x, P \ {p}, v2)
      /\ P = {p} => InWeights(K, wt, t, x, Block(NumGrf), v2)
  <2>1. <<1, l>> \in P /\ v2 = AfterRegister(v, GrfWrite(K.ib[t] + InTileOf(K.h, x) * NumGrf), l)
    BY <1>3, <1>4, <1>5
  <2>2. /\ Base(K, v2, m)
        /\ P # {<<1, l>>} => InInput(K, wt, t, x, P \ {<<1, l>>}, v2)
        /\ P = {<<1, l>>} => InWeights(K, wt, t, x, Block(NumGrf), v2)
    BY <1>1, <2>1, InputAccess
  <2> QED BY <1>5, <2>2, Zenon
<1>7. ASSUME P # {p} PROVE Tiling(K, wt, t, q, P \ {p}, v2, m2)
  BY <1>1, <1>4, <1>6, <1>7 DEF Tiling, TileIn, Going
<1>8. ASSUME P = {p} PROVE Tiling(K, wt, t, q + 1, Accesses(W[WindowAt(K, t, q + 1)]), v2, m2)
  <2>1. q + 1 = 2 * x + 2 /\ q + 1 \in 0 .. GemmLen(K.h) - 1
    BY <1>2
  <2>2. W[WindowAt(K, t, q + 1)] = WeightWin(BankAt(K.h, x), K.wb[t] + PairOf(K.h, x) * Square)
    BY <1>1, <2>1, Zenon DEF TileWindows
  <2>3. Accesses(W[WindowAt(K, t, q + 1)]) = Block(NumGrf)
    BY <2>2, TileAccesses
  <2>4. TileIn(K, wt, t, q + 1, Block(NumGrf), v2, m2)
    BY <1>6, <1>8, <2>1 DEF TileIn
  <2> QED BY <1>1, <1>4, <1>6, <2>1, <2>3, <2>4 DEF Tiling
<1>9. q + 1 # GemmLen(K.h)
  BY <1>2
<1> QED BY <1>5, <1>7, <1>8, <1>9, Zenon DEF Goes

\* A window that reads weights.
LEMMA GoesWeights ==
  ASSUME NEW W, NEW K, NEW words, NEW w, NEW n, NEW l, NEW t, NEW q, NEW P, NEW v, NEW m,
         Going(W, K, words, w, n, l, t, q, P, v, m), Earlier(K, weight, t, m),
         NEW j, j.out # "weight", NEW v2, NEW m2, AccessIs(j, W[w][n], l, v, m, v2, m2),
         NEW x \in 0 .. 2 * K.h - 1, q = 2 * x + 2, InWeights(K, weight, t, x, P, v)
  PROVE  Goes(W, K, weight, t, q, P, <<n, l>>, v2, m2)
<1>1. /\ OfProduct(W, K, words) /\ w = WindowAt(K, t, q) /\ MadeAt(W, w, n, l) /\ <<n, l>> \in P
      /\ t \in 0 .. K.C - 1 /\ Base(K, v, m) /\ IsProduct(K) /\ TileWindows(W, K, t)
  BY DEF Going, OfProduct
<1>2. PICK h \in Nat \ {0} : h = K.h /\ GemmLen(K.h) = 4 * h + 3
  BY <1>1, ProductWindows
<1>3. PICK b, base, a : /\ b = BankAt(K.h, x) /\ base = K.wb[t] + PairOf(K.h, x) * Square
                        /\ W[w] = WeightWin(b, base) /\ a = W[w][n]
  BY <1>1, Zenon DEF TileWindows
<1>4. n \in 1 .. NumGrf /\ l \in Lanes
  BY <1>1 DEF InWeights, WeightsAt, Block
<1>5. a = R_CMD("weight", b, base + (n - 1) * NumGrf)
  BY <1>3, <1>4 DEF WeightWin
<1>6. a.k = "R" /\ a.buf = "weight" /\ a.bank = b /\ a.base = base + (n - 1) * NumGrf
  BY <1>5 DEF R_CMD
<1>7. PICK c, data : BankAccess(j, a, l, v, m, v2, m2, c, data)
  BY <1>3, <1>6 DEF AccessIs
<1>8. /\ c.k = "R" /\ c.bank = b /\ c.loc = a.base + l /\ v2 = AfterBank(v, c, data)
      /\ data = Brought(<<a.bank, a.base + l>>) /\ m2 = m
  BY <1>6, <1>7 DEF BankAccess, Stores
<1>9. InSquare(c.loc, K.wb[t], PairOf(K.h, x), n - 1, l)
  BY <1>3, <1>6, <1>8, Zenon DEF InSquare
<1>10. HasWeights(K, weight, t) => data = <<"w", weight[PlaceFor(K, t, x, n - 1, l)]>>
  <2>1. PICK d : d = PlaceFor(K, t, x, n - 1, l)
    OBVIOUS
  <2>2. d = <<a.bank, a.base + l>>
    BY <1>3, <1>6, <2>1, Zenon DEF PlaceFor
  <2>3. n - 1 \in Lanes
    BY <1>4, GeometryAssumption DEF Lanes
  <2>4. HasWeights(K, weight, t) => d \in DOMAIN weight
    BY <1>4, <2>1, <2>3, Zenon DEF HasWeights
  <2> QED BY <1>8, <2>1, <2>2, <2>4, Zenon DEF Brought
<1>11. PICK p \in P : p = <<n, l>>
  BY <1>1
<1>12. /\ Base(K, v2, m)
       /\ P # {p} => InWeights(K, weight, t, x, P \ {p}, v2)
       /\ P = {p} => WeightsNext(K, weight, t, x, v2)
  <2>1. /\ Base(K, v2, m)
        /\ P # {<<n, l>>} => InWeights(K, weight, t, x, P \ {<<n, l>>}, v2)
        /\ P = {<<n, l>>} => WeightsNext(K, weight, t, x, v2)
    BY <1>1, <1>3, <1>8, <1>9, <1>10, WeightsAccess, Zenon
  <2> QED BY <1>11, <2>1, Zenon
<1>13. ASSUME P # {p} PROVE Tiling(K, weight, t, q, P \ {p}, v2, m2)
  BY <1>1, <1>8, <1>12, <1>13 DEF Tiling, TileIn, Going
<1>14. ASSUME P = {p} PROVE Tiling(K, weight, t, q + 1, Accesses(W[WindowAt(K, t, q + 1)]), v2, m2)
  <2>1. q + 1 \in 0 .. GemmLen(K.h) - 1
    BY <1>2
  <2>2. WeightsNext(K, weight, t, x, v2)
    BY <1>12, <1>14
  <2>3. CASE x + 1 < 2 * K.h
    <3>1. x + 1 \in 0 .. 2 * K.h - 1 /\ q + 1 = 2 * (x + 1) + 1
      BY <1>2, <2>3
    <3>2. W[WindowAt(K, t, q + 1)] = <<GrfWrite(K.ib[t] + InTileOf(K.h, x + 1) * NumGrf)>>
      BY <1>1, <3>1, Zenon DEF TileWindows
    <3>3. Accesses(W[WindowAt(K, t, q + 1)]) = Block(1)
      BY <3>2, TileAccesses
    <3>4. TileIn(K, weight, t, q + 1, Block(1), v2, m2)
      BY <2>2, <2>3, <3>1, Zenon DEF TileIn, WeightsNext
    <3> QED BY <1>1, <1>8, <1>12, <2>1, <3>3, <3>4 DEF Tiling
  <2>4. CASE x + 1 = 2 * K.h
    <3>1. q + 1 = 4 * K.h + 1
      BY <1>2, <2>4
    <3>2. W[WindowAt(K, t, q + 1)] = SumWin(t * NumGrf)
      BY <1>1, <3>1, Zenon DEF TileWindows
    <3>3. Accesses(W[WindowAt(K, t, q + 1)]) = Block(3)
      BY <3>2, TileAccesses
    <3>4. TileIn(K, weight, t, q + 1, Block(3), v2, m2)
      BY <2>2, <2>4, <3>1, Zenon DEF TileIn, WeightsNext
    <3> QED BY <1>1, <1>8, <1>12, <2>1, <3>3, <3>4 DEF Tiling
  <2> QED BY <1>2, <2>3, <2>4
<1>15. q + 1 # GemmLen(K.h)
  BY <1>2
<1> QED BY <1>11, <1>13, <1>14, <1>15, Zenon DEF Goes

\* The window that writes the sums.
LEMMA GoesSums ==
  ASSUME NEW W, NEW K, NEW words, NEW w, NEW n, NEW l, NEW t, NEW q, NEW P, NEW v, NEW m,
         Going(W, K, words, w, n, l, t, q, P, v, m), NEW wt, Earlier(K, wt, t, m),
         NEW j, NEW v2, NEW m2, AccessIs(j, W[w][n], l, v, m, v2, m2),
         q = 4 * K.h + 1, InSums(K, wt, t, P, v, m)
  PROVE  Goes(W, K, wt, t, q, P, <<n, l>>, v2, m2)
<1>1. /\ OfProduct(W, K, words) /\ w = WindowAt(K, t, q) /\ MadeAt(W, w, n, l) /\ <<n, l>> \in P
      /\ t \in 0 .. K.C - 1 /\ Base(K, v, m) /\ IsProduct(K) /\ TileWindows(W, K, t)
  BY DEF Going, OfProduct
<1>2. PICK h \in Nat \ {0} : h = K.h /\ GemmLen(K.h) = 4 * h + 3
  BY <1>1, ProductWindows
<1>3. PICK base, a : base = t * NumGrf /\ W[w] = SumWin(base) /\ a = W[w][n]
  BY <1>1, Zenon DEF TileWindows
<1>4. n \in 1 .. 3 /\ l \in Lanes
  BY <1>1 DEF InSums, SumsAt, Block
<1>5. a.k \in {"R", "W"} /\ (a.k = "W" <=> n < 3) /\ a.bank = 1 /\ a.base = base
  BY <1>3, <1>4 DEF SumWin, W_CMD, R_CMD
<1>7. PICK c, data : BankAccess(j, a, l, v, m, v2, m2, c, data)
  BY <1>3, <1>5 DEF AccessIs
<1>8. /\ c.bank = 1 /\ c.loc = t * NumGrf + l /\ v2 = AfterBank(v, c, data)
      /\ Stores(m, m2, n < 3, <<1, t * NumGrf + l>>, Written(v, c))
  BY <1>3, <1>5, <1>7 DEF BankAccess, Stores
<1>9. Earlier(K, wt, t, m2)
  BY <1>1, <1>4, <1>8, EarlierStays DEF Base
<1>11. PICK p \in P : p = <<n, l>>
  BY <1>1
<1>12. /\ Base(K, v2, m2)
       /\ P # {p} => InSums(K, wt, t, P \ {p}, v2, m2)
       /\ P = {p} => InLeave(K, wt, t, Block(1), v2, m2)
  <2>1. /\ Base(K, v2, m2)
        /\ P # {<<n, l>>} => InSums(K, wt, t, P \ {<<n, l>>}, v2, m2)
        /\ P = {<<n, l>>} => InLeave(K, wt, t, Block(1), v2, m2)
    BY <1>1, <1>8, SumsAccess
  <2> QED BY <1>11, <2>1, Zenon
<1>13. ASSUME P # {p} PROVE Tiling(K, wt, t, q, P \ {p}, v2, m2)
  BY <1>1, <1>9, <1>12, <1>13 DEF Tiling, TileIn, Going
<1>14. ASSUME P = {p} PROVE Tiling(K, wt, t, q + 1, Accesses(W[WindowAt(K, t, q + 1)]), v2, m2)
  <2>1. q + 1 \in 0 .. GemmLen(K.h) - 1 /\ q + 1 = 4 * K.h + 2
    BY <1>2
  <2>2. W[WindowAt(K, t, q + 1)] = <<HabAll>>
    BY <1>1, <2>1, Zenon DEF TileWindows
  <2>3. Accesses(W[WindowAt(K, t, q + 1)]) = Block(1)
    BY <2>2, TileAccesses
  <2>4. TileIn(K, wt, t, q + 1, Block(1), v2, m2)
    BY <1>12, <1>14, <2>1, Zenon DEF TileIn
  <2> QED BY <1>1, <1>9, <1>12, <2>1, <2>3, <2>4 DEF Tiling
<1>15. q + 1 # GemmLen(K.h)
  BY <1>2
<1> QED BY <1>11, <1>13, <1>14, <1>15, Zenon DEF Goes

\* The window that leaves HAB_PIM.
LEMMA GoesLeave ==
  ASSUME NEW W, NEW K, NEW words, NEW w, NEW n, NEW l, NEW t, NEW q, NEW P, NEW v, NEW m,
         Going(W, K, words, w, n, l, t, q, P, v, m), v.mode # "SB", NEW wt, Earlier(K, wt, t, m),
         NEW j, NEW v2, NEW m2, AccessIs(j, W[w][n], l, v, m, v2, m2),
         q = 4 * K.h + 2, InLeave(K, wt, t, P, v, m)
  PROVE  Goes(W, K, wt, t, q, P, <<n, l>>, v2, m2)
<1>1. /\ OfProduct(W, K, words) /\ w = WindowAt(K, t, q) /\ MadeAt(W, w, n, l) /\ <<n, l>> \in P
      /\ t \in 0 .. K.C - 1 /\ Base(K, v, m) /\ IsProduct(K) /\ TileWindows(W, K, t)
  BY DEF Going, OfProduct
<1>2. PICK h \in Nat \ {0} : h = K.h /\ GemmLen(K.h) = 4 * h + 3
  BY <1>1, ProductWindows
<1>3. W[w] = <<HabAll>>
  BY <1>1, Zenon DEF TileWindows
<1>4. n = 1 /\ v2 = AfterRegister(v, HabAll, l) /\ m2 = m
  <2>1. HabAll.k \notin {"R", "W"}
    BY DEF HabAll
  <2> QED BY <1>1, <1>3, <2>1, OneRegister
<1>5. PICK p \in P : p = <<n, l>> /\ p[2] = l
  BY <1>1
<1>6. Base(K, v2, m) /\ InLeave(K, wt, t, P \ {p}, v2, m) /\ \A s : InClear(K, wt, s, Block(1), v2)
  <2>1. v2 = AfterRegister(v, HabAll, p[2])
    BY <1>4, <1>5
  <2> QED BY <1>1, <2>1, LeaveAccess
<1>7. ASSUME P # {p} PROVE Tiling(K, wt, t, q, P \ {p}, v2, m2)
  BY <1>1, <1>4, <1>6, <1>7 DEF Tiling, TileIn, Going
<1>8. ASSUME P = {p} PROVE TileOver(K, wt, t, v2, m2)
  <2>1. t \in Nat
    BY <1>1, ProductNumbers
  <2>2. Earlier(K, wt, t + 1, m)
    BY <2>1, EarlierNext DEF InLeave
  <2> QED BY <1>4, <1>6, <2>2 DEF TileOver
<1>9. ~(q + 1 < GemmLen(K.h))
  BY <1>2
<1> QED BY <1>5, <1>7, <1>8, <1>9, Zenon DEF Goes

\* An access of a tile.
LEMMA ProductTile ==
  ASSUME NEW W, NEW K, NEW words, NEW w, NEW n, NEW l, NEW t, NEW q, NEW P, NEW v, NEW m,
         OfProduct(W, K, words), w = WindowAt(K, t, q), MadeAt(W, w, n, l), <<n, l>> \in P,
         v.mode # "SB", Tiling(K, weight, t, q, P, v, m),
         NEW j, j.out # "weight", NEW v2, NEW m2, AccessIs(j, W[w][n], l, v, m, v2, m2)
  PROVE  Goes(W, K, weight, t, q, P, <<n, l>>, v2, m2)
<1>1. Going(W, K, words, w, n, l, t, q, P, v, m) /\ Earlier(K, weight, t, m) /\ TileIn(K, weight, t, q, P, v, m)
  BY DEF Going, Tiling
<1>2. CASE q = 0 /\ InClear(K, weight, t, P, v)
  BY <1>1, <1>2, GoesClear
<1>3. CASE \E x \in 0 .. 2 * K.h - 1 : q = 2 * x + 1 /\ InInput(K, weight, t, x, P, v)
  <2>1. PICK x \in 0 .. 2 * K.h - 1 : q = 2 * x + 1 /\ InInput(K, weight, t, x, P, v)
    BY <1>3
  <2> QED BY <1>1, <2>1, GoesInput
<1>4. CASE \E x \in 0 .. 2 * K.h - 1 : q = 2 * x + 2 /\ InWeights(K, weight, t, x, P, v)
  <2>1. PICK x \in 0 .. 2 * K.h - 1 : q = 2 * x + 2 /\ InWeights(K, weight, t, x, P, v)
    BY <1>4
  <2> QED BY <1>1, <2>1, GoesWeights
<1>5. CASE q = 4 * K.h + 1 /\ InSums(K, weight, t, P, v, m)
  BY <1>1, <1>5, GoesSums
<1>6. CASE q = 4 * K.h + 2 /\ InLeave(K, weight, t, P, v, m)
  BY <1>1, <1>6, GoesLeave
<1> QED BY <1>1, <1>2, <1>3, <1>4, <1>5, <1>6 DEF TileIn

\* The tile after that, or the end.
LEMMA ProductNextTile ==
  ASSUME NEW W, NEW K, NEW words, OfProduct(W, K, words), NEW wt, NEW t \in 0 .. K.C - 1, NEW v, NEW m,
         TileOver(K, wt, t, v, m), NEW w, w = WindowAt(K, t + 1, 0), NEW P, P = Accesses(W[w])
  PROVE  ProductAt(K, wt, w, P, v, m)
<1>1. PICK C \in Nat \ {0}, L \in Nat \ {0} : C = K.C /\ L = GemmLen(K.h)
  BY ProductWindows
<1>2. AfterProduct(K) \in Nat /\ AfterProduct(K) > 7
  BY ProductWindows
<1>3. CASE t + 1 < C
  <2>1. t + 1 \in 0 .. K.C - 1 /\ 0 \in 0 .. GemmLen(K.h) - 1
    BY <1>1, <1>3
  <2>2. W[w] = <<ClearAll>>
    BY <2>1, Zenon DEF OfProduct, TileWindows
  <2>3. P = Block(1)
    BY <2>2, TileAccesses
  <2>4. Tiling(K, wt, t + 1, 0, P, v, m)
    BY <2>1, <2>3, Zenon DEF Tiling, TileIn, TileOver
  <2> QED BY <2>4, ProductInTile
<1>4. CASE t + 1 = C
  <2>1. w = AfterProduct(K)
    <3>1. (t + 1) * L = C * L
      BY <1>4
    <3>2. w = 7 + C * L + 0 /\ AfterProduct(K) = 7 + C * L
      BY <1>1, <3>1, Zenon DEF WindowAt, AfterProduct
    <3>3. C * L \in Nat
      BY MulNat
    <3> QED BY <3>2, <3>3
  <2>2. w \notin 1 .. 6 /\ w # 6 /\ w \notin 7 .. AfterProduct(K) - 1
    BY <1>2, <2>1
  <2>3. Earlier(K, wt, K.C, m)
    BY <1>1, <1>4 DEF TileOver
  <2> QED BY <2>2, <2>3 DEF ProductAt
<1> QED BY <1>1, <1>3, <1>4

\* The tiles.
LEMMA ProductTiles ==
  ASSUME NEW W, NEW K, NEW words, OfProduct(W, K, words), NEW w, NEW n, NEW l, MadeAt(W, w, n, l),
         w \in 7 .. AfterProduct(K) - 1, NEW P, <<n, l>> \in P, NEW v, NEW m, v.mode # "SB",
         ProductAt(K, weight, w, P, v, m),
         NEW j, j.out # "weight", NEW v2, NEW m2, AccessIs(j, W[w][n], l, v, m, v2, m2),
         NEW w2, NEW P2, Proceeds(W, w, P, <<n, l>>, w2, P2)
  PROVE  ProductAt(K, weight, w2, P2, v2, m2)
<1>1. PICK t, q : w = WindowAt(K, t, q) /\ Tiling(K, weight, t, q, P, v, m)
  BY DEF ProductAt
<1>2. t \in 0 .. K.C - 1 /\ q \in 0 .. GemmLen(K.h) - 1
  BY <1>1 DEF Tiling
<1>3. Goes(W, K, weight, t, q, P, <<n, l>>, v2, m2)
  BY <1>1, ProductTile
<1>4. /\ w + 1 = WindowAt(K, t, q + 1)
      /\ q + 1 = GemmLen(K.h) => w + 1 = WindowAt(K, t + 1, 0)
  BY <1>1, <1>2, TileWindowNumber
<1>5. CASE P # {<<n, l>>}
  <2>1. w2 = w /\ P2 = P \ {<<n, l>>}
    BY <1>5 DEF Proceeds
  <2>2. Tiling(K, weight, t, q, P2, v2, m2)
    BY <1>3, <1>5, <2>1 DEF Goes
  <2> QED BY <1>1, <2>1, <2>2, ProductInTile
<1>6. CASE P = {<<n, l>>}
  <2>1. AfterProduct(K) \in Nat /\ Len(W) = AfterProduct(K) + 1
    BY ProductWindows
  <2>2. w + 1 <= Len(W)
    BY <2>1
  <2>3. w2 = w + 1 /\ P2 = Accesses(W[w2])
    BY <1>6, <2>2 DEF Proceeds
  <2>4. CASE q + 1 < GemmLen(K.h)
    <3>1. Tiling(K, weight, t, q + 1, P2, v2, m2)
      BY <1>3, <1>4, <1>6, <2>3, <2>4, Zenon DEF Goes
    <3> QED BY <1>4, <2>3, <3>1, ProductInTile
  <2>5. CASE q + 1 = GemmLen(K.h)
    <3>1. TileOver(K, weight, t, v2, m2)
      BY <1>3, <1>6, <2>5 DEF Goes
    <3> QED BY <1>2, <1>4, <2>3, <2>5, <3>1, ProductNextTile
  <2>6. GemmLen(K.h) \in Nat
    BY ProductWindows
  <2> QED BY <1>2, <2>4, <2>5, <2>6
<1> QED BY <1>5, <1>6

\* UpTo the program is written.
LEMMA ProductLead ==
  ASSUME NEW W, NEW K, NEW words, OfProduct(W, K, words), NEW w, NEW n, NEW l, MadeAt(W, w, n, l), w \in 1 .. 5,
         NEW wt, NEW P, NEW v, NEW m, ProductAt(K, wt, w, P, v, m),
         NEW j, NEW v2, NEW m2, AccessIs(j, W[w][n], l, v, m, v2, m2),
         NEW w2, NEW P2, Proceeds(W, w, P, <<n, l>>, w2, P2)
  PROVE  ProductAt(K, wt, w2, P2, v2, m2)
<1>0. AfterProduct(K) \in Nat /\ AfterProduct(K) > 7 /\ Len(W) = AfterProduct(K) + 1
  BY ProductWindows
<1>1. W[w][n].k \in {"PARK", "AB"}
  <2>1. CASE w = 1
    <3>1. W[w] = <<Reg("PARK")>> /\ n \in DOMAIN W[w]
      BY <2>1 DEF OfProduct, Framed, MadeAt
    <3> QED BY <3>1 DEF Reg
  <2>2. CASE w \in 2 .. 5
    <3>1. PICK k \in 1 .. 4 : w = k + 1
      <4>1. w - 1 \in 1 .. 4 /\ w = (w - 1) + 1
        BY <2>2
      <4> QED BY <4>1
    <3>2. W[w] = <<[k |-> "AB", n |-> k, lanes |-> {0}]>> /\ n \in DOMAIN W[w]
      BY <3>1 DEF OfProduct, Framed, MadeAt
    <3> QED BY <3>2
  <2> QED BY <2>1, <2>2
<1>2. v2 = AfterRegister(v, W[w][n], l) /\ m2 = m
  BY <1>1 DEF AccessIs
<1>3. RegsOK(v2) /\ DOMAIN m2 = Places(TmpSlots)
  BY <1>1, <1>2, LeadKeeps DEF ProductAt
<1>4. w2 \in 1 .. 6
  BY DEF Proceeds
<1>5. w2 = 6 => P2 = {<<1, 0>>}
  <2> SUFFICES ASSUME w2 = 6 PROVE P2 = {<<1, 0>>}
    OBVIOUS
  <2>1. P2 = Accesses(W[6])
    BY <1>0 DEF Proceeds
  <2>2. W[6] = <<[k |-> "CRF", words |-> words, lanes |-> {0}]>>
    <3>1. 0 .. 1 - 1 = {0}
      OBVIOUS
    <3> QED BY <3>1, Zenon DEF OfProduct, program_crf
  <2> QED BY <2>1, <2>2, OneAccess DEF Accesses
<1>6. w2 \notin 7 .. AfterProduct(K) - 1 /\ ~(w2 >= AfterProduct(K))
  BY <1>0, <1>4
<1> QED BY <1>3, <1>5, <1>6 DEF ProductAt

\* The program is written.
LEMMA ProductLoads ==
  ASSUME NEW W, NEW K, NEW words, OfProduct(W, K, words), NEW w, NEW n, NEW l, MadeAt(W, w, n, l), w = 6,
         NEW wt, NEW P, <<n, l>> \in P, NEW v, NEW m, v.mode # "SB", ProductAt(K, wt, w, P, v, m),
         NEW j, NEW v2, NEW m2, AccessIs(j, W[w][n], l, v, m, v2, m2),
         NEW w2, NEW P2, Proceeds(W, w, P, <<n, l>>, w2, P2)
  PROVE  ProductAt(K, wt, w2, P2, v2, m2)
<1>0. AfterProduct(K) \in Nat /\ AfterProduct(K) > 7 /\ Len(W) = AfterProduct(K) + 1
  BY ProductWindows
<1>1. P = {<<n, l>>} /\ n = 1 /\ l = 0
  BY DEF ProductAt
<1>2. w2 = 7 /\ P2 = Accesses(W[7])
  BY <1>0, <1>1 DEF Proceeds
<1>3. PICK a : a = [k |-> "CRF", words |-> words, lanes |-> 0 .. 1 - 1] /\ W[w] = <<a>>
  BY DEF OfProduct, program_crf
<1>4. a.k = "CRF" /\ a.words = words
  BY <1>3
<1>5. v2 = AfterRegister(v, a, 0) /\ m2 = m
  BY <1>1, <1>3, <1>4, OneRegister
<1>6. RegsOK(v) /\ DOMAIN m = Places(TmpSlots)
  BY DEF ProductAt
<1>7. RegsOK(v2) /\ Has(v2.crf, words, 0)
  <2>1. RegsOK(v2) /\ Done(a, 0, v2)
    BY <1>4, <1>5, <1>6, SetupWrites DEF IsSetup
  <2> QED BY <1>4, <2>1 DEF Done
<1>8. GemmLoaded(v2.crf, Rounds(K.h))
  <2>1. GemmLoaded(words, Rounds(K.h)) /\ DOMAIN words = 0 .. 7
    BY DEF OfProduct
  <2>2. \A k \in 0 .. 5 : k \in Column(words, 0)
    BY <2>1 DEF Column
  <2>3. \A k \in 0 .. 5 : k \in DOMAIN v2.crf /\ v2.crf[k] = words[k]
    BY <1>7, <2>2 DEF Has
  <2>4. 0 .. 5 \subseteq DOMAIN v2.crf
    BY <2>3, Zenon
  <2>5. /\ v2.crf[0] = words[0] /\ v2.crf[1] = words[1] /\ v2.crf[2] = words[2]
        /\ v2.crf[3] = words[3] /\ v2.crf[4] = words[4] /\ v2.crf[5] = words[5]
    BY <2>3
  <2> QED BY <2>1, <2>4, <2>5, Zenon DEF GemmLoaded
<1>9. Base(K, v2, m2)
  BY <1>5, <1>6, <1>7, <1>8 DEF Base
<1>10. 0 \in 0 .. K.C - 1 /\ 0 \in 0 .. GemmLen(K.h) - 1
  BY ProductWindows
<1>11. w2 = WindowAt(K, 0, 0)
  <2>1. PICK L \in Nat : L = GemmLen(K.h)
    BY ProductWindows
  <2>2. 7 + 0 * L + 0 = 7
    OBVIOUS
  <2> QED BY <1>2, <2>1, <2>2, Zenon DEF WindowAt
<1>12. P2 = Block(1)
  <2>1. W[w2] = <<ClearAll>>
    BY <1>10, <1>11, Zenon DEF OfProduct, TileWindows
  <2> QED BY <1>2, <2>1, TileAccesses
<1>13. InClear(K, wt, 0, Block(1), v2)
  BY DEF InClear, ClearAt, ClearData
<1>14. Earlier(K, wt, 0, m2)
  BY DEF Earlier
<1>15. Tiling(K, wt, 0, 0, P2, v2, m2)
  BY <1>9, <1>10, <1>12, <1>13, <1>14 DEF Tiling, TileIn
<1> QED BY <1>11, <1>15, ProductInTile

\* After the tiles.
LEMMA ProductLeaves ==
  ASSUME NEW W, NEW K, NEW words, OfProduct(W, K, words), NEW w, NEW n, NEW l, MadeAt(W, w, n, l),
         w >= AfterProduct(K), NEW wt, NEW P, NEW v, NEW m, ProductAt(K, wt, w, P, v, m),
         NEW j, NEW v2, NEW m2, AccessIs(j, W[w][n], l, v, m, v2, m2),
         NEW w2, NEW P2, Proceeds(W, w, P, <<n, l>>, w2, P2)
  PROVE  ProductAt(K, wt, w2, P2, v2, m2)
<1>0. /\ AfterProduct(K) \in Nat /\ AfterProduct(K) > 7 /\ Len(W) = AfterProduct(K) + 1
      /\ w \in AfterProduct(K) .. AfterProduct(K) + 1
  BY ProductWindows DEF MadeAt
<1>1. W[w] = <<[k |-> "SB", lanes |-> {0, 1}]>> \/ W[w] = <<[k |-> "PARK", lanes |-> {0}]>>
  BY <1>0 DEF OfProduct, Framed, Reg
<1>2. W[w][n].k \in {"SB", "PARK"}
  BY <1>1 DEF MadeAt
<1>3. m2 = m
  BY <1>2 DEF AccessIs
<1>4. w2 = w \/ w2 = w + 1
  BY DEF Proceeds
<1>5. Earlier(K, wt, K.C, m2)
  BY <1>3 DEF ProductAt
<1>6. w2 \notin 1 .. 6 /\ w2 # 6 /\ w2 \notin 7 .. AfterProduct(K) - 1
  BY <1>0, <1>4
<1> QED BY <1>5, <1>6 DEF ProductAt

-----------------------------------------------------------------------------
(* The kernel of a gemm is that of a product.                              *)

\* By channels: the outputs of a matrix take per whole channels, those of c
\* matrices all of them, and there is one row of inputs.
ByChannels(j, c, per) ==
  j.s.out = per * (NumPimBlocks * NumGrf) /\ NumChan = c * per /\ j.inout_h = 1

\* A product in whole tiles, which the program's jumps can count and whose partial
\* sums the buffer has room for.
WholeGemm(j) ==
  /\ WholeTiles(j.s) /\ Tiled(TilePairs(j.s)) /\ j.out # "weight" /\ SumsFit(j)
  /\ Chwise(j) => \E c \in Nat \ {0}, per \in Nat \ {0} : ByChannels(j, c, per)
WholeGemms == ShortIdle /\ WholeJobs /\ \A j \in Jobs : IsGemm(j) => WholeGemm(j)

\* By channels, the kernel's iterations are those of the conversion.
LEMMA ChannelNumbers ==
  ASSUME NEW j, WholeTiles(j.s), Chwise(j), NEW c \in Nat \ {0}, NEW per \in Nat \ {0}, ByChannels(j, c, per)
  PROVE  /\ OutTile \div j.s.out = c /\ NumChan \div c = per /\ IterCnt(j) = Iterations(j.s)
         /\ j.s.nc = IterCnt(j) * c /\ OutTile = c * j.s.out
<1>1. PICK o \in Nat \ {0}, n \in Nat \ {0}, T \in Nat \ {0}, I \in Nat \ {0} :
        o = j.s.out /\ n = j.s.nc /\ T = OutTile /\ I = Iterations(j.s)
  BY Positive, Shape DEF WholeTiles
<1>2. T = c * o
  <2>1. PICK P \in Nat \ {0}, G \in Nat \ {0} : P = NumPimBlocks /\ G = NumGrf
    BY Positive
  <2>2. T = G * P * (c * per) /\ o = per * (P * G)
    BY <1>1, <2>1 DEF OutTile, ByChannels
  <2> QED BY <2>2
<1>3. n * o = I * T
  BY <1>1, Shape DEF Chwise
<1>4. n = I * c
  <2>1. n * o = (I * c) * o
    BY <1>2, <1>3
  <2>2. PICK m \in Nat : m = I * c
    OBVIOUS
  <2> QED BY <2>1, <2>2
<1>5. T \div o = c
  <2>1. T = c * o + 0 /\ 0 \in 0 .. o - 1
    BY <1>2
  <2> QED BY <2>1, DivNat
<1>6. n \div c = I
  <2>1. n = I * c + 0 /\ 0 \in 0 .. c - 1
    BY <1>4
  <2> QED BY <2>1, DivNat
<1>7. NumChan \div c = per
  <2>1. NumChan = per * c + 0 /\ 0 \in 0 .. c - 1
    BY DEF ByChannels
  <2> QED BY <2>1, DivNat
<1>8. IterCnt(j) = I
  BY <1>1, <1>5, <1>6 DEF IterCnt
<1> QED BY <1>1, <1>2, <1>4, <1>5, <1>7, <1>8

\* The loops of the kernel, and where the weights of its iterations begin.
LEMMA GemmShape ==
  ASSUME NEW j \in Jobs, IsGemm(j), WholeGemm(j), NEW h, h = TilePairs(j.s)
  PROVE  /\ h \in Nat \ {0} /\ InTiles(j) = 2 * h /\ InTiles(j) \div 2 = h /\ Tiled(h)
         /\ OutTiles(j) = OutParts(j.s) /\ OutTiles(j) \in Nat \ {0}
         /\ IterCnt(j) \in Nat \ {0} /\ j.inout_h \in Nat \ {0}
         /\ \A i \in Nat : WeightBase(j, i) = i * OutParts(j.s) * TilePairs(j.s) * (NumGrf * NumGrf)
<1>1. PICK G \in Nat \ {0}, T \in Nat \ {0} : G = NumGrf /\ T = OutTile
  BY Positive
<1>2. WholeTiles(j.s) /\ Tiled(h) /\ h \in Nat \ {0} /\ j.inout_h \in Nat \ {0}
  <2>1. j.op = "GEMV"
    BY DEF IsGemm
  <2>2. j.inout_h \in Nat \ {0}
    BY <2>1, JobsAssumption
  <2> QED BY <2>2, Shape DEF WholeGemm
<1>3. j.s.in_cnt = (2 * h) * G
  BY <1>1, <1>2, Shape
<1>4. InTiles(j) = 2 * h
  <2>1. PICK d \in Nat : d = 2 * h
    BY <1>2
  <2>2. j.s.in_cnt = d * G + 0 /\ 0 \in 0 .. G - 1
    BY <1>3, <2>1
  <2>3. j.s.in_cnt \div G = d
    BY <2>2, DivNat
  <2> QED BY <1>1, <2>1, <2>3 DEF InTiles
<1>5. InTiles(j) \div 2 = h
  BY <1>2, <1>4
<1>6. OutTiles(j) = OutParts(j.s) /\ OutTiles(j) \in Nat \ {0}
  <2>1. CASE Chwise(j)
    BY <1>2, <2>1, Shape DEF OutTiles, Chwise
  <2>2. CASE ~Chwise(j)
    BY <1>2, <2>2, Shape DEF OutTiles, Chwise, OutParts, OutCnt
  <2> QED BY <2>1, <2>2
<1>7. IterCnt(j) \in Nat \ {0}
  <2>1. CASE Chwise(j)
    <3>1. PICK c \in Nat \ {0}, per \in Nat \ {0} : ByChannels(j, c, per)
      BY <2>1 DEF WholeGemm
    <3>2. IterCnt(j) = Iterations(j.s)
      BY <1>2, <2>1, <3>1, ChannelNumbers
    <3> QED BY <1>2, <3>2, Shape
  <2>2. CASE ~Chwise(j)
    <3>1. PICK n \in Nat \ {0}, Y \in Nat \ {0} : n = j.s.nc /\ Y = OutParts(j.s) /\ j.s.out = Y * T
      BY <1>1, <1>2, <2>2, Shape DEF Chwise, WholeTiles
    <3>2. PICK m \in Nat \ {0} : m = n * Y
      OBVIOUS
    <3>3. n * (Y * T) = m * T + 0 /\ 0 \in 0 .. T - 1
      BY <3>2
    <3>4. PICK x : x = n * (Y * T)
      OBVIOUS
    <3>5. x \div T = m
      BY <3>3, <3>4, DivNat
    <3>6. IterCnt(j) = m
      BY <1>1, <2>2, <3>1, <3>4, <3>5 DEF IterCnt
    <3> QED BY <3>6
  <2> QED BY <2>1, <2>2
<1>8. ASSUME NEW i \in Nat
      PROVE  WeightBase(j, i) = i * OutParts(j.s) * TilePairs(j.s) * (NumGrf * NumGrf)
  <2>1. PICK n \in Nat, o \in Nat : n = j.s.in_cnt /\ o = OutCnt(j.s)
    <3>1. j.s.in_cnt \in Nat /\ OutCnt(j.s) \in Nat
      BY <1>1, <1>2 DEF WholeTiles, OutCnt
    <3> QED BY <3>1
  <2>2. i * n * o = i * o * n
    OBVIOUS
  <2>3. WeightBase(j, i) = PerBank(i * n * o)
    BY <2>1, Zenon DEF WeightBase, OutCnt, Chwise
  <2>4. PerBank(i * o * n) = i * OutParts(j.s) * TilePairs(j.s) * (NumGrf * NumGrf)
    BY <1>2, <2>1, PerBankBase
  <2> QED BY <2>2, <2>3, <2>4, Zenon
<1> QED BY <1>2, <1>4, <1>5, <1>6, <1>7, <1>8

\* The iteration, row of inputs and tile of outputs of tile number t.
OutOf(j, t) == t % OutTiles(j)
RowOf(j, t) == (t \div OutTiles(j)) % j.inout_h
IterOf(j, t) == (t \div OutTiles(j)) \div j.inout_h

\* They are the digits of t.
LEMMA TileDigits ==
  ASSUME NEW j \in Jobs, IsGemm(j), WholeGemm(j), NEW t \in 0 .. TileCount(j) - 1
  PROVE  IsTile(j, IterOf(j, t), RowOf(j, t), OutOf(j, t)) /\ TileNum(j, IterOf(j, t), RowOf(j, t), OutOf(j, t)) = t
<1>1. PICK I \in Nat \ {0}, H \in Nat \ {0}, O \in Nat \ {0} : I = IterCnt(j) /\ H = j.inout_h /\ O = OutTiles(j)
  BY GemmShape
<1>2. PICK M \in Nat : M = I * H
  OBVIOUS
<1>3. t \in 0 .. M * O - 1 /\ t \in Nat
  BY <1>1, <1>2 DEF TileCount
<1>4. PICK m \in Nat, o \in 0 .. O - 1 : m = t \div O /\ o = t % O /\ t = m * O + o
  BY <1>3, DivSplit, Zenon
<1>5. m \in 0 .. M - 1
  BY <1>3, <1>4, DigitsBelow
<1>6. PICK i \in Nat, r \in 0 .. H - 1 : i = m \div H /\ r = m % H /\ m = i * H + r
  BY DivSplit, Zenon
<1>7. i \in 0 .. I - 1
  <2>1. m \in 0 .. I * H - 1
    BY <1>2, <1>5
  <2> QED BY <1>6, <2>1, DigitsBelow
<1>8. OutOf(j, t) = o /\ RowOf(j, t) = r /\ IterOf(j, t) = i
  BY <1>1, <1>4, <1>6, Zenon DEF OutOf, RowOf, IterOf
<1>9. IsTile(j, i, r, o)
  BY <1>1, <1>6, <1>7 DEF IsTile
<1>10. TileNum(j, i, r, o) = t
  BY <1>1, <1>4, <1>6, Zenon DEF TileNum
<1> QED BY <1>8, <1>9, <1>10

\* The product a gemm computes, in channel ch.
ProductOf(j, ch) ==
  [h |-> TilePairs(j.s), C |-> TileCount(j),
   ib |-> [t \in 0 .. TileCount(j) - 1 |-> InputBase(j, ch, IterOf(j, t), RowOf(j, t))],
   wb |-> [t \in 0 .. TileCount(j) - 1 |-> TileWeights(j, TilePairs(j.s), IterOf(j, t), OutOf(j, t))]]

\* Its parts.
LEMMA ProductParts ==
  ASSUME NEW j, NEW ch, NEW K, K = ProductOf(j, ch)
  PROVE  /\ K.h = TilePairs(j.s) /\ K.C = TileCount(j)
         /\ \A t \in 0 .. TileCount(j) - 1 :
              /\ K.ib[t] = InputBase(j, ch, IterOf(j, t), RowOf(j, t))
              /\ K.wb[t] = TileWeights(j, TilePairs(j.s), IterOf(j, t), OutOf(j, t))
<1>1. PICK D, f, g, h, C : /\ D = 0 .. TileCount(j) - 1 /\ h = TilePairs(j.s) /\ C = TileCount(j)
                           /\ f = [t \in D |-> InputBase(j, ch, IterOf(j, t), RowOf(j, t))]
                           /\ g = [t \in D |-> TileWeights(j, TilePairs(j.s), IterOf(j, t), OutOf(j, t))]
  OBVIOUS
<1>2. K = [h |-> h, C |-> C, ib |-> f, wb |-> g]
  BY <1>1, Zenon DEF ProductOf
<1>3. K.h = h /\ K.C = C /\ K.ib = f /\ K.wb = g
  BY <1>2
<1>4. \A t \in D : /\ f[t] = InputBase(j, ch, IterOf(j, t), RowOf(j, t))
                   /\ g[t] = TileWeights(j, TilePairs(j.s), IterOf(j, t), OutOf(j, t))
  BY <1>1, Zenon
<1> QED BY <1>1, <1>3, <1>4, Zenon

\* Inputs are at locations.
LEMMA InputBaseNat ==
  ASSUME NEW j \in Jobs, IsGemm(j), WholeGemm(j), NEW ch \in Nat, NEW i \in Nat, NEW r \in Nat
  PROVE  InputBase(j, ch, i, r) \in Nat
<1>1. PICK n \in Nat \ {0}, H \in Nat \ {0} : n = j.s.in_cnt /\ H = j.inout_h
  <2>1. j.s.in_cnt \in Nat \ {0}
    BY DEF WholeGemm, WholeTiles
  <2> QED BY <2>1, GemmShape
<1>2. CASE Chwise(j)
  <2>1. PICK c \in Nat \ {0}, per \in Nat \ {0} : ByChannels(j, c, per)
    BY <1>2 DEF WholeGemm
  <2>2. OutTile \div j.s.out = c /\ NumChan \div c = per
    BY <1>2, <2>1, ChannelNumbers DEF WholeGemm
  <2>3. PICK q \in Nat : q = ch \div per
    BY DivMod
  <2>4. InputBase(j, ch, i, r) = (q + i * c) * n
    BY <1>1, <1>2, <2>2, <2>3, Zenon DEF InputBase
  <2>5. PICK x \in Nat : x = i * c
    OBVIOUS
  <2>6. (q + x) * n \in Nat
    BY MulNat
  <2> QED BY <2>4, <2>5, <2>6
<1>3. CASE ~Chwise(j)
  <2>1. InputBase(j, ch, i, r) = (i * H + r) * n
    BY <1>1, <1>3, Zenon DEF InputBase
  <2>2. PICK x \in Nat : x = i * H + r
    <3>1. i * H \in Nat
      BY MulNat
    <3> QED BY <3>1
  <2>3. x * n \in Nat
    BY MulNat
  <2> QED BY <2>1, <2>2, <2>3
<1> QED BY <1>2, <1>3

\* So are the weights, in whole squares.
LEMMA TileWeightsNat ==
  ASSUME NEW j \in Jobs, IsGemm(j), WholeGemm(j), NEW h, h = TilePairs(j.s), NEW i \in Nat, NEW o \in Nat
  PROVE  /\ WeightBase(j, i) \in Nat
         /\ TileWeights(j, h, i, o) \in Nat
         /\ TileWeights(j, h, i, o) = ((i * OutTiles(j) + o) * h) * Square
<1>1. PICK G \in Nat \ {0}, H \in Nat \ {0}, O \in Nat \ {0} : G = NumGrf /\ H = h /\ O = OutTiles(j)
  BY Positive, GemmShape
<1>2. WeightBase(j, i) = i * O * H * (G * G)
  BY <1>1, GemmShape
<1>3. PICK a \in Nat, S \in Nat : a = i * O * H /\ S = G * G
  OBVIOUS
<1>4. WeightBase(j, i) \in Nat
  <2>1. a * S \in Nat
    BY MulNat
  <2> QED BY <1>2, <1>3, <2>1
<1>5. TileWeights(j, h, i, o) = a * S + (o * H) * S
  BY <1>1, <1>2, <1>3, Zenon DEF TileWeights
<1>6. a + o * H = (i * O + o) * H
  BY <1>3
<1>7. PICK b \in Nat : b = o * H
  OBVIOUS
<1>8. a * S + b * S = (a + b) * S /\ (a + b) * S \in Nat
  OBVIOUS
<1>9. S = Square
  BY <1>1, <1>3, Zenon DEF Square
<1>10. TileWeights(j, h, i, o) = ((i * O + o) * H) * S
  BY <1>5, <1>6, <1>7, <1>8, Zenon
<1> QED BY <1>1, <1>4, <1>5, <1>7, <1>8, <1>9, <1>10, Zenon

\* The sums of a tile go behind those of the tiles before.
LEMMA SumBaseIs ==
  ASSUME NEW j \in Jobs, IsGemm(j), WholeGemm(j), NEW i, NEW r, NEW o, IsTile(j, i, r, o), i \in Nat
  PROVE  SumBase(j, i, r, o) = TileNum(j, i, r, o) * NumGrf
<1>1. CASE Chwise(j)
  <2>1. j.inout_h = 1 /\ OutTiles(j) = 1
    BY <1>1 DEF WholeGemm, ByChannels, OutTiles
  <2>2. r = 0 /\ o = 0
    BY <2>1 DEF IsTile
  <2>3. TileNum(j, i, r, o) = i
    BY <2>1, <2>2 DEF TileNum
  <2> QED BY <1>1, <2>3 DEF SumBase
<1>2. CASE ~Chwise(j)
  BY <1>2, Zenon DEF SumBase, TileNum
<1> QED BY <1>1, <1>2

\* The windows of tile t.
LEMMA GemmTileAt ==
  ASSUME NEW j \in Jobs, IsGemm(j), WholeGemm(j), NEW ch \in Nat, NEW W, GemmIs(W, j, ch, TilePairs(j.s)),
         NEW K, K = ProductOf(j, ch), NEW t \in 0 .. TileCount(j) - 1
  PROVE  TileWindows(W, K, t)
<1>1. PICK i, r, o : i = IterOf(j, t) /\ r = RowOf(j, t) /\ o = OutOf(j, t)
  OBVIOUS
<1>2. PICK h \in Nat \ {0} : h = TilePairs(j.s)
  BY GemmShape
<1>3. IsTile(j, i, r, o) /\ TileNum(j, i, r, o) = t
  BY <1>1, TileDigits
<1>4. i \in Nat /\ o \in Nat /\ InTiles(j) = 2 * h
  BY <1>2, <1>3, GemmShape DEF IsTile
<1>5. WeightBase(j, i) \in Nat
  BY <1>2, <1>4, TileWeightsNat
<1>6. PICK f, ib, wb, sums : /\ f = gemm_tile(j, ch, i, r, o) /\ ib = InputBase(j, ch, i, r)
                             /\ wb = TileWeights(j, h, i, o) /\ sums = SumBase(j, i, r, o)
  OBVIOUS
<1>7. GemmTileIs(f, h, ib, wb, sums)
  BY <1>4, <1>5, <1>6, GemmTileWindows
<1>8. K.h = h /\ K.ib[t] = ib /\ K.wb[t] = wb
  BY <1>1, <1>2, <1>6, ProductParts
<1>9. sums = t * NumGrf
  BY <1>3, <1>4, <1>6, SumBaseIs
<1>10. \A q \in 0 .. GemmLen(h) - 1 : W[WindowAt(K, t, q)] = f[q + 1]
  <2> SUFFICES ASSUME NEW q \in 0 .. GemmLen(h) - 1 PROVE W[WindowAt(K, t, q)] = f[q + 1]
    OBVIOUS
  <2>0. GemmIs(W, j, ch, h)
    BY <1>2, Zenon
  <2>1. W[7 + TileNum(j, i, r, o) * GemmLen(h) + q] = gemm_tile(j, ch, i, r, o)[q + 1]
    <3>1. \A a, b, c, d : IsTile(j, a, b, c) /\ d \in 0 .. GemmLen(h) - 1 =>
            W[7 + TileNum(j, a, b, c) * GemmLen(h) + d] = gemm_tile(j, ch, a, b, c)[d + 1]
      BY <2>0, Zenon DEF GemmIs
    <3> QED BY <1>3, <3>1
  <2> QED BY <1>3, <1>6, <1>8, <2>1, Zenon DEF WindowAt
<1>11. PICK L : L = GemmLen(h) /\ L = 4 * h + 3
  BY DEF GemmLen
<1>12. W[WindowAt(K, t, 0)] = <<ClearAll>>
  <2>1. 0 \in 0 .. L - 1 /\ 0 + 1 = 1
    BY <1>11
  <2> QED BY <1>7, <1>10, <1>11, <2>1 DEF GemmTileIs
<1>13. ASSUME NEW x \in 0 .. 2 * h - 1
       PROVE  /\ W[WindowAt(K, t, 2 * x + 1)] = <<GrfWrite(K.ib[t] + InTileOf(K.h, x) * NumGrf)>>
              /\ W[WindowAt(K, t, 2 * x + 2)] = WeightWin(BankAt(K.h, x), K.wb[t] + PairOf(K.h, x) * Square)
  <2>1. 2 * x + 1 \in 0 .. L - 1 /\ 2 * x + 2 \in 0 .. L - 1 /\ (2 * x + 1) + 1 = 2 * x + 2
        /\ (2 * x + 2) + 1 = 2 * x + 3
    BY <1>11
  <2>2. /\ f[2 * x + 2] = <<GrfWrite(ib + InTileOf(h, x) * NumGrf)>>
        /\ f[2 * x + 3] = WeightWin(BankAt(h, x), wb + PairOf(h, x) * Square)
    BY <1>7, Zenon DEF GemmTileIs, Square
  <2>3. W[WindowAt(K, t, 2 * x + 1)] = f[2 * x + 2] /\ W[WindowAt(K, t, 2 * x + 2)] = f[2 * x + 3]
    <3>1. PICK y, z : y = 2 * x + 1 /\ z = 2 * x + 2
      OBVIOUS
    <3>2. W[WindowAt(K, t, y)] = f[y + 1] /\ W[WindowAt(K, t, z)] = f[z + 1]
      BY <1>10, <1>11, <2>1, <3>1, Zenon
    <3> QED BY <2>1, <3>1, <3>2, Zenon
  <2> QED BY <1>8, <2>2, <2>3, Zenon
<1>14. W[WindowAt(K, t, 4 * K.h + 1)] = SumWin(t * NumGrf) /\ W[WindowAt(K, t, 4 * K.h + 2)] = <<HabAll>>
  <2>1. PICK y, z : y = 4 * h + 1 /\ z = 4 * h + 2 /\ y \in 0 .. L - 1 /\ z \in 0 .. L - 1
                    /\ y + 1 = 4 * h + 2 /\ z + 1 = 4 * h + 3
    BY <1>11
  <2>2. W[WindowAt(K, t, y)] = f[y + 1] /\ W[WindowAt(K, t, z)] = f[z + 1]
    BY <1>10, <1>11, <2>1, Zenon
  <2>3. f[4 * h + 2] = SumWin(sums) /\ f[4 * h + 3] = <<HabAll>>
    BY <1>7, Zenon DEF GemmTileIs
  <2> QED BY <1>8, <1>9, <2>1, <2>2, <2>3, Zenon
<1> QED BY <1>8, <1>12, <1>13, <1>14, Zenon DEF TileWindows

\* The kernel of a gemm.
LEMMA KernelOfProduct ==
  ASSUME WholeGemms, NEW j \in Jobs, IsGemm(j), NEW unit \in Units, NEW W, W = Windows(j, unit),
         NEW K, K = ProductOf(j, unit[1])
  PROVE  OfProduct(W, K, make_crf_bin("GEMV", InTiles(j)))
<1>1. WholeGemm(j) /\ ShortIdle
  BY DEF WholeGemms
<1>2. PICK ch \in Nat : ch = unit[1]
  BY UnitsAssumption
<1>3. PICK h \in Nat \ {0} : h = TilePairs(j.s)
  BY <1>1, GemmShape
<1>4. InTiles(j) = 2 * h /\ Tiled(h)
  BY <1>1, <1>3, GemmShape
<1>5. WeightsPlaced(j)
  <2> SUFFICES ASSUME NEW i \in Nat PROVE WeightBase(j, i) \in Nat
    BY DEF WeightsPlaced
  <2>1. 0 \in Nat
    OBVIOUS
  <2> QED BY <1>1, <2>1, TileWeightsNat
<1>6. W = GemmKernel(j, ch)
  BY <1>2 DEF Windows
<1>7. GemmIs(W, j, ch, h)
  BY <1>4, <1>5, <1>6, GemmKernelIs
<1>8. K = ProductOf(j, ch) /\ K.h = h /\ K.C = TileCount(j)
  BY <1>2, <1>3, ProductParts
<1>9. TileCount(j) \in Nat \ {0}
  <2>1. PICK I \in Nat \ {0}, H \in Nat \ {0}, O \in Nat \ {0} : I = IterCnt(j) /\ H = j.inout_h /\ O = OutTiles(j)
    BY <1>1, GemmShape
  <2>2. (I * H) * O \in Nat \ {0}
    OBVIOUS
  <2> QED BY <2>1, <2>2 DEF TileCount
<1>10. \A t \in 0 .. TileCount(j) - 1 : TileWindows(W, K, t)
  BY <1>1, <1>3, <1>7, <1>8, GemmTileAt
<1>11. IsProduct(K)
  <2>1. ASSUME NEW t \in 0 .. TileCount(j) - 1 PROVE K.ib[t] \in Nat /\ K.wb[t] \in Nat
    <3>1. PICK i, r, o : i = IterOf(j, t) /\ r = RowOf(j, t) /\ o = OutOf(j, t)
      OBVIOUS
    <3>2. IsTile(j, i, r, o)
      BY <1>1, <3>1, TileDigits
    <3>3. i \in Nat /\ r \in Nat /\ o \in Nat
      BY <1>1, <3>2, GemmShape DEF IsTile
    <3>4. InputBase(j, ch, i, r) \in Nat /\ TileWeights(j, TilePairs(j.s), i, o) \in Nat
      BY <1>1, <3>3, InputBaseNat, TileWeightsNat
    <3> QED BY <1>8, <3>1, <3>4, ProductParts
  <2>2. TileCount(j) \in 0 .. TmpSlots
    BY <1>1, <1>9, TmpAssumption DEF WholeGemm, SumsFit
  <2> QED BY <1>4, <1>8, <2>1, <2>2 DEF IsProduct
<1>12. Framed(W)
  BY KernelsFramed
<1>13. Len(W) = AfterProduct(K) + 1
  <2>1. PICK x \in Nat : x = TileCount(j) * GemmLen(h)
    <3>1. GemmLen(h) \in Nat
      BY DEF GemmLen
    <3> QED BY <1>9, <3>1, MulNat
  <2>2. Len(W) = 8 + x /\ AfterProduct(K) = 7 + x
    BY <1>7, <1>8, <2>1, Zenon DEF GemmIs, AfterProduct
  <2> QED BY <2>2
<1>14. PICK words : words = make_crf_bin("GEMV", InTiles(j))
  OBVIOUS
<1>15. GemmLoaded(words, Rounds(h)) /\ DOMAIN words = 0 .. 7
  BY <1>1, <1>4, <1>14, GemmProgram
<1>16. W[6] = program_crf(words, 1)
  BY <1>7, <1>14, Zenon DEF GemmIs
<1>17. K.C > 0
  BY <1>8, <1>9
<1>18. \A t \in 0 .. K.C - 1 : TileWindows(W, K, t)
  BY <1>8, <1>10
<1> QED BY <1>8, <1>11, <1>12, <1>13, <1>14, <1>15, <1>16, <1>17, <1>18, Zenon DEF OfProduct

-----------------------------------------------------------------------------
(* Products, through all steps.                                            *)

\* An item that is read from cell d of unit <<ch, b>>.
InUnit(d, ch, b) == d[1] = ch /\ d[2] = b \div BgUnits /\ d[3] \div 2 = b % BgUnits

\* The unit has the items that are read from its banks.
ItemHeld(d, wt, item) == <<d[3] % 2, d[4]>> \in DOMAIN wt /\ wt[<<d[3] % 2, d[4]>>] = item
Held(s, ch, b, wt) ==
  \A m \in 0 .. s.nc - 1, o \in 0 .. s.out - 1, k \in 0 .. s.in_cnt - 1 :
    InUnit(ReadFrom(s, m, o, k), ch, b) => ItemHeld(ReadFrom(s, m, o, k), wt, (m * s.out + o) * s.in_cnt + k)

\* What there is besides TypeInv.
GemmInv ==
  /\ ConvOK(conv, dst)
  /\ stage \in {"idle", "convert"} => RegsOK(u)
  /\ stage = "convert" => conv.s = job.s
  /\ stage \in {"run", "done"} /\ IsGemm(job) => Held(job.s, at[1], at[2], weight)
  /\ stage = "run" /\ IsGemm(job) => ProductAt(ProductOf(job, at[1]), weight, window, pending, u, mem)
  /\ stage = "done" /\ IsGemm(job) => Earlier(ProductOf(job, at[1]), weight, TileCount(job), mem)

\* A cell of a unit's banks, by pair and parity.
LEMMA CellBank ==
  ASSUME NEW x \in Nat, NEW y, x \div 2 = y
  PROVE  2 * y + (x % 2) = x
OBVIOUS

\* The converted weight, in the banks of one unit.
LEMMA WeightHeld ==
  ASSUME NEW s, WholeTiles(s), LaidOut(s, dst), NEW ch, NEW b, NEW wt, wt = WeightAt(ch, b)
  PROVE  Held(s, ch, b, wt)
<1> SUFFICES ASSUME NEW m \in 0 .. s.nc - 1, NEW o \in 0 .. s.out - 1, NEW k \in 0 .. s.in_cnt - 1,
                    InUnit(ReadFrom(s, m, o, k), ch, b)
             PROVE  ItemHeld(ReadFrom(s, m, o, k), wt, (m * s.out + o) * s.in_cnt + k)
  BY Zenon DEF Held
<1>1. PICK d, item : d = ReadFrom(s, m, o, k) /\ item = (m * s.out + o) * s.in_cnt + k
  OBVIOUS
<1>2. d \in DOMAIN dst /\ dst[d] = item
  BY <1>1, Zenon DEF LaidOut
<1>3. PICK pb, here : /\ pb = BgUnits
                      /\ here = {<<e[3] % 2, e[4]>> : e \in {f \in DOMAIN dst : f[1] = ch /\ f[2] = b \div pb
                                                                                /\ f[3] \div 2 = b % pb}}
  OBVIOUS
<1>4. wt = [e \in here |-> dst[<<ch, b \div pb, 2 * (b % pb) + e[1], e[2]>>]]
  BY <1>3, Zenon DEF WeightAt, BgUnits
<1>5. <<d[3] % 2, d[4]>> \in here
  BY <1>1, <1>2, <1>3, Zenon DEF InUnit
<1>6. PICK e : e = <<d[3] % 2, d[4]>> /\ e[1] = d[3] % 2 /\ e[2] = d[4]
  <2>1. PICK x, y : x = d[3] % 2 /\ y = d[4]
    OBVIOUS
  <2>2. PICK e : e = <<x, y>>
    OBVIOUS
  <2>3. e[1] = x /\ e[2] = y
    BY <2>2
  <2> QED BY <2>1, <2>2, <2>3, Zenon
<1>7. <<ch, b \div pb, 2 * (b % pb) + e[1], e[2]>> = d
  <2>1. PICK p \in Parts(s), y \in 0 .. NumGrf - 1, a \in 0 .. NumGrf - 1 : d = Cell(s, p, y, a)
    BY <1>1, ReadCell
  <2>2. PICK d1, d2, d3, d4 : d = <<d1, d2, d3, d4>> /\ d3 = 2 * p.h + (p.xt % 2)
    BY <2>1, Zenon DEF Cell
  <2>3. d3 \in Nat
    <3>1. p.h \in Nat /\ p.xt \in Nat
      BY Shape DEF Parts
    <3>2. PICK x \in Nat, y2 \in Nat : x = p.h /\ y2 = p.xt
      BY <3>1
    <3> QED BY <2>2, <3>2
  <2>4. d[1] = d1 /\ d[2] = d2 /\ d[3] = d3 /\ d[4] = d4
    BY <2>2
  <2>5. d1 = ch /\ d2 = b \div pb /\ d3 \div 2 = b % pb
    BY <1>1, <1>3, <2>4, Zenon DEF InUnit
  <2>6. PICK q : q = b % pb
    OBVIOUS
  <2>7. 2 * q + (d3 % 2) = d3
    BY <2>3, <2>5, <2>6, CellBank
  <2> QED BY <1>6, <2>2, <2>4, <2>5, <2>6, <2>7, Zenon
<1>8. e \in DOMAIN wt /\ wt[e] = dst[d]
  BY <1>4, <1>5, <1>6, <1>7, Zenon
<1> QED BY <1>1, <1>2, <1>6, <1>8, Zenon DEF ItemHeld

\* A launch.
LEMMA ProductStarts ==
  ASSUME WholeGemms, NEW j \in Jobs, IsGemm(j), NEW ch, NEW wt, NEW P, NEW v, RegsOK(v), NEW m,
         DOMAIN m = {0, 1} \X (0 .. Reach(j) - 1), NEW K, K = ProductOf(j, ch)
  PROVE  ProductAt(K, wt, 1, P, v, m)
<1>1. K.C = TileCount(j) /\ K.h = TilePairs(j.s)
  BY ProductParts
<1>2. PICK I \in Nat \ {0}, H \in Nat \ {0}, O \in Nat \ {0} : I = IterCnt(j) /\ H = j.inout_h /\ O = OutTiles(j)
  BY GemmShape DEF WholeGemms
<1>3. DOMAIN m = Places(TmpSlots)
  BY Zenon DEF Places, Reach
<1>4. AfterProduct(K) \in Nat /\ AfterProduct(K) >= 7
  <2>1. PICK h \in Nat \ {0} : h = K.h
    BY <1>1, GemmShape DEF WholeGemms
  <2>2. PICK C \in Nat, L \in Nat : C = K.C /\ L = GemmLen(K.h)
    BY <1>1, <1>2, <2>1 DEF TileCount, GemmLen
  <2>3. C * L \in Nat
    BY MulNat
  <2> QED BY <2>2, <2>3 DEF AfterProduct
<1>5. 1 # 6 /\ 1 \notin 7 .. AfterProduct(K) - 1 /\ ~(1 >= AfterProduct(K))
  BY <1>4
<1> QED BY <1>3, <1>5, Zenon DEF ProductAt

\* An access of a gemm.
LEMMA GemmAccess ==
  ASSUME WholeGemms, TypeInv, GemmInv, Access, IsGemm(job)
  PROVE  ProductAt(ProductOf(job, at[1]), weight, window', pending', u', mem')
<1>1. PICK W, K : W = Windows(job, at) /\ K = ProductOf(job, at[1])
  OBVIOUS
<1>2. ModeInv /\ job \in Jobs /\ stage = "run" /\ at \in Units
  BY DEF TypeInv, ModeInv, Access
<1>3. PICK words : OfProduct(W, K, words)
  BY <1>1, <1>2, KernelOfProduct
<1>4. PICK n, l : /\ MadeAt(W, window, n, l) /\ <<n, l>> \in pending
                  /\ AccessIs(job, W[window][n], l, u, mem, u', mem')
                  /\ Proceeds(W, window, pending, <<n, l>>, window', pending')
  BY <1>1, <1>2, AccessIsMade
<1>5. ProductAt(K, weight, window, pending, u, mem)
  BY <1>1, <1>2 DEF GemmInv
<1>6. AfterProduct(K) \in Nat /\ AfterProduct(K) > 7 /\ Len(W) = AfterProduct(K) + 1
  BY <1>3, ProductWindows
<1>7. window \in 1 .. Len(W)
  BY <1>4 DEF MadeAt
<1>8. window \in 6 .. AfterProduct(K) - 1 => u.mode # "SB"
  <2>1. ModeAt(W, window, u.mode, u.ab)
    BY <1>1, <1>2 DEF ModeInv
  <2>2. window \in 6 .. AfterProduct(K) - 1 => window \in 6 .. Len(W) - 2
    BY <1>6
  <2> QED BY <2>1, <2>2 DEF ModeAt
<1>9. CASE window \in 1 .. 5
  BY <1>1, <1>3, <1>4, <1>5, <1>9, ProductLead
<1>10. CASE window = 6
  <2>1. u.mode # "SB"
    BY <1>6, <1>8, <1>10
  <2> QED BY <1>1, <1>3, <1>4, <1>5, <1>10, <2>1, ProductLoads
<1>11. CASE window \in 7 .. AfterProduct(K) - 1
  <2>1. u.mode # "SB" /\ job.out # "weight"
    BY <1>2, <1>6, <1>8, <1>11 DEF WholeGemms, WholeGemm
  <2> QED BY <1>1, <1>3, <1>4, <1>5, <1>11, <2>1, ProductTiles
<1>12. CASE window >= AfterProduct(K)
  BY <1>1, <1>3, <1>4, <1>5, <1>12, ProductLeaves
<1> QED BY <1>6, <1>7, <1>9, <1>10, <1>11, <1>12

\* The shape a conversion is of does not change.
LEMMA SameShape ==
  ASSUME NEW c, NEW d, ConvOK(c, d), c.pc = "host"
  PROVE  Advance(c).s = c.s
<1>1. PICK s, p : s = c.s /\ WholeTiles(s) /\ p \in Parts(s) /\ c = At(s, p)
  BY DEF ConvOK
<1>2. CASE \E q \in Parts(s) : Advance(At(s, p)) = At(s, q)
  <2>1. PICK q \in Parts(s) : Advance(At(s, p)) = At(s, q)
    BY <1>2
  <2>2. At(s, q).s = s
    BY DEF At, Counters
  <2> QED BY <1>1, <2>1, <2>2
<1>3. CASE Advance(At(s, p)) = [pc |-> "converted", s |-> s]
  <2>1. PICK r : r = Advance(At(s, p))
    OBVIOUS
  <2>2. r.s = s
    BY <1>3, <2>1
  <2> QED BY <1>1, <2>1, <2>2, Zenon
<1> QED BY <1>1, <1>2, <1>3, AdvanceAt

\* An elementwise launch, and the start of a conversion.
LEMMA GemmInvStarts ==
  ASSUME WholeGemms, TypeInv, GemmInv, ConvOK(conv', dst'), NEW j \in Jobs, LaunchElt(j) \/ ConvertWeight(j)
  PROVE  GemmInv'
<1>1. CASE LaunchElt(j)
  <2>1. stage' = "run" /\ job' = j /\ ~IsGemm(j)
    BY <1>1 DEF LaunchElt, Run
  <2> QED BY <2>1 DEF GemmInv
<1>2. CASE ConvertWeight(j)
  <2>1. stage' = "convert" /\ stage = "idle" /\ job' = j /\ u' = u /\ StartConversion(j.s, j.on_device)
    BY <1>2 DEF ConvertWeight
  <2>2. conv'.s = j.s
    BY <2>1 DEF StartConversion, Begin
  <2> QED BY <2>1, <2>2 DEF GemmInv
<1> QED BY <1>1, <1>2

\* A step of the conversion.
LEMMA GemmInvConverts ==
  ASSUME WholeGemms, TypeInv, GemmInv, ConvOK(conv', dst'), Converting
  PROVE  GemmInv'
<1>1. stage = "convert" /\ LayoutNext /\ u' = u /\ RegsOK(u)
      /\ stage' = (IF conv'.pc = "idle" THEN "idle" ELSE stage) /\ job' = (IF conv'.pc = "idle" THEN NoJob ELSE job)
  BY DEF Converting, GemmInv
<1>2. CASE ConvertTilePart
  <2>1. conv.s = job.s /\ conv'.s = conv.s
    BY <1>1, <1>2, SameShape DEF ConvertTilePart, GemmInv
  <2> QED BY <1>1, <2>1 DEF GemmInv
<1>3. CASE ConvertFails
  <2>1. conv'.pc = "idle"
    BY <1>3 DEF ConvertFails, ConvIdle
  <2> QED BY <1>1, <2>1 DEF GemmInv
<1> QED BY <1>1, <1>2, <1>3 DEF LayoutNext

\* The launch of a gemm.
LEMMA GemmInvLaunches ==
  ASSUME WholeGemms, TypeInv, GemmInv, ConvOK(conv', dst'), LaunchGemm
  PROVE  GemmInv'
<1>1. job \in Jobs /\ stage = "convert" /\ conv.pc = "converted" /\ Run(job) /\ weight' = WeightAt(at'[1], at'[2])
      /\ RegsOK(u) /\ conv.s = job.s /\ LaidOut(conv.s, dst)
  BY DEF LaunchGemm, GemmInv, TypeInv, ConvOK
<1>2. stage' = "run" /\ job' = job /\ u' = u /\ window' = 1
      /\ mem' = [d \in {0, 1} \X (0 .. Reach(job) - 1) |-> <<job.out, d[1], d[2]>>]
  BY <1>1, Zenon DEF Run, Enter
<1>3. ASSUME IsGemm(job) PROVE Held(job.s, at'[1], at'[2], weight')
  <2>1. WholeTiles(job.s)
    BY <1>1, <1>3 DEF WholeGemms, WholeGemm
  <2>2. LaidOut(job.s, dst)
    BY <1>1
  <2> QED BY <1>1, <2>1, <2>2, WeightHeld
<1>4. ASSUME IsGemm(job) PROVE ProductAt(ProductOf(job, at'[1]), weight', 1, pending', u, mem')
  <2>1. DOMAIN mem' = {0, 1} \X (0 .. Reach(job) - 1)
    <3>1. PICK D : D = {0, 1} \X (0 .. Reach(job) - 1)
      OBVIOUS
    <3>2. mem' = [d \in D |-> <<job.out, d[1], d[2]>>]
      BY <1>2, <3>1, Zenon
    <3>3. DOMAIN mem' = D
      BY <3>2
    <3> QED BY <3>1, <3>3, Zenon
  <2> QED BY <1>1, <1>4, <2>1, ProductStarts
<1> QED BY <1>2, <1>3, <1>4, Zenon DEF GemmInv

\* The end of a kernel.
LEMMA GemmInvFinishes ==
  ASSUME WholeGemms, TypeInv, GemmInv, Finish, IsGemm(job)
  PROVE  Earlier(ProductOf(job, at[1]), weight, TileCount(job), mem)
<1>1. PICK W, K : W = Windows(job, at) /\ K = ProductOf(job, at[1])
  OBVIOUS
<1>2. job \in Jobs /\ at \in Units /\ stage = "run" /\ PendingAt(W, window, code, pending) /\ pending = {}
  BY <1>1 DEF TypeInv, ModeInv, Finish
<1>3. PICK words : OfProduct(W, K, words)
  BY <1>1, <1>2, KernelOfProduct
<1>4. Len(W) = AfterProduct(K) + 1 /\ AfterProduct(K) \in Nat
  BY <1>3, ProductWindows
<1>5. window >= AfterProduct(K)
  BY <1>2, <1>4 DEF PendingAt
<1>6. ProductAt(K, weight, window, pending, u, mem)
  BY <1>1, <1>2 DEF GemmInv
<1>7. Earlier(K, weight, K.C, mem)
  BY <1>5, <1>6, Zenon DEF ProductAt
<1> QED BY <1>1, <1>7, ProductParts

\* A step keeps GemmInv.
LEMMA GemmInvStep ==
  ASSUME WholeGemms, TypeInv, GemmInv, [Next]_vars
  PROVE  GemmInv'
<1>0. ConvOK(conv', dst')
  BY ConversionSteps DEF WholeGemms, GemmInv
<1>1. ASSUME NEW j \in Jobs, LaunchElt(j) \/ ConvertWeight(j) PROVE GemmInv'
  BY <1>0, <1>1, GemmInvStarts
<1>2. CASE Converting
  BY <1>0, <1>2, GemmInvConverts
<1>3. CASE LaunchGemm
  BY <1>0, <1>3, GemmInvLaunches
<1>4. CASE Access
  <2>1. stage = "run" /\ stage' = "run" /\ job' = job /\ at' = at /\ weight' = weight
    BY <1>4 DEF Access
  <2>2. IsGemm(job) => ProductAt(ProductOf(job, at[1]), weight, window', pending', u', mem')
    BY <1>4, GemmAccess
  <2> QED BY <1>0, <2>1, <2>2 DEF GemmInv
<1>5. CASE Finish
  <2>1. stage = "run" /\ stage' = "done" /\ job' = job /\ mem' = mem /\ at' = at /\ weight' = weight
    BY <1>5 DEF Finish
  <2>2. IsGemm(job) => Earlier(ProductOf(job, at[1]), weight, TileCount(job), mem)
    BY <1>5, GemmInvFinishes
  <2> QED BY <1>0, <2>1, <2>2 DEF GemmInv
<1>6. CASE Return
  <2>1. stage' = "idle" /\ u' = [UnitInit EXCEPT !.mode = u.mode, !.ab = u.ab]
    BY <1>6 DEF Return
  <2>2. RegsOK(u')
    BY <2>1, UnknownRegs
  <2> QED BY <1>0, <2>1, <2>2 DEF GemmInv
<1>7. CASE UNCHANGED vars
  <2>1. /\ stage' = stage /\ job' = job /\ at' = at /\ weight' = weight /\ window' = window /\ pending' = pending
        /\ u' = u /\ mem' = mem /\ conv' = conv
    BY <1>7 DEF vars
  <2> QED BY <1>0, <2>1 DEF GemmInv
<1> QED BY <1>1, <1>2, <1>3, <1>4, <1>5, <1>6, <1>7 DEF Next

\* The invariants hold of every state.
LEMMA GemmInvHolds == ASSUME WholeGemms PROVE Spec => [](TypeInv /\ GemmInv)
<1>1. Init => TypeInv /\ GemmInv
  <2> SUFFICES ASSUME Init PROVE TypeInv /\ GemmInv
    OBVIOUS
  <2>1. TypeInv
    BY TypeInit
  <2>2. ConvOK(conv, dst)
    BY DEF Init, LayoutInit, ConvIdle, ConvOK
  <2>3. GemmInv
    BY <2>2, UnknownRegs DEF Init, GemmInv
  <2> QED BY <2>1, <2>3
<1>2. TypeInv /\ GemmInv /\ [Next]_vars => (TypeInv /\ GemmInv)'
  BY TypeInvStep, GemmInvStep
<1> QED BY <1>1, <1>2, PTL DEF Spec

\* The instruction an access of a tile executes.
LEMMA ProductFetches ==
  ASSUME NEW K, IsProduct(K), NEW wt, NEW t, NEW q, NEW P, NEW v, NEW m, Tiling(K, wt, t, q, P, v, m),
         NEW W, TileWindows(W, K, t), NEW n, n \in DOMAIN W[WindowAt(K, t, q)],
         NEW a, a = W[WindowAt(K, t, q)][n], v.mode = "HAB_PIM"
  PROVE  /\ a.k \in {"R", "W"} => Fetch(v).type \notin {"EXIT", "?"}
         /\ a.k = "HAB" => Fetch(v).type = "EXIT"
<1>0. PICK w : w = WindowAt(K, t, q)
  OBVIOUS
<1>1. /\ Rounds(K.h) \in Nat \ {0}
      /\ \A X : GemmAt(v, Rounds(K.h), X) => Fetch(v).type \in {"MAC", "NOP"}
  <2>1. PICK rounds \in Nat \ {0} : rounds = Rounds(K.h)
    BY ProductNumbers
  <2>2. ASSUME NEW X, GemmAt(v, rounds, X) PROVE Fetch(v).type \in {"MAC", "NOP"}
    <3>1. Fetch(v) \in {Mac(0), Mac(1), Idle(3)}
      BY <2>2, GemmFetches
    <3> QED BY <3>1, GemmTakes
  <2> QED BY <2>1, <2>2
<1>2. TileIn(K, wt, t, q, P, v, m)
  BY Zenon DEF Tiling
<1>3. CASE q = 0
  <2>1. W[w] = <<ClearAll>>
    BY <1>0, <1>3, Zenon DEF TileWindows
  <2> QED BY <1>0, <2>1 DEF ClearAll
<1>4. CASE \E x \in 0 .. 2 * K.h - 1 : q = 2 * x + 1
  <2>1. PICK x \in 0 .. 2 * K.h - 1 : q = 2 * x + 1
    BY <1>4
  <2>2. PICK base : W[w] = <<GrfWrite(base)>>
    BY <1>0, <2>1, Zenon DEF TileWindows
  <2> QED BY <1>0, <2>2 DEF GrfWrite
<1>5. CASE \E x \in 0 .. 2 * K.h - 1 : q = 2 * x + 2 /\ InWeights(K, wt, t, x, P, v)
  <2>1. PICK x \in 0 .. 2 * K.h - 1 : q = 2 * x + 2 /\ InWeights(K, wt, t, x, P, v)
    BY <1>5
  <2>2. PICK bank, base : W[w] = WeightWin(bank, base)
    BY <1>0, <2>1, Zenon DEF TileWindows
  <2>3. a.k = "R"
    BY <1>0, <2>2 DEF WeightWin, R_CMD
  <2>4. \E X : GemmAt(v, Rounds(K.h), X)
    BY <2>1, Zenon DEF InWeights, WeightsAt
  <2> QED BY <1>1, <2>3, <2>4
<1>6. CASE q = 4 * K.h + 1 /\ InSums(K, wt, t, P, v, m)
  <2>1. W[w] = SumWin(t * NumGrf)
    BY <1>0, <1>6, Zenon DEF TileWindows
  <2>2. a.k \in {"R", "W"}
    <3>1. PICK base : W[w] = SumWin(base)
      BY <2>1
    <3> QED BY <1>0, <3>1 DEF SumWin, R_CMD, W_CMD
  <2>3. \E X : GemmAt(v, Rounds(K.h), X)
    BY <1>6, Zenon DEF InSums, SumsAt
  <2> QED BY <1>1, <2>2, <2>3
<1>7. CASE q = 4 * K.h + 2 /\ InLeave(K, wt, t, P, v, m)
  <2>1. W[w] = <<HabAll>>
    BY <1>0, <1>7, Zenon DEF TileWindows
  <2>2. a.k = "HAB"
    BY <1>0, <2>1 DEF HabAll
  <2>3. GemmEnded(v, Rounds(K.h))
    BY <1>7, Zenon DEF InLeave, LeaveAt
  <2>4. v.pc = 5 /\ 5 \in DOMAIN v.crf /\ v.crf[5] = Exit
    BY <2>3 DEF GemmEnded, GemmLoaded
  <2>5. Fetch(v) = Exit
    BY <2>4 DEF Fetch
  <2> QED BY <2>2, <2>5, GemmTakes
<1> QED BY <1>2, <1>3, <1>4, <1>5, <1>6, <1>7, Zenon DEF TileIn

\* In a gemm, program and kernel agree on the number of commands.
THEOREM GemmInStep == ASSUME WholeGemms PROVE Spec => [](IsGemm(job) => InStep)
<1>1. TypeInv /\ GemmInv => (IsGemm(job) => InStep)
  <2> SUFFICES ASSUME TypeInv, GemmInv, IsGemm(job), stage = "run", u.mode = "HAB_PIM", NEW p \in pending
               PROVE  /\ code[p[1]].k \in {"R", "W"} => Fetch(u).type \notin {"EXIT", "?"}
                      /\ code[p[1]].k = "HAB" => Fetch(u).type = "EXIT"
    BY DEF InStep
  <2>1. PICK W, K : W = Windows(job, at) /\ K = ProductOf(job, at[1])
    OBVIOUS
  <2>2. job \in Jobs /\ at \in Units /\ ModeAt(W, window, u.mode, u.ab) /\ PendingAt(W, window, code, pending)
    BY <2>1 DEF TypeInv, ModeInv
  <2>3. PICK words : OfProduct(W, K, words)
    BY <2>1, <2>2, KernelOfProduct
  <2>4. ProductAt(K, weight, window, pending, u, mem)
    BY <2>1 DEF GemmInv
  <2>5. AfterProduct(K) \in Nat /\ AfterProduct(K) > 7 /\ Len(W) = AfterProduct(K) + 1 /\ IsProduct(K)
    BY <2>3, ProductWindows
  <2>6. window \in 1 .. Len(W) + 1 /\ window \notin 1 .. 5 /\ window # Len(W) /\ window # Len(W) + 1
        /\ window # Len(W) - 1
    <3>1. window \in 1 .. Len(W) + 1
      BY <2>2 DEF PendingAt
    <3>2. window \notin {1, Len(W), Len(W) + 1} /\ window \notin 2 .. 5 /\ window # Len(W) - 1
      BY <2>2 DEF ModeAt
    <3> QED BY <3>1, <3>2
  <2>7. window \in 6 .. AfterProduct(K) - 1
    BY <2>5, <2>6
  <2>8. code = W[window] /\ p[1] \in DOMAIN W[window]
    BY <2>2, <2>5, <2>7 DEF PendingAt
  <2>9. CASE window = 6
    <3>1. W[window] = program_crf(words, 1)
      BY <2>3, <2>9 DEF OfProduct
    <3>2. code[p[1]].k = "CRF"
      BY <2>8, <3>1 DEF program_crf
    <3> QED BY <3>2
  <2>10. CASE window \in 7 .. AfterProduct(K) - 1
    <3>1. PICK t, q : window = WindowAt(K, t, q) /\ Tiling(K, weight, t, q, pending, u, mem)
      BY <2>4, <2>10, Zenon DEF ProductAt
    <3>2. TileWindows(W, K, t)
      BY <2>3, <3>1, Zenon DEF OfProduct, Tiling
    <3> QED BY <2>5, <2>8, <3>1, <3>2, ProductFetches
  <2> QED BY <2>5, <2>7, <2>9, <2>10
<1> QED BY <1>1, GemmInvHolds, PTL

\* In every kernel the program is loaded and has not ended while there are accesses
\* to banks, and has ended when the kernel leaves HAB_PIM, in whatever order the
\* memory takes the accesses of a window.
THEOREM AllInStep == ASSUME WholeElts, WholeGemms PROVE Spec => []InStep
<1>1. (~IsGemm(job) => InStep) /\ (IsGemm(job) => InStep) => InStep
  OBVIOUS
<1> QED BY <1>1, EltInStep, GemmInStep, PTL

-----------------------------------------------------------------------------
(* The weights a unit meets.                                               *)

\* The number of unit b of channel ch.
UnitNum(ch, b) == ch * NumPimBlocks + b

\* Channel and unit are its digits.
LEMMA UnitNumDigits ==
  ASSUME NEW ch \in 0 .. NumChan - 1, NEW b \in 0 .. NumPimBlocks - 1, NEW U, U = UnitNum(ch, b)
  PROVE  /\ U \in 0 .. AllParts - 1 /\ U \in Nat /\ U \div NumPimBlocks = ch /\ U % NumPimBlocks = b
         /\ U % BgUnits = b % BgUnits
<1>1. PICK P \in Nat \ {0}, C \in Nat \ {0} : P = NumPimBlocks /\ C = NumChan
  BY Positive
<1>2. U \in 0 .. C * P - 1
  <2>1. ch \in 0 .. C - 1 /\ b \in 0 .. P - 1
    BY <1>1
  <2>2. ch * P + b \in 0 .. C * P - 1
    BY <2>1, DigitsBound
  <2> QED BY <1>1, <2>2 DEF UnitNum
<1>3. C * P = AllParts
  BY <1>1 DEF AllParts
<1>4. U \div P = ch /\ U % P = b
  <2>1. ch \in Nat /\ b \in 0 .. P - 1 /\ U = ch * P + b
    BY <1>1 DEF UnitNum
  <2> QED BY <2>1, DivNat
<1>5. U \in Nat
  BY <1>2
<1>6. U % BgUnits = b % BgUnits
  <2>1. (U % NumPimBlocks) % BgUnits = U % BgUnits
    BY <1>5, UnitInGroup
  <2> QED BY <1>1, <1>4, <2>1, Zenon
<1> QED BY <1>1, <1>2, <1>3, <1>4, <1>5, <1>6

\* Output z of tile yt in iteration it, counted over all matrices.
Flat(s, it, yt, z) == it * OutCnt(s) + yt * OutTile + z
InWeight(s, it, yt, z) ==
  it \in 0 .. Iterations(s) - 1 /\ yt \in 0 .. OutParts(s) - 1 /\ z \in 0 .. OutTile - 1

\* It is an output of a matrix.
LEMMA FlatOutput ==
  ASSUME NEW s, WholeTiles(s), NEW it, NEW yt, NEW z, InWeight(s, it, yt, z)
  PROVE  \E m \in 0 .. s.nc - 1, o \in 0 .. s.out - 1 : m * s.out + o = Flat(s, it, yt, z)
<1>1. PICK I \in Nat \ {0}, Y \in Nat \ {0}, T \in Nat \ {0} :
        I = Iterations(s) /\ Y = OutParts(s) /\ T = OutTile /\ OutCnt(s) = Y * T
  BY Shape, Positive
<1>2. PICK n \in Nat \ {0}, q \in Nat \ {0} : n = s.nc /\ q = s.out
  BY DEF WholeTiles
<1>3. it \in 0 .. I - 1 /\ yt \in 0 .. Y - 1 /\ z \in 0 .. T - 1
  BY <1>1, Zenon DEF InWeight
<1>4. PICK f \in Nat : f = Flat(s, it, yt, z) /\ f \in 0 .. (I * Y) * T - 1
  <2>1. PICK a : a = it * Y + yt /\ a \in 0 .. I * Y - 1
    BY <1>3, DigitsBound
  <2>2. PICK M \in Nat : M = I * Y
    OBVIOUS
  <2>3. a * T + z \in 0 .. M * T - 1
    BY <1>3, <2>1, <2>2, DigitsBound
  <2>4. it * (Y * T) + yt * T + z = (it * Y + yt) * T + z
    BY <1>3
  <2>5. Flat(s, it, yt, z) = a * T + z
    BY <1>1, <2>1, <2>4, Zenon DEF Flat
  <2>6. PICK f : f = a * T + z
    OBVIOUS
  <2>7. f \in 0 .. M * T - 1 /\ f \in Nat
    BY <2>3, <2>6
  <2> QED BY <2>2, <2>5, <2>6, <2>7, Zenon
<1>5. (I * Y) * T = n * q
  <2>1. CASE check_chwise_gemm_bo(s)
    <3>1. Y = 1 /\ n * q = I * T
      BY <1>1, <1>2, <2>1, Shape
    <3> QED BY <3>1
  <2>2. CASE ~check_chwise_gemm_bo(s)
    <3>1. q = Y * T /\ n = I
      BY <1>1, <1>2, <2>2, Shape
    <3> QED BY <3>1
  <2> QED BY <2>1, <2>2
<1>6. f \in 0 .. n * q - 1
  BY <1>4, <1>5, Zenon
<1>7. PICK m \in Nat, o \in 0 .. q - 1 : m = f \div q /\ o = f % q /\ f = m * q + o
  BY DivSplit, Zenon
<1>8. m \in 0 .. n - 1
  BY <1>6, <1>7, DigitsBelow
<1> QED BY <1>2, <1>4, <1>7, <1>8

\* Its tile and its place in it.
LEMMA FlatPlace ==
  ASSUME NEW s, WholeTiles(s), NEW it, NEW yt, NEW z, InWeight(s, it, yt, z),
         NEW m \in 0 .. s.nc - 1, NEW o \in 0 .. s.out - 1, m * s.out + o = Flat(s, it, yt, z)
  PROVE  Tile(s, m, o) = it * OutParts(s) + yt /\ InOut(s, m, o) = z
<1>1. PICK Y \in Nat \ {0}, T \in Nat \ {0} : Y = OutParts(s) /\ T = OutTile /\ OutCnt(s) = Y * T
  BY Shape, Positive
<1>2. PICK i2 \in 0 .. Iterations(s) - 1, y2 \in 0 .. OutParts(s) - 1 :
        /\ Tile(s, m, o) = i2 * OutParts(s) + y2
        /\ InOut(s, m, o) \in 0 .. OutTile - 1
        /\ m * s.out + o = i2 * OutCnt(s) + y2 * OutTile + InOut(s, m, o)
  BY OutputDigits
<1>3. PICK z2 \in 0 .. T - 1 : z2 = InOut(s, m, o)
  BY <1>1, <1>2
<1>4. it \in Nat /\ yt \in 0 .. Y - 1 /\ z \in 0 .. T - 1 /\ i2 \in Nat /\ y2 \in 0 .. Y - 1
  BY <1>1, Shape DEF InWeight
<1>5. it * (Y * T) + yt * T + z = i2 * (Y * T) + y2 * T + z2
  BY <1>1, <1>2, <1>3, Zenon DEF Flat
<1>6. (it * Y + yt) * T + z = (i2 * Y + y2) * T + z2
  BY <1>4, <1>5
<1>7. PICK a \in Nat, a2 \in Nat : a = it * Y + yt /\ a2 = i2 * Y + y2
  BY <1>4
<1>8. a = a2 /\ z = z2
  <2>1. a \in Int /\ a2 \in Int /\ a * T + z = a2 * T + z2
    BY <1>6, <1>7
  <2> QED BY <1>4, <2>1, DigitsUnique
<1> QED BY <1>1, <1>2, <1>3, <1>7, <1>8

\* Where the kernels read item l of tile xt of inputs, for the output of lane n of
\* unit <<ch, b>>.
CellAt(s, it, yt, ch, b, n, xt, l) ==
  <<ch, b \div BgUnits, 2 * (b % BgUnits) + (xt % 2),
    ((it * OutParts(s) + yt) * TilePairs(s) + (xt \div 2)) * NumGrf * NumGrf + n * NumGrf + l>>

\* ReadFrom says so.
LEMMA ReadAt ==
  ASSUME NEW s, WholeTiles(s), NEW ch \in 0 .. NumChan - 1, NEW b \in 0 .. NumPimBlocks - 1, NEW n \in Lanes,
         NEW l \in Lanes, NEW xt \in 0 .. 2 * TilePairs(s) - 1, NEW z, z = UnitNum(ch, b) * NumGrf + n,
         NEW it, NEW yt, InWeight(s, it, yt, z),
         NEW m \in 0 .. s.nc - 1, NEW o \in 0 .. s.out - 1, m * s.out + o = Flat(s, it, yt, z),
         NEW k, k = xt * NumGrf + l
  PROVE  k \in 0 .. s.in_cnt - 1 /\ ReadFrom(s, m, o, k) = CellAt(s, it, yt, ch, b, n, xt, l)
<1>1. PICK G \in Nat \ {0}, X \in Nat \ {0} : G = NumGrf /\ X = TilePairs(s)
  BY Positive, Shape
<1>2. PICK U \in Nat : U = UnitNum(ch, b)
  BY UnitNumDigits
<1>3. U \div NumPimBlocks = ch /\ U % NumPimBlocks = b /\ U % BgUnits = b % BgUnits
  BY <1>2, UnitNumDigits
<1>4. Tile(s, m, o) = it * OutParts(s) + yt /\ InOut(s, m, o) = z
  BY FlatPlace
<1>5. z \div NumGrf = U /\ z % NumGrf = n
  <2>1. n \in 0 .. G - 1 /\ z = U * G + n
    BY <1>1, <1>2 DEF Lanes
  <2>2. z \div G = U /\ z % G = n
    BY <2>1, DivNat
  <2> QED BY <1>1, <2>2
<1>6. s.in_cnt = (2 * X) * G
  BY <1>1, Shape
<1>7. k \in 0 .. (2 * X) * G - 1
  <2>1. PICK N \in Nat : N = 2 * X
    OBVIOUS
  <2>2. xt \in 0 .. N - 1 /\ l \in 0 .. G - 1
    BY <1>1, <2>1 DEF Lanes
  <2>3. xt * G + l \in 0 .. N * G - 1
    BY <2>2, DigitsBound
  <2> QED BY <1>1, <2>1, <2>3
<1>8. k \div NumGrf = xt /\ k % NumGrf = l
  <2>1. xt \in Nat /\ l \in 0 .. G - 1 /\ k = xt * G + l
    BY <1>1 DEF Lanes
  <2>2. k \div G = xt /\ k % G = l
    BY <2>1, DivNat, Zenon
  <2> QED BY <1>1, <2>2
<1>9. k \div (2 * NumGrf) = xt \div 2
  <2>1. k \in 0 .. (2 * X) * NumGrf - 1
    BY <1>1, <1>7
  <2>2. k \div (2 * NumGrf) = (k \div NumGrf) \div 2
    BY <2>1, InputDigits
  <2> QED BY <1>8, <2>2, Zenon
<1>10. ReadFrom(s, m, o, k) =
         <<U \div NumPimBlocks, (U % NumPimBlocks) \div BgUnits, 2 * (U % BgUnits) + ((k \div NumGrf) % 2),
           (Tile(s, m, o) * TilePairs(s) + (k \div (2 * NumGrf))) * NumGrf * NumGrf + (z % NumGrf) * NumGrf
             + (k % NumGrf)>>
  BY <1>4, <1>5, Zenon DEF ReadFrom, Tile, InOut, TilePairs, BgUnits
<1>11. ReadFrom(s, m, o, k) = CellAt(s, it, yt, ch, b, n, xt, l)
  BY <1>3, <1>4, <1>5, <1>8, <1>9, <1>10, Zenon DEF CellAt
<1> QED BY <1>6, <1>7, <1>11, Zenon

\* The tile of an iteration, a row and a tile of outputs.
LEMMA TileNumber ==
  ASSUME NEW j \in Jobs, IsGemm(j), WholeGemm(j), NEW i, NEW r, NEW y, IsTile(j, i, r, y), NEW t, t = TileNum(j, i, r, y)
  PROVE  t \in 0 .. TileCount(j) - 1 /\ IterOf(j, t) = i /\ RowOf(j, t) = r /\ OutOf(j, t) = y
<1>1. PICK I \in Nat \ {0}, H \in Nat \ {0}, O \in Nat \ {0} : I = IterCnt(j) /\ H = j.inout_h /\ O = OutTiles(j)
  BY GemmShape
<1>2. i \in 0 .. I - 1 /\ r \in 0 .. H - 1 /\ y \in 0 .. O - 1
  BY <1>1, Zenon DEF IsTile
<1>3. PICK a : a = i * H + r /\ a \in 0 .. I * H - 1
  BY <1>2, DigitsBound
<1>4. PICK M \in Nat : M = I * H
  OBVIOUS
<1>5. a \in 0 .. M - 1 /\ a \in Nat
  BY <1>3, <1>4
<1>6. a * O + y \in 0 .. M * O - 1
  BY <1>2, <1>5, DigitsBound
<1>7. t = a * O + y /\ TileCount(j) = M * O
  BY <1>1, <1>3, <1>4, Zenon DEF TileNum, TileCount
<1>8. t \div O = a /\ t % O = y
  BY <1>2, <1>5, <1>7, DivNat
<1>9. a \div H = i /\ a % H = r
  <2>1. i \in Nat
    BY <1>2
  <2> QED BY <1>2, <1>3, <2>1, DivNat
<1>10. t \in 0 .. TileCount(j) - 1
  BY <1>6, <1>7, Zenon
<1> QED BY <1>1, <1>8, <1>9, <1>10, Zenon DEF IterOf, RowOf, OutOf

\* The location of a weight, as the windows have it and as the layout has it.
LEMMA SameLocation ==
  ASSUME NEW A \in Nat, NEW X \in Nat, NEW q \in Nat, NEW G \in Nat, NEW n \in Nat, NEW l \in Nat
  PROVE  ((A * X) * (G * G) + q * (G * G)) + n * G + l = (A * X + q) * G * G + n * G + l
<1>1. PICK B \in Nat : B = A * X
  OBVIOUS
<1>2. B * (G * G) + q * (G * G) = (B + q) * G * G
  OBVIOUS
<1> QED BY <1>1, <1>2

\* A tile of outputs of an iteration that there are weights of.
Weighted(j, t) == t \in 0 .. TileCount(j) - 1 /\ IterOf(j, t) \in 0 .. Iterations(j.s) - 1
FlatOf(j, ch, b, t, n) == Flat(j.s, IterOf(j, t), OutOf(j, t), UnitNum(ch, b) * NumGrf + n)
KthOf(h, x, l) == InTileOf(h, x) * NumGrf + l

\* The output of a lane is an output of the weight.
LEMMA LaneOutput ==
  ASSUME NEW j \in Jobs, IsGemm(j), WholeGemm(j), NEW ch \in 0 .. NumChan - 1, NEW b \in 0 .. NumPimBlocks - 1,
         NEW t, Weighted(j, t), NEW n \in Lanes
  PROVE  InWeight(j.s, IterOf(j, t), OutOf(j, t), UnitNum(ch, b) * NumGrf + n)
<1>1. IsTile(j, IterOf(j, t), RowOf(j, t), OutOf(j, t))
  BY TileDigits DEF Weighted
<1>2. OutOf(j, t) \in 0 .. OutParts(j.s) - 1
  BY <1>1, GemmShape DEF IsTile
<1>3. UnitNum(ch, b) * NumGrf + n \in 0 .. OutTile - 1
  <2>1. PICK A \in Nat \ {0}, G \in Nat \ {0}, U \in Nat : A = AllParts /\ G = NumGrf /\ U = UnitNum(ch, b) /\ U \in 0 .. A - 1
    BY Positive, UnitNumDigits
  <2>2. n \in 0 .. G - 1
    BY <2>1 DEF Lanes
  <2>3. U * G + n \in 0 .. A * G - 1
    BY <2>1, <2>2, DigitsBound
  <2> QED BY <2>1, <2>3, Geometry
<1> QED BY <1>2, <1>3, Zenon DEF InWeight, Weighted

\* The weights of a lane are those of its output.
LEMMA LaneWeight ==
  ASSUME NEW j \in Jobs, IsGemm(j), WholeGemm(j), NEW ch \in 0 .. NumChan - 1, NEW b \in 0 .. NumPimBlocks - 1,
         NEW wt, Held(j.s, ch, b, wt), NEW K, K = ProductOf(j, ch), NEW t, Weighted(j, t),
         NEW x \in 0 .. 2 * K.h - 1, NEW n \in Lanes, NEW l \in Lanes
  PROVE  /\ PlaceFor(K, t, x, n, l) \in DOMAIN wt
         /\ wt[PlaceFor(K, t, x, n, l)] = FlatOf(j, ch, b, t, n) * j.s.in_cnt + KthOf(K.h, x, l)
<1>1. PICK s, i, y, z : s = j.s /\ i = IterOf(j, t) /\ y = OutOf(j, t) /\ z = UnitNum(ch, b) * NumGrf + n
  OBVIOUS
<1>2. WholeTiles(s) /\ InWeight(s, i, y, z)
  BY <1>1, LaneOutput DEF WholeGemm
<1>3. PICK h \in Nat \ {0} : h = K.h /\ h = TilePairs(s)
  BY <1>1, ProductParts, GemmShape
<1>4. PICK xt, bk, q : xt = InTileOf(h, x) /\ bk = BankAt(h, x) /\ q = PairOf(h, x)
  OBVIOUS
<1>5. xt \in 0 .. 2 * h - 1 /\ xt \div 2 = q /\ xt % 2 = bk /\ q \in Nat /\ bk \in 0 .. 1
  <2>1. x \in 0 .. 2 * h - 1
    BY <1>3
  <2>2. q \in 0 .. h - 1 /\ bk \in 0 .. 1 /\ xt \in 0 .. 2 * h - 1 /\ xt \div 2 = q /\ xt % 2 = bk
    BY <1>4, <2>1, PairNumbers
  <2> QED BY <2>2
<1>6. PICK m, o : m \in 0 .. s.nc - 1 /\ o \in 0 .. s.out - 1 /\ m * s.out + o = Flat(s, i, y, z)
  BY <1>2, FlatOutput
<1>7. PICK k : k = xt * NumGrf + l
  OBVIOUS
<1>8. PICK d : d = ReadFrom(s, m, o, k) /\ d = CellAt(s, i, y, ch, b, n, xt, l) /\ k \in 0 .. s.in_cnt - 1
  <2>1. xt \in 0 .. 2 * TilePairs(s) - 1
    BY <1>3, <1>5
  <2> QED BY <1>1, <1>2, <1>6, <1>7, <2>1, ReadAt
<1>9. PICK loc, bq : /\ loc = ((i * OutParts(s) + y) * h + q) * NumGrf * NumGrf + n * NumGrf + l
                     /\ bq = b % BgUnits /\ bq \in Nat
  <2>1. BgUnits \in Nat \ {0} /\ b \in Nat
    BY Positive
  <2>2. b % BgUnits \in 0 .. BgUnits - 1
    BY <2>1, DivMod
  <2>3. b % BgUnits \in Nat
    BY <2>2
  <2> QED BY <2>3
<1>10. d = <<ch, b \div BgUnits, 2 * bq + bk, loc>>
  BY <1>3, <1>5, <1>8, <1>9, Zenon DEF CellAt
<1>11. d[1] = ch /\ d[2] = b \div BgUnits /\ d[3] = 2 * bq + bk /\ d[4] = loc
  <2>1. PICK e2, e3 : e2 = b \div BgUnits /\ e3 = 2 * bq + bk
    OBVIOUS
  <2>2. d = <<ch, e2, e3, loc>>
    BY <1>10, <2>1, Zenon
  <2>3. d[1] = ch /\ d[2] = e2 /\ d[3] = e3 /\ d[4] = loc
    BY <2>2
  <2> QED BY <2>1, <2>3, Zenon
<1>12. (2 * bq + bk) \div 2 = bq /\ (2 * bq + bk) % 2 = bk
  BY <1>5, <1>9
<1>13. InUnit(d, ch, b) /\ d[3] % 2 = bk
  BY <1>9, <1>11, <1>12, Zenon DEF InUnit
<1>14. ItemHeld(d, wt, (m * s.out + o) * s.in_cnt + k)
  <2>1. Held(s, ch, b, wt)
    BY <1>1
  <2> QED BY <1>6, <1>8, <1>13, <2>1, Zenon DEF Held
<1>15. <<bk, loc>> \in DOMAIN wt /\ wt[<<bk, loc>>] = Flat(s, i, y, z) * s.in_cnt + k
  BY <1>6, <1>11, <1>13, <1>14, Zenon DEF ItemHeld
<1>16. PlaceFor(K, t, x, n, l) = <<bk, loc>>
  <2>1. i \in Nat /\ y \in Nat
    BY <1>2, Shape DEF InWeight
  <2>2. PICK A \in Nat : A = i * OutParts(s) + y
    <3>1. PICK Y \in Nat : Y = OutParts(s)
      BY <1>2, Shape
    <3>2. i * Y + y \in Nat
      BY <2>1
    <3> QED BY <3>1, <3>2
  <2>3. K.wb[t] = (A * h) * Square
    <3>1. t \in 0 .. TileCount(j) - 1
      BY DEF Weighted
    <3>2. K.wb[t] = TileWeights(j, h, i, y)
      BY <1>1, <1>3, <3>1, ProductParts
    <3>3. TileWeights(j, h, i, y) = ((i * OutTiles(j) + y) * h) * Square
      BY <1>1, <1>3, <2>1, TileWeightsNat
    <3>4. OutTiles(j) = OutParts(s)
      BY <1>1, GemmShape
    <3> QED BY <2>2, <3>2, <3>3, <3>4, Zenon
  <2>4. PICK G \in Nat : G = NumGrf /\ n \in Nat /\ l \in Nat
    BY Positive DEF Lanes
  <2>5. ((A * h) * (G * G) + q * (G * G)) + n * G + l = (A * h + q) * G * G + n * G + l
    BY <1>5, <2>4, SameLocation
  <2>6. (K.wb[t] + q * Square) + n * NumGrf + l = loc
    BY <1>9, <2>2, <2>3, <2>4, <2>5, Zenon DEF Square
  <2> QED BY <1>3, <1>4, <2>6, Zenon DEF PlaceFor
<1> QED BY <1>1, <1>3, <1>4, <1>7, <1>15, <1>16, Zenon DEF FlatOf, KthOf

\* So the tile has its weights.
LEMMA TileHasWeights ==
  ASSUME NEW j \in Jobs, IsGemm(j), WholeGemm(j), NEW ch \in 0 .. NumChan - 1, NEW b \in 0 .. NumPimBlocks - 1,
         NEW wt, Held(j.s, ch, b, wt), NEW K, K = ProductOf(j, ch), NEW t, Weighted(j, t)
  PROVE  HasWeights(K, wt, t)
<1>1. \A x \in 0 .. 2 * K.h - 1 : \A n \in Lanes : \A l \in Lanes : PlaceFor(K, t, x, n, l) \in DOMAIN wt
  BY LaneWeight
<1>2. Squares(K.wb[t])
  <2>0. PICK S \in Nat \ {0} : S = Square
    BY Positive DEF Square
  <2>1. PICK i, y, h : S = Square /\ i = IterOf(j, t) /\ y = OutOf(j, t) /\ h = TilePairs(j.s)
    BY <2>0
  <2>2. t \in 0 .. TileCount(j) - 1
    BY DEF Weighted
  <2>3. i \in Nat /\ y \in Nat
    <3>1. IsTile(j, i, RowOf(j, t), y)
      BY <2>1, <2>2, TileDigits
    <3> QED BY <3>1, GemmShape DEF IsTile
  <2>4. K.wb[t] = TileWeights(j, h, i, y)
    BY <2>1, <2>2, ProductParts
  <2>5. TileWeights(j, h, i, y) = ((i * OutTiles(j) + y) * h) * Square
    BY <2>1, <2>3, TileWeightsNat
  <2>6. PICK A \in Nat : A = (i * OutTiles(j) + y) * h
    <3>1. PICK O \in Nat, X \in Nat : O = OutTiles(j) /\ X = h
      BY <2>1, GemmShape
    <3>2. (i * O + y) * X \in Nat
      BY <2>3
    <3> QED BY <3>1, <3>2
  <2>7. K.wb[t] = A * S + 0 /\ 0 \in 0 .. S - 1
    <3>1. A * S = A * S + 0
      OBVIOUS
    <3> QED BY <2>1, <2>4, <2>5, <2>6, <3>1
  <2>8. K.wb[t] % S = 0
    <3>1. PICK x : x = K.wb[t]
      OBVIOUS
    <3>2. x = A * S + 0 /\ 0 \in 0 .. S - 1
      BY <2>7, <3>1, Zenon
    <3>3. x \div S = A /\ x % S = 0
      BY <3>2, DivNat
    <3> QED BY <3>1, <3>3, Zenon
  <2> QED BY <2>1, <2>8 DEF Squares
<1> QED BY <1>1, <1>2, Zenon DEF HasWeights

\* Every input of a row meets a weight once.
LEMMA KthOnce ==
  ASSUME NEW h \in Nat \ {0}
  PROVE  /\ \A x \in 0 .. 2 * h - 1 : \A l \in Lanes : KthOf(h, x, l) \in 0 .. (2 * h) * NumGrf - 1
         /\ \A k \in 0 .. (2 * h) * NumGrf - 1 : \E x \in 0 .. 2 * h - 1 : \E l \in Lanes : KthOf(h, x, l) = k
<1>1. PICK G \in Nat \ {0}, N \in Nat : G = NumGrf /\ N = 2 * h
  BY Positive
<1>2. Lanes = 0 .. G - 1
  BY <1>1 DEF Lanes
<1>3. ASSUME NEW x \in 0 .. 2 * h - 1, NEW l \in Lanes PROVE KthOf(h, x, l) \in 0 .. (2 * h) * NumGrf - 1
  <2>1. PICK xt : xt = InTileOf(h, x) /\ xt \in 0 .. N - 1
    BY <1>1, PairNumbers
  <2>2. xt * G + l \in 0 .. N * G - 1
    BY <1>2, <2>1, DigitsBound
  <2> QED BY <1>1, <2>1, <2>2, Zenon DEF KthOf
<1>4. ASSUME NEW k \in 0 .. (2 * h) * NumGrf - 1
      PROVE  \E x \in 0 .. 2 * h - 1 : \E l \in Lanes : KthOf(h, x, l) = k
  <2>1. k \in 0 .. N * G - 1 /\ k \in Nat
    BY <1>1
  <2>2. PICK xt \in Nat, l \in 0 .. G - 1 : xt = k \div G /\ l = k % G /\ k = xt * G + l
    BY <2>1, DivSplit, Zenon
  <2>3. xt \in 0 .. N - 1
    BY <2>1, <2>2, DigitsBelow
  <2>4. \E x \in 0 .. 2 * h - 1 : InTileOf(h, x) = xt
    <3>1. PICK q \in Nat, e \in 0 .. 1 : xt = 2 * q + e
      BY HalfParity
    <3>2. CASE e = 0
      <4>1. q \in 0 .. 2 * h - 1 /\ q < h
        BY <1>1, <2>3, <3>1, <3>2
      <4>2. InTileOf(h, q) = xt
        BY <3>1, <3>2, <4>1 DEF InTileOf, PairOf, BankAt
      <4> QED BY <4>1, <4>2
    <3>3. CASE e = 1
      <4>1. q + h \in 0 .. 2 * h - 1 /\ ~(q + h < h) /\ (q + h) - h = q
        BY <1>1, <2>3, <3>1, <3>3
      <4>2. InTileOf(h, q + h) = xt
        BY <3>1, <3>3, <4>1 DEF InTileOf, PairOf, BankAt
      <4> QED BY <4>1, <4>2
    <3> QED BY <3>1, <3>2, <3>3
  <2> QED BY <1>1, <1>2, <2>2, <2>4, Zenon DEF KthOf
<1> QED BY <1>3, <1>4

\* A row of inputs that begins at ib against the weights of output f.
RowSum(f, ib, N) == <<"SUM", {<<f * N + k, ib + k>> : k \in 0 .. N - 1}>>

\* What the registers of a lane have summed up.
LEMMA TileSumIs ==
  ASSUME NEW j \in Jobs, IsGemm(j), WholeGemm(j), NEW ch \in 0 .. NumChan - 1, NEW b \in 0 .. NumPimBlocks - 1,
         NEW wt, Held(j.s, ch, b, wt), NEW K, K = ProductOf(j, ch), NEW t, Weighted(j, t), NEW n \in Lanes
  PROVE  TileSum(K, wt, t, n) = RowSum(FlatOf(j, ch, b, t, n), K.ib[t], j.s.in_cnt)
<1>1. PICK h \in Nat \ {0} : h = K.h /\ h = TilePairs(j.s)
  BY ProductParts, GemmShape
<1>2. PICK f, ib, N : f = FlatOf(j, ch, b, t, n) /\ ib = K.ib[t] /\ N = j.s.in_cnt
  OBVIOUS
<1>3. N = (2 * h) * NumGrf
  BY <1>1, <1>2, Shape DEF WholeGemm
<1>4. ib \in Nat
  <2>1. PICK i, r : i = IterOf(j, t) /\ r = RowOf(j, t)
    OBVIOUS
  <2>2. t \in 0 .. TileCount(j) - 1
    BY DEF Weighted
  <2>3. i \in Nat /\ r \in Nat
    <3>1. IsTile(j, i, r, OutOf(j, t))
      BY <2>1, <2>2, TileDigits
    <3> QED BY <3>1, GemmShape DEF IsTile
  <2>4. ch \in Nat
    BY Positive
  <2>5. InputBase(j, ch, i, r) \in Nat
    BY <2>3, <2>4, InputBaseNat
  <2> QED BY <1>2, <2>1, <2>2, <2>5, ProductParts
<1>5. ASSUME NEW x \in 0 .. 2 * h - 1, NEW l \in Lanes
      PROVE  /\ wt[PlaceFor(K, t, x, n, l)] = f * N + KthOf(h, x, l)
             /\ InputOf(K, t, x, l) = ib + KthOf(h, x, l)
  <2>1. wt[PlaceFor(K, t, x, n, l)] = f * N + KthOf(h, x, l)
    <3>1. x \in 0 .. 2 * K.h - 1
      BY <1>1
    <3>2. wt[PlaceFor(K, t, x, n, l)] = FlatOf(j, ch, b, t, n) * j.s.in_cnt + KthOf(K.h, x, l)
      BY <3>1, LaneWeight
    <3> QED BY <1>1, <1>2, <3>2, Zenon
  <2>2. PICK a \in Nat : a = InTileOf(h, x) * NumGrf
    <3>1. InTileOf(h, x) \in Nat /\ NumGrf \in Nat
      BY PairNumbers, Positive
    <3> QED BY <3>1, MulNat
  <2>3. l \in Nat
    BY DEF Lanes
  <2>4. ib + a + l = ib + (a + l)
    BY <1>4, <2>2, <2>3
  <2>5. InputOf(K, t, x, l) = ib + KthOf(h, x, l)
    BY <1>1, <1>2, <2>2, <2>4, Zenon DEF InputOf, KthOf
  <2> QED BY <2>1, <2>5
<1>6. PICK D, Q : D = UpTo(2 * K.h) /\ Q = 0 .. N - 1
  OBVIOUS
<1>7. {TermOf(K, wt, t, n, d) : d \in D} = {<<f * N + k, ib + k>> : k \in Q}
  <2>1. ASSUME NEW d \in D PROVE \E k \in Q : TermOf(K, wt, t, n, d) = <<f * N + k, ib + k>>
    <3>1. PICK x \in 0 .. 2 * h - 1, l \in Lanes : d[1] = x /\ d[2] = l
      BY <1>1, <1>6, <2>1 DEF UpTo
    <3>2. PICK k \in Q : k = KthOf(h, x, l)
      BY <1>3, <1>6, KthOnce
    <3> QED BY <1>5, <3>1, <3>2, Zenon DEF TermOf
  <2>2. ASSUME NEW k \in Q PROVE \E d \in D : TermOf(K, wt, t, n, d) = <<f * N + k, ib + k>>
    <3>1. PICK x \in 0 .. 2 * h - 1, l \in Lanes : KthOf(h, x, l) = k
      BY <1>3, <1>6, KthOnce
    <3>2. PICK d \in D : d[1] = x /\ d[2] = l
      <4>1. <<x, l>> \in (0 .. 2 * h - 1) \X Lanes
        OBVIOUS
      <4>2. <<x, l>> \in D
        BY <1>1, <1>6, <4>1 DEF UpTo
      <4> QED BY <4>2
    <3>3. TermOf(K, wt, t, n, d) = <<f * N + k, ib + k>>
      BY <1>5, <3>1, <3>2, Zenon DEF TermOf
    <3> QED BY <3>3
  <2>3. PICK A, B : A = {TermOf(K, wt, t, n, d) : d \in D} /\ B = {<<f * N + k, ib + k>> : k \in Q}
    OBVIOUS
  <2>4. ASSUME NEW e \in A PROVE e \in B
    BY <2>1, <2>3, <2>4, Zenon
  <2>5. ASSUME NEW e \in B PROVE e \in A
    <3>1. PICK k \in Q : e = <<f * N + k, ib + k>>
      BY <2>3, <2>5, Zenon
    <3>2. PICK d \in D : TermOf(K, wt, t, n, d) = <<f * N + k, ib + k>>
      BY <2>2
    <3> QED BY <2>3, <3>1, <3>2, Zenon
  <2>6. A = B
    BY <2>4, <2>5
  <2> QED BY <2>3, <2>6, Zenon
<1>8. TileSum(K, wt, t, n) = <<"SUM", {TermOf(K, wt, t, n, d) : d \in D}>>
  BY <1>6 DEF TileSum, PartSum
<1>9. RowSum(f, ib, N) = <<"SUM", {<<f * N + k, ib + k>> : k \in Q}>>
  BY <1>6 DEF RowSum
<1>10. TileSum(K, wt, t, n) = RowSum(f, ib, N)
  BY <1>7, <1>8, <1>9, Zenon
<1> QED BY <1>2, <1>10, Zenon

-----------------------------------------------------------------------------
(* Where the outputs go.                                                   *)

\* The number of lane n of unit <<ch, b>>, and the output it stores for a tile.
LaneNum(ch, b, n) == UnitNum(ch, b) * NumGrf + n
OutAt(j, i, r, y, z) ==
  IF Chwise(j) THEN i * OutTile + z ELSE (i * j.inout_h + r) * j.s.out + y * OutTile + z

\* An output, where its sum is and where its bias is.
Entry(j, i, r, y, z, n) ==
  <<OutAt(j, i, r, y, z), TileNum(j, i, r, y) * NumGrf + n, IF Chwise(j) THEN z ELSE OutAt(j, i, r, y, z)>>

\* The same as REDUCE_SUM computes them.
PerRow == ColsPerRow \div NumGrf
RowAndColumn(li, t) == (li \div PerRow) * ColsPerRow + (li % PerRow) * NumGrf + (t % NumGrf)
ThreadNum(ch, t) == ch * NumPimBlocks * NumGrf + t
OutOffset(j, ch, i, r, y, t) == (i * j.inout_h + r) * j.s.out + y * OutTile + ThreadNum(ch, t)
RawEntry(j, ch, i, r, y, t) ==
  IF Chwise(j) THEN <<i * OutTile + ThreadNum(ch, t), i * NumGrf + (t % NumGrf), ThreadNum(ch, t)>>
  ELSE <<OutOffset(j, ch, i, r, y, t), RowAndColumn(TileNum(j, i, r, y), t), OutOffset(j, ch, i, r, y, t)>>

\* Rows and columns count locations.
LEMMA RowColumn ==
  ASSUME NEW li \in Nat, NEW t, NEW n, t % NumGrf = n
  PROVE  RowAndColumn(li, t) = li * NumGrf + n
<1>1. PICK g \in Nat \ {0}, G \in Nat \ {0} : G = NumGrf /\ PerRow = g /\ ColsPerRow = g * G
  BY Columns, Positive DEF PerRow
<1>2. PICK q \in Nat, e \in 0 .. g - 1 : q = li \div g /\ e = li % g /\ li = q * g + e
  BY DivSplit, Zenon
<1>3. q * (g * G) + e * G = (q * g + e) * G
  OBVIOUS
<1> QED BY <1>1, <1>2, <1>3, Zenon DEF RowAndColumn

\* They agree.
LEMMA EntryIs ==
  ASSUME NEW j \in Jobs, IsGemm(j), WholeGemm(j), NEW ch \in Nat, NEW b \in Nat, NEW i, NEW r, NEW y,
         IsTile(j, i, r, y), NEW n \in Lanes
  PROVE  RawEntry(j, ch, i, r, y, b * NumGrf + n) = Entry(j, i, r, y, LaneNum(ch, b, n), n)
<1>1. PICK G \in Nat \ {0}, P \in Nat \ {0} : G = NumGrf /\ P = NumPimBlocks
  BY Positive
<1>2. PICK t, z : t = b * NumGrf + n /\ z = LaneNum(ch, b, n)
  OBVIOUS
<1>3. t % NumGrf = n
  <2>1. n \in 0 .. G - 1 /\ t = b * G + n
    BY <1>1, <1>2 DEF Lanes
  <2>2. t % G = n
    BY <2>1, DivNat
  <2> QED BY <1>1, <2>2
<1>4. ThreadNum(ch, t) = z
  <2>1. n \in Nat
    BY DEF Lanes
  <2>2. ch * P * G + (b * G + n) = (ch * P + b) * G + n
    BY <2>1
  <2> QED BY <1>1, <1>2, <2>2, Zenon DEF ThreadNum, LaneNum, UnitNum
<1>5. CASE Chwise(j)
  <2>1. TileNum(j, i, r, y) = i
    <3>1. j.inout_h = 1 /\ OutTiles(j) = 1
      BY <1>5 DEF WholeGemm, ByChannels, OutTiles
    <3>2. r = 0 /\ y = 0 /\ i \in Int
      BY <3>1 DEF IsTile
    <3> QED BY <3>1, <3>2 DEF TileNum
  <2> QED BY <1>2, <1>3, <1>4, <1>5, <2>1, Zenon DEF RawEntry, Entry, OutAt
<1>6. CASE ~Chwise(j)
  <2>1. TileNum(j, i, r, y) \in Nat
    BY TileNumber, GemmShape DEF TileCount
  <2>2. RowAndColumn(TileNum(j, i, r, y), t) = TileNum(j, i, r, y) * NumGrf + n
    BY <1>3, <2>1, RowColumn
  <2>3. OutOffset(j, ch, i, r, y, t) = OutAt(j, i, r, y, z)
    BY <1>4, <1>6, Zenon DEF OutOffset, OutAt
  <2> QED BY <1>2, <1>6, <2>2, <2>3, Zenon DEF RawEntry, Entry
<1> QED BY <1>5, <1>6

\* What the threads of a unit store.
LEMMA StoredIs ==
  ASSUME NEW j \in Jobs, IsGemm(j), WholeGemm(j), NEW ch \in Nat, NEW b \in Nat, NEW p
  PROVE  p \in Stored(j, ch, b) <=>
           \E i, r, y, n : IsTile(j, i, r, y) /\ n \in Lanes /\ p = Entry(j, i, r, y, LaneNum(ch, b, n), n)
<1>1. Stored(j, ch, b) = {RawEntry(j, ch, i, r, y, b * NumGrf + n) :
                            i \in 0 .. IterCnt(j) - 1, r \in 0 .. j.inout_h - 1, y \in 0 .. OutTiles(j) - 1, n \in Lanes}
  BY DEF Stored, RawEntry, ThreadNum, OutOffset, RowAndColumn, PerRow, TileNum
<1>2. p \in Stored(j, ch, b) <=>
        \E i \in 0 .. IterCnt(j) - 1, r \in 0 .. j.inout_h - 1, y \in 0 .. OutTiles(j) - 1, n \in Lanes :
          p = RawEntry(j, ch, i, r, y, b * NumGrf + n)
  BY <1>1
<1>3. \A i, r, y, n : IsTile(j, i, r, y) /\ n \in Lanes =>
        RawEntry(j, ch, i, r, y, b * NumGrf + n) = Entry(j, i, r, y, LaneNum(ch, b, n), n)
  BY EntryIs
<1>4. ASSUME p \in Stored(j, ch, b)
      PROVE  \E i, r, y, n : IsTile(j, i, r, y) /\ n \in Lanes /\ p = Entry(j, i, r, y, LaneNum(ch, b, n), n)
  <2>1. PICK i \in 0 .. IterCnt(j) - 1, r \in 0 .. j.inout_h - 1, y \in 0 .. OutTiles(j) - 1, n \in Lanes :
          p = RawEntry(j, ch, i, r, y, b * NumGrf + n)
    BY <1>2, <1>4, Zenon
  <2>2. IsTile(j, i, r, y)
    BY <2>1, Zenon DEF IsTile
  <2>3. p = Entry(j, i, r, y, LaneNum(ch, b, n), n)
    BY <1>3, <2>1, <2>2, Zenon
  <2> QED BY <2>2, <2>3, Zenon
<1>5. ASSUME NEW i, NEW r, NEW y, NEW n \in Lanes, IsTile(j, i, r, y), p = Entry(j, i, r, y, LaneNum(ch, b, n), n)
      PROVE  p \in Stored(j, ch, b)
  <2>1. p = RawEntry(j, ch, i, r, y, b * NumGrf + n)
    BY <1>3, <1>5, Zenon
  <2>2. i \in 0 .. IterCnt(j) - 1 /\ r \in 0 .. j.inout_h - 1 /\ y \in 0 .. OutTiles(j) - 1
    BY <1>5, Zenon DEF IsTile
  <2> QED BY <1>2, <2>1, <2>2, Zenon
<1> QED BY <1>4, <1>5, Zenon

\* The lanes of all units, in order.
LEMMA LaneDigits ==
  ASSUME NEW ch \in 0 .. NumChan - 1, NEW b \in 0 .. NumPimBlocks - 1, NEW n \in Lanes
  PROVE  LaneNum(ch, b, n) \in 0 .. OutTile - 1
<1>1. PICK G \in Nat \ {0}, P \in Nat \ {0}, C \in Nat \ {0} : G = NumGrf /\ P = NumPimBlocks /\ C = NumChan
  BY Positive
<1>2. ch \in 0 .. C - 1 /\ b \in 0 .. P - 1 /\ n \in 0 .. G - 1
  BY <1>1 DEF Lanes
<1>3. PICK v \in Nat, M \in Nat : v = ch * P + b /\ M = C * P /\ v \in 0 .. M - 1
  BY <1>2, DigitsBound
<1>4. v * G + n \in 0 .. M * G - 1
  BY <1>2, <1>3, DigitsBound
<1>5. G * P * C = (C * P) * G
  OBVIOUS
<1>6. OutTile = M * G
  BY <1>1, <1>3, <1>5, Zenon DEF OutTile
<1> QED BY <1>1, <1>3, <1>4, <1>6, Zenon DEF LaneNum, UnitNum

\* A stored output is of an iteration there are weights of, of the row of inputs the
\* kernel writes to the registers, and of the row of weights the layout has there.
Meets(j, ch, i, r, y, z, off) ==
  /\ i \in 0 .. Iterations(j.s) - 1
  /\ (off \div j.s.out) * j.s.in_cnt = InputBase(j, ch, i, r)
  /\ ((off \div j.s.out) \div j.inout_h) * j.s.out + (off % j.s.out) = Flat(j.s, i, y, z)

\* Output and row, of tiles of outputs of one matrix.
LEMMA AlignedMeets ==
  ASSUME NEW j \in Jobs, IsGemm(j), WholeGemm(j), ~Chwise(j), NEW ch, NEW i, NEW r, NEW y, IsTile(j, i, r, y),
         NEW z \in 0 .. OutTile - 1, NEW off, off = OutAt(j, i, r, y, z), off \in Outputs(j)
  PROVE  Meets(j, ch, i, r, y, z, off)
<1>1. WholeTiles(j.s)
  BY DEF WholeGemm
<1>2. PICK N \in Nat \ {0}, H \in Nat \ {0}, Q \in Nat \ {0}, T \in Nat \ {0}, Y \in Nat \ {0} :
        /\ N = j.s.nc /\ H = j.inout_h /\ Q = j.s.out /\ T = OutTile /\ Y = OutTiles(j) /\ Q = Y * T
        /\ N = Iterations(j.s) /\ OutCnt(j.s) = Q
  <2>1. j.inout_h \in Nat \ {0} /\ OutTiles(j) \in Nat \ {0} /\ OutTiles(j) = OutParts(j.s)
    BY GemmShape, Zenon
  <2>2. /\ Iterations(j.s) \in Nat \ {0} /\ j.s.nc = Iterations(j.s)
        /\ j.s.out = OutParts(j.s) * OutTile /\ OutCnt(j.s) = OutParts(j.s) * OutTile
    BY <1>1, Shape, Zenon DEF Chwise
  <2>3. OutTile \in Nat \ {0}
    BY Positive
  <2>4. j.s.out \in Nat \ {0}
    BY <1>1 DEF WholeTiles
  <2> QED BY <2>1, <2>2, <2>3, <2>4, Zenon
<1>3. i \in Nat /\ r \in 0 .. H - 1 /\ y \in 0 .. Y - 1 /\ z \in 0 .. T - 1
  BY <1>2, GemmShape DEF IsTile
<1>4. PICK w : w = y * T + z /\ w \in 0 .. Q - 1
  BY <1>2, <1>3, DigitsBound
<1>5. PICK R \in Nat : R = i * H + r
  BY <1>3
<1>6. off = R * Q + w
  <2>1. off = R * Q + y * T + z
    BY <1>2, <1>5, Zenon DEF OutAt
  <2>2. PICK a \in Nat, d \in Nat : a = R * Q /\ d = y * T
    BY <1>3
  <2> QED BY <1>3, <1>4, <2>1, <2>2
<1>7. off \div Q = R /\ off % Q = w
  <2>1. PICK v \in 0 .. Q - 1 : v = w
    BY <1>4
  <2>2. PICK x : x = off /\ x = R * Q + v
    BY <1>6, <2>1
  <2>3. x \div Q = R /\ x % Q = v
    BY <2>2, DivNat
  <2> QED BY <2>1, <2>2, <2>3
<1>8. R \div H = i
  BY <1>3, <1>5, DivNat
<1>9. i \in 0 .. N - 1
  <2>1. PICK M \in Nat : M = N * H
    OBVIOUS
  <2>2. off \in 0 .. M * Q - 1
    BY <1>2, <2>1, Zenon DEF Outputs
  <2>3. off \div Q \in 0 .. M - 1
    BY <2>2, DigitsBelow, Zenon
  <2>4. R \in 0 .. N * H - 1
    BY <1>7, <2>1, <2>3, Zenon
  <2>5. R \div H \in 0 .. N - 1
    BY <2>4, DigitsBelow, Zenon
  <2> QED BY <1>8, <2>5
<1>10. InputBase(j, ch, i, r) = R * j.s.in_cnt
  BY <1>2, <1>5, Zenon DEF InputBase
<1>11. Flat(j.s, i, y, z) = i * Q + w
  <2>1. Flat(j.s, i, y, z) = i * Q + y * T + z
    BY <1>2, Zenon DEF Flat
  <2>2. PICK a \in Nat, d \in Nat : a = i * Q /\ d = y * T
    BY <1>3
  <2> QED BY <1>3, <1>4, <2>1, <2>2
<1> QED BY <1>2, <1>7, <1>8, <1>9, <1>10, <1>11, Zenon DEF Meets

\* The same by channels.
LEMMA ChannelMeets ==
  ASSUME NEW j \in Jobs, IsGemm(j), WholeGemm(j), Chwise(j), NEW ch \in 0 .. NumChan - 1,
         NEW b \in 0 .. NumPimBlocks - 1, NEW n \in Lanes, NEW i, NEW r, NEW y, IsTile(j, i, r, y),
         NEW z, z = LaneNum(ch, b, n), NEW off, off = OutAt(j, i, r, y, z)
  PROVE  Meets(j, ch, i, r, y, z, off)
<1>1. WholeTiles(j.s)
  BY DEF WholeGemm
<1>2. PICK c \in Nat \ {0}, per \in Nat \ {0} : ByChannels(j, c, per)
  BY DEF WholeGemm
<1>3. PICK Q \in Nat \ {0}, T \in Nat \ {0}, I \in Nat \ {0}, G \in Nat \ {0}, P \in Nat \ {0} :
        /\ Q = j.s.out /\ T = OutTile /\ I = IterCnt(j) /\ G = NumGrf /\ P = NumPimBlocks
  BY <1>1, GemmShape, Positive DEF WholeTiles
<1>4. /\ OutTile \div j.s.out = c /\ NumChan \div c = per /\ I = Iterations(j.s) /\ T = c * Q
      /\ j.inout_h = 1 /\ Q = per * (P * G) /\ OutTiles(j) = 1
  BY <1>1, <1>2, <1>3, ChannelNumbers DEF ByChannels, OutTiles
<1>5. i \in 0 .. I - 1 /\ i \in Nat /\ y = 0 /\ ch \in Nat /\ b \in 0 .. P - 1 /\ n \in 0 .. G - 1
  BY <1>3, <1>4, Positive DEF IsTile, Lanes
<1>6. PICK qc \in Nat, rc \in 0 .. per - 1 : qc = ch \div per /\ ch = qc * per + rc
  <2>1. ch \in Nat
    BY <1>5
  <2> QED BY <2>1, DivSplit
<1>7. PICK w : w = (rc * P + b) * G + n /\ w \in 0 .. Q - 1
  <2>1. PICK v \in Nat, M \in Nat : v = rc * P + b /\ M = per * P /\ v \in 0 .. M - 1
    BY <1>5, DigitsBound
  <2>2. v * G + n \in 0 .. M * G - 1
    BY <1>5, <2>1, DigitsBound
  <2>3. (per * P) * G = per * (P * G)
    OBVIOUS
  <2> QED BY <1>4, <2>1, <2>2, <2>3, Zenon
<1>8. z = qc * Q + w
  <2>1. z = ((qc * per + rc) * P + b) * G + n
    BY <1>3, <1>6, Zenon DEF LaneNum, UnitNum
  <2>2. ((qc * per + rc) * P + b) * G + n = qc * (per * (P * G)) + ((rc * P + b) * G + n)
    BY <1>5
  <2> QED BY <1>4, <1>7, <2>1, <2>2, Zenon
<1>9. off = i * T + z
  BY <1>3, Zenon DEF OutAt
<1>10. off = (i * c + qc) * Q + w
  <2>1. i * (c * Q) + (qc * Q + w) = (i * c + qc) * Q + w
    BY <1>5, <1>7
  <2> QED BY <1>4, <1>8, <1>9, <2>1, Zenon
<1>11. PICK R \in Nat : R = i * c + qc
  BY <1>5
<1>12. off \div Q = R /\ off % Q = w
  BY <1>7, <1>10, <1>11, DivNat
<1>13. R \div 1 = R
  OBVIOUS
<1>14. InputBase(j, ch, i, r) = (qc + i * c) * j.s.in_cnt
  BY <1>3, <1>4, <1>6, Zenon DEF InputBase
<1>15. qc + i * c = R
  <2>1. i * c \in Nat
    BY <1>5, MulNat
  <2> QED BY <1>11, <2>1
<1>16. Flat(j.s, i, y, z) = off
  <2>1. Flat(j.s, i, y, z) = i * T + 0 * T + z
    BY <1>3, <1>5, Zenon DEF Flat, OutCnt, Chwise
  <2>2. i * T \in Nat
    BY <1>5, MulNat
  <2> QED BY <1>9, <2>1, <2>2
<1> QED BY <1>3, <1>4, <1>5, <1>10, <1>11, <1>12, <1>13, <1>14, <1>15, <1>16, Zenon DEF Meets

\* So the sum that is stored is the product.
LEMMA MeetsProduct ==
  ASSUME NEW j, NEW ch, NEW i, NEW r, NEW y, NEW z, NEW off, Meets(j, ch, i, r, y, z, off)
  PROVE  Product(j, off) = RowSum(Flat(j.s, i, y, z), InputBase(j, ch, i, r), j.s.in_cnt)
BY Zenon DEF Meets, Product, RowSum

\* The sum of a lane for a tile.
LEMMA LaneSum ==
  ASSUME NEW j \in Jobs, IsGemm(j), WholeGemm(j), NEW ch \in 0 .. NumChan - 1, NEW b \in 0 .. NumPimBlocks - 1,
         NEW wt, Held(j.s, ch, b, wt), NEW K, K = ProductOf(j, ch), NEW t \in 0 .. TileCount(j) - 1, NEW n \in Lanes,
         NEW off, Meets(j, ch, IterOf(j, t), RowOf(j, t), OutOf(j, t), LaneNum(ch, b, n), off)
  PROVE  TileSum(K, wt, t, n) = Product(j, off)
<1>1. PICK i, r, y : i = IterOf(j, t) /\ r = RowOf(j, t) /\ y = OutOf(j, t)
  OBVIOUS
<1>2. Weighted(j, t)
  BY Zenon DEF Weighted, Meets
<1>3. TileSum(K, wt, t, n) = RowSum(FlatOf(j, ch, b, t, n), K.ib[t], j.s.in_cnt)
  BY <1>2, TileSumIs
<1>4. K.ib[t] = InputBase(j, ch, i, r)
  BY <1>1, ProductParts
<1>5. FlatOf(j, ch, b, t, n) = Flat(j.s, i, y, LaneNum(ch, b, n))
  BY <1>1, Zenon DEF FlatOf, LaneNum
<1>6. Product(j, off) = RowSum(Flat(j.s, i, y, LaneNum(ch, b, n)), InputBase(j, ch, i, r), j.s.in_cnt)
  BY <1>1, MeetsProduct
<1> QED BY <1>3, <1>4, <1>5, <1>6, Zenon

\* By channels the bias does not move on with the iterations, so there is one.
BiasOnce == \A j \in Jobs : IsGemm(j) /\ Chwise(j) /\ j.bias => IterCnt(j) = 1

\* What is stored at an output.
LEMMA StoredValue ==
  ASSUME BiasOnce, NEW j \in Jobs, IsGemm(j), WholeGemm(j), NEW ch \in 0 .. NumChan - 1,
         NEW b \in 0 .. NumPimBlocks - 1, NEW wt, Held(j.s, ch, b, wt), NEW m,
         Earlier(ProductOf(j, ch), wt, TileCount(j), m), NEW p \in Stored(j, ch, b), p[1] \in Outputs(j)
  PROVE  m[<<1, p[2]>>] = Product(j, p[1]) /\ (j.bias => p[3] = p[1])
<1>1. ch \in Nat /\ b \in Nat
  BY Positive
<1>2. PICK i, r, y, n : IsTile(j, i, r, y) /\ n \in Lanes /\ p = Entry(j, i, r, y, LaneNum(ch, b, n), n)
  BY <1>1, StoredIs
<1>3. PICK z, off : z = LaneNum(ch, b, n) /\ off = OutAt(j, i, r, y, z)
  OBVIOUS
<1>4. p[1] = off /\ p[2] = TileNum(j, i, r, y) * NumGrf + n /\ p[3] = (IF Chwise(j) THEN z ELSE off)
  <2>1. PICK e2, e3 : e2 = TileNum(j, i, r, y) * NumGrf + n /\ e3 = (IF Chwise(j) THEN z ELSE off)
    OBVIOUS
  <2>2. p = <<off, e2, e3>>
    BY <1>2, <1>3, <2>1, Zenon DEF Entry
  <2>3. p[1] = off /\ p[2] = e2 /\ p[3] = e3
    BY <2>2
  <2> QED BY <2>1, <2>3, Zenon
<1>5. z \in 0 .. OutTile - 1
  BY <1>2, <1>3, LaneDigits
<1>6. Meets(j, ch, i, r, y, z, off)
  <2>1. CASE Chwise(j)
    BY <1>2, <1>3, <2>1, ChannelMeets
  <2>2. CASE ~Chwise(j)
    <3>1. off \in Outputs(j)
      BY <1>4, Zenon
    <3> QED BY <1>2, <1>3, <1>5, <2>2, <3>1, AlignedMeets
  <2> QED BY <2>1, <2>2
<1>7. m[<<1, TileNum(j, i, r, y) * NumGrf + n>>] = Product(j, off)
  <2>1. Meets(j, ch, i, r, y, LaneNum(ch, b, n), off)
    BY <1>3, <1>6, Zenon
  <2>2. PICK t : t = TileNum(j, i, r, y)
    OBVIOUS
  <2>3. PICK K : K = ProductOf(j, ch)
    OBVIOUS
  <2>4. t \in 0 .. TileCount(j) - 1 /\ IterOf(j, t) = i /\ RowOf(j, t) = r /\ OutOf(j, t) = y
    BY <1>2, <2>2, TileNumber
  <2>5. TileSum(K, wt, t, n) = Product(j, off)
    BY <1>2, <2>1, <2>3, <2>4, LaneSum
  <2>6. HasWeights(K, wt, t)
    BY <2>1, <2>3, <2>4, TileHasWeights DEF Weighted, Meets
  <2>7. SumStored(K, wt, t, m, n)
    BY <1>2, <2>3, <2>4, <2>6, Zenon DEF Earlier, LeaveData
  <2> QED BY <2>2, <2>5, <2>7, Zenon DEF SumStored
<1>8. ASSUME j.bias PROVE p[3] = off
  <2>1. CASE Chwise(j)
    <3>1. i = 0
      BY <1>2, <1>8, <2>1 DEF BiasOnce, IsTile
    <3>2. off = 0 * OutTile + z
      BY <1>3, <2>1, <3>1, Zenon DEF OutAt
    <3>3. PICK T \in Nat : T = OutTile
      BY Positive
    <3>4. z \in Nat /\ 0 * T + z = z
      BY <1>5, <3>3
    <3> QED BY <1>4, <2>1, <3>2, <3>3, <3>4, Zenon
  <2>2. CASE ~Chwise(j)
    BY <1>4, <2>2, Zenon
  <2> QED BY <2>1, <2>2
<1> QED BY <1>4, <1>7, <1>8, Zenon

\* Every output is of some tile.
LEMMA OutputTile ==
  ASSUME NEW j \in Jobs, IsGemm(j), WholeGemm(j), NEW off \in Outputs(j)
  PROVE  \E i, r, y : IsTile(j, i, r, y) /\ \E z \in 0 .. OutTile - 1 : off = OutAt(j, i, r, y, z)
<1>1. WholeTiles(j.s)
  BY DEF WholeGemm
<1>2. PICK N \in Nat \ {0}, H \in Nat \ {0}, Q \in Nat \ {0}, T \in Nat \ {0}, Y \in Nat \ {0} :
        N = j.s.nc /\ H = j.inout_h /\ Q = j.s.out /\ T = OutTile /\ Y = OutTiles(j)
  BY <1>1, GemmShape, Positive DEF WholeTiles
<1>3. PICK x \in Nat : x = off /\ x \in 0 .. (N * H) * Q - 1
  <2>1. off \in 0 .. (N * H) * Q - 1
    BY <1>2, Zenon DEF Outputs
  <2>2. PICK x : x = off
    OBVIOUS
  <2>3. PICK M \in Int : M = (N * H) * Q
    OBVIOUS
  <2>4. x \in Nat
    BY <2>1, <2>2, <2>3
  <2> QED BY <2>1, <2>2, <2>4, Zenon
<1>4. CASE Chwise(j)
  <2>1. PICK c \in Nat \ {0}, per \in Nat \ {0} : ByChannels(j, c, per)
    BY <1>4 DEF WholeGemm
  <2>2. PICK I \in Nat \ {0} : I = IterCnt(j) /\ N * Q = I * T /\ H = 1 /\ Y = 1
    BY <1>1, <1>2, <1>4, <2>1, ChannelNumbers, GemmShape, Shape DEF ByChannels, OutTiles, Chwise
  <2>3. x \in 0 .. I * T - 1
    <3>1. (N * 1) * Q = N * Q
      OBVIOUS
    <3> QED BY <1>3, <2>2, <3>1, Zenon
  <2>4. PICK i \in Nat, z \in 0 .. T - 1 : i = x \div T /\ x = i * T + z
    BY DivSplit
  <2>5. i \in 0 .. I - 1
    BY <2>3, <2>4, DigitsBelow, Zenon
  <2>6. IsTile(j, i, 0, 0)
    BY <1>2, <2>2, <2>5 DEF IsTile
  <2>7. off = OutAt(j, i, 0, 0, z)
    BY <1>2, <1>3, <1>4, <2>4, Zenon DEF OutAt
  <2> QED BY <1>2, <2>6, <2>7, Zenon
<1>5. CASE ~Chwise(j)
  <2>1. Q = Y * T
    BY <1>1, <1>2, <1>5, Shape, GemmShape DEF Chwise
  <2>2. PICK R \in Nat, w \in 0 .. Q - 1 : R = x \div Q /\ x = R * Q + w
    BY DivSplit
  <2>3. R \in 0 .. N * H - 1
    <3>1. PICK M \in Nat : M = N * H
      OBVIOUS
    <3>2. x \in 0 .. M * Q - 1
      BY <1>3, <3>1, Zenon
    <3> QED BY <2>2, <3>1, <3>2, DigitsBelow, Zenon
  <2>4. PICK i \in Nat, r \in 0 .. H - 1 : i = R \div H /\ R = i * H + r
    BY DivSplit
  <2>5. i \in 0 .. N - 1
    BY <2>3, <2>4, DigitsBelow, Zenon
  <2>6. PICK y \in Nat, z \in 0 .. T - 1 : y = w \div T /\ w = y * T + z
    <3>1. w \in Nat
      BY <2>2
    <3> QED BY <3>1, DivSplit
  <2>7. y \in 0 .. Y - 1
    <3>1. w \in 0 .. Y * T - 1
      BY <2>1, <2>2, Zenon
    <3> QED BY <2>6, <3>1, DigitsBelow, Zenon
  <2>8. IterCnt(j) = N * Y
    <3>1. PICK M \in Nat : M = N * Y
      OBVIOUS
    <3>2. N * (Y * T) = (N * Y) * T
      OBVIOUS
    <3>3. IterCnt(j) = (M * T) \div T
      BY <1>2, <1>5, <2>1, <3>1, <3>2, Zenon DEF IterCnt
    <3>4. PICK a : a = M * T
      OBVIOUS
    <3>5. a = M * T + 0 /\ 0 \in 0 .. T - 1
      BY <3>4
    <3>6. a \div T = M
      BY <3>5, DivNat
    <3> QED BY <3>1, <3>3, <3>4, <3>6, Zenon
  <2>9. i \in 0 .. IterCnt(j) - 1
    <3>1. N * Y >= N
      OBVIOUS
    <3>2. PICK M \in Nat : M = N * Y /\ M >= N
      BY <3>1
    <3> QED BY <2>5, <2>8, <3>2
  <2>10. IsTile(j, i, r, y)
    BY <1>2, <2>4, <2>7, <2>9, Zenon DEF IsTile
  <2>11. OutAt(j, i, r, y, z) = R * Q + y * T + z
    BY <1>2, <1>5, <2>4, Zenon DEF OutAt
  <2>12. off = OutAt(j, i, r, y, z)
    <3>1. PICK a \in Nat, d \in Nat : a = R * Q /\ d = y * T
      BY <2>6
    <3> QED BY <1>3, <2>2, <2>6, <2>11, <3>1
  <2> QED BY <1>2, <2>10, <2>12, Zenon
<1> QED BY <1>4, <1>5

\* Every place of a tile is that of a lane.
LEMMA LaneOf ==
  ASSUME NEW z \in 0 .. OutTile - 1
  PROVE  \E ch \in 0 .. NumChan - 1, b \in 0 .. NumPimBlocks - 1, n \in Lanes : z = LaneNum(ch, b, n)
<1>1. PICK G \in Nat \ {0}, P \in Nat \ {0}, C \in Nat \ {0} : G = NumGrf /\ P = NumPimBlocks /\ C = NumChan
  BY Positive
<1>2. PICK M \in Nat : M = C * P /\ OutTile = M * G
  <2>1. G * P * C = (C * P) * G
    OBVIOUS
  <2>2. PICK M \in Nat : M = C * P
    OBVIOUS
  <2> QED BY <1>1, <2>1, <2>2, Zenon DEF OutTile
<1>3. PICK x \in Nat : x = z /\ x \in 0 .. M * G - 1
  <2>1. PICK T \in Nat : T = OutTile
    BY Positive
  <2>2. z \in Nat
    BY <2>1
  <2> QED BY <1>2, <2>2, Zenon
<1>4. PICK v \in Nat, n \in 0 .. G - 1 : v = x \div G /\ x = v * G + n
  BY DivSplit
<1>5. v \in 0 .. C * P - 1
  BY <1>2, <1>3, <1>4, DigitsBelow, Zenon
<1>6. PICK ch \in Nat, b \in 0 .. P - 1 : ch = v \div P /\ v = ch * P + b
  BY DivSplit
<1>7. ch \in 0 .. C - 1
  BY <1>5, <1>6, DigitsBelow, Zenon
<1>8. z = LaneNum(ch, b, n)
  BY <1>1, <1>3, <1>4, <1>6, Zenon DEF LaneNum, UnitNum
<1> QED BY <1>1, <1>4, <1>6, <1>7, <1>8, Zenon DEF Lanes

\* The offsets one unit stores outputs at.
Offsets(j, ch, b) == {p[1] : p \in Stored(j, ch, b)}

\* So every output is stored.
LEMMA OutputStored ==
  ASSUME NEW j \in Jobs, IsGemm(j), WholeGemm(j), NEW off \in Outputs(j)
  PROVE  off \in AllStored(j)
<1>1. PICK i, r, y : IsTile(j, i, r, y) /\ \E z \in 0 .. OutTile - 1 : off = OutAt(j, i, r, y, z)
  BY OutputTile
<1>2. PICK z \in 0 .. OutTile - 1 : off = OutAt(j, i, r, y, z)
  BY <1>1
<1>3. PICK ch \in 0 .. NumChan - 1, b \in 0 .. NumPimBlocks - 1, n \in Lanes : z = LaneNum(ch, b, n)
  BY LaneOf
<1>4. PICK p : p = Entry(j, i, r, y, z, n)
  OBVIOUS
<1>5. p \in Stored(j, ch, b)
  <2>1. ch \in Nat /\ b \in Nat
    BY Positive
  <2>2. p = Entry(j, i, r, y, LaneNum(ch, b, n), n)
    BY <1>3, <1>4, Zenon
  <2> QED BY <1>1, <2>1, <2>2, StoredIs
<1>6. p[1] = off
  <2>1. PICK e2, e3 : p = <<off, e2, e3>>
    BY <1>2, <1>4, Zenon DEF Entry
  <2> QED BY <2>1
<1>7. off \in Offsets(j, ch, b)
  BY <1>5, <1>6, Zenon DEF Offsets
<1>8. AllStored(j) = UNION {Offsets(j, x, v) : x \in 0 .. NumChan - 1, v \in 0 .. NumPimBlocks - 1}
  BY DEF AllStored, Offsets
<1>9. Offsets(j, ch, b) \in {Offsets(j, x, v) : x \in 0 .. NumChan - 1, v \in 0 .. NumPimBlocks - 1}
  OBVIOUS
<1> QED BY <1>7, <1>8, <1>9

\* What the threads store when the memory is m.
StoredAt(st, j, m, o) ==
  LET p == CHOOSE q \in st : q[1] = o
  IN  <<m[<<1, p[2]>>], IF j.bias THEN p[3] ELSE -1, j.relu>>
ResultOf(j, unit, m) ==
  [o \in {p[1] : p \in Stored(j, unit[1], unit[2])} |-> StoredAt(Stored(j, unit[1], unit[2]), j, m, o)]

\* It is kept until the call returns.
ResultInv == stage = "done" /\ IsGemm(job) => result = ResultOf(job, at, mem)

\* A step keeps it.
LEMMA ResultStep ==
  ASSUME TypeInv, ResultInv, [Next]_vars
  PROVE  ResultInv'
<1>1. ASSUME NEW j \in Jobs, LaunchElt(j) \/ ConvertWeight(j) PROVE ResultInv'
  <2>1. stage' # "done"
    BY <1>1 DEF LaunchElt, ConvertWeight, Run
  <2> QED BY <2>1 DEF ResultInv
<1>2. CASE Converting
  <2>1. stage' # "done"
    BY <1>2 DEF Converting
  <2> QED BY <2>1 DEF ResultInv
<1>3. CASE LaunchGemm \/ Access \/ Return
  <2>1. stage' # "done"
    BY <1>3 DEF LaunchGemm, Run, Access, Return
  <2> QED BY <2>1 DEF ResultInv
<1>4. CASE Finish
  <2>1. job' = job /\ at' = at /\ mem' = mem
    BY <1>4 DEF Finish
  <2>2. IsGemm(job) => result' = ResultOf(job, at, mem)
    BY <1>4, Zenon DEF Finish, ResultOf, StoredAt
  <2> QED BY <2>1, <2>2 DEF ResultInv
<1>5. CASE UNCHANGED vars
  <2>1. stage' = stage /\ job' = job /\ at' = at /\ mem' = mem /\ result' = result
    BY <1>5 DEF vars
  <2> QED BY <2>1 DEF ResultInv
<1> QED BY <1>1, <1>2, <1>3, <1>4, <1>5 DEF Next

\* The outputs a unit stores are those of the product.
LEMMA ResultRight ==
  ASSUME BiasOnce, NEW j \in Jobs, IsGemm(j), WholeGemm(j), NEW unit \in Units, NEW wt,
         Held(j.s, unit[1], unit[2], wt), NEW m, Earlier(ProductOf(j, unit[1]), wt, TileCount(j), m),
         NEW res, res = ResultOf(j, unit, m), NEW o \in DOMAIN res, o \in Outputs(j)
  PROVE  res[o] = <<Product(j, o), IF j.bias THEN o ELSE -1, j.relu>>
<1>1. PICK ch \in 0 .. NumChan - 1, b \in 0 .. NumPimBlocks - 1 : ch = unit[1] /\ b = unit[2]
  BY UnitsAssumption
<1>2. PICK st : st = Stored(j, unit[1], unit[2])
  OBVIOUS
<1>3. PICK D : D = {p[1] : p \in st}
  OBVIOUS
<1>4. res = [x \in D |-> StoredAt(st, j, m, x)]
  BY <1>2, <1>3, Zenon DEF ResultOf
<1>5. o \in D /\ res[o] = StoredAt(st, j, m, o)
  BY <1>4, Zenon
<1>6. PICK p : p = CHOOSE q \in st : q[1] = o
  OBVIOUS
<1>7. p \in st /\ p[1] = o
  <2>1. \E q \in st : q[1] = o
    BY <1>3, <1>5
  <2> QED BY <1>6, <2>1, Zenon
<1>8. res[o] = <<m[<<1, p[2]>>], IF j.bias THEN p[3] ELSE -1, j.relu>>
  <2>1. StoredAt(st, j, m, o) = <<m[<<1, p[2]>>], IF j.bias THEN p[3] ELSE -1, j.relu>>
    BY <1>6 DEF StoredAt
  <2> QED BY <1>5, <2>1, Zenon
<1>9. m[<<1, p[2]>>] = Product(j, o) /\ (j.bias => p[3] = o)
  <2>1. p \in Stored(j, ch, b) /\ p[1] \in Outputs(j)
    BY <1>1, <1>2, <1>7, Zenon
  <2>2. Held(j.s, ch, b, wt) /\ Earlier(ProductOf(j, ch), wt, TileCount(j), m)
    BY <1>1, Zenon
  <2>3. m[<<1, p[2]>>] = Product(j, p[1]) /\ (j.bias => p[3] = p[1])
    BY <2>1, <2>2, StoredValue, Zenon
  <2> QED BY <1>7, <2>3, Zenon
<1>10. CASE j.bias
  BY <1>8, <1>9, <1>10, Zenon
<1>11. CASE ~j.bias
  BY <1>8, <1>9, <1>11, Zenon
<1> QED BY <1>10, <1>11

\* A gemm of whole tiles whose partial sums fit the buffer leaves in every output its unit stores the product of the row
\* of inputs and the weights, each product once, with the bias of that output, and
\* some unit stores each output.
THEOREM GemmRight == ASSUME WholeGemms, BiasOnce PROVE Spec => []GemmResult
<1>1. Init => TypeInv /\ ResultInv
  BY TypeInit DEF Init, ResultInv
<1>2. TypeInv /\ ResultInv /\ [Next]_vars => (TypeInv /\ ResultInv)'
  BY TypeInvStep, ResultStep
<1>3. TypeInv /\ GemmInv /\ ResultInv => GemmResult
  <2> SUFFICES ASSUME TypeInv, GemmInv, ResultInv, stage = "done", IsGemm(job)
               PROVE  /\ \A o \in DOMAIN result \cap Outputs(job) :
                           result[o] = <<Product(job, o), IF job.bias THEN o ELSE -1, job.relu>>
                      /\ Outputs(job) \subseteq AllStored(job)
    BY DEF GemmResult
  <2>1. job \in Jobs /\ at \in Units
    BY DEF TypeInv, ModeInv
  <2>2. WholeGemm(job)
    BY <2>1 DEF WholeGemms
  <2>3. Held(job.s, at[1], at[2], weight) /\ Earlier(ProductOf(job, at[1]), weight, TileCount(job), mem)
    BY DEF GemmInv
  <2>4. result = ResultOf(job, at, mem)
    BY DEF ResultInv
  <2>5. ASSUME NEW o \in DOMAIN result, o \in Outputs(job)
        PROVE  result[o] = <<Product(job, o), IF job.bias THEN o ELSE -1, job.relu>>
    BY <2>1, <2>2, <2>3, <2>4, <2>5, ResultRight
  <2>6. ASSUME NEW o \in Outputs(job) PROVE o \in AllStored(job)
    BY <2>1, <2>2, OutputStored
  <2> QED BY <2>5, <2>6, Zenon
<1> QED BY <1>1, <1>2, <1>3, GemmInvHolds, PTL DEF Spec

=============================================================================
