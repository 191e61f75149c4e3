-------------------------- MODULE PimKernelsProofs --------------------------
(***************************************************************************)
(* Proofs about PimKernels, in this order:                                 *)
(*   - what FlattenSeq, which joins the windows of a kernel, yields for    *)
(*     any number of pieces, and facts about quotients and remainders;     *)
(*   - the words of a program decode to the commands they encode;          *)
(*   - every kernel takes the memory from mode SB through HAB and HAB_PIM  *)
(*     back to SB (ModeRestored);                                          *)
(*   - the host and the device lay a weight out as the kernels read it     *)
(*     (WeightsLaidOut);                                                   *)
(*   - the types (TypesOK);                                                *)
(*   - an elementwise kernel leaves the operation's result in all of its   *)
(*     output (EltRight) and makes as many accesses as its program takes   *)
(*     commands (EltInStep).                                               *)
(* All of it for every geometry and every order in which the memory takes  *)
(* the accesses of a window. PimGemmProofs goes on with the product.       *)
(***************************************************************************)
EXTENDS PimKernels, FiniteSetTheorems, WellFoundedInduction, TLAPS

-----------------------------------------------------------------------------
(* Pieces joined by FlattenSeq. It is defined by a recursive function, so  *)
(* its facts are proved by induction over the naturals, stated for a set   *)
(* instead of a predicate.                                                 *)

\* Induction over the naturals, with the predicate given as the set of the
\* numbers it holds of.
LEMMA NatSetInduction ==
  ASSUME NEW T, 0 \in T, \A n \in Nat : n \in T => n + 1 \in T
  PROVE  Nat \subseteq T
<1> SUFFICES ASSUME Nat \ T # {} PROVE FALSE
  OBVIOUS
<1>1. PICK R : R = OpToRel(<, Nat)
  OBVIOUS
<1>2. IsWellFoundedOn(R, Nat)
  BY <1>1, NatLessThanWellFounded
<1>3. PICK x \in Nat \ T : \A y \in Nat \ T : ~(<<y, x>> \in R)
  BY <1>2, WFMin
<1>4. x # 0 /\ x - 1 \in Nat
  OBVIOUS
<1>5. x - 1 \notin T
  BY <1>3, <1>4
<1>6. <<x - 1, x>> \in R
  BY <1>1, <1>4 DEF OpToRel
<1> QED BY <1>3, <1>4, <1>5, <1>6

\* f is the function FlattenSeq chooses: its k-th value joins the first k pieces.
IsFlat(s, n, f) ==
  f = [k \in 1 .. n |-> IF k = 1 THEN s[k] ELSE f[k - 1] \o s[k]]

\* The recursion FlattenSeq chooses its function by has a solution, for any
\* number of pieces.
LEMMA FlatExists ==
  ASSUME NEW s, NEW n \in Nat
  PROVE  \E f : IsFlat(s, n, f)
<1>1. PICK T : T = {m \in Nat : \E f : IsFlat(s, m, f)}
  OBVIOUS
<1>2. 0 \in T
  <2>1. PICK e : e = [k \in 1 .. 0 |-> 0]
    OBVIOUS
  <2>2. IsFlat(s, 0, e)
    BY <2>1 DEF IsFlat
  <2> QED BY <1>1, <2>2
<1>3. ASSUME NEW m \in Nat, m \in T PROVE m + 1 \in T
  <2>1. PICK f : IsFlat(s, m, f)
    BY <1>1, <1>3
  <2>2. \A k \in 1 .. m : f[k] = IF k = 1 THEN s[k] ELSE f[k - 1] \o s[k]
    BY <2>1, Zenon DEF IsFlat
  <2>3. PICK g : g = [k \in 1 .. m + 1 |-> IF k <= m THEN f[k] ELSE IF k = 1 THEN s[k] ELSE f[k - 1] \o s[k]]
    OBVIOUS
  <2>4. ASSUME NEW k \in 1 .. m + 1
        PROVE  g[k] = IF k = 1 THEN s[k] ELSE g[k - 1] \o s[k]
    <3>1. CASE k = 1
      BY <3>1, <2>2, <2>3
    <3>2. CASE k # 1
      <4>1. g[k - 1] = f[k - 1]
        BY <3>2, <2>3
      <4>2. CASE k <= m
        <5>1. k \in 1 .. m /\ g[k] = f[k]
          BY <4>2, <2>3
        <5>2. f[k] = f[k - 1] \o s[k]
          BY <5>1, <3>2, <2>2, Zenon
        <5> QED BY <4>1, <3>2, <5>1, <5>2, Zenon
      <4>3. CASE ~(k <= m)
        BY <4>1, <4>3, <3>2, <2>3
      <4> QED BY <4>2, <4>3
    <3> QED BY <3>1, <3>2
  <2>5. g = [k \in 1 .. m + 1 |-> g[k]]
    BY <2>3, Zenon
  <2>6. g = [k \in 1 .. m + 1 |-> IF k = 1 THEN s[k] ELSE g[k - 1] \o s[k]]
    BY <2>4, <2>5, Zenon
  <2>7. IsFlat(s, m + 1, g)
    BY <2>6, Zenon DEF IsFlat
  <2> QED BY <1>1, <2>7
<1> QED BY <1>1, <1>2, <1>3, NatSetInduction

\* So FlattenSeq(s) is the last value of that function.
LEMMA FlatRec ==
  ASSUME NEW s, Len(s) # 0, Len(s) \in Nat
  PROVE  \E f : IsFlat(s, Len(s), f) /\ FlattenSeq(s) = f[Len(s)]
<1> DEFINE g == CHOOSE f : IsFlat(s, Len(s), f)
<1>1. IsFlat(s, Len(s), g)
  BY FlatExists
<1>2. FlattenSeq(s) = g[Len(s)]
  BY Zenon DEF FlattenSeq, IsFlat
<1> QED BY <1>1, <1>2, Zenon

\* Element i of flat is within a copy of b that starts after off elements.
InBlock(flat, i, b, off) ==
  /\ i - off \in 1 .. Len(b) /\ off + Len(b) <= Len(flat)
  /\ \A m \in 1 .. Len(b) : flat[off + m] = b[m]

\* flat consists of copies of pieces of s.
Blocks(flat, s) ==
  \A i \in 1 .. Len(flat) : \E t \in DOMAIN s, off \in Nat : InBlock(flat, i, s[t], off)

\* A further piece at the end keeps every element inside a copy of a piece.
LEMMA BlocksSnoc ==
  ASSUME NEW S, NEW f \in Seq(S), NEW s, NEW t \in DOMAIN s,
         \A d \in DOMAIN s : s[d] \in Seq(S), Blocks(f, s)
  PROVE  f \o s[t] \in Seq(S) /\ Blocks(f \o s[t], s)
<1>1. PICK h, g : h = f \o g /\ g = s[t]
  OBVIOUS
<1>2. /\ g \in Seq(S) /\ h \in Seq(S)
      /\ Len(h) = Len(f) + Len(g) /\ Len(f) \in Nat /\ Len(g) \in Nat
      /\ \A i \in 1 .. Len(f) : h[i] = f[i]
      /\ \A i \in 1 .. Len(g) : h[Len(f) + i] = g[i]
  BY <1>1
<1>3. ASSUME NEW i \in 1 .. Len(h)
      PROVE  \E d \in DOMAIN s, off \in Nat : InBlock(h, i, s[d], off)
  <2>1. CASE i <= Len(f)
    <3>0. i \in 1 .. Len(f)
      BY <2>1, <1>2
    <3>1. PICK d \in DOMAIN s, off \in Nat : InBlock(f, i, s[d], off)
      BY <3>0, Zenon DEF Blocks
    <3>2. PICK b : b = s[d] /\ b \in Seq(S) /\ Len(b) \in Nat
      OBVIOUS
    <3>3. InBlock(f, i, b, off)
      BY <3>1, <3>2
    <3>4. ASSUME NEW m \in 1 .. Len(b) PROVE h[off + m] = b[m]
      <4>1. off + m \in 1 .. Len(f)
        BY <3>2, <3>3, <1>2 DEF InBlock
      <4> QED BY <4>1, <3>2, <3>3, <1>2 DEF InBlock
    <3>5. InBlock(h, i, b, off)
      BY <3>2, <3>3, <3>4, <1>2 DEF InBlock
    <3> QED BY <3>2, <3>5, Zenon
  <2>2. CASE ~(i <= Len(f))
    <3>1. InBlock(h, i, g, Len(f))
      BY <2>2, <1>2 DEF InBlock
    <3> QED BY <3>1, <1>1, <1>2, Zenon
  <2> QED BY <2>1, <2>2
<1>4. Blocks(h, s)
  BY <1>3, Zenon DEF Blocks
<1> QED BY <1>1, <1>2, <1>4, Zenon

\* Every element of FlattenSeq(s) lies in a contiguous copy of a piece of s.
LEMMA FlattenBlocks ==
  ASSUME NEW S, NEW N \in Nat, NEW s \in [1 .. N -> Seq(S)]
  PROVE  FlattenSeq(s) \in Seq(S) /\ Blocks(FlattenSeq(s), s)
<1>0. s \in Seq(Seq(S)) /\ Len(s) = N
  OBVIOUS
<1>1. CASE N = 0
  <2>1. s = << >> /\ Len(s) = 0
    BY <1>1
  <2>2. FlattenSeq(s) = << >>
    BY <2>1, Zenon DEF FlattenSeq
  <2> QED BY <2>2 DEF Blocks
<1>2. CASE N # 0
  <2>1. PICK f : IsFlat(s, N, f) /\ FlattenSeq(s) = f[N]
    BY <1>0, <1>2, FlatRec
  <2>2. \A k \in 1 .. N : f[k] = IF k = 1 THEN s[k] ELSE f[k - 1] \o s[k]
    BY <2>1, Zenon DEF IsFlat
  <2>3. PICK T : T = {k \in Nat : k \in 1 .. N => f[k] \in Seq(S) /\ Blocks(f[k], s)}
    OBVIOUS
  <2>4. 0 \in T
    BY <2>3
  <2>5. ASSUME NEW k \in Nat, k \in T PROVE k + 1 \in T
    <3> SUFFICES ASSUME k + 1 \in 1 .. N PROVE f[k + 1] \in Seq(S) /\ Blocks(f[k + 1], s)
      BY <2>3
    <3>0. DOMAIN s = 1 .. N /\ \A d \in DOMAIN s : s[d] \in Seq(S)
      OBVIOUS
    <3>1. CASE k = 0
      <4>1. f[k + 1] = s[k + 1]
        BY <3>1, <2>2
      <4>2. s[k + 1] = << >> \o s[k + 1]
        BY <3>0
      <4>3. << >> \in Seq(S) /\ Blocks(<< >>, s)
        BY DEF Blocks
      <4>4. << >> \o s[k + 1] \in Seq(S) /\ Blocks(<< >> \o s[k + 1], s)
        BY <3>0, <4>3, BlocksSnoc
      <4> QED BY <4>1, <4>2, <4>4
    <3>2. CASE k # 0
      <4>0. k + 1 \in 1 .. N /\ k + 1 # 1 /\ (k + 1) - 1 = k
        BY <3>2
      <4>1. f[k + 1] = f[(k + 1) - 1] \o s[k + 1]
        BY <4>0, <2>2, Zenon
      <4>2. k \in 1 .. N /\ f[k] \in Seq(S) /\ Blocks(f[k], s)
        BY <3>2, <2>3, <2>5
      <4>3. f[k] \o s[k + 1] \in Seq(S) /\ Blocks(f[k] \o s[k + 1], s)
        BY <3>0, <4>2, BlocksSnoc
      <4> QED BY <4>0, <4>1, <4>3
    <3> QED BY <3>1, <3>2
  <2>6. N \in T
    BY <2>4, <2>5, NatSetInduction
  <2> QED BY <1>2, <2>1, <2>3, <2>6
<1> QED BY <1>1, <1>2

\* s is a sequence, whatever its elements.
IsSeq(s) == s \in Seq(Range(s))

\* A sequence over any set is one over its own elements.
LEMMA SeqIsSeq ==
  ASSUME NEW S, NEW s \in Seq(S)
  PROVE  IsSeq(s) /\ Len(s) \in Nat /\ DOMAIN s = 1 .. Len(s)
BY DEF IsSeq, Range

\* The length and the elements of s \o t.
LEMMA ConcatIsSeq ==
  ASSUME NEW s, IsSeq(s), NEW t, IsSeq(t)
  PROVE  /\ IsSeq(s \o t) /\ Len(s) \in Nat /\ Len(t) \in Nat
         /\ Len(s \o t) = Len(s) + Len(t)
         /\ \A i \in 1 .. Len(s) : (s \o t)[i] = s[i]
         /\ \A i \in 1 .. Len(t) : (s \o t)[Len(s) + i] = t[i]
<1>1. s \in Seq(Range(s) \cup Range(t)) /\ t \in Seq(Range(s) \cup Range(t))
  BY DEF IsSeq
<1>2. PICK S : S = Range(s) \cup Range(t)
  OBVIOUS
<1>3. s \in Seq(S) /\ t \in Seq(S)
  BY <1>1, <1>2
<1>4. s \o t \in Seq(S)
  BY <1>3
<1>5. IsSeq(s \o t)
  BY <1>4, SeqIsSeq
<1> QED BY <1>3, <1>5

\* h is s and then t.
Joins(h, s, t) ==
  /\ IsSeq(h) /\ Len(s) \in Nat /\ Len(t) \in Nat /\ Len(h) = Len(s) + Len(t)
  /\ \A i \in 1 .. Len(s) : h[i] = s[i]
  /\ \A i \in 1 .. Len(t) : h[Len(s) + i] = t[i]

\* The same as one fact about the result.
LEMMA ConcatJoins ==
  ASSUME NEW s, IsSeq(s), NEW t, IsSeq(t)
  PROVE  Joins(s \o t, s, t)
<1>1. PICK h : h = s \o t
  OBVIOUS
<1>2. /\ IsSeq(h) /\ Len(s) \in Nat /\ Len(t) \in Nat /\ Len(h) = Len(s) + Len(t)
      /\ \A i \in 1 .. Len(s) : h[i] = s[i]
      /\ \A i \in 1 .. Len(t) : h[Len(s) + i] = t[i]
  BY <1>1, ConcatIsSeq
<1> QED BY <1>1, <1>2, Zenon DEF Joins

\* FlattenBlocks for pieces of which no common set is known.
LEMMA FlattenIsSeq ==
  ASSUME NEW n \in Int, NEW s, s = [i \in 1 .. n |-> s[i]],
         \A i \in 1 .. n : IsSeq(s[i])
  PROVE  IsSeq(FlattenSeq(s)) /\ Blocks(FlattenSeq(s), s)
<1>1. PICK S : S = UNION {Range(s[i]) : i \in 1 .. n}
  OBVIOUS
<1>2. ASSUME NEW i \in 1 .. n PROVE s[i] \in Seq(S)
  <2>1. PICK b : b = s[i]
    OBVIOUS
  <2>2. b \in Seq(Range(b)) /\ Range(b) \subseteq S
    BY <1>1, <2>1 DEF IsSeq
  <2>3. b \in Seq(S)
    BY <2>2
  <2> QED BY <2>1, <2>3
<1>3. PICK N \in Nat : 1 .. N = 1 .. n
  <2>1. CASE n >= 0
    BY <2>1
  <2>2. CASE ~(n >= 0)
    <3>1. 1 .. n = 1 .. 0
      BY <2>2
    <3> QED BY <3>1
  <2> QED BY <2>1, <2>2
<1>4. s \in [1 .. N -> Seq(S)]
  BY <1>2, <1>3
<1> QED BY <1>4, FlattenBlocks, SeqIsSeq

\* Concatenation is associative.
LEMMA ConcatAssoc ==
  ASSUME NEW s, IsSeq(s), NEW t, IsSeq(t), NEW v, IsSeq(v)
  PROVE  (s \o t) \o v = s \o (t \o v)
<1>1. PICK S : S = Range(s) \cup Range(t) \cup Range(v)
  OBVIOUS
<1>2. s \in Seq(S) /\ t \in Seq(S) /\ v \in Seq(S)
  BY <1>1 DEF IsSeq
<1> QED BY <1>2

\* Two sequences of one element make a pair.
LEMMA ConcatPair ==
  ASSUME NEW a, NEW b
  PROVE  <<a>> \o <<b>> = <<a, b>>
<1>1. PICK S, s, t, h : S = {a, b} /\ s = <<a>> /\ t = <<b>> /\ h = s \o t
  OBVIOUS
<1>2. s \in Seq(S) /\ t \in Seq(S) /\ Len(s) = 1 /\ Len(t) = 1 /\ s[1] = a /\ t[1] = b
  BY <1>1
<1>3. h \in Seq(S) /\ Len(h) = 2 /\ h[1] = a /\ h[2] = b
  BY <1>1, <1>2
<1>4. h = <<h[1], h[2]>>
  BY <1>3
<1> QED BY <1>1, <1>3, <1>4

\* s and t agree on their first n pieces.
SameUpTo(s, t, n) == \A k \in 1 .. n : s[k] = t[k]

\* The recursion's values depend on the pieces up to there, and on nothing
\* else.
LEMMA FlatUnique ==
  ASSUME NEW s, NEW t, NEW n \in Nat, NEW m \in Nat, m <= n, NEW f, NEW g,
         IsFlat(s, n, f), IsFlat(t, m, g), SameUpTo(s, t, m)
  PROVE  SameUpTo(f, g, m)
<1>1. /\ \A k \in 1 .. n : f[k] = IF k = 1 THEN s[k] ELSE f[k - 1] \o s[k]
      /\ \A k \in 1 .. m : g[k] = IF k = 1 THEN t[k] ELSE g[k - 1] \o t[k]
  BY Zenon DEF IsFlat
<1>2. PICK T : T = {k \in Nat : k \in 1 .. m => f[k] = g[k]}
  OBVIOUS
<1>3. 0 \in T
  BY <1>2
<1>4. ASSUME NEW k \in Nat, k \in T PROVE k + 1 \in T
  <2> SUFFICES ASSUME k + 1 \in 1 .. m PROVE f[k + 1] = g[k + 1]
    BY <1>2
  <2>1. k + 1 \in 1 .. n /\ s[k + 1] = t[k + 1]
    BY DEF SameUpTo
  <2>2. CASE k = 0
    BY <2>1, <2>2, <1>1
  <2>3. CASE k # 0
    <3>1. k \in 1 .. m /\ k + 1 # 1 /\ (k + 1) - 1 = k
      BY <2>3
    <3>2. f[k] = g[k]
      BY <3>1, <1>2, <1>4
    <3>3. f[k + 1] = f[(k + 1) - 1] \o s[k + 1] /\ g[k + 1] = g[(k + 1) - 1] \o t[k + 1]
      BY <2>1, <3>1, <1>1, Zenon
    <3> QED BY <2>1, <3>1, <3>2, <3>3
  <2> QED BY <2>2, <2>3
<1>5. Nat \subseteq T
  BY <1>3, <1>4, NatSetInduction
<1> QED BY <1>2, <1>5 DEF SameUpTo

\* FlattenSeq of one more piece: what it was, and the piece.
LEMMA FlattenSnoc ==
  ASSUME NEW S, NEW s \in Seq(Seq(S)), NEW b \in Seq(S)
  PROVE  FlattenSeq(Append(s, b)) = FlattenSeq(s) \o b
<1>1. PICK t, n : t = Append(s, b) /\ n = Len(s)
  OBVIOUS
<1>2. /\ n \in Nat /\ t \in Seq(Seq(S)) /\ Len(t) = n + 1 /\ t[n + 1] = b
      /\ \A k \in 1 .. n : t[k] = s[k]
  BY <1>1
<1>3. PICK f : IsFlat(t, n + 1, f) /\ FlattenSeq(t) = f[n + 1]
  <2>1. Len(t) \in Nat /\ Len(t) # 0 /\ Len(t) = n + 1
    BY <1>2
  <2>2. \E f : IsFlat(t, Len(t), f) /\ FlattenSeq(t) = f[Len(t)]
    BY <2>1, FlatRec, Zenon
  <2> QED BY <2>1, <2>2, Zenon
<1>4. \A k \in 1 .. n + 1 : f[k] = IF k = 1 THEN t[k] ELSE f[k - 1] \o t[k]
  BY <1>3, Zenon DEF IsFlat
<1>5. CASE n = 0
  <2>1. FlattenSeq(s) = << >>
    <3>0. PICK Q : Q = Seq(S)
      OBVIOUS
    <3>1. s \in Seq(Q) /\ Len(s) = 0
      BY <1>1, <1>5, <3>0
    <3>2. s = << >>
      BY <3>1
    <3> QED BY <3>1, <3>2, Zenon DEF FlattenSeq
  <2>2. f[n + 1] = b
    BY <1>2, <1>4, <1>5
  <2>3. << >> \o b = b
    OBVIOUS
  <2> QED BY <1>1, <1>3, <2>1, <2>2, <2>3
<1>6. CASE n # 0
  <2>1. PICK g : IsFlat(s, n, g) /\ FlattenSeq(s) = g[n]
    BY <1>1, <1>2, <1>6, FlatRec
  <2>2. f[n] = g[n]
    <3>1. n + 1 \in Nat /\ n <= n + 1 /\ n \in 1 .. n
      BY <1>2, <1>6
    <3>2. SameUpTo(f, g, n)
      <4>1. PICK m \in Nat : m = n + 1 /\ n <= m
        BY <3>1
      <4>2. IsFlat(t, m, f) /\ IsFlat(s, n, g) /\ SameUpTo(t, s, n)
        BY <1>2, <1>3, <2>1, <4>1 DEF SameUpTo
      <4> QED BY <1>2, <4>1, <4>2, FlatUnique
    <3> QED BY <3>1, <3>2, Zenon DEF SameUpTo
  <2>3. n + 1 \in 1 .. n + 1 /\ n + 1 # 1 /\ (n + 1) - 1 = n
    BY <1>2, <1>6
  <2>4. f[n + 1] = f[(n + 1) - 1] \o t[n + 1]
    BY <1>4, <2>3, Zenon
  <2> QED BY <1>1, <1>2, <1>3, <2>1, <2>2, <2>3, <2>4
<1> QED BY <1>2, <1>5, <1>6

\* No pieces flatten to nothing.
LEMMA FlattenEmpty == FlattenSeq(<< >>) = << >>
<1>1. Len(<< >>) = 0
  OBVIOUS
<1> QED BY <1>1, Zenon DEF FlattenSeq

\* Two pieces flatten to their concatenation.
LEMMA FlattenTwo ==
  ASSUME NEW S, NEW a \in Seq(S), NEW b \in Seq(S)
  PROVE  FlattenSeq(<<a, b>>) = a \o b
<1>1. << >> \in Seq(Seq(S)) /\ <<a>> \in Seq(Seq(S))
  OBVIOUS
<1>2. <<a>> = Append(<< >>, a) /\ <<a, b>> = Append(<<a>>, b) /\ << >> \o a = a
  OBVIOUS
<1>3. FlattenSeq(<<a>>) = a
  BY <1>1, <1>2, FlattenSnoc, FlattenEmpty
<1> QED BY <1>1, <1>2, <1>3, FlattenSnoc

\* The pieces 1 .. n of s, one by one.
IsFamily(s, n) == s = [m \in 1 .. n |-> s[m]] /\ \A m \in 1 .. n : IsSeq(s[m])

\* One more piece.
LEMMA FlattenStep ==
  ASSUME NEW n \in Nat, NEW s, NEW t, IsFamily(s, n + 1), IsFamily(t, n), SameUpTo(s, t, n)
  PROVE  FlattenSeq(s) = FlattenSeq(t) \o s[n + 1] /\ IsSeq(FlattenSeq(t)) /\ IsSeq(s[n + 1])
<1>0. /\ s = [m \in 1 .. n + 1 |-> s[m]] /\ t = [m \in 1 .. n |-> t[m]]
      /\ \A m \in 1 .. n + 1 : IsSeq(s[m])
      /\ \A m \in 1 .. n : IsSeq(t[m]) /\ s[m] = t[m]
  BY Zenon DEF IsFamily, SameUpTo
<1>same. \A m \in 1 .. n : s[m] = t[m]
  BY Zenon DEF SameUpTo
<1>1. PICK S : S = UNION {Range(s[m]) : m \in 1 .. n + 1}
  OBVIOUS
<1>2. ASSUME NEW m \in 1 .. n + 1 PROVE s[m] \in Seq(S)
  <2>1. PICK b : b = s[m]
    OBVIOUS
  <2>2. b \in Seq(Range(b)) /\ Range(b) \subseteq S
    BY <1>0, <1>1, <2>1 DEF IsSeq
  <2>3. b \in Seq(S)
    BY <2>2
  <2> QED BY <2>1, <2>3
<1>3. PICK Q : Q = Seq(S)
  OBVIOUS
<1>4. /\ s \in [1 .. n + 1 -> Q] /\ t \in [1 .. n -> Q]
  <2>1. \A m \in 1 .. n + 1 : s[m] \in Q
    BY <1>2, <1>3
  <2>2. \A m \in 1 .. n : t[m] \in Q
    BY <2>1, <1>same
  <2> QED BY <2>1, <2>2, <1>0
<1>5. PICK b : b = s[n + 1] /\ b \in Q
  BY <1>4
<1>6. s \in Seq(Q) /\ t \in Seq(Q) /\ Len(s) = n + 1 /\ Len(t) = n
  BY <1>4
<1>7. s = Append(t, b)
  <2>1. PICK d : d = Append(t, b)
    OBVIOUS
  <2>2. d \in Seq(Q) /\ Len(d) = n + 1 /\ d[n + 1] = b /\ \A m \in 1 .. n : d[m] = t[m]
    BY <2>1, <1>5, <1>6
  <2>3. \A m \in 1 .. n + 1 : d[m] = s[m]
    BY <2>2, <1>same, <1>5
  <2> QED BY <2>1, <2>2, <2>3, <1>6
<1>8. FlattenSeq(s) = FlattenSeq(t) \o b
  BY <1>3, <1>5, <1>6, <1>7, FlattenSnoc
<1>9. IsSeq(FlattenSeq(t))
  BY <1>0, FlattenIsSeq, SMTT(30)
<1>10. IsSeq(s[n + 1])
  BY <1>0
<1> QED BY <1>5, <1>8, <1>9, <1>10

\* The first n pieces of s.
Pieces(s, n) == [m \in 1 .. n |-> s[m]]

-----------------------------------------------------------------------------
(* Quotients and remainders.                                               *)

\* Sums and products of naturals.
LEMMA MulNat == ASSUME NEW a \in Nat, NEW b \in Nat PROVE a * b \in Nat
  OBVIOUS

\* A product of naturals grows with its factor.
LEMMA MulLe == ASSUME NEW a \in Nat, NEW b \in Nat, NEW n \in Nat, a <= b PROVE a * n <= b * n
  OBVIOUS

\* Quotient and remainder are the only ones.
LEMMA DivUnique ==
  ASSUME NEW n \in Nat \ {0}, NEW q \in Int, NEW r \in 0 .. n - 1, NEW x, x = q * n + r
  PROVE  x \div n = q /\ x % n = r
  OBVIOUS

\* What quotient and remainder are.
LEMMA DivMod ==
  ASSUME NEW n \in Nat \ {0}, NEW x \in Nat
  PROVE  /\ x \div n \in Nat /\ x % n \in 0 .. n - 1
         /\ x = (x \div n) * n + (x % n)
  OBVIOUS

\* A number has one quotient and one remainder.
LEMMA DigitsUnique ==
  ASSUME NEW n \in Nat \ {0}, NEW q \in Int, NEW r \in 0 .. n - 1,
         NEW p \in Int, NEW s \in 0 .. n - 1, q * n + r = p * n + s
  PROVE  q = p /\ r = s
  OBVIOUS

\* A number of two digits is below the product of their bounds.
LEMMA DigitsBound ==
  ASSUME NEW n \in Nat \ {0}, NEW N \in Nat, NEW q \in 0 .. N - 1, NEW r \in 0 .. n - 1
  PROVE  q * n + r \in 0 .. N * n - 1
  OBVIOUS

\* The quotient of a number below N * n is below N.
LEMMA DigitsBelow ==
  ASSUME NEW n \in Nat \ {0}, NEW N \in Nat, NEW x \in 0 .. N * n - 1
  PROVE  x \div n \in 0 .. N - 1
  OBVIOUS

\* A multiple of n.
LEMMA DivExact ==
  ASSUME NEW n \in Nat \ {0}, NEW x \in Nat, x % n = 0
  PROVE  \E q \in Nat : q = x \div n /\ x = q * n /\ (x > 0 => q > 0)
<1>1. x \div n \in Nat /\ x = (x \div n) * n + 0
  BY DivMod
<1>2. PICK q \in Nat : q = x \div n
  BY <1>1
<1>3. x = q * n
  BY <1>1, <1>2
<1> QED BY <1>2, <1>3

\* Quotient and remainder, named.
LEMMA DivSplit ==
  ASSUME NEW n \in Nat \ {0}, NEW x \in Nat
  PROVE  \E q \in Nat, r \in 0 .. n - 1 : q = x \div n /\ r = x % n /\ x = q * n + r
<1>1. x \div n \in Nat /\ x % n \in 0 .. n - 1 /\ x = (x \div n) * n + (x % n)
  BY DivMod
<1> QED BY <1>1, Zenon

\* The same as DivUnique for naturals.
LEMMA DivNat ==
  ASSUME NEW n \in Nat \ {0}, NEW q \in Nat, NEW r \in 0 .. n - 1, NEW x, x = q * n + r
  PROVE  x \div n = q /\ x % n = r
<1>1. q \in Int
  OBVIOUS
<1> QED BY <1>1, DivUnique

-----------------------------------------------------------------------------
(* Pieces of one length.                                                   *)

\* f is n pieces of length L, one after another.
IsEven(f, s, n, L) ==
  /\ IsSeq(f) /\ Len(f) = n * L
  /\ \A m \in 0 .. n - 1 : \A i \in 1 .. L : f[m * L + i] = s[m + 1][i]

\* Pieces of one length, flattened.
LEMMA FlattenEven ==
  ASSUME NEW N \in Nat, NEW L \in Nat, NEW s, IsFamily(s, N), \A m \in 1 .. N : Len(s[m]) = L
  PROVE  IsEven(FlattenSeq(s), s, N, L)
<1>0. s = Pieces(s, N) /\ \A m \in 1 .. N : IsSeq(s[m])
  BY Zenon DEF IsFamily, Pieces
<1>len. \A m \in 1 .. N : Len(s[m]) = L
  OBVIOUS
<1>is. \A m \in 1 .. N : IsSeq(s[m])
  BY <1>0
<1>1. PICK T : T = {n \in Nat : n <= N => IsEven(FlattenSeq(Pieces(s, n)), s, n, L)}
  OBVIOUS
<1>2. 0 \in T
  <2>1. Pieces(s, 0) = << >>
    BY DEF Pieces
  <2>2. FlattenSeq(Pieces(s, 0)) = << >>
    BY <2>1, FlattenEmpty
  <2>3. IsEven(<< >>, s, 0, L)
    BY DEF IsEven, IsSeq
  <2> QED BY <1>1, <2>2, <2>3
<1>3. ASSUME NEW n \in Nat, n \in T PROVE n + 1 \in T
  <2> SUFFICES ASSUME n + 1 <= N PROVE IsEven(FlattenSeq(Pieces(s, n + 1)), s, n + 1, L)
    BY <1>1
  <2>1. PICK t, x, f, g, p : /\ t = Pieces(s, n) /\ x = Pieces(s, n + 1) /\ p = s[n + 1]
                             /\ f = FlattenSeq(t) /\ g = FlattenSeq(x)
    OBVIOUS
  <2>2. IsEven(f, s, n, L)
    BY <1>1, <1>3, <2>1
  <2>3. /\ \A m \in 1 .. n + 1 : x[m] = s[m]
        /\ \A m \in 1 .. n : t[m] = s[m]
    BY <2>1 DEF Pieces
  <2>4. IsFamily(x, n + 1) /\ IsFamily(t, n) /\ SameUpTo(x, t, n)
    <3>1. x = [m \in 1 .. n + 1 |-> x[m]] /\ t = [m \in 1 .. n |-> t[m]]
      BY <2>1 DEF Pieces
    <3>2. \A m \in 1 .. n + 1 : IsSeq(x[m])
      BY <2>3, <1>is
    <3>3. \A m \in 1 .. n : IsSeq(t[m]) /\ x[m] = t[m]
      BY <2>3, <1>is
    <3> QED BY <3>1, <3>2, <3>3, Zenon DEF IsFamily, SameUpTo
  <2>5. g = f \o p /\ IsSeq(f) /\ IsSeq(p) /\ Len(p) = L
    <3>1. FlattenSeq(x) = FlattenSeq(t) \o x[n + 1] /\ IsSeq(FlattenSeq(t)) /\ IsSeq(x[n + 1])
      BY <2>4, FlattenStep
    <3>2. n + 1 \in 1 .. n + 1 /\ n + 1 \in 1 .. N
      OBVIOUS
    <3>3. x[n + 1] = p /\ Len(p) = L
      BY <3>2, <2>1, <2>3, <1>len
    <3> QED BY <3>1, <3>3, <2>1
  <2>6. Joins(g, f, p)
    BY <2>5, ConcatJoins
  <2>7. PICK nl \in Nat : nl = n * L /\ nl + L = (n + 1) * L
    BY MulNat
  <2>8. IsSeq(g) /\ Len(g) = (n + 1) * L /\ Len(f) = nl
    BY <2>2, <2>5, <2>6, <2>7 DEF Joins, IsEven
  <2>9. ASSUME NEW m \in 0 .. (n + 1) - 1, NEW i \in 1 .. L PROVE g[m * L + i] = s[m + 1][i]
    <3>1. CASE m < n
      <4>1. m \in 0 .. n - 1 /\ L \in Nat \ {0} /\ i - 1 \in 0 .. L - 1
        BY <3>1
      <4>2. m * L + (i - 1) \in 0 .. n * L - 1
        BY <4>1, DigitsBound
      <4>3. PICK ml \in Int : ml = m * L
        OBVIOUS
      <4>4. ml + i \in 1 .. Len(f)
        BY <2>7, <2>8, <4>2, <4>3
      <4>5. g[ml + i] = f[ml + i]
        BY <4>4, <2>6 DEF Joins
      <4>6. f[m * L + i] = s[m + 1][i]
        BY <2>2, <4>1 DEF IsEven
      <4> QED BY <4>3, <4>5, <4>6
    <3>2. CASE ~(m < n)
      <4>1. m = n
        BY <3>2
      <4>2. g[nl + i] = p[i]
        BY <2>5, <2>6, <2>8 DEF Joins
      <4> QED BY <2>1, <2>7, <4>1, <4>2
    <3> QED BY <3>1, <3>2
  <2>10. IsEven(g, s, n + 1, L)
    BY <2>8, <2>9 DEF IsEven
  <2> QED BY <2>1, <2>10
<1>4. N \in T
  BY <1>2, <1>3, NatSetInduction
<1>5. IsEven(FlattenSeq(Pieces(s, N)), s, N, L)
  BY <1>1, <1>4
<1> QED BY <1>0, <1>5

-----------------------------------------------------------------------------
(* Commands, as words and back.                                            *)

\* f is the function on 0 .. N that starts with a and goes on by g.
Recurs(f, N, a, g) ==
  f[0] = a /\ \A n \in 1 .. N : f[n] = g[<<n, f[n - 1]>>]

\* A recursion over 0 .. N has a solution.
LEMMA RecExists ==
  ASSUME NEW S, NEW a \in S, NEW N \in Nat, NEW g \in [(1 .. N) \X S -> S]
  PROVE  \E f \in [0 .. N -> S] : Recurs(f, N, a, g)
<1>1. PICK T : T = {m \in Nat : m <= N => \E f \in [0 .. m -> S] : Recurs(f, m, a, g)}
  OBVIOUS
<1>2. 0 \in T
  <2>1. PICK f : f = [n \in 0 .. 0 |-> a]
    OBVIOUS
  <2>2. f \in [0 .. 0 -> S] /\ Recurs(f, 0, a, g)
    BY <2>1 DEF Recurs
  <2> QED BY <1>1, <2>2
<1>3. ASSUME NEW m \in Nat, m \in T PROVE m + 1 \in T
  <2> SUFFICES ASSUME m + 1 <= N
               PROVE  \E h \in [0 .. m + 1 -> S] : Recurs(h, m + 1, a, g)
    BY <1>1
  <2>1. PICK f \in [0 .. m -> S] : Recurs(f, m, a, g)
    BY <1>1, <1>3
  <2>2. PICK x : x = g[<<m + 1, f[m]>>]
    OBVIOUS
  <2>3. x \in S
    <3>1. <<m + 1, f[m]>> \in (1 .. N) \X S
      OBVIOUS
    <3> QED BY <2>2, <3>1
  <2>4. PICK h : h = [n \in 0 .. m + 1 |-> IF n = m + 1 THEN x ELSE f[n]]
    OBVIOUS
  <2>5. h \in [0 .. m + 1 -> S]
    BY <2>3, <2>4
  <2>6. h[0] = a
    BY <2>1, <2>4 DEF Recurs
  <2>7. ASSUME NEW n \in 1 .. m + 1 PROVE h[n] = g[<<n, h[n - 1]>>]
    <3>1. h[n - 1] = f[n - 1]
      BY <2>4
    <3>2. CASE n = m + 1
      <4>1. n - 1 = m /\ h[n] = x
        BY <2>4, <3>2
      <4> QED BY <2>2, <3>1, <3>2, <4>1, Zenon
    <3>3. CASE n # m + 1
      <4>1. n \in 1 .. m /\ h[n] = f[n]
        BY <2>4, <3>3
      <4> QED BY <2>1, <3>1, <4>1 DEF Recurs
    <3> QED BY <3>2, <3>3
  <2> QED BY <2>5, <2>6, <2>7 DEF Recurs
<1>4. N \in T
  BY <1>2, <1>3, NatSetInduction
<1> QED BY <1>1, <1>4

\* sh holds val shifted right by up to len bits.
IsShift(sh, val, len) ==
  /\ sh \in [0 .. len -> Int] /\ sh[0] = val
  /\ \A n \in 1 .. len : sh[n] = sh[n - 1] \div 2

\* Shifting, bit by bit.
LEMMA ShiftedIs ==
  ASSUME NEW val \in Int, NEW len \in Nat
  PROVE  IsShift(Shifted(val, len), val, len)
<1>1. PICK g : g = [p \in (1 .. len) \X Int |-> p[2] \div 2]
  OBVIOUS
<1>2. g \in [(1 .. len) \X Int -> Int]
  BY <1>1
<1>3. PICK f \in [0 .. len -> Int] : Recurs(f, len, val, g)
  BY <1>2, RecExists
<1> DEFINE Is(h) == h = [n \in 0 .. len |-> IF n = 0 THEN val ELSE h[n - 1] \div 2]
<1>4. Is(f)
  <2>1. ASSUME NEW n \in 0 .. len PROVE f[n] = IF n = 0 THEN val ELSE f[n - 1] \div 2
    <3>1. CASE n = 0
      BY <1>3, <3>1 DEF Recurs
    <3>2. CASE n # 0
      <4>1. n \in 1 .. len /\ f[n - 1] \in Int /\ <<n, f[n - 1]>> \in (1 .. len) \X Int
        BY <3>2
      <4>2. f[n] = g[<<n, f[n - 1]>>]
        BY <1>3, <4>1 DEF Recurs
      <4> QED BY <1>1, <3>2, <4>1, <4>2
    <3> QED BY <3>1, <3>2
  <2> QED BY <2>1
<1>5. PICK h : h = Shifted(val, len)
  OBVIOUS
<1>6. Is(h)
  <2>1. Shifted(val, len) = CHOOSE k : Is(k)
    BY Zenon DEF Shifted
  <2>2. Is(CHOOSE k : Is(k))
    BY <1>4, Zenon
  <2> QED BY <1>5, <2>1, <2>2, Zenon
<1>7. h[0] = val /\ \A n \in 1 .. len : h[n] = h[n - 1] \div 2
  BY <1>6
<1>8. \A n \in 0 .. len : h[n] \in Int
  <2>1. PICK T : T = {n \in Nat : n <= len => h[n] \in Int}
    OBVIOUS
  <2>2. 0 \in T
    BY <1>7, <2>1
  <2>3. ASSUME NEW n \in Nat, n \in T PROVE n + 1 \in T
    <3> SUFFICES ASSUME n + 1 <= len PROVE h[n + 1] \in Int
      BY <2>1
    <3>1. h[n] \in Int /\ n + 1 \in 1 .. len /\ (n + 1) - 1 = n
      BY <2>1, <2>3
    <3>2. h[n + 1] = h[n] \div 2
      BY <1>7, <3>1
    <3> QED BY <3>1, <3>2
  <2>4. Nat \subseteq T
    BY <2>2, <2>3, NatSetInduction
  <2> QED BY <2>1, <2>4
<1>9. h \in [0 .. len -> Int]
  <2>1. h = [n \in 0 .. len |-> IF n = 0 THEN val ELSE h[n - 1] \div 2]
    BY <1>6
  <2>2. DOMAIN h = 0 .. len /\ h = [n \in 0 .. len |-> h[n]]
    BY <2>1
  <2> QED BY <1>8, <2>2
<1> QED BY <1>5, <1>7, <1>9 DEF IsShift

\* One bit of a word, as a number.
Bit(word, n) == IF n \in word THEN 1 ELSE 0

\* top holds the value of the n highest bits of a field.
IsTop(top, word, len, pos) ==
  /\ top \in [0 .. len -> Nat] /\ top[0] = 0
  /\ \A n \in 1 .. len : top[n] = 2 * top[n - 1] + Bit(word, pos + len - n)

\* Reading a field, bit by bit.
LEMMA FromBitIs ==
  ASSUME NEW word, NEW len \in Nat, NEW pos \in Int
  PROVE  \E top : IsTop(top, word, len, pos) /\ from_bit(word, len, pos) = top[len]
<1>1. PICK g : g = [p \in (1 .. len) \X Nat |-> 2 * p[2] + Bit(word, pos + len - p[1])]
  OBVIOUS
<1>0. \A n : Bit(word, n) \in Nat
  BY DEF Bit
<1>2. g \in [(1 .. len) \X Nat -> Nat]
  BY <1>0, <1>1
<1>3. PICK f \in [0 .. len -> Nat] : Recurs(f, len, 0, g)
  BY <1>2, RecExists
<1> DEFINE Is(h) == h = [n \in 0 .. len |-> IF n = 0 THEN 0
                           ELSE 2 * h[n - 1] + (IF pos + len - n \in word THEN 1 ELSE 0)]
<1>4. Is(f)
  <2>1. ASSUME NEW n \in 0 .. len
        PROVE  f[n] = IF n = 0 THEN 0 ELSE 2 * f[n - 1] + Bit(word, pos + len - n)
    <3>1. CASE n = 0
      BY <1>3, <3>1 DEF Recurs
    <3>2. CASE n # 0
      <4>1. n \in 1 .. len /\ f[n - 1] \in Nat /\ <<n, f[n - 1]>> \in (1 .. len) \X Nat
        BY <3>2
      <4>2. f[n] = g[<<n, f[n - 1]>>]
        BY <1>3, <4>1 DEF Recurs
      <4> QED BY <1>1, <3>2, <4>1, <4>2
    <3> QED BY <3>1, <3>2
  <2>2. f = [n \in 0 .. len |-> IF n = 0 THEN 0 ELSE 2 * f[n - 1] + Bit(word, pos + len - n)]
    BY <2>1
  <2> QED BY <2>2, Zenon DEF Bit
<1>5. PICK h : h = CHOOSE k : Is(k)
  OBVIOUS
<1>6. Is(h)
  BY <1>4, <1>5, Zenon
<1>7. from_bit(word, len, pos) = h[len]
  BY <1>5, Zenon DEF from_bit
<1>8. h = [n \in 0 .. len |-> IF n = 0 THEN 0 ELSE 2 * h[n - 1] + Bit(word, pos + len - n)]
  BY <1>6, Zenon DEF Bit
<1>9. h[0] = 0 /\ \A n \in 1 .. len : h[n] = 2 * h[n - 1] + Bit(word, pos + len - n)
  BY <1>8
<1>10. \A n \in 0 .. len : h[n] \in Nat
  <2>1. PICK T : T = {n \in Nat : n <= len => h[n] \in Nat}
    OBVIOUS
  <2>2. 0 \in T
    BY <1>9, <2>1
  <2>3. ASSUME NEW n \in Nat, n \in T PROVE n + 1 \in T
    <3> SUFFICES ASSUME n + 1 <= len PROVE h[n + 1] \in Nat
      BY <2>1
    <3>1. h[n] \in Nat /\ n + 1 \in 1 .. len /\ (n + 1) - 1 = n
      BY <2>1, <2>3
    <3>2. h[n + 1] = 2 * h[n] + Bit(word, pos + len - (n + 1))
      BY <1>9, <3>1
    <3> QED BY <1>0, <3>1, <3>2
  <2>4. Nat \subseteq T
    BY <2>2, <2>3, NatSetInduction
  <2> QED BY <2>1, <2>4
<1>11. h \in [0 .. len -> Nat]
  <2>1. DOMAIN h = 0 .. len /\ h = [n \in 0 .. len |-> h[n]]
    BY <1>8
  <2> QED BY <1>10, <2>1
<1>12. IsTop(h, word, len, pos)
  BY <1>9, <1>11 DEF IsTop
<1> QED BY <1>7, <1>12

\* val fits in len bits.
Fits(val, len) == val \in Nat /\ Shifted(val, len)[len] = 0

\* The word holds val in the field of len bits at pos.
Holds(word, val, len, pos) ==
  \A j \in 0 .. len - 1 : (pos + j \in word) <=> (Shifted(val, len)[j] % 2 = 1)

\* Reading a field gives the value written to it, if it fits.
LEMMA ReadBack ==
  ASSUME NEW word, NEW val, NEW len \in Nat, NEW pos \in Int,
         Fits(val, len), Holds(word, val, len, pos)
  PROVE  from_bit(word, len, pos) = val
<1>1. PICK sh : sh = Shifted(val, len)
  OBVIOUS
<1>2. /\ sh \in [0 .. len -> Int] /\ sh[0] = val /\ sh[len] = 0
      /\ \A n \in 1 .. len : sh[n] = sh[n - 1] \div 2
  <2>1. val \in Int /\ sh[len] = 0
    BY <1>1 DEF Fits
  <2>2. IsShift(sh, val, len)
    BY <1>1, <2>1, ShiftedIs
  <2> QED BY <2>1, <2>2, Zenon DEF IsShift
<1>3. PICK top : IsTop(top, word, len, pos) /\ from_bit(word, len, pos) = top[len]
  BY FromBitIs
<1>4. PICK T : T = {n \in Nat : n <= len => top[n] = sh[len - n]}
  OBVIOUS
<1>5. 0 \in T
  BY <1>2, <1>3, <1>4 DEF IsTop
<1>6. ASSUME NEW n \in Nat, n \in T PROVE n + 1 \in T
  <2> SUFFICES ASSUME n + 1 <= len PROVE top[n + 1] = sh[len - (n + 1)]
    BY <1>4
  <2>1. PICK k \in 0 .. len - 1 : k = len - (n + 1)
    OBVIOUS
  <2>2. top[n] = sh[k + 1] /\ n + 1 \in 1 .. len /\ (n + 1) - 1 = n /\ pos + len - (n + 1) = pos + k
    BY <1>4, <1>6, <2>1
  <2>3. top[n + 1] = 2 * top[n] + Bit(word, pos + k)
    BY <1>3, <2>2 DEF IsTop
  <2>4. sh[k + 1] = sh[k] \div 2 /\ sh[k] \in Int
    <3>1. k + 1 \in 1 .. len /\ (k + 1) - 1 = k /\ k \in 0 .. len
      OBVIOUS
    <3> QED BY <1>2, <3>1
  <2>5. Bit(word, pos + k) = sh[k] % 2
    BY <1>1, <2>4 DEF Holds, Bit
  <2> QED BY <2>1, <2>2, <2>3, <2>4, <2>5
<1>7. len \in T
  BY <1>5, <1>6, NatSetInduction
<1> QED BY <1>2, <1>3, <1>4, <1>7

\* The bits of one field.
LEMMA InField ==
  ASSUME NEW val, NEW len \in Nat, NEW pos \in Int, NEW n \in Int
  PROVE  n \in to_bit(val, len, pos) <=>
           n - pos \in 0 .. len - 1 /\ Shifted(val, len)[n - pos] % 2 = 1
<1>1. PICK sh : sh = Shifted(val, len)
  OBVIOUS
<1>2. to_bit(val, len, pos) = {pos + i : i \in {j \in 0 .. len - 1 : sh[j] % 2 = 1}}
  BY <1>1, Zenon DEF to_bit
<1>3. \A i \in 0 .. len - 1 : pos + i = n => i = n - pos
  OBVIOUS
<1>4. n - pos \in 0 .. len - 1 => pos + (n - pos) = n
  OBVIOUS
<1> QED BY <1>1, <1>2, <1>3, <1>4

\* A field has the bits of its place.
LEMMA FieldPlace ==
  ASSUME NEW val, NEW len \in Nat, NEW pos \in Int
  PROVE  to_bit(val, len, pos) \subseteq pos .. pos + len - 1
<1>1. PICK sh : sh = Shifted(val, len)
  OBVIOUS
<1>2. to_bit(val, len, pos) = {pos + i : i \in {j \in 0 .. len - 1 : sh[j] % 2 = 1}}
  BY <1>1, Zenon DEF to_bit
<1> QED BY <1>2

\* No bit of rest is in the field of len bits at pos.
Beside(rest, len, pos) == \A n \in pos .. pos + len - 1 : n \notin rest

\* What is read of a field that no other field of the word touches.
LEMMA ReadField ==
  ASSUME NEW val, NEW len \in Nat, NEW pos \in Int, Fits(val, len), NEW rest, Beside(rest, len, pos)
  PROVE  from_bit(to_bit(val, len, pos) \cup rest, len, pos) = val
<1>0. PICK word : word = to_bit(val, len, pos) \cup rest
  OBVIOUS
<1>1. ASSUME NEW j \in 0 .. len - 1
      PROVE  (pos + j \in word) <=> (Shifted(val, len)[j] % 2 = 1)
  <2>1. pos + j \in Int /\ pos + j \in pos .. pos + len - 1 /\ (pos + j) - pos = j
    OBVIOUS
  <2>2. (pos + j \in to_bit(val, len, pos)) <=> (Shifted(val, len)[j] % 2 = 1)
    BY <2>1, InField
  <2>3. pos + j \notin rest
    BY <2>1 DEF Beside
  <2> QED BY <1>0, <2>2, <2>3, Zenon
<1>2. Holds(word, val, len, pos)
  BY <1>1, Zenon DEF Holds
<1> QED BY <1>0, <1>2, ReadBack

\* The values the fields of a word hold: shifting by n bits divides by 2^n.
LEMMA SmallFit ==
  /\ \A v \in 0 .. 1 : Fits(v, 1)
  /\ \A v \in 0 .. 7 : Fits(v, 3)
  /\ \A v \in 0 .. 15 : Fits(v, 4)
<1>1. ASSUME NEW v \in 0 .. 1 PROVE Fits(v, 1)
  <2>1. PICK sh : sh = Shifted(v, 1)
    OBVIOUS
  <2>2. sh[0] = v /\ \A n \in 1 .. 1 : sh[n] = sh[n - 1] \div 2
    <3>1. IsShift(sh, v, 1)
      BY <2>1, ShiftedIs
    <3> QED BY <3>1, Zenon DEF IsShift
  <2>3. sh[1] = sh[0] \div 2
    BY <2>2
  <2> QED BY <2>1, <2>2, <2>3 DEF Fits
<1>2. ASSUME NEW v \in 0 .. 7 PROVE Fits(v, 3)
  <2>1. PICK sh : sh = Shifted(v, 3)
    OBVIOUS
  <2>2. sh[0] = v /\ \A n \in 1 .. 3 : sh[n] = sh[n - 1] \div 2
    <3>1. IsShift(sh, v, 3)
      BY <2>1, ShiftedIs
    <3> QED BY <3>1, Zenon DEF IsShift
  <2>3. sh[1] = sh[0] \div 2 /\ sh[2] = sh[1] \div 2 /\ sh[3] = sh[2] \div 2
    BY <2>2
  <2> QED BY <2>1, <2>2, <2>3 DEF Fits
<1>3. ASSUME NEW v \in 0 .. 15 PROVE Fits(v, 4)
  <2>1. PICK sh : sh = Shifted(v, 4)
    OBVIOUS
  <2>2. sh[0] = v /\ \A n \in 1 .. 4 : sh[n] = sh[n - 1] \div 2
    <3>1. IsShift(sh, v, 4)
      BY <2>1, ShiftedIs
    <3> QED BY <3>1, Zenon DEF IsShift
  <2>3. sh[1] = sh[0] \div 2 /\ sh[2] = sh[1] \div 2 /\ sh[3] = sh[2] \div 2 /\ sh[4] = sh[3] \div 2
    BY <2>2
  <2> QED BY <2>1, <2>2, <2>3 DEF Fits
<1> QED BY <1>1, <1>2, <1>3

\* Half of what is below twice a bound is below it.
LEMMA HalfBelow ==
  ASSUME NEW x \in Nat, NEW b \in Nat, x < 2 * b PROVE x \div 2 \in Nat /\ x \div 2 < b
  OBVIOUS

\* The largest number in the eleven bits of a NOP's counter.
MaxIdle == 64 * 32 - 1

\* The bounds, as numbers.
LEMMA MaxIdleIs == MaxIdle \in Nat /\ MaxIdle + 1 = 64 * 32
  BY DEF MaxIdle

\* The same for JUMP.
LEMMA MaxLoopIs == MaxLoop \in Nat /\ MaxLoop + 1 = 512 * 256
  BY DEF MaxLoop

\* Shifting by four bits divides by sixteen.
LEMMA FourShifts ==
  ASSUME NEW sh, NEW val, NEW len \in Nat, IsShift(sh, val, len), NEW n \in 0 .. len - 4,
         NEW b \in Nat, sh[n] \in Nat, sh[n] < 16 * b
  PROVE  sh[n + 4] \in Nat /\ sh[n + 4] < b
<1>1. ASSUME NEW k \in 0 .. len - 1, NEW c \in Nat, sh[k] \in Nat, sh[k] < 2 * c
      PROVE  sh[k + 1] \in Nat /\ sh[k + 1] < c
  <2>1. sh[k + 1] = sh[k] \div 2
    <3>1. k + 1 \in 1 .. len /\ (k + 1) - 1 = k
      OBVIOUS
    <3> QED BY <3>1 DEF IsShift
  <2> QED BY <1>1, <2>1, HalfBelow
<1>2. sh[n + 1] \in Nat /\ sh[n + 1] < 8 * b
  BY <1>1
<1>3. sh[n + 2] \in Nat /\ sh[n + 2] < 4 * b
  <2>1. n + 1 \in 0 .. len - 1 /\ (n + 1) + 1 = n + 2 /\ 8 * b = 2 * (4 * b) /\ 4 * b \in Nat
    OBVIOUS
  <2> QED BY <1>1, <1>2, <2>1
<1>4. sh[n + 3] \in Nat /\ sh[n + 3] < 2 * b
  <2>1. n + 2 \in 0 .. len - 1 /\ (n + 2) + 1 = n + 3 /\ 4 * b = 2 * (2 * b) /\ 2 * b \in Nat
    OBVIOUS
  <2> QED BY <1>1, <1>3, <2>1
<1>5. n + 3 \in 0 .. len - 1 /\ (n + 3) + 1 = n + 4
  OBVIOUS
<1> QED BY <1>1, <1>4, <1>5

\* The counter of a NOP and the offset of a JUMP.
LEMMA NopFits ==
  ASSUME NEW v \in 0 .. MaxIdle PROVE Fits(v, 11)
<1>1. PICK sh : sh = Shifted(v, 11)
  OBVIOUS
<1>0. v \in Nat /\ v < 64 * 32
  BY MaxIdleIs
<1>2. IsShift(sh, v, 11)
  BY <1>0, <1>1, ShiftedIs
<1>3. sh[0] \in Nat /\ sh[0] < 16 * 128
  BY <1>0, <1>2 DEF IsShift
<1>4. sh[4] \in Nat /\ sh[4] < 16 * 8
  BY <1>2, <1>3, FourShifts
<1>5. sh[8] \in Nat /\ sh[8] < 8
  BY <1>2, <1>4, FourShifts
<1>6. sh[9] = sh[8] \div 2 /\ sh[10] = sh[9] \div 2 /\ sh[11] = sh[10] \div 2
  BY <1>2 DEF IsShift
<1> QED BY <1>0, <1>1, <1>5, <1>6 DEF Fits

\* The counter of a JUMP.
LEMMA JumpFits ==
  ASSUME NEW v \in 0 .. MaxLoop PROVE Fits(v, 17)
<1>1. PICK sh : sh = Shifted(v, 17)
  OBVIOUS
<1>0. v \in Nat /\ v < 512 * 256
  BY MaxLoopIs
<1>2. IsShift(sh, v, 17)
  BY <1>0, <1>1, ShiftedIs
<1>3. sh[0] \in Nat /\ sh[0] < 16 * (16 * 512)
  BY <1>0, <1>2 DEF IsShift
<1>4. sh[4] \in Nat /\ sh[4] < 16 * 512
  BY <1>2, <1>3, FourShifts
<1>5. sh[8] \in Nat /\ sh[8] < 16 * 32
  BY <1>2, <1>4, FourShifts
<1>6. sh[12] \in Nat /\ sh[12] < 16 * 2
  BY <1>2, <1>5, FourShifts
<1>7. sh[16] \in Nat /\ sh[16] < 2
  BY <1>2, <1>6, FourShifts
<1>8. sh[17] = sh[16] \div 2
  BY <1>2 DEF IsShift
<1> QED BY <1>0, <1>1, <1>7, <1>8 DEF Fits

\* Enough bits make any number of a field at most its largest one.
LEMMA FourTops ==
  ASSUME NEW top, NEW word, NEW len \in Nat, NEW pos \in Int, IsTop(top, word, len, pos),
         NEW n \in 0 .. len - 4, NEW b \in Nat, top[n] < b
  PROVE  top[n + 4] \in Nat /\ top[n + 4] < 16 * b
<1>1. ASSUME NEW k \in 0 .. len - 1, NEW c \in Nat, top[k] < c
      PROVE  top[k + 1] < 2 * c
  <2>1. k + 1 \in 1 .. len /\ (k + 1) - 1 = k /\ k \in 0 .. len
    OBVIOUS
  <2>0. top[k] \in Nat
    BY <2>1 DEF IsTop
  <2>2. top[k + 1] = 2 * top[k] + Bit(word, pos + len - (k + 1))
    BY <2>1 DEF IsTop
  <2>3. Bit(word, pos + len - (k + 1)) \in {0, 1}
    BY DEF Bit
  <2> QED BY <1>1, <2>0, <2>2, <2>3
<1>2. top[n + 1] < 2 * b
  BY <1>1
<1>3. top[n + 2] < 4 * b
  <2>1. n + 1 \in 0 .. len - 1 /\ (n + 1) + 1 = n + 2 /\ 4 * b = 2 * (2 * b) /\ 2 * b \in Nat
    OBVIOUS
  <2> QED BY <1>1, <1>2, <2>1
<1>4. top[n + 3] < 8 * b
  <2>1. n + 2 \in 0 .. len - 1 /\ (n + 2) + 1 = n + 3 /\ 8 * b = 2 * (4 * b) /\ 4 * b \in Nat
    OBVIOUS
  <2> QED BY <1>1, <1>3, <2>1
<1>5. n + 3 \in 0 .. len - 1 /\ (n + 3) + 1 = n + 4 /\ 16 * b = 2 * (8 * b) /\ 8 * b \in Nat
  OBVIOUS
<1> QED BY <1>1, <1>4, <1>5 DEF IsTop

\* The counter of a JUMP, whatever the word.
LEMMA LoopCounterBound ==
  ASSUME NEW word
  PROVE  from_bit(word, 17, 11) \in 0 .. MaxLoop
<1>1. PICK top : IsTop(top, word, 17, 11) /\ from_bit(word, 17, 11) = top[17]
  BY FromBitIs
<1>2. top[0] < 1
  BY <1>1 DEF IsTop
<1>3. top[4] < 16
  BY <1>1, <1>2, FourTops
<1>4. top[8] < 16 * 16
  BY <1>1, <1>3, FourTops
<1>5. PICK b \in Nat : b = 16 * (16 * 16) /\ top[12] < b
  BY <1>1, <1>4, FourTops
<1>6. top[16] \in Nat /\ top[16] < 16 * b
  <2>1. 12 \in 0 .. 17 - 4 /\ 12 + 4 = 16
    OBVIOUS
  <2>2. PICK l \in Nat, n \in 0 .. 13 : l = 17 /\ n = 12 /\ n \in 0 .. l - 4
    OBVIOUS
  <2>3. IsTop(top, word, l, 11) /\ top[n] < b /\ 11 \in Int /\ n \in 0 .. l - 4
    BY <1>1, <1>5, <2>2
  <2>4. top[n + 4] \in Nat /\ top[n + 4] < 16 * b
    BY <2>3, FourTops
  <2> QED BY <2>1, <2>2, <2>4
<1>7. top[17] = 2 * top[16] + Bit(word, 11) /\ Bit(word, 11) \in {0, 1}
  BY <1>1 DEF IsTop, Bit
<1> QED BY <1>1, <1>5, <1>6, <1>7, MaxLoopIs

\* The number of an enumerator that occurs once.
LEMMA OrdIs ==
  ASSUME NEW enum, NEW i \in DOMAIN enum, i \in Int, \A k \in DOMAIN enum : enum[k] = enum[i] => k = i
  PROVE  Ord(enum, enum[i]) = i - 1
<1>1. (CHOOSE k \in DOMAIN enum : enum[k] = enum[i]) = i
  OBVIOUS
<1> QED BY <1>1, Zenon DEF Ord

\* The numbers of the types of commands.
LEMMA CmdNumbers ==
  ASSUME NEW i \in 1 .. 16
  PROVE  Ord(PimCmdType, PimCmdType[i]) = i - 1
<1>1. DOMAIN PimCmdType = 1 .. 16
  BY DEF PimCmdType
<1>2. \A k \in 1 .. 16 : PimCmdType[k] = PimCmdType[i] => k = i
  BY DEF PimCmdType
<1> QED BY <1>1, <1>2, OrdIs

\* The numbers of the operands.
LEMMA OpdNumbers ==
  ASSUME NEW i \in 1 .. 8
  PROVE  Ord(PimOpdType, PimOpdType[i]) = i - 1
<1>1. DOMAIN PimOpdType = 1 .. 8
  BY DEF PimOpdType
<1>2. \A k \in 1 .. 8 : PimOpdType[k] = PimOpdType[i] => k = i
  BY DEF PimOpdType
<1> QED BY <1>1, <1>2, OrdIs

\* The type the unit reads in the highest bits of a word, with low in the others.
LEMMA TypeRead ==
  ASSUME NEW ty, NEW i \in 1 .. 16, ty = PimCmdType[i], NEW low, Beside(low, 4, 28)
  PROVE  PimCmdType[from_bit(to_bit(Ord(PimCmdType, ty), 4, 28) \cup low, 4, 28) + 1] = ty
<1>1. PICK n \in 0 .. 15 : n = i - 1
  OBVIOUS
<1>2. Ord(PimCmdType, ty) = n /\ Fits(n, 4) /\ n + 1 = i
  BY <1>1, CmdNumbers, SmallFit
<1>3. from_bit(to_bit(n, 4, 28) \cup low, 4, 28) = n
  BY <1>2, ReadField
<1> QED BY <1>2, <1>3

\* NOP is read with some counter, and its own if it fits.
LEMMA NopRead ==
  ASSUME NEW lc
  PROVE  \E n : /\ from_int(to_int(Control("NOP", lc))) = Control("NOP", n)
                /\ lc \in 0 .. MaxIdle => n = lc
<1>1. PICK c : c = Control("NOP", lc)
  OBVIOUS
<1>2. c.type = "NOP" /\ c.loop_counter = lc
  BY <1>1 DEF Control, PimCommand
<1>3. PICK low : low = to_bit(lc, 11, 0)
  OBVIOUS
<1>4. to_int(c) = to_bit(Ord(PimCmdType, c.type), 4, 28) \cup low
  BY <1>2, <1>3, Zenon DEF to_int
<1>5. low \subseteq 0 .. 10
  BY <1>3, FieldPlace
<1>6. PimCmdType[from_bit(to_int(c), 4, 28) + 1] = "NOP"
  <2>1. "NOP" = PimCmdType[1]
    BY DEF PimCmdType
  <2>5. Beside(low, 4, 28)
    BY <1>5 DEF Beside
  <2>3. PICK i \in 1 .. 16 : "NOP" = PimCmdType[i]
    BY <2>1
  <2>4. to_int(c) = to_bit(Ord(PimCmdType, "NOP"), 4, 28) \cup low
    BY <1>2, <1>4, Zenon
  <2> QED BY <2>3, <2>4, <2>5, TypeRead
<1>7. ASSUME lc \in 0 .. MaxIdle PROVE from_bit(to_int(c), 11, 0) = lc
  <2>1. PICK rest : rest = to_bit(Ord(PimCmdType, c.type), 4, 28)
    OBVIOUS
  <2>2. rest \subseteq 28 .. 31
    BY <2>1, FieldPlace
  <2>3. Beside(rest, 11, 0)
    BY <2>2 DEF Beside
  <2>4. to_int(c) = to_bit(lc, 11, 0) \cup rest
    BY <1>3, <1>4, <2>1
  <2>5. Fits(lc, 11)
    BY <1>7, NopFits
  <2> QED BY <2>3, <2>4, <2>5, ReadField
<1>8. PICK n : n = from_bit(to_int(c), 11, 0)
  OBVIOUS
<1>9. from_int(to_int(c)) = [[PimCommand EXCEPT !.type = "NOP"] EXCEPT !.loop_counter = n]
  BY <1>6, <1>8, Zenon DEF from_int
<1>10. from_int(to_int(c)) = Control("NOP", n)
  BY <1>9 DEF Control, PimCommand
<1> QED BY <1>1, <1>7, <1>8, <1>10

\* EXIT is read as it was written.
LEMMA ExitRead ==
  from_int(to_int(Control("EXIT", 0))) = Control("EXIT", 0)
<1>1. PICK c : c = Control("EXIT", 0)
  OBVIOUS
<1>2. c.type = "EXIT"
  BY <1>1 DEF Control, PimCommand
<1>4. to_int(c) = to_bit(Ord(PimCmdType, c.type), 4, 28) \cup {}
  BY <1>2, Zenon DEF to_int
<1>6. PimCmdType[from_bit(to_int(c), 4, 28) + 1] = "EXIT"
  <2>1. "EXIT" = PimCmdType[16]
    BY DEF PimCmdType
  <2>2. PICK low : low = {}
    OBVIOUS
  <2>5. Beside(low, 4, 28)
    BY <2>2 DEF Beside
  <2>3. PICK i \in 1 .. 16 : "EXIT" = PimCmdType[i]
    BY <2>1
  <2>4. to_int(c) = to_bit(Ord(PimCmdType, "EXIT"), 4, 28) \cup low
    BY <1>2, <1>4, <2>2, Zenon
  <2>6. PimCmdType[from_bit(to_bit(Ord(PimCmdType, "EXIT"), 4, 28) \cup low, 4, 28) + 1] = "EXIT"
    BY <2>3, <2>5, TypeRead, Zenon
  <2> QED BY <2>4, <2>6, Zenon
<1>8. from_int(to_int(c)) = [PimCommand EXCEPT !.type = "EXIT"]
  BY <1>6, Zenon DEF from_int
<1> QED BY <1>1, <1>8 DEF Control, PimCommand

\* The fields of a JUMP, for any loop counter.
LEMMA JumpFields ==
  ASSUME NEW lc, NEW offset \in 0 .. MaxIdle
  PROVE  LET w == to_int(Jump(lc, offset))
         IN  /\ PimCmdType[from_bit(w, 4, 28) + 1] = "JUMP"
             /\ from_bit(w, 11, 0) = offset
             /\ lc \in 0 .. MaxLoop => from_bit(w, 17, 11) = lc
<1>1. PICK c : c = Jump(lc, offset)
  OBVIOUS
<1>2. c.type = "JUMP" /\ c.loop_counter = lc /\ c.loop_offset = offset
  BY <1>1 DEF Jump, PimCommand
<1>3. PICK t, l, o : t = to_bit(Ord(PimCmdType, c.type), 4, 28) /\ l = to_bit(lc, 17, 11)
                     /\ o = to_bit(offset, 11, 0)
  OBVIOUS
<1>4. to_int(c) = t \cup (l \cup o)
  BY <1>2, <1>3, Zenon DEF to_int
<1>5. t \subseteq 28 .. 31 /\ l \subseteq 11 .. 27 /\ o \subseteq 0 .. 10
  BY <1>3, FieldPlace
<1>6. PimCmdType[from_bit(to_int(c), 4, 28) + 1] = "JUMP"
  <2>1. "JUMP" = PimCmdType[15]
    BY DEF PimCmdType
  <2>2. PICK low : low = l \cup o
    OBVIOUS
  <2>5. Beside(low, 4, 28)
    BY <1>5, <2>2 DEF Beside
  <2>3. PICK i \in 1 .. 16 : "JUMP" = PimCmdType[i]
    BY <2>1
  <2>4. to_int(c) = to_bit(Ord(PimCmdType, "JUMP"), 4, 28) \cup low
    BY <1>2, <1>3, <1>4, <2>2, Zenon
  <2> QED BY <2>3, <2>4, <2>5, TypeRead
<1>7. from_bit(to_int(c), 11, 0) = offset
  <2>1. PICK rest : rest = t \cup l
    OBVIOUS
  <2>2. Beside(rest, 11, 0)
    BY <1>5, <2>1 DEF Beside
  <2>3. to_int(c) = to_bit(offset, 11, 0) \cup rest
    BY <1>3, <1>4, <2>1
  <2>4. Fits(offset, 11)
    BY NopFits
  <2> QED BY <2>2, <2>3, <2>4, ReadField
<1>8. ASSUME lc \in 0 .. MaxLoop PROVE from_bit(to_int(c), 17, 11) = lc
  <2>1. PICK rest : rest = t \cup o
    OBVIOUS
  <2>2. Beside(rest, 17, 11)
    BY <1>5, <2>1 DEF Beside
  <2>3. to_int(c) = to_bit(lc, 17, 11) \cup rest
    BY <1>3, <1>4, <2>1
  <2>4. Fits(lc, 17)
    BY <1>8, JumpFits
  <2> QED BY <2>2, <2>3, <2>4, ReadField
<1> QED BY <1>1, <1>6, <1>7, <1>8, Zenon

\* JUMP is read with its offset, some counter that fits, and its own if it fits.
LEMMA JumpRead ==
  ASSUME NEW lc, NEW offset \in 0 .. MaxIdle
  PROVE  \E n \in 0 .. MaxLoop : /\ from_int(to_int(Jump(lc, offset))) = Jump(n, offset)
                                 /\ lc \in 0 .. MaxLoop => n = lc
<1>1. PICK w : w = to_int(Jump(lc, offset))
  OBVIOUS
<1>2. PICK n \in 0 .. MaxLoop : n = from_bit(w, 17, 11)
  BY LoopCounterBound
<1>3. /\ PimCmdType[from_bit(w, 4, 28) + 1] = "JUMP" /\ from_bit(w, 11, 0) = offset
      /\ lc \in 0 .. MaxLoop => n = lc
  BY <1>1, <1>2, JumpFields, Zenon
<1>4. from_int(w) = [[PimCommand EXCEPT !.type = "JUMP"] EXCEPT !.loop_counter = n, !.loop_offset = offset]
  BY <1>2, <1>3, Zenon DEF from_int
<1>5. from_int(w) = Jump(n, offset)
  BY <1>4 DEF Jump, PimCommand
<1> QED BY <1>1, <1>3, <1>5

\* A field that is zero has no bits.
LEMMA ZeroField ==
  ASSUME NEW len \in Nat, NEW pos \in Int
  PROVE  to_bit(0, len, pos) = {}
<1>1. PICK sh : sh = Shifted(0, len)
  OBVIOUS
<1>2. IsShift(sh, 0, len)
  BY <1>1, ShiftedIs
<1>3. PICK T : T = {n \in Nat : n <= len => sh[n] = 0}
  OBVIOUS
<1>4. 0 \in T
  BY <1>2, <1>3 DEF IsShift
<1>5. ASSUME NEW n \in Nat, n \in T PROVE n + 1 \in T
  <2> SUFFICES ASSUME n + 1 <= len PROVE sh[n + 1] = 0
    BY <1>3
  <2>1. n + 1 \in 1 .. len /\ (n + 1) - 1 = n /\ sh[n] = 0
    BY <1>3, <1>5
  <2>2. sh[n + 1] = sh[n] \div 2
    BY <1>2, <2>1 DEF IsShift
  <2> QED BY <2>1, <2>2
<1>6. \A n \in 0 .. len - 1 : sh[n] = 0
  <2>1. Nat \subseteq T
    BY <1>4, <1>5, NatSetInduction
  <2> QED BY <1>3, <2>1
<1>7. to_bit(0, len, pos) = {pos + i : i \in {j \in 0 .. len - 1 : sh[j] % 2 = 1}}
  BY <1>1, Zenon DEF to_bit
<1> QED BY <1>6, <1>7

\* The bits of the registers of a command, and of the rest of it.
RegBits(d, a, b, e) == to_bit(d, 3, 25) \cup to_bit(a, 3, 22) \cup to_bit(b, 3, 19) \cup to_bit(e, 3, 16)
FlagBits(x, r) == to_bit(x, 1, 15) \cup to_bit(r, 1, 12)
IdxBits(d, a, b) == to_bit(d, 4, 8) \cup to_bit(a, 4, 4) \cup to_bit(b, 4, 0)

\* What is read of them.
RegsOf(word, d, a, b, e) ==
  /\ from_bit(word, 3, 25) = d /\ from_bit(word, 3, 22) = a
  /\ from_bit(word, 3, 19) = b /\ from_bit(word, 3, 16) = e
FlagsOf(word, x, r) == from_bit(word, 1, 15) = x /\ from_bit(word, 1, 12) = r
IdxOf(word, d, a, b) ==
  from_bit(word, 4, 8) = d /\ from_bit(word, 4, 4) = a /\ from_bit(word, 4, 0) = b

\* The numbers of the registers are read as they were written.
LEMMA RegsRead ==
  ASSUME NEW d \in 0 .. 7, NEW a \in 0 .. 7, NEW b \in 0 .. 7, NEW e \in 0 .. 7,
         NEW rest, Beside(rest, 12, 16)
  PROVE  RegsOf(RegBits(d, a, b, e) \cup rest, d, a, b, e)
<1>0. PICK word : word = RegBits(d, a, b, e) \cup rest
  OBVIOUS
<1>a. \A n \in 16 .. 27 : n \notin rest
  BY DEF Beside
<1>1. PICK fd, fa, fb, fe : fd = to_bit(d, 3, 25) /\ fa = to_bit(a, 3, 22)
                            /\ fb = to_bit(b, 3, 19) /\ fe = to_bit(e, 3, 16)
  OBVIOUS
<1>2. fd \subseteq 25 .. 27 /\ fa \subseteq 22 .. 24 /\ fb \subseteq 19 .. 21 /\ fe \subseteq 16 .. 18
  BY <1>1, FieldPlace
<1>3. word = fd \cup fa \cup fb \cup fe \cup rest
  BY <1>0, <1>1, Zenon DEF RegBits
<1>4. Fits(d, 3) /\ Fits(a, 3) /\ Fits(b, 3) /\ Fits(e, 3)
  BY SmallFit
<1>5. from_bit(word, 3, 25) = d
  <2>1. PICK o : o = fa \cup fb \cup fe \cup rest
    OBVIOUS
  <2>2. Beside(o, 3, 25)
    BY <1>a, <1>2, <2>1 DEF Beside
  <2>3. word = to_bit(d, 3, 25) \cup o
    BY <1>1, <1>3, <2>1
  <2> QED BY <1>4, <2>2, <2>3, ReadField
<1>6. from_bit(word, 3, 22) = a
  <2>1. PICK o : o = fd \cup fb \cup fe \cup rest
    OBVIOUS
  <2>2. Beside(o, 3, 22)
    BY <1>a, <1>2, <2>1 DEF Beside
  <2>3. word = to_bit(a, 3, 22) \cup o
    BY <1>1, <1>3, <2>1
  <2> QED BY <1>4, <2>2, <2>3, ReadField
<1>7. from_bit(word, 3, 19) = b
  <2>1. PICK o : o = fd \cup fa \cup fe \cup rest
    OBVIOUS
  <2>2. Beside(o, 3, 19)
    BY <1>a, <1>2, <2>1 DEF Beside
  <2>3. word = to_bit(b, 3, 19) \cup o
    BY <1>1, <1>3, <2>1
  <2> QED BY <1>4, <2>2, <2>3, ReadField
<1>8. from_bit(word, 3, 16) = e
  <2>1. PICK o : o = fd \cup fa \cup fb \cup rest
    OBVIOUS
  <2>2. Beside(o, 3, 16)
    BY <1>a, <1>2, <2>1 DEF Beside
  <2>3. word = to_bit(e, 3, 16) \cup o
    BY <1>1, <1>3, <2>1
  <2> QED BY <1>4, <2>2, <2>3, ReadField
<1> QED BY <1>0, <1>5, <1>6, <1>7, <1>8 DEF RegsOf

\* So are the flags.
LEMMA FlagsRead ==
  ASSUME NEW x \in 0 .. 1, NEW r \in 0 .. 1, NEW rest, Beside(rest, 4, 12)
  PROVE  FlagsOf(FlagBits(x, r) \cup rest, x, r)
<1>0. PICK word : word = FlagBits(x, r) \cup rest
  OBVIOUS
<1>a. \A n \in 12 .. 15 : n \notin rest
  BY DEF Beside
<1>1. PICK fx, fr : fx = to_bit(x, 1, 15) /\ fr = to_bit(r, 1, 12)
  OBVIOUS
<1>2. fx \subseteq 15 .. 15 /\ fr \subseteq 12 .. 12
  BY <1>1, FieldPlace
<1>3. word = fx \cup fr \cup rest
  BY <1>0, <1>1, Zenon DEF FlagBits
<1>4. Fits(x, 1) /\ Fits(r, 1)
  BY SmallFit
<1>5. from_bit(word, 1, 15) = x
  <2>1. PICK o : o = fr \cup rest
    OBVIOUS
  <2>2. Beside(o, 1, 15)
    BY <1>a, <1>2, <2>1 DEF Beside
  <2>3. word = to_bit(x, 1, 15) \cup o
    BY <1>1, <1>3, <2>1
  <2> QED BY <1>4, <2>2, <2>3, ReadField
<1>6. from_bit(word, 1, 12) = r
  <2>1. PICK o : o = fx \cup rest
    OBVIOUS
  <2>2. Beside(o, 1, 12)
    BY <1>a, <1>2, <2>1 DEF Beside
  <2>3. word = to_bit(r, 1, 12) \cup o
    BY <1>1, <1>3, <2>1
  <2> QED BY <1>4, <2>2, <2>3, ReadField
<1> QED BY <1>0, <1>5, <1>6 DEF FlagsOf

\* And the numbers of the registers in their files.
LEMMA IdxRead ==
  ASSUME NEW d \in 0 .. 15, NEW a \in 0 .. 15, NEW b \in 0 .. 15, NEW rest, Beside(rest, 12, 0)
  PROVE  IdxOf(IdxBits(d, a, b) \cup rest, d, a, b)
<1>0. PICK word : word = IdxBits(d, a, b) \cup rest
  OBVIOUS
<1>a. \A n \in 0 .. 11 : n \notin rest
  BY DEF Beside
<1>1. PICK fd, fa, fb : fd = to_bit(d, 4, 8) /\ fa = to_bit(a, 4, 4) /\ fb = to_bit(b, 4, 0)
  OBVIOUS
<1>2. fd \subseteq 8 .. 11 /\ fa \subseteq 4 .. 7 /\ fb \subseteq 0 .. 3
  BY <1>1, FieldPlace
<1>3. word = fd \cup fa \cup fb \cup rest
  BY <1>0, <1>1, Zenon DEF IdxBits
<1>4. Fits(d, 4) /\ Fits(a, 4) /\ Fits(b, 4)
  BY SmallFit
<1>5. from_bit(word, 4, 8) = d
  <2>1. PICK o : o = fa \cup fb \cup rest
    OBVIOUS
  <2>2. Beside(o, 4, 8)
    BY <1>a, <1>2, <2>1 DEF Beside
  <2>3. word = to_bit(d, 4, 8) \cup o
    BY <1>1, <1>3, <2>1
  <2> QED BY <1>4, <2>2, <2>3, ReadField
<1>6. from_bit(word, 4, 4) = a
  <2>1. PICK o : o = fd \cup fb \cup rest
    OBVIOUS
  <2>2. Beside(o, 4, 4)
    BY <1>a, <1>2, <2>1 DEF Beside
  <2>3. word = to_bit(a, 4, 4) \cup o
    BY <1>1, <1>3, <2>1
  <2> QED BY <1>4, <2>2, <2>3, ReadField
<1>7. from_bit(word, 4, 0) = b
  <2>1. PICK o : o = fd \cup fa \cup rest
    OBVIOUS
  <2>2. Beside(o, 4, 0)
    BY <1>a, <1>2, <2>1 DEF Beside
  <2>3. word = to_bit(b, 4, 0) \cup o
    BY <1>1, <1>3, <2>1
  <2> QED BY <1>4, <2>2, <2>3, ReadField
<1> QED BY <1>0, <1>5, <1>6, <1>7 DEF IdxOf

\* The word of a command of type ty with operands d, a, b and e, and what the
\* unit reads of it.
Word(ty, d, a, b, e, x, r, s) ==
  to_bit(Ord(PimCmdType, ty), 4, 28)
    \cup RegBits(Ord(PimOpdType, d), Ord(PimOpdType, a), Ord(PimOpdType, b), Ord(PimOpdType, e))
    \cup FlagBits(x, r) \cup IdxBits(0, 0, s)
Reads(word, ty, d, a, b, e, x, r, s) ==
  /\ PimCmdType[from_bit(word, 4, 28) + 1] = ty
  /\ PimOpdType[from_bit(word, 3, 25) + 1] = d /\ PimOpdType[from_bit(word, 3, 22) + 1] = a
  /\ PimOpdType[from_bit(word, 3, 19) + 1] = b /\ PimOpdType[from_bit(word, 3, 16) + 1] = e
  /\ from_bit(word, 1, 15) = x /\ from_bit(word, 1, 12) = r
  /\ from_bit(word, 4, 8) = 0 /\ from_bit(word, 4, 4) = 0 /\ from_bit(word, 4, 0) = s

Types == {"NOP", "ADD", "MUL", "MAC", "MAD", "FILL", "JUMP", "EXIT"}
Operands == {"A_OUT", "EVEN_BANK", "ODD_BANK", "GRF_A", "GRF_B", "SRF_M", "SRF_A"}

\* The types and operands of the programs are enumerators.
LEMMA Enumerated ==
  /\ \A ty \in Types : \E i \in 1 .. 16 : ty = PimCmdType[i]
  /\ \A o \in Operands : \E i \in 1 .. 8 : o = PimOpdType[i]
<1>1. ASSUME NEW ty \in Types PROVE \E i \in 1 .. 16 : ty = PimCmdType[i]
  <2>1. /\ PimCmdType[1] = "NOP" /\ PimCmdType[2] = "ADD" /\ PimCmdType[3] = "MUL"
        /\ PimCmdType[4] = "MAC" /\ PimCmdType[5] = "MAD" /\ PimCmdType[10] = "FILL"
        /\ PimCmdType[15] = "JUMP" /\ PimCmdType[16] = "EXIT"
    BY DEF PimCmdType
  <2> QED BY <2>1 DEF Types
<1>2. ASSUME NEW o \in Operands PROVE \E i \in 1 .. 8 : o = PimOpdType[i]
  <2>1. /\ PimOpdType[1] = "A_OUT" /\ PimOpdType[3] = "EVEN_BANK" /\ PimOpdType[4] = "ODD_BANK"
        /\ PimOpdType[5] = "GRF_A" /\ PimOpdType[6] = "GRF_B" /\ PimOpdType[7] = "SRF_M"
        /\ PimOpdType[8] = "SRF_A"
    BY DEF PimOpdType
  <2> QED BY <2>1 DEF Operands
<1> QED BY <1>1, <1>2

\* The fields of a word are where bits of it can be.
LEMMA BitsPlaces ==
  ASSUME NEW d, NEW a, NEW b, NEW e, NEW x, NEW r, NEW s
  PROVE  /\ RegBits(d, a, b, e) \subseteq 16 .. 27
         /\ FlagBits(x, r) \subseteq 12 .. 15
         /\ IdxBits(d, a, s) \subseteq 0 .. 11
<1>1. /\ to_bit(d, 3, 25) \subseteq 25 .. 27 /\ to_bit(a, 3, 22) \subseteq 22 .. 24
      /\ to_bit(b, 3, 19) \subseteq 19 .. 21 /\ to_bit(e, 3, 16) \subseteq 16 .. 18
  BY FieldPlace
<1>2. to_bit(x, 1, 15) \subseteq 15 .. 15 /\ to_bit(r, 1, 12) \subseteq 12 .. 12
  BY FieldPlace
<1>3. to_bit(d, 4, 8) \subseteq 8 .. 11 /\ to_bit(a, 4, 4) \subseteq 4 .. 7 /\ to_bit(s, 4, 0) \subseteq 0 .. 3
  BY FieldPlace
<1> QED BY <1>1, <1>2, <1>3 DEF RegBits, FlagBits, IdxBits

\* The fields of a command are read as they were written.
LEMMA WordRead ==
  ASSUME NEW ty \in Types, NEW d \in Operands, NEW a \in Operands, NEW b \in Operands,
         NEW e \in Operands, NEW x \in 0 .. 1, NEW r \in 0 .. 1, NEW s \in 0 .. 1
  PROVE  Reads(Word(ty, d, a, b, e, x, r, s), ty, d, a, b, e, x, r, s)
<1>1. PICK i \in 1 .. 16 : ty = PimCmdType[i]
  BY Enumerated
<1>2. PICK nd \in 1 .. 8, na \in 1 .. 8 : d = PimOpdType[nd] /\ a = PimOpdType[na]
  BY Enumerated
<1>3. PICK nb \in 1 .. 8, ne \in 1 .. 8 : b = PimOpdType[nb] /\ e = PimOpdType[ne]
  BY Enumerated
<1>4. /\ Ord(PimOpdType, d) = nd - 1 /\ Ord(PimOpdType, a) = na - 1
      /\ Ord(PimOpdType, b) = nb - 1 /\ Ord(PimOpdType, e) = ne - 1
  BY <1>2, <1>3, OpdNumbers
<1>5. PICK T, R, F, I : /\ T = to_bit(Ord(PimCmdType, ty), 4, 28)
                        /\ R = RegBits(nd - 1, na - 1, nb - 1, ne - 1)
                        /\ F = FlagBits(x, r) /\ I = IdxBits(0, 0, s)
  OBVIOUS
<1>6. PICK word : word = Word(ty, d, a, b, e, x, r, s)
  OBVIOUS
<1>7. word = T \cup R \cup F \cup I
  BY <1>4, <1>5, <1>6, Zenon DEF Word
<1>8. R \subseteq 16 .. 27 /\ F \subseteq 12 .. 15 /\ I \subseteq 0 .. 11
  BY <1>5, BitsPlaces
<1>9. T \subseteq 28 .. 31
  BY <1>5, FieldPlace
<1>10. PimCmdType[from_bit(word, 4, 28) + 1] = ty
  <2>1. PICK low : low = R \cup F \cup I
    OBVIOUS
  <2>2. Beside(low, 4, 28)
    BY <1>8, <2>1 DEF Beside
  <2>3. word = to_bit(Ord(PimCmdType, ty), 4, 28) \cup low
    BY <1>5, <1>7, <2>1
  <2> QED BY <1>1, <2>2, <2>3, TypeRead
<1>11. /\ PimOpdType[from_bit(word, 3, 25) + 1] = d /\ PimOpdType[from_bit(word, 3, 22) + 1] = a
       /\ PimOpdType[from_bit(word, 3, 19) + 1] = b /\ PimOpdType[from_bit(word, 3, 16) + 1] = e
  <2>1. PICK rest : rest = T \cup F \cup I
    OBVIOUS
  <2>2. Beside(rest, 12, 16)
    BY <1>8, <1>9, <2>1 DEF Beside
  <2>3. word = RegBits(nd - 1, na - 1, nb - 1, ne - 1) \cup rest
    BY <1>5, <1>7, <2>1
  <2>4. PICK md \in 0 .. 7, ma \in 0 .. 7, mb \in 0 .. 7, me \in 0 .. 7 :
          md = nd - 1 /\ ma = na - 1 /\ mb = nb - 1 /\ me = ne - 1
    OBVIOUS
  <2>5. /\ from_bit(word, 3, 25) = nd - 1 /\ from_bit(word, 3, 22) = na - 1
        /\ from_bit(word, 3, 19) = nb - 1 /\ from_bit(word, 3, 16) = ne - 1
    <3>1. word = RegBits(md, ma, mb, me) \cup rest
      BY <2>3, <2>4
    <3>2. RegsOf(word, md, ma, mb, me)
      BY <2>2, <3>1, RegsRead
    <3> QED BY <2>4, <3>2, Zenon DEF RegsOf
  <2>6. (nd - 1) + 1 = nd /\ (na - 1) + 1 = na /\ (nb - 1) + 1 = nb /\ (ne - 1) + 1 = ne
    OBVIOUS
  <2> QED BY <1>2, <1>3, <2>5, <2>6, Zenon
<1>12. from_bit(word, 1, 15) = x /\ from_bit(word, 1, 12) = r
  <2>1. PICK rest : rest = T \cup R \cup I
    OBVIOUS
  <2>2. Beside(rest, 4, 12)
    BY <1>8, <1>9, <2>1 DEF Beside
  <2>3. word = FlagBits(x, r) \cup rest
    BY <1>5, <1>7, <2>1
  <2> QED BY <2>2, <2>3, FlagsRead DEF FlagsOf
<1>13. from_bit(word, 4, 8) = 0 /\ from_bit(word, 4, 4) = 0 /\ from_bit(word, 4, 0) = s
  <2>1. PICK rest : rest = T \cup R \cup F
    OBVIOUS
  <2>2. Beside(rest, 12, 0)
    BY <1>8, <1>9, <2>1 DEF Beside
  <2>3. word = IdxBits(0, 0, s) \cup rest
    BY <1>5, <1>7, <2>1
  <2>4. PICK z \in 0 .. 15, t \in 0 .. 15 : z = 0 /\ t = s
    OBVIOUS
  <2>5. word = IdxBits(z, z, t) \cup rest
    BY <2>3, <2>4
  <2>6. IdxOf(word, z, z, t)
    BY <2>2, <2>5, IdxRead
  <2> QED BY <2>4, <2>6, Zenon DEF IdxOf
<1> QED BY <1>6, <1>10, <1>11, <1>12, <1>13, Zenon DEF Reads

\* FILL is read without its is_auto, which has no bit.
LEMMA FillRead ==
  ASSUME NEW d \in Operands, NEW a \in Operands, NEW auto, NEW relu \in 0 .. 1
  PROVE  from_int(to_int(Fill(d, a, auto, relu))) = Fill(d, a, 0, relu)
<1>1. PICK c : c = Fill(d, a, auto, relu)
  OBVIOUS
<1>2. /\ c.type = "FILL" /\ c.dst = d /\ c.src0 = a /\ c.is_relu = relu
      /\ c.dst_idx = 0 /\ c.src0_idx = 0 /\ c.src1_idx = 0
  BY <1>1 DEF Fill, PimCommand
<1>3. Ord(PimOpdType, "A_OUT") = 0 /\ to_bit(0, 3, 19) = {} /\ to_bit(0, 3, 16) = {} /\ to_bit(0, 1, 15) = {}
  <2>1. PimOpdType[1] = "A_OUT" /\ 1 \in 1 .. 8 /\ 1 - 1 = 0
    BY DEF PimOpdType
  <2>2. Ord(PimOpdType, PimOpdType[1]) = 1 - 1
    BY OpdNumbers
  <2> QED BY <2>1, <2>2, ZeroField
<1>4. to_int(c) = to_bit(Ord(PimCmdType, "FILL"), 4, 28) \cup
                    ((to_bit(Ord(PimOpdType, d), 3, 25) \cup to_bit(Ord(PimOpdType, a), 3, 22))
                       \cup (to_bit(0, 4, 8) \cup to_bit(0, 4, 4) \cup to_bit(0, 4, 0))
                       \cup to_bit(relu, 1, 12))
  BY <1>2, Zenon DEF to_int
<1>5. PICK w : w = Word("FILL", d, a, "A_OUT", "A_OUT", 0, relu, 0)
  OBVIOUS
<1>6. to_int(c) = w
  <2>1. w = to_bit(Ord(PimCmdType, "FILL"), 4, 28)
              \cup (to_bit(Ord(PimOpdType, d), 3, 25) \cup to_bit(Ord(PimOpdType, a), 3, 22) \cup {} \cup {})
              \cup ({} \cup to_bit(relu, 1, 12))
              \cup (to_bit(0, 4, 8) \cup to_bit(0, 4, 4) \cup to_bit(0, 4, 0))
    BY <1>3, <1>5, Zenon DEF Word, RegBits, FlagBits, IdxBits
  <2>2. \A A, B, C, D, E, F, G : A \cup ((B \cup C) \cup (D \cup E \cup F) \cup G)
          = A \cup (B \cup C \cup {} \cup {}) \cup ({} \cup G) \cup (D \cup E \cup F)
    OBVIOUS
  <2> QED BY <1>4, <2>1, <2>2, Zenon
<1>7. Reads(w, "FILL", d, a, "A_OUT", "A_OUT", 0, relu, 0)
  <2>1. "FILL" \in Types /\ "A_OUT" \in Operands /\ 0 \in 0 .. 1
    BY DEF Types, Operands
  <2> QED BY <1>5, <2>1, WordRead
<1>8. from_int(w) = [[[PimCommand EXCEPT !.type = "FILL"] EXCEPT !.dst = d, !.src0 = a,
                        !.dst_idx = 0, !.src0_idx = 0, !.src1_idx = 0] EXCEPT !.is_relu = relu]
  BY <1>7, Zenon DEF from_int, Reads
<1>9. PICK p : p = [PimCommand EXCEPT !.type = "FILL"]
  OBVIOUS
<1>10. p = [type |-> "FILL", dst |-> "A_OUT", src0 |-> "A_OUT", src1 |-> "A_OUT", src2 |-> "A_OUT",
           loop_counter |-> 0, loop_offset |-> 0, is_auto |-> 0,
           dst_idx |-> 0, src0_idx |-> 0, src1_idx |-> 0, is_relu |-> 0]
  BY <1>9 DEF PimCommand
<1>11. Fill(d, a, 0, relu) = [type |-> "FILL", dst |-> d, src0 |-> a, src1 |-> "A_OUT", src2 |-> "A_OUT",
           loop_counter |-> 0, loop_offset |-> 0, is_auto |-> 0,
           dst_idx |-> 0, src0_idx |-> 0, src1_idx |-> 0, is_relu |-> relu]
  <2>1. Fill(d, a, 0, relu) = [p EXCEPT !.dst = d, !.src0 = a, !.is_auto = 0, !.is_relu = relu]
    BY <1>9 DEF Fill, PimCommand
  <2> QED BY <1>10, <2>1
<1>12. PICK v : v = [p EXCEPT !.dst = d, !.src0 = a, !.dst_idx = 0, !.src0_idx = 0, !.src1_idx = 0]
  OBVIOUS
<1>13. v = [type |-> "FILL", dst |-> d, src0 |-> a, src1 |-> "A_OUT", src2 |-> "A_OUT",
           loop_counter |-> 0, loop_offset |-> 0, is_auto |-> 0,
           dst_idx |-> 0, src0_idx |-> 0, src1_idx |-> 0, is_relu |-> 0]
  BY <1>10, <1>12
<1>14. from_int(w) = [v EXCEPT !.is_relu = relu]
  BY <1>8, <1>9, <1>12, Zenon
<1>15. from_int(w) = [type |-> "FILL", dst |-> d, src0 |-> a, src1 |-> "A_OUT", src2 |-> "A_OUT",
           loop_counter |-> 0, loop_offset |-> 0, is_auto |-> 0,
           dst_idx |-> 0, src0_idx |-> 0, src1_idx |-> 0, is_relu |-> relu]
  BY <1>13, <1>14
<1> QED BY <1>1, <1>6, <1>11, <1>15, Zenon

\* ADD, MUL and MAC are read as they were written.
LEMMA AluRead ==
  ASSUME NEW ty \in {"ADD", "MUL", "MAC"}, NEW d \in Operands, NEW a \in Operands, NEW b \in Operands
  PROVE  from_int(to_int(Alu(ty, d, a, b))) = Alu(ty, d, a, b)
<1>1. PICK c : c = Alu(ty, d, a, b)
  OBVIOUS
<1>2. /\ c.type = ty /\ c.dst = d /\ c.src0 = a /\ c.src1 = b /\ c.is_auto = 1
      /\ c.dst_idx = 0 /\ c.src0_idx = 0 /\ c.src1_idx = 0
  BY <1>1 DEF Alu, PimCommand
<1>3. Ord(PimOpdType, "A_OUT") = 0 /\ to_bit(0, 3, 16) = {} /\ to_bit(0, 1, 12) = {}
  <2>1. PimOpdType[1] = "A_OUT" /\ 1 \in 1 .. 8 /\ 1 - 1 = 0
    BY DEF PimOpdType
  <2>2. Ord(PimOpdType, PimOpdType[1]) = 1 - 1
    BY OpdNumbers
  <2> QED BY <2>1, <2>2, ZeroField
<1>0. ty # "NOP" /\ ty # "JUMP" /\ ty \notin {"FILL", "MOV"} /\ ty # "MAD" /\ ty \in {"ADD", "MUL", "MAC", "MAD"}
  OBVIOUS
<1>4. to_int(c) = to_bit(Ord(PimCmdType, ty), 4, 28) \cup
                    ((to_bit(Ord(PimOpdType, d), 3, 25) \cup to_bit(Ord(PimOpdType, a), 3, 22))
                       \cup (to_bit(0, 4, 8) \cup to_bit(0, 4, 4) \cup to_bit(0, 4, 0))
                       \cup to_bit(Ord(PimOpdType, b), 3, 19) \cup to_bit(1, 1, 15) \cup {})
  BY <1>0, <1>2, Zenon DEF to_int
<1>5. PICK w : w = Word(ty, d, a, b, "A_OUT", 1, 0, 0)
  OBVIOUS
<1>6. to_int(c) = w
  <2>1. w = to_bit(Ord(PimCmdType, ty), 4, 28)
              \cup (to_bit(Ord(PimOpdType, d), 3, 25) \cup to_bit(Ord(PimOpdType, a), 3, 22)
                      \cup to_bit(Ord(PimOpdType, b), 3, 19) \cup {})
              \cup (to_bit(1, 1, 15) \cup {})
              \cup (to_bit(0, 4, 8) \cup to_bit(0, 4, 4) \cup to_bit(0, 4, 0))
    BY <1>3, <1>5, Zenon DEF Word, RegBits, FlagBits, IdxBits
  <2>2. \A A, B, C, D, E, F, G, H : A \cup ((B \cup C) \cup (D \cup E \cup F) \cup G \cup H \cup {})
          = A \cup (B \cup C \cup G \cup {}) \cup (H \cup {}) \cup (D \cup E \cup F)
    OBVIOUS
  <2> QED BY <1>4, <2>1, <2>2, Zenon
<1>7. Reads(w, ty, d, a, b, "A_OUT", 1, 0, 0)
  <2>1. ty \in Types /\ "A_OUT" \in Operands /\ 0 \in 0 .. 1 /\ 1 \in 0 .. 1
    BY DEF Types, Operands
  <2> QED BY <1>5, <2>1, WordRead
<1>8. from_int(w) = [[[PimCommand EXCEPT !.type = ty] EXCEPT !.dst = d, !.src0 = a,
                        !.dst_idx = 0, !.src0_idx = 0, !.src1_idx = 0]
                       EXCEPT !.src1 = b, !.is_auto = 1, !.src2 = @]
  BY <1>0, <1>7, Zenon DEF from_int, Reads
<1>9. PICK p : p = [PimCommand EXCEPT !.type = ty]
  OBVIOUS
<1>10. p = [type |-> ty, dst |-> "A_OUT", src0 |-> "A_OUT", src1 |-> "A_OUT", src2 |-> "A_OUT",
           loop_counter |-> 0, loop_offset |-> 0, is_auto |-> 0,
           dst_idx |-> 0, src0_idx |-> 0, src1_idx |-> 0, is_relu |-> 0]
  BY <1>9 DEF PimCommand
<1>11. Alu(ty, d, a, b) = [type |-> ty, dst |-> d, src0 |-> a, src1 |-> b, src2 |-> "A_OUT",
           loop_counter |-> 0, loop_offset |-> 0, is_auto |-> 1,
           dst_idx |-> 0, src0_idx |-> 0, src1_idx |-> 0, is_relu |-> 0]
  <2>1. Alu(ty, d, a, b) = [p EXCEPT !.dst = d, !.src0 = a, !.src1 = b, !.is_auto = 1]
    BY <1>9 DEF Alu, PimCommand
  <2> QED BY <1>10, <2>1
<1>12. PICK v : v = [p EXCEPT !.dst = d, !.src0 = a, !.dst_idx = 0, !.src0_idx = 0, !.src1_idx = 0]
  OBVIOUS
<1>13. v = [type |-> ty, dst |-> d, src0 |-> a, src1 |-> "A_OUT", src2 |-> "A_OUT",
           loop_counter |-> 0, loop_offset |-> 0, is_auto |-> 0,
           dst_idx |-> 0, src0_idx |-> 0, src1_idx |-> 0, is_relu |-> 0]
  BY <1>10, <1>12
<1>14. from_int(w) = [v EXCEPT !.src1 = b, !.is_auto = 1, !.src2 = @]
  BY <1>8, <1>9, <1>12, Zenon
<1>15. from_int(w) = [type |-> ty, dst |-> d, src0 |-> a, src1 |-> b, src2 |-> "A_OUT",
           loop_counter |-> 0, loop_offset |-> 0, is_auto |-> 1,
           dst_idx |-> 0, src0_idx |-> 0, src1_idx |-> 0, is_relu |-> 0]
  BY <1>13, <1>14
<1> QED BY <1>1, <1>6, <1>11, <1>15, Zenon

\* MAD is read as it was written.
LEMMA MadRead ==
  ASSUME NEW d \in Operands, NEW a \in Operands, NEW s \in 0 .. 1
  PROVE  from_int(to_int(Mad(d, a, s))) = Mad(d, a, s)
<1>1. PICK c : c = Mad(d, a, s)
  OBVIOUS
<1>2. /\ c.type = "MAD" /\ c.dst = d /\ c.src0 = a /\ c.src1 = "SRF_M" /\ c.src2 = "SRF_A" /\ c.is_auto = 1
      /\ c.dst_idx = 0 /\ c.src0_idx = 0 /\ c.src1_idx = s
  BY <1>1 DEF Mad, PimCommand
<1>3. to_bit(0, 1, 12) = {}
  BY ZeroField
<1>4. to_int(c) = to_bit(Ord(PimCmdType, "MAD"), 4, 28) \cup
                    ((to_bit(Ord(PimOpdType, d), 3, 25) \cup to_bit(Ord(PimOpdType, a), 3, 22))
                       \cup (to_bit(0, 4, 8) \cup to_bit(0, 4, 4) \cup to_bit(s, 4, 0))
                       \cup to_bit(Ord(PimOpdType, "SRF_M"), 3, 19) \cup to_bit(1, 1, 15)
                       \cup to_bit(Ord(PimOpdType, "SRF_A"), 3, 16))
  BY <1>2, Zenon DEF to_int
<1>5. PICK w : w = Word("MAD", d, a, "SRF_M", "SRF_A", 1, 0, s)
  OBVIOUS
<1>6. to_int(c) = w
  <2>1. w = to_bit(Ord(PimCmdType, "MAD"), 4, 28)
              \cup (to_bit(Ord(PimOpdType, d), 3, 25) \cup to_bit(Ord(PimOpdType, a), 3, 22)
                      \cup to_bit(Ord(PimOpdType, "SRF_M"), 3, 19) \cup to_bit(Ord(PimOpdType, "SRF_A"), 3, 16))
              \cup (to_bit(1, 1, 15) \cup {})
              \cup (to_bit(0, 4, 8) \cup to_bit(0, 4, 4) \cup to_bit(s, 4, 0))
    BY <1>3, <1>5, Zenon DEF Word, RegBits, FlagBits, IdxBits
  <2>2. \A A, B, C, D, E, F, G, H, I : A \cup ((B \cup C) \cup (D \cup E \cup F) \cup G \cup H \cup I)
          = A \cup (B \cup C \cup G \cup I) \cup (H \cup {}) \cup (D \cup E \cup F)
    OBVIOUS
  <2> QED BY <1>4, <2>1, <2>2, Zenon
<1>7. Reads(w, "MAD", d, a, "SRF_M", "SRF_A", 1, 0, s)
  <2>1. "MAD" \in Types /\ "SRF_M" \in Operands /\ "SRF_A" \in Operands /\ 0 \in 0 .. 1 /\ 1 \in 0 .. 1
    BY DEF Types, Operands
  <2> QED BY <1>5, <2>1, WordRead
<1>8. from_int(w) = [[[PimCommand EXCEPT !.type = "MAD"] EXCEPT !.dst = d, !.src0 = a,
                        !.dst_idx = 0, !.src0_idx = 0, !.src1_idx = s]
                       EXCEPT !.src1 = "SRF_M", !.is_auto = 1, !.src2 = "SRF_A"]
  BY <1>7, Zenon DEF from_int, Reads
<1>9. PICK p : p = [PimCommand EXCEPT !.type = "MAD"]
  OBVIOUS
<1>10. p = [type |-> "MAD", dst |-> "A_OUT", src0 |-> "A_OUT", src1 |-> "A_OUT", src2 |-> "A_OUT",
           loop_counter |-> 0, loop_offset |-> 0, is_auto |-> 0,
           dst_idx |-> 0, src0_idx |-> 0, src1_idx |-> 0, is_relu |-> 0]
  BY <1>9 DEF PimCommand
<1>11. Mad(d, a, s) = [type |-> "MAD", dst |-> d, src0 |-> a, src1 |-> "SRF_M", src2 |-> "SRF_A",
           loop_counter |-> 0, loop_offset |-> 0, is_auto |-> 1,
           dst_idx |-> 0, src0_idx |-> 0, src1_idx |-> s, is_relu |-> 0]
  <2>1. Mad(d, a, s) = [p EXCEPT !.dst = d, !.src0 = a, !.src1 = "SRF_M",
                   !.src2 = "SRF_A", !.is_auto = 1, !.src1_idx = s]
    BY <1>9 DEF Mad, PimCommand
  <2> QED BY <1>10, <2>1
<1>12. PICK v : v = [p EXCEPT !.dst = d, !.src0 = a, !.dst_idx = 0, !.src0_idx = 0, !.src1_idx = s]
  OBVIOUS
<1>13. v = [type |-> "MAD", dst |-> d, src0 |-> a, src1 |-> "A_OUT", src2 |-> "A_OUT",
           loop_counter |-> 0, loop_offset |-> 0, is_auto |-> 0,
           dst_idx |-> 0, src0_idx |-> 0, src1_idx |-> s, is_relu |-> 0]
  BY <1>10, <1>12
<1>14. from_int(w) = [v EXCEPT !.src1 = "SRF_M", !.is_auto = 1, !.src2 = "SRF_A"]
  BY <1>8, <1>9, <1>12, Zenon
<1>15. from_int(w) = [type |-> "MAD", dst |-> d, src0 |-> a, src1 |-> "SRF_M", src2 |-> "SRF_A",
           loop_counter |-> 0, loop_offset |-> 0, is_auto |-> 1,
           dst_idx |-> 0, src0_idx |-> 0, src1_idx |-> s, is_relu |-> 0]
  BY <1>13, <1>14
<1> QED BY <1>1, <1>6, <1>11, <1>15, Zenon

-----------------------------------------------------------------------------
(* Programs, as the unit reads them.                                       *)

\* One more command at the end of a program.
LEMMA AppendIs ==
  ASSUME NEW s, IsSeq(s), NEW x
  PROVE  /\ IsSeq(Append(s, x)) /\ Len(s) \in Nat /\ Len(Append(s, x)) = Len(s) + 1
         /\ \A i \in 1 .. Len(s) : Append(s, x)[i] = s[i]
         /\ Append(s, x)[Len(s) + 1] = x
<1>1. PICK S : S = Range(s) \cup {x}
  OBVIOUS
<1>2. s \in Seq(S) /\ x \in S
  BY <1>1 DEF IsSeq
<1>3. Append(s, x) \in Seq(S)
  BY <1>2
<1>4. IsSeq(Append(s, x))
  BY <1>3, SeqIsSeq
<1> QED BY <1>2, <1>4

\* Commands of a program as they are written, from the first one on, with NOPs at
\* the end.
Starts8(t, n, cmds) ==
  /\ Len(t) = n /\ \A i \in 1 .. Len(cmds) : t[i] = cmds[i]
  /\ \A i \in Len(cmds) + 1 .. n : t[i] = Control("NOP", 0)

\* A program is filled up to 8 or 16 words.
LEMMA PadIs ==
  ASSUME NEW cmds, IsSeq(cmds), NEW n \in Nat, Len(cmds) = n, NEW m \in Nat, m = n + (8 - (n % 8))
  PROVE  Starts8(cmds \o [i \in 1 .. 8 - (Len(cmds) % 8) |-> Control("NOP", 0)], m, cmds)
<1>1. PICK k \in Nat : k = 8 - (n % 8)
  OBVIOUS
<1>2. PICK nop : nop = Control("NOP", 0)
  OBVIOUS
<1>3. PICK pad : pad = [i \in 1 .. k |-> nop]
  OBVIOUS
<1>4. pad \in Seq({nop}) /\ Len(pad) = k /\ \A i \in 1 .. k : pad[i] = nop
  BY <1>3
<1>5. PICK t : t = cmds \o pad
  OBVIOUS
<1>6. Joins(t, cmds, pad)
  BY <1>4, <1>5, SeqIsSeq, ConcatJoins
<1>7. Len(t) = m /\ \A i \in 1 .. Len(cmds) : t[i] = cmds[i]
  BY <1>1, <1>4, <1>6 DEF Joins
<1>8. ASSUME NEW i \in Len(cmds) + 1 .. m PROVE t[i] = nop
  <2>1. i - n \in 1 .. k /\ n + (i - n) = i
    BY <1>1
  <2>2. t[Len(cmds) + (i - n)] = pad[i - n]
    BY <1>4, <1>6, <2>1 DEF Joins
  <2> QED BY <1>4, <2>1, <2>2
<1>9. Starts8(t, m, cmds)
  BY <1>2, <1>7, <1>8 DEF Starts8
<1> QED BY <1>1, <1>2, <1>3, <1>5, <1>9

\* The bodies of the programs are sequences of four, five, six and eight commands.
LEMMA BodiesAre ==
  ASSUME NEW a, NEW b, NEW c, NEW d, NEW e, NEW f, NEW g, NEW h
  PROVE  /\ IsSeq(<<a, b, c, d>>) /\ Len(<<a, b, c, d>>) = 4
         /\ IsSeq(<<a, b, c, d, e>>) /\ Len(<<a, b, c, d, e>>) = 5
         /\ IsSeq(<<a, b, c, d, e, f>>) /\ Len(<<a, b, c, d, e, f>>) = 6
         /\ IsSeq(<<a, b, c, d, e, f, g, h>>) /\ Len(<<a, b, c, d, e, f, g, h>>) = 8
<1>0. <<a, b, c, d>> \in Seq({a, b, c, d})
  OBVIOUS
<1>1. <<a, b, c, d, e>> \in Seq({a, b, c, d, e})
  OBVIOUS
<1>2. <<a, b, c, d, e, f>> \in Seq({a, b, c, d, e, f})
  OBVIOUS
<1>3. <<a, b, c, d, e, f, g, h>> \in Seq({a, b, c, d, e, f, g, h})
  OBVIOUS
<1>4. IsSeq(<<a, b, c, d>>)
  BY <1>0, SeqIsSeq
<1>5. IsSeq(<<a, b, c, d, e>>)
  BY <1>1, SeqIsSeq
<1>6. IsSeq(<<a, b, c, d, e, f>>)
  BY <1>2, SeqIsSeq
<1>7. IsSeq(<<a, b, c, d, e, f, g, h>>)
  BY <1>3, SeqIsSeq
<1> QED BY <1>4, <1>5, <1>6, <1>7

Exit == Control("EXIT", 0)
Nop == Control("NOP", 0)

\* A program of m words t: the n commands of its body, a jump back to the first
\* one unless it has its own, EXIT and NOPs.
IsProgram(t, m, n, body, jumps, lc) ==
  /\ Len(t) = m /\ \A i \in 1 .. n : t[i] = body[i]
  /\ jumps => t[n + 1] = Jump(lc, n + 1) /\ t[n + 2] = Exit
                /\ \A i \in n + 3 .. m : t[i] = Nop
  /\ ~jumps => t[n + 1] = Exit /\ \A i \in n + 2 .. m : t[i] = Nop

\* What create_pim_cmd makes of a body.
LEMMA ProgramIs ==
  ASSUME NEW op, NEW lc, NEW body, body = Body(op, lc), IsSeq(body), NEW n \in 4 .. 8, Len(body) = n,
         NEW m, m = IF op # "GEMV" THEN IF n < 6 THEN 8 ELSE 16 ELSE 8, op = "GEMV" => n = 5
  PROVE  IsProgram(create_pim_cmd(op, lc), m, n, body, op # "GEMV", lc)
<1>1. PICK looped : looped = IF op # "GEMV" THEN Append(body, Jump(lc, Len(body) + 1)) ELSE body
  OBVIOUS
<1>2. PICK cmds : cmds = Append(looped, Control("EXIT", 0))
  OBVIOUS
<1>3. PICK t : t = create_pim_cmd(op, lc)
  OBVIOUS
<1>4. t = cmds \o [i \in 1 .. 8 - (Len(cmds) % 8) |-> Control("NOP", 0)]
  BY <1>1, <1>2, <1>3, Zenon DEF create_pim_cmd
<1>5. PICK l \in Nat : l = IF op # "GEMV" THEN n + 1 ELSE n
  OBVIOUS
<1>6. /\ IsSeq(looped) /\ Len(looped) = l /\ \A i \in 1 .. n : looped[i] = body[i]
      /\ op # "GEMV" => looped[n + 1] = Jump(lc, n + 1)
  <2>1. CASE op # "GEMV"
    <3>1. looped = Append(body, Jump(lc, n + 1))
      BY <1>1, <2>1
    <3> QED BY <1>5, <2>1, <3>1, AppendIs
  <2>2. CASE op = "GEMV"
    BY <1>1, <1>5, <2>2
  <2> QED BY <2>1, <2>2
<1>7. /\ IsSeq(cmds) /\ Len(cmds) = l + 1 /\ \A i \in 1 .. l : cmds[i] = looped[i]
      /\ cmds[l + 1] = Exit
  BY <1>2, <1>6, AppendIs DEF Exit
<1>8. m \in Nat /\ l + 1 \in Nat /\ m = (l + 1) + (8 - ((l + 1) % 8))
  BY <1>5
<1>9. Starts8(t, m, cmds)
  BY <1>4, <1>7, <1>8, PadIs
<1>10. Len(t) = m /\ (\A i \in 1 .. l + 1 : t[i] = cmds[i]) /\ (\A i \in l + 2 .. m : t[i] = Nop)
  <2>1. (l + 1) + 1 = l + 2
    OBVIOUS
  <2> QED BY <1>7, <1>9, <2>1, Zenon DEF Starts8, Nop
<1>11. \A i \in 1 .. n : t[i] = body[i]
  BY <1>5, <1>6, <1>7, <1>10
<1>12. op # "GEMV" => t[n + 1] = Jump(lc, n + 1) /\ t[n + 2] = Exit /\ \A i \in n + 3 .. m : t[i] = Nop
  BY <1>5, <1>6, <1>7, <1>10
<1>13. op = "GEMV" => t[n + 1] = Exit /\ \A i \in n + 2 .. m : t[i] = Nop
  BY <1>5, <1>7, <1>10
<1> QED BY <1>3, <1>10, <1>11, <1>12, <1>13 DEF IsProgram

\* Commands other than jumps.
IsPlain(c) ==
  \/ \E lc : c = Control("NOP", lc)
  \/ c = Exit
  \/ \E d \in Operands, a \in Operands, auto \in {0, 1}, relu \in 0 .. 1 : c = Fill(d, a, auto, relu)
  \/ \E ty \in {"ADD", "MUL", "MAC"}, d \in Operands, a \in Operands, b \in Operands : c = Alu(ty, d, a, b)
  \/ \E d \in Operands, a \in Operands, s \in 0 .. 1 : c = Mad(d, a, s)

\* The type of a command.
LEMMA PlainTypes ==
  ASSUME NEW ty, NEW lc, NEW d, NEW a, NEW b, NEW auto, NEW relu, NEW s
  PROVE  /\ Control(ty, lc).type = ty /\ Control(ty, lc).loop_counter = lc
         /\ Fill(d, a, auto, relu).type = "FILL"
         /\ Alu(ty, d, a, b).type = ty /\ Mad(d, a, s).type = "MAD"
         /\ Jump(lc, s).type = "JUMP" /\ Jump(lc, s).loop_counter = lc /\ Jump(lc, s).loop_offset = s
BY DEF Control, Fill, Alu, Mad, Jump, PimCommand

\* No other command is read as a jump.
LEMMA PlainRead ==
  ASSUME NEW c, IsPlain(c)
  PROVE  from_int(to_int(c)).type # "JUMP"
<1>1. CASE \E lc : c = Control("NOP", lc)
  <2>1. PICK lc : c = Control("NOP", lc)
    BY <1>1
  <2>2. PICK n : from_int(to_int(c)) = Control("NOP", n)
    BY <2>1, NopRead
  <2>3. Control("NOP", n).type = "NOP"
    BY PlainTypes
  <2> QED BY <2>2, <2>3
<1>2. CASE c = Exit
  <2>1. Control("EXIT", 0).type = "EXIT"
    BY PlainTypes
  <2> QED BY <1>2, <2>1, ExitRead DEF Exit
<1>3. ASSUME NEW d \in Operands, NEW a \in Operands, NEW auto \in {0, 1}, NEW relu \in 0 .. 1,
             c = Fill(d, a, auto, relu)
      PROVE  from_int(to_int(c)).type # "JUMP"
  <2>1. from_int(to_int(c)) = Fill(d, a, 0, relu)
    BY <1>3, FillRead
  <2>2. Fill(d, a, 0, relu).type = "FILL"
    BY PlainTypes
  <2> QED BY <2>1, <2>2
<1>4. ASSUME NEW ty \in {"ADD", "MUL", "MAC"}, NEW d \in Operands, NEW a \in Operands,
             NEW b \in Operands, c = Alu(ty, d, a, b)
      PROVE  from_int(to_int(c)).type # "JUMP"
  <2>1. from_int(to_int(c)) = Alu(ty, d, a, b)
    BY <1>4, AluRead
  <2>2. Alu(ty, d, a, b).type = ty
    BY PlainTypes
  <2> QED BY <2>1, <2>2
<1>5. ASSUME NEW d \in Operands, NEW a \in Operands, NEW s \in 0 .. 1, c = Mad(d, a, s)
      PROVE  from_int(to_int(c)).type # "JUMP"
  <2>1. from_int(to_int(c)) = Mad(d, a, s)
    BY <1>5, MadRead
  <2>2. Mad(d, a, s).type = "MAD"
    BY PlainTypes
  <2> QED BY <2>1, <2>2
<1> QED BY <1>1, <1>2, <1>3, <1>4, <1>5 DEF IsPlain

\* The command at place i of a body (from 1) does not jump before the first one.
BodyCommand(c, i) == IsPlain(c) \/ (i >= 2 /\ \E lc : c = Jump(lc, 2))

\* The commands of the programs.
LEMMA PlainCommands ==
  /\ \A n : IsPlain(Idle(n)) /\ IsPlain(Exit) /\ IsPlain(Nop)
  /\ \A d \in {"GRF_A", "GRF_B"}, a \in {"EVEN_BANK", "ODD_BANK", "GRF_A", "GRF_B"}, x \in {0, 1}, r \in {0, 1} :
       IsPlain(Fill(d, a, x, r)) /\ IsPlain(Mad(d, a, x))
  /\ \A ty \in {"ADD", "MUL", "MAC"}, d \in {"GRF_A", "GRF_B"}, a \in {"GRF_A", "GRF_B"},
        b \in {"EVEN_BANK", "ODD_BANK"} : IsPlain(Alu(ty, d, a, b))
<1>1. \A n : IsPlain(Idle(n)) /\ IsPlain(Exit) /\ IsPlain(Nop)
  BY Zenon DEF IsPlain, Idle, Exit, Nop
<1>2. ASSUME NEW d \in {"GRF_A", "GRF_B"}, NEW a \in {"EVEN_BANK", "ODD_BANK", "GRF_A", "GRF_B"},
             NEW x \in {0, 1}, NEW r \in {0, 1}
      PROVE  IsPlain(Fill(d, a, x, r)) /\ IsPlain(Mad(d, a, x))
  <2>1. d \in Operands /\ a \in Operands /\ r \in 0 .. 1 /\ x \in 0 .. 1
    BY DEF Operands
  <2> QED BY <2>1, Zenon DEF IsPlain
<1>3. ASSUME NEW ty \in {"ADD", "MUL", "MAC"}, NEW d \in {"GRF_A", "GRF_B"}, NEW a \in {"GRF_A", "GRF_B"},
             NEW b \in {"EVEN_BANK", "ODD_BANK"}
      PROVE  IsPlain(Alu(ty, d, a, b))
  <2>1. d \in Operands /\ a \in Operands /\ b \in Operands
    BY DEF Operands
  <2> QED BY <2>1, Zenon DEF IsPlain
<1> QED BY <1>1, <1>2, <1>3

Ops == {"ADD", "MUL", "RELU", "COPY", "BN", "GEMV"}
BodyLen(op) == CASE op \in {"ADD", "MUL"} -> 6 [] op \in {"RELU", "COPY"} -> 4
                 [] op = "GEMV" -> 5 [] op = "BN" -> 8

\* The bodies of all operations.
LEMMA BodyIs ==
  ASSUME NEW op \in Ops, NEW lc
  PROVE  /\ IsSeq(Body(op, lc)) /\ Len(Body(op, lc)) = BodyLen(op)
         /\ \A i \in 1 .. BodyLen(op) : BodyCommand(Body(op, lc)[i], i)
<1>1. CASE op \in {"ADD", "MUL"}
  <2>1. PICK a, b, c, d, e, f : /\ a = Fill("GRF_A", "EVEN_BANK", 0, 0) /\ b = Alu(op, "GRF_A", "GRF_A", "EVEN_BANK")
                                /\ c = Idle(3) /\ d = Fill("GRF_B", "ODD_BANK", 0, 0)
                                /\ e = Alu(op, "GRF_B", "GRF_B", "ODD_BANK") /\ f = Idle(3)
    OBVIOUS
  <2>2. Body(op, lc) = <<a, b, c, d, e, f>>
    BY <1>1, <2>1, Zenon DEF Body
  <2>3. IsPlain(a) /\ IsPlain(b) /\ IsPlain(c) /\ IsPlain(d) /\ IsPlain(e) /\ IsPlain(f)
    BY <1>1, <2>1, PlainCommands
  <2>4. BodyLen(op) = 6
    BY <1>1 DEF BodyLen
  <2>5. \A i \in 1 .. 6 : IsPlain(<<a, b, c, d, e, f>>[i])
    BY <2>3
  <2> QED BY <2>2, <2>4, <2>5, BodiesAre DEF BodyCommand
<1>2. CASE op \in {"RELU", "COPY"}
  <2>1. PICK r \in {0, 1} : r = IF op = "RELU" THEN 1 ELSE 0
    OBVIOUS
  <2>2. PICK a, b, c, d : /\ a = Fill("GRF_A", "EVEN_BANK", 1, r) /\ b = Idle(2)
                          /\ c = Fill("GRF_B", "ODD_BANK", 1, r) /\ d = Idle(2)
    OBVIOUS
  <2>3. Body(op, lc) = <<a, b, c, d>>
    <3>1. CASE op = "RELU"
      <4>1. r = 1
        BY <2>1, <3>1
      <4> QED BY <2>2, <3>1, <4>1, Zenon DEF Body
    <3>2. CASE op = "COPY"
      <4>1. r = 0
        BY <2>1, <3>2
      <4> QED BY <2>2, <3>2, <4>1, Zenon DEF Body
    <3> QED BY <1>2, <3>1, <3>2
  <2>4. IsPlain(a) /\ IsPlain(b) /\ IsPlain(c) /\ IsPlain(d)
    BY <2>2, PlainCommands
  <2>5. BodyLen(op) = 4
    BY <1>2 DEF BodyLen
  <2>6. \A i \in 1 .. 4 : IsPlain(<<a, b, c, d>>[i])
    BY <2>4
  <2> QED BY <2>3, <2>5, <2>6, BodiesAre DEF BodyCommand
<1>3. CASE op = "GEMV"
  <2>1. PICK a, b, c, d, e : /\ a = Alu("MAC", "GRF_B", "GRF_A", "EVEN_BANK") /\ b = Jump(NumGrf * CeilHalf(lc) - 1, 2)
                             /\ c = Alu("MAC", "GRF_B", "GRF_A", "ODD_BANK") /\ d = Jump(NumGrf * (lc \div 2) - 1, 2)
                             /\ e = Idle(3)
    OBVIOUS
  <2>2. Body(op, lc) = <<a, b, c, d, e>>
    BY <1>3, <2>1, Zenon DEF Body
  <2>3. IsPlain(a) /\ IsPlain(c) /\ IsPlain(e)
    BY <2>1, PlainCommands
  <2>4. BodyLen(op) = 5
    BY <1>3 DEF BodyLen
  <2>5. BodyCommand(a, 1) /\ BodyCommand(b, 2) /\ BodyCommand(c, 3) /\ BodyCommand(d, 4) /\ BodyCommand(e, 5)
    BY <2>1, <2>3 DEF BodyCommand
  <2>6. \A i \in 1 .. 5 : BodyCommand(<<a, b, c, d, e>>[i], i)
    BY <2>5
  <2> QED BY <2>2, <2>4, <2>6, BodiesAre
<1>4. CASE op = "BN"
  <2>1. PICK a, b, c, d : /\ a = Mad("GRF_A", "EVEN_BANK", 0) /\ b = Idle(1) /\ c = Mad("GRF_A", "GRF_A", 1) /\ d = Idle(1)
    OBVIOUS
  <2>2. PICK e, f, g, h : /\ e = Mad("GRF_B", "ODD_BANK", 0) /\ f = Idle(1) /\ g = Mad("GRF_B", "GRF_B", 1) /\ h = Idle(3)
    OBVIOUS
  <2>3. Body(op, lc) = <<a, b, c, d, e, f, g, h>>
    BY <1>4, <2>1, <2>2, Zenon DEF Body
  <2>4. /\ IsPlain(a) /\ IsPlain(b) /\ IsPlain(c) /\ IsPlain(d)
        /\ IsPlain(e) /\ IsPlain(f) /\ IsPlain(g) /\ IsPlain(h)
    BY <2>1, <2>2, PlainCommands
  <2>5. BodyLen(op) = 8
    BY <1>4 DEF BodyLen
  <2>6. \A i \in 1 .. 8 : IsPlain(<<a, b, c, d, e, f, g, h>>[i])
    BY <2>4
  <2> QED BY <2>3, <2>5, <2>6, BodiesAre DEF BodyCommand
<1> QED BY <1>1, <1>2, <1>3, <1>4 DEF Ops

\* A program as the unit has it: at most 16 words, no jump before the first one,
\* and no count above the largest.
WellFormed(P) ==
  /\ DOMAIN P \subseteq 0 .. 15
  /\ \A n \in DOMAIN P : P[n].type = "JUMP" =>
       P[n].loop_counter \in 0 .. MaxLoop /\ P[n].loop_offset \in 0 .. n + 1

\* What the unit reads of a jump.
LEMMA JumpWell ==
  ASSUME NEW lc, NEW off \in 0 .. 16
  PROVE  LET d == from_int(to_int(Jump(lc, off)))
         IN  d.loop_counter \in 0 .. MaxLoop /\ d.loop_offset = off
<1>1. off \in 0 .. MaxIdle
  BY MaxIdleIs
<1>2. PICK n \in 0 .. MaxLoop : from_int(to_int(Jump(lc, off))) = Jump(n, off)
  BY <1>1, JumpRead
<1>3. Jump(n, off).loop_counter = n /\ Jump(n, off).loop_offset = off
  BY PlainTypes
<1> QED BY <1>2, <1>3

\* Every program make_crf_bin makes is of that form, whatever the size.
LEMMA ProgramsWellFormed ==
  ASSUME NEW op \in Ops, NEW size
  PROVE  WellFormed(make_crf_bin(op, size))
<1>1. PICK lc : lc = get_loop_counter(op, size)
  OBVIOUS
<1>2. PICK t : t = create_pim_cmd(op, lc)
  OBVIOUS
<1>3. PICK P : P = make_crf_bin(op, size)
  OBVIOUS
<1>4. P = [i \in 0 .. Len(t) - 1 |-> from_int(to_int(t[i + 1]))]
  BY <1>1, <1>2, <1>3, Zenon DEF make_crf_bin
<1>5. PICK n \in 4 .. 8 : n = BodyLen(op) /\ n # 7 /\ (op = "GEMV" <=> n = 5)
  BY DEF BodyLen, Ops
<1>6. PICK m \in 8 .. 16 : m = IF op # "GEMV" THEN IF n < 6 THEN 8 ELSE 16 ELSE 8
  OBVIOUS
<1>7. PICK body : body = Body(op, lc)
  OBVIOUS
<1>8. IsSeq(body) /\ Len(body) = n /\ \A i \in 1 .. n : BodyCommand(body[i], i)
  BY <1>5, <1>7, BodyIs
<1>9. IsProgram(t, m, n, body, op # "GEMV", lc)
  BY <1>2, <1>5, <1>6, <1>7, <1>8, ProgramIs
<1>10. ASSUME NEW i \in 1 .. m
       PROVE  IsPlain(t[i]) \/ \E off \in 0 .. i : \E x : t[i] = Jump(x, off)
  <2>0. IsPlain(Exit) /\ IsPlain(Nop)
    BY PlainCommands
  <2>1. CASE i <= n
    <3>1. i \in 1 .. n /\ t[i] = body[i]
      BY <1>9, <2>1 DEF IsProgram
    <3>2. BodyCommand(t[i], i)
      BY <1>8, <3>1
    <3> QED BY <3>2 DEF BodyCommand
  <2>2. CASE i = n + 1
    <3>1. CASE op = "GEMV"
      BY <1>9, <2>0, <2>2, <3>1 DEF IsProgram
    <3>2. CASE op # "GEMV"
      <4>1. t[i] = Jump(lc, i)
        BY <1>9, <2>2, <3>2 DEF IsProgram
      <4> QED BY <4>1
    <3> QED BY <3>1, <3>2
  <2>3. CASE i >= n + 2
    <3>1. t[i] = Exit \/ t[i] = Nop
      BY <1>9, <2>3 DEF IsProgram
    <3> QED BY <2>0, <3>1
  <2> QED BY <2>1, <2>2, <2>3
<1>11. Len(t) = m
  BY <1>9, Zenon DEF IsProgram
<1>12. DOMAIN P = 0 .. m - 1 /\ \A k \in 0 .. m - 1 : P[k] = from_int(to_int(t[k + 1]))
  BY <1>4, <1>11
<1>13. ASSUME NEW k \in 0 .. m - 1, P[k].type = "JUMP"
       PROVE  P[k].loop_counter \in 0 .. MaxLoop /\ P[k].loop_offset \in 0 .. k + 1
  <2>1. k + 1 \in 1 .. m /\ P[k] = from_int(to_int(t[k + 1]))
    BY <1>12
  <2>2. ~IsPlain(t[k + 1])
    BY <1>13, <2>1, PlainRead
  <2>3. PICK off \in 0 .. k + 1 : \E x : t[k + 1] = Jump(x, off)
    BY <1>10, <2>1, <2>2
  <2>4. off \in 0 .. 16
    OBVIOUS
  <2> QED BY <2>1, <2>3, <2>4, JumpWell
<1> QED BY <1>3, <1>12, <1>13 DEF WellFormed

\* A write of the CRF is of a program of the form above.
Loads(a) == a.k = "CRF" => WellFormed(a.words)

\* The windows between entering HAB and leaving it: none writes the registers
\* that do so or loads anything but a program, and none is without accesses.
Inner(w) ==
  /\ \A n \in DOMAIN w : w[n].k \notin {"AB", "SB"} /\ Loads(w[n])
  /\ \E n \in DOMAIN w : w[n].lanes # {}

\* Windows that may turn HAB_PIM on, and those that turn it off.
Enters(w) == \E n \in DOMAIN w : w[n].k = "HAB_PIM"
Leaves(w) == DOMAIN w = {1} /\ w[1].k = "HAB"

Inside(ws) == IsSeq(ws) /\ \A n \in 1 .. Len(ws) : Inner(ws[n])

\* HAB_PIM is turned off after it was turned on.
Closed(ws) ==
  /\ Inside(ws)
  /\ \A n \in 1 .. Len(ws) : Enters(ws[n]) => \E m \in n + 1 .. Len(ws) : Leaves(ws[m])

\* Windows inside HAB, one part after another, are inside it.
LEMMA InsideConcat ==
  ASSUME NEW s, Inside(s), NEW t, Inside(t)
  PROVE  Inside(s \o t)
<1>1. PICK h : h = s \o t
  OBVIOUS
<1>2. /\ IsSeq(h) /\ Len(s) \in Nat /\ Len(t) \in Nat /\ Len(h) = Len(s) + Len(t)
      /\ \A i \in 1 .. Len(s) : h[i] = s[i]
      /\ \A i \in 1 .. Len(t) : h[Len(s) + i] = t[i]
  BY <1>1, ConcatIsSeq DEF Inside
<1>3. ASSUME NEW n \in 1 .. Len(h) PROVE Inner(h[n])
  <2>1. CASE n <= Len(s)
    BY <2>1, <1>2 DEF Inside
  <2>2. CASE ~(n <= Len(s))
    <3>1. n - Len(s) \in 1 .. Len(t) /\ n = Len(s) + (n - Len(s))
      BY <2>2, <1>2
    <3>2. h[n] = t[n - Len(s)]
      BY <3>1, <1>2
    <3> QED BY <3>1, <3>2 DEF Inside
  <2> QED BY <2>1, <2>2
<1> QED BY <1>1, <1>2, <1>3 DEF Inside

\* So are any number of parts.
LEMMA InsideFlatten ==
  ASSUME NEW n \in Int, NEW s, s = [i \in 1 .. n |-> s[i]],
         \A i \in 1 .. n : Inside(s[i])
  PROVE  Inside(FlattenSeq(s))
<1>1. PICK h : h = FlattenSeq(s)
  OBVIOUS
<1>2. IsSeq(h) /\ Blocks(h, s)
  BY <1>1, FlattenIsSeq DEF Inside
<1>3. ASSUME NEW i \in 1 .. Len(h) PROVE Inner(h[i])
  <2>1. PICK t \in DOMAIN s, off \in Nat : InBlock(h, i, s[t], off)
    BY <1>2, Zenon DEF Blocks
  <2>2. t \in 1 .. n
    OBVIOUS
  <2>3. h[off + (i - off)] = s[t][i - off] /\ i - off \in 1 .. Len(s[t])
    BY <2>1 DEF InBlock
  <2>4. off + (i - off) = i
    BY <1>2, SeqIsSeq DEF IsSeq
  <2>5. Inner(s[t][i - off])
    BY <2>2, <2>3, Zenon DEF Inside
  <2> QED BY <2>3, <2>4, <2>5
<1> QED BY <1>1, <1>2, <1>3 DEF Inside

\* Parts that each turn HAB_PIM off again do so together.
LEMMA ClosedFlatten ==
  ASSUME NEW n \in Int, NEW s, s = [i \in 1 .. n |-> s[i]],
         \A i \in 1 .. n : Closed(s[i])
  PROVE  Closed(FlattenSeq(s))
<1>1. PICK h : h = FlattenSeq(s)
  OBVIOUS
<1>2. Inside(h)
  BY <1>1, InsideFlatten DEF Closed
<1>3. IsSeq(h) /\ Blocks(h, s) /\ Len(h) \in Nat
  BY <1>1, FlattenIsSeq, SeqIsSeq DEF Closed, Inside, IsSeq
<1>4. ASSUME NEW i \in 1 .. Len(h), Enters(h[i])
      PROVE  \E m \in i + 1 .. Len(h) : Leaves(h[m])
  <2>1. PICK t \in DOMAIN s, off \in Nat : InBlock(h, i, s[t], off)
    BY <1>3, Zenon DEF Blocks
  <2>2. PICK b : b = s[t]
    OBVIOUS
  <2>3. Closed(b) /\ InBlock(h, i, b, off) /\ Len(b) \in Nat
    BY <2>1, <2>2, SeqIsSeq DEF Closed, Inside, IsSeq
  <2>4. i - off \in 1 .. Len(b) /\ h[off + (i - off)] = b[i - off] /\ off + (i - off) = i
    BY <2>3, <1>3 DEF InBlock
  <2>5. Enters(b[i - off])
    BY <2>4, <1>4
  <2>6. PICK m \in i - off + 1 .. Len(b) : Leaves(b[m])
    BY <2>3, <2>4, <2>5, Zenon DEF Closed
  <2>7. m \in 1 .. Len(b) /\ off + m \in i + 1 .. Len(h) /\ h[off + m] = b[m]
    BY <2>3, <2>4, <2>6, <1>3, SMTT(30) DEF InBlock
  <2> QED BY <2>6, <2>7
<1> QED BY <1>1, <1>2, <1>4 DEF Closed

\* What ends with a window that turns HAB_PIM off is closed.
LEMMA ClosedByLast ==
  ASSUME NEW s, Inside(s), Len(s) # 0, Leaves(s[Len(s)])
  PROVE  Closed(s)
<1>1. Len(s) \in Nat
  BY SeqIsSeq DEF Inside, IsSeq
<1>2. ASSUME NEW n \in 1 .. Len(s), Enters(s[n])
      PROVE  \E m \in n + 1 .. Len(s) : Leaves(s[m])
  <2>1. n # Len(s)
    BY <1>2 DEF Enters, Leaves
  <2> QED BY <1>1, <2>1
<1> QED BY <1>2 DEF Closed


\* An access that leaves HAB alone, by some lanes.
Mild(a) == a.k \notin {"AB", "SB"} /\ a.lanes # {} /\ Loads(a)

\* A window of one, two or three accesses that leave AB and SB alone.
LEMMA InnerTuples ==
  /\ \A a : Mild(a) => Inner(<<a>>)
  /\ \A a, b : Mild(a) /\ Mild(b) => Inner(<<a, b>>)
  /\ \A a, b, c : Mild(a) /\ Mild(b) /\ Mild(c) => Inner(<<a, b, c>>)
BY DEF Inner, Mild

\* One, two or three windows inside HAB.
LEMMA InsideTuples ==
  /\ \A a : Inner(a) => Inside(<<a>>)
  /\ \A a, b : Inner(a) /\ Inner(b) => Inside(<<a, b>>)
  /\ \A a, b, c : Inner(a) /\ Inner(b) /\ Inner(c) => Inside(<<a, b, c>>)
<1>1. ASSUME NEW a, Inner(a) PROVE Inside(<<a>>)
  <2>1. IsSeq(<<a>>)
    BY DEF IsSeq, Range
  <2> QED BY <1>1, <2>1 DEF Inside
<1>2. ASSUME NEW a, NEW b, Inner(a), Inner(b) PROVE Inside(<<a, b>>)
  <2>1. IsSeq(<<a, b>>)
    BY DEF IsSeq, Range
  <2> QED BY <1>2, <2>1 DEF Inside
<1>3. ASSUME NEW a, NEW b, NEW c, Inner(a), Inner(b), Inner(c) PROVE Inside(<<a, b, c>>)
  <2>1. IsSeq(<<a, b, c>>)
    BY DEF IsSeq, Range
  <2> QED BY <1>3, <2>1 DEF Inside
<1> QED BY <1>1, <1>2, <1>3

\* A wave has the two lanes the mode changes use.
LEMMA SomeLanes == 0 \in Lanes /\ 1 \in Lanes
BY GeometryAssumption DEF Lanes

\* Reads and writes of banks, parking and the SRF change no mode.
LEMMA MildAccesses ==
  /\ \A buf, bank, base : Mild(R_CMD(buf, bank, base)) /\ Mild(W_CMD(buf, bank, base))
  /\ Mild(Reg("PARK")) /\ Mild(Reg("SRF"))
BY SomeLanes DEF Mild, Loads, R_CMD, W_CMD, Reg

\* The tiles of the elementwise kernels stay inside HAB.
LEMMA EltTilesInside ==
  ASSUME NEW j, NEW base
  PROVE  /\ Inside(elt_op_pim(j, base)) /\ Inside(relu_pim(j, base))
         /\ Inside(copy_pim(j, base)) /\ Inside(bn_pim_nr_sip(j, base))
<1>1. Inside(elt_op_pim(j, base))
  <2>1. PICK s : s = [b \in 1 .. 2 |->
    << <<R_CMD("op0", b - 1, base)>>, <<R_CMD("op1", b - 1, base)>>,
       <<W_CMD(j.out, b - 1, base), W_CMD(j.out, b - 1, base),
         R_CMD(j.out, b - 1, base)>> >>]
    OBVIOUS
  <2>2. ASSUME NEW b \in 1 .. 2 PROVE Inside(s[b])
    BY <2>1, InnerTuples, InsideTuples, MildAccesses
  <2>3. s = [b \in 1 .. 2 |-> s[b]]
    BY <2>1
  <2>4. Inside(FlattenSeq(s))
    BY <2>2, <2>3, InsideFlatten
  <2> QED BY <2>1, <2>4 DEF elt_op_pim
<1>2. Inside(relu_pim(j, base)) /\ Inside(copy_pim(j, base))
  <2>1. PICK s : s = [b \in 1 .. 2 |->
    << <<R_CMD("op0", b - 1, base)>>,
       <<W_CMD(j.out, b - 1, base), R_CMD(j.out, b - 1, base)>> >>]
    OBVIOUS
  <2>2. ASSUME NEW b \in 1 .. 2 PROVE Inside(s[b])
    BY <2>1, InnerTuples, InsideTuples, MildAccesses
  <2>3. s = [b \in 1 .. 2 |-> s[b]]
    BY <2>1
  <2>4. Inside(FlattenSeq(s))
    BY <2>2, <2>3, InsideFlatten
  <2> QED BY <2>1, <2>4 DEF relu_pim, copy_pim
<1>3. Inside(bn_pim_nr_sip(j, base))
  <2>1. PICK s : s = [n \in 1 .. 7 |-> <<R_CMD("op0", IF n <= 4 THEN 0 ELSE 1, base)>>]
    OBVIOUS
  <2>2. Inside(s)
    <3>1. s \in Seq({s[n] : n \in 1 .. 7}) /\ Len(s) = 7
      BY <2>1
    <3>2. IsSeq(s)
      BY <3>1, SeqIsSeq
    <3>3. ASSUME NEW n \in 1 .. 7 PROVE Inner(s[n])
      BY <2>1, InnerTuples, MildAccesses
    <3> QED BY <3>1, <3>2, <3>3 DEF Inside
  <2>3. Inside(<< <<W_CMD(j.out, 0, base)>>, <<W_CMD(j.out, 1, base), R_CMD(j.out, 1, base)>> >>)
    BY InnerTuples, InsideTuples, MildAccesses
  <2> QED BY <2>1, <2>2, <2>3, InsideConcat DEF bn_pim_nr_sip
<1> QED BY <1>1, <1>2, <1>3

\* change_habpim_hab is one window that turns HAB_PIM off.
LEMMA LeavesInside ==
  ASSUME NEW lanes, lanes # {}
  PROVE  /\ Inside(change_habpim_hab(lanes)) /\ Len(change_habpim_hab(lanes)) = 1
         /\ Leaves(change_habpim_hab(lanes)[1])
<1>1. Mild([k |-> "HAB", lanes |-> lanes])
  BY DEF Mild, Loads
<1>2. Leaves(<<[k |-> "HAB", lanes |-> lanes]>>)
  BY DEF Leaves
<1> QED BY <1>1, <1>2, InnerTuples, InsideTuples DEF change_habpim_hab

\* Whatever is inside, then leaving HAB_PIM, is closed.
LEMMA ClosedThenLeave ==
  ASSUME NEW s, Inside(s), NEW lanes, lanes # {}
  PROVE  Closed(s \o change_habpim_hab(lanes))
<1>1. PICK t : t = change_habpim_hab(lanes)
  OBVIOUS
<1>2. Inside(t) /\ Len(t) = 1 /\ Leaves(t[1])
  BY <1>1, LeavesInside
<1>3. PICK h : h = s \o t
  OBVIOUS
<1>4. Inside(h)
  BY <1>2, <1>3, InsideConcat
<1>5. IsSeq(s) /\ IsSeq(t)
  BY <1>2 DEF Inside
<1>6. /\ Len(h) = Len(s) + Len(t) /\ Len(s) \in Nat
      /\ \A i \in 1 .. Len(t) : h[Len(s) + i] = t[i]
  BY <1>3, <1>5, ConcatIsSeq
<1>7. Len(h) # 0 /\ Leaves(h[Len(h)])
  BY <1>2, <1>6
<1>8. Closed(h)
  BY <1>4, <1>7, ClosedByLast
<1> QED BY <1>1, <1>3, <1>8

\* The windows that write the CRF and the SRF and turn HAB_PIM on stay inside
\* HAB.
LEMMA SetupInside ==
  ASSUME NEW words, WellFormed(words), NEW clear
  PROVE  /\ Inner(program_srf \o change_hab_habpim(clear, {0}))
         /\ Inner(program_crf(words, 1)) /\ Inner(program_crf(words, 2))
         /\ Inner(program_crf(words, 1) \o change_hab_habpim(clear, {0}))
<1> DEFINE crf(n) == [k |-> "CRF", words |-> words, lanes |-> 0 .. n - 1]
           on(l) == [k |-> "HAB_PIM", clear |-> clear, lanes |-> l]
<1>1. Mild(crf(1)) /\ Mild(crf(2)) /\ Mild(on({0}))
  BY DEF Mild, Loads
<1>2. program_srf \o change_hab_habpim(clear, {0}) = <<Reg("SRF"), on({0})>>
  BY ConcatPair, Zenon DEF program_srf, change_hab_habpim
<1>3. program_crf(words, 1) \o change_hab_habpim(clear, {0}) = <<crf(1), on({0})>>
  BY ConcatPair, Zenon DEF program_crf, change_hab_habpim
<1> HIDE DEF crf, on
<1> QED BY <1>1, <1>2, <1>3, InnerTuples, MildAccesses DEF program_crf, change_hab_habpim, crf, on

\* So does the window that turns HAB_PIM on for a tile of a gemm.
LEMMA TurnOnInside ==
  ASSUME NEW clear
  PROVE  Inner(change_hab_habpim(clear, Lanes))
<1>1. Mild([k |-> "HAB_PIM", clear |-> clear, lanes |-> Lanes])
  BY SomeLanes DEF Mild, Loads
<1> QED BY <1>1, InnerTuples DEF change_hab_habpim

\* An elementwise job has a natural number of tiles, and one of the five
\* operations.
LEMMA NumTileNat ==
  ASSUME NEW j \in Jobs, ~IsGemm(j)
  PROVE  NumTile(j) \in Nat /\ j.op \in {"ADD", "MUL", "RELU", "COPY", "BN"}
BY JobsAssumption DEF NumTile, IsGemm

\* A kernel: it enters HAB, does what is closed, and leaves.
Frame(mid) == park \o change_sb_hab \o mid \o change_hab_sb \o park

\* The windows a kernel begins and ends with.
LEMMA FrameSeqs ==
  /\ IsSeq(park) /\ Len(park) = 1 /\ park[1] = <<Reg("PARK")>>
  /\ IsSeq(change_sb_hab) /\ Len(change_sb_hab) = 4
  /\ \A n \in 1 .. 4 : change_sb_hab[n] = <<[k |-> "AB", n |-> n, lanes |-> {0}]>>
  /\ IsSeq(change_hab_sb) /\ Len(change_hab_sb) = 1
  /\ change_hab_sb[1] = <<[k |-> "SB", lanes |-> {0, 1}]>>
<1>1. IsSeq(park) /\ Len(park) = 1 /\ park[1] = <<Reg("PARK")>>
  BY DEF park, IsSeq, Range
<1>2. PICK s : s = change_sb_hab
  OBVIOUS
<1>3. s \in Seq({s[n] : n \in 1 .. 4}) /\ Len(s) = 4
  BY <1>2 DEF change_sb_hab
<1>4. IsSeq(s)
  BY <1>3, SeqIsSeq
<1>5. \A n \in 1 .. 4 : s[n] = <<[k |-> "AB", n |-> n, lanes |-> {0}]>>
  BY <1>2 DEF change_sb_hab
<1>6. /\ IsSeq(change_hab_sb) /\ Len(change_hab_sb) = 1
      /\ change_hab_sb[1] = <<[k |-> "SB", lanes |-> {0, 1}]>>
  BY DEF change_hab_sb, IsSeq, Range
<1> QED BY <1>1, <1>2, <1>3, <1>4, <1>5, <1>6

\* An elementwise kernel enters HAB, turns HAB_PIM on and off again, and
\* leaves HAB.
LEMMA EltFramed ==
  ASSUME NEW j \in Jobs, ~IsGemm(j)
  PROVE  \E mid : Closed(mid) /\ EltKernel(j) = Frame(mid)
<1> DEFINE tile(t) == CASE j.op \in {"ADD", "MUL"} -> elt_op_pim(j, t * NumGrf)
                        [] j.op = "RELU" -> relu_pim(j, t * NumGrf)
                        [] j.op = "COPY" -> copy_pim(j, t * NumGrf)
                        [] j.op = "BN" -> bn_pim_nr_sip(j, t * NumGrf)
           words == make_crf_bin(j.op, j.size)
           setup == IF j.op = "BN"
                      THEN << program_srf \o change_hab_habpim(FALSE, {0}), program_crf(words, 2) >>
                      ELSE << program_crf(words, 1) \o change_hab_habpim(FALSE, {0}) >>
<1>1. PICK s : s = [t \in 1 .. NumTile(j) |-> tile(t - 1)]
  OBVIOUS
<1>2. PICK S : S = setup
  OBVIOUS
<1>3. Inside(S)
  <2>0. WellFormed(words)
    BY NumTileNat, ProgramsWellFormed DEF Ops
  <2>1. CASE j.op = "BN"
    BY <2>0, <2>1, <1>2, SetupInside, InsideTuples
  <2>2. CASE j.op # "BN"
    BY <2>0, <2>2, <1>2, SetupInside, InsideTuples
  <2> QED BY <2>1, <2>2
<1>4. ASSUME NEW t \in 1 .. NumTile(j) PROVE Inside(s[t])
  BY <1>1, EltTilesInside, NumTileNat
<1>5. s = [t \in 1 .. NumTile(j) |-> s[t]]
  <2> HIDE DEF tile
  <2> QED BY <1>1
<1>6. Inside(FlattenSeq(s))
  BY <1>4, <1>5, NumTileNat, InsideFlatten
<1>7. PICK F : F = FlattenSeq(s)
  OBVIOUS
<1>8. Closed((S \o F) \o change_habpim_hab({0, 1}))
  BY <1>3, <1>6, <1>7, InsideConcat, ClosedThenLeave
<1>9. EltKernel(j) = park \o change_sb_hab \o S \o F
                       \o change_habpim_hab({0, 1}) \o change_hab_sb \o park
  BY <1>1, <1>2, <1>7, Zenon DEF EltKernel
<1>10. IsSeq(park) /\ IsSeq(change_sb_hab) /\ IsSeq(change_habpim_hab({0, 1}))
  BY FrameSeqs, LeavesInside DEF Inside
<1>11. IsSeq(S) /\ IsSeq(F)
  BY <1>3, <1>6, <1>7 DEF Inside
<1>12. PICK A, H : A = park \o change_sb_hab /\ H = change_habpim_hab({0, 1})
  OBVIOUS
<1>13. ((A \o S) \o F) \o H = A \o ((S \o F) \o H)
  <2>1. IsSeq(A) /\ IsSeq(H) /\ IsSeq(S \o F)
    BY <1>10, <1>11, <1>12, ConcatIsSeq
  <2>2. (A \o S) \o F = A \o (S \o F)
    BY <2>1, <1>11, ConcatAssoc
  <2>3. (A \o (S \o F)) \o H = A \o ((S \o F) \o H)
    BY <2>1, ConcatAssoc
  <2> QED BY <2>2, <2>3
<1>14. EltKernel(j) = Frame((S \o F) \o change_habpim_hab({0, 1}))
  BY <1>9, <1>12, <1>13, Zenon DEF Frame
<1> QED BY <1>8, <1>14, Zenon

\* The loop bounds of the gemm kernel are natural numbers, whatever the
\* geometry.
LEMMA GemmNumbers ==
  ASSUME NEW j \in Jobs, IsGemm(j)
  PROVE  /\ InTiles(j) \div 2 \in Nat /\ OutTiles(j) \in Nat /\ IterCnt(j) \in Nat
         /\ j.inout_h \in Nat /\ ColsPerRow \div NumGrf \in Nat \ {0}
<1>1. {j.s.nc, j.s.out, j.s.in_cnt, j.inout_h} \subseteq Nat \ {0}
  BY JobsAssumption DEF IsGemm
<1>2. PICK a, o, n, h : a = j.s.in_cnt /\ o = j.s.out /\ n = j.s.nc /\ h = j.inout_h
  OBVIOUS
<1>3. a \in Nat \ {0} /\ o \in Nat \ {0} /\ n \in Nat \ {0} /\ h \in Nat \ {0}
  BY <1>1, <1>2
<1>4. OutTile \in Nat \ {0}
  <2>0. NumBg \in Nat /\ NumBg >= 1 /\ BanksPerBg \in Nat /\ BanksPerBg >= 2
    BY GeometryAssumption
  <2>1. NumBg * BanksPerBg \in Nat /\ NumBg * BanksPerBg >= 2
    BY <2>0
  <2>2. NumPimBlocks \in Nat \ {0}
    BY <2>1 DEF NumPimBlocks, NumBanks
  <2>3. NumGrf * NumPimBlocks \in Nat \ {0}
    BY <2>2, GeometryAssumption
  <2> QED BY <2>3, GeometryAssumption DEF OutTile
<1>5. InTiles(j) \div 2 \in Nat
  <2>1. a \div NumGrf \in Nat
    BY <1>3, GeometryAssumption
  <2> QED BY <2>1, <1>2 DEF InTiles
<1>6. PICK T : T = OutTile
  OBVIOUS
<1>7. OutTiles(j) \in Nat
  <2>1. o \div T \in Nat
    BY <1>3, <1>4, <1>6
  <2> QED BY <2>1, <1>2, <1>6 DEF OutTiles
<1>8. IterCnt(j) \in Nat
  <2>1. CASE Chwise(j)
    <3>1. o < T
      BY <2>1, <1>2, <1>6 DEF Chwise, check_chwise_gemm_bo
    <3>2. PICK q : q = T \div o
      OBVIOUS
    <3>3. q \in Nat /\ q >= 1
      BY <3>1, <3>2, <1>3, <1>4, <1>6
    <3>4. n \div q \in Nat
      BY <3>3, <1>3
    <3> QED BY <2>1, <3>2, <3>4, <1>2, <1>6 DEF IterCnt
  <2>2. CASE ~Chwise(j)
    <3>1. n * o \in Nat
      BY <1>3
    <3>2. (n * o) \div T \in Nat
      BY <3>1, <1>4, <1>6
    <3> QED BY <2>2, <3>2, <1>2, <1>6 DEF IterCnt
  <2> QED BY <2>1, <2>2
<1>9. ColsPerRow \div NumGrf \in Nat \ {0}
  <2>1. PICK g \in Nat \ {0} : NumGrf = 2 * g
    <3>1. NumGrf \div 2 \in Nat \ {0} /\ NumGrf = 2 * (NumGrf \div 2)
      BY GeometryAssumption
    <3> QED BY <3>1
  <2>2. ColsPerRow = NumGrf * g
    <3>1. NumGrf * NumGrf = 2 * (NumGrf * g)
      BY <2>1
    <3>2. NumGrf * g \in Nat
      BY <2>1
    <3> QED BY <3>1, <3>2 DEF ColsPerRow
  <2>3. (NumGrf * g) \div NumGrf = g
    BY <2>1
  <2> QED BY <2>1, <2>2, <2>3
<1> QED BY <1>2, <1>3, <1>5, <1>7, <1>8, <1>9


\* The window of a tile's weight rows is inside HAB and not empty.
LEMMA WeightRowsInner ==
  ASSUME NEW j \in Jobs, IsGemm(j), NEW i, NEW o_idx, NEW i_idx
  PROVE  Inner(weight_rows(j, i, o_idx, i_idx))
<1> DEFINE access(r, c) ==
             R_CMD("weight", i_idx % 2, WeightBase(j, i)
               + (2 * (i_idx \div 2 + (o_idx * InTiles(j)) \div 2) + r - 1) * ColsPerRow
               + (c - 1) * NumGrf)
<1>1. PICK n : n = ColsPerRow \div NumGrf
  OBVIOUS
<1>2. n \in Nat \ {0}
  BY <1>1, GemmNumbers
<1>3. PICK s : s = [r \in 1 .. 2 |-> [c \in 1 .. n |-> access(r, c)]]
  OBVIOUS
<1>4. PICK h : h = weight_rows(j, i, o_idx, i_idx)
  OBVIOUS
<1>5. h = FlattenSeq(s)
  BY <1>1, <1>3, <1>4, Zenon DEF weight_rows
<1>6. \A r, c : Mild(access(r, c))
  BY MildAccesses
<1> HIDE DEF access
<1>7. PICK a : a = [c \in 1 .. n |-> access(1, c)]
  OBVIOUS
<1>8. PICK b : b = [c \in 1 .. n |-> access(2, c)]
  OBVIOUS
<1>9. PICK S : S = {access(1, c) : c \in 1 .. n} \cup {access(2, c) : c \in 1 .. n}
  OBVIOUS
<1>10. /\ a \in Seq(S) /\ Len(a) = n /\ DOMAIN a = 1 .. n
       /\ b \in Seq(S) /\ Len(b) = n /\ DOMAIN b = 1 .. n
  BY <1>2, <1>7, <1>8, <1>9
<1>11. s = <<a, b>>
  <2>1. s[1] = a /\ s[2] = b
    BY <1>3, <1>7, <1>8
  <2>2. s = [r \in 1 .. 2 |-> s[r]]
    BY <1>3
  <2>3. s = <<s[1], s[2]>>
    BY <2>2
  <2> QED BY <2>1, <2>3, Zenon
<1>12. h = a \o b
  BY <1>5, <1>10, <1>11, FlattenTwo
<1>13. \A m \in 1 .. n : Mild(a[m]) /\ Mild(b[m])
  BY <1>6, <1>7, <1>8
<1>14. /\ h \in Seq(S) /\ DOMAIN h = 1 .. n + n
       /\ \A m \in 1 .. n : h[m] = a[m]
       /\ \A m \in 1 .. n : h[n + m] = b[m]
  BY <1>2, <1>10, <1>12
<1>15. ASSUME NEW m \in DOMAIN h PROVE Mild(h[m])
  <2>1. CASE m <= n
    BY <2>1, <1>2, <1>13, <1>14
  <2>2. CASE ~(m <= n)
    <3>1. m - n \in 1 .. n /\ n + (m - n) = m
      BY <2>2, <1>2, <1>14
    <3> QED BY <3>1, <1>13, <1>14
  <2> QED BY <2>1, <2>2
<1>16. 1 \in DOMAIN h
  BY <1>2, <1>14
<1> QED BY <1>4, <1>15, <1>16 DEF Inner, Mild

\* A tile of the gemm kernel turns HAB_PIM off again.
LEMMA GemmTileClosed ==
  ASSUME NEW j \in Jobs, IsGemm(j), NEW ch, NEW i, NEW in_idx, NEW o_idx
  PROVE  Closed(gemm_tile(j, ch, i, in_idx, o_idx))
<1> DEFINE grf(i_idx) == [k |-> "GRF", lanes |-> Lanes,
                          base |-> InputBase(j, ch, i, in_idx) + i_idx * NumGrf]
           in_tile(i_idx) == << <<grf(i_idx)>>, weight_rows(j, i, o_idx, i_idx) >>
           sums == SumBase(j, i, in_idx, o_idx)
<1>1. \A x : Inside(in_tile(x))
  <2> TAKE x
  <2>1. Mild(grf(x))
    BY SomeLanes DEF Mild, Loads
  <2> HIDE DEF grf
  <2>2. Inner(<<grf(x)>>)
    BY <2>1, InnerTuples
  <2> QED BY <2>2, WeightRowsInner, InsideTuples
<1>2. PICK half : half = InTiles(j) \div 2
  OBVIOUS
<1>3. half \in Nat
  BY <1>2, GemmNumbers
<1>4. PICK even : even = [n \in 1 .. half |-> in_tile(2 * (n - 1))]
  OBVIOUS
<1>5. PICK odd : odd = [n \in 1 .. half |-> in_tile(2 * (n - 1) + 1)]
  OBVIOUS
<1>6. PICK on : on = << change_hab_habpim(TRUE, Lanes) >>
  OBVIOUS
<1>7. PICK out : out = << <<W_CMD("sum", 1, sums), W_CMD("sum", 1, sums), R_CMD("sum", 1, sums)>> >>
  OBVIOUS
<1>8. gemm_tile(j, ch, i, in_idx, o_idx)
        = on \o FlattenSeq(even) \o FlattenSeq(odd) \o out \o change_habpim_hab(Lanes)
  BY <1>2, <1>4, <1>5, <1>6, <1>7, Zenon DEF gemm_tile
<1>9. Inside(on) /\ Inside(out)
  BY <1>6, <1>7, TurnOnInside, InnerTuples, InsideTuples, MildAccesses
<1> HIDE DEF in_tile
<1>10. Inside(FlattenSeq(even))
  <2>1. even = [n \in 1 .. half |-> even[n]] /\ \A n \in 1 .. half : Inside(even[n])
    BY <1>1, <1>4
  <2> QED BY <1>3, <2>1, InsideFlatten
<1>11. Inside(FlattenSeq(odd))
  <2>1. odd = [n \in 1 .. half |-> odd[n]] /\ \A n \in 1 .. half : Inside(odd[n])
    BY <1>1, <1>5
  <2> QED BY <1>3, <2>1, InsideFlatten
<1>12. PICK e, d : e = FlattenSeq(even) /\ d = FlattenSeq(odd)
  OBVIOUS
<1>13. Inside(on \o e \o d \o out)
  <2>1. Inside(on \o e)
    BY <1>9, <1>10, <1>12, InsideConcat
  <2>2. Inside((on \o e) \o d)
    BY <1>11, <1>12, <2>1, InsideConcat
  <2> QED BY <1>9, <2>2, InsideConcat
<1>14. Closed((on \o e \o d \o out) \o change_habpim_hab(Lanes))
  BY <1>13, SomeLanes, ClosedThenLeave
<1> QED BY <1>8, <1>12, <1>14

\* Two parts that each turn HAB_PIM off again do so together.
LEMMA ClosedConcat ==
  ASSUME NEW s, Closed(s), NEW t, Closed(t)
  PROVE  Closed(s \o t)
<1>1. PICK h : h = s \o t
  OBVIOUS
<1>2. Inside(h)
  BY <1>1, InsideConcat DEF Closed
<1>3. /\ IsSeq(h) /\ Len(s) \in Nat /\ Len(t) \in Nat /\ Len(h) = Len(s) + Len(t)
      /\ \A i \in 1 .. Len(s) : h[i] = s[i]
      /\ \A i \in 1 .. Len(t) : h[Len(s) + i] = t[i]
  BY <1>1, ConcatIsSeq DEF Closed, Inside
<1>4. ASSUME NEW n \in 1 .. Len(h), Enters(h[n])
      PROVE  \E m \in n + 1 .. Len(h) : Leaves(h[m])
  <2>1. CASE n <= Len(s)
    <3>1. n \in 1 .. Len(s) /\ h[n] = s[n]
      BY <2>1, <1>3
    <3>2. PICK m \in n + 1 .. Len(s) : Leaves(s[m])
      BY <3>1, <1>4 DEF Closed
    <3>3. m \in n + 1 .. Len(h) /\ h[m] = s[m]
      BY <1>3
    <3> QED BY <3>2, <3>3
  <2>2. CASE ~(n <= Len(s))
    <3>1. n - Len(s) \in 1 .. Len(t) /\ Len(s) + (n - Len(s)) = n
      BY <2>2, <1>3
    <3>2. h[n] = t[n - Len(s)]
      BY <3>1, <1>3
    <3>3. PICK m \in n - Len(s) + 1 .. Len(t) : Leaves(t[m])
      BY <3>1, <3>2, <1>4, Zenon DEF Closed
    <3>4. Len(s) + m \in n + 1 .. Len(h) /\ h[Len(s) + m] = t[m]
      BY <3>1, <1>3
    <3> QED BY <3>3, <3>4
  <2> QED BY <2>1, <2>2
<1> QED BY <1>1, <1>2, <1>4 DEF Closed

\* The gemm kernel enters HAB, turns HAB_PIM on and off for every tile, and
\* leaves HAB.
LEMMA GemmFramed ==
  ASSUME NEW j \in Jobs, IsGemm(j), NEW ch
  PROVE  \E mid : Closed(mid) /\ GemmKernel(j, ch) = Frame(mid)
<1> DEFINE tiles(i, r) == [o \in 1 .. OutTiles(j) |-> gemm_tile(j, ch, i - 1, r - 1, o - 1)]
           rows(i) == [r \in 1 .. j.inout_h |-> FlattenSeq(tiles(i, r))]
           iters == [i \in 1 .. IterCnt(j) |-> FlattenSeq(rows(i))]
           crf == << program_crf(make_crf_bin("GEMV", InTiles(j)), 1) >>
<1>1. \A i, r : Closed(FlattenSeq(tiles(i, r)))
  <2> TAKE i, r
  <2>1. PICK s : s = tiles(i, r)
    OBVIOUS
  <2>2. s = [o \in 1 .. OutTiles(j) |-> s[o]] /\ \A o \in 1 .. OutTiles(j) : Closed(s[o])
    BY <2>1, GemmTileClosed
  <2> QED BY <2>1, <2>2, GemmNumbers, ClosedFlatten
<1> HIDE DEF tiles
<1>2. \A i : Closed(FlattenSeq(rows(i)))
  <2> TAKE i
  <2>1. PICK s : s = rows(i)
    OBVIOUS
  <2>2. s = [r \in 1 .. j.inout_h |-> s[r]] /\ \A r \in 1 .. j.inout_h : Closed(s[r])
    BY <2>1, <1>1
  <2>3. PICK h \in Int : h = j.inout_h
    BY GemmNumbers
  <2>4. s = [r \in 1 .. h |-> s[r]] /\ \A r \in 1 .. h : Closed(s[r])
    BY <2>2, <2>3
  <2>5. Closed(FlattenSeq(s))
    BY <2>4, ClosedFlatten
  <2> QED BY <2>1, <2>5
<1> HIDE DEF rows
<1>3. Closed(FlattenSeq(iters))
  <2>1. PICK s : s = iters
    OBVIOUS
  <2>2. s = [i \in 1 .. IterCnt(j) |-> s[i]] /\ \A i \in 1 .. IterCnt(j) : Closed(s[i])
    BY <2>1, <1>2
  <2> QED BY <2>1, <2>2, GemmNumbers, ClosedFlatten
<1>4. Closed(crf)
  <2>1. Inside(crf)
    <3>1. WellFormed(make_crf_bin("GEMV", InTiles(j)))
      BY ProgramsWellFormed DEF Ops
    <3> QED BY <3>1, SetupInside, InsideTuples
  <2>2. Len(crf) = 1 /\ ~Enters(crf[1])
    BY DEF Enters, program_crf
  <2> QED BY <2>1, <2>2 DEF Closed
<1>5. GemmKernel(j, ch) = park \o change_sb_hab \o crf \o FlattenSeq(iters) \o change_hab_sb \o park
  BY Zenon DEF GemmKernel, iters, rows, tiles
<1> HIDE DEF crf, iters
<1>6. PICK A, F, C : A = park \o change_sb_hab /\ F = FlattenSeq(iters) /\ C = crf
  OBVIOUS
<1>7. IsSeq(A) /\ IsSeq(F) /\ IsSeq(C)
  BY <1>3, <1>4, <1>6, FrameSeqs, ConcatIsSeq DEF Closed, Inside
<1>8. (A \o C) \o F = A \o (C \o F)
  BY <1>7, ConcatAssoc
<1>9. GemmKernel(j, ch) = Frame(C \o F)
  BY <1>5, <1>6, <1>8, Zenon DEF Frame
<1>10. Closed(C \o F)
  BY <1>3, <1>4, <1>6, ClosedConcat
<1> QED BY <1>9, <1>10, Zenon

\* The windows of a kernel, by their numbers.
Framed(W) ==
  /\ IsSeq(W) /\ Len(W) \in Nat /\ Len(W) >= 7
  /\ W[1] = <<Reg("PARK")>> /\ W[Len(W)] = <<Reg("PARK")>>
  /\ \A n \in 1 .. 4 : W[n + 1] = <<[k |-> "AB", n |-> n, lanes |-> {0}]>>
  /\ W[Len(W) - 1] = <<[k |-> "SB", lanes |-> {0, 1}]>>
  /\ \A n \in 6 .. Len(W) - 2 :
       /\ Inner(W[n])
       /\ Enters(W[n]) => \E m \in n + 1 .. Len(W) - 2 : Leaves(W[m])

\* What a frame around such windows is, window by window.
LEMMA FrameFramed ==
  ASSUME NEW mid, Closed(mid)
  PROVE  Framed(Frame(mid))
<1>1. PICK p, c, d : p = park /\ c = change_sb_hab /\ d = change_hab_sb
  OBVIOUS
<1>2. /\ IsSeq(p) /\ Len(p) = 1 /\ p[1] = <<Reg("PARK")>>
      /\ IsSeq(c) /\ Len(c) = 4
      /\ \A n \in 1 .. 4 : c[n] = <<[k |-> "AB", n |-> n, lanes |-> {0}]>>
      /\ IsSeq(d) /\ Len(d) = 1 /\ d[1] = <<[k |-> "SB", lanes |-> {0, 1}]>>
  BY <1>1, FrameSeqs, Zenon
<1>3. IsSeq(mid) /\ Len(mid) \in Nat
  BY SeqIsSeq DEF Closed, Inside, IsSeq
<1>4. PICK a, b, e, W : a = p \o c /\ b = a \o mid /\ e = b \o d /\ W = e \o p
  OBVIOUS
<1>0. Joins(a, p, c)
  BY <1>2, <1>4, ConcatJoins
<1>5. /\ IsSeq(a) /\ Len(a) = 5
      /\ a[1] = <<Reg("PARK")>>
      /\ \A n \in 1 .. 4 : a[1 + n] = c[n]
  BY <1>0, <1>2 DEF Joins
<1>a. Joins(b, a, mid)
  BY <1>3, <1>4, <1>5, ConcatJoins
<1>6. /\ IsSeq(b) /\ Len(b) = 5 + Len(mid)
      /\ \A n \in 1 .. 5 : b[n] = a[n]
      /\ \A n \in 1 .. Len(mid) : b[5 + n] = mid[n]
  BY <1>a, <1>5 DEF Joins
<1>b. Joins(e, b, d)
  BY <1>2, <1>4, <1>6, ConcatJoins
<1>7. /\ IsSeq(e) /\ Len(e) = 6 + Len(mid)
      /\ \A n \in 1 .. Len(b) : e[n] = b[n]
      /\ e[Len(b) + 1] = d[1]
  <2>1. 1 \in 1 .. Len(d) /\ Len(b) + Len(d) = 6 + Len(mid)
    BY <1>2, <1>3, <1>6
  <2> QED BY <1>b, <2>1, Zenon DEF Joins
<1>c. Joins(W, e, p)
  BY <1>2, <1>4, <1>7, ConcatJoins
<1>8. /\ IsSeq(W) /\ Len(W) = 7 + Len(mid)
      /\ \A n \in 1 .. Len(e) : W[n] = e[n]
      /\ W[Len(e) + 1] = p[1]
  BY <1>c, <1>2, <1>3, <1>7 DEF Joins
<1>9. \A n \in 1 .. 5 : W[n] = a[n]
  BY <1>3, <1>6, <1>7, <1>8
<1>10. \A n \in 6 .. Len(W) - 2 : n - 5 \in 1 .. Len(mid) /\ W[n] = mid[n - 5]
  <2> TAKE n \in 6 .. Len(W) - 2
  <2>1. n - 5 \in 1 .. Len(mid) /\ 5 + (n - 5) = n /\ n \in 1 .. Len(b) /\ n \in 1 .. Len(e)
    BY <1>3, <1>6, <1>7, <1>8
  <2> QED BY <2>1, <1>6, <1>7, <1>8
<1>11. W[1] = <<Reg("PARK")>> /\ W[Len(W)] = <<Reg("PARK")>>
  BY <1>2, <1>3, <1>5, <1>7, <1>8, <1>9
<1>12. ASSUME NEW n \in 1 .. 4 PROVE W[n + 1] = <<[k |-> "AB", n |-> n, lanes |-> {0}]>>
  <2>1. n + 1 \in 1 .. 5 /\ a[n + 1] = c[n]
    BY <1>5
  <2>2. W[n + 1] = c[n]
    BY <2>1, <1>9
  <2> QED BY <2>2, <1>2
<1>13. W[Len(W) - 1] = <<[k |-> "SB", lanes |-> {0, 1}]>>
  <2>1. Len(W) - 1 = Len(b) + 1 /\ Len(b) + 1 \in 1 .. Len(e)
    BY <1>3, <1>6, <1>7, <1>8
  <2> QED BY <2>1, <1>2, <1>7, <1>8
<1>14. ASSUME NEW n \in 6 .. Len(W) - 2
       PROVE  /\ Inner(W[n])
              /\ Enters(W[n]) => \E m \in n + 1 .. Len(W) - 2 : Leaves(W[m])
  <2>1. n - 5 \in 1 .. Len(mid) /\ W[n] = mid[n - 5]
    BY <1>10
  <2>2. Inner(W[n])
    BY <2>1 DEF Closed, Inside
  <2>3. ASSUME Enters(W[n]) PROVE \E m \in n + 1 .. Len(W) - 2 : Leaves(W[m])
    <3>1. PICK q \in n - 5 + 1 .. Len(mid) : Leaves(mid[q])
      BY <2>1, <2>3, Zenon DEF Closed
    <3>2. q + 5 \in n + 1 .. Len(W) - 2 /\ (q + 5) - 5 = q
      BY <1>3, <1>8
    <3>3. q + 5 \in 6 .. Len(W) - 2
      BY <3>2
    <3>4. W[q + 5] = mid[q]
      BY <3>2, <3>3, <1>10
    <3> QED BY <3>1, <3>2, <3>4
  <2> QED BY <2>2, <2>3
<1>15. Framed(W)
  <2>1. Len(W) \in Nat /\ Len(W) >= 7
    BY <1>3, <1>8
  <2> QED BY <2>1, <1>8, <1>11, <1>12, <1>13, <1>14 DEF Framed
<1>16. Frame(mid) = W
  BY <1>1, <1>4, Zenon DEF Frame
<1> QED BY <1>15, <1>16

\* Every kernel of every job is framed.
LEMMA KernelsFramed ==
  ASSUME NEW j \in Jobs, NEW unit
  PROVE  Framed(Windows(j, unit))
<1>1. CASE IsGemm(j)
  <2>1. PICK mid : Closed(mid) /\ GemmKernel(j, unit[1]) = Frame(mid)
    BY <1>1, GemmFramed
  <2> QED BY <1>1, <2>1, FrameFramed DEF Windows
<1>2. CASE ~IsGemm(j)
  <2>1. PICK mid : Closed(mid) /\ EltKernel(j) = Frame(mid)
    BY <1>2, EltFramed
  <2> QED BY <1>2, <2>1, FrameFramed DEF Windows
<1> QED BY <1>1, <1>2

UnitFields == {"mode", "ab", "crf", "pc", "rep", "jump", "GRF_A", "GRF_B", "srf"}
SameMode(v, w) == DOMAIN w = UnitFields /\ w.mode = v.mode /\ w.ab = v.ab
SameControl(v, w) ==
  /\ SameMode(v, w)
  /\ w.crf = v.crf /\ w.pc = v.pc /\ w.rep = v.rep /\ w.jump = v.jump /\ w.srf = v.srf

\* A step of the program counter leaves the mode alone.
LEMMA InstructionKeepsMode ==
  ASSUME NEW v, DOMAIN v = UnitFields
  PROVE  SameMode(v, AfterInstruction(v)) /\ SameMode(v, Step(v))
<1>1. SameMode(v, AfterInstruction(v))
  BY DEF SameMode, UnitFields, AfterInstruction
<1>2. SameMode(v, Step(v))
  BY <1>1 DEF SameMode, UnitFields, Step
<1> QED BY <1>1, <1>2

\* What an instruction computes leaves mode, program and program counter alone.
LEMMA ComputeKeepsControl ==
  ASSUME NEW v, DOMAIN v = UnitFields, NEW c, NEW data, NEW ins
  PROVE  SameControl(v, Compute(v, c, data, ins))
<1>1. \A a, b : SameControl(v, [v EXCEPT !.GRF_A = a, !.GRF_B = b])
  BY DEF SameControl, SameMode, UnitFields
<1>2. \A b : SameControl(v, [v EXCEPT !.GRF_B = b])
  BY DEF SameControl, SameMode, UnitFields
<1>3. SameControl(v, v)
  BY DEF SameControl, SameMode
<1> DEFINE val(src) == Operand(v, c, data, src)
           put(file, x) == IF ins.dst = file THEN [v[file] EXCEPT ![Col(c)] = x] ELSE v[file]
           set(x) == [v EXCEPT !.GRF_A = put("GRF_A", x), !.GRF_B = put("GRF_B", x)]
           acc == [v EXCEPT !.GRF_B[High(c)] = Accumulate(@, val(ins.src0), val(ins.src1))]
           regs == [v EXCEPT !.GRF_A = Regs, !.GRF_B = Regs]
<1>4. SameControl(v, acc) /\ SameControl(v, regs) /\ \A x : SameControl(v, set(x))
  <2> HIDE DEF put, val
  <2> QED BY <1>1, <1>2
<1>5. Compute(v, c, data, ins) =
        CASE ins.type = "FILL" ->
             set(IF ins.is_relu = 1 THEN <<"RELU", val(ins.src0)>> ELSE val(ins.src0))
        [] ins.type \in {"ADD", "MUL"} -> set(<<ins.type, val(ins.src0), val(ins.src1)>>)
        [] ins.type = "MAD" ->
             set(IF v.srf THEN <<"MAD", val(ins.src0), ins.src1_idx>> ELSE Garbage)
        [] ins.type = "MAC" -> acc
        [] ins.type = "?" -> regs
        [] OTHER -> v
  BY Zenon DEF Compute
<1> HIDE DEF set, acc, regs, val
<1> QED BY <1>3, <1>4, <1>5

\* So does any access of a bank.
LEMMA BankKeepsMode ==
  ASSUME NEW v, DOMAIN v = UnitFields, NEW c, NEW data
  PROVE  SameMode(v, AfterBank(v, c, data))
<1>1. PICK w : w = Compute(v, c, IF c.k = "R" THEN data ELSE Garbage, Fetch(v))
  OBVIOUS
<1>2. SameMode(v, w) /\ SameMode(w, Step(w))
  BY <1>1, ComputeKeepsControl, InstructionKeepsMode DEF SameControl, SameMode
<1>3. AfterBank(v, c, data) = IF v.mode # "HAB_PIM" THEN v ELSE Step(w)
  BY <1>1, Zenon DEF AfterBank
<1> QED BY <1>2, <1>3 DEF SameMode

\* What a write to a register does to the mode.
LEMMA RegisterModes ==
  ASSUME NEW v, DOMAIN v = UnitFields, NEW i, NEW lane, NEW w, w = AfterRegister(v, i, lane)
  PROVE  /\ DOMAIN w = UnitFields
         /\ i.k = "PARK" => w.mode = v.mode /\ w.ab = v.ab
         /\ i.k = "AB" /\ v.mode = "SB" /\ v.ab = i.n - 1 =>
              w.ab = i.n /\ w.mode = IF i.n = 4 THEN "HAB" ELSE "SB"
         /\ i.k = "SB" /\ v.mode = "HAB" => w.mode = "SB" /\ w.ab = 0
         /\ i.k = "SB" /\ v.mode = "SB" => w.mode = "SB" /\ w.ab = v.ab
         /\ i.k = "HAB" /\ v.mode # "SB" => w.mode = "HAB"
         /\ i.k = "HAB_PIM" /\ v.mode # "SB" => w.mode = "HAB_PIM"
         /\ i.k \notin {"AB", "SB", "HAB", "HAB_PIM"} => w.mode = v.mode
<1> DEFINE crf == [n \in DOMAIN v.crf \cup Column(i.words, lane) |->
                     IF n \in Column(i.words, lane) THEN i.words[n] ELSE v.crf[n]]
           clear == IF i.clear THEN [n \in DOMAIN v.GRF_B |-> NoProducts] ELSE v.GRF_B
<1>1. CASE v.mode = "SB" /\ i.k \notin {"AB", "SB", "PARK"}
  BY <1>1 DEF AfterRegister
<1>2. CASE ~(v.mode = "SB" /\ i.k \notin {"AB", "SB", "PARK"})
  <2>1. CASE i.k = "AB"
    BY <1>2, <2>1 DEF AfterRegister, UnitFields
  <2>2. CASE i.k = "SB"
    BY <1>2, <2>2 DEF AfterRegister, UnitFields
  <2>3. CASE i.k = "HAB_PIM"
    <3>1. w = [v EXCEPT !.mode = "HAB_PIM", !.pc = 0, !.rep = 0, !.jump = NoJump, !.GRF_B = clear]
      BY <1>2, <2>3 DEF AfterRegister
    <3> HIDE DEF clear
    <3> QED BY <2>3, <3>1 DEF UnitFields
  <2>4. CASE i.k = "HAB"
    BY <1>2, <2>4 DEF AfterRegister, UnitFields
  <2>5. CASE i.k = "CRF"
    <3>1. w = [v EXCEPT !.crf = crf]
      BY <1>2, <2>5 DEF AfterRegister
    <3> HIDE DEF crf
    <3> QED BY <2>5, <3>1 DEF UnitFields
  <2>6. CASE i.k = "SRF"
    BY <1>2, <2>6 DEF AfterRegister, UnitFields
  <2>7. CASE i.k = "GRF"
    BY <1>2, <2>7 DEF AfterRegister, UnitFields
  <2>8. CASE i.k \notin {"AB", "SB", "HAB_PIM", "HAB", "CRF", "SRF", "GRF"}
    BY <1>2, <2>8 DEF AfterRegister
  <2> QED BY <2>1, <2>2, <2>3, <2>4, <2>5, <2>6, <2>7, <2>8
<1> QED BY <1>1, <1>2

-----------------------------------------------------------------------------
(* The mode in each window.                                                *)

\* The mode mode and the count ab of a unit while the kernel W is in window w:
\* HAB is reached with the fifth window and left in the last but one, and
\* HAB_PIM is on only if a window to come turns it off.
ModeAt(W, w, mode, ab) ==
  /\ mode \in {"SB", "HAB", "HAB_PIM"}
  /\ w \in {1, Len(W), Len(W) + 1} => mode = "SB" /\ ab = 0
  /\ w \in 2 .. 5 => mode = "SB" /\ ab = w - 2
  /\ w \in 6 .. Len(W) - 2 =>
       mode # "SB" /\ (mode = "HAB_PIM" => \E m \in w .. Len(W) - 2 : Leaves(W[m]))
  /\ w = Len(W) - 1 => mode = "HAB" \/ (mode = "SB" /\ ab = 0)

\* The accesses of window w that are to come.
PendingAt(W, w, accesses, todo) ==
  /\ w \in 1 .. Len(W) + 1
  /\ w = Len(W) + 1 => todo = {}
  /\ w <= Len(W) => /\ accesses = W[w] /\ todo # {}
                    /\ \A p \in todo : p[1] \in DOMAIN W[w] /\ p[2] \in W[w][p[1]].lanes
                                       /\ p = <<p[1], p[2]>>

ModeInv ==
  /\ stage \in {"idle", "convert", "run", "done"}
  /\ stage \in {"convert", "run"} => job \in Jobs
  /\ DOMAIN u = UnitFields
  /\ stage # "run" => u.mode = "SB" /\ u.ab = 0
  /\ stage = "run" => /\ ModeAt(Windows(job, at), window, u.mode, u.ab)
                      /\ PendingAt(Windows(job, at), window, code, pending)

\* The effect of one access i of window w on the mode of unit v.
Effect(v, i, new) ==
  \/ i.k \in {"R", "W"} /\ SameMode(v, new)
  \/ i.k \notin {"R", "W"} /\ \E lane : new = AfterRegister(v, i, lane)

\* An access leaves the mode right for its window, and for the next one if it was
\* the last of its window.
LEMMA AccessMode ==
  ASSUME NEW W, Framed(W), NEW w \in 1 .. Len(W), NEW v, DOMAIN v = UnitFields,
         ModeAt(W, w, v.mode, v.ab),
         NEW n \in DOMAIN W[w], NEW new, Effect(v, W[w][n], new)
  PROVE  /\ DOMAIN new = UnitFields
         /\ w \notin 2 .. 5 => ModeAt(W, w, new.mode, new.ab)
         /\ ModeAt(W, w + 1, new.mode, new.ab)
<1>0. Len(W) \in Nat /\ Len(W) >= 7
  BY DEF Framed
<1>1. PICK i : i = W[w][n]
  OBVIOUS
<1>2. /\ DOMAIN new = UnitFields
      /\ i.k \in {"PARK", "R", "W"} => new.mode = v.mode /\ new.ab = v.ab
      /\ i.k = "AB" /\ v.mode = "SB" /\ v.ab = i.n - 1 =>
           new.ab = i.n /\ new.mode = IF i.n = 4 THEN "HAB" ELSE "SB"
      /\ i.k = "SB" /\ v.mode = "HAB" => new.mode = "SB" /\ new.ab = 0
      /\ i.k = "SB" /\ v.mode = "SB" => new.mode = "SB" /\ new.ab = v.ab
      /\ i.k = "HAB" /\ v.mode # "SB" => new.mode = "HAB"
      /\ i.k = "HAB_PIM" /\ v.mode # "SB" => new.mode = "HAB_PIM"
      /\ i.k \notin {"AB", "SB", "HAB", "HAB_PIM"} => new.mode = v.mode
  <2>1. CASE i.k \in {"R", "W"} /\ SameMode(v, new)
    BY <2>1 DEF SameMode
  <2>2. CASE i.k \notin {"R", "W"} /\ \E lane : new = AfterRegister(v, i, lane)
    <3>1. PICK lane : new = AfterRegister(v, i, lane)
      BY <2>2
    <3> QED BY <2>2, <3>1, RegisterModes
  <2> QED BY <1>1, <2>1, <2>2 DEF Effect
<1>3. CASE w = 1 \/ w = Len(W)
  <2>1. i.k = "PARK"
    BY <1>1, <1>3 DEF Framed, Reg
  <2>2. new.mode = "SB" /\ new.ab = 0
    BY <2>1, <1>2, <1>3 DEF ModeAt
  <2> QED BY <1>0, <1>2, <1>3, <2>2 DEF ModeAt
<1>4. CASE w \in 2 .. 5
  <2>1. PICK m \in 1 .. 4 : w = m + 1
    <3>1. w - 1 \in 1 .. 4 /\ w = (w - 1) + 1
      BY <1>4
    <3> QED BY <3>1
  <2>2. W[w] = <<[k |-> "AB", n |-> m, lanes |-> {0}]>>
    BY <2>1 DEF Framed
  <2>3. i.k = "AB" /\ i.n = m
    BY <1>1, <2>2
  <2>4. v.mode = "SB" /\ v.ab = m - 1
    BY <1>4, <2>1 DEF ModeAt
  <2>5. new.ab = m /\ new.mode = IF m = 4 THEN "HAB" ELSE "SB"
    BY <1>2, <2>3, <2>4
  <2> QED BY <1>0, <1>2, <1>4, <2>1, <2>5 DEF ModeAt
<1>5. CASE w \in 6 .. Len(W) - 2
  <2>1. Inner(W[w]) /\ (Enters(W[w]) => \E m \in w + 1 .. Len(W) - 2 : Leaves(W[m]))
    BY <1>5 DEF Framed
  <2>2. i.k \notin {"AB", "SB"} /\ v.mode # "SB"
    BY <1>1, <1>5, <2>1 DEF Inner, ModeAt
  <2>3. new.mode \in {"HAB", "HAB_PIM"}
    BY <1>2, <2>2 DEF ModeAt
  <2>4. ASSUME new.mode = "HAB_PIM" PROVE \E m \in w + 1 .. Len(W) - 2 : Leaves(W[m])
    <3>1. CASE i.k = "HAB_PIM"
      BY <3>1, <1>1, <2>1 DEF Enters
    <3>2. CASE i.k # "HAB_PIM"
      <4>1. i.k # "HAB" /\ v.mode = "HAB_PIM"
        BY <3>2, <1>2, <2>2, <2>4
      <4>2. PICK m \in w .. Len(W) - 2 : Leaves(W[m])
        BY <4>1, <1>5 DEF ModeAt
      <4>3. m # w
        BY <4>1, <4>2, <1>1 DEF Leaves
      <4>4. m \in w + 1 .. Len(W) - 2
        BY <4>3, <1>0
      <4> QED BY <4>2, <4>4
    <3> QED BY <3>1, <3>2
  <2>5. new.mode = "HAB_PIM" => \E m \in w .. Len(W) - 2 : Leaves(W[m])
    BY <2>4, <1>0
  <2>6. w + 1 = Len(W) - 1 => new.mode = "HAB"
    BY <2>3, <2>4, <1>0
  <2> QED BY <1>0, <1>2, <1>5, <2>3, <2>4, <2>5, <2>6 DEF ModeAt
<1>6. CASE w = Len(W) - 1
  <2>1. i.k = "SB"
    BY <1>1, <1>6 DEF Framed
  <2>2. new.mode = "SB" /\ new.ab = 0
    BY <2>1, <1>2, <1>6 DEF ModeAt
  <2>3. w \notin 2 .. 5 /\ w \notin 6 .. Len(W) - 2 /\ w + 1 = Len(W)
    BY <1>0, <1>6
  <2>4. ModeAt(W, w, new.mode, new.ab)
    BY <1>0, <1>6, <2>2, <2>3 DEF ModeAt
  <2>5. ModeAt(W, Len(W), new.mode, new.ab)
    <3>1. PICK l \in Nat : l = Len(W) /\ l >= 7
      BY <1>0
    <3>2. l \notin 2 .. 5 /\ l \notin 6 .. l - 2 /\ l # l - 1
      BY <3>1
    <3>3. "SB" \in {"SB", "HAB", "HAB_PIM"}
      OBVIOUS
    <3> QED BY <2>2, <3>1, <3>2, <3>3, Zenon DEF ModeAt
  <2> QED BY <1>2, <2>3, <2>4, <2>5
<1>7. w = 1 \/ w = Len(W) \/ w \in 2 .. 5 \/ w \in 6 .. Len(W) - 2 \/ w = Len(W) - 1
  BY <1>0
<1> QED BY <1>3, <1>4, <1>5, <1>6, <1>7

Accesses(c) == UNION {{<<n, lane>> : lane \in c[n].lanes} : n \in DOMAIN c}

\* The only access of a window of one.
LEMMA OneAccess ==
  ASSUME NEW c, NEW a, c = <<a>>, NEW l, l \in a.lanes
  PROVE  1 \in DOMAIN c /\ l \in c[1].lanes
OBVIOUS

\* No window of a kernel is without accesses.
LEMMA EnterPending ==
  ASSUME NEW W, Framed(W), NEW w \in 1 .. Len(W) + 1, NEW c, NEW todo,
         c = IF w <= Len(W) THEN W[w] ELSE << >>,
         todo = Accesses(c)
  PROVE  PendingAt(W, w, c, todo)
<1>0. Len(W) \in Nat /\ Len(W) >= 7
  BY DEF Framed
<1>1. CASE w = Len(W) + 1
  BY <1>0, <1>1 DEF PendingAt, Accesses
<1>2. CASE w <= Len(W)
  <2>1. c = W[w]
    BY <1>2
  <2>2. \E n \in DOMAIN c : c[n].lanes # {}
    <3>1. CASE w = 1 \/ w = Len(W)
      <4>1. c = <<[k |-> "PARK", lanes |-> {0}]>>
        BY <2>1, <3>1 DEF Framed, Reg
      <4>2. 1 \in DOMAIN c /\ 0 \in c[1].lanes
        BY <4>1, OneAccess
      <4> QED BY <4>2
    <3>2. CASE w \in 2 .. 5
      <4>1. PICK m \in 1 .. 4 : w = m + 1
        <5>1. w - 1 \in 1 .. 4 /\ w = (w - 1) + 1
          BY <3>2
        <5> QED BY <5>1
      <4>2. c = <<[k |-> "AB", n |-> m, lanes |-> {0}]>>
        BY <2>1, <4>1 DEF Framed
      <4>3. 1 \in DOMAIN c /\ 0 \in c[1].lanes
        <5>1. PICK a : a = [k |-> "AB", n |-> m, lanes |-> {0}]
          OBVIOUS
        <5>2. c = <<a>> /\ 0 \in a.lanes
          BY <4>2, <5>1
        <5> QED BY <5>2, OneAccess
      <4> QED BY <4>3
    <3>3. CASE w \in 6 .. Len(W) - 2
      BY <2>1, <3>3 DEF Framed, Inner
    <3>4. CASE w = Len(W) - 1
      <4>1. c = <<[k |-> "SB", lanes |-> {0, 1}]>>
        BY <2>1, <3>4 DEF Framed
      <4>2. 1 \in DOMAIN c /\ 0 \in c[1].lanes
        BY <4>1, OneAccess
      <4> QED BY <4>2
    <3> QED BY <3>1, <3>2, <3>3, <3>4, <1>0, <1>2
  <2>3. todo # {}
    <3>1. PICK n \in DOMAIN c : c[n].lanes # {}
      BY <2>2
    <3>2. PICK l : l \in c[n].lanes
      BY <3>1
    <3>3. <<n, l>> \in todo
      BY <3>2 DEF Accesses
    <3> QED BY <3>3
  <2>4. \A p \in todo : p[1] \in DOMAIN c /\ p[2] \in c[p[1]].lanes /\ p = <<p[1], p[2]>>
    BY DEF Accesses
  <2> QED BY <1>0, <1>2, <2>1, <2>3, <2>4 DEF PendingAt
<1> QED BY <1>0, <1>1, <1>2

\* Before its first window a framed kernel finds the memory in SB.
LEMMA StartMode ==
  ASSUME NEW W, Framed(W)
  PROVE  ModeAt(W, 1, "SB", 0)
<1>1. 1 \notin 2 .. 5 /\ 1 \notin 6 .. Len(W) - 2 /\ 1 # Len(W) - 1
  BY DEF Framed
<1> QED BY <1>1 DEF ModeAt

\* Run keeps ModeInv.
LEMMA RunMode ==
  ASSUME ModeInv, stage # "run", NEW j \in Jobs, Run(j)
  PROVE  ModeInv'
<1>1. PICK W : W = Windows(j, at')
  OBVIOUS
<1>2. Framed(W)
  BY <1>1, KernelsFramed
<1>3. u' = u /\ stage' = "run" /\ job' = j /\ window' = 1
  BY DEF Run, Enter
<1>4. /\ code' = IF 1 <= Len(W) THEN W[1] ELSE << >>
      /\ pending' = Accesses(code')
  BY <1>1 DEF Run, Enter, Accesses
<1>5. PendingAt(W, 1, code', pending')
  <2>1. 1 \in 1 .. Len(W) + 1
    BY <1>2 DEF Framed
  <2> QED BY <1>2, <1>4, <2>1, EnterPending
<1>6. ModeAt(W, 1, u.mode, u.ab)
  BY <1>2, StartMode DEF ModeInv
<1> QED BY <1>1, <1>3, <1>5, <1>6 DEF ModeInv

\* Access keeps ModeInv.
LEMMA AccessKeepsMode ==
  ASSUME ModeInv, Access
  PROVE  ModeInv'
<1>0. PICK W : W = Windows(job, at)
  OBVIOUS
<1>1. /\ Framed(W) /\ job \in Jobs /\ stage = "run" /\ DOMAIN u = UnitFields
      /\ ModeAt(W, window, u.mode, u.ab) /\ PendingAt(W, window, code, pending)
  BY <1>0, KernelsFramed DEF ModeInv, Access
<1>2. window \in 1 .. Len(W) /\ code = W[window] /\ Len(W) \in Nat
  BY <1>1 DEF Access, PendingAt, Framed
<1>3. PICK p \in Ready :
        /\ IF code[p[1]].k \in {"R", "W"}
             THEN \E c, d : u' = AfterBank(u, c, d)
             ELSE u' = AfterRegister(u, code[p[1]], p[2])
        /\ IF pending = {p} THEN Enter(window + 1, W)
           ELSE pending' = pending \ {p} /\ UNCHANGED <<window, code>>
  BY <1>0, Zenon DEF Access
<1>4. p \in pending /\ p[1] \in DOMAIN W[window] /\ p[2] \in W[window][p[1]].lanes /\ p = <<p[1], p[2]>>
  BY <1>1, <1>2, <1>3 DEF Ready, PendingAt
<1>5. Effect(u, W[window][p[1]], u')
  BY <1>1, <1>2, <1>3, BankKeepsMode DEF Effect
<1>6. /\ DOMAIN u' = UnitFields
      /\ window \notin 2 .. 5 => ModeAt(W, window, u'.mode, u'.ab)
      /\ ModeAt(W, window + 1, u'.mode, u'.ab)
  BY <1>1, <1>2, <1>4, <1>5, AccessMode
<1>7. stage' = stage /\ job' = job /\ at' = at
  BY DEF Access
<1>8. CASE pending = {p}
  <2>1. /\ window' = window + 1
        /\ code' = IF window + 1 <= Len(W) THEN W[window + 1] ELSE << >>
        /\ pending' = Accesses(code')
    BY <1>3, <1>8 DEF Enter, Accesses
  <2>2. window + 1 \in 1 .. Len(W) + 1
    BY <1>2
  <2>3. PendingAt(W, window + 1, code', pending')
    BY <1>1, <2>1, <2>2, EnterPending
  <2> QED BY <1>0, <1>1, <1>6, <1>7, <2>1, <2>3 DEF ModeInv
<1>9. CASE pending # {p}
  <2>1. pending' = pending \ {p} /\ window' = window /\ code' = code
    BY <1>3, <1>9
  <2>2. window \notin 2 .. 5
    <3> SUFFICES ASSUME window \in 2 .. 5 PROVE pending = {p}
      BY <1>9
    <3>1. PICK m \in 1 .. 4 : window = m + 1
      <4>1. window - 1 \in 1 .. 4 /\ window = (window - 1) + 1
        OBVIOUS
      <4> QED BY <4>1
    <3>2. W[window] = <<[k |-> "AB", n |-> m, lanes |-> {0}]>>
      BY <1>1, <3>1 DEF Framed
    <3>3. DOMAIN W[window] = {1} /\ W[window][1].lanes = {0}
      BY <3>2
    <3>4. \A q \in pending : q = <<1, 0>>
      <4> TAKE q \in pending
      <4>1. q[1] \in DOMAIN W[window] /\ q[2] \in W[window][q[1]].lanes /\ q = <<q[1], q[2]>>
        BY <1>1, <1>2 DEF PendingAt
      <4> QED BY <3>3, <4>1
    <3> QED BY <1>4, <3>4
  <2>3. PendingAt(W, window, code', pending')
    BY <1>1, <1>2, <1>4, <1>9, <2>1 DEF PendingAt
  <2> QED BY <1>0, <1>1, <1>6, <1>7, <2>1, <2>2, <2>3 DEF ModeInv
<1> QED BY <1>8, <1>9

\* The end of a kernel is after its last window.
LEMMA FinishKeepsMode ==
  ASSUME ModeInv, Finish
  PROVE  ModeInv'
<1>0. PICK W : W = Windows(job, at)
  OBVIOUS
<1>1. Framed(W) /\ ModeAt(W, window, u.mode, u.ab) /\ PendingAt(W, window, code, pending)
  BY <1>0, KernelsFramed DEF ModeInv, Finish
<1>2. window = Len(W) + 1
  BY <1>1 DEF Finish, PendingAt, Framed
<1>3. u.mode = "SB" /\ u.ab = 0
  BY <1>1, <1>2 DEF ModeAt
<1>4. stage' = "done" /\ u' = u
  BY DEF Finish
<1> QED BY <1>3, <1>4 DEF ModeInv

\* Between two calls the memory is in the mode hosts use (change_hab_sb has
\* undone change_sb_hab, and no access of a kernel came after it): for every job,
\* every number of tiles, channels and registers, and every order in which the
\* memory takes the accesses of a window.
THEOREM ModeRestored == Spec => []Restored
<1>1. Init => ModeInv
  BY DEF Init, ModeInv, UnitInit, UnitFields
<1>2. ModeInv /\ [Next]_vars => ModeInv'
  <2> SUFFICES ASSUME ModeInv, [Next]_vars PROVE ModeInv'
    OBVIOUS
  <2>1. ASSUME NEW j \in Jobs, LaunchElt(j) PROVE ModeInv'
    BY <2>1, RunMode DEF LaunchElt
  <2>2. ASSUME NEW j \in Jobs, ConvertWeight(j) PROVE ModeInv'
    BY <2>2 DEF ConvertWeight, ModeInv
  <2>3. CASE Converting
    BY <2>3 DEF Converting, ModeInv
  <2>4. CASE LaunchGemm
    BY <2>4, RunMode DEF LaunchGemm, ModeInv
  <2>5. CASE Access
    BY <2>5, AccessKeepsMode
  <2>6. CASE Finish
    BY <2>6, FinishKeepsMode
  <2>7. CASE Return
    BY <2>7 DEF Return, ModeInv, UnitInit, UnitFields
  <2>8. CASE UNCHANGED vars
    BY <2>8 DEF vars, ModeInv
  <2> QED BY <2>1, <2>2, <2>3, <2>4, <2>5, <2>6, <2>7, <2>8 DEF Next
<1>3. ModeInv => Restored
  BY DEF ModeInv, Restored
<1> QED BY <1>1, <1>2, <1>3, PTL DEF Spec

-----------------------------------------------------------------------------
(* Where the items of a weight go.                                         *)

\* Pairs of banks in a group, and units of all channels.
BgUnits == BanksPerBg \div 2
AllParts == NumPimBlocks * NumChan

\* The numbers of banks and units that the code divides to get.
LEMMA Geometry ==
  /\ {NumGrf, NumChan, NumBg, BgUnits, NumPimBlocks, AllParts, OutTile} \subseteq Nat \ {0}
  /\ BanksPerBg = 2 * BgUnits
  /\ NumPimBlocks = NumBg * BgUnits /\ NumBanks = 2 * NumPimBlocks
  /\ NumBanks \div NumPimBlocks = 2 /\ NumBanks \div NumBg = 2 * BgUnits
  /\ NumPimBlocks \div NumBg = BgUnits
  /\ OutTile = AllParts * NumGrf
<1>1. /\ {NumGrf, NumChan, NumBg, BgUnits} \subseteq Nat \ {0} /\ BanksPerBg = 2 * BgUnits
  BY GeometryAssumption DEF BgUnits
<1>2. PICK U \in Nat \ {0} : U = NumBg * BgUnits
  BY <1>1
<1>3. NumBanks = 2 * U
  BY <1>1, <1>2 DEF NumBanks
<1>4. NumPimBlocks = U
  BY <1>3 DEF NumPimBlocks
<1>5. NumBanks \div NumPimBlocks = 2
  BY <1>3, <1>4, DivUnique
<1>6. NumBanks \div NumBg = 2 * BgUnits
  <2>1. NumBanks = (2 * BgUnits) * NumBg + 0
    BY <1>1, <1>2, <1>3
  <2> QED BY <2>1, <1>1, DivUnique
<1>7. NumPimBlocks \div NumBg = BgUnits
  <2>1. NumPimBlocks = BgUnits * NumBg + 0
    BY <1>1, <1>2, <1>4
  <2> QED BY <2>1, <1>1, DivUnique
<1>8. AllParts \in Nat \ {0} /\ OutTile = AllParts * NumGrf /\ OutTile \in Nat \ {0}
  BY <1>1, <1>4 DEF AllParts, OutTile
<1> QED BY <1>1, <1>2, <1>3, <1>4, <1>5, <1>6, <1>7, <1>8

\* Weights in whole tiles: an even number of input tiles, and whole tiles of
\* outputs unless the layout is by channels.
WholeTiles(s) ==
  /\ {s.nc, s.out, s.in_cnt} \subseteq Nat \ {0}
  /\ s.in_cnt % (2 * NumGrf) = 0
  /\ check_chwise_gemm_bo(s) \/ s.out % OutTile = 0

\* Pairs of input tiles, and tiles of outputs in an iteration.
TilePairs(s) == s.in_cnt \div (2 * NumGrf)
OutParts(s) == OutCnt(s) \div OutTile

\* The tiles of a weight: an iteration has whole tiles of inputs and outputs,
\* and by channels the matrices of an iteration make one tile of outputs.
LEMMA Shape ==
  ASSUME NEW s, WholeTiles(s)
  PROVE  /\ TilePairs(s) \in Nat \ {0} /\ OutParts(s) \in Nat \ {0} /\ Iterations(s) \in Nat \ {0}
         /\ s.in_cnt = (2 * TilePairs(s)) * NumGrf
         /\ OutCnt(s) = OutParts(s) * OutTile
         /\ check_chwise_gemm_bo(s) => OutParts(s) = 1 /\ s.nc * s.out = Iterations(s) * OutTile
         /\ ~check_chwise_gemm_bo(s) => s.out = OutParts(s) * OutTile /\ s.nc = Iterations(s)
<1>0. PICK n \in Nat, o \in Nat, i \in Nat : n = s.nc /\ o = s.out /\ i = s.in_cnt /\ n > 0 /\ o > 0 /\ i > 0
  BY DEF WholeTiles
<1>1. PICK G \in Nat \ {0}, T \in Nat \ {0} : G = NumGrf /\ T = OutTile
  BY Geometry
<1>2. TilePairs(s) \in Nat \ {0} /\ i = (2 * TilePairs(s)) * G
  <2>1. i % (2 * G) = 0 /\ 2 * G \in Nat \ {0}
    BY <1>0, <1>1 DEF WholeTiles
  <2>2. PICK q \in Nat : q = i \div (2 * G) /\ i = q * (2 * G) /\ q > 0
    BY <2>1, <1>0, DivExact
  <2>3. q = TilePairs(s)
    BY <2>2, <1>0, <1>1 DEF TilePairs
  <2>4. i = (2 * q) * G
    BY <2>2
  <2> QED BY <2>2, <2>3, <2>4
<1>3. CASE check_chwise_gemm_bo(s)
  <2>1. PICK no \in Nat : no = n * o /\ no % T = 0 /\ no > 0
    BY <1>0, <1>1, <1>3 DEF check_chwise_gemm_bo
  <2>2. OutCnt(s) = T /\ Iterations(s) = no \div T
    BY <1>0, <1>1, <1>3, <2>1 DEF OutCnt, Iterations
  <2>3. OutParts(s) = 1
    BY <2>2, <1>1 DEF OutParts
  <2>4. no = (no \div T) * T + (no % T) /\ no \div T \in Nat
    BY <1>1, DivMod
  <2>5. no = Iterations(s) * T /\ Iterations(s) # 0
    BY <2>1, <2>2, <2>4
  <2> QED BY <1>0, <1>1, <1>2, <1>3, <2>1, <2>2, <2>3, <2>4, <2>5
<1>4. CASE ~check_chwise_gemm_bo(s)
  <2>1. o % T = 0 /\ OutCnt(s) = o /\ Iterations(s) = n
    BY <1>0, <1>1, <1>4 DEF WholeTiles, OutCnt, Iterations
  <2>2. PICK q \in Nat : q = o \div T /\ o = q * T /\ q > 0
    BY <2>1, <1>0, <1>1, DivExact
  <2>3. OutParts(s) = q
    BY <2>1, <2>2, <1>1 DEF OutParts
  <2>4. OutCnt(s) = OutParts(s) * OutTile /\ s.out = OutParts(s) * OutTile
    BY <1>0, <1>1, <2>1, <2>2, <2>3, Zenon
  <2>5. s.in_cnt = (2 * TilePairs(s)) * NumGrf
    BY <1>0, <1>1, <1>2, Zenon
  <2>6. OutParts(s) \in Nat \ {0} /\ Iterations(s) \in Nat \ {0} /\ s.nc = Iterations(s)
    <3>1. q \in Nat \ {0} /\ n \in Nat \ {0}
      BY <1>0, <2>2
    <3> QED BY <3>1, <1>0, <2>1, <2>3
  <2> QED BY <1>2, <1>4, <2>4, <2>5, <2>6
<1> QED BY <1>3, <1>4

\* The counters of a conversion on the host, as one record.
Counters(s, iter, y, x, ty, bank, bg, cidx, start) ==
  [pc |-> "host", s |-> s, iter |-> iter, y |-> y, x |-> x, tiled_y |-> ty,
   bank |-> bank, bg |-> bg, cidx |-> cidx, start |-> start]

\* A unit's part of a tile: the iteration, the tile of outputs, of inputs, the
\* channel, the group and the pair of banks.
Parts(s) == [it : 0 .. Iterations(s) - 1, yt : 0 .. OutParts(s) - 1,
             xt : 0 .. 2 * TilePairs(s) - 1,
             ch : 0 .. NumChan - 1, g : 0 .. NumBg - 1, h : 0 .. BgUnits - 1]

\* The number of the unit.
Unit(p) == (p.ch * NumBg + p.g) * BgUnits + p.h

\* Where tiles of parity q start, at tile xt of the inputs and yt of the outputs,
\* with X pairs of tiles of inputs and W items of a unit in a tile.
StartAt(X, W, yt, xt, q) == (yt * X + ((xt + 1 - q) \div 2)) * W
Starts(s, p) == [q \in 0 .. 1 |-> StartAt(TilePairs(s), NumGrf * NumGrf, p.yt, p.xt, q)]

\* The counters at part p.
At(s, p) ==
  Counters(s, p.it, p.yt * OutTile, p.xt * NumGrf, Unit(p) * NumGrf,
           2 * p.h, p.g, p.ch, Starts(s, p))

Part(it, yt, xt, ch, g, h) == [it |-> it, yt |-> yt, xt |-> xt, ch |-> ch, g |-> g, h |-> h]

\* The order of the parts.
Precedes(p, q) ==
  \/ p.it < q.it
  \/ p.it = q.it /\ p.yt < q.yt
  \/ p.it = q.it /\ p.yt = q.yt /\ p.xt < q.xt
  \/ p.it = q.it /\ p.yt = q.yt /\ p.xt = q.xt /\ Unit(p) < Unit(q)

\* Part q is the one after part p.
Follows(s, q, p) ==
  \A r \in Parts(s) : Precedes(r, q) <=> Precedes(r, p) \/ r = p

\* Units have different numbers.
LEMMA UnitUnique ==
  ASSUME NEW s, NEW p \in Parts(s), NEW q \in Parts(s), Unit(p) = Unit(q)
  PROVE  p.ch = q.ch /\ p.g = q.g /\ p.h = q.h
<1>1. /\ {p.ch, q.ch} \subseteq 0 .. NumChan - 1 /\ {p.g, q.g} \subseteq 0 .. NumBg - 1
      /\ {p.h, q.h} \subseteq 0 .. BgUnits - 1
  BY DEF Parts
<1>2. PICK B \in Nat \ {0}, H \in Nat \ {0} : B = NumBg /\ H = BgUnits
  BY Geometry
<1>3. PICK v \in Int, w \in Int : v = p.ch * B + p.g /\ w = q.ch * B + q.g
  BY <1>1, <1>2, Geometry
<1>4. v * H + p.h = w * H + q.h
  BY <1>2, <1>3 DEF Unit
<1>5. v = w /\ p.h = q.h
  BY <1>1, <1>2, <1>4, DigitsUnique
<1>6. p.ch * B + p.g = q.ch * B + q.g
  BY <1>3, <1>5
<1>7. PICK c \in Int, d \in Int, e \in 0 .. B - 1, f \in 0 .. B - 1 :
        c = p.ch /\ d = q.ch /\ e = p.g /\ f = q.g
  BY <1>1, <1>2
<1>8. c = d /\ e = f
  <2>1. c * B + e = d * B + f
    BY <1>6, <1>7, Zenon
  <2> QED BY <2>1, DigitsUnique
<1> QED BY <1>5, <1>7, <1>8

\* And the numbers are those below AllParts.
LEMMA UnitBound ==
  ASSUME NEW s, NEW p \in Parts(s)
  PROVE  Unit(p) \in 0 .. AllParts - 1
<1>1. p.ch \in 0 .. NumChan - 1 /\ p.g \in 0 .. NumBg - 1 /\ p.h \in 0 .. BgUnits - 1
  BY DEF Parts
<1>2. PICK B \in Nat \ {0}, H \in Nat \ {0}, C \in Nat \ {0} : B = NumBg /\ H = BgUnits /\ C = NumChan
  BY Geometry
<1>3. p.ch * B + p.g \in 0 .. C * B - 1
  BY <1>1, <1>2, DigitsBound
<1>4. PICK v \in Nat, D \in Nat : v = p.ch * B + p.g /\ D = C * B /\ v \in 0 .. D - 1
  BY <1>2, <1>3
<1>5. v * H + p.h \in 0 .. D * H - 1
  BY <1>1, <1>2, <1>4, DigitsBound
<1>6. AllParts = D * H
  <2>1. AllParts = (B * H) * C
    BY <1>2, Geometry DEF AllParts
  <2> QED BY <2>1, <1>2, <1>4
<1> QED BY <1>2, <1>4, <1>5, <1>6 DEF Unit

\* The numbers of Geometry, one by one.
LEMMA Positive ==
  /\ NumGrf \in Nat \ {0} /\ NumChan \in Nat \ {0} /\ NumBg \in Nat \ {0}
  /\ BgUnits \in Nat \ {0} /\ NumPimBlocks \in Nat \ {0} /\ AllParts \in Nat \ {0}
  /\ OutTile \in Nat \ {0}
BY Geometry

\* A number of three digits, the last below H and the one before below B.
Digits(B, H, d, e, b) == (d * B + e) * H + b

\* The next number, with its carries.
Carried(B, H, C, d, e, b, N) ==
  /\ b + 1 < H => N + 1 = Digits(B, H, d, e, b + 1) /\ N + 1 < (C * B) * H
  /\ b + 1 = H /\ e + 1 < B => N + 1 = Digits(B, H, d, e + 1, 0) /\ N + 1 < (C * B) * H
  /\ b + 1 = H /\ e + 1 = B /\ d + 1 < C =>
       N + 1 = Digits(B, H, d + 1, 0, 0) /\ N + 1 < (C * B) * H
  /\ b + 1 = H /\ e + 1 = B /\ d + 1 = C => N + 1 = (C * B) * H

\* That is what adding one does.
LEMMA Carries ==
  ASSUME NEW B \in Nat \ {0}, NEW H \in Nat \ {0}, NEW C \in Nat \ {0},
         NEW b \in 0 .. H - 1, NEW e \in 0 .. B - 1, NEW d \in 0 .. C - 1,
         NEW N, N = Digits(B, H, d, e, b)
  PROVE  Carried(B, H, C, d, e, b, N)
<1>1. PICK v \in Int, D \in Nat : v = d * B + e /\ D = C * B
  OBVIOUS
<1>2. v \in 0 .. D - 1
  <2>1. d * B + e \in 0 .. C * B - 1
    BY DigitsBound
  <2> QED BY <1>1, <2>1
<1>3. N = v * H + b
  BY <1>1 DEF Digits
<1>4. b + 1 < H => N + 1 = v * H + (b + 1) /\ v * H + (b + 1) \in 0 .. D * H - 1
  <2> SUFFICES ASSUME b + 1 < H PROVE N + 1 = v * H + (b + 1) /\ v * H + (b + 1) \in 0 .. D * H - 1
    OBVIOUS
  <2>1. PICK c \in 0 .. H - 1 : c = b + 1
    OBVIOUS
  <2>2. v * H + c \in 0 .. D * H - 1
    BY <1>2, DigitsBound
  <2>3. v * H \in Int
    OBVIOUS
  <2> QED BY <2>1, <2>2, <2>3, <1>3
<1>5. b + 1 = H => N + 1 = (v + 1) * H
  BY <1>3
<1>6. v + 1 < D => (v + 1) * H < D * H
  OBVIOUS
<1>7. /\ e + 1 < B => v + 1 = d * B + (e + 1) /\ v + 1 < D
      /\ e + 1 = B => v + 1 = (d + 1) * B
  <2>1. d * B \in Int /\ (d + 1) * B = d * B + B
    OBVIOUS
  <2>2. e + 1 < B => d * B + (e + 1) \in 0 .. C * B - 1
    <3> SUFFICES ASSUME e + 1 < B PROVE d * B + (e + 1) \in 0 .. C * B - 1
      OBVIOUS
    <3>1. PICK f \in 0 .. B - 1 : f = e + 1
      OBVIOUS
    <3>2. d * B + f \in 0 .. C * B - 1
      BY DigitsBound
    <3> QED BY <3>1, <3>2
  <2> QED BY <1>1, <2>1, <2>2
<1>8. /\ e + 1 = B /\ d + 1 < C => v + 1 < D
      /\ e + 1 = B /\ d + 1 = C => v + 1 = D
  <2>1. d + 1 < C => (d + 1) * B < C * B
    OBVIOUS
  <2> QED BY <1>1, <1>7, <2>1
<1>9. b + 1 < H => N + 1 = Digits(B, H, d, e, b + 1) /\ N + 1 < (C * B) * H
  BY <1>1, <1>4 DEF Digits
<1>10. b + 1 = H /\ e + 1 < B => N + 1 = Digits(B, H, d, e + 1, 0) /\ N + 1 < (C * B) * H
  <2>1. Digits(B, H, d, e + 1, 0) = (d * B + (e + 1)) * H
    BY DEF Digits
  <2> QED BY <1>1, <1>5, <1>6, <1>7, <2>1
<1>11. b + 1 = H /\ e + 1 = B /\ d + 1 < C => N + 1 = Digits(B, H, d + 1, 0, 0) /\ N + 1 < (C * B) * H
  <2>1. Digits(B, H, d + 1, 0, 0) = ((d + 1) * B) * H
    BY DEF Digits
  <2> QED BY <1>1, <1>5, <1>6, <1>7, <1>8, <2>1
<1>12. b + 1 = H /\ e + 1 = B /\ d + 1 = C => N + 1 = (C * B) * H
  BY <1>1, <1>5, <1>8
<1> QED BY <1>9, <1>10, <1>11, <1>12, Zenon DEF Carried

-----------------------------------------------------------------------------
(* The counters from part to part.                                         *)

\* The pair of banks, the group and the channel of the next unit.
NextH(h) == IF h + 1 < BgUnits THEN h + 1 ELSE 0
NextG(h, g) == IF h + 1 < BgUnits THEN g ELSE IF g + 1 < NumBg THEN g + 1 ELSE 0
NextCh(h, g, ch) ==
  IF h + 1 < BgUnits \/ g + 1 < NumBg THEN ch ELSE IF ch + 1 < NumChan THEN ch + 1 ELSE 0

\* NextBank takes the counters to the next unit.
LEMMA NextBankAt ==
  ASSUME NEW s, NEW iter, NEW y, NEW x, NEW ty, NEW start,
         NEW h \in 0 .. BgUnits - 1, NEW g \in 0 .. NumBg - 1, NEW ch \in 0 .. NumChan - 1
  PROVE  NextBank(Counters(s, iter, y, x, ty, 2 * h, g, ch, start))
           = Counters(s, iter, y, x, ty, 2 * NextH(h), NextG(h, g), NextCh(h, g, ch), start)
<1>1. PICK H \in Nat \ {0}, B \in Nat \ {0}, C \in Nat \ {0} : H = BgUnits /\ B = NumBg /\ C = NumChan
  BY Positive
<1>2. NumBanks \div NumPimBlocks = 2 /\ NumBanks \div NumBg = 2 * H
  BY <1>1, Geometry
<1>3. PICK c : c = Counters(s, iter, y, x, ty, 2 * h, g, ch, start)
  OBVIOUS
<1>4. c.bank = 2 * h /\ c.bg = g /\ c.cidx = ch
  BY <1>3 DEF Counters
<1>5. NextBank(c) = [c EXCEPT !.bank = 2 * NextH(h), !.bg = NextG(h, g), !.cidx = NextCh(h, g, ch)]
  <2>1. h \in Int /\ g \in Int /\ ch \in Int /\ h < H /\ g < B /\ ch < C
    BY <1>1
  <2>2. (2 * h + 2 >= 2 * H) <=> ~(h + 1 < H)
    BY <2>1
  <2>3. NextBank(c) =
          LET bank == 2 * h + 2
              bg   == IF bank >= 2 * H THEN g + 1 ELSE g
              cidx == IF bg >= B THEN ch + 1 ELSE ch
          IN  [c EXCEPT !.bank = IF bank >= 2 * H THEN 0 ELSE bank,
                        !.bg = IF bg >= B THEN 0 ELSE bg,
                        !.cidx = IF cidx >= C THEN 0 ELSE cidx]
    BY <1>1, <1>2, <1>4, Zenon DEF NextBank
  <2>4. (IF 2 * h + 2 >= 2 * H THEN 0 ELSE 2 * h + 2) = 2 * NextH(h)
    BY <1>1, <2>1 DEF NextH
  <2>5. PICK bg \in Int : bg = IF 2 * h + 2 >= 2 * H THEN g + 1 ELSE g
    BY <2>1
  <2>6. (IF bg >= B THEN 0 ELSE bg) = NextG(h, g)
    BY <1>1, <2>1, <2>2, <2>5 DEF NextG
  <2>7. PICK cidx \in Int : cidx = IF bg >= B THEN ch + 1 ELSE ch
    BY <2>1
  <2>8. (IF cidx >= C THEN 0 ELSE cidx) = NextCh(h, g, ch)
    BY <1>1, <2>1, <2>2, <2>5, <2>7 DEF NextCh
  <2>9. NextBank(c) = [c EXCEPT !.bank = IF 2 * h + 2 >= 2 * H THEN 0 ELSE 2 * h + 2,
                        !.bg = IF bg >= B THEN 0 ELSE bg,
                        !.cidx = IF cidx >= C THEN 0 ELSE cidx]
    BY <2>3, <2>5, <2>7, Zenon
  <2> QED BY <2>4, <2>6, <2>8, <2>9, Zenon
<1> QED BY <1>3, <1>5 DEF Counters

\* The next unit has the next number, and is number 0 after the last one.
NextNumber(h, g, ch, n) ==
  /\ NextH(h) \in 0 .. BgUnits - 1 /\ NextG(h, g) \in 0 .. NumBg - 1
  /\ NextCh(h, g, ch) \in 0 .. NumChan - 1
  /\ n \in Nat
  /\ n + 1 < AllParts => /\ ~(NextH(h) = 0 /\ NextG(h, g) = 0 /\ NextCh(h, g, ch) = 0)
                         /\ (NextCh(h, g, ch) * NumBg + NextG(h, g)) * BgUnits + NextH(h) = n + 1
  /\ ~(n + 1 < AllParts) => /\ n + 1 = AllParts
                            /\ NextH(h) = 0 /\ NextG(h, g) = 0 /\ NextCh(h, g, ch) = 0

\* So NextBank counts the units.
LEMMA NextUnit ==
  ASSUME NEW h \in 0 .. BgUnits - 1, NEW g \in 0 .. NumBg - 1, NEW ch \in 0 .. NumChan - 1,
         NEW n, n = (ch * NumBg + g) * BgUnits + h
  PROVE  NextNumber(h, g, ch, n)
<1>1. PICK H \in Nat \ {0}, B \in Nat \ {0}, C \in Nat \ {0} : H = BgUnits /\ B = NumBg /\ C = NumChan
  BY Positive
<1>2. n = Digits(B, H, ch, g, h)
  BY <1>1 DEF Digits
<1>3. AllParts = (C * B) * H
  <2>1. AllParts = (B * H) * C
    BY <1>1, Geometry DEF AllParts
  <2> QED BY <2>1, <1>1
<1>4. h \in 0 .. H - 1 /\ g \in 0 .. B - 1 /\ ch \in 0 .. C - 1
  BY <1>1
<1>5. /\ h + 1 < H => n + 1 = Digits(B, H, ch, g, h + 1) /\ n + 1 < AllParts
      /\ h + 1 = H /\ g + 1 < B => n + 1 = Digits(B, H, ch, g + 1, 0) /\ n + 1 < AllParts
      /\ h + 1 = H /\ g + 1 = B /\ ch + 1 < C => n + 1 = Digits(B, H, ch + 1, 0, 0) /\ n + 1 < AllParts
      /\ h + 1 = H /\ g + 1 = B /\ ch + 1 = C => n + 1 = AllParts
  <2>1. Carried(B, H, C, ch, g, h, n)
    BY <1>2, <1>4, Carries
  <2> QED BY <1>3, <2>1, Zenon DEF Carried
<1>6. n \in Nat /\ AllParts \in Nat
  <2>1. ch * B + g \in Nat
    BY <1>4
  <2> QED BY <1>1, <1>4, <2>1, Positive
<1>7. /\ (NextCh(h, g, ch) * NumBg + NextG(h, g)) * BgUnits + NextH(h)
           = Digits(B, H, NextCh(h, g, ch), NextG(h, g), NextH(h))
  BY <1>1 DEF Digits
<1>8. CASE h + 1 < H
  <2>1. NextH(h) = h + 1 /\ NextG(h, g) = g /\ NextCh(h, g, ch) = ch
    BY <1>1, <1>8 DEF NextH, NextG, NextCh
  <2>2. Digits(B, H, NextCh(h, g, ch), NextG(h, g), NextH(h)) = n + 1 /\ n + 1 < AllParts
    BY <2>1, <1>5, <1>8, Zenon
  <2>3. h + 1 # 0 /\ h + 1 \in 0 .. H - 1
    BY <1>4, <1>8
  <2> QED BY <1>1, <1>4, <1>6, <1>7, <2>1, <2>2, <2>3 DEF NextNumber
<1>9. CASE h + 1 = H /\ g + 1 < B
  <2>1. NextH(h) = 0 /\ NextG(h, g) = g + 1 /\ NextCh(h, g, ch) = ch
    BY <1>1, <1>4, <1>9 DEF NextH, NextG, NextCh
  <2>2. Digits(B, H, NextCh(h, g, ch), NextG(h, g), NextH(h)) = n + 1 /\ n + 1 < AllParts
    BY <2>1, <1>5, <1>9, Zenon
  <2>3. g + 1 # 0 /\ g + 1 \in 0 .. B - 1 /\ 0 \in 0 .. H - 1
    BY <1>4, <1>9
  <2> QED BY <1>1, <1>4, <1>6, <1>7, <2>1, <2>2, <2>3 DEF NextNumber
<1>10. CASE h + 1 = H /\ g + 1 = B /\ ch + 1 < C
  <2>1. NextH(h) = 0 /\ NextG(h, g) = 0 /\ NextCh(h, g, ch) = ch + 1
    BY <1>1, <1>4, <1>10 DEF NextH, NextG, NextCh
  <2>2. Digits(B, H, NextCh(h, g, ch), NextG(h, g), NextH(h)) = n + 1 /\ n + 1 < AllParts
    BY <2>1, <1>5, <1>10, Zenon
  <2>3. ch + 1 # 0 /\ ch + 1 \in 0 .. C - 1 /\ 0 \in 0 .. H - 1 /\ 0 \in 0 .. B - 1
    BY <1>4, <1>10
  <2> QED BY <1>1, <1>4, <1>6, <1>7, <2>1, <2>2, <2>3 DEF NextNumber
<1>11. CASE h + 1 = H /\ g + 1 = B /\ ch + 1 = C
  <2>1. NextH(h) = 0 /\ NextG(h, g) = 0 /\ NextCh(h, g, ch) = 0
    BY <1>1, <1>4, <1>11 DEF NextH, NextG, NextCh
  <2>2. n + 1 = AllParts
    BY <1>5, <1>11
  <2>3. 0 \in 0 .. C - 1 /\ 0 \in 0 .. H - 1 /\ 0 \in 0 .. B - 1
    BY <1>4
  <2> QED BY <1>1, <1>4, <1>6, <2>1, <2>2, <2>3 DEF NextNumber
<1> QED BY <1>4, <1>8, <1>9, <1>10, <1>11

\* The start of one parity moves on with every tile of inputs, and both are
\* where the next tile of outputs starts after the last one.
StartMoves(X, W, yt, xt, q) ==
  /\ q = xt % 2 => StartAt(X, W, yt, xt + 1, q) = StartAt(X, W, yt, xt, q) + W
  /\ q # xt % 2 => StartAt(X, W, yt, xt + 1, q) = StartAt(X, W, yt, xt, q)
  /\ StartAt(X, W, yt, 2 * X, q) = StartAt(X, W, yt + 1, 0, q)
  /\ StartAt(X, W, 0, 0, q) = 0
  /\ StartAt(X, W, yt, xt, xt % 2) = (yt * X + (xt \div 2)) * W

\* So it is for all numbers of tiles.
LEMMA StartsMove ==
  ASSUME NEW X \in Nat \ {0}, NEW W \in Nat, NEW yt \in Nat, NEW xt \in Nat, NEW q \in 0 .. 1
  PROVE  StartMoves(X, W, yt, xt, q)
<1>1. /\ q = xt % 2 => (xt + 1 + 1 - q) \div 2 = ((xt + 1 - q) \div 2) + 1
      /\ q # xt % 2 => (xt + 1 + 1 - q) \div 2 = (xt + 1 - q) \div 2
      /\ (2 * X + 1 - q) \div 2 = X /\ (0 + 1 - q) \div 2 = 0
      /\ (xt + 1 - (xt % 2)) \div 2 = xt \div 2
  OBVIOUS
<1>2. PICK a \in Int, m \in Int : a = (xt + 1 - q) \div 2 /\ m = yt * X
  OBVIOUS
<1>3. (m + (a + 1)) * W = (m + a) * W + W
  OBVIOUS
<1>4. (yt + 1) * X = m + X /\ 0 * X = 0
  BY <1>2
<1>5. q = xt % 2 => StartAt(X, W, yt, xt + 1, q) = StartAt(X, W, yt, xt, q) + W
  BY <1>1, <1>2, <1>3 DEF StartAt
<1>6. q # xt % 2 => StartAt(X, W, yt, xt + 1, q) = StartAt(X, W, yt, xt, q)
  BY <1>1 DEF StartAt
<1>7. StartAt(X, W, yt, 2 * X, q) = StartAt(X, W, yt + 1, 0, q)
  <2>1. StartAt(X, W, yt, 2 * X, q) = (m + X) * W
    BY <1>1, <1>2 DEF StartAt
  <2>2. StartAt(X, W, yt + 1, 0, q) = (m + X + 0) * W
    BY <1>1, <1>4 DEF StartAt
  <2> QED BY <2>1, <2>2
<1>8. StartAt(X, W, 0, 0, q) = 0
  BY <1>1, <1>4 DEF StartAt
<1>9. StartAt(X, W, yt, xt, xt % 2) = (yt * X + (xt \div 2)) * W
  BY <1>1 DEF StartAt
<1> QED BY <1>5, <1>6, <1>7, <1>8, <1>9, Zenon DEF StartMoves

\* The fields of a part.
LEMMA PartFields ==
  ASSUME NEW s, NEW p \in Parts(s)
  PROVE  /\ p = Part(p.it, p.yt, p.xt, p.ch, p.g, p.h)
         /\ p.it \in 0 .. Iterations(s) - 1 /\ p.yt \in 0 .. OutParts(s) - 1
         /\ p.xt \in 0 .. 2 * TilePairs(s) - 1
         /\ p.ch \in 0 .. NumChan - 1 /\ p.g \in 0 .. NumBg - 1 /\ p.h \in 0 .. BgUnits - 1
BY DEF Parts, Part

\* A part is a part of the weight, with the fields it was made of.
LEMMA PartIn ==
  ASSUME NEW s, NEW it \in 0 .. Iterations(s) - 1, NEW yt \in 0 .. OutParts(s) - 1,
         NEW xt \in 0 .. 2 * TilePairs(s) - 1,
         NEW ch \in 0 .. NumChan - 1, NEW g \in 0 .. NumBg - 1, NEW h \in 0 .. BgUnits - 1
  PROVE  LET p == Part(it, yt, xt, ch, g, h)
         IN  /\ p \in Parts(s) /\ p.it = it /\ p.yt = yt /\ p.xt = xt /\ p.ch = ch /\ p.g = g /\ p.h = h
             /\ Unit(p) = (ch * NumBg + g) * BgUnits + h
BY Zenon DEF Parts, Part, Unit

\* The counters at a part, field by field.
LEMMA AtFields ==
  ASSUME NEW s, NEW p
  PROVE  /\ At(s, p).pc = "host" /\ At(s, p).s = s /\ At(s, p).iter = p.it
         /\ At(s, p).y = p.yt * OutTile /\ At(s, p).x = p.xt * NumGrf
         /\ At(s, p).tiled_y = Unit(p) * NumGrf
         /\ At(s, p).bank = 2 * p.h /\ At(s, p).bg = p.g /\ At(s, p).cidx = p.ch
         /\ At(s, p).start = Starts(s, p)
BY Zenon DEF At, Counters

\* The parity of the tile of inputs, as the code computes it.
LEMMA Parity ==
  ASSUME NEW xt \in Nat
  PROVE  (xt * NumGrf) \div NumGrf = xt /\ ((xt * NumGrf) \div NumGrf) % 2 = xt % 2
<1>1. PICK G \in Nat \ {0} : G = NumGrf
  BY Positive
<1>2. (xt * G) \div G = xt
  <2>1. xt * G = xt * G + 0
    OBVIOUS
  <2> QED BY <2>1, DivUnique
<1> QED BY <1>1, <1>2

\* NextStart moves the start of this parity on after the last unit only.
LEMMA NextStartAt ==
  ASSUME NEW s, NEW p \in Parts(s), TilePairs(s) \in Nat \ {0}
  PROVE  NextStart(At(s, p)) =
           Counters(s, p.it, p.yt * OutTile, p.xt * NumGrf, Unit(p) * NumGrf, 2 * p.h, p.g, p.ch,
             IF Unit(p) + 1 < AllParts THEN Starts(s, p)
             ELSE [Starts(s, p) EXCEPT ![p.xt % 2] = @ + NumGrf * NumGrf])
<1>1. /\ p.xt \in Nat
      /\ p.h \in 0 .. BgUnits - 1 /\ p.g \in 0 .. NumBg - 1 /\ p.ch \in 0 .. NumChan - 1
  BY PartFields
<1>2. PICK c : c = At(s, p)
  OBVIOUS
<1>3. NextBank(c) = Counters(s, p.it, p.yt * OutTile, p.xt * NumGrf, Unit(p) * NumGrf,
                     2 * NextH(p.h), NextG(p.h, p.g), NextCh(p.h, p.g, p.ch), Starts(s, p))
  <2>1. c = Counters(s, p.it, p.yt * OutTile, p.xt * NumGrf, Unit(p) * NumGrf,
                     2 * p.h, p.g, p.ch, Starts(s, p))
    BY <1>2 DEF At
  <2> QED BY <1>1, <2>1, NextBankAt
<1>4. /\ NextBank(c).bank = 2 * NextH(p.h) /\ NextBank(c).bg = NextG(p.h, p.g)
      /\ NextBank(c).cidx = NextCh(p.h, p.g, p.ch)
  BY <1>3 DEF Counters
<1>5. (c.x \div NumGrf) % 2 = p.xt % 2
  BY <1>1, <1>2, AtFields, Parity
<1>5a. NextNumber(p.h, p.g, p.ch, Unit(p))
  BY <1>1, NextUnit DEF Unit
<1>6. NextH(p.h) \in Int /\ (NextBank(c).bank = 0 <=> NextH(p.h) = 0)
  BY <1>4, <1>5a DEF NextNumber
<1>7. (NextBank(c).bank = 0 /\ NextBank(c).bg = 0 /\ NextBank(c).cidx = 0) <=> ~(Unit(p) + 1 < AllParts)
  BY <1>4, <1>5a, <1>6, Zenon DEF NextNumber
<1>8. NextStart(c) = IF Unit(p) + 1 < AllParts THEN c
                     ELSE [c EXCEPT !.start[p.xt % 2] = @ + NumGrf * NumGrf]
  BY <1>5, <1>7, Zenon DEF NextStart
<1>9. c = Counters(s, p.it, p.yt * OutTile, p.xt * NumGrf, Unit(p) * NumGrf,
                   2 * p.h, p.g, p.ch, Starts(s, p))
  BY <1>2 DEF At
<1>10. [c EXCEPT !.start[p.xt % 2] = @ + NumGrf * NumGrf]
         = Counters(s, p.it, p.yt * OutTile, p.xt * NumGrf, Unit(p) * NumGrf, 2 * p.h, p.g, p.ch,
             [Starts(s, p) EXCEPT ![p.xt % 2] = @ + NumGrf * NumGrf])
  BY <1>9 DEF Counters
<1> QED BY <1>2, <1>8, <1>9, <1>10, Zenon

\* Products compare as their factors.
LEMMA MulLess ==
  ASSUME NEW n \in Nat \ {0}, NEW a \in Int, NEW b \in Int
  PROVE  a * n < b * n <=> a < b
OBVIOUS

\* The counters with those of the loops changed.
LoopsChanged(n, ty, x, y) == [n EXCEPT !.tiled_y = ty, !.x = x, !.y = y]

\* The counters when no tile, no tile of outputs or no matrix ends.
LEMMA AdvanceCases ==
  ASSUME NEW s, WholeTiles(s), NEW p \in Parts(s),
         NEW n, n = NextBank(NextStart(At(s, p)))
  PROVE  /\ Unit(p) + 1 < AllParts =>
              Advance(At(s, p)) = LoopsChanged(n, (Unit(p) + 1) * NumGrf, p.xt * NumGrf, p.yt * OutTile)
         /\ ~(Unit(p) + 1 < AllParts) /\ p.xt + 1 < 2 * TilePairs(s) =>
              Advance(At(s, p)) = LoopsChanged(n, 0, (p.xt + 1) * NumGrf, p.yt * OutTile)
         /\ ~(Unit(p) + 1 < AllParts) /\ ~(p.xt + 1 < 2 * TilePairs(s)) /\ p.yt + 1 < OutParts(s) =>
              Advance(At(s, p)) = LoopsChanged(n, 0, 0, (p.yt + 1) * OutTile)
         /\ ~(Unit(p) + 1 < AllParts) /\ ~(p.xt + 1 < 2 * TilePairs(s)) /\ ~(p.yt + 1 < OutParts(s)) =>
              Advance(At(s, p)) = IF p.it + 1 < Iterations(s) THEN [Begin(s) EXCEPT !.iter = p.it + 1]
                                  ELSE [pc |-> "converted", s |-> s]
<1>1. PICK c : c = At(s, p)
  OBVIOUS
<1>2. PICK ty : ty = c.tiled_y + NumGrf
  OBVIOUS
<1>3. PICK x : x = IF ty < OutTile THEN c.x ELSE c.x + NumGrf
  OBVIOUS
<1>4. PICK y : y = IF x < c.s.in_cnt THEN c.y ELSE c.y + OutTile
  OBVIOUS
<1>5. PICK iter : iter = IF y < OutCnt(c.s) THEN c.iter ELSE c.iter + 1
  OBVIOUS
<1>6. Advance(c) = IF iter = c.iter
                     THEN [n EXCEPT !.tiled_y = IF ty < OutTile THEN ty ELSE 0,
                                    !.x = IF x < c.s.in_cnt THEN x ELSE 0,
                                    !.y = IF y < OutCnt(c.s) THEN y ELSE 0]
                     ELSE IF iter < Iterations(c.s) THEN [Begin(c.s) EXCEPT !.iter = iter]
                     ELSE [pc |-> "converted", s |-> c.s]
  BY <1>1, <1>2, <1>3, <1>4, <1>5, Zenon DEF Advance
<1>7. PICK G \in Nat \ {0}, A \in Nat \ {0}, T \in Nat \ {0} : G = NumGrf /\ A = AllParts /\ T = OutTile
  BY Positive
<1>8. PICK X \in Nat \ {0}, Y \in Nat \ {0} : X = TilePairs(s) /\ Y = OutParts(s)
  BY Shape
<1>9. T = A * G /\ s.in_cnt = (2 * X) * G /\ OutCnt(s) = Y * T
  BY <1>7, <1>8, Geometry, Shape
<1>10. PICK un \in Nat, xt \in Nat, yt \in Nat, it \in Nat :
         un = Unit(p) /\ xt = p.xt /\ yt = p.yt /\ it = p.it /\ xt < 2 * X /\ yt < Y
  BY <1>8, UnitBound, PartFields
<1>11. c.s = s /\ c.iter = it /\ c.y = yt * T /\ c.x = xt * G /\ ty = (un + 1) * G
  <2>1. c.s = s /\ c.iter = it /\ c.y = yt * T /\ c.x = xt * G /\ c.tiled_y = un * G
    BY <1>1, <1>7, <1>10, AtFields
  <2>2. un * G + G = (un + 1) * G
    OBVIOUS
  <2> QED BY <2>1, <2>2, <1>2, <1>7
<1>12. /\ ty < OutTile <=> un + 1 < A
       /\ xt * G < s.in_cnt /\ (xt * G + G < s.in_cnt <=> xt + 1 < 2 * X)
       /\ yt * T < OutCnt(s) /\ (yt * T + T < OutCnt(s) <=> yt + 1 < Y)
       /\ xt * G + G = (xt + 1) * G /\ yt * T + T = (yt + 1) * T
  <2>1. (un + 1) * G < A * G <=> un + 1 < A
    BY MulLess
  <2>2. xt * G < (2 * X) * G /\ ((xt + 1) * G < (2 * X) * G <=> xt + 1 < 2 * X)
    BY <1>10, MulLess
  <2>3. yt * T < Y * T /\ ((yt + 1) * T < Y * T <=> yt + 1 < Y)
    BY <1>10, MulLess
  <2>4. xt * G + G = (xt + 1) * G /\ yt * T + T = (yt + 1) * T
    OBVIOUS
  <2> QED BY <1>7, <1>9, <1>11, <2>1, <2>2, <2>3, <2>4
<1>13. it + 1 # it
  OBVIOUS
<1>14. CASE un + 1 < A
  <2>1. ty < OutTile /\ x = xt * G
    BY <1>3, <1>11, <1>12, <1>14, Zenon
  <2>2. x < c.s.in_cnt /\ y = yt * T
    BY <1>4, <1>11, <1>12, <2>1, Zenon
  <2>3. y < OutCnt(c.s) /\ iter = c.iter
    BY <1>5, <1>11, <1>12, <2>2, Zenon
  <2>4. Advance(c) = LoopsChanged(n, ty, x, y)
    BY <1>6, <2>1, <2>2, <2>3, Zenon DEF LoopsChanged
  <2> QED BY <1>1, <1>7, <1>10, <1>11, <1>14, <2>1, <2>2, <2>4, Zenon
<1>15. CASE ~(un + 1 < A) /\ xt + 1 < 2 * X
  <2>1. ~(ty < OutTile) /\ x = (xt + 1) * G
    BY <1>3, <1>7, <1>11, <1>12, <1>15, Zenon
  <2>2. x < c.s.in_cnt /\ y = yt * T
    BY <1>4, <1>11, <1>12, <1>15, <2>1, Zenon
  <2>3. y < OutCnt(c.s) /\ iter = c.iter
    BY <1>5, <1>11, <1>12, <2>2, Zenon
  <2>4. Advance(c) = LoopsChanged(n, 0, x, y)
    BY <1>6, <2>1, <2>2, <2>3, Zenon DEF LoopsChanged
  <2> QED BY <1>1, <1>7, <1>8, <1>10, <1>11, <1>15, <2>1, <2>2, <2>4, Zenon
<1>16. CASE ~(un + 1 < A) /\ ~(xt + 1 < 2 * X) /\ yt + 1 < Y
  <2>1. ~(ty < OutTile) /\ x = (xt + 1) * G
    BY <1>3, <1>7, <1>11, <1>12, <1>16, Zenon
  <2>2. ~(x < c.s.in_cnt) /\ y = (yt + 1) * T
    BY <1>4, <1>7, <1>11, <1>12, <1>16, <2>1, Zenon
  <2>3. y < OutCnt(c.s) /\ iter = c.iter
    BY <1>5, <1>11, <1>12, <1>16, <2>2, Zenon
  <2>4. Advance(c) = LoopsChanged(n, 0, 0, y)
    BY <1>6, <2>1, <2>2, <2>3, Zenon DEF LoopsChanged
  <2> QED BY <1>1, <1>7, <1>8, <1>10, <1>11, <1>16, <2>2, <2>4, Zenon
<1>17. CASE ~(un + 1 < A) /\ ~(xt + 1 < 2 * X) /\ ~(yt + 1 < Y)
  <2>1. ~(ty < OutTile) /\ x = (xt + 1) * G
    BY <1>3, <1>7, <1>11, <1>12, <1>17, Zenon
  <2>2. ~(x < c.s.in_cnt) /\ y = (yt + 1) * T
    BY <1>4, <1>7, <1>11, <1>12, <1>17, <2>1, Zenon
  <2>3. ~(y < OutCnt(c.s)) /\ iter = it + 1
    BY <1>5, <1>11, <1>12, <1>17, <2>2, Zenon
  <2>4. iter # c.iter
    BY <1>11, <1>13, <2>3, Zenon
  <2>5. Advance(c) = IF it + 1 < Iterations(s) THEN [Begin(s) EXCEPT !.iter = it + 1]
                     ELSE [pc |-> "converted", s |-> s]
    BY <1>6, <1>11, <2>3, <2>4, Zenon
  <2> QED BY <1>1, <1>7, <1>8, <1>10, <1>17, <2>5, Zenon
<1>18. \/ un + 1 < A
       \/ ~(un + 1 < A) /\ xt + 1 < 2 * X
       \/ ~(un + 1 < A) /\ ~(xt + 1 < 2 * X) /\ yt + 1 < Y
       \/ ~(un + 1 < A) /\ ~(xt + 1 < 2 * X) /\ ~(yt + 1 < Y)
  OBVIOUS
<1> QED BY <1>14, <1>15, <1>16, <1>17, <1>18, Zenon

\* They stay the counters they are.
LEMMA AtNext ==
  ASSUME NEW s, NEW ty, NEW iter, NEW x, NEW y, NEW start, NEW b, NEW g, NEW ch,
         NEW ty1, NEW x1, NEW y1
  PROVE  LoopsChanged(Counters(s, iter, y1, x1, ty1, b, g, ch, start), ty, x, y)
           = Counters(s, iter, y, x, ty, b, g, ch, start)
<1>0. PICK n : n = Counters(s, iter, y1, x1, ty1, b, g, ch, start)
  OBVIOUS
<1>1. PICK m : m = [n EXCEPT !.tiled_y = ty]
  OBVIOUS
<1>2. PICK k : k = [m EXCEPT !.x = x]
  OBVIOUS
<1>3. m = Counters(s, iter, y1, x1, ty, b, g, ch, start)
  BY <1>0, <1>1 DEF Counters
<1>4. k = Counters(s, iter, y1, x, ty, b, g, ch, start)
  BY <1>2, <1>3 DEF Counters
<1>5. [k EXCEPT !.y = y] = Counters(s, iter, y, x, ty, b, g, ch, start)
  BY <1>4 DEF Counters
<1> QED BY <1>0, <1>1, <1>2, <1>5, Zenon DEF LoopsChanged

\* Successors in the order: the next unit, or the first one of the next tile of
\* inputs, of outputs, or of the next iteration.
LEMMA FollowsCases ==
  ASSUME NEW s, WholeTiles(s), NEW p \in Parts(s), NEW q \in Parts(s),
         \/ q.it = p.it /\ q.yt = p.yt /\ q.xt = p.xt /\ Unit(q) = Unit(p) + 1
         \/ /\ Unit(p) + 1 = AllParts /\ Unit(q) = 0
            /\ \/ q.it = p.it /\ q.yt = p.yt /\ q.xt = p.xt + 1
               \/ p.xt + 1 = 2 * TilePairs(s) /\ q.xt = 0 /\ q.it = p.it /\ q.yt = p.yt + 1
               \/ /\ p.xt + 1 = 2 * TilePairs(s) /\ q.xt = 0
                  /\ p.yt + 1 = OutParts(s) /\ q.yt = 0 /\ q.it = p.it + 1
  PROVE  Follows(s, q, p)
<1> SUFFICES ASSUME NEW r \in Parts(s) PROVE Precedes(r, q) <=> Precedes(r, p) \/ r = p
  BY DEF Follows
<1>1. PICK X \in Nat \ {0}, Y \in Nat \ {0}, A \in Nat \ {0} :
        X = TilePairs(s) /\ Y = OutParts(s) /\ A = AllParts
  BY Shape, Positive
<1>2. /\ Unit(p) \in 0 .. A - 1 /\ Unit(q) \in 0 .. A - 1 /\ Unit(r) \in 0 .. A - 1
  BY <1>1, UnitBound
<1>3. /\ p.it \in Nat /\ q.it \in Nat /\ r.it \in Nat
      /\ p.yt \in 0 .. Y - 1 /\ q.yt \in 0 .. Y - 1 /\ r.yt \in 0 .. Y - 1
      /\ p.xt \in 0 .. 2 * X - 1 /\ q.xt \in 0 .. 2 * X - 1 /\ r.xt \in 0 .. 2 * X - 1
  BY <1>1, PartFields
<1>4. r = p <=> r.it = p.it /\ r.yt = p.yt /\ r.xt = p.xt /\ Unit(r) = Unit(p)
  <2>1. ASSUME r.it = p.it, r.yt = p.yt, r.xt = p.xt, Unit(r) = Unit(p)
        PROVE  r = p
    <3>1. r.ch = p.ch /\ r.g = p.g /\ r.h = p.h
      BY <2>1, UnitUnique
    <3>2. /\ r = Part(r.it, r.yt, r.xt, r.ch, r.g, r.h)
          /\ p = Part(p.it, p.yt, p.xt, p.ch, p.g, p.h)
      BY PartFields
    <3> QED BY <2>1, <3>1, <3>2, Zenon
  <2> QED BY <2>1, Zenon
<1>51. PICK pi \in Nat, py \in Nat, px \in Nat, pu \in Nat :
         pi = p.it /\ py = p.yt /\ px = p.xt /\ pu = Unit(p)
  BY <1>2, <1>3
<1>52. PICK qi \in Nat, qy \in Nat, qx \in Nat, qu \in Nat :
         qi = q.it /\ qy = q.yt /\ qx = q.xt /\ qu = Unit(q)
  BY <1>2, <1>3
<1>53. PICK ri \in Nat, ry \in Nat, rx \in Nat, ru \in Nat :
         ri = r.it /\ ry = r.yt /\ rx = r.xt /\ ru = Unit(r)
  BY <1>2, <1>3
<1>5. /\ pi = p.it /\ py = p.yt /\ px = p.xt /\ pu = Unit(p)
      /\ qi = q.it /\ qy = q.yt /\ qx = q.xt /\ qu = Unit(q)
      /\ ri = r.it /\ ry = r.yt /\ rx = r.xt /\ ru = Unit(r)
  BY <1>51, <1>52, <1>53
<1>6. ry <= Y - 1 /\ rx <= 2 * X - 1 /\ ru <= A - 1
  BY <1>2, <1>3, <1>5
<1>7. \/ qi = pi /\ qy = py /\ qx = px /\ qu = pu + 1
      \/ /\ pu + 1 = A /\ qu = 0
         /\ \/ qi = pi /\ qy = py /\ qx = px + 1
            \/ px + 1 = 2 * X /\ qx = 0 /\ qi = pi /\ qy = py + 1
            \/ px + 1 = 2 * X /\ qx = 0 /\ py + 1 = Y /\ qy = 0 /\ qi = pi + 1
  BY <1>1, <1>5
<1>8. (\/ ri < qi
       \/ ri = qi /\ ry < qy
       \/ ri = qi /\ ry = qy /\ rx < qx
       \/ ri = qi /\ ry = qy /\ rx = qx /\ ru < qu)
      <=>
      \/ (\/ ri < pi
          \/ ri = pi /\ ry < py
          \/ ri = pi /\ ry = py /\ rx < px
          \/ ri = pi /\ ry = py /\ rx = px /\ ru < pu)
      \/ (ri = pi /\ ry = py /\ rx = px /\ ru = pu)
  BY <1>6, <1>7
<1> QED BY <1>4, <1>5, <1>8, Zenon DEF Precedes

\* From the counters of a part Advance goes to those of the next one, or ends
\* after the last.
LEMMA AdvanceAt ==
  ASSUME NEW s, WholeTiles(s), NEW p \in Parts(s)
  PROVE  \/ \E q \in Parts(s) : Advance(At(s, p)) = At(s, q) /\ Follows(s, q, p)
         \/ /\ Advance(At(s, p)) = [pc |-> "converted", s |-> s]
            /\ \A r \in Parts(s) : Precedes(r, p) \/ r = p
<1>1. PICK X \in Nat \ {0}, Y \in Nat \ {0}, I \in Nat \ {0} :
        X = TilePairs(s) /\ Y = OutParts(s) /\ I = Iterations(s)
  BY Shape
<1>2. PICK W \in Nat \ {0} : W = NumGrf * NumGrf
  BY Positive
<1>3. PICK n : n = NextBank(NextStart(At(s, p)))
  OBVIOUS
<1>4. /\ p.it \in 0 .. I - 1 /\ p.yt \in 0 .. Y - 1 /\ p.xt \in 0 .. 2 * X - 1
      /\ p.h \in 0 .. BgUnits - 1 /\ p.g \in 0 .. NumBg - 1 /\ p.ch \in 0 .. NumChan - 1
  BY <1>1, PartFields
<1>4a. NextNumber(p.h, p.g, p.ch, Unit(p))
  BY <1>4, NextUnit DEF Unit
<1>5. PICK h \in 0 .. BgUnits - 1, g \in 0 .. NumBg - 1, ch \in 0 .. NumChan - 1 :
        h = NextH(p.h) /\ g = NextG(p.h, p.g) /\ ch = NextCh(p.h, p.g, p.ch)
  BY <1>4a, Zenon DEF NextNumber
<1>6. /\ Unit(p) \in Nat
      /\ Unit(p) + 1 < AllParts => (ch * NumBg + g) * BgUnits + h = Unit(p) + 1
      /\ ~(Unit(p) + 1 < AllParts) => Unit(p) + 1 = AllParts /\ h = 0 /\ g = 0 /\ ch = 0
  BY <1>4a, <1>5, Zenon DEF NextNumber
<1>7. PICK start : start = IF Unit(p) + 1 < AllParts THEN Starts(s, p)
                           ELSE [Starts(s, p) EXCEPT ![p.xt % 2] = @ + NumGrf * NumGrf]
  OBVIOUS
<1>8. n = Counters(s, p.it, p.yt * OutTile, p.xt * NumGrf, Unit(p) * NumGrf, 2 * h, g, ch, start)
  <2>1. NextStart(At(s, p)) = Counters(s, p.it, p.yt * OutTile, p.xt * NumGrf, Unit(p) * NumGrf,
                                       2 * p.h, p.g, p.ch, start)
    BY <1>1, <1>7, NextStartAt
  <2>2. NextBank(NextStart(At(s, p)))
          = Counters(s, p.it, p.yt * OutTile, p.xt * NumGrf, Unit(p) * NumGrf,
                     2 * NextH(p.h), NextG(p.h, p.g), NextCh(p.h, p.g, p.ch), start)
    BY <1>4, <2>1, NextBankAt
  <2> QED BY <1>3, <1>5, <2>2
<1>9. ASSUME ~(Unit(p) + 1 < AllParts), NEW q \in 0 .. 1
      PROVE  start[q] = StartAt(X, W, p.yt, p.xt + 1, q)
  <2>1. Starts(s, p)[q] = StartAt(X, W, p.yt, p.xt, q)
    BY <1>1, <1>2 DEF Starts
  <2>2. p.xt \in Nat /\ p.yt \in Nat
    BY <1>4
  <2>3. start = [Starts(s, p) EXCEPT ![p.xt % 2] = @ + W]
    BY <1>2, <1>7, <1>9, Zenon
  <2>4. start[q] = IF q = p.xt % 2 THEN Starts(s, p)[q] + W ELSE Starts(s, p)[q]
    BY <2>3, Zenon DEF Starts
  <2>5. /\ q = p.xt % 2 => StartAt(X, W, p.yt, p.xt + 1, q) = StartAt(X, W, p.yt, p.xt, q) + W
        /\ q # p.xt % 2 => StartAt(X, W, p.yt, p.xt + 1, q) = StartAt(X, W, p.yt, p.xt, q)
    <3>1. StartMoves(X, W, p.yt, p.xt, q)
      BY <2>2, StartsMove
    <3> QED BY <3>1, Zenon DEF StartMoves
  <2> QED BY <2>1, <2>4, <2>5, Zenon
<1>10. ~(Unit(p) + 1 < AllParts) => start = [q \in 0 .. 1 |-> StartAt(X, W, p.yt, p.xt + 1, q)]
  <2>1. ~(Unit(p) + 1 < AllParts) => start = [q \in 0 .. 1 |-> start[q]]
    BY <1>7, Zenon DEF Starts
  <2> QED BY <1>9, <2>1
<1>11. CASE Unit(p) + 1 < AllParts
  <2>1. PICK q : q = Part(p.it, p.yt, p.xt, ch, g, h)
    OBVIOUS
  <2>2. /\ q \in Parts(s) /\ q.it = p.it /\ q.yt = p.yt /\ q.xt = p.xt /\ q.ch = ch /\ q.g = g /\ q.h = h
        /\ Unit(q) = Unit(p) + 1
    BY <1>1, <1>4, <1>6, <1>11, <2>1, PartIn
  <2>3. Advance(At(s, p)) = LoopsChanged(n, (Unit(p) + 1) * NumGrf, p.xt * NumGrf, p.yt * OutTile)
    BY <1>3, <1>11, AdvanceCases
  <2>4. Advance(At(s, p)) = Counters(s, p.it, p.yt * OutTile, p.xt * NumGrf, (Unit(p) + 1) * NumGrf,
                                     2 * h, g, ch, start)
    BY <1>8, <2>3, AtNext 
  <2>5. start = Starts(s, q)
    BY <1>7, <1>11, <2>2, Zenon DEF Starts
  <2>6. Advance(At(s, p)) = At(s, q)
    BY <2>2, <2>4, <2>5, Zenon DEF At
  <2>7. Follows(s, q, p)
    BY <2>2, FollowsCases
  <2> QED BY <2>2, <2>6, <2>7
<1>12. 0 \in 0 .. BgUnits - 1 /\ 0 \in 0 .. NumBg - 1 /\ 0 \in 0 .. NumChan - 1 /\ (0 * NumBg + 0) * BgUnits + 0 = 0
       /\ 0 * NumGrf = 0 /\ 0 * OutTile = 0 /\ 2 * 0 = 0
  BY Positive
<1>13. CASE ~(Unit(p) + 1 < AllParts) /\ p.xt + 1 < 2 * X
  <2>1. PICK q : q = Part(p.it, p.yt, p.xt + 1, 0, 0, 0)
    OBVIOUS
  <2>2. p.xt + 1 \in 0 .. 2 * X - 1
    BY <1>4, <1>13
  <2>3. /\ q \in Parts(s) /\ q.it = p.it /\ q.yt = p.yt /\ q.xt = p.xt + 1 /\ q.ch = 0 /\ q.g = 0 /\ q.h = 0
        /\ Unit(q) = 0
    BY <1>1, <1>4, <1>12, <2>1, <2>2, PartIn
  <2>4. Advance(At(s, p)) = LoopsChanged(n, 0, (p.xt + 1) * NumGrf, p.yt * OutTile)
    BY <1>1, <1>3, <1>13, AdvanceCases
  <2>5. Advance(At(s, p)) = Counters(s, p.it, p.yt * OutTile, (p.xt + 1) * NumGrf, 0, 2 * h, g, ch, start)
    BY <1>8, <2>4, AtNext
  <2>6. start = Starts(s, q)
    BY <1>1, <1>2, <1>10, <1>13, <2>3, Zenon DEF Starts
  <2>7. Advance(At(s, p)) = At(s, q)
    BY <1>6, <1>12, <1>13, <2>3, <2>5, <2>6, Zenon DEF At
  <2>8. Follows(s, q, p)
    BY <1>6, <1>13, <2>3, FollowsCases
  <2> QED BY <2>3, <2>7, <2>8
<1>14. CASE ~(Unit(p) + 1 < AllParts) /\ ~(p.xt + 1 < 2 * X) /\ p.yt + 1 < Y
  <2>1. PICK q : q = Part(p.it, p.yt + 1, 0, 0, 0, 0)
    OBVIOUS
  <2>2. p.yt + 1 \in 0 .. Y - 1 /\ 0 \in 0 .. 2 * X - 1 /\ p.xt + 1 = 2 * X /\ p.yt \in Nat
    BY <1>4, <1>14
  <2>3. /\ q \in Parts(s) /\ q.it = p.it /\ q.yt = p.yt + 1 /\ q.xt = 0 /\ q.ch = 0 /\ q.g = 0 /\ q.h = 0
        /\ Unit(q) = 0
    BY <1>1, <1>4, <1>12, <2>1, <2>2, PartIn
  <2>4. Advance(At(s, p)) = LoopsChanged(n, 0, 0, (p.yt + 1) * OutTile)
    BY <1>1, <1>3, <1>14, AdvanceCases
  <2>5. Advance(At(s, p)) = Counters(s, p.it, (p.yt + 1) * OutTile, 0, 0, 2 * h, g, ch, start)
    BY <1>8, <2>4, AtNext
  <2>6. start = Starts(s, q)
    <3>1. ASSUME NEW i \in 0 .. 1 PROVE StartAt(X, W, p.yt, p.xt + 1, i) = StartAt(X, W, p.yt + 1, 0, i)
      <4>1. StartAt(X, W, p.yt, 2 * X, i) = StartAt(X, W, p.yt + 1, 0, i)
        <5>1. StartMoves(X, W, p.yt, p.xt, i)
          BY <1>4, StartsMove
        <5> QED BY <5>1, Zenon DEF StartMoves
      <4> QED BY <2>2, <4>1, Zenon
    <3>2. start = [i \in 0 .. 1 |-> StartAt(X, W, p.yt + 1, 0, i)]
      BY <1>10, <1>14, <3>1
    <3> QED BY <1>1, <1>2, <2>3, <3>2, Zenon DEF Starts
  <2>7. Advance(At(s, p)) = At(s, q)
    BY <1>6, <1>12, <1>14, <2>3, <2>5, <2>6, Zenon DEF At
  <2>8. Follows(s, q, p)
    BY <1>1, <1>6, <1>14, <2>2, <2>3, FollowsCases
  <2> QED BY <2>3, <2>7, <2>8
<1>15. ASSUME ~(Unit(p) + 1 < AllParts), ~(p.xt + 1 < 2 * X), ~(p.yt + 1 < Y)
       PROVE  p.xt + 1 = 2 * X /\ p.yt + 1 = Y /\ Unit(p) + 1 = AllParts
  BY <1>4, <1>6, <1>15
<1>16. CASE ~(Unit(p) + 1 < AllParts) /\ ~(p.xt + 1 < 2 * X) /\ ~(p.yt + 1 < Y) /\ p.it + 1 < I
  <2>1. PICK q : q = Part(p.it + 1, 0, 0, 0, 0, 0)
    OBVIOUS
  <2>2. p.it + 1 \in 0 .. I - 1 /\ 0 \in 0 .. Y - 1 /\ 0 \in 0 .. 2 * X - 1
    BY <1>4, <1>16
  <2>3. /\ q \in Parts(s) /\ q.it = p.it + 1 /\ q.yt = 0 /\ q.xt = 0 /\ q.ch = 0 /\ q.g = 0 /\ q.h = 0
        /\ Unit(q) = 0
    <3>1. p.it + 1 \in 0 .. Iterations(s) - 1 /\ 0 \in 0 .. OutParts(s) - 1
          /\ 0 \in 0 .. 2 * TilePairs(s) - 1
      BY <1>1, <2>2, Zenon
    <3>2. LET r == Part(p.it + 1, 0, 0, 0, 0, 0)
          IN  /\ r \in Parts(s) /\ r.it = p.it + 1 /\ r.yt = 0 /\ r.xt = 0
              /\ r.ch = 0 /\ r.g = 0 /\ r.h = 0
              /\ Unit(r) = (0 * NumBg + 0) * BgUnits + 0
      BY <1>12, <3>1, PartIn
    <3> QED BY <1>12, <2>1, <3>2, Zenon
  <2>4. Advance(At(s, p)) = [Begin(s) EXCEPT !.iter = p.it + 1]
    <3>1. Advance(At(s, p)) = IF p.it + 1 < Iterations(s) THEN [Begin(s) EXCEPT !.iter = p.it + 1]
                              ELSE [pc |-> "converted", s |-> s]
      BY <1>1, <1>3, <1>16, AdvanceCases, Zenon
    <3> QED BY <1>1, <1>16, <3>1, Zenon
  <2>5. Starts(s, q) = [i \in 0 .. 1 |-> 0]
    <3>1. ASSUME NEW i \in 0 .. 1 PROVE StartAt(X, W, 0, 0, i) = 0
      <4>1. StartMoves(X, W, 0, 0, i)
        BY StartsMove
      <4> QED BY <4>1, Zenon DEF StartMoves
    <3>2. Starts(s, q) = [i \in 0 .. 1 |-> StartAt(X, W, 0, 0, i)]
      BY <1>1, <1>2, <2>3, Zenon DEF Starts
    <3> QED BY <3>1, <3>2
  <2>6. [Begin(s) EXCEPT !.iter = p.it + 1] = Counters(s, p.it + 1, 0, 0, 0, 0, 0, 0, [i \in 0 .. 1 |-> 0])
    BY DEF Begin, Counters
  <2>7. Advance(At(s, p)) = At(s, q)
    BY <1>12, <2>3, <2>4, <2>5, <2>6, Zenon DEF At
  <2>8. Follows(s, q, p)
    BY <1>1, <1>15, <1>16, <2>3, FollowsCases
  <2> QED BY <2>3, <2>7, <2>8
<1>17. CASE ~(Unit(p) + 1 < AllParts) /\ ~(p.xt + 1 < 2 * X) /\ ~(p.yt + 1 < Y) /\ ~(p.it + 1 < I)
  <2>1. Advance(At(s, p)) = [pc |-> "converted", s |-> s]
    <3>1. Advance(At(s, p)) = IF p.it + 1 < Iterations(s) THEN [Begin(s) EXCEPT !.iter = p.it + 1]
                              ELSE [pc |-> "converted", s |-> s]
      BY <1>1, <1>3, <1>17, AdvanceCases, Zenon
    <3> QED BY <1>1, <1>17, <3>1, Zenon
  <2>2. ASSUME NEW r \in Parts(s) PROVE Precedes(r, p) \/ r = p
    <3>1. /\ r.it \in 0 .. I - 1 /\ r.yt \in 0 .. Y - 1 /\ r.xt \in 0 .. 2 * X - 1
          /\ Unit(r) \in 0 .. AllParts - 1 /\ AllParts \in Nat
      BY <1>1, PartFields, UnitBound, Positive
    <3>2. /\ p.it \in Nat /\ p.yt \in Nat /\ p.xt \in Nat
          /\ p.it + 1 = I /\ p.xt + 1 = 2 * X /\ p.yt + 1 = Y /\ Unit(p) + 1 = AllParts
      BY <1>4, <1>15, <1>17
    <3>3. Precedes(r, p) \/ (r.it = p.it /\ r.yt = p.yt /\ r.xt = p.xt /\ Unit(r) = Unit(p))
      BY <1>6, <3>1, <3>2 DEF Precedes
    <3>4. ASSUME r.it = p.it, r.yt = p.yt, r.xt = p.xt, Unit(r) = Unit(p) PROVE r = p
      <4>1. r.ch = p.ch /\ r.g = p.g /\ r.h = p.h
        BY <3>4, UnitUnique
      <4>2. /\ r = Part(r.it, r.yt, r.xt, r.ch, r.g, r.h)
            /\ p = Part(p.it, p.yt, p.xt, p.ch, p.g, p.h)
        BY PartFields
      <4> QED BY <3>4, <4>1, <4>2, Zenon
    <3> QED BY <3>3, <3>4, Zenon
  <2> QED BY <2>1, <2>2, Zenon
<1> QED BY <1>11, <1>13, <1>14, <1>16, <1>17, Zenon

-----------------------------------------------------------------------------
(* Cells and items.                                                        *)

\* The row of tiles in a bank that part p is in, the cell of item a of output b
\* of the part, and the number of that item.
Row(s, p) == (p.it * OutParts(s) + p.yt) * TilePairs(s) + (p.xt \div 2)
Cell(s, p, b, a) == <<p.ch, p.g, 2 * p.h + (p.xt % 2), (Row(s, p) * NumGrf + b) * NumGrf + a>>
Item(s, p, b, a) ==
  (p.it * OutCnt(s) + p.yt * OutTile + Unit(p) * NumGrf + b) * s.in_cnt + p.xt * NumGrf + a

\* Halves and parities name a number.
LEMMA HalfParity ==
  ASSUME NEW x \in Nat
  PROVE  x \div 2 \in Nat /\ x % 2 \in 0 .. 1 /\ x = 2 * (x \div 2) + (x % 2)
OBVIOUS

\* Every item has a cell of its own.
LEMMA CellUnique ==
  ASSUME NEW s, WholeTiles(s), NEW p \in Parts(s), NEW q \in Parts(s),
         NEW b \in 0 .. NumGrf - 1, NEW a \in 0 .. NumGrf - 1,
         NEW d \in 0 .. NumGrf - 1, NEW e \in 0 .. NumGrf - 1,
         Cell(s, p, b, a) = Cell(s, q, d, e)
  PROVE  p = q /\ b = d /\ a = e
<1>1. PICK X \in Nat \ {0}, Y \in Nat \ {0}, G \in Nat \ {0} :
        X = TilePairs(s) /\ Y = OutParts(s) /\ G = NumGrf
  BY Shape, Positive
<1>2. /\ p.it \in Nat /\ p.yt \in 0 .. Y - 1 /\ p.xt \in 0 .. 2 * X - 1 /\ p.h \in Nat
      /\ q.it \in Nat /\ q.yt \in 0 .. Y - 1 /\ q.xt \in 0 .. 2 * X - 1 /\ q.h \in Nat
  BY <1>1, PartFields, Positive
<1>3. /\ p.ch = q.ch /\ p.g = q.g /\ 2 * p.h + (p.xt % 2) = 2 * q.h + (q.xt % 2)
      /\ (Row(s, p) * NumGrf + b) * NumGrf + a = (Row(s, q) * NumGrf + d) * NumGrf + e
  BY Zenon DEF Cell
<1>4. PICK px \in 0 .. X - 1, qx \in 0 .. X - 1 : px = p.xt \div 2 /\ qx = q.xt \div 2
  BY <1>2
<1>5. /\ p.xt % 2 \in 0 .. 1 /\ q.xt % 2 \in 0 .. 1
      /\ p.xt = 2 * px + (p.xt % 2) /\ q.xt = 2 * qx + (q.xt % 2)
  <2>1. p.xt \in Nat /\ q.xt \in Nat
    BY <1>2
  <2>2. /\ p.xt % 2 \in 0 .. 1 /\ p.xt = 2 * (p.xt \div 2) + (p.xt % 2)
        /\ q.xt % 2 \in 0 .. 1 /\ q.xt = 2 * (q.xt \div 2) + (q.xt % 2)
    BY <2>1, HalfParity
  <2> QED BY <1>4, <2>2, Zenon
<1>6. p.h = q.h /\ p.xt % 2 = q.xt % 2
  <2>1. PICK ph \in Nat, qh \in Nat, pp \in 0 .. 1, qp \in 0 .. 1 :
          ph = p.h /\ qh = q.h /\ pp = p.xt % 2 /\ qp = q.xt % 2
    BY <1>2, <1>5
  <2>2. 2 * ph + pp = 2 * qh + qp
    BY <1>3, <2>1, Zenon
  <2>3. ph = qh /\ pp = qp
    BY <2>2
  <2> QED BY <2>1, <2>3, Zenon
<1>7. PICK pi \in Nat, py \in 0 .. Y - 1, qi \in Nat, qy \in 0 .. Y - 1 :
        pi = p.it /\ py = p.yt /\ qi = q.it /\ qy = q.yt
  BY <1>2
<1>8. PICK pt \in Nat, qt \in Nat : pt = pi * Y + py /\ qt = qi * Y + qy
  OBVIOUS
<1>9. PICK pr \in Nat, qr \in Nat : pr = pt * X + px /\ qr = qt * X + qx
  OBVIOUS
<1>10. Row(s, p) = pr /\ Row(s, q) = qr
  BY <1>1, <1>4, <1>7, <1>8, <1>9, Zenon DEF Row
<1>11. PICK pb \in Nat, qb \in Nat : pb = pr * G + b /\ qb = qr * G + d
  BY <1>1
<1>12. pb * G + a = qb * G + e
  BY <1>1, <1>3, <1>10, <1>11, Zenon
<1>13. pb = qb /\ a = e
  BY <1>1, <1>12, DigitsUnique
<1>14. pr = qr /\ b = d
  <2>1. pr * G + b = qr * G + d
    BY <1>11, <1>13
  <2> QED BY <2>1, <1>1, DigitsUnique
<1>15. pt = qt /\ px = qx
  <2>1. pt * X + px = qt * X + qx
    BY <1>9, <1>14
  <2> QED BY <2>1, DigitsUnique
<1>16. pi = qi /\ py = qy
  <2>1. pi * Y + py = qi * Y + qy
    BY <1>8, <1>15
  <2> QED BY <2>1, DigitsUnique
<1>17. p.xt = q.xt
  BY <1>5, <1>6, <1>15
<1>18. /\ p = Part(p.it, p.yt, p.xt, p.ch, p.g, p.h)
       /\ q = Part(q.it, q.yt, q.xt, q.ch, q.g, q.h)
  BY PartFields
<1> QED BY <1>3, <1>6, <1>7, <1>13, <1>14, <1>16, <1>17, <1>18, Zenon

\* The locations the items of an iteration take in each bank.
LEMMA PerBankBase ==
  ASSUME NEW s, WholeTiles(s), NEW it \in Nat
  PROVE  PerBank(it * OutCnt(s) * s.in_cnt) = it * OutParts(s) * TilePairs(s) * (NumGrf * NumGrf)
<1>1. PICK X \in Nat \ {0}, Y \in Nat \ {0}, G \in Nat \ {0}, A \in Nat \ {0} :
        X = TilePairs(s) /\ Y = OutParts(s) /\ G = NumGrf /\ A = AllParts
  BY Shape, Positive
<1>2. OutCnt(s) = Y * (A * G) /\ s.in_cnt = (2 * X) * G
  BY <1>1, Shape, Geometry
<1>3. NumChan * NumBanks = 2 * A
  <2>1. PICK P \in Nat, C \in Nat : P = NumPimBlocks /\ C = NumChan
    BY Positive
  <2>2. NumBanks = 2 * P /\ A = P * C
    BY <1>1, <2>1, Geometry DEF AllParts
  <2>3. C * (2 * P) = 2 * (P * C)
    OBVIOUS
  <2> QED BY <2>1, <2>2, <2>3
<1>4. (it * (Y * (A * G))) * ((2 * X) * G) = (((it * Y) * X) * (G * G)) * (2 * A) + 0
  OBVIOUS
<1>5. PICK n \in Nat, M \in Nat \ {0} : n = ((it * Y) * X) * (G * G) /\ M = 2 * A
  OBVIOUS
<1>6. it * OutCnt(s) * s.in_cnt = n * M + 0
  BY <1>2, <1>4, <1>5
<1>7. 0 \in 0 .. M - 1
  OBVIOUS
<1>8. (it * OutCnt(s) * s.in_cnt) \div M = n
  BY <1>6, <1>7, DivUnique
<1> QED BY <1>1, <1>3, <1>5, <1>8 DEF PerBank

\* The location and the item as the code computes them.
LEMMA CellLocation ==
  ASSUME NEW s, WholeTiles(s), NEW p \in Parts(s),
         NEW b \in 0 .. NumGrf - 1, NEW a \in 0 .. NumGrf - 1
  PROVE  PerBank(p.it * OutCnt(s) * s.in_cnt) + Starts(s, p)[p.xt % 2] + b * NumGrf + a
           = (Row(s, p) * NumGrf + b) * NumGrf + a
<1>1. PICK X \in Nat \ {0}, Y \in Nat \ {0}, G \in Nat \ {0} :
        X = TilePairs(s) /\ Y = OutParts(s) /\ G = NumGrf
  BY Shape, Positive
<1>2. PICK it \in Nat, yt \in Nat, xt \in Nat, x \in Nat :
        it = p.it /\ yt = p.yt /\ xt = p.xt /\ x = xt \div 2
  BY PartFields
<1>3. PICK W \in Nat : W = G * G
  OBVIOUS
<1>4. PerBank(p.it * OutCnt(s) * s.in_cnt) = it * Y * X * W
  BY <1>1, <1>2, <1>3, PerBankBase
<1>5. Starts(s, p)[p.xt % 2] = (yt * X + x) * W
  <2>1. xt % 2 \in 0 .. 1
    OBVIOUS
  <2>2. StartMoves(X, W, yt, xt, xt % 2)
    BY <2>1, StartsMove
  <2>3. Starts(s, p)[xt % 2] = StartAt(X, W, yt, xt, xt % 2)
    BY <1>1, <1>2, <1>3, <2>1, Zenon DEF Starts
  <2> QED BY <1>2, <2>2, <2>3, Zenon DEF StartMoves
<1>6. Row(s, p) = (it * Y + yt) * X + x
  BY <1>1, <1>2, Zenon DEF Row
<1>7. it * Y * X * W + (yt * X + x) * W + b * G + a = (((it * Y + yt) * X + x) * G + b) * G + a
  <2>1. PICK r \in Nat : r = (it * Y + yt) * X + x
    OBVIOUS
  <2>2. it * Y * X * W + (yt * X + x) * W = r * W
    BY <2>1
  <2>3. r * W = (r * G) * G
    BY <1>3
  <2>4. (r * G + b) * G = (r * G) * G + b * G
    BY <1>1
  <2> QED BY <1>1, <2>1, <2>2, <2>3, <2>4
<1> QED BY <1>1, <1>4, <1>5, <1>6, <1>7, Zenon

\* The offset the host computes in the source of an item of a part.
LEMMA ItemNumber ==
  ASSUME NEW s, WholeTiles(s), NEW p \in Parts(s),
         NEW b \in 0 .. NumGrf - 1, NEW a \in 0 .. NumGrf - 1
  PROVE  p.it * OutCnt(s) * s.in_cnt + (p.yt * OutTile + Unit(p) * NumGrf + b) * s.in_cnt
           + p.xt * NumGrf + a = Item(s, p, b, a)
<1>1. PICK i \in Nat : i = s.in_cnt
  BY DEF WholeTiles
<1>2. PICK o \in Nat : o = p.it * OutCnt(s)
  <2>1. OutCnt(s) \in Nat /\ p.it \in Nat
    BY Shape, Positive, PartFields
  <2> QED BY <2>1
<1>3. PICK c \in Nat : c = p.yt * OutTile + Unit(p) * NumGrf + b
  <2>1. p.yt \in Nat /\ OutTile \in Nat /\ Unit(p) \in Nat /\ NumGrf \in Nat /\ b \in Nat
    BY PartFields, Positive, UnitBound
  <2>2. p.yt * OutTile \in Nat /\ Unit(p) * NumGrf \in Nat
    BY <2>1
  <2> QED BY <2>1, <2>2
<1>4. PICK k \in Nat : k = p.xt * NumGrf
  <2>1. p.xt \in Nat /\ NumGrf \in Nat
    BY PartFields, Positive
  <2> QED BY <2>1
<1>5. p.it * OutCnt(s) + p.yt * OutTile + Unit(p) * NumGrf + b = o + c
  <2>1. p.yt * OutTile \in Nat /\ Unit(p) * NumGrf \in Nat /\ b \in Nat
    <3>1. p.yt \in Nat /\ OutTile \in Nat /\ Unit(p) \in Nat /\ NumGrf \in Nat /\ b \in Nat
      BY PartFields, Positive, UnitBound
    <3> QED BY <3>1
  <2> QED BY <1>2, <1>3, <2>1
<1>6. o * i + c * i + k + a = (o + c) * i + k + a
  <2>1. (o + c) * i = o * i + c * i
    OBVIOUS
  <2> QED BY <2>1
<1> QED BY <1>1, <1>2, <1>3, <1>4, <1>5, <1>6, Zenon DEF Item

\* What a step of the conversion copies: the items of a part to their cells.
LEMMA PartCopied ==
  ASSUME NEW s, WholeTiles(s), NEW p \in Parts(s), NEW t, t = TilePart(At(s, p))
  PROVE  /\ \A b, a \in 0 .. NumGrf - 1 :
              Cell(s, p, b, a) \in DOMAIN t /\ t[Cell(s, p, b, a)] = Item(s, p, b, a)
         /\ \A d \in DOMAIN t : \E b, a \in 0 .. NumGrf - 1 : d = Cell(s, p, b, a)
<1>1. PICK c : c = At(s, p)
  OBVIOUS
<1>2. /\ c.s = s /\ c.iter = p.it /\ c.y = p.yt * OutTile /\ c.x = p.xt * NumGrf
      /\ c.tiled_y = Unit(p) * NumGrf /\ c.bank = 2 * p.h /\ c.bg = p.g /\ c.cidx = p.ch
      /\ c.start = Starts(s, p)
  BY <1>1, AtFields
<1>3. (c.x \div NumGrf) % 2 = p.xt % 2
  <2>1. p.xt \in Nat
    BY PartFields
  <2> QED BY <1>2, <2>1, Parity
<1> DEFINE at0 == (0 .. NumGrf - 1) \X (0 .. NumGrf - 1)
           par == (c.x \div NumGrf) % 2
           base == c.iter * OutCnt(c.s) * c.s.in_cnt
           cell(b, a) == <<c.cidx, c.bg, c.bank + par, PerBank(base) + c.start[par] + b * NumGrf + a>>
           item(b, a) == base + (c.y + c.tiled_y + b) * c.s.in_cnt + c.x + a
<1>5. t = [d \in {cell(i[1], i[2]) : i \in at0} |->
             LET i == CHOOSE j \in at0 : cell(j[1], j[2]) = d IN item(i[1], i[2])]
  <2>1. t = TilePart(c)
    BY <1>1, Zenon
  <2>2. TilePart(c) = [d \in {cell(i[1], i[2]) : i \in at0} |->
             LET i == CHOOSE j \in at0 : cell(j[1], j[2]) = d IN item(i[1], i[2])]
    BY Zenon DEF TilePart
  <2> QED BY <2>1, <2>2, Zenon
<1>4. /\ \A b, a \in 0 .. NumGrf - 1 : <<b, a>> \in at0
      /\ \A i \in at0 : i[1] \in 0 .. NumGrf - 1 /\ i[2] \in 0 .. NumGrf - 1
  OBVIOUS
<1> HIDE DEF at0
<1>6. ASSUME NEW b \in 0 .. NumGrf - 1, NEW a \in 0 .. NumGrf - 1
      PROVE  cell(b, a) = Cell(s, p, b, a) /\ item(b, a) = Item(s, p, b, a)
  <2>1. par = p.xt % 2 /\ base = p.it * OutCnt(s) * s.in_cnt
    BY <1>2, <1>3, Zenon
  <2> HIDE DEF par, base
  <2>2. PerBank(base) + c.start[par] + b * NumGrf + a = (Row(s, p) * NumGrf + b) * NumGrf + a
    <3>1. PerBank(base) + c.start[par] = PerBank(p.it * OutCnt(s) * s.in_cnt) + Starts(s, p)[p.xt % 2]
      BY <1>2, <2>1, Zenon
    <3>2. PerBank(p.it * OutCnt(s) * s.in_cnt) + Starts(s, p)[p.xt % 2] + b * NumGrf + a
            = (Row(s, p) * NumGrf + b) * NumGrf + a
      BY CellLocation
    <3> QED BY <3>1, <3>2, Zenon
  <2>3. c.bank + par = 2 * p.h + (p.xt % 2)
    BY <1>2, <2>1, Zenon
  <2>4. cell(b, a) = Cell(s, p, b, a)
    BY <1>2, <2>2, <2>3, Zenon DEF Cell
  <2>5. item(b, a) = p.it * OutCnt(s) * s.in_cnt + (p.yt * OutTile + Unit(p) * NumGrf + b) * s.in_cnt
                       + p.xt * NumGrf + a
    BY <1>2, <2>1, Zenon
  <2>6. item(b, a) = Item(s, p, b, a)
    BY <2>5, ItemNumber, Zenon
  <2> QED BY <2>4, <2>6
<1> HIDE DEF cell, item, par, base
<1>7. ASSUME NEW i \in at0 PROVE i[1] \in 0 .. NumGrf - 1 /\ i[2] \in 0 .. NumGrf - 1
  BY <1>4
<1>8. ASSUME NEW b \in 0 .. NumGrf - 1, NEW a \in 0 .. NumGrf - 1
      PROVE  Cell(s, p, b, a) \in DOMAIN t /\ t[Cell(s, p, b, a)] = Item(s, p, b, a)
  <2>1. PICK i : i = <<b, a>>
    OBVIOUS
  <2>2. i \in at0 /\ i[1] = b /\ i[2] = a
    BY <1>4, <2>1
  <2>3. PICK d : d = Cell(s, p, b, a)
    OBVIOUS
  <2>4. cell(i[1], i[2]) = d
    BY <1>6, <2>2, <2>3, Zenon
  <2>5. d \in DOMAIN t
    BY <1>5, <2>2, <2>4, Zenon
  <2>6. PICK j : j = CHOOSE k \in at0 : cell(k[1], k[2]) = d
    OBVIOUS
  <2>7. j \in at0 /\ cell(j[1], j[2]) = d
    BY <2>2, <2>4, <2>6, Zenon
  <2>8. t[d] = item(j[1], j[2])
    BY <1>5, <2>5, <2>6, Zenon
  <2>9. j[1] \in 0 .. NumGrf - 1 /\ j[2] \in 0 .. NumGrf - 1
    BY <1>7, <2>7
  <2>10. Cell(s, p, j[1], j[2]) = Cell(s, p, b, a) /\ t[d] = Item(s, p, j[1], j[2])
    BY <1>6, <2>3, <2>7, <2>8, <2>9, Zenon
  <2>11. j[1] = b /\ j[2] = a
    BY <2>9, <2>10, CellUnique
  <2> QED BY <2>3, <2>5, <2>10, <2>11, Zenon
<1>9. ASSUME NEW d \in DOMAIN t PROVE \E b, a \in 0 .. NumGrf - 1 : d = Cell(s, p, b, a)
  <2>1. PICK i \in at0 : d = cell(i[1], i[2])
    BY <1>5, Zenon
  <2>2. d = Cell(s, p, i[1], i[2]) /\ i[1] \in 0 .. NumGrf - 1 /\ i[2] \in 0 .. NumGrf - 1
    BY <1>6, <1>7, <2>1, Zenon
  <2> QED BY <2>2, Zenon
<1> QED BY <1>8, <1>9, Zenon

-----------------------------------------------------------------------------
(* Where the kernels read.                                                 *)

\* The channel, group and pair of banks of unit number n, as ReadFrom has them.
LEMMA UnitDigits ==
  ASSUME NEW n \in 0 .. AllParts - 1
  PROVE  /\ n \div NumPimBlocks \in 0 .. NumChan - 1
         /\ (n % NumPimBlocks) \div BgUnits \in 0 .. NumBg - 1
         /\ n % BgUnits \in 0 .. BgUnits - 1
         /\ (n \div NumPimBlocks) * NumBg + ((n % NumPimBlocks) \div BgUnits) \in Nat
         /\ n = ((n \div NumPimBlocks) * NumBg + ((n % NumPimBlocks) \div BgUnits)) * BgUnits + (n % BgUnits)
<1>1. PICK B \in Nat \ {0}, H \in Nat \ {0}, C \in Nat \ {0}, P \in Nat \ {0} :
        B = NumBg /\ H = BgUnits /\ C = NumChan /\ P = NumPimBlocks
  BY Positive
<1>2. P = B * H /\ AllParts = P * C
  BY <1>1, Geometry DEF AllParts
<1>0. n \in Nat
  BY Positive
<1>3. PICK v \in Nat, h \in 0 .. H - 1 : v = n \div H /\ h = n % H /\ n = v * H + h
  BY <1>0, DivSplit, Zenon
<1>4. PICK ch \in Nat, g \in 0 .. B - 1 : ch = v \div B /\ g = v % B /\ v = ch * B + g
  BY DivSplit, Zenon
<1>5. PICK r \in 0 .. P - 1 : r = g * H + h
  <2>1. g * H + h \in 0 .. B * H - 1
    BY DigitsBound
  <2> QED BY <1>2, <2>1
<1>6. n = ch * P + r
  <2>1. (ch * B + g) * H + h = ch * (B * H) + (g * H + h)
    OBVIOUS
  <2> QED BY <1>2, <1>3, <1>4, <1>5, <2>1
<1>7. n \div P = ch /\ n % P = r
  BY <1>6, DivNat, Zenon
<1>8. r \div H = g
  BY <1>5, DivUnique
<1>9. ch \in 0 .. C - 1
  <2>1. n \in 0 .. C * P - 1
    BY <1>2
  <2> QED BY <1>7, <2>1, DigitsBelow
<1>10. (ch * B + g) \in Nat /\ n = (ch * B + g) * H + h
  BY <1>3, <1>4
<1> QED BY <1>1, <1>3, <1>7, <1>8, <1>9, <1>10

\* An item of a row of inputs: its tile and its place in the tile.
LEMMA InputDigits ==
  ASSUME NEW X \in Nat \ {0}, NEW k \in 0 .. (2 * X) * NumGrf - 1
  PROVE  /\ k \div NumGrf \in 0 .. 2 * X - 1 /\ k % NumGrf \in 0 .. NumGrf - 1
         /\ k = (k \div NumGrf) * NumGrf + (k % NumGrf)
         /\ k \div (2 * NumGrf) = (k \div NumGrf) \div 2
<1>1. PICK G \in Nat \ {0} : G = NumGrf
  BY Positive
<1>2. PICK x \in Nat, a \in 0 .. G - 1 : x = k \div G /\ a = k % G /\ k = x * G + a
  <2>1. k \in Nat
    BY <1>1
  <2> QED BY <2>1, DivSplit, Zenon
<1>3. x \in 0 .. 2 * X - 1
  <2>1. PICK N \in Nat : N = 2 * X
    OBVIOUS
  <2>2. k \in 0 .. N * G - 1
    BY <1>1, <2>1
  <2> QED BY <1>2, <2>1, <2>2, DigitsBelow
<1>4. PICK q \in Nat, e \in 0 .. 1 : q = x \div 2 /\ x = 2 * q + e
  BY HalfParity
<1>5. k \div (2 * G) = q
  <2>1. PICK M \in Nat \ {0} : M = 2 * G
    OBVIOUS
  <2>2. PICK r \in 0 .. M - 1 : r = e * G + a
    <3>1. e * G + a \in 0 .. 2 * G - 1
      BY DigitsBound
    <3> QED BY <2>1, <3>1
  <2>3. (2 * q + e) * G + a = q * (2 * G) + (e * G + a)
    OBVIOUS
  <2>4. k = q * M + r
    BY <1>2, <1>4, <2>1, <2>2, <2>3
  <2>5. k \div M = q
    BY <2>4, DivNat, Zenon
  <2> QED BY <2>1, <2>5
<1> QED BY <1>1, <1>2, <1>3, <1>4, <1>5

\* The tile of outputs and the place in it of output o of matrix m.
Tile(s, m, o) == IF check_chwise_gemm_bo(s) THEN (m * s.out + o) \div OutTile
                 ELSE m * (s.out \div OutTile) + (o \div OutTile)
InOut(s, m, o) == IF check_chwise_gemm_bo(s) THEN (m * s.out + o) % OutTile ELSE o % OutTile

\* An output of the product is in one iteration and tile of outputs.
LEMMA OutputDigits ==
  ASSUME NEW s, WholeTiles(s), NEW m \in 0 .. s.nc - 1, NEW o \in 0 .. s.out - 1
  PROVE  \E it \in 0 .. Iterations(s) - 1, yt \in 0 .. OutParts(s) - 1 :
           /\ Tile(s, m, o) = it * OutParts(s) + yt
           /\ InOut(s, m, o) \in 0 .. OutTile - 1
           /\ m * s.out + o = it * OutCnt(s) + yt * OutTile + InOut(s, m, o)
<1>1. PICK T \in Nat \ {0}, Y \in Nat \ {0}, I \in Nat \ {0} :
        T = OutTile /\ Y = OutParts(s) /\ I = Iterations(s)
  BY Positive, Shape
<1>2. PICK n \in Nat, out \in Nat \ {0} : n = s.nc /\ out = s.out
  BY DEF WholeTiles
<1>3. m \in 0 .. n - 1 /\ o \in 0 .. out - 1
  BY <1>2
<1>4. PICK f \in Nat : f = m * out + o
  BY <1>3
<1>5. CASE check_chwise_gemm_bo(s)
  <2>1. Y = 1 /\ n * out = I * T /\ OutCnt(s) = T
    BY <1>1, <1>2, <1>5, Shape DEF OutCnt
  <2>2. PICK t \in Nat, r \in 0 .. T - 1 : t = f \div T /\ r = f % T /\ f = t * T + r
    BY DivSplit, Zenon
  <2>3. Tile(s, m, o) = t /\ InOut(s, m, o) = r
    BY <1>1, <1>2, <1>4, <1>5, <2>2, Zenon DEF Tile, InOut
  <2>4. f \in 0 .. n * out - 1
    BY <1>3, <1>4, DigitsBound
  <2>5. t \in 0 .. I - 1
    BY <2>1, <2>2, <2>4, DigitsBelow
  <2>6. t * Y + 0 = t /\ f = t * T + 0 * T + r /\ 0 \in 0 .. Y - 1
    BY <2>1, <2>2
  <2>7. t \in 0 .. Iterations(s) - 1 /\ 0 \in 0 .. OutParts(s) - 1
    BY <1>1, <2>5, <2>6
  <2>8. Tile(s, m, o) = t * OutParts(s) + 0
    BY <1>1, <2>3, <2>6
  <2>9. m * s.out + o = t * OutCnt(s) + 0 * OutTile + InOut(s, m, o)
    BY <1>1, <1>2, <1>4, <2>1, <2>3, <2>6
  <2>10. InOut(s, m, o) \in 0 .. OutTile - 1
    BY <1>1, <2>2, <2>3
  <2> QED BY <2>7, <2>8, <2>9, <2>10, Zenon
<1>6. CASE ~check_chwise_gemm_bo(s)
  <2>1. out = Y * T /\ n = I /\ OutCnt(s) = out
    BY <1>1, <1>2, <1>6, Shape DEF OutCnt
  <2>2. PICK y \in Nat, r \in 0 .. T - 1 : y = o \div T /\ r = o % T /\ o = y * T + r
    <3>1. o \in Nat
      BY <1>3
    <3> QED BY <3>1, DivSplit, Zenon
  <2>3. y \in 0 .. Y - 1
    BY <1>3, <2>1, <2>2, DigitsBelow
  <2>4. out \div T = Y
    <3>1. out = Y * T + 0
      BY <2>1
    <3> QED BY <3>1, DivUnique
  <2>5. Tile(s, m, o) = m * Y + y /\ InOut(s, m, o) = r
    BY <1>1, <1>2, <1>6, <2>2, <2>4, Zenon DEF Tile, InOut
  <2>6. m \in 0 .. Iterations(s) - 1 /\ y \in 0 .. OutParts(s) - 1
    BY <1>1, <1>3, <2>1, <2>3
  <2>7. m * s.out + o = m * OutCnt(s) + y * OutTile + InOut(s, m, o)
    <3>1. m * out + o = m * out + y * T + r
      BY <1>3, <2>2
    <3> QED BY <1>1, <1>2, <2>1, <2>5, <3>1, Zenon
  <2>8. Tile(s, m, o) = m * OutParts(s) + y /\ InOut(s, m, o) \in 0 .. OutTile - 1
    BY <1>1, <2>2, <2>5
  <2> QED BY <2>6, <2>7, <2>8, Zenon
<1> QED BY <1>5, <1>6

\* The kernels read each item from its cell.
LEMMA ReadCell ==
  ASSUME NEW s, WholeTiles(s), NEW m \in 0 .. s.nc - 1, NEW o \in 0 .. s.out - 1,
         NEW k \in 0 .. s.in_cnt - 1
  PROVE  \E p \in Parts(s), b, a \in 0 .. NumGrf - 1 :
           /\ ReadFrom(s, m, o, k) = Cell(s, p, b, a)
           /\ (m * s.out + o) * s.in_cnt + k = Item(s, p, b, a)
<1>1. PICK G \in Nat \ {0}, A \in Nat \ {0}, X \in Nat \ {0} :
        G = NumGrf /\ A = AllParts /\ X = TilePairs(s)
  BY Positive, Shape
<1>2. PICK it \in 0 .. Iterations(s) - 1, yt \in 0 .. OutParts(s) - 1 :
        /\ Tile(s, m, o) = it * OutParts(s) + yt
        /\ InOut(s, m, o) \in 0 .. OutTile - 1
        /\ m * s.out + o = it * OutCnt(s) + yt * OutTile + InOut(s, m, o)
  BY OutputDigits
<1>3. PICK io \in 0 .. A * G - 1 : io = InOut(s, m, o)
  BY <1>1, <1>2, Geometry
<1>4. PICK n \in 0 .. A - 1, b \in 0 .. G - 1 : n = io \div G /\ b = io % G /\ io = n * G + b
  <2>1. io \div G \in 0 .. A - 1
    BY DigitsBelow
  <2>2. io % G \in 0 .. G - 1 /\ io = (io \div G) * G + (io % G)
    <3>1. io \in Nat
      OBVIOUS
    <3> QED BY <3>1, DivMod
  <2> QED BY <2>1, <2>2
<1>5. PICK ch \in 0 .. NumChan - 1, g \in 0 .. NumBg - 1, h \in 0 .. BgUnits - 1 :
        /\ ch = n \div NumPimBlocks /\ g = (n % NumPimBlocks) \div BgUnits /\ h = n % BgUnits
        /\ n = (ch * NumBg + g) * BgUnits + h
  BY <1>1, UnitDigits
<1>6. k \in 0 .. (2 * X) * NumGrf - 1
  BY <1>1, Shape
<1>7. PICK xt \in 0 .. 2 * X - 1, a \in 0 .. G - 1 :
        xt = k \div NumGrf /\ a = k % NumGrf /\ k = xt * NumGrf + a /\ k \div (2 * NumGrf) = xt \div 2
  BY <1>1, <1>6, InputDigits
<1>8. PICK p : p = Part(it, yt, xt, ch, g, h)
  OBVIOUS
<1>9. /\ p \in Parts(s) /\ p.it = it /\ p.yt = yt /\ p.xt = xt /\ p.ch = ch /\ p.g = g /\ p.h = h
      /\ Unit(p) = n
  <2>1. xt \in 0 .. 2 * TilePairs(s) - 1
    BY <1>1, <1>7
  <2>2. /\ p \in Parts(s) /\ p.it = it /\ p.yt = yt /\ p.xt = xt /\ p.ch = ch /\ p.g = g /\ p.h = h
        /\ Unit(p) = (ch * NumBg + g) * BgUnits + h
    BY <1>8, <2>1, PartIn
  <2> QED BY <1>5, <2>2, Zenon
<1>10. Row(s, p) = Tile(s, m, o) * TilePairs(s) + (k \div (2 * NumGrf))
  BY <1>2, <1>7, <1>9, Zenon DEF Row
<1>11. ReadFrom(s, m, o, k) =
         <<n \div NumPimBlocks, (n % NumPimBlocks) \div BgUnits, 2 * (n % BgUnits) + ((k \div NumGrf) % 2),
           Row(s, p) * NumGrf * NumGrf + b * NumGrf + (k % NumGrf)>>
  BY <1>1, <1>3, <1>4, <1>10, Zenon DEF ReadFrom, Tile, InOut, TilePairs, BgUnits
<1>12. Row(s, p) * NumGrf * NumGrf + b * NumGrf + (k % NumGrf) = (Row(s, p) * NumGrf + b) * NumGrf + a
  <2>1. PICK r \in Nat : r = Row(s, p)
    <3>1. p.it \in Nat /\ p.yt \in Nat /\ p.xt \div 2 \in Nat
      <4>1. it \in Nat /\ yt \in Nat
        BY Shape
      <4>2. xt \div 2 \in Nat
        OBVIOUS
      <4> QED BY <1>9, <4>1, <4>2
    <3>2. OutParts(s) \in Nat /\ TilePairs(s) \in Nat
      BY Shape
    <3>3. p.it * OutParts(s) + p.yt \in Nat
      BY <3>1, <3>2
    <3> QED BY <3>1, <3>2, <3>3 DEF Row
  <2>2. (r * G) * G + b * G + a = (r * G + b) * G + a
    OBVIOUS
  <2> QED BY <1>1, <1>7, <2>1, <2>2
<1>13. ReadFrom(s, m, o, k) = Cell(s, p, b, a)
  BY <1>5, <1>7, <1>9, <1>11, <1>12, Zenon DEF Cell
<1>14. (m * s.out + o) * s.in_cnt + k = Item(s, p, b, a)
  <2>1. PICK w \in Nat : w = it * OutCnt(s) + yt * OutTile
    <3>1. OutCnt(s) \in Nat /\ OutTile \in Nat
      BY Shape, Positive
    <3> QED BY <3>1
  <2>2. m * s.out + o = w + (n * G + b)
    BY <1>2, <1>3, <1>4, <2>1
  <2>3. PICK v \in Nat : v = n * G
    OBVIOUS
  <2>4. w + (v + b) = w + v + b
    OBVIOUS
  <2>5. m * s.out + o = it * OutCnt(s) + yt * OutTile + Unit(p) * NumGrf + b
    BY <1>1, <1>9, <2>1, <2>2, <2>3, <2>4, Zenon
  <2>6. PICK e : e = (m * s.out + o) * s.in_cnt /\ e \in Int
    <3>1. s.in_cnt \in Nat /\ w + v + b \in Nat
      BY DEF WholeTiles
    <3> QED BY <3>1, <2>2, <2>3
  <2>7. e + (xt * G + a) = e + xt * G + a
    BY <2>6
  <2>8. e + k = e + xt * NumGrf + a
    BY <1>1, <1>7, <2>7
  <2>9. Item(s, p, b, a) = e + xt * NumGrf + a
    BY <1>9, <2>5, <2>6, Zenon DEF Item
  <2> QED BY <2>6, <2>8, <2>9, Zenon
<1> QED BY <1>1, <1>9, <1>13, <1>14

-----------------------------------------------------------------------------
(* On the device.                                                          *)

\* What fill_gemm_weight divides the number of items before one by: the pair of
\* tiles and the unit.
LEMMA PlaceNumbers ==
  ASSUME NEW xt \in Nat, NEW y \in 0 .. OutTile - 1, NEW a \in 0 .. NumGrf - 1, NEW prev,
         prev = xt * OutTile * NumGrf + (y \div NumGrf) * NumGrf * NumGrf + (y % NumGrf) * NumGrf + a
  PROVE  /\ (prev \div (NumGrf * NumGrf)) \div (NumBanks * NumChan) = xt \div 2
         /\ (prev % (NumGrf * NumGrf * NumPimBlocks * NumChan)) \div (NumGrf * NumGrf) = y \div NumGrf
<1>1. PICK G \in Nat \ {0}, A \in Nat \ {0} : G = NumGrf /\ A = AllParts
  BY Positive
<1>2. OutTile = A * G
  BY <1>1, Geometry
<1>3. y \in 0 .. A * G - 1 /\ y \in Nat
  BY <1>1, <1>2
<1>4. PICK W \in Nat \ {0} : W = G * G
  OBVIOUS
<1>5. PICK n \in 0 .. A - 1, b \in 0 .. G - 1 : n = y \div G /\ b = y % G
  <2>1. y \div G \in 0 .. A - 1 /\ y % G \in 0 .. G - 1
    BY <1>3, DigitsBelow, DivMod
  <2> QED BY <2>1
<1>6. PICK r \in 0 .. W - 1 : r = b * G + a
  <2>1. a \in 0 .. G - 1
    BY <1>1
  <2>2. b * G + a \in 0 .. G * G - 1
    BY <2>1, DigitsBound
  <2> QED BY <1>4, <2>2
<1>7. PICK q \in Nat, e \in 0 .. 1 : q = xt \div 2 /\ xt = 2 * q + e
  BY HalfParity
<1>8. PICK M \in Nat \ {0}, z \in Nat : M = A * W /\ z = n * W + r
  OBVIOUS
<1>9. z \in 0 .. M - 1
  <2>1. n * W + r \in 0 .. A * W - 1
    BY DigitsBound
  <2> QED BY <1>8, <2>1
<1>10. prev = xt * M + z
  <2>1. xt * (A * G) * G + n * G * G + b * G + a = xt * (A * (G * G)) + (n * (G * G) + (b * G + a))
    <3>1. PICK u1 \in Int, u2 \in Int, u3 \in Int :
            u1 = xt * (A * (G * G)) /\ u2 = n * (G * G) /\ u3 = b * G
      OBVIOUS
    <3>2. xt * (A * G) * G = u1 /\ n * G * G = u2
      BY <3>1
    <3>3. a \in Int
      BY <1>1
    <3> QED BY <3>1, <3>2, <3>3
  <2> QED BY <1>1, <1>2, <1>4, <1>5, <1>6, <1>8, <2>1
<1>11. prev % M = z
  BY <1>9, <1>10, DivNat, Zenon
<1>12. z \div W = n
  <2>1. n \in Nat
    OBVIOUS
  <2> QED BY <1>8, <2>1, DivNat, Zenon
<1>13. PICK v \in Nat : v = xt * A + n
  OBVIOUS
<1>14. prev \div W = v
  <2>1. xt * (A * W) + (n * W + r) = (xt * A + n) * W + r
    OBVIOUS
  <2>2. prev = v * W + r
    BY <1>8, <1>10, <1>13, <2>1
  <2> QED BY <2>2, DivNat, Zenon
<1>15. PICK D \in Nat \ {0}, w \in Nat : D = 2 * A /\ w = e * A + n
  OBVIOUS
<1>16. w \in 0 .. D - 1
  <2>1. e * A + n \in 0 .. 2 * A - 1
    BY DigitsBound
  <2> QED BY <1>15, <2>1
<1>17. v \div D = q
  <2>1. (2 * q + e) * A + n = q * (2 * A) + (e * A + n)
    OBVIOUS
  <2>2. v = q * D + w
    BY <1>7, <1>13, <1>15, <2>1
  <2> QED BY <1>16, <2>2, DivNat, Zenon
<1>18. NumBanks * NumChan = D /\ NumGrf * NumGrf * NumPimBlocks * NumChan = M /\ NumGrf * NumGrf = W
  <2>1. PICK P \in Nat, C \in Nat : P = NumPimBlocks /\ C = NumChan
    BY Positive
  <2>2. NumBanks = 2 * P /\ A = P * C
    BY <1>1, <2>1, Geometry DEF AllParts
  <2>3. (2 * P) * C = 2 * (P * C) /\ W * P * C = (P * C) * W
    OBVIOUS
  <2> QED BY <1>1, <1>4, <1>8, <1>15, <2>1, <2>2, <2>3
<1> QED BY <1>1, <1>5, <1>7, <1>11, <1>12, <1>14, <1>17, <1>18, Zenon

\* The pair of banks counted in the channel and in its group.
LEMMA UnitInGroup ==
  ASSUME NEW n \in Nat
  PROVE  (n % NumPimBlocks) % BgUnits = n % BgUnits
<1>1. PICK B \in Nat \ {0}, H \in Nat \ {0}, P \in Nat \ {0} :
        B = NumBg /\ H = BgUnits /\ P = NumPimBlocks
  BY Positive
<1>2. P = B * H
  BY <1>1, Geometry
<1>3. PICK c \in Nat, r \in 0 .. P - 1 : c = n \div P /\ r = n % P /\ n = c * P + r
  BY DivSplit, Zenon
<1>4. r \in Nat
  OBVIOUS
<1>5. PICK g \in Nat, h \in 0 .. H - 1 : g = r \div H /\ h = r % H /\ r = g * H + h
  BY <1>4, DivSplit, Zenon
<1>6. PICK v \in Nat : v = c * B + g
  OBVIOUS
<1>7. n = v * H + h
  <2>1. c * (B * H) + (g * H + h) = (c * B + g) * H + h
    OBVIOUS
  <2> QED BY <1>2, <1>3, <1>5, <1>6, <2>1
<1>8. n % H = h
  BY <1>7, DivNat, Zenon
<1> QED BY <1>1, <1>3, <1>5, <1>8, Zenon

\* The items before item k of the output at y in its tile, and the place of that
\* item, in tile t of the outputs.
Before(y, k) == (k \div NumGrf) * OutTile * NumGrf + (y \div NumGrf) * NumGrf * NumGrf
                  + (y % NumGrf) * NumGrf + (k % NumGrf)
PlaceAt(s, t, y, k) ==
  LET unit == y \div NumGrf
  IN  <<unit \div NumPimBlocks, (unit % NumPimBlocks) \div (BanksPerBg \div 2),
        2 * (unit % (BanksPerBg \div 2)) + ((k \div NumGrf) % 2),
        (t * (s.in_cnt \div (2 * NumGrf)) + (k \div (2 * NumGrf))) * NumGrf * NumGrf
          + (y % NumGrf) * NumGrf + (k % NumGrf)>>

\* PlaceOf computes that.
LEMMA PlaceOfIs ==
  ASSUME NEW s, WholeTiles(s), OutParts(s) = 1, NEW t \in Nat, NEW y \in 0 .. OutTile - 1,
         NEW k \in 0 .. s.in_cnt - 1
  PROVE  PlaceOf(t * OutCnt(s) * s.in_cnt, Before(y, k), k \div NumGrf, y % NumGrf, k % NumGrf)
           = PlaceAt(s, t, y, k)
<1>0. PICK base, prev : base = t * OutCnt(s) * s.in_cnt /\ prev = Before(y, k)
  OBVIOUS
<1>1. PICK X \in Nat \ {0}, G \in Nat \ {0} : X = TilePairs(s) /\ G = NumGrf
  BY Shape, Positive
<1>2. k \in 0 .. (2 * X) * NumGrf - 1
  BY <1>1, Shape
<1>3. PICK xt \in Nat, a \in 0 .. NumGrf - 1, q \in Nat :
        xt = k \div NumGrf /\ a = k % NumGrf /\ q = k \div (2 * NumGrf) /\ q = xt \div 2
  <2>1. /\ k \div NumGrf \in 0 .. 2 * X - 1 /\ k % NumGrf \in 0 .. NumGrf - 1
        /\ k \div (2 * NumGrf) = (k \div NumGrf) \div 2
    BY <1>2, InputDigits
  <2>2. (k \div NumGrf) \div 2 \in Nat
    BY <2>1
  <2> QED BY <2>1, <2>2
<1>4. PICK unit \in Nat, b \in 0 .. G - 1 : unit = y \div NumGrf /\ b = y % NumGrf
  <2>1. y \in Nat
    BY Positive
  <2> QED BY <1>1, <2>1, DivSplit
<1>5. /\ (prev \div (NumGrf * NumGrf)) \div (NumBanks * NumChan) = q
      /\ (prev % (NumGrf * NumGrf * NumPimBlocks * NumChan)) \div (NumGrf * NumGrf) = unit
  BY <1>0, <1>3, <1>4, PlaceNumbers DEF Before
<1>6. NumPimBlocks \div NumBg = BgUnits /\ BanksPerBg \div 2 = BgUnits
  BY Geometry DEF BgUnits
<1>7. (unit % NumPimBlocks) % BgUnits = unit % BgUnits
  BY UnitInGroup
<1>8. PerBank(base) = t * 1 * X * (G * G)
  BY <1>0, <1>1, PerBankBase
<1>9. PerBank(base) + q * NumGrf * NumGrf + b * NumGrf + a
        = (t * X + q) * NumGrf * NumGrf + b * NumGrf + a
  <2>1. t * 1 * X * (G * G) + q * G * G = (t * X + q) * G * G
    OBVIOUS
  <2> QED BY <1>1, <1>8, <2>1, Zenon
<1>10. PlaceOf(base, prev, xt, b, a)
         = <<unit \div NumPimBlocks, (unit % NumPimBlocks) \div (NumPimBlocks \div NumBg),
             2 * ((unit % NumPimBlocks) % (NumPimBlocks \div NumBg)) + (xt % 2),
             PerBank(base) + q * NumGrf * NumGrf + b * NumGrf + a>>
  BY <1>5, Zenon DEF PlaceOf
<1>11. X = s.in_cnt \div (2 * NumGrf)
  BY <1>1 DEF TilePairs
<1> QED BY <1>0, <1>3, <1>4, <1>6, <1>7, <1>9, <1>10, <1>11, Zenon DEF PlaceAt

\* Weights that the device's index arithmetic is right for: by channels, or with
\* one tile of outputs.
FitsDevice(s) == check_chwise_gemm_bo(s) \/ s.out = OutTile

\* The place fill_gemm_weight gives an item.
PlaceIn(s, m, o, k) ==
  IF check_chwise_gemm_bo(s) THEN convert_idx_chwise(s, m, o, k) ELSE convert_idx_aligned(s, m, o, k)

\* The device puts each item where the kernels read it.
LEMMA PlaceIsRead ==
  ASSUME NEW s, WholeTiles(s), FitsDevice(s), NEW m \in 0 .. s.nc - 1, NEW o \in 0 .. s.out - 1,
         NEW k \in 0 .. s.in_cnt - 1
  PROVE  PlaceIn(s, m, o, k) = ReadFrom(s, m, o, k)
<1>1. PICK T \in Nat \ {0}, G \in Nat \ {0} : T = OutTile /\ G = NumGrf
  BY Positive
<1>2. m \in Nat /\ o \in Nat /\ s.out \in Nat \ {0} /\ s.in_cnt \in Nat
  BY DEF WholeTiles
<1>3. CASE check_chwise_gemm_bo(s)
  <2>1. OutParts(s) = 1 /\ OutCnt(s) = OutTile
    BY <1>3, Shape DEF OutCnt
  <2>2. PICK f \in Nat : f = m * s.out + o
    BY <1>2
  <2>3. PICK t \in Nat, y \in 0 .. OutTile - 1 : t = f \div OutTile /\ y = f % OutTile
    BY <1>1, DivSplit
  <2>4. convert_idx_chwise(s, m, o, k)
          = PlaceOf(t * OutCnt(s) * s.in_cnt, Before(y, k), k \div NumGrf, y % NumGrf, k % NumGrf)
    BY <2>1, <2>2, <2>3, Zenon DEF convert_idx_chwise, Before
  <2>5. convert_idx_chwise(s, m, o, k) = PlaceAt(s, t, y, k)
    BY <2>1, <2>4, PlaceOfIs
  <2> QED BY <1>3, <2>2, <2>3, <2>5, Zenon DEF PlaceIn, ReadFrom, PlaceAt
<1>4. CASE ~check_chwise_gemm_bo(s)
  <2>1. s.out = OutTile /\ OutCnt(s) = OutTile
    BY <1>4 DEF FitsDevice, OutCnt
  <2>2. OutParts(s) = 1 /\ OutTile \div OutTile = 1
    BY <1>1, <2>1 DEF OutParts
  <2>3. o \in 0 .. OutTile - 1
    BY <2>1
  <2>4. o \div OutTile = 0 /\ o % OutTile = o
    <3>1. o \in 0 .. T - 1
      BY <1>1, <2>3
    <3>2. o \div T = 0 /\ o % T = o
      BY <3>1
    <3> QED BY <1>1, <3>2
  <2>5. convert_idx_aligned(s, m, o, k)
          = PlaceOf(m * OutCnt(s) * s.in_cnt, Before(o, k), k \div NumGrf, o % NumGrf, k % NumGrf)
    <3>1. m * OutCnt(s) * s.in_cnt = m * s.in_cnt * s.out
      BY <1>1, <1>2, <2>1
    <3>2. 0 * (OutTile * s.in_cnt * NumGrf) + (k \div NumGrf) * OutTile * NumGrf
            = (k \div NumGrf) * OutTile * NumGrf
      <4>1. (k \div NumGrf) \in Int /\ k \in Int
        BY <1>1, <1>2
      <4>2. (k \div NumGrf) * OutTile * NumGrf \in Int /\ OutTile * s.in_cnt * NumGrf \in Int
        BY <1>1, <1>2, <4>1
      <4> QED BY <4>2
    <3>3. Before(o, k) = (o \div OutTile) * (OutTile * s.in_cnt * NumGrf) + (k \div NumGrf) * OutTile * NumGrf
                  + ((o % OutTile) \div NumGrf) * NumGrf * NumGrf + ((o % OutTile) % NumGrf) * NumGrf
                  + (k % NumGrf)
      BY <2>4, <3>2, Zenon DEF Before
    <3> QED BY <2>4, <3>1, <3>3, Zenon DEF convert_idx_aligned
  <2>6. convert_idx_aligned(s, m, o, k) = PlaceAt(s, m, o, k)
    BY <1>2, <2>2, <2>3, <2>5, PlaceOfIs
  <2>7. m * (s.out \div OutTile) + (o \div OutTile) = m
    BY <1>2, <2>1, <2>2, <2>4
  <2> QED BY <1>4, <2>4, <2>6, <2>7, Zenon DEF PlaceIn, ReadFrom, PlaceAt
<1> QED BY <1>3, <1>4

\* No two items are read from one cell.
LEMMA ReadUnique ==
  ASSUME NEW s, WholeTiles(s),
         NEW m \in 0 .. s.nc - 1, NEW o \in 0 .. s.out - 1, NEW k \in 0 .. s.in_cnt - 1,
         NEW n \in 0 .. s.nc - 1, NEW q \in 0 .. s.out - 1, NEW l \in 0 .. s.in_cnt - 1,
         ReadFrom(s, m, o, k) = ReadFrom(s, n, q, l)
  PROVE  m = n /\ o = q /\ k = l
<1>1. PICK p \in Parts(s), b \in 0 .. NumGrf - 1, a \in 0 .. NumGrf - 1 :
        /\ ReadFrom(s, m, o, k) = Cell(s, p, b, a)
        /\ (m * s.out + o) * s.in_cnt + k = Item(s, p, b, a)
  BY ReadCell
<1>2. PICK r \in Parts(s), d \in 0 .. NumGrf - 1, e \in 0 .. NumGrf - 1 :
        /\ ReadFrom(s, n, q, l) = Cell(s, r, d, e)
        /\ (n * s.out + q) * s.in_cnt + l = Item(s, r, d, e)
  BY ReadCell
<1>3. p = r /\ b = d /\ a = e
  <2>1. Cell(s, p, b, a) = Cell(s, r, d, e)
    BY <1>1, <1>2, Zenon
  <2> QED BY <2>1, CellUnique
<1>4. (m * s.out + o) * s.in_cnt + k = (n * s.out + q) * s.in_cnt + l
  BY <1>1, <1>2, <1>3, Zenon
<1>5. PICK out \in Nat \ {0}, i \in Nat \ {0} : out = s.out /\ i = s.in_cnt
  BY DEF WholeTiles
<1>6. PICK v \in Int, w \in Int : v = m * out + o /\ w = n * out + q
  BY <1>5
<1>7. v * i + k = w * i + l /\ k \in 0 .. i - 1 /\ l \in 0 .. i - 1
  BY <1>4, <1>5, <1>6
<1>8. v = w /\ k = l
  BY <1>7, DigitsUnique
<1>9. m * out + o = n * out + q /\ o \in 0 .. out - 1 /\ q \in 0 .. out - 1 /\ m \in Int /\ n \in Int
  BY <1>5, <1>6, <1>8
<1>10. m = n /\ o = q
  BY <1>9, DigitsUnique
<1> QED BY <1>8, <1>10

\* Every item is at the cell the kernels read it from.
LaidOut(s, d) ==
  \A m \in 0 .. s.nc - 1, o \in 0 .. s.out - 1, k \in 0 .. s.in_cnt - 1 :
    /\ ReadFrom(s, m, o, k) \in DOMAIN d
    /\ d[ReadFrom(s, m, o, k)] = (m * s.out + o) * s.in_cnt + k

\* What the threads of fill_gemm_weight do together.
LEMMA DeviceLaysOut ==
  ASSUME NEW s, WholeTiles(s), FitsDevice(s)
  PROVE  LaidOut(s, fill_gemm_weight(s))
<1> SUFFICES ASSUME NEW m \in 0 .. s.nc - 1, NEW o \in 0 .. s.out - 1, NEW k \in 0 .. s.in_cnt - 1
             PROVE  /\ ReadFrom(s, m, o, k) \in DOMAIN fill_gemm_weight(s)
                    /\ fill_gemm_weight(s)[ReadFrom(s, m, o, k)] = (m * s.out + o) * s.in_cnt + k
  BY Zenon DEF LaidOut
<1> DEFINE items == (0 .. s.nc - 1) \X (0 .. s.out - 1) \X (0 .. s.in_cnt - 1)
           place == [i \in items |-> IF check_chwise_gemm_bo(s)
                                       THEN convert_idx_chwise(s, i[1], i[2], i[3])
                                       ELSE convert_idx_aligned(s, i[1], i[2], i[3])]
           item(i) == (i[1] * s.out + i[2]) * s.in_cnt + i[3]
           others(d) == {i \in items : place[i] = d}
<1>1. fill_gemm_weight(s) =
        [d \in {place[i] : i \in items} |->
           IF \E i \in others(d) : others(d) = {i} THEN item(CHOOSE i \in others(d) : TRUE) ELSE Unknown]
  BY Zenon DEF fill_gemm_weight
<1>2. ASSUME NEW i \in items
      PROVE  /\ i[1] \in 0 .. s.nc - 1 /\ i[2] \in 0 .. s.out - 1 /\ i[3] \in 0 .. s.in_cnt - 1
             /\ i = <<i[1], i[2], i[3]>>
  OBVIOUS
<1>3. ASSUME NEW i \in items PROVE place[i] = ReadFrom(s, i[1], i[2], i[3])
  <2>1. place[i] = PlaceIn(s, i[1], i[2], i[3])
    BY Zenon DEF PlaceIn
  <2> QED BY <1>2, <2>1, PlaceIsRead
<1>4. PICK i : i = <<m, o, k>>
  OBVIOUS
<1>5. i \in items /\ i[1] = m /\ i[2] = o /\ i[3] = k
  BY <1>4
<1> HIDE DEF items, place
<1>6. PICK d : d = ReadFrom(s, m, o, k)
  OBVIOUS
<1>7. place[i] = d
  BY <1>3, <1>5, <1>6, Zenon
<1>8. d \in {place[j] : j \in items}
  BY <1>5, <1>7, Zenon
<1>9. others(d) = {i}
  <2>1. ASSUME NEW j \in items, place[j] = d PROVE j = i
    <3>1. ReadFrom(s, j[1], j[2], j[3]) = ReadFrom(s, m, o, k)
      BY <1>3, <1>6, <2>1, Zenon
    <3>2. j[1] = m /\ j[2] = o /\ j[3] = k
      BY <1>2, <3>1, ReadUnique
    <3> QED BY <1>2, <1>4, <3>2, Zenon
  <2> QED BY <1>5, <1>7, <2>1, Zenon
<1> HIDE DEF others
<1>10. (CHOOSE j \in others(d) : TRUE) = i
  BY <1>9, Zenon
<1>11. \E j \in others(d) : others(d) = {j}
  BY <1>9, Zenon
<1> HIDE DEF item
<1>12. d \in DOMAIN fill_gemm_weight(s) /\ fill_gemm_weight(s)[d] = item(i)
  BY <1>1, <1>8, <1>10, <1>11, Zenon
<1>13. item(i) = (m * s.out + o) * s.in_cnt + k
  BY <1>5, Zenon DEF item
<1> QED BY <1>6, <1>12, <1>13, Zenon

-----------------------------------------------------------------------------
(* The conversion.                                                         *)

\* The items of part r are at their cells in d.
PartLaid(s, d, r) ==
  \A b, a \in 0 .. NumGrf - 1 :
    Cell(s, r, b, a) \in DOMAIN d /\ d[Cell(s, r, b, a)] = Item(s, r, b, a)

\* Those of the parts before p are.
LaidBefore(s, d, p) == \A r \in Parts(s) : Precedes(r, p) => PartLaid(s, d, r)

\* A step lays out its part and leaves the others as they are.
LEMMA PartsLaid ==
  ASSUME NEW s, WholeTiles(s), NEW p \in Parts(s), NEW d, LaidBefore(s, d, p),
         NEW r \in Parts(s), Precedes(r, p) \/ r = p
  PROVE  PartLaid(s, Over(TilePart(At(s, p)), d), r)
<1>1. PICK t : t = TilePart(At(s, p))
  OBVIOUS
<1>2. /\ \A b, a \in 0 .. NumGrf - 1 :
           Cell(s, p, b, a) \in DOMAIN t /\ t[Cell(s, p, b, a)] = Item(s, p, b, a)
      /\ \A c \in DOMAIN t : \E b, a \in 0 .. NumGrf - 1 : c = Cell(s, p, b, a)
  BY <1>1, PartCopied
<1>3. PICK e : e = Over(t, d)
  OBVIOUS
<1>4. /\ DOMAIN e = DOMAIN t \cup DOMAIN d
      /\ \A c \in DOMAIN e : e[c] = IF c \in DOMAIN t THEN t[c] ELSE d[c]
  BY <1>3, Zenon DEF Over
<1>5. ASSUME NEW b \in 0 .. NumGrf - 1, NEW a \in 0 .. NumGrf - 1
      PROVE  Cell(s, r, b, a) \in DOMAIN e /\ e[Cell(s, r, b, a)] = Item(s, r, b, a)
  <2>1. CASE r = p
    BY <1>2, <1>4, <2>1, Zenon
  <2>2. CASE r # p
    <3>1. Cell(s, r, b, a) \in DOMAIN d /\ d[Cell(s, r, b, a)] = Item(s, r, b, a)
      BY <2>2, Zenon DEF LaidBefore, PartLaid
    <3>2. Cell(s, r, b, a) \notin DOMAIN t
      <4> SUFFICES ASSUME Cell(s, r, b, a) \in DOMAIN t PROVE FALSE
        OBVIOUS
      <4>1. PICK f \in 0 .. NumGrf - 1, h \in 0 .. NumGrf - 1 : Cell(s, r, b, a) = Cell(s, p, f, h)
        BY <1>2, Zenon
      <4>2. r = p
        BY <4>1, CellUnique
      <4> QED BY <2>2, <4>2
    <3> QED BY <1>4, <3>1, <3>2, Zenon
  <2> QED BY <2>1, <2>2
<1> QED BY <1>1, <1>3, <1>5, Zenon DEF PartLaid

\* When all parts are laid out, all items are where the kernels read them.
LEMMA AllLaid ==
  ASSUME NEW s, WholeTiles(s), NEW d, \A r \in Parts(s) : PartLaid(s, d, r)
  PROVE  LaidOut(s, d)
<1> SUFFICES ASSUME NEW m \in 0 .. s.nc - 1, NEW o \in 0 .. s.out - 1, NEW k \in 0 .. s.in_cnt - 1
             PROVE  /\ ReadFrom(s, m, o, k) \in DOMAIN d
                    /\ d[ReadFrom(s, m, o, k)] = (m * s.out + o) * s.in_cnt + k
  BY Zenon DEF LaidOut
<1>1. PICK p \in Parts(s), b \in 0 .. NumGrf - 1, a \in 0 .. NumGrf - 1 :
        /\ ReadFrom(s, m, o, k) = Cell(s, p, b, a)
        /\ (m * s.out + o) * s.in_cnt + k = Item(s, p, b, a)
  BY ReadCell
<1> QED BY <1>1, Zenon DEF PartLaid

\* A conversion c with destination d: on the host the counters are those of a
\* part, and the parts before it are laid out.
ConvOK(c, d) ==
  /\ c.pc = "host" => /\ WholeTiles(c.s)
                      /\ \E p \in Parts(c.s) : c = At(c.s, p) /\ LaidBefore(c.s, d, p)
  /\ c.pc = "converted" => LaidOut(c.s, d)

\* At the beginning nothing has to be laid out.
LEMMA BeginOK ==
  ASSUME NEW s, WholeTiles(s), NEW d
  PROVE  ConvOK(Begin(s), d)
<1>1. PICK p : p = Part(0, 0, 0, 0, 0, 0)
  OBVIOUS
<1>2. /\ 0 \in 0 .. Iterations(s) - 1 /\ 0 \in 0 .. OutParts(s) - 1 /\ 0 \in 0 .. 2 * TilePairs(s) - 1
      /\ 0 \in 0 .. NumChan - 1 /\ 0 \in 0 .. NumBg - 1 /\ 0 \in 0 .. BgUnits - 1
  BY Shape, Positive
<1>3. /\ p \in Parts(s) /\ p.it = 0 /\ p.yt = 0 /\ p.xt = 0 /\ p.ch = 0 /\ p.g = 0 /\ p.h = 0
      /\ Unit(p) = (0 * NumBg + 0) * BgUnits + 0
  BY <1>1, <1>2, PartIn
<1>4. Unit(p) = 0 /\ 0 * OutTile = 0 /\ 0 * NumGrf = 0 /\ 2 * 0 = 0
  BY <1>3, Positive
<1>5. Starts(s, p) = [q \in 0 .. 1 |-> 0]
  <2>1. PICK X \in Nat \ {0}, W \in Nat : X = TilePairs(s) /\ W = NumGrf * NumGrf
    BY Shape, Positive
  <2>2. ASSUME NEW q \in 0 .. 1 PROVE StartAt(X, W, 0, 0, q) = 0
    <3>1. StartMoves(X, W, 0, 0, q)
      BY StartsMove
    <3> QED BY <3>1, Zenon DEF StartMoves
  <2>3. Starts(s, p) = [q \in 0 .. 1 |-> StartAt(X, W, 0, 0, q)]
    BY <1>3, <2>1, Zenon DEF Starts
  <2> QED BY <2>2, <2>3
<1>6. At(s, p) = Counters(s, 0, 0, 0, 0, 0, 0, 0, [q \in 0 .. 1 |-> 0])
  BY <1>3, <1>4, <1>5, Zenon DEF At
<1>7. Begin(s) = At(s, p)
  BY <1>6, Zenon DEF Begin, Counters
<1>8. LaidBefore(s, d, p)
  <2>1. ASSUME NEW r \in Parts(s) PROVE ~Precedes(r, p)
    <3>1. r.it \in Nat /\ r.yt \in Nat /\ r.xt \in Nat /\ Unit(r) \in Nat
      BY PartFields, UnitBound
    <3> QED BY <1>3, <1>4, <3>1 DEF Precedes
  <2> QED BY <2>1, Zenon DEF LaidBefore
<1>9. Begin(s).pc = "host" /\ Begin(s).s = s
  BY DEF Begin
<1> QED BY <1>3, <1>7, <1>8, <1>9, Zenon DEF ConvOK

\* A copied part goes where it belongs.
LEMMA CopyOK ==
  ASSUME NEW c, NEW d, ConvOK(c, d), c.pc = "host"
  PROVE  ConvOK(Advance(c), Over(TilePart(c), d))
<1>1. PICK s : s = c.s
  OBVIOUS
<1>2. WholeTiles(s)
  BY <1>1, Zenon DEF ConvOK
<1>3. PICK p \in Parts(s) : c = At(s, p) /\ LaidBefore(s, d, p)
  BY <1>1, Zenon DEF ConvOK
<1>4. PICK e : e = Over(TilePart(c), d)
  OBVIOUS
<1>5. \A r \in Parts(s) : Precedes(r, p) \/ r = p => PartLaid(s, e, r)
  BY <1>2, <1>3, <1>4, PartsLaid
<1>6. CASE \E q \in Parts(s) : Advance(At(s, p)) = At(s, q) /\ Follows(s, q, p)
  <2>1. PICK q \in Parts(s) : Advance(At(s, p)) = At(s, q) /\ Follows(s, q, p)
    BY <1>6
  <2>2. LaidBefore(s, e, q)
    BY <1>5, <2>1, Zenon DEF LaidBefore, Follows
  <2>3. At(s, q).pc = "host" /\ At(s, q).s = s
    BY AtFields
  <2> QED BY <1>2, <1>3, <1>4, <2>1, <2>2, <2>3, Zenon DEF ConvOK
<1>7. CASE /\ Advance(At(s, p)) = [pc |-> "converted", s |-> s]
           /\ \A r \in Parts(s) : Precedes(r, p) \/ r = p
  <2>1. LaidOut(s, e)
    <3>1. \A r \in Parts(s) : PartLaid(s, e, r)
      BY <1>5, <1>7, Zenon
    <3> QED BY <1>2, <3>1, AllLaid, Zenon
  <2>2. Advance(c).pc = "converted" /\ Advance(c).s = s
    BY <1>3, <1>7
  <2> QED BY <1>4, <2>1, <2>2, Zenon DEF ConvOK
<1> QED BY <1>2, <1>6, <1>7, AdvanceAt

\* The shapes of the weights: whole tiles, and on the device those its index
\* arithmetic is right for.
WholeJobs ==
  \A j \in Jobs : IsGemm(j) => WholeTiles(j.s) /\ (j.on_device => FitsDevice(j.s))

\* The steps that change a conversion keep it right.
LEMMA ConversionSteps ==
  ASSUME WholeJobs, ConvOK(conv, dst), [Next]_vars
  PROVE  ConvOK(conv', dst')
<1>1. ASSUME conv'.pc = "idle" PROVE ConvOK(conv', dst')
  BY <1>1, Zenon DEF ConvOK
<1>2. ConvIdle.pc = "idle"
  BY DEF ConvIdle
<1>3. CASE UNCHANGED <<conv, dst>>
  BY <1>3, Zenon
<1>4. ASSUME NEW j \in Jobs, ConvertWeight(j) PROVE ConvOK(conv', dst')
  <2>1. WholeTiles(j.s) /\ (j.on_device => FitsDevice(j.s))
    BY <1>4, Zenon DEF WholeJobs, ConvertWeight
  <2>2. CASE j.on_device
    <3>1. dst' = fill_gemm_weight(j.s) /\ conv' = [pc |-> "converted", s |-> j.s]
      BY <1>4, <2>2, Zenon DEF ConvertWeight, StartConversion
    <3>2. conv'.pc = "converted" /\ conv'.s = j.s
      BY <3>1
    <3>3. LaidOut(j.s, dst')
      BY <2>1, <2>2, <3>1, DeviceLaysOut, Zenon
    <3> QED BY <3>2, <3>3, Zenon DEF ConvOK
  <2>3. CASE ~j.on_device
    <3>1. conv' = Begin(j.s)
      BY <1>4, <2>3, Zenon DEF ConvertWeight, StartConversion
    <3> QED BY <2>1, <3>1, BeginOK, Zenon
  <2> QED BY <2>2, <2>3
<1>5. CASE Converting
  <2>1. CASE ConvertTilePart
    <3>1. conv.pc = "host" /\ dst' = Over(TilePart(conv), dst) /\ conv' = Advance(conv)
      BY <2>1 DEF ConvertTilePart
    <3>2. ConvOK(Advance(conv), Over(TilePart(conv), dst))
      BY <3>1, CopyOK, Zenon
    <3> QED BY <3>1, <3>2, Zenon
  <2>2. CASE ConvertFails
    BY <1>1, <1>2, <2>2, Zenon DEF ConvertFails
  <2> QED BY <1>5, <2>1, <2>2 DEF Converting, LayoutNext
<1>6. CASE LaunchGemm
  BY <1>1, <1>2, <1>6, Zenon DEF LaunchGemm
<1>7. ASSUME NEW j \in Jobs, LaunchElt(j) PROVE ConvOK(conv', dst')
  BY <1>3, <1>7, Zenon DEF LaunchElt
<1>8. CASE Access
  BY <1>3, <1>8, Zenon DEF Access
<1>9. CASE Finish
  BY <1>3, <1>9, Zenon DEF Finish
<1>10. CASE Return
  BY <1>3, <1>10, Zenon DEF Return
<1>11. CASE UNCHANGED vars
  BY <1>3, <1>11, Zenon DEF vars
<1> QED BY <1>4, <1>5, <1>6, <1>7, <1>8, <1>9, <1>10, <1>11, Zenon DEF Next

\* Converted weights are where the kernels read them, each item once: in whole
\* tiles of every geometry and shape, on the host by the carries of the loops'
\* counters and the starts of the even and odd tiles, and on the device for the
\* shapes its index arithmetic is right for.
THEOREM WeightsLaidOut == ASSUME WholeJobs PROVE Spec => []LayoutRight
<1>1. Init => ConvOK(conv, dst)
  <2> SUFFICES ASSUME Init PROVE ConvOK(conv, dst)
    OBVIOUS
  <2>1. conv = ConvIdle
    BY DEF Init, LayoutInit
  <2>2. conv.pc = "idle"
    BY <2>1 DEF ConvIdle
  <2> QED BY <2>2, Zenon DEF ConvOK
<1>2. ConvOK(conv, dst) /\ [Next]_vars => ConvOK(conv, dst)'
  <2> SUFFICES ASSUME ConvOK(conv, dst), [Next]_vars PROVE ConvOK(conv', dst')
    BY DEF ConvOK
  <2> QED BY ConversionSteps
<1>3. ConvOK(conv, dst) => LayoutRight
  BY Zenon DEF ConvOK, LayoutRight, LaidOut
<1> QED BY <1>1, <1>2, <1>3, PTL DEF Spec

-----------------------------------------------------------------------------
(* Types.                                                                  *)

\* A unit with a program that make_crf_bin made, or with parts of some: the
\* program counter is in it or one behind it, and jumps are not taken more often
\* than the largest count.
UnitOK(v) ==
  /\ DOMAIN v = UnitFields /\ v.mode \in {"SB", "HAB", "HAB_PIM"} /\ v.ab \in 0 .. 4
  /\ WellFormed(v.crf) /\ v.pc \in 0 .. 16 /\ v.jump.left \in 0 .. MaxLoop

\* The next instruction is one the CRF has room for, whichever jumps are taken.
LEMMA StepOK ==
  ASSUME NEW v, UnitOK(v)
  PROVE  UnitOK(Step(v))
<1>1. CASE Fetch(v).type \in {"EXIT", "?"}
  BY <1>1 DEF Step
<1>2. CASE Fetch(v).type \notin {"EXIT", "?"} /\ v.rep + 1 < Takes(Fetch(v))
  <2>1. Step(v) = [v EXCEPT !.rep = v.rep + 1]
    BY <1>2 DEF Step
  <2> QED BY <2>1 DEF UnitOK, UnitFields
<1>3. CASE Fetch(v).type \notin {"EXIT", "?"} /\ ~(v.rep + 1 < Takes(Fetch(v)))
  <2>0. Step(v) = AfterInstruction(v)
    BY <1>3 DEF Step
  <2>1. v.pc \in DOMAIN v.crf
    BY <1>3 DEF Fetch, PimCommand
  <2>2. v.pc \in 0 .. 15
    BY <2>1 DEF UnitOK, WellFormed
  <2>3. PICK n \in 1 .. 16 : n = v.pc + 1
    BY <2>2
  <2>4. PICK cmd : cmd = Fetch([v EXCEPT !.pc = n])
    OBVIOUS
  <2>5. PICK left : left = IF v.jump.at = n THEN v.jump.left ELSE cmd.loop_counter
    OBVIOUS
  <2>6. AfterInstruction(v) =
          IF cmd.type # "JUMP" THEN [v EXCEPT !.pc = n, !.rep = 0]
          ELSE IF left > 0
            THEN [v EXCEPT !.pc = n - cmd.loop_offset + 1, !.rep = 0,
                           !.jump = [at |-> n, left |-> left - 1]]
            ELSE [v EXCEPT !.pc = n + 1, !.rep = 0, !.jump = [at |-> n, left |-> 0]]
    BY <2>3, <2>4, <2>5, Zenon DEF AfterInstruction
  <2>7. CASE cmd.type # "JUMP"
    BY <2>0, <2>6, <2>7 DEF UnitOK, UnitFields
  <2>8. CASE cmd.type = "JUMP"
    <3>1. n \in DOMAIN v.crf /\ cmd = v.crf[n]
      BY <2>4, <2>8 DEF Fetch, PimCommand, UnitOK, UnitFields
    <3>2. n \in 0 .. 15 /\ cmd.loop_counter \in 0 .. MaxLoop /\ cmd.loop_offset \in 0 .. n + 1
      BY <2>8, <3>1 DEF UnitOK, WellFormed
    <3>3. MaxLoop \in Nat
      BY MaxLoopIs
    <3>4. left \in 0 .. MaxLoop
      BY <2>5, <3>2 DEF UnitOK
    <3>5. CASE left > 0
      <4>1. PICK x \in 0 .. 16 : x = n - cmd.loop_offset + 1
        BY <3>2
      <4>2. PICK j : j = [at |-> n, left |-> left - 1]
        OBVIOUS
      <4>3. Step(v) = [v EXCEPT !.pc = x, !.rep = 0, !.jump = j]
        BY <2>0, <2>6, <2>8, <3>5, <4>1, <4>2
      <4>4. j.left \in 0 .. MaxLoop
        BY <3>3, <3>4, <3>5, <4>2
      <4> QED BY <4>3, <4>4 DEF UnitOK, UnitFields
    <3>6. CASE ~(left > 0)
      <4>1. PICK x \in 0 .. 16 : x = n + 1
        BY <3>2
      <4>2. PICK j : j = [at |-> n, left |-> 0]
        OBVIOUS
      <4>3. Step(v) = [v EXCEPT !.pc = x, !.rep = 0, !.jump = j]
        BY <2>0, <2>6, <2>8, <3>6, <4>1, <4>2
      <4>4. j.left \in 0 .. MaxLoop
        BY <3>3, <4>2
      <4> QED BY <4>3, <4>4 DEF UnitOK, UnitFields
    <3> QED BY <3>5, <3>6
  <2> QED BY <2>7, <2>8
<1> QED BY <1>1, <1>2, <1>3

\* So it is after any access of a bank.
LEMMA BankOK ==
  ASSUME NEW v, UnitOK(v), NEW c, NEW data
  PROVE  UnitOK(AfterBank(v, c, data))
<1>1. PICK w : w = Compute(v, c, IF c.k = "R" THEN data ELSE Garbage, Fetch(v))
  OBVIOUS
<1>2. SameControl(v, w)
  BY <1>1, ComputeKeepsControl DEF UnitOK
<1>3. UnitOK(w)
  BY <1>2 DEF SameControl, SameMode, UnitOK
<1>4. AfterBank(v, c, data) = IF v.mode # "HAB_PIM" THEN v ELSE Step(w)
  BY <1>1, Zenon DEF AfterBank
<1> QED BY <1>3, <1>4, StepOK

\* What the kernels write to registers: parts of a program, or the numbers that
\* lead to HAB.
Good(a) == Loads(a) /\ (a.k = "AB" => a.n \in 1 .. 4)

\* Parts of two programs are as good as one.
LEMMA PartsOfPrograms ==
  ASSUME NEW P, WellFormed(P), NEW words, WellFormed(words), NEW C, C \subseteq DOMAIN words,
         NEW Q, Q = [n \in DOMAIN P \cup C |-> IF n \in C THEN words[n] ELSE P[n]]
  PROVE  WellFormed(Q)
BY DEF WellFormed

\* So it is after any write of a register.
LEMMA RegisterOK ==
  ASSUME NEW v, UnitOK(v), NEW i, Good(i), NEW lane
  PROVE  UnitOK(AfterRegister(v, i, lane))
<1>0. PICK w : w = AfterRegister(v, i, lane)
  OBVIOUS
<1>a. 0 \in 0 .. MaxLoop /\ NoJump.left = 0
  BY MaxLoopIs DEF NoJump
<1>1. CASE v.mode = "SB" /\ i.k \notin {"AB", "SB", "PARK"}
  BY <1>1 DEF AfterRegister
<1>2. CASE ~(v.mode = "SB" /\ i.k \notin {"AB", "SB", "PARK"})
  <2>1. CASE i.k = "AB"
    BY <1>2, <2>1 DEF AfterRegister, UnitFields, UnitOK, Good
  <2>2. CASE i.k = "SB"
    BY <1>2, <2>2 DEF AfterRegister, UnitFields, UnitOK
  <2>3. CASE i.k = "HAB_PIM"
    <3>1. PICK clear : clear = IF i.clear THEN [n \in DOMAIN v.GRF_B |-> NoProducts] ELSE v.GRF_B
      OBVIOUS
    <3>2. w = [v EXCEPT !.mode = "HAB_PIM", !.pc = 0, !.rep = 0, !.jump = NoJump, !.GRF_B = clear]
      BY <1>0, <1>2, <2>3, <3>1 DEF AfterRegister
    <3>3. PICK j : j = NoJump /\ j.left \in 0 .. MaxLoop
      BY <1>a
    <3> QED BY <1>0, <2>3, <3>2, <3>3 DEF UnitFields, UnitOK
  <2>4. CASE i.k = "HAB"
    BY <1>2, <2>4 DEF AfterRegister, UnitFields, UnitOK
  <2>5. CASE i.k = "CRF"
    <3>1. PICK crf : crf = [n \in DOMAIN v.crf \cup Column(i.words, lane) |->
                              IF n \in Column(i.words, lane) THEN i.words[n] ELSE v.crf[n]]
      OBVIOUS
    <3>2. w = [v EXCEPT !.crf = crf]
      BY <1>0, <1>2, <2>5, <3>1 DEF AfterRegister
    <3>3. Column(i.words, lane) \subseteq DOMAIN i.words
      BY DEF Column
    <3>4. WellFormed(crf)
      BY <2>5, <3>1, <3>3, PartsOfPrograms DEF UnitOK, Good, Loads
    <3> QED BY <1>0, <3>2, <3>4 DEF UnitFields, UnitOK
  <2>6. CASE i.k = "SRF"
    BY <1>2, <2>6 DEF AfterRegister, UnitFields, UnitOK
  <2>7. CASE i.k = "GRF"
    BY <1>2, <2>7 DEF AfterRegister, UnitFields, UnitOK
  <2>8. CASE i.k \notin {"AB", "SB", "HAB_PIM", "HAB", "CRF", "SRF", "GRF"}
    BY <1>2, <2>8 DEF AfterRegister
  <2> QED BY <2>1, <2>2, <2>3, <2>4, <2>5, <2>6, <2>7, <2>8
<1> QED BY <1>1, <1>2

\* All accesses of a kernel are such.
LEMMA FramedGood ==
  ASSUME NEW W, Framed(W), NEW w \in 1 .. Len(W), NEW n \in DOMAIN W[w]
  PROVE  Good(W[w][n])
<1>0. Len(W) \in Nat /\ Len(W) >= 7
  BY DEF Framed
<1>1. CASE w = 1 \/ w = Len(W)
  <2>1. W[w][n].k = "PARK"
    BY <1>1 DEF Framed, Reg
  <2> QED BY <2>1 DEF Good, Loads
<1>2. CASE w \in 2 .. 5
  <2>1. PICK m \in 1 .. 4 : w = m + 1
    <3>1. w - 1 \in 1 .. 4 /\ w = (w - 1) + 1
      BY <1>2
    <3> QED BY <3>1
  <2>2. W[w] = <<[k |-> "AB", n |-> m, lanes |-> {0}]>>
    BY <2>1 DEF Framed
  <2>3. W[w][n].k = "AB" /\ W[w][n].n = m
    BY <2>2
  <2> QED BY <2>3 DEF Good, Loads
<1>3. CASE w \in 6 .. Len(W) - 2
  <2>1. Inner(W[w])
    BY <1>3 DEF Framed
  <2> QED BY <2>1 DEF Inner, Good
<1>4. CASE w = Len(W) - 1
  <2>1. W[w][n].k = "SB"
    BY <1>4 DEF Framed
  <2> QED BY <2>1 DEF Good, Loads
<1> QED BY <1>0, <1>1, <1>2, <1>3, <1>4

\* The fields of a conversion by the host.
ConvFields == {"pc", "s", "iter", "y", "x", "tiled_y", "bank", "bg", "cidx", "start"}
ConvShape(c) == c.pc \in {"idle", "converted"} \/ (c.pc = "host" /\ DOMAIN c = ConvFields)

\* A conversion by the host goes on or is complete.
LEMMA AdvanceShape ==
  ASSUME NEW c, c.pc = "host", ConvShape(c)
  PROVE  ConvShape(Advance(c))
<1>1. DOMAIN c = ConvFields
  BY DEF ConvShape
<1>2. ASSUME NEW s PROVE DOMAIN Begin(s) = ConvFields /\ Begin(s).pc = "host"
  BY DEF Begin, ConvFields
<1>3. ASSUME NEW d, DOMAIN d = ConvFields, d.pc = "host"
      PROVE  DOMAIN NextBank(d) = ConvFields /\ NextBank(d).pc = "host"
  BY <1>3 DEF NextBank, ConvFields
<1>4. DOMAIN NextStart(c) = ConvFields /\ NextStart(c).pc = "host"
  BY <1>1 DEF NextStart, ConvFields
<1>5. PICK d : d = NextBank(NextStart(c))
  OBVIOUS
<1>6. DOMAIN d = ConvFields /\ d.pc = "host"
  BY <1>3, <1>4, <1>5
<1>7. \A ty, x, y : ConvShape([d EXCEPT !.tiled_y = ty, !.x = x, !.y = y])
  BY <1>6 DEF ConvShape, ConvFields
<1>8. \A s, it : ConvShape([Begin(s) EXCEPT !.iter = it])
  <2> TAKE s, it
  <2>1. PICK b : b = Begin(s)
    OBVIOUS
  <2>2. DOMAIN b = ConvFields /\ b.pc = "host"
    BY <1>2, <2>1
  <2>3. ConvShape([b EXCEPT !.iter = it])
    BY <2>2 DEF ConvShape, ConvFields
  <2> QED BY <2>1, <2>3
<1>9. \A s : ConvShape([pc |-> "converted", s |-> s])
  BY DEF ConvShape
<1>10. \/ \E ty, x, y : Advance(c) = [d EXCEPT !.tiled_y = ty, !.x = x, !.y = y]
       \/ \E s, it : Advance(c) = [Begin(s) EXCEPT !.iter = it]
       \/ \E s : Advance(c) = [pc |-> "converted", s |-> s]
  BY <1>5, Zenon DEF Advance
<1>11. CASE \E ty, x, y : Advance(c) = [d EXCEPT !.tiled_y = ty, !.x = x, !.y = y]
  <2>1. PICK ty, x, y : Advance(c) = [d EXCEPT !.tiled_y = ty, !.x = x, !.y = y]
    BY <1>11
  <2> QED BY <1>6, <2>1 DEF ConvShape, ConvFields
<1>12. CASE \E s, it : Advance(c) = [Begin(s) EXCEPT !.iter = it]
  <2>1. PICK s, it : Advance(c) = [Begin(s) EXCEPT !.iter = it]
    BY <1>12
  <2> QED BY <1>8, <2>1
<1> QED BY <1>9, <1>10, <1>11, <1>12

\* The parts of TypeOK that ModeInv does not state.
TypeInv ==
  /\ ModeInv /\ UnitOK(u) /\ at \in Units /\ ConvShape(conv)
  /\ IF stage = "idle" THEN job = NoJob ELSE job \in Jobs

\* No operation has the name of none.
LEMMA NoJobIsNone == NoJob \notin Jobs
BY JobsAssumption DEF NoJob

\* An access keeps the unit as it has to be.
LEMMA AccessOK ==
  ASSUME TypeInv, Access
  PROVE  UnitOK(u')
<1>0. PICK W : W = Windows(job, at)
  OBVIOUS
<1>1. /\ Framed(W) /\ job \in Jobs /\ stage = "run"
      /\ PendingAt(W, window, code, pending)
  BY <1>0, KernelsFramed DEF TypeInv, ModeInv, Access
<1>2. window \in 1 .. Len(W) /\ code = W[window]
  BY <1>1 DEF Access, PendingAt, Framed
<1>3. PICK p \in Ready :
        IF code[p[1]].k \in {"R", "W"}
          THEN \E c, d : u' = AfterBank(u, c, d)
          ELSE u' = AfterRegister(u, code[p[1]], p[2])
  BY <1>0, Zenon DEF Access
<1>4. p \in pending /\ p[1] \in DOMAIN W[window]
  BY <1>1, <1>2, <1>3 DEF Ready, PendingAt
<1>5. Good(code[p[1]])
  BY <1>1, <1>2, <1>4, FramedGood
<1> QED BY <1>3, <1>5, BankOK, RegisterOK DEF TypeInv

\* The parts of a step of the model keep TypeInv.
LEMMA ModeInvStep ==
  ASSUME ModeInv, [Next]_vars
  PROVE  ModeInv'
<1>1. ASSUME NEW j \in Jobs, LaunchElt(j) PROVE ModeInv'
  BY <1>1, RunMode DEF LaunchElt
<1>2. ASSUME NEW j \in Jobs, ConvertWeight(j) PROVE ModeInv'
  BY <1>2 DEF ConvertWeight, ModeInv
<1>3. CASE Converting
  BY <1>3 DEF Converting, ModeInv
<1>4. CASE LaunchGemm
  BY <1>4, RunMode DEF LaunchGemm, ModeInv
<1>5. CASE Access
  BY <1>5, AccessKeepsMode
<1>6. CASE Finish
  BY <1>6, FinishKeepsMode
<1>7. CASE Return
  BY <1>7 DEF Return, ModeInv, UnitInit, UnitFields
<1>8. CASE UNCHANGED vars
  BY <1>8 DEF vars, ModeInv
<1> QED BY <1>1, <1>2, <1>3, <1>4, <1>5, <1>6, <1>7, <1>8 DEF Next

\* A unit whose registers nobody knows.
LEMMA InitialUnitOK ==
  ASSUME NEW mode \in {"SB", "HAB", "HAB_PIM"}, NEW ab \in 0 .. 4
  PROVE  UnitOK([UnitInit EXCEPT !.mode = mode, !.ab = ab]) /\ UnitOK(UnitInit)
<1>1. WellFormed(<< >>)
  BY DEF WellFormed
<1>2. NoJump.left \in 0 .. MaxLoop
  BY MaxLoopIs DEF NoJump
<1>3. PICK j, e : j = NoJump /\ e = << >>
  OBVIOUS
<1>4. UnitInit = [mode |-> "SB", ab |-> 0, crf |-> e, pc |-> 0, rep |-> 0,
                  jump |-> j, GRF_A |-> Regs, GRF_B |-> Regs, srf |-> FALSE]
  BY <1>3 DEF UnitInit
<1>5. WellFormed(e) /\ j.left \in 0 .. MaxLoop
  BY <1>1, <1>2, <1>3
<1> QED BY <1>4, <1>5 DEF UnitOK, UnitFields

\* A step keeps TypeInv.
LEMMA TypeInvStep ==
  ASSUME TypeInv, [Next]_vars
  PROVE  TypeInv'
<1>0. ModeInv'
  BY ModeInvStep DEF TypeInv
<1>1. ASSUME NEW j \in Jobs, LaunchElt(j) PROVE TypeInv'
  BY <1>0, <1>1 DEF LaunchElt, Run, TypeInv
<1>2. ASSUME NEW j \in Jobs, ConvertWeight(j) PROVE TypeInv'
  <2>1. ConvShape(conv')
    <3>1. conv' = [pc |-> "converted", s |-> j.s] \/ conv' = Begin(j.s)
      BY <1>2 DEF ConvertWeight, StartConversion
    <3> QED BY <3>1 DEF ConvShape, ConvFields, Begin
  <2> QED BY <1>0, <1>2, <2>1 DEF ConvertWeight, TypeInv
<1>3. CASE Converting
  <2>1. ConvShape(conv')
    <3>1. CASE ConvertTilePart
      BY <3>1, AdvanceShape DEF ConvertTilePart, TypeInv
    <3>2. CASE ConvertFails
      BY <3>2 DEF ConvertFails, ConvShape, ConvIdle
    <3> QED BY <1>3, <3>1, <3>2 DEF Converting, LayoutNext
  <2>2. IF stage' = "idle" THEN job' = NoJob ELSE job' \in Jobs
    BY <1>3 DEF Converting, TypeInv
  <2> QED BY <1>0, <1>3, <2>1, <2>2 DEF Converting, TypeInv
<1>4. CASE LaunchGemm
  <2>1. job \in Jobs
    BY <1>4 DEF LaunchGemm, TypeInv
  <2>2. ConvShape(conv')
    BY <1>4 DEF LaunchGemm, ConvShape, ConvIdle
  <2> QED BY <1>0, <1>4, <2>1, <2>2 DEF LaunchGemm, Run, TypeInv
<1>5. CASE Access
  <2>1. UnitOK(u')
    BY <1>5, AccessOK
  <2>2. stage' = stage /\ job' = job /\ at' = at /\ conv' = conv
    BY <1>5 DEF Access
  <2> QED BY <1>0, <2>1, <2>2 DEF TypeInv
<1>6. CASE Finish
  BY <1>0, <1>6 DEF Finish, TypeInv
<1>7. CASE Return
  <2>1. UnitOK(u')
    BY <1>7, InitialUnitOK DEF Return, TypeInv, UnitOK
  <2> QED BY <1>0, <1>7, <2>1 DEF Return, TypeInv
<1>8. CASE UNCHANGED vars
  BY <1>0, <1>8 DEF vars, TypeInv
<1> QED BY <1>1, <1>2, <1>3, <1>4, <1>5, <1>6, <1>7, <1>8 DEF Next

\* The types of the first state.
LEMMA TypeInit ==
  ASSUME Init
  PROVE  TypeInv
<1>1. ModeInv
  BY DEF Init, ModeInv, UnitInit, UnitFields
<1>2. UnitOK(u)
  BY InitialUnitOK DEF Init
<1>3. ConvShape(conv)
  BY DEF Init, LayoutInit, ConvIdle, ConvShape
<1> QED BY <1>1, <1>2, <1>3 DEF Init, TypeInv

\* Every state is of the types TypeOK states, for every job and every order of
\* the accesses: the program counter stays within the CRF's words and one behind
\* them, and no jump is taken more often than its 17 bits count (of the words
\* make_crf_bin makes for any size, the loop counters it truncates included).
THEOREM TypesOK == Spec => []TypeOK
<1>1. Init => TypeInv
  BY TypeInit
<1>2. TypeInv /\ [Next]_vars => TypeInv'
  BY TypeInvStep
<1>3. TypeInv => TypeOK
  <2> SUFFICES ASSUME TypeInv PROVE TypeOK
    OBVIOUS
  <2>1. stage \in {"idle", "convert", "run", "done"} /\ at \in Units
    BY DEF TypeInv, ModeInv
  <2>2. job \in Jobs \cup {NoJob} /\ (stage = "idle") = (job = NoJob)
    BY NoJobIsNone DEF TypeInv
  <2>3. u.mode \in {"SB", "HAB", "HAB_PIM"} /\ u.ab \in 0 .. 4
    BY DEF TypeInv, UnitOK
  <2>4. u.pc \in 0 .. 31 /\ u.jump.left \in 0 .. MaxLoop
    BY DEF TypeInv, UnitOK
  <2>5. ASSUME stage = "run", NEW p \in pending
        PROVE  p[1] \in DOMAIN code /\ p[2] \in code[p[1]].lanes
    <3>1. PICK W : W = Windows(job, at)
      OBVIOUS
    <3>2. Framed(W) /\ PendingAt(W, window, code, pending)
      BY <2>5, <3>1, KernelsFramed DEF TypeInv, ModeInv
    <3> QED BY <2>5, <3>2 DEF PendingAt, Framed
  <2>6. conv.pc \in {"idle", "host", "converted"}
    BY DEF TypeInv, ConvShape
  <2> QED BY <2>1, <2>2, <2>3, <2>4, <2>5, <2>6 DEF TypeOK
<1> QED BY <1>1, <1>2, <1>3, PTL DEF Spec

-----------------------------------------------------------------------------
(* Elementwise kernels: the windows of a tile, numbered from 0.            *)

EltOps == {"ADD", "MUL", "RELU", "COPY", "BN"}
TileLen(op) == CASE op \in {"ADD", "MUL"} -> 6 [] op \in {"RELU", "COPY"} -> 4 [] OTHER -> 9

\* The window that writes bank b, and the bank of a window.
WriteAt(op, b) == CASE op \in {"ADD", "MUL"} -> 2 + 3 * b [] op \in {"RELU", "COPY"} -> 1 + 2 * b
                    [] OTHER -> 7 + b
Writes(op, i) == i = WriteAt(op, 0) \/ i = WriteAt(op, 1)
BankOf(op, i) == CASE op \in {"ADD", "MUL"} -> IF i < 3 THEN 0 ELSE 1
                   [] op \in {"RELU", "COPY"} -> IF i < 2 THEN 0 ELSE 1
                   [] OTHER -> IF i \in {4, 5, 6, 8} THEN 1 ELSE 0

\* Its accesses: one read of an operand, or writes and a read of the output.
Count(op, i) == IF ~Writes(op, i) THEN 1
                ELSE CASE op \in {"ADD", "MUL"} -> 3 [] op \in {"RELU", "COPY"} -> 2 [] OTHER -> i - 6
SourceOf(op, i) == IF op \in {"ADD", "MUL"} /\ i \in {1, 4} THEN "op1" ELSE "op0"
KindOf(op, i, n) == IF Writes(op, i) /\ (n = 1 \/ n < Count(op, i)) THEN "W" ELSE "R"
TileAccess(j, base, i, n) ==
  [k |-> KindOf(j.op, i, n), buf |-> IF Writes(j.op, i) THEN j.out ELSE SourceOf(j.op, i),
   bank |-> BankOf(j.op, i), base |-> base, lanes |-> Lanes]
TileWin(j, base, i) == [n \in 1 .. Count(j.op, i) |-> TileAccess(j, base, i, n)]

\* What the kernels do for a tile, as EltKernel chooses it.
EltTile(j, base) ==
  CASE j.op \in {"ADD", "MUL"} -> elt_op_pim(j, base)
    [] j.op = "RELU" -> relu_pim(j, base)
    [] j.op = "COPY" -> copy_pim(j, base)
    [] j.op = "BN" -> bn_pim_nr_sip(j, base)

\* Functions on 1 .. n that are tuples.
LEMMA SmallTuples ==
  ASSUME NEW f
  PROVE  /\ f = [n \in 1 .. 1 |-> f[n]] => f = <<f[1]>>
         /\ f = [n \in 1 .. 2 |-> f[n]] => f = <<f[1], f[2]>>
         /\ f = [n \in 1 .. 3 |-> f[n]] => f = <<f[1], f[2], f[3]>>
OBVIOUS

\* A window of a tile, by the number of its accesses.
LEMMA TileWinIs ==
  ASSUME NEW j, NEW base, NEW i
  PROVE  /\ Count(j.op, i) = 1 => TileWin(j, base, i) = <<TileAccess(j, base, i, 1)>>
         /\ Count(j.op, i) = 2 =>
              TileWin(j, base, i) = <<TileAccess(j, base, i, 1), TileAccess(j, base, i, 2)>>
         /\ Count(j.op, i) = 3 =>
              TileWin(j, base, i) = <<TileAccess(j, base, i, 1), TileAccess(j, base, i, 2),
                                      TileAccess(j, base, i, 3)>>
<1>1. PICK f : f = TileWin(j, base, i)
  OBVIOUS
<1>2. f = [n \in 1 .. Count(j.op, i) |-> TileAccess(j, base, i, n)]
  BY <1>1 DEF TileWin
<1>3. PICK k : k = Count(j.op, i)
  OBVIOUS
<1>4. f = [n \in 1 .. k |-> f[n]] /\ \A n \in 1 .. k : f[n] = TileAccess(j, base, i, n)
  BY <1>2, <1>3
<1> QED BY <1>1, <1>3, <1>4, SmallTuples

\* A window that reads an operand.
LEMMA ReadWin ==
  ASSUME NEW j, NEW base, NEW i, ~Writes(j.op, i)
  PROVE  TileWin(j, base, i) = <<R_CMD(SourceOf(j.op, i), BankOf(j.op, i), base)>>
<1>1. Count(j.op, i) = 1
  BY DEF Count
<1>2. TileAccess(j, base, i, 1) = R_CMD(SourceOf(j.op, i), BankOf(j.op, i), base)
  BY DEF TileAccess, KindOf, R_CMD
<1> QED BY <1>1, <1>2, TileWinIs

\* A window that writes the output.
LEMMA WriteWin ==
  ASSUME NEW j, NEW base, NEW i, Writes(j.op, i), NEW w, w = W_CMD(j.out, BankOf(j.op, i), base),
         NEW r, r = R_CMD(j.out, BankOf(j.op, i), base)
  PROVE  /\ j.op \in {"ADD", "MUL"} => TileWin(j, base, i) = <<w, w, r>>
         /\ j.op \in {"RELU", "COPY"} => TileWin(j, base, i) = <<w, r>>
         /\ j.op = "BN" /\ i = 7 => TileWin(j, base, i) = <<w>>
         /\ j.op = "BN" /\ i = 8 => TileWin(j, base, i) = <<w, r>>
<1>1. ASSUME NEW n PROVE /\ KindOf(j.op, i, n) = "W" => TileAccess(j, base, i, n) = w
                         /\ KindOf(j.op, i, n) = "R" => TileAccess(j, base, i, n) = r
  BY DEF TileAccess, R_CMD, W_CMD
<1>2. KindOf(j.op, i, 1) = "W"
  BY DEF KindOf
<1>3. CASE j.op \in {"ADD", "MUL"}
  <2>1. Count(j.op, i) = 3
    BY <1>3 DEF Count
  <2>2. KindOf(j.op, i, 2) = "W" /\ KindOf(j.op, i, 3) = "R"
    BY <2>1 DEF KindOf
  <2> QED BY <1>1, <1>2, <1>3, <2>1, <2>2, TileWinIs
<1>4. CASE j.op \in {"RELU", "COPY"} \/ (j.op = "BN" /\ i = 8)
  <2>1. Count(j.op, i) = 2
    BY <1>4 DEF Count
  <2>2. KindOf(j.op, i, 2) = "R"
    BY <2>1 DEF KindOf
  <2> QED BY <1>1, <1>2, <1>4, <2>1, <2>2, TileWinIs
<1>5. CASE j.op = "BN" /\ i = 7
  <2>1. Count(j.op, i) = 1
    BY <1>5 DEF Count
  <2> QED BY <1>1, <1>2, <1>5, <2>1, TileWinIs
<1> QED BY <1>3, <1>4, <1>5

\* One element of a tile, window i.
TileIs(h, j, base) ==
  /\ IsSeq(h) /\ Len(h) = TileLen(j.op)
  /\ \A i \in 0 .. TileLen(j.op) - 1 : h[i + 1] = TileWin(j, base, i)

IsFour(h, a, b, c, d) ==
  IsSeq(h) /\ Len(h) = 4 /\ h[1] = a /\ h[2] = b /\ h[3] = c /\ h[4] = d
IsSix(h, a, b, c, d, e, f) ==
  IsSeq(h) /\ Len(h) = 6 /\ h[1] = a /\ h[2] = b /\ h[3] = c /\ h[4] = d /\ h[5] = e /\ h[6] = f

\* Tuples of two and of three, joined.
LEMMA JoinedTwos ==
  ASSUME NEW a, NEW b, NEW c, NEW d, NEW h, h = <<a, b>> \o <<c, d>>
  PROVE  IsFour(h, a, b, c, d)
<1>1. PICK s, t : s = <<a, b>> /\ t = <<c, d>>
  OBVIOUS
<1>2. IsSeq(s) /\ Len(s) = 2 /\ s[1] = a /\ s[2] = b /\ IsSeq(t) /\ Len(t) = 2 /\ t[1] = c /\ t[2] = d
  BY <1>1 DEF IsSeq, Range
<1>3. Joins(h, s, t)
  BY <1>1, <1>2, ConcatJoins
<1>4. h[2 + 1] = t[1] /\ h[2 + 2] = t[2] /\ h[1] = s[1] /\ h[2] = s[2] /\ IsSeq(h) /\ Len(h) = 4
  BY <1>2, <1>3 DEF Joins
<1> QED BY <1>2, <1>4 DEF IsFour

\* The same for three.
LEMMA JoinedThrees ==
  ASSUME NEW a, NEW b, NEW c, NEW d, NEW e, NEW f, NEW h, h = <<a, b, c>> \o <<d, e, f>>
  PROVE  IsSix(h, a, b, c, d, e, f)
<1>1. PICK s, t : s = <<a, b, c>> /\ t = <<d, e, f>>
  OBVIOUS
<1>2. /\ IsSeq(s) /\ Len(s) = 3 /\ s[1] = a /\ s[2] = b /\ s[3] = c
      /\ IsSeq(t) /\ Len(t) = 3 /\ t[1] = d /\ t[2] = e /\ t[3] = f
  BY <1>1 DEF IsSeq, Range
<1>3. Joins(h, s, t)
  BY <1>1, <1>2, ConcatJoins
<1>4. /\ h[3 + 1] = t[1] /\ h[3 + 2] = t[2] /\ h[3 + 3] = t[3]
      /\ h[1] = s[1] /\ h[2] = s[2] /\ h[3] = s[3] /\ IsSeq(h) /\ Len(h) = 6
  BY <1>2, <1>3 DEF Joins
<1> QED BY <1>2, <1>4 DEF IsSix

\* The windows of elt_op_pim.
LEMMA AddTile ==
  ASSUME NEW j, j.op \in {"ADD", "MUL"}, NEW base
  PROVE  TileIs(elt_op_pim(j, base), j, base)
<1>1. PICK p, q, w, r : /\ p = [b \in 0 .. 1 |-> <<R_CMD("op0", b, base)>>]
                        /\ q = [b \in 0 .. 1 |-> <<R_CMD("op1", b, base)>>]
                        /\ w = [b \in 0 .. 1 |-> W_CMD(j.out, b, base)]
                        /\ r = [b \in 0 .. 1 |-> R_CMD(j.out, b, base)]
  OBVIOUS
<1>2. PICK x : x = [b \in 0 .. 1 |-> <<w[b], w[b], r[b]>>]
  OBVIOUS
<1>3. PICK s : s = [b \in 1 .. 2 |-> << <<R_CMD("op0", b - 1, base)>>, <<R_CMD("op1", b - 1, base)>>,
       <<W_CMD(j.out, b - 1, base), W_CMD(j.out, b - 1, base), R_CMD(j.out, b - 1, base)>> >>]
  OBVIOUS
<1>4. s[1] = <<p[0], q[0], x[0]>> /\ s[2] = <<p[1], q[1], x[1]>>
  BY <1>1, <1>2, <1>3
<1>5. s = <<s[1], s[2]>>
  <2>1. s = [b \in 1 .. 2 |-> s[b]]
    BY <1>3
  <2> QED BY <2>1, SmallTuples
<1>6. PICK S : S = {p[0], q[0], x[0], p[1], q[1], x[1]}
  OBVIOUS
<1>7. s[1] \in Seq(S) /\ s[2] \in Seq(S)
  BY <1>4, <1>6
<1>8. PICK h : h = elt_op_pim(j, base)
  OBVIOUS
<1>9. h = FlattenSeq(s)
  BY <1>3, <1>8, Zenon DEF elt_op_pim
<1>10. h = s[1] \o s[2]
  BY <1>5, <1>7, <1>9, FlattenTwo
<1>11. /\ h[1] = p[0] /\ h[2] = q[0] /\ h[3] = x[0]
       /\ h[4] = p[1] /\ h[5] = q[1] /\ h[6] = x[1]
       /\ IsSeq(h) /\ Len(h) = 6
  <2>1. h = <<p[0], q[0], x[0]>> \o <<p[1], q[1], x[1]>>
    BY <1>4, <1>10, Zenon
  <2>2. IsSix(h, p[0], q[0], x[0], p[1], q[1], x[1])
    BY <2>1, JoinedThrees, Zenon
  <2> QED BY <2>2, Zenon DEF IsSix
<1>13. TileWin(j, base, 0) = p[0] /\ TileWin(j, base, 3) = p[1]
  BY <1>1, ReadWin DEF Writes, WriteAt, BankOf, SourceOf
<1>14. TileWin(j, base, 1) = q[0] /\ TileWin(j, base, 4) = q[1]
  BY <1>1, ReadWin DEF Writes, WriteAt, BankOf, SourceOf
<1>15. TileWin(j, base, 2) = x[0] /\ TileWin(j, base, 5) = x[1]
  BY <1>1, <1>2, WriteWin DEF Writes, WriteAt, BankOf
<1>16. TileLen(j.op) = 6
  BY DEF TileLen
<1>17. \A i \in 0 .. 5 : h[i + 1] = TileWin(j, base, i)
  BY <1>11, <1>13, <1>14, <1>15
<1> QED BY <1>8, <1>11, <1>16, <1>17 DEF TileIs

\* The windows of relu_pim and copy_pim.
LEMMA MoveTile ==
  ASSUME NEW j, j.op \in {"RELU", "COPY"}, NEW base
  PROVE  TileIs(relu_pim(j, base), j, base) /\ TileIs(copy_pim(j, base), j, base)
<1>1. PICK p, w, r : /\ p = [b \in 0 .. 1 |-> <<R_CMD("op0", b, base)>>]
                     /\ w = [b \in 0 .. 1 |-> W_CMD(j.out, b, base)]
                     /\ r = [b \in 0 .. 1 |-> R_CMD(j.out, b, base)]
  OBVIOUS
<1>2. PICK x : x = [b \in 0 .. 1 |-> <<w[b], r[b]>>]
  OBVIOUS
<1>3. PICK s : s = [b \in 1 .. 2 |-> << <<R_CMD("op0", b - 1, base)>>,
       <<W_CMD(j.out, b - 1, base), R_CMD(j.out, b - 1, base)>> >>]
  OBVIOUS
<1>4. s[1] = <<p[0], x[0]>> /\ s[2] = <<p[1], x[1]>>
  BY <1>1, <1>2, <1>3
<1>5. s = <<s[1], s[2]>>
  <2>1. s = [b \in 1 .. 2 |-> s[b]]
    BY <1>3
  <2> QED BY <2>1, SmallTuples
<1>6. PICK S : S = {p[0], x[0], p[1], x[1]}
  OBVIOUS
<1>7. s[1] \in Seq(S) /\ s[2] \in Seq(S)
  BY <1>4, <1>6
<1>8. PICK h : h = FlattenSeq(s)
  OBVIOUS
<1>9. h = relu_pim(j, base) /\ h = copy_pim(j, base)
  BY <1>3, <1>8, Zenon DEF relu_pim, copy_pim
<1>10. h = s[1] \o s[2]
  BY <1>5, <1>7, <1>8, FlattenTwo
<1>11. /\ h[1] = p[0] /\ h[2] = x[0] /\ h[3] = p[1] /\ h[4] = x[1]
       /\ IsSeq(h) /\ Len(h) = 4
  <2>1. h = <<p[0], x[0]>> \o <<p[1], x[1]>>
    BY <1>4, <1>10, Zenon
  <2>2. IsFour(h, p[0], x[0], p[1], x[1])
    BY <2>1, JoinedTwos, Zenon
  <2> QED BY <2>2, Zenon DEF IsFour
<1>13. TileWin(j, base, 0) = p[0] /\ TileWin(j, base, 2) = p[1]
  BY <1>1, ReadWin DEF Writes, WriteAt, BankOf, SourceOf
<1>14. TileWin(j, base, 1) = x[0] /\ TileWin(j, base, 3) = x[1]
  BY <1>1, <1>2, WriteWin DEF Writes, WriteAt, BankOf
<1>15. TileLen(j.op) = 4
  BY DEF TileLen
<1>16. \A i \in 0 .. 3 : h[i + 1] = TileWin(j, base, i)
  BY <1>11, <1>13, <1>14
<1> QED BY <1>9, <1>11, <1>15, <1>16 DEF TileIs

\* The windows of bn_pim_nr_sip.
LEMMA BnTile ==
  ASSUME NEW j, j.op = "BN", NEW base
  PROVE  TileIs(bn_pim_nr_sip(j, base), j, base)
<1>1. PICK s : s = [n \in 1 .. 7 |-> <<R_CMD("op0", IF n <= 4 THEN 0 ELSE 1, base)>>]
  OBVIOUS
<1>2. PICK w : w = << <<W_CMD(j.out, 0, base)>>, <<W_CMD(j.out, 1, base), R_CMD(j.out, 1, base)>> >>
  OBVIOUS
<1>3. IsSeq(s) /\ Len(s) = 7
  <2>1. s \in Seq({s[n] : n \in 1 .. 7}) /\ Len(s) = 7
    BY <1>1
  <2> QED BY <2>1, SeqIsSeq
<1>4. IsSeq(w) /\ Len(w) = 2
  BY <1>2 DEF IsSeq, Range
<1>5. PICK h : h = bn_pim_nr_sip(j, base)
  OBVIOUS
<1>6. Joins(h, s, w)
  BY <1>1, <1>2, <1>3, <1>4, <1>5, ConcatJoins DEF bn_pim_nr_sip
<1>7. /\ IsSeq(h) /\ Len(h) = 9 /\ (\A i \in 1 .. 7 : h[i] = s[i])
      /\ h[8] = w[1] /\ h[9] = w[2]
  BY <1>3, <1>4, <1>6 DEF Joins
<1>8. TileLen(j.op) = 9
  BY DEF TileLen
<1>9. ASSUME NEW i \in 0 .. 8 PROVE h[i + 1] = TileWin(j, base, i)
  <2>1. CASE i < 7
    <3>1. i + 1 \in 1 .. 7 /\ (i + 1 <= 4 <=> i \in {0, 1, 2, 3})
      BY <2>1
    <3>2. h[i + 1] = <<R_CMD("op0", IF i \in {0, 1, 2, 3} THEN 0 ELSE 1, base)>>
      BY <1>1, <1>7, <3>1
    <3>3. ~Writes(j.op, i) /\ SourceOf(j.op, i) = "op0"
          /\ BankOf(j.op, i) = IF i \in {0, 1, 2, 3} THEN 0 ELSE 1
      BY <2>1 DEF Writes, WriteAt, SourceOf, BankOf
    <3> QED BY <3>2, <3>3, ReadWin
  <2>2. CASE i = 7
    <3>1. Writes(j.op, i) /\ BankOf(j.op, i) = 0
      BY <2>2 DEF Writes, WriteAt, BankOf
    <3> QED BY <1>2, <1>7, <2>2, <3>1, WriteWin
  <2>3. CASE i = 8
    <3>1. Writes(j.op, i) /\ BankOf(j.op, i) = 1
      BY <2>3 DEF Writes, WriteAt, BankOf
    <3> QED BY <1>2, <1>7, <2>3, <3>1, WriteWin
  <2> QED BY <2>1, <2>2, <2>3
<1> QED BY <1>5, <1>7, <1>8, <1>9 DEF TileIs

\* The windows of every tile.
LEMMA EltTileIs ==
  ASSUME NEW j, j.op \in EltOps, NEW base
  PROVE  TileIs(EltTile(j, base), j, base)
<1>1. CASE j.op \in {"ADD", "MUL"}
  BY <1>1, AddTile DEF EltTile
<1>2. CASE j.op \in {"RELU", "COPY"}
  BY <1>2, MoveTile DEF EltTile
<1>3. CASE j.op = "BN"
  BY <1>3, BnTile DEF EltTile
<1> QED BY <1>1, <1>2, <1>3 DEF EltOps

\* A frame around mid has it from window 6 on.
FrameHas(W, mid) == Len(W) = 7 + Len(mid) /\ \A n \in 1 .. Len(mid) : W[5 + n] = mid[n]

\* What is inside a frame.
LEMMA FrameMid ==
  ASSUME NEW mid, IsSeq(mid)
  PROVE  FrameHas(Frame(mid), mid)
<1>1. PICK p, c, d : p = park /\ c = change_sb_hab /\ d = change_hab_sb
  OBVIOUS
<1>2. IsSeq(p) /\ Len(p) = 1 /\ IsSeq(c) /\ Len(c) = 4 /\ IsSeq(d) /\ Len(d) = 1
  BY <1>1, FrameSeqs, Zenon
<1>3. Len(mid) \in Nat
  BY SeqIsSeq DEF IsSeq
<1>4. PICK a, b, e, W : a = p \o c /\ b = a \o mid /\ e = b \o d /\ W = e \o p
  OBVIOUS
<1>5. Joins(a, p, c)
  BY <1>2, <1>4, ConcatJoins
<1>6. IsSeq(a) /\ Len(a) = 5
  BY <1>2, <1>5 DEF Joins
<1>7. Joins(b, a, mid)
  BY <1>4, <1>6, ConcatJoins
<1>8. IsSeq(b) /\ Len(b) = 5 + Len(mid) /\ \A n \in 1 .. Len(mid) : b[5 + n] = mid[n]
  BY <1>6, <1>7 DEF Joins
<1>9. Joins(e, b, d)
  BY <1>2, <1>4, <1>8, ConcatJoins
<1>10. IsSeq(e) /\ Len(e) = 6 + Len(mid) /\ \A n \in 1 .. Len(b) : e[n] = b[n]
  BY <1>2, <1>3, <1>8, <1>9 DEF Joins
<1>11. Joins(W, e, p)
  BY <1>2, <1>4, <1>10, ConcatJoins
<1>12. Len(W) = 7 + Len(mid) /\ \A n \in 1 .. Len(e) : W[n] = e[n]
  BY <1>2, <1>3, <1>10, <1>11 DEF Joins
<1>13. ASSUME NEW n \in 1 .. Len(mid) PROVE W[5 + n] = mid[n]
  <2>1. 5 + n \in 1 .. Len(b) /\ 5 + n \in 1 .. Len(e)
    BY <1>3, <1>8, <1>10
  <2> QED BY <2>1, <1>8, <1>10, <1>12
<1>14. W = Frame(mid)
  BY <1>1, <1>4, Zenon DEF Frame
<1> QED BY <1>12, <1>13, <1>14 DEF FrameHas

\* The windows that load the program and turn HAB_PIM on.
TurnOn == [k |-> "HAB_PIM", clear |-> FALSE, lanes |-> {0}]
LoadBy(words, n) == [k |-> "CRF", words |-> words, lanes |-> 0 .. n - 1]
Setup(j) ==
  LET words == make_crf_bin(j.op, j.size)
  IN  IF j.op = "BN" THEN << <<Reg("SRF"), TurnOn>>, <<LoadBy(words, 2)>> >>
      ELSE << <<LoadBy(words, 1), TurnOn>> >>
FirstTile(op) == IF op = "BN" THEN 8 ELSE 7

\* The windows of an elementwise kernel of T tiles.
EltIs(W, j, T) ==
  /\ Len(W) = FirstTile(j.op) + T * TileLen(j.op) + 2
  /\ \A n \in 1 .. FirstTile(j.op) - 6 : W[5 + n] = Setup(j)[n]
  /\ \A t \in 0 .. T - 1 : \A i \in 0 .. TileLen(j.op) - 1 :
       W[FirstTile(j.op) + t * TileLen(j.op) + i] = TileWin(j, t * NumGrf, i)
  /\ W[FirstTile(j.op) + T * TileLen(j.op)] = <<[k |-> "HAB", lanes |-> {0, 1}]>>

\* Every elementwise kernel is of that form.
LEMMA EltKernelIs ==
  ASSUME NEW j \in Jobs, ~IsGemm(j), NEW T, T = NumTile(j)
  PROVE  EltIs(EltKernel(j), j, T)
<1>0. T \in Nat /\ j.op \in EltOps
  BY NumTileNat DEF EltOps
<1> DEFINE words == make_crf_bin(j.op, j.size)
<1>1. PICK s : s = [t \in 1 .. T |-> EltTile(j, (t - 1) * NumGrf)]
  OBVIOUS
<1>2. PICK P : P = Setup(j)
  OBVIOUS
<1>3. PICK F, H : F = FlattenSeq(s) /\ H = change_habpim_hab({0, 1})
  OBVIOUS
<1>4. EltKernel(j) = park \o change_sb_hab \o P \o F \o H \o change_hab_sb \o park
  <2>1. IF j.op = "BN"
          THEN P = << program_srf \o change_hab_habpim(FALSE, {0}), program_crf(words, 2) >>
          ELSE P = << program_crf(words, 1) \o change_hab_habpim(FALSE, {0}) >>
    <3>1. program_srf \o change_hab_habpim(FALSE, {0}) = <<Reg("SRF"), TurnOn>>
      BY ConcatPair, Zenon DEF program_srf, change_hab_habpim, TurnOn
    <3>2. program_crf(words, 1) \o change_hab_habpim(FALSE, {0}) = <<LoadBy(words, 1), TurnOn>>
      BY ConcatPair, Zenon DEF program_crf, change_hab_habpim, LoadBy, TurnOn
    <3>3. program_crf(words, 2) = <<LoadBy(words, 2)>>
      BY Zenon DEF program_crf, LoadBy
    <3>4. CASE j.op = "BN"
      BY <1>2, <3>1, <3>3, <3>4, Zenon DEF Setup
    <3>5. CASE j.op # "BN"
      BY <1>2, <3>2, <3>5, Zenon DEF Setup
    <3> QED BY <3>4, <3>5
  <2>2. PICK K : K = IF j.op = "BN"
          THEN << program_srf \o change_hab_habpim(FALSE, {0}), program_crf(words, 2) >>
          ELSE << program_crf(words, 1) \o change_hab_habpim(FALSE, {0}) >>
    OBVIOUS
  <2>3. P = K
    BY <2>1, <2>2, Zenon
  <2>4. EltKernel(j) = park \o change_sb_hab \o K \o F \o H \o change_hab_sb \o park
    BY <1>1, <1>3, <2>2, Zenon DEF EltKernel, EltTile
  <2> QED BY <2>3, <2>4, Zenon
<1>5. PICK f, L : f = FirstTile(j.op) /\ L = TileLen(j.op)
  OBVIOUS
<1>6. f \in {7, 8} /\ L \in {4, 6, 9}
  BY <1>5 DEF FirstTile, TileLen
<1>7. IsSeq(P) /\ Len(P) = f - 6
  <2>1. CASE j.op = "BN"
    BY <1>2, <1>5, <2>1 DEF Setup, FirstTile, IsSeq, Range
  <2>2. CASE j.op # "BN"
    BY <1>2, <1>5, <2>2 DEF Setup, FirstTile, IsSeq, Range
  <2> QED BY <2>1, <2>2
<1>8. \A t \in 1 .. T : TileIs(s[t], j, (t - 1) * NumGrf)
  BY <1>0, <1>1, EltTileIs
<1>9. IsEven(F, s, T, L)
  <2>1. s = [t \in 1 .. T |-> s[t]]
    BY <1>1
  <2>2. \A t \in 1 .. T : IsSeq(s[t]) /\ Len(s[t]) = L
    BY <1>5, <1>8 DEF TileIs
  <2>3. IsFamily(s, T)
    BY <2>1, <2>2, Zenon DEF IsFamily
  <2> QED BY <1>0, <1>3, <1>6, <2>2, <2>3, FlattenEven
<1>10. IsSeq(H) /\ Len(H) = 1 /\ H[1] = <<[k |-> "HAB", lanes |-> {0, 1}]>>
  BY <1>3 DEF change_habpim_hab, IsSeq, Range
<1>11. PICK g, mid : g = P \o F /\ mid = g \o H
  OBVIOUS
<1>12. PICK TL \in Nat : TL = T * L
  BY <1>0, <1>6, MulNat
<1>13. Joins(g, P, F) /\ IsSeq(F) /\ Len(F) = TL
  BY <1>7, <1>9, <1>11, <1>12, ConcatJoins DEF IsEven
<1>14. IsSeq(g) /\ Len(g) = f - 6 + TL
  BY <1>7, <1>13 DEF Joins
<1>15. Joins(mid, g, H)
  BY <1>10, <1>11, <1>14, ConcatJoins
<1>16. IsSeq(mid) /\ Len(mid) = f - 5 + TL
  BY <1>6, <1>10, <1>14, <1>15 DEF Joins
<1>17. EltKernel(j) = Frame(mid)
  <2>1. PICK A : A = park \o change_sb_hab
    OBVIOUS
  <2>2. IsSeq(A)
    BY <2>1, FrameSeqs, ConcatIsSeq
  <2>3. (A \o P) \o F = A \o g
    BY <2>2, <1>7, <1>11, <1>13, ConcatAssoc
  <2>4. (A \o g) \o H = A \o mid
    BY <2>2, <1>10, <1>11, <1>14, ConcatAssoc
  <2> QED BY <1>4, <2>1, <2>3, <2>4, Zenon DEF Frame
<1>18. PICK W : W = EltKernel(j)
  OBVIOUS
<1>19. Len(W) = f + TL + 2 /\ \A n \in 1 .. f - 5 + TL : W[5 + n] = mid[n]
  <2>1. FrameHas(W, mid)
    BY <1>16, <1>17, <1>18, FrameMid
  <2> QED BY <1>6, <1>16, <2>1 DEF FrameHas
<1>20. ASSUME NEW n \in 1 .. f - 6 PROVE W[5 + n] = P[n]
  <2>1. n \in 1 .. f - 5 + TL /\ n \in 1 .. Len(P) /\ n \in 1 .. Len(g)
    BY <1>6, <1>7, <1>14
  <2> QED BY <2>1, <1>13, <1>15, <1>19 DEF Joins
<1>21. ASSUME NEW x \in 1 .. TL PROVE W[f + x - 1] = F[x]
  <2>1. PICK n : n = (f - 6) + x
    OBVIOUS
  <2>2. n \in 1 .. f - 5 + TL /\ n \in 1 .. Len(g) /\ x \in 1 .. Len(F) /\ 5 + n = f + x - 1
    BY <1>6, <1>13, <1>14, <2>1
  <2>3. g[n] = F[x]
    BY <1>7, <1>13, <2>1, <2>2 DEF Joins
  <2>4. mid[n] = g[n]
    BY <1>15, <2>2 DEF Joins
  <2>5. W[5 + n] = mid[n]
    BY <1>19, <2>2
  <2> QED BY <2>2, <2>3, <2>4, <2>5
<1>22. ASSUME NEW t \in 0 .. T - 1, NEW i \in 0 .. L - 1
       PROVE  W[f + t * L + i] = TileWin(j, t * NumGrf, i)
  <2>0. L \in Nat \ {0}
    BY <1>6
  <2>1. t * L + i \in 0 .. T * L - 1
    BY <1>0, <2>0, DigitsBound
  <2>2. PICK tl \in Nat : tl = t * L
    BY <2>0, MulNat
  <2>3. tl + (i + 1) \in 1 .. TL /\ i + 1 \in 1 .. L
    BY <1>12, <2>0, <2>1, <2>2
  <2>4. F[tl + (i + 1)] = s[t + 1][i + 1]
    BY <1>9, <2>2, <2>3 DEF IsEven
  <2>5. t + 1 \in 1 .. T /\ (t + 1) - 1 = t
    BY <1>0
  <2>6. s[t + 1][i + 1] = TileWin(j, t * NumGrf, i)
    <3>1. TileIs(s[t + 1], j, t * NumGrf)
      BY <1>8, <2>5
    <3> QED BY <1>5, <3>1, Zenon DEF TileIs
  <2>7. f + (tl + (i + 1)) - 1 = f + tl + i
    BY <1>6, <2>2
  <2>8. W[f + (tl + (i + 1)) - 1] = F[tl + (i + 1)]
    BY <1>21, <2>3
  <2> QED BY <2>2, <2>4, <2>6, <2>7, <2>8
<1>23. W[f + TL] = H[1]
  <2>1. PICK n : n = f - 5 + TL
    OBVIOUS
  <2>2. n \in 1 .. f - 5 + TL /\ n = Len(g) + 1 /\ 5 + n = f + TL /\ 1 \in 1 .. Len(H)
    BY <1>6, <1>10, <1>14, <2>1
  <2> QED BY <2>2, <1>15, <1>19 DEF Joins
<1> QED BY <1>2, <1>5, <1>10, <1>12, <1>18, <1>19, <1>20, <1>22, <1>23 DEF EltIs

-----------------------------------------------------------------------------
(* Elementwise programs, as the unit reads them.                           *)

Decoded(op) ==
  CASE op \in {"ADD", "MUL"} ->
         << Fill("GRF_A", "EVEN_BANK", 0, 0), Alu(op, "GRF_A", "GRF_A", "EVEN_BANK"), Idle(3),
            Fill("GRF_B", "ODD_BANK", 0, 0), Alu(op, "GRF_B", "GRF_B", "ODD_BANK"), Idle(3) >>
    [] op = "RELU" ->
         << Fill("GRF_A", "EVEN_BANK", 0, 1), Idle(2), Fill("GRF_B", "ODD_BANK", 0, 1), Idle(2) >>
    [] op = "COPY" ->
         << Fill("GRF_A", "EVEN_BANK", 0, 0), Idle(2), Fill("GRF_B", "ODD_BANK", 0, 0), Idle(2) >>
    [] op = "BN" ->
         << Mad("GRF_A", "EVEN_BANK", 0), Idle(1), Mad("GRF_A", "GRF_A", 1), Idle(1),
            Mad("GRF_B", "ODD_BANK", 0), Idle(1), Mad("GRF_B", "GRF_B", 1), Idle(3) >>

\* The CRF holds the program of op with loop counter lc.
Loaded(crf, op, lc) ==
  /\ 0 .. BodyLen(op) + 1 \subseteq DOMAIN crf
  /\ \A n \in 0 .. BodyLen(op) - 1 : crf[n] = Decoded(op)[n + 1]
  /\ crf[BodyLen(op)] = Jump(lc, BodyLen(op) + 1)
  /\ crf[BodyLen(op) + 1] = Exit

\* Three windows of NumGrf commands can be counted by NOP.
ShortIdle == 3 * NumGrf - 1 <= MaxIdle

\* NOP, read back.
LEMMA IdleRead ==
  ASSUME ShortIdle, NEW n \in 1 .. 3
  PROVE  from_int(to_int(Idle(n))) = Idle(n)
<1>1. NumGrf \in Nat \ {0}
  BY GeometryAssumption
<1>2. n * NumGrf - 1 \in 0 .. MaxIdle
  BY <1>1, MaxIdleIs DEF ShortIdle
<1>3. PICK x : x = n * NumGrf - 1
  OBVIOUS
<1>4. PICK m : /\ from_int(to_int(Control("NOP", x))) = Control("NOP", m)
               /\ x \in 0 .. MaxIdle => m = x
  BY NopRead
<1> QED BY <1>2, <1>3, <1>4 DEF Idle

\* The body of an elementwise program, read back.
LEMMA BodyRead ==
  ASSUME ShortIdle, NEW op \in EltOps, NEW lc, NEW i \in 1 .. BodyLen(op)
  PROVE  from_int(to_int(Body(op, lc)[i])) = Decoded(op)[i]
<1>0. /\ from_int(to_int(Idle(1))) = Idle(1) /\ from_int(to_int(Idle(2))) = Idle(2)
      /\ from_int(to_int(Idle(3))) = Idle(3)
  BY IdleRead
<1>1. CASE op \in {"ADD", "MUL"}
  <2>1. PICK a, b, c, d, e : /\ a = Fill("GRF_A", "EVEN_BANK", 0, 0) /\ b = Alu(op, "GRF_A", "GRF_A", "EVEN_BANK")
                                /\ c = Idle(3) /\ d = Fill("GRF_B", "ODD_BANK", 0, 0)
                                /\ e = Alu(op, "GRF_B", "GRF_B", "ODD_BANK")
    OBVIOUS
  <2>2. Body(op, lc) = <<a, b, c, d, e, c>> /\ Decoded(op) = <<a, b, c, d, e, c>>
    BY <1>1, <2>1, Zenon DEF Body, Decoded
  <2>3. from_int(to_int(a)) = a /\ from_int(to_int(d)) = d
    BY <2>1, FillRead DEF Operands
  <2>4. from_int(to_int(b)) = b /\ from_int(to_int(e)) = e
    BY <1>1, <2>1, AluRead DEF Operands
  <2>5. from_int(to_int(c)) = c
    BY <1>0, <2>1
  <2>6. i \in 1 .. 6
    BY <1>1 DEF BodyLen
  <2> QED BY <2>2, <2>3, <2>4, <2>5, <2>6
<1>2. CASE op \in {"RELU", "COPY"}
  <2>1. PICK r \in {0, 1} : r = IF op = "RELU" THEN 1 ELSE 0
    OBVIOUS
  <2>2. PICK a, b, c : /\ a = Fill("GRF_A", "EVEN_BANK", 1, r) /\ b = Idle(2)
                       /\ c = Fill("GRF_B", "ODD_BANK", 1, r)
    OBVIOUS
  <2>3. PICK d, e : d = Fill("GRF_A", "EVEN_BANK", 0, r) /\ e = Fill("GRF_B", "ODD_BANK", 0, r)
    OBVIOUS
  <2>4. Body(op, lc) = <<a, b, c, b>> /\ Decoded(op) = <<d, b, e, b>>
    <3>1. CASE op = "RELU"
      <4>1. r = 1
        BY <2>1, <3>1
      <4> QED BY <2>2, <2>3, <3>1, <4>1, Zenon DEF Body, Decoded
    <3>2. CASE op = "COPY"
      <4>1. r = 0
        BY <2>1, <3>2
      <4> QED BY <2>2, <2>3, <3>2, <4>1, Zenon DEF Body, Decoded
    <3> QED BY <1>2, <3>1, <3>2
  <2>5. from_int(to_int(a)) = d /\ from_int(to_int(c)) = e
    BY <2>2, <2>3, FillRead DEF Operands
  <2>6. from_int(to_int(b)) = b
    BY <1>0, <2>2
  <2>7. i \in 1 .. 4
    BY <1>2 DEF BodyLen
  <2> QED BY <2>4, <2>5, <2>6, <2>7
<1>3. CASE op = "BN"
  <2>1. PICK a, b, c : a = Mad("GRF_A", "EVEN_BANK", 0) /\ b = Idle(1) /\ c = Mad("GRF_A", "GRF_A", 1)
    OBVIOUS
  <2>2. PICK e, g, h : e = Mad("GRF_B", "ODD_BANK", 0) /\ g = Mad("GRF_B", "GRF_B", 1) /\ h = Idle(3)
    OBVIOUS
  <2>3. Body(op, lc) = <<a, b, c, b, e, b, g, h>> /\ Decoded(op) = <<a, b, c, b, e, b, g, h>>
    BY <1>3, <2>1, <2>2, Zenon DEF Body, Decoded
  <2>4. from_int(to_int(a)) = a /\ from_int(to_int(c)) = c
    BY <2>1, MadRead DEF Operands
  <2>5. from_int(to_int(e)) = e /\ from_int(to_int(g)) = g
    BY <2>2, MadRead DEF Operands
  <2>6. from_int(to_int(b)) = b /\ from_int(to_int(h)) = h
    BY <1>0, <2>1, <2>2
  <2>7. i \in 1 .. 8
    BY <1>3 DEF BodyLen
  <2> QED BY <2>3, <2>4, <2>5, <2>6, <2>7
<1> QED BY <1>1, <1>2, <1>3 DEF EltOps

\* The program of an elementwise job, its loop counter within 17 bits.
LEMMA EltProgram ==
  ASSUME ShortIdle, NEW op \in EltOps, NEW size, NEW lc \in 0 .. MaxLoop, lc = get_loop_counter(op, size),
         NEW P, P = make_crf_bin(op, size)
  PROVE  Loaded(P, op, lc)
<1>1. PICK t : t = create_pim_cmd(op, lc)
  OBVIOUS
<1>2. P = [i \in 0 .. Len(t) - 1 |-> from_int(to_int(t[i + 1]))]
  BY <1>1, Zenon DEF make_crf_bin
<1>3. PICK n \in {4, 6, 8} : n = BodyLen(op) /\ (n = 4 <=> op \in {"RELU", "COPY"}) /\ op # "GEMV"
  BY DEF BodyLen, EltOps
<1>4. PICK m \in {8, 16} : m = IF n = 4 THEN 8 ELSE 16
  OBVIOUS
<1>5. PICK body : body = Body(op, lc)
  OBVIOUS
<1>6. IsSeq(body) /\ Len(body) = n
  BY <1>3, <1>5, BodyIs DEF EltOps, Ops
<1>7. n \in 4 .. 8 /\ m = IF op # "GEMV" THEN IF n < 6 THEN 8 ELSE 16 ELSE 8
  BY <1>3, <1>4
<1>8. IsProgram(t, m, n, body, op # "GEMV", lc)
  BY <1>1, <1>3, <1>5, <1>6, <1>7, ProgramIs
<1>9. /\ Len(t) = m /\ (\A i \in 1 .. n : t[i] = body[i])
      /\ t[n + 1] = Jump(lc, n + 1) /\ t[n + 2] = Exit
  BY <1>3, <1>8, Zenon DEF IsProgram
<1>10. DOMAIN P = 0 .. m - 1 /\ \A i \in 0 .. m - 1 : P[i] = from_int(to_int(t[i + 1]))
  BY <1>2, <1>9
<1>11. ASSUME NEW i \in 0 .. n - 1 PROVE P[i] = Decoded(op)[i + 1]
  <2>1. i \in 0 .. m - 1 /\ i + 1 \in 1 .. n
    BY <1>4
  <2>2. P[i] = from_int(to_int(body[i + 1]))
    BY <1>9, <1>10, <2>1
  <2> QED BY <1>3, <1>5, <2>1, <2>2, BodyRead
<1>12. P[n] = Jump(lc, n + 1)
  <2>1. n \in 0 .. m - 1
    BY <1>4
  <2>2. n + 1 \in 0 .. MaxIdle
    BY MaxIdleIs
  <2>3. PICK x \in 0 .. MaxLoop : /\ from_int(to_int(Jump(lc, n + 1))) = Jump(x, n + 1)
                                  /\ lc \in 0 .. MaxLoop => x = lc
    BY <2>2, JumpRead
  <2> QED BY <1>9, <1>10, <2>1, <2>3
<1>13. P[n + 1] = Exit
  <2>1. n + 1 \in 0 .. m - 1 /\ (n + 1) + 1 = n + 2
    BY <1>4
  <2> QED BY <1>9, <1>10, <2>1, ExitRead DEF Exit
<1>14. 0 .. n + 1 \subseteq DOMAIN P
  BY <1>4, <1>10
<1> QED BY <1>3, <1>4, <1>10, <1>11, <1>12, <1>13, <1>14 DEF Loaded

-----------------------------------------------------------------------------
(* The program counter of an elementwise program.                          *)

\* Where the program idles, and the commands each of its instructions takes.
Idles(op, n) == CASE op \in {"ADD", "MUL"} -> n \in {2, 5} [] op \in {"RELU", "COPY"} -> n \in {1, 3}
                  [] OTHER -> n \in {1, 3, 5, 7}
TakesOf(op, n) ==
  CASE op \in {"ADD", "MUL"} /\ n \in {2, 5} -> 3 * NumGrf
    [] op \in {"RELU", "COPY"} /\ n \in {1, 3} -> 2 * NumGrf
    [] op = "BN" /\ n = 7 -> 3 * NumGrf
    [] OTHER -> NumGrf

\* What the instructions are and take.
LEMMA InsTakes ==
  /\ \A d, a, r : Takes(Fill(d, a, 0, r)) = NumGrf
  /\ \A ty \in {"ADD", "MUL", "MAC"} : \A d, a, b : Takes(Alu(ty, d, a, b)) = NumGrf
  /\ \A d, a, s : Takes(Mad(d, a, s)) = NumGrf
  /\ \A n \in 1 .. 3 : Takes(Idle(n)) = n * NumGrf /\ Idle(n).type = "NOP"
<1>1. \A d, a, r : Takes(Fill(d, a, 0, r)) = NumGrf
  BY DEF Takes, Fill, PimCommand
<1>2. \A ty \in {"ADD", "MUL", "MAC"} : \A d, a, b : Takes(Alu(ty, d, a, b)) = NumGrf
  BY DEF Takes, Alu, PimCommand
<1>3. \A d, a, s : Takes(Mad(d, a, s)) = NumGrf
  BY DEF Takes, Mad, PimCommand
<1>4. \A n \in 1 .. 3 : Takes(Idle(n)) = n * NumGrf /\ Idle(n).type = "NOP"
  <2> TAKE n \in 1 .. 3
  <2>1. NumGrf \in Nat
    BY GeometryAssumption
  <2>2. PICK x \in Int : x = n * NumGrf
    BY <2>1
  <2>3. Idle(n) = Control("NOP", x - 1)
    BY <2>2 DEF Idle
  <2>4. Idle(n).type = "NOP" /\ Idle(n).loop_counter = x - 1
    BY <2>3, PlainTypes
  <2>5. \A c : c.type = "NOP" /\ c.is_auto = 0 => Takes(c) = c.loop_counter + 1
    BY DEF Takes
  <2>a. Idle(n).is_auto = 0
    BY <2>3 DEF Control, PimCommand
  <2>6. Takes(Idle(n)) = Idle(n).loop_counter + 1
    BY <2>4, <2>5, <2>a
  <2> QED BY <2>2, <2>4, <2>6
<1> QED BY <1>1, <1>2, <1>3, <1>4

\* An instruction of an elementwise program.
IsIns(c, op, n) ==
  /\ Takes(c) = TakesOf(op, n) /\ c.type \notin {"EXIT", "?", "JUMP"}
  /\ c.type = "NOP" <=> Idles(op, n)

\* The instructions of elementwise programs.
LEMMA DecodedIns ==
  ASSUME NEW op \in EltOps, NEW n \in 0 .. BodyLen(op) - 1
  PROVE  IsIns(Decoded(op)[n + 1], op, n)
<1>0. /\ Takes(Idle(1)) = NumGrf /\ Takes(Idle(2)) = 2 * NumGrf /\ Takes(Idle(3)) = 3 * NumGrf
      /\ Idle(1).type = "NOP" /\ Idle(2).type = "NOP" /\ Idle(3).type = "NOP"
  <2>1. NumGrf \in Nat /\ 1 * NumGrf = NumGrf
    BY GeometryAssumption
  <2> QED BY <2>1, InsTakes
<1>1. CASE op \in {"ADD", "MUL"}
  <2>1. PICK a, b, c, d, e : /\ a = Fill("GRF_A", "EVEN_BANK", 0, 0) /\ b = Alu(op, "GRF_A", "GRF_A", "EVEN_BANK")
                             /\ c = Idle(3) /\ d = Fill("GRF_B", "ODD_BANK", 0, 0)
                             /\ e = Alu(op, "GRF_B", "GRF_B", "ODD_BANK")
    OBVIOUS
  <2>2. Decoded(op) = <<a, b, c, d, e, c>>
    BY <1>1, <2>1, Zenon DEF Decoded
  <2>3. a.type = "FILL" /\ d.type = "FILL" /\ Takes(a) = NumGrf /\ Takes(d) = NumGrf
    BY <2>1, InsTakes, PlainTypes
  <2>4. b.type = op /\ e.type = op /\ Takes(b) = NumGrf /\ Takes(e) = NumGrf
    BY <1>1, <2>1, InsTakes, PlainTypes
  <2>5. c.type = "NOP" /\ Takes(c) = 3 * NumGrf
    BY <1>0, <2>1
  <2>6. n \in 0 .. 5
    BY <1>1 DEF BodyLen
  <2>7. CASE n = 0 \/ n = 3
    <3>1. Decoded(op)[n + 1] = a \/ Decoded(op)[n + 1] = d
      BY <2>2, <2>7
    <3>2. TakesOf(op, n) = NumGrf /\ ~Idles(op, n)
      BY <1>1, <2>7 DEF TakesOf, Idles
    <3> QED BY <2>3, <3>1, <3>2 DEF IsIns
  <2>8. CASE n = 1 \/ n = 4
    <3>1. Decoded(op)[n + 1] = b \/ Decoded(op)[n + 1] = e
      BY <2>2, <2>8
    <3>2. TakesOf(op, n) = NumGrf /\ ~Idles(op, n)
      BY <1>1, <2>8 DEF TakesOf, Idles
    <3> QED BY <1>1, <2>4, <3>1, <3>2 DEF IsIns
  <2>9. CASE n = 2 \/ n = 5
    <3>1. Decoded(op)[n + 1] = c
      BY <2>2, <2>9
    <3>2. TakesOf(op, n) = 3 * NumGrf /\ Idles(op, n)
      BY <1>1, <2>9 DEF TakesOf, Idles
    <3> QED BY <2>5, <3>1, <3>2 DEF IsIns
  <2> QED BY <2>6, <2>7, <2>8, <2>9
<1>2. CASE op \in {"RELU", "COPY"}
  <2>1. PICK r \in {0, 1} : r = IF op = "RELU" THEN 1 ELSE 0
    OBVIOUS
  <2>2. PICK a, b, c : /\ a = Fill("GRF_A", "EVEN_BANK", 0, r) /\ b = Idle(2)
                       /\ c = Fill("GRF_B", "ODD_BANK", 0, r)
    OBVIOUS
  <2>3. Decoded(op) = <<a, b, c, b>>
    <3>1. CASE op = "RELU"
      <4>1. r = 1
        BY <2>1, <3>1
      <4> QED BY <2>2, <3>1, <4>1, Zenon DEF Decoded
    <3>2. CASE op = "COPY"
      <4>1. r = 0
        BY <2>1, <3>2
      <4> QED BY <2>2, <3>2, <4>1, Zenon DEF Decoded
    <3> QED BY <1>2, <3>1, <3>2
  <2>a. a.type = "FILL" /\ c.type = "FILL"
    BY <2>2, PlainTypes
  <2>4. a.type = "FILL" /\ c.type = "FILL" /\ Takes(a) = NumGrf /\ Takes(c) = NumGrf
    BY <2>2, <2>a, InsTakes, Zenon
  <2>5. b.type = "NOP" /\ Takes(b) = 2 * NumGrf
    BY <1>0, <2>2
  <2>6. n \in 0 .. 3
    BY <1>2 DEF BodyLen
  <2>7. CASE n = 0 \/ n = 2
    <3>1. Decoded(op)[n + 1] = a \/ Decoded(op)[n + 1] = c
      BY <2>3, <2>7
    <3>2. TakesOf(op, n) = NumGrf /\ ~Idles(op, n)
      BY <1>2, <2>7 DEF TakesOf, Idles
    <3> QED BY <2>4, <3>1, <3>2 DEF IsIns
  <2>8. CASE n = 1 \/ n = 3
    <3>1. Decoded(op)[n + 1] = b
      BY <2>3, <2>8
    <3>2. TakesOf(op, n) = 2 * NumGrf /\ Idles(op, n)
      BY <1>2, <2>8 DEF TakesOf, Idles
    <3> QED BY <2>5, <3>1, <3>2 DEF IsIns
  <2> QED BY <2>6, <2>7, <2>8
<1>3. CASE op = "BN"
  <2>1. PICK a, b, c : a = Mad("GRF_A", "EVEN_BANK", 0) /\ b = Idle(1) /\ c = Mad("GRF_A", "GRF_A", 1)
    OBVIOUS
  <2>2. PICK e, g, h : e = Mad("GRF_B", "ODD_BANK", 0) /\ g = Mad("GRF_B", "GRF_B", 1) /\ h = Idle(3)
    OBVIOUS
  <2>3. Decoded(op) = <<a, b, c, b, e, b, g, h>>
    BY <1>3, <2>1, <2>2, Zenon DEF Decoded
  <2>4. /\ a.type = "MAD" /\ Takes(a) = NumGrf /\ c.type = "MAD" /\ Takes(c) = NumGrf
        /\ e.type = "MAD" /\ Takes(e) = NumGrf /\ g.type = "MAD" /\ Takes(g) = NumGrf
    BY <2>1, <2>2, InsTakes, PlainTypes
  <2>5. b.type = "NOP" /\ Takes(b) = NumGrf /\ h.type = "NOP" /\ Takes(h) = 3 * NumGrf
    BY <1>0, <2>1, <2>2
  <2>6. n \in 0 .. 7
    BY <1>3 DEF BodyLen
  <2>7. CASE n \in {0, 2, 4, 6}
    <3>1. Decoded(op)[n + 1] \in {a, c, e, g}
      BY <2>3, <2>7
    <3>2. TakesOf(op, n) = NumGrf /\ ~Idles(op, n)
      BY <1>3, <2>7 DEF TakesOf, Idles
    <3> QED BY <2>4, <3>1, <3>2 DEF IsIns
  <2>8. CASE n \in {1, 3, 5}
    <3>1. Decoded(op)[n + 1] = b
      BY <2>3, <2>8
    <3>2. TakesOf(op, n) = NumGrf /\ Idles(op, n)
      BY <1>3, <2>8 DEF TakesOf, Idles
    <3> QED BY <2>5, <3>1, <3>2 DEF IsIns
  <2>9. CASE n = 7
    <3>1. Decoded(op)[n + 1] = h
      BY <2>3, <2>9
    <3>2. TakesOf(op, n) = 3 * NumGrf /\ Idles(op, n)
      BY <1>3, <2>9 DEF TakesOf, Idles
    <3> QED BY <2>5, <3>1, <3>2 DEF IsIns
  <2> QED BY <2>6, <2>7, <2>8, <2>9
<1> QED BY <1>1, <1>2, <1>3 DEF EltOps

\* The jump back, t times taken.
JumpIs(jump, op, lc, t) ==
  jump = IF t = 0 THEN NoJump ELSE [at |-> BodyLen(op), left |-> lc - t]

\* In the t-th round (from 0) of lc + 1, rep commands into instruction n.
ControlAt(v, op, lc, t, n, rep) ==
  DOMAIN v = UnitFields /\ Loaded(v.crf, op, lc) /\ JumpIs(v.jump, op, lc, t) /\ v.pc = n /\ v.rep = rep
\* The program has ended.
Ended(v, op, lc) ==
  DOMAIN v = UnitFields /\ Loaded(v.crf, op, lc) /\ v.pc = BodyLen(op) + 1

SameRegs(v, w) == w.GRF_A = v.GRF_A /\ w.GRF_B = v.GRF_B /\ w.srf = v.srf

\* The instruction at the program counter.
LEMMA FetchIs ==
  ASSUME NEW op \in EltOps, NEW lc, NEW v, Loaded(v.crf, op, lc)
  PROVE  /\ v.pc \in 0 .. BodyLen(op) - 1 => Fetch(v) = Decoded(op)[v.pc + 1]
         /\ v.pc = BodyLen(op) => Fetch(v) = Jump(lc, BodyLen(op) + 1)
         /\ v.pc = BodyLen(op) + 1 => Fetch(v) = Exit
<1>1. BodyLen(op) \in {4, 6, 8}
  BY DEF EltOps, BodyLen
<1>2. v.pc \in 0 .. BodyLen(op) + 1 => Fetch(v) = v.crf[v.pc]
  BY DEF Fetch, Loaded
<1> QED BY <1>1, <1>2 DEF Loaded

\* What a command does to the program counter.
LEMMA ControlStep ==
  ASSUME NEW op \in EltOps, NEW lc \in Nat, NEW t \in 0 .. lc, NEW n \in 0 .. BodyLen(op) - 1,
         NEW rep \in Nat, rep < TakesOf(op, n),
         NEW v, ControlAt(v, op, lc, t, n, rep), NEW w, w = Step(v)
  PROVE  /\ SameRegs(v, w) /\ DOMAIN w = UnitFields /\ Loaded(w.crf, op, lc)
         /\ rep + 1 < TakesOf(op, n) => ControlAt(w, op, lc, t, n, rep + 1)
         /\ rep + 1 = TakesOf(op, n) /\ n < BodyLen(op) - 1 => ControlAt(w, op, lc, t, n + 1, 0)
         /\ rep + 1 = TakesOf(op, n) /\ n = BodyLen(op) - 1 /\ t < lc => ControlAt(w, op, lc, t + 1, 0, 0)
         /\ rep + 1 = TakesOf(op, n) /\ n = BodyLen(op) - 1 /\ t = lc => Ended(w, op, lc)
<1>1. PICK L \in {4, 6, 8} : L = BodyLen(op)
  BY DEF EltOps, BodyLen
<1>2. PICK K \in Nat : K = TakesOf(op, n)
  BY GeometryAssumption DEF TakesOf
<1>3. PICK ins : ins = Fetch(v)
  OBVIOUS
<1>4. IsIns(ins, op, n)
  <2>1. ins = Decoded(op)[n + 1]
    BY <1>3, FetchIs DEF ControlAt
  <2> QED BY <2>1, DecodedIns
<1>5. ins.type \notin {"EXIT", "?"} /\ Takes(ins) = K
  BY <1>2, <1>4 DEF IsIns
<1>6. /\ DOMAIN v = UnitFields /\ Loaded(v.crf, op, lc) /\ JumpIs(v.jump, op, lc, t)
      /\ v.pc = n /\ v.rep = rep
  BY DEF ControlAt
<1>7. CASE rep + 1 < K
  <2>1. w = [v EXCEPT !.rep = rep + 1]
    BY <1>3, <1>5, <1>6, <1>7 DEF Step
  <2>2. SameRegs(v, w) /\ DOMAIN w = UnitFields /\ w.crf = v.crf /\ w.jump = v.jump /\ w.pc = n /\ w.rep = rep + 1
    BY <1>6, <2>1 DEF SameRegs, UnitFields
  <2>3. ControlAt(w, op, lc, t, n, rep + 1)
    BY <1>6, <2>2 DEF ControlAt
  <2> QED BY <1>2, <1>6, <1>7, <2>2, <2>3
<1>8. CASE rep + 1 = K
  <2>0. w = AfterInstruction(v)
    BY <1>3, <1>5, <1>6, <1>8 DEF Step
  <2>1. PICK m \in 1 .. L : m = n + 1
    BY <1>1
  <2>2. PICK x : x = [v EXCEPT !.pc = m]
    OBVIOUS
  <2>3. x.crf = v.crf /\ x.pc = m
    BY <1>6, <2>2 DEF UnitFields
  <2>4. PICK cmd : cmd = Fetch(x)
    OBVIOUS
  <2>5. PICK left : left = IF v.jump.at = m THEN v.jump.left ELSE cmd.loop_counter
    OBVIOUS
  <2>6. w = IF cmd.type # "JUMP" THEN [v EXCEPT !.pc = m, !.rep = 0]
            ELSE IF left > 0
              THEN [v EXCEPT !.pc = m - cmd.loop_offset + 1, !.rep = 0,
                             !.jump = [at |-> m, left |-> left - 1]]
              ELSE [v EXCEPT !.pc = m + 1, !.rep = 0, !.jump = [at |-> m, left |-> 0]]
    BY <1>6, <2>0, <2>1, <2>2, <2>4, <2>5, Zenon DEF AfterInstruction
  <2>7. CASE m < L
    <3>a. m \in 0 .. BodyLen(op) - 1 /\ Loaded(x.crf, op, lc) /\ x.pc = m
      BY <1>1, <1>6, <2>3, <2>7
    <3>1. cmd = Decoded(op)[m + 1] /\ m \in 0 .. BodyLen(op) - 1
      BY <2>4, <3>a, FetchIs
    <3>2. cmd.type # "JUMP"
      BY <3>1, DecodedIns DEF IsIns
    <3>3. w = [v EXCEPT !.pc = m, !.rep = 0]
      BY <2>6, <3>2
    <3>4. SameRegs(v, w) /\ DOMAIN w = UnitFields /\ w.crf = v.crf /\ w.jump = v.jump /\ w.pc = m /\ w.rep = 0
      BY <1>6, <3>3 DEF SameRegs, UnitFields
    <3>5. ControlAt(w, op, lc, t, m, 0)
      BY <1>6, <3>4 DEF ControlAt
    <3> QED BY <1>1, <1>2, <1>6, <1>8, <2>1, <2>7, <3>4, <3>5
  <2>8. CASE m = L
    <3>1. cmd = Jump(lc, L + 1)
      BY <1>1, <1>6, <2>3, <2>4, <2>8, FetchIs
    <3>2. cmd.type = "JUMP" /\ cmd.loop_counter = lc /\ cmd.loop_offset = L + 1
      BY <3>1, PlainTypes
    <3>3. left = lc - t
      <4>1. CASE t = 0
        <5>1. v.jump.at = -1
          BY <1>6, <4>1 DEF JumpIs, NoJump
        <5> QED BY <2>5, <3>2, <4>1, <5>1
      <4>2. CASE t # 0
        <5>1. v.jump.at = L /\ v.jump.left = lc - t
          BY <1>1, <1>6, <4>2 DEF JumpIs
        <5> QED BY <2>5, <2>8, <5>1
      <4> QED BY <4>1, <4>2
    <3>4. CASE t < lc
      <4>1. PICK jmp : jmp = [at |-> m, left |-> left - 1]
        OBVIOUS
      <4>2. m - cmd.loop_offset + 1 = 0 /\ left > 0
        BY <2>8, <3>2, <3>3, <3>4
      <4>3. w = [v EXCEPT !.pc = 0, !.rep = 0, !.jump = jmp]
        BY <2>6, <3>2, <4>1, <4>2
      <4>4. SameRegs(v, w) /\ DOMAIN w = UnitFields /\ w.crf = v.crf /\ w.jump = jmp /\ w.pc = 0 /\ w.rep = 0
        BY <1>6, <4>3 DEF SameRegs, UnitFields
      <4>5. JumpIs(jmp, op, lc, t + 1)
        <5>1. left - 1 = lc - (t + 1) /\ t + 1 # 0
          BY <3>3
        <5> QED BY <1>1, <2>8, <4>1, <5>1 DEF JumpIs
      <4>6. ControlAt(w, op, lc, t + 1, 0, 0)
        BY <1>6, <4>4, <4>5 DEF ControlAt
      <4> QED BY <1>1, <1>2, <1>6, <1>8, <2>1, <2>8, <3>4, <4>4, <4>6
    <3>5. CASE t = lc
      <4>1. PICK jmp : jmp = [at |-> m, left |-> 0]
        OBVIOUS
      <4>2. ~(left > 0)
        BY <3>3, <3>5
      <4>3. w = [v EXCEPT !.pc = m + 1, !.rep = 0, !.jump = jmp]
        BY <2>6, <3>2, <4>1, <4>2
      <4>4. SameRegs(v, w) /\ DOMAIN w = UnitFields /\ w.crf = v.crf /\ w.pc = m + 1
        BY <1>6, <4>3 DEF SameRegs, UnitFields
      <4>5. Ended(w, op, lc)
        BY <1>1, <1>6, <2>8, <4>4 DEF Ended
      <4> QED BY <1>1, <1>2, <1>6, <1>8, <2>1, <2>8, <3>5, <4>4, <4>5
    <3> QED BY <3>4, <3>5
  <2> QED BY <1>1, <2>1, <2>7, <2>8
<1> QED BY <1>2, <1>7, <1>8

-----------------------------------------------------------------------------
(* What the instructions of an elementwise program compute.                *)

File(v, b) == IF b = 0 THEN v.GRF_A ELSE v.GRF_B
FileName(b) == IF b = 0 THEN "GRF_A" ELSE "GRF_B"
BankName(b) == IF b = 0 THEN "EVEN_BANK" ELSE "ODD_BANK"

\* w is v with another value in register l of file b.
Puts(v, w, b, l, val) ==
  /\ File(w, b) = [File(v, b) EXCEPT ![l] = val] /\ File(w, 1 - b) = File(v, 1 - b)

\* What an instruction with a destination does.
LEMMA ComputePuts ==
  ASSUME NEW v, DOMAIN v = UnitFields, NEW c, NEW data, NEW b \in 0 .. 1, NEW ins, ins.dst = FileName(b),
         NEW x, x = Operand(v, c, data, ins.src0), NEW y, y = Operand(v, c, data, ins.src1),
         NEW w, w = Compute(v, c, data, ins)
  PROVE  /\ ins.type = "FILL" => Puts(v, w, b, Col(c), IF ins.is_relu = 1 THEN <<"RELU", x>> ELSE x)
         /\ ins.type \in {"ADD", "MUL"} => Puts(v, w, b, Col(c), <<ins.type, x, y>>)
         /\ ins.type = "MAD" /\ v.srf => Puts(v, w, b, Col(c), <<"MAD", x, ins.src1_idx>>)
<1> DEFINE put(file, val) == IF ins.dst = file THEN [v[file] EXCEPT ![Col(c)] = val] ELSE v[file]
           set(val) == [v EXCEPT !.GRF_A = put("GRF_A", val), !.GRF_B = put("GRF_B", val)]
<1>1. ASSUME NEW val PROVE Puts(v, set(val), b, Col(c), val)
  <2>1. PICK f, g : f = put("GRF_A", val) /\ g = put("GRF_B", val)
    OBVIOUS
  <2>2. PICK s : s = [v EXCEPT !.GRF_A = f, !.GRF_B = g]
    OBVIOUS
  <2>3. s.GRF_A = f /\ s.GRF_B = g
    BY <2>2 DEF UnitFields
  <2>4. s = set(val)
    BY <2>1, <2>2
  <2>5. CASE b = 0
    <3>1. f = [v.GRF_A EXCEPT ![Col(c)] = val] /\ g = v.GRF_B
      BY <2>1, <2>5 DEF FileName
    <3> QED BY <2>3, <2>4, <2>5, <3>1 DEF Puts, File
  <2>6. CASE b = 1
    <3>1. g = [v.GRF_B EXCEPT ![Col(c)] = val] /\ f = v.GRF_A
      BY <2>1, <2>6 DEF FileName
    <3> QED BY <2>3, <2>4, <2>6, <3>1 DEF Puts, File
  <2> QED BY <2>5, <2>6
<1>2. ins.type = "FILL" => w = set(IF ins.is_relu = 1 THEN <<"RELU", x>> ELSE x)
  BY DEF Compute
<1>3. ins.type \in {"ADD", "MUL"} => w = set(<<ins.type, x, y>>)
  BY DEF Compute
<1>4. ins.type = "MAD" /\ v.srf => w = set(<<"MAD", x, ins.src1_idx>>)
  BY DEF Compute
<1> HIDE DEF set
<1> QED BY <1>1, <1>2, <1>3, <1>4

\* NOP does nothing.
LEMMA ComputeNothing ==
  ASSUME NEW v, NEW c, NEW data, NEW ins, ins.type = "NOP"
  PROVE  Compute(v, c, data, ins) = v
BY DEF Compute

\* The operands of an instruction that works on bank b.
LEMMA OperandIs ==
  ASSUME NEW v, NEW c, NEW data, NEW b \in 0 .. 1, c.bank = b
  PROVE  /\ Operand(v, c, data, BankName(b)) = data
         /\ Operand(v, c, data, FileName(b)) = File(v, b)[Col(c)]
BY DEF Operand, BankName, FileName, File

\* The instruction of window i, and the value it computes from its register and
\* the bank.
PcOf(i) == IF i = 8 THEN 7 ELSE i
NewValue(op, i, old, data) ==
  CASE op \in {"ADD", "MUL"} -> IF i \in {0, 3} THEN data ELSE <<op, old, data>>
    [] op = "RELU" -> <<"RELU", data>>
    [] op = "COPY" -> data
    [] OTHER -> IF i \in {0, 4} THEN <<"MAD", data, 0>> ELSE <<"MAD", old, 1>>

\* The instruction of a window that computes, by its bank.
LEMMA InsOfWindow ==
  ASSUME NEW op \in EltOps, NEW i \in 0 .. TileLen(op) - 1, ~Idles(op, PcOf(i)),
         NEW b, b = BankOf(op, i), NEW ins, ins = Decoded(op)[PcOf(i) + 1]
  PROVE  /\ op \in {"ADD", "MUL"} /\ i \in {0, 3} => ins = Fill(FileName(b), BankName(b), 0, 0)
         /\ op \in {"ADD", "MUL"} /\ i \notin {0, 3} => ins = Alu(op, FileName(b), FileName(b), BankName(b))
         /\ op = "RELU" => ins = Fill(FileName(b), BankName(b), 0, 1)
         /\ op = "COPY" => ins = Fill(FileName(b), BankName(b), 0, 0)
         /\ op = "BN" /\ i \in {0, 4} => ins = Mad(FileName(b), BankName(b), 0)
         /\ op = "BN" /\ i \notin {0, 4} => ins = Mad(FileName(b), FileName(b), 1)
<1>1. CASE op \in {"ADD", "MUL"}
  <2>1. i \in {0, 1, 3, 4} /\ PcOf(i) = i
    BY <1>1 DEF Idles, PcOf, TileLen
  <2>2. PICK a, p, q, d, e : /\ a = Fill("GRF_A", "EVEN_BANK", 0, 0) /\ p = Alu(op, "GRF_A", "GRF_A", "EVEN_BANK")
                             /\ q = Idle(3) /\ d = Fill("GRF_B", "ODD_BANK", 0, 0)
                             /\ e = Alu(op, "GRF_B", "GRF_B", "ODD_BANK")
    OBVIOUS
  <2>3. Decoded(op) = <<a, p, q, d, e, q>>
    BY <1>1, <2>2, Zenon DEF Decoded
  <2>4. CASE i = 0
    <3>1. b = 0 /\ ins = a
      BY <1>1, <2>1, <2>3, <2>4 DEF BankOf
    <3> QED BY <1>1, <2>2, <2>4, <3>1 DEF FileName, BankName
  <2>5. CASE i = 1
    <3>1. b = 0 /\ ins = p
      BY <1>1, <2>1, <2>3, <2>5 DEF BankOf
    <3> QED BY <1>1, <2>2, <2>5, <3>1 DEF FileName, BankName
  <2>6. CASE i = 3
    <3>1. b = 1 /\ ins = d
      BY <1>1, <2>1, <2>3, <2>6 DEF BankOf
    <3> QED BY <1>1, <2>2, <2>6, <3>1 DEF FileName, BankName
  <2>7. CASE i = 4
    <3>1. b = 1 /\ ins = e
      BY <1>1, <2>1, <2>3, <2>7 DEF BankOf
    <3> QED BY <1>1, <2>2, <2>7, <3>1 DEF FileName, BankName
  <2> QED BY <2>1, <2>4, <2>5, <2>6, <2>7
<1>2. CASE op \in {"RELU", "COPY"}
  <2>1. i \in {0, 2} /\ PcOf(i) = i
    BY <1>2 DEF Idles, PcOf, TileLen
  <2>2. PICK r \in {0, 1} : r = IF op = "RELU" THEN 1 ELSE 0
    OBVIOUS
  <2>3. PICK a, p, q : /\ a = Fill("GRF_A", "EVEN_BANK", 0, r) /\ p = Idle(2)
                       /\ q = Fill("GRF_B", "ODD_BANK", 0, r)
    OBVIOUS
  <2>4. Decoded(op) = <<a, p, q, p>>
    <3>1. CASE op = "RELU"
      <4>1. r = 1
        BY <2>2, <3>1
      <4> QED BY <2>3, <3>1, <4>1, Zenon DEF Decoded
    <3>2. CASE op = "COPY"
      <4>1. r = 0
        BY <2>2, <3>2
      <4> QED BY <2>3, <3>2, <4>1, Zenon DEF Decoded
    <3> QED BY <1>2, <3>1, <3>2
  <2>5. CASE i = 0
    <3>1. b = 0 /\ ins = a
      BY <1>2, <2>1, <2>4, <2>5 DEF BankOf
    <3> QED BY <1>2, <2>2, <2>3, <2>5, <3>1 DEF FileName, BankName
  <2>6. CASE i = 2
    <3>1. b = 1 /\ ins = q
      BY <1>2, <2>1, <2>4, <2>6 DEF BankOf
    <3> QED BY <1>2, <2>2, <2>3, <2>6, <3>1 DEF FileName, BankName
  <2> QED BY <2>1, <2>5, <2>6
<1>3. CASE op = "BN"
  <2>1. i \in {0, 2, 4, 6} /\ PcOf(i) = i
    BY <1>3 DEF Idles, PcOf, TileLen
  <2>2. PICK a, p, q : a = Mad("GRF_A", "EVEN_BANK", 0) /\ p = Idle(1) /\ q = Mad("GRF_A", "GRF_A", 1)
    OBVIOUS
  <2>3. PICK e, g, h : e = Mad("GRF_B", "ODD_BANK", 0) /\ g = Mad("GRF_B", "GRF_B", 1) /\ h = Idle(3)
    OBVIOUS
  <2>4. Decoded(op) = <<a, p, q, p, e, p, g, h>>
    BY <1>3, <2>2, <2>3, Zenon DEF Decoded
  <2>5. CASE i = 0
    <3>1. b = 0 /\ ins = a
      BY <1>3, <2>1, <2>4, <2>5 DEF BankOf
    <3> QED BY <1>3, <2>2, <2>5, <3>1 DEF FileName, BankName
  <2>6. CASE i = 2
    <3>1. b = 0 /\ ins = q
      BY <1>3, <2>1, <2>4, <2>6 DEF BankOf
    <3> QED BY <1>3, <2>2, <2>6, <3>1 DEF FileName, BankName
  <2>7. CASE i = 4
    <3>1. b = 1 /\ ins = e
      BY <1>3, <2>1, <2>4, <2>7 DEF BankOf
    <3> QED BY <1>3, <2>3, <2>7, <3>1 DEF FileName, BankName
  <2>8. CASE i = 6
    <3>1. b = 1 /\ ins = g
      BY <1>3, <2>1, <2>4, <2>8 DEF BankOf
    <3> QED BY <1>3, <2>3, <2>8, <3>1 DEF FileName, BankName
  <2> QED BY <2>1, <2>5, <2>6, <2>7, <2>8
<1> QED BY <1>1, <1>2, <1>3 DEF EltOps

\* What the access of a window computes.
LEMMA WindowComputes ==
  ASSUME NEW op \in EltOps, NEW i \in 0 .. TileLen(op) - 1, NEW b, b = BankOf(op, i),
         NEW v, DOMAIN v = UnitFields, op = "BN" => v.srf,
         NEW ins, ins = Decoded(op)[PcOf(i) + 1], NEW c, c.bank = b, NEW data,
         NEW w, w = Compute(v, c, data, ins)
  PROVE  /\ Idles(op, PcOf(i)) => w = v
         /\ ~Idles(op, PcOf(i)) =>
              Puts(v, w, b, Col(c), NewValue(op, i, File(v, b)[Col(c)], data))
<1>0. b \in 0 .. 1
  BY DEF BankOf
<1>1. PcOf(i) \in 0 .. BodyLen(op) - 1
  BY DEF PcOf, TileLen, BodyLen, EltOps
<1>2. CASE Idles(op, PcOf(i))
  <2>1. ins.type = "NOP"
    BY <1>1, <1>2, DecodedIns DEF IsIns
  <2> QED BY <1>2, <2>1, ComputeNothing
<1>3. CASE ~Idles(op, PcOf(i))
  <2>1. PICK x, y : x = Operand(v, c, data, ins.src0) /\ y = Operand(v, c, data, ins.src1)
    OBVIOUS
  <2>2. PICK old : old = File(v, b)[Col(c)]
    OBVIOUS
  <2>3. Operand(v, c, data, BankName(b)) = data /\ Operand(v, c, data, FileName(b)) = old
    BY <1>0, <2>2, OperandIs
  <2>4. PICK F, B : F = FileName(b) /\ B = BankName(b)
    OBVIOUS
  <2>5. CASE (op \in {"ADD", "MUL"} /\ i \in {0, 3}) \/ op = "COPY"
    <3>1. ins = Fill(F, B, 0, 0)
      BY <1>3, <2>4, <2>5, InsOfWindow
    <3>2. ins.type = "FILL" /\ ins.dst = F /\ ins.src0 = B /\ ins.is_relu = 0
      BY <3>1 DEF Fill, PimCommand
    <3>3. x = data
      BY <2>1, <2>3, <2>4, <3>2
    <3>4. NewValue(op, i, old, data) = data
      BY <2>5 DEF NewValue
    <3>5. Puts(v, w, b, Col(c), IF ins.is_relu = 1 THEN <<"RELU", x>> ELSE x)
      BY <1>0, <2>1, <2>4, <3>2, ComputePuts
    <3> QED BY <1>3, <2>2, <3>2, <3>3, <3>4, <3>5
  <2>6. CASE op = "RELU"
    <3>1. ins = Fill(F, B, 0, 1)
      BY <1>3, <2>4, <2>6, InsOfWindow
    <3>2. ins.type = "FILL" /\ ins.dst = F /\ ins.src0 = B /\ ins.is_relu = 1
      BY <3>1 DEF Fill, PimCommand
    <3>3. x = data
      BY <2>1, <2>3, <2>4, <3>2
    <3>4. NewValue(op, i, old, data) = <<"RELU", data>>
      BY <2>6 DEF NewValue
    <3>5. Puts(v, w, b, Col(c), IF ins.is_relu = 1 THEN <<"RELU", x>> ELSE x)
      BY <1>0, <2>1, <2>4, <3>2, ComputePuts
    <3> QED BY <1>3, <2>2, <3>2, <3>3, <3>4, <3>5
  <2>7. CASE op \in {"ADD", "MUL"} /\ i \notin {0, 3}
    <3>1. ins = Alu(op, F, F, B)
      BY <1>3, <2>4, <2>7, InsOfWindow
    <3>2. ins.type = op /\ ins.dst = F /\ ins.src0 = F /\ ins.src1 = B
      BY <3>1 DEF Alu, PimCommand
    <3>3. x = old /\ y = data
      BY <2>1, <2>3, <2>4, <3>2
    <3>4. NewValue(op, i, old, data) = <<op, old, data>>
      BY <2>7 DEF NewValue
    <3>5. Puts(v, w, b, Col(c), <<ins.type, x, y>>)
      BY <1>0, <2>1, <2>4, <2>7, <3>2, ComputePuts
    <3> QED BY <1>3, <2>2, <3>2, <3>3, <3>4, <3>5
  <2>8. CASE op = "BN" /\ i \in {0, 4}
    <3>1. ins = Mad(F, B, 0)
      BY <1>3, <2>4, <2>8, InsOfWindow
    <3>2. ins.type = "MAD" /\ ins.dst = F /\ ins.src0 = B /\ ins.src1_idx = 0
      BY <3>1 DEF Mad, PimCommand
    <3>3. x = data
      BY <2>1, <2>3, <2>4, <3>2
    <3>4. NewValue(op, i, old, data) = <<"MAD", data, 0>>
      BY <2>8 DEF NewValue
    <3>a. v.srf /\ ins.type = "MAD" /\ ins.dst = FileName(b)
      BY <2>4, <2>8, <3>2
    <3>5. Puts(v, w, b, Col(c), <<"MAD", x, ins.src1_idx>>)
      BY <1>0, <2>1, <3>a, ComputePuts, Zenon
    <3> QED BY <1>3, <2>2, <3>2, <3>3, <3>4, <3>5
  <2>9. CASE op = "BN" /\ i \notin {0, 4}
    <3>1. ins = Mad(F, F, 1)
      BY <1>3, <2>4, <2>9, InsOfWindow
    <3>2. ins.type = "MAD" /\ ins.dst = F /\ ins.src0 = F /\ ins.src1_idx = 1
      BY <3>1 DEF Mad, PimCommand
    <3>3. x = old
      BY <2>1, <2>3, <2>4, <3>2
    <3>4. NewValue(op, i, old, data) = <<"MAD", old, 1>>
      BY <2>9 DEF NewValue
    <3>a. v.srf /\ ins.type = "MAD" /\ ins.dst = FileName(b)
      BY <2>4, <2>9, <3>2
    <3>5. Puts(v, w, b, Col(c), <<"MAD", x, ins.src1_idx>>)
      BY <1>0, <2>1, <3>a, ComputePuts, Zenon
    <3> QED BY <1>3, <2>2, <3>2, <3>3, <3>4, <3>5
  <2> QED BY <2>5, <2>6, <2>7, <2>8, <2>9 DEF EltOps
<1> QED BY <1>2, <1>3

-----------------------------------------------------------------------------
(* The registers and the output of one lane of a tile.                     *)

\* The windows that begin and complete the value for bank b.
Opens(op, b) == CASE op \in {"ADD", "MUL"} -> 3 * b [] op \in {"RELU", "COPY"} -> 2 * b [] OTHER -> 4 * b
Closes(op, b) == CASE op \in {"ADD", "MUL"} -> 3 * b + 1 [] op \in {"RELU", "COPY"} -> 2 * b
                   [] OTHER -> 4 * b + 2

Source(buf, d) == <<buf, d[1], d[2]>>
Half(j, d) == IF j.op = "BN" THEN <<"MAD", Source("op0", d), 0>> ELSE Source("op0", d)

\* Register r of file b and item m of the output, at place d, when the lane has
\* made the first access of s windows of its tile.
LaneOK(j, b, s, d, r, m) ==
  /\ s \in Opens(j.op, b) + 1 .. Closes(j.op, b) => r = Half(j, d)
  /\ s > Closes(j.op, b) => r = EltValue(j, d)
  /\ s < WriteAt(j.op, b) => m = Source(j.out, d)
  /\ s > WriteAt(j.op, b) => m = EltValue(j, d)

\* Where the windows of a bank are, and what their instructions are.
LEMMA BankTables ==
  ASSUME NEW op \in EltOps, NEW b \in 0 .. 1
  PROVE  /\ Opens(op, b) \in Nat /\ Closes(op, b) \in Nat /\ WriteAt(op, b) \in Nat
         /\ Opens(op, b) <= Closes(op, b) /\ Closes(op, b) < WriteAt(op, b) /\ WriteAt(op, b) < TileLen(op)
         /\ BankOf(op, Opens(op, b)) = b /\ BankOf(op, Closes(op, b)) = b /\ BankOf(op, WriteAt(op, b)) = b
         /\ ~Idles(op, PcOf(Opens(op, b))) /\ ~Idles(op, PcOf(Closes(op, b))) /\ Idles(op, PcOf(WriteAt(op, b)))
<1>1. CASE op \in {"ADD", "MUL"}
  BY <1>1 DEF Opens, Closes, WriteAt, TileLen, BankOf, Idles, PcOf
<1>2. CASE op \in {"RELU", "COPY"}
  BY <1>2 DEF Opens, Closes, WriteAt, TileLen, BankOf, Idles, PcOf
<1>3. CASE op = "BN"
  BY <1>3 DEF Opens, Closes, WriteAt, TileLen, BankOf, Idles, PcOf
<1> QED BY <1>1, <1>2, <1>3 DEF EltOps

\* A window that computes is one of the two that do for its bank.
LEMMA ComputesWhere ==
  ASSUME NEW op \in EltOps, NEW i \in 0 .. TileLen(op) - 1, ~Idles(op, PcOf(i)), NEW b, b = BankOf(op, i)
  PROVE  (i = Opens(op, b) \/ i = Closes(op, b)) /\ ~Writes(op, i)
<1>1. CASE op \in {"ADD", "MUL"}
  <2>1. i \in {0, 1, 3, 4}
    BY <1>1 DEF TileLen, Idles, PcOf
  <2> QED BY <1>1, <2>1 DEF Opens, Closes, BankOf, Writes, WriteAt
<1>2. CASE op \in {"RELU", "COPY"}
  <2>1. i \in {0, 2}
    BY <1>2 DEF TileLen, Idles, PcOf
  <2> QED BY <1>2, <2>1 DEF Opens, Closes, BankOf, Writes, WriteAt
<1>3. CASE op = "BN"
  <2>1. i \in {0, 2, 4, 6}
    BY <1>3 DEF TileLen, Idles, PcOf
  <2> QED BY <1>3, <2>1 DEF Opens, Closes, BankOf, Writes, WriteAt
<1> QED BY <1>1, <1>2, <1>3 DEF EltOps

HalfMade(j, b, i, d, old) == i \in Opens(j.op, b) + 1 .. Closes(j.op, b) => old = Half(j, d)

\* The value of an instruction, of the right operands.
LEMMA ValueStep ==
  ASSUME NEW j, j.op \in EltOps, NEW b \in 0 .. 1, NEW d, NEW i, NEW old,
         HalfMade(j, b, i, d, old),
         NEW r, r = NewValue(j.op, i, old, Source(SourceOf(j.op, i), d))
  PROVE  /\ i = Closes(j.op, b) => r = EltValue(j, d)
         /\ i = Opens(j.op, b) /\ i # Closes(j.op, b) => r = Half(j, d)
<1>1. CASE j.op \in {"ADD", "MUL"}
  <2>1. Opens(j.op, b) = 3 * b /\ Closes(j.op, b) = 3 * b + 1
    BY <1>1 DEF Opens, Closes
  <2>2. ASSUME i = Opens(j.op, b) PROVE r = Half(j, d)
    <3>1. i \in {0, 3} /\ SourceOf(j.op, i) = "op0"
      BY <2>1, <2>2 DEF SourceOf
    <3> QED BY <1>1, <3>1 DEF NewValue, Half
  <2>3. ASSUME i = Closes(j.op, b) PROVE r = EltValue(j, d)
    <3>1. i \notin {0, 3} /\ SourceOf(j.op, i) = "op1" /\ old = Half(j, d)
      BY <1>1, <2>1, <2>3 DEF SourceOf, HalfMade
    <3> QED BY <1>1, <3>1 DEF NewValue, Half, EltValue, Source
  <2> QED BY <2>2, <2>3
<1>2. CASE j.op \in {"RELU", "COPY"}
  <2>1. Opens(j.op, b) = Closes(j.op, b) /\ SourceOf(j.op, i) = "op0"
    BY <1>2 DEF Opens, Closes, SourceOf
  <2> QED BY <1>2, <2>1 DEF NewValue, EltValue, Source
<1>3. CASE j.op = "BN"
  <2>1. Opens(j.op, b) = 4 * b /\ Closes(j.op, b) = 4 * b + 2 /\ SourceOf(j.op, i) = "op0"
    BY <1>3 DEF Opens, Closes, SourceOf
  <2>2. ASSUME i = Opens(j.op, b) PROVE r = Half(j, d)
    <3>1. i \in {0, 4}
      BY <2>1, <2>2
    <3> QED BY <1>3, <2>1, <3>1 DEF NewValue, Half
  <2>3. ASSUME i = Closes(j.op, b) PROVE r = EltValue(j, d)
    <3>1. i \notin {0, 4} /\ old = Half(j, d)
      BY <2>1, <2>3 DEF HalfMade
    <3> QED BY <1>3, <3>1 DEF NewValue, Half, EltValue, Source
  <2> QED BY <2>2, <2>3
<1> QED BY <1>1, <1>2, <1>3 DEF EltOps

\* What the access of a lane does to its registers and its items.
Taken(j, i, n, b, d, r, m, r2, m2) ==
  /\ b # BankOf(j.op, i) => r2 = r /\ m2 = m
  /\ b = BankOf(j.op, i) =>
       /\ r2 = IF Idles(j.op, PcOf(i)) THEN r ELSE NewValue(j.op, i, r, Source(SourceOf(j.op, i), d))
       /\ m2 = IF KindOf(j.op, i, n) = "W" THEN r ELSE m

\* An access keeps its lane right.
LEMMA LaneStep ==
  ASSUME NEW j, j.op \in EltOps, NEW i \in 0 .. TileLen(j.op) - 1, NEW n \in 1 .. Count(j.op, i),
         NEW b \in 0 .. 1, NEW s \in {i, i + 1}, NEW s2, n = 1 => s = i /\ s2 = i + 1, n # 1 => s2 = s,
         NEW d, NEW r, NEW m, LaneOK(j, b, s, d, r, m), NEW r2, NEW m2, Taken(j, i, n, b, d, r, m, r2, m2)
  PROVE  LaneOK(j, b, s2, d, r2, m2)
<1>1. PICK o \in Nat, c \in Nat, w \in Nat : o = Opens(j.op, b) /\ c = Closes(j.op, b) /\ w = WriteAt(j.op, b)
  BY BankTables
<1>2. /\ o <= c /\ c < w /\ BankOf(j.op, o) = b /\ BankOf(j.op, c) = b /\ BankOf(j.op, w) = b
      /\ ~Idles(j.op, PcOf(o)) /\ ~Idles(j.op, PcOf(c)) /\ Idles(j.op, PcOf(w))
  BY <1>1, BankTables
<1>3. PICK h, e, x : h = Half(j, d) /\ e = EltValue(j, d) /\ x = Source(j.out, d)
  OBVIOUS
<1>4. /\ s \in o + 1 .. c => r = h
      /\ s > c => r = e
      /\ s < w => m = x
      /\ s > w => m = e
  BY <1>1, <1>3 DEF LaneOK
<1>5. i \in Nat /\ s \in Nat /\ s2 \in Nat
  BY DEF TileLen
<1>g. SUFFICES /\ s2 \in o + 1 .. c => r2 = h
               /\ s2 > c => r2 = e
               /\ s2 < w => m2 = x
               /\ s2 > w => m2 = e
  BY <1>1, <1>3 DEF LaneOK
<1>6. CASE b # BankOf(j.op, i)
  <2>1. i # o /\ i # c /\ i # w /\ r2 = r /\ m2 = m
    BY <1>2, <1>6 DEF Taken
  <2> QED BY <1>4, <1>5, <2>1
<1>7. CASE b = BankOf(j.op, i) /\ ~Idles(j.op, PcOf(i))
  <2>1. (i = o \/ i = c) /\ ~Writes(j.op, i)
    BY <1>1, <1>7, ComputesWhere
  <2>2. Count(j.op, i) = 1 /\ KindOf(j.op, i, n) = "R"
    BY <2>1 DEF Count, KindOf
  <2>3. n = 1 /\ s = i /\ s2 = i + 1 /\ m2 = m
    BY <1>7, <2>2 DEF Taken
  <2>4. r2 = NewValue(j.op, i, r, Source(SourceOf(j.op, i), d))
    BY <1>7 DEF Taken
  <2>a. HalfMade(j, b, i, d, r)
    BY <1>1, <1>3, <1>4, <2>3 DEF HalfMade
  <2>5. (i = c => r2 = e) /\ (i = o /\ i # c => r2 = h)
    BY <1>1, <1>3, <2>a, <2>4, ValueStep
  <2> QED BY <1>2, <1>4, <1>5, <2>1, <2>3, <2>5
<1>8. CASE b = BankOf(j.op, i) /\ Idles(j.op, PcOf(i))
  <2>1. i # o /\ i # c /\ r2 = r
    BY <1>2, <1>8 DEF Taken
  <2>2. CASE i = w
    <3>1. r = e
      BY <1>2, <1>4, <1>5, <2>2
    <3>2. Writes(j.op, i)
      BY <1>1, <2>2 DEF Writes
    <3>3. n = 1 => m2 = r
      BY <1>8, <3>2 DEF Taken, KindOf
    <3>4. m2 = r \/ m2 = m
      BY <1>8 DEF Taken
    <3> QED BY <1>2, <1>4, <1>5, <2>1, <2>2, <3>1, <3>3, <3>4
  <2>3. CASE i # w
    <3>1. ~Writes(j.op, i)
      <4>1. SUFFICES ASSUME Writes(j.op, i) PROVE FALSE
        OBVIOUS
      <4>2. PICK bb \in 0 .. 1 : i = WriteAt(j.op, bb)
        BY <4>1 DEF Writes
      <4>3. BankOf(j.op, i) = bb
        BY <4>2, BankTables
      <4> QED BY <1>1, <1>8, <2>3, <4>2, <4>3
    <3>2. n = 1 /\ m2 = m
      BY <1>8, <3>1 DEF Taken, Count, KindOf
    <3> QED BY <1>4, <1>5, <2>1, <2>3, <3>2
  <2> QED BY <2>2, <2>3
<1> QED BY <1>6, <1>7, <1>8

-----------------------------------------------------------------------------
(* The unit and an access of a tile.                                       *)

RegsOK(v) == DOMAIN v = UnitFields /\ DOMAIN v.GRF_A = Lanes /\ DOMAIN v.GRF_B = Lanes

\* The registers of w after the access of lane l in window i of v.
Registers(v, w, op, i, l, data) ==
  \A b \in 0 .. 1 : \A k \in Lanes :
    File(w, b)[k] = IF b = BankOf(op, i) /\ k = l /\ ~Idles(op, PcOf(i))
                      THEN NewValue(op, i, File(v, b)[l], data) ELSE File(v, b)[k]

\* A program takes a command: the next of the instruction, or the next
\* instruction, or the next round.
Advances(w, op, lc, t, n, rep) ==
  /\ rep + 1 < TakesOf(op, n) => ControlAt(w, op, lc, t, n, rep + 1)
  /\ rep + 1 = TakesOf(op, n) /\ n < BodyLen(op) - 1 => ControlAt(w, op, lc, t, n + 1, 0)
  /\ rep + 1 = TakesOf(op, n) /\ n = BodyLen(op) - 1 /\ t < lc => ControlAt(w, op, lc, t + 1, 0, 0)
  /\ rep + 1 = TakesOf(op, n) /\ n = BodyLen(op) - 1 /\ t = lc => Ended(w, op, lc)

\* The program counter of a window.
LEMMA PcInBody ==
  ASSUME NEW op \in EltOps, NEW i \in 0 .. TileLen(op) - 1
  PROVE  PcOf(i) \in 0 .. BodyLen(op) - 1
BY DEF PcOf, TileLen, BodyLen, EltOps

\* What the access of a lane does to the unit, and what a write writes.
LEMMA UnitStep ==
  ASSUME NEW op \in EltOps, NEW lc \in Nat, NEW t \in 0 .. lc, NEW i \in 0 .. TileLen(op) - 1,
         NEW rep \in Nat, rep < TakesOf(op, PcOf(i)), NEW l \in Lanes,
         NEW v, RegsOK(v), v.mode = "HAB_PIM", op = "BN" => v.srf,
         ControlAt(v, op, lc, t, PcOf(i), rep),
         NEW c, c.bank = BankOf(op, i), Col(c) = l, ~Idles(op, PcOf(i)) => c.k = "R",
         NEW data, NEW w, w = AfterBank(v, c, data)
  PROVE  /\ RegsOK(w) /\ w.mode = "HAB_PIM" /\ (op = "BN" => w.srf)
         /\ Registers(v, w, op, i, l, data)
         /\ Advances(w, op, lc, t, PcOf(i), rep)
         /\ Idles(op, PcOf(i)) => Written(v, c) = File(v, c.bank)[l]
<1>1. PICK n \in 0 .. BodyLen(op) - 1 : n = PcOf(i)
  BY PcInBody
<1>2. PICK ins, b : ins = Decoded(op)[n + 1] /\ b = BankOf(op, i)
  OBVIOUS
<1>3. Fetch(v) = ins
  BY <1>1, <1>2, FetchIs DEF ControlAt
<1>4. PICK given : given = IF c.k = "R" THEN data ELSE Garbage
  OBVIOUS
<1>5. PICK x : x = Compute(v, c, given, ins)
  OBVIOUS
<1>6. w = Step(x)
  BY <1>3, <1>4, <1>5 DEF AfterBank
<1>7. SameControl(v, x)
  BY <1>5, ComputeKeepsControl DEF RegsOK
<1>8. ControlAt(x, op, lc, t, n, rep)
  BY <1>1, <1>7 DEF ControlAt, SameControl, SameMode
<1>9. SameRegs(x, w) /\ DOMAIN w = UnitFields /\ Advances(w, op, lc, t, n, rep)
  BY <1>1, <1>6, <1>8, ControlStep DEF Advances
<1>10. w.mode = "HAB_PIM" /\ (op = "BN" => w.srf)
  <2>1. SameMode(x, w)
    BY <1>6, <1>7, InstructionKeepsMode DEF SameControl, SameMode
  <2>2. w.srf = v.srf
    BY <1>7, <1>9 DEF SameControl, SameRegs
  <2>3. w.mode = "HAB_PIM"
    BY <1>7, <2>1 DEF SameMode, SameControl
  <2> QED BY <2>2, <2>3, Zenon
<1>11. \A f \in 0 .. 1 : File(w, f) = File(x, f)
  BY <1>9 DEF SameRegs, File
<1>12. b \in 0 .. 1
  BY <1>2 DEF BankOf
<1>13. CASE Idles(op, n)
  <2>1. x = v
    BY <1>1, <1>2, <1>5, <1>13, DecodedIns, ComputeNothing DEF IsIns
  <2>2. RegsOK(w)
    BY <1>9, <2>1 DEF RegsOK, SameRegs
  <2>3. Registers(v, w, op, i, l, data)
    BY <1>1, <1>11, <1>13, <2>1 DEF Registers
  <2>4. ins.type = "NOP"
    BY <1>1, <1>2, <1>13, DecodedIns DEF IsIns
  <2>5. Written(v, c) = File(v, c.bank)[l]
    BY <1>3, <2>4 DEF Written, File
  <2> QED BY <1>1, <1>9, <1>10, <2>2, <2>3, <2>5
<1>14. CASE ~Idles(op, n)
  <2>1. given = data
    BY <1>1, <1>4, <1>14
  <2>2. PICK new : new = NewValue(op, i, File(v, b)[l], data)
    OBVIOUS
  <2>3. Puts(v, x, b, l, new)
    BY <1>1, <1>2, <1>5, <1>14, <2>1, <2>2, WindowComputes DEF RegsOK
  <2>4. \A f \in 0 .. 1 : DOMAIN File(v, f) = Lanes
    BY DEF RegsOK, File
  <2>5. \A f \in 0 .. 1 : \A k \in Lanes :
          File(x, f)[k] = IF f = b /\ k = l THEN new ELSE File(v, f)[k]
    <3> TAKE f \in 0 .. 1
    <3>1. CASE f = b
      <4>1. File(x, f) = [File(v, f) EXCEPT ![l] = new]
        BY <2>3, <3>1 DEF Puts
      <4> QED BY <2>4, <3>1, <4>1
    <3>2. CASE f # b
      <4>1. f = 1 - b
        BY <1>12, <3>2
      <4> QED BY <2>3, <3>2, <4>1 DEF Puts
    <3> QED BY <3>1, <3>2
  <2>6. \A f \in 0 .. 1 : DOMAIN File(x, f) = Lanes
    <3> TAKE f \in 0 .. 1
    <3>1. CASE f = b
      BY <2>3, <2>4, <3>1 DEF Puts
    <3>2. CASE f # b
      <4>1. f = 1 - b
        BY <1>12, <3>2
      <4> QED BY <2>3, <2>4, <4>1 DEF Puts
    <3> QED BY <3>1, <3>2
  <2>7. RegsOK(w)
    <3>1. DOMAIN File(w, 0) = Lanes /\ DOMAIN File(w, 1) = Lanes
      BY <1>11, <2>6
    <3> QED BY <1>9, <3>1 DEF RegsOK, File
  <2>8. Registers(v, w, op, i, l, data)
    BY <1>1, <1>2, <1>11, <1>14, <2>2, <2>5 DEF Registers
  <2> QED BY <1>1, <1>9, <1>10, <1>14, <2>7, <2>8
<1> QED BY <1>13, <1>14

-----------------------------------------------------------------------------
(* The registers and the output while the kernel is in window i of tile t. *)

Spot(b, t, l) == <<b, t * NumGrf + l>>
Places(T) == {0, 1} \X (0 .. T * NumGrf - 1)
Progress(i, l, P) == IF <<1, l>> \in P THEN i ELSE i + 1

\* One lane of the tile, and the lanes of the tiles before and after it.
LanesOK(j, t, i, P, v, m) ==
  \A b \in 0 .. 1 : \A l \in Lanes :
    LaneOK(j, b, Progress(i, l, P), Spot(b, t, l), File(v, b)[l], m[Spot(b, t, l)])
OthersOK(j, T, t, m) ==
  \A b \in 0 .. 1 : \A q \in 0 .. T - 1 : \A l \in Lanes :
    /\ q < t => m[Spot(b, q, l)] = EltValue(j, Spot(b, q, l))
    /\ q > t => m[Spot(b, q, l)] = Source(j.out, Spot(b, q, l))
TileOK(j, T, t, i, P, v, m) ==
  RegsOK(v) /\ DOMAIN m = Places(T) /\ LanesOK(j, t, i, P, v, m) /\ OthersOK(j, T, t, m)

\* The output when the kernel has been through all of its tiles, and before.
MemFinal(j, T, m) == DOMAIN m = Places(T) /\ \A d \in Places(T) : m[d] = EltValue(j, d)
MemFirst(j, T, m) == DOMAIN m = Places(T) /\ \A d \in Places(T) : m[d] = Source(j.out, d)

\* The places of the tiles.
LEMMA SpotIn ==
  ASSUME NEW T \in Nat, NEW b \in 0 .. 1, NEW t \in 0 .. T - 1, NEW l \in Lanes
  PROVE  Spot(b, t, l) \in Places(T)
<1>1. NumGrf \in Nat \ {0}
  BY GeometryAssumption
<1>2. l \in 0 .. NumGrf - 1
  BY DEF Lanes
<1>3. t * NumGrf + l \in 0 .. T * NumGrf - 1
  BY <1>1, <1>2, DigitsBound
<1>4. PICK x : x = t * NumGrf + l
  OBVIOUS
<1>5. PICK y : y = 0 .. T * NumGrf - 1
  OBVIOUS
<1>6. x \in y /\ b \in {0, 1}
  BY <1>3, <1>4, <1>5
<1>7. <<b, x>> \in {0, 1} \X y
  BY <1>6
<1> QED BY <1>4, <1>5, <1>7, Zenon DEF Spot, Places

SameSpot(b, t, l, c, q, k) == Spot(b, t, l) = Spot(c, q, k)

\* No two lanes of tiles have the same place.
LEMMA SpotUnique ==
  ASSUME NEW b, NEW t \in Nat, NEW l \in Lanes, NEW c, NEW q \in Nat, NEW k \in Lanes,
         SameSpot(b, t, l, c, q, k)
  PROVE  b = c /\ t = q /\ l = k
<1>1. NumGrf \in Nat \ {0} /\ l \in 0 .. NumGrf - 1 /\ k \in 0 .. NumGrf - 1
  BY GeometryAssumption DEF Lanes
<1>2. PICK x, y : x = t * NumGrf + l /\ y = q * NumGrf + k
  OBVIOUS
<1>3. <<b, x>> = <<c, y>>
  BY <1>2, Zenon DEF Spot, SameSpot
<1>4. b = c /\ x = y
  BY <1>3
<1>5. x \div NumGrf = t /\ x % NumGrf = l /\ y \div NumGrf = q /\ y % NumGrf = k
  BY <1>1, <1>2, DivNat
<1> QED BY <1>4, <1>5

\* Every place is one of a tile.
LEMMA SpotOf ==
  ASSUME NEW T \in Nat, NEW d \in Places(T)
  PROVE  \E b \in 0 .. 1 : \E t \in 0 .. T - 1 : \E l \in Lanes : d = Spot(b, t, l)
<1>1. NumGrf \in Nat \ {0}
  BY GeometryAssumption
<1>2. PICK y : y = 0 .. T * NumGrf - 1
  OBVIOUS
<1>3. d \in {0, 1} \X y
  BY <1>2 DEF Places
<1>4. PICK b \in {0, 1}, x \in y : d = <<b, x>>
  BY <1>3
<1>5. PICK t : t = x \div NumGrf
  OBVIOUS
<1>6. PICK l : l = x % NumGrf
  OBVIOUS
<1>7. t \in 0 .. T - 1
  BY <1>1, <1>2, <1>5, DigitsBelow
<1>8. x \in Nat
  BY <1>1, <1>2
<1>9. l \in 0 .. NumGrf - 1 /\ x = t * NumGrf + l
  BY <1>1, <1>5, <1>6, <1>8, DivMod
<1>10. d = Spot(b, t, l) /\ l \in Lanes /\ b \in 0 .. 1
  BY <1>4, <1>9 DEF Spot, Lanes
<1> QED BY <1>7, <1>10

\* Kinds of a tile's accesses.
LEMMA WritesIdle ==
  ASSUME NEW op \in EltOps, NEW i, NEW n, KindOf(op, i, n) = "W"
  PROVE  Idles(op, PcOf(i)) /\ Writes(op, i)
<1>1. Writes(op, i)
  BY DEF KindOf
<1>2. PICK b \in 0 .. 1 : i = WriteAt(op, b)
  BY <1>1 DEF Writes
<1> QED BY <1>1, <1>2, BankTables

\* The place an access writes, if it does.
Stores(m, m2, wr, d, val) == m2 = IF wr THEN [m EXCEPT ![d] = val] ELSE m

\* An access of a tile.
LEMMA TileStep ==
  ASSUME NEW j, j.op \in EltOps, NEW T \in Nat, NEW t \in 0 .. T - 1, NEW i \in 0 .. TileLen(j.op) - 1,
         NEW P, NEW v, NEW m, TileOK(j, T, t, i, P, v, m),
         NEW n \in 1 .. Count(j.op, i), NEW l \in Lanes, <<n, l>> \in P,
         NEW data, ~Idles(j.op, PcOf(i)) =>
                     data = Source(SourceOf(j.op, i), Spot(BankOf(j.op, i), t, l)),
         NEW w, RegsOK(w), Registers(v, w, j.op, i, l, data),
         NEW m2, Stores(m, m2, KindOf(j.op, i, n) = "W", Spot(BankOf(j.op, i), t, l),
                        File(v, BankOf(j.op, i))[l])
  PROVE  TileOK(j, T, t, i, P \ {<<n, l>>}, w, m2)
<1>0. i \in Nat
  BY DEF TileLen
<1>1. PICK a \in 0 .. 1 : a = BankOf(j.op, i)
  BY DEF BankOf
<1>2. PICK d : d = Spot(a, t, l)
  OBVIOUS
<1>3. PICK val : val = File(v, a)[l]
  OBVIOUS
<1>4. PICK wr \in BOOLEAN : wr = (KindOf(j.op, i, n) = "W")
  OBVIOUS
<1>5. m2 = IF wr THEN [m EXCEPT ![d] = val] ELSE m
  BY <1>1, <1>2, <1>3, <1>4 DEF Stores
<1>6. DOMAIN m2 = DOMAIN m /\ DOMAIN m = Places(T) /\ d \in DOMAIN m
  BY <1>2, <1>5, SpotIn DEF TileOK
<1>7. ASSUME NEW b \in 0 .. 1, NEW q \in 0 .. T - 1, NEW k \in Lanes
      PROVE  m2[Spot(b, q, k)] = IF wr /\ b = a /\ q = t /\ k = l THEN val ELSE m[Spot(b, q, k)]
  <2>1. PICK e : e = Spot(b, q, k)
    OBVIOUS
  <2>2. e \in DOMAIN m
    BY <1>6, <2>1, SpotIn
  <2>3. e = d <=> b = a /\ q = t /\ k = l
    <3>1. b = a /\ q = t /\ k = l => e = d
      BY <1>2, <2>1
    <3>2. q \in Nat /\ t \in Nat
      OBVIOUS
    <3>3. ASSUME e = d PROVE b = a /\ q = t /\ k = l
      <4>1. SameSpot(b, q, k, a, t, l)
        BY <1>2, <2>1, <3>3 DEF SameSpot
      <4> QED BY <3>2, <4>1, SpotUnique
    <3> QED BY <3>1, <3>3
  <2>4. m2[e] = IF wr /\ e = d THEN val ELSE m[e]
    BY <1>5, <1>6, <2>2
  <2> QED BY <2>1, <2>3, <2>4
<1>8. LanesOK(j, t, i, P \ {<<n, l>>}, w, m2)
  <2> SUFFICES ASSUME NEW b \in 0 .. 1, NEW k \in Lanes
               PROVE  LaneOK(j, b, Progress(i, k, P \ {<<n, l>>}), Spot(b, t, k), File(w, b)[k], m2[Spot(b, t, k)])
    BY DEF LanesOK
  <2>1. PICK s, s2 : s = Progress(i, k, P) /\ s2 = Progress(i, k, P \ {<<n, l>>})
    OBVIOUS
  <2>2. s \in {i, i + 1}
    BY <2>1 DEF Progress
  <2>3. PICK e, r, x : e = Spot(b, t, k) /\ r = File(v, b)[k] /\ x = m[Spot(b, t, k)]
    OBVIOUS
  <2>4. LaneOK(j, b, s, e, r, x)
    BY <2>1, <2>3 DEF TileOK, LanesOK
  <2>5. PICK r2, x2 : r2 = File(w, b)[k] /\ x2 = m2[e]
    OBVIOUS
  <2>6. x2 = IF wr /\ b = a /\ k = l THEN val ELSE x
    BY <1>7, <2>3, <2>5
  <2>7. r2 = IF b = a /\ k = l /\ ~Idles(j.op, PcOf(i)) THEN NewValue(j.op, i, val, data) ELSE r
    BY <1>1, <1>3, <2>3, <2>5 DEF Registers
  <2>8. CASE k = l
    <3>1. (n = 1 => s = i /\ s2 = i + 1) /\ (n # 1 => s2 = s)
      <4>1. n = 1 => <<1, k>> \in P /\ <<1, k>> \notin P \ {<<n, l>>}
        BY <2>8
      <4>2. n # 1 => <<1, k>> # <<n, l>>
        OBVIOUS
      <4>3. n # 1 => (<<1, k>> \in P <=> <<1, k>> \in P \ {<<n, l>>})
        BY <4>2
      <4> QED BY <2>1, <4>1, <4>3 DEF Progress
    <3>2. Taken(j, i, n, b, e, r, x, r2, x2)
      <4>1. CASE b = a
        <5>1. r = val /\ e = d
          BY <1>2, <1>3, <2>3, <2>8, <4>1
        <5>2. r2 = IF Idles(j.op, PcOf(i)) THEN r ELSE NewValue(j.op, i, r, Source(SourceOf(j.op, i), e))
          BY <1>1, <1>2, <2>7, <2>8, <4>1, <5>1
        <5>3. x2 = IF KindOf(j.op, i, n) = "W" THEN r ELSE x
          BY <1>4, <2>6, <2>8, <4>1, <5>1
        <5> QED BY <1>1, <4>1, <5>2, <5>3 DEF Taken
      <4>2. CASE b # a
        <5>1. r2 = r /\ x2 = x
          BY <2>6, <2>7, <4>2
        <5> QED BY <1>1, <4>2, <5>1 DEF Taken
      <4> QED BY <4>1, <4>2
    <3>3. LaneOK(j, b, s2, e, r2, x2)
      BY <2>2, <2>4, <3>1, <3>2, LaneStep
    <3> QED BY <2>1, <2>3, <2>5, <3>3
  <2>9. CASE k # l
    <3>1. s2 = s
      <4>1. <<1, k>> # <<n, l>>
        BY <2>9
      <4> QED BY <2>1, <4>1 DEF Progress
    <3>2. r2 = r /\ x2 = x
      BY <2>6, <2>7, <2>9
    <3> QED BY <2>1, <2>3, <2>4, <2>5, <3>1, <3>2
  <2> QED BY <2>8, <2>9
<1>9. OthersOK(j, T, t, m2)
  <2> SUFFICES ASSUME NEW b \in 0 .. 1, NEW q \in 0 .. T - 1, NEW k \in Lanes
               PROVE  /\ q < t => m2[Spot(b, q, k)] = EltValue(j, Spot(b, q, k))
                      /\ q > t => m2[Spot(b, q, k)] = Source(j.out, Spot(b, q, k))
    BY DEF OthersOK
  <2>1. q # t => m2[Spot(b, q, k)] = m[Spot(b, q, k)]
    BY <1>7
  <2>2. /\ q < t => m[Spot(b, q, k)] = EltValue(j, Spot(b, q, k))
        /\ q > t => m[Spot(b, q, k)] = Source(j.out, Spot(b, q, k))
    BY DEF TileOK, OthersOK
  <2> QED BY <2>1, <2>2
<1> QED BY <1>6, <1>8, <1>9 DEF TileOK

-----------------------------------------------------------------------------
(* The accesses of a window and the commands of its instruction.           *)

Pairs(op, i) == (1 .. Count(op, i)) \X Lanes
Off(i) == IF i = 8 THEN NumGrf ELSE 0

\* The accesses of the windows of an instruction are the commands it takes; the
\* seventh window of batch normalization shares its instruction with the eighth.
LEMMA WindowTakes ==
  ASSUME NEW op \in EltOps, NEW i \in 0 .. TileLen(op) - 1
  PROVE  /\ Count(op, i) \in 1 .. 3 /\ Off(i) \in Nat
         /\ i = 7 => Off(i) + Count(op, i) * NumGrf = NumGrf /\ TakesOf(op, PcOf(i)) = 3 * NumGrf
         /\ i # 7 => Off(i) + Count(op, i) * NumGrf = TakesOf(op, PcOf(i))
<1>0. NumGrf \in Nat /\ 1 * NumGrf = NumGrf
  BY GeometryAssumption
<1>1. CASE op \in {"ADD", "MUL"}
  <2>1. i \in 0 .. 5 /\ PcOf(i) = i /\ Off(i) = 0
    BY <1>1 DEF TileLen, PcOf, Off
  <2>2. Count(op, i) = IF i \in {2, 5} THEN 3 ELSE 1
    BY <1>1 DEF Count, Writes, WriteAt
  <2>3. TakesOf(op, i) = IF i \in {2, 5} THEN 3 * NumGrf ELSE NumGrf
    BY <1>1 DEF TakesOf
  <2> QED BY <1>0, <2>1, <2>2, <2>3
<1>2. CASE op \in {"RELU", "COPY"}
  <2>1. i \in 0 .. 3 /\ PcOf(i) = i /\ Off(i) = 0
    BY <1>2 DEF TileLen, PcOf, Off
  <2>2. Count(op, i) = IF i \in {1, 3} THEN 2 ELSE 1
    BY <1>2 DEF Count, Writes, WriteAt
  <2>3. TakesOf(op, i) = IF i \in {1, 3} THEN 2 * NumGrf ELSE NumGrf
    BY <1>2 DEF TakesOf
  <2> QED BY <1>0, <2>1, <2>2, <2>3
<1>3. CASE op = "BN"
  <2>1. i \in 0 .. 8 /\ PcOf(i) = (IF i = 8 THEN 7 ELSE i) /\ Off(i) = IF i = 8 THEN NumGrf ELSE 0
    BY <1>3 DEF TileLen, PcOf, Off
  <2>2. Count(op, i) = IF i = 8 THEN 2 ELSE 1
    BY <1>3, <2>1 DEF Count, Writes, WriteAt
  <2>3. TakesOf(op, PcOf(i)) = IF i \in {7, 8} THEN 3 * NumGrf ELSE NumGrf
    BY <1>3, <2>1 DEF TakesOf
  <2> QED BY <1>0, <2>1, <2>2, <2>3
<1> QED BY <1>1, <1>2, <1>3 DEF EltOps

\* The pairs of one of n commands and a lane.
LEMMA GridCount ==
  ASSUME NEW n \in Nat
  PROVE  IsFiniteSet((1 .. n) \X Lanes) /\ Cardinality((1 .. n) \X Lanes) = n * NumGrf
<1>1. IsFiniteSet(1 .. n) /\ Cardinality(1 .. n) = n
  BY FS_Interval
<1>2. IsFiniteSet(Lanes) /\ Cardinality(Lanes) = NumGrf
  <2>1. PICK g \in Nat \ {0} : g = NumGrf /\ Lanes = 0 .. g - 1
    BY GeometryAssumption DEF Lanes
  <2>2. IsFiniteSet(0 .. g - 1) /\ Cardinality(0 .. g - 1) = g
    <3>1. 0 \in Int /\ g - 1 \in Int /\ (g - 1) - 0 + 1 = g /\ ~(0 > g - 1)
      OBVIOUS
    <3> QED BY <3>1, FS_Interval
  <2> QED BY <2>1, <2>2
<1>3. /\ IsFiniteSet((1 .. n) \X Lanes)
      /\ Cardinality((1 .. n) \X Lanes) = Cardinality(1 .. n) * Cardinality(Lanes)
  BY <1>1, <1>2, FS_Product, Zenon
<1> QED BY <1>1, <1>2, <1>3, Zenon

\* The number of accesses of a window, and of those that are left.
LEMMA PairsCount ==
  ASSUME NEW op \in EltOps, NEW i \in 0 .. TileLen(op) - 1
  PROVE  IsFiniteSet(Pairs(op, i)) /\ Cardinality(Pairs(op, i)) = Count(op, i) * NumGrf
<1>1. Count(op, i) \in Nat
  BY WindowTakes
<1> QED BY <1>1, GridCount, Zenon DEF Pairs

LeftOver(P, p, x) ==
  /\ x = Cardinality(P) /\ Cardinality(P \ {p}) = x - 1 /\ (x = 1 <=> P = {p})

\* One access less.
LEMMA OneLess ==
  ASSUME NEW S, IsFiniteSet(S), NEW P, P \subseteq S, NEW p \in P
  PROVE  \E x \in 1 .. Cardinality(S) : LeftOver(P, p, x)
<1>1. IsFiniteSet(P) /\ Cardinality(P) <= Cardinality(S)
  BY FS_Subset
<1>2. Cardinality(P) \in Nat /\ Cardinality(S) \in Nat
  BY <1>1, FS_CardinalityType
<1>3. IsFiniteSet(P \ {p}) /\ Cardinality(P \ {p}) = Cardinality(P) - 1
  BY <1>1, FS_RemoveElement
<1>4. Cardinality(P \ {p}) \in Nat
  BY <1>3, FS_CardinalityType
<1>5. Cardinality(P \ {p}) = 0 <=> P \ {p} = {}
  BY <1>3, FS_EmptySet
<1>6. P \ {p} = {} <=> P = {p}
  OBVIOUS
<1>7. PICK x \in Nat : x = Cardinality(P)
  BY <1>2
<1>8. x \in 1 .. Cardinality(S) /\ (x = 1 <=> P = {p})
  BY <1>1, <1>2, <1>3, <1>4, <1>5, <1>6, <1>7
<1> QED BY <1>3, <1>7, <1>8 DEF LeftOver

\* The program counter in window i of tile t, with the accesses P to come.
TileControl(v, op, lc, t, i, P) ==
  ControlAt(v, op, lc, t, PcOf(i), Off(i) + Count(op, i) * NumGrf - Cardinality(P))

Moves(w, op, lc, t, i, P, p) ==
  /\ P # {p} => TileControl(w, op, lc, t, i, P \ {p})
  /\ P = {p} /\ i + 1 < TileLen(op) => TileControl(w, op, lc, t, i + 1, Pairs(op, i + 1))
  /\ P = {p} /\ i + 1 = TileLen(op) /\ t < lc => TileControl(w, op, lc, t + 1, 0, Pairs(op, 0))
  /\ P = {p} /\ i + 1 = TileLen(op) /\ t = lc => Ended(w, op, lc)

\* The commands before an access.
LEMMA RepOf ==
  ASSUME NEW op \in EltOps, NEW i \in 0 .. TileLen(op) - 1, NEW P, P \subseteq Pairs(op, i), NEW p \in P
  PROVE  /\ Off(i) + Count(op, i) * NumGrf - Cardinality(P) \in Nat
         /\ Off(i) + Count(op, i) * NumGrf - Cardinality(P) < TakesOf(op, PcOf(i))
<1>1. PICK N \in Nat : N = Count(op, i) * NumGrf /\ Cardinality(Pairs(op, i)) = N /\ IsFiniteSet(Pairs(op, i))
  BY PairsCount, FS_CardinalityType
<1>2. PICK x \in 1 .. N : LeftOver(P, p, x)
  BY <1>1, OneLess
<1>3. PICK f \in Nat : f = Off(i)
  BY WindowTakes
<1>4. x = Cardinality(P)
  BY <1>2 DEF LeftOver
<1>5. PICK g \in Nat \ {0} : g = NumGrf
  BY GeometryAssumption
<1>6. f + N <= TakesOf(op, PcOf(i)) /\ TakesOf(op, PcOf(i)) \in Nat
  BY <1>1, <1>3, <1>5, WindowTakes
<1> QED BY <1>1, <1>2, <1>3, <1>4, <1>6

\* The program counter moves on with the windows.
LEMMA CounterMoves ==
  ASSUME NEW op \in EltOps, NEW lc \in Nat, NEW t \in 0 .. lc, NEW i \in 0 .. TileLen(op) - 1,
         NEW P, P \subseteq Pairs(op, i), NEW p \in P, NEW w,
         Advances(w, op, lc, t, PcOf(i), Off(i) + Count(op, i) * NumGrf - Cardinality(P))
  PROVE  Moves(w, op, lc, t, i, P, p)
<1>1. PICK N \in Nat : N = Count(op, i) * NumGrf /\ Cardinality(Pairs(op, i)) = N /\ IsFiniteSet(Pairs(op, i))
  BY PairsCount, FS_CardinalityType
<1>2. PICK x \in 1 .. N : LeftOver(P, p, x)
  BY <1>1, OneLess
<1>3. PICK f \in Nat, g \in Nat \ {0} : f = Off(i) /\ g = NumGrf
  BY WindowTakes, GeometryAssumption
<1>4. PICK K \in Nat : K = TakesOf(op, PcOf(i)) /\ (i # 7 => f + N = K) /\ (i = 7 => f + N = g /\ K = 3 * g)
  BY <1>1, <1>3, WindowTakes
<1>5. PICK rep \in Nat : rep = f + N - x
  BY <1>2, <1>3
<1>6. x = Cardinality(P) /\ Cardinality(P \ {p}) = x - 1 /\ (x = 1 <=> P = {p})
  BY <1>2 DEF LeftOver
<1>7. Advances(w, op, lc, t, PcOf(i), rep)
  BY <1>1, <1>3, <1>5, <1>6
<1>8. i \in Nat /\ PcOf(i) \in Nat
  BY PcInBody DEF TileLen
<1>9. CASE P # {p}
  <2>1. rep + 1 < K
    BY <1>2, <1>3, <1>4, <1>5, <1>6, <1>9
  <2>2. ControlAt(w, op, lc, t, PcOf(i), rep + 1)
    BY <1>4, <1>7, <2>1 DEF Advances
  <2>3. f + N - (x - 1) = rep + 1
    BY <1>2, <1>5
  <2>4. TileControl(w, op, lc, t, i, P \ {p})
    BY <1>1, <1>3, <1>6, <2>2, <2>3 DEF TileControl
  <2> QED BY <1>9, <2>4 DEF Moves
<1>10. CASE P = {p} /\ i # 7
  <2>1. rep + 1 = K
    BY <1>4, <1>5, <1>6, <1>10
  <2>2. /\ PcOf(i) < BodyLen(op) - 1 => ControlAt(w, op, lc, t, PcOf(i) + 1, 0)
        /\ PcOf(i) = BodyLen(op) - 1 /\ t < lc => ControlAt(w, op, lc, t + 1, 0, 0)
        /\ PcOf(i) = BodyLen(op) - 1 /\ t = lc => Ended(w, op, lc)
    BY <1>4, <1>7, <2>1 DEF Advances
  <2>3. CASE i + 1 < TileLen(op)
    <3>1. i + 1 \in 0 .. TileLen(op) - 1
      BY <2>3 DEF TileLen
    <3>2. PcOf(i) < BodyLen(op) - 1 /\ PcOf(i + 1) = PcOf(i) + 1 /\ Off(i + 1) = 0
      BY <1>10, <2>3 DEF TileLen, BodyLen, PcOf, Off, EltOps
    <3>3. PICK M \in Nat : M = Count(op, i + 1) * NumGrf /\ Cardinality(Pairs(op, i + 1)) = M
      BY <3>1, PairsCount, FS_CardinalityType
    <3>4. 0 + M - M = 0
      BY <3>3
    <3>5. TileControl(w, op, lc, t, i + 1, Pairs(op, i + 1))
      BY <2>2, <3>2, <3>3, <3>4 DEF TileControl
    <3>6. ~(i + 1 = TileLen(op))
      BY <2>3 DEF TileLen
    <3> QED BY <1>10, <3>5, <3>6 DEF Moves
  <2>4. CASE i + 1 = TileLen(op)
    <3>1. 0 \in 0 .. TileLen(op) - 1 /\ PcOf(i) = BodyLen(op) - 1 /\ PcOf(0) = 0 /\ Off(0) = 0
      BY <1>10, <2>4 DEF TileLen, BodyLen, PcOf, Off, EltOps
    <3>3. PICK M \in Nat : M = Count(op, 0) * NumGrf /\ Cardinality(Pairs(op, 0)) = M
      BY <3>1, PairsCount, FS_CardinalityType
    <3>4. 0 + M - M = 0
      BY <3>3
    <3>5. t < lc => TileControl(w, op, lc, t + 1, 0, Pairs(op, 0))
      BY <2>2, <3>1, <3>3, <3>4 DEF TileControl
    <3>6. t = lc => Ended(w, op, lc)
      BY <2>2, <3>1
    <3>7. ~(i + 1 < TileLen(op))
      BY <2>4 DEF TileLen
    <3> QED BY <1>10, <3>5, <3>6, <3>7 DEF Moves
  <2> QED BY <2>3, <2>4 DEF TileLen
<1>11. CASE P = {p} /\ i = 7
  <2>1. op = "BN"
    BY <1>11 DEF TileLen, EltOps
  <2>2. rep + 1 = g /\ g < K
    BY <1>3, <1>4, <1>5, <1>6, <1>11
  <2>3. ControlAt(w, op, lc, t, PcOf(i), g)
    BY <1>4, <1>7, <2>2 DEF Advances
  <2>4. 8 \in 0 .. TileLen(op) - 1 /\ PcOf(8) = PcOf(i) /\ Off(8) = g /\ i + 1 = 8 /\ 8 < TileLen(op)
        /\ 8 # TileLen(op)
    BY <1>3, <1>11, <2>1 DEF TileLen, PcOf, Off
  <2>5. PICK M \in Nat : M = Count(op, 8) * NumGrf /\ Cardinality(Pairs(op, 8)) = M
    BY <2>4, PairsCount, FS_CardinalityType
  <2>6. g + M - M = g
    BY <2>5
  <2>7. TileControl(w, op, lc, t, 8, Pairs(op, 8))
    BY <2>3, <2>4, <2>5, <2>6 DEF TileControl
  <2> QED BY <1>11, <2>4, <2>7 DEF Moves
<1> QED BY <1>9, <1>10, <1>11

-----------------------------------------------------------------------------
(* An access of a tile: unit, output and program counter together.         *)

\* The first access of every lane is to come.
LEMMA FullPairs ==
  ASSUME NEW op \in EltOps, NEW i \in 0 .. TileLen(op) - 1, NEW l \in Lanes
  PROVE  <<1, l>> \in Pairs(op, i)
<1>1. 1 \in 1 .. Count(op, i)
  BY WindowTakes
<1> QED BY <1>1 DEF Pairs

\* The column of a lane.
LEMMA LaneColumn ==
  ASSUME NEW t \in Nat, NEW l \in Lanes
  PROVE  (t * NumGrf + l) % NumGrf = l
<1>1. PICK g \in Nat \ {0} : g = NumGrf
  BY GeometryAssumption
<1>2. l \in 0 .. g - 1
  BY <1>1 DEF Lanes
<1>3. PICK x : x = t * g + l
  OBVIOUS
<1>4. x \div g = t /\ x % g = l
  BY <1>2, <1>3, DivNat
<1> QED BY <1>1, <1>3, <1>4

\* The next window of a tile.
LEMMA NextWindow ==
  ASSUME NEW j, j.op \in EltOps, NEW T \in Nat, NEW t \in 0 .. T - 1, NEW i \in Nat, i + 1 < TileLen(j.op),
         NEW v, NEW m, TileOK(j, T, t, i, {}, v, m)
  PROVE  TileOK(j, T, t, i + 1, Pairs(j.op, i + 1), v, m)
<1>1. i + 1 \in 0 .. TileLen(j.op) - 1
  BY DEF TileLen
<1>2. ASSUME NEW l \in Lanes PROVE Progress(i + 1, l, Pairs(j.op, i + 1)) = Progress(i, l, {})
  <2>1. <<1, l>> \in Pairs(j.op, i + 1)
    BY <1>1, FullPairs
  <2> QED BY <2>1 DEF Progress
<1>3. LanesOK(j, t, i + 1, Pairs(j.op, i + 1), v, m)
  BY <1>2 DEF LanesOK, TileOK
<1> QED BY <1>3 DEF TileOK

\* A tile that is complete.
LEMMA TileDone ==
  ASSUME NEW j, j.op \in EltOps, NEW T \in Nat, NEW t \in 0 .. T - 1, NEW i \in Nat, i + 1 = TileLen(j.op),
         NEW v, NEW m, TileOK(j, T, t, i, {}, v, m), NEW b \in 0 .. 1, NEW l \in Lanes
  PROVE  m[Spot(b, t, l)] = EltValue(j, Spot(b, t, l))
<1>1. Progress(i, l, {}) = i + 1
  BY DEF Progress
<1>2. LaneOK(j, b, i + 1, Spot(b, t, l), File(v, b)[l], m[Spot(b, t, l)])
  BY <1>1 DEF TileOK, LanesOK
<1>3. i + 1 > WriteAt(j.op, b)
  BY BankTables
<1> QED BY <1>2, <1>3 DEF LaneOK

\* A lane that has not begun.
LEMMA LaneBegins ==
  ASSUME NEW j, j.op \in EltOps, NEW b \in 0 .. 1, NEW d, NEW r, NEW m, m = Source(j.out, d)
  PROVE  LaneOK(j, b, 0, d, r, m)
<1>1. PICK o \in Nat, c \in Nat, w \in Nat : o = Opens(j.op, b) /\ c = Closes(j.op, b) /\ w = WriteAt(j.op, b)
  BY BankTables
<1>2. 0 \notin o + 1 .. c /\ ~(0 > c) /\ ~(0 > w)
  OBVIOUS
<1> QED BY <1>1, <1>2 DEF LaneOK

\* The first window of a tile.
LEMMA NextTile ==
  ASSUME NEW j, j.op \in EltOps, NEW T \in Nat, NEW t \in 0 .. T - 1, t + 1 < T, NEW i \in Nat,
         i + 1 = TileLen(j.op), NEW v, NEW m, TileOK(j, T, t, i, {}, v, m)
  PROVE  TileOK(j, T, t + 1, 0, Pairs(j.op, 0), v, m)
<1>0. 0 \in 0 .. TileLen(j.op) - 1
  BY DEF TileLen
<1>1. OthersOK(j, T, t + 1, m)
  <2> SUFFICES ASSUME NEW b \in 0 .. 1, NEW q \in 0 .. T - 1, NEW l \in Lanes
               PROVE  /\ q < t + 1 => m[Spot(b, q, l)] = EltValue(j, Spot(b, q, l))
                      /\ q > t + 1 => m[Spot(b, q, l)] = Source(j.out, Spot(b, q, l))
    BY DEF OthersOK
  <2>1. /\ q < t => m[Spot(b, q, l)] = EltValue(j, Spot(b, q, l))
        /\ q > t => m[Spot(b, q, l)] = Source(j.out, Spot(b, q, l))
    BY DEF TileOK, OthersOK
  <2>2. q = t => m[Spot(b, q, l)] = EltValue(j, Spot(b, q, l))
    BY TileDone
  <2> QED BY <2>1, <2>2
<1>2. LanesOK(j, t + 1, 0, Pairs(j.op, 0), v, m)
  <2> SUFFICES ASSUME NEW b \in 0 .. 1, NEW l \in Lanes
               PROVE  LaneOK(j, b, Progress(0, l, Pairs(j.op, 0)), Spot(b, t + 1, l), File(v, b)[l],
                             m[Spot(b, t + 1, l)])
    BY DEF LanesOK
  <2>1. Progress(0, l, Pairs(j.op, 0)) = 0
    BY <1>0, FullPairs DEF Progress
  <2>2. t + 1 \in 0 .. T - 1 /\ t + 1 > t
    OBVIOUS
  <2>3. m[Spot(b, t + 1, l)] = Source(j.out, Spot(b, t + 1, l))
    BY <2>2 DEF TileOK, OthersOK
  <2> QED BY <2>1, <2>3, LaneBegins
<1> QED BY <1>1, <1>2 DEF TileOK

\* The last tile.
LEMMA LastTile ==
  ASSUME NEW j, j.op \in EltOps, NEW T \in Nat, NEW t \in 0 .. T - 1, t + 1 = T, NEW i \in Nat,
         i + 1 = TileLen(j.op), NEW v, NEW m, TileOK(j, T, t, i, {}, v, m)
  PROVE  MemFinal(j, T, m)
<1>1. ASSUME NEW d \in Places(T) PROVE m[d] = EltValue(j, d)
  <2>1. PICK b \in 0 .. 1, q \in 0 .. T - 1, l \in Lanes : d = Spot(b, q, l)
    BY SpotOf
  <2>2. q < t => m[d] = EltValue(j, d)
    BY <2>1 DEF TileOK, OthersOK
  <2>3. q = t => m[d] = EltValue(j, d)
    BY <2>1, TileDone
  <2> QED BY <2>2, <2>3
<1> QED BY <1>1 DEF MemFinal, TileOK

\* The first tile.
LEMMA FirstTileOK ==
  ASSUME NEW j, j.op \in EltOps, NEW T \in Nat \ {0}, NEW v, RegsOK(v), NEW m, MemFirst(j, T, m)
  PROVE  TileOK(j, T, 0, 0, Pairs(j.op, 0), v, m)
<1>0. 0 \in 0 .. TileLen(j.op) - 1 /\ 0 \in 0 .. T - 1 /\ T \in Nat
  BY DEF TileLen
<1>1. \A b \in 0 .. 1 : \A q \in 0 .. T - 1 : \A l \in Lanes :
        m[Spot(b, q, l)] = Source(j.out, Spot(b, q, l))
  BY <1>0, SpotIn DEF MemFirst
<1>2. OthersOK(j, T, 0, m)
  BY <1>1 DEF OthersOK
<1>3. LanesOK(j, 0, 0, Pairs(j.op, 0), v, m)
  <2> SUFFICES ASSUME NEW b \in 0 .. 1, NEW l \in Lanes
               PROVE  LaneOK(j, b, Progress(0, l, Pairs(j.op, 0)), Spot(b, 0, l), File(v, b)[l],
                             m[Spot(b, 0, l)])
    BY DEF LanesOK
  <2>1. Progress(0, l, Pairs(j.op, 0)) = 0
    BY <1>0, FullPairs DEF Progress
  <2>2. m[Spot(b, 0, l)] = Source(j.out, Spot(b, 0, l))
    BY <1>0, <1>1
  <2> QED BY <2>1, <2>2, LaneBegins
<1> QED BY <1>2, <1>3 DEF TileOK, MemFirst

\* In window i of tile t.
TileAt(j, T, t, i, P, v, m) ==
  /\ t \in 0 .. T - 1 /\ i \in 0 .. TileLen(j.op) - 1
  /\ P \subseteq Pairs(j.op, i) /\ v.mode = "HAB_PIM" /\ (j.op = "BN" => v.srf)
  /\ TileControl(v, j.op, T - 1, t, i, P) /\ TileOK(j, T, t, i, P, v, m)

\* The window after it, with none of its accesses made.
TileAfter(j, T, t, i, w, m) ==
  /\ i + 1 < TileLen(j.op) => TileAt(j, T, t, i + 1, Pairs(j.op, i + 1), w, m)
  /\ i + 1 = TileLen(j.op) /\ t + 1 < T => TileAt(j, T, t + 1, 0, Pairs(j.op, 0), w, m)
  /\ i + 1 = TileLen(j.op) /\ t + 1 = T => Ended(w, j.op, T - 1) /\ MemFinal(j, T, m)

\* What an operand is read as.
ReadAs(j, i, d, m, data) ==
  ~Idles(j.op, PcOf(i)) =>
    data = IF SourceOf(j.op, i) = j.out THEN m[d] ELSE Source(SourceOf(j.op, i), d)

\* An access of a tile brings the next state of it, or the next window.
LEMMA TileAccessed ==
  ASSUME NEW j, j.op \in EltOps, NEW T \in Nat \ {0}, NEW t, NEW i, NEW P, NEW v, NEW m,
         TileAt(j, T, t, i, P, v, m), NEW n, NEW l, <<n, l>> \in P,
         NEW c, c.k = KindOf(j.op, i, n), c.bank = BankOf(j.op, i), c.loc = t * NumGrf + l,
         NEW data, ReadAs(j, i, Spot(BankOf(j.op, i), t, l), m, data),
         NEW w, w = AfterBank(v, c, data),
         NEW m2, Stores(m, m2, KindOf(j.op, i, n) = "W", Spot(BankOf(j.op, i), t, l), Written(v, c))
  PROVE  /\ P # {<<n, l>>} => TileAt(j, T, t, i, P \ {<<n, l>>}, w, m2)
         /\ P = {<<n, l>>} => TileAfter(j, T, t, i, w, m2)
<1>0. /\ t \in 0 .. T - 1 /\ i \in 0 .. TileLen(j.op) - 1 /\ P \subseteq Pairs(j.op, i)
      /\ v.mode = "HAB_PIM" /\ (j.op = "BN" => v.srf) /\ TileOK(j, T, t, i, P, v, m)
  BY Zenon DEF TileAt
<1>1. n \in 1 .. Count(j.op, i) /\ l \in Lanes
  BY <1>0 DEF Pairs
<1>2. PICK lc \in Nat : lc = T - 1
  OBVIOUS
<1>3. t \in 0 .. lc /\ T \in Nat /\ i \in Nat /\ t \in Nat
  BY <1>0, <1>2 DEF TileLen
<1>4. PICK b \in 0 .. 1 : b = BankOf(j.op, i)
  BY DEF BankOf
<1>5. PICK d, p : d = Spot(b, t, l) /\ p = <<n, l>>
  OBVIOUS
<1>6. PICK rep : rep = Off(i) + Count(j.op, i) * NumGrf - Cardinality(P)
  OBVIOUS
<1>7. rep \in Nat /\ rep < TakesOf(j.op, PcOf(i)) /\ ControlAt(v, j.op, lc, t, PcOf(i), rep)
  <2>1. rep \in Nat /\ rep < TakesOf(j.op, PcOf(i))
    BY <1>0, <1>6, RepOf
  <2>2. ControlAt(v, j.op, lc, t, PcOf(i), rep)
    BY <1>2, <1>6 DEF TileAt, TileControl
  <2> QED BY <2>1, <2>2
<1>8. Col(c) = l
  <2>1. (t * NumGrf + l) % NumGrf = l
    BY <1>1, <1>3, LaneColumn
  <2> QED BY <2>1 DEF Col
<1>9. ~Idles(j.op, PcOf(i)) => /\ c.k = "R" /\ n = 1 /\ i < WriteAt(j.op, b)
  <2> SUFFICES ASSUME ~Idles(j.op, PcOf(i)) PROVE c.k = "R" /\ n = 1 /\ i < WriteAt(j.op, b)
    OBVIOUS
  <2>1. ~Writes(j.op, i) /\ (i = Opens(j.op, b) \/ i = Closes(j.op, b))
    BY <1>0, <1>4, ComputesWhere
  <2>2. i < WriteAt(j.op, b)
    BY <1>4, <2>1, BankTables
  <2> QED BY <1>1, <2>1, <2>2 DEF KindOf, Count
<1>10. ~Idles(j.op, PcOf(i)) => data = Source(SourceOf(j.op, i), d)
  <2> SUFFICES ASSUME ~Idles(j.op, PcOf(i)) PROVE data = Source(SourceOf(j.op, i), d)
    OBVIOUS
  <2>1. Progress(i, l, P) = i
    BY <1>9 DEF Progress
  <2>2. LaneOK(j, b, i, d, File(v, b)[l], m[d])
    BY <1>0, <1>1, <1>5, <2>1 DEF TileOK, LanesOK
  <2>3. m[d] = Source(j.out, d)
    BY <1>9, <2>2 DEF LaneOK
  <2> QED BY <1>4, <1>5, <2>3 DEF ReadAs
<1>11. /\ RegsOK(w) /\ w.mode = "HAB_PIM" /\ (j.op = "BN" => w.srf)
       /\ Registers(v, w, j.op, i, l, data)
       /\ Advances(w, j.op, lc, t, PcOf(i), rep)
       /\ Idles(j.op, PcOf(i)) => Written(v, c) = File(v, c.bank)[l]
  <2>1. RegsOK(v)
    BY <1>0 DEF TileOK
  <2> QED BY <1>0, <1>1, <1>3, <1>7, <1>8, <1>9, <2>1, UnitStep
<1>12. Moves(w, j.op, lc, t, i, P, p)
  BY <1>0, <1>3, <1>5, <1>6, <1>11, CounterMoves
<1>13. TileOK(j, T, t, i, P \ {p}, w, m2)
  <2>1. KindOf(j.op, i, n) = "W" => Written(v, c) = File(v, BankOf(j.op, i))[l]
    BY <1>11, WritesIdle
  <2>2. Stores(m, m2, KindOf(j.op, i, n) = "W", Spot(BankOf(j.op, i), t, l), File(v, BankOf(j.op, i))[l])
    BY <2>1 DEF Stores
  <2>3. ~Idles(j.op, PcOf(i)) => data = Source(SourceOf(j.op, i), Spot(BankOf(j.op, i), t, l))
    BY <1>4, <1>5, <1>10
  <2> QED BY <1>0, <1>1, <1>3, <1>5, <1>11, <2>2, <2>3, TileStep
<1>14. CASE P # {p}
  <2>1. TileControl(w, j.op, lc, t, i, P \ {p})
    BY <1>12, <1>14 DEF Moves
  <2>2. P \ {p} \subseteq Pairs(j.op, i)
    BY <1>0
  <2>3. TileAt(j, T, t, i, P \ {p}, w, m2)
    BY <1>0, <1>2, <1>11, <1>13, <2>1, <2>2, Zenon DEF TileAt
  <2> QED BY <1>5, <1>14, <2>3
<1>15. CASE P = {p}
  <2>1. TileOK(j, T, t, i, {}, w, m2)
    <3>1. P \ {p} = {}
      BY <1>15
    <3> QED BY <1>13, <3>1
  <2>2. ASSUME i + 1 < TileLen(j.op) PROVE TileAt(j, T, t, i + 1, Pairs(j.op, i + 1), w, m2)
    <3>1. TileControl(w, j.op, lc, t, i + 1, Pairs(j.op, i + 1))
      BY <1>12, <1>15, <2>2 DEF Moves
    <3>2. TileOK(j, T, t, i + 1, Pairs(j.op, i + 1), w, m2)
      BY <1>0, <1>3, <2>1, <2>2, NextWindow
    <3>3. i + 1 \in 0 .. TileLen(j.op) - 1
      BY <1>3, <2>2 DEF TileLen
    <3> QED BY <1>0, <1>2, <1>11, <3>1, <3>2, <3>3, Zenon DEF TileAt
  <2>3. ASSUME i + 1 = TileLen(j.op), t + 1 < T PROVE TileAt(j, T, t + 1, 0, Pairs(j.op, 0), w, m2)
    <3>1. t < lc /\ t + 1 \in 0 .. T - 1
      BY <1>2, <1>3, <2>3
    <3>2. TileControl(w, j.op, lc, t + 1, 0, Pairs(j.op, 0))
      BY <1>12, <1>15, <2>3, <3>1 DEF Moves
    <3>3. TileOK(j, T, t + 1, 0, Pairs(j.op, 0), w, m2)
      BY <1>0, <1>3, <2>1, <2>3, NextTile
    <3>4. 0 \in 0 .. TileLen(j.op) - 1
      BY DEF TileLen
    <3> QED BY <1>2, <1>11, <3>1, <3>2, <3>3, <3>4, Zenon DEF TileAt
  <2>4. ASSUME i + 1 = TileLen(j.op), t + 1 = T PROVE Ended(w, j.op, T - 1) /\ MemFinal(j, T, m2)
    <3>1. t = lc
      BY <1>2, <1>3, <2>4
    <3>2. Ended(w, j.op, lc)
      BY <1>12, <1>15, <2>4, <3>1 DEF Moves
    <3>3. MemFinal(j, T, m2)
      BY <1>0, <1>3, <2>1, <2>4, LastTile
    <3> QED BY <1>2, <3>2, <3>3
  <2>5. TileAfter(j, T, t, i, w, m2)
    BY <2>2, <2>3, <2>4 DEF TileAfter
  <2> QED BY <1>5, <1>15, <2>5
<1> QED BY <1>5, <1>14, <1>15

-----------------------------------------------------------------------------
(* Loading the program and turning HAB_PIM on.                             *)

On(v) == v.mode = "HAB_PIM" /\ v.pc = 0 /\ v.rep = 0 /\ v.jump = NoJump
Has(crf, words, l) == \A n \in Column(words, l) : n \in DOMAIN crf /\ crf[n] = words[n]

\* The writes to registers before the first tile, and what each has done.
IsSetup(a, words) ==
  \/ a.k = "CRF" /\ a.words = words
  \/ a.k = "HAB_PIM" /\ a.clear = FALSE
  \/ a.k = "SRF"
Done(a, l, v) ==
  /\ a.k = "CRF" => Has(v.crf, a.words, l)
  /\ a.k = "HAB_PIM" => On(v)
  /\ a.k = "SRF" => v.srf
Kept(v, w, words) ==
  /\ On(v) => On(w)
  /\ v.srf => w.srf
  /\ \A l : Has(v.crf, words, l) => Has(w.crf, words, l)

\* Such a write does its work and undoes no other's.
LEMMA SetupWrites ==
  ASSUME NEW words, NEW a, IsSetup(a, words), NEW l, NEW v, RegsOK(v), v.mode # "SB",
         NEW w, w = AfterRegister(v, a, l)
  PROVE  RegsOK(w) /\ Done(a, l, w) /\ Kept(v, w, words)
<1>1. CASE a.k = "CRF" /\ a.words = words
  <2>1. PICK crf : crf = [n \in DOMAIN v.crf \cup Column(words, l) |->
                            IF n \in Column(words, l) THEN words[n] ELSE v.crf[n]]
    OBVIOUS
  <2>2. w = [v EXCEPT !.crf = crf]
    BY <1>1, <2>1 DEF AfterRegister
  <2>3. /\ DOMAIN w = UnitFields /\ w.crf = crf /\ w.mode = v.mode /\ w.pc = v.pc /\ w.rep = v.rep /\ w.jump = v.jump
        /\ w.GRF_A = v.GRF_A /\ w.GRF_B = v.GRF_B /\ w.srf = v.srf
    BY <2>2 DEF UnitFields, RegsOK
  <2>4. RegsOK(w) /\ (On(v) => On(w))
    BY <2>3 DEF RegsOK, On
  <2>5. Has(crf, words, l)
    BY <2>1 DEF Has
  <2>6. ASSUME NEW k, Has(v.crf, words, k) PROVE Has(crf, words, k)
    <3>1. ASSUME NEW n \in Column(words, k) PROVE n \in DOMAIN crf /\ crf[n] = words[n]
      <4>1. n \in DOMAIN v.crf /\ v.crf[n] = words[n]
        BY <2>6, <3>1 DEF Has
      <4> QED BY <2>1, <4>1
    <3> QED BY <3>1 DEF Has
  <2>7. Done(a, l, w)
    BY <1>1, <2>3, <2>5 DEF Done
  <2>8. Kept(v, w, words)
    BY <2>3, <2>4, <2>6, Zenon DEF Kept
  <2> QED BY <2>4, <2>7, <2>8
<1>2. CASE a.k = "HAB_PIM" /\ a.clear = FALSE
  <2>1. PICK g, j : g = v.GRF_B /\ j = NoJump
    OBVIOUS
  <2>2. w = [v EXCEPT !.mode = "HAB_PIM", !.pc = 0, !.rep = 0, !.jump = j, !.GRF_B = g]
    BY <1>2, <2>1 DEF AfterRegister
  <2>3. /\ DOMAIN w = UnitFields /\ w.crf = v.crf /\ w.mode = "HAB_PIM" /\ w.pc = 0 /\ w.rep = 0 /\ w.jump = j
        /\ w.GRF_A = v.GRF_A /\ w.GRF_B = g /\ w.srf = v.srf
    BY <2>2 DEF UnitFields, RegsOK
  <2>4. RegsOK(w) /\ On(w)
    BY <2>1, <2>3 DEF RegsOK, On
  <2>5. Done(a, l, w)
    BY <1>2, <2>4 DEF Done
  <2>6. Kept(v, w, words)
    BY <2>3, <2>4, Zenon DEF Kept
  <2> QED BY <2>4, <2>5, <2>6
<1>3. CASE a.k = "SRF"
  <2>1. w = [v EXCEPT !.srf = TRUE]
    BY <1>3 DEF AfterRegister
  <2>3. /\ DOMAIN w = UnitFields /\ w.crf = v.crf /\ w.mode = v.mode /\ w.pc = v.pc /\ w.rep = v.rep /\ w.jump = v.jump
        /\ w.GRF_A = v.GRF_A /\ w.GRF_B = v.GRF_B /\ w.srf = TRUE
    BY <2>1 DEF UnitFields, RegsOK
  <2>4. RegsOK(w) /\ (On(v) => On(w))
    BY <2>3 DEF RegsOK, On
  <2>5. Done(a, l, w)
    BY <1>3, <2>3 DEF Done
  <2>6. Kept(v, w, words)
    BY <2>3, <2>4, Zenon DEF Kept
  <2> QED BY <2>4, <2>5, <2>6
<1> QED BY <1>1, <1>2, <1>3 DEF IsSetup

\* What others have done is kept.
LEMMA DoneKept ==
  ASSUME NEW words, NEW a, IsSetup(a, words), NEW l, NEW v, NEW w, Kept(v, w, words), Done(a, l, v)
  PROVE  Done(a, l, w)
<1>1. CASE a.k = "CRF" /\ a.words = words
  BY <1>1 DEF Kept, Done
<1>2. CASE a.k = "HAB_PIM"
  BY <1>2 DEF Kept, Done
<1>3. CASE a.k = "SRF"
  BY <1>3, Zenon DEF Kept, Done
<1> QED BY <1>1, <1>2, <1>3 DEF IsSetup

Words(j) == make_crf_bin(j.op, j.size)

\* The accesses of the setup windows.
LEMMA SetupIs ==
  ASSUME NEW j, j.op \in EltOps, NEW q \in 1 .. FirstTile(j.op) - 6
  PROVE  /\ Setup(j)[q] = [n \in DOMAIN Setup(j)[q] |-> Setup(j)[q][n]]
         /\ \A n \in DOMAIN Setup(j)[q] : IsSetup(Setup(j)[q][n], Words(j))
<1>1. PICK a, b, c, s : /\ a = LoadBy(Words(j), 1) /\ b = LoadBy(Words(j), 2) /\ c = TurnOn /\ s = Reg("SRF")
  OBVIOUS
<1>2. IsSetup(a, Words(j)) /\ IsSetup(b, Words(j)) /\ IsSetup(c, Words(j)) /\ IsSetup(s, Words(j))
  BY <1>1 DEF IsSetup, LoadBy, TurnOn, Reg
<1>3. CASE j.op = "BN"
  <2>1. Setup(j) = << <<s, c>>, <<b>> >>
    BY <1>1, <1>3, Zenon DEF Setup, Words
  <2>2. q \in {1, 2}
    BY <1>3 DEF FirstTile
  <2> QED BY <1>2, <2>1, <2>2
<1>4. CASE j.op # "BN"
  <2>1. Setup(j) = << <<a, c>> >>
    BY <1>1, <1>4, Zenon DEF Setup, Words
  <2>2. q = 1
    BY <1>4 DEF FirstTile
  <2> QED BY <1>2, <2>1, <2>2
<1> QED BY <1>3, <1>4

\* All that has been made of the accesses before the first tile has been done;
\* P are those of window w to come.
Made(w, P, q, n, l) == q < w - 5 \/ (q = w - 5 /\ <<n, l>> \notin P)
SetupDone(j, w, P, v) ==
  \A q \in 1 .. FirstTile(j.op) - 6 : \A n \in DOMAIN Setup(j)[q] : \A l \in Setup(j)[q][n].lanes :
    Made(w, P, q, n, l) => Done(Setup(j)[q][n], l, v)

\* A write of a setup window.
LEMMA SetupStep ==
  ASSUME NEW j, j.op \in EltOps, NEW w \in 6 .. FirstTile(j.op) - 1, NEW P, NEW v, RegsOK(v), v.mode # "SB",
         SetupDone(j, w, P, v), NEW n, NEW l, n \in DOMAIN Setup(j)[w - 5],
         NEW x, x = AfterRegister(v, Setup(j)[w - 5][n], l)
  PROVE  RegsOK(x) /\ SetupDone(j, w, P \ {<<n, l>>}, x)
<1>0. FirstTile(j.op) \in {7, 8} /\ w - 5 \in 1 .. FirstTile(j.op) - 6
  BY DEF FirstTile
<1>1. PICK a : a = Setup(j)[w - 5][n]
  OBVIOUS
<1>2. IsSetup(a, Words(j))
  BY <1>0, <1>1, SetupIs
<1>3. RegsOK(x) /\ Done(a, l, x) /\ Kept(v, x, Words(j))
  BY <1>1, <1>2, SetupWrites
<1>4. ASSUME NEW q \in 1 .. FirstTile(j.op) - 6, NEW k \in DOMAIN Setup(j)[q], NEW h \in Setup(j)[q][k].lanes,
             Made(w, P \ {<<n, l>>}, q, k, h)
      PROVE  Done(Setup(j)[q][k], h, x)
  <2>1. CASE q = w - 5 /\ <<k, h>> = <<n, l>>
    <3>1. k = n /\ h = l
      BY <2>1
    <3> QED BY <1>1, <1>3, <2>1, <3>1
  <2>2. CASE ~(q = w - 5 /\ <<k, h>> = <<n, l>>)
    <3>1. Made(w, P, q, k, h)
      BY <1>4, <2>2 DEF Made
    <3>2. Done(Setup(j)[q][k], h, v)
      BY <3>1 DEF SetupDone
    <3>3. IsSetup(Setup(j)[q][k], Words(j))
      BY SetupIs
    <3> QED BY <1>3, <3>2, <3>3, DoneKept
  <2> QED BY <2>1, <2>2
<1> QED BY <1>3, <1>4, Zenon DEF SetupDone

\* The next setup window.
LEMMA SetupNext ==
  ASSUME NEW j, j.op \in EltOps, NEW w \in 6 .. FirstTile(j.op) - 2, NEW v, SetupDone(j, w, {}, v)
  PROVE  SetupDone(j, w + 1, Accesses(Setup(j)[w - 4]), v)
<1>0. FirstTile(j.op) \in {7, 8}
  BY DEF FirstTile
<1>1. ASSUME NEW q \in 1 .. FirstTile(j.op) - 6, NEW k \in DOMAIN Setup(j)[q], NEW h \in Setup(j)[q][k].lanes,
             Made(w + 1, Accesses(Setup(j)[w - 4]), q, k, h)
      PROVE  Done(Setup(j)[q][k], h, v)
  <2>1. q = w - 4 => <<k, h>> \in Accesses(Setup(j)[w - 4])
    BY DEF Accesses
  <2>2. q <= w - 5
    BY <1>0, <1>1, <2>1 DEF Made
  <2>3. Made(w, {}, q, k, h)
    BY <1>0, <2>2 DEF Made
  <2> QED BY <2>3 DEF SetupDone
<1> QED BY <1>1, Zenon DEF SetupDone

\* The first setup window: nothing is done.
LEMMA SetupFirst ==
  ASSUME NEW j, j.op \in EltOps, NEW v
  PROVE  SetupDone(j, 6, Accesses(Setup(j)[1]), v)
<1>0. FirstTile(j.op) \in {7, 8}
  BY DEF FirstTile
<1>1. ASSUME NEW q \in 1 .. FirstTile(j.op) - 6, NEW k \in DOMAIN Setup(j)[q], NEW h \in Setup(j)[q][k].lanes,
             Made(6, Accesses(Setup(j)[1]), q, k, h)
      PROVE  Done(Setup(j)[q][k], h, v)
  <2>1. q = 1 => <<k, h>> \in Accesses(Setup(j)[1])
    BY DEF Accesses
  <2>2. FALSE
    BY <1>0, <1>1, <2>1 DEF Made
  <2> QED BY <2>2
<1> QED BY <1>1, Zenon DEF SetupDone

\* A job of T whole tiles, no more than the program can go around.
Whole(j, T) == T \in Nat \ {0} /\ T - 1 <= MaxLoop /\ j.size = 2 * T

\* Tiles and loop counter of such a job.
LEMMA WholeNumbers ==
  ASSUME NEW j, j.op \in EltOps, NEW T, Whole(j, T)
  PROVE  T \in Nat \ {0} /\ NumTile(j) = T /\ get_loop_counter(j.op, j.size) = T - 1 /\ T - 1 \in 0 .. MaxLoop
<1>1. T \in Nat \ {0} /\ j.size = 2 * T /\ T - 1 <= MaxLoop
  BY DEF Whole
<1>2. (2 * T) \div 2 = T /\ (2 * T + 1) \div 2 = T
  BY <1>1
<1>3. NumTile(j) = T
  BY <1>1, <1>2 DEF NumTile
<1>4. j.op # "GEMV"
  BY DEF EltOps
<1>5. get_loop_counter(j.op, j.size) = T - 1
  BY <1>1, <1>2, <1>4 DEF get_loop_counter
<1>6. T - 1 \in 0 .. MaxLoop
  BY <1>1, MaxLoopIs
<1> QED BY <1>1, <1>3, <1>5, <1>6

\* A program whose columns have been written.
LEMMA ColumnsLoad ==
  ASSUME NEW op \in EltOps, NEW lc, NEW words, Loaded(words, op, lc),
         NEW crf, Has(crf, words, 0), op = "BN" => Has(crf, words, 1)
  PROVE  Loaded(crf, op, lc)
<1>1. PICK L \in {4, 6, 8} : L = BodyLen(op) /\ (L = 8 <=> op = "BN")
  BY DEF BodyLen, EltOps
<1>2. ASSUME NEW n \in 0 .. L + 1 PROVE n \in DOMAIN crf /\ crf[n] = words[n]
  <2>1. n \in DOMAIN words
    BY <1>1 DEF Loaded
  <2>2. CASE n < 8
    <3>1. n \div 8 = 0
      BY <2>2
    <3>2. n \in Column(words, 0)
      BY <2>1, <3>1 DEF Column
    <3> QED BY <3>2 DEF Has
  <2>3. CASE n >= 8
    <3>1. n \div 8 = 1 /\ op = "BN"
      BY <1>1, <2>3
    <3>2. n \in Column(words, 1)
      BY <2>1, <3>1 DEF Column
    <3> QED BY <3>1, <3>2 DEF Has
  <2> QED BY <2>2, <2>3
<1>3. 0 .. L + 1 \subseteq DOMAIN crf
  BY <1>2
<1>4. /\ \A n \in 0 .. L - 1 : crf[n] = Decoded(op)[n + 1]
      /\ crf[L] = Jump(lc, L + 1) /\ crf[L + 1] = Exit
  <2>1. \A n \in 0 .. L - 1 : n \in 0 .. L + 1 /\ words[n] = Decoded(op)[n + 1]
    BY <1>1 DEF Loaded
  <2>2. L \in 0 .. L + 1 /\ L + 1 \in 0 .. L + 1 /\ words[L] = Jump(lc, L + 1) /\ words[L + 1] = Exit
    BY <1>1 DEF Loaded
  <2> QED BY <1>2, <2>1, <2>2
<1> QED BY <1>1, <1>3, <1>4 DEF Loaded

\* All setup windows are over.
LEMMA SetupOver ==
  ASSUME NEW j, j.op \in EltOps, NEW v, SetupDone(j, FirstTile(j.op) - 1, {}, v)
  PROVE  /\ On(v) /\ (j.op = "BN" => v.srf) /\ Has(v.crf, Words(j), 0)
         /\ j.op = "BN" => Has(v.crf, Words(j), 1)
<1>0. FirstTile(j.op) \in {7, 8}
  BY DEF FirstTile
<1>1. ASSUME NEW q \in 1 .. FirstTile(j.op) - 6, NEW n \in DOMAIN Setup(j)[q], NEW l \in Setup(j)[q][n].lanes
      PROVE  Done(Setup(j)[q][n], l, v)
  <2>1. Made(FirstTile(j.op) - 1, {}, q, n, l)
    BY <1>0 DEF Made
  <2> QED BY <2>1 DEF SetupDone
<1>2. PICK a, b, c, s : /\ a = LoadBy(Words(j), 1) /\ b = LoadBy(Words(j), 2) /\ c = TurnOn /\ s = Reg("SRF")
  OBVIOUS
<1>3. /\ 0 \in a.lanes /\ 0 \in b.lanes /\ 1 \in b.lanes /\ 0 \in c.lanes /\ 0 \in s.lanes
      /\ a.k = "CRF" /\ b.k = "CRF" /\ c.k = "HAB_PIM" /\ s.k = "SRF" /\ a.words = Words(j) /\ b.words = Words(j)
  BY <1>2 DEF LoadBy, TurnOn, Reg
<1>4. CASE j.op = "BN"
  <2>1. Setup(j) = << <<s, c>>, <<b>> >>
    BY <1>2, <1>4, Zenon DEF Setup, Words
  <2>2. 1 \in 1 .. FirstTile(j.op) - 6 /\ 2 \in 1 .. FirstTile(j.op) - 6
    BY <1>4 DEF FirstTile
  <2>3. Setup(j)[1][1] = s /\ Setup(j)[1][2] = c /\ Setup(j)[2][1] = b
        /\ 1 \in DOMAIN Setup(j)[1] /\ 2 \in DOMAIN Setup(j)[1] /\ 1 \in DOMAIN Setup(j)[2]
    BY <2>1
  <2>4. Done(s, 0, v) /\ Done(c, 0, v)
    BY <1>1, <1>3, <2>2, <2>3
  <2>5. Done(b, 0, v) /\ Done(b, 1, v)
    BY <1>1, <1>3, <2>2, <2>3
  <2>6. v.srf /\ On(v) /\ Has(v.crf, Words(j), 0) /\ Has(v.crf, Words(j), 1)
    BY <1>3, <2>4, <2>5 DEF Done
  <2> QED BY <1>4, <2>6, Zenon
<1>5. CASE j.op # "BN"
  <2>1. Setup(j) = << <<a, c>> >>
    BY <1>2, <1>5, Zenon DEF Setup, Words
  <2>2. 1 \in 1 .. FirstTile(j.op) - 6
    BY <1>5 DEF FirstTile
  <2>3. Setup(j)[1][1] = a /\ Setup(j)[1][2] = c /\ 1 \in DOMAIN Setup(j)[1] /\ 2 \in DOMAIN Setup(j)[1]
    BY <2>1
  <2>4. Done(a, 0, v) /\ Done(c, 0, v)
    BY <1>1, <1>3, <2>2, <2>3
  <2> QED BY <1>3, <1>5, <2>4 DEF Done
<1> QED BY <1>4, <1>5

\* The first window of the first tile.
LEMMA TilesBegin ==
  ASSUME ShortIdle, NEW j, j.op \in EltOps, NEW T, Whole(j, T), NEW v, RegsOK(v),
         SetupDone(j, FirstTile(j.op) - 1, {}, v), NEW m, MemFirst(j, T, m)
  PROVE  TileAt(j, T, 0, 0, Pairs(j.op, 0), v, m)
<1>1. PICK lc \in 0 .. MaxLoop : lc = T - 1 /\ lc = get_loop_counter(j.op, j.size)
  BY WholeNumbers
<1>2. T \in Nat \ {0} /\ 0 \in 0 .. T - 1 /\ 0 \in 0 .. TileLen(j.op) - 1
  BY WholeNumbers DEF TileLen
<1>3. PICK words : words = Words(j)
  OBVIOUS
<1>4. Loaded(words, j.op, lc)
  BY <1>1, <1>3, EltProgram DEF Words
<1>5. /\ On(v) /\ (j.op = "BN" => v.srf) /\ Has(v.crf, words, 0)
      /\ j.op = "BN" => Has(v.crf, words, 1)
  BY <1>3, SetupOver
<1>6. Loaded(v.crf, j.op, lc)
  BY <1>4, <1>5, ColumnsLoad
<1>7. ControlAt(v, j.op, lc, 0, 0, 0)
  BY <1>5, <1>6 DEF ControlAt, JumpIs, On, RegsOK
<1>8. TileControl(v, j.op, T - 1, 0, 0, Pairs(j.op, 0))
  <2>1. PICK M \in Nat : M = Count(j.op, 0) * NumGrf /\ Cardinality(Pairs(j.op, 0)) = M
    BY <1>2, PairsCount, FS_CardinalityType
  <2>2. 0 + M - M = 0 /\ Off(0) = 0 /\ PcOf(0) = 0
    BY <2>1 DEF Off, PcOf
  <2> QED BY <1>1, <1>7, <2>1, <2>2 DEF TileControl
<1>9. TileOK(j, T, 0, 0, Pairs(j.op, 0), v, m)
  BY <1>2, FirstTileOK
<1>10. v.mode = "HAB_PIM"
  BY <1>5 DEF On
<1>11. Pairs(j.op, 0) \subseteq Pairs(j.op, 0)
  OBVIOUS
<1> QED BY <1>2, <1>5, <1>8, <1>9, <1>10, <1>11, Zenon DEF TileAt

-----------------------------------------------------------------------------
(* An elementwise kernel, window by window.                                *)

\* The first window after the tiles.
AfterTiles(j, T) == FirstTile(j.op) + T * TileLen(j.op)
InTile(j, T, w, P, v, m, t, i) ==
  w = FirstTile(j.op) + t * TileLen(j.op) + i /\ TileAt(j, T, t, i, P, v, m)
EltAt(j, T, w, P, v, m) ==
  /\ w \in 1 .. 5 => RegsOK(v) /\ MemFirst(j, T, m)
  /\ w \in 6 .. FirstTile(j.op) - 1 => RegsOK(v) /\ MemFirst(j, T, m) /\ SetupDone(j, w, P, v)
  /\ w \in FirstTile(j.op) .. AfterTiles(j, T) - 1 => \E t, i : InTile(j, T, w, P, v, m, t, i)
  /\ w = AfterTiles(j, T) => MemFinal(j, T, m) /\ (v.mode = "HAB_PIM" => Ended(v, j.op, T - 1))
  /\ w > AfterTiles(j, T) => MemFinal(j, T, m)

\* What a read of the weight brings.
Brought(d) == IF d \in DOMAIN weight THEN <<"w", weight[d]>> ELSE Garbage

\* One access a of lane l takes unit v and output m to v2 and m2.
BankAccess(j, a, l, v, m, v2, m2, c, data) ==
  /\ c.k = a.k /\ c.bank = a.bank /\ c.loc = a.base + l
  /\ a.buf # "weight" =>
       data = IF a.buf = j.out THEN m[<<a.bank, a.base + l>>] ELSE <<a.buf, a.bank, a.base + l>>
  /\ a.buf = "weight" /\ j.out # "weight" => data = Brought(<<a.bank, a.base + l>>)
  /\ v2 = AfterBank(v, c, data)
  /\ Stores(m, m2, a.k = "W", <<a.bank, a.base + l>>, Written(v, c))
AccessIs(j, a, l, v, m, v2, m2) ==
  IF a.k \in {"R", "W"} THEN \E c, data : BankAccess(j, a, l, v, m, v2, m2, c, data)
  ELSE v2 = AfterRegister(v, a, l) /\ m2 = m

\* The windows go on with access p.
Proceeds(W, w, P, p, w2, P2) ==
  IF P = {p} THEN w2 = w + 1 /\ P2 = Accesses(IF w + 1 <= Len(W) THEN W[w + 1] ELSE << >>)
  ELSE w2 = w /\ P2 = P \ {p}

\* A job, its kernel and an access of window w.
OfJob(W, j, T) ==
  /\ j.op \in EltOps /\ Whole(j, T) /\ EltIs(W, j, T) /\ Framed(W)
MadeAt(W, w, n, l) == w \in 1 .. Len(W) /\ n \in DOMAIN W[w] /\ l \in W[w][n].lanes

\* Numbers of windows.
LEMMA WindowNumbers ==
  ASSUME NEW W, NEW j, NEW T, OfJob(W, j, T)
  PROVE  /\ FirstTile(j.op) \in {7, 8} /\ T \in Nat \ {0} /\ TileLen(j.op) \in {4, 6, 9}
         /\ AfterTiles(j, T) \in Nat /\ AfterTiles(j, T) > FirstTile(j.op) /\ Len(W) = AfterTiles(j, T) + 2
<1>1. j.op \in EltOps /\ Whole(j, T) /\ EltIs(W, j, T)
  BY DEF OfJob
<1>2. FirstTile(j.op) \in {7, 8} /\ T \in Nat \ {0} /\ TileLen(j.op) \in {4, 6, 9}
  BY <1>1, WholeNumbers DEF FirstTile, TileLen
<1>3. PICK x \in Nat : x = T * TileLen(j.op) /\ x > 0
  <2>1. 0 * TileLen(j.op) < T * TileLen(j.op)
    BY <1>2, MulLess
  <2> QED BY <1>2, <2>1, MulNat
<1>4. AfterTiles(j, T) = FirstTile(j.op) + x
  BY <1>3 DEF AfterTiles
<1>5. Len(W) = AfterTiles(j, T) + 2
  BY <1>1 DEF EltIs, AfterTiles
<1> QED BY <1>2, <1>3, <1>4, <1>5

\* Writes that lead to HAB keep the registers.
LEMMA LeadKeeps ==
  ASSUME NEW v, RegsOK(v), NEW a, a.k \in {"PARK", "AB"}, NEW l, NEW w, w = AfterRegister(v, a, l)
  PROVE  RegsOK(w)
<1>1. CASE a.k = "AB"
  BY <1>1 DEF AfterRegister, RegsOK, UnitFields
<1>2. CASE a.k = "PARK"
  BY <1>2 DEF AfterRegister
<1> QED BY <1>1, <1>2

\* Before the setup.
LEMMA LeadStep ==
  ASSUME NEW W, NEW j, NEW T, OfJob(W, j, T), NEW w, NEW n, NEW l, MadeAt(W, w, n, l), w \in 1 .. 5,
         NEW P, NEW v, NEW m, EltAt(j, T, w, P, v, m),
         NEW v2, NEW m2, AccessIs(j, W[w][n], l, v, m, v2, m2),
         NEW w2, NEW P2, Proceeds(W, w, P, <<n, l>>, w2, P2)
  PROVE  EltAt(j, T, w2, P2, v2, m2)
<1>0. /\ FirstTile(j.op) \in {7, 8} /\ AfterTiles(j, T) \in Nat /\ AfterTiles(j, T) > FirstTile(j.op)
      /\ Len(W) = AfterTiles(j, T) + 2 /\ j.op \in EltOps
  BY WindowNumbers DEF OfJob
<1>1. W[w][n].k \in {"PARK", "AB"}
  <2>1. CASE w = 1
    <3>1. W[w] = <<Reg("PARK")>> /\ n \in DOMAIN W[w]
      BY <2>1 DEF OfJob, Framed, MadeAt
    <3> QED BY <3>1 DEF Reg
  <2>2. CASE w \in 2 .. 5
    <3>1. PICK k \in 1 .. 4 : w = k + 1
      <4>1. w - 1 \in 1 .. 4 /\ w = (w - 1) + 1
        BY <2>2
      <4> QED BY <4>1
    <3>2. W[w] = <<[k |-> "AB", n |-> k, lanes |-> {0}]>> /\ n \in DOMAIN W[w]
      BY <3>1 DEF OfJob, Framed, MadeAt
    <3> QED BY <3>2
  <2> QED BY <2>1, <2>2
<1>2. v2 = AfterRegister(v, W[w][n], l) /\ m2 = m
  BY <1>1 DEF AccessIs
<1>3. RegsOK(v2) /\ MemFirst(j, T, m2)
  BY <1>1, <1>2, LeadKeeps DEF EltAt
<1>4. w2 \in 1 .. 6
  BY DEF Proceeds
<1>5. CASE w2 \in 1 .. 5
  BY <1>0, <1>3, <1>5 DEF EltAt
<1>6. CASE w2 = 6
  <2>1. P2 = Accesses(W[6])
    BY <1>0, <1>6 DEF Proceeds
  <2>2. W[5 + 1] = Setup(j)[1]
    BY <1>0 DEF OfJob, EltIs
  <2>3. SetupDone(j, 6, P2, v2)
    BY <1>0, <2>1, <2>2, SetupFirst
  <2> QED BY <1>0, <1>3, <1>6, <2>3 DEF EltAt
<1> QED BY <1>4, <1>5, <1>6

\* The accesses of a window of a tile.
LEMMA WindowPairs ==
  ASSUME NEW j, j.op \in EltOps, NEW base, NEW i
  PROVE  /\ DOMAIN TileWin(j, base, i) = 1 .. Count(j.op, i)
         /\ \A n \in 1 .. Count(j.op, i) : TileWin(j, base, i)[n] = TileAccess(j, base, i, n)
         /\ Accesses(TileWin(j, base, i)) = Pairs(j.op, i)
<1>1. PICK f : f = TileWin(j, base, i)
  OBVIOUS
<1>2. DOMAIN f = 1 .. Count(j.op, i) /\ \A n \in 1 .. Count(j.op, i) : f[n] = TileAccess(j, base, i, n)
  BY <1>1 DEF TileWin
<1>3. \A n \in 1 .. Count(j.op, i) : f[n].lanes = Lanes
  BY <1>2 DEF TileAccess
<1>4. Accesses(f) = Pairs(j.op, i)
  <2>1. PICK C : C = 1 .. Count(j.op, i)
    OBVIOUS
  <2>2. ASSUME NEW p PROVE p \in Accesses(f) <=> p \in C \X Lanes
    BY <1>2, <1>3, <2>1 DEF Accesses
  <2>3. Accesses(f) = C \X Lanes
    BY <2>2
  <2> QED BY <2>1, <2>3 DEF Pairs
<1> QED BY <1>1, <1>2, <1>4

\* The first window of the tiles.
LEMMA AtFirstTile ==
  ASSUME NEW W, NEW j, NEW T, OfJob(W, j, T), NEW v, NEW m, TileAt(j, T, 0, 0, Pairs(j.op, 0), v, m),
         NEW w, w = FirstTile(j.op), NEW P, P = Accesses(W[w])
  PROVE  EltAt(j, T, w, P, v, m)
<1>0. /\ FirstTile(j.op) \in {7, 8} /\ AfterTiles(j, T) \in Nat /\ AfterTiles(j, T) > FirstTile(j.op)
      /\ j.op \in EltOps /\ TileLen(j.op) \in {4, 6, 9} /\ T \in Nat \ {0}
  BY WindowNumbers DEF OfJob
<1>1. FirstTile(j.op) + 0 * TileLen(j.op) + 0 = w /\ 0 \in 0 .. T - 1 /\ 0 \in 0 .. TileLen(j.op) - 1
  BY <1>0
<1>2. W[w] = TileWin(j, 0 * NumGrf, 0)
  BY <1>1 DEF OfJob, EltIs
<1>3. P = Pairs(j.op, 0)
  BY <1>0, <1>2, WindowPairs
<1>4. InTile(j, T, w, P, v, m, 0, 0)
  BY <1>1, <1>3 DEF InTile
<1>5. w \notin 1 .. 5 /\ w \notin 6 .. FirstTile(j.op) - 1 /\ w # AfterTiles(j, T) /\ ~(w > AfterTiles(j, T))
  BY <1>0
<1> QED BY <1>4, <1>5, Zenon DEF EltAt

\* The setup.
LEMMA LoadStep ==
  ASSUME ShortIdle, NEW W, NEW j, NEW T, OfJob(W, j, T), NEW w, NEW n, NEW l, MadeAt(W, w, n, l),
         w \in 6 .. FirstTile(j.op) - 1,
         NEW P, NEW v, NEW m, EltAt(j, T, w, P, v, m), v.mode # "SB",
         NEW v2, NEW m2, AccessIs(j, W[w][n], l, v, m, v2, m2),
         NEW w2, NEW P2, Proceeds(W, w, P, <<n, l>>, w2, P2)
  PROVE  EltAt(j, T, w2, P2, v2, m2)
<1>0. /\ FirstTile(j.op) \in {7, 8} /\ AfterTiles(j, T) \in Nat /\ AfterTiles(j, T) > FirstTile(j.op)
      /\ Len(W) = AfterTiles(j, T) + 2 /\ j.op \in EltOps /\ Whole(j, T)
  BY WindowNumbers DEF OfJob
<1>1. \A q \in 1 .. FirstTile(j.op) - 6 : W[5 + q] = Setup(j)[q]
  BY DEF OfJob, EltIs
<1>2. w - 5 \in 1 .. FirstTile(j.op) - 6 /\ 5 + (w - 5) = w
  BY <1>0
<1>3. W[w] = Setup(j)[w - 5]
  BY <1>1, <1>2
<1>4. PICK a : a = Setup(j)[w - 5][n]
  OBVIOUS
<1>5. n \in DOMAIN Setup(j)[w - 5] /\ a = W[w][n]
  BY <1>3, <1>4 DEF MadeAt
<1>6. a.k \notin {"R", "W"}
  <2>1. IsSetup(Setup(j)[w - 5][n], Words(j))
    BY <1>0, <1>2, <1>5, SetupIs, Zenon
  <2> QED BY <1>4, <2>1 DEF IsSetup
<1>7. v2 = AfterRegister(v, a, l) /\ m2 = m
  BY <1>5, <1>6 DEF AccessIs
<1>8. RegsOK(v) /\ MemFirst(j, T, m) /\ SetupDone(j, w, P, v)
  BY DEF EltAt
<1>9. RegsOK(v2) /\ SetupDone(j, w, P \ {<<n, l>>}, v2) /\ MemFirst(j, T, m2)
  BY <1>0, <1>4, <1>5, <1>7, <1>8, SetupStep
<1>10. CASE P # {<<n, l>>}
  <2>1. w2 = w /\ P2 = P \ {<<n, l>>}
    BY <1>10 DEF Proceeds
  <2> QED BY <1>0, <1>9, <2>1 DEF EltAt
<1>11. CASE P = {<<n, l>>}
  <2>1. SetupDone(j, w, {}, v2)
    <3>1. P \ {<<n, l>>} = {}
      BY <1>11
    <3> QED BY <1>9, <3>1
  <2>2. w2 = w + 1 /\ P2 = Accesses(W[w + 1])
    BY <1>0, <1>11 DEF Proceeds
  <2>3. CASE w < FirstTile(j.op) - 1
    <3>1. w \in 6 .. FirstTile(j.op) - 2 /\ w - 4 \in 1 .. FirstTile(j.op) - 6 /\ 5 + (w - 4) = w + 1
      BY <1>0, <2>3
    <3>2. W[w + 1] = Setup(j)[w - 4]
      BY <1>1, <3>1
    <3>3. SetupDone(j, w2, P2, v2)
      BY <1>0, <2>1, <2>2, <3>1, <3>2, SetupNext
    <3> QED BY <1>0, <1>9, <2>2, <3>1, <3>3 DEF EltAt
  <2>4. CASE w = FirstTile(j.op) - 1
    <3>1. TileAt(j, T, 0, 0, Pairs(j.op, 0), v2, m2)
      BY <1>0, <1>9, <2>1, <2>4, TilesBegin
    <3>2. w2 = FirstTile(j.op)
      BY <1>0, <2>2, <2>4
    <3> QED BY <2>2, <3>1, <3>2, AtFirstTile
  <2> QED BY <1>0, <2>3, <2>4
<1> QED BY <1>10, <1>11

\* A window of a tile, by its number.
LEMMA AtTile ==
  ASSUME NEW W, NEW j, NEW T, OfJob(W, j, T), NEW t \in 0 .. T - 1, NEW i \in 0 .. TileLen(j.op) - 1,
         NEW w, w = FirstTile(j.op) + t * TileLen(j.op) + i
  PROVE  w \in FirstTile(j.op) .. AfterTiles(j, T) - 1 /\ W[w] = TileWin(j, t * NumGrf, i)
<1>1. FirstTile(j.op) \in {7, 8} /\ T \in Nat \ {0} /\ TileLen(j.op) \in {4, 6, 9}
  BY WindowNumbers
<1>2. t * TileLen(j.op) + i \in 0 .. T * TileLen(j.op) - 1
  <2>1. TileLen(j.op) \in Nat \ {0} /\ T \in Nat
    BY <1>1
  <2> QED BY <2>1, DigitsBound
<1>3. PICK x, y : x = t * TileLen(j.op) /\ y = T * TileLen(j.op)
  OBVIOUS
<1>4. x \in Nat /\ y \in Nat
  BY <1>1, <1>3, MulNat
<1>5. x + i \in 0 .. y - 1 /\ w = FirstTile(j.op) + x + i /\ AfterTiles(j, T) = FirstTile(j.op) + y
  BY <1>2, <1>3 DEF AfterTiles
<1>6. w \in FirstTile(j.op) .. AfterTiles(j, T) - 1
  BY <1>1, <1>4, <1>5
<1>7. W[w] = TileWin(j, t * NumGrf, i)
  BY DEF OfJob, EltIs
<1> QED BY <1>6, <1>7

\* The kernel is in a window of a tile.
LEMMA EltInTile ==
  ASSUME NEW W, NEW j, NEW T, OfJob(W, j, T), NEW w, NEW P, NEW v, NEW m, NEW t, NEW i,
         InTile(j, T, w, P, v, m, t, i)
  PROVE  EltAt(j, T, w, P, v, m)
<1>1. t \in 0 .. T - 1 /\ i \in 0 .. TileLen(j.op) - 1 /\ w = FirstTile(j.op) + t * TileLen(j.op) + i
  BY DEF InTile, TileAt
<1>2. w \in FirstTile(j.op) .. AfterTiles(j, T) - 1
  BY <1>1, AtTile
<1>3. FirstTile(j.op) \in {7, 8} /\ AfterTiles(j, T) \in Nat
  BY WindowNumbers
<1>4. w \notin 1 .. 5 /\ w \notin 6 .. FirstTile(j.op) - 1 /\ w # AfterTiles(j, T) /\ ~(w > AfterTiles(j, T))
  BY <1>2, <1>3
<1> QED BY <1>4, Zenon DEF EltAt

\* The tiles.
LEMMA TilesStep ==
  ASSUME NEW W, NEW j, NEW T, OfJob(W, j, T), NEW w, NEW n, NEW l, MadeAt(W, w, n, l),
         w \in FirstTile(j.op) .. AfterTiles(j, T) - 1,
         NEW P, <<n, l>> \in P, NEW v, NEW m, EltAt(j, T, w, P, v, m),
         NEW v2, NEW m2, AccessIs(j, W[w][n], l, v, m, v2, m2),
         NEW w2, NEW P2, Proceeds(W, w, P, <<n, l>>, w2, P2)
  PROVE  EltAt(j, T, w2, P2, v2, m2)
<1>0. /\ FirstTile(j.op) \in {7, 8} /\ AfterTiles(j, T) \in Nat /\ Len(W) = AfterTiles(j, T) + 2
      /\ j.op \in EltOps /\ TileLen(j.op) \in {4, 6, 9} /\ T \in Nat \ {0}
  BY WindowNumbers DEF OfJob
<1>1. PICK t, i : InTile(j, T, w, P, v, m, t, i)
  BY Zenon DEF EltAt
<1>2. t \in 0 .. T - 1 /\ i \in 0 .. TileLen(j.op) - 1 /\ w = FirstTile(j.op) + t * TileLen(j.op) + i
  BY <1>1 DEF InTile, TileAt
<1>3. TileAt(j, T, t, i, P, v, m)
  BY <1>1 DEF InTile
<1>4. PICK a, b, d, g : a = W[w][n] /\ b = BankOf(j.op, i) /\ d = Spot(b, t, l) /\ g = t * NumGrf
  OBVIOUS
<1>5. a = TileAccess(j, g, i, n)
  <2>1. W[w] = TileWin(j, g, i)
    BY <1>2, <1>4, AtTile
  <2>2. n \in 1 .. Count(j.op, i)
    <3>1. DOMAIN W[w] = 1 .. Count(j.op, i)
      BY <1>0, <2>1, WindowPairs
    <3>2. n \in DOMAIN W[w]
      BY DEF MadeAt
    <3> QED BY <3>1, <3>2, Zenon
  <2> QED BY <1>0, <1>4, <2>1, <2>2, WindowPairs
<1>6. /\ a.k = KindOf(j.op, i, n) /\ a.bank = b /\ a.base = g
      /\ a.buf = IF Writes(j.op, i) THEN j.out ELSE SourceOf(j.op, i)
  BY <1>4, <1>5 DEF TileAccess
<1>7. a.k \in {"R", "W"}
  BY <1>6 DEF KindOf
<1>8. PICK c, data : BankAccess(j, a, l, v, m, v2, m2, c, data)
  BY <1>4, <1>7 DEF AccessIs
<1>9. /\ c.k = KindOf(j.op, i, n) /\ c.bank = b /\ c.loc = t * NumGrf + l
      /\ v2 = AfterBank(v, c, data)
  BY <1>4, <1>6, <1>8 DEF BankAccess
<1>10. <<a.bank, a.base + l>> = d
  BY <1>4, <1>6 DEF Spot
<1>11. Stores(m, m2, KindOf(j.op, i, n) = "W", d, Written(v, c))
  BY <1>6, <1>8, <1>10 DEF BankAccess
<1>12. ReadAs(j, i, d, m, data)
  <2>1. SUFFICES ASSUME ~Idles(j.op, PcOf(i))
                 PROVE  data = IF SourceOf(j.op, i) = j.out THEN m[d] ELSE Source(SourceOf(j.op, i), d)
    BY DEF ReadAs
  <2>2. ~Writes(j.op, i)
    BY <1>0, <1>2, <2>1, ComputesWhere
  <2>3. a.buf = SourceOf(j.op, i) /\ a.buf # "weight"
    BY <1>6, <2>2 DEF SourceOf
  <2>4. data = IF a.buf = j.out THEN m[<<a.bank, a.base + l>>] ELSE <<a.buf, a.bank, a.base + l>>
    BY <1>8, <2>3 DEF BankAccess
  <2>5. d[1] = a.bank /\ d[2] = a.base + l
    BY <1>10
  <2>6. <<a.buf, a.bank, a.base + l>> = Source(SourceOf(j.op, i), d)
    BY <2>3, <2>5 DEF Source
  <2> QED BY <1>10, <2>3, <2>4, <2>6
<1>13. /\ P # {<<n, l>>} => TileAt(j, T, t, i, P \ {<<n, l>>}, v2, m2)
       /\ P = {<<n, l>>} => TileAfter(j, T, t, i, v2, m2)
  <2>1. c.k = KindOf(j.op, i, n) /\ c.bank = BankOf(j.op, i) /\ c.loc = t * NumGrf + l
        /\ v2 = AfterBank(v, c, data)
    BY <1>4, <1>9, Zenon
  <2>2. /\ ReadAs(j, i, Spot(BankOf(j.op, i), t, l), m, data)
        /\ Stores(m, m2, KindOf(j.op, i, n) = "W", Spot(BankOf(j.op, i), t, l), Written(v, c))
    BY <1>4, <1>11, <1>12, Zenon
  <2>3. j.op \in EltOps /\ T \in Nat \ {0}
    BY <1>0
  <2> QED BY <1>3, <2>1, <2>2, <2>3, TileAccessed, SMTT(30)
<1>14. CASE P # {<<n, l>>}
  <2>1. w2 = w /\ P2 = P \ {<<n, l>>}
    BY <1>14 DEF Proceeds
  <2>2. InTile(j, T, w2, P2, v2, m2, t, i)
    BY <1>2, <1>13, <1>14, <2>1 DEF InTile
  <2> QED BY <2>2, EltInTile
<1>15. CASE P = {<<n, l>>}
  <2>1. w2 = w + 1 /\ P2 = Accesses(W[w + 1])
    BY <1>0, <1>15 DEF Proceeds
  <2>2. TileAfter(j, T, t, i, v2, m2)
    BY <1>13, <1>15
  <2>3. PICK x \in Nat : x = t * TileLen(j.op) /\ x + TileLen(j.op) = (t + 1) * TileLen(j.op)
    BY <1>0, <1>2, MulNat
  <2>7. /\ t \in Nat /\ T \in Nat /\ i \in 0 .. TileLen(j.op) - 1 /\ w2 = FirstTile(j.op) + x + i + 1
        /\ FirstTile(j.op) \in {7, 8} /\ TileLen(j.op) \in {4, 6, 9}
    <3>1. w = FirstTile(j.op) + x + i
      BY <1>2, <2>3, Zenon
    <3> QED BY <1>0, <1>2, <2>1, <3>1
  <2>4. CASE i + 1 < TileLen(j.op)
    <3>1. i + 1 \in 0 .. TileLen(j.op) - 1 /\ w2 = FirstTile(j.op) + t * TileLen(j.op) + (i + 1)
      <4>1. i + 1 \in 0 .. TileLen(j.op) - 1 /\ w2 = FirstTile(j.op) + x + (i + 1)
        BY <2>4, <2>7
      <4> QED BY <2>3, <4>1, Zenon
    <3>2. W[w2] = TileWin(j, t * NumGrf, i + 1)
      BY <1>2, <3>1, AtTile
    <3>3. P2 = Pairs(j.op, i + 1)
      BY <1>0, <2>1, <3>2, WindowPairs
    <3>4. InTile(j, T, w2, P2, v2, m2, t, i + 1)
      BY <2>2, <2>4, <3>1, <3>3 DEF InTile, TileAfter
    <3> QED BY <3>4, EltInTile
  <2>5. CASE i + 1 = TileLen(j.op) /\ t + 1 < T
    <3>1. t + 1 \in 0 .. T - 1 /\ 0 \in 0 .. TileLen(j.op) - 1
          /\ w2 = FirstTile(j.op) + (t + 1) * TileLen(j.op) + 0
      <4>1. t + 1 \in 0 .. T - 1 /\ 0 \in 0 .. TileLen(j.op) - 1
            /\ w2 = FirstTile(j.op) + (x + TileLen(j.op)) + 0
        BY <2>5, <2>7
      <4> QED BY <2>3, <4>1, Zenon
    <3>2. W[w2] = TileWin(j, (t + 1) * NumGrf, 0)
      BY <3>1, AtTile
    <3>3. P2 = Pairs(j.op, 0)
      BY <1>0, <2>1, <3>2, WindowPairs
    <3>4. InTile(j, T, w2, P2, v2, m2, t + 1, 0)
      BY <2>2, <2>5, <3>1, <3>3 DEF InTile, TileAfter
    <3> QED BY <3>4, EltInTile
  <2>6. CASE i + 1 = TileLen(j.op) /\ t + 1 = T
    <3>1. w2 = AfterTiles(j, T)
      <4>1. w2 = FirstTile(j.op) + (x + TileLen(j.op))
        BY <2>6, <2>7
      <4>2. x + TileLen(j.op) = T * TileLen(j.op)
        BY <2>3, <2>6, Zenon
      <4> QED BY <4>1, <4>2 DEF AfterTiles
    <3>2. Ended(v2, j.op, T - 1) /\ MemFinal(j, T, m2)
      BY <2>2, <2>6 DEF TileAfter
    <3>3. w2 \notin 1 .. 5 /\ w2 \notin 6 .. FirstTile(j.op) - 1 /\ ~(w2 > AfterTiles(j, T))
          /\ w2 \notin FirstTile(j.op) .. AfterTiles(j, T) - 1
      BY <1>0, <3>1, WindowNumbers
    <3> QED BY <3>2, <3>3, Zenon DEF EltAt
  <2> QED BY <1>0, <1>2, <2>4, <2>5, <2>6
<1> QED BY <1>14, <1>15

\* After the tiles.
LEMMA LeaveStep ==
  ASSUME NEW W, NEW j, NEW T, OfJob(W, j, T), NEW w, NEW n, NEW l, MadeAt(W, w, n, l),
         w >= AfterTiles(j, T), NEW P, NEW v, NEW m, EltAt(j, T, w, P, v, m), DOMAIN v = UnitFields,
         w = AfterTiles(j, T) => v.mode # "SB",
         NEW v2, NEW m2, AccessIs(j, W[w][n], l, v, m, v2, m2),
         NEW w2, NEW P2, Proceeds(W, w, P, <<n, l>>, w2, P2)
  PROVE  EltAt(j, T, w2, P2, v2, m2)
<1>0. /\ FirstTile(j.op) \in {7, 8} /\ AfterTiles(j, T) \in Nat /\ Len(W) = AfterTiles(j, T) + 2
      /\ AfterTiles(j, T) > FirstTile(j.op) /\ w \in AfterTiles(j, T) .. AfterTiles(j, T) + 2
  BY WindowNumbers DEF MadeAt
<1>1. MemFinal(j, T, m)
  BY <1>0 DEF EltAt
<1>2. w2 = w \/ w2 = w + 1
  BY DEF Proceeds
<1>3. CASE w = AfterTiles(j, T)
  <2>1. W[w] = <<[k |-> "HAB", lanes |-> {0, 1}]>> /\ n \in DOMAIN W[w]
    BY <1>3 DEF OfJob, EltIs, AfterTiles, MadeAt
  <2>2. W[w][n].k = "HAB"
    BY <2>1
  <2>3. v2 = AfterRegister(v, W[w][n], l) /\ m2 = m
    BY <2>2 DEF AccessIs
  <2>4. v2.mode = "HAB"
    BY <1>3, <2>2, <2>3, RegisterModes
  <2> QED BY <1>0, <1>1, <1>2, <1>3, <2>3, <2>4 DEF EltAt
<1>4. CASE w > AfterTiles(j, T)
  <2>1. W[w] = <<[k |-> "SB", lanes |-> {0, 1}]>> \/ W[w] = <<[k |-> "PARK", lanes |-> {0}]>>
    BY <1>0, <1>4 DEF OfJob, Framed, Reg
  <2>2. W[w][n].k \in {"SB", "PARK"}
    BY <2>1 DEF MadeAt
  <2>3. m2 = m
    BY <2>2 DEF AccessIs
  <2> QED BY <1>0, <1>1, <1>2, <1>4, <2>3 DEF EltAt
<1> QED BY <1>0, <1>3, <1>4

-----------------------------------------------------------------------------
(* The results of elementwise operations.                                  *)

\* What the executor launches elementwise kernels with: whole tiles, as many as the
\* jump of the program can count, and registers whose idle instructions fit.
WholeElts == ShortIdle /\ \A j \in Jobs : ~IsGemm(j) => \E T : Whole(j, T)

\* The windows of such a job.
LEMMA KernelOfJob ==
  ASSUME WholeElts, NEW j \in Jobs, ~IsGemm(j), NEW unit, NEW W, W = Windows(j, unit)
  PROVE  OfJob(W, j, NumTile(j))
<1>1. j.op \in EltOps
  BY JobsAssumption DEF IsGemm, EltOps
<1>2. PICK T : Whole(j, T)
  BY DEF WholeElts
<1>3. NumTile(j) = T
  BY <1>1, <1>2, WholeNumbers
<1>4. W = EltKernel(j)
  BY DEF Windows
<1>5. EltIs(W, j, T)
  BY <1>3, <1>4, EltKernelIs
<1>6. Framed(W)
  BY KernelsFramed
<1> QED BY <1>1, <1>2, <1>3, <1>5, <1>6 DEF OfJob

\* What there is besides TypeInv.
EltInv ==
  /\ stage \in {"idle", "convert"} => RegsOK(u)
  /\ stage = "run" /\ ~IsGemm(job) => EltAt(job, NumTile(job), window, pending, u, mem)
  /\ stage = "done" /\ ~IsGemm(job) => MemFinal(job, NumTile(job), mem)

\* A launch.
LEMMA EltStarts ==
  ASSUME WholeElts, NEW j \in Jobs, Run(j), RegsOK(u)
  PROVE  EltInv'
<1>1. stage' = "run" /\ job' = j /\ window' = 1 /\ u' = u
  BY DEF Run, Enter
<1> SUFFICES ASSUME ~IsGemm(j) PROVE EltAt(j, NumTile(j), 1, pending', u, mem')
  BY <1>1 DEF EltInv
<1>2. PICK T : T = NumTile(j)
  OBVIOUS
<1>3. FirstTile(j.op) \in {7, 8} /\ AfterTiles(j, T) \in Nat /\ AfterTiles(j, T) > FirstTile(j.op)
  <2>1. PICK W : W = Windows(j, at)
    OBVIOUS
  <2>2. OfJob(W, j, T)
    BY <1>2, <2>1, KernelOfJob
  <2> QED BY <2>2, WindowNumbers
<1>4. mem' = [d \in Places(T) |-> <<j.out, d[1], d[2]>>]
  <2>1. Reach(j) = T * NumGrf
    BY <1>2 DEF Reach
  <2>2. mem' = [d \in {0, 1} \X (0 .. Reach(j) - 1) |-> <<j.out, d[1], d[2]>>]
    BY Zenon DEF Run
  <2> QED BY <2>1, <2>2, Zenon DEF Places
<1>5. MemFirst(j, T, mem')
  <2>1. PICK D, m : D = Places(T) /\ m = mem'
    OBVIOUS
  <2>2. m = [d \in D |-> <<j.out, d[1], d[2]>>]
    BY <1>4, <2>1, Zenon
  <2>3. DOMAIN m = D /\ \A d \in D : m[d] = Source(j.out, d)
    BY <2>2 DEF Source
  <2> QED BY <2>1, <2>3, Zenon DEF MemFirst
<1>6. /\ 1 \in 1 .. 5 /\ 1 \notin 6 .. FirstTile(j.op) - 1 /\ 1 # AfterTiles(j, T)
      /\ ~(1 > AfterTiles(j, T)) /\ 1 \notin FirstTile(j.op) .. AfterTiles(j, T) - 1
  BY <1>3
<1> QED BY <1>2, <1>5, <1>6, Zenon DEF EltAt

\* What an access is, of which window.
LEMMA AccessIsMade ==
  ASSUME ModeInv, Access, NEW W, W = Windows(job, at)
  PROVE  \E n, l : /\ MadeAt(W, window, n, l) /\ <<n, l>> \in pending
                   /\ AccessIs(job, W[window][n], l, u, mem, u', mem')
                   /\ Proceeds(W, window, pending, <<n, l>>, window', pending')
<1>1. Framed(W) /\ job \in Jobs /\ PendingAt(W, window, code, pending)
  BY KernelsFramed DEF ModeInv, Access
<1>2. window \in 1 .. Len(W) /\ code = W[window] /\ Len(W) \in Nat
  BY <1>1 DEF Access, PendingAt, Framed
<1>3. PICK p \in Ready :
        /\ IF code[p[1]].k \in {"R", "W"}
             THEN LET c == [k |-> code[p[1]].k, buf |-> code[p[1]].buf, bank |-> code[p[1]].bank,
                            loc |-> code[p[1]].base + p[2]]
                  IN  /\ u' = AfterBank(u, c, Contents(c))
                      /\ mem' = IF code[p[1]].k = "W"
                                  THEN [mem EXCEPT ![<<c.bank, c.loc>>] = Written(u, c)]
                                  ELSE mem
             ELSE u' = AfterRegister(u, code[p[1]], p[2]) /\ UNCHANGED mem
        /\ IF pending = {p} THEN Enter(window + 1, W)
           ELSE pending' = pending \ {p} /\ UNCHANGED <<window, code>>
  BY Zenon DEF Access
<1>4. p \in pending /\ p[1] \in DOMAIN W[window] /\ p[2] \in W[window][p[1]].lanes /\ p = <<p[1], p[2]>>
  BY <1>1, <1>2, <1>3 DEF Ready, PendingAt
<1>5. PICK n, l, a : n = p[1] /\ l = p[2] /\ a = W[window][n]
  OBVIOUS
<1>6. MadeAt(W, window, n, l) /\ p = <<n, l>> /\ a = code[p[1]]
  BY <1>2, <1>4, <1>5 DEF MadeAt
<1>7. AccessIs(job, a, l, u, mem, u', mem')
  <2>1. CASE a.k \in {"R", "W"}
    <3>1. PICK c : c = [k |-> a.k, buf |-> a.buf, bank |-> a.bank, loc |-> a.base + l]
      OBVIOUS
    <3>2. /\ u' = AfterBank(u, c, Contents(c))
          /\ mem' = IF a.k = "W" THEN [mem EXCEPT ![<<c.bank, c.loc>>] = Written(u, c)] ELSE mem
      BY <1>3, <1>5, <1>6, <2>1, <3>1, Zenon
    <3>3. c.k = a.k /\ c.buf = a.buf /\ c.bank = a.bank /\ c.loc = a.base + l
      BY <3>1
    <3>4. PICK data : data = Contents(c)
      OBVIOUS
    <3>5. c.buf # "weight" => data = IF c.buf = job.out THEN mem[<<c.bank, c.loc>>] ELSE <<c.buf, c.bank, c.loc>>
      BY <3>4 DEF Contents
    <3>6. Stores(mem, mem', a.k = "W", <<c.bank, c.loc>>, Written(u, c))
      BY <3>2, Zenon DEF Stores
    <3>8. c.buf = "weight" /\ job.out # "weight" => data = Brought(<<c.bank, c.loc>>)
      BY <3>4 DEF Contents, Brought
    <3>7. BankAccess(job, a, l, u, mem, u', mem', c, data)
      BY <3>2, <3>3, <3>4, <3>5, <3>6, <3>8 DEF BankAccess
    <3> QED BY <2>1, <3>7, Zenon DEF AccessIs
  <2>2. CASE a.k \notin {"R", "W"}
    BY <1>3, <1>5, <1>6, <2>2, Zenon DEF AccessIs
  <2> QED BY <2>1, <2>2
<1>8. Proceeds(W, window, pending, p, window', pending')
  <2>1. CASE pending = {p}
    <3>1. /\ window' = window + 1
          /\ code' = IF window + 1 <= Len(W) THEN W[window + 1] ELSE << >>
          /\ pending' = Accesses(code')
      BY <1>3, <2>1 DEF Enter, Accesses
    <3> QED BY <2>1, <3>1, Zenon DEF Proceeds
  <2>2. CASE pending # {p}
    BY <1>3, <2>2, Zenon DEF Proceeds
  <2> QED BY <2>1, <2>2
<1> QED BY <1>4, <1>5, <1>6, <1>7, <1>8, Zenon

\* An access of an elementwise kernel.
LEMMA EltAccess ==
  ASSUME WholeElts, TypeInv, EltInv, Access, ~IsGemm(job)
  PROVE  EltAt(job, NumTile(job), window', pending', u', mem')
<1>1. PICK W, T : W = Windows(job, at) /\ T = NumTile(job)
  OBVIOUS
<1>2. ModeInv /\ job \in Jobs /\ stage = "run" /\ DOMAIN u = UnitFields
  BY DEF TypeInv, ModeInv, Access
<1>3. OfJob(W, job, T)
  BY <1>1, <1>2, KernelOfJob
<1>4. PICK n, l : /\ MadeAt(W, window, n, l) /\ <<n, l>> \in pending
                  /\ AccessIs(job, W[window][n], l, u, mem, u', mem')
                  /\ Proceeds(W, window, pending, <<n, l>>, window', pending')
  BY <1>1, <1>2, AccessIsMade
<1>5. EltAt(job, T, window, pending, u, mem)
  BY <1>1, <1>2 DEF EltInv
<1>6. FirstTile(job.op) \in {7, 8} /\ AfterTiles(job, T) \in Nat /\ AfterTiles(job, T) > FirstTile(job.op)
      /\ Len(W) = AfterTiles(job, T) + 2
  BY <1>3, WindowNumbers
<1>7. window \in 1 .. Len(W)
  BY <1>4 DEF MadeAt
<1>8. window \in 6 .. AfterTiles(job, T) => u.mode # "SB"
  <2>1. ModeAt(W, window, u.mode, u.ab)
    BY <1>1, <1>2 DEF ModeInv
  <2>2. window \in 6 .. AfterTiles(job, T) => window \in 6 .. Len(W) - 2
    BY <1>6
  <2> QED BY <2>1, <2>2 DEF ModeAt
<1>9. CASE window \in 1 .. 5
  BY <1>1, <1>3, <1>4, <1>5, <1>9, LeadStep
<1>10. CASE window \in 6 .. FirstTile(job.op) - 1
  <2>1. window \in 6 .. AfterTiles(job, T)
    BY <1>6, <1>10
  <2>2. ShortIdle /\ u.mode # "SB"
    BY <1>8, <2>1 DEF WholeElts
  <2> QED BY <1>1, <1>3, <1>4, <1>5, <1>10, <2>2, LoadStep
<1>11. CASE window \in FirstTile(job.op) .. AfterTiles(job, T) - 1
  BY <1>1, <1>3, <1>4, <1>5, <1>11, TilesStep
<1>12. CASE window >= AfterTiles(job, T)
  <2>1. window = AfterTiles(job, T) => u.mode # "SB"
    BY <1>6, <1>8
  <2> QED BY <1>1, <1>2, <1>3, <1>4, <1>5, <1>12, <2>1, LeaveStep
<1> QED BY <1>6, <1>7, <1>9, <1>10, <1>11, <1>12

\* The registers of a unit that nobody knows.
LEMMA UnknownRegs ==
  ASSUME NEW mode, NEW ab
  PROVE  RegsOK(UnitInit) /\ RegsOK([UnitInit EXCEPT !.mode = mode, !.ab = ab])
<1>1. DOMAIN Regs = Lanes
  BY DEF Regs, Lanes
<1>2. PICK r, j, e : r = Regs /\ j = NoJump /\ e = << >>
  OBVIOUS
<1>3. UnitInit = [mode |-> "SB", ab |-> 0, crf |-> e, pc |-> 0, rep |-> 0,
                  jump |-> j, GRF_A |-> r, GRF_B |-> r, srf |-> FALSE]
  BY <1>2 DEF UnitInit
<1> QED BY <1>1, <1>2, <1>3 DEF RegsOK, UnitFields

\* A step keeps EltInv.
LEMMA EltInvStep ==
  ASSUME WholeElts, TypeInv, EltInv, [Next]_vars
  PROVE  EltInv'
<1>1. ASSUME NEW j \in Jobs, LaunchElt(j) PROVE EltInv'
  BY <1>1, EltStarts DEF LaunchElt, EltInv
<1>2. ASSUME NEW j \in Jobs, ConvertWeight(j) PROVE EltInv'
  BY <1>2 DEF ConvertWeight, EltInv
<1>3. CASE Converting
  BY <1>3 DEF Converting, EltInv
<1>4. CASE LaunchGemm
  <2>1. job \in Jobs
    BY <1>4 DEF LaunchGemm, TypeInv
  <2> QED BY <1>4, <2>1, EltStarts DEF LaunchGemm, EltInv
<1>5. CASE Access
  <2>1. stage' = "run" /\ job' = job
    BY <1>5 DEF Access
  <2>2. ~IsGemm(job) => EltAt(job, NumTile(job), window', pending', u', mem')
    BY <1>5, EltAccess
  <2> QED BY <2>1, <2>2 DEF EltInv
<1>6. CASE Finish
  <2>1. stage = "run" /\ stage' = "done" /\ job' = job /\ mem' = mem
    BY <1>6 DEF Finish
  <2>2. ASSUME ~IsGemm(job) PROVE MemFinal(job, NumTile(job), mem)
    <3>1. PICK W, T : W = Windows(job, at) /\ T = NumTile(job)
      OBVIOUS
    <3>2. job \in Jobs /\ PendingAt(W, window, code, pending)
      BY <2>1, <3>1 DEF TypeInv, ModeInv
    <3>3. OfJob(W, job, T)
      BY <2>2, <3>1, <3>2, KernelOfJob
    <3>4. Len(W) = AfterTiles(job, T) + 2 /\ AfterTiles(job, T) \in Nat
      BY <3>3, WindowNumbers
    <3>5. window > AfterTiles(job, T)
      BY <1>6, <3>2, <3>4 DEF Finish, PendingAt
    <3> QED BY <2>1, <2>2, <3>1, <3>5 DEF EltInv, EltAt
  <2> QED BY <2>1, <2>2 DEF EltInv
<1>7. CASE Return
  <2>1. stage' = "idle" /\ u' = [UnitInit EXCEPT !.mode = u.mode, !.ab = u.ab]
    BY <1>7 DEF Return
  <2>2. RegsOK(u')
    BY <2>1, UnknownRegs
  <2> QED BY <2>1, <2>2 DEF EltInv
<1>8. CASE UNCHANGED vars
  BY <1>8 DEF vars, EltInv
<1> QED BY <1>1, <1>2, <1>3, <1>4, <1>5, <1>6, <1>7, <1>8 DEF Next

\* The invariants hold of every state.
LEMMA EltInvHolds == ASSUME WholeElts PROVE Spec => [](TypeInv /\ EltInv)
<1>1. Init => TypeInv /\ EltInv
  <2> SUFFICES ASSUME Init PROVE TypeInv /\ EltInv
    OBVIOUS
  <2>1. TypeInv
    BY TypeInit
  <2>2. EltInv
    BY UnknownRegs DEF Init, EltInv
  <2> QED BY <2>1, <2>2
<1>2. TypeInv /\ EltInv /\ [Next]_vars => (TypeInv /\ EltInv)'
  BY TypeInvStep, EltInvStep
<1> QED BY <1>1, <1>2, PTL DEF Spec

\* Half of the registers of all pairs of columns.
LEMMA HalfOfPairs == ASSUME NEW T \in Nat, NEW g \in Nat PROVE ((2 * T) * g) \div 2 = T * g
<1>1. PICK x \in Nat : x = T * g
  BY MulNat
<1>2. (2 * T) * g = 2 * x
  BY <1>1
<1>3. (2 * x) \div 2 = x
  BY <1>1
<1> QED BY <1>1, <1>2, <1>3, Zenon

\* Every elementwise operation, of any number of whole tiles and in place too, leaves
\* its result in all of its output, in whatever order the memory takes the accesses
\* between two fences.
THEOREM EltRight == ASSUME WholeElts PROVE Spec => []EltResult
<1>1. TypeInv /\ EltInv => EltResult
  <2> SUFFICES ASSUME TypeInv, EltInv, stage = "done", ~IsGemm(job), NEW d \in DOMAIN mem
               PROVE  mem[d] = IF d[2] < (job.size * NumGrf) \div 2 THEN EltValue(job, d)
                               ELSE <<job.out, d[1], d[2]>>
    BY DEF EltResult
  <2>1. job \in Jobs
    BY DEF TypeInv
  <2>2. PICK T : Whole(job, T)
    BY <2>1 DEF WholeElts
  <2>3. job.op \in EltOps
    BY <2>1, JobsAssumption DEF IsGemm, EltOps
  <2>4. NumTile(job) = T /\ T \in Nat /\ job.size = 2 * T
    BY <2>2, <2>3, WholeNumbers DEF Whole
  <2>5. DOMAIN mem = Places(T) /\ mem[d] = EltValue(job, d)
    BY <2>4 DEF EltInv, MemFinal
  <2>6. (job.size * NumGrf) \div 2 = T * NumGrf
    BY <2>4, HalfOfPairs, GeometryAssumption
  <2>7. d[2] \in 0 .. T * NumGrf - 1
    <3>1. PICK D : D = 0 .. T * NumGrf - 1
      OBVIOUS
    <3>2. d \in {0, 1} \X D
      BY <2>5, <3>1, Zenon DEF Places
    <3>3. d[2] \in D
      BY <3>2
    <3> QED BY <3>1, <3>3, Zenon
  <2>8. d[2] < T * NumGrf
    <3>1. PICK x \in Nat : x = T * NumGrf
      BY <2>4, MulNat, GeometryAssumption
    <3> QED BY <2>7, <3>1
  <2> QED BY <2>5, <2>6, <2>8
<1> QED BY <1>1, EltInvHolds, PTL

\* The instruction an access of a tile executes.
LEMMA TileFetches ==
  ASSUME NEW j, j.op \in EltOps, NEW T, NEW w, NEW P, NEW v, NEW m, NEW t, NEW i,
         InTile(j, T, w, P, v, m, t, i)
  PROVE  Fetch(v).type \notin {"EXIT", "?"}
<1>1. i \in 0 .. TileLen(j.op) - 1 /\ TileControl(v, j.op, T - 1, t, i, P)
  BY Zenon DEF InTile, TileAt
<1>2. PICK lc : lc = T - 1
  OBVIOUS
<1>3. Loaded(v.crf, j.op, lc) /\ v.pc = PcOf(i)
  BY <1>1, <1>2, Zenon DEF TileControl, ControlAt
<1>4. v.pc \in 0 .. BodyLen(j.op) - 1
  BY <1>1, <1>3, PcInBody
<1>5. Fetch(v) = Decoded(j.op)[v.pc + 1]
  BY <1>3, <1>4, FetchIs
<1>6. IsIns(Decoded(j.op)[v.pc + 1], j.op, v.pc)
  BY <1>4, DecodedIns
<1> QED BY <1>5, <1>6 DEF IsIns

\* In an elementwise kernel, program and kernel agree on the number of commands.
THEOREM EltInStep == ASSUME WholeElts PROVE Spec => [](~IsGemm(job) => InStep)
<1>1. TypeInv /\ EltInv => (~IsGemm(job) => InStep)
  <2> SUFFICES ASSUME TypeInv, EltInv, ~IsGemm(job), stage = "run", u.mode = "HAB_PIM", NEW p \in pending
               PROVE  /\ code[p[1]].k \in {"R", "W"} => Fetch(u).type \notin {"EXIT", "?"}
                      /\ code[p[1]].k = "HAB" => Fetch(u).type = "EXIT"
    BY DEF InStep
  <2>1. PICK W, T : W = Windows(job, at) /\ T = NumTile(job)
    OBVIOUS
  <2>2. job \in Jobs /\ ModeAt(W, window, u.mode, u.ab) /\ PendingAt(W, window, code, pending)
    BY <2>1 DEF TypeInv, ModeInv
  <2>3. OfJob(W, job, T)
    BY <2>1, <2>2, KernelOfJob
  <2>4. EltAt(job, T, window, pending, u, mem) /\ job.op \in EltOps
    BY <2>1, <2>3 DEF EltInv, OfJob
  <2>5. FirstTile(job.op) \in {7, 8} /\ AfterTiles(job, T) \in Nat /\ AfterTiles(job, T) > FirstTile(job.op)
        /\ Len(W) = AfterTiles(job, T) + 2
    BY <2>3, WindowNumbers
  <2>6. window \in 1 .. Len(W) + 1 /\ window \notin 1 .. 5 /\ window # Len(W) /\ window # Len(W) + 1
        /\ window # Len(W) - 1
    <3>1. window \in 1 .. Len(W) + 1
      BY <2>2 DEF PendingAt
    <3>2. window \notin {1, Len(W), Len(W) + 1} /\ window \notin 2 .. 5 /\ window # Len(W) - 1
      BY <2>2 DEF ModeAt
    <3> QED BY <3>1, <3>2
  <2>7. window \in 6 .. AfterTiles(job, T)
    BY <2>5, <2>6
  <2>8. code = W[window] /\ p[1] \in DOMAIN W[window]
    BY <2>2, <2>5, <2>7 DEF PendingAt
  <2>9. CASE window \in 6 .. FirstTile(job.op) - 1
    <3>1. window - 5 \in 1 .. FirstTile(job.op) - 6 /\ 5 + (window - 5) = window
      BY <2>5, <2>9
    <3>2. W[window] = Setup(job)[window - 5]
      BY <2>3, <3>1 DEF OfJob, EltIs
    <3>3. IsSetup(code[p[1]], Words(job))
      BY <2>4, <2>8, <3>1, <3>2, SetupIs
    <3> QED BY <3>3 DEF IsSetup
  <2>10. CASE window \in FirstTile(job.op) .. AfterTiles(job, T) - 1
    <3>1. PICK t, i : InTile(job, T, window, pending, u, mem, t, i)
      BY <2>4, <2>10, Zenon DEF EltAt
    <3>2. Fetch(u).type \notin {"EXIT", "?"}
      BY <2>4, <3>1, TileFetches
    <3>3. /\ t \in 0 .. T - 1 /\ i \in 0 .. TileLen(job.op) - 1
          /\ window = FirstTile(job.op) + t * TileLen(job.op) + i
      BY <3>1, Zenon DEF InTile, TileAt
    <3>4. W[window] = TileWin(job, t * NumGrf, i)
      BY <2>3, <3>3, AtTile
    <3>5. p[1] \in 1 .. Count(job.op, i) /\ code[p[1]] = TileAccess(job, t * NumGrf, i, p[1])
      <4>1. PICK g : g = t * NumGrf
        OBVIOUS
      <4>2. DOMAIN TileWin(job, g, i) = 1 .. Count(job.op, i)
            /\ \A n \in 1 .. Count(job.op, i) : TileWin(job, g, i)[n] = TileAccess(job, g, i, n)
        BY <2>4, WindowPairs
      <4>3. p[1] \in DOMAIN TileWin(job, g, i) /\ code[p[1]] = TileWin(job, g, i)[p[1]]
        BY <2>8, <3>4, <4>1, Zenon
      <4> QED BY <4>1, <4>2, <4>3, Zenon
    <3>6. code[p[1]].k # "HAB"
      BY <3>5 DEF TileAccess, KindOf
    <3> QED BY <3>2, <3>6
  <2>11. CASE window = AfterTiles(job, T)
    <3>1. W[window] = <<[k |-> "HAB", lanes |-> {0, 1}]>>
      BY <2>3, <2>11 DEF OfJob, EltIs, AfterTiles
    <3>2. code[p[1]].k = "HAB"
      BY <2>8, <3>1
    <3>3. Ended(u, job.op, T - 1)
      BY <2>4, <2>11 DEF EltAt
    <3>4. PICK lc : lc = T - 1
      OBVIOUS
    <3>5. Loaded(u.crf, job.op, lc) /\ u.pc = BodyLen(job.op) + 1
      BY <3>3, <3>4, Zenon DEF Ended
    <3>6. Fetch(u) = Exit
      BY <2>4, <3>5, FetchIs
    <3>7. Exit.type = "EXIT"
      BY PlainTypes DEF Exit
    <3> QED BY <3>2, <3>6, <3>7
  <2> QED BY <2>5, <2>7, <2>9, <2>10, <2>11
<1> QED BY <1>1, EltInvHolds, PTL

=============================================================================
