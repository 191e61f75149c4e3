--------------------------- MODULE PimTraceProofs ---------------------------
(***************************************************************************)
(* Proofs about PimTrace: the simulator gets the commands the kernel made, *)
(* for any number of blocks, tiles and exchanged halves, if no kernel      *)
(* records more than half a row.                                           *)
(***************************************************************************)
EXTENDS PimTrace, WellFoundedInduction, TLAPS

-----------------------------------------------------------------------------
(* The expected commands and what a kernel records are joined by           *)
(* FlattenSeq. It is defined by a recursive function, so what it yields is *)
(* proved by induction over the naturals, stated for a set instead of a    *)
(* predicate.                                                              *)

\* Induction over the naturals, with the predicate given as the set of the
\* numbers it holds of.
LEMMA NatSetInduction ==
  ASSUME NEW T, 0 \in T, \A n \in Nat : n \in T => n + 1 \in T
  PROVE  Nat \subseteq T
<1> SUFFICES ASSUME Nat \ T # {} PROVE FALSE
  OBVIOUS
<1>1. PICK R : R = OpToRel(<, Nat)
  OBVIOUS
<1>2. IsWellFoundedOn(R, Nat)
  BY <1>1, NatLessThanWellFounded
<1>3. PICK x \in Nat \ T : \A y \in Nat \ T : ~(<<y, x>> \in R)
  BY <1>2, WFMin
<1>4. x # 0 /\ x - 1 \in Nat
  OBVIOUS
<1>5. x - 1 \notin T
  BY <1>3, <1>4
<1>6. <<x - 1, x>> \in R
  BY <1>1, <1>4 DEF OpToRel
<1> QED BY <1>3, <1>4, <1>5, <1>6

\* f is the function FlattenSeq chooses: its k-th value joins the first k pieces.
IsFlat(s, n, f) ==
  f = [k \in 1 .. n |-> IF k = 1 THEN s[k] ELSE f[k - 1] \o s[k]]

\* The recursion FlattenSeq chooses its function by has a solution, for any
\* number of pieces.
LEMMA FlatExists ==
  ASSUME NEW s, NEW n \in Nat
  PROVE  \E f : IsFlat(s, n, f)
<1>1. PICK T : T = {m \in Nat : \E f : IsFlat(s, m, f)}
  OBVIOUS
<1>2. 0 \in T
  <2>1. PICK e : e = [k \in 1 .. 0 |-> 0]
    OBVIOUS
  <2>2. IsFlat(s, 0, e)
    BY <2>1 DEF IsFlat
  <2> QED BY <1>1, <2>2
<1>3. ASSUME NEW m \in Nat, m \in T PROVE m + 1 \in T
  <2>1. PICK f : IsFlat(s, m, f)
    BY <1>1, <1>3
  <2>2. \A k \in 1 .. m : f[k] = IF k = 1 THEN s[k] ELSE f[k - 1] \o s[k]
    BY <2>1, Zenon DEF IsFlat
  <2>3. PICK g : g = [k \in 1 .. m + 1 |-> IF k <= m THEN f[k] ELSE IF k = 1 THEN s[k] ELSE f[k - 1] \o s[k]]
    OBVIOUS
  <2>4. ASSUME NEW k \in 1 .. m + 1
        PROVE  g[k] = IF k = 1 THEN s[k] ELSE g[k - 1] \o s[k]
    <3>1. CASE k = 1
      BY <3>1, <2>2, <2>3
    <3>2. CASE k # 1
      <4>1. g[k - 1] = f[k - 1]
        BY <3>2, <2>3
      <4>2. CASE k <= m
        <5>1. k \in 1 .. m /\ g[k] = f[k]
          BY <4>2, <2>3
        <5>2. f[k] = f[k - 1] \o s[k]
          BY <5>1, <3>2, <2>2, Zenon
        <5> QED BY <4>1, <3>2, <5>1, <5>2, Zenon
      <4>3. CASE ~(k <= m)
        BY <4>1, <4>3, <3>2, <2>3
      <4> QED BY <4>2, <4>3
    <3> QED BY <3>1, <3>2
  <2>5. g = [k \in 1 .. m + 1 |-> g[k]]
    BY <2>3, Zenon
  <2>6. g = [k \in 1 .. m + 1 |-> IF k = 1 THEN s[k] ELSE g[k - 1] \o s[k]]
    BY <2>4, <2>5, Zenon
  <2>7. IsFlat(s, m + 1, g)
    BY <2>6, Zenon DEF IsFlat
  <2> QED BY <1>1, <2>7
<1> QED BY <1>1, <1>2, <1>3, NatSetInduction

\* So FlattenSeq(s) is the last value of that function.
LEMMA FlatRec ==
  ASSUME NEW s, Len(s) # 0, Len(s) \in Nat
  PROVE  \E f : IsFlat(s, Len(s), f) /\ FlattenSeq(s) = f[Len(s)]
<1> DEFINE g == CHOOSE f : IsFlat(s, Len(s), f)
<1>1. IsFlat(s, Len(s), g)
  BY FlatExists
<1>2. FlattenSeq(s) = g[Len(s)]
  BY Zenon DEF FlattenSeq, IsFlat
<1> QED BY <1>1, <1>2, Zenon

\* s is a sequence, whatever its elements.
IsSeq(s) == s \in Seq(Range(s))

\* A sequence over any set is one over its own elements.
LEMMA SeqIsSeq ==
  ASSUME NEW S, NEW s \in Seq(S)
  PROVE  IsSeq(s) /\ Len(s) \in Nat /\ DOMAIN s = 1 .. Len(s)
BY DEF IsSeq, Range

\* The length and the elements of s \o t.
LEMMA ConcatIsSeq ==
  ASSUME NEW s, IsSeq(s), NEW t, IsSeq(t)
  PROVE  /\ IsSeq(s \o t) /\ Len(s) \in Nat /\ Len(t) \in Nat
         /\ Len(s \o t) = Len(s) + Len(t)
         /\ \A x \in 1 .. Len(s) : (s \o t)[x] = s[x]
         /\ \A x \in 1 .. Len(t) : (s \o t)[Len(s) + x] = t[x]
<1>1. s \in Seq(Range(s) \cup Range(t)) /\ t \in Seq(Range(s) \cup Range(t))
  BY DEF IsSeq
<1>2. PICK S : S = Range(s) \cup Range(t)
  OBVIOUS
<1>3. s \in Seq(S) /\ t \in Seq(S)
  BY <1>1, <1>2
<1>4. s \o t \in Seq(S)
  BY <1>3
<1>5. IsSeq(s \o t)
  BY <1>4, SeqIsSeq
<1> QED BY <1>3, <1>5

\* h is s and then t.
Joins(h, s, t) ==
  /\ IsSeq(h) /\ Len(s) \in Nat /\ Len(t) \in Nat /\ Len(h) = Len(s) + Len(t)
  /\ \A x \in 1 .. Len(s) : h[x] = s[x]
  /\ \A x \in 1 .. Len(t) : h[Len(s) + x] = t[x]

\* The same as one fact about the result.
LEMMA ConcatJoins ==
  ASSUME NEW s, IsSeq(s), NEW t, IsSeq(t)
  PROVE  Joins(s \o t, s, t)
<1>1. PICK h : h = s \o t
  OBVIOUS
<1>2. /\ IsSeq(h) /\ Len(s) \in Nat /\ Len(t) \in Nat /\ Len(h) = Len(s) + Len(t)
      /\ \A x \in 1 .. Len(s) : h[x] = s[x]
      /\ \A x \in 1 .. Len(t) : h[Len(s) + x] = t[x]
  BY <1>1, ConcatIsSeq
<1> QED BY <1>1, <1>2, Zenon DEF Joins

\* Concatenation is associative.
LEMMA ConcatAssoc ==
  ASSUME NEW s, IsSeq(s), NEW t, IsSeq(t), NEW v, IsSeq(v)
  PROVE  (s \o t) \o v = s \o (t \o v)
<1>1. PICK S : S = Range(s) \cup Range(t) \cup Range(v)
  OBVIOUS
<1>2. s \in Seq(S) /\ t \in Seq(S) /\ v \in Seq(S)
  BY <1>1 DEF IsSeq
<1> QED BY <1>2

\* Two sequences of one element make a pair.
LEMMA ConcatPair ==
  ASSUME NEW a, NEW b
  PROVE  <<a>> \o <<b>> = <<a, b>>
<1>1. PICK S, s, t, h : S = {a, b} /\ s = <<a>> /\ t = <<b>> /\ h = s \o t
  OBVIOUS
<1>2. s \in Seq(S) /\ t \in Seq(S) /\ Len(s) = 1 /\ Len(t) = 1 /\ s[1] = a /\ t[1] = b
  BY <1>1
<1>3. h \in Seq(S) /\ Len(h) = 2 /\ h[1] = a /\ h[2] = b
  BY <1>1, <1>2
<1>4. h = <<h[1], h[2]>>
  BY <1>3
<1> QED BY <1>1, <1>3, <1>4

\* s and t agree on their first n pieces.
SameUpTo(s, t, n) == \A k \in 1 .. n : s[k] = t[k]

\* The recursion's values depend on the pieces up to there, and on nothing
\* else.
LEMMA FlatUnique ==
  ASSUME NEW s, NEW t, NEW n \in Nat, NEW m \in Nat, m <= n, NEW f, NEW g,
         IsFlat(s, n, f), IsFlat(t, m, g), SameUpTo(s, t, m)
  PROVE  SameUpTo(f, g, m)
<1>1. /\ \A k \in 1 .. n : f[k] = IF k = 1 THEN s[k] ELSE f[k - 1] \o s[k]
      /\ \A k \in 1 .. m : g[k] = IF k = 1 THEN t[k] ELSE g[k - 1] \o t[k]
  BY Zenon DEF IsFlat
<1>2. PICK T : T = {k \in Nat : k \in 1 .. m => f[k] = g[k]}
  OBVIOUS
<1>3. 0 \in T
  BY <1>2
<1>4. ASSUME NEW k \in Nat, k \in T PROVE k + 1 \in T
  <2> SUFFICES ASSUME k + 1 \in 1 .. m PROVE f[k + 1] = g[k + 1]
    BY <1>2
  <2>1. k + 1 \in 1 .. n /\ s[k + 1] = t[k + 1]
    BY DEF SameUpTo
  <2>2. CASE k = 0
    BY <2>1, <2>2, <1>1
  <2>3. CASE k # 0
    <3>1. k \in 1 .. m /\ k + 1 # 1 /\ (k + 1) - 1 = k
      BY <2>3
    <3>2. f[k] = g[k]
      BY <3>1, <1>2, <1>4
    <3>3. f[k + 1] = f[(k + 1) - 1] \o s[k + 1] /\ g[k + 1] = g[(k + 1) - 1] \o t[k + 1]
      BY <2>1, <3>1, <1>1, Zenon
    <3> QED BY <2>1, <3>1, <3>2, <3>3
  <2> QED BY <2>2, <2>3
<1>5. Nat \subseteq T
  BY <1>3, <1>4, NatSetInduction
<1> QED BY <1>2, <1>5 DEF SameUpTo

\* FlattenSeq of one more piece: what it was, and the piece.
LEMMA FlattenSnoc ==
  ASSUME NEW S, NEW s \in Seq(Seq(S)), NEW b \in Seq(S)
  PROVE  FlattenSeq(Append(s, b)) = FlattenSeq(s) \o b
<1>1. PICK t, n : t = Append(s, b) /\ n = Len(s)
  OBVIOUS
<1>2. /\ n \in Nat /\ t \in Seq(Seq(S)) /\ Len(t) = n + 1 /\ t[n + 1] = b
      /\ \A k \in 1 .. n : t[k] = s[k]
  BY <1>1
<1>3. PICK f : IsFlat(t, n + 1, f) /\ FlattenSeq(t) = f[n + 1]
  <2>1. Len(t) \in Nat /\ Len(t) # 0 /\ Len(t) = n + 1
    BY <1>2
  <2>2. \E f : IsFlat(t, Len(t), f) /\ FlattenSeq(t) = f[Len(t)]
    BY <2>1, FlatRec, Zenon
  <2> QED BY <2>1, <2>2, Zenon
<1>4. \A k \in 1 .. n + 1 : f[k] = IF k = 1 THEN t[k] ELSE f[k - 1] \o t[k]
  BY <1>3, Zenon DEF IsFlat
<1>5. CASE n = 0
  <2>1. FlattenSeq(s) = << >>
    <3>0. PICK Q : Q = Seq(S)
      OBVIOUS
    <3>1. s \in Seq(Q) /\ Len(s) = 0
      BY <1>1, <1>5, <3>0
    <3>2. s = << >>
      BY <3>1
    <3> QED BY <3>1, <3>2, Zenon DEF FlattenSeq
  <2>2. f[n + 1] = b
    BY <1>2, <1>4, <1>5
  <2>3. << >> \o b = b
    OBVIOUS
  <2> QED BY <1>1, <1>3, <2>1, <2>2, <2>3
<1>6. CASE n # 0
  <2>1. PICK g : IsFlat(s, n, g) /\ FlattenSeq(s) = g[n]
    BY <1>1, <1>2, <1>6, FlatRec
  <2>2. f[n] = g[n]
    <3>1. n + 1 \in Nat /\ n <= n + 1 /\ n \in 1 .. n
      BY <1>2, <1>6
    <3>2. SameUpTo(f, g, n)
      <4>1. PICK m \in Nat : m = n + 1 /\ n <= m
        BY <3>1
      <4>2. IsFlat(t, m, f) /\ IsFlat(s, n, g) /\ SameUpTo(t, s, n)
        BY <1>2, <1>3, <2>1, <4>1 DEF SameUpTo
      <4> QED BY <1>2, <4>1, <4>2, FlatUnique
    <3> QED BY <3>1, <3>2, Zenon DEF SameUpTo
  <2>3. n + 1 \in 1 .. n + 1 /\ n + 1 # 1 /\ (n + 1) - 1 = n
    BY <1>2, <1>6
  <2>4. f[n + 1] = f[(n + 1) - 1] \o t[n + 1]
    BY <1>4, <2>3, Zenon
  <2> QED BY <1>1, <1>2, <1>3, <2>1, <2>2, <2>3, <2>4
<1> QED BY <1>2, <1>5, <1>6

\* No pieces flatten to nothing.
LEMMA FlattenEmpty == FlattenSeq(<< >>) = << >>
<1>1. Len(<< >>) = 0
  OBVIOUS
<1> QED BY <1>1, Zenon DEF FlattenSeq

\* The pieces 1 .. n of s, one by one.
IsFamily(s, n) == s = [m \in 1 .. n |-> s[m]] /\ \A m \in 1 .. n : IsSeq(s[m])

\* Pieces that are sequences flatten to one.
LEMMA FlattenIsSeq ==
  ASSUME NEW n \in Nat, NEW s, IsFamily(s, n)
  PROVE  IsSeq(FlattenSeq(s))
<1>0. s = [x \in 1 .. n |-> s[x]] /\ \A x \in 1 .. n : IsSeq(s[x])
  BY Zenon DEF IsFamily
<1>1. PICK S : S = UNION {Range(s[x]) : x \in 1 .. n}
  OBVIOUS
<1>2. ASSUME NEW x \in 1 .. n PROVE s[x] \in Seq(S)
  <2>1. PICK b : b = s[x]
    OBVIOUS
  <2>2. b \in Seq(Range(b)) /\ Range(b) \subseteq S
    BY <1>0, <1>1, <2>1 DEF IsSeq
  <2>3. b \in Seq(S)
    BY <2>2
  <2> QED BY <2>1, <2>3
<1>3. PICK Q : Q = Seq(S)
  OBVIOUS
<1>4. s \in [1 .. n -> Q] /\ s \in Seq(Q) /\ Len(s) = n
  <2>1. \A x \in 1 .. n : s[x] \in Q
    BY <1>2, <1>3
  <2> QED BY <1>0, <2>1
<1>5. FlattenSeq(s) \in Seq(S)
  <2>1. CASE n = 0
    <3>1. s = << >> /\ Len(s) = 0
      BY <1>4, <2>1
    <3>2. FlattenSeq(s) = << >>
      BY <3>1, Zenon DEF FlattenSeq
    <3> QED BY <3>2
  <2>2. CASE n # 0
    <3>1. PICK f : IsFlat(s, n, f) /\ FlattenSeq(s) = f[n]
      BY <1>4, <2>2, FlatRec
    <3>2. \A k \in 1 .. n : f[k] = IF k = 1 THEN s[k] ELSE f[k - 1] \o s[k]
      BY <3>1, Zenon DEF IsFlat
    <3>3. PICK T : T = {k \in Nat : k \in 1 .. n => f[k] \in Seq(S)}
      OBVIOUS
    <3>4. 0 \in T
      BY <3>3
    <3>5. ASSUME NEW k \in Nat, k \in T PROVE k + 1 \in T
      <4> SUFFICES ASSUME k + 1 \in 1 .. n PROVE f[k + 1] \in Seq(S)
        BY <3>3
      <4>1. CASE k = 0
        BY <1>2, <3>2, <4>1
      <4>2. CASE k # 0
        <5>1. k + 1 \in 1 .. n /\ k + 1 # 1 /\ (k + 1) - 1 = k /\ k \in 1 .. n
          BY <4>2
        <5>2. f[k + 1] = f[(k + 1) - 1] \o s[k + 1]
          BY <5>1, <3>2, Zenon
        <5>3. f[k] \in Seq(S) /\ s[k + 1] \in Seq(S)
          BY <5>1, <1>2, <3>3, <3>5
        <5> QED BY <5>1, <5>2, <5>3
      <4> QED BY <4>1, <4>2
    <3>6. n \in T
      BY <3>4, <3>5, NatSetInduction
    <3> QED BY <2>2, <3>1, <3>3, <3>6
  <2> QED BY <2>1, <2>2
<1> QED BY <1>5, SeqIsSeq

\* One more piece.
LEMMA FlattenStep ==
  ASSUME NEW n \in Nat, NEW s, NEW t, IsFamily(s, n + 1), IsFamily(t, n), SameUpTo(s, t, n)
  PROVE  FlattenSeq(s) = FlattenSeq(t) \o s[n + 1] /\ IsSeq(FlattenSeq(t)) /\ IsSeq(s[n + 1])
<1>0. /\ s = [m \in 1 .. n + 1 |-> s[m]] /\ t = [m \in 1 .. n |-> t[m]]
      /\ \A m \in 1 .. n + 1 : IsSeq(s[m])
      /\ \A m \in 1 .. n : IsSeq(t[m]) /\ s[m] = t[m]
  BY Zenon DEF IsFamily, SameUpTo
<1>same. \A m \in 1 .. n : s[m] = t[m]
  BY Zenon DEF SameUpTo
<1>1. PICK S : S = UNION {Range(s[m]) : m \in 1 .. n + 1}
  OBVIOUS
<1>2. ASSUME NEW m \in 1 .. n + 1 PROVE s[m] \in Seq(S)
  <2>1. PICK b : b = s[m]
    OBVIOUS
  <2>2. b \in Seq(Range(b)) /\ Range(b) \subseteq S
    BY <1>0, <1>1, <2>1 DEF IsSeq
  <2>3. b \in Seq(S)
    BY <2>2
  <2> QED BY <2>1, <2>3
<1>3. PICK Q : Q = Seq(S)
  OBVIOUS
<1>4. /\ s \in [1 .. n + 1 -> Q] /\ t \in [1 .. n -> Q]
  <2>1. \A m \in 1 .. n + 1 : s[m] \in Q
    BY <1>2, <1>3
  <2>2. \A m \in 1 .. n : t[m] \in Q
    BY <2>1, <1>same
  <2> QED BY <2>1, <2>2, <1>0
<1>5. PICK b : b = s[n + 1] /\ b \in Q
  BY <1>4
<1>6. s \in Seq(Q) /\ t \in Seq(Q) /\ Len(s) = n + 1 /\ Len(t) = n
  BY <1>4
<1>7. s = Append(t, b)
  <2>1. PICK u : u = Append(t, b)
    OBVIOUS
  <2>2. u \in Seq(Q) /\ Len(u) = n + 1 /\ u[n + 1] = b /\ \A m \in 1 .. n : u[m] = t[m]
    BY <2>1, <1>5, <1>6
  <2>3. \A m \in 1 .. n + 1 : u[m] = s[m]
    BY <2>2, <1>same, <1>5
  <2> QED BY <2>1, <2>2, <2>3, <1>6
<1>8. FlattenSeq(s) = FlattenSeq(t) \o b
  BY <1>3, <1>5, <1>6, <1>7, FlattenSnoc
<1>9. IsSeq(FlattenSeq(t))
  BY FlattenIsSeq
<1>10. IsSeq(s[n + 1])
  BY <1>0
<1> QED BY <1>5, <1>8, <1>9, <1>10

\* The first n pieces of s.
Pieces(s, n) == [m \in 1 .. n |-> s[m]]

\* What f looks like when it is n pairs, one after another.
IsPairs(f, s, n) ==
  /\ IsSeq(f) /\ Len(f) = 2 * n
  /\ \A m \in 1 .. n : f[2 * m - 1] = s[m][1] /\ f[2 * m] = s[m][2]

\* Pairs, flattened.
LEMMA FlattenPairs ==
  ASSUME NEW N \in Nat, NEW s, IsFamily(s, N), \A m \in 1 .. N : Len(s[m]) = 2
  PROVE  IsPairs(FlattenSeq(s), s, N)
<1>0. s = Pieces(s, N) /\ \A m \in 1 .. N : IsSeq(s[m])
  BY Zenon DEF IsFamily, Pieces
<1>len. \A m \in 1 .. N : Len(s[m]) = 2
  OBVIOUS
<1>is. \A m \in 1 .. N : IsSeq(s[m])
  BY <1>0
<1>1. PICK T : T = {n \in Nat : n <= N => IsPairs(FlattenSeq(Pieces(s, n)), s, n)}
  OBVIOUS
<1>2. 0 \in T
  <2>1. Pieces(s, 0) = << >>
    BY DEF Pieces
  <2>2. FlattenSeq(Pieces(s, 0)) = << >>
    BY <2>1, FlattenEmpty
  <2>3. IsPairs(<< >>, s, 0)
    BY DEF IsPairs, IsSeq
  <2> QED BY <1>1, <2>2, <2>3
<1>3. ASSUME NEW n \in Nat, n \in T PROVE n + 1 \in T
  <2> SUFFICES ASSUME n + 1 <= N PROVE IsPairs(FlattenSeq(Pieces(s, n + 1)), s, n + 1)
    BY <1>1
  <2>1. PICK t, u, f, g, p : /\ t = Pieces(s, n) /\ u = Pieces(s, n + 1) /\ p = s[n + 1]
                             /\ f = FlattenSeq(t) /\ g = FlattenSeq(u)
    OBVIOUS
  <2>2. IsPairs(f, s, n)
    BY <1>1, <1>3, <2>1
  <2>3. /\ \A m \in 1 .. n + 1 : u[m] = s[m]
        /\ \A m \in 1 .. n : t[m] = s[m]
    BY <2>1 DEF Pieces
  <2>4. IsFamily(u, n + 1) /\ IsFamily(t, n) /\ SameUpTo(u, t, n)
    <3>1. u = [m \in 1 .. n + 1 |-> u[m]] /\ t = [m \in 1 .. n |-> t[m]]
      BY <2>1 DEF Pieces
    <3>2. \A m \in 1 .. n + 1 : IsSeq(u[m])
      BY <2>3, <1>is
    <3>3. \A m \in 1 .. n : IsSeq(t[m]) /\ u[m] = t[m]
      BY <2>3, <1>is
    <3> QED BY <3>1, <3>2, <3>3, Zenon DEF IsFamily, SameUpTo
  <2>5. g = f \o p /\ IsSeq(f) /\ IsSeq(p) /\ Len(p) = 2
    <3>1. FlattenSeq(u) = FlattenSeq(t) \o u[n + 1] /\ IsSeq(FlattenSeq(t)) /\ IsSeq(u[n + 1])
      BY <2>4, FlattenStep
    <3>2. n + 1 \in 1 .. n + 1 /\ n + 1 \in 1 .. N
      OBVIOUS
    <3>3. u[n + 1] = p /\ Len(p) = 2
      BY <3>2, <2>1, <2>3, <1>len
    <3> QED BY <3>1, <3>3, <2>1
  <2>6. Joins(g, f, p)
    BY <2>5, ConcatJoins
  <2>7. IsSeq(g) /\ Len(g) = 2 * (n + 1) /\ Len(f) = 2 * n
    BY <2>2, <2>5, <2>6 DEF Joins, IsPairs
  <2>8. ASSUME NEW m \in 1 .. n + 1 PROVE g[2 * m - 1] = s[m][1] /\ g[2 * m] = s[m][2]
    <3>1. CASE m <= n
      <4>1. m \in 1 .. n /\ 2 * m - 1 \in 1 .. Len(f) /\ 2 * m \in 1 .. Len(f)
        BY <3>1, <2>7
      <4>2. g[2 * m - 1] = f[2 * m - 1] /\ g[2 * m] = f[2 * m]
        BY <4>1, <2>6 DEF Joins
      <4> QED BY <4>1, <4>2, <2>2 DEF IsPairs
    <3>2. CASE ~(m <= n)
      <4>1. m = n + 1 /\ 2 * m - 1 = Len(f) + 1 /\ 2 * m = Len(f) + 2
        BY <3>2, <2>7
      <4>2. g[Len(f) + 1] = p[1] /\ g[Len(f) + 2] = p[2]
        BY <2>5, <2>6 DEF Joins
      <4> QED BY <4>1, <4>2, <2>1
    <3> QED BY <3>1, <3>2
  <2>9. IsPairs(g, s, n + 1)
    BY <2>7, <2>8 DEF IsPairs
  <2> QED BY <2>1, <2>9
<1>4. N \in T
  BY <1>2, <1>3, NatSetInduction
<1>5. IsPairs(FlattenSeq(Pieces(s, N)), s, N)
  BY <1>1, <1>4
<1> QED BY <1>0, <1>5

-----------------------------------------------------------------------------
(* What the proof needs of a kernel.                                       *)

\* No lane before l makes l's transaction.
First(ins, l) == ~\E m \in 1 .. l - 1 : ins.at[m] = ins.at[l]

\* What the instruction writes is recorded.
Stores(ins) == ins.data # "none"

\* Lanes that make the same transaction are neighbours.
GoodIns(ins) ==
  /\ ins.cmd \in {"R", "W", "B"} /\ (Stores(ins) => ins.cmd = "W")
  /\ ins.at \in Seq(Nat) /\ Len(ins.at) >= 1
  /\ ins.cmd # "B" => \A l \in 2 .. Len(ins.at) : First(ins, l) \/ ins.at[l] = ins.at[l - 1]

\* The first transaction of an instruction is not the last one of the
\* instruction before it, unless one reads and the other writes.
Fits(a, c) == a.cmd = c.cmd /\ c.cmd # "B" => a.at[Len(a.at)] # c.at[1]

GoodKernel(k) ==
  /\ IsSeq(k) /\ Len(k) >= 1
  /\ \A n \in 1 .. Len(k) : GoodIns(k[n])
  /\ \A n \in 1 .. Len(k) - 1 : Fits(k[n], k[n + 1])

-----------------------------------------------------------------------------
(* Where the entries are.                                                  *)

\* The halves of lane l are at p and p + 1 of f, or exchanged.
Pair(f, p, b, ins, l) ==
  \/ f[p] = Entry(b, ins, l, 0) /\ f[p + 1] = Entry(b, ins, l, 1)
  \/ /\ ins.cmd # "B"
     /\ f[p] = Entry(b, ins, l, 1) /\ f[p + 1] = Entry(b, ins, l, 0)

\* The entries of the first n instructions of k by block b are at base.
Row(f, base, b, k, n) ==
  /\ base .. base + Entries(k, n) - 1 \subseteq DOMAIN f
  /\ \A m \in 1 .. n : \A l \in 1 .. Len(k[m].at) :
       Pair(f, base + Entries(k, m - 1) + 2 * (l - 1), b, k[m], l)

Size(k) == Entries(k, Len(k))

KernelInv ==
  /\ kernel \in Kernels
  /\ \A b \in BlockIds :
       /\ next[b] \in 0 .. Len(kernel) + 1
       /\ next[b] > 0 => /\ ridx[b] = Entries(kernel, next[b] - 1)
                         /\ Row(fmtd16, b * Width, b, kernel, next[b] - 1)
  /\ frd_size = IF next[0] = Len(kernel) + 1 THEN Size(kernel) ELSE 0

\* Where the row of block b is, when the rows of n blocks have been moved.
Base(k, n, b) == IF b < n THEN b * Size(k) ELSE b * Width

CollectInv ==
  /\ kernel \in Kernels /\ frd_size = Size(kernel) /\ i \in 1 .. NumBlocks
  /\ \A b \in BlockIds : Row(fmtd16, Base(kernel, i, b), b, kernel, Len(kernel))

-----------------------------------------------------------------------------
(* What the commands stand for.                                            *)

CmdFields == {"cmd", "block", "addr", "data"}

MatchOne(c, e) ==
  /\ DOMAIN c = CmdFields
  /\ c.cmd = e[1] /\ c.block = e[2] /\ c.addr = e[3]
  /\ InOrder(c, e) \/ (e[5] /\ c.data = <<e[4][1], e[4][1]>>)
Matches(f, e) ==
  IsSeq(f) /\ IsSeq(e) /\ Len(f) = Len(e) /\ \A m \in 1 .. Len(e) : MatchOne(f[m], e[m])

\* The commands of b blocks, of n instructions of block b, of l lanes.
BlockCommands(k, b) == FlattenSeq([n \in DOMAIN k |-> Commands(b, k[n])])
Blocks0(k, b) == FlattenSeq([c \in 1 .. b |-> BlockCommands(k, c - 1)])
Ins0(k, b, n) == FlattenSeq([m \in 1 .. n |-> Commands(b, k[m])])
Lanes0(b, ins, l) == FlattenSeq([q \in 1 .. l |-> LaneCommands(b, ins, q)])
Out(k, b, n, l) == (Blocks0(k, b) \o Ins0(k, b, n - 1)) \o Lanes0(b, k[n], l)

\* The command of lane l, which it shares with neighbours.
Command(b, ins, l) ==
  <<ins.cmd, b, 2 * ins.at[l],
    IF Stores(ins) THEN <<Datum(ins, l, 0), Datum(ins, l, 1)>> ELSE << >>,
    l \notin Alone(ins)>>

\* The command has half g, and the entry e brings the other one.  When several
\* lanes make it, it may bring half 0 once more.
HalfOne(c, b, ins, l, e) ==
  /\ DOMAIN c = CmdFields /\ c.cmd = ins.cmd /\ c.block = b
  /\ \E g, d \in {0, 1} :
       /\ d = 1 - g \/ (d = 0 /\ l \notin Alone(ins))
       /\ c.addr = 2 * ins.at[l] + g /\ e = Entry(b, ins, l, d)
       /\ Stores(ins) => \E y \in {c.data[2]} : c.data = <<Datum(ins, l, g), y>>
HalfMatches(f, out, b, ins, l, e) ==
  /\ IsSeq(f) /\ IsSeq(out) /\ Len(f) = Len(out) /\ Len(f) >= 1
  /\ \A m \in 1 .. Len(out) - 1 : MatchOne(f[m], out[m])
  /\ HalfOne(f[Len(f)], b, ins, l, e)

\* At entry pos, with commands f and the transaction before pv, lane l of
\* instruction n of block b comes next.
BeforeAt(pos, f, pv, k, b, n, l) ==
  /\ pos = b * Size(k) + Entries(k, n - 1) + 2 * (l - 1)
  /\ Matches(f, Out(k, b, n, l - 1))
  /\ k[n].cmd # "B" =>
       (pv.cmd = k[n].cmd /\ pv.addr = <<b, 2 * k[n].at[l]>>) = ~First(k[n], l)
Before(k, b, n, l) == BeforeAt(i, fmtd32, prev, k, b, n, l)

\* Its second half comes next.
Amid(k, b, n, l) ==
  /\ i = b * Size(k) + Entries(k, n - 1) + 2 * (l - 1) + 1
  /\ k[n].cmd = "B" => Matches(fmtd32, Out(k, b, n, l - 1) \o <<BarrierCommand(b)>>)
  /\ k[n].cmd # "B" =>
       /\ HalfMatches(fmtd32, Out(k, b, n, l), b, k[n], l, fmtd16[i])
       /\ prev.cmd = k[n].cmd /\ prev.addr = <<b, 2 * k[n].at[l]>>

AtEndAt(pos, f, k) == pos = NumBlocks * Size(k) /\ Matches(f, Blocks0(k, NumBlocks))
AtEnd(k) == AtEndAt(i, fmtd32, k)

CoalesceInv ==
  /\ kernel \in Kernels /\ frd_size = NumBlocks * Size(kernel)
  /\ DOMAIN fmtd16 = 0 .. frd_size - 1
  /\ \A b \in BlockIds : Row(fmtd16, b * Size(kernel), b, kernel, Len(kernel))
  /\ \/ AtEnd(kernel)
     \/ \E b \in BlockIds : \E n \in 1 .. Len(kernel) : \E l \in 1 .. Len(kernel[n].at) :
          Before(kernel, b, n, l) \/ Amid(kernel, b, n, l)

Types ==
  /\ pc \in {"idle", "kernel", "collect", "coalesce", "done"}
  /\ next \in [BlockIds -> Nat] /\ ridx \in [BlockIds -> 0 .. Width]
  /\ frd_size \in 0 .. NumBlocks * Width
  /\ DOMAIN fmtd16 \subseteq 0 .. NumBlocks * Width - 1
  /\ i \in 0 .. NumBlocks * Width

TraceInv ==
  /\ Types
  /\ pc \in {"coalesce", "done"} => IsSeq(fmtd32) /\ Len(fmtd32) <= i
  /\ pc = "idle" => frd_size = 0 /\ fmtd16 = << >>
  /\ pc = "kernel" => KernelInv
  /\ pc = "collect" => CollectInv
  /\ pc = "coalesce" => CoalesceInv
  /\ pc = "done" => kernel \in Kernels /\ AtEnd(kernel)

-----------------------------------------------------------------------------
(* How many entries there are.                                             *)

IsCount(k, N, f) ==
  f = [m \in 0 .. N |-> IF m = 0 THEN 0 ELSE f[m - 1] + 2 * Len(k[m].at)]

\* The recursion that counts a kernel's entries has a solution.
LEMMA CountExists ==
  ASSUME NEW k, NEW N \in Nat
  PROVE  \E f : IsCount(k, N, f)
<1>1. PICK T : T = {m \in Nat : \E f : IsCount(k, m, f)}
  OBVIOUS
<1>2. 0 \in T
  <2>1. PICK e : e = [m \in 0 .. 0 |-> 0]
    OBVIOUS
  <2>2. IsCount(k, 0, e)
    BY <2>1 DEF IsCount
  <2> QED BY <1>1, <2>2
<1>3. ASSUME NEW n \in Nat, n \in T PROVE n + 1 \in T
  <2>1. PICK f : IsCount(k, n, f)
    BY <1>1, <1>3
  <2>2. \A m \in 0 .. n : f[m] = IF m = 0 THEN 0 ELSE f[m - 1] + 2 * Len(k[m].at)
    BY <2>1, Zenon DEF IsCount
  <2>3. PICK g : g = [m \in 0 .. n + 1 |-> IF m <= n THEN f[m] ELSE f[m - 1] + 2 * Len(k[m].at)]
    OBVIOUS
  <2>4. ASSUME NEW m \in 0 .. n + 1
        PROVE  g[m] = IF m = 0 THEN 0 ELSE g[m - 1] + 2 * Len(k[m].at)
    <3>1. CASE m = 0
      BY <3>1, <2>2, <2>3
    <3>2. CASE m # 0
      <4>1. g[m - 1] = f[m - 1]
        BY <3>2, <2>3
      <4>2. CASE m <= n
        <5>1. m \in 0 .. n /\ g[m] = f[m]
          BY <4>2, <2>3
        <5>2. f[m] = f[m - 1] + 2 * Len(k[m].at)
          BY <5>1, <3>2, <2>2, Zenon
        <5> QED BY <4>1, <3>2, <5>1, <5>2, Zenon
      <4>3. CASE ~(m <= n)
        BY <4>1, <4>3, <3>2, <2>3
      <4> QED BY <4>2, <4>3
    <3> QED BY <3>1, <3>2
  <2>5. IsCount(k, n + 1, g)
    BY <2>3, <2>4 DEF IsCount
  <2> QED BY <1>1, <2>5
<1> QED BY <1>1, <1>2, <1>3, NatSetInduction

\* What Entries counts.
Counts(k) ==
  /\ Len(k) \in Nat /\ Entries(k, 0) = 0
  /\ \A m \in 1 .. Len(k) :
       Len(k[m].at) \in Nat /\ Entries(k, m) = Entries(k, m - 1) + 2 * Len(k[m].at)
  /\ \A m \in 0 .. Len(k) : Entries(k, m) \in Nat
  /\ \A m, n \in 0 .. Len(k) : m <= n => Entries(k, m) <= Entries(k, n)

\* Entries adds two for every lane of every instruction.
LEMMA EntriesCounts ==
  ASSUME NEW k, Len(k) \in Nat, \A m \in 1 .. Len(k) : Len(k[m].at) \in Nat
  PROVE  Counts(k)
<1>0. PICK N \in Nat : N = Len(k)
  OBVIOUS
<1> DEFINE f == CHOOSE g : IsCount(k, Len(k), g)
<1>1. IsCount(k, Len(k), f)
  BY CountExists
<1>2. \A n : Entries(k, n) = f[n]
  BY Zenon DEF Entries, IsCount
<1>3. \A m \in 0 .. N : Entries(k, m) = IF m = 0 THEN 0 ELSE Entries(k, m - 1) + 2 * Len(k[m].at)
  <2>1. \A m \in 0 .. N : f[m] = IF m = 0 THEN 0 ELSE f[m - 1] + 2 * Len(k[m].at)
    BY <1>0, <1>1, Zenon DEF IsCount
  <2> HIDE DEF f
  <2> QED BY <1>2, <2>1
<1> HIDE DEF f
<1>4. Entries(k, 0) = 0
  BY <1>3
<1>5. \A m \in 1 .. N : Len(k[m].at) \in Nat /\ Entries(k, m) = Entries(k, m - 1) + 2 * Len(k[m].at)
  BY <1>0, <1>3
<1>6. \A m \in 0 .. N : Entries(k, m) \in Nat
  <2>1. PICK T : T = {m \in Nat : m \in 0 .. N => Entries(k, m) \in Nat}
    OBVIOUS
  <2>2. 0 \in T
    BY <1>4, <2>1
  <2>3. ASSUME NEW m \in Nat, m \in T PROVE m + 1 \in T
    <3> SUFFICES ASSUME m + 1 \in 0 .. N PROVE Entries(k, m + 1) \in Nat
      BY <2>1
    <3>1. m + 1 \in 1 .. N /\ (m + 1) - 1 = m /\ m \in 0 .. N
      OBVIOUS
    <3>2. Entries(k, m) \in Nat
      BY <3>1, <2>1, <2>3
    <3>3. /\ Len(k[m + 1].at) \in Nat
          /\ Entries(k, m + 1) = Entries(k, (m + 1) - 1) + 2 * Len(k[m + 1].at)
      BY <1>5, <3>1
    <3> QED BY <3>1, <3>2, <3>3
  <2> QED BY <2>1, <2>2, <2>3, NatSetInduction, SMTT(30)
<1>7. ASSUME NEW m \in 0 .. N PROVE \A n \in 0 .. N : m <= n => Entries(k, m) <= Entries(k, n)
  <2>1. PICK T : T = {n \in Nat : n \in 0 .. N /\ m <= n => Entries(k, m) <= Entries(k, n)}
    OBVIOUS
  <2>2. 0 \in T
    BY <1>6, <2>1
  <2>3. ASSUME NEW n \in Nat, n \in T PROVE n + 1 \in T
    <3> SUFFICES ASSUME n + 1 \in 0 .. N, m <= n + 1 PROVE Entries(k, m) <= Entries(k, n + 1)
      BY <2>1
    <3>1. n + 1 \in 1 .. N /\ (n + 1) - 1 = n /\ n \in 0 .. N
      OBVIOUS
    <3>2. /\ Len(k[n + 1].at) \in Nat
          /\ Entries(k, n + 1) = Entries(k, (n + 1) - 1) + 2 * Len(k[n + 1].at)
      BY <1>5, <3>1
    <3>3. Entries(k, m) \in Nat /\ Entries(k, n) \in Nat
      BY <1>6, <3>1
    <3>4. CASE m = n + 1
      BY <3>1, <3>2, <3>3, <3>4
    <3>5. CASE m # n + 1
      <4>1. Entries(k, m) <= Entries(k, n)
        BY <3>1, <3>5, <2>1, <2>3
      <4>2. Entries(k, n + 1) = Entries(k, n) + 2 * Len(k[n + 1].at)
        BY <3>1, <3>2
      <4> QED BY <3>2, <3>3, <4>1, <4>2
    <3> QED BY <3>4, <3>5
  <2>4. Nat \subseteq T
    BY <2>2, <2>3, NatSetInduction
  <2>5. \A n \in 0 .. N : n \in T
    BY <2>4
  <2> QED BY <2>1, <2>5
<1> QED BY <1>0, <1>4, <1>5, <1>6, <1>7, Zenon DEF Counts

\* An instruction is recorded lane by lane.
LEMMA RecordedPairs ==
  ASSUME NEW b, NEW ins, GoodIns(ins), NEW swapped,
         swapped \subseteq DOMAIN ins.at, ins.cmd = "B" => swapped = {}
  PROVE  /\ IsSeq(Recorded(b, ins, swapped)) /\ Len(Recorded(b, ins, swapped)) = 2 * Len(ins.at)
         /\ \A l \in 1 .. Len(ins.at) : Pair(Recorded(b, ins, swapped), 2 * l - 1, b, ins, l)
<1>1. PICK N \in Nat : N = Len(ins.at) /\ DOMAIN ins.at = 1 .. N
  BY DEF GoodIns
<1>2. PICK s : s = [l \in 1 .. N |->
                      IF l \in swapped THEN <<Entry(b, ins, l, 1), Entry(b, ins, l, 0)>>
                      ELSE <<Entry(b, ins, l, 0), Entry(b, ins, l, 1)>>]
  OBVIOUS
<1>3. PICK r : r = Recorded(b, ins, swapped)
  OBVIOUS
<1>4. r = FlattenSeq(s)
  BY <1>1, <1>2, <1>3, Zenon DEF Recorded
<1>5. \A l \in 1 .. N :
        \/ l \notin swapped /\ s[l] = <<Entry(b, ins, l, 0), Entry(b, ins, l, 1)>>
        \/ l \in swapped /\ s[l] = <<Entry(b, ins, l, 1), Entry(b, ins, l, 0)>>
  BY <1>2, Zenon
<1>6. ASSUME NEW p, NEW x, NEW y, p = <<x, y>>
      PROVE  IsSeq(p) /\ Len(p) = 2 /\ p[1] = x /\ p[2] = y
  BY <1>6 DEF IsSeq, Range
<1>half. ASSUME NEW l \in 1 .. N
         PROVE  /\ IsSeq(s[l]) /\ Len(s[l]) = 2
                /\ \/ /\ l \notin swapped
                      /\ s[l][1] = Entry(b, ins, l, 0) /\ s[l][2] = Entry(b, ins, l, 1)
                   \/ /\ l \in swapped
                      /\ s[l][1] = Entry(b, ins, l, 1) /\ s[l][2] = Entry(b, ins, l, 0)
  <2>1. PICK p, x, y : p = s[l] /\ x = Entry(b, ins, l, 0) /\ y = Entry(b, ins, l, 1)
    OBVIOUS
  <2>2. (l \notin swapped /\ p = <<x, y>>) \/ (l \in swapped /\ p = <<y, x>>)
    BY <1>5, <2>1, Zenon
  <2>3. CASE l \notin swapped /\ p = <<x, y>>
    <3>1. IsSeq(p) /\ Len(p) = 2 /\ p[1] = x /\ p[2] = y
      BY <2>3, <1>6
    <3> QED BY <3>1, <2>1, <2>3
  <2>4. CASE l \in swapped /\ p = <<y, x>>
    <3>1. IsSeq(p) /\ Len(p) = 2 /\ p[1] = y /\ p[2] = x
      BY <2>4, <1>6
    <3> QED BY <3>1, <2>1, <2>4
  <2> QED BY <2>2, <2>3, <2>4
<1>7. \A l \in 1 .. N : IsSeq(s[l]) /\ Len(s[l]) = 2
  BY <1>half
<1>8. IsFamily(s, N)
  BY <1>2, <1>7 DEF IsFamily
<1>9. IsPairs(r, s, N)
  BY <1>4, <1>7, <1>8, FlattenPairs
<1>10. ASSUME NEW l \in 1 .. N PROVE Pair(r, 2 * l - 1, b, ins, l)
  <2>1. (2 * l - 1) + 1 = 2 * l
    OBVIOUS
  <2>2. r[2 * l - 1] = s[l][1] /\ r[2 * l] = s[l][2]
    BY <1>9, Zenon DEF IsPairs
  <2>3. \/ l \notin swapped /\ s[l][1] = Entry(b, ins, l, 0) /\ s[l][2] = Entry(b, ins, l, 1)
        \/ l \in swapped /\ s[l][1] = Entry(b, ins, l, 1) /\ s[l][2] = Entry(b, ins, l, 0)
    BY <1>half
  <2>4. l \in swapped => ins.cmd # "B"
    OBVIOUS
  <2> QED BY <2>1, <2>2, <2>3, <2>4, Zenon DEF Pair
<1> QED BY <1>1, <1>3, <1>9, <1>10, Zenon DEF IsPairs

\* Less rows take less room.
LEMMA RowsApart ==
  ASSUME NEW a \in Nat, NEW c \in Nat, NEW w \in Nat, a < c
  PROVE  a * w \in Nat /\ c * w \in Nat /\ a * w + w <= c * w
<1>1. PICK d \in Nat : c = a + 1 + d
  <2>1. c - a - 1 \in Nat /\ c = a + 1 + (c - a - 1)
    OBVIOUS
  <2> QED BY <2>1
<1>2. c * w = a * w + w + d * w
  BY <1>1
<1>3. a * w \in Nat /\ d * w \in Nat
  OBVIOUS
<1> QED BY <1>2, <1>3

-----------------------------------------------------------------------------
(* Every kernel is good.                                                   *)

\* A good stretch of a kernel, with the command and the transaction it begins and
\* ends with.
Link(s, c, x, d, y) ==
  /\ GoodKernel(s)
  /\ s[1].cmd = c /\ s[1].at[1] = x
  /\ s[Len(s)].cmd = d /\ s[Len(s)].at[Len(s[Len(s)].at)] = y

\* Stretches that fit.
LEMMA Chain ==
  ASSUME NEW s, NEW t, NEW c, NEW x, NEW d, NEW y, NEW e, NEW u, NEW f, NEW v,
         Link(s, c, x, d, y), Link(t, e, u, f, v), ~(d = e /\ e # "B" /\ y = u)
  PROVE  Link(s \o t, c, x, f, v)
<1>1. PICK h : h = s \o t
  OBVIOUS
<1>2. IsSeq(s) /\ IsSeq(t)
  BY DEF Link, GoodKernel
<1>3. Joins(h, s, t)
  BY <1>1, <1>2, ConcatJoins
<1>4. PICK p \in Nat, q \in Nat : p = Len(s) /\ q = Len(t) /\ p >= 1 /\ q >= 1 /\ Len(h) = p + q
  BY <1>3 DEF Joins, Link, GoodKernel
<1>5. /\ \A n \in 1 .. p : h[n] = s[n]
      /\ \A n \in 1 .. q : h[p + n] = t[n]
  BY <1>3, <1>4 DEF Joins
<1>6. ASSUME NEW n \in 1 .. p + q PROVE GoodIns(h[n])
  <2>1. CASE n <= p
    BY <2>1, <1>4, <1>5 DEF Link, GoodKernel
  <2>2. CASE ~(n <= p)
    <3>1. n - p \in 1 .. q /\ p + (n - p) = n
      BY <2>2
    <3>2. h[n] = t[n - p]
      BY <3>1, <1>5
    <3> QED BY <3>1, <3>2, <1>4 DEF Link, GoodKernel
  <2> QED BY <2>1, <2>2
<1>7. ASSUME NEW n \in 1 .. (p + q) - 1 PROVE Fits(h[n], h[n + 1])
  <2>1. CASE n < p
    <3>1. n \in 1 .. Len(s) - 1 /\ h[n] = s[n] /\ h[n + 1] = s[n + 1]
      BY <2>1, <1>4, <1>5
    <3>2. Fits(s[n], s[n + 1])
      BY <3>1 DEF Link, GoodKernel
    <3> QED BY <3>1, <3>2
  <2>2. CASE n = p
    <3>1. h[n] = s[p] /\ h[n + 1] = t[1]
      BY <2>2, <1>4, <1>5
    <3>2. s[p].cmd = d /\ s[p].at[Len(s[p].at)] = y /\ t[1].cmd = e /\ t[1].at[1] = u
      BY <1>4 DEF Link
    <3> QED BY <3>1, <3>2, Zenon DEF Fits
  <2>3. CASE n > p
    <3>1. n - p \in 1 .. Len(t) - 1 /\ p + (n - p) = n /\ p + ((n - p) + 1) = n + 1
      BY <2>3, <1>4
    <3>2. n - p \in 1 .. q /\ (n - p) + 1 \in 1 .. q
      BY <3>1, <1>4
    <3>3. h[n] = t[n - p] /\ h[n + 1] = t[(n - p) + 1]
      BY <3>1, <3>2, <1>5
    <3>4. Fits(t[n - p], t[(n - p) + 1])
      BY <3>1, Zenon DEF Link, GoodKernel
    <3> QED BY <3>3, <3>4
  <2> QED BY <2>1, <2>2, <2>3
<1>8. GoodKernel(h)
  BY <1>3, <1>4, <1>6, <1>7 DEF GoodKernel, Joins
<1>9. h[1] = s[1] /\ h[Len(h)] = t[q]
  BY <1>4, <1>5
<1>10. Link(h, c, x, f, v)
  BY <1>4, <1>8, <1>9, Zenon DEF Link
<1> QED BY <1>1, <1>10

\* One instruction, of one lane or of two.
LEMMA OneLink ==
  ASSUME NEW c \in {"R", "W"}, NEW d, d # "none" => c = "W", NEW x \in Nat, NEW y \in Nat
  PROVE  /\ Link(<<[cmd |-> c, at |-> <<x>>, data |-> d]>>, c, x, c, x)
         /\ Link(<<[cmd |-> c, at |-> <<x, y>>, data |-> d]>>, c, x, c, y)
<1>1. ASSUME NEW ins, GoodIns(ins) PROVE GoodKernel(<<ins>>) /\ Len(<<ins>>) = 1 /\ <<ins>>[1] = ins
  <2>1. IsSeq(<<ins>>) /\ Len(<<ins>>) = 1 /\ <<ins>>[1] = ins
    BY DEF IsSeq, Range
  <2> QED BY <1>1, <2>1 DEF GoodKernel
<1>2. PICK a, b : a = [cmd |-> c, at |-> <<x>>, data |-> d] /\ b = [cmd |-> c, at |-> <<x, y>>, data |-> d]
  OBVIOUS
<1>3. a.cmd = c /\ a.data = d /\ a.at = <<x>> /\ b.cmd = c /\ b.data = d /\ b.at = <<x, y>>
  BY <1>2
<1>4. GoodIns(a) /\ Len(a.at) = 1 /\ a.at[1] = x
  BY <1>3 DEF GoodIns, Stores
<1>5. GoodIns(b) /\ Len(b.at) = 2 /\ b.at[1] = x /\ b.at[2] = y
  <2>1. b.at \in Seq(Nat) /\ Len(b.at) = 2 /\ b.at[1] = x /\ b.at[2] = y
    BY <1>3
  <2>2. ASSUME NEW l \in 2 .. Len(b.at) PROVE First(b, l) \/ b.at[l] = b.at[l - 1]
    <3>1. l = 2 /\ l - 1 = 1
      BY <2>1
    <3> QED BY <2>1, <3>1 DEF First
  <2> QED BY <1>3, <2>1, <2>2 DEF GoodIns, Stores
<1>6. Link(<<a>>, c, x, c, x)
  BY <1>1, <1>3, <1>4 DEF Link
<1>7. Link(<<b>>, c, x, c, y)
  BY <1>1, <1>3, <1>5 DEF Link
<1> QED BY <1>2, <1>6, <1>7

\* A barrier joins what it stands between.
LEMMA BarrierLink ==
  ASSUME NEW lanes \in {1, 2}
  PROVE  Link(B_CMD(lanes), "B", 0, "B", 0)
<1>1. PICK a : a = [cmd |-> "B", at |-> [l \in 1 .. lanes |-> 0], data |-> "none"]
  OBVIOUS
<1>2. a.cmd = "B" /\ a.data = "none" /\ a.at = [l \in 1 .. lanes |-> 0]
  BY <1>1
<1>3. a.at \in Seq(Nat) /\ Len(a.at) = lanes /\ a.at[1] = 0 /\ a.at[lanes] = 0
  BY <1>2
<1>4. GoodIns(a)
  <2>1. Len(a.at) >= 1
    BY <1>3
  <2>2. ~Stores(a) /\ a.cmd \in {"R", "W", "B"}
    BY <1>2, Zenon DEF Stores
  <2> QED BY <1>2, <1>3, <2>1, <2>2, Zenon DEF GoodIns
<1>5. IsSeq(<<a>>) /\ Len(<<a>>) = 1 /\ <<a>>[1] = a
  BY DEF IsSeq, Range
<1>6. GoodKernel(<<a>>)
  BY <1>4, <1>5 DEF GoodKernel
<1>7. Link(<<a>>, "B", 0, "B", 0)
  BY <1>2, <1>3, <1>5, <1>6 DEF Link
<1> QED BY <1>1, <1>7 DEF B_CMD

\* A stretch that ends with a barrier.
Closed(s) == \E e, u : Link(s, e, u, "B", 0)

\* Stretches that end with a barrier, one after another.
LEMMA ChainAll ==
  ASSUME NEW p, NEW c, NEW x, Link(p, c, x, "B", 0), NEW N \in Nat, NEW s,
         IsFamily(s, N), \A m \in 1 .. N : Closed(s[m])
  PROVE  Link(p \o FlattenSeq(s), c, x, "B", 0)
<1>is. \A m \in 1 .. N : IsSeq(s[m])
  BY Zenon DEF IsFamily
<1>p. IsSeq(p)
  BY DEF Link, GoodKernel
<1>1. PICK T : T = {n \in Nat : n <= N => Link(p \o FlattenSeq(Pieces(s, n)), c, x, "B", 0)}
  OBVIOUS
<1>2. 0 \in T
  <2>1. Pieces(s, 0) = << >>
    BY DEF Pieces
  <2>2. FlattenSeq(Pieces(s, 0)) = << >>
    BY <2>1, FlattenEmpty
  <2>3. p \o << >> = p
    BY <1>p DEF IsSeq
  <2> QED BY <1>1, <2>2, <2>3
<1>3. ASSUME NEW n \in Nat, n \in T PROVE n + 1 \in T
  <2> SUFFICES ASSUME n + 1 <= N PROVE Link(p \o FlattenSeq(Pieces(s, n + 1)), c, x, "B", 0)
    BY <1>1
  <2>1. PICK t, w, f, g, b : /\ t = Pieces(s, n) /\ w = Pieces(s, n + 1) /\ b = s[n + 1]
                             /\ f = FlattenSeq(t) /\ g = FlattenSeq(w)
    OBVIOUS
  <2>2. Link(p \o f, c, x, "B", 0)
    BY <1>1, <1>3, <2>1
  <2>3. /\ \A m \in 1 .. n + 1 : w[m] = s[m]
        /\ \A m \in 1 .. n : t[m] = s[m]
    BY <2>1 DEF Pieces
  <2>4. IsFamily(w, n + 1) /\ IsFamily(t, n) /\ SameUpTo(w, t, n)
    <3>1. w = [m \in 1 .. n + 1 |-> w[m]] /\ t = [m \in 1 .. n |-> t[m]]
      BY <2>1 DEF Pieces
    <3>2. \A m \in 1 .. n + 1 : IsSeq(w[m])
      BY <2>3, <1>is
    <3>3. \A m \in 1 .. n : IsSeq(t[m]) /\ w[m] = t[m]
      BY <2>3, <1>is
    <3> QED BY <3>1, <3>2, <3>3, Zenon DEF IsFamily, SameUpTo
  <2>5. g = f \o b /\ IsSeq(f) /\ IsSeq(b)
    <3>1. FlattenSeq(w) = FlattenSeq(t) \o w[n + 1] /\ IsSeq(FlattenSeq(t)) /\ IsSeq(w[n + 1])
      BY <2>4, FlattenStep
    <3>2. w[n + 1] = b
      BY <2>1, <2>3
    <3> QED BY <3>1, <3>2, <2>1
  <2>6. (p \o f) \o b = p \o g
    <3>1. (p \o f) \o b = p \o (f \o b)
      BY <2>5, <1>p, ConcatAssoc
    <3> QED BY <3>1, <2>5
  <2>7. PICK e, u : Link(b, e, u, "B", 0)
    <3>1. Closed(b)
      BY <2>1
    <3> QED BY <3>1, Zenon DEF Closed
  <2>8. Link((p \o f) \o b, c, x, "B", 0)
    BY <2>2, <2>7, Chain
  <2> QED BY <2>1, <2>6, <2>8
<1>4. N \in T
  BY <1>2, <1>3, NatSetInduction
<1>5. Link(p \o FlattenSeq(Pieces(s, N)), c, x, "B", 0)
  BY <1>1, <1>4
<1>6. s = Pieces(s, N)
  BY Zenon DEF IsFamily, Pieces
<1> QED BY <1>5, <1>6

\* The stretches kernels have in common.
LEMMA CommonLinks ==
  /\ Link(park_in \o change_sb_hab, "W", 8, "B", 0)
  /\ Link(program_crf, "W", 1, "W", 1) /\ Link(program_crf_mod, "W", 1, "B", 0)
  /\ Link(change_hab_habpim, "W", 0, "R", 0) /\ Link(change_habpim_hab, "W", 0, "B", 0)
  /\ Link(change_hab_sb, "W", 6, "B", 0) /\ Link(park_out, "W", 8, "W", 9)
<1>b. Link(B_CMD(1), "B", 0, "B", 0) /\ Link(B_CMD(2), "B", 0, "B", 0)
  BY BarrierLink
<1>1. Link(W_CMD(ParkRow), "W", 8, "W", 9)
  BY OneLink DEF W_CMD, ParkRow
<1>2. Link(park_in, "W", 8, "B", 0)
  BY <1>1, <1>b, Chain DEF park_in
<1>3. ASSUME NEW n \in 1 .. 4
      PROVE  Link(W_CMD(<<ABMR[n]>>) \o B_CMD(1), "W", ABMR[n], "B", 0)
  <2>1. ABMR[n] \in Nat
    BY DEF ABMR
  <2>2. Link(W_CMD(<<ABMR[n]>>), "W", ABMR[n], "W", ABMR[n])
    BY <2>1, OneLink DEF W_CMD
  <2> QED BY <2>2, <1>b, Chain
<1>4. PICK s : s = [n \in 1 .. 4 |-> W_CMD(<<ABMR[n]>>) \o B_CMD(1)]
  OBVIOUS
<1>5. IsFamily(s, 4) /\ \A n \in 1 .. 4 : Closed(s[n])
  <2>1. s = [n \in 1 .. 4 |-> s[n]]
    BY <1>4
  <2>2. ASSUME NEW n \in 1 .. 4 PROVE Link(s[n], "W", ABMR[n], "B", 0)
    BY <1>3, <1>4
  <2>3. \A n \in 1 .. 4 : Closed(s[n])
    BY <2>2, Zenon DEF Closed
  <2>4. \A n \in 1 .. 4 : IsSeq(s[n])
    BY <2>2, Zenon DEF Link, GoodKernel
  <2> QED BY <2>1, <2>3, <2>4, Zenon DEF IsFamily
<1>6. Link(park_in \o FlattenSeq(s), "W", 8, "B", 0)
  BY <1>2, <1>5, ChainAll
<1>7. Link(park_in \o change_sb_hab, "W", 8, "B", 0)
  BY <1>4, <1>6, Zenon DEF change_sb_hab
<1>8. Link(program_crf, "W", 1, "W", 1)
  BY OneLink DEF program_crf, W_CMD_R, Crf
<1>9. Link(R_CMD(<<Crf>>), "R", 1, "R", 1)
  BY OneLink DEF R_CMD, Crf
<1>10. Link(program_crf_mod, "W", 1, "B", 0)
  <2>1. Link(W_CMD_R(<<Crf>>, "halves") \o R_CMD(<<Crf>>), "W", 1, "R", 1)
    BY <1>8, <1>9, Chain DEF program_crf
  <2> QED BY <2>1, <1>b, Chain DEF program_crf_mod
<1>11. Link(change_hab_habpim, "W", 0, "R", 0)
  <2>1. Link(W_CMD_R(<<Mode>>, "halves"), "W", 0, "W", 0) /\ Link(R_CMD(<<Mode>>), "R", 0, "R", 0)
    BY OneLink DEF W_CMD_R, R_CMD, Mode
  <2> QED BY <2>1, Chain DEF change_hab_habpim
<1>12. Link(change_habpim_hab, "W", 0, "B", 0)
  <2>1. Link(W_CMD_R(<<Mode, Mode>>, "zeroes"), "W", 0, "W", 0) /\ Link(R_CMD(<<Mode, Mode>>), "R", 0, "R", 0)
    BY OneLink DEF W_CMD_R, R_CMD, Mode
  <2>2. Link(W_CMD_R(<<Mode, Mode>>, "zeroes") \o R_CMD(<<Mode, Mode>>), "W", 0, "R", 0)
    BY <2>1, Chain
  <2> QED BY <2>2, <1>b, Chain DEF change_habpim_hab
<1>13. Link(change_hab_sb, "W", 6, "B", 0)
  <2>1. Link(W_CMD(SBMR), "W", 6, "W", 7) /\ Link(R_CMD(SBMR), "R", 6, "R", 7)
    BY OneLink DEF W_CMD, R_CMD, SBMR
  <2>2. Link(W_CMD(SBMR) \o R_CMD(SBMR), "W", 6, "R", 7)
    BY <2>1, Chain
  <2> QED BY <2>2, <1>b, Chain DEF change_hab_sb
<1>14. Link(park_out, "W", 8, "W", 9)
  BY <1>1 DEF park_out
<1> QED BY <1>7, <1>8, <1>10, <1>11, <1>12, <1>13, <1>14

\* A tile of an elementwise kernel.
Tile(n) ==
  R_CMD(Columns(0, n)) \o B_CMD(2) \o R_CMD(Columns(1, n)) \o B_CMD(2)
    \o W_CMD(Columns(2, n)) \o W_CMD(Columns(2, n)) \o R_CMD(Columns(2, n)) \o B_CMD(2)

\* A tile of elt_op_pim starts with a read of its own address and ends with a
\* barrier.
LEMMA TileLink ==
  ASSUME NEW n \in Nat
  PROVE  Link(Tile(n), "R", 12 + 6 * n, "B", 0)
<1>b. Link(B_CMD(2), "B", 0, "B", 0)
  BY BarrierLink
<1>1. PICK x \in Nat : x = 12 + 6 * n
  OBVIOUS
<1>2. Columns(0, n) = <<x, x + 1>> /\ Columns(1, n) = <<x + 2, x + 3>> /\ Columns(2, n) = <<x + 4, x + 5>>
  BY <1>1 DEF Columns
<1>3. PICK r0, r1, r2, w2, b : /\ r0 = R_CMD(Columns(0, n)) /\ r1 = R_CMD(Columns(1, n))
                               /\ r2 = R_CMD(Columns(2, n)) /\ w2 = W_CMD(Columns(2, n))
                               /\ b = B_CMD(2)
  OBVIOUS
<1>4. /\ Link(r0, "R", x, "R", x + 1) /\ Link(r1, "R", x + 2, "R", x + 3)
      /\ Link(r2, "R", x + 4, "R", x + 5) /\ Link(w2, "W", x + 4, "W", x + 5)
      /\ Link(b, "B", 0, "B", 0)
  <2>1. x + 1 \in Nat /\ x + 2 \in Nat /\ x + 3 \in Nat /\ x + 4 \in Nat /\ x + 5 \in Nat
    OBVIOUS
  <2>2. ASSUME NEW p \in Nat, NEW q \in Nat
        PROVE  Link(R_CMD(<<p, q>>), "R", p, "R", q) /\ Link(W_CMD(<<p, q>>), "W", p, "W", q)
    BY OneLink DEF R_CMD, W_CMD
  <2> QED BY <1>2, <1>3, <1>b, <2>1, <2>2, Zenon
<1>5. Link(r0 \o b, "R", x, "B", 0)
  BY <1>4, Chain
<1>6. Link(r0 \o b \o r1, "R", x, "R", x + 3)
  BY <1>4, <1>5, Chain
<1>7. Link(r0 \o b \o r1 \o b, "R", x, "B", 0)
  BY <1>4, <1>6, Chain
<1>8. Link(r0 \o b \o r1 \o b \o w2, "R", x, "W", x + 5)
  BY <1>4, <1>7, Chain
<1>9. x + 5 # x + 4
  OBVIOUS
<1>10. Link(r0 \o b \o r1 \o b \o w2 \o w2, "R", x, "W", x + 5)
  BY <1>4, <1>8, <1>9, Chain
<1>11. Link(r0 \o b \o r1 \o b \o w2 \o w2 \o r2, "R", x, "R", x + 5)
  BY <1>4, <1>10, Chain
<1>12. Link(r0 \o b \o r1 \o b \o w2 \o w2 \o r2 \o b, "R", x, "B", 0)
  BY <1>4, <1>11, Chain
<1> QED BY <1>1, <1>3, <1>12 DEF Tile

\* elt_op_pim of any number of tiles is a good kernel.
LEMMA EltGood ==
  ASSUME NEW tiles \in Nat
  PROVE  GoodKernel(elt_op_pim(tiles))
<1>1. PICK s : s = [n \in 1 .. tiles |-> Tile(n - 1)]
  OBVIOUS
<1>2. IsFamily(s, tiles) /\ \A n \in 1 .. tiles : Closed(s[n])
  <2>1. s = [n \in 1 .. tiles |-> s[n]]
    BY <1>1
  <2>2. ASSUME NEW n \in 1 .. tiles PROVE Link(s[n], "R", 12 + 6 * (n - 1), "B", 0)
    <3>1. n - 1 \in Nat /\ s[n] = Tile(n - 1)
      BY <1>1
    <3> QED BY <3>1, TileLink
  <2>3. \A n \in 1 .. tiles : Closed(s[n])
    BY <2>2, Zenon DEF Closed
  <2>4. \A n \in 1 .. tiles : IsSeq(s[n])
    BY <2>2, Zenon DEF Link, GoodKernel
  <2> QED BY <2>1, <2>3, <2>4, Zenon DEF IsFamily
<1>3. PICK a, c, h, b, m, o, p : /\ a = park_in \o change_sb_hab /\ c = program_crf
                                 /\ h = change_hab_habpim /\ b = B_CMD(1)
                                 /\ m = change_habpim_hab /\ o = change_hab_sb /\ p = park_out
  OBVIOUS
<1>4. /\ Link(a, "W", 8, "B", 0) /\ Link(c, "W", 1, "W", 1) /\ Link(h, "W", 0, "R", 0)
      /\ Link(b, "B", 0, "B", 0) /\ Link(m, "W", 0, "B", 0) /\ Link(o, "W", 6, "B", 0)
      /\ Link(p, "W", 8, "W", 9)
  BY <1>3, CommonLinks, BarrierLink
<1>5. Link(a \o c, "W", 8, "W", 1)
  BY <1>4, Chain
<1>6. Link(a \o c \o h, "W", 8, "R", 0)
  BY <1>4, <1>5, Chain
<1>7. Link(a \o c \o h \o b, "W", 8, "B", 0)
  BY <1>4, <1>6, Chain
<1>8. Link(a \o c \o h \o b \o FlattenSeq(s), "W", 8, "B", 0)
  BY <1>2, <1>7, ChainAll
<1>9. Link(a \o c \o h \o b \o FlattenSeq(s) \o m, "W", 8, "B", 0)
  BY <1>4, <1>8, Chain
<1>10. Link(a \o c \o h \o b \o FlattenSeq(s) \o m \o o, "W", 8, "B", 0)
  BY <1>4, <1>9, Chain
<1>11. Link(a \o c \o h \o b \o FlattenSeq(s) \o m \o o \o p, "W", 8, "W", 9)
  BY <1>4, <1>10, Chain
<1>12. elt_op_pim(tiles) = a \o c \o h \o b \o FlattenSeq(s) \o m \o o \o p
  BY <1>1, <1>3, Zenon DEF elt_op_pim, Tile
<1> QED BY <1>11, <1>12 DEF Link

\* gemm_fp16 is a good kernel.
LEMMA GemmGood == GoodKernel(gemm_fp16)
<1>0. /\ Columns(0, 0) = <<12, 13>> /\ Columns(0, 1) = <<18, 19>> /\ Columns(1, 0) = <<14, 15>>
  BY DEF Columns
<1>1. PICK a, c, b, w, r, v, q, x, y, z, u, m, o, p :
        /\ a = park_in \o change_sb_hab /\ c = program_crf_mod /\ b = B_CMD(2)
        /\ w = W_CMD_R(<<Mode, Mode>>, "halves") /\ r = R_CMD(<<Mode, Mode>>)
        /\ v = W_CMD_R(GrfA, "halves") /\ q = R_CMD(GrfA)
        /\ x = R_CMD(Columns(0, 0)) /\ y = R_CMD(Columns(0, 1))
        /\ z = W_CMD(Columns(1, 0)) /\ u = R_CMD(Columns(1, 0))
        /\ m = change_habpim_hab /\ o = change_hab_sb /\ p = park_out
  OBVIOUS
<1>2. /\ Link(a, "W", 8, "B", 0) /\ Link(c, "W", 1, "B", 0)
      /\ Link(b, "B", 0, "B", 0) /\ Link(m, "W", 0, "B", 0) /\ Link(o, "W", 6, "B", 0)
      /\ Link(p, "W", 8, "W", 9)
  BY <1>1, CommonLinks, BarrierLink
<1>3. /\ Link(w, "W", 0, "W", 0) /\ Link(r, "R", 0, "R", 0)
      /\ Link(v, "W", 10, "W", 11) /\ Link(q, "R", 10, "R", 11)
  BY <1>1, OneLink DEF W_CMD_R, R_CMD, Mode, GrfA
<1>4. /\ Link(x, "R", 12, "R", 13) /\ Link(y, "R", 18, "R", 19)
      /\ Link(z, "W", 14, "W", 15) /\ Link(u, "R", 14, "R", 15)
  BY <1>0, <1>1, OneLink DEF W_CMD, R_CMD
<1>5. Link(a \o c, "W", 8, "B", 0)
  BY <1>2, Chain
<1>6. Link(a \o c \o w, "W", 8, "W", 0)
  BY <1>3, <1>5, Chain
<1>7. Link(a \o c \o w \o r, "W", 8, "R", 0)
  BY <1>3, <1>6, Chain
<1>8. PICK e : e = a \o c \o w \o r \o b /\ Link(e, "W", 8, "B", 0)
  <2>1. Link(a \o c \o w \o r \o b, "W", 8, "B", 0)
    BY <1>2, <1>7, Chain
  <2> QED BY <2>1
<1>9. Link(e \o v, "W", 8, "W", 11)
  BY <1>3, <1>8, Chain
<1>10. Link(e \o v \o q, "W", 8, "R", 11)
  BY <1>3, <1>9, Chain
<1>11. PICK f : f = e \o v \o q \o b /\ Link(f, "W", 8, "B", 0)
  <2>1. Link(e \o v \o q \o b, "W", 8, "B", 0)
    BY <1>2, <1>10, Chain
  <2> QED BY <2>1
<1>12. Link(f \o x, "W", 8, "R", 13)
  BY <1>4, <1>11, Chain
<1>13. Link(f \o x \o y, "W", 8, "R", 19)
  BY <1>4, <1>12, Chain
<1>14. PICK g : g = f \o x \o y \o b /\ Link(g, "W", 8, "B", 0)
  <2>1. Link(f \o x \o y \o b, "W", 8, "B", 0)
    BY <1>2, <1>13, Chain
  <2> QED BY <2>1
<1>15. Link(g \o z, "W", 8, "W", 15)
  BY <1>4, <1>14, Chain
<1>16. Link(g \o z \o z, "W", 8, "W", 15)
  BY <1>4, <1>15, Chain
<1>17. Link(g \o z \o z \o u, "W", 8, "R", 15)
  BY <1>4, <1>16, Chain
<1>18. PICK h : h = g \o z \o z \o u \o b /\ Link(h, "W", 8, "B", 0)
  <2>1. Link(g \o z \o z \o u \o b, "W", 8, "B", 0)
    BY <1>2, <1>17, Chain
  <2> QED BY <2>1
<1>19. Link(h \o m, "W", 8, "B", 0)
  BY <1>2, <1>18, Chain
<1>20. Link(h \o m \o o, "W", 8, "B", 0)
  BY <1>2, <1>19, Chain
<1>21. Link(h \o m \o o \o p, "W", 8, "W", 9)
  BY <1>2, <1>20, Chain
<1>22. gemm_fp16 = h \o m \o o \o p
  BY <1>1, <1>8, <1>11, <1>14, <1>18, Zenon DEF gemm_fp16
<1> QED BY <1>21, <1>22 DEF Link

\* A kernel of the library, and what the proof needs of it.
LEMMA KernelsGood ==
  ASSUME NEW k \in Kernels
  PROVE  GoodKernel(k) /\ Counts(k) /\ Size(k) \in Nat /\ Size(k) >= 2
<1>1. GoodKernel(k)
  <2>1. CASE k = gemm_fp16
    BY <2>1, GemmGood
  <2>2. CASE \E n \in Tiles : k = elt_op_pim(n)
    BY <2>2, EltGood, TraceAssumption
  <2> QED BY <2>1, <2>2 DEF Kernels
<1>2. Len(k) \in Nat /\ Len(k) >= 1 /\ \A m \in 1 .. Len(k) : Len(k[m].at) \in Nat /\ Len(k[m].at) >= 1
  BY <1>1 DEF GoodKernel, GoodIns, IsSeq
<1>3. Counts(k)
  BY <1>2, EntriesCounts
<1>4. Entries(k, 1) = Entries(k, 0) + 2 * Len(k[1].at) /\ Entries(k, 0) = 0
  <2>1. 1 \in 1 .. Len(k) /\ 1 - 1 = 0
    BY <1>2
  <2> QED BY <2>1, <1>3 DEF Counts
<1>5. Entries(k, 1) <= Entries(k, Len(k)) /\ Entries(k, Len(k)) \in Nat
  BY <1>2, <1>3 DEF Counts
<1> QED BY <1>1, <1>2, <1>3, <1>4, <1>5 DEF Size

-----------------------------------------------------------------------------
(* Rows.                                                                   *)

\* Where lane l of instruction m is in a row.
Slot(k, m, l) == Entries(k, m - 1) + 2 * (l - 1)

\* The slot of a lane of an executed instruction is within what the block
\* recorded.
LEMMA Slots ==
  ASSUME NEW k \in Kernels, NEW n \in 0 .. Len(k), NEW m \in 1 .. n, NEW l \in 1 .. Len(k[m].at)
  PROVE  /\ m \in 1 .. Len(k) /\ Len(k[m].at) \in Nat /\ GoodIns(k[m])
         /\ Slot(k, m, l) \in Nat /\ Slot(k, m, l) + 1 < Entries(k, m)
         /\ Entries(k, m) <= Entries(k, n) /\ Entries(k, n) <= Size(k)
         /\ Entries(k, m) \in Nat /\ Entries(k, n) \in Nat /\ Size(k) \in Nat
<1>1. GoodKernel(k) /\ Counts(k) /\ Size(k) \in Nat
  BY KernelsGood
<1>2. Len(k) \in Nat
  BY <1>1 DEF Counts
<1>3. m \in 1 .. Len(k) /\ m - 1 \in 0 .. Len(k) /\ m \in 0 .. Len(k) /\ Len(k) \in 0 .. Len(k) /\ m <= n /\ n <= Len(k)
  BY <1>2
<1>4. GoodIns(k[m])
  BY <1>1, <1>3 DEF GoodKernel
<1>5. /\ Len(k[m].at) \in Nat /\ Entries(k, m) = Entries(k, m - 1) + 2 * Len(k[m].at)
      /\ Entries(k, m - 1) \in Nat /\ Entries(k, m) \in Nat /\ Entries(k, n) \in Nat
      /\ Entries(k, m) <= Entries(k, n) /\ Entries(k, n) <= Entries(k, Len(k))
  BY <1>1, <1>3 DEF Counts
<1>6. Slot(k, m, l) \in Nat /\ Slot(k, m, l) + 1 < Entries(k, m)
  BY <1>5, SMTT(30) DEF Slot
<1> QED BY <1>1, <1>3, <1>4, <1>5, <1>6 DEF Size

\* The size entries at from of f are at to of g.
Moved(f, from, g, to, size) ==
  \A r \in 0 .. size - 1 : to + r \in DOMAIN g /\ g[to + r] = f[from + r]

\* A row may move as a whole.
LEMMA RowMoved ==
  ASSUME NEW k \in Kernels, NEW n \in 0 .. Len(k), NEW f, NEW from \in Int, NEW g, NEW to \in Int,
         NEW b, Row(f, from, b, k, n), Moved(f, from, g, to, Entries(k, n))
  PROVE  Row(g, to, b, k, n)
<1>0. PICK E \in Nat : E = Entries(k, n)
  BY KernelsGood DEF Counts
<1>1. to .. to + E - 1 \subseteq DOMAIN g
  <2> SUFFICES ASSUME NEW p \in to .. to + E - 1 PROVE p \in DOMAIN g
    OBVIOUS
  <2>1. p - to \in 0 .. E - 1 /\ to + (p - to) = p
    OBVIOUS
  <2>2. to + (p - to) \in DOMAIN g
    BY <2>1, <1>0, Zenon DEF Moved
  <2> QED BY <2>1, <2>2
<1>2. ASSUME NEW m \in 1 .. n, NEW l \in 1 .. Len(k[m].at)
      PROVE  Pair(g, to + Entries(k, m - 1) + 2 * (l - 1), b, k[m], l)
  <2>1. PICK q \in Nat : q = Slot(k, m, l) /\ q + 1 < E
    BY <1>0, Slots
  <2>2. q \in 0 .. E - 1 /\ q + 1 \in 0 .. E - 1
    BY <2>1
  <2>3. g[to + q] = f[from + q] /\ g[to + (q + 1)] = f[from + (q + 1)]
    BY <2>2, <1>0, Zenon DEF Moved
  <2>4. Entries(k, m - 1) \in Nat
    <3>1. Len(k) \in Nat /\ m - 1 \in 0 .. Len(k)
      BY KernelsGood DEF Counts
    <3> QED BY <3>1, KernelsGood DEF Counts
  <2>5. /\ to + Entries(k, m - 1) + 2 * (l - 1) = to + q
        /\ from + Entries(k, m - 1) + 2 * (l - 1) = from + q
        /\ (to + q) + 1 = to + (q + 1) /\ (from + q) + 1 = from + (q + 1)
    <3>1. l \in Int
      <4>1. Len(k[m].at) \in Nat
        BY Slots
      <4> QED BY <4>1
    <3>2. PICK e \in Nat : e = Entries(k, m - 1)
      BY <2>4
    <3>3. q = e + 2 * (l - 1)
      BY <2>1, <3>2 DEF Slot
    <3>4. PICK d \in Int : d = 2 * (l - 1)
      BY <3>1
    <3>5. q = e + d
      BY <3>3, <3>4
    <3>6. /\ to + e + d = to + q /\ from + e + d = from + q
          /\ (to + q) + 1 = to + (q + 1) /\ (from + q) + 1 = from + (q + 1)
      BY <3>5
    <3> QED BY <3>2, <3>4, <3>6, Zenon
  <2>6. Pair(f, from + q, b, k[m], l)
    <3>1. Pair(f, from + Entries(k, m - 1) + 2 * (l - 1), b, k[m], l)
      BY Zenon DEF Row
    <3> QED BY <3>1, <2>5
  <2>7. Pair(g, to + q, b, k[m], l)
    BY <2>3, <2>5, <2>6 DEF Pair
  <2> QED BY <2>5, <2>7
<1> QED BY <1>0, <1>1, <1>2 DEF Row

\* A row grows by an instruction.
LEMMA RowGrows ==
  ASSUME NEW k \in Kernels, NEW n \in 1 .. Len(k), NEW f, NEW base \in Int, NEW b,
         Row(f, base, b, k, n - 1), NEW r, IsSeq(r), Len(r) = 2 * Len(k[n].at),
         \A l \in 1 .. Len(k[n].at) : Pair(r, 2 * l - 1, b, k[n], l),
         Moved(r, 1, f, base + Entries(k, n - 1), Len(r))
  PROVE  Row(f, base, b, k, n)
<1>0. Counts(k) /\ Len(k) \in Nat /\ n - 1 \in 0 .. Len(k) /\ n \in 0 .. Len(k)
  BY KernelsGood DEF Counts
<1>1. PICK L \in Nat, E \in Nat : L = Len(k[n].at) /\ E = Entries(k, n - 1) /\ Entries(k, n) = E + 2 * L /\ Len(r) = 2 * L
  BY <1>0 DEF Counts
<1>2. base .. base + Entries(k, n) - 1 \subseteq DOMAIN f
  <2> SUFFICES ASSUME NEW p \in base .. base + (E + 2 * L) - 1 PROVE p \in DOMAIN f
    BY <1>1
  <2>1. CASE p < base + E
    <3>1. p \in base .. base + E - 1
      BY <2>1
    <3> QED BY <3>1, <1>1 DEF Row
  <2>2. CASE ~(p < base + E)
    <3>1. p - (base + E) \in 0 .. 2 * L - 1 /\ (base + E) + (p - (base + E)) = p
      BY <2>2
    <3>2. (base + E) + (p - (base + E)) \in DOMAIN f
      BY <3>1, <1>1, Zenon DEF Moved
    <3> QED BY <3>1, <3>2
  <2> QED BY <2>1, <2>2
<1>3. ASSUME NEW m \in 1 .. n, NEW l \in 1 .. Len(k[m].at)
      PROVE  Pair(f, base + Entries(k, m - 1) + 2 * (l - 1), b, k[m], l)
  <2>1. CASE m \in 1 .. n - 1
    BY <2>1, Zenon DEF Row
  <2>2. CASE m \notin 1 .. n - 1
    <3>1. m = n
      BY <2>2, <1>0
    <3>2. l \in 1 .. L
      BY <3>1, <1>1
    <3>3. 2 * (l - 1) \in 0 .. 2 * L - 1 /\ 2 * (l - 1) + 1 \in 0 .. 2 * L - 1
      BY <3>2
    <3>4. PICK p \in Int, q \in Int : p = 2 * (l - 1) /\ q = 2 * (l - 1) + 1
      BY <3>2
    <3>5. f[(base + E) + p] = r[1 + p] /\ f[(base + E) + q] = r[1 + q]
      BY <3>3, <3>4, <1>1, Zenon DEF Moved
    <3>6. /\ 1 + p = 2 * l - 1 /\ 1 + q = (2 * l - 1) + 1
          /\ (base + E) + p = base + E + 2 * (l - 1) /\ (base + E) + q = (base + E + 2 * (l - 1)) + 1
      BY <3>2, <3>4
    <3>7. Pair(r, 2 * l - 1, b, k[n], l)
      BY <3>2, <1>1
    <3>8. Pair(f, base + E + 2 * (l - 1), b, k[n], l)
      BY <3>5, <3>6, <3>7 DEF Pair
    <3> QED BY <3>1, <3>8, <1>1
  <2> QED BY <2>1, <2>2
<1> QED BY <1>2, <1>3 DEF Row

-----------------------------------------------------------------------------
(* The kernel.                                                             *)

\* g is f with the entries r written at at.
Written(g, f, at, r) ==
  g = [x \in DOMAIN f \cup at .. at + Len(r) - 1 |->
         IF x - at + 1 \in DOMAIN r THEN r[x - at + 1] ELSE f[x]]

\* What is written arrives, and nothing else changes.
LEMMA WrittenMoves ==
  ASSUME NEW f, NEW g, NEW at \in Int, NEW r, IsSeq(r), Written(g, f, at, r)
  PROVE  /\ Moved(r, 1, g, at, Len(r))
         /\ \A x \in DOMAIN f : x \in Int /\ x \notin at .. at + Len(r) - 1 =>
              x \in DOMAIN g /\ g[x] = f[x]
         /\ DOMAIN g = DOMAIN f \cup at .. at + Len(r) - 1
<1>1. PICK L \in Nat : L = Len(r) /\ DOMAIN r = 1 .. L
  BY DEF IsSeq
<1>2. DOMAIN g = DOMAIN f \cup at .. at + L - 1
  BY <1>1 DEF Written
<1>3. \A x \in DOMAIN g : g[x] = IF x - at + 1 \in 1 .. L THEN r[x - at + 1] ELSE f[x]
  BY <1>1, <1>2 DEF Written
<1>4. ASSUME NEW q \in 0 .. L - 1 PROVE at + q \in DOMAIN g /\ g[at + q] = r[1 + q]
  <2>1. at + q \in at .. at + L - 1 /\ (at + q) - at + 1 = 1 + q /\ 1 + q \in 1 .. L
    OBVIOUS
  <2> QED BY <2>1, <1>2, <1>3
<1>5. ASSUME NEW x \in DOMAIN f, x \in Int, x \notin at .. at + L - 1
      PROVE  x \in DOMAIN g /\ g[x] = f[x]
  <2>1. x - at + 1 \notin 1 .. L
    BY <1>5
  <2> QED BY <2>1, <1>2, <1>3
<1> QED BY <1>1, <1>2, <1>4, <1>5 DEF Moved

\* Half a row is enough.
LEMMA Enough ==
  ASSUME HalfARow, NEW k \in Kernels
  PROVE  /\ 2 * Size(k) <= Width /\ Size(k) \in Nat /\ Size(k) >= 2 /\ Width \in Nat
         /\ NumBlocks \in Nat /\ NumBlocks >= 1
<1>1. 2 * Size(k) <= Width
  BY DEF HalfARow, Size
<1> QED BY <1>1, KernelsGood, TraceAssumption

\* Two blocks' rows.
LEMMA BlockRows ==
  ASSUME HalfARow, NEW k \in Kernels, NEW b \in BlockIds
  PROVE  /\ b \in Nat /\ b * Width \in Nat /\ b * Width + Width <= NumBlocks * Width
         /\ NumBlocks * Width \in Nat
         /\ \A c \in BlockIds : c < b => c * Width + Width <= b * Width
         /\ \A c \in BlockIds : c > b => b * Width + Width <= c * Width
<1>1. b \in Nat /\ NumBlocks \in Nat /\ Width \in Nat /\ b < NumBlocks
  BY TraceAssumption DEF BlockIds
<1>2. \A c \in BlockIds : c \in Nat
  BY TraceAssumption DEF BlockIds
<1> QED BY <1>1, <1>2, RowsApart

\* The D indices from C are not among the M from A.
Avoids(C, D, A, M) ==
  \A q \in 0 .. D - 1 : C + q \in C .. C + D - 1 /\ C + q \notin A .. A + M - 1 /\ C + q \in Int

\* Two intervals, one below the other, have nothing in common.
LEMMA Clear ==
  ASSUME NEW C \in Nat, NEW D \in Nat, NEW A \in Nat, NEW M \in Nat, C + D <= A \/ A + M <= C
  PROVE  Avoids(C, D, A, M)
BY DEF Avoids

\* Block b writes the entries of instruction n, and the rows of the others stay.
LEMMA WriteRow ==
  ASSUME HalfARow, NEW k \in Kernels, NEW b \in BlockIds, NEW n \in 1 .. Len(k), NEW f, NEW g, NEW r,
         DOMAIN f \subseteq Int,
         Row(f, b * Width, b, k, n - 1), IsSeq(r), Len(r) = 2 * Len(k[n].at),
         \A l \in 1 .. Len(k[n].at) : Pair(r, 2 * l - 1, b, k[n], l),
         Written(g, f, b * Width + Entries(k, n - 1), r)
  PROVE  /\ Row(g, b * Width, b, k, n)
         /\ \A c \in BlockIds : \A m \in 0 .. Len(k) :
              c # b /\ Row(f, c * Width, c, k, m) => Row(g, c * Width, c, k, m)
<1>0. Counts(k) /\ Len(k) \in Nat /\ n - 1 \in 0 .. Len(k) /\ n \in 0 .. Len(k)
  BY KernelsGood DEF Counts
<1>1. PICK L \in Nat, E \in Nat, S \in Nat, W \in Nat, B \in Nat :
        /\ L = Len(k[n].at) /\ E = Entries(k, n - 1) /\ Entries(k, n) = E + 2 * L
        /\ Len(r) = 2 * L /\ S = Size(k) /\ W = Width /\ B = b * Width
        /\ E + 2 * L <= S /\ S <= W
  <2>1. /\ Len(k[n].at) \in Nat /\ Entries(k, n - 1) \in Nat
        /\ Entries(k, n) = Entries(k, n - 1) + 2 * Len(k[n].at)
        /\ Entries(k, n) <= Entries(k, Len(k))
    BY <1>0 DEF Counts
  <2>2. Size(k) \in Nat /\ Width \in Nat /\ Size(k) <= Width
    BY Enough
  <2>3. b * Width \in Nat
    BY BlockRows
  <2> QED BY <2>1, <2>2, <2>3 DEF Size
<1>m. PICK M \in Nat : M = Len(r) /\ E + M <= S /\ S <= W
  BY <1>1
<1>2. /\ Moved(r, 1, g, B + E, Len(r))
      /\ \A x \in DOMAIN f : x \in Int /\ x \notin B + E .. (B + E) + M - 1 =>
           x \in DOMAIN g /\ g[x] = f[x]
  <2>1. Written(g, f, B + E, r) /\ B + E \in Int
    BY <1>1
  <2> QED BY <2>1, <1>m, WrittenMoves
<1>3. Row(g, B, b, k, n - 1)
  <2>1. ASSUME NEW q \in 0 .. E - 1 PROVE B + q \in DOMAIN g /\ g[B + q] = f[B + q]
    <3>0. Avoids(B, E, B + E, M)
      <4>1. B + E \in Nat /\ B + E <= B + E
        OBVIOUS
      <4> QED BY <4>1, Clear
    <3>1. B + q \in B .. B + E - 1 /\ B + q \notin B + E .. (B + E) + M - 1 /\ B + q \in Int
      BY <3>0, Zenon DEF Avoids
    <3>2. B + q \in DOMAIN f
      BY <3>1, <1>1 DEF Row
    <3> QED BY <3>1, <3>2, <1>2
  <2>2. Moved(f, B, g, B, Entries(k, n - 1))
    BY <2>1, <1>1, Zenon DEF Moved
  <2>3. Row(f, B, b, k, n - 1) /\ B \in Int
    BY <1>1
  <2> QED BY <2>2, <2>3, <1>0, RowMoved
<1>4. Row(g, B, b, k, n)
  <2>1. Moved(r, 1, g, B + Entries(k, n - 1), Len(r)) /\ B \in Int
    BY <1>1, <1>2
  <2> QED BY <2>1, <1>3, RowGrows
<1>5. ASSUME NEW c \in BlockIds, NEW m \in 0 .. Len(k), c # b, Row(f, c * Width, c, k, m)
      PROVE  Row(g, c * Width, c, k, m)
  <2>1. PICK D \in Nat, C \in Nat : D = Entries(k, m) /\ D <= S /\ C = c * Width
    <3>1. Entries(k, m) \in Nat /\ Entries(k, m) <= Entries(k, Len(k))
      BY <1>0 DEF Counts
    <3>2. c * Width \in Nat
      BY BlockRows
    <3> QED BY <3>1, <3>2, <1>1 DEF Size
  <2>D. D <= S
    BY <2>1
  <2>2. C + W <= B \/ B + W <= C
    <3>1. c < b \/ c > b
      BY <1>5, TraceAssumption DEF BlockIds
    <3> QED BY <3>1, <2>1, <1>1, BlockRows
  <2>3. ASSUME NEW q \in 0 .. D - 1 PROVE C + q \in DOMAIN g /\ g[C + q] = f[C + q]
    <3>0. Avoids(C, D, B + E, M)
      <4>1. B + E \in Nat
        OBVIOUS
      <4>2. E + M <= S /\ S <= W
        BY <1>m
      <4>3. CASE C + W <= B
        <5>1. C + D <= B + E
          BY <4>2, <4>3, <2>D
        <5> QED BY <4>1, <5>1, Clear
      <4>4. CASE B + W <= C
        <5>1. (B + E) + M <= C
          BY <4>2, <4>4, <2>D
        <5> QED BY <4>1, <5>1, Clear
      <4> QED BY <2>2, <4>3, <4>4
    <3>1. C + q \in C .. C + D - 1 /\ C + q \notin B + E .. (B + E) + M - 1 /\ C + q \in Int
      BY <3>0, Zenon DEF Avoids
    <3>2. C + q \in DOMAIN f
      BY <3>1, <2>1, <1>5 DEF Row
    <3> QED BY <3>1, <3>2, <1>2
  <2>4. Moved(f, C, g, C, Entries(k, m))
    BY <2>1, <2>3, Zenon DEF Moved
  <2>5. Row(f, C, c, k, m)
    BY <2>1, <1>5
  <2>6. Row(g, C, c, k, m)
    BY <2>4, <2>5, RowMoved
  <2> QED BY <2>1, <2>6
<1> QED BY <1>1, <1>4, <1>5

\* Init establishes TraceInv.
LEMMA InitTrace == Init => TraceInv
<1> SUFFICES ASSUME Init PROVE TraceInv
  OBVIOUS
<1>1. NumBlocks * Width \in Nat /\ Width \in Nat
  BY TraceAssumption
<1>2. DOMAIN fmtd16 = {}
  BY DEF Init
<1>3. Types
  BY <1>1, <1>2 DEF Types, Init
<1> QED BY <1>3 DEF TraceInv, Init

\* Launch keeps TraceInv.
LEMMA LaunchKeeps ==
  ASSUME TraceInv, NEW k \in Kernels, Launch(k)
  PROVE  TraceInv'
<1>1. NumBlocks \in Nat /\ NumBlocks >= 1 /\ 0 \in BlockIds
  BY TraceAssumption DEF BlockIds
<1>2. /\ pc = "idle" /\ pc' = "kernel" /\ kernel' = k /\ next' = [b \in BlockIds |-> 0]
      /\ ridx' = ridx /\ frd_size' = frd_size /\ fmtd16' = fmtd16 /\ i' = i
  BY DEF Launch
<1>3. frd_size = 0 /\ fmtd16 = << >> /\ Types
  BY <1>2 DEF TraceInv
<1>4. Types'
  BY <1>2, <1>3 DEF Types
<1>5. Len(k) \in Nat /\ Len(k) >= 1
  BY KernelsGood DEF GoodKernel, IsSeq
<1>6. \A b \in BlockIds : next'[b] = 0
  BY <1>2
<1>7. frd_size' = IF next'[0] = Len(kernel') + 1 THEN Size(kernel') ELSE 0
  BY <1>1, <1>2, <1>3, <1>5, <1>6
<1>8. KernelInv'
  BY <1>2, <1>5, <1>6, <1>7 DEF KernelInv
<1> QED BY <1>2, <1>4, <1>8 DEF TraceInv

\* Start keeps TraceInv: a block starts at its own row, which no other has
\* written.
LEMMA StartKeeps ==
  ASSUME TraceInv, NEW b \in BlockIds, Start(b)
  PROVE  TraceInv'
<1>1. /\ pc = "kernel" /\ pc' = "kernel" /\ kernel' = kernel /\ next[b] = 0
      /\ next' = [next EXCEPT ![b] = 1] /\ ridx' = [ridx EXCEPT ![b] = 0]
      /\ frd_size' = frd_size /\ fmtd16' = fmtd16 /\ i' = i
  BY DEF Start
<1>2. KernelInv /\ Types
  BY <1>1 DEF TraceInv
<1>3. PICK k \in Kernels : k = kernel /\ kernel' = k
  BY <1>1, <1>2 DEF KernelInv
<1>4. Len(k) \in Nat /\ Len(k) >= 1 /\ Entries(k, 0) = 0
  BY KernelsGood DEF GoodKernel, IsSeq, Counts
<1>5. Types'
  BY <1>1, <1>2, TraceAssumption DEF Types
<1>6. /\ next'[b] = 1 /\ ridx'[b] = 0
      /\ \A c \in BlockIds : c # b => next'[c] = next[c] /\ ridx'[c] = ridx[c]
  BY <1>1, <1>2 DEF Types
<1>7. ASSUME NEW c \in BlockIds
      PROVE  /\ next'[c] \in 0 .. Len(k) + 1
             /\ next'[c] > 0 => /\ ridx'[c] = Entries(k, next'[c] - 1)
                                /\ Row(fmtd16', c * Width, c, k, next'[c] - 1)
  <2>1. CASE c = b
    <3>1. next'[c] = 1 /\ next'[c] - 1 = 0 /\ ridx'[c] = 0
      BY <2>1, <1>6
    <3>2. c * Width \in Int
      BY TraceAssumption DEF BlockIds
    <3>3. Row(fmtd16', c * Width, c, k, 0)
      BY <1>4, <3>2 DEF Row
    <3> QED BY <3>1, <3>3, <1>4
  <2>2. CASE c # b
    BY <2>2, <1>1, <1>2, <1>3, <1>6 DEF KernelInv
  <2> QED BY <2>1, <2>2
<1>8. frd_size' = IF next'[0] = Len(k) + 1 THEN Size(k) ELSE 0
  <2>1. 0 \in BlockIds
    BY TraceAssumption DEF BlockIds
  <2>2. frd_size = IF next[0] = Len(k) + 1 THEN Size(k) ELSE 0
    BY <1>2, <1>3 DEF KernelInv
  <2>3. next'[0] = next[0] \/ (next[0] = 0 /\ next'[0] = 1)
    BY <1>1, <1>6, <2>1
  <2> QED BY <2>2, <2>3, <1>1, <1>4
<1>9. KernelInv'
  BY <1>3, <1>7, <1>8, Zenon DEF KernelInv
<1> QED BY <1>1, <1>5, <1>9 DEF TraceInv

\* Execute keeps TraceInv: what a lane records leaves the rows of the others
\* alone.
LEMMA ExecuteKeeps ==
  ASSUME HalfARow, TraceInv, NEW b \in BlockIds, Execute(b)
  PROVE  TraceInv'
<1>1. /\ pc = "kernel" /\ pc' = "kernel" /\ kernel' = kernel /\ next[b] \in DOMAIN kernel
      /\ next' = [next EXCEPT ![b] = @ + 1] /\ i' = i
      /\ frd_size' = IF b = 0 /\ next[b] = Len(kernel) THEN ridx'[0] ELSE frd_size
  BY DEF Execute
<1>2. KernelInv /\ Types
  BY <1>1 DEF TraceInv
<1>3. PICK k \in Kernels : k = kernel /\ kernel' = k
  BY <1>1, <1>2 DEF KernelInv
<1>4. GoodKernel(k) /\ Counts(k) /\ Len(k) \in Nat /\ Len(k) >= 1 /\ DOMAIN k = 1 .. Len(k)
  BY KernelsGood DEF GoodKernel, IsSeq
<1>5. PICK n \in 1 .. Len(k) : n = next[b] /\ n \in Nat
  BY <1>1, <1>3, <1>4
<1>6. PICK ins : ins = k[n] /\ GoodIns(ins)
  BY <1>4 DEF GoodKernel
<1>7. PICK sw \in SUBSET DOMAIN ins.at :
        /\ ins.cmd = "B" => sw = {}
        /\ Written(fmtd16', fmtd16, b * Width + ridx[b], Recorded(b, ins, sw))
        /\ ridx' = [ridx EXCEPT ![b] = @ + Len(Recorded(b, ins, sw))]
  BY <1>3, <1>5, <1>6, ZenonT(30) DEF Execute, Written
<1>8. PICK r : r = Recorded(b, ins, sw)
  OBVIOUS
<1>9. /\ IsSeq(r) /\ Len(r) = 2 * Len(k[n].at)
      /\ \A l \in 1 .. Len(k[n].at) : Pair(r, 2 * l - 1, b, k[n], l)
  BY <1>6, <1>7, <1>8, RecordedPairs
<1>10. ridx[b] = Entries(k, n - 1) /\ Row(fmtd16, b * Width, b, k, n - 1)
  <2>1. next[b] > 0
    BY <1>5
  <2> QED BY <2>1, <1>2, <1>3, <1>5 DEF KernelInv
<1>11. /\ next'[b] = n + 1 /\ ridx'[b] = Entries(k, n - 1) + Len(r)
       /\ \A c \in BlockIds : c # b => next'[c] = next[c] /\ ridx'[c] = ridx[c]
  BY <1>1, <1>2, <1>5, <1>7, <1>8, <1>10 DEF Types
<1>12. /\ Entries(k, n) = Entries(k, n - 1) + 2 * Len(k[n].at) /\ Len(k[n].at) \in Nat
       /\ Entries(k, n - 1) \in Nat /\ Entries(k, n) \in Nat /\ Entries(k, n) <= Size(k)
  <2>1. n - 1 \in 0 .. Len(k) /\ n \in 0 .. Len(k) /\ Len(k) \in 0 .. Len(k) /\ n <= Len(k)
    BY <1>4
  <2> QED BY <2>1, <1>4 DEF Counts, Size
<1>13. ridx'[b] = Entries(k, n)
  BY <1>9, <1>11, <1>12
<1>14. Written(fmtd16', fmtd16, b * Width + Entries(k, n - 1), r)
  BY <1>7, <1>8, <1>10
<1>15. DOMAIN fmtd16 \subseteq Int
  BY <1>2, TraceAssumption DEF Types
<1>16. PICK f, g : f = fmtd16 /\ g = fmtd16'
  OBVIOUS
<1>17. /\ Row(g, b * Width, b, k, n)
       /\ \A c \in BlockIds : \A m \in 0 .. Len(k) :
            c # b /\ Row(f, c * Width, c, k, m) => Row(g, c * Width, c, k, m)
  BY <1>9, <1>10, <1>14, <1>15, <1>16, WriteRow
<1>18. ASSUME NEW c \in BlockIds
       PROVE  /\ next'[c] \in 0 .. Len(k) + 1
              /\ next'[c] > 0 => /\ ridx'[c] = Entries(k, next'[c] - 1)
                                 /\ Row(g, c * Width, c, k, next'[c] - 1)
  <2>1. CASE c = b
    <3>1. next'[c] - 1 = n /\ next'[c] \in 0 .. Len(k) + 1
      BY <2>1, <1>4, <1>11
    <3> QED BY <2>1, <3>1, <1>13, <1>17
  <2>2. CASE c # b
    <3>1. /\ next[c] \in 0 .. Len(k) + 1
          /\ next[c] > 0 => /\ ridx[c] = Entries(k, next[c] - 1)
                            /\ Row(f, c * Width, c, k, next[c] - 1)
      BY <1>2, <1>3, <1>16 DEF KernelInv
    <3>2. next[c] > 0 => next[c] - 1 \in 0 .. Len(k)
      BY <3>1, <1>4
    <3> QED BY <2>2, <3>1, <3>2, <1>11, <1>17
  <2> QED BY <2>1, <2>2
<1>19. frd_size' = IF next'[0] = Len(k) + 1 THEN Size(k) ELSE 0
  <2>0. 0 \in BlockIds
    BY TraceAssumption DEF BlockIds
  <2>1. frd_size = IF next[0] = Len(k) + 1 THEN Size(k) ELSE 0
    BY <1>2, <1>3 DEF KernelInv
  <2>2. CASE b = 0
    <3>1. CASE n = Len(k)
      BY <2>2, <3>1, <1>1, <1>3, <1>4, <1>5, <1>11, <1>13 DEF Size
    <3>2. CASE n # Len(k)
      BY <2>1, <2>2, <3>2, <1>1, <1>3, <1>4, <1>5, <1>11
    <3> QED BY <3>1, <3>2
  <2>3. CASE b # 0
    BY <2>0, <2>1, <2>3, <1>1, <1>11
  <2> QED BY <2>2, <2>3
<1>20. KernelInv'
  BY <1>3, <1>16, <1>18, <1>19, Zenon DEF KernelInv
<1>21. Types'
  <2>1. Size(k) \in Nat /\ 2 * Size(k) <= Width /\ Width \in Nat /\ NumBlocks \in Nat /\ NumBlocks >= 1
    BY Enough
  <2>2. ridx' \in [BlockIds -> 0 .. Width]
    <3>1. Entries(k, n) \in 0 .. Width
      BY <2>1, <1>12
    <3>2. ridx' = [ridx EXCEPT ![b] = Entries(k, n)]
      BY <1>7, <1>8, <1>9, <1>10, <1>12
    <3> QED BY <3>1, <3>2, <1>2 DEF Types
  <2>3. next' \in [BlockIds -> Nat]
    BY <1>1, <1>2 DEF Types
  <2>4. Size(k) <= NumBlocks * Width
    <3>1. 0 * Width + Width <= NumBlocks * Width
      BY <2>1, RowsApart
    <3> QED BY <2>1, <3>1
  <2>5. frd_size' \in 0 .. NumBlocks * Width
    BY <2>1, <2>4, <1>19, TraceAssumption
  <2>6. DOMAIN fmtd16' \subseteq 0 .. NumBlocks * Width - 1
    <3>1. PICK at \in Nat : at = b * Width + Entries(k, n - 1) /\ at + Len(r) <= NumBlocks * Width /\ Len(r) \in Nat
      <4>1. b * Width \in Nat /\ b * Width + Width <= NumBlocks * Width /\ NumBlocks * Width \in Nat
        BY BlockRows
      <4>2. PICK B \in Nat, N \in Nat, W \in Nat, E \in Nat, L \in Nat, S \in Nat :
              /\ B = b * Width /\ N = NumBlocks * Width /\ W = Width
              /\ E = Entries(k, n - 1) /\ L = Len(k[n].at) /\ S = Size(k)
        BY <4>1, <2>1, <1>12, Zenon
      <4>3. B + W <= N
        BY <4>1, <4>2
      <4>4. 2 * S <= W
        BY <2>1, <4>2
      <4>5. E + 2 * L <= S
        BY <1>12, <4>2
      <4>6. (B + E) + 2 * L <= N /\ B + E \in Nat
        BY <4>3, <4>4, <4>5
      <4>7. Len(r) = 2 * L
        BY <1>9, <4>2
      <4> QED BY <4>2, <4>6, <4>7, SMTT(30)
    <3>2. Written(g, f, at, r) /\ at \in Int
      BY <3>1, <1>14, <1>16
    <3>3. DOMAIN g = DOMAIN f \cup at .. at + Len(r) - 1
      BY <3>2, <1>9, WrittenMoves
    <3>4. PICK N \in Nat : N = NumBlocks * Width /\ at + Len(r) <= N
      BY <3>1, <2>1
    <3>5. at .. at + Len(r) - 1 \subseteq 0 .. N - 1
      BY <3>1, <3>4
    <3> QED BY <3>3, <3>4, <3>5, <1>2, <1>16 DEF Types
  <2> QED BY <2>2, <2>3, <2>5, <2>6, <1>1, <1>2 DEF Types
<1> QED BY <1>1, <1>20, <1>21 DEF TraceInv

-----------------------------------------------------------------------------
(* The executor moves the rows together.                                   *)

LEMMA SynchronizedKeeps ==
  ASSUME HalfARow, TraceInv, Synchronized
  PROVE  TraceInv'
<1>1. /\ pc = "kernel" /\ pc' = "collect" /\ i' = 1 /\ Finished
      /\ kernel' = kernel /\ next' = next /\ ridx' = ridx /\ frd_size' = frd_size /\ fmtd16' = fmtd16
  BY DEF Synchronized
<1>2. KernelInv /\ Types
  BY <1>1 DEF TraceInv
<1>3. PICK k \in Kernels : k = kernel /\ kernel' = k
  BY <1>1, <1>2 DEF KernelInv
<1>4. Len(k) \in Nat
  BY KernelsGood DEF Counts
<1>5. /\ Size(k) \in Nat /\ Size(k) >= 2 /\ 2 * Size(k) <= Width /\ Width \in Nat
      /\ NumBlocks \in Nat /\ NumBlocks >= 1
  BY Enough
<1>6. \A b \in BlockIds : next[b] = Len(k) + 1
  BY <1>1, <1>3 DEF Finished
<1>7. frd_size = Size(k)
  <2>1. 0 \in BlockIds
    BY TraceAssumption DEF BlockIds
  <2> QED BY <2>1, <1>2, <1>3, <1>6 DEF KernelInv
<1>8. ASSUME NEW b \in BlockIds
      PROVE  Row(fmtd16, Base(k, 1, b), b, k, Len(k))
  <2>1. next[b] > 0 /\ next[b] - 1 = Len(k)
    BY <1>4, <1>6
  <2>2. Row(fmtd16, b * Width, b, k, Len(k))
    BY <2>1, <1>2, <1>3 DEF KernelInv
  <2>3. b < 1 => b = 0
    BY <1>5 DEF BlockIds
  <2>4. 0 * Size(k) = 0 * Width
    BY <1>5
  <2> QED BY <2>2, <2>3, <2>4 DEF Base
<1>9. CollectInv'
  <2>1. i' \in 1 .. NumBlocks
    BY <1>1, <1>5
  <2> QED BY <2>1, <1>1, <1>3, <1>7, <1>8, Zenon DEF CollectInv
<1>10. Types'
  <2>1. 0 * Width + Width <= NumBlocks * Width /\ NumBlocks * Width \in Nat
    BY <1>5, RowsApart
  <2>2. 1 \in 0 .. NumBlocks * Width
    BY <2>1, <1>5
  <2> QED BY <2>2, <1>1, <1>2 DEF Types
<1> QED BY <1>1, <1>9, <1>10 DEF TraceInv

\* g is f after the entries at V were copied to I and the places up to T.
Copied(g, f, I, V, T) ==
  LET moved == I .. T - 1
      from(n) == n - I + V
      shared == {n \in moved : from(n) \in moved}
      kept == {n \in DOMAIN f : n \notin moved}
      arrived == {n \in moved : from(n) \in DOMAIN f}
  IN  \E lost \in {{}, shared} :
        g = [n \in kept \cup (arrived \ lost) |-> IF n \in moved THEN f[from(n)] ELSE f[n]]

\* The copy is complete, and leaves alone what is elsewhere.
CopyOf(g, f, I, V, S) ==
  /\ \A q \in 0 .. S - 1 : V + q \in DOMAIN f => I + q \in DOMAIN g /\ g[I + q] = f[V + q]
  /\ \A x \in DOMAIN f : x \notin I .. I + S - 1 => x \in DOMAIN g /\ g[x] = f[x]
  /\ \A x \in DOMAIN g : x \in DOMAIN f \/ (x \in I .. I + S - 1 /\ x - I + V \in DOMAIN f)

\* Between places that do not overlap nothing is lost.
LEMMA CopiedMoves ==
  ASSUME NEW f, NEW g, NEW I \in Nat, NEW V \in Nat, NEW S \in Nat, I + S <= V, Copied(g, f, I, V, I + S)
  PROVE  CopyOf(g, f, I, V, S)
<1>0. PICK T \in Nat : T = I + S
  OBVIOUS
<1>c. Copied(g, f, I, V, T)
  BY <1>0
<1> DEFINE moved == I .. T - 1
<1>1. moved = I .. I + S - 1
  BY <1>0
<1>2. \A n \in moved : n \in Int /\ n - I + V \notin moved
  BY <1>1
<1>3. PICK lost \in {{}, {n \in moved : n - I + V \in moved}} :
        g = [n \in {n \in DOMAIN f : n \notin moved} \cup ({n \in moved : n - I + V \in DOMAIN f} \ lost) |->
               IF n \in moved THEN f[n - I + V] ELSE f[n]]
  BY <1>c, Zenon DEF Copied
<1> HIDE DEF moved
<1>4. lost = {}
  BY <1>2, <1>3
<1>5. \A n : n \in DOMAIN g <=>
               \/ n \in DOMAIN f /\ n \notin moved
               \/ n \in moved /\ n - I + V \in DOMAIN f
  BY <1>3, <1>4
<1>6. \A n \in DOMAIN g : g[n] = IF n \in moved THEN f[n - I + V] ELSE f[n]
  BY <1>3, <1>4
<1>7. ASSUME NEW q \in 0 .. S - 1, V + q \in DOMAIN f
      PROVE  I + q \in DOMAIN g /\ g[I + q] = f[V + q]
  <2>1. I + q \in moved /\ (I + q) - I + V = V + q
    BY <1>1
  <2> QED BY <2>1, <1>5, <1>6, <1>7
<1>8. ASSUME NEW x \in DOMAIN f, x \notin moved
      PROVE  x \in DOMAIN g /\ g[x] = f[x]
  BY <1>5, <1>6, <1>8
<1> QED BY <1>1, <1>5, <1>7, <1>8 DEF CopyOf

\* The rows after that of block j was moved.
LEMMA CollectRows ==
  ASSUME HalfARow, NEW k \in Kernels, NEW j \in 1 .. NumBlocks - 1, NEW f, NEW g,
         \A b \in BlockIds : Row(f, Base(k, j, b), b, k, Len(k)),
         Copied(g, f, j * Size(k), j * Width, j * Size(k) + Size(k)),
         NEW b \in BlockIds
  PROVE  Row(g, Base(k, j + 1, b), b, k, Len(k))
<1>0. /\ NumBlocks \in Nat /\ Len(k) \in Nat /\ Len(k) \in 0 .. Len(k) /\ b \in Nat /\ j \in Nat
      /\ Entries(k, Len(k)) = Size(k) /\ j \in BlockIds /\ Size(k) \in Nat /\ Width \in Nat
  BY TraceAssumption, KernelsGood DEF Counts, BlockIds, Size
<1>1. PICK S \in Nat, W \in Nat, I \in Nat, V \in Nat :
        S = Size(k) /\ W = Width /\ I = j * Size(k) /\ V = j * Width
  <2>1. j * Size(k) \in Nat /\ j * Width \in Nat
    BY <1>0
  <2> QED BY <2>1, <1>0, Zenon
<1>2. I + S <= V /\ 2 * S <= W
  <2>1. 2 * Size(k) <= Width
    BY Enough
  <2>2. 2 * S <= W
    BY <2>1, <1>1
  <2>3. PICK d \in Nat : W = S + S + d
    <3>1. W - (S + S) \in Nat /\ W = S + S + (W - (S + S))
      BY <2>2
    <3> QED BY <3>1
  <2>4. PICK e \in Nat : j = 1 + e
    <3>1. j - 1 \in Nat /\ j = 1 + (j - 1)
      BY <1>0
    <3> QED BY <3>1
  <2>5. j * W = j * S + S + e * S + j * d
    BY <2>3, <2>4
  <2>6. e * S \in Nat /\ j * d \in Nat /\ j * S \in Nat
    BY <1>0
  <2>7. j * S + S <= j * W
    BY <2>5, <2>6
  <2>8. j * S = I /\ j * W = V
    BY <1>1
  <2> QED BY <2>2, <2>7, <2>8
<1>3. /\ \A q \in 0 .. S - 1 : V + q \in DOMAIN f => I + q \in DOMAIN g /\ g[I + q] = f[V + q]
      /\ \A x \in DOMAIN f : x \notin I .. I + S - 1 => x \in DOMAIN g /\ g[x] = f[x]
  <2>1. Copied(g, f, I, V, I + S) /\ I + S <= V
    BY <1>1, <1>2
  <2>2. CopyOf(g, f, I, V, S)
    BY <2>1, CopiedMoves
  <2> QED BY <2>2, Zenon DEF CopyOf
<1>4. PICK C \in Nat, D \in Nat : C = Base(k, j, b) /\ D = Base(k, j + 1, b)
  <2>1. b * Size(k) \in Nat /\ b * Width \in Nat
    BY <1>0
  <2> QED BY <2>1 DEF Base
<1>5. C .. C + S - 1 \subseteq DOMAIN f
  BY <1>0, <1>1, <1>4 DEF Row
<1>6. ASSUME NEW q \in 0 .. S - 1 PROVE D + q \in DOMAIN g /\ g[D + q] = f[C + q]
  <2>1. C + q \in DOMAIN f
    <3>1. C + q \in C .. C + S - 1
      OBVIOUS
    <3> QED BY <3>1, <1>5
  <2>2. CASE b < j
    <3>1. C = b * Size(k) /\ D = C
      BY <2>2, <1>0, <1>4 DEF Base
    <3>2. C + S <= I
      BY <2>2, <3>1, <1>0, <1>1, RowsApart
    <3>3. C + q \notin I .. I + S - 1
      BY <3>2
    <3> QED BY <2>1, <3>1, <3>3, <1>3
  <2>3. CASE b = j
    <3>1. C = V /\ D = I
      <4>1. ~(b < j) /\ b < j + 1
        BY <2>3, <1>0
      <4>2. C = b * Width /\ D = b * Size(k)
        BY <4>1, <1>4, Zenon DEF Base
      <4> QED BY <2>3, <4>2, <1>1, Zenon
    <3> QED BY <2>1, <3>1, <1>3
  <2>4. CASE b > j
    <3>1. C = b * Width /\ D = C
      BY <2>4, <1>0, <1>4 DEF Base
    <3>2. V + W <= C
      BY <2>4, <3>1, <1>0, <1>1, RowsApart
    <3>3. C + q \notin I .. I + S - 1
      BY <3>2, <1>2
    <3> QED BY <2>1, <3>1, <3>3, <1>3
  <2> QED BY <2>2, <2>3, <2>4, <1>0
<1>7. Moved(f, C, g, D, Entries(k, Len(k)))
  BY <1>0, <1>1, <1>6 DEF Moved
<1>8. Row(f, C, b, k, Len(k))
  BY <1>4
<1>9. Row(g, D, b, k, Len(k))
  BY <1>0, <1>7, <1>8, RowMoved
<1> QED BY <1>4, <1>9

\* Collect keeps TraceInv: a row moved down overwrites no row still to move.
LEMMA CollectKeeps ==
  ASSUME HalfARow, TraceInv, Collect
  PROVE  TraceInv'
<1>1. /\ pc = "collect" /\ pc' = "collect" /\ i < NumBlocks /\ i' = i + 1
      /\ kernel' = kernel /\ next' = next /\ ridx' = ridx /\ frd_size' = frd_size
  BY DEF Collect
<1>2. CollectInv /\ Types
  BY <1>1 DEF TraceInv
<1>3. PICK k \in Kernels : k = kernel /\ kernel' = k
  BY <1>1, <1>2 DEF CollectInv
<1>4. PICK j \in 1 .. NumBlocks - 1 : j = i /\ i' = j + 1
  BY <1>1, <1>2, TraceAssumption DEF CollectInv
<1>5. PICK f, g : f = fmtd16 /\ g = fmtd16'
  OBVIOUS
<1>6. frd_size = Size(k) /\ \A b \in BlockIds : Row(f, Base(k, j, b), b, k, Len(k))
  BY <1>2, <1>3, <1>4, <1>5 DEF CollectInv
<1>7. /\ Size(k) \in Nat /\ 2 * Size(k) <= Width /\ Width \in Nat
      /\ NumBlocks \in Nat /\ NumBlocks >= 1 /\ j \in Nat
  BY Enough
<1>8. (j + 1) * Size(k) = j * Size(k) + Size(k)
  BY <1>7
<1>9. Copied(g, f, j * Size(k), j * Width, j * Size(k) + Size(k))
  <2>1. PICK S, I, V : S = Size(k) /\ I = j * Size(k) /\ V = j * Width /\ (j + 1) * Size(k) = I + S
    BY <1>8
  <2>2. frd_size = S /\ i * frd_size = I /\ i * Width = V /\ (i + 1) * frd_size = I + S
    BY <2>1, <1>4, <1>6, Zenon
  <2>3. Copied(fmtd16', fmtd16, i * frd_size, i * Width, (i + 1) * frd_size)
    BY Zenon DEF Collect, Copied
  <2> QED BY <2>1, <2>2, <2>3, <1>5, Zenon
<1>10. \A b \in BlockIds : Row(g, Base(k, j + 1, b), b, k, Len(k))
  BY <1>6, <1>9, CollectRows
<1>11. CollectInv'
  <2>1. i' \in 1 .. NumBlocks
    BY <1>4, <1>7
  <2> QED BY <2>1, <1>1, <1>3, <1>4, <1>5, <1>6, <1>10, Zenon DEF CollectInv
<1>12. Types'
  <2>1. PICK N \in Nat : N = NumBlocks * Width
    BY <1>7
  <2>2. PICK I \in Nat, V \in Nat, S \in Nat : I = j * Size(k) /\ V = j * Width /\ S = Size(k)
    <3>1. j * Size(k) \in Nat /\ j * Width \in Nat
      BY <1>7
    <3> QED BY <3>1, <1>7, Zenon
  <2>3. I + S <= V
    <3>1. PICK W \in Nat : W = Width /\ 2 * S <= W
      BY <2>2, <1>7
    <3>2. PICK d \in Nat : W = S + S + d
      <4>1. W - (S + S) \in Nat /\ W = S + S + (W - (S + S))
        BY <3>1
      <4> QED BY <4>1
    <3>3. PICK e \in Nat : j = 1 + e
      <4>1. j - 1 \in Nat /\ j = 1 + (j - 1)
        BY <1>7
      <4> QED BY <4>1
    <3>4. j * W = j * S + S + e * S + j * d
      BY <3>2, <3>3
    <3>5. e * S \in Nat /\ j * d \in Nat /\ j * S \in Nat
      BY <1>7
    <3>6. j * S + S <= j * W
      BY <3>4, <3>5
    <3> QED BY <3>1, <3>6, <2>2
  <2>4. CopyOf(g, f, I, V, S)
    BY <2>2, <2>3, <1>9, CopiedMoves
  <2>5. ASSUME NEW x \in DOMAIN g PROVE x \in 0 .. N - 1
    <3>1. DOMAIN f \subseteq 0 .. N - 1
      BY <2>1, <1>2, <1>5 DEF Types
    <3>2. x \in DOMAIN f \/ (x \in I .. I + S - 1 /\ x - I + V \in DOMAIN f)
      BY <2>4, Zenon DEF CopyOf
    <3>3. CASE x \in DOMAIN f
      BY <3>1, <3>3
    <3>4. CASE x \in I .. I + S - 1 /\ x - I + V \in DOMAIN f
      <4>1. x - I + V \in 0 .. N - 1
        BY <3>1, <3>4
      <4> QED BY <4>1, <3>4, <2>3
    <3> QED BY <3>2, <3>3, <3>4
  <2>6. DOMAIN fmtd16' \subseteq 0 .. NumBlocks * Width - 1
    BY <2>1, <2>5, <1>5
  <2>7. i' \in 0 .. NumBlocks * Width
    <3>1. j * Width + Width <= NumBlocks * Width
      BY <1>7, RowsApart
    <3>2. PICK W \in Nat : W = Width /\ W >= 2 /\ NumBlocks * W = N
      BY <1>7, <2>1, Enough
    <3>3. PICK w \in Nat : W = 1 + w
      <4>1. W - 1 \in Nat /\ W = 1 + (W - 1)
        BY <3>2
      <4> QED BY <4>1
    <3>4. NumBlocks * W = NumBlocks + NumBlocks * w /\ NumBlocks * w \in Nat
      BY <3>3, <1>7
    <3>5. NumBlocks <= N
      BY <3>2, <3>4, <1>7
    <3>6. j + 1 \in 0 .. N
      BY <3>5, <1>7
    <3> QED BY <3>6, <2>1, <1>4
  <2> QED BY <2>6, <2>7, <1>1, <1>2 DEF Types
<1> QED BY <1>1, <1>11, <1>12 DEF TraceInv

-----------------------------------------------------------------------------
(* The commands expected, lane by lane.                                    *)

LEMMA LanesStep ==
  ASSUME NEW b, NEW ins
  PROVE  /\ Lanes0(b, ins, 0) = << >>
         /\ \A l \in Nat : /\ IsSeq(Lanes0(b, ins, l)) /\ IsSeq(LaneCommands(b, ins, l))
                           /\ Lanes0(b, ins, l + 1) = Lanes0(b, ins, l) \o LaneCommands(b, ins, l + 1)
<1>1. \A l : IsSeq(LaneCommands(b, ins, l))
  <2>1. IsSeq(<< >>) /\ \A x : IsSeq(<<x>>) /\ \A y : IsSeq(<<x, y>>)
    BY DEF IsSeq, Range
  <2> QED BY <2>1, Zenon DEF LaneCommands
<1>2. Lanes0(b, ins, 0) = << >>
  <2>1. [q \in 1 .. 0 |-> LaneCommands(b, ins, q)] = << >>
    OBVIOUS
  <2> QED BY <2>1, FlattenEmpty DEF Lanes0
<1>3. ASSUME NEW l \in Nat
      PROVE  /\ IsSeq(Lanes0(b, ins, l))
             /\ Lanes0(b, ins, l + 1) = Lanes0(b, ins, l) \o LaneCommands(b, ins, l + 1)
  <2>1. PICK s, t : /\ s = [q \in 1 .. l + 1 |-> LaneCommands(b, ins, q)]
                    /\ t = [q \in 1 .. l |-> LaneCommands(b, ins, q)]
    OBVIOUS
  <2>2. IsFamily(s, l + 1) /\ IsFamily(t, l) /\ SameUpTo(s, t, l) /\ s[l + 1] = LaneCommands(b, ins, l + 1)
    BY <1>1, <2>1 DEF IsFamily, SameUpTo
  <2>3. FlattenSeq(s) = FlattenSeq(t) \o s[l + 1] /\ IsSeq(FlattenSeq(t))
    BY <2>2, FlattenStep
  <2> QED BY <2>1, <2>2, <2>3 DEF Lanes0
<1> QED BY <1>1, <1>2, <1>3

\* The commands expected of a block, instruction by instruction.
LEMMA InsStep ==
  ASSUME NEW k \in Kernels, NEW b
  PROVE  /\ Ins0(k, b, 0) = << >> /\ BlockCommands(k, b) = Ins0(k, b, Len(k))
         /\ \A n \in 0 .. Len(k) : IsSeq(Ins0(k, b, n))
         /\ \A n \in 1 .. Len(k) : Ins0(k, b, n) = Ins0(k, b, n - 1) \o Lanes0(b, k[n], Len(k[n].at))
<1>0. Len(k) \in Nat /\ DOMAIN k = 1 .. Len(k) /\ \A n \in 1 .. Len(k) : GoodIns(k[n])
  BY KernelsGood DEF GoodKernel, IsSeq
<1>1. ASSUME NEW n \in 1 .. Len(k)
      PROVE  Commands(b, k[n]) = Lanes0(b, k[n], Len(k[n].at)) /\ IsSeq(Commands(b, k[n]))
  <2>1. DOMAIN k[n].at = 1 .. Len(k[n].at) /\ Len(k[n].at) \in Nat
    BY <1>0 DEF GoodIns
  <2>2. Commands(b, k[n]) = Lanes0(b, k[n], Len(k[n].at))
    BY <2>1, Zenon DEF Commands, Lanes0
  <2> QED BY <2>1, <2>2, LanesStep
<1>2. Ins0(k, b, 0) = << >>
  <2>1. [m \in 1 .. 0 |-> Commands(b, k[m])] = << >>
    OBVIOUS
  <2> QED BY <2>1, FlattenEmpty DEF Ins0
<1>3. BlockCommands(k, b) = Ins0(k, b, Len(k))
  BY <1>0, Zenon DEF BlockCommands, Ins0
<1>4. \A n \in 1 .. Len(k) : IsSeq(Commands(b, k[n]))
  BY <1>1
<1>5. ASSUME NEW n \in 0 .. Len(k), n + 1 <= Len(k)
      PROVE  IsSeq(Ins0(k, b, n)) /\ Ins0(k, b, n + 1) = Ins0(k, b, n) \o Commands(b, k[n + 1])
  <2>0. n \in Nat
    BY <1>0
  <2>1. PICK s, t : /\ s = [m \in 1 .. n + 1 |-> Commands(b, k[m])]
                    /\ t = [m \in 1 .. n |-> Commands(b, k[m])]
    OBVIOUS
  <2>2. IsFamily(s, n + 1) /\ IsFamily(t, n) /\ SameUpTo(s, t, n) /\ s[n + 1] = Commands(b, k[n + 1])
    <3>1. \A m \in 1 .. n + 1 : m \in 1 .. Len(k)
      BY <1>0, <1>5
    <3>2. \A m \in 1 .. n + 1 : IsSeq(Commands(b, k[m]))
      BY <3>1, <1>4
    <3>3. \A m \in 1 .. n : IsSeq(Commands(b, k[m]))
      BY <3>2, <2>0
    <3>4. IsFamily(s, n + 1)
      BY <2>1, <3>2 DEF IsFamily
    <3>5. IsFamily(t, n)
      BY <2>1, <3>3 DEF IsFamily
    <3>6. SameUpTo(s, t, n) /\ s[n + 1] = Commands(b, k[n + 1])
      BY <2>0, <2>1 DEF SameUpTo
    <3> QED BY <3>4, <3>5, <3>6
  <2>3. FlattenSeq(s) = FlattenSeq(t) \o s[n + 1] /\ IsSeq(FlattenSeq(t))
    BY <2>0, <2>2, FlattenStep
  <2> QED BY <2>1, <2>2, <2>3 DEF Ins0
<1>6. IsSeq(Ins0(k, b, Len(k)))
  <2>1. PICK s : s = [m \in 1 .. Len(k) |-> Commands(b, k[m])]
    OBVIOUS
  <2>2. s = [m \in 1 .. Len(k) |-> s[m]] /\ \A m \in 1 .. Len(k) : IsSeq(s[m])
    BY <2>1, <1>4
  <2>3. IsSeq(FlattenSeq(s))
    BY <2>2, <1>0, FlattenIsSeq DEF IsFamily
  <2> QED BY <2>1, <2>3 DEF Ins0
<1>7. \A n \in 0 .. Len(k) : IsSeq(Ins0(k, b, n))
  BY <1>0, <1>5, <1>6
<1>8. ASSUME NEW n \in 1 .. Len(k)
      PROVE  Ins0(k, b, n) = Ins0(k, b, n - 1) \o Lanes0(b, k[n], Len(k[n].at))
  <2>1. PICK m \in 0 .. Len(k) : m = n - 1 /\ m + 1 = n /\ m + 1 <= Len(k)
    BY <1>0
  <2>2. Ins0(k, b, m + 1) = Ins0(k, b, m) \o Commands(b, k[m + 1])
    BY <2>1, <1>5
  <2> QED BY <2>1, <2>2, <1>1
<1> QED BY <1>2, <1>3, <1>7, <1>8

\* The commands expected of all blocks, block by block.
LEMMA BlocksStep ==
  ASSUME NEW k \in Kernels
  PROVE  /\ Blocks0(k, 0) = << >>
         /\ \A b \in Nat : IsSeq(Blocks0(k, b)) /\ Blocks0(k, b + 1) = Blocks0(k, b) \o Ins0(k, b, Len(k))
<1>0. Len(k) \in Nat /\ Len(k) \in 0 .. Len(k)
  BY KernelsGood DEF Counts
<1>1. \A b : BlockCommands(k, b) = Ins0(k, b, Len(k)) /\ IsSeq(BlockCommands(k, b))
  BY <1>0, InsStep
<1>2. Blocks0(k, 0) = << >>
  <2>1. [c \in 1 .. 0 |-> BlockCommands(k, c - 1)] = << >>
    OBVIOUS
  <2> QED BY <2>1, FlattenEmpty DEF Blocks0
<1>3. ASSUME NEW b \in Nat
      PROVE  IsSeq(Blocks0(k, b)) /\ Blocks0(k, b + 1) = Blocks0(k, b) \o Ins0(k, b, Len(k))
  <2>1. PICK s, t : /\ s = [c \in 1 .. b + 1 |-> BlockCommands(k, c - 1)]
                    /\ t = [c \in 1 .. b |-> BlockCommands(k, c - 1)]
    OBVIOUS
  <2>2. IsFamily(s, b + 1) /\ IsFamily(t, b) /\ SameUpTo(s, t, b) /\ s[b + 1] = BlockCommands(k, (b + 1) - 1)
    BY <1>1, <2>1 DEF IsFamily, SameUpTo
  <2>3. FlattenSeq(s) = FlattenSeq(t) \o s[b + 1] /\ IsSeq(FlattenSeq(t))
    BY <2>2, FlattenStep
  <2>4. (b + 1) - 1 = b
    OBVIOUS
  <2> QED BY <1>1, <2>1, <2>2, <2>3, <2>4 DEF Blocks0
<1> QED BY <1>2, <1>3

\* The next lane.
LEMMA OutLane ==
  ASSUME NEW k \in Kernels, NEW b \in Nat, NEW n \in 1 .. Len(k), NEW l \in Nat
  PROVE  /\ IsSeq(Out(k, b, n, l)) /\ IsSeq(LaneCommands(b, k[n], l + 1))
         /\ Out(k, b, n, l + 1) = Out(k, b, n, l) \o LaneCommands(b, k[n], l + 1)
<1>1. PICK p, q, x, y, z : /\ p = Blocks0(k, b) /\ q = Ins0(k, b, n - 1) /\ x = Lanes0(b, k[n], l)
                           /\ y = LaneCommands(b, k[n], l + 1) /\ z = Lanes0(b, k[n], l + 1)
  OBVIOUS
<1>2. IsSeq(p) /\ IsSeq(q) /\ IsSeq(x) /\ IsSeq(y) /\ z = x \o y
  <2>1. Len(k) \in Nat /\ n - 1 \in 0 .. Len(k) /\ l + 1 \in Nat
    BY KernelsGood DEF Counts
  <2> QED BY <1>1, <2>1, LanesStep, InsStep, BlocksStep
<1>3. IsSeq(p \o q) /\ IsSeq((p \o q) \o x)
  BY <1>2, ConcatIsSeq
<1>4. ((p \o q) \o x) \o y = (p \o q) \o (x \o y)
  <2>1. PICK h : h = p \o q /\ IsSeq(h)
    BY <1>3
  <2>2. IsSeq(h) /\ IsSeq(x) /\ IsSeq(y)
    BY <1>2, <2>1
  <2>3. (h \o x) \o y = h \o (x \o y)
    BY <2>2, ConcatAssoc, SMTT(30)
  <2> QED BY <2>1, <2>3
<1> QED BY <1>1, <1>2, <1>3, <1>4 DEF Out

\* Nothing at the end changes nothing.
LEMMA EmptyRight ==
  ASSUME NEW s, IsSeq(s)
  PROVE  s \o << >> = s
BY DEF IsSeq

\* The next instruction.
LEMMA OutIns ==
  ASSUME NEW k \in Kernels, NEW b \in Nat, NEW n \in 1 .. Len(k)
  PROVE  /\ Out(k, b, n, Len(k[n].at)) = Blocks0(k, b) \o Ins0(k, b, n)
         /\ Out(k, b, n, 0) = Blocks0(k, b) \o Ins0(k, b, n - 1)
         /\ n < Len(k) => Out(k, b, n + 1, 0) = Out(k, b, n, Len(k[n].at))
<1>0. Len(k) \in Nat /\ n - 1 \in 0 .. Len(k) /\ n \in 0 .. Len(k) /\ Len(k[n].at) \in Nat
  BY KernelsGood DEF Counts
<1>1. PICK p, q, r, x : /\ p = Blocks0(k, b) /\ q = Ins0(k, b, n - 1) /\ r = Ins0(k, b, n)
                        /\ x = Lanes0(b, k[n], Len(k[n].at))
  OBVIOUS
<1>2. IsSeq(p) /\ IsSeq(q) /\ IsSeq(r) /\ IsSeq(x) /\ r = q \o x
  BY <1>0, <1>1, LanesStep, InsStep, BlocksStep
<1>3. (p \o q) \o x = p \o (q \o x)
  BY <1>2, ConcatAssoc, SMTT(30)
<1>4. Out(k, b, n, Len(k[n].at)) = p \o r
  BY <1>1, <1>2, <1>3 DEF Out
<1>5. IsSeq(p \o q) /\ IsSeq(p \o r)
  BY <1>2, ConcatIsSeq
<1>6. \A m : Lanes0(b, k[m], 0) = << >>
  BY LanesStep
<1>7. (p \o q) \o << >> = p \o q /\ (p \o r) \o << >> = p \o r
  BY <1>5, EmptyRight
<1>8. Out(k, b, n, 0) = p \o q
  BY <1>1, <1>6, <1>7 DEF Out
<1>9. (n + 1) - 1 = n
  BY <1>0
<1>10. Out(k, b, n + 1, 0) = p \o r
  BY <1>1, <1>6, <1>7, <1>9 DEF Out
<1> QED BY <1>1, <1>4, <1>8, <1>10

\* The next block.
LEMMA OutBlock ==
  ASSUME NEW k \in Kernels, NEW b \in Nat
  PROVE  /\ Blocks0(k, b + 1) = Out(k, b, Len(k), Len(k[Len(k)].at))
         /\ Out(k, b, 1, 0) = Blocks0(k, b)
<1>0. Len(k) \in Nat /\ Len(k) >= 1 /\ Len(k) \in 1 .. Len(k) /\ 1 \in 1 .. Len(k) /\ 1 - 1 = 0
  BY KernelsGood DEF GoodKernel, IsSeq
<1>1. Blocks0(k, b + 1) = Out(k, b, Len(k), Len(k[Len(k)].at))
  BY <1>0, OutIns, BlocksStep
<1>2. Out(k, b, 1, 0) = Blocks0(k, b) \o Ins0(k, b, 1 - 1)
  BY <1>0, OutIns
<1>3. Ins0(k, b, 0) = << >> /\ IsSeq(Blocks0(k, b))
  BY InsStep, BlocksStep
<1> QED BY <1>0, <1>1, <1>2, <1>3, EmptyRight

\* Blocks of S entries leave no gap.
LEMMA InSomeRow ==
  ASSUME NEW N \in Nat, NEW S \in Nat, NEW x \in 0 .. N * S - 1
  PROVE  \E b \in 0 .. N - 1 : x \in b * S .. b * S + S - 1
<1>1. PICK T : T = {n \in Nat : \A y \in 0 .. n * S - 1 : \E b \in 0 .. n - 1 : y \in b * S .. b * S + S - 1}
  OBVIOUS
<1>2. 0 \in T
  <2>1. 0 * S = 0
    OBVIOUS
  <2> QED BY <1>1, <2>1
<1>3. ASSUME NEW n \in Nat, n \in T PROVE n + 1 \in T
  <2> SUFFICES ASSUME NEW y \in 0 .. (n + 1) * S - 1
               PROVE  \E b \in 0 .. (n + 1) - 1 : y \in b * S .. b * S + S - 1
    BY <1>1
  <2>1. (n + 1) * S = n * S + S
    OBVIOUS
  <2>2. PICK M \in Nat : M = n * S
    OBVIOUS
  <2>3. y \in 0 .. M + S - 1
    BY <2>1, <2>2
  <2>4. CASE y < M
    <3>1. y \in 0 .. n * S - 1
      BY <2>2, <2>3, <2>4
    <3>2. PICK b \in 0 .. n - 1 : y \in b * S .. b * S + S - 1
      BY <3>1, <1>1, <1>3
    <3>3. b \in 0 .. (n + 1) - 1
      OBVIOUS
    <3> QED BY <3>2, <3>3
  <2>5. CASE ~(y < M)
    <3>1. y \in M .. M + S - 1
      BY <2>3, <2>5
    <3>2. n \in 0 .. (n + 1) - 1
      OBVIOUS
    <3> QED BY <3>1, <3>2, <2>2
  <2> QED BY <2>4, <2>5
<1>4. N \in T
  BY <1>2, <1>3, NatSetInduction
<1> QED BY <1>1, <1>4

\* Collected keeps TraceInv: coalescing starts with every row at its packed
\* place.
LEMMA CollectedKeeps ==
  ASSUME HalfARow, TraceInv, Collected
  PROVE  TraceInv'
<1>1. /\ pc = "collect" /\ pc' = "coalesce" /\ i = NumBlocks /\ i' = 0
      /\ frd_size' = frd_size * NumBlocks
      /\ fmtd16' = [n \in DOMAIN fmtd16 \cap 0 .. frd_size' - 1 |-> fmtd16[n]]
      /\ fmtd32' = << >> /\ prev' = [cmd |-> "B", addr |-> -1]
      /\ kernel' = kernel /\ next' = next /\ ridx' = ridx
  BY DEF Collected
<1>2. CollectInv /\ Types
  BY <1>1 DEF TraceInv
<1>3. PICK k \in Kernels : k = kernel /\ kernel' = k
  BY <1>1, <1>2 DEF CollectInv
<1>4. /\ Size(k) \in Nat /\ Size(k) >= 2 /\ 2 * Size(k) <= Width /\ Width \in Nat
      /\ NumBlocks \in Nat /\ NumBlocks >= 1
  BY Enough
<1>5. PICK N \in Nat, S \in Nat, Z \in Nat : N = NumBlocks /\ S = Size(k) /\ Z = N * S
  BY <1>4
<1>6. frd_size' = Z /\ Z = NumBlocks * Size(k)
  <2>1. frd_size = S
    BY <1>2, <1>3, <1>5 DEF CollectInv
  <2>2. S * N = N * S
    OBVIOUS
  <2> QED BY <2>1, <2>2, <1>1, <1>5
<1>7. PICK f, g : f = fmtd16 /\ g = fmtd16'
  OBVIOUS
<1>8. DOMAIN g = DOMAIN f \cap 0 .. Z - 1 /\ \A x \in DOMAIN g : g[x] = f[x]
  BY <1>1, <1>6, <1>7
<1>9. ASSUME NEW b \in BlockIds
      PROVE  /\ b \in Nat /\ b * S \in Nat /\ b * S + S <= Z
             /\ Row(f, b * S, b, k, Len(k)) /\ Row(g, b * S, b, k, Len(k))
  <2>1. b \in Nat /\ b < NumBlocks /\ b < N
    BY <1>4, <1>5 DEF BlockIds
  <2>2. b * S \in Nat /\ b * S + S <= Z
    BY <2>1, <1>5, RowsApart
  <2>3. Row(f, b * S, b, k, Len(k))
    <3>1. Row(f, Base(k, i, b), b, k, Len(k))
      BY <1>2, <1>3, <1>7 DEF CollectInv
    <3>2. Base(k, i, b) = b * S
      BY <2>1, <1>1, <1>5 DEF Base
    <3> QED BY <3>1, <3>2
  <2>4. Entries(k, Len(k)) = S /\ Len(k) \in 0 .. Len(k)
    BY <1>5, KernelsGood DEF Size, Counts
  <2>5. PICK B \in Nat : B = b * S /\ B + S <= Z
    BY <2>2
  <2>6. ASSUME NEW q \in 0 .. S - 1 PROVE B + q \in DOMAIN g /\ g[B + q] = f[B + q]
    <3>1. B .. B + S - 1 \subseteq DOMAIN f
      BY <2>3, <2>4, <2>5 DEF Row
    <3>2. B + q \in B .. B + S - 1 /\ B + q \in 0 .. Z - 1
      <4>1. B + S <= Z
        BY <2>5
      <4> QED BY <4>1
    <3> QED BY <3>1, <3>2, <1>8
  <2>7. Moved(f, B, g, B, Entries(k, Len(k)))
    BY <2>4, <2>6 DEF Moved
  <2>8. Row(g, B, b, k, Len(k))
    BY <2>3, <2>4, <2>5, <2>7, RowMoved
  <2> QED BY <2>1, <2>2, <2>3, <2>5, <2>8
<1>10. DOMAIN g = 0 .. Z - 1
  <2>1. ASSUME NEW x \in 0 .. Z - 1 PROVE x \in DOMAIN f
    <3>1. x \in 0 .. N * S - 1
      BY <1>5
    <3>2. PICK b \in 0 .. N - 1 : x \in b * S .. b * S + S - 1
      BY <3>1, InSomeRow
    <3>3. b \in BlockIds
      BY <1>5 DEF BlockIds
    <3>4. Row(f, b * S, b, k, Len(k)) /\ Entries(k, Len(k)) = S
      BY <3>3, <1>5, <1>9 DEF Size
    <3> QED BY <3>2, <3>4 DEF Row
  <2> QED BY <2>1, <1>8
<1>11. Before(k, 0, 1, 1)'
  <2>0. Counts(k) /\ Len(k) \in Nat /\ 1 \in 1 .. Len(k)
    BY KernelsGood DEF Counts, GoodKernel
  <2>1. Out(k, 0, 1, 0) = << >>
    BY OutBlock, BlocksStep
  <2>2. Matches(<< >>, << >>)
    BY DEF Matches, IsSeq
  <2>3. Entries(k, 1 - 1) = 0 /\ 1 - 1 = 0
    BY <2>0 DEF Counts
  <2>4. i' = 0 * Size(k) + Entries(k, 1 - 1) + 2 * (1 - 1)
    BY <2>3, <1>1, <1>4
  <2>5. First(k[1], 1)
    BY DEF First
  <2>6. prev'.cmd = "B"
    BY <1>1
  <2>7. Matches(fmtd32', Out(k, 0, 1, 1 - 1))
    BY <2>1, <2>2, <2>3, <1>1
  <2>8. k[1].cmd # "B" => (prev'.cmd = k[1].cmd /\ prev'.addr = <<0, 2 * k[1].at[1]>>) = ~First(k[1], 1)
    BY <2>5, <2>6
  <2> QED BY <2>4, <2>7, <2>8, Zenon DEF Before, BeforeAt
<1>12. CoalesceInv'
  <2>1. 0 \in BlockIds /\ 1 \in 1 .. Len(k) /\ 1 \in 1 .. Len(k[1].at)
    BY <1>4, KernelsGood DEF BlockIds, GoodKernel, GoodIns, IsSeq
  <2>2. \E b \in BlockIds : \E n \in 1 .. Len(k) : \E l \in 1 .. Len(k[n].at) :
          Before(k, b, n, l)' \/ Amid(k, b, n, l)'
    BY <2>1, <1>11
  <2>3. DOMAIN fmtd16' = 0 .. frd_size' - 1 /\ frd_size' = NumBlocks * Size(k)
    BY <1>6, <1>7, <1>10
  <2>4. \A b \in BlockIds : Row(fmtd16', b * Size(k), b, k, Len(k))
    BY <1>5, <1>7, <1>9
  <2> QED BY <2>2, <2>3, <2>4, <1>3, Zenon DEF CoalesceInv
<1>13. Types'
  <2>1. PICK M \in Nat : M = NumBlocks * Width /\ Z <= M
    <3>1. PICK d \in Nat : Width = S + d
      <4>1. Width - S \in Nat /\ Width = S + (Width - S)
        BY <1>4, <1>5
      <4> QED BY <4>1
    <3>2. NumBlocks * Width = NumBlocks * S + NumBlocks * d /\ NumBlocks * d \in Nat
      BY <3>1, <1>4
    <3> QED BY <3>2, <1>5, <1>4
  <2>2. frd_size' \in 0 .. M /\ 0 \in 0 .. M
    BY <2>1, <1>6
  <2>3. 0 .. Z - 1 \subseteq 0 .. M - 1
    BY <2>1
  <2> QED BY <2>1, <2>2, <2>3, <1>1, <1>2, <1>7, <1>10 DEF Types
<1>14. IsSeq(fmtd32') /\ Len(fmtd32') <= i'
  BY <1>1 DEF IsSeq
<1> QED BY <1>1, <1>12, <1>13, <1>14 DEF TraceInv

-----------------------------------------------------------------------------
(* coalesce_trace.                                                         *)

\* f with a last command c.
LEMMA AppendLast ==
  ASSUME NEW f, IsSeq(f), NEW c
  PROVE  /\ IsSeq(Append(f, c)) /\ Len(f) \in Nat /\ Len(Append(f, c)) = Len(f) + 1
         /\ Append(f, c)[Len(f) + 1] = c /\ \A m \in 1 .. Len(f) : Append(f, c)[m] = f[m]
<1>1. PICK S : S = Range(f) \cup {c}
  OBVIOUS
<1>2. f \in Seq(S) /\ c \in S
  BY <1>1 DEF IsSeq
<1>3. PICK g : g = Append(f, c)
  OBVIOUS
<1>4. g \in Seq(S) /\ Len(g) = Len(f) + 1 /\ Len(f) \in Nat /\ g[Len(f) + 1] = c /\ \A m \in 1 .. Len(f) : g[m] = f[m]
  BY <1>2, <1>3
<1>5. IsSeq(g)
  BY <1>4, SeqIsSeq
<1> QED BY <1>3, <1>4, <1>5

\* f with c for its last command.
Replaced(g, f, c) == g = [f EXCEPT ![Len(f)] = c]

\* The last element replaced.
LEMMA ReplaceLast ==
  ASSUME NEW f, IsSeq(f), Len(f) >= 1, NEW c, NEW g, Replaced(g, f, c)
  PROVE  /\ IsSeq(g) /\ Len(f) \in Nat /\ Len(g) = Len(f) /\ g[Len(g)] = c
         /\ \A m \in 1 .. Len(f) - 1 : g[m] = f[m]
<1>1. PICK S : S = Range(f) \cup {c}
  OBVIOUS
<1>2. f \in Seq(S) /\ c \in S
  BY <1>1 DEF IsSeq
<1>3. g \in Seq(S) /\ Len(g) = Len(f) /\ Len(f) \in Nat /\ g[Len(f)] = c /\ \A m \in 1 .. Len(f) - 1 : g[m] = f[m]
  BY <1>2 DEF Replaced
<1>4. IsSeq(g)
  BY <1>3, SeqIsSeq
<1> QED BY <1>3, <1>4

\* One element appended.
LEMMA OneMore ==
  ASSUME NEW e, IsSeq(e), NEW x
  PROVE  /\ IsSeq(e \o <<x>>) /\ Len(e) \in Nat /\ Len(e \o <<x>>) = Len(e) + 1
         /\ (e \o <<x>>)[Len(e) + 1] = x /\ \A m \in 1 .. Len(e) : (e \o <<x>>)[m] = e[m]
<1>1. PICK h, t : t = <<x>> /\ h = e \o t
  OBVIOUS
<1>2. IsSeq(t) /\ Len(t) = 1 /\ t[1] = x
  BY <1>1 DEF IsSeq, Range
<1>3. Joins(h, e, t)
  BY <1>1, <1>2, ConcatJoins
<1>4. IsSeq(h) /\ Len(e) \in Nat /\ Len(h) = Len(e) + 1 /\ h[Len(e) + 1] = x /\ \A m \in 1 .. Len(e) : h[m] = e[m]
  BY <1>2, <1>3 DEF Joins
<1> QED BY <1>1, <1>4

\* A command more.
LEMMA MatchesAppend ==
  ASSUME NEW f, NEW e, Matches(f, e), NEW c, NEW x, MatchOne(c, x)
  PROVE  Matches(Append(f, c), e \o <<x>>)
<1>1. PICK g, h : g = Append(f, c) /\ h = e \o <<x>>
  OBVIOUS
<1>2. IsSeq(f) /\ IsSeq(e) /\ Len(f) = Len(e) /\ \A m \in 1 .. Len(e) : MatchOne(f[m], e[m])
  BY Zenon DEF Matches
<1>3. PICK L \in Nat : L = Len(f) /\ L = Len(e)
  BY <1>2, AppendLast
<1>4. IsSeq(g) /\ Len(g) = L + 1 /\ g[L + 1] = c /\ \A m \in 1 .. L : g[m] = f[m]
  BY <1>1, <1>2, <1>3, AppendLast
<1>5. IsSeq(h) /\ Len(h) = L + 1 /\ h[L + 1] = x /\ \A m \in 1 .. L : h[m] = e[m]
  BY <1>1, <1>2, <1>3, OneMore
<1>6. ASSUME NEW m \in 1 .. L + 1 PROVE MatchOne(g[m], h[m])
  <2>1. CASE m \in 1 .. L
    BY <2>1, <1>2, <1>3, <1>4, <1>5, Zenon
  <2>2. CASE m \notin 1 .. L
    <3>1. m = L + 1
      BY <2>2
    <3> QED BY <3>1, <1>4, <1>5
  <2> QED BY <2>1, <2>2
<1>7. Matches(g, h)
  BY <1>4, <1>5, <1>6, Zenon DEF Matches
<1> QED BY <1>1, <1>7

\* A first half more.
LEMMA HalfAppend ==
  ASSUME NEW f, NEW e, Matches(f, e), NEW c, NEW x, NEW b, NEW ins, NEW l, NEW d,
         HalfOne(c, b, ins, l, d)
  PROVE  HalfMatches(Append(f, c), e \o <<x>>, b, ins, l, d)
<1>1. PICK g, h : g = Append(f, c) /\ h = e \o <<x>>
  OBVIOUS
<1>2. IsSeq(f) /\ IsSeq(e) /\ Len(f) = Len(e) /\ \A m \in 1 .. Len(e) : MatchOne(f[m], e[m])
  BY Zenon DEF Matches
<1>3. PICK L \in Nat : L = Len(f) /\ L = Len(e)
  BY <1>2, AppendLast
<1>4. IsSeq(g) /\ Len(g) = L + 1 /\ g[L + 1] = c /\ \A m \in 1 .. L : g[m] = f[m]
  BY <1>1, <1>2, <1>3, AppendLast
<1>5. IsSeq(h) /\ Len(h) = L + 1 /\ \A m \in 1 .. L : h[m] = e[m]
  BY <1>1, <1>2, <1>3, OneMore
<1>6. (L + 1) - 1 = L /\ L + 1 >= 1
  OBVIOUS
<1>7. \A m \in 1 .. L : MatchOne(g[m], h[m])
  BY <1>2, <1>3, <1>4, <1>5, Zenon
<1>8. HalfMatches(g, h, b, ins, l, d)
  BY <1>4, <1>5, <1>6, <1>7, Zenon DEF HalfMatches
<1> QED BY <1>1, <1>8

\* The last command gets a first half again.
LEMMA HalfAgain ==
  ASSUME NEW f, NEW e, Matches(f, e), Len(e) >= 1, NEW c, NEW b, NEW ins, NEW l, NEW d,
         HalfOne(c, b, ins, l, d), NEW g, Replaced(g, f, c)
  PROVE  HalfMatches(g, e, b, ins, l, d)
<1>2. IsSeq(f) /\ IsSeq(e) /\ Len(f) = Len(e) /\ \A m \in 1 .. Len(e) : MatchOne(f[m], e[m])
  BY Zenon DEF Matches
<1>3. PICK L \in Nat : L = Len(f) /\ L = Len(e) /\ L >= 1
  BY <1>2, AppendLast
<1>4. IsSeq(g) /\ Len(g) = L /\ g[Len(g)] = c /\ \A m \in 1 .. L - 1 : g[m] = f[m]
  BY <1>2, <1>3, ReplaceLast
<1>5. \A m \in 1 .. L - 1 : m \in 1 .. L
  OBVIOUS
<1>6. \A m \in 1 .. L - 1 : MatchOne(g[m], e[m])
  BY <1>2, <1>3, <1>4, <1>5, Zenon
<1> QED BY <1>2, <1>3, <1>4, <1>6, Zenon DEF HalfMatches

\* The last command gets its second half.
LEMMA HalfDone ==
  ASSUME NEW f, NEW e, NEW b, NEW ins, NEW l, NEW d, HalfMatches(f, e, b, ins, l, d),
         NEW c, MatchOne(c, e[Len(e)]), NEW g, Replaced(g, f, c)
  PROVE  Matches(g, e)
<1>2. /\ IsSeq(f) /\ IsSeq(e) /\ Len(f) = Len(e) /\ Len(f) >= 1
      /\ \A m \in 1 .. Len(e) - 1 : MatchOne(f[m], e[m])
  BY Zenon DEF HalfMatches
<1>3. PICK L \in Nat : L = Len(f) /\ L = Len(e) /\ L >= 1
  BY <1>2, AppendLast
<1>4. IsSeq(g) /\ Len(g) = L /\ g[L] = c /\ \A m \in 1 .. L - 1 : g[m] = f[m]
  BY <1>2, <1>3, ReplaceLast
<1>6. ASSUME NEW m \in 1 .. L PROVE MatchOne(g[m], e[m])
  <2>1. CASE m \in 1 .. L - 1
    BY <2>1, <1>2, <1>3, <1>4, Zenon
  <2>2. CASE m \notin 1 .. L - 1
    <3>1. m = L
      BY <2>2
    <3> QED BY <3>1, <1>3, <1>4
  <2> QED BY <2>1, <2>2
<1> QED BY <1>2, <1>3, <1>4, <1>6, Zenon DEF Matches

\* The parts of a tuple of five, for steps that unfold no tuple.
LEMMA FiveParts ==
  ASSUME NEW t, NEW v, NEW w, NEW x, NEW y
  PROVE  /\ <<t, v, w, x, y>>[1] = t /\ <<t, v, w, x, y>>[2] = v /\ <<t, v, w, x, y>>[3] = w
         /\ <<t, v, w, x, y>>[4] = x /\ <<t, v, w, x, y>>[5] = y
OBVIOUS

\* What a lane adds.
LEMMA LaneAdds ==
  ASSUME NEW b, NEW ins, GoodIns(ins), NEW l \in 1 .. Len(ins.at)
  PROVE  /\ ins.cmd = "B" =>
              LaneCommands(b, ins, l) = <<BarrierCommand(b), BarrierCommand(b)>>
         /\ ins.cmd # "B" /\ First(ins, l) => LaneCommands(b, ins, l) = <<Command(b, ins, l)>>
         /\ ins.cmd # "B" /\ ~First(ins, l) =>
              /\ LaneCommands(b, ins, l) = << >>
              /\ l - 1 \in 1 .. Len(ins.at) /\ Command(b, ins, l) = Command(b, ins, l - 1)
<1>0. Len(ins.at) \in Nat
  BY DEF GoodIns
<1>1. ASSUME ins.cmd = "B"
      PROVE  LaneCommands(b, ins, l) = <<BarrierCommand(b), BarrierCommand(b)>>
  BY <1>1, Zenon DEF LaneCommands
<1>2. ASSUME ins.cmd # "B", First(ins, l)
      PROVE  LaneCommands(b, ins, l) = <<Command(b, ins, l)>>
  BY <1>2, Zenon DEF LaneCommands, Command, First, Stores
<1>3. ASSUME ins.cmd # "B", ~First(ins, l)
      PROVE  /\ LaneCommands(b, ins, l) = << >>
             /\ l - 1 \in 1 .. Len(ins.at) /\ Command(b, ins, l) = Command(b, ins, l - 1)
  <2>1. LaneCommands(b, ins, l) = << >>
    BY <1>3, Zenon DEF LaneCommands, First
  <2>2. l # 1
    BY <1>3 DEF First
  <2>3. l \in 2 .. Len(ins.at) /\ l - 1 \in 1 .. Len(ins.at)
    BY <1>0, <2>2
  <2>4. ins.at[l] = ins.at[l - 1]
    BY <1>3, <2>3 DEF GoodIns
  <2>5. l \notin Alone(ins) /\ l - 1 \notin Alone(ins)
    <3>1. l \in DOMAIN ins.at /\ l - 1 \in DOMAIN ins.at /\ l - 1 # l
      BY <1>0, <2>3 DEF GoodIns
    <3> QED BY <2>4, <3>1 DEF Alone
  <2> QED BY <2>1, <2>3, <2>4, <2>5, Zenon DEF Command, Datum
<1> QED BY <1>1, <1>2, <1>3

\* The lane that makes the transaction first adds its command, the others add
\* nothing.
LEMMA LaneFirst ==
  ASSUME NEW b, NEW ins, GoodIns(ins), NEW l \in 1 .. Len(ins.at), ins.cmd # "B", First(ins, l)
  PROVE  LaneCommands(b, ins, l) = <<Command(b, ins, l)>>
BY Zenon DEF LaneCommands, Command, First, Stores

\* A lane whose command an earlier one already made writes none again.
LEMMA LaneAgain ==
  ASSUME NEW b, NEW ins, GoodIns(ins), NEW l \in 1 .. Len(ins.at), ins.cmd # "B", ~First(ins, l)
  PROVE  /\ LaneCommands(b, ins, l) = << >>
         /\ l - 1 \in 1 .. Len(ins.at) /\ Command(b, ins, l) = Command(b, ins, l - 1)
BY LaneAdds, Zenon

\* The last command so far is that of the lane.
LEMMA LastCommand ==
  ASSUME NEW k \in Kernels, NEW b \in Nat, NEW n \in 1 .. Len(k), k[n].cmd # "B",
         NEW l \in 1 .. Len(k[n].at)
  PROVE  /\ IsSeq(Out(k, b, n, l)) /\ Len(Out(k, b, n, l)) \in Nat /\ Len(Out(k, b, n, l)) >= 1
         /\ Out(k, b, n, l)[Len(Out(k, b, n, l))] = Command(b, k[n], l)
<1> DEFINE P(m) == /\ IsSeq(Out(k, b, n, m)) /\ Len(Out(k, b, n, m)) \in Nat /\ Len(Out(k, b, n, m)) >= 1
                   /\ Out(k, b, n, m)[Len(Out(k, b, n, m))] = Command(b, k[n], m)
<1>0. PICK N \in Nat : N = Len(k[n].at) /\ GoodIns(k[n])
  BY KernelsGood DEF Counts, GoodKernel
<1>1. PICK T : T = {m \in Nat : m \in 1 .. N => P(m)}
  OBVIOUS
<1>2. 0 \in T
  BY <1>1
<1>3. ASSUME NEW m \in Nat, m \in T PROVE m + 1 \in T
  <2> SUFFICES ASSUME m + 1 \in 1 .. N PROVE P(m + 1)
    BY <1>1
  <2>1. PICK f, g, x : /\ f = Out(k, b, n, m) /\ g = Out(k, b, n, m + 1)
                       /\ x = Command(b, k[n], m + 1)
    OBVIOUS
  <2>2. IsSeq(f) /\ g = f \o LaneCommands(b, k[n], m + 1)
    BY <2>1, OutLane
  <2>3. m + 1 \in 1 .. Len(k[n].at) /\ (m + 1) - 1 = m
    BY <1>0
  <2>4. CASE First(k[n], m + 1)
    <3>1. g = f \o <<x>>
      <4>1. LaneCommands(b, k[n], m + 1) = <<Command(b, k[n], m + 1)>>
        BY <2>3, <2>4, <1>0, LaneFirst, Zenon
      <4> QED BY <2>1, <2>2, <4>1
    <3>2. /\ IsSeq(f \o <<x>>) /\ Len(f) \in Nat /\ Len(f \o <<x>>) = Len(f) + 1
          /\ (f \o <<x>>)[Len(f) + 1] = x
      BY <2>2, OneMore
    <3>3. IsSeq(g) /\ Len(g) \in Nat /\ Len(g) >= 1 /\ g[Len(g)] = x
      BY <3>1, <3>2
    <3> QED BY <2>1, <3>3
  <2>5. CASE ~First(k[n], m + 1)
    <3>1. /\ LaneCommands(b, k[n], m + 1) = << >>
          /\ (m + 1) - 1 \in 1 .. Len(k[n].at) /\ x = Command(b, k[n], (m + 1) - 1)
      BY <2>1, <2>3, <2>5, <1>0, LaneAgain, Zenon
    <3>2. g = f
      BY <2>2, <3>1, EmptyRight
    <3>3. m \in 1 .. N
      BY <2>3, <3>1, <1>0
    <3>4. P(m)
      BY <3>3, <1>1, <1>3
    <3> QED BY <2>1, <2>3, <3>1, <3>2, <3>4
  <2> QED BY <2>4, <2>5
<1>4. l \in Nat /\ l \in 1 .. N
  BY <1>0
<1>5. l \in T
  BY <1>2, <1>3, <1>4, NatSetInduction
<1> QED BY <1>1, <1>4, <1>5

\* The entry of half h.
LEMMA EntryFields ==
  ASSUME NEW b, NEW ins, GoodIns(ins), ins.cmd # "B", NEW l \in 1 .. Len(ins.at), NEW h \in {0, 1}
  PROVE  /\ ins.at[l] \in Nat
         /\ Entry(b, ins, l, h).cmd = ins.cmd /\ Entry(b, ins, l, h).block = b
         /\ Entry(b, ins, l, h).addr = 2 * ins.at[l] + h
         /\ Entry(b, ins, l, h).data = Datum(ins, l, h)
         /\ Masked(2 * ins.at[l] + h) = 2 * ins.at[l]
         /\ Whole(Entry(b, ins, l, h)) = <<b, 2 * ins.at[l]>>
<1>1. PICK a \in Nat : a = ins.at[l]
  BY DEF GoodIns
<1>2. PICK e : e = Entry(b, ins, l, h)
  OBVIOUS
<1>3. e.cmd = ins.cmd /\ e.block = b /\ e.addr = 2 * a + h /\ e.data = Datum(ins, l, h)
  BY <1>1, <1>2 DEF Entry
<1>4. 2 * ((2 * a + h) \div 2) = 2 * a
  OBVIOUS
<1>5. Masked(2 * a + h) = 2 * a
  BY <1>4 DEF Masked
<1>6. Whole(e) = <<b, 2 * a>>
  BY <1>3, <1>5 DEF Whole
<1> QED BY <1>1, <1>2, <1>3, <1>5, <1>6

\* Where the two halves of a lane are.
LEMMA HalvesAt ==
  ASSUME NEW k \in Kernels, NEW b \in BlockIds, NEW n \in 1 .. Len(k), NEW l \in 1 .. Len(k[n].at),
         NEW f, Row(f, b * Size(k), b, k, Len(k)),
         NEW p, p = b * Size(k) + Entries(k, n - 1) + 2 * (l - 1)
  PROVE  /\ p \in Nat
         /\ \E h \in {0, 1} : /\ f[p] = Entry(b, k[n], l, h) /\ f[p + 1] = Entry(b, k[n], l, 1 - h)
                              /\ h = 1 => k[n].cmd # "B"
<1>1. Len(k) \in 0 .. Len(k) /\ b \in Nat /\ Size(k) \in Nat
  BY KernelsGood, TraceAssumption DEF Counts, BlockIds
<1>2. Pair(f, p, b, k[n], l)
  BY Zenon DEF Row
<1>3. p \in Nat
  <2>1. PICK q \in Nat : q = Slot(k, n, l)
    BY <1>1, Slots
  <2>2. PICK e \in Nat, B \in Nat : e = Entries(k, n - 1) /\ B = b * Size(k)
    <3>1. Len(k) \in Nat /\ n - 1 \in 0 .. Len(k)
      BY KernelsGood DEF Counts
    <3>2. Entries(k, n - 1) \in Nat
      BY <3>1, KernelsGood DEF Counts
    <3> QED BY <1>1, <3>2
  <2>3. l \in Int /\ l >= 1
    <3>1. Len(k[n].at) \in Nat
      BY <1>1, Slots
    <3> QED BY <3>1
  <2>4. p = B + e + 2 * (l - 1)
    BY <2>2
  <2> QED BY <2>3, <2>4
<1>4. CASE f[p] = Entry(b, k[n], l, 0) /\ f[p + 1] = Entry(b, k[n], l, 1)
  <2>1. 1 - 0 = 1
    OBVIOUS
  <2> QED BY <1>3, <1>4, <2>1
<1>5. CASE /\ k[n].cmd # "B"
           /\ f[p] = Entry(b, k[n], l, 1) /\ f[p + 1] = Entry(b, k[n], l, 0)
  <2>1. 1 - 1 = 0
    OBVIOUS
  <2> QED BY <1>3, <1>5, <2>1
<1> QED BY <1>2, <1>4, <1>5 DEF Pair

\* The first half of a transaction makes a command, or joins that of the lane
\* before.
LEMMA FirstHalf ==
  ASSUME NEW k \in Kernels, NEW b \in BlockIds, NEW n \in 1 .. Len(k), NEW l \in 1 .. Len(k[n].at),
         Row(fmtd16, b * Size(k), b, k, Len(k)), Before(k, b, n, l), coalesce_trace
  PROVE  Amid(k, b, n, l)'
<1>0. i' = i + 1 /\ fmtd16' = fmtd16
  BY DEF coalesce_trace
<1>1. PICK f : f = fmtd16
  OBVIOUS
<1>2. i = b * Size(k) + Entries(k, n - 1) + 2 * (l - 1)
  BY DEF Before, BeforeAt
<1>3. PICK h \in {0, 1} : /\ i \in Nat /\ f[i] = Entry(b, k[n], l, h) /\ f[i + 1] = Entry(b, k[n], l, 1 - h)
                          /\ h = 1 => k[n].cmd # "B"
  BY <1>1, <1>2, HalvesAt
<1>4. PICK ins : ins = k[n] /\ GoodIns(ins) /\ Len(ins.at) \in Nat
  BY KernelsGood DEF GoodKernel, Counts
<1>5. b \in Nat /\ l - 1 \in Nat /\ (l - 1) + 1 = l
  BY <1>4, TraceAssumption DEF BlockIds
<1>6. PICK out : out = Out(k, b, n, l - 1) /\ IsSeq(out)
  BY <1>5, OutLane
<1>7. Matches(fmtd32, out)
  BY <1>6 DEF Before, BeforeAt
<1>8. Out(k, b, n, l) = out \o LaneCommands(b, ins, l)
  <2>1. Out(k, b, n, (l - 1) + 1) = Out(k, b, n, l - 1) \o LaneCommands(b, k[n], (l - 1) + 1)
    BY <1>5, OutLane
  <2> QED BY <2>1, <1>4, <1>5, <1>6
<1>9. i' = b * Size(k) + Entries(k, n - 1) + 2 * (l - 1) + 1
  BY <1>0, <1>2
<1>10. PICK e : e = f[i] /\ e = Entry(b, ins, l, h)
  BY <1>3, <1>4
<1>11. CASE ins.cmd = "B"
  <2>1. e = [cmd |-> "B", block |-> b, addr |-> 0, data |-> Stale]
    BY <1>10, <1>11 DEF Entry
  <2>2. e.cmd = "B" /\ e.block = b
    BY <2>1
  <2>3. Barrier(e)
    BY <2>2, <1>1, <1>10 DEF coalesce_trace
  <2>4. PICK c : c = [cmd |-> "B", block |-> b, addr |-> 0, data |-> <<Stale, Stale>>]
    OBVIOUS
  <2>5. fmtd32' = Append(fmtd32, c)
    BY <2>2, <2>3, <2>4 DEF Barrier
  <2>6. PICK x : x = BarrierCommand(b)
    OBVIOUS
  <2>7. MatchOne(c, x)
    BY <2>4, <2>6 DEF MatchOne, CmdFields, BarrierCommand, InOrder
  <2>8. Matches(Append(fmtd32, c), out \o <<x>>)
    BY <2>7, <1>7, MatchesAppend
  <2>9. Matches(fmtd32', out \o <<BarrierCommand(b)>>)
    BY <2>5, <2>6, <2>8
  <2> QED BY <2>9, <1>4, <1>6, <1>9, <1>11, Zenon DEF Amid
<1>12. CASE ins.cmd # "B"
  <2>0. ins.cmd \in {"R", "W"} /\ (Stores(ins) => ins.cmd = "W")
    BY <1>4, <1>12 DEF GoodIns
  <2>1. PICK a \in Nat : a = ins.at[l]
    BY <1>4, <1>12, EntryFields
  <2>2. /\ e.cmd = ins.cmd /\ e.block = b /\ e.addr = 2 * a + h /\ e.data = Datum(ins, l, h)
        /\ Whole(e) = <<b, 2 * a>>
    BY <2>1, <1>4, <1>10, <1>12, EntryFields
  <2>3. (prev.cmd = ins.cmd /\ prev.addr = <<b, 2 * a>>) = ~First(ins, l)
    BY <2>1, <1>4, <1>12 DEF Before, BeforeAt
  <2>4. fmtd16'[i'] = Entry(b, ins, l, 1 - h)
    BY <1>0, <1>1, <1>3, <1>4
  <2>5. CASE First(ins, l)
    <3>1. ~(prev.cmd = e.cmd /\ prev.addr = Whole(e))
      BY <2>2, <2>3, <2>5
    <3>2. coalesced_update(e)
      BY <3>1, <2>0, <2>2, <1>1, <1>10 DEF coalesce_trace
    <3>3. PICK c : c = [cmd |-> e.cmd, block |-> e.block, addr |-> e.addr,
                        data |-> IF e.cmd = "W" THEN <<e.data, Stale>> ELSE <<Stale, Stale>>]
      OBVIOUS
    <3>4. fmtd32' = Append(fmtd32, c) /\ prev' = [cmd |-> e.cmd, addr |-> Whole(e)]
      BY <3>2, <3>3 DEF coalesced_update
    <3>5. HalfOne(c, b, ins, l, fmtd16'[i'])
      <4>1. DOMAIN c = CmdFields /\ c.cmd = ins.cmd /\ c.block = b /\ c.addr = 2 * ins.at[l] + h
        BY <3>3, <2>1, <2>2 DEF CmdFields
      <4>2. Stores(ins) => c.data = <<Datum(ins, l, h), Stale>>
        BY <3>3, <2>0, <2>2
      <4>3. Stores(ins) => \E y \in {c.data[2]} : c.data = <<Datum(ins, l, h), y>>
        BY <4>2
      <4>4. 1 - h \in {0, 1}
        OBVIOUS
      <4> QED BY <2>4, <4>1, <4>3, <4>4, Zenon DEF HalfOne
    <3>6. PICK x : x = Command(b, ins, l)
      OBVIOUS
    <3>7. Out(k, b, n, l) = out \o <<x>>
      <4>1. LaneCommands(b, ins, l) = <<Command(b, ins, l)>>
        BY <2>5, <1>12, <1>4, LaneFirst, Zenon
      <4> QED BY <4>1, <3>6, <1>8
    <3>8. HalfMatches(Append(fmtd32, c), out \o <<x>>, b, ins, l, fmtd16'[i'])
      BY <3>5, <1>7, HalfAppend
    <3>9. HalfMatches(fmtd32', Out(k, b, n, l), b, ins, l, fmtd16'[i'])
      BY <3>4, <3>7, <3>8
    <3>10. prev'.cmd = ins.cmd /\ prev'.addr = <<b, 2 * ins.at[l]>>
      BY <3>4, <2>1, <2>2
    <3> QED BY <3>9, <3>10, <1>4, <1>9, <1>12, Zenon DEF Amid
  <2>6. CASE ~First(ins, l)
    <3>1. prev.cmd = e.cmd /\ prev.addr = Whole(e)
      BY <2>2, <2>3, <2>6
    <3>2. Merge(e) /\ prev' = prev
      BY <3>1, <2>0, <2>2, <1>1, <1>10 DEF coalesce_trace, Merge
    <3>3. l \notin Alone(ins)
      <4>1. PICK m \in 1 .. l - 1 : ins.at[m] = ins.at[l]
        BY <2>6 DEF First
      <4>2. m \in DOMAIN ins.at /\ m # l
        BY <1>4 DEF GoodIns
      <4> QED BY <4>1, <4>2 DEF Alone
    <3>4. /\ Out(k, b, n, l) = out /\ l - 1 \in 1 .. Len(ins.at)
          /\ Command(b, ins, l) = Command(b, ins, l - 1)
      <4>0. GoodIns(ins) /\ l \in 1 .. Len(ins.at)
        BY <1>4
      <4>1. /\ LaneCommands(b, ins, l) = << >> /\ l - 1 \in 1 .. Len(ins.at)
            /\ Command(b, ins, l) = Command(b, ins, l - 1)
        BY <4>0, <2>6, <1>12, LaneAgain, Zenon
      <4> QED BY <4>1, <1>6, <1>8, EmptyRight
    <3>5. Len(out) \in Nat /\ Len(out) >= 1 /\ out[Len(out)] = Command(b, ins, l)
      <4>1. l - 1 \in 1 .. Len(k[n].at) /\ k[n].cmd # "B"
        BY <3>4, <1>4, <1>12
      <4>2. /\ Len(Out(k, b, n, l - 1)) \in Nat /\ Len(Out(k, b, n, l - 1)) >= 1
            /\ Out(k, b, n, l - 1)[Len(Out(k, b, n, l - 1))] = Command(b, k[n], l - 1)
        BY <4>1, <1>5, LastCommand
      <4> QED BY <4>2, <3>4, <1>4, <1>6
    <3>6. PICK last : last = fmtd32[Len(fmtd32)] /\ MatchOne(last, Command(b, ins, l))
      <4>1. Len(fmtd32) = Len(out) /\ Len(out) \in 1 .. Len(out)
        BY <3>5, <1>7 DEF Matches
      <4>2. MatchOne(fmtd32[Len(out)], out[Len(out)])
        BY <4>1, <1>7, Zenon DEF Matches
      <4> QED BY <4>1, <4>2, <3>5
    <3>7. /\ DOMAIN last = CmdFields /\ last.cmd = ins.cmd /\ last.block = b /\ last.addr = 2 * a
          /\ Stores(ins) => last.data[1] = Datum(ins, l, 0)
      BY <3>6, <2>0, <2>1 DEF MatchOne, Command, InOrder
    <3>8. ~(e.addr < last.addr)
      BY <3>7, <2>2
    <3>9. PICK c : c = [last EXCEPT !.addr = @, !.data = IF e.cmd # "W" THEN @ ELSE <<@[1], e.data>>]
      OBVIOUS
    <3>10. Replaced(fmtd32', fmtd32, c)
      BY <3>2, <3>6, <3>8, <3>9 DEF Merge, Replaced
    <3>11. HalfOne(c, b, ins, l, fmtd16'[i'])
      <4>1. DOMAIN c = CmdFields /\ c.cmd = ins.cmd /\ c.block = b /\ c.addr = 2 * ins.at[l] + 0
        BY <3>7, <3>9, <2>1 DEF CmdFields
      <4>2. Stores(ins) => c.data = <<Datum(ins, l, 0), e.data>>
        BY <3>7, <3>9, <2>0, <2>2 DEF CmdFields
      <4>3. Stores(ins) => \E y \in {c.data[2]} : c.data = <<Datum(ins, l, 0), y>>
        BY <4>2
      <4>4. PICK d \in {0, 1} : d = 1 - h /\ (d = 1 - 0 \/ d = 0)
        OBVIOUS
      <4>5. fmtd16'[i'] = Entry(b, ins, l, d)
        BY <2>4, <4>4
      <4> QED BY <3>3, <4>1, <4>3, <4>4, <4>5, Zenon DEF HalfOne
    <3>12. HalfMatches(fmtd32', out, b, ins, l, fmtd16'[i'])
      BY <3>5, <3>10, <3>11, <1>7, HalfAgain
    <3>13. prev'.cmd = ins.cmd /\ prev'.addr = <<b, 2 * ins.at[l]>>
      BY <3>1, <3>2, <2>1, <2>2
    <3> QED BY <3>4, <3>12, <3>13, <1>4, <1>9, <1>12, Zenon DEF Amid
  <2> QED BY <2>5, <2>6
<1> QED BY <1>11, <1>12

\* Lane l of instruction n of block b is done.
AfterAt(pos, f, pv, k, b, n, l) ==
  /\ pos = b * Size(k) + Entries(k, n - 1) + 2 * (l - 1) + 2
  /\ Matches(f, Out(k, b, n, l))
  /\ k[n].cmd = "B" => pv.cmd = "B"
  /\ k[n].cmd # "B" => pv.cmd = k[n].cmd /\ pv.addr = <<b, 2 * k[n].at[l]>>

\* The second half completes the command, whichever half it is.
LEMMA SecondHalf ==
  ASSUME NEW k \in Kernels, NEW b \in BlockIds, NEW n \in 1 .. Len(k), NEW l \in 1 .. Len(k[n].at),
         Row(fmtd16, b * Size(k), b, k, Len(k)), Amid(k, b, n, l), coalesce_trace
  PROVE  AfterAt(i', fmtd32', prev', k, b, n, l)
<1>0. i' = i + 1
  BY DEF coalesce_trace
<1>1. PICK p \in Nat : p = b * Size(k) + Entries(k, n - 1) + 2 * (l - 1) /\ i = p + 1
  <2>1. PICK p : p = b * Size(k) + Entries(k, n - 1) + 2 * (l - 1)
    OBVIOUS
  <2>2. p \in Nat
    BY <2>1, HalvesAt
  <2>3. i = p + 1
    BY <2>1 DEF Amid
  <2> QED BY <2>1, <2>2, <2>3
<1>2. PICK h \in {0, 1} : fmtd16[i] = Entry(b, k[n], l, 1 - h)
  <2>1. PICK f : f = fmtd16
    OBVIOUS
  <2>2. Row(f, b * Size(k), b, k, Len(k))
    BY <2>1
  <2>3. PICK h \in {0, 1} : /\ f[p] = Entry(b, k[n], l, h) /\ f[p + 1] = Entry(b, k[n], l, 1 - h)
                            /\ h = 1 => k[n].cmd # "B"
    BY <2>2, <1>1, HalvesAt, Zenon
  <2> QED BY <2>1, <2>3, <1>1
<1>3. i' = b * Size(k) + Entries(k, n - 1) + 2 * (l - 1) + 2
  <2>1. i' = p + 2
    BY <1>0, <1>1
  <2> QED BY <2>1, <1>1
<1>4. PICK ins : ins = k[n] /\ GoodIns(ins) /\ Len(ins.at) \in Nat
  BY KernelsGood DEF GoodKernel, Counts
<1>5. b \in Nat /\ l - 1 \in Nat /\ (l - 1) + 1 = l
  BY <1>4, TraceAssumption DEF BlockIds
<1>6. PICK e : e = fmtd16[i]
  OBVIOUS
<1>7. CASE ins.cmd = "B"
  <2>1. e = [cmd |-> "B", block |-> b, addr |-> 0, data |-> Stale]
    BY <1>2, <1>4, <1>6, <1>7 DEF Entry
  <2>2. e.cmd = "B" /\ e.block = b
    BY <2>1
  <2>3. Barrier(e)
    BY <2>2, <1>6 DEF coalesce_trace
  <2>4. PICK c : c = [cmd |-> "B", block |-> b, addr |-> 0, data |-> <<Stale, Stale>>]
    OBVIOUS
  <2>5. fmtd32' = Append(fmtd32, c) /\ prev'.cmd = "B"
    BY <2>2, <2>3, <2>4 DEF Barrier
  <2>6. PICK x : x = BarrierCommand(b)
    OBVIOUS
  <2>7. MatchOne(c, x)
    BY <2>4, <2>6 DEF MatchOne, CmdFields, BarrierCommand, InOrder
  <2>8. PICK out, mid : out = Out(k, b, n, l - 1) /\ mid = out \o <<x>> /\ IsSeq(out)
    BY <1>5, OutLane
  <2>9. Matches(fmtd32, mid)
    BY <2>6, <2>8, <1>4, <1>7 DEF Amid
  <2>10. Matches(Append(fmtd32, c), mid \o <<x>>)
    BY <2>7, <2>9, MatchesAppend
  <2>11. Out(k, b, n, l) = out \o <<x, x>>
    <3>1. Out(k, b, n, (l - 1) + 1) = Out(k, b, n, l - 1) \o LaneCommands(b, k[n], (l - 1) + 1)
      BY <1>5, OutLane
    <3>2. LaneCommands(b, ins, l) = <<x, x>>
      BY <2>6, <1>4, <1>7, LaneAdds
    <3> QED BY <3>1, <3>2, <2>8, <1>4, <1>5
  <2>12. (out \o <<x>>) \o <<x>> = out \o <<x, x>>
    <3>0. IsSeq(<<x>>)
      BY DEF IsSeq, Range
    <3>1. PICK s : s = <<x>> /\ IsSeq(s)
      BY <3>0
    <3>2. (out \o s) \o s = out \o (s \o s)
      BY <2>8, <3>1, ConcatAssoc
    <3>3. s \o s = <<x, x>>
      BY <3>1, ConcatPair
    <3> QED BY <3>1, <3>2, <3>3
  <2>13. Matches(fmtd32', Out(k, b, n, l))
    BY <2>5, <2>8, <2>10, <2>11, <2>12
  <2> QED BY <2>5, <2>13, <1>3, <1>4, <1>7 DEF AfterAt
<1>8. CASE ins.cmd # "B"
  <2>0. ins.cmd \in {"R", "W"} /\ (Stores(ins) => ins.cmd = "W")
    BY <1>4, <1>8 DEF GoodIns
  <2>1. PICK out : out = Out(k, b, n, l)
    OBVIOUS
  <2>2. HalfMatches(fmtd32, out, b, ins, l, e) /\ prev.cmd = ins.cmd /\ prev.addr = <<b, 2 * ins.at[l]>>
    BY <2>1, <1>4, <1>6, <1>8 DEF Amid
  <2>3. PICK last : last = fmtd32[Len(fmtd32)] /\ HalfOne(last, b, ins, l, e)
    BY <2>2 DEF HalfMatches
  <2>4. PICK g, d \in {0, 1} :
          /\ d = 1 - g \/ (d = 0 /\ l \notin Alone(ins))
          /\ last.addr = 2 * ins.at[l] + g /\ e = Entry(b, ins, l, d)
          /\ Stores(ins) => \E y \in {last.data[2]} : last.data = <<Datum(ins, l, g), y>>
    BY <2>3, Zenon DEF HalfOne
  <2>5. DOMAIN last = CmdFields /\ last.cmd = ins.cmd /\ last.block = b
    BY <2>3 DEF HalfOne
  <2>6. \/ g = 0 /\ d = 1
        \/ g = 1 /\ d = 0
        \/ g = 0 /\ d = 0 /\ l \notin Alone(ins)
    BY <2>4
  <2>7. PICK a \in Nat : a = ins.at[l]
    BY <1>4, <1>8, EntryFields
  <2>8. /\ e.cmd = ins.cmd /\ e.addr = 2 * a + d /\ e.data = Datum(ins, l, d)
        /\ Whole(e) = <<b, 2 * a>> /\ Masked(e.addr) = 2 * a
    <3>1. e = Entry(b, ins, l, d)
      BY <2>4
    <3>2. GoodIns(ins) /\ l \in 1 .. Len(ins.at)
      BY <1>4
    <3>3. /\ Entry(b, ins, l, d).cmd = ins.cmd /\ Entry(b, ins, l, d).addr = 2 * ins.at[l] + d
          /\ Entry(b, ins, l, d).data = Datum(ins, l, d)
          /\ Whole(Entry(b, ins, l, d)) = <<b, 2 * ins.at[l]>>
          /\ Masked(2 * ins.at[l] + d) = 2 * ins.at[l]
      BY <3>2, <1>8, EntryFields, SMTT(30)
    <3> QED BY <3>1, <3>3, <2>7
  <2>9. Merge(e) /\ prev' = prev
    BY <2>0, <2>2, <2>7, <2>8, <1>6 DEF coalesce_trace, Merge
  <2>10. Stores(ins) => last.data[1] = Datum(ins, l, g)
    BY <2>4
  <2>11. PICK c : /\ Replaced(fmtd32', fmtd32, c) /\ DOMAIN c = CmdFields
                  /\ c.cmd = ins.cmd /\ c.block = b /\ c.addr = 2 * a
                  /\ Stores(ins) => \/ c.data = <<Datum(ins, l, 0), Datum(ins, l, 1)>>
                                    \/ /\ l \notin Alone(ins)
                                       /\ c.data = <<Datum(ins, l, 0), Datum(ins, l, 0)>>
    <3>1. CASE g = 0
      <4>1. last.addr = 2 * a
        BY <3>1, <2>4, <2>7
      <4>2. ~(e.addr < last.addr)
        BY <4>1, <2>8
      <4>3. PICK c : c = [last EXCEPT !.addr = @, !.data = IF e.cmd # "W" THEN @ ELSE <<@[1], e.data>>]
        OBVIOUS
      <4>4. Replaced(fmtd32', fmtd32, c)
        BY <2>3, <2>9, <4>2, <4>3 DEF Merge, Replaced
      <4>5. DOMAIN c = CmdFields /\ c.cmd = ins.cmd /\ c.block = b /\ c.addr = 2 * a
        BY <2>5, <4>1, <4>3 DEF CmdFields
      <4>6. Stores(ins) => c.data = <<Datum(ins, l, 0), Datum(ins, l, d)>>
        BY <2>0, <2>5, <2>8, <2>10, <3>1, <4>3 DEF CmdFields
      <4> QED BY <2>6, <3>1, <4>4, <4>5, <4>6
    <3>2. CASE g = 1
      <4>1. d = 0 /\ last.addr = 2 * a + 1
        BY <3>2, <2>4, <2>6, <2>7
      <4>2. e.addr < last.addr
        BY <4>1, <2>8
      <4>3. PICK c : c = [last EXCEPT !.addr = Masked(e.addr), !.data = IF e.cmd # "W" THEN @ ELSE <<e.data, @[1]>>]
        OBVIOUS
      <4>4. Replaced(fmtd32', fmtd32, c)
        BY <2>3, <2>9, <4>2, <4>3 DEF Merge, Replaced
      <4>5. DOMAIN c = CmdFields /\ c.cmd = ins.cmd /\ c.block = b /\ c.addr = 2 * a
        BY <2>5, <2>8, <4>3 DEF CmdFields
      <4>6. Stores(ins) => c.data = <<Datum(ins, l, 0), Datum(ins, l, 1)>>
        BY <2>0, <2>5, <2>8, <2>10, <3>2, <4>1, <4>3 DEF CmdFields
      <4> QED BY <4>4, <4>5, <4>6
    <3> QED BY <3>1, <3>2
  <2>12. out[Len(out)] = Command(b, ins, l)
    BY <2>1, <1>4, <1>5, <1>8, LastCommand
  <2>13. MatchOne(c, out[Len(out)])
    <3>0. PICK x : x = Command(b, ins, l)
      OBVIOUS
    <3>1. /\ x = Command(b, ins, l)
          /\ x[1] = ins.cmd /\ x[2] = b /\ x[3] = 2 * ins.at[l]
          /\ x[4] = IF Stores(ins) THEN <<Datum(ins, l, 0), Datum(ins, l, 1)>> ELSE << >>
          /\ x[5] = (l \notin Alone(ins))
      BY <3>0, FiveParts, Zenon DEF Command
    <3>2. CASE ~Stores(ins)
      <4>1. InOrder(c, x)
        BY <3>1, <3>2 DEF InOrder
      <4> QED BY <4>1, <3>1, <2>7, <2>11, <2>12, Zenon DEF MatchOne
    <3>3. CASE Stores(ins)
      <4>1. PICK u0, u1 : u0 = Datum(ins, l, 0) /\ u1 = Datum(ins, l, 1)
        OBVIOUS
      <4>2. x[4] = <<u0, u1>> /\ x[4][1] = u0
        BY <4>1, <3>1, <3>3
      <4>3. c.data = <<u0, u1>> \/ (l \notin Alone(ins) /\ c.data = <<u0, u0>>)
        BY <4>1, <3>3, <2>11
      <4>4. InOrder(c, x) \/ (x[5] /\ c.data = <<x[4][1], x[4][1]>>)
        BY <4>2, <4>3, <3>1 DEF InOrder
      <4> QED BY <4>4, <3>1, <2>7, <2>11, <2>12, Zenon DEF MatchOne
    <3> QED BY <3>2, <3>3
  <2>14. Matches(fmtd32', out)
    BY <2>2, <2>11, <2>13, HalfDone
  <2> QED BY <2>1, <2>2, <2>9, <2>14, <1>3, <1>4, <1>8 DEF AfterAt
<1> QED BY <1>7, <1>8

\* Then another lane, instruction or block comes next, and its first transaction
\* is not taken for the one before unless it is the same.
LEMMA Onward ==
  ASSUME NEW k \in Kernels, NEW b \in BlockIds, NEW n \in 1 .. Len(k), NEW l \in 1 .. Len(k[n].at),
         NEW pos, NEW f, NEW pv, AfterAt(pos, f, pv, k, b, n, l)
  PROVE  \/ AtEndAt(pos, f, k)
         \/ \E c \in BlockIds : \E m \in 1 .. Len(k) : \E q \in 1 .. Len(k[m].at) : BeforeAt(pos, f, pv, k, c, m, q)
<1>1. /\ GoodKernel(k) /\ Counts(k) /\ Len(k) \in Nat /\ Len(k[n].at) \in Nat /\ GoodIns(k[n])
      /\ Entries(k, n) = Entries(k, n - 1) + 2 * Len(k[n].at) /\ Size(k) \in Nat
  BY KernelsGood DEF Counts, GoodKernel
<1>2. b \in Nat /\ NumBlocks \in Nat /\ b < NumBlocks /\ l \in Nat /\ n \in Nat
  BY <1>1, TraceAssumption DEF BlockIds
<1>3. PICK B \in Nat, E \in Nat : B = b * Size(k) /\ E = Entries(k, n - 1)
  <2>1. n - 1 \in 0 .. Len(k)
    BY <1>1
  <2>2. Entries(k, n - 1) \in Nat /\ b * Size(k) \in Nat
    BY <2>1, <1>1, <1>2, SMTT(30) DEF Counts
  <2> QED BY <2>2, Zenon
<1>4. pos = B + E + 2 * (l - 1) + 2
  BY <1>3 DEF AfterAt
<1>5. Matches(f, Out(k, b, n, l))
  BY DEF AfterAt
<1>6. CASE l < Len(k[n].at)
  <2>1. PICK q \in 1 .. Len(k[n].at) : q = l + 1 /\ q - 1 = l /\ q \in 2 .. Len(k[n].at) /\ q \in Nat
    BY <1>1, <1>2, <1>6
  <2>2. pos = B + E + 2 * (q - 1)
    BY <2>1, <1>2, <1>4
  <2>3. ASSUME k[n].cmd # "B"
        PROVE  (pv.cmd = k[n].cmd /\ pv.addr = <<b, 2 * k[n].at[q]>>) = ~First(k[n], q)
    <3>1. pv.cmd = k[n].cmd /\ pv.addr = <<b, 2 * k[n].at[l]>>
      BY <2>3 DEF AfterAt
    <3>2. k[n].at[l] \in Nat /\ k[n].at[q] \in Nat
      <4>1. PICK at \in Seq(Nat) : at = k[n].at
        BY <1>1 DEF GoodIns
      <4>2. l \in 1 .. Len(at) /\ q \in 1 .. Len(at)
        BY <4>1
      <4>3. at[l] \in Nat /\ at[q] \in Nat
        BY <4>2
      <4> QED BY <4>1, <4>3
    <3>3. (pv.cmd = k[n].cmd /\ pv.addr = <<b, 2 * k[n].at[q]>>) <=> k[n].at[l] = k[n].at[q]
      BY <3>1, <3>2
    <3>4. First(k[n], q) \/ k[n].at[q] = k[n].at[q - 1]
      BY <2>1, <2>3, <1>1 DEF GoodIns
    <3>5. l \in 1 .. q - 1
      BY <2>1
    <3>6. First(k[n], q) => k[n].at[l] # k[n].at[q]
      BY <3>5, Zenon DEF First
    <3> QED BY <2>1, <3>3, <3>4, <3>6
  <2>4. Matches(f, Out(k, b, n, q - 1))
    BY <2>1, <1>5
  <2>5. BeforeAt(pos, f, pv, k, b, n, q)
    BY <2>2, <2>3, <2>4, <1>3 DEF BeforeAt
  <2> QED BY <2>5
<1>7. CASE ~(l < Len(k[n].at))
  <2>1. l = Len(k[n].at)
    BY <1>1, <1>2, <1>7
  <2>2. pos = B + Entries(k, n)
    <3>1. Entries(k, n) = E + 2 * l
      BY <2>1, <1>1, <1>3
    <3> QED BY <3>1, <1>2, <1>4
  <2>3. ASSUME NEW m \in 1 .. Len(k) PROVE First(k[m], 1) /\ 1 \in 1 .. Len(k[m].at) /\ k[m].at[1] \in Nat
    <3>1. GoodIns(k[m])
      BY <1>1 DEF GoodKernel
    <3>2. First(k[m], 1)
      BY DEF First
    <3> QED BY <3>1, <3>2 DEF GoodIns
  <2>4. k[n].at[l] \in Nat
    BY <1>1, SMTT(30) DEF GoodIns
  <2>5. CASE n < Len(k)
    <3>1. PICK m \in 1 .. Len(k) : m = n + 1 /\ m - 1 = n
      BY <2>5, <1>1, <1>2
    <3>2. Matches(f, Out(k, b, m, 1 - 1))
      <4>1. Out(k, b, n + 1, 0) = Out(k, b, n, Len(k[n].at))
        BY <2>5, <1>2, OutIns
      <4>2. 1 - 1 = 0
        OBVIOUS
      <4> QED BY <4>1, <4>2, <3>1, <2>1, <1>5
    <3>3. pos = B + Entries(k, m - 1) + 2 * (1 - 1)
      BY <3>1, <2>2, <1>1, <1>3
    <3>4. ASSUME k[m].cmd # "B"
          PROVE  ~(pv.cmd = k[m].cmd /\ pv.addr = <<b, 2 * k[m].at[1]>>)
      <4>1. Fits(k[n], k[m])
        <5>1. n \in 1 .. Len(k) - 1
          BY <2>5, <1>1
        <5> QED BY <3>1, <5>1, <1>1 DEF GoodKernel
      <4>2. CASE k[n].cmd = "B"
        BY <3>4, <4>2 DEF AfterAt
      <4>3. CASE k[n].cmd # "B"
        <5>1. pv.cmd = k[n].cmd /\ pv.addr = <<b, 2 * k[n].at[l]>>
          BY <4>3 DEF AfterAt
        <5>2. k[n].cmd = k[m].cmd => k[n].at[l] # k[m].at[1]
          BY <3>4, <4>1, <2>1 DEF Fits
        <5>3. k[m].at[1] \in Nat
          BY <2>3
        <5> QED BY <5>1, <5>2, <5>3, <2>4, SMTT(30)
      <4> QED BY <4>2, <4>3
    <3>5. k[m].cmd # "B" =>
            (pv.cmd = k[m].cmd /\ pv.addr = <<b, 2 * k[m].at[1]>>) = ~First(k[m], 1)
      BY <3>4, <2>3
    <3>6. BeforeAt(pos, f, pv, k, b, m, 1)
      BY <3>2, <3>3, <3>5, <1>3, Zenon DEF BeforeAt
    <3> QED BY <3>6, <2>3
  <2>6. CASE ~(n < Len(k))
    <3>1. n = Len(k)
      BY <2>6, <1>1, <1>2
    <3>2. pos = (b + 1) * Size(k)
      <4>1. Entries(k, n) = Size(k)
        BY <3>1 DEF Size
      <4>2. (b + 1) * Size(k) = b * Size(k) + Size(k)
        BY <1>1, <1>2
      <4> QED BY <4>1, <4>2, <2>2, <1>3
    <3>3. Matches(f, Blocks0(k, b + 1))
      BY <3>1, <2>1, <1>2, <1>5, OutBlock
    <3>4. CASE b + 1 = NumBlocks
      BY <3>2, <3>3, <3>4 DEF AtEndAt
    <3>5. CASE b + 1 # NumBlocks
      <4>1. PICK c \in BlockIds : c = b + 1 /\ c \in Nat
        BY <3>5, <1>2 DEF BlockIds
      <4>2. 1 \in 1 .. Len(k) /\ 1 - 1 = 0 /\ Entries(k, 0) = 0
        BY <3>1, <1>1 DEF Counts
      <4>3. Matches(f, Out(k, c, 1, 1 - 1))
        BY <4>1, <4>2, <3>3, OutBlock
      <4>4. pos = c * Size(k) + Entries(k, 1 - 1) + 2 * (1 - 1)
        <5>1. PICK M \in Nat : M = c * Size(k)
          BY <4>1, <1>1
        <5>2. pos = M
          BY <5>1, <4>1, <3>2
        <5>3. M + 0 + 2 * 0 = M
          OBVIOUS
        <5> QED BY <5>1, <5>2, <5>3, <4>2
      <4>5. ASSUME k[1].cmd # "B"
            PROVE  ~(pv.cmd = k[1].cmd /\ pv.addr = <<c, 2 * k[1].at[1]>>)
        <5>1. CASE k[n].cmd = "B"
          BY <4>5, <5>1 DEF AfterAt
        <5>2. CASE k[n].cmd # "B"
          <6>1. pv.addr = <<b, 2 * k[n].at[l]>>
            BY <5>2 DEF AfterAt
          <6>2. b # c
            BY <4>1, <1>2
          <6> QED BY <6>1, <6>2
        <5> QED BY <5>1, <5>2
      <4>6. k[1].cmd # "B" =>
              (pv.cmd = k[1].cmd /\ pv.addr = <<c, 2 * k[1].at[1]>>) = ~First(k[1], 1)
        BY <4>2, <4>5, <2>3
      <4>7. BeforeAt(pos, f, pv, k, c, 1, 1)
        BY <4>3, <4>4, <4>6, Zenon DEF BeforeAt
      <4> QED BY <4>2, <4>7, <2>3
    <3> QED BY <3>4, <3>5
  <2> QED BY <2>5, <2>6
<1> QED BY <1>6, <1>7

\* An entry makes at most one command.
LEMMA OneCommand ==
  ASSUME IsSeq(fmtd32), coalesce_trace
  PROVE  Len(fmtd32') <= Len(fmtd32) + 1 /\ Len(fmtd32) \in Nat /\ Len(fmtd32') \in Nat
<1>0. Len(fmtd32) \in Nat
  BY DEF IsSeq
<1>1. ASSUME NEW c, fmtd32' = Append(fmtd32, c)
      PROVE  Len(fmtd32') <= Len(fmtd32) + 1 /\ Len(fmtd32') \in Nat
  BY <1>0, <1>1, AppendLast
<1>2. ASSUME NEW c, Replaced(fmtd32', fmtd32, c)
      PROVE  Len(fmtd32') <= Len(fmtd32) + 1 /\ Len(fmtd32') \in Nat
  <2>1. PICK f, g : f = fmtd32 /\ g = fmtd32' /\ IsSeq(f) /\ Replaced(g, f, c)
    BY <1>2
  <2>2. CASE Len(f) >= 1
    <3>1. Len(g) = Len(f)
      BY <2>1, <2>2, ReplaceLast
    <3> QED BY <2>1, <3>1, <1>0
  <2>3. CASE ~(Len(f) >= 1)
    <3>1. DOMAIN f = {}
      BY <2>1, <2>3 DEF IsSeq
    <3>2. g = << >>
      BY <2>1, <3>1 DEF Replaced
    <3>3. Len(g) = 0
      BY <3>2
    <3> QED BY <2>1, <3>3, <1>0
  <2> QED BY <2>2, <2>3
<1>3. PICK e : e = fmtd16[i]
  OBVIOUS
<1>4. Barrier(e) \/ Merge(e) \/ coalesced_update(e)
  BY <1>3, Zenon DEF coalesce_trace
<1>5. CASE Barrier(e)
  BY <1>0, <1>1, <1>5 DEF Barrier
<1>6. CASE Merge(e)
  <2>1. PICK c : Replaced(fmtd32', fmtd32, c)
    BY <1>6, Zenon DEF Merge, Replaced
  <2> QED BY <1>0, <1>2, <2>1
<1>7. CASE coalesced_update(e)
  <2>1. PICK c : fmtd32' = Append(fmtd32, c)
    BY <1>7, Zenon DEF coalesced_update
  <2> QED BY <1>0, <1>1, <2>1
<1> QED BY <1>4, <1>5, <1>6, <1>7

\* While a lane is to come, so is an entry.
LEMMA LaneLeft ==
  ASSUME NEW k \in Kernels, NEW b \in BlockIds, NEW n \in 1 .. Len(k), NEW l \in 1 .. Len(k[n].at)
  PROVE  b * Size(k) + Entries(k, n - 1) + 2 * (l - 1) + 1 < NumBlocks * Size(k)
<1>1. Size(k) \in Nat /\ Len(k) \in Nat /\ Len(k) \in 0 .. Len(k) /\ n - 1 \in 0 .. Len(k)
  BY KernelsGood DEF Counts
<1>2. b \in Nat /\ NumBlocks \in Nat /\ b < NumBlocks
  BY TraceAssumption DEF BlockIds
<1>3. PICK q \in Nat : q = Slot(k, n, l) /\ q + 1 < Size(k)
  <2>1. /\ Slot(k, n, l) \in Nat /\ Slot(k, n, l) + 1 < Entries(k, n) /\ Entries(k, n) \in Nat
        /\ Entries(k, n) <= Entries(k, Len(k)) /\ Entries(k, Len(k)) <= Size(k)
    BY <1>1, Slots
  <2> QED BY <2>1, <1>1 DEF Size
<1>4. PICK B \in Nat, S \in Nat, Z \in Nat : B = b * Size(k) /\ S = Size(k) /\ Z = NumBlocks * Size(k) /\ B + S <= Z
  BY <1>1, <1>2, RowsApart
<1>5. PICK e \in Nat : e = Entries(k, n - 1)
  BY <1>1, KernelsGood DEF Counts
<1>6. l \in Int
  <2>1. Len(k[n].at) \in Nat
    BY <1>1, Slots
  <2> QED BY <2>1
<1>7. q = e + 2 * (l - 1) /\ q + 1 < S
  BY <1>3, <1>4, <1>5 DEF Slot
<1>8. B + S <= Z
  BY <1>4
<1>9. B + e + 2 * (l - 1) + 1 < Z
  BY <1>6, <1>7, <1>8
<1> QED BY <1>4, <1>5, <1>9

\* coalesce_trace keeps TraceInv, whichever half of whichever lane it is at.
LEMMA CoalesceKeeps ==
  ASSUME HalfARow, TraceInv, coalesce_trace
  PROVE  TraceInv'
<1>1. /\ pc = "coalesce" /\ pc' = "coalesce" /\ i < frd_size /\ i' = i + 1
      /\ kernel' = kernel /\ next' = next /\ ridx' = ridx /\ frd_size' = frd_size /\ fmtd16' = fmtd16
  BY DEF coalesce_trace
<1>2. CoalesceInv /\ Types /\ IsSeq(fmtd32) /\ Len(fmtd32) <= i
  BY <1>1 DEF TraceInv
<1>3. PICK k \in Kernels : k = kernel /\ kernel' = k
  BY <1>1, <1>2 DEF CoalesceInv
<1>4. /\ frd_size = NumBlocks * Size(k) /\ DOMAIN fmtd16 = 0 .. frd_size - 1
      /\ \A b \in BlockIds : Row(fmtd16, b * Size(k), b, k, Len(k))
      /\ \/ AtEnd(k)
         \/ \E b \in BlockIds : \E n \in 1 .. Len(k) : \E l \in 1 .. Len(k[n].at) :
              Before(k, b, n, l) \/ Amid(k, b, n, l)
  BY <1>2, <1>3, Zenon DEF CoalesceInv
<1>5. NumBlocks * Width \in Nat /\ i \in Nat /\ frd_size \in Nat /\ frd_size <= NumBlocks * Width
  BY <1>2, TraceAssumption DEF Types
<1>6. ~AtEnd(k)
  BY <1>1, <1>4, <1>5 DEF AtEnd, AtEndAt
<1>7. PICK b \in BlockIds : \E n \in 1 .. Len(k) : \E l \in 1 .. Len(k[n].at) :
        Before(k, b, n, l) \/ Amid(k, b, n, l)
  BY <1>4, <1>6
<1>8. PICK n \in 1 .. Len(k) : \E l \in 1 .. Len(k[n].at) : Before(k, b, n, l) \/ Amid(k, b, n, l)
  BY <1>7
<1>9. PICK l \in 1 .. Len(k[n].at) : Before(k, b, n, l) \/ Amid(k, b, n, l)
  BY <1>8
<1>10. Row(fmtd16, b * Size(k), b, k, Len(k))
  BY <1>4
<1>11. /\ \/ AtEnd(k)'
          \/ \E c \in BlockIds : \E m \in 1 .. Len(k) : \E q \in 1 .. Len(k[m].at) :
               Before(k, c, m, q)' \/ Amid(k, c, m, q)'
       /\ IsSeq(fmtd32')
  <2>1. CASE Before(k, b, n, l)
    <3>1. Amid(k, b, n, l)'
      BY <2>1, <1>10, FirstHalf
    <3>2. IsSeq(fmtd32')
      BY <3>1, Zenon DEF Amid, Matches, HalfMatches
    <3> QED BY <3>1, <3>2
  <2>2. CASE Amid(k, b, n, l)
    <3>1. AfterAt(i', fmtd32', prev', k, b, n, l)
      BY <2>2, <1>10, SecondHalf
    <3>2. PICK pos, f, pv : pos = i' /\ f = fmtd32' /\ pv = prev'
      OBVIOUS
    <3>3. \/ AtEndAt(pos, f, k)
          \/ \E c \in BlockIds : \E m \in 1 .. Len(k) : \E q \in 1 .. Len(k[m].at) :
               BeforeAt(pos, f, pv, k, c, m, q)
      BY <3>1, <3>2, Onward
    <3>4. IsSeq(fmtd32')
      BY <3>1 DEF AfterAt, Matches
    <3>5. AtEndAt(pos, f, k) => AtEnd(k)'
      BY <3>2, Zenon DEF AtEnd
    <3>6. \A c, m, q : BeforeAt(pos, f, pv, k, c, m, q) => Before(k, c, m, q)'
      BY <3>2, Zenon DEF Before
    <3> QED BY <3>3, <3>4, <3>5, <3>6, Zenon
  <2> QED BY <1>9, <2>1, <2>2
<1>12. CoalesceInv'
  BY <1>1, <1>3, <1>4, <1>11, Zenon DEF CoalesceInv
<1>13. i' \in 0 .. NumBlocks * Width
  BY <1>1, <1>5
<1>14. Types'
  BY <1>1, <1>2, <1>13 DEF Types
<1>15. Len(fmtd32') <= i'
  <2>1. Len(fmtd32') <= Len(fmtd32) + 1 /\ Len(fmtd32) \in Nat /\ Len(fmtd32') \in Nat
    BY <1>2, OneCommand
  <2> QED BY <2>1, <1>1, <1>2, <1>5
<1> QED BY <1>1, <1>11, <1>12, <1>14, <1>15 DEF TraceInv

\* Coalesced keeps TraceInv.
LEMMA CoalescedKeeps ==
  ASSUME TraceInv, Coalesced
  PROVE  TraceInv'
<1>1. /\ pc = "coalesce" /\ pc' = "done" /\ i = frd_size /\ i' = i
      /\ kernel' = kernel /\ next' = next /\ ridx' = ridx /\ frd_size' = frd_size
      /\ fmtd16' = fmtd16 /\ fmtd32' = fmtd32 /\ prev' = prev
  BY DEF Coalesced
<1>2. CoalesceInv /\ Types /\ IsSeq(fmtd32) /\ Len(fmtd32) <= i
  BY <1>1 DEF TraceInv
<1>3. PICK k \in Kernels : k = kernel /\ kernel' = k
  BY <1>1, <1>2 DEF CoalesceInv
<1>4. /\ frd_size = NumBlocks * Size(k)
      /\ \/ AtEnd(k)
         \/ \E b \in BlockIds : \E n \in 1 .. Len(k) : \E l \in 1 .. Len(k[n].at) :
              Before(k, b, n, l) \/ Amid(k, b, n, l)
  BY <1>2, <1>3, Zenon DEF CoalesceInv
<1>5. PICK Z \in Nat : Z = NumBlocks * Size(k) /\ i = Z
  BY <1>1, <1>4, KernelsGood, TraceAssumption
<1>6. ASSUME NEW b \in BlockIds, NEW n \in 1 .. Len(k), NEW l \in 1 .. Len(k[n].at),
             Before(k, b, n, l) \/ Amid(k, b, n, l)
      PROVE  FALSE
  <2>1. PICK p : p = b * Size(k) + Entries(k, n - 1) + 2 * (l - 1)
    OBVIOUS
  <2>2. i = p \/ i = p + 1
    BY <1>6, <2>1 DEF Before, BeforeAt, Amid
  <2>3. p + 1 < Z
    BY <2>1, <1>5, LaneLeft
  <2>4. p \in Int
    <3>1. Len(k) \in Nat /\ n - 1 \in 0 .. Len(k) /\ Size(k) \in Nat /\ Len(k[n].at) \in Nat
      BY KernelsGood DEF Counts
    <3>2. Entries(k, n - 1) \in Nat /\ b * Size(k) \in Int /\ 2 * (l - 1) \in Int
      BY <3>1, KernelsGood, TraceAssumption, SMTT(30) DEF Counts, BlockIds
    <3> QED BY <2>1, <3>2
  <2> QED BY <2>2, <2>3, <2>4, <1>5
<1>7. AtEnd(k)
  BY <1>4, <1>6
<1>8. AtEnd(k)'
  BY <1>1, <1>7 DEF AtEnd
<1>9. Types'
  BY <1>1, <1>2 DEF Types
<1> QED BY <1>1, <1>2, <1>3, <1>8, <1>9 DEF TraceInv

\* Simulated keeps TraceInv.
LEMMA SimulatedKeeps ==
  ASSUME TraceInv, Simulated
  PROVE  TraceInv'
<1>1. /\ pc' = "idle" /\ next' = [b \in BlockIds |-> 0] /\ ridx' = ridx
      /\ i' = 0 /\ frd_size' = 0 /\ fmtd16' = << >>
  BY DEF Simulated
<1>2. Types /\ NumBlocks * Width \in Nat
  BY TraceAssumption DEF TraceInv
<1>3. DOMAIN fmtd16' = {}
  BY <1>1
<1>4. Types'
  BY <1>1, <1>2, <1>3 DEF Types
<1> QED BY <1>1, <1>4 DEF TraceInv

-----------------------------------------------------------------------------
(* The theorems.                                                           *)

LEMMA TraceInductive == ASSUME HalfARow PROVE Spec => []TraceInv
<1>1. TraceInv /\ [Next]_vars => TraceInv'
  <2> SUFFICES ASSUME TraceInv, [Next]_vars PROVE TraceInv'
    OBVIOUS
  <2>1. CASE \E k \in Kernels : Launch(k)
    BY <2>1, LaunchKeeps
  <2>2. CASE \E b \in BlockIds : Start(b)
    BY <2>2, StartKeeps
  <2>3. CASE \E b \in BlockIds : Execute(b)
    BY <2>3, ExecuteKeeps
  <2>4. CASE Synchronized
    BY <2>4, SynchronizedKeeps
  <2>5. CASE Collect
    BY <2>5, CollectKeeps
  <2>6. CASE Collected
    BY <2>6, CollectedKeeps
  <2>7. CASE coalesce_trace
    BY <2>7, CoalesceKeeps
  <2>8. CASE Coalesced
    BY <2>8, CoalescedKeeps
  <2>9. CASE Simulated
    BY <2>9, SimulatedKeeps
  <2>10. CASE UNCHANGED vars
    <3>1. /\ pc' = pc /\ kernel' = kernel /\ next' = next /\ ridx' = ridx /\ frd_size' = frd_size
          /\ fmtd16' = fmtd16 /\ i' = i /\ fmtd32' = fmtd32 /\ prev' = prev
      BY <2>10 DEF vars
    <3>2. Types' = Types
      BY <3>1 DEF Types
    <3>3. KernelInv' = KernelInv
      BY <3>1 DEF KernelInv
    <3>4. CollectInv' = CollectInv
      BY <3>1 DEF CollectInv
    <3>5. AtEnd(kernel)' = AtEnd(kernel)
      BY <3>1 DEF AtEnd
    <3>6. CoalesceInv' = CoalesceInv
      <4>1. \A b, n, l : Before(kernel, b, n, l)' = Before(kernel, b, n, l)
        BY <3>1 DEF Before
      <4>2. \A b, n, l : Amid(kernel, b, n, l)' = Amid(kernel, b, n, l)
        BY <3>1 DEF Amid
      <4> QED BY <3>1, <3>5, <4>1, <4>2 DEF CoalesceInv
    <3> QED BY <3>1, <3>2, <3>3, <3>4, <3>5, <3>6 DEF TraceInv
  <2> QED BY <2>1, <2>2, <2>3, <2>4, <2>5, <2>6, <2>7, <2>8, <2>9, <2>10 DEF Next
<1> QED BY <1>1, InitTrace, PTL DEF Spec

\* The entries a kernel records stay in the row of their block, the executor
\* hands on exactly what this kernel recorded, and coalesce_trace makes no more
\* commands than it has entries, for every number of blocks, every kernel and
\* every order, if no kernel records more than half of a row.
THEOREM TraceTypes == ASSUME HalfARow PROVE Spec => []TypeOK
<1>1. TraceInv => TypeOK
  <2> SUFFICES ASSUME TraceInv PROVE TypeOK
    OBVIOUS
  <2>1. Types /\ (pc \in {"coalesce", "done"} => Len(fmtd32) <= i)
    BY DEF TraceInv
  <2>2. pc = "coalesce" /\ i = 0 => DOMAIN fmtd16 = 0 .. frd_size - 1
    BY DEF TraceInv, CoalesceInv
  <2> QED BY <2>1, <2>2, Zenon DEF TypeOK, Types
<1> QED BY <1>1, TraceInductive, PTL

\* What the simulator gets from coalesce_trace is what the blocks did: no
\* command is lost, split or merged with another, and what one lane alone writes
\* has its halves in order, for every number of blocks, every kernel and every
\* order of the blocks and of the halves, those that several lanes make as well,
\* if no kernel records more than half of a row.
THEOREM TraceFaithful == ASSUME HalfARow PROVE Spec => []CommandsRight
<1>1. TraceInv => CommandsRight
  <2> SUFFICES ASSUME TraceInv, pc = "done" PROVE CommandsRight
    BY DEF CommandsRight
  <2>1. PICK k \in Kernels : k = kernel /\ AtEnd(k)
    BY DEF TraceInv
  <2>2. PICK f, e : f = fmtd32 /\ e = Blocks0(k, NumBlocks) /\ Matches(f, e)
    BY <2>1 DEF AtEnd, AtEndAt
  <2>3. e = Expected
    BY <2>1, <2>2, Zenon DEF Expected, Blocks0, BlockCommands
  <2>4. DOMAIN e = 1 .. Len(e) /\ Len(f) = Len(e)
    BY <2>2 DEF Matches, IsSeq
  <2>5. ASSUME NEW n \in DOMAIN e
        PROVE  /\ <<f[n].cmd, f[n].block, f[n].addr>> = <<e[n][1], e[n][2], e[n][3]>>
               /\ \/ InOrder(f[n], e[n])
                  \/ e[n][5] /\ f[n].data = <<e[n][4][1], e[n][4][1]>>
    <3>1. MatchOne(f[n], e[n])
      BY <2>2, <2>4, Zenon DEF Matches
    <3> QED BY <3>1, Zenon DEF MatchOne
  <2> QED BY <2>2, <2>3, <2>4, <2>5, Zenon DEF CommandsRight
<1> QED BY <1>1, TraceInductive, PTL
=============================================================================
