-------------------------- MODULE PositionsProofs ---------------------------
(***************************************************************************)
(* Induction and recursion over the natural numbers, for sets and          *)
(* functions instead of operators, and what they say of Positions.         *)
(***************************************************************************)
EXTENDS Positions, SequenceTheorems, WellFoundedInduction, TLAPS

\* A set of natural numbers has a least member.
LEMMA Least ==
    ASSUME NEW T \in SUBSET Nat, T # {}
    PROVE  \E x \in T : \A y \in T : x <= y
<1> DEFINE R == {ss \in Nat \X Nat : ss[1] < ss[2]}
<1>1. IsWellFoundedOn(R, Nat)
  BY ONLY NatLessThanWellFounded, Zenon DEF OpToRel
<1>2. PICK x \in T : \A y \in T : ~ (<<y, x>> \in R)
  BY ONLY <1>1, WFMin, T \in SUBSET Nat, T # {}, Zenon
<1>3. ASSUME NEW y \in T
      PROVE  x <= y
  <2>1. ~ (<<y, x>> \in R)
    BY <1>2
  <2>2. y \in Nat /\ x \in Nat
    OBVIOUS
  <2>3. ~ (y < x)
    BY <2>1, <2>2
  <2>4. QED
    BY <2>2, <2>3
<1>4. QED
  BY <1>3

\* Induction, for a property given as the set of numbers that have it.
LEMMA SetInduction ==
    ASSUME NEW T, 0 \in T, \A n \in Nat : n \in T => n + 1 \in T
    PROVE  \A n \in Nat : n \in T
<1> DEFINE B == Nat \ T
<1>1. SUFFICES ASSUME B # {}
               PROVE  FALSE
  OBVIOUS
<1>2. PICK x \in B : \A y \in B : x <= y
  BY <1>1, Least
<1>3. x # 0 /\ x - 1 \in Nat /\ x - 1 \notin B
  BY <1>2
<1>4. QED
  BY <1>2, <1>3

\* g is what the recursion that starts with a and goes on with F computes up
\* to n.
Computes(g, a, F, n) ==
    /\ DOMAIN g = 0..n
    /\ g[0] = a
    /\ \A i \in 0..n : i < n => g[i + 1] = F[i][g[i]]

LEMMA ComputesUnique ==
    ASSUME NEW a, NEW F, NEW m \in Nat, NEW n \in Nat, m <= n, NEW g, NEW h,
           Computes(g, a, F, m), Computes(h, a, F, n)
    PROVE  g[m] = h[m]
<1> DEFINE T == {i \in Nat : i <= m => g[i] = h[i]}
<1>1. 0 \in T
  BY DEF Computes
<1>2. ASSUME NEW i \in Nat, i \in T
      PROVE  i + 1 \in T
  <2>1. SUFFICES ASSUME i + 1 <= m
                 PROVE  g[i + 1] = h[i + 1]
    OBVIOUS
  <2>2. g[i] = h[i] /\ i \in 0..m /\ i \in 0..n /\ i < m /\ i < n
    BY <1>2, <2>1
  <2>3. QED
    BY <2>2 DEF Computes
<1>3. m \in T
  <2> HIDE DEF T
  <2> QED BY <1>1, <1>2, SetInduction
<1>4. QED
  BY <1>3

LEMMA ComputesExists ==
    ASSUME NEW a, NEW F, NEW n \in Nat
    PROVE  \E g : Computes(g, a, F, n)
<1> DEFINE T == {i \in Nat : \E g : Computes(g, a, F, i)}
<1>1. 0 \in T
  <2>1. Computes([i \in 0..0 |-> a], a, F, 0)
    BY DEF Computes
  <2>2. QED
    BY <2>1
<1>2. ASSUME NEW k \in Nat, k \in T
      PROVE  k + 1 \in T
  <2>1. PICK g : Computes(g, a, F, k)
    BY <1>2
  <2> DEFINE h == [i \in 0..(k + 1) |-> IF i = k + 1 THEN F[k][g[k]] ELSE g[i]]
  <2>2. DOMAIN h = 0..(k + 1) /\ h[0] = a
    BY <2>1 DEF Computes
  <2>3. ASSUME NEW i \in 0..(k + 1), i < k + 1
        PROVE  h[i + 1] = F[i][h[i]]
    <3>1. CASE i = k
      BY <3>1
    <3>2. CASE i < k
      <4>1. i \in 0..k /\ g[i + 1] = F[i][g[i]]
        BY <3>2, <2>1 DEF Computes
      <4>2. h[i + 1] = g[i + 1] /\ h[i] = g[i]
        BY <3>2
      <4>3. QED
        BY <4>1, <4>2
    <3>3. QED
      BY <2>3, <3>1, <3>2
  <2>4. Computes(h, a, F, k + 1)
    BY <2>2, <2>3 DEF Computes
  <2>5. QED
    BY <2>4
<1>3. n \in T
  <2> HIDE DEF T
  <2> QED BY <1>1, <1>2, SetInduction
<1>4. QED
  BY <1>3

Recursive(f, a, F) == f[0] = a /\ \A n \in Nat : f[n + 1] = F[n][f[n]]

\* A function of the natural numbers may be defined by recursion.
LEMMA Recursion ==
    ASSUME NEW a, NEW F
    PROVE  \E f, Y : f \in [Nat -> Y] /\ Recursive(f, a, F)
<1> DEFINE g(n) == CHOOSE x : Computes(x, a, F, n)
<1> DEFINE f == [n \in Nat |-> g(n)[n]]
<1>1. \A n \in Nat : Computes(g(n), a, F, n)
  BY ComputesExists
<1> HIDE DEF g
<1>2. f \in [Nat -> {g(n)[n] : n \in Nat}]
  OBVIOUS
<1>3. f[0] = a
  BY <1>1 DEF Computes
<1>4. ASSUME NEW n \in Nat
      PROVE  f[n + 1] = F[n][f[n]]
  <2>1. Computes(g(n), a, F, n) /\ Computes(g(n + 1), a, F, n + 1)
    BY <1>1
  <2>2. g(n + 1)[n + 1] = F[n][g(n + 1)[n]]
    BY <2>1 DEF Computes
  <2>3. g(n + 1)[n] = g(n)[n]
    BY <2>1, ComputesUnique
  <2>4. QED
    BY <2>2, <2>3
<1>5. Recursive(f, a, F)
  BY <1>3, <1>4 DEF Recursive
<1>6. QED
  BY <1>2, <1>5

-----------------------------------------------------------------------------
\* The recursion of Positions.
LEMMA PositionsDef ==
    ASSUME NEW S
    PROVE  /\ Positions(S)[0] = <<>>
           /\ \A n \in Nat : Positions(S)[n + 1] =
                  IF n + 1 \in S THEN Append(Positions(S)[n], n + 1)
                  ELSE Positions(S)[n]
<1> DEFINE X == Seq(Nat)
           F == [n \in Nat |-> [q \in X |-> IF n + 1 \in S THEN Append(q, n + 1)
                                            ELSE q]]
           D(p, n) == IF n = 0 THEN <<>>
                      ELSE IF n \in S THEN Append(p[n - 1], n)
                      ELSE p[n - 1]
<1>1. \A n \in Nat, q \in X :
          /\ F[n][q] = IF n + 1 \in S THEN Append(q, n + 1) ELSE q
          /\ F[n][q] \in X
  OBVIOUS
<1>2. <<>> \in X
  OBVIOUS
<1> HIDE DEF D, F, X
<1>3. PICK f, Y : f \in [Nat -> Y] /\ Recursive(f, <<>>, F)
  BY Recursion
<1>4. \A n \in Nat : f[n] \in X
  <2> DEFINE T == {n \in Nat : f[n] \in X}
  <2>1. 0 \in T
    BY <1>2, <1>3 DEF Recursive
  <2>2. ASSUME NEW n \in Nat, n \in T
        PROVE  n + 1 \in T
    BY <1>1, <1>3, <2>2, SMTT(30) DEF Recursive
  <2>3. \A n \in Nat : n \in T
    <3> HIDE DEF T
    <3> QED BY <2>1, <2>2, SetInduction
  <2>4. QED
    BY <2>3
<1>5. ASSUME NEW n \in Nat
      PROVE  f[n + 1] = IF n + 1 \in S THEN Append(f[n], n + 1) ELSE f[n]
  BY <1>1, <1>3, <1>4 DEF Recursive
<1>6. ASSUME NEW n \in Nat
      PROVE  f[n] = D(f, n)
  <2>1. CASE n = 0
    BY <1>3, <2>1 DEF D, Recursive
  <2>2. CASE n # 0
    <3>1. n - 1 \in Nat /\ (n - 1) + 1 = n
      BY <2>2
    <3>2. QED
      BY <2>2, <3>1, <1>5 DEF D
  <2>3. QED
    BY <2>1, <2>2
<1>7. f = [n \in Nat |-> D(f, n)]
  BY <1>3, <1>6
<1> DEFINE P == Positions(S)
<1>8. P = CHOOSE p : p = [n \in Nat |-> D(p, n)]
  BY DEF Positions, D
<1> HIDE DEF P
<1>9. P = [n \in Nat |-> D(P, n)]
  BY <1>7, <1>8
<1>10. P[0] = <<>>
  BY <1>9 DEF D
<1>11. ASSUME NEW n \in Nat
      PROVE  P[n + 1] = IF n + 1 \in S THEN Append(P[n], n + 1) ELSE P[n]
  <2>1. P[n + 1] = D(P, n + 1)
    BY <1>9
  <2>2. n + 1 # 0 /\ (n + 1) - 1 = n
    OBVIOUS
  <2>3. QED
    BY <2>1, <2>2 DEF D
<1>12. QED
  BY <1>10, <1>11 DEF P

\* They are positions.
LEMMA PositionsType ==
    ASSUME NEW S, NEW n \in Nat
    PROVE  Positions(S)[n] \in Seq(1..n)
<1> DEFINE P == Positions(S)
           T == {k \in Nat : P[k] \in Seq(1..k)}
<1>1. 0 \in T
  <2>1. P[0] = <<>>
    BY PositionsDef
  <2> HIDE DEF P
  <2>2. P[0] \in Seq(1..0)
    BY <2>1
  <2>3. QED
    BY <2>2
<1>2. ASSUME NEW k \in Nat, k \in T
      PROVE  k + 1 \in T
  <2>1. P[k] \in Seq(1..k) /\ 1..k \subseteq 1..(k + 1)
    BY <1>2
  <2>2. P[k] \in Seq(1..(k + 1))
    BY <2>1, SeqMonotonic
  <2>3. P[k + 1] \in {P[k], Append(P[k], k + 1)}
    BY PositionsDef
  <2> HIDE DEF P
  <2>4. P[k + 1] \in Seq(1..(k + 1))
    BY <2>2, <2>3, SMTT(30)
  <2>5. QED
    BY <2>4
<1>3. n \in T
  <2> HIDE DEF T
  <2> QED BY <1>1, <1>2, SetInduction
<1>4. QED
  BY <1>3

\* They are those of members.
LEMMA PositionsIn ==
    ASSUME NEW S, NEW n \in Nat
    PROVE  \A j \in DOMAIN Positions(S)[n] : Positions(S)[n][j] \in S
<1> DEFINE P == Positions(S)
           T == {k \in Nat : \A j \in DOMAIN P[k] : P[k][j] \in S}
<1>1. 0 \in T
  <2>1. P[0] = <<>>
    BY PositionsDef
  <2> HIDE DEF P
  <2>2. \A j \in DOMAIN P[0] : P[0][j] \in S
    BY <2>1
  <2>3. QED
    BY <2>2
<1>2. ASSUME NEW k \in Nat, k \in T
      PROVE  k + 1 \in T
  <2>1. P[k] \in Seq(1..k) /\ \A j \in DOMAIN P[k] : P[k][j] \in S
    BY <1>2, PositionsType
  <2>2. P[k + 1] = IF k + 1 \in S THEN Append(P[k], k + 1) ELSE P[k]
    BY PositionsDef
  <2> HIDE DEF P
  <2>3. ASSUME k + 1 \in S, NEW j \in DOMAIN Append(P[k], k + 1)
        PROVE  Append(P[k], k + 1)[j] \in S
    <3>1. P[k] \in Seq(Nat)
      BY <2>1, SeqMonotonic
    <3>2. j \in 1..Len(P[k]) + 1 /\ Len(P[k]) \in Nat
      BY <2>3, <3>1
    <3>3. CASE j = Len(P[k]) + 1
      BY <2>3, <3>1, <3>3
    <3>4. CASE j # Len(P[k]) + 1
      <4>1. j \in 1..Len(P[k])
        BY <3>2, <3>4
      <4>2. Append(P[k], k + 1)[j] = P[k][j]
        BY <3>1, <4>1
      <4>3. QED
        BY <2>1, <3>1, <4>1, <4>2
    <3>5. QED
      BY <3>3, <3>4
  <2>4. \A j \in DOMAIN P[k + 1] : P[k + 1][j] \in S
    BY <2>1, <2>2, <2>3
  <2>5. QED
    BY <2>4
<1>3. n \in T
  <2> HIDE DEF T
  <2> QED BY <1>1, <1>2, SetInduction
<1>4. QED
  BY <1>3

\* Only the members up to n count.
LEMMA PositionsSame ==
    ASSUME NEW S, NEW R, NEW n \in Nat,
           \A i \in 1..n : i \in S <=> i \in R
    PROVE  Positions(S)[n] = Positions(R)[n]
<1> DEFINE P == Positions(S)
           Q == Positions(R)
           T == {k \in Nat : k <= n => P[k] = Q[k]}
<1>1. 0 \in T
  BY PositionsDef
<1>2. ASSUME NEW k \in Nat, k \in T
      PROVE  k + 1 \in T
  <2>1. /\ P[k + 1] = IF k + 1 \in S THEN Append(P[k], k + 1) ELSE P[k]
        /\ Q[k + 1] = IF k + 1 \in R THEN Append(Q[k], k + 1) ELSE Q[k]
    BY PositionsDef
  <2> HIDE DEF P, Q
  <2>2. QED
    BY <1>2, <2>1
<1> HIDE DEF T
<1>3. n \in T
  BY <1>1, <1>2, SetInduction
<1>4. QED
  BY <1>3 DEF T

\* Nothing is left of no position.
LEMMA PositionsNone ==
    ASSUME NEW n \in Nat
    PROVE  Positions({})[n] = <<>>
<1> DEFINE P == Positions({})
           T == {k \in Nat : P[k] = <<>>}
<1>1. P[0] = <<>> /\ \A k \in Nat : P[k + 1] = P[k]
  BY PositionsDef
<1> HIDE DEF P
<1>2. 0 \in T
  BY <1>1
<1>3. ASSUME NEW k \in Nat, k \in T
      PROVE  k + 1 \in T
  BY <1>1, <1>3
<1>4. n \in T
  <2> HIDE DEF T
  <2> QED BY <1>2, <1>3, SetInduction
<1>5. QED
  BY <1>4 DEF P

\* A sequence with one more element at its end.
LEMMA AppendConcat ==
    ASSUME NEW X, NEW s \in Seq(X), NEW t \in Seq(X), NEW e
    PROVE  s \o Append(t, e) = Append(s \o t, e)
<1> DEFINE Z == X \cup {e}
<1>1. s \in Seq(Z) /\ t \in Seq(Z) /\ e \in Z
  BY SeqMonotonic
<1> HIDE DEF Z
<1>2. Append(t, e) = t \o <<e>> /\ <<e>> \in Seq(Z)
  BY <1>1, AppendIsConcat
<1>3. s \o t \in Seq(Z)
  BY <1>1, ConcatProperties
<1>4. Append(s \o t, e) = (s \o t) \o <<e>>
  BY <1>1, <1>3, AppendIsConcat
<1>5. (s \o t) \o <<e>> = s \o (t \o <<e>>)
  BY <1>1, <1>2, ConcatAssociative
<1>6. QED
  BY <1>2, <1>4, <1>5

\* Where all positions behind n are wanted they are simply added.
LEMMA PositionsRest ==
    ASSUME NEW S, NEW n \in Nat, NEW r \in Nat, \A i \in 1..r : n + i \in S
    PROVE  Positions(S)[n + r] = Positions(S)[n] \o [i \in 1..r |-> n + i]
<1> DEFINE P == Positions(S)
           E(k) == [i \in 1..k |-> n + i]
           T == {k \in Nat : k <= r => P[n + k] = P[n] \o E(k)}
<1>1. P[n] \in Seq(Nat)
  <2>1. P[n] \in Seq(1..n) /\ 1..n \subseteq Nat
    BY PositionsType
  <2>2. QED
    BY <2>1, SeqMonotonic
<1>2. \A k \in Nat : k + 1 <= r =>
          P[n + (k + 1)] = Append(P[n + k], n + k + 1)
  <2> SUFFICES ASSUME NEW k \in Nat, k + 1 <= r
               PROVE  P[n + (k + 1)] = Append(P[n + k], n + k + 1)
    BY Zenon
  <2>1. n + k \in Nat /\ n + (k + 1) = (n + k) + 1 /\ k + 1 \in 1..r
    OBVIOUS
  <2>2. (n + k) + 1 \in S
    BY <2>1
  <2>3. QED
    BY <2>1, <2>2, PositionsDef
<1>3. \A k \in Nat : E(k) \in Seq(Nat) /\ Len(E(k)) = k
                     /\ \A i \in 1..k : E(k)[i] = n + i
  OBVIOUS
<1> HIDE DEF P, E
<1>4. E(0) = <<>>
  BY <1>3, EmptySeq
<1>5. ASSUME NEW k \in Nat
      PROVE  E(k + 1) = Append(E(k), n + k + 1)
  <2> DEFINE A == Append(E(k), n + k + 1)
  <2>1. A \in Seq(Nat) /\ Len(A) = k + 1 /\ \A i \in 1..(k + 1) : A[i] = n + i
    <3>1. E(k) \in Seq(Nat) /\ n + k + 1 \in Nat
      BY <1>3
    <3>2. /\ A \in Seq(Nat)
          /\ Len(A) = Len(E(k)) + 1
          /\ \A i \in 1..Len(E(k)) : A[i] = E(k)[i]
          /\ A[Len(E(k)) + 1] = n + k + 1
      BY <3>1, AppendProperties, ZenonT(60)
    <3>3. Len(E(k)) = k /\ \A i \in 1..k : E(k)[i] = n + i
      BY <1>3
    <3> HIDE DEF A
    <3>4. Len(A) = k + 1 /\ A[k + 1] = n + k + 1
      BY <3>2, <3>3
    <3>5. \A i \in 1..k : A[i] = n + i
      BY <3>2, <3>3
    <3>6. \A i \in 1..(k + 1) : i \in 1..k \/ i = k + 1
      OBVIOUS
    <3>7. n + k + 1 = n + (k + 1)
      OBVIOUS
    <3>8. \A i \in 1..(k + 1) : A[i] = n + i
      BY <3>4, <3>5, <3>6, <3>7, Zenon
    <3>9. QED
      BY <3>2, <3>4, <3>8, Zenon
  <2> HIDE DEF A
  <2>2. E(k + 1) \in Seq(Nat) /\ Len(E(k + 1)) = k + 1
        /\ \A i \in 1..(k + 1) : E(k + 1)[i] = n + i
    BY <1>3
  <2>3. E(k + 1) = A
    BY <2>1, <2>2, SeqEqual
  <2>4. QED
    BY <2>3 DEF A
<1>6. 0 \in T
  BY <1>1, <1>4
<1>7. ASSUME NEW k \in Nat, k \in T
      PROVE  k + 1 \in T
  <2>1. n + k + 1 \in Nat /\ E(k) \in Seq(Nat)
    BY <1>3
  <2>2. P[n] \o Append(E(k), n + k + 1) = Append(P[n] \o E(k), n + k + 1)
    <3>1. \A p, q \in Seq(Nat) : \A e \in Nat :
              p \o Append(q, e) = Append(p \o q, e)
      BY AppendConcat
    <3>2. QED
      BY <1>1, <2>1, <3>1, Zenon
  <2>3. ASSUME k + 1 <= r
        PROVE  P[n + (k + 1)] = P[n] \o E(k + 1)
    <3>1. P[n + k] = P[n] \o E(k)
      BY <1>7, <2>3
    <3>2. QED
      BY <1>2, <1>5, <2>2, <2>3, <3>1
  <2>4. k + 1 \in Nat
    OBVIOUS
  <2>5. QED
    BY <2>3, <2>4, Zenon
<1>8. r \in T
  <2> HIDE DEF T
  <2> QED BY <1>6, <1>7, SetInduction
<1>9. P[n + r] = P[n] \o E(r)
  <2>1. r <= r
    OBVIOUS
  <2>2. QED
    BY <1>8, <2>1, Zenon
<1>10. QED
  BY <1>9, Zenon DEF P, E

\* Select, when all of the second of two sequences is wanted.
LEMMA SelectRest ==
    ASSUME NEW X, NEW s \in Seq(X), NEW t \in Seq(X), NEW S, NEW R,
           \A i \in 1..Len(s) : i \in S <=> i \in R,
           \A i \in 1..Len(t) : Len(s) + i \in S
    PROVE  Select(s \o t, S) = Select(s, R) \o t
<1> DEFINE n == Len(s)
           r == Len(t)
           p == Positions(S)[n]
           q == Positions(S)[n + r]
<1>1. n \in Nat /\ r \in Nat /\ p \in Seq(1..n) /\ Len(p) \in Nat
  <2>1. n \in Nat /\ r \in Nat
    OBVIOUS
  <2>2. p \in Seq(1..n)
    BY <2>1, PositionsType
  <2>3. QED
    BY <2>1, <2>2, LenProperties
<1>2. p = Positions(R)[n]
  BY <1>1, PositionsSame
<1>3. q = p \o [i \in 1..r |-> n + i]
  BY <1>1, PositionsRest
<1> HIDE DEF p, q
<1>4. Select(s, R) = [k \in 1..Len(p) |-> s[p[k]]]
  BY <1>2 DEF Select
<1>5. Select(s \o t, S) = [k \in 1..Len(q) |-> (s \o t)[q[k]]]
  <2>1. Len(s \o t) = n + r
    OBVIOUS
  <2>2. QED
    BY <2>1 DEF Select, q
<1>6. /\ Len(q) = Len(p) + r
      /\ \A k \in 1..Len(p) : q[k] = p[k]
      /\ \A k \in 1..r : q[Len(p) + k] = n + k
  <2> DEFINE e == [i \in 1..r |-> n + i]
  <2>1. e \in Seq(Nat) /\ Len(e) = r /\ p \in Seq(Nat)
    <3>1. 1..n \subseteq Nat
      OBVIOUS
    <3>2. QED
      BY <1>1, <3>1, SeqMonotonic
  <2>2. \A i \in 1..r : e[i] = n + i
    OBVIOUS
  <2> HIDE DEF e
  <2>3. q = p \o e
    BY <1>3 DEF e
  <2>4. QED
    BY <1>1, <2>1, <2>2, <2>3
<1>7. \A k \in 1..Len(p) : p[k] \in 1..n /\ s[p[k]] \in X
  BY <1>1
<1> DEFINE L == [k \in 1..Len(p) |-> s[p[k]]]
<1>8. L \in Seq(X) /\ Len(L) = Len(p)
  BY <1>1, <1>7
<1>9. \A k \in 1..Len(q) : (s \o t)[q[k]] = (L \o t)[k]
  <2> SUFFICES ASSUME NEW k \in 1..Len(q)
               PROVE  (s \o t)[q[k]] = (L \o t)[k]
    OBVIOUS
  <2>1. CASE k <= Len(p)
    BY <1>1, <1>6, <1>7, <1>8, <2>1
  <2>2. CASE k > Len(p)
    <3>1. PICK j \in 1..r : k = Len(p) + j
      <4>1. k - Len(p) \in 1..r /\ k = Len(p) + (k - Len(p))
        BY <2>2, <1>1, <1>6
      <4>2. QED
        BY <4>1
    <3>2. (s \o t)[n + j] = t[j] /\ (L \o t)[Len(L) + j] = t[j]
      <4> HIDE DEF L
      <4> QED BY <1>1, <1>8, <3>1
    <3>3. QED
      BY <3>1, <3>2, <1>6, <1>8
  <2>3. k <= Len(p) \/ k > Len(p)
    BY <1>1, <1>6
  <2>4. QED
    BY <2>1, <2>2, <2>3, Zenon
<1>10. [k \in 1..Len(q) |-> (s \o t)[q[k]]] = L \o t
  <2> HIDE DEF L
  <2>1. L \o t \in Seq(X) /\ Len(L \o t) = Len(q)
    <3>1. L \o t \in Seq(X) /\ Len(L \o t) = Len(L) + Len(t)
      BY <1>8, ConcatProperties, Zenon
    <3>2. QED
      BY <3>1, <1>6, <1>8
  <2> DEFINE M == L \o t
  <2>2. \A k \in 1..Len(q) : (s \o t)[q[k]] = M[k]
    BY <1>9, Zenon
  <2> HIDE DEF M
  <2>3. M \in Seq(X) /\ Len(M) = Len(q)
    BY <2>1, Zenon DEF M
  <2>4. M = [k \in 1..Len(q) |-> M[k]]
    BY <2>3, LenProperties
  <2>5. M = [k \in 1..Len(q) |-> (s \o t)[q[k]]]
    BY <2>2, <2>4, Zenon
  <2>6. QED
    BY <2>5, Zenon DEF M
<1>11. QED
  BY <1>4, <1>5, <1>10

\* Every number of the set has a position.
LEMMA PositionsAll ==
    ASSUME NEW S, NEW n \in Nat
    PROVE  \A x \in 1..n : x \in S => \E j \in DOMAIN Positions(S)[n] : Positions(S)[n][j] = x
<1> DEFINE P == Positions(S)
           A(k) == \A x \in 1..k : x \in S => \E j \in DOMAIN P[k] : P[k][j] = x
           T == {k \in Nat : A(k)}
<1>1. 0 \in T
  OBVIOUS
<1>2. ASSUME NEW k \in Nat, k \in T
      PROVE  k + 1 \in T
  <2>1. P[k] \in Seq(Nat) /\ P[k + 1] = IF k + 1 \in S THEN Append(P[k], k + 1) ELSE P[k]
    <3>1. P[k] \in Seq(1..k) /\ 1..k \subseteq Nat
      BY PositionsType
    <3>2. P[k] \in Seq(Nat)
      <4> HIDE DEF P
      <4> QED BY <3>1, SeqMonotonic
    <3> QED
      BY <3>2, PositionsDef
  <2> HIDE DEF P
  <2>2. SUFFICES ASSUME NEW x \in 1..(k + 1), x \in S
                 PROVE  \E j \in DOMAIN P[k + 1] : P[k + 1][j] = x
    OBVIOUS
  <2>3. CASE x = k + 1
    <3>1. P[k + 1] = Append(P[k], k + 1)
      BY <2>1, <2>2, <2>3
    <3>2. Len(P[k]) + 1 \in DOMAIN P[k + 1] /\ P[k + 1][Len(P[k]) + 1] = k + 1
      BY <2>1, <3>1
    <3> QED
      BY <2>3, <3>2
  <2>4. CASE x # k + 1
    <3>1. x \in 1..k
      BY <2>4
    <3>2. PICK j \in DOMAIN P[k] : P[k][j] = x
      BY <1>2, <2>2, <3>1
    <3>3. j \in DOMAIN P[k + 1] /\ P[k + 1][j] = P[k][j]
      BY <2>1, <3>2
    <3> QED
      BY <3>2, <3>3
  <2> QED
    BY <2>3, <2>4
<1>3. \A k \in Nat : k \in T
  <2> HIDE DEF T
  <2> QED BY <1>1, <1>2, SetInduction
<1> QED
  BY <1>3
=============================================================================
