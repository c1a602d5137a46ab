---- MODULE InductionProofs ----
(***************************************************************************)
(* Induction over the natural numbers without an operator for the          *)
(* induction hypothesis: a set takes its place.  From it, that a recursive *)
(* function is there and is the only one, and what Sift returns.           *)
(***************************************************************************)
EXTENDS Sifting, WellFoundedInduction, TLAPS

\* A set of numbers that is not empty has a least one.
LEMMA LeastNumber ==
  ASSUME NEW T, T \subseteq Nat, T # {}
  PROVE  \E x \in T : \A y \in T : x <= y
<1> DEFINE R == {p \in Nat \X Nat : p[1] < p[2]}
<1>1. IsWellFoundedOn(R, Nat)
  BY NatLessThanWellFounded DEF OpToRel
<1>2. \A x, y \in Nat : y < x => <<y, x>> \in R
  OBVIOUS
<1> HIDE DEF R
<1>3. PICK x \in T : \A y \in T : ~ (<<y, x>> \in R)
  BY <1>1, WFMin
<1>4. \A y \in T : x <= y
  <2> SUFFICES ASSUME NEW y \in T PROVE x <= y
    OBVIOUS
  <2>1. x \in Nat /\ y \in Nat /\ <<y, x>> \notin R
    BY <1>3
  <2>2. ~ (y < x)
    BY <1>2, <2>1
  <2>3. QED
    BY <2>1, <2>2
<1>5. QED
  BY <1>4

\* A set that has 0 and with every number the next one has them all.
LEMMA NatSetInduction ==
  ASSUME NEW T, 0 \in T, \A n \in Nat : n \in T => n + 1 \in T
  PROVE  Nat \subseteq T
<1> SUFFICES ASSUME Nat \ T # {} PROVE FALSE
  OBVIOUS
<1>1. PICK x \in Nat \ T : \A y \in Nat \ T : x <= y
  BY LeastNumber
<1>2. x # 0 /\ x - 1 \in Nat
  BY <1>1
<1>3. x - 1 \in T
  BY <1>1, <1>2
<1>4. (x - 1) + 1 = x
  BY <1>1
<1>5. QED
  BY <1>1, <1>2, <1>3, <1>4

\* The same up to a bound.
LEMMA RangeSetInduction ==
  ASSUME NEW N \in Nat, NEW T, 0 \in T,
         \A n \in 0 .. N : n \in T /\ n < N => n + 1 \in T
  PROVE  0 .. N \subseteq T
<1> DEFINE U == {n \in Nat : n <= N => n \in T}
<1>1. 0 \in U
  OBVIOUS
<1>2. \A n \in Nat : n \in U => n + 1 \in U
  OBVIOUS
<1> HIDE DEF U
<1>3. Nat \subseteq U
  BY <1>1, <1>2, NatSetInduction
<1>4. QED
  BY <1>3 DEF U

\* A function given by its first value and its steps is there.
Recursion(f, S, N, b, g) ==
  /\ f \in [0 .. N -> S]
  /\ f[0] = b
  /\ \A n \in 1 .. N : f[n] = g[n][f[n - 1]]

LEMMA RecursionExists ==
  ASSUME NEW S, NEW b \in S, NEW N \in Nat, NEW g \in [1 .. N -> [S -> S]]
  PROVE  \E f : Recursion(f, S, N, b, g)
<1> DEFINE P(m) == \E f \in [0 .. m -> S] :
                     f[0] = b /\ \A n \in 1 .. m : f[n] = g[n][f[n - 1]]
           T == {m \in 0 .. N : P(m)}
<1>1. 0 \in T
  <2> DEFINE f == [n \in 0 .. 0 |-> b]
  <2>1. f \in [0 .. 0 -> S] /\ f[0] = b
    OBVIOUS
  <2>2. \A n \in 1 .. 0 : f[n] = g[n][f[n - 1]]
    OBVIOUS
  <2>3. P(0)
    BY <2>1, <2>2
  <2>4. QED
    BY <2>3
<1>2. ASSUME NEW m \in 0 .. N, m \in T, m < N
      PROVE  m + 1 \in T
  <2>1. PICK f \in [0 .. m -> S] :
          f[0] = b /\ \A n \in 1 .. m : f[n] = g[n][f[n - 1]]
    BY <1>2
  <2> DEFINE h == [n \in 0 .. m + 1 |-> IF n <= m THEN f[n] ELSE g[m + 1][f[m]]]
  <2>2. m + 1 \in 1 .. N /\ m \in 0 .. m
    BY <1>2
  <2>3. g[m + 1][f[m]] \in S
    BY <2>1, <2>2
  <2>4. h \in [0 .. m + 1 -> S]
    BY <2>1, <2>3
  <2>5. h[0] = b
    BY <1>2, <2>1
  <2>6. ASSUME NEW n \in 1 .. m + 1 PROVE h[n] = g[n][h[n - 1]]
    <3>1. CASE n <= m
      BY <1>2, <2>1, <3>1
    <3>2. CASE n = m + 1
      BY <1>2, <2>1, <3>2
    <3>3. QED
      BY <1>2, <3>1, <3>2
  <2>7. P(m + 1)
    BY <2>4, <2>5, <2>6
  <2>8. m + 1 \in 0 .. N
    BY <1>2
  <2> HIDE DEF P
  <2>9. QED
    BY <2>7, <2>8
<1> HIDE DEF P
<1>3. 0 .. N \subseteq T
  <2> HIDE DEF T
  <2>1. QED
    BY <1>1, <1>2, RangeSetInduction
<1>4. P(N)
  BY <1>3
<1>5. QED
  BY <1>4 DEF P, Recursion

----
\* What Sift computes on the way: one step for each element.
Sifting(f, S, s, T) ==
  /\ f \in [0 .. Len(s) -> Seq(S \cap T)]
  /\ f[0] = <<>>
  /\ \A n \in 1 .. Len(s) :
       f[n] = IF s[n] \in T THEN Append(f[n - 1], s[n]) ELSE f[n - 1]
  /\ Sift(s, T) = f[Len(s)]

LEMMA SiftSteps ==
  ASSUME NEW S, NEW s \in Seq(S), NEW T
  PROVE  \E f : Sifting(f, S, s, T)
<1> DEFINE Q == Seq(S \cap T)
           N == Len(s)
           b == <<>>
           Add(x, n) == IF s[n] \in T THEN Append(x, s[n]) ELSE x
           D(f) == [n \in 0 .. N |-> IF n = 0 THEN <<>>
                                     ELSE IF s[n] \in T THEN Append(f[n - 1], s[n])
                                     ELSE f[n - 1]]
           g == [n \in 1 .. N |-> [x \in Q |-> Add(x, n)]]
           F == CHOOSE f : f = D(f)
<1>1. N \in Nat /\ b \in Q
  OBVIOUS
<1>2. \A n \in 1 .. N, x \in Q : Add(x, n) \in Q
  <2> SUFFICES ASSUME NEW n \in 1 .. N, NEW x \in Q PROVE Add(x, n) \in Q
    OBVIOUS
  <2>1. s[n] \in S
    OBVIOUS
  <2>2. QED
    BY <2>1
<1>3. PICK f : Recursion(f, Q, N, b, g)
  <2>1. g \in [1 .. N -> [Q -> Q]]
    <3> HIDE DEF Q, Add, N
    <3>1. QED
      BY <1>2
  <2> HIDE DEF Q, g, N, b
  <2>2. QED
    BY <1>1, <2>1, RecursionExists
<1>4. \A n \in 1 .. N : f[n] = Add(f[n - 1], n)
  <2> SUFFICES ASSUME NEW n \in 1 .. N PROVE f[n] = Add(f[n - 1], n)
    OBVIOUS
  <2>1. n - 1 \in 0 .. N
    BY <1>1
  <2> HIDE DEF Q, Add, N
  <2>2. f[n - 1] \in Q /\ f[n] = g[n][f[n - 1]]
    BY <1>3, <2>1 DEF Recursion
  <2>3. QED
    BY <2>2
<1>5. f = D(f)
  <2>1. ASSUME NEW n \in 0 .. N PROVE f[n] = IF n = 0 THEN <<>> ELSE Add(f[n - 1], n)
    <3>1. CASE n = 0
      BY <1>3, <3>1 DEF Recursion
    <3>2. CASE n # 0
      <4>1. n \in 1 .. N
        BY <1>1, <3>2
      <4> HIDE DEF Add
      <4>2. QED
        BY <1>4, <3>2, <4>1
    <3>3. QED
      BY <3>1, <3>2
  <2> HIDE DEF N
  <2>2. QED
    BY <1>3, <2>1 DEF Recursion
<1>6. F = D(F)
  <2> HIDE DEF D
  <2>1. QED
    BY <1>5
<1>7. Sift(s, T) = F[N]
  BY DEF Sift
<1>8. F[0] = <<>> /\ \A n \in 1 .. N : F[n] = Add(F[n - 1], n)
  <2>1. \A h : D(h)[0] = <<>> /\ \A n \in 1 .. N : D(h)[n] = Add(h[n - 1], n)
    BY <1>1
  <2> HIDE DEF D, F, Add, N
  <2>2. QED
    BY <1>6, <2>1
<1>9. \A n \in 0 .. N : F[n] \in Q
  <2> DEFINE U == {n \in 0 .. N : F[n] \in Q}
  <2> HIDE DEF F, Q, Add, N
  <2>1. 0 \in U
    BY <1>1, <1>8
  <2>2. ASSUME NEW n \in 0 .. N, n \in U, n < N
        PROVE  n + 1 \in U
    <3>1. n + 1 \in 1 .. N /\ n + 1 \in 0 .. N /\ (n + 1) - 1 = n
      BY <1>1, <2>2
    <3>2. F[n + 1] = Add(F[n], n + 1)
      BY <1>8, <3>1
    <3>3. QED
      BY <1>2, <2>2, <3>1, <3>2
  <2> HIDE DEF U
  <2>3. 0 .. N \subseteq U
    BY <1>1, <2>1, <2>2, RangeSetInduction
  <2>4. QED
    BY <2>3 DEF U
<1>10. F \in [0 .. N -> Q]
  <2>1. F = [n \in 0 .. N |-> D(F)[n]]
    <3> HIDE DEF F
    <3>1. QED
      BY <1>6
  <2> HIDE DEF F, D, Q, N
  <2>2. QED
    BY <1>6, <1>9, <2>1
<1> HIDE DEF F
<1>11. Sifting(F, S, s, T)
  BY <1>7, <1>8, <1>10 DEF Sifting
<1>12. QED
  BY <1>11

LEMMA SiftEmpty ==
  ASSUME NEW T
  PROVE  Sift(<<>>, T) = <<>>
<1>1. <<>> \in Seq({})
  OBVIOUS
<1>2. PICK f : Sifting(f, {}, <<>>, T)
  BY <1>1, SiftSteps
<1>3. QED
  BY <1>2 DEF Sifting

LEMMA SiftType ==
  ASSUME NEW S, NEW s \in Seq(S), NEW T
  PROVE  Sift(s, T) \in Seq(S \cap T)
<1>1. PICK f : Sifting(f, S, s, T)
  BY SiftSteps
<1>2. QED
  BY <1>1 DEF Sifting

LEMMA SiftAppend ==
  ASSUME NEW S, NEW s \in Seq(S), NEW x \in S, NEW T
  PROVE  Sift(Append(s, x), T) = IF x \in T THEN Append(Sift(s, T), x) ELSE Sift(s, T)
<1> DEFINE t == Append(s, x)
           N == Len(s)
<1>1. t \in Seq(S) /\ Len(t) = N + 1 /\ N \in Nat /\ t[N + 1] = x
  OBVIOUS
<1>2. \A n \in 1 .. N : t[n] = s[n]
  OBVIOUS
<1>3. PICK f : Sifting(f, S, s, T)
  BY SiftSteps
<1> HIDE DEF t
<1>4. PICK h : Sifting(h, S, t, T)
  BY <1>1, SiftSteps
<1>5. /\ f[0] = <<>>
      /\ \A n \in 1 .. N : f[n] = IF s[n] \in T THEN Append(f[n - 1], s[n]) ELSE f[n - 1]
      /\ Sift(s, T) = f[N]
  BY <1>3 DEF Sifting
<1>6. /\ h[0] = <<>>
      /\ \A n \in 1 .. N + 1 : h[n] = IF t[n] \in T THEN Append(h[n - 1], t[n]) ELSE h[n - 1]
      /\ Sift(t, T) = h[N + 1]
  BY <1>1, <1>4 DEF Sifting
<1> HIDE DEF N
<1> DEFINE U == {n \in 0 .. N : h[n] = f[n]}
<1>7. 0 \in U
  BY <1>1, <1>5, <1>6
<1>8. ASSUME NEW n \in 0 .. N, n \in U, n < N
      PROVE  n + 1 \in U
  <2>1. n + 1 \in 1 .. N /\ n + 1 \in 1 .. N + 1 /\ n + 1 \in 0 .. N /\ (n + 1) - 1 = n
    BY <1>1, <1>8
  <2>2. QED
    BY <1>2, <1>5, <1>6, <1>8, <2>1
<1> HIDE DEF U
<1>9. 0 .. N \subseteq U
  BY <1>1, <1>7, <1>8, RangeSetInduction
<1>10. h[N] = f[N]
  BY <1>1, <1>9 DEF U
<1>11. N + 1 \in 1 .. N + 1 /\ (N + 1) - 1 = N
  BY <1>1
<1>12. h[N + 1] = IF x \in T THEN Append(h[N], x) ELSE h[N]
  BY <1>1, <1>6, <1>11
<1>13. QED
  BY <1>5, <1>6, <1>10, <1>12 DEF t
====
