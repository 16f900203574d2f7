------------------------------- MODULE Lemmas -------------------------------
(***************************************************************************)
(* Facts the proofs of the other modules share: induction up to a bound,   *)
(* remainders, what Kept returns for every sequence and every set of       *)
(* places, prefixes and suffixes, finite sums.  The inductions are by      *)
(* minimal counterexample.                                                 *)
(***************************************************************************)
EXTENDS Selection, SequencesExt, SequenceTheorems, FiniteSetTheorems,
        WellFoundedInduction, TLAPS

-----------------------------------------------------------------------------
(***************************************************************************)
(* Numbers.                                                                *)
(***************************************************************************)
\* Every set of natural numbers that is not empty has a least element.
LEMMA NatMinimum ==
    ASSUME NEW T \in SUBSET Nat, T # {}
    PROVE  \E x \in T : \A y \in T : x <= y
<1>1. PICK x \in T : \A y \in T : ~(<<y, x>> \in OpToRel(<, Nat))
  BY WFMin, NatLessThanWellFounded
<1>2. ASSUME NEW y \in T, y < x PROVE FALSE
  <2>1. <<y, x>> \in OpToRel(<, Nat)
    <3>1. <<y, x>> \in Nat \X Nat  OBVIOUS
    <3>2. <<y, x>>[1] < <<y, x>>[2]  BY <1>2
    <3>3. QED  BY <3>1, <3>2 DEF OpToRel
  <2>2. QED  BY <2>1, <1>1
<1>3. QED  BY <1>2

\* A set of natural numbers that holds 0, and i + 1 with every i below n,
\* holds all numbers up to n.
LEMMA BoundedInduction ==
    ASSUME NEW n \in Nat, NEW S, 0 \in S,
           \A i \in 0..(n - 1) : i \in S => i + 1 \in S
    PROVE  \A i \in 0..n : i \in S
<1> DEFINE T == {i \in Nat : i <= n /\ i \notin S}
<1>1. SUFFICES ASSUME T # {} PROVE FALSE  OBVIOUS
<1>2. T \in SUBSET Nat  OBVIOUS
<1>3. PICK x \in T : \A y \in T : x <= y
  <2> HIDE DEF T
  <2>1. QED  BY <1>1, <1>2, NatMinimum
<1>4. x \in Nat /\ x <= n /\ x \notin S  OBVIOUS
<1>5. x # 0  BY <1>4
<1>6. x - 1 \in 0..(n - 1)  BY <1>4, <1>5
<1>7. x - 1 \notin T
  <2> HIDE DEF T
  <2>1. QED  BY <1>3, <1>4, <1>6
<1>8. x - 1 \in S  BY <1>6, <1>7
<1>9. (x - 1) + 1 \in S  BY <1>6, <1>8
<1>10. QED  BY <1>4, <1>9

\* The steps of a recursion that counts up to n, and a function that takes them.
Steps(n, V) == [1..n -> [V -> V]]
Takes(f, n, b, F) == f[0] = b /\ \A i \in 1..n : f[i] = F[i][f[i - 1]]

\* A recursion with steps that stay in V has a solution there.
LEMMA BoundedRecursion ==
    ASSUME NEW n \in Nat, NEW V, NEW b \in V, NEW F \in Steps(n, V)
    PROVE  \E f \in [0..n -> V] : Takes(f, n, b, F)
<1>0. F \in [1..n -> [V -> V]]  BY DEF Steps
<1> DEFINE G(m, g) == g[0] = b /\ \A i \in 1..m : g[i] = F[i][g[i - 1]]
           S == {m \in Nat : \E g \in [0..m -> V] : G(m, g)}
<1>1. 0 \in S
  <2>1. [i \in 0..0 |-> b] \in [0..0 -> V]  OBVIOUS
  <2>2. G(0, [i \in 0..0 |-> b])  OBVIOUS
  <2>3. QED  BY <2>1, <2>2
<1>2. ASSUME NEW m \in 0..(n - 1), m \in S PROVE m + 1 \in S
  <2>1. PICK g \in [0..m -> V] : G(m, g)  BY <1>2
  <2> DEFINE x == F[m + 1][g[m]]
             h == [i \in 0..(m + 1) |-> IF i = m + 1 THEN x ELSE g[i]]
  <2>2. x \in V
    <3>1. m + 1 \in 1..n /\ m \in 0..m  OBVIOUS
    <3>2. F[m + 1] \in [V -> V] /\ g[m] \in V  BY <1>0, <3>1
    <3>3. QED  BY <3>2
  <2> HIDE DEF x
  <2>3. h \in [0..(m + 1) -> V]  BY <2>2
  <2>4. h[0] = b  BY <2>1
  <2>5. ASSUME NEW i \in 1..(m + 1) PROVE h[i] = F[i][h[i - 1]]
    <3>1. CASE i = m + 1
      <4>1. h[i] = x /\ h[i - 1] = g[m]  BY <3>1
      <4>2. QED  BY <3>1, <4>1 DEF x
    <3>2. CASE i # m + 1
      <4>1. i \in 1..m  BY <3>2
      <4>2. g[i] = F[i][g[i - 1]]  BY <2>1, <4>1
      <4>3. h[i] = g[i] /\ h[i - 1] = g[i - 1]  BY <3>2, <4>1
      <4>4. QED  BY <4>2, <4>3
    <3>3. QED  BY <3>1, <3>2
  <2>6. G(m + 1, h)  BY <2>4, <2>5
  <2> HIDE DEF h, G
  <2>7. \E f \in [0..(m + 1) -> V] : G(m + 1, f)  BY <2>3, <2>6
  <2>8. QED  BY <2>7
<1>3. n \in S
  <2> HIDE DEF S
  <2>1. \A i \in 0..n : i \in S  BY <1>1, <1>2, BoundedInduction
  <2>2. QED  BY <2>1
<1>4. QED  BY <1>3 DEF Takes

-----------------------------------------------------------------------------
(***************************************************************************)
(* Quotient and remainder.                                                 *)
(***************************************************************************)
\* What \div and % are.
LEMMA DivMod ==
    ASSUME NEW a \in Int, NEW m \in Nat \ {0}
    PROVE  /\ a \div m \in Int
           /\ a % m \in 0..(m - 1)
           /\ a = m * (a \div m) + (a % m)
OBVIOUS

\* A multiple of m that is strictly between -m and m is zero.
LEMMA SmallMultiple ==
    ASSUME NEW q \in Int, NEW m \in Nat \ {0}, m * q < m, m * q > -m
    PROVE  q = 0
<1>1. CASE q >= 1  BY <1>1
<1>2. CASE q <= -1  BY <1>2
<1>3. QED  BY <1>1, <1>2

\* The remainder is the only number below m that a multiple of m is short of.
LEMMA ModUnique ==
    ASSUME NEW m \in Nat \ {0}, NEW q \in Int, NEW r \in 0..(m - 1)
    PROVE  (m * q + r) % m = r
<1> DEFINE a == m * q + r
<1>1. a \in Int  OBVIOUS
<1>2. /\ a = m * (a \div m) + (a % m)
      /\ a \div m \in Int /\ a % m \in 0..(m - 1)
  BY <1>1, DivMod
<1>3. m * (q - (a \div m)) = (a % m) - r  BY <1>2
<1>4. q - (a \div m) = 0
  <2> HIDE DEF a
  <2>1. m * (q - (a \div m)) < m /\ m * (q - (a \div m)) > -m
    BY <1>2, <1>3
  <2>2. QED  BY SmallMultiple, <1>2, <2>1
<1>5. QED  BY <1>1, <1>2, <1>4

\* The quotient is the only number whose multiple of m leaves less than m.
LEMMA DivUnique ==
    ASSUME NEW m \in Nat \ {0}, NEW q \in Int, NEW r \in 0..(m - 1)
    PROVE  (m * q + r) \div m = q
<1> DEFINE a == m * q + r
<1>1. a \in Int  OBVIOUS
<1>2. /\ a = m * (a \div m) + (a % m)
      /\ a \div m \in Int /\ a % m = r
  BY <1>1, DivMod, ModUnique
<1>3. m * (q - (a \div m)) = 0
  <2>1. m * (q - (a \div m)) = m * q - m * (a \div m)  BY <1>2
  <2>2. QED  BY <1>2, <2>1
<1>4. q - (a \div m) = 0
  <2> HIDE DEF a
  <2>1. m * (q - (a \div m)) < m /\ m * (q - (a \div m)) > -m  BY <1>3
  <2>2. QED  BY SmallMultiple, <1>2, <2>1
<1>5. QED  BY <1>2, <1>4

\* A number below m is its own remainder.
LEMMA ModSmall ==
    ASSUME NEW m \in Nat \ {0}, NEW a \in 0..(m - 1)
    PROVE  a % m = a
<1>1. (m * 0 + a) % m = a  BY ModUnique
<1>2. m * 0 + a = a  OBVIOUS
<1>3. QED  BY <1>1, <1>2

\* The sum of two remainders wraps at most once.
LEMMA ModPlus ==
    ASSUME NEW m \in Nat \ {0}, NEW a \in 0..(m - 1), NEW b \in 0..m
    PROVE  (a + b) % m = IF a + b < m THEN a + b ELSE a + b - m
<1>1. CASE a + b < m
  <2>1. a + b \in 0..(m - 1)  BY <1>1
  <2>2. QED  BY <1>1, <2>1, ModSmall
<1>2. CASE ~(a + b < m)
  <2>1. a + b - m \in 0..(m - 1)  BY <1>2
  <2>2. (m * 1 + (a + b - m)) % m = a + b - m  BY <2>1, ModUnique
  <2>3. m * 1 + (a + b - m) = a + b  OBVIOUS
  <2>4. QED  BY <1>2, <2>2, <2>3
<1>3. QED  BY <1>1, <1>2

\* So does their difference.
LEMMA ModMinus ==
    ASSUME NEW m \in Nat \ {0}, NEW a \in 0..(m - 1), NEW b \in 0..(m - 1)
    PROVE  (a - b) % m = IF b <= a THEN a - b ELSE a - b + m
<1>1. CASE b <= a
  <2>1. a - b \in 0..(m - 1)  BY <1>1
  <2>2. QED  BY <1>1, <2>1, ModSmall
<1>2. CASE ~(b <= a)
  <2>1. a - b + m \in 0..(m - 1)  BY <1>2
  <2>2. (m * (-1) + (a - b + m)) % m = a - b + m  BY <2>1, ModUnique
  <2>3. m * (-1) + (a - b + m) = a - b  OBVIOUS
  <2>4. QED  BY <1>2, <2>2, <2>3
<1>3. QED  BY <1>1, <1>2

\* Adding a multiple of m leaves the remainder.
LEMMA ModShift ==
    ASSUME NEW m \in Nat \ {0}, NEW a \in Int, NEW q \in Int
    PROVE  (a + m * q) % m = a % m
<1> DEFINE d == a \div m
           r == a % m
<1>1. d \in Int /\ r \in 0..(m - 1) /\ a = m * d + r  BY DivMod
<1> HIDE DEF d, r
<1>2. a + m * q = m * (d + q) + r
  <2>1. m * (d + q) = m * d + m * q  BY <1>1
  <2>2. QED  BY <1>1, <2>1
<1>3. (m * (d + q) + r) % m = r  BY <1>1, ModUnique
<1>4. QED  BY <1>2, <1>3 DEF r

\* Two numbers less than m apart that have the same remainder are equal.
LEMMA ModInjective ==
    ASSUME NEW m \in Nat \ {0}, NEW a \in Int, NEW b \in Int,
           a % m = b % m, a - b < m, b - a < m
    PROVE  a = b
<1> DEFINE d == a \div m
           e == b \div m
<1>1. /\ d \in Int /\ a = m * d + (a % m)
      /\ e \in Int /\ b = m * e + (b % m)
      /\ a % m \in Int
  BY DivMod
<1> HIDE DEF d, e
<1>2. m * (d - e) = a - b
  <2>1. m * (d - e) = m * d - m * e  BY <1>1
  <2>2. QED  BY <1>1, <2>1
<1>3. d - e \in Int  BY <1>1
<1>4. d - e = 0  BY <1>2, <1>3, SmallMultiple
<1>5. QED  BY <1>1, <1>4

-----------------------------------------------------------------------------
(***************************************************************************)
(* Kept.                                                                   *)
(***************************************************************************)
\* One step of the recursion.
KeptStep(s, I, prefix, i) == IF i \in I THEN Append(prefix, s[i]) ELSE prefix

\* The recursive definition has a solution, so KeptUpTo is one.
LEMMA KeptUnfolds ==
    ASSUME NEW T, NEW s \in Seq(T), NEW I
    PROVE  /\ KeptUpTo(s, I) \in [0..Len(s) -> Seq(T)]
           /\ KeptUpTo(s, I)[0] = <<>>
           /\ \A i \in 1..Len(s) : KeptUpTo(s, I)[i] = KeptStep(s, I, KeptUpTo(s, I)[i - 1], i)
<1> DEFINE n == Len(s)
           G(m, g) == g[0] = <<>> /\ \A i \in 1..m : g[i] = KeptStep(s, I, g[i - 1], i)
           S == {m \in Nat : \E g \in [0..m -> Seq(T)] : G(m, g)}
<1>1. n \in Nat /\ \A i \in 1..n : s[i] \in T  BY ElementOfSeq, LenProperties
<1> HIDE DEF n
<1>2. 0 \in S
  <2>1. [i \in 0..0 |-> <<>>] \in [0..0 -> Seq(T)]  OBVIOUS
  <2>2. G(0, [i \in 0..0 |-> <<>>])  OBVIOUS
  <2>3. QED  BY <2>1, <2>2
<1>3. ASSUME NEW m \in 0..(n - 1), m \in S PROVE m + 1 \in S
  <2>1. PICK g \in [0..m -> Seq(T)] : G(m, g)  BY <1>3
  <2> DEFINE h == [i \in 0..(m + 1) |-> IF i = m + 1 THEN KeptStep(s, I, g[m], m + 1) ELSE g[i]]
  <2>2. KeptStep(s, I, g[m], m + 1) \in Seq(T)
    <3>1. g[m] \in Seq(T) /\ s[m + 1] \in T  BY <1>1
    <3>2. Append(g[m], s[m + 1]) \in Seq(T)  BY <3>1, AppendProperties
    <3>3. QED  BY <3>1, <3>2 DEF KeptStep
  <2>3. h \in [0..(m + 1) -> Seq(T)]  BY <1>1, <2>2
  <2>4. h[0] = <<>>  BY <2>1
  <2>5. ASSUME NEW i \in 1..(m + 1) PROVE h[i] = KeptStep(s, I, h[i - 1], i)
    <3>1. CASE i = m + 1
      <4>1. h[i] = KeptStep(s, I, g[m], m + 1) /\ h[i - 1] = g[m]  BY <3>1
      <4>2. QED  BY <3>1, <4>1
    <3>2. CASE i # m + 1
      <4>1. i \in 1..m  BY <3>2
      <4>2. g[i] = KeptStep(s, I, g[i - 1], i)  BY <2>1, <4>1
      <4>3. h[i] = g[i] /\ h[i - 1] = g[i - 1]  BY <3>2, <4>1
      <4>4. QED  BY <4>2, <4>3
    <3>3. QED  BY <3>1, <3>2
  <2>6. G(m + 1, h)  BY <2>4, <2>5
  <2> HIDE DEF h, G
  <2>7. \E f \in [0..(m + 1) -> Seq(T)] : G(m + 1, f)  BY <2>3, <2>6
  <2>8. QED  BY <2>7
<1>4. n \in S
  <2> HIDE DEF S
  <2>1. \A i \in 0..n : i \in S  BY <1>1, <1>2, <1>3, BoundedInduction
  <2>2. QED  BY <1>1, <2>1
<1>5. PICK g \in [0..n -> Seq(T)] : G(n, g)  BY <1>4
<1> DEFINE Solves(f) == f = [i \in 0..n |-> IF i = 0 THEN <<>>
                                           ELSE IF i \in I THEN Append(f[i - 1], s[i])
                                           ELSE f[i - 1]]
<1>6. Solves(g)
  <2>1. ASSUME NEW i \in 0..n
        PROVE  g[i] = IF i = 0 THEN <<>> ELSE IF i \in I THEN Append(g[i - 1], s[i]) ELSE g[i - 1]
    <3>1. CASE i = 0  BY <1>5, <3>1
    <3>2. CASE i # 0
      <4>1. i \in 1..n  BY <3>2
      <4>2. QED  BY <1>5, <4>1 DEF KeptStep
    <3>3. QED  BY <3>1, <3>2
  <2>2. QED  BY <2>1
<1> DEFINE k == KeptUpTo(s, I)
<1>7. k = CHOOSE f : Solves(f)  BY DEF KeptUpTo, n
<1> HIDE DEF k
<1>8. Solves(k)
  <2> HIDE DEF Solves
  <2>1. QED  BY <1>6, <1>7
<1>9. k[0] = <<>> /\ \A i \in 1..n : k[i] = KeptStep(s, I, k[i - 1], i)
  <2>1. \A i \in 0..n : k[i] = IF i = 0 THEN <<>>
                               ELSE IF i \in I THEN Append(k[i - 1], s[i]) ELSE k[i - 1]
    BY <1>8
  <2>2. k[0] = <<>>  BY <1>1, <2>1
  <2>3. ASSUME NEW i \in 1..n PROVE k[i] = KeptStep(s, I, k[i - 1], i)
    <3>1. i \in 0..n /\ i # 0  BY <1>1
    <3>2. QED  BY <2>1, <3>1 DEF KeptStep
  <2>4. QED  BY <2>2, <2>3
<1>10. ASSUME NEW i \in 0..n PROVE k[i] \in Seq(T)
  <2> DEFINE E == {j \in Nat : j <= n /\ k[j] \in Seq(T)}
  <2>1. 0 \in E
    <3>1. <<>> \in Seq(T)  OBVIOUS
    <3>2. k[0] \in Seq(T)  BY <1>9, <3>1
    <3>3. 0 \in Nat /\ 0 <= n  BY <1>1
    <3>4. QED  BY <3>2, <3>3
  <2>2. ASSUME NEW j \in 0..(n - 1), j \in E PROVE j + 1 \in E
    <3>1. j + 1 \in 1..n /\ (j + 1) - 1 = j  BY <1>1
    <3>2. k[j] \in Seq(T) /\ s[j + 1] \in T  BY <1>1, <2>2, <3>1
    <3>3. Append(k[j], s[j + 1]) \in Seq(T)  BY <3>2, AppendProperties
    <3>4. k[j + 1] \in Seq(T)  BY <1>9, <3>1, <3>2, <3>3 DEF KeptStep
    <3>5. QED  BY <3>1, <3>4
  <2>3. \A j \in 0..n : j \in E
    <3> HIDE DEF E
    <3>1. QED  BY <1>1, <2>1, <2>2, BoundedInduction
  <2>4. QED  BY <2>3
<1>11. k \in [0..n -> Seq(T)]  BY <1>8, <1>10
<1>12. QED  BY <1>9, <1>11 DEF k, n

\* What is kept of a part depends on that part alone.
LEMMA KeptAgree ==
    ASSUME NEW T, NEW s \in Seq(T), NEW t \in Seq(T), NEW I, NEW J, NEW n \in Nat,
           n <= Len(s), n <= Len(t),
           \A i \in 1..n : s[i] = t[i] /\ (i \in I <=> i \in J)
    PROVE  KeptUpTo(s, I)[n] = KeptUpTo(t, J)[n]
<1> DEFINE k == KeptUpTo(s, I)
           l == KeptUpTo(t, J)
           E == {i \in Nat : k[i] = l[i]}
<1>1. Len(s) \in Nat /\ Len(t) \in Nat  BY LenProperties
<1>2. k[0] = <<>> /\ \A i \in 1..Len(s) : k[i] = KeptStep(s, I, k[i - 1], i)  BY KeptUnfolds
<1>3. l[0] = <<>> /\ \A i \in 1..Len(t) : l[i] = KeptStep(t, J, l[i - 1], i)  BY KeptUnfolds
<1> HIDE DEF k, l
<1>4. 0 \in E  BY <1>2, <1>3
<1>5. ASSUME NEW i \in 0..(n - 1), i \in E PROVE i + 1 \in E
  <2>1. i + 1 \in 1..n /\ i + 1 \in 1..Len(s) /\ i + 1 \in 1..Len(t) /\ (i + 1) - 1 = i
    BY <1>1
  <2>2. k[i + 1] = KeptStep(s, I, k[i], i + 1) /\ l[i + 1] = KeptStep(t, J, l[i], i + 1)
    BY <1>2, <1>3, <2>1
  <2>3. k[i] = l[i] /\ s[i + 1] = t[i + 1] /\ (i + 1 \in I <=> i + 1 \in J)  BY <1>5, <2>1
  <2>4. k[i + 1] = l[i + 1]  BY <2>2, <2>3 DEF KeptStep
  <2>5. QED  BY <2>4
<1>6. n \in E
  <2> HIDE DEF E
  <2>1. \A i \in 0..n : i \in E  BY <1>4, <1>5, BoundedInduction
  <2>2. QED  BY <2>1
<1>7. QED  BY <1>6 DEF k, l

\* What is kept is a sequence of the same elements; of nothing, nothing is kept.
LEMMA KeptType ==
    ASSUME NEW T, NEW s \in Seq(T), NEW I
    PROVE  Kept(s, I) \in Seq(T) /\ (s = <<>> => Kept(s, I) = <<>>)
<1>1. Len(s) \in 0..Len(s)  BY LenProperties
<1>2. s = <<>> => Len(s) = 0  BY EmptySeq
<1>3. QED  BY <1>1, <1>2, KeptUnfolds DEF Kept

\* One element more is kept or not.
LEMMA KeptAppend ==
    ASSUME NEW T, NEW s \in Seq(T), NEW x \in T, NEW I, NEW J,
           \A i \in 1..Len(s) : i \in I <=> i \in J
    PROVE  Kept(Append(s, x), J) =
               IF Len(s) + 1 \in J THEN Append(Kept(s, I), x) ELSE Kept(s, I)
<1> DEFINE t == Append(s, x)
           n == Len(s)
<1>1. n \in Nat  BY LenProperties
<1>2. t \in Seq(T) /\ Len(t) = n + 1 /\ t[n + 1] = x /\ \A i \in 1..n : t[i] = s[i]
  BY AppendProperties
<1> HIDE DEF t, n
<1>3. KeptUpTo(t, J)[n + 1] = KeptStep(t, J, KeptUpTo(t, J)[(n + 1) - 1], n + 1)
  <2>1. n + 1 \in 1..Len(t)  BY <1>1, <1>2
  <2>2. QED  BY <1>2, <2>1, KeptUnfolds
<1>4. KeptUpTo(s, I)[n] = KeptUpTo(t, J)[n]
  <2>1. n <= Len(s) /\ n <= Len(t)  BY <1>1, <1>2 DEF n
  <2>2. \A i \in 1..n : s[i] = t[i] /\ (i \in I <=> i \in J)  BY <1>2 DEF n
  <2>3. t \in Seq(T)  BY <1>2
  <2>4. QED  BY <1>1, <2>1, <2>2, <2>3, KeptAgree
<1>5. (n + 1) - 1 = n  BY <1>1
<1>6. QED  BY <1>2, <1>3, <1>4, <1>5 DEF Kept, KeptStep, t, n

\* The same is kept of the same elements at the same places.
LEMMA KeptSame ==
    ASSUME NEW T, NEW s \in Seq(T), NEW I, NEW J,
           \A i \in 1..Len(s) : i \in I <=> i \in J
    PROVE  Kept(s, I) = Kept(s, J)
<1> DEFINE n == Len(s)
<1>1. n \in Nat  BY LenProperties
<1>2. \A i \in 1..n : s[i] = s[i] /\ (i \in I <=> i \in J)  OBVIOUS
<1>3. n <= Len(s)  BY <1>1
<1> HIDE DEF n
<1>4. KeptUpTo(s, I)[n] = KeptUpTo(s, J)[n]  BY <1>1, <1>2, <1>3, KeptAgree
<1>5. QED  BY <1>4 DEF Kept, n

\* When every place is chosen, everything is kept.
LEMMA KeptAll ==
    ASSUME NEW T, NEW s \in Seq(T), NEW I, \A i \in 1..Len(s) : i \in I
    PROVE  Kept(s, I) = s
<1> DEFINE n == Len(s)
           k == KeptUpTo(s, I)
           E == {i \in Nat : Len(k[i]) = i /\ \A j \in 1..i : k[i][j] = s[j]}
<1>1. n \in Nat /\ s \in [1..n -> T]  BY LenProperties
<1>2. /\ k \in [0..n -> Seq(T)] /\ k[0] = <<>>
      /\ \A i \in 1..n : k[i] = KeptStep(s, I, k[i - 1], i)
  BY KeptUnfolds
<1>3. \A i \in 1..n : i \in I /\ s[i] \in T  BY ElementOfSeq
<1> HIDE DEF n, k
<1>4. 0 \in E
  <2>1. Len(k[0]) = 0  BY <1>2
  <2>2. QED  BY <2>1
<1>5. ASSUME NEW i \in 0..(n - 1), i \in E PROVE i + 1 \in E
  <2>1. i \in 0..n /\ i + 1 \in 1..n /\ (i + 1) - 1 = i  BY <1>1
  <2>2. k[i + 1] = Append(k[i], s[i + 1])  BY <1>2, <1>3, <2>1 DEF KeptStep
  <2>3. k[i] \in Seq(T) /\ s[i + 1] \in T  BY <1>2, <1>3, <2>1
  <2>4. Len(k[i]) = i /\ \A j \in 1..i : k[i][j] = s[j]  BY <1>5
  <2>5. /\ Len(k[i + 1]) = i + 1
        /\ \A j \in 1..i : k[i + 1][j] = k[i][j]
        /\ k[i + 1][i + 1] = s[i + 1]
    BY <2>2, <2>3, <2>4, AppendProperties
  <2>6. \A j \in 1..(i + 1) : k[i + 1][j] = s[j]
    <3>1. SUFFICES ASSUME NEW j \in 1..(i + 1) PROVE k[i + 1][j] = s[j]  OBVIOUS
    <3>2. CASE j = i + 1  BY <2>5, <3>2
    <3>3. CASE j # i + 1
      <4>1. j \in 1..i  BY <3>3
      <4>2. QED  BY <2>4, <2>5, <4>1
    <3>4. QED  BY <3>2, <3>3
  <2>7. i + 1 \in Nat  OBVIOUS
  <2>8. QED  BY <2>5, <2>6, <2>7
<1>6. n \in E
  <2> HIDE DEF E
  <2>1. \A i \in 0..n : i \in E  BY <1>1, <1>4, <1>5, BoundedInduction
  <2>2. QED  BY <1>1, <2>1
<1>7. k[n] \in Seq(T) /\ Len(k[n]) = n /\ \A j \in 1..n : k[n][j] = s[j]  BY <1>1, <1>2, <1>6
<1>8. k[n] = s  BY <1>7, SeqEqual DEF n
<1>9. QED  BY <1>8 DEF Kept, k, n

\* What is kept of two sequences end to end is what is kept of each.
LEMMA KeptConcat ==
    ASSUME NEW T, NEW s \in Seq(T), NEW t \in Seq(T), NEW I, NEW J, NEW K,
           \A i \in 1..Len(s) : i \in I <=> i \in K,
           \A i \in 1..Len(t) : i \in J <=> Len(s) + i \in K
    PROVE  Kept(s \o t, K) = Kept(s, I) \o Kept(t, J)
<1> DEFINE m == Len(s)
           n == Len(t)
           u == s \o t
           a == KeptUpTo(s, I)[m]
           k == KeptUpTo(t, J)
           l == KeptUpTo(u, K)
           E == {i \in Nat : l[m + i] = a \o k[i]}
<1>1. m \in Nat /\ n \in Nat  BY LenProperties
<1>2. /\ u \in Seq(T) /\ Len(u) = m + n
      /\ \A i \in 1..m : u[i] = s[i]
      /\ \A i \in 1..n : u[m + i] = t[i]
  <2>1. /\ u \in Seq(T) /\ Len(u) = m + n
        /\ \A i \in 1..Len(u) : u[i] = IF i <= m THEN s[i] ELSE t[i - m]
    BY ConcatProperties
  <2> HIDE DEF u, m, n
  <2>2. \A i \in 1..m : u[i] = s[i]  BY <1>1, <2>1
  <2>3. ASSUME NEW i \in 1..n PROVE u[m + i] = t[i]
    <3>1. m + i \in 1..Len(u) /\ ~(m + i <= m) /\ (m + i) - m = i  BY <1>1, <2>1
    <3>2. QED  BY <2>1, <3>1
  <2>4. QED  BY <2>1, <2>2, <2>3
<1>3. a \in Seq(T)  BY KeptType DEF Kept
<1>4. /\ k \in [0..n -> Seq(T)] /\ k[0] = <<>>
      /\ \A i \in 1..n : k[i] = KeptStep(t, J, k[i - 1], i)
  BY KeptUnfolds
<1>5. \A i \in 1..n : t[i] \in T  BY ElementOfSeq
<1>6. \A i \in 1..n : i \in J <=> m + i \in K  OBVIOUS
<1>7. \A i \in 1..m : i \in I <=> i \in K  OBVIOUS
<1>8. m <= Len(s)  BY <1>1
<1> HIDE DEF m, n, u, k
<1>9. \A i \in 1..Len(u) : l[i] = KeptStep(u, K, l[i - 1], i)  BY <1>2, KeptUnfolds
<1>10. l[m] = a
  <2>1. m <= Len(u)  BY <1>1, <1>2
  <2>2. \A i \in 1..m : s[i] = u[i] /\ (i \in I <=> i \in K)  BY <1>2, <1>7
  <2>3. u \in Seq(T)  BY <1>2
  <2>4. QED  BY <1>1, <1>8, <2>1, <2>2, <2>3, KeptAgree, SMTT(30)
<1> HIDE DEF a, l
<1>11. 0 \in E
  <2>1. a \o k[0] = a  BY <1>3, <1>4, ConcatEmptySeq
  <2>2. m + 0 = m  BY <1>1
  <2>3. l[m + 0] = a \o k[0]  BY <1>10, <2>1, <2>2
  <2>4. QED  BY <2>3
<1>12. ASSUME NEW i \in 0..(n - 1), i \in E PROVE i + 1 \in E
  <2>1. i + 1 \in 1..n /\ (i + 1) - 1 = i /\ i \in 0..n  BY <1>1
  <2>2. m + (i + 1) \in 1..Len(u) /\ (m + (i + 1)) - 1 = m + i  BY <1>1, <1>2, <2>1
  <2>3. l[m + (i + 1)] = KeptStep(u, K, l[m + i], m + (i + 1))  BY <1>9, <2>2
  <2>4. k[i + 1] = KeptStep(t, J, k[i], i + 1)  BY <1>4, <2>1
  <2>5. u[m + (i + 1)] = t[i + 1] /\ (i + 1 \in J <=> m + (i + 1) \in K)  BY <1>2, <1>6, <2>1
  <2>6. l[m + i] = a \o k[i]  BY <1>12
  <2>7. k[i] \in Seq(T) /\ t[i + 1] \in T  BY <1>4, <1>5, <2>1
  <2>8. a \o Append(k[i], t[i + 1]) = Append(a \o k[i], t[i + 1])  BY <1>3, <2>7, ConcatSimplifications
  <2>9. l[m + (i + 1)] = a \o k[i + 1]
    <3>1. CASE i + 1 \in J  BY <2>3, <2>4, <2>5, <2>6, <2>8, <3>1 DEF KeptStep
    <3>2. CASE i + 1 \notin J  BY <2>3, <2>4, <2>5, <2>6, <3>2 DEF KeptStep
    <3>3. QED  BY <3>1, <3>2
  <2>10. QED  BY <2>9
<1>13. n \in E
  <2> HIDE DEF E
  <2>1. \A i \in 0..n : i \in E  BY <1>1, <1>11, <1>12, BoundedInduction
  <2>2. QED  BY <1>1, <2>1
<1>14. l[Len(u)] = a \o k[n]  BY <1>2, <1>13
<1>15. QED  BY <1>14 DEF Kept, a, k, l, m, n, u

\* What is kept are elements at chosen places, in the order of the places.
LEMMA KeptPlaces ==
    ASSUME NEW T, NEW s \in Seq(T), NEW I
    PROVE  /\ Len(Kept(s, I)) \in Nat /\ Len(Kept(s, I)) <= Len(s)
           /\ \E p \in [1..Len(Kept(s, I)) -> 1..Len(s)] :
                 /\ \A j \in 1..Len(Kept(s, I)) : p[j] \in I /\ Kept(s, I)[j] = s[p[j]]
                 /\ \A j1, j2 \in 1..Len(Kept(s, I)) : j1 < j2 => p[j1] < p[j2]
<1> DEFINE n == Len(s)
           k == KeptUpTo(s, I)
           Fits(i, p) == /\ p \in [1..Len(k[i]) -> 1..i]
                         /\ \A j \in 1..Len(k[i]) : p[j] \in I /\ k[i][j] = s[p[j]]
                         /\ \A j1, j2 \in 1..Len(k[i]) : j1 < j2 => p[j1] < p[j2]
           E == {i \in Nat : Len(k[i]) <= i /\ \E p : Fits(i, p)}
<1>1. n \in Nat  BY LenProperties
<1>2. /\ k \in [0..n -> Seq(T)] /\ k[0] = <<>>
      /\ \A i \in 1..n : k[i] = KeptStep(s, I, k[i - 1], i)
  BY KeptUnfolds
<1>3. \A i \in 1..n : s[i] \in T  BY ElementOfSeq
<1> HIDE DEF n, k
<1>4. 0 \in E
  <2>1. Len(k[0]) = 0  BY <1>2
  <2>2. Fits(0, [j \in 1..0 |-> 0])  BY <2>1
  <2> HIDE DEF Fits
  <2>3. QED  BY <2>1, <2>2
<1>5. ASSUME NEW i \in 0..(n - 1), i \in E PROVE i + 1 \in E
  <2>1. i \in 0..n /\ i + 1 \in 1..n /\ (i + 1) - 1 = i  BY <1>1
  <2>2. k[i] \in Seq(T) /\ s[i + 1] \in T  BY <1>2, <1>3, <2>1
  <2>3. Len(k[i]) <= i /\ Len(k[i]) \in Nat  BY <1>5, <2>2, LenProperties
  <2>4. PICK p : Fits(i, p)  BY <1>5
  <2>5. CASE i + 1 \notin I
    <3>1. k[i + 1] = k[i]  BY <1>2, <2>1, <2>5 DEF KeptStep
    <3>2. Fits(i + 1, p)  BY <2>4, <3>1
    <3> HIDE DEF Fits
    <3>3. Len(k[i + 1]) <= i + 1  BY <2>3, <3>1
    <3>4. QED  BY <3>2, <3>3
  <2>6. CASE i + 1 \in I
    <3> DEFINE m == Len(k[i])
               q == [j \in 1..(m + 1) |-> IF j = m + 1 THEN i + 1 ELSE p[j]]
    <3>1. k[i + 1] = Append(k[i], s[i + 1])  BY <1>2, <2>1, <2>6 DEF KeptStep
    <3>2. /\ Len(k[i + 1]) = m + 1
          /\ \A j \in 1..m : k[i + 1][j] = k[i][j]
          /\ k[i + 1][m + 1] = s[i + 1]
      BY <2>2, <3>1, AppendProperties
    <3>3. /\ \A j \in 1..m : p[j] \in 1..i /\ p[j] \in I /\ k[i][j] = s[p[j]]
          /\ \A j1, j2 \in 1..m : j1 < j2 => p[j1] < p[j2]
      BY <2>4
    <3>4. m \in Nat  BY <2>3
    <3> HIDE DEF m
    <3>5. q \in [1..(m + 1) -> 1..(i + 1)]  BY <3>3, <3>4
    <3>6. ASSUME NEW j \in 1..(m + 1) PROVE q[j] \in I /\ k[i + 1][j] = s[q[j]]
      <4>1. CASE j = m + 1  BY <2>6, <3>2, <4>1
      <4>2. CASE j # m + 1
        <5>1. j \in 1..m /\ q[j] = p[j]  BY <3>4, <4>2
        <5>2. QED  BY <3>2, <3>3, <5>1
      <4>3. QED  BY <4>1, <4>2
    <3>7. ASSUME NEW j1 \in 1..(m + 1), NEW j2 \in 1..(m + 1), j1 < j2 PROVE q[j1] < q[j2]
      <4>1. j1 \in 1..m /\ q[j1] = p[j1]  BY <3>4, <3>7
      <4>2. CASE j2 = m + 1
        <5>1. q[j2] = i + 1 /\ p[j1] \in 1..i  BY <3>3, <4>1, <4>2
        <5>2. QED  BY <4>1, <5>1
      <4>3. CASE j2 # m + 1
        <5>1. j2 \in 1..m /\ q[j2] = p[j2]  BY <3>4, <4>3
        <5>2. QED  BY <3>3, <3>7, <4>1, <5>1
      <4>4. QED  BY <4>2, <4>3
    <3> HIDE DEF q
    <3>8. Fits(i + 1, q)  BY <3>2, <3>5, <3>6, <3>7
    <3> HIDE DEF Fits
    <3>9. Len(k[i + 1]) <= i + 1  BY <2>3, <3>2, <3>4 DEF m
    <3>10. QED  BY <3>8, <3>9
  <2>7. QED  BY <2>5, <2>6
<1>6. n \in E
  <2> HIDE DEF E
  <2>1. \A i \in 0..n : i \in E  BY <1>1, <1>4, <1>5, BoundedInduction
  <2>2. QED  BY <1>1, <2>1
<1>7. Len(k[n]) \in Nat  BY <1>1, <1>2, LenProperties
<1>8. Len(k[n]) <= n /\ \E p : Fits(n, p)  BY <1>6
<1>9. k[n] = Kept(s, I)  BY DEF Kept, k, n
<1> HIDE DEF k
<1>10. QED  BY <1>7, <1>8, <1>9 DEF n

-----------------------------------------------------------------------------
(***************************************************************************)
(* Prefixes and suffixes.                                                  *)
(***************************************************************************)
\* A sequence is a prefix of its continuations.
LEMMA PrefixOfConcat ==
    ASSUME NEW T, NEW s \in Seq(T), NEW t \in Seq(T)
    PROVE  IsPrefix(s, s \o t) /\ Len(s \o t) - Len(s) = Len(t)
<1>1. Len(s) \in Nat /\ Len(t) \in Nat  BY LenProperties
<1>2. Len(s \o t) = Len(s) + Len(t)  BY ConcatProperties
<1>3. SubSeq(s \o t, 1, Len(s)) = s  BY SubSeqOfConcat1, SubSeqFull, <1>1
<1>4. SubSeq(s, 1, Len(s)) = s  BY SubSeqFull
<1>5. QED  BY <1>1, <1>2, <1>3, <1>4 DEF IsPrefix

\* A prefix is continued by some sequence.
LEMMA PrefixContinued ==
    ASSUME NEW T, NEW s \in Seq(T), NEW t \in Seq(T), IsPrefix(s, t)
    PROVE  \E u \in Seq(T) : t = s \o u
<1>1. Len(s) \in Nat /\ Len(t) \in Nat /\ Len(s) <= Len(t)  BY LenProperties DEF IsPrefix
<1>2. SubSeq(t, 1, Len(s)) = s  BY SubSeqFull DEF IsPrefix
<1>3. SubSeq(t, Len(s) + 1, Len(t)) \in Seq(T)
  BY <1>1, SubSeqProperties
<1>4. SubSeq(t, 1, Len(s)) \o SubSeq(t, Len(s) + 1, Len(t)) = SubSeq(t, 1, Len(t))
  <2> DEFINE k == Len(s)
             n == Len(t)
  <2>1. 1 \in 1..(n + 1) /\ k \in (1 - 1)..n /\ n \in k..n  BY <1>1
  <2> HIDE DEF k, n
  <2>2. SubSeq(t, 1, k) \o SubSeq(t, k + 1, n) = SubSeq(t, 1, n)
    BY <2>1, ConcatAdjacentSubSeq DEF n
  <2>3. QED  BY <2>2 DEF k, n
<1>5. QED  BY <1>2, <1>3, <1>4, SubSeqFull

\* A prefix stays one when the sequence is continued.
LEMMA PrefixThenConcat ==
    ASSUME NEW T, NEW s \in Seq(T), NEW t \in Seq(T), NEW u \in Seq(T), IsPrefix(s, t)
    PROVE  IsPrefix(s, t \o u)
<1>1. PICK v \in Seq(T) : t = s \o v  BY PrefixContinued
<1>2. (s \o v) \o u = s \o (v \o u)  BY ConcatAssociative, SMTT(30)
<1>3. v \o u \in Seq(T)  BY ConcatProperties
<1>4. QED  BY <1>1, <1>2, <1>3, PrefixOfConcat

\* The end of a sequence is a suffix of it.
LEMMA SuffixOfConcat ==
    ASSUME NEW T, NEW s \in Seq(T), NEW t \in Seq(T)
    PROVE  IsSuffix(t, s \o t)
<1> DEFINE u == s \o t
           m == Len(s)
           n == Len(t)
           a == Reverse(t)
           b == Reverse(u)
<1>1. m \in Nat /\ n \in Nat  BY LenProperties
<1>2. /\ u \in Seq(T) /\ Len(u) = m + n
      /\ \A i \in 1..Len(u) : u[i] = IF i <= m THEN s[i] ELSE t[i - m]
  BY ConcatProperties
<1> HIDE DEF u
<1>3. a = [i \in 1..n |-> t[(n - i) + 1]]  BY DEF Reverse
<1>4. b = [i \in 1..(m + n) |-> u[((m + n) - i) + 1]]  BY <1>2 DEF Reverse
<1>5. \A i \in 1..n : t[i] \in T  BY ElementOfSeq
<1>6. \A i \in 1..Len(u) : u[i] \in T  BY <1>2, ElementOfSeq
<1> HIDE DEF m, n, a, b
<1>7. a \in Seq(T) /\ Len(a) = n
  <2>1. \A i \in 1..n : t[(n - i) + 1] \in T  BY <1>1, <1>5
  <2>2. QED  BY <1>1, <1>3, <2>1, IsASeq
<1>8. b \in Seq(T) /\ Len(b) = m + n
  <2>1. \A i \in 1..(m + n) : u[((m + n) - i) + 1] \in T  BY <1>1, <1>2, <1>6
  <2>2. m + n \in Nat  BY <1>1
  <2>3. QED  BY <1>4, <2>1, <2>2, IsASeq
<1>9. ASSUME NEW i \in 1..n PROVE b[i] = a[i]
  <2>1. i \in 1..(m + n) /\ ((m + n) - i) + 1 \in 1..Len(u)
        /\ ~(((m + n) - i) + 1 <= m) /\ (((m + n) - i) + 1) - m = (n - i) + 1
    BY <1>1, <1>2
  <2>2. QED  BY <1>2, <1>3, <1>4, <2>1
<1>10. SubSeq(a, 1, n) = SubSeq(b, 1, n)
  <2>1. SubSeq(a, 1, n) = [i \in 1..n |-> a[i]]
    BY <1>1, <1>7
  <2>2. SubSeq(b, 1, n) = [i \in 1..n |-> b[i]]
    BY <1>1, <1>8
  <2>3. QED  BY <1>9, <2>1, <2>2
<1>11. n <= m + n  BY <1>1
<1>12. QED  BY <1>7, <1>8, <1>10, <1>11 DEF IsSuffix, IsPrefix, a, b, u


\* What is kept of the first elements comes first in what is kept of all.
LEMMA KeptPrefix ==
    ASSUME NEW T, NEW s \in Seq(T), NEW I, NEW m \in 0..Len(s)
    PROVE  IsPrefix(KeptUpTo(s, I)[m], Kept(s, I))
<1> DEFINE n == Len(s)
           k == KeptUpTo(s, I)
           E == {i \in Nat : m + i <= n => IsPrefix(k[m], k[m + i])}
<1>1. n \in Nat /\ m \in Nat /\ m <= n /\ \A i \in 1..n : s[i] \in T  BY ElementOfSeq, LenProperties
<1>2. k \in [0..n -> Seq(T)] /\ \A i \in 1..n : k[i] = KeptStep(s, I, k[i - 1], i)  BY KeptUnfolds
<1> HIDE DEF n, k
<1>3. k[m] \in Seq(T)  BY <1>1, <1>2
<1>4. 0 \in E
  <2>1. Len(k[m]) <= Len(k[m])  BY <1>3, LenProperties
  <2>2. m + 0 = m  BY <1>1
  <2>3. QED  BY <2>1, <2>2 DEF IsPrefix
<1>5. ASSUME NEW i \in 0..(n - m - 1), i \in E PROVE i + 1 \in E
  <2>1. i \in Nat /\ m + i \in 0..n /\ (m + i) + 1 \in 1..n /\ ((m + i) + 1) - 1 = m + i
        /\ m + (i + 1) = (m + i) + 1 /\ m + i <= n
    BY <1>1
  <2>2. IsPrefix(k[m], k[m + i]) /\ k[m + i] \in Seq(T) /\ s[(m + i) + 1] \in T
    BY <1>1, <1>2, <1>5, <2>1
  <2>3. k[(m + i) + 1] = KeptStep(s, I, k[m + i], (m + i) + 1)  BY <1>2, <2>1
  <2> DEFINE a == k[m + i]
             x == s[(m + i) + 1]
  <2>4. a \in Seq(T) /\ x \in T /\ IsPrefix(k[m], a)  BY <2>2
  <2>5. k[(m + i) + 1] = a \/ k[(m + i) + 1] = Append(a, x)  BY <2>3 DEF KeptStep
  <2> HIDE DEF a, x
  <2>6. Append(a, x) = a \o <<x>> /\ <<x>> \in Seq(T)  BY <2>4, AppendIsConcat
  <2>7. IsPrefix(k[m], a \o <<x>>)  BY <1>3, <2>4, <2>6, PrefixThenConcat
  <2>8. IsPrefix(k[m], k[m + (i + 1)])  BY <2>1, <2>4, <2>5, <2>6, <2>7
  <2>9. QED  BY <2>1, <2>8
<1>6. n - m \in E
  <2>1. n - m \in Nat  BY <1>1
  <2> HIDE DEF E
  <2>2. \A i \in 0..(n - m) : i \in E  BY <1>4, <1>5, <2>1, BoundedInduction
  <2>3. QED  BY <2>1, <2>2
<1>7. m + (n - m) = n /\ m + (n - m) <= n  BY <1>1
<1>8. IsPrefix(k[m], k[n])  BY <1>6, <1>7
<1>9. QED  BY <1>8 DEF Kept, k, n

-----------------------------------------------------------------------------
(***************************************************************************)
(* Finite sums, as SumFunctionOnSet of the community modules defines them. *)
(***************************************************************************)

\* An element of a set that is not empty.
OneOf(s) == CHOOSE x \in s : TRUE

\* g gives the sum of f over every subset of S.
Sums(f, S, g) ==
    g = [s \in SUBSET S |-> IF s = {} THEN 0 ELSE f[OneOf(s)] + g[s \ {OneOf(s)}]]

\* The element taken, and what is left.
LEMMA OneOfProperties ==
    ASSUME NEW S, IsFiniteSet(S), NEW s \in SUBSET S
    PROVE  /\ IsFiniteSet(s) /\ Cardinality(s) \in Nat /\ Cardinality(s) <= Cardinality(S)
           /\ Cardinality(s) = 0 <=> s = {}
           /\ s # {} => /\ OneOf(s) \in s
                        /\ s \ {OneOf(s)} \in SUBSET S
                        /\ Cardinality(s \ {OneOf(s)}) = Cardinality(s) - 1
<1>1. IsFiniteSet(s) /\ Cardinality(s) <= Cardinality(S)
  BY FS_Subset
<1>2. Cardinality(s) \in Nat
  BY <1>1, FS_CardinalityType
<1>3. Cardinality(s) = 0 <=> s = {}
  BY <1>1, FS_EmptySet
<1>4. ASSUME s # {} PROVE OneOf(s) \in s
  BY <1>4 DEF OneOf
<1>5. ASSUME s # {} PROVE Cardinality(s \ {OneOf(s)}) = Cardinality(s) - 1
  BY <1>1, <1>4, <1>5, FS_RemoveElement
<1> QED
  BY <1>1, <1>2, <1>3, <1>4, <1>5

\* A finite set has sums.
LEMMA SumsExist ==
    ASSUME NEW S, IsFiniteSet(S), NEW f, \A x \in S : f[x] \in Int
    PROVE  \E g : Sums(f, S, g)
<1> DEFINE Val(g, s) == IF s = {} THEN 0 ELSE f[OneOf(s)] + g[s \ {OneOf(s)}]
           UpTo(n, g) == \A s \in SUBSET S : Cardinality(s) <= n => g[s] = Val(g, s)
           N == {n \in Nat : \E g \in [SUBSET S -> Int] : UpTo(n, g)}
<1>0. Cardinality(S) \in Nat
  BY FS_CardinalityType
<1>1. 0 \in N
  <2> DEFINE g == [s \in SUBSET S |-> 0]
  <2>1. ASSUME NEW s \in SUBSET S, Cardinality(s) <= 0 PROVE g[s] = Val(g, s)
    <3>1. Cardinality(s) \in Nat /\ (Cardinality(s) = 0 <=> s = {})
      BY OneOfProperties
    <3>2. s = {}
      BY <2>1, <3>1
    <3> QED
      BY <3>2
  <2>2. g \in [SUBSET S -> Int]
    OBVIOUS
  <2> QED
    BY <2>1, <2>2
<1>2. ASSUME NEW n \in 0..(Cardinality(S) - 1), n \in N PROVE n + 1 \in N
  <2>1. PICK g \in [SUBSET S -> Int] : UpTo(n, g)
    BY <1>2
  <2> DEFINE h == [s \in SUBSET S |-> IF Cardinality(s) <= n THEN g[s] ELSE Val(g, s)]
  <2>2. ASSUME NEW s \in SUBSET S PROVE Val(g, s) \in Int
    <3>1. CASE s = {}
      BY <3>1
    <3>2. CASE s # {}
      <4>1. OneOf(s) \in S /\ s \ {OneOf(s)} \in SUBSET S
        BY <3>2, OneOfProperties
      <4>2. f[OneOf(s)] \in Int /\ g[s \ {OneOf(s)}] \in Int
        BY <4>1
      <4> QED
        BY <3>2, <4>2
    <3> QED
      BY <3>1, <3>2
  <2>3. h \in [SUBSET S -> Int]
    <3> HIDE DEF Val
    <3> QED
      BY <2>2
  <2>4. ASSUME NEW s \in SUBSET S, Cardinality(s) <= n + 1 PROVE h[s] = Val(h, s)
    <3>1. h[s] = Val(g, s)
      <4> HIDE DEF Val
      <4>1. CASE Cardinality(s) <= n
        BY <2>1, <4>1
      <4>2. CASE ~(Cardinality(s) <= n)
        BY <4>2
      <4> QED
        BY <4>1, <4>2
    <3>2. CASE s = {}
      BY <3>1, <3>2
    <3>3. CASE s # {}
      <4> DEFINE r == s \ {OneOf(s)}
      <4>1. r \in SUBSET S /\ Cardinality(r) <= n
        BY <2>4, <3>3, OneOfProperties
      <4>2. h[r] = g[r]
        <5> HIDE DEF r, Val
        <5> QED
          BY <4>1
      <4> HIDE DEF h
      <4> QED
        BY <3>1, <3>3, <4>2
    <3> QED
      BY <3>2, <3>3
  <2>5. UpTo(n + 1, h)
    <3> HIDE DEF h, Val
    <3> QED
      BY <2>4
  <2> HIDE DEF UpTo, h
  <2> QED
    BY <2>3, <2>5
<1>3. Cardinality(S) \in N
  <2> HIDE DEF N
  <2>1. \A n \in 0..Cardinality(S) : n \in N
    BY <1>0, <1>1, <1>2, BoundedInduction
  <2> QED
    BY <1>0, <2>1
<1>4. PICK g \in [SUBSET S -> Int] : UpTo(Cardinality(S), g)
  BY <1>3
<1>5. \A s \in SUBSET S : g[s] = Val(g, s)
  <2> HIDE DEF Val
  <2> QED
    BY <1>4, OneOfProperties
<1>6. g = [s \in SUBSET S |-> Val(g, s)]
  <2> HIDE DEF Val
  <2> QED
    BY <1>5
<1> QED
  BY <1>6 DEF Sums

\* The sum of f over S in terms of Sums.
LEMMA SumDefined ==
    ASSUME NEW S, IsFiniteSet(S), NEW f, \A x \in S : f[x] \in Int
    PROVE  \E g : Sums(f, S, g) /\ SumFunctionOnSet(f, S) = g[S]
<1> DEFINE k == CHOOSE g : Sums(f, S, g)
<1>1. Sums(f, S, k)
  BY SumsExist
<1>2. SumFunctionOnSet(f, S) = k[S]
  BY DEF SumFunctionOnSet, FoldFunctionOnSet, MapThenFoldSet, Sums, OneOf
<1> QED
  BY <1>1, <1>2

\* The sums over the subsets of U depend on the values at U alone.
LEMMA SumsAgree ==
    ASSUME NEW S, IsFiniteSet(S), NEW T, NEW U, U \subseteq S, U \subseteq T,
           NEW f, NEW e, \A x \in U : f[x] = e[x],
           NEW g, NEW h, Sums(f, S, g), Sums(e, T, h)
    PROVE  g[U] = h[U]
<1> DEFINE N == {n \in Nat : \A s \in SUBSET U : Cardinality(s) <= n => g[s] = h[s]}
<1>0. IsFiniteSet(U) /\ Cardinality(U) \in Nat
  BY FS_Subset, FS_CardinalityType
<1>1. ASSUME NEW s \in SUBSET U
      PROVE  /\ g[s] = IF s = {} THEN 0 ELSE f[OneOf(s)] + g[s \ {OneOf(s)}]
             /\ h[s] = IF s = {} THEN 0 ELSE e[OneOf(s)] + h[s \ {OneOf(s)}]
  <2>1. s \in SUBSET S /\ s \in SUBSET T
    OBVIOUS
  <2>2. g[s] = IF s = {} THEN 0 ELSE f[OneOf(s)] + g[s \ {OneOf(s)}]
    BY <2>1, Zenon DEF Sums
  <2>3. h[s] = IF s = {} THEN 0 ELSE e[OneOf(s)] + h[s \ {OneOf(s)}]
    BY <2>1, Zenon DEF Sums
  <2> QED
    BY <2>2, <2>3
<1>2. 0 \in N
  <2>1. ASSUME NEW s \in SUBSET U, Cardinality(s) <= 0 PROVE g[s] = h[s]
    <3>1. Cardinality(s) \in Nat /\ (Cardinality(s) = 0 <=> s = {})
      BY <1>0, OneOfProperties
    <3>2. s = {}
      BY <2>1, <3>1
    <3> QED
      BY <1>1, <3>2
  <2> QED
    BY <2>1
<1>3. ASSUME NEW n \in 0..(Cardinality(U) - 1), n \in N PROVE n + 1 \in N
  <2>1. ASSUME NEW s \in SUBSET U, Cardinality(s) <= n + 1 PROVE g[s] = h[s]
    <3>1. CASE s = {}
      BY <1>1, <3>1
    <3>2. CASE s # {}
      <4>1. /\ OneOf(s) \in s /\ s \ {OneOf(s)} \in SUBSET U
            /\ Cardinality(s \ {OneOf(s)}) = Cardinality(s) - 1 /\ Cardinality(s) \in Nat
        BY <1>0, <3>2, OneOfProperties
      <4>2. g[s \ {OneOf(s)}] = h[s \ {OneOf(s)}]
        BY <1>3, <2>1, <4>1
      <4>3. f[OneOf(s)] = e[OneOf(s)]
        BY <4>1
      <4> QED
        BY <1>1, <3>2, <4>2, <4>3
    <3> QED
      BY <3>1, <3>2
  <2> QED
    BY <2>1
<1>4. Cardinality(U) \in N
  <2> HIDE DEF N
  <2>1. \A n \in 0..Cardinality(U) : n \in N
    BY <1>0, <1>2, <1>3, BoundedInduction
  <2> QED
    BY <1>0, <2>1
<1> QED
  BY <1>0, <1>4

\* Functions that agree on a set have the same sum over it.
LEMMA SumSame ==
    ASSUME NEW S, IsFiniteSet(S), NEW f, NEW e, \A x \in S : f[x] \in Int /\ e[x] = f[x]
    PROVE  SumFunctionOnSet(f, S) = SumFunctionOnSet(e, S)
<1>1. PICK g : Sums(f, S, g) /\ SumFunctionOnSet(f, S) = g[S]
  BY SumDefined
<1>2. \A x \in S : e[x] \in Int
  OBVIOUS
<1>3. PICK h : Sums(e, S, h) /\ SumFunctionOnSet(e, S) = h[S]
  BY <1>2, SumDefined
<1>4. \A x \in S : f[x] = e[x]
  OBVIOUS
<1>5. g[S] = h[S]
  BY <1>1, <1>3, <1>4, SumsAgree
<1> QED
  BY <1>1, <1>3, <1>5

\* A sum over nothing is zero.
LEMMA SumEmpty ==
    ASSUME NEW f
    PROVE  SumFunctionOnSet(f, {}) = 0
<1>1. IsFiniteSet({})
  BY FS_EmptySet
<1>2. PICK g : Sums(f, {}, g) /\ SumFunctionOnSet(f, {}) = g[{}]
  BY <1>1, SumDefined
<1>3. {} \in SUBSET {}
  OBVIOUS
<1>4. g[{}] = 0
  BY <1>2, <1>3, Zenon DEF Sums
<1> QED
  BY <1>2, <1>4

\* A sum takes one element off after the other.
LEMMA SumUnfolds ==
    ASSUME NEW S, IsFiniteSet(S), NEW f, \A x \in S : f[x] \in Int, S # {}
    PROVE  SumFunctionOnSet(f, S) = f[OneOf(S)] + SumFunctionOnSet(f, S \ {OneOf(S)})
<1> DEFINE R == S \ {OneOf(S)}
<1>1. IsFiniteSet(R) /\ R \subseteq S
  BY FS_Subset
<1>2. PICK g : Sums(f, S, g) /\ SumFunctionOnSet(f, S) = g[S]
  BY SumDefined
<1>3. PICK h : Sums(f, R, h) /\ SumFunctionOnSet(f, R) = h[R]
  <2> HIDE DEF R
  <2> QED
    BY <1>1, SumDefined
<1>4. g[R] = h[R]
  <2> HIDE DEF R
  <2> QED
    BY <1>1, <1>2, <1>3, SumsAgree
<1>5. S \in SUBSET S
  OBVIOUS
<1>6. g[S] = f[OneOf(S)] + g[R]
  BY <1>2, <1>5, Zenon DEF Sums
<1> QED
  BY <1>2, <1>3, <1>4, <1>6

\* Sums are integers, and any element may be taken off first.
LEMMA SumPick ==
    ASSUME NEW S, IsFiniteSet(S), NEW f, \A x \in S : f[x] \in Int
    PROVE  /\ SumFunctionOnSet(f, S) \in Int
           /\ \A x \in S : SumFunctionOnSet(f, S) = f[x] + SumFunctionOnSet(f, S \ {x})
<1> DEFINE Sum(s) == SumFunctionOnSet(f, s)
           Good(s) == Sum(s) \in Int /\ \A x \in s : Sum(s) = f[x] + Sum(s \ {x})
           N == {n \in Nat : \A s \in SUBSET S : Cardinality(s) <= n => Good(s)}
<1>0. Cardinality(S) \in Nat
  BY FS_CardinalityType
<1>1. Good({})
  BY SumEmpty
<1>2. 0 \in N
  <2>1. ASSUME NEW s \in SUBSET S, Cardinality(s) <= 0 PROVE Good(s)
    <3>1. Cardinality(s) \in Nat /\ (Cardinality(s) = 0 <=> s = {})
      BY OneOfProperties
    <3>2. s = {}
      BY <2>1, <3>1
    <3> HIDE DEF Good
    <3> QED
      BY <1>1, <3>2
  <2> HIDE DEF Good
  <2> QED
    BY <2>1
<1>3. ASSUME NEW n \in 0..(Cardinality(S) - 1), n \in N PROVE n + 1 \in N
  <2>1. ASSUME NEW s \in SUBSET S, Cardinality(s) <= n + 1, s # {} PROVE Good(s)
    <3> DEFINE y == OneOf(s)
    <3>1. IsFiniteSet(s) /\ Cardinality(s) \in Nat /\ y \in s
      BY <2>1, OneOfProperties
    <3>2. Sum(s) = f[y] + Sum(s \ {y})
      BY <2>1, <3>1, SumUnfolds
    <3>3. ASSUME NEW x \in s PROVE Good(s \ {x})
      <4>1. Cardinality(s \ {x}) = Cardinality(s) - 1
        BY <3>1, FS_RemoveElement
      <4>2. s \ {x} \in SUBSET S /\ Cardinality(s \ {x}) <= n
        BY <2>1, <3>1, <4>1
      <4> HIDE DEF Good
      <4> QED
        BY <1>3, <4>2
    <3>4. Sum(s) \in Int
      <4>1. Sum(s \ {y}) \in Int
        BY <3>1, <3>3
      <4>2. f[y] \in Int
        BY <3>1
      <4> HIDE DEF Sum, y
      <4> QED
        BY <3>2, <4>1, <4>2
    <3>5. ASSUME NEW x \in s, x # y PROVE Sum(s) = f[x] + Sum(s \ {x})
      <4>1. Sum(s \ {y}) = f[x] + Sum((s \ {y}) \ {x})
        BY <3>1, <3>3, <3>5
      <4>2. Sum(s \ {x}) = f[y] + Sum((s \ {x}) \ {y})
        BY <3>1, <3>3, <3>5
      <4>3. (s \ {y}) \ {x} = (s \ {x}) \ {y}
        OBVIOUS
      <4>4. f[x] \in Int /\ f[y] \in Int
        BY <3>1
      <4>5. Sum(s \ {x}) \in Int /\ Sum(s \ {y}) \in Int
        BY <3>1, <3>3
      <4>6. Good((s \ {x}) \ {y})
        <5>1. IsFiniteSet(s \ {x}) /\ Cardinality(s \ {x}) = Cardinality(s) - 1 /\ y \in s \ {x}
          BY <3>1, <3>5, FS_RemoveElement
        <5>2. Cardinality((s \ {x}) \ {y}) = Cardinality(s) - 2
          <6> DEFINE r == s \ {x}
          <6> HIDE DEF r, y
          <6>1. Cardinality(r \ {y}) = Cardinality(r) - 1
            BY <5>1, FS_RemoveElement DEF r
          <6> QED
            BY <3>1, <5>1, <6>1 DEF r
        <5>3. (s \ {x}) \ {y} \in SUBSET S /\ Cardinality((s \ {x}) \ {y}) <= n
          BY <2>1, <3>1, <5>2
        <5> HIDE DEF Good, y
        <5> QED
          BY <1>3, <5>3
      <4>7. Sum((s \ {x}) \ {y}) \in Int
        BY <4>6
      <4> DEFINE a == Sum((s \ {x}) \ {y})
      <4>8. Sum(s \ {y}) = f[x] + a /\ Sum(s \ {x}) = f[y] + a
        BY <4>1, <4>2, <4>3
      <4> HIDE DEF Sum, y, a
      <4>9. f[y] + (f[x] + a) = f[x] + (f[y] + a)
        BY <4>4, <4>7 DEF a
      <4> QED
        BY <3>2, <4>8, <4>9
    <3> HIDE DEF Sum, y
    <3> QED
      BY <3>2, <3>4, <3>5
  <2>2. ASSUME NEW s \in SUBSET S, Cardinality(s) <= n + 1 PROVE Good(s)
    <3> HIDE DEF Good
    <3> QED
      BY <1>1, <2>1, <2>2
  <2> HIDE DEF Good
  <2> QED
    BY <2>2
<1>4. Cardinality(S) \in N
  <2> HIDE DEF N
  <2>1. \A n \in 0..Cardinality(S) : n \in N
    BY <1>0, <1>2, <1>3, BoundedInduction
  <2> QED
    BY <1>0, <2>1
<1>5. Good(S)
  <2> HIDE DEF Good
  <2> QED
    BY <1>0, <1>4
<1> QED
  BY <1>5

\* The image of a finite set is finite.
LEMMA ImageFinite ==
    ASSUME NEW S, IsFiniteSet(S), NEW f, NEW T, T = {f[x] : x \in S}
    PROVE  IsFiniteSet(T)
<1> DEFINE g == [x \in S |-> f[x]]
<1>1. g \in Surjection(S, T)
  BY DEF Surjection
<1> HIDE DEF g
<1> QED
  BY <1>1, FS_Surjection

=============================================================================
