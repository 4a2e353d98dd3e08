----------------------- MODULE VariableHistory_proofs -----------------------
(***************************************************************************)
(* Proofs about VariableHistory: for every chain, every order of indexing, *)
(* every mantissa and every set of keys and values, the readers answer     *)
(* what the contract's variables were.                                     *)
(***************************************************************************)
EXTENDS VariableHistory, WellFoundedInduction, TLAPS

-----------------------------------------------------------------------------
(* Induction                                                               *)

\* A set of numbers has a least one.
LEMMA Least ==
    ASSUME NEW T \in SUBSET Nat, T # {}
    PROVE  \E m \in T : \A n \in T : m <= n
<1>1. \E m \in T : \A n \in T : ~ (<<n, m>> \in OpToRel(<, Nat))
  BY NatLessThanWellFounded, WFMin
<1>2. \A m \in T, n \in T : ~ (<<n, m>> \in OpToRel(<, Nat)) => m <= n
  BY DEF OpToRel
<1>3. QED
  BY <1>1, <1>2

\* A set that has 0 and with every number the next one has all.
LEMMA Induction ==
    ASSUME NEW T \in SUBSET Nat, 0 \in T, \A n \in T : n + 1 \in T
    PROVE  T = Nat
<1> SUFFICES ASSUME Nat \ T # {} PROVE FALSE
  OBVIOUS
<1>1. PICK m \in Nat \ T : \A n \in Nat \ T : m <= n
  BY Least
<1>2. m # 0 /\ m - 1 \in Nat
  BY <1>1
<1>3. m - 1 \in T
  BY <1>1, <1>2
<1>4. QED
  BY <1>1, <1>2, <1>3

\* A bounded set of heights has a highest one.
LEMMA HighestFacts ==
    ASSUME NEW b \in Nat, NEW S \in SUBSET (0 .. b), S # {}
    PROVE  Highest(S) \in S /\ \A x \in S : x <= Highest(S)
<1> DEFINE U == {n \in Nat : \A x \in S : x <= n}
<1>1. b \in U
  OBVIOUS
<1>2. PICK m \in U : \A n \in U : m <= n
  BY <1>1, Least
<1>3. m \in S
  <2> SUFFICES ASSUME m \notin S PROVE FALSE
    OBVIOUS
  <2>1. \A x \in S : x <= m - 1
    BY <1>2
  <2>2. m - 1 \in Nat
    <3>1. PICK x \in S : x \in 0 .. b
      OBVIOUS
    <3>2. x <= m - 1
      BY <2>1
    <3>3. QED
      BY <3>1, <3>2
  <2>3. m - 1 \in U
    BY <2>1, <2>2
  <2>4. QED
    BY <1>2, <2>3
<1>4. \E h \in S : \A x \in S : x <= h
  BY <1>2, <1>3
<1>5. QED
  BY <1>4 DEF Highest

\* What a loop does that takes a step for each number in turn.
Steps(V) == [Nat -> [V -> V]]
Runs(V, start, step) ==
    {f \in [Nat -> V] : f[0] = start /\ \A n \in Nat : f[n + 1] = step[n][f[n]]}

\* Every loop runs.
LEMMA Recursion ==
    ASSUME NEW V, NEW start \in V, NEW step \in Steps(V)
    PROVE  Runs(V, start, step) # {}
<1> USE DEF Steps
<1> DEFINE Upto(g, n) == /\ g \in [0 .. n -> V] /\ g[0] = start
                         /\ \A i \in 0 .. n - 1 : g[i + 1] = step[i][g[i]]
           T == {n \in Nat : \E g : Upto(g, n)}
<1>1. T = Nat
  <2>1. 0 \in T
    <3>1. Upto([i \in 0 .. 0 |-> start], 0)
      OBVIOUS
    <3>2. QED
      BY <3>1
  <2>2. ASSUME NEW n \in T PROVE n + 1 \in T
    <3>1. PICK g : Upto(g, n)
      OBVIOUS
    <3> DEFINE h == [i \in 0 .. n + 1 |-> IF i = n + 1 THEN step[n][g[n]] ELSE g[i]]
    <3>2. h \in [0 .. n + 1 -> V]
      <4>1. step[n][g[n]] \in V
        BY <3>1
      <4>2. ASSUME NEW i \in 0 .. n + 1 PROVE h[i] \in V
        BY <3>1, <4>1
      <4>3. QED
        BY <4>2
    <3>3. h[0] = start
      BY <3>1
    <3>4. ASSUME NEW i \in 0 .. (n + 1) - 1 PROVE h[i + 1] = step[i][h[i]]
      <4>1. h[i] = g[i] /\ i \in 0 .. n
        OBVIOUS
      <4>2. CASE i = n
        BY <4>1, <4>2
      <4>3. CASE i # n
        <5>1. i \in 0 .. n - 1 /\ i + 1 \in 0 .. n + 1 /\ i + 1 # n + 1
          BY <4>3
        <5>2. h[i + 1] = g[i + 1]
          BY <5>1
        <5>3. QED
          BY <3>1, <4>1, <5>1, <5>2
      <4>4. QED
        BY <4>2, <4>3
    <3>5. Upto(h, n + 1)
      BY <3>2, <3>3, <3>4
    <3> HIDE DEF h
    <3>6. \E k : Upto(k, n + 1)
      BY <3>5
    <3>7. QED
      BY <3>6
  <2>3. QED
    BY <2>1, <2>2, Induction
<1>2. \A n \in Nat : \E g : Upto(g, n)
  BY <1>1
<1> DEFINE G(n) == CHOOSE g : Upto(g, n)
<1>3. \A n \in Nat : Upto(G(n), n)
  BY <1>2
<1>4. \A m, n \in Nat : m <= n =>
         \A g, h : Upto(g, m) /\ Upto(h, n) => \A i \in 0 .. m : g[i] = h[i]
  <2> HIDE DEF Upto
  <2> SUFFICES ASSUME NEW m \in Nat, NEW n \in Nat, m <= n, NEW g, NEW h,
                      Upto(g, m), Upto(h, n)
               PROVE  \A i \in 0 .. m : g[i] = h[i]
    OBVIOUS
  <2> USE DEF Upto
  <2> DEFINE S == {i \in Nat : i <= m => g[i] = h[i]}
  <2>1. 0 \in S
    OBVIOUS
  <2>2. ASSUME NEW i \in S PROVE i + 1 \in S
    <3> SUFFICES ASSUME i + 1 <= m PROVE g[i + 1] = h[i + 1]
      OBVIOUS
    <3>1. g[i] = h[i] /\ i \in 0 .. m - 1 /\ i \in 0 .. n - 1
      OBVIOUS
    <3>2. g[i + 1] = step[i][g[i]] /\ h[i + 1] = step[i][h[i]]
      BY <3>1
    <3>3. QED
      BY <3>1, <3>2
  <2>3. S = Nat
    BY <2>1, <2>2, Induction
  <2>4. QED
    BY <2>3
<1> DEFINE f == [n \in Nat |-> G(n)[n]]
<1> HIDE DEF G
<1>5. f \in [Nat -> V]
  BY <1>3
<1>6. f[0] = start
  BY <1>3
<1>7. ASSUME NEW n \in Nat PROVE f[n + 1] = step[n][f[n]]
  <2>1. Upto(G(n), n) /\ Upto(G(n + 1), n + 1)
    BY <1>3
  <2>2. G(n)[n] = G(n + 1)[n]
    <3>1. n + 1 \in Nat /\ n <= n + 1 /\ n \in 0 .. n
      OBVIOUS
    <3> HIDE DEF Upto
    <3>2. \A i \in 0 .. n : G(n)[i] = G(n + 1)[i]
      BY <1>4, <2>1, <3>1
    <3>3. QED
      BY <3>1, <3>2
  <2>3. G(n + 1)[n + 1] = step[n][G(n + 1)[n]]
    BY <2>1
  <2>4. QED
    BY <2>2, <2>3
<1>8. f \in Runs(V, start, step)
  BY <1>5, <1>6, <1>7 DEF Runs
<1>9. QED
  BY <1>8

-----------------------------------------------------------------------------
(* The powers of two                                                       *)

\* The recursion of Power is well-founded.
LEMMA PowerFacts ==
    /\ Power[0] = 1
    /\ \A n \in Nat : Power[n] \in Nat \ {0} /\ Power[n + 1] = 2 * Power[n]
<1> DEFINE step == [n \in Nat |-> [v \in Nat |-> 2 * v]]
<1>1. step \in Steps(Nat)
  BY DEF Steps
<1>2. PICK f \in Runs(Nat, 1, step) : TRUE
  BY <1>1, 1 \in Nat, Recursion
<1>3. \A n \in Nat : f[n + 1] = 2 * f[n]
  BY <1>2 DEF Runs
<1> HIDE DEF step
<1>4. ASSUME NEW n \in Nat PROVE f[n] = IF n = 0 THEN 1 ELSE 2 * f[n - 1]
  <2>1. CASE n = 0
    BY <1>2, <2>1 DEF Runs
  <2>2. CASE n # 0
    <3>1. n - 1 \in Nat /\ (n - 1) + 1 = n
      BY <2>2
    <3>2. f[(n - 1) + 1] = 2 * f[n - 1]
      BY <1>3, <3>1
    <3>3. QED
      BY <2>2, <3>1, <3>2
  <2>3. QED
    BY <2>1, <2>2
<1>5. f = [n \in Nat |-> IF n = 0 THEN 1 ELSE 2 * f[n - 1]]
  BY <1>2, <1>4 DEF Runs
<1>6. \E g : g = [n \in Nat |-> IF n = 0 THEN 1 ELSE 2 * g[n - 1]]
  BY <1>5
<1>7. Power = [n \in Nat |-> IF n = 0 THEN 1 ELSE 2 * Power[n - 1]]
  BY <1>6, Zenon DEF Power
<1>8. Power[0] = 1
  BY <1>7
<1>9. ASSUME NEW n \in Nat PROVE Power[n + 1] = 2 * Power[n]
  BY <1>7
<1> DEFINE T == {n \in Nat : Power[n] \in Nat \ {0}}
<1>10. \A n \in Nat : Power[n] \in Nat \ {0}
  <2>1. 0 \in T
    BY <1>8
  <2>2. ASSUME NEW n \in T PROVE n + 1 \in T
    BY <1>9
  <2>3. T = Nat
    BY <2>1, <2>2, Induction
  <2>4. QED
    BY <2>3
<1>11. QED
  BY <1>8, <1>9, <1>10

\* Every number is below its power, and the powers grow.
LEMMA PowerOrder ==
    /\ \A n \in Nat : n < Power[n]
    /\ \A m, n \in Nat : m <= n => Power[m] <= Power[n]
<1>1. \A n \in Nat : n < Power[n]
  <2> DEFINE T == {n \in Nat : n < Power[n]}
  <2>1. 0 \in T
    BY PowerFacts
  <2>2. ASSUME NEW n \in T PROVE n + 1 \in T
    BY PowerFacts
  <2>3. T = Nat
    BY <2>1, <2>2, Induction
  <2>4. QED
    BY <2>3
<1>2. ASSUME NEW m \in Nat, NEW n \in Nat, m <= n PROVE Power[m] <= Power[n]
  <2> DEFINE T == {d \in Nat : Power[m] <= Power[m + d]}
  <2>1. 0 \in T
    BY PowerFacts
  <2>2. ASSUME NEW d \in T PROVE d + 1 \in T
    <3>1. Power[m] \in Nat /\ Power[m + d] \in Nat /\ Power[m] <= Power[m + d]
      BY PowerFacts
    <3>2. Power[(m + d) + 1] = 2 * Power[m + d]
      BY PowerFacts
    <3>3. (m + d) + 1 = m + (d + 1)
      OBVIOUS
    <3>4. QED
      BY <3>1, <3>2, <3>3
  <2>3. T = Nat
    BY <2>1, <2>2, Induction
  <2>4. n - m \in Nat /\ m + (n - m) = n
    BY <1>2
  <2>5. QED
    BY <2>3, <2>4
<1>3. QED
  BY <1>1, <1>2

\* The power of a sum is the product of the powers.
LEMMA PowerSum ==
    ASSUME NEW a \in Nat, NEW b \in Nat
    PROVE  Power[a + b] = Power[a] * Power[b]
<1> DEFINE T == {n \in Nat : Power[a + n] = Power[a] * Power[n]}
<1>1. 0 \in T
  BY PowerFacts
<1>2. ASSUME NEW n \in T PROVE n + 1 \in T
  <2>1. PICK x \in Nat, y \in Nat : x = Power[a] /\ y = Power[n]
    BY PowerFacts
  <2>2. Power[(a + n) + 1] = 2 * (x * y) /\ Power[n + 1] = 2 * y
    BY <2>1, PowerFacts
  <2>3. 2 * (x * y) = x * (2 * y) /\ (a + n) + 1 = a + (n + 1)
    OBVIOUS
  <2>4. QED
    BY <2>1, <2>2, <2>3
<1>3. T = Nat
  BY <1>1, <1>2, Induction
<1>4. QED
  BY <1>3

-----------------------------------------------------------------------------
(* The conversion to float64                                               *)

\* Division with remainder.
LEMMA Division ==
    ASSUME NEW n \in Nat, NEW p \in Nat \ {0}
    PROVE  n \div p \in Nat /\ n % p \in 0 .. p - 1 /\ n = (n \div p) * p + (n % p)
  OBVIOUS

\* A multiple is divided without a remainder.
LEMMA ExactDivision ==
    ASSUME NEW c \in Nat, NEW p \in Nat \ {0}
    PROVE  (c * p) \div p = c /\ (c * p) % p = 0
<1>1. PICK q \in Nat, r \in 0 .. p - 1 :
         /\ q = (c * p) \div p /\ r = (c * p) % p
         /\ c * p = q * p + r
  BY Division, c * p \in Nat
<1>2. c = q
  <2>1. CASE c < q
    <3>1. PICK d \in Nat : q = c + 1 + d
      BY <2>1
    <3>2. q * p = c * p + p + d * p /\ d * p >= 0
      BY <3>1
    <3>3. QED
      BY <1>1, <3>2
  <2>2. CASE c > q
    <3>1. PICK d \in Nat : c = q + 1 + d
      BY <2>2
    <3>2. c * p = q * p + p + d * p /\ d * p >= 0
      BY <3>1
    <3>3. QED
      BY <1>1, <3>2
  <2>3. QED
    BY <2>1, <2>2
<1>3. QED
  BY <1>1, <1>2

\* Every number has an exponent.
LEMMA ExponentFacts ==
    ASSUME NEW n \in Nat
    PROVE  /\ Exponent(n) \in 0 .. n
           /\ n < Power[Mantissa + Exponent(n)]
           /\ Exponent(n) = 0 \/ n >= Power[Mantissa + Exponent(n) - 1]
<1>1. Mantissa \in Nat
  BY HistoryAssumption
<1> DEFINE T == {e \in Nat : n < Power[Mantissa + e]}
<1>2. n \in T
  <2>1. n < Power[n] /\ Power[n] <= Power[Mantissa + n]
    BY <1>1, PowerOrder
  <2>2. Power[n] \in Nat /\ Power[Mantissa + n] \in Nat
    BY <1>1, PowerFacts
  <2>3. QED
    BY <2>1, <2>2
<1>3. PICK e \in T : \A d \in T : e <= d
  BY <1>2, Least
<1>4. e \in 0 .. n /\ n < Power[Mantissa + e]
  BY <1>2, <1>3
<1>5. e = 0 \/ n >= Power[Mantissa + e - 1]
  <2> SUFFICES ASSUME e # 0, ~ (n >= Power[Mantissa + e - 1]) PROVE FALSE
    OBVIOUS
  <2>1. e - 1 \in Nat /\ Mantissa + (e - 1) = Mantissa + e - 1
    BY <1>1
  <2>2. Power[Mantissa + (e - 1)] \in Nat
    BY <1>1, <2>1, PowerFacts
  <2>3. e - 1 \in T
    BY <2>1, <2>2
  <2>4. QED
    BY <1>3, <2>3
<1>6. \E x \in 0 .. n : n < Power[Mantissa + x] /\ (x = 0 \/ n >= Power[Mantissa + x - 1])
  BY <1>4, <1>5
<1>7. QED
  BY <1>6 DEF Exponent

\* And no other.
LEMMA ExponentUnique ==
    ASSUME NEW n \in Nat, NEW e \in Nat, n < Power[Mantissa + e],
           e = 0 \/ n >= Power[Mantissa + e - 1]
    PROVE  Exponent(n) = e
<1>1. Mantissa \in Nat /\ Exponent(n) \in Nat
  BY HistoryAssumption, ExponentFacts
<1> DEFINE x == Exponent(n)
<1> HIDE DEF x
<1>2. x \in Nat /\ n < Power[Mantissa + x] /\ (x = 0 \/ n >= Power[Mantissa + x - 1])
  BY <1>1, ExponentFacts DEF x
<1>3. ASSUME NEW a \in Nat, NEW b \in Nat, a < b,
             n < Power[Mantissa + a], n >= Power[Mantissa + b - 1]
      PROVE  FALSE
  <2>1. Mantissa + a \in Nat /\ Mantissa + b - 1 \in Nat /\ Mantissa + a <= Mantissa + b - 1
    BY <1>1, <1>3
  <2>2. Power[Mantissa + a] <= Power[Mantissa + b - 1]
    BY <2>1, PowerOrder
  <2>3. Power[Mantissa + a] \in Nat /\ Power[Mantissa + b - 1] \in Nat
    BY <2>1, PowerFacts
  <2>4. QED
    BY <1>3, <2>2, <2>3
<1>4. ~ (x < e)
  BY <1>2, <1>3
<1>5. ~ (e < x)
  BY <1>2, <1>3
<1>6. QED
  BY <1>2, <1>4, <1>5 DEF x

\* The result is a multiple of the power of the exponent, at most twice n.
LEMMA NearestFacts ==
    ASSUME NEW n \in Nat
    PROVE  \E q \in Nat, c \in Nat, p \in Nat \ {0} :
             /\ p = Power[Exponent(n)] /\ Nearest(n) = c * p
             /\ q * p <= n /\ n < q * p + p
             /\ c \in {q, q + 1}
             /\ c = q + 1 => p <= 2 * (n - q * p)
             /\ n = q * p => c = q
<1>1. PICK p \in Nat \ {0} : p = Power[Exponent(n)]
  BY PowerFacts, ExponentFacts
<1>2. PICK q \in Nat, m \in 0 .. p - 1 :
         q = n \div p /\ m = n % p /\ n = q * p + m
  BY Division
<1> DEFINE c == IF 2 * m > p \/ (2 * m = p /\ q % 2 = 1) THEN q + 1 ELSE q
<1>3. Nearest(n) = c * p
  BY <1>1, <1>2 DEF Nearest
<1>4. c \in Nat /\ c \in {q, q + 1} /\ (c = q + 1 => p <= 2 * m) /\ (m = 0 => c = q)
  BY <1>2
<1> HIDE DEF c
<1>5. PICK k \in Nat : k = q * p
  OBVIOUS
<1>6. k <= n /\ n < k + p /\ m = n - k
  BY <1>2, <1>5
<1>7. /\ q * p <= n /\ n < q * p + p
      /\ c = q + 1 => p <= 2 * (n - q * p)
      /\ n = q * p => c = q
  BY <1>4, <1>5, <1>6
<1>8. QED
  BY <1>1, <1>3, <1>4, <1>7

\* Decoding doubles a number at most.
LEMMA NearestBound ==
    ASSUME NEW n \in Nat
    PROVE  Nearest(n) \in 0 .. 2 * n
<1>1. PICK q \in Nat, c \in Nat, p \in Nat \ {0} :
             /\ p = Power[Exponent(n)] /\ Nearest(n) = c * p
             /\ q * p <= n /\ n < q * p + p
             /\ c \in {q, q + 1}
             /\ c = q + 1 => p <= 2 * (n - q * p)
             /\ n = q * p => c = q
  BY NearestFacts
<1>2. PICK k \in Nat : k = q * p
  OBVIOUS
<1>3. CASE c = q
  BY <1>1, <1>2, <1>3
<1>4. CASE c = q + 1
  <2>1. Nearest(n) = k + p
    BY <1>1, <1>2, <1>4
  <2>2. k <= n /\ p <= 2 * (n - k)
    BY <1>1, <1>2, <1>4
  <2>3. q # 0 => p <= k
    <3> SUFFICES ASSUME q # 0 PROVE p <= k
      OBVIOUS
    <3>1. PICK d \in Nat : q = d + 1
      OBVIOUS
    <3>2. q * p = d * p + p /\ d * p \in Nat
      BY <3>1
    <3>3. QED
      BY <1>2, <3>2
  <2>4. q = 0 => k = 0
    BY <1>2
  <2>5. QED
    BY <2>1, <2>2, <2>3, <2>4
<1>5. QED
  BY <1>1, <1>3, <1>4

\* A number whose mantissa fits is decoded as it is.
LEMMA NearestExact ==
    ASSUME NEW n \in Nat, NEW c \in Nat, n = c * Power[Exponent(n)]
    PROVE  Nearest(n) = n
<1>1. PICK p \in Nat \ {0} : p = Power[Exponent(n)]
  BY PowerFacts, ExponentFacts
<1>2. n \div p = c /\ n % p = 0
  BY <1>1, ExactDivision
<1>3. Nearest(n) = c * p
  BY <1>1, <1>2 DEF Nearest
<1>4. QED
  BY <1>1, <1>3

\* Below 2^Mantissa every number is.
LEMMA SmallExact ==
    ASSUME NEW n \in Nat, n < Power[Mantissa]
    PROVE  Nearest(n) = n
<1>1. Exponent(n) = 0
  BY ExponentUnique, HistoryAssumption
<1>2. n = n * Power[Exponent(n)]
  BY <1>1, PowerFacts
<1>3. QED
  BY <1>2, NearestExact

\* What was decoded once is decoded as it is.
LEMMA NearestIdempotent ==
    ASSUME NEW n \in Nat
    PROVE  Nearest(Nearest(n)) = Nearest(n)
<1>1. PICK q \in Nat, c \in Nat, p \in Nat \ {0} :
             /\ p = Power[Exponent(n)] /\ Nearest(n) = c * p
             /\ q * p <= n /\ n < q * p + p
             /\ c \in {q, q + 1}
             /\ c = q + 1 => p <= 2 * (n - q * p)
             /\ n = q * p => c = q
  BY NearestFacts
<1>2. PICK M \in Nat, e \in Nat : M + 1 = Mantissa /\ e = Exponent(n)
  <2>1. Mantissa - 1 \in Nat /\ (Mantissa - 1) + 1 = Mantissa
    BY HistoryAssumption
  <2>2. Exponent(n) \in Nat
    BY ExponentFacts
  <2>3. QED
    BY <2>1, <2>2
<1>3. PICK N \in Nat : N = c * p
  OBVIOUS
<1>4. CASE e = 0
  <2>1. p = 1
    BY <1>1, <1>2, <1>4, PowerFacts
  <2>2. n = q
    BY <1>1, <2>1
  <2>3. Nearest(n) = n
    BY <1>1, <2>1, <2>2
  <2>4. QED
    BY <2>3
<1>5. CASE e # 0
  <2>1. PICK a \in Nat \ {0} : a = Power[M]
    BY PowerFacts
  <2>2. Power[Mantissa + e] = (2 * a) * p
    <3>1. Power[Mantissa] = 2 * a
      BY <1>2, <2>1, PowerFacts
    <3>2. Power[Mantissa + e] = Power[Mantissa] * Power[e]
      BY PowerSum, HistoryAssumption
    <3>3. QED
      BY <1>1, <1>2, <3>1, <3>2
  <2>3. Power[Mantissa + e - 1] = a * p
    <3>1. Mantissa + e - 1 = M + e
      BY <1>2
    <3>2. QED
      BY <1>1, <1>2, <2>1, <3>1, PowerSum
  <2>4. n < (2 * a) * p /\ a * p <= n
    BY <1>2, <1>5, <2>2, <2>3, ExponentFacts
  <2>5. a <= c /\ c <= 2 * a
    <3>1. ASSUME NEW x \in Nat, NEW y \in Nat, x * p < y * p PROVE x < y
      <4> SUFFICES ASSUME x >= y PROVE FALSE
        OBVIOUS
      <4>1. PICK d \in Nat : x = y + d
        OBVIOUS
      <4>2. x * p = y * p + d * p /\ d * p \in Nat
        BY <4>1
      <4>3. QED
        BY <3>1, <4>2
    <3>2. q * p < (2 * a) * p
      BY <1>1, <2>4
    <3>3. a * p < (q + 1) * p
      BY <1>1, <2>4
    <3>4. q < 2 * a /\ a < q + 1
      BY <3>1, <3>2, <3>3
    <3>5. QED
      BY <1>1, <3>4
  <2>6. CASE c # 2 * a
    <3>1. N < (2 * a) * p /\ a * p <= N
      <4>0. c - a \in Nat /\ 2 * a - c - 1 \in Nat
        BY <2>5, <2>6
      <4>1. PICK d \in Nat, f \in Nat : c = a + d /\ 2 * a = c + 1 + f
        <5>1. c = a + (c - a) /\ 2 * a = c + 1 + (2 * a - c - 1)
          BY <4>0
        <5>2. QED
          BY <4>0, <5>1
      <4>2. c * p = a * p + d * p /\ d * p \in Nat
        BY <4>1
      <4>3. (2 * a) * p = c * p + p + f * p /\ f * p \in Nat
        BY <4>1
      <4>4. QED
        BY <1>3, <4>2, <4>3
    <3>2. Exponent(N) = e
      BY <1>2, <2>2, <2>3, <3>1, ExponentUnique
    <3>3. N = c * Power[Exponent(N)]
      BY <1>1, <1>2, <1>3, <3>2
    <3>4. QED
      BY <1>1, <1>3, <3>3, NearestExact
  <2>7. CASE c = 2 * a
    <3>1. PICK P \in Nat \ {0} : P = Power[e + 1] /\ P = 2 * p
      BY <1>1, <1>2, PowerFacts
    <3>2. N = a * P
      BY <1>3, <2>7, <3>1
    <3>3. N = Power[Mantissa + e]
      BY <1>3, <2>2, <2>7
    <3>4. /\ Power[Mantissa + (e + 1)] = 2 * N /\ Mantissa + (e + 1) - 1 = Mantissa + e
          /\ N # 0
      <4>1. Mantissa + e \in Nat /\ (Mantissa + e) + 1 = Mantissa + (e + 1)
        BY <1>2
      <4>2. QED
        BY <3>3, <4>1, PowerFacts
    <3>5. N < Power[Mantissa + (e + 1)] /\ N >= Power[Mantissa + (e + 1) - 1]
      BY <3>3, <3>4
    <3>6. Exponent(N) = e + 1
      BY <3>5, ExponentUnique
    <3>7. N = a * Power[Exponent(N)]
      BY <3>1, <3>2, <3>6
    <3>8. QED
      BY <1>1, <1>3, <3>7, NearestExact
  <2>8. QED
    BY <2>6, <2>7
<1>6. QED
  BY <1>4, <1>5

\* What the readers use of the conversion.
LEMMA FloatFacts ==
    /\ \A n \in 0 .. MaxNumber : Float[n] \in 0 .. 2 * MaxNumber /\ Float[Float[n]] = Float[n]
    /\ \A n \in 0 .. 2 * MaxNumber : Float[n] \in Nat
    /\ \A n \in 0 .. MaxNumber : n < Power[Mantissa] => Float[n] = n
<1>1. MaxNumber \in Nat /\ \A n \in 0 .. 2 * MaxNumber : Float[n] = Nearest(n) /\ n \in Nat
  BY HistoryAssumption DEF Float
<1>2. ASSUME NEW n \in 0 .. MaxNumber
      PROVE  Float[n] \in 0 .. 2 * MaxNumber /\ Float[Float[n]] = Float[n]
  <2>1. n \in Nat /\ n <= MaxNumber /\ n \in 0 .. 2 * MaxNumber
    BY <1>1
  <2>2. Nearest(n) \in 0 .. 2 * n
    BY <2>1, NearestBound
  <2>3. Nearest(n) \in 0 .. 2 * MaxNumber
    BY <1>1, <2>1, <2>2
  <2>4. Float[n] = Nearest(n) /\ Float[Nearest(n)] = Nearest(Nearest(n))
    BY <1>1, <2>1, <2>3
  <2>5. QED
    BY <2>1, <2>3, <2>4, NearestIdempotent
<1>3. ASSUME NEW n \in 0 .. 2 * MaxNumber PROVE Float[n] \in Nat
  BY <1>1, NearestBound
<1>4. ASSUME NEW n \in 0 .. MaxNumber, n < Power[Mantissa] PROVE Float[n] = n
  <2>1. n \in Nat /\ n \in 0 .. 2 * MaxNumber
    BY <1>1
  <2>2. QED
    BY <1>1, <1>4, <2>1, SmallExact
<1>5. QED
  BY <1>2, <1>3, <1>4

-----------------------------------------------------------------------------
(* The merge of the snapshots                                              *)

\* What GetSCVariables may store, and what the loop may have in hand.
Stored == UNION {[K -> 0 .. 2 * MaxNumber] : K \in SUBSET (0 .. MaxNumber)}
Merged == UNION {[K -> SUBSET Nat] : K \in SUBSET Nat}

\* The values that snapshot s has for the decoded key k.
ValuesOf(s, k) == {Float[s[j]] : j \in {i \in DOMAIN s : Float[i] = k}}

\* One turn of the loop.
LEMMA MergeStep ==
    ASSUME NEW r \in Merged, NEW s \in Stored
    PROVE  /\ Merge(r, s) \in Merged
           /\ \A k : k \in DOMAIN Merge(r, s) <=> k \in DOMAIN r \/ ValuesOf(s, k) # {}
           /\ \A k \in DOMAIN Merge(r, s) :
                Merge(r, s)[k] = IF ValuesOf(s, k) # {} THEN ValuesOf(s, k) ELSE r[k]
<1>1. PICK K \in SUBSET Nat : r \in [K -> SUBSET Nat]
  BY DEF Merged
<1>2. PICK J \in SUBSET (0 .. MaxNumber) : s \in [J -> 0 .. 2 * MaxNumber]
  BY DEF Stored
<1> DEFINE D == K \cup {Float[i] : i \in J}
<1>3. Merge(r, s) = [k \in D |-> IF ValuesOf(s, k) # {} THEN ValuesOf(s, k) ELSE r[k]]
  BY <1>1, <1>2 DEF Merge, ValuesOf
<1>4. D \in SUBSET Nat
  BY <1>1, <1>2, FloatFacts
<1>5. ASSUME NEW k PROVE ValuesOf(s, k) \in SUBSET Nat
  BY <1>2, FloatFacts DEF ValuesOf
<1>6. ASSUME NEW k PROVE k \in {Float[i] : i \in J} <=> ValuesOf(s, k) # {}
  BY <1>2 DEF ValuesOf
<1>7. ASSUME NEW k \in D
      PROVE  (IF ValuesOf(s, k) # {} THEN ValuesOf(s, k) ELSE r[k]) \in SUBSET Nat
  <2>1. ValuesOf(s, k) = {} => k \in K
    BY <1>6
  <2>2. QED
    BY <1>1, <1>5, <2>1
<1> HIDE DEF D
<1>8. Merge(r, s) \in [D -> SUBSET Nat]
  BY <1>3, <1>7
<1>9. QED
  <2>1. Merge(r, s) \in Merged
    BY <1>4, <1>8 DEF Merged
  <2>2. \A k : k \in DOMAIN Merge(r, s) <=> k \in DOMAIN r \/ ValuesOf(s, k) # {}
    BY <1>1, <1>3, <1>6 DEF D
  <2>3. QED
    BY <1>3, <2>1, <2>2

\* The loop over the heights of hs runs, and what it has in hand after each.
LEMMA LoopRuns ==
    ASSUME NEW hs, \A h \in hs : snapshots[h] \in Stored
    PROVE  \E f \in [Nat -> Merged] :
             /\ f[0] = NoVariables
             /\ \A n \in Nat : f[n + 1] = IF n - 1 \in hs THEN Merge(f[n], snapshots[n - 1])
                                                           ELSE f[n]
             /\ MergeAscending(hs) = f[tip + 2]
<1> DEFINE Turn(n, v) == IF n - 1 \in hs THEN Merge(v, snapshots[n - 1]) ELSE v
           turn == [n \in Nat |-> [v \in Merged |-> Turn(n, v)]]
           Loop(f) == [n \in Nat |-> IF n = 0 THEN NoVariables
                                     ELSE IF n - 2 \in hs THEN Merge(f[n - 1], snapshots[n - 2])
                                     ELSE f[n - 1]]
           F == CHOOSE f : f = Loop(f)
<1>1. NoVariables \in Merged
  BY DEF NoVariables, Merged
<1>2. ASSUME NEW n \in Nat, NEW v \in Merged PROVE Turn(n, v) \in Merged
  BY MergeStep
<1>3. turn \in Steps(Merged)
  BY <1>2 DEF Steps
<1>4. PICK g \in Runs(Merged, NoVariables, turn) : TRUE
  <2> HIDE DEF turn
  <2>1. QED
    BY <1>1, <1>3, Recursion
<1>5. g \in [Nat -> Merged] /\ g[0] = NoVariables /\ \A n \in Nat : g[n + 1] = Turn(n, g[n])
  BY <1>4 DEF Runs
<1> HIDE DEF turn
<1>6. ASSUME NEW n \in Nat PROVE g[n] = Loop(g)[n]
  <2>1. CASE n = 0
    BY <1>5, <2>1
  <2>2. CASE n # 0
    <3>1. n - 1 \in Nat /\ (n - 1) + 1 = n /\ (n - 1) - 1 = n - 2
      BY <2>2
    <3>2. g[(n - 1) + 1] = Turn(n - 1, g[n - 1])
      BY <1>5, <3>1
    <3>3. QED
      BY <2>2, <3>1, <3>2
  <2>3. QED
    BY <2>1, <2>2
<1>7. g = Loop(g)
  BY <1>5, <1>6
<1>8. F = Loop(F)
  <2> HIDE DEF Loop
  <2>1. QED
    BY <1>7, Zenon
<1>9. MergeAscending(hs) = F[tip + 2]
  BY Zenon DEF MergeAscending
<1> HIDE DEF F
<1>10. F[0] = NoVariables
  BY <1>8
<1>11. ASSUME NEW n \in Nat PROVE F[n + 1] = Turn(n, F[n])
  <2>1. (n + 1) - 1 = n /\ (n + 1) - 2 = n - 1 /\ n + 1 # 0 /\ n + 1 \in Nat
    OBVIOUS
  <2>2. F[n + 1] = Loop(F)[n + 1]
    BY <1>8
  <2>3. QED
    BY <2>1, <2>2
<1> DEFINE T == {n \in Nat : F[n] \in Merged}
<1>12. T = Nat
  <2>1. 0 \in T
    BY <1>1, <1>10
  <2>2. ASSUME NEW n \in T PROVE n + 1 \in T
    <3> HIDE DEF Turn
    <3>1. QED
      BY <1>2, <1>11
  <2>3. QED
    BY <2>1, <2>2, Induction
<1>13. F \in [Nat -> Merged]
  <2>1. DOMAIN F = Nat /\ F = [n \in DOMAIN F |-> F[n]]
    BY <1>8
  <2> HIDE DEF Loop
  <2>2. QED
    BY <1>12, <2>1
<1>14. QED
  BY <1>9, <1>10, <1>11, <1>13

\* h is the last of the heights of hs whose snapshot has the decoded key k.
LastWith(h, hs, k) ==
    /\ h \in hs /\ ValuesOf(snapshots[h], k) # {}
    /\ \A g \in hs : g > h => ValuesOf(snapshots[g], k) = {}

\* The loop answers the decoded keys that some snapshot has, each with its
\* values in the last one that has it.
LEMMA MergeResult ==
    ASSUME NEW hs \in SUBSET (-1 .. tip), tip \in Nat,
           \A h \in hs : snapshots[h] \in Stored, NEW k
    PROVE  /\ (\E h \in hs : ValuesOf(snapshots[h], k) # {}) => k \in DOMAIN MergeAscending(hs)
           /\ k \in DOMAIN MergeAscending(hs) =>
                \E h \in hs : /\ LastWith(h, hs, k)
                             /\ MergeAscending(hs)[k] = ValuesOf(snapshots[h], k)
<1>1. PICK f \in [Nat -> Merged] :
             /\ f[0] = NoVariables
             /\ \A n \in Nat : f[n + 1] = IF n - 1 \in hs THEN Merge(f[n], snapshots[n - 1])
                                                           ELSE f[n]
             /\ MergeAscending(hs) = f[tip + 2]
  BY LoopRuns
<1>0. \A h \in hs : h \in Int /\ -1 <= h /\ h <= tip
  OBVIOUS
<1> DEFINE V(h) == ValuesOf(snapshots[h], k)
           Upto(n) == {h \in hs : h <= n - 2}
           P(n) == /\ (\E h \in Upto(n) : V(h) # {}) => k \in DOMAIN f[n]
                   /\ k \in DOMAIN f[n] =>
                        \E h \in Upto(n) : /\ V(h) # {} /\ f[n][k] = V(h)
                                           /\ \A g \in Upto(n) : g > h => V(g) = {}
           T == {n \in Nat : P(n)}
<1>2. 0 \in T
  <2>1. Upto(0) = {}
    <3> HIDE DEF P, T
    <3>1. \A h \in hs : ~ (h <= 0 - 2)
      BY <1>0
    <3>2. QED
      BY <3>1
  <2>2. k \notin DOMAIN f[0]
    BY <1>1 DEF NoVariables
  <2>3. QED
    BY <2>1, <2>2
<1>3. ASSUME NEW n \in T PROVE n + 1 \in T
  <2>1. P(n)
    OBVIOUS
  <2>2. n \in Nat /\ (n + 1) - 2 = n - 1
    OBVIOUS
  <2> HIDE DEF V
  <2>3. CASE n - 1 \notin hs
    <3>1. f[n + 1] = f[n]
      BY <1>1, <2>3
    <3> HIDE DEF P, T
    <3>2. Upto(n + 1) = Upto(n)
      <4>1. ASSUME NEW h \in hs PROVE h <= (n + 1) - 2 <=> h <= n - 2
        BY <1>0, <2>2, <2>3
      <4>2. QED
        BY <4>1
    <3> HIDE DEF Upto
    <3> USE DEF P, T
    <3>3. P(n + 1)
      BY <2>1, <3>1, <3>2
    <3>4. QED
      BY <3>3
  <2>4. CASE n - 1 \in hs
    <3>1. f[n] \in Merged /\ snapshots[n - 1] \in Stored
      BY <1>1, <2>4
    <3>2. f[n + 1] = Merge(f[n], snapshots[n - 1])
      BY <1>1, <2>4
    <3>3. /\ k \in DOMAIN f[n + 1] <=> k \in DOMAIN f[n] \/ V(n - 1) # {}
          /\ k \in DOMAIN f[n + 1] =>
               f[n + 1][k] = IF V(n - 1) # {} THEN V(n - 1) ELSE f[n][k]
      BY <3>1, <3>2, MergeStep DEF V
    <3> HIDE DEF P, T
    <3>4. Upto(n + 1) = Upto(n) \cup {n - 1}
      <4>1. ASSUME NEW h \in hs PROVE h <= (n + 1) - 2 <=> h <= n - 2 \/ h = n - 1
        BY <1>0, <2>2
      <4>2. n - 1 <= (n + 1) - 2
        BY <2>2
      <4>3. QED
        BY <2>4, <4>1, <4>2
    <3>5. \A h \in Upto(n) : h < n - 1 /\ h \in Int
      BY <1>0, <2>2
    <3> HIDE DEF Upto
    <3> USE DEF P, T
    <3>6. CASE V(n - 1) # {}
      <4>1. k \in DOMAIN f[n + 1] /\ f[n + 1][k] = V(n - 1)
        BY <3>3, <3>6
      <4>2. n - 1 \in Upto(n + 1) /\ \A g \in Upto(n + 1) : ~ (g > n - 1)
        BY <3>4, <3>5
      <4>3. P(n + 1)
        BY <3>6, <4>1, <4>2
      <4>4. QED
        BY <4>3
    <3>7. CASE V(n - 1) = {}
      <4>1. k \in DOMAIN f[n + 1] <=> k \in DOMAIN f[n]
        BY <3>3, <3>7
      <4>2. k \in DOMAIN f[n + 1] => f[n + 1][k] = f[n][k]
        BY <3>3, <3>7
      <4>3. (\E h \in Upto(n + 1) : V(h) # {}) => k \in DOMAIN f[n + 1]
        BY <2>1, <3>4, <3>7, <4>1
      <4>4. ASSUME k \in DOMAIN f[n + 1]
            PROVE  \E h \in Upto(n + 1) : /\ V(h) # {} /\ f[n + 1][k] = V(h)
                                          /\ \A g \in Upto(n + 1) : g > h => V(g) = {}
        <5>1. PICK h \in Upto(n) : /\ V(h) # {} /\ f[n][k] = V(h)
                                   /\ \A g \in Upto(n) : g > h => V(g) = {}
          BY <2>1, <4>1, <4>4
        <5>2. \A g \in Upto(n + 1) : g > h => V(g) = {}
          BY <3>4, <3>7, <5>1
        <5>3. QED
          BY <3>4, <4>2, <4>4, <5>1, <5>2
      <4>5. P(n + 1)
        BY <4>3, <4>4
      <4>6. QED
        BY <4>5
    <3>8. QED
      BY <3>6, <3>7
  <2>5. QED
    BY <2>3, <2>4
<1>4. T = Nat
  <2> HIDE DEF P
  <2>1. QED
    BY <1>2, <1>3, Induction
<1>5. P(tip + 2) /\ Upto(tip + 2) = hs
  <2>1. tip + 2 \in Nat /\ (tip + 2) - 2 = tip
    OBVIOUS
  <2> HIDE DEF P, T
  <2>2. Upto(tip + 2) = hs
    BY <1>0, <2>1
  <2> USE DEF T
  <2>3. QED
    BY <1>4, <2>1, <2>2
<1> HIDE DEF Upto
<1>6. QED
  BY <1>1, <1>5 DEF LastWith

-----------------------------------------------------------------------------
(* The invariant                                                           *)

ChainType ==
    /\ tip \in InstallHeight .. MaxHeight
    /\ DOMAIN chain = 0 .. tip
    /\ \A h \in 0 .. tip : chain[h] \in States \cup {NoVariables}
    /\ \A h \in InstallHeight .. tip : chain[h] \in States
    /\ invoked \subseteq InstallHeight + 1 .. tip
    /\ heights \subseteq invoked /\ fast \in BOOLEAN

\* The variables change with the calls only.
CallsInv ==
    \A i, j \in InstallHeight .. tip :
        i <= j /\ (\A m \in invoked : ~ (i < m /\ m <= j)) => chain[i] = chain[j]

\* A snapshot has the variables of the height it is stored under, those of a
\* later one only with --fastsync or as a deposit.
SnapshotInv ==
    /\ DOMAIN snapshots \subseteq {-1, InstallHeight} \cup invoked
    /\ \A h \in DOMAIN snapshots :
         \E i \in InstallHeight .. tip :
             /\ h <= i /\ snapshots[h] = GetSCVariables(chain[i])
             /\ ~ fast /\ h # -1 => i = h

IndInv == ChainType /\ CallsInv /\ SnapshotInv

\* What a contract's state is stored as.
LEMMA StateFacts ==
    ASSUME NEW s \in States
    PROVE  \E K \in SUBSET Keys :
             /\ K # {} /\ K \subseteq 0 .. MaxNumber /\ s \in [K -> Values]
             /\ s \in [K -> 0 .. MaxNumber]
             /\ GetSCVariables(s) \in [K -> 0 .. 2 * MaxNumber]
             /\ \A k \in K : GetSCVariables(s)[k] = Float[s[k]]
<1>1. PICK K \in SUBSET Keys : s \in [K -> Values] /\ s # NoVariables
  <2>1. s \in UNION {[K -> Values] : K \in SUBSET Keys} /\ s # NoVariables
    BY DEF States
  <2>2. QED
    BY <2>1
<1>2. K # {}
  <2> SUFFICES ASSUME K = {} PROVE FALSE
    OBVIOUS
  <2>1. s = [k \in {} |-> 0]
    BY <1>1
  <2>2. QED
    BY <1>1, <2>1 DEF NoVariables
<1>3. K \subseteq 0 .. MaxNumber /\ s \in [K -> 0 .. MaxNumber]
  BY <1>1, HistoryAssumption
<1>4. GetSCVariables(s) = [k \in K |-> Float[s[k]]]
  BY <1>1 DEF GetSCVariables
<1>5. ASSUME NEW k \in K PROVE Float[s[k]] \in 0 .. 2 * MaxNumber
  BY <1>3, FloatFacts
<1>6. QED
  BY <1>1, <1>2, <1>3, <1>4, <1>5

\* It holds when the contract was installed.
LEMMA InitIndInv == Init => IndInv
<1> SUFFICES ASSUME Init PROVE IndInv
  OBVIOUS
<1> USE HistoryAssumption DEF Init
<1>1. PICK s \in States : chain = [h \in 0 .. tip |-> IF h = tip THEN s ELSE NoVariables]
  OBVIOUS
<1>2. ChainType
  <2>1. tip \in Nat /\ InstallHeight = tip /\ tip <= MaxHeight
    OBVIOUS
  <2>2. \A h \in 0 .. tip : chain[h] \in States \cup {NoVariables}
    BY <1>1
  <2>3. \A h \in InstallHeight .. tip : chain[h] \in States
    BY <1>1, <2>1
  <2>4. DOMAIN chain = 0 .. tip
    BY <1>1
  <2>5. tip \in InstallHeight .. MaxHeight
    BY <2>1
  <2>6. invoked \subseteq InstallHeight + 1 .. tip /\ heights \subseteq invoked /\ fast \in BOOLEAN
    OBVIOUS
  <2>7. QED
    BY <2>2, <2>3, <2>4, <2>5, <2>6, Zenon DEF ChainType
<1>3. CallsInv
  BY <1>1 DEF CallsInv
<1>4. SnapshotInv
  BY DEF SnapshotInv
<1>5. QED
  BY <1>2, <1>3, <1>4 DEF IndInv

\* A block is added: with a call the state may change.
LEMMA BlockStep ==
    ASSUME IndInv, NEW s \in States, tip < MaxHeight, tip' = tip + 1,
           chain' = [h \in 0 .. tip' |-> IF h = tip' THEN s ELSE chain[h]],
           \/ invoked' = invoked /\ s = chain[tip]
           \/ invoked' = invoked \cup {tip'},
           UNCHANGED <<snapshots, heights, fast>>
    PROVE  IndInv'
<1> USE HistoryAssumption
<1>0. /\ tip \in Nat /\ InstallHeight \in Nat /\ InstallHeight <= tip /\ tip' \in Nat
      /\ invoked \subseteq InstallHeight + 1 .. tip
  BY DEF IndInv, ChainType
<1>1. /\ \A h \in 0 .. tip : h \in 0 .. tip' /\ h # tip' /\ chain'[h] = chain[h]
      /\ chain'[tip'] = s
  BY <1>0
<1>2. ChainType'
  <2>1. \A h \in 0 .. tip' : h \in 0 .. tip \/ h = tip'
    BY <1>0
  <2>2. \A h \in 0 .. tip' : chain'[h] \in States \cup {NoVariables}
    BY <1>1, <2>1 DEF IndInv, ChainType
  <2>3. ASSUME NEW h \in InstallHeight .. tip' PROVE chain'[h] \in States
    <3>1. CASE h = tip'
      BY <1>1, <3>1
    <3>2. CASE h # tip'
      <4>1. h \in InstallHeight .. tip /\ h \in 0 .. tip
        BY <1>0, <3>2
      <4>2. QED
        BY <1>1, <4>1 DEF IndInv, ChainType
    <3>3. QED
      BY <3>1, <3>2
  <2>4. tip' \in InstallHeight .. MaxHeight
    BY <1>0
  <2>5. ASSUME NEW m \in invoked' PROVE m \in InstallHeight + 1 .. tip'
    <3>1. m \in invoked \/ m = tip'
      OBVIOUS
    <3>2. m \in InstallHeight + 1 .. tip \/ m = tip'
      BY <1>0, <3>1
    <3>3. QED
      BY <1>0, <3>2
  <2>6. DOMAIN chain' = 0 .. tip'
    OBVIOUS
  <2>7. heights' \subseteq invoked' /\ fast' \in BOOLEAN
    BY DEF IndInv, ChainType
  <2>8. QED
    BY <2>2, <2>3, <2>4, <2>5, <2>6, <2>7 DEF ChainType
<1>3. CallsInv'
  <2> SUFFICES ASSUME NEW i \in InstallHeight .. tip', NEW j \in InstallHeight .. tip', i <= j,
                      \A m \in invoked' : ~ (i < m /\ m <= j)
               PROVE  chain'[i] = chain'[j]
    BY DEF CallsInv
  <2>1. CASE j # tip'
    <3>1. i \in InstallHeight .. tip /\ j \in InstallHeight .. tip
      BY <1>0, <2>1
    <3>2. \A m \in invoked : ~ (i < m /\ m <= j)
      OBVIOUS
    <3>3. chain[i] = chain[j]
      BY <3>1, <3>2 DEF IndInv, CallsInv
    <3>4. i \in 0 .. tip /\ j \in 0 .. tip
      BY <1>0, <3>1
    <3>5. QED
      BY <1>1, <3>3, <3>4
  <2>2. CASE i = tip'
    BY <1>0, <2>2
  <2>3. CASE j = tip' /\ i # tip'
    <3>1. i \in InstallHeight .. tip /\ tip \in InstallHeight .. tip /\ i \in 0 .. tip
      BY <1>0, <2>3
    <3>2. i < tip' /\ tip' <= j
      BY <1>0, <2>3
    <3>3. invoked' = invoked /\ s = chain[tip]
      BY <3>2
    <3>4. \A m \in invoked : ~ (i < m /\ m <= tip)
      BY <1>0, <2>3, <3>3
    <3>5. chain[i] = chain[tip]
      BY <1>0, <3>1, <3>4 DEF IndInv, CallsInv
    <3>6. QED
      BY <1>1, <2>3, <3>1, <3>3, <3>5
  <2>4. QED
    BY <2>1, <2>2, <2>3
<1>4. SnapshotInv'
  <2>1. DOMAIN snapshots' \subseteq {-1, InstallHeight} \cup invoked'
    BY DEF IndInv, SnapshotInv
  <2>2. ASSUME NEW h \in DOMAIN snapshots'
        PROVE  \E i \in InstallHeight .. tip' :
                 /\ h <= i /\ snapshots'[h] = GetSCVariables(chain'[i])
                 /\ ~ fast' /\ h # -1 => i = h
    <3>1. PICK i \in InstallHeight .. tip :
                 /\ h <= i /\ snapshots[h] = GetSCVariables(chain[i])
                 /\ ~ fast /\ h # -1 => i = h
      BY DEF IndInv, SnapshotInv
    <3>2. i \in InstallHeight .. tip' /\ chain'[i] = chain[i]
      BY <1>0, <1>1, <3>1
    <3>3. QED
      BY <3>1, <3>2
  <2>3. QED
    BY <2>1, <2>2 DEF SnapshotInv, GetSCVariables
<1>5. QED
  BY <1>2, <1>3, <1>4 DEF IndInv

\* A snapshot of height i is stored under height h.
LEMMA PutStep ==
    ASSUME IndInv, UNCHANGED <<chain, tip, invoked>>,
           NEW h \in {-1, InstallHeight} \cup invoked, NEW i \in InstallHeight .. tip, h <= i,
           snapshots' = Put(snapshots, h, GetSCVariables(chain[i])),
           heights' \subseteq invoked, fast' \in BOOLEAN, fast => fast',
           ~ fast' /\ h # -1 => i = h
    PROVE  IndInv'
<1>1. ChainType' /\ CallsInv'
  BY DEF IndInv, ChainType, CallsInv
<1>2. /\ DOMAIN snapshots' = DOMAIN snapshots \cup {h}
      /\ snapshots'[h] = GetSCVariables(chain[i])
      /\ \A g \in DOMAIN snapshots : g # h => snapshots'[g] = snapshots[g]
  BY DEF Put
<1>3. SnapshotInv'
  <2>1. DOMAIN snapshots' \subseteq {-1, InstallHeight} \cup invoked'
    BY <1>2 DEF IndInv, SnapshotInv
  <2>2. ASSUME NEW g \in DOMAIN snapshots'
        PROVE  \E j \in InstallHeight .. tip :
                 /\ g <= j /\ snapshots'[g] = GetSCVariables(chain[j])
                 /\ ~ fast' /\ g # -1 => j = g
    <3>1. CASE g = h
      BY <1>2, <3>1
    <3>2. CASE g # h
      BY <1>2, <3>2 DEF IndInv, SnapshotInv
    <3>3. QED
      BY <3>1, <3>2
  <2>3. QED
    BY <2>1, <2>2 DEF SnapshotInv, GetSCVariables
<1>4. QED
  BY <1>1, <1>3 DEF IndInv

\* Every step keeps the invariant.
LEMMA NextIndInv == IndInv /\ [Next]_vars => IndInv'
<1> SUFFICES ASSUME IndInv, [Next]_vars PROVE IndInv'
  OBVIOUS
<1>0. /\ tip \in Nat /\ InstallHeight \in Nat /\ InstallHeight <= tip
      /\ tip \in InstallHeight .. tip /\ InstallHeight \in InstallHeight .. tip
      /\ -1 <= tip /\ Flags \subseteq BOOLEAN
  BY HistoryAssumption DEF IndInv, ChainType
<1>1. CASE OtherBlock
  <2>1. chain[tip] \in States
    BY <1>0 DEF IndInv, ChainType
  <2>2. QED
    BY <1>1, <2>1, BlockStep DEF OtherBlock
<1>2. ASSUME NEW s \in States, InvokeBlock(s) PROVE IndInv'
  BY <1>2, BlockStep DEF InvokeBlock
<1>3. ASSUME NEW flag \in Flags, IndexInstall(flag) PROVE IndInv'
  <2>1. PICK i \in InstallHeight .. tip : i = IF flag THEN tip ELSE InstallHeight
    BY <1>0
  <2>2. snapshots' = Put(snapshots, InstallHeight, GetSCVariables(chain[i]))
    BY <1>3, <2>1 DEF IndexInstall, Asked
  <2>3. /\ heights' \subseteq invoked /\ fast' \in BOOLEAN /\ (fast => fast')
        /\ (~ fast' => ~ flag) /\ UNCHANGED <<chain, tip, invoked>>
    BY <1>3 DEF IndexInstall, IndInv, ChainType
  <2>4. InstallHeight <= i /\ (~ flag => i = InstallHeight)
    BY <1>0, <2>1
  <2>5. QED
    BY <2>2, <2>3, <2>4, PutStep
<1>4. ASSUME NEW flag \in Flags, NEW h \in invoked, IndexInvoke(h, flag) PROVE IndInv'
  <2>1. h \in InstallHeight .. tip
    BY <1>0 DEF IndInv, ChainType
  <2>2. PICK i \in InstallHeight .. tip : i = IF flag THEN tip ELSE h
    BY <1>0, <2>1
  <2>3. snapshots' = Put(snapshots, h, GetSCVariables(chain[i]))
    BY <1>4, <2>2 DEF IndexInvoke, Asked
  <2>4. /\ heights' \subseteq invoked /\ fast' \in BOOLEAN /\ (fast => fast')
        /\ (~ fast' => ~ flag) /\ UNCHANGED <<chain, tip, invoked>>
    BY <1>4 DEF IndexInvoke, IndInv, ChainType
  <2>5. h <= i /\ (~ flag => i = h)
    BY <1>0, <2>1, <2>2
  <2>6. QED
    BY <2>3, <2>4, <2>5, PutStep
<1>5. CASE DepositLatest
  <2>1. snapshots' = Put(snapshots, -1, GetSCVariables(chain[tip]))
    BY <1>5 DEF DepositLatest
  <2>2. /\ heights' \subseteq invoked /\ fast' \in BOOLEAN /\ (fast => fast')
        /\ UNCHANGED <<chain, tip, invoked>>
    BY <1>5 DEF DepositLatest, IndInv, ChainType
  <2>3. QED
    BY <1>0, <2>1, <2>2, PutStep
<1>6. CASE UNCHANGED vars
  BY <1>6 DEF vars, IndInv, ChainType, CallsInv, SnapshotInv, GetSCVariables
<1>7. QED
  BY <1>1, <1>2, <1>3, <1>4, <1>5, <1>6 DEF Next

\* The invariant holds throughout.
THEOREM Invariance == Spec => []IndInv
  BY InitIndInv, NextIndInv, PTL DEF Spec

-----------------------------------------------------------------------------
(* What the readers answer                                                 *)

\* The loop may have every snapshot.
LEMMA StoredFacts ==
    ASSUME IndInv
    PROVE  /\ tip \in Nat /\ InstallHeight \in Nat /\ InstallHeight <= tip
           /\ DOMAIN snapshots \subseteq -1 .. tip
           /\ \A h \in DOMAIN snapshots : snapshots[h] \in Stored
<1>1. tip \in Nat /\ InstallHeight \in Nat /\ InstallHeight <= tip
  BY HistoryAssumption DEF IndInv, ChainType
<1>2. ASSUME NEW h \in DOMAIN snapshots PROVE h \in -1 .. tip /\ snapshots[h] \in Stored
  <2>1. h = -1 \/ h = InstallHeight \/ h \in InstallHeight + 1 .. tip
    BY DEF IndInv, SnapshotInv, ChainType
  <2>2. PICK i \in InstallHeight .. tip : snapshots[h] = GetSCVariables(chain[i])
    BY DEF IndInv, SnapshotInv
  <2>3. PICK K \in SUBSET Keys : /\ K \subseteq 0 .. MaxNumber
                                 /\ GetSCVariables(chain[i]) \in [K -> 0 .. 2 * MaxNumber]
    BY StateFacts DEF IndInv, ChainType
  <2>4. GetSCVariables(chain[i]) \in Stored
    BY <2>3 DEF Stored
  <2>5. QED
    BY <1>1, <2>1, <2>2, <2>4
<1>3. QED
  BY <1>1, <1>2

\* What a snapshot has for the key of a variable.
LEMMA ValuesFacts ==
    ASSUME NEW s \in States, NEW k
    PROVE  /\ \A v \in ValuesOf(GetSCVariables(s), k) :
                \E j \in DOMAIN s : Float[j] = k /\ Float[s[j]] = v
           /\ \A j \in DOMAIN s : k = Float[j] /\ Sole(j, s) =>
                ValuesOf(GetSCVariables(s), k) = {Float[s[j]]}
<1>1. PICK K \in SUBSET Keys :
             /\ K # {} /\ K \subseteq 0 .. MaxNumber /\ s \in [K -> Values]
             /\ s \in [K -> 0 .. MaxNumber]
             /\ GetSCVariables(s) \in [K -> 0 .. 2 * MaxNumber]
             /\ \A j \in K : GetSCVariables(s)[j] = Float[s[j]]
  BY StateFacts
<1>2. \A j \in K : Float[GetSCVariables(s)[j]] = Float[s[j]]
  BY <1>1, FloatFacts
<1>3. ValuesOf(GetSCVariables(s), k) = {Float[s[j]] : j \in {i \in K : Float[i] = k}}
  <2>1. PICK G : G = GetSCVariables(s)
    OBVIOUS
  <2>2. DOMAIN G = K /\ \A j \in K : Float[G[j]] = Float[s[j]]
    BY <1>1, <1>2, <2>1
  <2>3. {Float[G[j]] : j \in {i \in K : Float[i] = k}}
         = {Float[s[j]] : j \in {i \in K : Float[i] = k}}
    BY <2>2
  <2>4. ValuesOf(G, k) = {Float[G[j]] : j \in {i \in K : Float[i] = k}}
    BY <2>2, Zenon DEF ValuesOf
  <2>5. QED
    BY <2>1, <2>3, <2>4
<1>4. DOMAIN s = K
  BY <1>1
<1>5. ASSUME NEW j \in K, k = Float[j], Sole(j, s)
      PROVE  {Float[s[x]] : x \in {i \in K : Float[i] = k}} = {Float[s[j]]}
  <2>1. {i \in K : Float[i] = k} = {j}
    BY <1>4, <1>5 DEF Sole
  <2>2. QED
    BY <2>1
<1>6. QED
  BY <1>3, <1>4, <1>5

\* If the last of the snapshots that are merged is of the state at height i,
\* then a variable of that state is answered with its value there.
LEMMA LastSnapshotWins ==
    ASSUME IndInv, NEW hs \in SUBSET DOMAIN snapshots, NEW m \in hs, \A g \in hs : g <= m,
           NEW i \in InstallHeight .. tip, snapshots[m] = GetSCVariables(chain[i]),
           NEW k \in DOMAIN chain[i], Sole(k, chain[i])
    PROVE  /\ Float[k] \in DOMAIN MergeAscending(hs)
           /\ MergeAscending(hs)[Float[k]] = {Float[chain[i][k]]}
<1>1. /\ tip \in Nat /\ hs \in SUBSET (-1 .. tip)
      /\ \A h \in hs : snapshots[h] \in Stored
  BY StoredFacts
<1>2. chain[i] \in States
  BY DEF IndInv, ChainType
<1>3. ValuesOf(snapshots[m], Float[k]) = {Float[chain[i][k]]}
  BY <1>2, ValuesFacts
<1>4. Float[k] \in DOMAIN MergeAscending(hs)
  BY <1>1, <1>3, MergeResult
<1>5. PICK h \in hs : /\ LastWith(h, hs, Float[k])
                      /\ MergeAscending(hs)[Float[k]] = ValuesOf(snapshots[h], Float[k])
  BY <1>1, <1>4, MergeResult
<1>6. ~ (m > h)
  BY <1>3, <1>5 DEF LastWith
<1>7. h = m
  <2>1. h \in Int /\ m \in Int /\ h <= m
    BY <1>1
  <2>2. QED
    BY <1>6, <2>1
<1>8. QED
  BY <1>3, <1>4, <1>5, <1>7

\* The last event of the contract up to height t: from there to t the state is
\* the same, and no snapshot between them comes in between.
LEMMA LastEvent ==
    ASSUME IndInv, NEW t \in InstallHeight .. tip
    PROVE  \E m \in {InstallHeight} \cup {i \in invoked : i <= t} :
             /\ m \in InstallHeight .. t
             /\ \A i \in {InstallHeight} \cup {j \in invoked : j <= t} : i <= m
             /\ \A i \in m .. t : chain[i] = chain[t]
             /\ \A g \in DOMAIN snapshots : g <= t => g <= m
<1> DEFINE S == {InstallHeight} \cup {i \in invoked : i <= t}
<1>1. /\ t \in Nat /\ InstallHeight \in Nat /\ tip \in Nat /\ InstallHeight <= t /\ t <= tip
      /\ invoked \subseteq InstallHeight + 1 .. tip
  BY StoredFacts DEF IndInv, ChainType
<1>2. \A x \in S : x \in Nat /\ InstallHeight <= x /\ x <= t
  BY <1>1
<1>3. S \in SUBSET (0 .. t) /\ S # {}
  <2>1. InstallHeight \in S
    OBVIOUS
  <2> HIDE DEF S
  <2>2. \A x \in S : x \in 0 .. t
    BY <1>1, <1>2
  <2>3. QED
    BY <2>1, <2>2
<1> HIDE DEF S
<1>4. PICK m \in S : \A x \in S : x <= m
  BY <1>1, <1>3, HighestFacts
<1>5. m \in InstallHeight .. t /\ m \in Nat
  BY <1>1, <1>2
<1>6. ASSUME NEW i \in m .. t PROVE chain[i] = chain[t]
  <2>1. i \in InstallHeight .. tip /\ t \in InstallHeight .. tip /\ i <= t
    BY <1>1, <1>5
  <2>2. ASSUME NEW x \in invoked, i < x, x <= t PROVE FALSE
    <3>1. x \in S
      BY <2>2 DEF S
    <3>2. x <= m /\ x \in Nat
      BY <1>2, <1>4, <3>1
    <3>3. QED
      BY <1>5, <2>2, <3>2
  <2>3. QED
    BY <2>1, <2>2 DEF IndInv, CallsInv
<1>7. ASSUME NEW g \in DOMAIN snapshots, g <= t PROVE g <= m
  <2>1. g = -1 \/ g \in S
    BY <1>7 DEF IndInv, SnapshotInv, S
  <2>2. CASE g = -1
    BY <1>5, <2>2
  <2>3. CASE g \in S
    BY <1>4, <2>3
  <2>4. QED
    BY <2>1, <2>2, <2>3
<1>8. QED
  BY <1>4, <1>5, <1>6, <1>7 DEF S

-----------------------------------------------------------------------------
(* The theorems                                                            *)

\* The buckets keep their types: a snapshot is never empty and is stored under
\* -1 or a height of the contract only.
THEOREM TypeCorrect == Spec => []TypeOK
<1>1. IndInv => TypeOK
  <2> SUFFICES ASSUME IndInv PROVE TypeOK
    OBVIOUS
  <2>1. ASSUME NEW h \in DOMAIN snapshots
        PROVE  \E K \in (SUBSET Keys) \ {{}} : snapshots[h] \in [K -> Nat]
    <3>1. PICK i \in InstallHeight .. tip : snapshots[h] = GetSCVariables(chain[i])
      BY DEF IndInv, SnapshotInv
    <3>2. PICK K \in SUBSET Keys :
                 K # {} /\ GetSCVariables(chain[i]) \in [K -> 0 .. 2 * MaxNumber]
      BY StateFacts DEF IndInv, ChainType
    <3>3. GetSCVariables(chain[i]) \in [K -> Nat]
      BY <3>2
    <3>4. QED
      BY <3>1, <3>2, <3>3
  <2>2. ASSUME NEW h \in DOMAIN snapshots PROVE h \in {-1} \cup InstallHeight .. tip
    BY StoredFacts DEF IndInv, SnapshotInv, ChainType
  <2>3. QED
    BY <2>1, <2>2 DEF IndInv, ChainType, TypeOK
<1>2. QED
  BY <1>1, Invariance, PTL

\* NoFutureValues for every chain and every order of indexing.
THEOREM NoFutureValuesHolds == Spec => []NoFutureValues
<1>1. IndInv => NoFutureValues
  <2> SUFFICES ASSUME IndInv, -1 \notin DOMAIN snapshots, ~ fast, NEW h \in 0 .. tip,
                      NEW k \in DOMAIN GetSCIDVariableDetailsAtTopoheight(h),
                      NEW v \in GetSCIDVariableDetailsAtTopoheight(h)[k]
               PROVE  \E i \in 0 .. h : \E j \in DOMAIN chain[i] :
                         Float[j] = k /\ Float[chain[i][j]] = v
    BY DEF NoFutureValues
  <2> DEFINE hs == {g \in DOMAIN snapshots : g <= h}
  <2>1. /\ tip \in Nat /\ InstallHeight \in Nat
        /\ hs \in SUBSET (-1 .. tip) /\ \A g \in hs : snapshots[g] \in Stored
    BY StoredFacts
  <2>2. GetSCIDVariableDetailsAtTopoheight(h) = MergeAscending(hs)
    BY DEF GetSCIDVariableDetailsAtTopoheight
  <2>3. PICK g \in hs : MergeAscending(hs)[k] = ValuesOf(snapshots[g], k)
    <3> HIDE DEF hs
    <3>1. QED
      BY <2>1, <2>2, MergeResult
  <2>4. g \in DOMAIN snapshots /\ g <= h /\ g # -1
    BY <2>3
  <2>5. g \in InstallHeight .. tip /\ snapshots[g] = GetSCVariables(chain[g])
    BY <2>4 DEF IndInv, SnapshotInv
  <2>6. chain[g] \in States
    BY <2>5 DEF IndInv, ChainType
  <2>7. PICK j \in DOMAIN chain[g] : Float[j] = k /\ Float[chain[g][j]] = v
    BY <2>2, <2>3, <2>5, <2>6, ValuesFacts
  <2>8. g \in 0 .. h
    BY <2>1, <2>4, <2>5
  <2>9. QED
    BY <2>7, <2>8
<1>2. QED
  BY <1>1, Invariance, PTL

\* ExistingVariablesExact for every chain and every order of indexing.
THEOREM ExistingVariablesExactHolds == Spec => []ExistingVariablesExact
<1>1. IndInv => ExistingVariablesExact
  <2> SUFFICES ASSUME IndInv, NEW h \in InstallHeight .. tip, ~ fast, IndexedUpTo(h),
                      NEW k \in DOMAIN chain[h], Sole(k, chain[h])
               PROVE  /\ Float[k] \in DOMAIN GetSCIDVariableDetailsAtTopoheight(h)
                      /\ GetSCIDVariableDetailsAtTopoheight(h)[Float[k]] = {Float[chain[h][k]]}
    BY DEF ExistingVariablesExact
  <2> DEFINE hs == {g \in DOMAIN snapshots : g <= h}
  <2>1. PICK m \in {InstallHeight} \cup {i \in invoked : i <= h} :
             /\ m \in InstallHeight .. h
             /\ \A i \in m .. h : chain[i] = chain[h]
             /\ \A g \in DOMAIN snapshots : g <= h => g <= m
    BY LastEvent
  <2>2. InstallHeight \in Nat /\ tip \in Nat
    BY StoredFacts
  <2>3. m \in DOMAIN snapshots /\ m <= h /\ m # -1 /\ m \in m .. h
    BY <2>1, <2>2 DEF IndexedUpTo
  <2>4. snapshots[m] = GetSCVariables(chain[m])
    BY <2>3 DEF IndInv, SnapshotInv
  <2>5. chain[m] = chain[h]
    BY <2>1, <2>3
  <2>6. hs \in SUBSET DOMAIN snapshots /\ m \in hs /\ \A g \in hs : g <= m
    BY <2>1, <2>3
  <2>7. GetSCIDVariableDetailsAtTopoheight(h) = MergeAscending(hs)
    BY DEF GetSCIDVariableDetailsAtTopoheight
  <2> HIDE DEF hs
  <2>8. QED
    BY <2>4, <2>5, <2>6, <2>7, LastSnapshotWins
<1>2. QED
  BY <1>1, Invariance, PTL

\* NewestQueryExact for every chain and every order of indexing, with and
\* without --fastsync.
THEOREM NewestQueryExactHolds == Spec => []NewestQueryExact
<1>1. IndInv => NewestQueryExact
  <2> SUFFICES ASSUME IndInv, IndexedUpTo(tip), heights = invoked, invoked # {},
                      NEW k \in DOMAIN chain[tip], NEW h \in {-1, tip + 1},
                      k < Power[Mantissa], chain[tip][k] < Power[Mantissa], Sole(k, chain[tip])
               PROVE  /\ GetSCIDValuesByKey(k, h) = {chain[tip][k]}
                      /\ k \in GetSCIDKeysByValue(chain[tip][k], h)
                      /\ GetAllSCIDVariableDetails[k] = {chain[tip][k]}
    BY DEF NewestQueryExact
  <2>1. /\ InstallHeight \in Nat /\ tip \in Nat /\ tip \in InstallHeight .. tip
        /\ DOMAIN snapshots \subseteq -1 .. tip
        /\ invoked \subseteq InstallHeight + 1 .. tip
    BY StoredFacts DEF IndInv, ChainType
  <2>2. PICK m \in {InstallHeight} \cup {i \in invoked : i <= tip} :
             /\ m \in InstallHeight .. tip
             /\ \A i \in {InstallHeight} \cup {j \in invoked : j <= tip} : i <= m
             /\ \A i \in m .. tip : chain[i] = chain[tip]
             /\ \A g \in DOMAIN snapshots : g <= tip => g <= m
    BY <2>1, LastEvent
  <2>3. m \in invoked /\ \A i \in invoked : i <= m
    <3>1. \A i \in invoked : i <= tip /\ i \in Nat /\ i > InstallHeight
      BY <2>1
    <3>2. \A i \in invoked : i <= m
      BY <2>2, <3>1
    <3>3. m # InstallHeight
      <4>1. PICK i \in invoked : i <= m /\ i \in Nat /\ i > InstallHeight
        BY <3>1, <3>2
      <4>2. QED
        BY <2>1, <4>1
    <3>4. QED
      BY <2>2, <3>2, <3>3
  <2>4. Highest(heights) = m
    <3>1. invoked \in SUBSET (0 .. tip)
      BY <2>1
    <3>2. Highest(invoked) \in invoked /\ \A x \in invoked : x <= Highest(invoked)
      BY <2>1, <3>1, HighestFacts
    <3>3. Highest(invoked) <= m /\ m <= Highest(invoked)
      BY <2>3, <3>2
    <3>4. Highest(invoked) \in Int /\ m \in Int
      <4>1. \A x \in invoked : x \in Int
        BY <3>1
      <4>2. QED
        BY <2>3, <3>2, <4>1
    <3>5. QED
      BY <3>3, <3>4
  <2>5. GetInteractionIndex(h) = m
    <3>1. h > m \/ h < 0
      BY <2>1, <2>2
    <3>2. QED
      BY <2>3, <2>4, <3>1 DEF GetInteractionIndex
  <2>6. PICK i \in InstallHeight .. tip : m <= i /\ snapshots[m] = GetSCVariables(chain[i])
    BY <2>1, <2>2 DEF IndInv, SnapshotInv, IndexedUpTo
  <2>7. snapshots[m] = GetSCVariables(chain[tip]) /\ m \in DOMAIN snapshots
    <3>1. i \in m .. tip
      BY <2>1, <2>2, <2>6
    <3>2. QED
      BY <2>2, <2>6, <3>1 DEF IndexedUpTo
  <2>8. Float[k] = k /\ Float[chain[tip][k]] = chain[tip][k]
    <3>1. chain[tip] \in States
      BY <2>1 DEF IndInv, ChainType
    <3>2. k \in 0 .. MaxNumber /\ chain[tip][k] \in 0 .. MaxNumber
      BY <3>1, StateFacts
    <3>3. QED
      BY <3>2, FloatFacts
  <2>9. ASSUME NEW hs \in SUBSET DOMAIN snapshots, m \in hs
        PROVE  k \in DOMAIN MergeAscending(hs) /\ MergeAscending(hs)[k] = {chain[tip][k]}
    <3>1. \A g \in hs : g <= m
      BY <2>1, <2>2
    <3>2. QED
      BY <2>1, <2>7, <2>8, <2>9, <3>1, LastSnapshotWins
  <2> DEFINE variables == MergeAscending({g \in DOMAIN snapshots : g <= m})
  <2>10. k \in DOMAIN variables /\ variables[k] = {chain[tip][k]}
    <3>1. m \in {g \in DOMAIN snapshots : g <= m}
      BY <2>1, <2>2, <2>7
    <3>2. QED
      BY <2>9, <3>1
  <2>11. GetSCIDVariableDetailsAtTopoheight(GetInteractionIndex(h)) = variables
    BY <2>5 DEF GetSCIDVariableDetailsAtTopoheight
  <2> HIDE DEF variables
  <2>12. GetSCIDValuesByKey(k, h) = {chain[tip][k]}
    BY <2>10, <2>11 DEF GetSCIDValuesByKey
  <2>13. k \in GetSCIDKeysByValue(chain[tip][k], h)
    BY <2>10, <2>11 DEF GetSCIDKeysByValue
  <2>14. GetAllSCIDVariableDetails[k] = {chain[tip][k]}
    BY <2>7, <2>9 DEF GetAllSCIDVariableDetails
  <2>15. QED
    BY <2>12, <2>13, <2>14
<1>2. QED
  BY <1>1, Invariance, PTL
=============================================================================
