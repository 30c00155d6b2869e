----------------------------- MODULE Order_proofs -----------------------------
(***************************************************************************)
(* What the proofs need of natural numbers and of orders of finite sets.   *)
(* Every set of natural numbers has a least element (Least): that is the   *)
(* induction behind sums, ranks in an order and the best of several.       *)
(***************************************************************************)
EXTENDS Naturals, FiniteSets, FiniteSetTheorems, WellFoundedInduction, TLAPS

(***************************************************************************)
(* Least elements, and orders of finite sets                               *)
(***************************************************************************)

Less == {p \in Nat \X Nat : p[1] < p[2]}

\* The order of the natural numbers.
LEMMA LessWellFounded == IsWellFoundedOn(Less, Nat)
  BY NatLessThanWellFounded DEF OpToRel, Less

\* Every set of natural numbers has a least one: induction, as a fact.
LEMMA Least ==
  ASSUME NEW T, T \subseteq Nat, T # {}
  PROVE  \E x \in T : \A y \in T : x <= y
<1>1. \E x \in T : \A y \in T : ~(<<y, x>> \in Less)
  BY LessWellFounded, WFMin, Zenon
<1>2. \A x, y \in T : ~(<<y, x>> \in Less) => x <= y
  BY DEF Less
<1>  QED
  BY <1>1, <1>2

\* Every set of numbers up to n has a greatest one.
LEMMA Greatest ==
  ASSUME NEW n \in Nat, NEW T, T \subseteq 0 .. n, T # {}
  PROVE  \E x \in T : \A y \in T : x >= y
<1>1. PICK U : U = {n - y : y \in T}
  OBVIOUS
<1>2. U \subseteq Nat /\ U # {}
  <2>1. \A y \in T : n - y \in Nat
    <3>1. \A y \in 0 .. n : n - y \in Nat
      OBVIOUS
    <3>  QED
      BY <3>1
  <2>2. PICK y \in T : TRUE
    OBVIOUS
  <2>3. n - y \in U
    BY <1>1
  <2>4. \A u \in U : \E z \in T : u = n - z
    BY <1>1
  <2>  QED
    BY <2>1, <2>3, <2>4
<1>3. PICK u \in U : \A v \in U : u <= v
  BY <1>2, Least
<1>4. PICK x \in T : u = n - x
  BY <1>1
<1>5. ASSUME NEW y \in T PROVE x >= y
  <2>1. n - x <= n - y
    BY <1>1, <1>3, <1>4
  <2>2. x \in 0 .. n /\ y \in 0 .. n
    OBVIOUS
  <2>  QED
    BY <2>1, <2>2
<1>  QED
  BY <1>5

\* Steps from a, and the function they define.
Steps(step, n, S, a) == n \in Nat /\ a \in S /\ step \in [1 .. n -> [S -> S]]
Recursion(f, step, n, S, a) ==
  f \in [0 .. n -> S] /\ f[0] = a /\ \A i \in 1 .. n : f[i] = step[i][f[i - 1]]

\* A step for each of the first n numbers defines a function.
LEMMA RecursionExists ==
  ASSUME NEW n, NEW S, NEW a, NEW step, Steps(step, n, S, a)
  PROVE  \E f : Recursion(f, step, n, S, a)
<1> DEFINE Is(f, m) == f \in [0 .. m -> S] /\ f[0] = a /\ \A i \in 1 .. m : f[i] = step[i][f[i - 1]]
           Bad == {m \in 0 .. n : ~\E f : Is(f, m)}
<1>0. n \in Nat /\ a \in S /\ step \in [1 .. n -> [S -> S]]
  BY DEF Steps
<1>1. ASSUME Bad # {} PROVE FALSE
  <2>1. Bad \subseteq Nat
    BY <1>0
  <2>2. PICK m \in Bad : \A k \in Bad : m <= k
    BY <1>1, <2>1, Least
  <2>3. CASE m = 0
    <3>1. PICK f : f = [i \in 0 .. 0 |-> a]
      OBVIOUS
    <3>2. Is(f, 0)
      BY <1>0, <3>1
    <3>  QED
      BY <2>2, <2>3, <3>2
  <2>4. CASE m # 0
    <3>1. m - 1 \in 0 .. n /\ m \in 1 .. n /\ ~(m <= m - 1)
      BY <1>0, <2>2, <2>4
    <3>2. m - 1 \notin Bad
      BY <2>2, <3>1
    <3>3. PICK f : Is(f, m - 1)
      BY <3>1, <3>2
    <3>4. PICK g : g = [i \in 0 .. m |-> IF i = m THEN step[m][f[m - 1]] ELSE f[i]]
      OBVIOUS
    <3>5. f[m - 1] \in S /\ step[m] \in [S -> S] /\ step[m][f[m - 1]] \in S
      BY <1>0, <3>1, <3>3
    <3>6. \A i \in 0 .. m : i # m => i \in 0 .. m - 1
      BY <3>1
    <3>7. g \in [0 .. m -> S]
      BY <3>3, <3>4, <3>5, <3>6
    <3>8. g[0] = a
      BY <3>1, <3>3, <3>4
    <3>9. ASSUME NEW i \in 1 .. m PROVE g[i] = step[i][g[i - 1]]
      <4>1. i - 1 \in 0 .. m /\ i - 1 # m /\ i \in 0 .. m
        BY <3>1
      <4>2. g[i - 1] = f[i - 1]
        BY <3>4, <4>1
      <4>3. CASE i = m
        BY <3>4, <4>1, <4>2, <4>3
      <4>4. CASE i # m
        <5>1. i \in 1 .. m - 1
          BY <3>1, <4>4
        <5>  QED
          BY <3>3, <3>4, <4>1, <4>2, <4>4, <5>1
      <4>  QED
        BY <4>3, <4>4
    <3>10. Is(g, m)
      BY <3>7, <3>8, <3>9
    <3>  QED
      BY <2>2, <3>10
  <2>  QED
    BY <2>3, <2>4
<1>2. n \in 0 .. n
  BY <1>0
<1>3. \E f : Is(f, n)
  BY <1>1, <1>2
<1>  QED
  BY <1>3 DEF Recursion

Follows(g, step, n, S, a) ==
  /\ g = [i \in 0 .. n |-> g[i]] /\ g[0] = a
  /\ \A i \in 1 .. n : g[i - 1] \in S => g[i] = step[i][g[i - 1]]

\* A function that follows the steps stays where they lead.
LEMMA RecursionStays ==
  ASSUME NEW n, NEW S, NEW a, NEW step, NEW g, Steps(step, n, S, a), Follows(g, step, n, S, a)
  PROVE  Recursion(g, step, n, S, a)
<1>1. n \in Nat /\ a \in S /\ step \in [1 .. n -> [S -> S]]
  BY DEF Steps
<1>2. /\ g = [i \in 0 .. n |-> g[i]] /\ g[0] = a
      /\ \A i \in 1 .. n : g[i - 1] \in S => g[i] = step[i][g[i - 1]]
  BY DEF Follows
<1> DEFINE Bad == {i \in 0 .. n : g[i] \notin S}
<1>3. ASSUME Bad # {} PROVE FALSE
  <2>1. Bad \subseteq Nat
    BY <1>1
  <2>2. PICK i \in Bad : \A j \in Bad : i <= j
    BY <1>3, <2>1, Least
  <2>3. i # 0
    BY <1>1, <1>2, <2>2
  <2>4. i \in 1 .. n /\ i - 1 \in 0 .. n /\ ~(i <= i - 1)
    BY <1>1, <2>2, <2>3
  <2>5. g[i - 1] \in S
    BY <2>2, <2>4
  <2>6. g[i] = step[i][g[i - 1]] /\ step[i] \in [S -> S]
    BY <1>1, <1>2, <2>4, <2>5
  <2>7. g[i] \in S
    BY <2>5, <2>6
  <2>  QED
    BY <2>2, <2>7
<1>4. \A i \in 0 .. n : g[i] \in S
  BY <1>3
<1>5. g \in [0 .. n -> S]
  BY <1>2, <1>4
<1>6. \A i \in 1 .. n : g[i] = step[i][g[i - 1]]
  <2>1. \A i \in 1 .. n : i - 1 \in 0 .. n
    BY <1>1
  <2>  QED
    BY <1>2, <1>4, <2>1
<1>  QED
  BY <1>2, <1>5, <1>6 DEF Recursion

\* A strict order of a set in which any two elements are ordered.
Total2(S, R) ==
  /\ \A x \in S : <<x, x>> \notin R
  /\ \A x, y \in S : x # y => <<x, y>> \in R \/ <<y, x>> \in R
  /\ \A x, y, z \in S : <<x, y>> \in R /\ <<y, z>> \in R => <<x, z>> \in R

RankIn(S, R, x) == Cardinality({y \in S : <<y, x>> \in R})

\* What comes before has a lower rank.
LEMMA RankGrows ==
  ASSUME NEW S, NEW R, IsFiniteSet(S), Total2(S, R), NEW x \in S
  PROVE  /\ RankIn(S, R, x) \in 0 .. Cardinality(S) - 1
         /\ \A y \in S : <<x, y>> \in R => RankIn(S, R, x) < RankIn(S, R, y)
<1> DEFINE Pre(y) == {z \in S : <<z, y>> \in R}
<1>1. \A y \in S : Pre(y) \in SUBSET S /\ Pre(y) # S
  BY DEF Total2
<1>2. \A y \in S : /\ IsFiniteSet(Pre(y)) /\ Cardinality(Pre(y)) \in Nat
                   /\ Cardinality(Pre(y)) <= Cardinality(S)
                   /\ Cardinality(Pre(y)) # Cardinality(S)
  BY <1>1, FS_Subset, FS_CardinalityType
<1>3. Cardinality(S) \in Nat
  BY FS_CardinalityType
<1>4. RankIn(S, R, x) \in 0 .. Cardinality(S) - 1
  BY <1>2, <1>3 DEF RankIn
<1>5. ASSUME NEW y \in S, <<x, y>> \in R PROVE RankIn(S, R, x) < RankIn(S, R, y)
  <2>1. Pre(x) \in SUBSET Pre(y) /\ Pre(x) # Pre(y)
    BY <1>5 DEF Total2
  <2>2. Cardinality(Pre(x)) <= Cardinality(Pre(y)) /\ Cardinality(Pre(x)) # Cardinality(Pre(y))
    BY <2>1, <1>2, FS_Subset
  <2>  QED
    BY <2>2, <1>2 DEF RankIn
<1>  QED
  BY <1>4, <1>5

\* Every rank is that of exactly one element.
LEMMA RankIsBijective ==
  ASSUME NEW S, NEW R, IsFiniteSet(S), Total2(S, R)
  PROVE  /\ \A x, y \in S : RankIn(S, R, x) = RankIn(S, R, y) => x = y
         /\ \A i \in 1 .. Cardinality(S) : \E x \in S : RankIn(S, R, x) = i - 1
<1> DEFINE n == Cardinality(S)
           f == [x \in S |-> RankIn(S, R, x)]
<1>1. n \in Nat
  BY FS_CardinalityType
<1>2. \A x \in S : RankIn(S, R, x) \in 0 .. n - 1
  BY RankGrows
<1>3. \A x, y \in S : RankIn(S, R, x) = RankIn(S, R, y) => x = y
  <2> SUFFICES ASSUME NEW x \in S, NEW y \in S, RankIn(S, R, x) = RankIn(S, R, y), x # y
               PROVE  FALSE
    OBVIOUS
  <2>1. <<x, y>> \in R \/ <<y, x>> \in R
    BY DEF Total2
  <2>2. RankIn(S, R, x) < RankIn(S, R, y) \/ RankIn(S, R, y) < RankIn(S, R, x)
    BY <2>1, RankGrows
  <2>  QED
    BY <2>2, <1>1, <1>2
<1>4. IsFiniteSet(0 .. n - 1) /\ Cardinality(0 .. n - 1) = n
  <2> HIDE DEF n
  <2>1. 0 \in Int /\ n - 1 \in Int /\ (0 > n - 1 <=> n = 0) /\ n - 1 - 0 + 1 = n
    BY <1>1
  <2>  QED
    BY <2>1, FS_Interval
<1>5. f \in Injection(S, 0 .. n - 1)
  <2>1. f \in [S -> 0 .. n - 1]
    BY <1>2
  <2>2. \A x, y \in S : f[x] = f[y] => x = y
    BY <1>3
  <2> HIDE DEF f, n
  <2>  QED
    BY <2>1, <2>2 DEF Injection, IsInjective
<1>6. f \in Surjection(S, 0 .. n - 1)
  BY <1>4, <1>5, FS_Injection
<1>7. \A i \in 0 .. n - 1 : \E x \in S : f[x] = i
  BY <1>6 DEF Surjection
<1>8. \A i \in 1 .. n : i - 1 \in 0 .. n - 1
  BY <1>1
<1>  QED
  BY <1>3, <1>7, <1>8

===============================================================================
