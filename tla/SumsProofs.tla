----------------------------- MODULE SumsProofs -----------------------------
(***************************************************************************)
(* The laws of Total that the financial proofs rest on: how a sum changes  *)
(* with one of its terms, and that it is monotone.                         *)
(*                                                                         *)
(* The induction theorems of the library take an operator as a parameter,  *)
(* which the provers cannot instantiate; here an inductive set takes its   *)
(* place, whose least missing number the well-foundedness of < refutes.    *)
(***************************************************************************)
EXTENDS Sums, TLAPS, WellFoundedInduction, FiniteSetTheorems

\* p holds the sums of f over 1..m for every m up to n: what Total computes.
PrefixSums(p, f, n) ==
  p = [m \in 0..n |-> IF m = 0 THEN 0 ELSE p[m - 1] + f[m]]

\* A non-empty set of naturals has a least element.
LEMMA LeastNatural ==
  ASSUME NEW T \in SUBSET Nat, T # {}
  PROVE  \E x \in T : \A y \in T : x <= y
<1> DEFINE R == {ss \in Nat \X Nat : ss[1] < ss[2]}
<1>1. IsWellFoundedOn(R, Nat)
  BY NatLessThanWellFounded DEF OpToRel
<1> HIDE DEF R
<1>2. PICK x \in T : \A y \in T : ~(<<y, x>> \in R)
  BY <1>1, WFMin
<1>3. ASSUME NEW y \in T PROVE x <= y
  <2>1. ~(<<y, x>> \in R) BY <1>2
  <2>2. <<y, x>> \in Nat \X Nat OBVIOUS
  <2> QED BY <2>1, <2>2 DEF R
<1> QED BY <1>3

\* Induction, over a set instead of a predicate.
LEMMA NatInd ==
  ASSUME NEW S \in SUBSET Nat, 0 \in S, \A m \in Nat : m \in S => m + 1 \in S
  PROVE  S = Nat
<1> SUFFICES ASSUME Nat \ S # {} PROVE FALSE OBVIOUS
<1>1. PICK x \in Nat \ S : \A y \in Nat \ S : x <= y
  BY LeastNatural
<1>2. x # 0 /\ x - 1 \in Nat OBVIOUS
<1>3. x - 1 \in S BY <1>1, <1>2
<1>4. (x - 1) + 1 = x BY <1>2
<1> QED BY <1>2, <1>3, <1>4

\* The recursion of Total is well defined: the SUM over the rows exists.
LEMMA PrefixSumsExist ==
  ASSUME NEW f, NEW n \in Nat, f \in [1..n -> Int]
  PROVE  \E p \in [0..n -> Int] : PrefixSums(p, f, n)
<1> DEFINE S == {k \in Nat : k <= n => \E p \in [0..k -> Int] : PrefixSums(p, f, k)}
<1>1. 0 \in S
  <2> DEFINE p == [m \in 0..0 |-> 0]
  <2>1. p \in [0..0 -> Int] OBVIOUS
  <2>2. PrefixSums(p, f, 0) BY DEF PrefixSums
  <2> QED BY <2>1, <2>2
<1>2. ASSUME NEW m \in Nat, m \in S PROVE m + 1 \in S
  <2> SUFFICES ASSUME m + 1 <= n
               PROVE  \E p \in [0..(m + 1) -> Int] : PrefixSums(p, f, m + 1)
    OBVIOUS
  <2>1. PICK p \in [0..m -> Int] : PrefixSums(p, f, m) BY <1>2
  <2> DEFINE q == [k \in 0..(m + 1) |-> IF k = m + 1 THEN p[m] + f[m + 1] ELSE p[k]]
  <2>2. f[m + 1] \in Int /\ p[m] \in Int OBVIOUS
  <2>3. q \in [0..(m + 1) -> Int] BY <2>2
  <2>4. ASSUME NEW k \in 0..(m + 1)
        PROVE  q[k] = IF k = 0 THEN 0 ELSE q[k - 1] + f[k]
    <3>1. CASE k = m + 1 BY <3>1
    <3>2. CASE k # m + 1
      <4>1. k \in 0..m BY <3>2
      <4>2. p[k] = IF k = 0 THEN 0 ELSE p[k - 1] + f[k]
        BY <2>1, <4>1 DEF PrefixSums
      <4>3. q[k] = p[k] BY <3>2
      <4>4. CASE k = 0 BY <4>2, <4>3, <4>4
      <4>5. CASE k # 0
        <5>1. k - 1 \in 0..(m + 1) /\ k - 1 # m + 1 BY <4>1, <4>5
        <5> QED BY <4>2, <4>3, <4>5, <5>1
      <4> QED BY <4>4, <4>5
    <3> QED BY <3>1, <3>2
  <2>5. PrefixSums(q, f, m + 1) BY <2>4 DEF PrefixSums
  <2> QED BY <2>3, <2>5
<1>3. S = Nat BY <1>1, <1>2, NatInd
<1> QED BY <1>3

\* Total is the last of the prefix sums: SUM adds the rows one by one.
LEMMA TotalIsLastPrefix ==
  ASSUME NEW f, NEW n \in Nat, f \in [1..n -> Int]
  PROVE  \E p \in [0..n -> Int] : PrefixSums(p, f, n) /\ Total(f, n) = p[n]
<1> DEFINE q == CHOOSE q : PrefixSums(q, f, n)
<1>1. PICK p \in [0..n -> Int] : PrefixSums(p, f, n) BY PrefixSumsExist
<1>2. PrefixSums(q, f, n) BY <1>1
<1>3. ASSUME NEW m \in 0..n PROVE q[m] = p[m]
  <2> DEFINE S == {k \in Nat : k <= n => q[k] = p[k]}
  <2>0. 0 \in 0..n OBVIOUS
  <2>a. q[0] = 0 BY <1>2, <2>0 DEF PrefixSums
  <2>b. p[0] = 0 BY <1>1, <2>0 DEF PrefixSums
  <2>1. 0 \in S BY <2>a, <2>b
  <2>2. ASSUME NEW k \in Nat, k \in S PROVE k + 1 \in S
    <3> SUFFICES ASSUME k + 1 <= n PROVE q[k + 1] = p[k + 1] OBVIOUS
    <3>1. k + 1 \in 0..n /\ k + 1 # 0 /\ (k + 1) - 1 = k OBVIOUS
    <3>2. q[k + 1] = q[k] + f[k + 1] BY <1>2, <3>1 DEF PrefixSums
    <3>3. p[k + 1] = p[k] + f[k + 1] BY <1>1, <3>1 DEF PrefixSums
    <3> QED BY <2>2, <3>2, <3>3
  <2> HIDE DEF S
  <2>3. S = Nat BY <2>1, <2>2, NatInd DEF S
  <2> QED BY <2>3 DEF S
<1>4. Total(f, n) = q[n] BY DEF Total, PrefixSums
<1>5. q[n] = p[n] BY <1>3
<1> QED BY <1>1, <1>4, <1>5

\* A SUM of integers is an integer.
LEMMA TotalInt ==
  ASSUME NEW f, NEW n \in Nat, f \in [1..n -> Int]
  PROVE  Total(f, n) \in Int
BY TotalIsLastPrefix

\* Changing one row changes the SUM by the difference: what an UPDATE or an
\* INSERT of one payout does to the sums the queries take.
LEMMA TotalUpdate ==
  ASSUME NEW f, NEW g, NEW n \in Nat, f \in [1..n -> Int], g \in [1..n -> Int],
         NEW k \in 1..n, \A j \in 1..n : j # k => g[j] = f[j]
  PROVE  Total(g, n) = Total(f, n) + (g[k] - f[k])
<1>1. PICK p \in [0..n -> Int] : PrefixSums(p, f, n) /\ Total(f, n) = p[n]
  BY TotalIsLastPrefix
<1>2. PICK q \in [0..n -> Int] : PrefixSums(q, g, n) /\ Total(g, n) = q[n]
  BY TotalIsLastPrefix
<1> DEFINE d == g[k] - f[k]
           S == {m \in Nat : m <= n => q[m] = p[m] + (IF m < k THEN 0 ELSE d)}
<1>3. d \in Int OBVIOUS
<1> HIDE DEF d
<1>4. 0 \in S BY <1>1, <1>2 DEF PrefixSums
<1>5. ASSUME NEW m \in Nat, m \in S PROVE m + 1 \in S
  <2> SUFFICES ASSUME m + 1 <= n
               PROVE  q[m + 1] = p[m + 1] + (IF m + 1 < k THEN 0 ELSE d)
    OBVIOUS
  <2>1. m + 1 \in 0..n /\ m + 1 # 0 /\ (m + 1) - 1 = m OBVIOUS
  <2>2. p[m + 1] = p[m] + f[m + 1] BY <1>1, <2>1 DEF PrefixSums
  <2>3. q[m + 1] = q[m] + g[m + 1] BY <1>2, <2>1 DEF PrefixSums
  <2>4. q[m] = p[m] + (IF m < k THEN 0 ELSE d) BY <1>5
  <2>5. f[m + 1] \in Int /\ g[m + 1] \in Int /\ p[m] \in Int OBVIOUS
  <2>6. CASE m + 1 = k
    <3>1. g[k] = f[k] + d
      <4>1. f[k] \in Int /\ g[k] \in Int OBVIOUS
      <4> QED BY <4>1 DEF d
    <3>2. g[m + 1] = f[m + 1] + d BY <2>6, <3>1
    <3>3. m < k /\ ~(m + 1 < k) BY <2>6
    <3>4. q[m] = p[m] BY <2>4, <2>5, <3>3
    <3>5. q[m + 1] = p[m + 1] + d BY <2>2, <2>3, <2>5, <3>2, <3>4, <1>3
    <3> QED BY <3>3, <3>5
  <2>7. CASE m + 1 # k
    <3>1. g[m + 1] = f[m + 1] BY <2>7
    <3>2. CASE m < k
      <4>1. m + 1 < k BY <2>7, <3>2
      <4>2. q[m] = p[m] BY <2>4, <2>5, <3>2
      <4>3. q[m + 1] = p[m + 1] BY <2>2, <2>3, <3>1, <4>2
      <4> QED BY <2>2, <2>5, <4>1, <4>3
    <3>3. CASE ~(m < k)
      <4>1. ~(m + 1 < k) BY <3>3
      <4>2. q[m] = p[m] + d BY <2>4, <3>3
      <4>3. q[m + 1] = p[m + 1] + d BY <2>2, <2>3, <2>5, <3>1, <4>2, <1>3
      <4> QED BY <4>1, <4>3
    <3> QED BY <3>2, <3>3
  <2> QED BY <2>6, <2>7
<1> HIDE DEF S
<1>6. S = Nat BY <1>4, <1>5, NatInd DEF S
<1>7. q[n] = p[n] + d BY <1>6 DEF S
<1> QED BY <1>1, <1>2, <1>7 DEF d

\* A SUM over rows that are each no larger is no larger: the PAID payouts are
\* never more than the committed ones.
LEMMA TotalMonotone ==
  ASSUME NEW f, NEW g, NEW n \in Nat, f \in [1..n -> Int], g \in [1..n -> Int],
         \A j \in 1..n : f[j] <= g[j]
  PROVE  Total(f, n) <= Total(g, n)
<1>1. PICK p \in [0..n -> Int] : PrefixSums(p, f, n) /\ Total(f, n) = p[n]
  BY TotalIsLastPrefix
<1>2. PICK q \in [0..n -> Int] : PrefixSums(q, g, n) /\ Total(g, n) = q[n]
  BY TotalIsLastPrefix
<1> DEFINE S == {m \in Nat : m <= n => p[m] <= q[m]}
<1>3. 0 \in S BY <1>1, <1>2 DEF PrefixSums
<1>4. ASSUME NEW m \in Nat, m \in S PROVE m + 1 \in S
  <2> SUFFICES ASSUME m + 1 <= n PROVE p[m + 1] <= q[m + 1] OBVIOUS
  <2>1. m + 1 \in 0..n /\ m + 1 # 0 /\ (m + 1) - 1 = m OBVIOUS
  <2>2. p[m + 1] = p[m] + f[m + 1] BY <1>1, <2>1 DEF PrefixSums
  <2>3. q[m + 1] = q[m] + g[m + 1] BY <1>2, <2>1 DEF PrefixSums
  <2>4. /\ f[m + 1] \in Int /\ g[m + 1] \in Int /\ p[m] \in Int /\ q[m] \in Int
        /\ f[m + 1] <= g[m + 1] /\ p[m] <= q[m]
    BY <1>4
  <2> QED BY <2>2, <2>3, <2>4
<1> HIDE DEF S
<1>5. S = Nat BY <1>3, <1>4, NatInd DEF S
<1>6. n \in S BY <1>5
<1>7. p[n] <= q[n] BY <1>6 DEF S
<1> QED BY <1>1, <1>2, <1>7

\* A SUM of zeros is 0: COALESCE(SUM(...), 0) when no row qualifies.
LEMMA TotalZero ==
  ASSUME NEW f, NEW n \in Nat, f \in [1..n -> Int], \A j \in 1..n : f[j] = 0
  PROVE  Total(f, n) = 0
<1>1. PICK p \in [0..n -> Int] : PrefixSums(p, f, n) /\ Total(f, n) = p[n]
  BY TotalIsLastPrefix
<1> DEFINE S == {m \in Nat : m <= n => p[m] = 0}
<1>2. 0 \in S BY <1>1 DEF PrefixSums
<1>3. ASSUME NEW m \in Nat, m \in S PROVE m + 1 \in S
  <2> SUFFICES ASSUME m + 1 <= n PROVE p[m + 1] = 0 OBVIOUS
  <2>1. m + 1 \in 0..n /\ m + 1 # 0 /\ (m + 1) - 1 = m OBVIOUS
  <2>2. p[m + 1] = p[m] + f[m + 1] BY <1>1, <2>1 DEF PrefixSums
  <2> QED BY <1>3, <2>2
<1> HIDE DEF S
<1>4. S = Nat BY <1>2, <1>3, NatInd DEF S
<1> QED BY <1>1, <1>4 DEF S

\* A SUM of amounts that are not negative is not negative.
LEMMA TotalNat ==
  ASSUME NEW f, NEW n \in Nat, f \in [1..n -> Nat]
  PROVE  Total(f, n) \in Nat
<1> DEFINE z == [j \in 1..n |-> 0]
<1>1. z \in [1..n -> Int] /\ f \in [1..n -> Int] OBVIOUS
<1>2. Total(z, n) = 0 BY <1>1, TotalZero
<1>3. \A j \in 1..n : z[j] <= f[j] OBVIOUS
<1> HIDE DEF z
<1>4. Total(z, n) <= Total(f, n) BY <1>1, <1>3, TotalMonotone
<1>5. Total(f, n) \in Int BY <1>1, TotalInt
<1> QED BY <1>2, <1>4, <1>5

-----------------------------------------------------------------------------
(* Sums over a set of rows.                                                *)

FirstOf(T) == CHOOSE x \in T : TRUE

\* p holds the sums of f over the sets of D: what SumOver computes.
SetSums(p, f, D) ==
  p = [T \in D |-> IF T = {} THEN 0 ELSE f[FirstOf(T)] + p[T \ {FirstOf(T)}]]

\* A finite set without one of its members has one member less.
LEMMA OneLess ==
  ASSUME NEW T, IsFiniteSet(T), NEW x \in T
  PROVE  /\ IsFiniteSet(T \ {x}) /\ Cardinality(T \ {x}) \in Nat /\ Cardinality(T) \in Nat
         /\ Cardinality(T \ {x}) + 1 = Cardinality(T)
<1>1. IsFiniteSet(T \ {x}) /\ Cardinality(T \ {x}) = Cardinality(T) - 1 BY FS_RemoveElement
<1>2. Cardinality(T) \in Nat /\ Cardinality(T \ {x}) \in Nat BY <1>1, FS_CardinalityType
<1> QED BY <1>1, <1>2

\* Induction over the finite subsets of a set, by a set of them in place of a
\* predicate.
LEMMA SubsetInd ==
  ASSUME NEW S, IsFiniteSet(S), NEW G, {} \in G,
         \A T \in SUBSET S : (\A x \in T : T \ {x} \in G) => T \in G
  PROVE  SUBSET S \subseteq G
<1> DEFINE N == {k \in Nat : \A T \in SUBSET S : Cardinality(T) <= k => T \in G}
<1>0. \A T \in SUBSET S : IsFiniteSet(T) /\ Cardinality(T) \in Nat BY FS_Subset, FS_CardinalityType
<1>1. 0 \in N
  <2> SUFFICES ASSUME NEW T \in SUBSET S, Cardinality(T) <= 0 PROVE T \in G OBVIOUS
  <2>1. Cardinality(T) = 0 BY <1>0
  <2>2. T = {} BY <1>0, <2>1, FS_EmptySet
  <2> QED BY <2>2
<1>2. ASSUME NEW k \in Nat, k \in N PROVE k + 1 \in N
  <2> SUFFICES ASSUME NEW T \in SUBSET S, Cardinality(T) <= k + 1 PROVE T \in G OBVIOUS
  <2>1. ASSUME NEW x \in T PROVE T \ {x} \in G
    <3>1. Cardinality(T \ {x}) \in Nat /\ Cardinality(T \ {x}) + 1 = Cardinality(T)
      BY <1>0, OneLess
    <3>2. Cardinality(T \ {x}) <= k BY <3>1
    <3> QED BY <1>2, <3>2
  <2> QED BY <2>1
<1> HIDE DEF N
<1>3. N = Nat BY <1>1, <1>2, NatInd DEF N
<1>4. ASSUME NEW T \in SUBSET S PROVE T \in G
  <2>1. Cardinality(T) \in N BY <1>0, <1>3
  <2> QED BY <1>0, <2>1 DEF N
<1> QED BY <1>4

\* The recursion of SumOver is well defined.
LEMMA SetSumsExist ==
  ASSUME NEW S, IsFiniteSet(S), NEW f, \A x \in S : f[x] \in Int
  PROVE  \E p \in [SUBSET S -> Int] : SetSums(p, f, SUBSET S)
<1> DEFINE Small(k) == {T \in SUBSET S : Cardinality(T) <= k}
           N == {k \in Nat : \E p \in [Small(k) -> Int] : SetSums(p, f, Small(k))}
<1>0. \A T \in SUBSET S : IsFiniteSet(T) /\ Cardinality(T) \in Nat BY FS_Subset, FS_CardinalityType
<1>a. \A T \in SUBSET S : T # {} => FirstOf(T) \in T /\ f[FirstOf(T)] \in Int BY DEF FirstOf
<1>1. 0 \in N
  <2>1. \A T \in Small(0) : T = {} BY <1>0, FS_EmptySet
  <2> DEFINE p == [T \in Small(0) |-> 0]
  <2>2. p \in [Small(0) -> Int] /\ p = [T \in Small(0) |-> IF T = {} THEN 0 ELSE f[FirstOf(T)] + p[T \ {FirstOf(T)}]]
    BY <2>1
  <2> QED BY <2>2 DEF SetSums
<1>2. ASSUME NEW k \in Nat, k \in N PROVE k + 1 \in N
  <2>1. PICK p \in [Small(k) -> Int] : SetSums(p, f, Small(k)) BY <1>2
  <2> DEFINE q == [T \in Small(k + 1) |-> IF T = {} THEN 0 ELSE f[FirstOf(T)] + p[T \ {FirstOf(T)}]]
  <2>2. ASSUME NEW T \in Small(k + 1), T # {}
        PROVE  T \ {FirstOf(T)} \in Small(k) /\ T \ {FirstOf(T)} \in Small(k + 1)
    <3>1. FirstOf(T) \in T /\ T \in SUBSET S BY <1>a, <2>2
    <3>2. /\ Cardinality(T \ {FirstOf(T)}) \in Nat
          /\ Cardinality(T \ {FirstOf(T)}) + 1 = Cardinality(T)
      BY <1>0, <3>1, OneLess
    <3>3. Cardinality(T) <= k + 1 OBVIOUS
    <3>4. Cardinality(T \ {FirstOf(T)}) <= k /\ Cardinality(T \ {FirstOf(T)}) <= k + 1 BY <3>2, <3>3
    <3> QED BY <3>1, <3>4
  <2>3. ASSUME NEW T \in Small(k) PROVE T \in Small(k + 1) /\ q[T] = p[T]
    <3>1. T \in Small(k + 1) BY <1>0
    <3>2. p[T] = IF T = {} THEN 0 ELSE f[FirstOf(T)] + p[T \ {FirstOf(T)}] BY <2>1 DEF SetSums
    <3> QED BY <3>1, <3>2
  <2>4. ASSUME NEW T \in Small(k + 1) PROVE q[T] \in Int
    <3>1. CASE T = {} BY <3>1
    <3>2. CASE T # {}
      <4>1. p[T \ {FirstOf(T)}] \in Int BY <2>2, <3>2
      <4> QED BY <1>a, <3>2, <4>1
    <3> QED BY <3>1, <3>2
  <2>5. q \in [Small(k + 1) -> Int] BY <2>4
  <2>6. ASSUME NEW T \in Small(k + 1)
        PROVE  q[T] = IF T = {} THEN 0 ELSE f[FirstOf(T)] + q[T \ {FirstOf(T)}]
    <3>1. CASE T = {} BY <3>1
    <3>2. CASE T # {}
      <4>1. q[T \ {FirstOf(T)}] = p[T \ {FirstOf(T)}] BY <2>2, <2>3, <3>2
      <4>2. q[T] = f[FirstOf(T)] + p[T \ {FirstOf(T)}] BY <3>2
      <4> HIDE DEF q
      <4> QED BY <3>2, <4>1, <4>2
    <3> QED BY <3>1, <3>2
  <2> HIDE DEF Small
  <2>7. q = [T \in Small(k + 1) |-> q[T]] OBVIOUS
  <2> HIDE DEF q
  <2>8. SetSums(q, f, Small(k + 1)) BY <2>6, <2>7 DEF SetSums
  <2> QED BY <2>5, <2>8
<1> HIDE DEF N
<1>3. N = Nat BY <1>1, <1>2, NatInd DEF N
<1>4. Small(Cardinality(S)) = SUBSET S
  <2>1. \A T \in SUBSET S : Cardinality(T) <= Cardinality(S) BY FS_Subset
  <2> QED BY <2>1
<1>5. Cardinality(S) \in N BY <1>3, FS_CardinalityType
<1> QED BY <1>4, <1>5 DEF N

\* The sum of a set depends on its members' values alone.
LEMMA SetSumsAgree ==
  ASSUME NEW S, IsFiniteSet(S), NEW A, NEW B, S \subseteq A, S \subseteq B,
         NEW f, NEW g, \A x \in S : f[x] = g[x],
         NEW p, NEW q, SetSums(p, f, SUBSET A), SetSums(q, g, SUBSET B)
  PROVE  p[S] = q[S]
<1> DEFINE G == {T \in SUBSET S : p[T] = q[T]}
<1>1. ASSUME NEW T \in SUBSET S
      PROVE  /\ p[T] = IF T = {} THEN 0 ELSE f[FirstOf(T)] + p[T \ {FirstOf(T)}]
             /\ q[T] = IF T = {} THEN 0 ELSE g[FirstOf(T)] + q[T \ {FirstOf(T)}]
  <2>1. T \in SUBSET A /\ T \in SUBSET B OBVIOUS
  <2> QED BY <2>1 DEF SetSums
<1>2. {} \in G BY <1>1
<1>3. ASSUME NEW T \in SUBSET S, \A x \in T : T \ {x} \in G PROVE T \in G
  <2>1. CASE T = {} BY <1>2, <2>1
  <2>2. CASE T # {}
    <3>1. FirstOf(T) \in T BY <2>2 DEF FirstOf
    <3>2. p[T \ {FirstOf(T)}] = q[T \ {FirstOf(T)}] BY <1>3, <3>1
    <3>3. f[FirstOf(T)] = g[FirstOf(T)] BY <3>1
    <3> QED BY <1>1, <2>2, <3>2, <3>3
  <2> QED BY <2>1, <2>2
<1> HIDE DEF G
<1>4. SUBSET S \subseteq G BY <1>2, <1>3, SubsetInd
<1>5. S \in G BY <1>4
<1> QED BY <1>5 DEF G

LEMMA SetSumsOfPart ==
  ASSUME NEW R, IsFiniteSet(R), NEW S, R \subseteq S, NEW f, NEW p, NEW q,
         SetSums(p, f, SUBSET S), SetSums(q, f, SUBSET R)
  PROVE  p[R] = q[R]
<1>1. R \subseteq R /\ \A x \in R : f[x] = f[x] OBVIOUS
<1> QED BY <1>1, SetSumsAgree

LEMMA SumOverIs ==
  ASSUME NEW S, IsFiniteSet(S), NEW f, \A x \in S : f[x] \in Int
  PROVE  \E p \in [SUBSET S -> Int] : SetSums(p, f, SUBSET S) /\ SumOver(f, S) = p[S]
<1> DEFINE q == CHOOSE q : SetSums(q, f, SUBSET S)
<1>1. PICK p \in [SUBSET S -> Int] : SetSums(p, f, SUBSET S) BY SetSumsExist
<1>2. SetSums(q, f, SUBSET S) BY <1>1
<1>3. SumOver(f, S) = q[S] BY DEF SumOver, SetSums, FirstOf
<1> HIDE DEF q
<1>4. q[S] = p[S] BY <1>1, <1>2, SetSumsAgree
<1> QED BY <1>1, <1>3, <1>4

\* Any member may be taken first.
LEMMA AnyFirst ==
  ASSUME NEW S, IsFiniteSet(S), NEW f, \A x \in S : f[x] \in Int,
         NEW p \in [SUBSET S -> Int], SetSums(p, f, SUBSET S), NEW z \in S
  PROVE  p[S] = f[z] + p[S \ {z}]
<1> DEFINE G == {T \in SUBSET S : \A x \in T : p[T] = f[x] + p[T \ {x}]}
<1>1. {} \in G OBVIOUS
<1>2. ASSUME NEW T \in SUBSET S, \A x \in T : T \ {x} \in G PROVE T \in G
  <2> SUFFICES ASSUME NEW x \in T PROVE p[T] = f[x] + p[T \ {x}] OBVIOUS
  <2> DEFINE y == FirstOf(T)
  <2>1. y \in T /\ T # {} BY DEF FirstOf
  <2>2. p[T] = f[y] + p[T \ {y}] BY <2>1 DEF SetSums
  <2> HIDE DEF y
  <2>3. CASE x = y BY <2>2, <2>3
  <2>4. CASE x # y
    <3>1. x \in T \ {y} /\ y \in T \ {x} BY <2>1, <2>4
    <3>2. p[T \ {y}] = f[x] + p[(T \ {y}) \ {x}] BY <1>2, <2>1, <3>1
    <3>3. p[T \ {x}] = f[y] + p[(T \ {x}) \ {y}] BY <1>2, <3>1
    <3>4. (T \ {y}) \ {x} = (T \ {x}) \ {y} OBVIOUS
    <3>5. PICK v \in Int : v = p[(T \ {x}) \ {y}] OBVIOUS
    <3>6. f[x] \in Int /\ f[y] \in Int BY <2>1
    <3>7. p[T \ {y}] = f[x] + v BY <3>2, <3>4, <3>5, Zenon
    <3>8. p[T \ {x}] = f[y] + v BY <3>3, <3>5
    <3> QED BY <2>2, <3>5, <3>6, <3>7, <3>8
  <2> QED BY <2>3, <2>4
<1> HIDE DEF G
<1>a. \A T \in SUBSET S : (\A x \in T : T \ {x} \in G) => T \in G BY <1>2
<1>3. SUBSET S \subseteq G BY ONLY IsFiniteSet(S), <1>1, <1>a, SubsetInd
<1>4. S \in G BY <1>3
<1> QED BY <1>4 DEF G

LEMMA SumOverInt ==
  ASSUME NEW S, IsFiniteSet(S), NEW f, \A x \in S : f[x] \in Int
  PROVE  SumOver(f, S) \in Int
<1>1. PICK p \in [SUBSET S -> Int] : SetSums(p, f, SUBSET S) /\ SumOver(f, S) = p[S] BY SumOverIs
<1>2. S \in SUBSET S OBVIOUS
<1> QED BY <1>1, <1>2

LEMMA SumOverEmpty ==
  ASSUME NEW f
  PROVE  SumOver(f, {}) = 0
<1>1. IsFiniteSet({}) BY FS_EmptySet
<1>2. PICK p \in [SUBSET {} -> Int] : SetSums(p, f, SUBSET {}) /\ SumOver(f, {}) = p[{}]
  BY <1>1, SumOverIs
<1> QED BY <1>2 DEF SetSums

\* A row that is taken away takes its value out of the sum.
LEMMA SumOverRemove ==
  ASSUME NEW S, IsFiniteSet(S), NEW f, \A x \in S : f[x] \in Int, NEW z \in S
  PROVE  SumOver(f, S) = f[z] + SumOver(f, S \ {z})
<1>1. PICK p \in [SUBSET S -> Int] : SetSums(p, f, SUBSET S) /\ SumOver(f, S) = p[S] BY SumOverIs
<1>2. PICK R : R = S \ {z} OBVIOUS
<1>3. IsFiniteSet(R) /\ R \subseteq S /\ (\A x \in R : f[x] \in Int)
  <2>1. IsFiniteSet(S \ {z}) BY FS_RemoveElement
  <2> QED BY <1>2, <2>1
<1>4. PICK q \in [SUBSET R -> Int] : SetSums(q, f, SUBSET R) /\ SumOver(f, R) = q[R]
  BY <1>3, SumOverIs
<1>5. p[R] = q[R] BY <1>1, <1>3, <1>4, SetSumsOfPart
<1>6. p[S] = f[z] + p[S \ {z}] BY <1>1, AnyFirst
<1>7. SumOver(f, S \ {z}) = p[S \ {z}] BY <1>2, <1>4, <1>5, Zenon
<1> QED BY <1>1, <1>6, <1>7, Zenon

LEMMA SumOverEqual ==
  ASSUME NEW S, IsFiniteSet(S), NEW f, NEW g, \A x \in S : f[x] \in Int /\ g[x] = f[x]
  PROVE  SumOver(g, S) = SumOver(f, S)
<1>1. PICK p \in [SUBSET S -> Int] : SetSums(p, f, SUBSET S) /\ SumOver(f, S) = p[S] BY SumOverIs
<1>2. PICK q \in [SUBSET S -> Int] : SetSums(q, g, SUBSET S) /\ SumOver(g, S) = q[S] BY SumOverIs
<1>3. p[S] = q[S] BY <1>1, <1>2, SetSumsAgree
<1> QED BY <1>1, <1>2, <1>3

\* A row that is added adds its value.
LEMMA SumOverAdd ==
  ASSUME NEW S, IsFiniteSet(S), NEW f, NEW z, z \notin S, NEW g, g[z] \in Int,
         \A x \in S : f[x] \in Int /\ g[x] = f[x]
  PROVE  IsFiniteSet(S \cup {z}) /\ SumOver(g, S \cup {z}) = SumOver(f, S) + g[z]
<1>1. IsFiniteSet(S \cup {z}) BY FS_AddElement
<1>2. SumOver(g, S \cup {z}) = g[z] + SumOver(g, (S \cup {z}) \ {z})
  <2>1. \A x \in S \cup {z} : g[x] \in Int OBVIOUS
  <2>2. z \in S \cup {z} OBVIOUS
  <2> QED BY <1>1, <2>1, <2>2, SumOverRemove
<1>3. (S \cup {z}) \ {z} = S OBVIOUS
<1>4. SumOver(g, S) = SumOver(f, S) BY SumOverEqual
<1>5. SumOver(f, S) \in Int BY SumOverInt
<1>6. SumOver(g, S \cup {z}) = g[z] + SumOver(f, S) BY <1>2, <1>3, <1>4, Zenon
<1> QED BY <1>1, <1>5, <1>6
=============================================================================
