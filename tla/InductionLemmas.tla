-------------------------- MODULE InductionLemmas --------------------------
(***************************************************************************)
(* Induction over the naturals for sets, which is first order and so can   *)
(* be cited in proofs that SMT solvers check, and what follows from it for *)
(* bounded sets.                                                           *)
(***************************************************************************)
EXTENDS Integers, FiniteSetTheorems, NaturalsInduction, TLAPS

\* A set that has 0 and with each number the next one has all naturals: a number that it lacks would have a
\* least one below it.
LEMMA SetInduction ==
    ASSUME NEW S, 0 \in S, \A n \in Nat : n \in S => n + 1 \in S
    PROVE  \A n \in Nat : n \in S
<1>1. PICK R : R = OpToRel(<, Nat)
  OBVIOUS
<1>2. IsWellFoundedOn(R, Nat)
  BY <1>1, NatLessThanWellFounded
<1>3. R = {ss \in Nat \X Nat : ss[1] < ss[2]}
  BY <1>1 DEF OpToRel
<1>4. ASSUME NEW x \in Nat, NEW y \in Nat, x < y
      PROVE  <<x, y>> \in R
  <2>1. <<x, y>> \in Nat \X Nat /\ <<x, y>>[1] = x /\ <<x, y>>[2] = y
    OBVIOUS
  <2> QED BY <1>3, <1>4, <2>1
<1> DEFINE T == {n \in Nat : n \notin S}
<1>5. SUFFICES ASSUME T # {} PROVE FALSE
  OBVIOUS
<1>6. PICK n \in T : \A m \in T : ~(<<m, n>> \in R)
  <2> HIDE DEF T
  <2>1. T \subseteq Nat
    BY DEF T
  <2> QED BY <1>2, <1>5, <2>1, WFMin
<1>7. n # 0 /\ n \in Nat /\ n - 1 \in Nat
  OBVIOUS
<1>8. n - 1 \notin T
  <2>1. <<n - 1, n>> \in R
    <3>1. n - 1 < n
      BY <1>7
    <3> QED BY <1>4, <1>7, <3>1
  <2> HIDE DEF T
  <2> QED BY <1>6, <2>1
<1>9. n - 1 \in S /\ (n - 1) + 1 = n
  BY <1>7, <1>8
<1> QED BY <1>7, <1>9

\* A nonempty set of naturals has a least element.
LEMMA LeastNumber ==
    ASSUME NEW S, S \subseteq Nat, S # {}
    PROVE  \E n \in S : \A m \in S : n <= m
<1> DEFINE Below == {n \in Nat : \A m \in S : n <= m}
<1>1. SUFFICES ASSUME \A n \in S : \E m \in S : ~(n <= m) PROVE FALSE
  OBVIOUS
<1>2. 0 \in Below
  OBVIOUS
<1>3. ASSUME NEW n \in Nat, n \in Below
      PROVE  n + 1 \in Below
  <2>1. n \notin S
    BY <1>1, <1>3
  <2> QED BY <1>3, <2>1
<1>4. \A n \in Nat : n \in Below
  <2> HIDE DEF Below
  <2> QED BY <1>2, <1>3, SetInduction
<1>5. PICK x \in S : TRUE
  OBVIOUS
<1>6. x + 1 \in Below
  BY <1>4
<1> QED BY <1>5, <1>6

\* A nonempty set of naturals with an upper bound has a greatest element.
LEMMA GreatestNumber ==
    ASSUME NEW S, S \subseteq Nat, S # {}, NEW n \in Nat, \A m \in S : m <= n
    PROVE  \E x \in S : \A m \in S : m <= x
<1> DEFINE U == {k \in Nat : \A m \in S : m <= k}
<1>1. PICK k \in U : \A j \in U : k <= j
  <2>1. U \subseteq Nat /\ n \in U
    OBVIOUS
  <2> HIDE DEF U
  <2> QED BY <2>1, LeastNumber
<1>2. k \in S
  <2> SUFFICES ASSUME k \notin S PROVE FALSE
    OBVIOUS
  <2>1. \A m \in S : m < k /\ m \in Nat
    BY <1>1
  <2>2. k - 1 \in U
    <3>1. PICK x \in S : x < k
      BY <2>1
    <3> QED BY <2>1, <3>1
  <2> QED BY <1>1, <2>2
<1> QED BY <1>1, <1>2

\* A finite set of naturals is bounded.
LEMMA FiniteIsBounded ==
    ASSUME NEW S, S \subseteq Nat, IsFiniteSet(S)
    PROVE  \E n \in Nat : \A m \in S : m <= n
<1>1. PICK k \in Nat : ExistsSurjection(1..k, S)
  BY FS_NatSurjection
<1>2. PICK f \in [1..k -> S] : \A m \in S : \E i \in 1..k : f[i] = m
  BY <1>1 DEF ExistsSurjection, Surjection
<1>3. \A i \in 1..k : f[i] \in Nat
  <2>1. \A i \in 1..k : f[i] \in S
    OBVIOUS
  <2> QED BY <2>1
<1> DEFINE Bounded(j) == \E n \in Nat : \A i \in 1..j : f[i] <= n
           T == {j \in Nat : j <= k => Bounded(j)}
<1>4. 0 \in T
  OBVIOUS
<1>5. ASSUME NEW j \in Nat, j \in T
      PROVE  j + 1 \in T
  <2>1. SUFFICES ASSUME j + 1 <= k PROVE Bounded(j + 1)
    <3> HIDE DEF Bounded
    <3> QED OBVIOUS
  <2>2. Bounded(j)
    <3> HIDE DEF Bounded
    <3> QED BY <1>5, <2>1
  <2>3. PICK n \in Nat : \A i \in 1..j : f[i] <= n
    BY <2>2
  <2>4. f[j + 1] \in Nat
    BY <1>3, <2>1
  <2>5. \A i \in 1..(j + 1) : f[i] <= n + f[j + 1]
    <3>1. ASSUME NEW i \in 1..(j + 1)
          PROVE  f[i] <= n + f[j + 1]
      <4>1. f[i] \in Nat /\ (i = j + 1 \/ i \in 1..j)
        BY <1>3, <2>1
      <4> QED BY <2>3, <2>4, <4>1
    <3> QED BY <3>1
  <2>6. n + f[j + 1] \in Nat
    BY <2>3, <2>4
  <2> WITNESS n + f[j + 1] \in Nat
  <2> QED BY <2>5
<1>6. k \in T
  <2> HIDE DEF T
  <2> QED BY <1>4, <1>5, SetInduction
<1>7. Bounded(k)
  <2> HIDE DEF Bounded
  <2> QED BY <1>6
<1>8. PICK n \in Nat : \A i \in 1..k : f[i] <= n
  BY <1>7
<1> QED BY <1>2, <1>8
=============================================================================
