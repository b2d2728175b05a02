------------------------------ MODULE NatFacts ------------------------------
(***************************************************************************)
(* Facts about natural numbers that the proofs of several modules need.    *)
(***************************************************************************)
EXTENDS Integers, FiniteSetsExt, WellFoundedInduction, FiniteSetTheorems,
        TLAPS

(* The least-number principle, for sets.                                   *)
LEMMA LeastNumber ==
  ASSUME NEW S \in SUBSET Nat, S # {}
  PROVE  \E m \in S : \A x \in S : m <= x
<1> DEFINE R == OpToRel(<, Nat)
<1>1. \A x, y \in Nat : x < y => <<x, y>> \in R
  BY DEF OpToRel
<1>2. PICK m \in S : \A y \in S : ~(<<y, m>> \in R)
  <2>1. IsWellFoundedOn(R, Nat)
    BY NatLessThanWellFounded
  <2> HIDE DEF R
  <2> QED BY <2>1, WFMin
<1>3. \A y \in S : ~(y < m)
  <2> HIDE DEF R
  <2> QED BY <1>1, <1>2
<1> QED BY <1>3

(* Induction, for sets: what holds of a and with n of n + 1, up to b.      *)
LEMMA SetInduction ==
  ASSUME NEW a \in Nat, NEW b \in Nat, NEW S, a \in S,
         \A n \in a .. b - 1 : n \in S => n + 1 \in S
  PROVE  a .. b \subseteq S
<1> SUFFICES ASSUME (a .. b) \ S # {} PROVE FALSE
  OBVIOUS
<1>1. PICK m \in (a .. b) \ S : \A x \in (a .. b) \ S : m <= x
  <2>1. (a .. b) \ S \in SUBSET Nat
    OBVIOUS
  <2> QED BY <2>1, LeastNumber
<1>2. m - 1 \in a .. b - 1 /\ m - 1 \in S
  BY <1>1
<1> QED BY <1>1, <1>2

(* Induction downwards.                                                    *)
LEMMA DownInduction ==
  ASSUME NEW a \in Nat, NEW b \in Nat, NEW S, b \in S,
         \A n \in a + 1 .. b : n \in S => n - 1 \in S
  PROVE  a .. b \subseteq S
<1> DEFINE T == {n \in Nat : b - n \in S}
<1>1. 0 .. b - a \subseteq T
  <2>1. CASE a <= b
    <3>1. 0 \in T /\ b - a \in Nat
      BY <2>1
    <3>2. \A n \in 0 .. (b - a) - 1 : n \in T => n + 1 \in T
      <4> SUFFICES ASSUME NEW n \in 0 .. (b - a) - 1, n \in T
                   PROVE  n + 1 \in T
        OBVIOUS
      <4>1. b - n \in a + 1 .. b /\ b - n \in S
        OBVIOUS
      <4>2. (b - n) - 1 = b - (n + 1)
        OBVIOUS
      <4> QED BY <4>1, <4>2
    <3> HIDE DEF T
    <3> QED BY <3>1, <3>2, SetInduction
  <2>2. CASE ~(a <= b)
    BY <2>2
  <2> QED BY <2>1, <2>2
<1>2. ASSUME NEW v \in a .. b PROVE v \in S
  <2>1. b - v \in T
    BY <1>1
  <2>2. b - (b - v) = v
    OBVIOUS
  <2> QED BY <2>1, <2>2
<1> QED BY <1>2

(* Min returns the least element.                                          *)
LEMMA MinIsLeast ==
  ASSUME NEW S \in SUBSET Nat, S # {}
  PROVE  Min(S) \in S /\ \A x \in S : Min(S) <= x
BY LeastNumber DEF Min

LEMMA TimesMonotone ==
  ASSUME NEW a \in Nat, NEW b \in Nat, NEW c \in Nat, a <= b
  PROVE  a * c <= b * c /\ a * c \in Nat
<1>1. (b - a) * c >= 0
  OBVIOUS
<1> QED BY <1>1

LEMMA ModInRange ==
  ASSUME NEW a \in Nat, NEW m \in Nat \ {0}
  PROVE  a % m \in 0 .. m - 1
OBVIOUS

(* A set has twice as many subsets when it gets one element more.          *)
LEMMA Doubled ==
  ASSUME NEW n \in Nat
  PROVE  2 ^ (n + 1) = 2 ^ n + 2 ^ n
<1> DEFINE S == 1 .. n
           P == SUBSET S
           Q == {T \cup {n + 1} : T \in P}
<1>1. /\ IsFiniteSet(P) /\ Cardinality(P) = 2 ^ n
      /\ Cardinality(SUBSET (1 .. n + 1)) = 2 ^ (n + 1)
  <2>1. /\ IsFiniteSet(S) /\ Cardinality(S) = n
        /\ IsFiniteSet(1 .. n + 1) /\ Cardinality(1 .. n + 1) = n + 1
    BY FS_Interval
  <2> QED BY <2>1, FS_SUBSET
<1>2. SUBSET (1 .. n + 1) = P \cup Q
  <2>1. ASSUME NEW T \in SUBSET (1 .. n + 1), n + 1 \in T PROVE T \in Q
    <3>1. T \ {n + 1} \in P /\ T = (T \ {n + 1}) \cup {n + 1}
      BY <2>1
    <3> QED BY <3>1
  <2>2. ASSUME NEW T \in SUBSET (1 .. n + 1), n + 1 \notin T PROVE T \in P
    BY <2>2
  <2>3. P \cup Q \subseteq SUBSET (1 .. n + 1)
    <3>1. \A T \in P : T \subseteq 1 .. n + 1 /\ T \cup {n + 1} \subseteq 1 .. n + 1
      OBVIOUS
    <3> QED BY <3>1
  <2> QED BY <2>1, <2>2, <2>3
<1>3. P \cap Q = {}
  OBVIOUS
<1>4. IsFiniteSet(Q) /\ Cardinality(Q) = Cardinality(P)
  <2> DEFINE f == [T \in P |-> T \cup {n + 1}]
  <2>1. f \in Bijection(P, Q)
    <3>1. ASSUME NEW A \in P, NEW B \in P, f[A] = f[B] PROVE A = B
      <4>1. n + 1 \notin A /\ n + 1 \notin B /\ A \cup {n + 1} = B \cup {n + 1}
        BY <3>1
      <4> QED BY <4>1
    <3>2. f \in [P -> Q] /\ \A T \in Q : \E A \in P : f[A] = T
      OBVIOUS
    <3> HIDE DEF f, P, Q
    <3> QED BY <3>1, <3>2 DEF Bijection, Injection, Surjection, IsInjective
  <2> HIDE DEF f, P, Q
  <2> QED BY <1>1, <2>1, FS_Bijection DEF ExistsBijection
<1>5. Cardinality(P \cup Q) = Cardinality(P) + Cardinality(Q) - Cardinality(P \cap Q)
  <2> HIDE DEF P, Q
  <2> QED BY <1>1, <1>4, FS_Union
<1>6. Cardinality(P \cap Q) = 0
  BY <1>3, FS_EmptySet, Zenon
<1>7. 2 ^ n \in Int
  OBVIOUS
<1>8. Cardinality(P \cup Q) = 2 ^ n + 2 ^ n
  <2> HIDE DEF P, Q
  <2> QED BY <1>1, <1>4, <1>5, <1>6, <1>7
<1> QED BY <1>1, <1>2, <1>8, Zenon

(* Powers of two are positive and outgrow their exponents.                 *)
LEMMA PowerGrows ==
  ASSUME NEW n \in Nat
  PROVE  2 ^ n \in Nat /\ n <= 2 ^ n /\ 1 <= 2 ^ n
<1> DEFINE S == {m \in Nat : 2 ^ m \in Nat /\ m <= 2 ^ m /\ 1 <= 2 ^ m}
<1>1. 0 \in S
  OBVIOUS
<1>2. ASSUME NEW m \in 0 .. n - 1, m \in S PROVE m + 1 \in S
  BY <1>2, Doubled
<1> HIDE DEF S
<1>3. 0 .. n \subseteq S
  BY <1>1, <1>2, SetInduction
<1>4. n \in S
  BY <1>3
<1> QED BY <1>4 DEF S

(* There is a least power of two that is not below x.                      *)
LEMMA RoundedUp ==
  ASSUME NEW x \in Nat
  PROVE  \E p \in {2 ^ e : e \in 0 .. x} :
           x <= p /\ \A e \in 0 .. x : x <= 2 ^ e => p <= 2 ^ e
<1> DEFINE S == {p \in {2 ^ e : e \in 0 .. x} : x <= p}
<1>1. \A e \in 0 .. x : 2 ^ e \in Nat
  BY PowerGrows
<1>2. S \in SUBSET Nat
  BY <1>1
<1>3. 2 ^ x \in S
  BY PowerGrows
<1>4. \A e \in 0 .. x : x <= 2 ^ e => 2 ^ e \in S
  OBVIOUS
<1>5. \A p \in S : p \in {2 ^ e : e \in 0 .. x} /\ x <= p
  OBVIOUS
<1> HIDE DEF S
<1>6. PICK p \in S : \A q \in S : p <= q
  BY <1>2, <1>3, LeastNumber
<1> QED BY <1>4, <1>5, <1>6
=============================================================================
