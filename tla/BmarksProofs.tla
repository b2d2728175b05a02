---------------------------- MODULE BmarksProofs ----------------------------
(***************************************************************************)
(* Proofs about the benchmarks as MCBmarks runs them, for every number of  *)
(* threads, keys, slots, objects and calls: the barriers of test.c keep    *)
(* its phases apart, and its counts agree with the table; the objects of   *)
(* snap_stress.c, math_cache.c and test_mem.c are in one place each, none  *)
(* lost and none freed twice, and hold the key they are looked at for.     *)
(***************************************************************************)
EXTENDS MCBmarks, NatFacts, FiniteSetTheorems, TLAPS

-----------------------------------------------------------------------------
(* Sums over finite sets.                                                  *)

Total(f, S) == MapThenSumSet(LAMBDA t : f[t], S)

(* The function that MapThenSumSet adds up with.                           *)
Pick(s) == CHOOSE x \in s : TRUE
Adds(g, f, S) ==
  g = [s \in SUBSET S |->
        IF s = {} THEN 0 ELSE f[Pick(s)] + g[s \ {Pick(s)}]]

LEMMA PickFacts ==
  ASSUME NEW S, IsFiniteSet(S), NEW s \in SUBSET S, s # {}
  PROVE  /\ Pick(s) \in s /\ s \ {Pick(s)} \in SUBSET S
         /\ s = (s \ {Pick(s)}) \cup {Pick(s)}
         /\ Cardinality(s) \in Nat /\ Cardinality(s \ {Pick(s)}) \in Nat
         /\ Cardinality(s) = Cardinality(s \ {Pick(s)}) + 1
         /\ Cardinality(s) <= Cardinality(S)
<1>1. Pick(s) \in s
  BY DEF Pick
<1>2. /\ IsFiniteSet(s) /\ Cardinality(s) <= Cardinality(S)
      /\ IsFiniteSet(s \ {Pick(s)})
  BY FS_Subset
<1>3. Cardinality(s \ {Pick(s)}) = Cardinality(s) - 1
  BY <1>1, <1>2, FS_RemoveElement
<1>4. Cardinality(s) \in Nat /\ Cardinality(s \ {Pick(s)}) \in Nat
  BY <1>2, FS_CardinalityType
<1> QED BY <1>1, <1>2, <1>3, <1>4

LEMMA SubsetInduction ==
  ASSUME NEW S, IsFiniteSet(S), NEW T, {} \in T,
         \A s \in SUBSET S : s # {} /\ s \ {Pick(s)} \in T => s \in T
  PROVE  SUBSET S \subseteq T
<1> DEFINE N == {n \in Nat : \A s \in SUBSET S : Cardinality(s) <= n => s \in T}
<1>1. Cardinality(S) \in Nat
  BY FS_CardinalityType
<1>2. 0 \in N
  <2>1. ASSUME NEW s \in SUBSET S, Cardinality(s) <= 0 PROVE s = {}
    <3>1. IsFiniteSet(s)
      BY FS_Subset
    <3>2. Cardinality(s) \in Nat
      BY <3>1, FS_CardinalityType
    <3>3. Cardinality(s) = 0
      BY <2>1, <3>2
    <3> QED BY <3>1, <3>3, FS_EmptySet
  <2> QED BY <2>1
<1>3. ASSUME NEW n \in 0 .. Cardinality(S) - 1, n \in N PROVE n + 1 \in N
  <2>1. n \in Nat
    BY <1>1
  <2>2. ASSUME NEW s \in SUBSET S, Cardinality(s) <= n + 1 PROVE s \in T
    <3>1. CASE s # {}
      <4>1. s \ {Pick(s)} \in SUBSET S /\ Cardinality(s \ {Pick(s)}) <= n
        BY <2>1, <2>2, <3>1, PickFacts
      <4>2. s \ {Pick(s)} \in T
        BY <1>3, <4>1
      <4> QED BY <3>1, <4>2
    <3> QED BY <3>1
  <2> QED BY <2>1, <2>2
<1> HIDE DEF N
<1>4. Cardinality(S) \in N
  <2>1. 0 .. Cardinality(S) \subseteq N
    BY <1>1, <1>2, <1>3, SetInduction
  <2> QED BY <1>1, <2>1
<1>5. ASSUME NEW s \in SUBSET S PROVE s \in T
  <2>1. Cardinality(s) <= Cardinality(S)
    BY FS_Subset
  <2> QED BY <1>4, <2>1 DEF N
<1> QED BY <1>5

LEMMA AddsExists ==
  ASSUME NEW S, IsFiniteSet(S), NEW f
  PROVE  \E g : Adds(g, f, S)
<1> DEFINE D(n) == {s \in SUBSET S : Cardinality(s) <= n}
           Upto(g, n) ==
             g = [s \in D(n) |->
                   IF s = {} THEN 0 ELSE f[Pick(s)] + g[s \ {Pick(s)}]]
           N == {n \in Nat : \E g : Upto(g, n)}
<1>1. Cardinality(S) \in Nat
  BY FS_CardinalityType
<1>2. ASSUME NEW n \in Nat, NEW s \in D(n), s # {}
      PROVE  s \ {Pick(s)} \in D(n) /\ Cardinality(s \ {Pick(s)}) <= n - 1
  BY <1>2, PickFacts
<1>3. 0 \in N
  <2> DEFINE g == [s \in D(0) |-> 0]
  <2>1. ASSUME NEW s \in D(0) PROVE s = {}
    <3>1. CASE s # {}
      <4>1. /\ Cardinality(s \ {Pick(s)}) <= 0 - 1
            /\ Cardinality(s \ {Pick(s)}) \in Nat
        BY <1>2, <3>1, PickFacts
      <4> QED BY <4>1
    <3> QED BY <3>1
  <2>2. Upto(g, 0)
    BY <2>1
  <2> QED BY <2>2
<1>4. ASSUME NEW n \in 0 .. Cardinality(S) - 1, n \in N PROVE n + 1 \in N
  <2>1. n \in Nat /\ D(n) \subseteq D(n + 1)
    <3>1. n \in Nat
      BY <1>1
    <3>2. ASSUME NEW s \in D(n) PROVE s \in D(n + 1)
      <4>1. IsFiniteSet(s)
        BY FS_Subset
      <4>2. Cardinality(s) \in Nat
        BY <4>1, FS_CardinalityType
      <4> QED BY <3>1, <4>2
    <3> QED BY <3>1, <3>2
  <2>2. PICK g : Upto(g, n)
    BY <1>4
  <2> DEFINE h == [s \in D(n + 1) |->
                    IF s = {} THEN 0 ELSE f[Pick(s)] + g[s \ {Pick(s)}]]
  <2>3. ASSUME NEW s \in D(n) PROVE h[s] = g[s]
    BY <2>1, <2>2
  <2>4. ASSUME NEW s \in D(n + 1), s # {} PROVE s \ {Pick(s)} \in D(n)
    <3>1. /\ Cardinality(s) \in Nat /\ Cardinality(s \ {Pick(s)}) \in Nat
          /\ Cardinality(s) = Cardinality(s \ {Pick(s)}) + 1
          /\ s \ {Pick(s)} \in SUBSET S
      BY <2>4, PickFacts
    <3>2. Cardinality(s) <= n + 1
      OBVIOUS
    <3>3. Cardinality(s \ {Pick(s)}) <= n
      BY <2>1, <3>1, <3>2
    <3> QED BY <3>1, <3>3
  <2>5. \A s \in D(n + 1) : s # {} => h[s \ {Pick(s)}] = g[s \ {Pick(s)}]
    BY <2>3, <2>4
  <2>6. \A s \in D(n + 1) :
          h[s] = IF s = {} THEN 0 ELSE f[Pick(s)] + h[s \ {Pick(s)}]
    BY <2>5
  <2>7. h = [s \in D(n + 1) |-> h[s]]
    OBVIOUS
  <2> HIDE DEF h
  <2>8. Upto(h, n + 1)
    BY <2>6, <2>7
  <2> HIDE DEF Upto, D
  <2>9. \E q : Upto(q, n + 1)
    BY <2>8
  <2> QED BY <2>1, <2>9
<1> HIDE DEF N
<1>5. Cardinality(S) \in N
  <2>1. 0 .. Cardinality(S) \subseteq N
    BY <1>1, <1>3, <1>4, SetInduction
  <2> QED BY <1>1, <2>1
<1>6. D(Cardinality(S)) = SUBSET S
  BY FS_Subset
<1>7. PICK g : Upto(g, Cardinality(S))
  BY <1>5 DEF N
<1> QED BY <1>6, <1>7 DEF Adds

LEMMA TotalAdds ==
  ASSUME NEW S, IsFiniteSet(S), NEW f
  PROVE  \E g : Adds(g, f, S) /\ Total(f, S) = g[S]
<1> DEFINE h == CHOOSE g : Adds(g, f, S)
<1>1. Adds(h, f, S)
  BY AddsExists
<1>2. Total(f, S) = h[S]
  BY DEF Total, MapThenSumSet, MapThenFoldSet, Adds, Pick
<1> QED BY <1>1, <1>2

LEMMA AddsAt ==
  ASSUME NEW S, NEW f, NEW g, Adds(g, f, S)
  PROVE  /\ g[{}] = 0
         /\ \A s \in SUBSET S : s # {} => g[s] = f[Pick(s)] + g[s \ {Pick(s)}]
<1>1. ASSUME NEW s \in SUBSET S
      PROVE  g[s] = IF s = {} THEN 0 ELSE f[Pick(s)] + g[s \ {Pick(s)}]
  BY DEF Adds
<1> QED BY <1>1

(* Total is what g, which adds up f, has for all of S.                     *)
TotalBy(g, f, S) ==
  /\ g[{}] = 0 /\ Total(f, S) = g[S]
  /\ \A s \in SUBSET S : s # {} => g[s] = f[Pick(s)] + g[s \ {Pick(s)}]

LEMMA TotalIs ==
  ASSUME NEW S, IsFiniteSet(S), NEW f
  PROVE  \E g : TotalBy(g, f, S)
<1>1. PICK g : Adds(g, f, S) /\ Total(f, S) = g[S]
  BY TotalAdds
<1>2. TotalBy(g, f, S)
  BY <1>1, AddsAt DEF TotalBy
<1> QED BY <1>2

LEMMA TotalPlus ==
  ASSUME NEW S, IsFiniteSet(S), NEW f \in [S -> Int], NEW d \in [S -> Int],
         NEW h, \A t \in S : h[t] = f[t] + d[t]
  PROVE  /\ Total(f, S) \in Int /\ Total(d, S) \in Int
         /\ Total(h, S) = Total(f, S) + Total(d, S)
<1>1. PICK a : TotalBy(a, f, S)
  BY TotalIs
<1>2. PICK b : TotalBy(b, d, S)
  BY TotalIs
<1>3. PICK c : TotalBy(c, h, S)
  BY TotalIs
<1> DEFINE T == {s \in SUBSET S : a[s] \in Int /\ b[s] \in Int /\ c[s] = a[s] + b[s]}
<1>4. {} \in T
  BY <1>1, <1>2, <1>3 DEF TotalBy
<1>5. ASSUME NEW s \in SUBSET S, s # {}, s \ {Pick(s)} \in T PROVE s \in T
  <2> DEFINE t == Pick(s)
             r == s \ {Pick(s)}
  <2>1. t \in S
    BY <1>5, PickFacts
  <2>2. a[s] = f[t] + a[r] /\ b[s] = d[t] + b[r] /\ c[s] = h[t] + c[r]
    BY <1>1, <1>2, <1>3, <1>5 DEF TotalBy
  <2>3. a[r] \in Int /\ b[r] \in Int /\ c[r] = a[r] + b[r]
    BY <1>5
  <2>4. f[t] \in Int /\ d[t] \in Int /\ h[t] = f[t] + d[t]
    BY <2>1
  <2> HIDE DEF t, r
  <2> QED BY <2>2, <2>3, <2>4
<1> HIDE DEF T
<1>6. S \in T
  <2>1. SUBSET S \subseteq T
    BY <1>4, <1>5, SubsetInduction
  <2> QED BY <2>1
<1> QED BY <1>1, <1>2, <1>3, <1>6 DEF T, TotalBy

LEMMA TotalPoint ==
  ASSUME NEW S, IsFiniteSet(S), NEW u \in S, NEW d, d[u] \in Int,
         \A t \in S \ {u} : d[t] = 0
  PROVE  Total(d, S) = d[u]
<1>1. PICK b : TotalBy(b, d, S)
  BY TotalIs
<1> DEFINE T == {s \in SUBSET S : b[s] = IF u \in s THEN d[u] ELSE 0}
<1>2. {} \in T
  BY <1>1 DEF TotalBy
<1>3. ASSUME NEW s \in SUBSET S, s # {}, s \ {Pick(s)} \in T PROVE s \in T
  <2>1. Pick(s) \in s /\ b[s] = d[Pick(s)] + b[s \ {Pick(s)}]
    BY <1>1, <1>3, PickFacts DEF TotalBy
  <2>2. b[s \ {Pick(s)}] = IF u \in s \ {Pick(s)} THEN d[u] ELSE 0
    BY <1>3
  <2>3. CASE u = Pick(s)
    BY <2>1, <2>2, <2>3
  <2>4. CASE u # Pick(s)
    <3>1. d[Pick(s)] = 0
      BY <2>1, <2>4
    <3> QED BY <2>1, <2>2, <2>4, <3>1
  <2> QED BY <2>3, <2>4
<1> HIDE DEF T
<1>4. S \in T
  <2>1. SUBSET S \subseteq T
    BY <1>2, <1>3, SubsetInduction
  <2> QED BY <2>1
<1> QED BY <1>1, <1>4 DEF T, TotalBy

LEMMA TotalSame ==
  ASSUME NEW S, IsFiniteSet(S), NEW f \in [S -> Int], NEW h,
         \A t \in S : h[t] = f[t]
  PROVE  Total(h, S) = Total(f, S) /\ Total(f, S) \in Int
<1>1. PICK a : TotalBy(a, f, S)
  BY TotalIs
<1>2. PICK c : TotalBy(c, h, S)
  BY TotalIs
<1> DEFINE T == {s \in SUBSET S : c[s] = a[s] /\ a[s] \in Int}
<1>3. {} \in T
  BY <1>1, <1>2 DEF TotalBy
<1>4. ASSUME NEW s \in SUBSET S, s # {}, s \ {Pick(s)} \in T PROVE s \in T
  <2>1. Pick(s) \in S
    BY <1>4, PickFacts
  <2>2. /\ a[s] = f[Pick(s)] + a[s \ {Pick(s)}]
        /\ c[s] = h[Pick(s)] + c[s \ {Pick(s)}]
    BY <1>1, <1>2, <1>4 DEF TotalBy
  <2>3. f[Pick(s)] \in Int /\ h[Pick(s)] = f[Pick(s)]
    BY <2>1
  <2> QED BY <1>4, <2>2, <2>3
<1> HIDE DEF T
<1>5. S \in T
  <2>1. SUBSET S \subseteq T
    BY <1>3, <1>4, SubsetInduction
  <2> QED BY <2>1
<1> QED BY <1>1, <1>2, <1>5 DEF T, TotalBy

LEMMA TotalChanged ==
  ASSUME NEW S, IsFiniteSet(S), NEW f \in [S -> Int], NEW h, NEW u \in S,
         NEW x \in Int, h[u] = f[u] + x, \A t \in S \ {u} : h[t] = f[t]
  PROVE  Total(h, S) = Total(f, S) + x /\ Total(f, S) \in Int
<1> DEFINE d == [t \in S |-> IF t = u THEN x ELSE 0]
<1>1. /\ d \in [S -> Int] /\ d[u] = x /\ \A t \in S \ {u} : d[t] = 0
      /\ \A t \in S : h[t] = f[t] + d[t]
  OBVIOUS
<1> HIDE DEF d
<1>2. Total(d, S) = x
  BY <1>1, TotalPoint
<1>3. /\ Total(f, S) \in Int
      /\ Total(h, S) = Total(f, S) + Total(d, S)
  BY <1>1, TotalPlus
<1> QED BY <1>2, <1>3

LEMMA TotalZero ==
  ASSUME NEW S, IsFiniteSet(S), NEW f, \A t \in S : f[t] = 0
  PROVE  Total(f, S) = 0
<1>1. PICK a : TotalBy(a, f, S)
  BY TotalIs
<1> DEFINE T == {s \in SUBSET S : a[s] = 0}
<1>2. {} \in T
  BY <1>1 DEF TotalBy
<1>3. ASSUME NEW s \in SUBSET S, s # {}, s \ {Pick(s)} \in T PROVE s \in T
  <2>1. Pick(s) \in S /\ a[s] = f[Pick(s)] + a[s \ {Pick(s)}]
    BY <1>1, <1>3, PickFacts DEF TotalBy
  <2> QED BY <1>3, <2>1
<1> HIDE DEF T
<1>4. S \in T
  <2>1. SUBSET S \subseteq T
    BY <1>2, <1>3, SubsetInduction
  <2> QED BY <2>1
<1> QED BY <1>1, <1>4 DEF T, TotalBy

(* n shares, of which r are one larger.                                    *)
LEMMA TotalShares ==
  ASSUME NEW n \in Nat, NEW r \in 0 .. n, NEW q \in Nat, NEW f,
         \A t \in 0 .. n - 1 : f[t] = q + (IF t < r THEN 1 ELSE 0)
  PROVE  Total(f, 0 .. n - 1) = n * q + r
<1> DEFINE S == 0 .. n - 1
           Low(s) == {t \in s : t < r}
<1>1. IsFiniteSet(S) /\ Cardinality(S) = n
  BY FS_Interval
<1>2. PICK a : TotalBy(a, f, S)
  BY <1>1, TotalIs
<1> DEFINE T == {s \in SUBSET S :
                  a[s] = Cardinality(s) * q + Cardinality(Low(s))}
<1>3. {} \in T
  <2>1. Low({}) = {} /\ Cardinality({}) = 0
    BY FS_EmptySet
  <2>2. a[{}] = 0
    BY <1>2 DEF TotalBy
  <2>3. 0 * q + 0 = 0
    OBVIOUS
  <2> QED BY <2>1, <2>2, <2>3
<1>4. ASSUME NEW s \in SUBSET S, s # {}, s \ {Pick(s)} \in T PROVE s \in T
  <2> DEFINE t == Pick(s)
             p == s \ {Pick(s)}
  <2>1. /\ t \in s /\ t \in S /\ p \subseteq S /\ s = p \cup {t} /\ t \notin p
        /\ Cardinality(p) \in Nat /\ Cardinality(s) = Cardinality(p) + 1
        /\ a[s] = f[t] + a[p]
    <3>1. IsFiniteSet(S) /\ s \in SUBSET S /\ s # {}
      BY <1>1, <1>4
    <3>2. a[s] = f[t] + a[p]
      BY <1>2, <3>1 DEF TotalBy
    <3> HIDE DEF S
    <3>3. /\ t \in s /\ p \subseteq S /\ s = p \cup {t}
          /\ Cardinality(p) \in Nat /\ Cardinality(s) = Cardinality(p) + 1
      BY <3>1, PickFacts
    <3> QED BY <3>1, <3>2, <3>3
  <2>2. a[p] = Cardinality(p) * q + Cardinality(Low(p))
    BY <1>4
  <2> HIDE DEF t, p
  <2>3. IsFiniteSet(p) /\ IsFiniteSet(Low(p))
    BY <1>1, <2>1, FS_Subset
  <2>4. Cardinality(Low(p)) \in Nat
    BY <2>3, FS_CardinalityType
  <2>5. Cardinality(Low(s)) = Cardinality(Low(p)) + (IF t < r THEN 1 ELSE 0)
    <3>1. CASE t < r
      <4>1. Low(s) = Low(p) \cup {t} /\ t \notin Low(p)
        BY <2>1, <3>1
      <4> HIDE DEF Low
      <4> QED BY <2>3, <2>4, <3>1, <4>1, FS_AddElement
    <3>2. CASE ~(t < r)
      <4>1. Low(s) = Low(p)
        BY <2>1, <3>2
      <4> HIDE DEF Low
      <4> QED BY <2>4, <3>2, <4>1
    <3> QED BY <3>1, <3>2
  <2>6. f[t] = q + (IF t < r THEN 1 ELSE 0)
    BY <2>1
  <2> DEFINE m == Cardinality(p)
  <2>7. m \in Nat /\ (m + 1) * q = m * q + q /\ m * q \in Nat
    <3>1. m \in Nat
      BY <2>1
    <3> HIDE DEF m
    <3> QED BY <3>1
  <2>8. a[s] = (m + 1) * q + Cardinality(Low(s))
    <3>1. a[s] = f[t] + a[p] /\ a[p] = m * q + Cardinality(Low(p))
      BY <2>1, <2>2
    <3> DEFINE y == m * q
               z == Cardinality(Low(p))
    <3>2. z \in Nat /\ y \in Nat /\ (m + 1) * q = y + q
          /\ a[s] = f[t] + a[p] /\ a[p] = y + z
      BY <2>4, <2>7, <3>1
    <3>3. Cardinality(Low(s)) = z + (IF t < r THEN 1 ELSE 0)
      BY <2>5
    <3> HIDE DEF y, z, m, Low
    <3> QED BY <2>6, <3>2, <3>3
  <2>9. Cardinality(s) = m + 1
    BY <2>1
  <2> QED BY <2>8, <2>9
<1>5. S \in T
  <2> HIDE DEF T, S
  <2>1. SUBSET S \subseteq T
    BY <1>1, <1>3, <1>4, SubsetInduction
  <2> QED BY <2>1
<1>6. Low(S) = 0 .. r - 1
  OBVIOUS
<1>7. Cardinality(0 .. r - 1) = r
  BY FS_Interval
<1> QED BY <1>1, <1>2, <1>5, <1>6, <1>7 DEF TotalBy

-----------------------------------------------------------------------------
(* Sizes of finite sets.                                                   *)

LEMMA SizeKept ==
  ASSUME NEW S, IsFiniteSet(S), NEW T, T = S
  PROVE  Cardinality(T) = Cardinality(S) /\ Cardinality(S) \in Nat
BY FS_CardinalityType

LEMMA SizeGrown ==
  ASSUME NEW S, IsFiniteSet(S), NEW x, x \notin S, NEW T, T = S \cup {x}
  PROVE  /\ Cardinality(T) = Cardinality(S) + 1
         /\ Cardinality(S) \in Nat /\ Cardinality(T) \in Nat
BY FS_AddElement, FS_CardinalityType

LEMMA SizeLost ==
  ASSUME NEW S, IsFiniteSet(S), NEW x \in S, NEW T, T = S \ {x}
  PROVE  /\ Cardinality(T) + 1 = Cardinality(S)
         /\ Cardinality(S) \in Nat /\ Cardinality(T) \in Nat
<1>1. IsFiniteSet(T) /\ Cardinality(T) = Cardinality(S) - 1
  BY FS_RemoveElement
<1> QED BY <1>1, FS_CardinalityType

LEMMA SizeLess ==
  ASSUME NEW S, IsFiniteSet(S), NEW T \in SUBSET S
  PROVE  /\ Cardinality(T) <= Cardinality(S)
         /\ Cardinality(S) \in Nat /\ Cardinality(T) \in Nat
BY FS_Subset, FS_CardinalityType

-----------------------------------------------------------------------------
(* Objects and the places where they are.                                  *)

(* What is in use (U) is in one place (p \in P) each: C[p] is the object   *)
(* there, or 0.                                                            *)
Once(C, P, U, O) ==
  /\ C \in [P -> O \cup {0}] /\ U \subseteq O
  /\ \A o \in O : o \in U <=> \E p \in P : C[p] = o
  /\ \A p, q \in P : C[p] = C[q] /\ C[p] # 0 => p = q

(* An object is replaced by a new one, taken away, or moved.               *)
LEMMA OncePut ==
  ASSUME NEW P, NEW O, NEW C, NEW U, 0 \notin O, Once(C, P, U, O),
         NEW p \in P, NEW b \in O, b \notin U
  PROVE  Once([C EXCEPT ![p] = b], P, (U \ {C[p]}) \cup {b}, O)
<1> DEFINE D == [C EXCEPT ![p] = b]
<1>1. /\ D \in [P -> O \cup {0}] /\ D[p] = b
      /\ \A q \in P \ {p} : D[q] = C[q]
  BY DEF Once
<1>2. \A q \in P : C[q] # b
  BY DEF Once
<1> HIDE DEF D
<1>3. \A q \in P \ {p} : D[q] # b
  BY <1>1, <1>2
<1>4. ASSUME NEW o \in O
      PROVE  o \in (U \ {C[p]}) \cup {b} <=> \E q \in P : D[q] = o
  <2>1. CASE o = b
    BY <1>1, <2>1
  <2>2. CASE o # b /\ o = C[p]
    <3>1. \A q \in P \ {p} : C[q] # o
      BY <2>2 DEF Once
    <3> QED BY <1>1, <2>2, <3>1
  <2>3. CASE o # b /\ o # C[p]
    <3>1. o \in U <=> \E q \in P \ {p} : C[q] = o
      BY <2>3 DEF Once
    <3> QED BY <1>1, <2>3, <3>1
  <2> QED BY <2>1, <2>2, <2>3
<1>5. \A q, s \in P : D[q] = D[s] /\ D[q] # 0 => q = s
  BY <1>1, <1>3 DEF Once
<1>6. (U \ {C[p]}) \cup {b} \subseteq O
  BY DEF Once
<1>7. Once(D, P, (U \ {C[p]}) \cup {b}, O)
  BY <1>1, <1>4, <1>5, <1>6 DEF Once
<1> QED BY <1>7 DEF D

LEMMA OnceTaken ==
  ASSUME NEW P, NEW O, NEW C, NEW U, 0 \notin O, Once(C, P, U, O), NEW p \in P
  PROVE  Once([C EXCEPT ![p] = 0], P, U \ {C[p]}, O)
<1> DEFINE D == [C EXCEPT ![p] = 0]
<1>1. /\ D \in [P -> O \cup {0}] /\ D[p] = 0
      /\ \A q \in P \ {p} : D[q] = C[q]
  BY DEF Once
<1> HIDE DEF D
<1>2. ASSUME NEW o \in O
      PROVE  o \in U \ {C[p]} <=> \E q \in P : D[q] = o
  <2>1. CASE o = C[p]
    <3>1. \A q \in P \ {p} : C[q] # o
      BY <2>1 DEF Once
    <3> QED BY <1>1, <2>1, <3>1
  <2>2. CASE o # C[p]
    <3>1. o \in U <=> \E q \in P \ {p} : C[q] = o
      BY <2>2 DEF Once
    <3> QED BY <1>1, <2>2, <3>1
  <2> QED BY <2>1, <2>2
<1>3. \A q, s \in P : D[q] = D[s] /\ D[q] # 0 => q = s
  BY <1>1 DEF Once
<1>4. U \ {C[p]} \subseteq O
  BY DEF Once
<1>5. Once(D, P, U \ {C[p]}, O)
  BY <1>1, <1>2, <1>3, <1>4 DEF Once
<1> QED BY <1>5 DEF D

LEMMA OnceMoved ==
  ASSUME NEW P, NEW O, NEW C, NEW D, NEW U, 0 \notin O, Once(C, P, U, O),
         NEW p \in P, NEW q \in P, p # q, C[q] = 0,
         D \in [P -> O \cup {0}], D[p] = 0, D[q] = C[p],
         \A s \in P \ {p, q} : D[s] = C[s]
  PROVE  Once(D, P, U, O)
<1>1. ASSUME NEW o \in O
      PROVE  o \in U <=> \E s \in P : D[s] = o
  <2>1. o \in U <=> \E s \in P : C[s] = o
    BY DEF Once
  <2>2. ASSUME NEW s \in P, C[s] = o PROVE \E r \in P : D[r] = o
    <3>1. CASE s = p
      BY <2>2, <3>1
    <3>2. CASE s # p
      BY <2>2, <3>2
    <3> QED BY <3>1, <3>2
  <2>3. ASSUME NEW s \in P, D[s] = o PROVE \E r \in P : C[r] = o
    <3>1. CASE s = q
      BY <2>3, <3>1
    <3>2. CASE s # q
      BY <2>3, <3>2
    <3> QED BY <3>1, <3>2
  <2> QED BY <2>1, <2>2, <2>3
<1>2. ASSUME NEW s \in P, NEW r \in P, D[s] = D[r], D[s] # 0 PROVE s = r
  <2>1. s # p /\ r # p
    BY <1>2
  <2>2. CASE s = q
    <3>1. C[p] # 0 /\ C[p] = D[r]
      BY <1>2, <2>2
    <3>2. r # q => C[r] = C[p] /\ r = p
      BY <2>1, <3>1 DEF Once
    <3> QED BY <2>1, <2>2, <3>2
  <2>3. CASE r = q
    <3>1. C[p] # 0 /\ C[p] = D[s]
      BY <1>2, <2>3
    <3>2. s # q => C[s] = C[p] /\ s = p
      BY <2>1, <3>1 DEF Once
    <3> QED BY <2>1, <2>3, <3>2
  <2>4. CASE s # q /\ r # q
    BY <1>2, <2>1, <2>4 DEF Once
  <2> QED BY <2>2, <2>3, <2>4
<1> QED BY <1>1, <1>2 DEF Once

(* How many places there are, when there is one at most.                   *)
LEMMA OneAtMost ==
  ASSUME NEW S, \A x, y \in S : x = y
  PROVE  IsFiniteSet(S) /\ Cardinality(S) = IF S = {} THEN 0 ELSE 1
<1>1. CASE S = {}
  BY <1>1, FS_EmptySet
<1>2. CASE S # {}
  <2>1. PICK x \in S : TRUE
    BY <1>2
  <2>2. S = {x}
    BY <2>1
  <2> QED BY <1>2, <2>2, FS_Singleton
<1> QED BY <1>1, <1>2

LEMMA PlacesCounted ==
  ASSUME NEW A, NEW B, NEW R, \A x, y \in A : x = y, \A x, y \in B : x = y,
         \A x, y \in R : x = y, A = {} \/ B = {}, A = {} \/ R = {},
         B = {} \/ R = {}
  PROVE  Cardinality(A) + Cardinality(B) + Cardinality(R)
           = IF A = {} /\ B = {} /\ R = {} THEN 0 ELSE 1
<1>1. /\ Cardinality(A) = IF A = {} THEN 0 ELSE 1
      /\ Cardinality(B) = IF B = {} THEN 0 ELSE 1
      /\ Cardinality(R) = IF R = {} THEN 0 ELSE 1
  BY OneAtMost
<1> QED BY <1>1

-----------------------------------------------------------------------------
(* The inductive invariant.                                                *)

BarrierNames == {"barrier", "barrier_global"}
Waiters(b) == {u \in waiting : Barrier(u) = b}

SyncType ==
  /\ DOMAIN pc = Procs
  /\ i \in [Procs -> Nat] /\ left \in [Ids -> Nat]
  /\ crossing \in [BarrierNames -> Nat]
  /\ waiting \subseteq Procs /\ woken \subseteq Procs

(* Who waits or has been woken is in barrier_cross; crossing counts those  *)
(* who wait; main crosses barrier_global only.                             *)
WaitInv ==
  /\ waiting \cap woken = {}
  /\ \A t \in waiting \cup woken : AtBarrier(t)
  /\ \A b \in BarrierNames : crossing[b] = Cardinality(Waiters(b))
  /\ pc[main] \in {"create", "global", "sleep", "join", "done"}

(* The threads that main has not created yet have done nothing.            *)
CreateInv ==
  At(main, "create") => \A t \in Ids : t >= i[main] => At(t, "new")

(* How often barrier has opened for t: it opens for all at once.           *)
Opened(t) == left[t] + (IF t \in woken /\ ~At(t, "global") THEN 1 ELSE 0)
RoundInv == \A t, u \in Ids : Opened(t) = Opened(u)

(* Whether barrier_global has opened for t.                                *)
Before == {"create", "new", "start", "fill", "filled", "global"}
Past(t) == pc[t] \notin Before \/ (At(t, "global") /\ t \in woken)
PastInv == \A t, u \in Procs : Past(t) <=> Past(u)

BarrierInv == SyncType /\ WaitInv /\ CreateInv /\ RoundInv /\ PastInv

(* The barriers work as long as no wait returns unasked.                   *)
IInv == spurious \in Nat /\ (spurious = 0 => BarrierInv)

-----------------------------------------------------------------------------
(* Facts about the threads and the barriers.                               *)

LEMMA ThreadFacts ==
  /\ Workers \in Nat \ {0} /\ main = Workers
  /\ main \in Procs /\ main \notin Ids /\ Ids \subseteq Procs /\ Ids \subseteq Nat
  /\ Procs = Ids \cup {main}
BY DriverAssumption DEF main, Procs, Ids

LEMMA ProcsCounted ==
  /\ IsFiniteSet(Ids) /\ Cardinality(Ids) = Workers
  /\ IsFiniteSet(Procs) /\ Cardinality(Procs) = Workers + 1
<1>1. Workers \in Nat \ {0} /\ 0 \in Int /\ Workers - 1 \in Int
  BY ThreadFacts
<1>2. IsFiniteSet(Ids) /\ Cardinality(Ids) = Workers
  BY <1>1, FS_Interval DEF Ids
<1>3. main \notin Ids
  BY ThreadFacts
<1>4. /\ IsFiniteSet(Ids \cup {main})
      /\ Cardinality(Ids \cup {main}) = Cardinality(Ids) + 1
  BY <1>2, <1>3, FS_AddElement
<1> QED BY <1>2, <1>4 DEF Procs

LEMMA WaitersFinite ==
  ASSUME waiting \subseteq Procs, NEW b
  PROVE  IsFiniteSet(Waiters(b)) /\ Waiters(b) \subseteq Procs
<1>1. Waiters(b) \subseteq Procs
  BY DEF Waiters
<1> QED BY <1>1, ProcsCounted, FS_Subset

(* When as many wait as there are others, all others wait.                 *)
LEMMA AllOthers ==
  ASSUME NEW S, IsFiniteSet(S), NEW t \in S, NEW T \in SUBSET (S \ {t}),
         Cardinality(T) + 1 >= Cardinality(S)
  PROVE  T = S \ {t}
<1>1. /\ IsFiniteSet(S \ {t}) /\ Cardinality(S \ {t}) = Cardinality(S) - 1
  BY FS_RemoveElement
<1>2. IsFiniteSet(T) /\ Cardinality(T) <= Cardinality(S \ {t})
      /\ (Cardinality(T) = Cardinality(S \ {t}) => T = S \ {t})
  BY <1>1, FS_Subset
<1>3. Cardinality(T) \in Nat /\ Cardinality(S) \in Nat
  BY <1>2, FS_CardinalityType
<1> QED BY <1>1, <1>2, <1>3

(* What the steps of one thread leave as it is.                            *)
Others(t) ==
  /\ DOMAIN pc' = Procs
  /\ \A u \in Procs \ {t} : pc'[u] = pc[u]

LEMMA GotoOthers ==
  ASSUME DOMAIN pc = Procs, NEW t \in Procs, NEW l, Goto(t, l)
  PROVE  Others(t) /\ pc'[t] = l
BY DEF Others, Goto

LEMMA SameBarrier ==
  ASSUME NEW t, Others(t), NEW u \in Procs, u # t
  PROVE  /\ AtBarrier(u)' <=> AtBarrier(u)
         /\ Barrier(u)' = Barrier(u)
         /\ At(u, "global")' <=> At(u, "global")
BY DEF Others, AtBarrier, Barrier, At

LEMMA SameWaiters ==
  ASSUME NEW t, Others(t), t \notin waiting, t \notin waiting', waiting \subseteq Procs,
         waiting' = waiting, NEW b
  PROVE  Waiters(b)' = Waiters(b)
<1>1. \A u \in waiting : Barrier(u)' = Barrier(u)
  BY SameBarrier
<1> QED BY <1>1 DEF Waiters

LEMMA BarrierName ==
  ASSUME NEW t
  PROVE  Barrier(t) \in BarrierNames
BY DEF Barrier, BarrierNames

-----------------------------------------------------------------------------
(* Steps outside of the barriers.                                          *)

LEMMA OutsideInv ==
  ASSUME BarrierInv, NEW t \in Procs, ~AtBarrier(t), Others(t),
         UNCHANGED <<crossing, waiting, woken, left>>,
         i' \in [Procs -> Nat],
         pc'[t] \in Before <=> pc[t] \in Before,
         pc'[main] \in {"create", "global", "sleep", "join", "done"},
         CreateInv'
  PROVE  BarrierInv'
<1>1. t \notin waiting \cup woken
  BY DEF BarrierInv, WaitInv
<1>2. SyncType'
  BY DEF BarrierInv, SyncType, Others
<1>3. WaitInv'
  <2>1. ASSUME NEW u \in waiting' \cup woken' PROVE AtBarrier(u)'
    <3>1. u \in Procs /\ u # t /\ AtBarrier(u)
      BY <1>1, <2>1 DEF BarrierInv, SyncType, WaitInv
    <3> QED BY <3>1, SameBarrier
  <2>2. ASSUME NEW b \in BarrierNames PROVE crossing'[b] = Cardinality(Waiters(b)')
    <3>1. Waiters(b)' = Waiters(b)
      BY <1>1, SameWaiters DEF BarrierInv, SyncType
    <3> QED BY <3>1 DEF BarrierInv, WaitInv
  <2>3. waiting' \cap woken' = {}
    BY DEF BarrierInv, WaitInv
  <2> QED BY <2>1, <2>2, <2>3 DEF WaitInv
<1>4. ASSUME NEW u \in Ids PROVE Opened(u)' = Opened(u)
  <2>1. u \in Procs
    BY ThreadFacts
  <2>2. CASE u = t
    BY <1>1, <2>2 DEF Opened
  <2>3. CASE u # t
    <3>1. At(u, "global")' <=> At(u, "global")
      BY <2>1, <2>3, SameBarrier
    <3> QED BY <3>1 DEF Opened
  <2> QED BY <2>2, <2>3
<1>5. RoundInv'
  BY <1>4 DEF BarrierInv, RoundInv
<1>6. ASSUME NEW u \in Procs PROVE Past(u)' <=> Past(u)
  <2>1. CASE u = t
    BY <1>1, <2>1 DEF Past, At
  <2>2. CASE u # t
    BY <2>2 DEF Past, At, Others
  <2> QED BY <2>1, <2>2
<1>7. PastInv'
  BY <1>6 DEF BarrierInv, PastInv
<1> QED BY <1>2, <1>3, <1>5, <1>7 DEF BarrierInv

(* Main is not disturbed by the others.                                    *)
LEMMA MainKept ==
  ASSUME BarrierInv, NEW t \in Ids, Others(t), i'[main] = i[main],
         At(t, "new")' <=> At(t, "new")
  PROVE  /\ pc'[main] \in {"create", "global", "sleep", "join", "done"}
         /\ CreateInv'
<1>1. pc'[main] = pc[main] /\ main # t
  BY ThreadFacts DEF Others
<1>2. \A u \in Ids : At(u, "new")' <=> At(u, "new")
  BY ThreadFacts DEF Others, At
<1> QED BY <1>1, <1>2 DEF BarrierInv, WaitInv, CreateInv, At

LEMMA TestInv ==
  ASSUME BarrierInv, NEW t \in Ids, Test(t) \/ Operation(t)
  PROVE  BarrierInv'
<1>1. t \in Procs /\ t # main /\ DOMAIN pc = Procs /\ i \in [Procs -> Nat]
  BY ThreadFacts DEF BarrierInv, SyncType
<1>2. UNCHANGED <<crossing, waiting, woken, left>>
  BY DEF Test, Operation, Fill, Filled, Stopped, Publish, PrintTurn, sync
<1>3. ~AtBarrier(t) /\ pc[t] # "new"
  BY
  DEF Test, Operation, Fill, Filled, Stopped, Publish, PrintTurn, At,
      AtBarrier,
         Barriers
<1>4. i' \in [Procs -> Nat] /\ i'[main] = i[main]
  <2>1. Workers - 1 \in Nat
    BY ThreadFacts
  <2>2. \/ i' = i \/ i' = [i EXCEPT ![t] = @ + 1]
        \/ i' = [i EXCEPT ![t] = 0] \/ i' = [i EXCEPT ![t] = Workers - 1]
    BY DEF Test, Operation, Fill, Filled, Stopped, Publish, PrintTurn
  <2>3. i[t] + 1 \in Nat
    BY <1>1
  <2>4. i' = i \/ \E n \in Nat : i' = [i EXCEPT ![t] = n]
    BY <2>1, <2>2, <2>3
  <2>5. CASE i' = i
    BY <1>1, <2>5
  <2>6. ASSUME NEW n \in Nat, i' = [i EXCEPT ![t] = n]
        PROVE  i' \in [Procs -> Nat] /\ i'[main] = i[main]
    BY <1>1, <2>6
  <2> QED BY <2>4, <2>5, <2>6
<1>5. \/ UNCHANGED pc
      \/ At(t, "fill") /\ Goto(t, "filled")
      \/ At(t, "run") /\ Goto(t, "stopped")
      \/ At(t, "publish") /\ Goto(t, "print")
      \/ At(t, "print") /\ Goto(t, "turn")
  BY DEF Test, Operation, Fill, Filled, Stopped, Publish, PrintTurn
<1>6. Others(t) /\ (pc'[t] \in Before <=> pc[t] \in Before) /\ pc'[t] # "new"
  BY <1>1, <1>3, <1>5 DEF Others, Goto, At, Before
<1>7. At(t, "new")' <=> At(t, "new")
  BY <1>3, <1>6 DEF At
<1> QED BY <1>1, <1>2, <1>3, <1>4, <1>6, <1>7, MainKept, OutsideInv

LEMMA MainInv ==
  ASSUME BarrierInv, Main
  PROVE  BarrierInv'
<1>1. /\ main \in Procs /\ DOMAIN pc = Procs /\ i \in [Procs -> Nat]
      /\ i[main] \in Nat
  BY ThreadFacts DEF BarrierInv, SyncType
<1>2. UNCHANGED <<crossing, waiting, woken, left>>
  BY DEF Main, Create, Stop, Join, Report, sync
<1>3. CASE At(main, "create") /\ i[main] < Workers
           /\ pc' = [pc EXCEPT ![i[main]] = "start"]
           /\ i' = [i EXCEPT ![main] = @ + 1]
  <2> DEFINE t == i[main]
  <2>1. t \in Ids /\ t \in Procs /\ t # main
    BY <1>1, <1>3, ThreadFacts DEF Ids
  <2>2. At(t, "new")
    BY <1>1, <1>3, <2>1 DEF BarrierInv, CreateInv
  <2>3. /\ Others(t) /\ pc'[t] = "start" /\ i' \in [Procs -> Nat]
        /\ i'[main] = t + 1
    BY <1>1, <1>3, <2>1 DEF Others
  <2>4. pc'[main] = pc[main]
    BY <1>1, <2>1, <2>3 DEF Others
  <2>5. ASSUME NEW u \in Ids, u >= t + 1 PROVE At(u, "new")'
    <3>1. u # t /\ u >= t /\ u \in Procs
      BY <1>1, <2>5, ThreadFacts
    <3> QED BY <1>3, <2>3, <3>1 DEF BarrierInv, CreateInv, Others, At
  <2>6. CreateInv'
    BY <2>3, <2>5 DEF CreateInv
  <2>7. ~AtBarrier(t) /\ (pc'[t] \in Before <=> pc[t] \in Before)
    BY <2>2, <2>3 DEF At, AtBarrier, Barriers, Before
  <2> HIDE DEF t
  <2> QED BY <1>2, <2>1, <2>3, <2>4, <2>6, <2>7, OutsideInv
  DEF BarrierInv, WaitInv
<1>4. ASSUME \/ At(main, "create") /\ Goto(main, "global") /\ i' = [i EXCEPT ![main] = 0]
             \/ At(main, "sleep") /\ Goto(main, "join") /\ UNCHANGED i
             \/ At(main, "join") /\ UNCHANGED pc /\ i' = [i EXCEPT ![main] = @ + 1]
             \/ At(main, "join") /\ Goto(main, "done") /\ i' = [i EXCEPT ![main] = 0]
      PROVE  BarrierInv'
  <2>1. /\ Others(main) /\ pc'[main] \in {"global", "join", "done"}
        /\ pc'[main] \in Before <=> pc[main] \in Before
    BY <1>1, <1>4 DEF Others, Goto, At, Before
  <2>2. i' \in [Procs -> Nat]
    BY <1>1, <1>4
  <2>3. ~AtBarrier(main)
    BY <1>4 DEF At, AtBarrier, Barriers
  <2>4. CreateInv'
    BY <2>1 DEF CreateInv, At
  <2> QED BY <1>1, <1>2, <2>1, <2>2, <2>3, <2>4, OutsideInv
<1> QED BY <1>3, <1>4 DEF Main, Create, Stop, Join, Report

-----------------------------------------------------------------------------
(* Steps of barrier_cross.                                                 *)

(* t waits in its barrier.                                                 *)
LEMMA ArriveInv ==
  ASSUME BarrierInv, NEW t \in Procs, Arrive(t)
  PROVE  BarrierInv'
<1>1. /\ AtBarrier(t) /\ t \notin waiting /\ t \notin woken
      /\ crossing' = [crossing EXCEPT ![Barrier(t)] = @ + 1]
      /\ waiting' = waiting \cup {t}
      /\ UNCHANGED <<pc, i, woken, left>>
  BY DEF Arrive
<1>2. ASSUME NEW u
      PROVE  (AtBarrier(u)' <=> AtBarrier(u)) /\ Barrier(u)' = Barrier(u)
  BY <1>1 DEF AtBarrier, Barrier, At
<1>3. SyncType'
  BY <1>1, BarrierName DEF BarrierInv, SyncType
<1>4. ASSUME NEW b \in BarrierNames PROVE crossing'[b] = Cardinality(Waiters(b)')
  <2>1. IsFiniteSet(Waiters(b)) /\ t \notin Waiters(b)
    BY <1>1, WaitersFinite DEF BarrierInv, SyncType, Waiters
  <2>2. crossing[b] = Cardinality(Waiters(b)) /\ crossing[b] \in Nat
    BY DEF BarrierInv, SyncType, WaitInv
  <2>3. CASE b = Barrier(t)
    <3>1. Waiters(b)' = Waiters(b) \cup {t}
      <4>1. \A u \in waiting' : Barrier(u)' = Barrier(u)
        BY <1>2
      <4> QED BY <1>1, <2>3, <4>1 DEF Waiters
    <3>2. Cardinality(Waiters(b) \cup {t}) = Cardinality(Waiters(b)) + 1
      BY <2>1, FS_AddElement
    <3>3. crossing'[b] = crossing[b] + 1
      BY <1>1, <2>3 DEF BarrierInv, SyncType
    <3> QED BY <2>2, <3>1, <3>2, <3>3
  <2>4. CASE b # Barrier(t)
    <3>1. Waiters(b)' = Waiters(b)
      <4>1. \A u \in waiting' : Barrier(u)' = Barrier(u)
        BY <1>2
      <4> QED BY <1>1, <2>4, <4>1 DEF Waiters
    <3>2. crossing'[b] = crossing[b]
      BY <1>1, <2>4 DEF BarrierInv, SyncType
    <3> QED BY <2>2, <3>1, <3>2
  <2> QED BY <2>3, <2>4
<1>5. WaitInv'
  <2>1. ASSUME NEW u \in waiting' \cup woken' PROVE AtBarrier(u)'
    <3>1. AtBarrier(u)
      BY <1>1, <2>1 DEF BarrierInv, WaitInv
    <3> QED BY <1>2, <3>1
  <2>2. waiting' \cap woken' = {}
    BY <1>1 DEF BarrierInv, WaitInv
  <2> QED BY <1>1, <1>4, <2>1, <2>2 DEF BarrierInv, WaitInv
<1>6. CreateInv' /\ RoundInv' /\ PastInv'
  BY <1>1 DEF BarrierInv, CreateInv, RoundInv, Opened, PastInv, Past, At
<1> QED BY <1>3, <1>5, <1>6 DEF BarrierInv

(* Where a thread goes on.                                                 *)
LEMMA CrossFacts ==
  ASSUME BarrierInv, NEW t \in Procs, AtBarrier(t), Cross(t)
  PROVE  /\ Others(t) /\ i' \in [Procs -> Nat] /\ left' \in [Ids -> Nat]
         /\ At(t, "global") => UNCHANGED left /\ pc'[t] \notin Before
         /\ ~At(t, "global") =>
              /\ t \in Ids /\ left' = [left EXCEPT ![t] = @ + 1]
              /\ pc'[t] \in Before <=> pc[t] \in Before
         /\ pc'[main] \in {"create", "global", "sleep", "join", "done"}
         /\ CreateInv'
<1>1. /\ DOMAIN pc = Procs /\ i \in [Procs -> Nat] /\ left \in [Ids -> Nat]
      /\ i[t] \in Nat
  BY DEF BarrierInv, SyncType
<1>2. pc[main] \in {"create", "global", "sleep", "join", "done"}
  BY DEF BarrierInv, WaitInv
<1>3. Others(t) /\ pc'[t] = Onward(t)
  BY <1>1, GotoOthers DEF Cross
<1>4. pc[t] \in {"start", "filled", "stopped", "turn", "global"}
  BY DEF AtBarrier, Barriers
<1>5. At(t, "global") \/ t \in Ids
  BY <1>2, <1>4, ThreadFacts DEF At
<1>6. i' \in [Procs -> Nat]
  <2>1. (IF At(t, "turn") /\ i[t] > 0 THEN i[t] - 1 ELSE 0) \in Nat
    BY <1>1
  <2> QED BY <1>1, <2>1 DEF Cross
<1>7. left' \in [Ids -> Nat]
  BY <1>1, <1>5 DEF Cross
<1>8. /\ At(t, "start") => Onward(t) = "fill"
      /\ At(t, "filled") => Onward(t) = "global"
      /\ At(t, "stopped") => Onward(t) = "publish"
      /\ At(t, "turn") => Onward(t) \in {"print", "exit"}
      /\ At(t, "global") /\ t # main => Onward(t) = "run"
      /\ At(t, "global") /\ t = main => Onward(t) = "sleep"
  BY <1>1 DEF Onward, At
<1>9. At(t, "global") => Onward(t) \in {"run", "sleep"}
  BY <1>8
<1>10. At(t, "global") => pc'[t] \notin Before
  BY <1>3, <1>9 DEF Before
<1>11. ~At(t, "global") => (pc'[t] \in Before <=> pc[t] \in Before)
  BY <1>3, <1>4, <1>8 DEF Before, At
<1>12. pc'[main] \in {"create", "global", "sleep", "join", "done"}
  <2>1. CASE t = main
    BY <1>3, <1>5, <1>8, <2>1, ThreadFacts
  <2>2. CASE t # main
    BY <1>2, <1>3, <2>2, ThreadFacts DEF Others
  <2> QED BY <2>1, <2>2
<1>13. CreateInv'
  <2>1. CASE t = main
    <3>1. ~At(main, "create")'
      BY <1>3, <1>5, <1>8, <2>1, ThreadFacts DEF At
    <3> QED BY <3>1 DEF CreateInv
  <2>2. CASE t # main
    <3>1. i'[main] = i[main] /\ pc'[main] = pc[main]
      BY <1>1, <1>3, <2>2, ThreadFacts DEF Cross, Others
    <3>2. \A u \in Ids : At(u, "new") => At(u, "new")'
      BY <1>3, <1>4, ThreadFacts DEF Others, At
    <3> QED BY <3>1, <3>2 DEF BarrierInv, CreateInv, At
  <2> QED BY <2>1, <2>2
<1> QED
  BY <1>3, <1>5, <1>6, <1>7, <1>10, <1>11, <1>12, <1>13 DEF Cross

(* A thread that has been woken leaves the barrier.                        *)
LEMMA WakeUpInv ==
  ASSUME BarrierInv, NEW t \in Procs, WakeUp(t)
  PROVE  BarrierInv'
<1>1. /\ t \in woken /\ woken' = woken \ {t} /\ UNCHANGED <<crossing, waiting>>
      /\ AtBarrier(t) /\ Cross(t) /\ t \notin waiting
      /\ waiting \subseteq Procs /\ woken \subseteq Procs
  BY DEF WakeUp, BarrierInv, WaitInv, SyncType
<1>2. /\ Others(t) /\ i' \in [Procs -> Nat] /\ left' \in [Ids -> Nat]
      /\ At(t, "global") => UNCHANGED left /\ pc'[t] \notin Before
      /\ ~At(t, "global") =>
           /\ t \in Ids /\ left' = [left EXCEPT ![t] = @ + 1]
           /\ pc'[t] \in Before <=> pc[t] \in Before
      /\ pc'[main] \in {"create", "global", "sleep", "join", "done"}
      /\ CreateInv'
  BY <1>1, CrossFacts
<1>3. SyncType'
  BY <1>1, <1>2 DEF BarrierInv, SyncType, Others
<1>4. WaitInv'
  <2>1. ASSUME NEW u \in waiting' \cup woken' PROVE AtBarrier(u)'
    <3>1. u \in Procs /\ u # t /\ AtBarrier(u)
      BY <1>1, <2>1 DEF BarrierInv, WaitInv
    <3> QED BY <1>2, <3>1, SameBarrier
  <2>2. ASSUME NEW b \in BarrierNames PROVE crossing'[b] = Cardinality(Waiters(b)')
    <3>1. Waiters(b)' = Waiters(b)
      BY <1>1, <1>2, SameWaiters
    <3> QED BY <1>1, <3>1 DEF BarrierInv, WaitInv
  <2>3. waiting' \cap woken' = {}
    BY <1>1 DEF BarrierInv, WaitInv
  <2> QED BY <1>2, <2>1, <2>2, <2>3 DEF WaitInv
<1>5. ASSUME NEW u \in Ids PROVE Opened(u)' = Opened(u)
  <2>1. u \in Procs /\ left[u] \in Nat
    BY ThreadFacts DEF BarrierInv, SyncType
  <2>2. CASE u # t
    <3>1. (At(u, "global")' <=> At(u, "global")) /\ left'[u] = left[u]
      BY <1>2, <2>1, <2>2, SameBarrier DEF BarrierInv, SyncType
    <3> QED BY <1>1, <2>2, <3>1 DEF Opened
  <2>3. CASE u = t /\ At(t, "global")
    BY <1>1, <1>2, <2>1, <2>3 DEF Opened
  <2>4. CASE u = t /\ ~At(t, "global")
    <3>1. left'[u] = left[u] + 1
      BY <1>2, <2>4 DEF BarrierInv, SyncType
    <3>2. Opened(u) = left[u] + 1
      BY <1>1, <2>4 DEF Opened
    <3>3. Opened(u)' = left'[u]
      BY <1>1, <2>1, <2>4, <3>1 DEF Opened
    <3> QED BY <3>1, <3>2, <3>3
  <2> QED BY <2>2, <2>3, <2>4
<1>6. RoundInv'
  BY <1>5 DEF BarrierInv, RoundInv
<1>7. ASSUME NEW u \in Procs PROVE Past(u)' <=> Past(u)
  <2>1. CASE u # t
    BY <1>1, <1>2, <2>1 DEF Past, At, Others
  <2>2. CASE u = t /\ At(t, "global")
    BY <1>1, <1>2, <2>2 DEF Past
  <2>3. CASE u = t /\ ~At(t, "global")
    BY <1>1, <1>2, <2>3 DEF Past
  <2> QED BY <2>1, <2>2, <2>3
<1>8. PastInv'
  BY <1>7 DEF BarrierInv, PastInv
<1> QED BY <1>2, <1>3, <1>4, <1>6, <1>8 DEF BarrierInv

(* The last to arrive finds all others in the barrier.                     *)
LEMMA AllArrived ==
  ASSUME BarrierInv, NEW t \in Procs, AtBarrier(t), t \notin waiting,
         crossing[Barrier(t)] + 1 >= Count(t)
  PROVE  /\ Fellows(t) = Waiters(Barrier(t))
         /\ At(t, "global") => Fellows(t) = Procs \ {t}
         /\ ~At(t, "global") => t \in Ids /\ Fellows(t) = Ids \ {t}
<1>1. Fellows(t) = Waiters(Barrier(t))
  BY DEF Fellows, Waiters
<1>2. Cardinality(Fellows(t)) + 1 >= Count(t)
  BY <1>1, BarrierName DEF BarrierInv, WaitInv
<1>3. /\ Fellows(t) \subseteq Procs \ {t}
      /\ \A u \in Fellows(t) : AtBarrier(u) /\ Barrier(u) = Barrier(t)
  BY DEF Fellows, BarrierInv, WaitInv, SyncType
<1>4. CASE At(t, "global")
  <2>1. Cardinality(Fellows(t)) + 1 >= Cardinality(Procs)
    BY <1>2, <1>4, ProcsCounted DEF Count
  <2>2. Fellows(t) = Procs \ {t}
    BY <1>3, <2>1, ProcsCounted, AllOthers
  <2> QED BY <1>1, <1>4, <2>2
<1>5. CASE ~At(t, "global")
  <2>1. ASSUME NEW u \in Procs, AtBarrier(u), ~At(u, "global") PROVE u \in Ids
    <3>1. ~AtBarrier(main) \/ At(main, "global")
      BY DEF BarrierInv, WaitInv, AtBarrier, Barriers, At
    <3> QED BY <2>1, <3>1, ThreadFacts
  <2>2. Fellows(t) \subseteq Ids \ {t}
    <3>1. ASSUME NEW u \in Fellows(t) PROVE u \in Ids
      <4>1. u \in Procs /\ AtBarrier(u) /\ ~At(u, "global")
        BY <1>3, <1>5 DEF Barrier
      <4> QED BY <2>1, <4>1
    <3> QED BY <1>3, <3>1
  <2>3. t \in Ids
    BY <1>5, <2>1
  <2>4. Cardinality(Fellows(t)) + 1 >= Cardinality(Ids)
    BY <1>2, <1>5, ProcsCounted DEF Count
  <2>5. Fellows(t) = Ids \ {t}
    BY <2>2, <2>3, <2>4, ProcsCounted, AllOthers
  <2> QED BY <1>1, <1>5, <2>3, <2>5
<1> QED BY <1>4, <1>5

LEMMA CompleteInv ==
  ASSUME BarrierInv, NEW t \in Procs, Complete(t)
  PROVE  BarrierInv'
<1>1. /\ AtBarrier(t) /\ t \notin waiting /\ t \notin woken
      /\ crossing[Barrier(t)] + 1 >= Count(t)
      /\ crossing' = [crossing EXCEPT ![Barrier(t)] = 0]
      /\ waiting' = waiting \ Fellows(t) /\ woken' = woken \cup Fellows(t)
      /\ Cross(t)
      /\ waiting \subseteq Procs /\ woken \subseteq Procs
  BY DEF Complete, Reset, BarrierInv, SyncType
<1>2. /\ Others(t) /\ i' \in [Procs -> Nat] /\ left' \in [Ids -> Nat]
      /\ At(t, "global") => UNCHANGED left /\ pc'[t] \notin Before
      /\ ~At(t, "global") =>
           /\ t \in Ids /\ left' = [left EXCEPT ![t] = @ + 1]
           /\ pc'[t] \in Before <=> pc[t] \in Before
      /\ pc'[main] \in {"create", "global", "sleep", "join", "done"}
      /\ CreateInv'
  BY <1>1, CrossFacts
<1>3. /\ Fellows(t) = Waiters(Barrier(t)) /\ Fellows(t) \subseteq waiting
      /\ At(t, "global") => Fellows(t) = Procs \ {t}
      /\ ~At(t, "global") => t \in Ids /\ Fellows(t) = Ids \ {t}
  <2>1. Fellows(t) \subseteq waiting
    BY DEF Fellows
  <2> QED BY <1>1, <2>1, AllArrived
<1>4. SyncType'
  BY <1>1, <1>2, <1>3 DEF BarrierInv, SyncType, Others
<1>5. ASSUME NEW u \in Procs, u # t
      PROVE  /\ AtBarrier(u)' <=> AtBarrier(u)
             /\ Barrier(u)' = Barrier(u)
             /\ At(u, "global")' <=> At(u, "global")
  BY <1>2, <1>5, SameBarrier
<1>6. WaitInv'
  <2>1. ASSUME NEW u \in waiting' \cup woken' PROVE AtBarrier(u)'
    <3>1. u \in Procs /\ u # t /\ AtBarrier(u)
      BY <1>1, <1>3, <2>1 DEF BarrierInv, WaitInv
    <3> QED BY <1>5, <3>1
  <2>2. ASSUME NEW b \in BarrierNames PROVE crossing'[b] = Cardinality(Waiters(b)')
    <3>1. \A u \in waiting' : u \in waiting /\ Barrier(u)' = Barrier(u)
      BY <1>1, <1>5
    <3>2. CASE b = Barrier(t)
      <4>1. ASSUME NEW u \in waiting' PROVE Barrier(u)' # b
        BY <1>1, <3>1, <3>2 DEF Fellows
      <4>2. Waiters(b)' = {}
        BY <4>1 DEF Waiters
      <4>3. crossing'[b] = 0
        BY <1>1, <3>2 DEF BarrierInv, SyncType
      <4> QED BY <4>2, <4>3, FS_EmptySet
    <3>3. CASE b # Barrier(t)
      <4>1. ASSUME NEW u \in waiting, Barrier(u) = b PROVE u \in waiting'
        BY <1>1, <3>3, <4>1 DEF Fellows
      <4>2. Waiters(b)' = Waiters(b)
        BY <3>1, <4>1 DEF Waiters
      <4>3. crossing'[b] = crossing[b]
        BY <1>1, <3>3 DEF BarrierInv, SyncType
      <4> QED BY <4>2, <4>3 DEF BarrierInv, WaitInv
    <3> QED BY <3>2, <3>3
  <2>3. waiting' \cap woken' = {}
    BY <1>1 DEF BarrierInv, WaitInv
  <2> QED BY <1>2, <2>1, <2>2, <2>3 DEF WaitInv
<1>7. CASE At(t, "global")
  <2>1. ASSUME NEW u \in Procs, u # t PROVE At(u, "global") /\ u \in waiting /\ u \in woken'
    <3>1. u \in Fellows(t)
      BY <1>3, <1>7, <2>1
    <3> QED BY <1>1, <1>7, <3>1 DEF Fellows, Barrier
  <2>2. RoundInv'
    <3>1. ASSUME NEW u \in Ids PROVE Opened(u)' = Opened(u)
      <4>1. CASE u = t
        BY <1>1, <1>2, <1>3, <1>7, <4>1 DEF Opened
      <4>2. CASE u # t
        <5>1. At(u, "global") /\ At(u, "global")'
          BY <1>5, <2>1, <4>2, ThreadFacts
        <5> QED BY <1>2, <1>7, <5>1 DEF Opened
      <4> QED BY <4>1, <4>2
    <3> QED BY <3>1 DEF BarrierInv, RoundInv
  <2>3. ASSUME NEW u \in Procs PROVE Past(u)'
    <3>1. CASE u = t
      BY <1>2, <1>7, <3>1 DEF Past
    <3>2. CASE u # t
      <4>1. At(u, "global")' /\ u \in woken'
        BY <1>5, <2>1, <3>2
      <4> QED BY <4>1 DEF Past
    <3> QED BY <3>1, <3>2
  <2>4. PastInv'
    BY <2>3 DEF PastInv
  <2> QED BY <1>2, <1>4, <1>6, <2>2, <2>4 DEF BarrierInv
<1>8. CASE ~At(t, "global")
  <2>1. t \in Ids /\ left' = [left EXCEPT ![t] = @ + 1] /\ t \notin woken'
    BY <1>1, <1>2, <1>3, <1>8
  <2>2. ASSUME NEW u \in Ids, u # t
        PROVE  ~At(u, "global") /\ u \in waiting /\ u \notin woken /\ u \in woken'
    <3>1. u \in Fellows(t)
      BY <1>3, <1>8, <2>2
    <3>2. Barrier(u) = Barrier(t)
      BY <3>1 DEF Fellows
    <3> QED BY <1>1, <1>3, <1>8, <3>1, <3>2 DEF Barrier, BarrierInv, WaitInv
  <2>3. ASSUME NEW u \in Ids PROVE Opened(u)' = Opened(u) + 1
    <3>1. left[u] \in Nat /\ u \in Procs
      BY ThreadFacts DEF BarrierInv, SyncType
    <3>2. CASE u = t
      <4>1. left'[u] = left[u] + 1
        BY <2>1, <3>2 DEF BarrierInv, SyncType
      <4> QED BY <1>1, <2>1, <3>1, <3>2, <4>1 DEF Opened
    <3>3. CASE u # t
      <4>1. left'[u] = left[u]
        BY <2>1, <3>3 DEF BarrierInv, SyncType
      <4>2. ~At(u, "global") /\ ~At(u, "global")' /\ u \notin woken /\ u \in woken'
        BY <1>5, <2>2, <3>1, <3>3
      <4> QED BY <3>1, <4>1, <4>2 DEF Opened
    <3> QED BY <3>2, <3>3
  <2>4. RoundInv'
    BY <2>3 DEF BarrierInv, RoundInv
  <2>5. ASSUME NEW u \in Procs PROVE Past(u)' <=> Past(u)
    <3>1. CASE u = t
      BY <1>1, <1>2, <1>8, <2>1, <3>1 DEF Past
    <3>2. CASE u # t
      <4>1. pc'[u] = pc[u] /\ (At(u, "global")' <=> At(u, "global"))
        BY <1>2, <3>2 DEF Others, At
      <4>2. At(u, "global") => (u \in woken' <=> u \in woken)
        BY <1>1, <1>3, <1>8, <2>2, <3>2
      <4> QED BY <4>1, <4>2 DEF Past
    <3> QED BY <3>1, <3>2
  <2>6. PastInv'
    BY <2>5 DEF BarrierInv, PastInv
  <2> QED BY <1>2, <1>4, <1>6, <2>4, <2>6 DEF BarrierInv
<1> QED BY <1>7, <1>8

-----------------------------------------------------------------------------
(* The invariant holds in every state.                                     *)

LEMMA InitInv ==
  ASSUME Init
  PROVE  IInv
<1>1. /\ DOMAIN pc = Procs /\ pc[main] = "create" /\ \A t \in Ids : pc[t] = "new"
      /\ waiting = {} /\ woken = {} /\ spurious = 0
      /\ i \in [Procs -> Nat] /\ left = [t \in Ids |-> 0]
      /\ crossing = [b \in BarrierNames |-> 0]
  BY ThreadFacts DEF Init, BarrierNames
<1>2. SyncType
  BY <1>1 DEF SyncType
<1>3. WaitInv
  <2>1. \A b : Waiters(b) = {}
    BY <1>1 DEF Waiters
  <2>2. \A b \in BarrierNames : crossing[b] = Cardinality(Waiters(b))
    BY <1>1, <2>1, FS_EmptySet
  <2> QED BY <1>1, <2>2 DEF WaitInv
<1>4. CreateInv
  BY <1>1 DEF CreateInv, At
<1>5. RoundInv
  BY <1>1 DEF RoundInv, Opened
<1>6. \A t \in Procs : ~Past(t)
  BY <1>1, ThreadFacts DEF Past, Before
<1>7. PastInv
  BY <1>6 DEF PastInv
<1> QED BY <1>1, <1>2, <1>3, <1>4, <1>5, <1>7 DEF IInv, BarrierInv

LEMMA BarrierStutter ==
  ASSUME BarrierInv, UNCHANGED <<pc, i, crossing, waiting, woken, left>>
  PROVE  BarrierInv'
<1>1. SyncType' /\ CreateInv' /\ RoundInv' /\ PastInv'
  BY DEF BarrierInv, SyncType, CreateInv, RoundInv, Opened, PastInv, Past, At
<1>2. WaitInv'
  <2>1. \A t : AtBarrier(t)' <=> AtBarrier(t)
    BY DEF AtBarrier
  <2>2. ASSUME NEW b PROVE Waiters(b)' = Waiters(b)
    BY DEF Waiters, Barrier, At
  <2>3. ASSUME NEW t \in waiting' \cup woken' PROVE AtBarrier(t)'
    BY DEF BarrierInv, WaitInv, AtBarrier
  <2>4. \A b \in BarrierNames : crossing'[b] = Cardinality(Waiters(b)')
    BY <2>2 DEF BarrierInv, WaitInv
  <2> QED BY <2>3, <2>4 DEF BarrierInv, WaitInv
<1> QED BY <1>1, <1>2 DEF BarrierInv

LEMMA NextInv ==
  ASSUME IInv, [Next]_vars
  PROVE  IInv'
<1>1. CASE \E t \in Procs : Spurious(t)
  BY <1>1 DEF Spurious, IInv
<1>2. ASSUME UNCHANGED spurious, BarrierInv => BarrierInv' PROVE IInv'
  BY <1>2 DEF IInv
<1>3. CASE UNCHANGED vars
  <2>1. UNCHANGED <<pc, i, crossing, waiting, woken, left, spurious>>
    BY <1>3 DEF vars, sync
  <2> QED BY <1>2, <2>1, BarrierStutter
<1>4. CASE Main
  <2>1. UNCHANGED spurious
    BY <1>4 DEF Main, Create, Stop, Join, Report, sync
  <2> QED BY <1>2, <1>4, <2>1, MainInv
<1>5. ASSUME NEW t \in Ids, Test(t) \/ Operation(t) PROVE IInv'
  <2>1. UNCHANGED spurious
    BY <1>5
    DEF Test, Operation, Fill, Filled, Stopped, Publish, PrintTurn, sync
  <2> QED BY <1>2, <1>5, <2>1, TestInv
<1>6. ASSUME NEW t \in Procs, BarrierStep(t) PROVE IInv'
  <2>1. UNCHANGED spurious
    BY <1>6 DEF BarrierStep
  <2> QED
    BY <1>2, <1>6, <2>1, ArriveInv, CompleteInv, WakeUpInv DEF BarrierStep
<1> QED BY <1>1, <1>3, <1>4, <1>5, <1>6 DEF Next

(* barrier_cross counts who waits, opens for all threads at once, and      *)
(* nobody goes on before: the basis of the theorem below.                  *)
THEOREM Invariance == Spec => []IInv
<1>1. Init => IInv
  BY InitInv
<1>2. IInv /\ [Next]_vars => IInv'
  BY NextInv
<1> QED BY <1>1, <1>2, PTL DEF Spec

(* No thread of test.c is more than one barrier ahead of another, and none *)
(* measures while another fills, as long as every pthread_cond_wait in     *)
(* barrier_cross returns because it was asked to.                          *)
THEOREM PhasesApart == Spec => []PhasesSeparate
<1>1. IInv => PhasesSeparate
  <2> SUFFICES ASSUME IInv, spurious = 0
               PROVE  /\ \A t, u \in Ids : left[t] <= left[u] + 1
                      /\ (\E t \in Ids : At(t, "run")) =>
                           \A t \in Ids : pc[t] \notin {"new", "start", "fill", "filled"}
    BY DEF PhasesSeparate, IInv
  <2>1. BarrierInv
    BY DEF IInv
  <2>2. ASSUME NEW t \in Ids, NEW u \in Ids PROVE left[t] <= left[u] + 1
    <3>1. left[t] \in Nat /\ left[u] \in Nat /\ Opened(t) = Opened(u)
      BY <2>1 DEF BarrierInv, SyncType, RoundInv
    <3> QED BY <3>1 DEF Opened
  <2>3. ASSUME NEW t \in Ids, At(t, "run"), NEW u \in Ids
        PROVE  pc[u] \notin {"new", "start", "fill", "filled"}
    <3>1. Past(t)
      BY <2>3 DEF Past, At, Before
    <3>2. Past(u)
      BY <2>1, <3>1, ThreadFacts DEF BarrierInv, PastInv
    <3> QED BY <3>2 DEF Past, At, Before
  <2> QED BY <2>2, <2>3
<1> QED BY <1>1, Invariance, PTL

-----------------------------------------------------------------------------
(* test.c: the invariant of the counts, which every wake-up leaves alone.  *)

ThreadLabels == Labels \ {"create", "sleep", "join", "done"}
MainLabels == {"create", "global", "sleep", "join", "done"}
Published == {"print", "turn", "exit"}
Most == Max({Initial, Workers})

DrType ==
  /\ pc \in [Procs -> Labels] /\ i \in [Procs -> 0 .. Most]
  /\ crossing \in [BarrierNames -> Nat]
  /\ crossing["barrier"] < Workers /\ crossing["barrier_global"] <= Workers
  /\ waiting \subseteq Procs /\ woken \subseteq Procs
  /\ waiting \cap woken = {}
  /\ store \in [Keys -> {NoVal} \cup 0 .. Words]
  /\ puts \in [Ids -> 0 .. MaxOps] /\ rems \in [Ids -> 0 .. MaxOps]
  /\ putting \in [Ids -> 0 .. MaxOps] /\ removing \in [Ids -> 0 .. MaxOps]
  /\ ops \in 0 .. MaxOps /\ spurious \in 0 .. MaxSpurious
  /\ missed \in 0 .. ops

(* Threads that main has not created have not begun, and those it has      *)
(* joined have ended.                                                      *)
DrMain ==
  /\ pc[main] \in MainLabels
  /\ At(main, "create") => \A t \in Ids : t >= i[main] => At(t, "new")
  /\ At(main, "sleep") => i[main] = 0
  /\ At(main, "join") => \A t \in Ids : t < i[main] => At(t, "exit")
  /\ At(main, "done") => \A t \in Ids : At(t, "exit")

DrThread(t) ==
  /\ pc[t] \in ThreadLabels
  /\ At(t, "fill") => i[t] <= Share(t)
  /\ puts[t] <= ops /\ rems[t] <= ops
  /\ putting[t] = IF pc[t] \in Published THEN puts[t] ELSE 0
  /\ removing[t] = IF pc[t] \in Published THEN rems[t] ELSE 0

(* What t has put into the table, less what it counts as removed.          *)
Given(t) ==
  (CASE pc[t] \in {"new", "start"} -> 0
     [] At(t, "fill") -> i[t]
     [] OTHER -> Share(t)) + puts[t] - rems[t]
Gives == [t \in Ids |-> Given(t)]
DrCounted == Cardinality(Present) + missed = Total(Gives, Ids)

DrInv ==
  /\ DrType /\ DrMain /\ (\A t \in waiting \cup woken : AtBarrier(t))
  /\ (\A t \in Ids : DrThread(t)) /\ DrCounted

-----------------------------------------------------------------------------
(* test.c: what its steps do to the counts.                                *)

LEMMA DrConstants ==
  /\ Initial \in Nat /\ Workers \in Nat \ {0} /\ MaxOps \in Nat
  /\ MaxSpurious \in Nat
  /\ Most \in Nat /\ Initial <= Most /\ Workers <= Most
  /\ Words \in Nat \ {0}
<1>1. /\ Initial \in Nat /\ Workers \in Nat \ {0} /\ MaxOps \in Nat
      /\ MaxSpurious \in Nat /\ IntBits \in Nat
  BY DriverAssumption
<1>2. Words \in Nat \ {0}
  <2>1. 2 ^ IntBits \in Nat /\ 1 <= 2 ^ IntBits
    BY <1>1, PowerGrows
  <2> QED BY <2>1 DEF Words
<1>3. Most \in {Initial, Workers} /\ Most >= Initial /\ Most >= Workers
  <2>1. \E m \in {Initial, Workers} : \A n \in {Initial, Workers} : m >= n
    <3>1. CASE Initial >= Workers
      BY <1>1, <3>1
    <3>2. CASE ~(Initial >= Workers)
      BY <1>1, <3>2
    <3> QED BY <3>1, <3>2
  <2>2. Most = CHOOSE m \in {Initial, Workers} :
                 \A n \in {Initial, Workers} : m >= n
    BY DEF Most, Max
  <2> QED BY <2>1, <2>2
<1> QED BY <1>1, <1>2, <1>3

(* The shares of the threads, and their sum.                               *)
LEMMA ShareFacts ==
  /\ \A t \in Ids : Share(t) \in Nat /\ Share(t) <= Initial
  /\ Total([t \in Ids |-> Share(t)], Ids) = Initial
<1> DEFINE q == Initial \div Workers
           r == Initial % Workers
           f == [t \in Ids |-> Share(t)]
<1>1. /\ q \in Nat /\ r \in 0 .. Workers - 1 /\ Workers * q + r = Initial
      /\ Workers \in Nat \ {0}
  BY DrConstants
<1>2. \A t \in Ids : Share(t) = q + (IF t < r THEN 1 ELSE 0)
  BY DEF Share
<1>3. q <= Workers * q /\ Workers * q \in Nat
  <2> HIDE DEF q
  <2>1. 1 * q <= Workers * q /\ Workers * q \in Nat
    BY <1>1, TimesMonotone
  <2> QED BY <1>1, <2>1
<1>4. ASSUME NEW t \in Ids PROVE Share(t) \in Nat /\ Share(t) <= Initial
  <2> DEFINE w == Workers * q
  <2>1. /\ q \in Nat /\ r \in Nat /\ q <= w /\ w \in Nat /\ w + r = Initial
        /\ Share(t) = q + (IF t < r THEN 1 ELSE 0) /\ t \in Nat
    BY <1>1, <1>2, <1>3, ThreadFacts
  <2> HIDE DEF q, r, w
  <2> QED BY <2>1
<1>5. \A t \in 0 .. Workers - 1 : f[t] = q + (IF t < r THEN 1 ELSE 0)
  BY <1>2 DEF Ids
<1>6. r \in 0 .. Workers
  BY <1>1
<1> HIDE DEF q, r, f
<1>7. Total(f, 0 .. Workers - 1) = Workers * q + r
  BY <1>1, <1>5, <1>6, TotalShares
<1> QED BY <1>1, <1>4, <1>7 DEF f, Ids

DrSame(u) == pc'[u] = pc[u] /\ i'[u] = i[u]
DrOthersSame(t) == \A u \in Procs \ {t} : DrSame(u)
DrCalls(u) ==
  /\ puts'[u] = puts[u] /\ rems'[u] = rems[u]
  /\ putting'[u] = putting[u] /\ removing'[u] = removing[u]

LEMMA DrFacts ==
  ASSUME DrInv
  PROVE  /\ DrType /\ DrMain /\ DrCounted
         /\ \A t \in waiting \cup woken : AtBarrier(t)
         /\ \A t \in Ids : DrThread(t)
BY DEF DrInv

(* Whom main has created and not joined may step.                          *)
LEMMA DrMainKept ==
  ASSUME DrInv, NEW t \in Ids, DrOthersSame(t), pc[t] \notin {"new", "exit"}
  PROVE  DrMain'
<1>1. /\ main \in Procs \ {t} /\ Ids \subseteq Procs /\ DrMain
  BY ThreadFacts DEF DrInv
<1>2. pc'[main] = pc[main] /\ i'[main] = i[main]
  BY <1>1 DEF DrOthersSame, DrSame
<1>3. \A u \in Ids : /\ At(u, "new") => At(u, "new")'
                     /\ At(u, "exit") => At(u, "exit")'
  BY <1>1 DEF DrOthersSame, DrSame, At
<1> QED BY <1>1, <1>2, <1>3 DEF DrMain, At

LEMMA DrThreadKept ==
  ASSUME NEW u \in Ids, DrThread(u), DrSame(u), DrCalls(u), DrType, DrType',
         ops <= ops'
  PROVE  DrThread(u)'
<1>1. /\ puts[u] \in Nat /\ rems[u] \in Nat /\ ops \in Nat /\ ops' \in Nat
      /\ puts[u] <= ops /\ rems[u] <= ops
  BY DrConstants DEF DrType, DrThread
<1>2. puts'[u] <= ops' /\ rems'[u] <= ops'
  BY <1>1 DEF DrCalls
<1> QED BY <1>2 DEF DrThread, DrSame, DrCalls, At

LEMMA DrGivenKept ==
  ASSUME NEW u \in Ids, DrSame(u), DrCalls(u)
  PROVE  Given(u)' = Given(u)
BY DEF Given, DrSame, DrCalls, At

LEMMA DrFinite ==
  /\ IsFiniteSet(Ids) /\ IsFiniteSet(Present)
  /\ Cardinality(Present) \in Nat
<1>1. IsFiniteSet(Keys)
  <2>1. 1 \in Int /\ KeyRange \in Int
    BY DriverAssumption
  <2> QED BY <2>1, FS_Interval DEF Keys
<1>2. Present \subseteq Keys
  BY DEF Present
<1> QED BY <1>1, <1>2, ProcsCounted, FS_Subset, FS_CardinalityType

LEMMA DrGivesTyped ==
  ASSUME DrType
  PROVE  /\ Gives \in [Ids -> Int]
         /\ \A t \in Ids : /\ puts[t] \in Nat /\ rems[t] \in Nat
                           /\ i[t] \in Nat /\ Given(t) \in Int
<1>1. ASSUME NEW t \in Ids
      PROVE  /\ puts[t] \in Nat /\ rems[t] \in Nat /\ i[t] \in Nat
             /\ Given(t) \in Int
  <2>1. puts[t] \in Nat /\ rems[t] \in Nat /\ i[t] \in Nat
    BY DrConstants, ThreadFacts DEF DrType
  <2>2. Share(t) \in Nat
    BY ShareFacts
  <2> DEFINE n == CASE pc[t] \in {"new", "start"} -> 0
                    [] At(t, "fill") -> i[t]
                    [] OTHER -> Share(t)
  <2>3. n \in Nat
    BY <2>1, <2>2
  <2>4. Given(t) = n + puts[t] - rems[t]
    BY DEF Given
  <2> HIDE DEF n
  <2> QED BY <2>1, <2>3, <2>4
<1> QED BY <1>1 DEF Gives

LEMMA DrGivesNext ==
  /\ Total(Gives, Ids)' = Total(Gives', Ids)
  /\ \A t \in Ids : Gives'[t] = Given(t)' /\ Gives[t] = Given(t)
BY DEF Gives, Total, MapThenSumSet, MapThenFoldSet

LEMMA DrCountedSame ==
  ASSUME DrInv, UNCHANGED <<store, missed>>,
         \A u \in Ids : Given(u)' = Given(u)
  PROVE  DrCounted'
<1>1. Gives \in [Ids -> Int] /\ DrCounted
  BY DrGivesTyped, DrFacts
<1>2. \A u \in Ids : Gives'[u] = Gives[u]
  BY DrGivesNext
<1>3. Total(Gives', Ids) = Total(Gives, Ids)
  BY <1>1, <1>2, DrFinite, TotalSame
<1>4. Present' = Present
  BY DEF Present
<1> QED BY <1>1, <1>3, <1>4, DrGivesNext DEF DrCounted

(* One entry more or less, with one thread to account for it.              *)
LEMMA DrCountedChange ==
  ASSUME DrInv, NEW t \in Ids, NEW x \in Int, Given(t)' = Given(t) + x,
         \A u \in Ids \ {t} : Given(u)' = Given(u),
         Cardinality(Present') + missed' = Cardinality(Present) + missed + x
  PROVE  DrCounted'
<1>1. Gives \in [Ids -> Int] /\ DrCounted
  BY DrGivesTyped, DrFacts
<1>2. /\ Gives'[t] = Gives[t] + x
      /\ \A u \in Ids \ {t} : Gives'[u] = Gives[u]
  BY DrGivesNext
<1>3. /\ Total(Gives', Ids) = Total(Gives, Ids) + x
      /\ Total(Gives, Ids) \in Int
  BY <1>1, <1>2, DrFinite, TotalChanged
<1>4. Cardinality(Present) + missed = Total(Gives, Ids)
  BY <1>1 DEF DrCounted
<1>5. Cardinality(Present') + missed' = Total(Gives', Ids)
  BY <1>3, <1>4
<1> QED BY <1>5, DrGivesNext DEF DrCounted

-----------------------------------------------------------------------------
(* test.c: the steps of the barriers.                                      *)

LEMMA OnwardIs ==
  ASSUME NEW t \in Procs, DrMain, (t # main => DrThread(t)), AtBarrier(t),
         DrType
  PROVE  \/ At(t, "start") /\ t \in Ids /\ Onward(t) = "fill"
         \/ At(t, "filled") /\ t \in Ids /\ Onward(t) = "global"
         \/ At(t, "global") /\ t \in Ids /\ Onward(t) = "run"
         \/ At(t, "global") /\ t = main /\ Onward(t) = "sleep"
         \/ At(t, "stopped") /\ t \in Ids /\ Onward(t) = "publish"
         \/ At(t, "turn") /\ t \in Ids /\ Onward(t) \in {"print", "exit"}
<1>1. t \in Ids \/ t = main
  BY ThreadFacts
<1>2. pc[t] \in {"start", "filled", "stopped", "turn", "global"}
  BY DEF AtBarrier, Barriers
<1>3. t = main => pc[t] = "global"
  BY <1>2 DEF DrMain, MainLabels
<1>4. t = main => t \notin Ids
  BY ThreadFacts
<1>5. At(t, "start") => Onward(t) = "fill"
  BY DEF Onward, At
<1>6. At(t, "filled") => Onward(t) = "global"
  BY DEF Onward, At
<1>7. At(t, "global") => Onward(t) = IF t = main THEN "sleep" ELSE "run"
  BY DEF Onward, At
<1>8. At(t, "stopped") => Onward(t) = "publish"
  BY DEF Onward, At
<1>9. At(t, "turn") => Onward(t) \in {"print", "exit"}
  <2>1. i[t] \in Nat
    BY DrConstants DEF DrType
  <2>2. CASE i[t] > 0
    BY <2>2 DEF Onward, At
  <2>3. CASE i[t] = 0
    BY <2>3 DEF Onward, At
  <2> QED BY <2>1, <2>2, <2>3
<1> QED
  BY <1>1, <1>2, <1>3, <1>4, <1>5, <1>6, <1>7, <1>8, <1>9 DEF At

LEMMA DrCross ==
  ASSUME DrInv, NEW t \in Procs, AtBarrier(t), Cross(t),
         UNCHANGED <<store, puts, rems, putting, removing, ops, missed>>
  PROVE  /\ pc' \in [Procs -> Labels] /\ i' \in [Procs -> 0 .. Most]
         /\ DrOthersSame(t)
         /\ DrType' => DrMain' /\ (\A u \in Ids : DrThread(u)') /\ DrCounted'
<1>1. /\ DrType /\ DrMain /\ \A u \in Ids : DrThread(u)
      /\ pc \in [Procs -> Labels] /\ i \in [Procs -> 0 .. Most]
      /\ t \in Ids \/ t = main
  BY DrFacts, ThreadFacts DEF DrType
<1>2. /\ pc' = [pc EXCEPT ![t] = Onward(t)]
      /\ i' = [i EXCEPT ![t] = IF At(t, "turn") /\ @ > 0 THEN @ - 1 ELSE 0]
  BY DEF Cross, Goto
<1>3. \/ At(t, "start") /\ t \in Ids /\ Onward(t) = "fill"
      \/ At(t, "filled") /\ t \in Ids /\ Onward(t) = "global"
      \/ At(t, "global") /\ t \in Ids /\ Onward(t) = "run"
      \/ At(t, "global") /\ t = main /\ Onward(t) = "sleep"
      \/ At(t, "stopped") /\ t \in Ids /\ Onward(t) = "publish"
      \/ At(t, "turn") /\ t \in Ids /\ Onward(t) \in {"print", "exit"}
  BY <1>1, OnwardIs
<1>4. Onward(t) \in Labels
  BY <1>3 DEF Labels
<1>5. PICK m \in 0 .. Most : i' = [i EXCEPT ![t] = m]
                             /\ (~At(t, "turn") => m = 0)
  <2> DEFINE e == IF At(t, "turn") /\ i[t] > 0 THEN i[t] - 1 ELSE 0
  <2>1. i[t] \in 0 .. Most /\ Most \in Nat
    BY <1>1, DrConstants
  <2>2. e \in 0 .. Most /\ (~At(t, "turn") => e = 0)
    BY <2>1
  <2>3. i' = [i EXCEPT ![t] = e]
    BY <1>2
  <2> HIDE DEF e
  <2> QED BY <2>2, <2>3
<1>6. /\ pc' \in [Procs -> Labels] /\ i' \in [Procs -> 0 .. Most]
      /\ pc'[t] = Onward(t) /\ i'[t] = m
      /\ DrOthersSame(t)
  BY <1>1, <1>2, <1>4, <1>5 DEF DrOthersSame, DrSame
<1>7. ASSUME DrType' PROVE DrMain'
  <2>1. CASE t \in Ids
    <3>1. pc[t] \notin {"new", "exit"}
      BY <1>3 DEF At
    <3> QED BY <1>6, <2>1, <3>1, DrMainKept
  <2>2. CASE t = main
    <3>1. pc'[main] = "sleep" /\ i'[main] = 0
      BY <1>3, <1>5, <1>6, <2>2, ThreadFacts DEF At
    <3> QED BY <3>1 DEF DrMain, At, MainLabels
  <2> QED BY <1>1, <2>1, <2>2
<1>8. \A u \in Ids : DrCalls(u)
  BY DEF DrCalls
<1>9. ASSUME DrType', NEW u \in Ids PROVE DrThread(u)' /\ Given(u)' = Given(u)
  <2>1. CASE u # t
    <3>1. DrSame(u) /\ ops' = ops /\ ops \in Nat
      BY <1>1, <1>6, <2>1, ThreadFacts, DrConstants DEF DrOthersSame, DrType
    <3>2. ops <= ops'
      BY <3>1
    <3> QED BY <1>1, <1>8, <1>9, <3>1, <3>2, DrThreadKept, DrGivenKept
  <2>2. CASE u = t
    <3>1. Share(t) \in Nat
      BY <2>2, ShareFacts
    <3>2. pc'[t] = "fill" => m = 0
      BY <1>3, <1>5, <1>6 DEF At
    <3>3. DrThread(t)'
      <4>1. DrThread(t) /\ t \in Ids /\ t # main
        BY <1>1, <2>2, ThreadFacts
      <4>2. /\ pc'[t] \in ThreadLabels
            /\ pc'[t] \in Published <=> pc[t] \in Published
        BY <1>3, <1>6, <4>1
        DEF At, ThreadLabels, Labels, Barriers, Published
      <4>3. At(t, "fill")' => i'[t] <= Share(t)
        BY <1>6, <3>1, <3>2, <2>2 DEF At
      <4> QED BY <4>1, <4>2, <4>3 DEF DrThread
    <3>4. Given(t)' = Given(t)
      <4>1. CASE At(t, "start")
        <5>1. pc'[t] = "fill" /\ i'[t] = 0
          BY <1>3, <1>6, <3>2, <4>1 DEF At
        <5> QED BY <4>1, <5>1 DEF Given, At
      <4>2. CASE ~At(t, "start")
        <5>1. /\ pc[t] \notin {"new", "start", "fill"}
              /\ pc'[t] \notin {"new", "start", "fill"}
          BY <1>3, <1>6, <2>2, <4>2, ThreadFacts DEF At
        <5> QED BY <5>1 DEF Given, At
      <4> QED BY <4>1, <4>2
    <3> QED BY <2>2, <3>3, <3>4
  <2> QED BY <2>1, <2>2
<1>10. DrType' => DrCounted'
  BY <1>9, DrCountedSame
<1> QED BY <1>6, <1>7, <1>9, <1>10

LEMMA DrAtBarriers ==
  ASSUME DrInv, NEW t, DrOthersSame(t),
         waiting' \cup woken' \subseteq (waiting \cup woken) \ {t}
  PROVE  \A u \in waiting' \cup woken' : AtBarrier(u)'
<1>1. ASSUME NEW u \in waiting' \cup woken' PROVE AtBarrier(u)'
  <2>1. u \in waiting \cup woken /\ u # t /\ u \in Procs /\ AtBarrier(u)
    BY DrFacts DEF DrType
  <2> QED BY <2>1 DEF DrOthersSame, DrSame, AtBarrier
<1> QED BY <1>1

LEMMA DrBarrierInv ==
  ASSUME DrInv, NEW t \in Procs, BarrierStep(t) \/ Spurious(t)
  PROVE  DrInv'
<1>1. /\ DrType /\ DrMain /\ DrCounted /\ (\A u \in Ids : DrThread(u))
      /\ crossing \in [BarrierNames -> Nat] /\ Barrier(t) \in BarrierNames
      /\ crossing["barrier"] < Workers
      /\ crossing["barrier_global"] <= Workers
      /\ Workers \in Nat \ {0}
      /\ waiting \subseteq Procs /\ woken \subseteq Procs
      /\ waiting \cap woken = {}
  BY DrFacts, BarrierName, DrConstants DEF DrType
<1>2. UNCHANGED <<stop, store, puts, rems, putting, removing, ops, missed>>
  BY DEF BarrierStep, Spurious, counts, table
<1>3. CASE BarrierStep(t) /\ Arrive(t)
  <2>1. /\ UNCHANGED <<pc, i, woken, spurious>> /\ AtBarrier(t)
        /\ t \notin waiting \cup woken /\ waiting' = waiting \cup {t}
        /\ crossing[Barrier(t)] + 1 < Count(t)
        /\ crossing' = [crossing EXCEPT ![Barrier(t)] = @ + 1]
    BY <1>3 DEF Arrive, BarrierStep
  <2>2. /\ crossing' \in [BarrierNames -> Nat]
        /\ crossing'["barrier"] < Workers
        /\ crossing'["barrier_global"] <= Workers
    <3>1. CASE At(t, "global")
      <4>1. Barrier(t) = "barrier_global" /\ Count(t) = Workers + 1
        BY <3>1 DEF Barrier, Count
      <4>2. /\ crossing'["barrier_global"] = crossing["barrier_global"] + 1
            /\ crossing'["barrier"] = crossing["barrier"]
        BY <1>1, <2>1, <4>1 DEF BarrierNames
      <4>3. crossing["barrier_global"] + 1 < Workers + 1
        BY <2>1, <4>1
      <4>4. crossing["barrier_global"] \in Nat /\ crossing["barrier"] \in Nat
        BY <1>1 DEF BarrierNames
      <4>5. crossing' \in [BarrierNames -> Nat]
        BY <1>1, <2>1
      <4> QED BY <1>1, <4>2, <4>3, <4>4, <4>5
    <3>2. CASE ~At(t, "global")
      <4>1. Barrier(t) = "barrier" /\ Count(t) = Workers
        BY <3>2 DEF Barrier, Count
      <4>2. /\ crossing'["barrier"] = crossing["barrier"] + 1
            /\ crossing'["barrier_global"] = crossing["barrier_global"]
        BY <1>1, <2>1, <4>1 DEF BarrierNames
      <4>3. crossing["barrier"] + 1 < Workers
        BY <2>1, <4>1
      <4>4. crossing' \in [BarrierNames -> Nat]
        BY <1>1, <2>1
      <4> QED BY <1>1, <4>2, <4>3, <4>4
    <3> QED BY <3>1, <3>2
  <2>3. DrType'
    BY <1>1, <1>2, <2>1, <2>2 DEF DrType
  <2>4. DrMain' /\ \A u \in Ids : DrThread(u)'
    BY <1>1, <1>2, <2>1 DEF DrMain, DrThread, At
  <2>5. \A u \in waiting' \cup woken' : AtBarrier(u)'
    BY <2>1, DrFacts DEF AtBarrier
  <2>6. \A u \in Ids : Given(u)' = Given(u)
    BY <1>2, <2>1 DEF Given, At
  <2>7. DrCounted'
    BY <1>2, <2>6, DrCountedSame
  <2> QED BY <2>3, <2>4, <2>5, <2>7 DEF DrInv
<1>4. CASE \/ BarrierStep(t) /\ (Complete(t) \/ WakeUp(t))
           \/ Spurious(t)
  <2>1. AtBarrier(t) /\ Cross(t)
    BY <1>4, DrFacts DEF BarrierStep, Complete, WakeUp, Spurious
  <2>2. /\ pc' \in [Procs -> Labels] /\ i' \in [Procs -> 0 .. Most]
        /\ DrOthersSame(t)
        /\ DrType' => DrMain' /\ (\A u \in Ids : DrThread(u)') /\ DrCounted'
    BY <1>2, <2>1, DrCross
  <2>3. /\ waiting' \subseteq waiting \ {t}
        /\ woken' \subseteq (waiting \cup woken) \ {t}
        /\ waiting' \cap woken' = {}
    <3>1. Fellows(t) \subseteq waiting
      BY DEF Fellows
    <3> QED
      BY <1>1, <1>4, <3>1 DEF BarrierStep, Complete, WakeUp, Spurious
  <2>4. /\ crossing' \in [BarrierNames -> Nat]
        /\ crossing'["barrier"] < Workers
        /\ crossing'["barrier_global"] <= Workers
    <3>1. UNCHANGED crossing \/ crossing' = [crossing EXCEPT ![Barrier(t)] = 0]
      BY <1>4 DEF BarrierStep, Complete, WakeUp, Spurious, Reset
    <3> QED BY <1>1, <3>1 DEF BarrierNames
  <2>5. spurious' \in 0 .. MaxSpurious
    BY <1>1, <1>4, DrConstants DEF BarrierStep, Spurious, DrType
  <2>6. DrType'
    BY <1>1, <1>2, <2>2, <2>3, <2>4, <2>5 DEF DrType
  <2>7. \A u \in waiting' \cup woken' : AtBarrier(u)'
    BY <2>2, <2>3, DrAtBarriers
  <2> QED BY <2>2, <2>6, <2>7 DEF DrInv
<1> QED BY <1>3, <1>4 DEF BarrierStep

-----------------------------------------------------------------------------
(* test.c: the steps of test and of main.                                  *)

(* Steps that leave the barriers alone.                                    *)
LEMMA DrSync ==
  ASSUME DrInv, NEW t \in Procs, UNCHANGED sync, DrOthersSame(t),
         ~AtBarrier(t)
  PROVE  /\ UNCHANGED <<crossing, waiting, woken, spurious>>
         /\ \A u \in waiting' \cup woken' : AtBarrier(u)'
<1>1. UNCHANGED <<crossing, waiting, woken, spurious>>
  BY DEF sync
<1>2. t \notin waiting \cup woken
  BY DrFacts
<1> QED BY <1>1, <1>2, DrAtBarriers

(* A thread that has filled its share, stops, publishes or prints.         *)
LEMMA DrQuietInv ==
  ASSUME DrInv, NEW t \in Ids,
         Filled(t) \/ Stopped(t) \/ Publish(t) \/ PrintTurn(t)
  PROVE  DrInv'
<1>1. /\ DrType /\ DrMain /\ DrCounted /\ \A u \in Ids : DrThread(u)
      /\ pc \in [Procs -> Labels] /\ i \in [Procs -> 0 .. Most]
      /\ putting \in [Ids -> 0 .. MaxOps] /\ removing \in [Ids -> 0 .. MaxOps]
      /\ puts \in [Ids -> 0 .. MaxOps] /\ rems \in [Ids -> 0 .. MaxOps]
      /\ t \in Procs /\ t # main /\ Ids \subseteq Procs
      /\ Workers \in Nat \ {0} /\ Workers <= Most /\ Most \in Nat
      /\ MaxOps \in Nat /\ ops \in Nat
  BY DrFacts, ThreadFacts, DrConstants DEF DrType
<1>2. /\ UNCHANGED <<store, ops, missed, puts, rems>> /\ UNCHANGED sync
  BY DEF Filled, Stopped, Publish, PrintTurn, table, counts
<1>3. \E l \in {"filled", "stopped", "print", "turn"}, m \in 0 .. Most :
        /\ pc' = [pc EXCEPT ![t] = l] /\ i' = [i EXCEPT ![t] = m]
        /\ l = "filled" => At(t, "fill") /\ i[t] >= Share(t)
        /\ l = "stopped" => At(t, "run")
        /\ l = "print" => At(t, "publish")
        /\ l = "turn" => At(t, "print")
  <2>1. i = [i EXCEPT ![t] = i[t]] /\ i[t] \in 0 .. Most
    BY <1>1
  <2>2. Workers - 1 \in 0 .. Most /\ 0 \in 0 .. Most
    BY <1>1
  <2>3. CASE Filled(t)
    BY <2>2, <2>3 DEF Filled, Goto
  <2>4. CASE Stopped(t) \/ PrintTurn(t)
    <3>1. i' = [i EXCEPT ![t] = i[t]]
      BY <2>1, <2>4 DEF Stopped, PrintTurn
    <3>2. \/ At(t, "run") /\ pc' = [pc EXCEPT ![t] = "stopped"]
          \/ At(t, "print") /\ pc' = [pc EXCEPT ![t] = "turn"]
      BY <2>4 DEF Stopped, PrintTurn, Goto
    <3> QED BY <2>1, <3>1, <3>2
  <2>5. CASE Publish(t)
    BY <2>2, <2>5 DEF Publish, Goto
  <2> QED BY <2>3, <2>4, <2>5
<1>4. PICK l \in {"filled", "stopped", "print", "turn"}, m \in 0 .. Most :
        /\ pc' = [pc EXCEPT ![t] = l] /\ i' = [i EXCEPT ![t] = m]
        /\ l = "filled" => At(t, "fill") /\ i[t] >= Share(t)
        /\ l = "stopped" => At(t, "run")
        /\ l = "print" => At(t, "publish")
        /\ l = "turn" => At(t, "print")
  BY <1>3
<1>5. /\ pc' \in [Procs -> Labels] /\ i' \in [Procs -> 0 .. Most]
      /\ pc'[t] = l /\ DrOthersSame(t)
  <2>1. l \in Labels
    BY DEF Labels, Barriers
  <2> QED BY <1>1, <1>4, <2>1 DEF DrOthersSame, DrSame
<1>6. ~AtBarrier(t) /\ pc[t] \notin {"new", "start", "exit"}
  BY <1>4 DEF AtBarrier, Barriers, At
<1>7. /\ UNCHANGED <<crossing, waiting, woken, spurious>>
      /\ \A u \in waiting' \cup woken' : AtBarrier(u)'
  BY <1>1, <1>2, <1>5, <1>6, DrSync
<1>8. /\ putting' \in [Ids -> 0 .. MaxOps] /\ removing' \in [Ids -> 0 .. MaxOps]
      /\ \A u \in Ids \ {t} : DrCalls(u)
      /\ putting'[t] = IF l \in Published THEN puts[t] ELSE 0
      /\ removing'[t] = IF l \in Published THEN rems[t] ELSE 0
  <2>1. /\ putting[t] = IF pc[t] \in Published THEN puts[t] ELSE 0
        /\ removing[t] = IF pc[t] \in Published THEN rems[t] ELSE 0
    BY <1>1 DEF DrThread
  <2>2. CASE Publish(t)
    <3>1. l = "print" /\ At(t, "publish")
      BY <1>1, <1>5, <2>2 DEF Publish, Goto
    <3>2. putting[t] = 0 /\ removing[t] = 0
      BY <2>1, <3>1 DEF At, Published
    <3>3. puts[t] \in 0 .. MaxOps /\ rems[t] \in 0 .. MaxOps
      BY <1>1
    <3>4. /\ putting' = [putting EXCEPT ![t] = puts[t]]
          /\ removing' = [removing EXCEPT ![t] = rems[t]]
      <4>1. 0 + puts[t] = puts[t] /\ 0 + rems[t] = rems[t]
        BY <1>1, <3>3
      <4>2. /\ putting' = [putting EXCEPT ![t] = putting[t] + puts[t]]
            /\ removing' = [removing EXCEPT ![t] = removing[t] + rems[t]]
        BY <2>2 DEF Publish
      <4> QED BY <3>2, <4>1, <4>2
    <3> QED BY <1>1, <1>2, <3>1, <3>3, <3>4 DEF Published, DrCalls
  <2>3. CASE ~Publish(t)
    <3>1. UNCHANGED <<putting, removing>>
      BY <2>3 DEF Filled, Stopped, PrintTurn, counts
    <3>2. l \in Published <=> pc[t] \in Published
      <4>1. l # "print"
        BY <1>1, <1>5, <2>3 DEF Filled, Stopped, PrintTurn, Goto
      <4> QED BY <1>4, <4>1 DEF At, Published
    <3> QED BY <1>1, <1>2, <2>1, <3>1, <3>2 DEF DrCalls
  <2> QED BY <2>2, <2>3
<1>9. DrType'
  BY <1>1, <1>2, <1>5, <1>7, <1>8 DEF DrType
<1>10. DrMain'
  BY <1>5, <1>6, DrMainKept
<1>11. ASSUME NEW u \in Ids PROVE DrThread(u)' /\ Given(u)' = Given(u)
  <2>1. CASE u # t
    <3>1. DrSame(u) /\ DrCalls(u) /\ ops <= ops'
      BY <1>1, <1>2, <1>5, <1>8, <2>1 DEF DrOthersSame
    <3> QED BY <1>1, <1>9, <3>1, DrThreadKept, DrGivenKept
  <2>2. CASE u = t
    <3>1. DrThread(t)'
      <4>1. l \in ThreadLabels
        BY DEF ThreadLabels, Labels, Barriers
      <4> QED BY <1>1, <1>2, <1>5, <1>8, <4>1 DEF DrThread, At
    <3>2. Given(t)' = Given(t)
      <4>1. pc'[t] \notin {"new", "start", "fill"}
        BY <1>5
      <4>2. Given(t)' = Share(t) + puts[t] - rems[t]
        BY <1>2, <4>1 DEF Given, At
      <4>3. CASE At(t, "fill")
        <5>1. i[t] <= Share(t) /\ i[t] >= Share(t)
          BY <1>1, <1>4, <1>6, <4>3 DEF DrThread, At
        <5>2. i[t] = Share(t)
          BY <1>1, <5>1, ShareFacts
        <5> QED BY <4>2, <4>3, <5>2 DEF Given, At
      <4>4. CASE ~At(t, "fill")
        BY <1>6, <4>2, <4>4 DEF Given, At
      <4> QED BY <4>3, <4>4
    <3> QED BY <2>2, <3>1, <3>2
  <2> QED BY <2>1, <2>2
<1>12. DrCounted'
  BY <1>2, <1>11, DrCountedSame
<1> QED BY <1>7, <1>9, <1>10, <1>11, <1>12 DEF DrInv

(* An entry more or less in the table.                                     *)
LEMMA DrStore ==
  ASSUME DrType, NEW j \in Keys, NEW v \in 0 .. Words,
         j \notin Present, store' = [store EXCEPT ![j] = v]
  PROVE  /\ store' \in [Keys -> {NoVal} \cup 0 .. Words]
         /\ Cardinality(Present') = Cardinality(Present) + 1
<1>1. store \in [Keys -> {NoVal} \cup 0 .. Words] /\ NoVal \notin 0 .. Words
  BY DrConstants DEF DrType, NoVal
<1>2. Present' = Present \cup {j}
  BY <1>1 DEF Present
<1>3. Cardinality(Present') = Cardinality(Present) + 1
  BY <1>2, DrFinite, SizeGrown
<1> QED BY <1>1, <1>3

LEMMA DrTake ==
  ASSUME DrType, NEW j \in Present, store' = [store EXCEPT ![j] = NoVal]
  PROVE  /\ store' \in [Keys -> {NoVal} \cup 0 .. Words]
         /\ Cardinality(Present') + 1 = Cardinality(Present)
         /\ Cardinality(Present') \in Nat
<1>1. store \in [Keys -> {NoVal} \cup 0 .. Words] /\ j \in Keys
  BY DEF DrType, Present
<1>2. Present' = Present \ {j}
  BY <1>1 DEF Present
<1>3. /\ Cardinality(Present') + 1 = Cardinality(Present)
      /\ Cardinality(Present') \in Nat
  BY <1>2, DrFinite, SizeLost
<1> QED BY <1>1, <1>3

LEMMA DrFillInv ==
  ASSUME DrInv, NEW t \in Ids, Fill(t)
  PROVE  DrInv'
<1>1. /\ DrType /\ DrMain /\ DrCounted /\ \A u \in Ids : DrThread(u)
      /\ i \in [Procs -> 0 .. Most] /\ pc \in [Procs -> Labels]
      /\ t \in Procs /\ t # main /\ Ids \subseteq Procs
      /\ Share(t) \in Nat /\ Share(t) <= Initial
      /\ Initial <= Most /\ Most \in Nat /\ Initial \in Nat /\ ops \in Nat
      /\ Words \in Nat \ {0}
  BY DrFacts, ThreadFacts, DrConstants, ShareFacts DEF DrType
<1>2. /\ At(t, "fill") /\ i[t] < Share(t) /\ i' = [i EXCEPT ![t] = i[t] + 1]
      /\ UNCHANGED <<pc, puts, rems, putting, removing, ops, missed>>
      /\ UNCHANGED sync
  BY DEF Fill, counts
<1>3. PICK j \in Keys \ Present : store' = [store EXCEPT ![j] = (j * j) % Words]
  BY DEF Fill
<1>4. (j * j) % Words \in 0 .. Words
  <2>1. j \in Nat
    BY DriverAssumption DEF Keys
  <2>2. j * j \in Nat
    BY <2>1
  <2> DEFINE m == j * j
  <2> HIDE DEF m
  <2>3. m \in Nat => m % Words \in 0 .. Words - 1
    BY <1>1, ModInRange
  <2> QED BY <1>1, <2>2, <2>3 DEF m
<1>5. /\ store' \in [Keys -> {NoVal} \cup 0 .. Words]
      /\ Cardinality(Present') = Cardinality(Present) + 1
  BY <1>1, <1>3, <1>4, DrStore
<1>6. i[t] \in Nat /\ i[t] + 1 \in 0 .. Most /\ i[t] + 1 <= Share(t)
  BY <1>1, <1>2
<1>7. i' \in [Procs -> 0 .. Most] /\ i'[t] = i[t] + 1 /\ DrOthersSame(t)
  BY <1>1, <1>2, <1>6 DEF DrOthersSame, DrSame
<1>8. ~AtBarrier(t) /\ pc[t] \notin {"new", "exit"}
  BY <1>2 DEF AtBarrier, Barriers, At
<1>9. /\ UNCHANGED <<crossing, waiting, woken, spurious>>
      /\ \A u \in waiting' \cup woken' : AtBarrier(u)'
  BY <1>1, <1>2, <1>7, <1>8, DrSync
<1>10. DrType'
  BY <1>1, <1>2, <1>5, <1>7, <1>9 DEF DrType
<1>11. DrMain'
  BY <1>7, <1>8, DrMainKept
<1>12. \A u \in Ids \ {t} : DrThread(u)' /\ Given(u)' = Given(u)
  <2>1. ASSUME NEW u \in Ids \ {t} PROVE DrSame(u) /\ DrCalls(u) /\ ops <= ops'
    BY <1>1, <1>2, <1>7 DEF DrOthersSame, DrCalls
  <2> QED BY <1>1, <1>10, <2>1, DrThreadKept, DrGivenKept
<1>13. DrThread(t)'
  BY <1>1, <1>2, <1>6, <1>7 DEF DrThread, At
<1>14. Given(t)' = Given(t) + 1
  <2>1. Given(t) = i[t] + puts[t] - rems[t]
    BY <1>2 DEF Given, At
  <2>2. Given(t)' = (i[t] + 1) + puts[t] - rems[t]
    BY <1>2, <1>7 DEF Given, At
  <2>3. puts[t] \in Nat /\ rems[t] \in Nat
    BY <1>1, DrGivesTyped
  <2> QED BY <1>6, <2>1, <2>2, <2>3
<1>15. Cardinality(Present') + missed' = Cardinality(Present) + missed + 1
  <2>1. missed \in Nat /\ missed' = missed
    BY <1>1, <1>2 DEF DrType
  <2> QED BY <1>5, <2>1, DrFinite
<1>16. DrCounted'
  BY <1>12, <1>14, <1>15, DrCountedChange
<1> QED BY <1>9, <1>10, <1>11, <1>12, <1>13, <1>16 DEF DrInv

(* A put or a remove while main sleeps.                                    *)
LEMMA DrOperationInv ==
  ASSUME DrInv, NEW t \in Ids, Operation(t)
  PROVE  DrInv'
<1>1. /\ DrType /\ DrMain /\ DrCounted /\ \A u \in Ids : DrThread(u)
      /\ puts \in [Ids -> 0 .. MaxOps] /\ rems \in [Ids -> 0 .. MaxOps]
      /\ t \in Procs /\ t # main /\ Ids \subseteq Procs
      /\ ops \in Nat /\ MaxOps \in Nat /\ Words \in Nat \ {0}
      /\ puts[t] \in Nat /\ rems[t] \in Nat /\ missed \in 0 .. ops
      /\ puts[t] <= ops /\ rems[t] <= ops
  BY DrFacts, ThreadFacts, DrConstants DEF DrType, DrThread
<1>2. /\ At(t, "run") /\ ops < MaxOps /\ ops' = ops + 1
      /\ UNCHANGED <<pc, i, putting, removing>> /\ UNCHANGED sync
  BY DEF Operation
<1>3. \/ /\ \E j \in Keys, v \in 0 .. Words :
              j \notin Present /\ store' = [store EXCEPT ![j] = v]
         /\ puts' = [puts EXCEPT ![t] = puts[t] + 1]
         /\ UNCHANGED <<rems, missed>>
      \/ /\ \E j \in Present : store' = [store EXCEPT ![j] = NoVal]
         /\ UNCHANGED puts
         /\ \/ rems' = [rems EXCEPT ![t] = rems[t] + 1] /\ UNCHANGED missed
            \/ missed' = missed + 1 /\ UNCHANGED rems
  <2>1. PICK c \in 0 .. ScaleRem :
          \/ /\ ((c % KeyRange) + 1) \notin Present
             /\ store' = [store EXCEPT ![(c % KeyRange) + 1] = (c + 1) % Words]
             /\ puts' = [puts EXCEPT ![t] = @ + 1]
             /\ UNCHANGED <<rems, missed>>
          \/ /\ ((c % KeyRange) + 1) \in Present
             /\ store' = [store EXCEPT ![(c % KeyRange) + 1] = NoVal]
             /\ \/ rems' = [rems EXCEPT ![t] = @ + 1] /\ UNCHANGED missed
                \/ missed' = missed + 1 /\ UNCHANGED rems
             /\ UNCHANGED puts
    BY DEF Operation
  <2>2. c \in Nat /\ KeyRange \in Nat \ {0}
    BY DriverAssumption
  <2>3. c % KeyRange \in 0 .. KeyRange - 1
    BY <2>2, ModInRange
  <2>4. (c % KeyRange) + 1 \in Keys
    BY <2>2, <2>3 DEF Keys
  <2>5. (c + 1) % Words \in 0 .. Words
    <3>1. c + 1 \in Nat
      BY <2>2
    <3>2. (c + 1) % Words \in 0 .. Words - 1
      BY <1>1, <3>1, ModInRange
    <3> QED BY <1>1, <3>2
  <2> QED BY <2>1, <2>4, <2>5
<1>4. /\ store' \in [Keys -> {NoVal} \cup 0 .. Words]
      /\ puts' \in [Ids -> 0 .. MaxOps] /\ rems' \in [Ids -> 0 .. MaxOps]
      /\ missed' \in 0 .. ops' /\ ops' \in 0 .. MaxOps
      /\ puts'[t] <= ops' /\ rems'[t] <= ops'
      /\ \A u \in Ids \ {t} : DrCalls(u)
  <2>1. store' \in [Keys -> {NoVal} \cup 0 .. Words]
    BY <1>1, <1>3, DrStore, DrTake
  <2>2. puts[t] + 1 \in 0 .. MaxOps /\ rems[t] + 1 \in 0 .. MaxOps
    BY <1>1, <1>2
  <2>3. /\ puts' = puts \/ puts' = [puts EXCEPT ![t] = puts[t] + 1]
        /\ rems' = rems \/ rems' = [rems EXCEPT ![t] = rems[t] + 1]
        /\ missed' = missed \/ missed' = missed + 1
    BY <1>3
  <2>4. /\ puts' \in [Ids -> 0 .. MaxOps] /\ rems' \in [Ids -> 0 .. MaxOps]
        /\ puts'[t] \in {puts[t], puts[t] + 1}
        /\ rems'[t] \in {rems[t], rems[t] + 1}
        /\ \A u \in Ids \ {t} : puts'[u] = puts[u] /\ rems'[u] = rems[u]
    BY <1>1, <2>2, <2>3
  <2>5. \A u \in Ids \ {t} : DrCalls(u)
    BY <1>2, <2>4 DEF DrCalls
  <2> QED BY <1>1, <1>2, <2>1, <2>3, <2>4, <2>5
<1>5. DrOthersSame(t)
  BY <1>2 DEF DrOthersSame, DrSame
<1>6. ~AtBarrier(t) /\ pc[t] \notin {"new", "exit"}
  BY <1>2 DEF AtBarrier, Barriers, At
<1>7. /\ UNCHANGED <<crossing, waiting, woken, spurious>>
      /\ \A u \in waiting' \cup woken' : AtBarrier(u)'
  BY <1>1, <1>2, <1>5, <1>6, DrSync
<1>8. DrType'
  BY <1>1, <1>2, <1>4, <1>7 DEF DrType
<1>9. DrMain'
  BY <1>5, <1>6, DrMainKept
<1>10. \A u \in Ids \ {t} : DrThread(u)' /\ Given(u)' = Given(u)
  <2>1. ASSUME NEW u \in Ids \ {t} PROVE DrSame(u) /\ DrCalls(u) /\ ops <= ops'
    BY <1>1, <1>2, <1>4, <1>5 DEF DrOthersSame
  <2> QED BY <1>1, <1>8, <2>1, DrThreadKept, DrGivenKept
<1>11. DrThread(t)'
  <2>1. pc'[t] = "run" /\ pc[t] = "run"
    BY <1>2 DEF At
  <2>2. putting'[t] = 0 /\ removing'[t] = 0
    BY <1>1, <1>2, <2>1 DEF DrThread, Published
  <2> QED
    BY <1>1, <1>4, <2>1, <2>2 DEF DrThread, At, Published, ThreadLabels, Labels
<1>12. /\ Given(t) = Share(t) + puts[t] - rems[t]
       /\ Given(t)' = Share(t) + puts'[t] - rems'[t]
       /\ Share(t) \in Nat
  BY <1>2, ShareFacts DEF Given, At
<1>13. CASE /\ \E j \in Keys, v \in 0 .. Words :
                 j \notin Present /\ store' = [store EXCEPT ![j] = v]
            /\ puts' = [puts EXCEPT ![t] = puts[t] + 1]
            /\ UNCHANGED <<rems, missed>>
  <2>1. Cardinality(Present') = Cardinality(Present) + 1
    BY <1>1, <1>13, DrStore
  <2>2. Given(t)' = Given(t) + 1
    BY <1>1, <1>12, <1>13
  <2>3. Cardinality(Present') + missed' = Cardinality(Present) + missed + 1
    BY <1>1, <1>13, <2>1, DrFinite
  <2>4. DrCounted'
    BY <1>10, <2>2, <2>3, DrCountedChange
  <2> QED BY <1>7, <1>8, <1>9, <1>10, <1>11, <2>4 DEF DrInv
<1>14. CASE /\ \E j \in Present : store' = [store EXCEPT ![j] = NoVal]
            /\ UNCHANGED puts
            /\ \/ rems' = [rems EXCEPT ![t] = rems[t] + 1] /\ UNCHANGED missed
               \/ missed' = missed + 1 /\ UNCHANGED rems
  <2>1. /\ Cardinality(Present') + 1 = Cardinality(Present)
        /\ Cardinality(Present') \in Nat
    BY <1>1, <1>14, DrTake
  <2>2. \E x \in {0, -1} :
          /\ Given(t)' = Given(t) + x
          /\ Cardinality(Present') + missed' = Cardinality(Present) + missed + x
    <3>1. CASE rems' = [rems EXCEPT ![t] = rems[t] + 1] /\ UNCHANGED missed
      <4>1. Given(t)' = Given(t) + (-1)
        BY <1>1, <1>12, <1>14, <3>1
      <4>2. Cardinality(Present') + missed'
              = Cardinality(Present) + missed + (-1)
        BY <1>1, <2>1, <3>1, DrFinite
      <4> QED BY <4>1, <4>2
    <3>2. CASE missed' = missed + 1 /\ UNCHANGED rems
      <4>1. Given(t)' = Given(t) + 0
        BY <1>1, <1>12, <1>14, <3>2
      <4>2. Cardinality(Present') + missed'
              = Cardinality(Present) + missed + 0
        BY <1>1, <2>1, <3>2, DrFinite
      <4> QED BY <4>1, <4>2
    <3> QED BY <1>14, <3>1, <3>2
  <2>3. DrCounted'
    BY <1>10, <2>2, DrCountedChange
  <2> QED BY <1>7, <1>8, <1>9, <1>10, <1>11, <2>3 DEF DrInv
<1> QED BY <1>3, <1>13, <1>14

(* main creates the threads, stops them, joins them and reports.           *)
LEMMA DrMainInv ==
  ASSUME DrInv, Main
  PROVE  DrInv'
<1>1. /\ DrType /\ DrMain /\ DrCounted /\ \A u \in Ids : DrThread(u)
      /\ pc \in [Procs -> Labels] /\ i \in [Procs -> 0 .. Most]
      /\ main \in Procs /\ Ids \subseteq Procs /\ main \notin Ids
      /\ i[main] \in Nat /\ Workers \in Nat \ {0} /\ Workers <= Most
      /\ Most \in Nat /\ Ids = 0 .. Workers - 1
  <2>1. DrType /\ DrMain /\ DrCounted /\ \A u \in Ids : DrThread(u)
    BY DrFacts
  <2>2. /\ main \in Procs /\ Ids \subseteq Procs /\ main \notin Ids
        /\ Workers \in Nat \ {0} /\ Workers <= Most /\ Most \in Nat
    BY ThreadFacts, DrConstants
  <2>3. pc \in [Procs -> Labels] /\ i \in [Procs -> 0 .. Most]
    BY <2>1 DEF DrType
  <2>4. i[main] \in Nat
    BY <2>2, <2>3
  <2> QED BY <2>1, <2>2, <2>3, <2>4 DEF Ids
<1>2. /\ UNCHANGED <<store, ops, missed, puts, rems, putting, removing>>
      /\ UNCHANGED sync
  BY DEF Main, Create, Stop, Join, Report, table, counts
<1>3. UNCHANGED <<crossing, waiting, woken, spurious>>
  BY <1>2 DEF sync
<1>4. \A u \in Ids : DrCalls(u)
  BY <1>2 DEF DrCalls
<1>5. CASE At(main, "create") /\ i[main] < Workers
           /\ pc' = [pc EXCEPT ![i[main]] = "start"]
           /\ i' = [i EXCEPT ![main] = @ + 1]
  <2>1. PICK t \in Ids : t = i[main]
    BY <1>1, <1>5
  <2>2. At(t, "new")
    BY <1>1, <1>5, <2>1 DEF DrMain
  <2>3. /\ pc' \in [Procs -> Labels] /\ pc'[t] = "start"
        /\ i' \in [Procs -> 0 .. Most] /\ i'[main] = t + 1
        /\ \A u \in Ids : i'[u] = i[u]
        /\ \A u \in Procs \ {t} : pc'[u] = pc[u]
    <3>1. "start" \in Labels
      BY DEF Labels, Barriers
    <3>2. i[main] + 1 \in 0 .. Most
      BY <1>1, <1>5
    <3> QED BY <1>1, <1>5, <2>1, <3>1, <3>2
  <2>4. DrType'
    BY <1>1, <1>2, <1>3, <2>3 DEF DrType
  <2>5. DrMain'
    <3>1. pc'[main] = "create" /\ pc[main] = "create"
      BY <1>1, <1>5, <2>3 DEF At
    <3>2. ASSUME NEW u \in Ids, u >= t + 1 PROVE At(u, "new")'
      <4>1. u # t /\ u >= t /\ u \in Procs
        BY <1>1, <3>2
      <4> QED BY <1>1, <1>5, <2>1, <2>3, <4>1 DEF DrMain, At
    <3> QED BY <2>3, <3>1, <3>2 DEF DrMain, MainLabels, At
  <2>6. \A u \in Ids : DrThread(u)' /\ Given(u)' = Given(u)
    <3>1. ASSUME NEW u \in Ids \ {t} PROVE DrThread(u)' /\ Given(u)' = Given(u)
      <4>1. u \in Ids /\ u \in Procs \ {t} /\ DrSame(u)
        BY <1>1, <2>3 DEF DrSame
      <4>2. ops <= ops'
        <5>1. ops \in Nat /\ ops' = ops
          BY <1>1, <1>2, DrConstants DEF DrType
        <5> QED BY <5>1
      <4> QED BY <1>1, <1>4, <2>4, <4>1, <4>2, DrThreadKept, DrGivenKept
    <3>2. DrThread(t)'
      BY <1>1, <1>2, <2>2, <2>3
      DEF DrThread, At, ThreadLabels, Labels, Barriers, Published
    <3>3. Given(t)' = Given(t)
      BY <1>2, <2>2, <2>3 DEF Given, At
    <3> QED BY <3>1, <3>2, <3>3
  <2>7. DrCounted'
    BY <1>2, <2>6, DrCountedSame
  <2>8. \A u \in waiting' \cup woken' : AtBarrier(u)'
    <3>1. ~AtBarrier(t) /\ waiting \cup woken \subseteq Procs
      BY <1>1, <2>2 DEF AtBarrier, Barriers, At, DrType
    <3> QED BY <1>3, <2>3, <3>1, DrFacts DEF AtBarrier
  <2> QED BY <2>4, <2>5, <2>6, <2>7, <2>8 DEF DrInv
<1>6. ASSUME NEW l \in MainLabels, NEW m \in 0 .. Most,
             pc' = [pc EXCEPT ![main] = l], i' = [i EXCEPT ![main] = m],
             ~AtBarrier(main), l \notin {"create", "sleep"},
             l = "join" => \A u \in Ids : u < m => At(u, "exit"),
             l = "done" => \A u \in Ids : At(u, "exit")
      PROVE  DrInv'
  <2>1. /\ pc' \in [Procs -> Labels] /\ i' \in [Procs -> 0 .. Most]
        /\ pc'[main] = l /\ i'[main] = m /\ DrOthersSame(main)
    BY <1>1, <1>6 DEF DrOthersSame, DrSame, MainLabels, Labels
  <2>2. DrType'
    BY <1>1, <1>2, <1>3, <2>1 DEF DrType
  <2>3. \A u \in Ids : At(u, "exit") => At(u, "exit")'
    BY <1>1, <2>1 DEF DrOthersSame, DrSame, At
  <2>4. DrMain'
    BY <1>6, <2>1, <2>3 DEF DrMain, At
  <2>5. ASSUME NEW u \in Ids PROVE DrThread(u)' /\ Given(u)' = Given(u)
    <3>1. DrSame(u) /\ ops' = ops /\ ops \in Nat
      BY <1>1, <1>2, <2>1, DrConstants DEF DrOthersSame, DrType
    <3>2. ops <= ops'
      BY <3>1
    <3> QED BY <1>1, <1>4, <2>2, <3>1, <3>2, DrThreadKept, DrGivenKept
  <2>6. DrCounted'
    BY <1>2, <2>5, DrCountedSame
  <2>7. \A u \in waiting' \cup woken' : AtBarrier(u)'
    BY <1>1, <1>2, <1>6, <2>1, DrSync
  <2> QED BY <2>2, <2>4, <2>5, <2>6, <2>7 DEF DrInv
<1>7. CASE At(main, "create") /\ Goto(main, "global")
           /\ i' = [i EXCEPT ![main] = 0]
  <2>1. ~AtBarrier(main)
    BY <1>7 DEF AtBarrier, Barriers, At
  <2>2. "global" \in MainLabels /\ 0 \in 0 .. Most
    BY <1>1 DEF MainLabels
  <2>3. pc' = [pc EXCEPT ![main] = "global"]
    BY <1>7 DEF Goto
  <2> QED BY <1>6, <1>7, <2>1, <2>2, <2>3
<1>8. CASE Stop
  <2>1. At(main, "sleep") /\ i[main] = 0 /\ ~AtBarrier(main)
    BY <1>1, <1>8 DEF Stop, DrMain, AtBarrier, Barriers, At
  <2>2. pc' = [pc EXCEPT ![main] = "join"] /\ i' = [i EXCEPT ![main] = 0]
    BY <1>1, <1>8, <2>1 DEF Stop, Goto
  <2>3. \A u \in Ids : ~(u < 0)
    BY <1>1
  <2>4. "join" \in MainLabels /\ 0 \in 0 .. Most
    BY <1>1 DEF MainLabels
  <2> QED BY <1>6, <2>1, <2>2, <2>3, <2>4
<1>9. CASE Join
  <2>1. /\ At(main, "join") /\ ~AtBarrier(main) /\ i[main] < Workers
        /\ At(i[main], "exit") /\ pc' = [pc EXCEPT ![main] = "join"]
        /\ i' = [i EXCEPT ![main] = i[main] + 1]
    BY <1>1, <1>9 DEF Join, AtBarrier, Barriers, At
  <2>2. i[main] + 1 \in 0 .. Most
    BY <1>1, <2>1
  <2>3. ASSUME NEW u \in Ids, u < i[main] + 1 PROVE At(u, "exit")
    <3>1. u = i[main] \/ u < i[main]
      BY <1>1, <2>3
    <3> QED BY <1>1, <2>1, <3>1 DEF DrMain
  <2>4. "join" \in MainLabels
    BY DEF MainLabels
  <2> QED BY <1>6, <2>1, <2>2, <2>3, <2>4
<1>10. CASE Report
  <2>1. /\ At(main, "join") /\ ~AtBarrier(main) /\ i[main] = Workers
        /\ pc' = [pc EXCEPT ![main] = "done"]
        /\ i' = [i EXCEPT ![main] = 0]
    BY <1>10 DEF Report, Goto, AtBarrier, Barriers, At
  <2>2. \A u \in Ids : At(u, "exit")
    <3>1. \A u \in Ids : u < i[main]
      BY <1>1, <2>1
    <3> QED BY <1>1, <2>1, <3>1 DEF DrMain
  <2>3. "done" \in MainLabels /\ 0 \in 0 .. Most
    BY <1>1 DEF MainLabels
  <2> QED BY <1>6, <2>1, <2>2, <2>3
<1> QED BY <1>5, <1>7, <1>8, <1>9, <1>10 DEF Main, Create

-----------------------------------------------------------------------------
(* test.c: the invariant of the counts, and what it says.                  *)

LEMMA DrInitInv ==
  ASSUME Init
  PROVE  DrInv
<1>1. /\ pc = [t \in Procs |-> IF t = main THEN "create" ELSE "new"]
      /\ crossing = [b \in {"barrier", "barrier_global"} |-> 0]
      /\ waiting = {} /\ woken = {} /\ i = [t \in Procs |-> 0]
      /\ store = [j \in Keys |-> NoVal]
      /\ puts = [t \in Ids |-> 0] /\ rems = [t \in Ids |-> 0]
      /\ putting = [t \in Ids |-> 0] /\ removing = [t \in Ids |-> 0]
      /\ ops = 0 /\ spurious = 0 /\ missed = 0
  BY DEF Init
<1>2. /\ MaxOps \in Nat /\ MaxSpurious \in Nat /\ Most \in Nat
      /\ Workers \in Nat \ {0}
      /\ main \in Procs /\ main \notin Ids /\ Ids \subseteq Procs
      /\ Ids \subseteq Nat
  BY DrConstants, ThreadFacts
<1>3. /\ pc[main] = "create" /\ i[main] = 0
      /\ \A t \in Ids : pc[t] = "new" /\ puts[t] = 0 /\ rems[t] = 0
                        /\ putting[t] = 0 /\ removing[t] = 0
  BY <1>1, <1>2
<1>4. DrType
  BY <1>1, <1>2 DEF DrType, Labels, Barriers, BarrierNames
<1>5. DrMain
  BY <1>3 DEF DrMain, MainLabels, At
<1>6. \A t \in Ids : DrThread(t)
  BY <1>1, <1>3 DEF DrThread, At, ThreadLabels, Labels, Published
<1>7. DrCounted
  <2>1. ASSUME NEW t \in Ids PROVE Gives[t] = 0
    <3>1. /\ pc[t] \in {"new", "start"} /\ puts[t] = 0 /\ rems[t] = 0
          /\ 0 + 0 - 0 = 0
      BY <1>3
    <3>2. Given(t) = 0
      BY <3>1 DEF Given, At
    <3> QED BY <3>2, DrGivesNext
  <2>2. Total(Gives, Ids) = 0
    BY <2>1, DrFinite, TotalZero
  <2>3. Present = {}
    BY <1>1 DEF Present
  <2> QED BY <1>1, <2>2, <2>3, FS_EmptySet DEF DrCounted
<1> QED BY <1>1, <1>4, <1>5, <1>6, <1>7 DEF DrInv

LEMMA DrStutter ==
  ASSUME DrInv, UNCHANGED vars
  PROVE  DrInv'
<1>1. /\ UNCHANGED <<pc, i, store, puts, rems, putting, removing>>
      /\ UNCHANGED <<ops, missed, crossing, waiting, woken, spurious>>
  BY DEF vars, counts, sync, table
<1>2. DrType' /\ DrMain'
  BY <1>1, DrFacts DEF DrType, DrMain, At
<1>3. \A u \in Ids : DrThread(u)' /\ Given(u)' = Given(u)
  BY <1>1, DrFacts DEF DrThread, Given, At
<1>4. \A u \in waiting' \cup woken' : AtBarrier(u)'
  BY <1>1, DrFacts DEF AtBarrier
<1>5. DrCounted'
  BY <1>1, <1>3, DrCountedSame
<1> QED BY <1>2, <1>3, <1>4, <1>5 DEF DrInv

LEMMA DrNextInv ==
  ASSUME DrInv, [Next]_vars
  PROVE  DrInv'
<1>1. ASSUME NEW t \in Ids, Test(t) PROVE DrInv'
  BY <1>1, DrFillInv, DrQuietInv DEF Test
<1> QED
  BY <1>1, DrStutter, DrMainInv, DrOperationInv, DrBarrierInv DEF Next

LEMMA DrInvTypeOK ==
  ASSUME DrInv
  PROVE  TypeOK
<1>1. DrType
  BY DrFacts
<1>2. /\ Workers \in Nat \ {0} /\ MaxOps \in Nat
      /\ Most = Max({Initial, Workers})
  BY DrConstants DEF Most
<1>3. /\ crossing["barrier"] \in 0 .. Workers - 1
      /\ crossing["barrier_global"] \in 0 .. Workers
  BY <1>1, <1>2 DEF DrType, BarrierNames
<1>4. missed \in 0 .. MaxOps
  BY <1>1, <1>2 DEF DrType
<1> QED BY <1>1, <1>2, <1>3, <1>4 DEF DrType, TypeOK

(* The sum that main reports is that of what the threads have published.   *)
LEMMA PrIs ==
  Pr = Total([t \in Ids |-> putting[t] - removing[t]], Ids)
<1> DEFINE f == [t \in Ids |-> putting[t] - removing[t]]
           IsPr(g) == g = [s \in SUBSET Ids |->
                            IF s = {} THEN 0
                            ELSE (putting[Pick(s)] - removing[Pick(s)])
                                   + g[s \ {Pick(s)}]]
           h == CHOOSE g : IsPr(g)
<1>1. Pr = h[Ids]
  BY DEF Pr, MapThenSumSet, MapThenFoldSet, Pick
<1>2. ASSUME NEW s \in SUBSET Ids, s # {}
      PROVE  f[Pick(s)] = putting[Pick(s)] - removing[Pick(s)]
  <2>1. Pick(s) \in Ids
    BY <1>2, DrFinite, PickFacts
  <2> QED BY <2>1
<1>3. ASSUME NEW g PROVE Adds(g, f, Ids) <=> IsPr(g)
  <2> HIDE DEF f
  <2>1. [s \in SUBSET Ids |->
           IF s = {} THEN 0 ELSE f[Pick(s)] + g[s \ {Pick(s)}]]
        = [s \in SUBSET Ids |->
             IF s = {} THEN 0 ELSE (putting[Pick(s)] - removing[Pick(s)])
                                     + g[s \ {Pick(s)}]]
    BY <1>2
  <2> QED BY <2>1 DEF Adds
<1> HIDE DEF f, IsPr
<1>4. Adds(h, f, Ids)
  <2>1. \E g : IsPr(g)
    BY <1>3, DrFinite, AddsExists
  <2>2. IsPr(h)
    BY <2>1
  <2> HIDE DEF h
  <2> QED BY <1>3, <2>2
<1> HIDE DEF h
<1>5. PICK g : Adds(g, f, Ids) /\ Total(f, Ids) = g[Ids]
  BY DrFinite, TotalAdds
<1>6. /\ h[{}] = 0
      /\ \A s \in SUBSET Ids : s # {} => h[s] = f[Pick(s)] + h[s \ {Pick(s)}]
  BY <1>4, AddsAt
<1>7. /\ g[{}] = 0
      /\ \A s \in SUBSET Ids : s # {} => g[s] = f[Pick(s)] + g[s \ {Pick(s)}]
  BY <1>5, AddsAt
<1>8. h[Ids] = g[Ids]
  <2> DEFINE T == {s \in SUBSET Ids : h[s] = g[s]}
  <2>1. {} \in T
    BY <1>6, <1>7
  <2>2. \A s \in SUBSET Ids : s # {} /\ s \ {Pick(s)} \in T => s \in T
    BY <1>6, <1>7
  <2> HIDE DEF T
  <2>3. SUBSET Ids \subseteq T
    BY <2>1, <2>2, DrFinite, SubsetInduction
  <2>4. Ids \in T
    BY <2>3
  <2> QED BY <2>4 DEF T
<1> QED BY <1>1, <1>5, <1>8 DEF f

LEMMA DrInvSize ==
  ASSUME DrInv
  PROVE  SizeMatches
<1> SUFFICES ASSUME At(main, "done")
             PROVE  SizeAfter = Initial + Pr - missed
  BY DEF SizeMatches
<1> DEFINE f == [t \in Ids |-> Share(t)]
           d == [t \in Ids |-> putting[t] - removing[t]]
<1>1. /\ DrType /\ DrCounted /\ \A t \in Ids : DrThread(t)
      /\ \A t \in Ids : At(t, "exit")
  BY DrFacts DEF DrMain
<1>2. f \in [Ids -> Int] /\ Total(f, Ids) = Initial
  BY ShareFacts
<1>3. \A t \in Ids : /\ putting[t] = puts[t] /\ removing[t] = rems[t]
                     /\ puts[t] \in Nat /\ rems[t] \in Nat
                     /\ Share(t) \in Nat
  BY <1>1, DrGivesTyped, ShareFacts DEF DrThread, At, Published
<1>4. d \in [Ids -> Int]
  BY <1>3
<1>5. ASSUME NEW t \in Ids PROVE Gives[t] = f[t] + d[t]
  <2>1. Given(t) = Share(t) + puts[t] - rems[t]
    BY <1>1 DEF Given, At
  <2>2. Gives[t] = Given(t)
    BY DrGivesNext
  <2> QED BY <1>3, <2>1, <2>2
<1> HIDE DEF f, d
<1>6. /\ Total(f, Ids) \in Int /\ Total(d, Ids) \in Int
      /\ Total(Gives, Ids) = Total(f, Ids) + Total(d, Ids)
  BY <1>2, <1>4, <1>5, DrFinite, TotalPlus
<1>7. Pr = Total(d, Ids)
  BY PrIs DEF d
<1>8. /\ Cardinality(Present) + missed = Total(Gives, Ids)
      /\ Cardinality(Present) \in Nat /\ missed \in Int
  BY <1>1, DrFinite DEF DrCounted, DrType
<1> QED BY <1>2, <1>6, <1>7, <1>8 DEF SizeAfter

-----------------------------------------------------------------------------
(* snap_stress.c: the invariant.                                           *)

StSlots == 1 .. Entries
StStates == {"invalid", "valid", "insert"}
StWords == [version : Nat, map : [StSlots -> StStates]]
StScan == {"val", "map", "key", "again"}
StFill == {"claim", "write_val", "write_key", "commit", "release"}
StTake == {"rem_key", "rem_val", "rem_cas"}
StLabels == {"loop", "done", "read", "choose", "snapshot", "rem_snapshot",
             "rem_free"} \cup StScan \cup StFill \cup StTake
StKeys == StressKeys \cup {0}
StObjects == Objects \cup {0}

StType ==
  /\ at \in [Threads -> StLabels] /\ role \in [Threads -> {"get", "put"}]
  /\ k \in [Threads -> StKeys] /\ idx \in [Threads -> StSlots]
  /\ cur \in [Threads -> StObjects] /\ snap \in [Threads -> StWords]
  /\ slot \in [Threads -> StSlots \cup {0}]
  /\ obj \in [Threads -> StObjects]
  /\ word \in StWords
  /\ key \in [StSlots -> StKeys] /\ val \in [StSlots -> StObjects]
  /\ first \in [StSlots -> StStates]
  /\ used \subseteq Objects /\ readers \in [Objects -> SUBSET Threads]
  /\ content \in [Objects -> StKeys]

(* A put is searching, or has its search behind it.                        *)
StPutting(t) ==
  at[t] \in {"snapshot"} \cup StFill \/ (at[t] \in StScan /\ role[t] = "put")

StControl(t) ==
  /\ role[t] = "put" => at[t] \in {"snapshot"} \cup StScan \cup StFill
  /\ at[t] \in StFill => role[t] = "put" /\ slot[t] # 0
  /\ slot[t] # 0 => StPutting(t)
  /\ at[t] \notin {"loop", "done"} => k[t] \in StressKeys
  /\ at[t] = "claim" => snap[t].map[slot[t]] = "invalid"

(* t has marked slot j, and has written its object there.                  *)
StHolds(t, j) == slot[t] = j /\ at[t] # "claim"
StWritten(t, j) == StHolds(t, j) /\ at[t] # "write_val"

(* A marked slot belongs to one put, or was left marked.                   *)
StHeld(j) ==
  /\ \A t \in Threads : StHolds(t, j) => word.map[j] = "insert"
  /\ \A t, u \in Threads : StHolds(t, j) /\ StHolds(u, j) => t = u
  /\ word.map[j] = "insert" /\ j > 1 /\ first[j] # "insert" =>
       \E t \in Threads : StHolds(t, j)

(* A valid slot has the object of its key, unless it was valid at first:   *)
(* then it has no key, and nobody takes it.                                *)
StDirty(j) == key[j] = 0 /\ val[j] = 0
StEntry(j) ==
  /\ first[j] = "valid" => word.map[j] = "valid" /\ StDirty(j)
  /\ word.map[j] = "valid" /\ first[j] # "valid" =>
       /\ val[j] \in used /\ key[j] \in StressKeys
       /\ content[val[j]] = key[j]

(* The object of a put has its key.                                        *)
StPut(t) ==
  StPutting(t) =>
    /\ obj[t] \in used /\ content[obj[t]] = k[t]
    /\ \A j \in StSlots : StWritten(t, j) =>
         /\ val[j] = obj[t]
         /\ at[t] # "write_key" => key[j] = k[t]

(* Where the objects are.                                                  *)
StPlaces == ({"obj", "rem"} \X Threads) \cup ({"slot"} \X StSlots)
StAt == [p \in StPlaces |->
          CASE p[1] = "obj" -> obj[p[2]]
            [] p[1] = "rem" -> IF at[p[2]] = "rem_free" THEN cur[p[2]] ELSE 0
            [] p[1] = "slot" -> IF word.map[p[2]] = "valid" THEN val[p[2]]
                                                            ELSE 0]
StOnce == Once(StAt, StPlaces, used, Objects)

(* As long as nobody has put since its snapshot, what a remove has read of *)
(* a slot that is valid still holds.                                       *)
StTaking(t) ==
  at[t] \in StTake =>
    /\ snap[t].version <= word.version
    /\ at[t] # "rem_key" => snap[t].map[idx[t]] = "valid"
    /\ /\ at[t] # "rem_key" /\ snap[t].version = word.version
       /\ word.map[idx[t]] = "valid"
       => /\ key[idx[t]] = k[t]
          /\ at[t] = "rem_cas" => cur[t] = val[idx[t]]

(* A get whose value is still that of the slot has the object of the key,  *)
(* which is not handed out again before the get has ended.                 *)
StKept(t, c) ==
  /\ cur[t] \in Objects
  /\ cur[t] \in used \/ t \in readers[cur[t]]
  /\ content[cur[t]] = c
StReading(t) ==
  role[t] = "get" /\ t \notin refilled =>
    /\ at[t] \in {"key", "again"} /\ val[idx[t]] = cur[t] =>
         /\ \A u \in Threads : ~StWritten(u, idx[t])
         /\ \/ StKept(t, IF at[t] = "key" THEN key[idx[t]] ELSE k[t])
            \/ at[t] = "key" /\ cur[t] = 0 /\ key[idx[t]] = 0
    /\ at[t] = "read" => StKept(t, k[t])

(* The counts.                                                             *)
StValid == {j \in StSlots : word.map[j] = "valid"}
StFreeing == {t \in Threads : at[t] = "rem_free"}
StPuts == {t \in Threads : StPutting(t)}
StFirst == {j \in StSlots : first[j] = "valid"}
StCounted ==
  /\ nputs \in Nat /\ nrems \in Nat /\ allocs \in 0 .. MaxAllocs
  /\ Cardinality(StValid) + Cardinality(StFreeing) + nrems
       = nputs + Cardinality(StFirst)
  /\ nputs + Cardinality(StPuts) <= allocs

StInv ==
  /\ StType
  /\ \A t \in Threads : StControl(t) /\ StPut(t) /\ StTaking(t) /\ StReading(t)
  /\ \A j \in StSlots : StHeld(j) /\ StEntry(j)
  /\ StOnce
  /\ StCounted

-----------------------------------------------------------------------------
(* snap_stress.c: what the steps do.                                       *)

LEMMA StNames ==
  /\ Stress!Null = 0 /\ Stress!Slots = StSlots
  /\ Stress!INVLD = "invalid" /\ Stress!VALID = "valid"
  /\ Stress!INSRT = "insert"
  /\ Stress!Blank \in StWords
  /\ Entries \in Nat \ {0} /\ 1 \in StSlots /\ 0 \notin StSlots
  /\ StSlots \subseteq Nat
  /\ 0 \notin StressKeys /\ 0 \notin Objects
BY BenchAssumption
DEF Stress!Null, Stress!Slots, Stress!INVLD, Stress!VALID, Stress!INSRT,
    Stress!Blank, StSlots, StWords, StStates

LEMMA StEmpty ==
  ASSUME NEW s \in StWords, Stress!EmptySlots(s) # {}
  PROVE  /\ Stress!Min(Stress!EmptySlots(s)) \in StSlots
         /\ s.map[Stress!Min(Stress!EmptySlots(s))] = "invalid"
<1> DEFINE S == Stress!EmptySlots(s)
<1>1. S \in SUBSET Nat /\ S \subseteq StSlots /\ \A j \in S : s.map[j] = "invalid"
  BY StNames DEF Stress!EmptySlots
<1>2. S # {}
  OBVIOUS
<1> HIDE DEF S
<1>3. Stress!Min(S) \in S
  BY <1>1, <1>2, LeastNumber DEF Stress!Min
<1> QED BY <1>1, <1>3 DEF S

(* The steps of t leave the others as they are.                            *)
StSame(u) ==
  /\ at'[u] = at[u] /\ role'[u] = role[u] /\ k'[u] = k[u] /\ idx'[u] = idx[u]
  /\ cur'[u] = cur[u] /\ snap'[u] = snap[u] /\ slot'[u] = slot[u]
  /\ obj'[u] = obj[u]
StOthersSame(t) == \A u \in Threads \ {t} : StSame(u)

(* What happens to the locals of t: their types, and those of the others.  *)
StLocalType ==
  /\ at \in [Threads -> StLabels] /\ role \in [Threads -> {"get", "put"}]
  /\ k \in [Threads -> StKeys] /\ idx \in [Threads -> StSlots]
  /\ cur \in [Threads -> StObjects] /\ snap \in [Threads -> StWords]
  /\ slot \in [Threads -> StSlots \cup {0}]
  /\ obj \in [Threads -> StObjects]
StMemoryType ==
  /\ used \subseteq Objects /\ readers \in [Objects -> SUBSET Threads]
  /\ content \in [Objects -> StKeys]
StSharedType ==
  /\ word \in StWords
  /\ key \in [StSlots -> StKeys] /\ val \in [StSlots -> StObjects]

StStill ==
  /\ UNCHANGED <<word, key, val, used, readers, content>>
  /\ UNCHANGED <<nputs, nrems, allocs>>

(* A step of t that touches nothing that is shared.                        *)
StLocal(t) ==
  /\ UNCHANGED <<word, key, val, used, readers, content, first, obj>>
  /\ UNCHANGED <<nputs, nrems, allocs>>
  /\ refilled' = refilled \/ refilled' = refilled \ {t}

LEMMA StBeginIs ==
  ASSUME StType, NEW t \in Threads, Stress!Begin(t) \/ Stress!Exit(t)
  PROVE  StLocalType' /\ StOthersSame(t)
BY StNames
DEF StType, StLocalType, StOthersSame, StSame, StLabels, StScan, StKeys,
    StObjects,
    Stress!Begin, Stress!Exit, Stress!Search, Stress!Continue, Stress!Goto,
    Stress!At, Stress!locals

LEMMA StNextIs ==
  ASSUME StType, NEW t \in Threads, Stress!SearchNext(t), UNCHANGED obj
  PROVE  StLocalType' /\ StOthersSame(t)
<1>1. StObjects \subseteq {0} \cup Objects /\ 0 \in StObjects /\ 0 \in StKeys
  BY DEF StObjects, StKeys
<1>2. CASE idx[t] # Entries
  <2>1. idx[t] + 1 \in StSlots
    BY <1>2, StNames DEF StType, StSlots
  <2> QED
    BY <1>2, <2>1
    DEF StType, StLocalType, StOthersSame, StSame, StLabels, StScan,
        Stress!SearchNext, Stress!Goto
<1>3. CASE idx[t] = Entries
  <2>1. CASE role[t] # "get" /\ ~(slot[t] > 0)
               /\ Stress!EmptySlots(snap[t]) # {}
    <3> DEFINE m == Stress!Min(Stress!EmptySlots(snap[t]))
    <3>1. m \in StSlots
      BY <2>1, StEmpty DEF StType
    <3>2. /\ slot' = [slot EXCEPT ![t] = m] /\ Stress!Over(t, "claim")
      BY <1>3, <2>1 DEF Stress!SearchNext, Stress!Missed
    <3> HIDE DEF m
    <3> QED
      BY <1>1, <3>1, <3>2, StNames
      DEF StType, StLocalType, StOthersSame, StSame, StLabels, StFill,
          Stress!Over, Stress!Goto
  <2>2. CASE ~(role[t] # "get" /\ ~(slot[t] > 0)
                 /\ Stress!EmptySlots(snap[t]) # {})
    BY <1>1, <1>3, <2>2, StNames
    DEF StType, StLocalType, StOthersSame, StSame, StLabels, StFill,
        Stress!SearchNext, Stress!Missed, Stress!End, Stress!Over,
        Stress!Goto
  <2> QED BY <2>1, <2>2
<1> QED BY <1>2, <1>3

LEMMA StSearchIs ==
  ASSUME StType, NEW t \in Threads, Stress!Searching(t)
  PROVE  StLocalType' /\ StOthersSame(t)
<1>1. 0 \in StObjects /\ 0 \in StKeys /\ UNCHANGED obj
  BY DEF StObjects, StKeys, Stress!Searching
<1>2. CASE Stress!SearchVal(t)
  BY <1>1, <1>2, StNames
  DEF StType, StLocalType, StOthersSame, StSame, StLabels, StScan,
      Stress!SearchVal, Stress!Goto
<1>3. CASE Stress!SearchNext(t)
  BY <1>1, <1>3, StNextIs
<1>4. CASE \/ Stress!Continue(t, "key") \/ Stress!Continue(t, "again")
           \/ Stress!Found(t) \/ Stress!Read(t)
  BY <1>1, <1>4, StNames
  DEF StType, StLocalType, StOthersSame, StSame, StLabels, StScan, StFill,
      Stress!Found, Stress!Read, Stress!Continue, Stress!Over, Stress!End,
      Stress!Goto, Stress!locals
<1>5. \/ Stress!SearchVal(t) \/ Stress!SearchNext(t) \/ Stress!Continue(t, "key")
      \/ Stress!Continue(t, "again") \/ Stress!Found(t) \/ Stress!Read(t)
  BY DEF Stress!Searching, Stress!SearchMap, Stress!SearchKey,
         Stress!SearchAgain
<1> QED BY <1>2, <1>3, <1>4, <1>5

-----------------------------------------------------------------------------
(* The steps that change what is shared, and those that do not.            *)

StKeepsHolds(t) ==
  /\ StPutting(t)' => StPutting(t)
  /\ \A j \in StSlots :
       /\ StHolds(t, j)' => StHolds(t, j)
       /\ StWritten(t, j)' => StWritten(t, j)
       /\ StHolds(t, j) /\ j > 1 => StHolds(t, j)'
StLooks(t) ==
  /\ StLocal(t) /\ StKeepsHolds(t)
  /\ at[t] \notin {"rem_free", "write_key"} /\ at'[t] # "rem_free"
  /\ StPutting(t)' => k'[t] = k[t]

StMoves(t, from, to) ==
  /\ at[t] = from /\ at'[t] = to
  /\ role'[t] = role[t] /\ k'[t] = k[t] /\ idx'[t] = idx[t]
  /\ cur'[t] = cur[t] /\ slot'[t] = slot[t]
StEnds(t, from) ==
  /\ at[t] = from /\ at'[t] = "loop"
  /\ role'[t] = "get" /\ slot'[t] = 0

StExchanges(t) ==
  /\ StMoves(t, "choose", "snapshot")
  /\ \E o \in Objects :
       /\ o \notin used /\ readers[o] = {} /\ obj'[t] = o
       /\ used' = (used \ {obj[t]}) \cup {o}
       /\ content' = [content EXCEPT ![o] = k[t]]
       /\ \A c \in Objects :
            readers'[c] = (IF c = obj[t] THEN Threads ELSE readers[c]) \ {t}
  /\ allocs < MaxAllocs /\ allocs' = allocs + 1
  /\ UNCHANGED <<word, key, val, first, refilled, nputs, nrems>>
StSetsMap(j, m) == word'.map = [word.map EXCEPT ![j] = m]
StClaims(t) ==
  /\ StMoves(t, "claim", "write_val")
  /\ word.map[slot[t]] = "invalid" /\ StSetsMap(slot[t], "insert")
  /\ word'.version = word.version
  /\ UNCHANGED <<key, val, used, readers, content, first, obj, refilled>>
  /\ UNCHANGED <<nputs, nrems, allocs>>
StWritesVal(t) ==
  /\ StMoves(t, "write_val", "write_key")
  /\ val' = [val EXCEPT ![slot[t]] = obj[t]]
  /\ refilled' = refilled \cup
       {u \in Threads : /\ at[u] \in {"key", "again"}
                        /\ idx[u] = slot[t] /\ cur[u] = obj[t]}
  /\ UNCHANGED <<word, key, used, readers, content, first, obj>>
  /\ UNCHANGED <<nputs, nrems, allocs>>
StWritesKey(t) ==
  /\ StMoves(t, "write_key", "commit")
  /\ key' = [key EXCEPT ![slot[t]] = k[t]]
  /\ UNCHANGED <<word, val, used, readers, content, first, obj, refilled>>
  /\ UNCHANGED <<nputs, nrems, allocs>>
StCommits(t) ==
  /\ StEnds(t, "commit")
  /\ StSetsMap(slot[t], "valid") /\ word'.version = word.version + 1
  /\ obj'[t] = 0 /\ nputs' = nputs + 1
  /\ UNCHANGED <<key, val, used, readers, content, first, refilled>>
  /\ UNCHANGED <<nrems, allocs>>
StReleases(t) ==
  /\ StEnds(t, "release")
  /\ StSetsMap(slot[t], "invalid") /\ word'.version = word.version
  /\ UNCHANGED <<key, val, used, readers, content, first, obj, refilled>>
  /\ UNCHANGED <<nputs, nrems, allocs>>
StTakes(t) ==
  /\ StMoves(t, "rem_cas", "rem_free")
  /\ word = snap[t]
  /\ StSetsMap(idx[t], "invalid") /\ word'.version = word.version
  /\ UNCHANGED <<key, val, used, readers, content, first, obj, refilled>>
  /\ UNCHANGED <<nputs, nrems, allocs>>
StFrees(t) ==
  /\ StEnds(t, "rem_free")
  /\ used' = used \ {cur[t]}
  /\ \A c \in Objects :
       readers'[c] = (IF c = cur[t] THEN Threads ELSE readers[c]) \ {t}
  /\ nrems' = nrems + 1
  /\ UNCHANGED <<word, key, val, content, first, obj, refilled>>
  /\ UNCHANGED <<nputs, allocs>>

StEffect(t) ==
  \/ StLooks(t) \/ StExchanges(t) \/ StClaims(t) \/ StWritesVal(t)
  \/ StWritesKey(t) \/ StCommits(t) \/ StReleases(t) \/ StTakes(t)
  \/ StFrees(t)
StGood(t) == StType' /\ StOthersSame(t) /\ StEffect(t)

LEMMA StTypeParts ==
  /\ StType => StLocalType /\ StMemoryType /\ StSharedType
  /\ StLocalType' /\ StMemoryType' /\ StSharedType' /\ StType
       /\ UNCHANGED first => StType'
BY DEF StType, StLocalType, StMemoryType, StSharedType

LEMMA StLooksTyped ==
  ASSUME StType, StLocalType', NEW t \in Threads, StOthersSame(t), StLooks(t)
  PROVE  StGood(t)
<1>1. StMemoryType' /\ StSharedType' /\ UNCHANGED first
  BY DEF StType, StMemoryType, StSharedType, StLooks, StLocal
<1> QED BY <1>1, StTypeParts DEF StGood, StEffect

LEMMA StBeginGood ==
  ASSUME StType, NEW t \in Threads, StControl(t), UNCHANGED refilled,
         Stress!Begin(t) \/ Stress!Exit(t)
  PROVE  StGood(t)
<1>1. StLocal(t)
  BY DEF StLocal, Stress!Begin, Stress!Exit, Stress!arrays, Stress!counters,
         Stress!memory
<1>2. at[t] = "loop" /\ role[t] = "get" /\ slot[t] = 0
  BY DEF Stress!Begin, Stress!Exit, Stress!At, StControl, StPutting, StType,
         StScan, StFill
<1>3. /\ at'[t] \in {"done", "val"} /\ role'[t] = "get" /\ slot'[t] = 0
  BY <1>2
  DEF Stress!Begin, Stress!Exit, Stress!Search, Stress!Continue, Stress!Goto,
      Stress!locals, StType
<1>4. StLooks(t)
  BY <1>1, <1>2, <1>3, StNames
  DEF StLooks, StKeepsHolds, StPutting, StHolds, StWritten, StScan, StFill
<1> QED BY <1>4, StBeginIs, StLooksTyped

(* A search that is over, for any reason, or goes on.                      *)
StSearchStep(t) ==
  \/ /\ at'[t] \in StScan /\ role'[t] = role[t] /\ slot'[t] = slot[t]
  \/ /\ at[t] = "read" \/ role[t] = "get"
     /\ at'[t] \in {"read", "choose"} /\ role'[t] = role[t]
     /\ slot'[t] = slot[t]
  \/ /\ role[t] = "put" /\ role'[t] = "put" /\ slot[t] # 0
     /\ slot'[t] = slot[t] /\ at'[t] \in {"commit", "release"}
  \/ /\ role[t] = "put" /\ role'[t] = "put" /\ slot[t] = 0
     /\ slot'[t] \in StSlots /\ at'[t] = "claim"
     /\ snap'[t] = snap[t] /\ snap[t].map[slot'[t]] = "invalid"
  \/ /\ role[t] = "put" /\ role'[t] = "get" /\ slot[t] \in {0, 1}
     /\ slot'[t] = 0 /\ at'[t] = "loop"

LEMMA StNextStep ==
  ASSUME StType, NEW t \in Threads, Stress!SearchNext(t)
  PROVE  StSearchStep(t)
<1>1. /\ at \in [Threads -> StLabels] /\ role \in [Threads -> {"get", "put"}]
      /\ slot \in [Threads -> StSlots \cup {0}] /\ snap[t] \in StWords
  BY DEF StType
<1>2. CASE idx[t] # Entries
  BY <1>1, <1>2 DEF Stress!SearchNext, Stress!Goto, StSearchStep, StScan
<1>3. CASE idx[t] = Entries /\ role[t] = "get"
  BY <1>1, <1>3
  DEF Stress!SearchNext, Stress!Missed, Stress!Over, Stress!Goto, StSearchStep
<1>4. CASE idx[t] = Entries /\ role[t] # "get" /\ slot[t] > 0
  BY <1>1, <1>4
  DEF Stress!SearchNext, Stress!Missed, Stress!Over, Stress!Goto, StSearchStep
<1>5. CASE idx[t] = Entries /\ role[t] # "get" /\ ~(slot[t] > 0)
  <2>1. slot[t] = 0
    BY <1>1, <1>5 DEF StSlots
  <2>2. CASE Stress!EmptySlots(snap[t]) = {}
    BY <1>1, <1>5, <2>1, <2>2
    DEF Stress!SearchNext, Stress!Missed, Stress!End, Stress!Goto,
        StSearchStep
  <2>3. CASE Stress!EmptySlots(snap[t]) # {}
    <3> DEFINE m == Stress!Min(Stress!EmptySlots(snap[t]))
    <3>1. m \in StSlots /\ snap[t].map[m] = "invalid"
      BY <1>1, <2>3, StEmpty
    <3>2. slot' = [slot EXCEPT ![t] = m] /\ Stress!Over(t, "claim")
      BY <1>5, <2>3 DEF Stress!SearchNext, Stress!Missed
    <3> HIDE DEF m
    <3> QED
      BY <1>1, <1>5, <2>1, <3>1, <3>2
      DEF Stress!Over, Stress!Goto, StSearchStep
  <2> QED BY <2>2, <2>3
<1> QED BY <1>2, <1>3, <1>4, <1>5

LEMMA StSearchStepIs ==
  ASSUME StType, NEW t \in Threads, Stress!Searching(t)
  PROVE  /\ StSearchStep(t) /\ at[t] \in StScan \cup {"read"}
         /\ k'[t] = k[t] \/ at'[t] = "loop"
<1>1. /\ at \in [Threads -> StLabels] /\ role \in [Threads -> {"get", "put"}]
      /\ slot \in [Threads -> StSlots \cup {0}] /\ k \in [Threads -> StKeys]
  BY DEF StType
<1>2. at[t] \in StScan \cup {"read"}
  BY DEF Stress!Searching, Stress!SearchVal, Stress!SearchMap,
         Stress!SearchKey, Stress!SearchAgain, Stress!Read, Stress!At, StScan
<1>3. \/ Stress!SearchVal(t) \/ Stress!SearchNext(t) \/ Stress!Continue(t, "key")
      \/ Stress!Continue(t, "again") \/ Stress!Found(t) \/ Stress!Read(t)
  BY DEF Stress!Searching, Stress!SearchMap, Stress!SearchKey,
         Stress!SearchAgain
<1>4. CASE Stress!SearchNext(t)
  <2>1. k'[t] = k[t] \/ at'[t] = "loop"
    BY <1>1, <1>4
    DEF Stress!SearchNext, Stress!Missed, Stress!Over, Stress!End, Stress!Goto
  <2> QED BY <1>2, <1>4, <2>1, StNextStep
<1>5. CASE \/ Stress!SearchVal(t) \/ Stress!Continue(t, "key")
           \/ Stress!Continue(t, "again")
  BY <1>1, <1>2, <1>5
  DEF Stress!SearchVal, Stress!Continue, Stress!Goto, Stress!locals,
      StSearchStep, StScan
<1>6. CASE Stress!Read(t)
  BY <1>1, <1>2, <1>6
  DEF Stress!Read, Stress!At, Stress!Over, Stress!Goto, StSearchStep
<1>7. CASE Stress!Found(t)
  BY <1>1, <1>2, <1>7, StNames
  DEF Stress!Found, Stress!Continue, Stress!Over, Stress!End, Stress!Goto,
      Stress!locals, StSearchStep, StSlots
<1> QED BY <1>3, <1>4, <1>5, <1>6, <1>7

LEMMA StSearchGood ==
  ASSUME StType, NEW t \in Threads, StControl(t), Stress!Searching(t)
  PROVE  StGood(t)
<1>1. StLocal(t)
  <2>1. refilled' = refilled \/ refilled' = refilled \ {t}
    BY DEF Stress!Searching, Stress!At
  <2> QED
    BY <2>1
    DEF StLocal, Stress!Searching, Stress!arrays, Stress!counters,
        Stress!memory
<1>2. StSearchStep(t) /\ at[t] \in StScan \cup {"read"}
  BY StSearchStepIs
<1>3. StKeepsHolds(t)
  BY <1>2, StNames
  DEF StSearchStep, StKeepsHolds, StPutting, StHolds, StWritten, StScan,
      StFill, StControl
<1>4. at'[t] # "rem_free" /\ (StPutting(t)' => k'[t] = k[t])
  BY <1>2, StSearchStepIs DEF StSearchStep, StPutting, StScan, StFill
<1>5. StLooks(t)
  BY <1>1, <1>2, <1>3, <1>4 DEF StLooks, StScan
<1> QED BY <1>5, StSearchIs, StLooksTyped

-----------------------------------------------------------------------------
(* snap_stress.c: the steps of puts and removes.                           *)

LEMMA StLocals ==
  ASSUME StType
  PROVE  /\ at \in [Threads -> StLabels]
         /\ role \in [Threads -> {"get", "put"}]
         /\ k \in [Threads -> StKeys] /\ idx \in [Threads -> StSlots]
         /\ cur \in [Threads -> StObjects] /\ snap \in [Threads -> StWords]
         /\ slot \in [Threads -> StSlots \cup {0}]
         /\ obj \in [Threads -> StObjects]
         /\ 0 \in StObjects /\ 0 \in StKeys /\ Stress!Blank \in StWords
         /\ 1 \in StSlots
BY StNames DEF StType, StObjects, StKeys

LEMMA StGoodParts ==
  ASSUME StType, NEW t \in Threads, StLocalType', StMemoryType',
         StSharedType', UNCHANGED first, StOthersSame(t), StEffect(t)
  PROVE  StGood(t)
BY StTypeParts DEF StGood

LEMMA StMemorySame ==
  /\ StType /\ UNCHANGED <<used, readers, content>> => StMemoryType'
  /\ StType /\ UNCHANGED <<word, key, val>> => StSharedType'
BY DEF StType, StMemoryType, StSharedType

LEMMA StDrops ==
  ASSUME StType, NEW t \in Threads, NEW x
  PROVE  LET r == [c \in Objects |-> IF c = x THEN Threads ELSE readers[c]]
         IN  /\ Stress!Dropped(t, r) \in [Objects -> SUBSET Threads]
             /\ \A c \in Objects :
                  Stress!Dropped(t, r)[c]
                    = (IF c = x THEN Threads ELSE readers[c]) \ {t}
BY DEF StType, Stress!Dropped

LEMMA StPutGood ==
  ASSUME StType, NEW t \in Threads, StControl(t), Stress!Put(t),
         UNCHANGED refilled
  PROVE  StGood(t)
<1>1. PICK o \in Objects : /\ Stress!Exchange(t, obj[t], o, k[t])
                           /\ obj' = [obj EXCEPT ![t] = o]
  BY DEF Stress!Put
<1>2. /\ at[t] = "choose" /\ at' = [at EXCEPT ![t] = "snapshot"]
      /\ UNCHANGED <<role, k, idx, cur, snap, slot>>
      /\ UNCHANGED <<word, key, val, nputs, nrems, first>>
      /\ allocs < MaxAllocs /\ allocs' = allocs + 1
  BY DEF Stress!Put, Stress!At, Stress!Continue, Stress!Goto, Stress!locals,
         Stress!arrays
<1>3. StLocalType' /\ StOthersSame(t)
  BY <1>1, <1>2, StLocals
  DEF StLocalType, StOthersSame, StSame, StLabels, StObjects
<1>4. /\ o \notin used /\ readers[o] = {}
      /\ used' = (used \ {obj[t]}) \cup {o}
      /\ content' = [content EXCEPT ![o] = k[t]]
  BY <1>1 DEF Stress!Exchange, Stress!Available
<1>5. /\ readers' \in [Objects -> SUBSET Threads]
      /\ \A c \in Objects :
           readers'[c] = (IF c = obj[t] THEN Threads ELSE readers[c]) \ {t}
  BY <1>1, StDrops DEF Stress!Exchange
<1>6. StMemoryType'
  BY <1>4, <1>5 DEF StType, StMemoryType
<1>7. StMoves(t, "choose", "snapshot") /\ obj'[t] = o
  BY <1>1, <1>2, StLocals DEF StMoves
<1>8. StExchanges(t)
  BY <1>2, <1>4, <1>5, <1>7 DEF StExchanges
<1> QED BY <1>2, <1>3, <1>6, <1>8, StMemorySame, StGoodParts DEF StEffect

LEMMA StSnapshotGood ==
  ASSUME StType, NEW t \in Threads, StControl(t), UNCHANGED refilled,
         Stress!Snapshot(t) \/ Stress!RemSnapshot(t)
  PROVE  StGood(t)
<1>1. StLocal(t)
  BY DEF StLocal, Stress!Snapshot, Stress!RemSnapshot, Stress!arrays,
         Stress!counters, Stress!memory
<1>2. word \in StWords
  BY DEF StType
<1>3. CASE Stress!Snapshot(t)
  <2>1. /\ at[t] = "snapshot" /\ at' = [at EXCEPT ![t] = "val"]
        /\ role' = [role EXCEPT ![t] = "put"] /\ UNCHANGED <<k, slot, obj>>
        /\ idx' = [idx EXCEPT ![t] = 1] /\ cur' = [cur EXCEPT ![t] = 0]
        /\ snap' = [snap EXCEPT ![t] = word]
    BY <1>3, StNames
    DEF Stress!Snapshot, Stress!At, Stress!Search, Stress!Goto
  <2>2. StLocalType' /\ StOthersSame(t)
    BY <1>2, <2>1, StLocals
    DEF StLocalType, StOthersSame, StSame, StLabels, StScan
  <2>3. StLooks(t)
    BY <1>1, <2>1, StLocals
    DEF StLooks, StKeepsHolds, StPutting, StHolds, StWritten, StScan, StFill
  <2> QED BY <2>2, <2>3, StLooksTyped
<1>4. CASE Stress!RemSnapshot(t)
  <2>1. /\ at[t] \in {"choose", "rem_snapshot"}
        /\ at' = [at EXCEPT ![t] = "rem_key"] /\ UNCHANGED <<role, k, slot, obj>>
        /\ idx' = [idx EXCEPT ![t] = 1] /\ cur' = [cur EXCEPT ![t] = 0]
        /\ snap' = [snap EXCEPT ![t] = word]
    BY <1>4, StNames DEF Stress!RemSnapshot, Stress!At, Stress!Goto
  <2>2. StLocalType' /\ StOthersSame(t)
    BY <1>2, <2>1, StLocals
    DEF StLocalType, StOthersSame, StSame, StLabels, StTake
  <2>3. slot[t] = 0
    BY <2>1 DEF StControl, StPutting, StScan, StFill
  <2>4. StLooks(t)
    BY <1>1, <2>1, <2>3, StLocals, StNames
    DEF StLooks, StKeepsHolds, StPutting, StHolds, StWritten, StScan, StFill
  <2> QED BY <2>2, <2>4, StLooksTyped
<1> QED BY <1>3, <1>4

LEMMA StMapSet ==
  ASSUME NEW w \in StWords, NEW j \in StSlots, NEW m \in StStates
  PROVE  /\ Stress!SetMap(w, j, m) \in StWords
         /\ Stress!SetMap(w, j, m).map = [w.map EXCEPT ![j] = m]
         /\ Stress!SetMap(w, j, m).version = w.version
         /\ Stress!SetMapAndIncVersion(w, j, m) \in StWords
         /\ Stress!SetMapAndIncVersion(w, j, m).map = [w.map EXCEPT ![j] = m]
         /\ Stress!SetMapAndIncVersion(w, j, m).version = w.version + 1
BY DEF StWords, Stress!SetMap, Stress!SetMapAndIncVersion

LEMMA StClaimGood ==
  ASSUME StType, NEW t \in Threads, StControl(t), Stress!Claim(t),
         UNCHANGED refilled
  PROVE  StGood(t)
<1>1. at[t] = "claim" /\ slot[t] \in StSlots /\ role[t] = "put"
      /\ snap[t].map[slot[t]] = "invalid"
  BY StLocals DEF StControl, Stress!Claim, Stress!At, StFill
<1>2. /\ UNCHANGED <<role, k, idx, cur, obj, key, val, used, readers, content>>
      /\ UNCHANGED <<first, nputs, nrems, allocs>>
      /\ snap' = [snap EXCEPT ![t] = word']
  BY DEF Stress!Claim, Stress!arrays, Stress!counters, Stress!memory
<1>3. CASE word = snap[t]
  <2>1. /\ word' = Stress!SetMap(word, slot[t], "insert")
        /\ at' = [at EXCEPT ![t] = "write_val"] /\ UNCHANGED slot
    BY <1>3, StNames DEF Stress!Claim, Stress!Goto
  <2>2. /\ word' \in StWords /\ StSetsMap(slot[t], "insert")
        /\ word'.version = word.version
    <3>1. word \in StWords /\ "insert" \in StStates
      BY DEF StType, StStates
    <3> QED BY <1>1, <2>1, <3>1, StMapSet DEF StSetsMap
  <2>3. StLocalType' /\ StOthersSame(t)
    BY <1>2, <2>1, <2>2, StLocals
    DEF StLocalType, StOthersSame, StSame, StLabels, StFill
  <2>4. StMoves(t, "claim", "write_val")
    BY <1>1, <1>2, <2>1, StLocals DEF StMoves
  <2>5. StClaims(t)
    BY <1>1, <1>2, <1>3, <2>2, <2>4 DEF StClaims
  <2>6. StSharedType'
    BY <1>2, <2>2 DEF StType, StSharedType
  <2> QED BY <1>2, <2>3, <2>5, <2>6, StMemorySame, StGoodParts DEF StEffect
<1>4. CASE word # snap[t]
  <2>1. /\ at' = [at EXCEPT ![t] = "snapshot"]
        /\ slot' = [slot EXCEPT ![t] = 0] /\ UNCHANGED word
    BY <1>4 DEF Stress!Claim, Stress!Goto
  <2>2. word' \in StWords
    BY <2>1 DEF StType
  <2>3. StLocalType' /\ StOthersSame(t)
    BY <1>2, <2>1, <2>2, StLocals
    DEF StLocalType, StOthersSame, StSame, StLabels
  <2>4. StLocal(t)
    BY <1>2, <2>1 DEF StLocal
  <2>5. StLooks(t)
    BY <1>1, <1>2, <2>1, <2>4, StLocals, StNames
    DEF StLooks, StKeepsHolds, StPutting, StHolds, StWritten, StScan, StFill
  <2> QED BY <2>3, <2>5, StLooksTyped
<1> QED BY <1>3, <1>4

LEMMA StWriteGood ==
  ASSUME StType, NEW t \in Threads, StControl(t),
         Stress!WriteVal(t) \/ (Stress!WriteKey(t) /\ UNCHANGED refilled)
  PROVE  StGood(t)
<1>1. slot[t] \in StSlots
  BY StLocals
  DEF StControl, Stress!WriteVal, Stress!WriteKey, Stress!At, StFill
<1>2. /\ UNCHANGED <<role, k, idx, cur, snap, slot, obj>>
      /\ UNCHANGED <<word, used, readers, content>>
      /\ UNCHANGED <<first, nputs, nrems, allocs>>
  BY DEF Stress!WriteVal, Stress!WriteKey, Stress!Continue, Stress!locals,
         Stress!counters, Stress!memory
<1>3. obj[t] \in StObjects /\ k[t] \in StKeys
  BY StLocals
<1>4. CASE Stress!WriteVal(t)
  <2>1. /\ at[t] = "write_val" /\ at' = [at EXCEPT ![t] = "write_key"]
        /\ val' = [val EXCEPT ![slot[t]] = obj[t]] /\ UNCHANGED key
        /\ refilled' = refilled \cup
             {u \in Threads : /\ at[u] \in {"key", "again"}
                              /\ idx[u] = slot[t] /\ cur[u] = obj[t]}
    BY <1>4 DEF Stress!WriteVal, Stress!At, Stress!Continue, Stress!Goto
  <2>2. StLocalType' /\ StOthersSame(t)
    BY <1>2, <2>1, StLocals
    DEF StLocalType, StOthersSame, StSame, StLabels, StFill
  <2>3. StMoves(t, "write_val", "write_key")
    BY <1>2, <2>1, StLocals DEF StMoves
  <2>4. StWritesVal(t)
    BY <1>2, <2>1, <2>3 DEF StWritesVal
  <2>5. StSharedType'
    BY <1>2, <1>3, <2>1 DEF StType, StSharedType
  <2> QED BY <1>2, <2>2, <2>4, <2>5, StMemorySame, StGoodParts DEF StEffect
<1>5. CASE Stress!WriteKey(t) /\ UNCHANGED refilled
  <2>1. /\ at[t] = "write_key" /\ at' = [at EXCEPT ![t] = "commit"]
        /\ key' = [key EXCEPT ![slot[t]] = k[t]] /\ UNCHANGED val
        /\ UNCHANGED refilled
    BY <1>5 DEF Stress!WriteKey, Stress!At, Stress!Continue, Stress!Goto
  <2>2. StLocalType' /\ StOthersSame(t)
    BY <1>2, <2>1, StLocals
    DEF StLocalType, StOthersSame, StSame, StLabels, StFill
  <2>3. StMoves(t, "write_key", "commit")
    BY <1>2, <2>1, StLocals DEF StMoves
  <2>4. StWritesKey(t)
    BY <1>2, <2>1, <2>3 DEF StWritesKey
  <2>5. StSharedType'
    BY <1>2, <1>3, <2>1 DEF StType, StSharedType
  <2> QED BY <1>2, <2>2, <2>4, <2>5, StMemorySame, StGoodParts DEF StEffect
<1> QED BY <1>4, <1>5

LEMMA StEndIs ==
  ASSUME StType, NEW t \in Threads, Stress!End(t),
         \A u \in Threads : u # t => obj'[u] = obj[u],
         obj' \in [Threads -> StObjects]
  PROVE  /\ StLocalType' /\ StOthersSame(t) /\ StEnds(t, at[t])
         /\ StKeepsHolds(t) \/ slot[t] # 0
BY StLocals, StNames
DEF Stress!End, Stress!Goto, StLocalType, StOthersSame, StSame, StLabels,
    StEnds, StKeepsHolds, StPutting, StHolds, StWritten, StScan, StFill

LEMMA StCommitGood ==
  ASSUME StType, NEW t \in Threads, StControl(t), Stress!Commit(t),
         UNCHANGED refilled
  PROVE  StGood(t)
<1>1. at[t] = "commit" /\ slot[t] \in StSlots /\ role[t] = "put"
  BY StLocals DEF StControl, Stress!Commit, Stress!At, StFill
<1>2. /\ UNCHANGED <<key, val, used, readers, content, first, nrems, allocs>>
  BY DEF Stress!Commit, Stress!arrays, Stress!memory
<1>3. CASE word = snap[t]
  <2>1. /\ word' = Stress!SetMapAndIncVersion(word, slot[t], "valid")
        /\ obj' = [obj EXCEPT ![t] = 0] /\ nputs' = nputs + 1
        /\ Stress!End(t)
    BY <1>3, StNames DEF Stress!Commit, Stress!Handed
  <2>2. /\ word' \in StWords /\ StSetsMap(slot[t], "valid")
        /\ word'.version = word.version + 1
    <3>1. word \in StWords /\ "valid" \in StStates
      BY DEF StType, StStates
    <3> QED BY <1>1, <2>1, <3>1, StMapSet DEF StSetsMap
  <2>3. /\ obj' \in [Threads -> StObjects] /\ obj'[t] = 0
        /\ \A u \in Threads : u # t => obj'[u] = obj[u]
    BY <2>1, StLocals
  <2>4. StLocalType' /\ StOthersSame(t) /\ StEnds(t, "commit")
    BY <1>1, <2>1, <2>3, StEndIs
  <2>5. StCommits(t)
    BY <1>2, <2>1, <2>2, <2>3, <2>4 DEF StCommits
  <2>6. StSharedType'
    BY <1>2, <2>2 DEF StType, StSharedType
  <2> QED BY <1>2, <2>4, <2>5, <2>6, StMemorySame, StGoodParts DEF StEffect
<1>4. CASE word # snap[t]
  <2>1. /\ at' = [at EXCEPT ![t] = "snapshot"]
        /\ UNCHANGED <<role, k, idx, cur, snap, slot, obj>>
        /\ UNCHANGED <<word, nputs>>
    BY <1>4 DEF Stress!Commit, Stress!Continue, Stress!Goto, Stress!locals
  <2>2. StLocalType' /\ StOthersSame(t)
    BY <2>1, StLocals DEF StLocalType, StOthersSame, StSame, StLabels
  <2>3. StLocal(t)
    BY <1>2, <2>1 DEF StLocal
  <2>4. StLooks(t)
    BY <1>1, <2>1, <2>3, StLocals, StNames
    DEF StLooks, StKeepsHolds, StPutting, StHolds, StWritten, StScan, StFill
  <2> QED BY <2>2, <2>4, StLooksTyped
<1> QED BY <1>3, <1>4

LEMMA StReleaseGood ==
  ASSUME StType, NEW t \in Threads, StControl(t), Stress!Release(t),
         UNCHANGED refilled
  PROVE  StGood(t)
<1>1. at[t] = "release" /\ slot[t] \in StSlots
  BY StLocals DEF StControl, Stress!Release, Stress!At, StFill
<1>2. /\ UNCHANGED <<key, val, used, readers, content, obj>>
      /\ UNCHANGED <<first, nputs, nrems, allocs>>
      /\ word' = Stress!SetMap(word, slot[t], "invalid") /\ Stress!End(t)
  BY StNames DEF Stress!Release, Stress!arrays, Stress!counters, Stress!memory
<1>3. /\ word' \in StWords /\ StSetsMap(slot[t], "invalid")
      /\ word'.version = word.version
  <2>1. word \in StWords /\ "invalid" \in StStates
    BY DEF StType, StStates
  <2> QED BY <1>1, <1>2, <2>1, StMapSet DEF StSetsMap
<1>4. StLocalType' /\ StOthersSame(t) /\ StEnds(t, "release")
  BY <1>1, <1>2, StEndIs, StLocals
<1>5. StReleases(t)
  BY <1>2, <1>3, <1>4 DEF StReleases
<1>6. StSharedType'
  BY <1>2, <1>3 DEF StType, StSharedType
<1> QED BY <1>2, <1>4, <1>5, <1>6, StMemorySame, StGoodParts DEF StEffect

LEMMA StRemLookGood ==
  ASSUME StType, NEW t \in Threads, StControl(t), UNCHANGED refilled,
         Stress!RemKey(t) \/ Stress!RemVal(t)
  PROVE  StGood(t)
<1>1. StLocal(t)
  BY DEF StLocal, Stress!RemKey, Stress!RemVal, Stress!arrays,
         Stress!counters, Stress!memory
<1>2. /\ at[t] \in {"rem_key", "rem_val"} /\ UNCHANGED obj
      /\ role[t] = "get" /\ slot[t] = 0
  BY StLocals
  DEF StControl, StPutting, Stress!RemKey, Stress!RemVal, Stress!At, StScan,
      StFill
<1>3. CASE Stress!End(t)
  <2>1. StLocalType' /\ StOthersSame(t) /\ StEnds(t, at[t]) /\ StKeepsHolds(t)
    BY <1>2, <1>3, StEndIs, StLocals
  <2>2. ~StPutting(t)'
    BY <2>1 DEF StEnds, StPutting, StScan, StFill
  <2> QED BY <1>1, <1>2, <2>1, <2>2, StLooksTyped DEF StLooks, StEnds
<1>4. CASE ~Stress!End(t)
  <2>1. /\ UNCHANGED <<role, k, snap, slot>>
        /\ \/ at' = at \/ at' = [at EXCEPT ![t] = "rem_val"]
           \/ at' = [at EXCEPT ![t] = "rem_cas"]
        /\ \/ UNCHANGED <<idx, cur>>
           \/ UNCHANGED idx /\ cur' = [cur EXCEPT ![t] = val[idx[t]]]
           \/ /\ idx[t] # Entries /\ idx' = [idx EXCEPT ![t] = @ + 1]
              /\ UNCHANGED cur
    BY <1>4
    DEF Stress!RemKey, Stress!RemVal, Stress!Continue, Stress!Goto,
        Stress!locals
  <2>2. idx[t] # Entries => idx[t] + 1 \in StSlots
    BY StLocals, StNames DEF StSlots
  <2>3. val[idx[t]] \in StObjects
    BY StLocals DEF StType
  <2>4. StLocalType' /\ StOthersSame(t)
    <3>1. /\ idx' \in [Threads -> StSlots] /\ cur' \in [Threads -> StObjects]
          /\ \A u \in Threads \ {t} : idx'[u] = idx[u] /\ cur'[u] = cur[u]
      BY <2>1, <2>2, <2>3, StLocals
    <3>2. at' \in [Threads -> StLabels] /\ \A u \in Threads \ {t} : at'[u] = at[u]
      BY <2>1, StLocals DEF StLabels, StTake
    <3> QED
      BY <1>2, <2>1, <3>1, <3>2, StLocals DEF StLocalType, StOthersSame, StSame
  <2>5. StLooks(t)
    BY <1>1, <1>2, <2>1, StLocals, StNames
    DEF StLooks, StKeepsHolds, StPutting, StHolds, StWritten, StScan, StFill
  <2> QED BY <2>4, <2>5, StLooksTyped
<1> QED BY <1>3, <1>4

LEMMA StRemCasGood ==
  ASSUME StType, NEW t \in Threads, StControl(t), Stress!RemCas(t),
         UNCHANGED refilled
  PROVE  StGood(t)
<1>1. /\ at[t] = "rem_cas" /\ idx[t] \in StSlots
      /\ role[t] = "get" /\ slot[t] = 0
  BY StLocals
  DEF StControl, StPutting, Stress!RemCas, Stress!At, StScan, StFill
<1>2. /\ UNCHANGED <<key, val, used, readers, content, obj>>
      /\ UNCHANGED <<first, nputs, nrems, allocs>>
      /\ UNCHANGED <<role, k, idx, cur, snap, slot>>
  BY DEF Stress!RemCas, Stress!Continue, Stress!locals, Stress!arrays,
         Stress!counters, Stress!memory
<1>3. CASE word = snap[t]
  <2>1. /\ word' = Stress!SetMap(word, idx[t], "invalid")
        /\ at' = [at EXCEPT ![t] = "rem_free"]
    BY <1>3, StNames DEF Stress!RemCas, Stress!Continue, Stress!Goto
  <2>2. /\ word' \in StWords /\ StSetsMap(idx[t], "invalid")
        /\ word'.version = word.version
    <3>1. word \in StWords /\ "invalid" \in StStates
      BY DEF StType, StStates
    <3> QED BY <1>1, <2>1, <3>1, StMapSet DEF StSetsMap
  <2>3. StLocalType' /\ StOthersSame(t)
    BY <1>2, <2>1, StLocals DEF StLocalType, StOthersSame, StSame, StLabels
  <2>4. StMoves(t, "rem_cas", "rem_free")
    BY <1>1, <1>2, <2>1, StLocals DEF StMoves
  <2>5. StTakes(t)
    BY <1>2, <1>3, <2>2, <2>4 DEF StTakes
  <2>6. StSharedType'
    BY <1>2, <2>2 DEF StType, StSharedType
  <2> QED BY <1>2, <2>3, <2>5, <2>6, StMemorySame, StGoodParts DEF StEffect
<1>4. CASE word # snap[t]
  <2>1. at' = [at EXCEPT ![t] = "rem_snapshot"] /\ UNCHANGED word
    BY <1>4 DEF Stress!RemCas, Stress!Continue, Stress!Goto
  <2>2. StLocalType' /\ StOthersSame(t)
    BY <1>2, <2>1, StLocals DEF StLocalType, StOthersSame, StSame, StLabels
  <2>3. StLocal(t)
    BY <1>2, <2>1 DEF StLocal
  <2>4. StLooks(t)
    BY <1>1, <1>2, <2>1, <2>3, StLocals, StNames
    DEF StLooks, StKeepsHolds, StPutting, StHolds, StWritten, StScan, StFill
  <2> QED BY <2>2, <2>4, StLooksTyped
<1> QED BY <1>3, <1>4

LEMMA StRemFreeGood ==
  ASSUME StType, NEW t \in Threads, StControl(t), Stress!RemFree(t),
         UNCHANGED refilled
  PROVE  StGood(t)
<1>1. /\ at[t] = "rem_free" /\ Stress!End(t) /\ nrems' = nrems + 1
      /\ UNCHANGED <<obj, word, key, val, content, nputs, allocs, first>>
      /\ used' = used \ {cur[t]}
      /\ readers' = Stress!Dropped(t, [readers EXCEPT ![cur[t]] = Threads])
  BY DEF Stress!RemFree, Stress!At, Stress!Free, Stress!arrays
<1>2. StLocalType' /\ StOthersSame(t) /\ StEnds(t, "rem_free")
  BY <1>1, StEndIs, StLocals
<1>3. /\ readers' \in [Objects -> SUBSET Threads]
      /\ \A c \in Objects :
           readers'[c] = (IF c = cur[t] THEN Threads ELSE readers[c]) \ {t}
  BY <1>1 DEF StType, Stress!Dropped
<1>4. StMemoryType'
  BY <1>1, <1>3 DEF StType, StMemoryType
<1>5. StFrees(t)
  BY <1>1, <1>2, <1>3 DEF StFrees
<1> QED BY <1>1, <1>2, <1>4, <1>5, StMemorySame, StGoodParts DEF StEffect

LEMMA StLoopGood ==
  ASSUME StType, NEW t \in Threads, StControl(t), Stress!Loop(t)
  PROVE  StGood(t)
BY StSearchGood, StWriteGood, StBeginGood, StPutGood, StSnapshotGood,
   StClaimGood, StCommitGood, StReleaseGood, StRemLookGood, StRemCasGood,
   StRemFreeGood
DEF Stress!Loop

-----------------------------------------------------------------------------
(* snap_stress.c: the invariant is kept.                                   *)

StStep(t) == StInv /\ t \in Threads /\ StGood(t)

LEMMA StStepFacts ==
  ASSUME NEW t, StStep(t)
  PROVE  /\ t \in Threads /\ StType /\ StLocalType /\ StMemoryType
         /\ StSharedType /\ StLocalType' /\ StMemoryType' /\ StSharedType'
         /\ StOthersSame(t) /\ StEffect(t)
         /\ \A u \in Threads : /\ StControl(u) /\ StPut(u) /\ StTaking(u)
                               /\ StReading(u)
         /\ \A j \in StSlots : StHeld(j) /\ StEntry(j)
         /\ StOnce /\ StCounted
BY DEF StStep, StInv, StGood, StType, StLocalType, StMemoryType, StSharedType

(* Whom the slot belongs to that a put fills.                              *)
LEMMA StFilling ==
  ASSUME NEW t, StStep(t), at[t] \in StFill \ {"claim"}
  PROVE  /\ slot[t] \in StSlots /\ StHolds(t, slot[t])
         /\ word.map[slot[t]] = "insert" /\ first[slot[t]] # "valid"
         /\ \A u \in Threads \ {t} : ~StHolds(u, slot[t])
         /\ obj[t] \in used /\ content[obj[t]] = k[t]
         /\ k[t] \in StressKeys
<1>1. slot[t] \in StSlots /\ StHolds(t, slot[t])
  BY StStepFacts DEF StControl, StHolds, StLocalType
<1>2. StHeld(slot[t]) /\ StEntry(slot[t]) /\ StPut(t) /\ StControl(t)
      /\ t \in Threads
  BY <1>1, StStepFacts
<1>3. word.map[slot[t]] = "insert" /\ first[slot[t]] # "valid"
      /\ \A u \in Threads \ {t} : ~StHolds(u, slot[t])
  BY <1>1, <1>2 DEF StHeld, StEntry
<1>4. obj[t] \in used /\ content[obj[t]] = k[t] /\ k[t] \in StressKeys
  BY <1>2 DEF StPut, StPutting, StControl, StFill
<1> QED BY <1>1, <1>3, <1>4

LEMMA StOutside ==
  ASSUME NEW t, StStep(t), at[t] \in {"choose", "rem_cas", "rem_free"}
  PROVE  slot[t] = 0 /\ role[t] = "get" /\ ~StPutting(t)
BY StStepFacts DEF StControl, StPutting, StScan, StFill, StLocalType

(* The slot that a remove takes.                                           *)
LEMMA StTaken ==
  ASSUME NEW t, StStep(t), StTakes(t)
  PROVE  /\ idx[t] \in StSlots /\ word.map[idx[t]] = "valid"
         /\ first[idx[t]] # "valid" /\ cur[t] = val[idx[t]]
         /\ cur[t] \in used
<1>1. /\ at[t] = "rem_cas" /\ word = snap[t] /\ idx[t] \in StSlots
      /\ StTaking(t) /\ StControl(t) /\ StEntry(idx[t])
  BY StStepFacts DEF StTakes, StMoves, StLocalType
<1>2. /\ word.map[idx[t]] = "valid" /\ key[idx[t]] = k[t]
      /\ cur[t] = val[idx[t]] /\ k[t] # 0
  BY <1>1, StNames DEF StTaking, StTake, StControl
<1> QED BY <1>1, <1>2 DEF StEntry, StDirty

(* What a step does to the map.                                            *)
StMapKept == word'.map = word.map /\ word'.version = word.version
StMapStep(t) ==
  \/ StMapKept /\ ~StClaims(t) /\ ~StCommits(t) /\ ~StReleases(t)
     /\ ~StTakes(t)
  \/ StClaims(t) \/ StCommits(t) \/ StReleases(t) \/ StTakes(t)

LEMMA StMapSteps ==
  ASSUME NEW t, StStep(t)
  PROVE  StMapStep(t)
BY StStepFacts
DEF StEffect, StMapStep, StMapKept, StLooks, StLocal, StExchanges,
    StWritesVal, StWritesKey, StFrees

LEMMA StHoldsStep ==
  ASSUME NEW t, StStep(t), NEW j \in StSlots
  PROVE  /\ \A u \in Threads \ {t} :
              /\ StHolds(u, j)' <=> StHolds(u, j)
              /\ StWritten(u, j)' <=> StWritten(u, j)
         /\ StHolds(t, j)' =>
              StHolds(t, j) \/ (StClaims(t) /\ j = slot[t])
         /\ StWritten(t, j)' =>
              StWritten(t, j) \/ (StWritesVal(t) /\ j = slot[t])
         /\ StHolds(t, j) /\ ~StHolds(t, j)' =>
              \/ j = 1
              \/ (StCommits(t) \/ StReleases(t)) /\ j = slot[t]
<1>1. \A u \in Threads \ {t} : StSame(u)
  BY StStepFacts DEF StOthersSame
<1>2. \A u \in Threads \ {t} :
        /\ StHolds(u, j)' <=> StHolds(u, j)
        /\ StWritten(u, j)' <=> StWritten(u, j)
  BY <1>1 DEF StSame, StHolds, StWritten
<1>3. j # 0 /\ (j > 1 \/ j = 1)
  BY StNames DEF StSlots
<1>4. StEffect(t)
  BY StStepFacts
<1>5. CASE StLooks(t)
  BY <1>2, <1>3, <1>5 DEF StLooks, StKeepsHolds
<1>6. CASE StExchanges(t) \/ StTakes(t) \/ StFrees(t)
  <2>1. slot[t] = 0
    BY <1>6, StOutside
    DEF StExchanges, StTakes, StFrees, StMoves, StEnds
  <2>2. slot'[t] = 0
    BY <1>6, <2>1 DEF StExchanges, StTakes, StFrees, StMoves, StEnds
  <2> QED BY <1>2, <1>3, <2>1, <2>2 DEF StHolds, StWritten
<1>7. CASE StClaims(t)
  BY <1>2, <1>7 DEF StClaims, StMoves, StHolds, StWritten
<1>8. CASE StWritesVal(t) \/ StWritesKey(t)
  BY <1>2, <1>8 DEF StWritesVal, StWritesKey, StMoves, StHolds, StWritten
<1>9. CASE StCommits(t) \/ StReleases(t)
  BY <1>2, <1>3, <1>9 DEF StCommits, StReleases, StEnds, StHolds, StWritten
<1> QED BY <1>4, <1>5, <1>6, <1>7, <1>8, <1>9 DEF StEffect

LEMMA StFirstSame ==
  ASSUME NEW t, StStep(t)
  PROVE  UNCHANGED first
BY StStepFacts
DEF StEffect, StLooks, StLocal, StExchanges, StClaims, StWritesVal,
    StWritesKey, StCommits, StReleases, StTakes, StFrees

LEMMA StHeldStep ==
  ASSUME NEW t, StStep(t), NEW j \in StSlots
  PROVE  StHeld(j)'
<1>1. StHeld(j) /\ UNCHANGED first /\ word.map \in [StSlots -> StStates]
      /\ t \in Threads
  BY StStepFacts, StFirstSame DEF StSharedType, StWords
<1>2. CASE word'.map[j] = word.map[j] /\ ~(StClaims(t) /\ j = slot[t])
           /\ ~((StCommits(t) \/ StReleases(t)) /\ j = slot[t])
  <2>1. \A u \in Threads : StHolds(u, j)' => StHolds(u, j)
    BY <1>2, StHoldsStep
  <2>2. \A u \in Threads : StHolds(u, j) /\ j > 1 => StHolds(u, j)'
    BY <1>2, StHoldsStep
  <2> QED BY <1>1, <1>2, <2>1, <2>2 DEF StHeld
<1>3. CASE StClaims(t) /\ j = slot[t]
  <2>1. word.map[j] = "invalid" /\ word'.map[j] = "insert"
    BY <1>1, <1>3 DEF StClaims, StSetsMap
  <2>2. \A u \in Threads : ~StHolds(u, j)
    BY <1>1, <2>1 DEF StHeld
  <2>3. \A u \in Threads : StHolds(u, j)' => u = t
    BY <2>2, StHoldsStep
  <2>4. StHolds(t, j)'
    BY <1>3 DEF StClaims, StMoves, StHolds
  <2> QED BY <1>1, <2>1, <2>3, <2>4 DEF StHeld
<1>4. CASE (StCommits(t) \/ StReleases(t)) /\ j = slot[t]
  <2>1. word'.map[j] # "insert"
    BY <1>1, <1>4 DEF StCommits, StReleases, StSetsMap
  <2>2. \A u \in Threads : ~StHolds(u, j)'
    <3>1. \A u \in Threads \ {t} : ~StHolds(u, j)
      BY <1>4, StFilling DEF StCommits, StReleases, StEnds, StFill
    <3>2. ~StHolds(t, j)'
      BY <1>4, StNames DEF StCommits, StReleases, StEnds, StHolds
    <3> QED BY <3>1, <3>2, StHoldsStep
  <2> QED BY <2>1, <2>2 DEF StHeld
<1>5. CASE StTakes(t) /\ j = idx[t]
  <2>1. word.map[j] = "valid" /\ word'.map[j] = "invalid"
    BY <1>1, <1>5, StTaken DEF StTakes, StSetsMap
  <2>2. \A u \in Threads : ~StHolds(u, j)
    BY <1>1, <2>1 DEF StHeld
  <2>3. ~StClaims(t)
    BY <1>5 DEF StTakes, StClaims, StMoves
  <2>4. \A u \in Threads : ~StHolds(u, j)'
    BY <2>2, <2>3, StHoldsStep
  <2> QED BY <2>1, <2>4 DEF StHeld
<1>6. \/ word'.map[j] = word.map[j] \/ (StClaims(t) /\ j = slot[t])
      \/ (StCommits(t) \/ StReleases(t)) /\ j = slot[t]
      \/ StTakes(t) /\ j = idx[t]
  BY <1>1, StMapSteps
  DEF StMapStep, StMapKept, StClaims, StCommits, StReleases, StTakes,
      StSetsMap
<1> QED BY <1>2, <1>3, <1>4, <1>5, <1>6

(* Where an object is, nothing else is.                                    *)
LEMMA StApart ==
  ASSUME StType, StOnce
  PROVE  /\ \A t, u \in Threads : obj[t] = obj[u] /\ obj[t] # 0 => t = u
         /\ \A t \in Threads, j \in StSlots :
              word.map[j] = "valid" /\ val[j] # 0 => val[j] # obj[t]
         /\ \A t, u \in Threads :
              at[t] = "rem_free" /\ cur[t] # 0 => cur[t] # obj[u]
         /\ \A t \in Threads, j \in StSlots :
              at[t] = "rem_free" /\ word.map[j] = "valid" /\ val[j] # 0 =>
                cur[t] # val[j]
         /\ \A t \in Threads : obj[t] # 0 => obj[t] \in used
         /\ \A t \in Threads :
              at[t] = "rem_free" /\ cur[t] # 0 => cur[t] \in used
<1>1. ASSUME NEW t \in Threads
      PROVE  /\ <<"obj", t>> \in StPlaces /\ StAt[<<"obj", t>>] = obj[t]
             /\ <<"rem", t>> \in StPlaces
             /\ StAt[<<"rem", t>>] = IF at[t] = "rem_free" THEN cur[t] ELSE 0
  BY DEF StPlaces, StAt
<1>2. ASSUME NEW j \in StSlots
      PROVE  /\ <<"slot", j>> \in StPlaces
             /\ StAt[<<"slot", j>>] =
                  IF word.map[j] = "valid" THEN val[j] ELSE 0
  BY DEF StPlaces, StAt
<1>3. /\ \A p, q \in StPlaces : StAt[p] = StAt[q] /\ StAt[p] # 0 => p = q
      /\ \A p \in StPlaces : StAt[p] # 0 => StAt[p] \in used
  BY DEF StOnce, Once
<1>4. ASSUME NEW t \in Threads, NEW u \in Threads,
             obj[t] = obj[u], obj[t] # 0
      PROVE  t = u
  <2>1. <<"obj", t>> = <<"obj", u>>
    BY <1>1, <1>3, <1>4
  <2> QED BY <2>1
<1>5. ASSUME NEW t \in Threads, NEW j \in StSlots,
             word.map[j] = "valid", val[j] # 0, val[j] = obj[t]
      PROVE  FALSE
  <2>1. <<"obj", t>> = <<"slot", j>>
    BY <1>1, <1>2, <1>3, <1>5
  <2> QED BY <2>1
<1>6. ASSUME NEW t \in Threads, NEW u \in Threads,
             at[t] = "rem_free", cur[t] # 0, cur[t] = obj[u]
      PROVE  FALSE
  <2>1. <<"rem", t>> = <<"obj", u>>
    BY <1>1, <1>3, <1>6
  <2> QED BY <2>1
<1>7. ASSUME NEW t \in Threads, NEW j \in StSlots, at[t] = "rem_free",
             word.map[j] = "valid", val[j] # 0, cur[t] = val[j]
      PROVE  FALSE
  <2>1. /\ <<"rem", t>> \in StPlaces /\ <<"slot", j>> \in StPlaces
        /\ StAt[<<"rem", t>>] = cur[t] /\ StAt[<<"slot", j>>] = cur[t]
    BY <1>1, <1>2, <1>7
  <2>2. <<"rem", t>> = <<"slot", j>>
    BY <1>3, <1>7, <2>1
  <2> QED BY <2>2
<1> QED BY <1>1, <1>3, <1>4, <1>5, <1>6, <1>7

LEMMA StEntryStep ==
  ASSUME NEW t, StStep(t), NEW j \in StSlots
  PROVE  StEntry(j)'
<1>1. /\ StEntry(j) /\ UNCHANGED first /\ word.map \in [StSlots -> StStates]
      /\ t \in Threads /\ StEffect(t) /\ key \in [StSlots -> StKeys]
      /\ val \in [StSlots -> StObjects] /\ content \in [Objects -> StKeys]
      /\ used \subseteq Objects /\ 0 \notin Objects
  BY StStepFacts, StFirstSame, StNames
  DEF StSharedType, StMemoryType, StWords
<1>2. ASSUME word'.map[j] = word.map[j],
             UNCHANGED <<key, val, used, content>>
      PROVE  StEntry(j)'
  BY <1>1, <1>2 DEF StEntry, StDirty
<1>3. ASSUME word.map[j] # "valid" /\ first[j] # "valid", word'.map[j] # "valid"
      PROVE  StEntry(j)'
  BY <1>1, <1>3 DEF StEntry
<1>4. CASE StLooks(t)
  BY <1>2, <1>4 DEF StLooks, StLocal
<1>5. CASE StExchanges(t) \/ StFrees(t)
  <2>1. UNCHANGED <<word, key, val>>
    BY <1>5 DEF StExchanges, StFrees
  <2>2. CASE word.map[j] # "valid" \/ first[j] = "valid"
    BY <1>1, <2>1, <2>2 DEF StEntry, StDirty
  <2>3. CASE word.map[j] = "valid" /\ first[j] # "valid"
    <3>1. /\ val[j] \in used /\ val[j] # 0
          /\ content[val[j]] = key[j] /\ key[j] \in StressKeys
      BY <1>1, <2>3 DEF StEntry
    <3>2. /\ val[j] # obj[t]
          /\ at[t] = "rem_free" => cur[t] # val[j]
      BY <1>1, <2>3, <3>1, StApart, StStepFacts
    <3>3. val'[j] \in used' /\ content'[val'[j]] = content[val[j]]
      <4>1. CASE StFrees(t)
        BY <2>1, <3>1, <3>2, <4>1 DEF StFrees, StEnds
      <4>2. CASE StExchanges(t)
        <5>1. PICK o \in Objects :
                /\ o \notin used
                /\ used' = (used \ {obj[t]}) \cup {o}
                /\ content' = [content EXCEPT ![o] = k[t]]
          BY <4>2 DEF StExchanges
        <5> QED BY <1>1, <2>1, <3>1, <3>2, <5>1
      <4> QED BY <1>5, <4>1, <4>2
    <3> QED BY <1>1, <2>1, <2>3, <3>1, <3>3 DEF StEntry
  <2> QED BY <2>2, <2>3
<1>6. CASE StClaims(t)
  <2>1. CASE j = slot[t]
    <3>1. word.map[j] = "invalid" /\ word'.map[j] = "insert"
      BY <1>1, <1>6, <2>1 DEF StClaims, StSetsMap
    <3> QED BY <1>1, <1>3, <3>1 DEF StEntry
  <2>2. CASE j # slot[t]
    BY <1>1, <1>2, <1>6, <2>2 DEF StClaims, StSetsMap
  <2> QED BY <2>1, <2>2
<1>7. CASE StWritesVal(t) \/ StWritesKey(t)
  <2>1. UNCHANGED <<word, used, content>>
    BY <1>7 DEF StWritesVal, StWritesKey
  <2>2. CASE j = slot[t]
    <3>1. word.map[j] = "insert" /\ first[j] # "valid"
      BY <1>7, <2>2, StFilling
      DEF StWritesVal, StWritesKey, StMoves, StFill
    <3> QED BY <1>3, <2>1, <3>1
  <2>3. CASE j # slot[t]
    <3>1. key'[j] = key[j] /\ val'[j] = val[j]
      BY <1>1, <1>7, <2>3 DEF StWritesVal, StWritesKey
    <3> QED BY <1>1, <2>1, <3>1 DEF StEntry, StDirty
  <2> QED BY <2>2, <2>3
<1>8. CASE StCommits(t)
  <2>1. CASE j = slot[t]
    <3>1. /\ first[j] # "valid" /\ obj[t] \in used
          /\ content[obj[t]] = k[t] /\ k[t] \in StressKeys
      BY <1>8, <2>1, StFilling DEF StCommits, StEnds, StFill
    <3>2. val[j] = obj[t] /\ key[j] = k[t]
      <4>1. StPut(t) /\ StPutting(t) /\ StWritten(t, j) /\ at[t] = "commit"
        BY <1>1, <1>8, <2>1, StStepFacts
        DEF StCommits, StEnds, StWritten, StHolds, StPutting, StFill
      <4> QED BY <4>1 DEF StPut
    <3> QED BY <1>1, <1>8, <3>1, <3>2 DEF StCommits, StEntry
  <2>2. CASE j # slot[t]
    BY <1>1, <1>2, <1>8, <2>2 DEF StCommits, StSetsMap
  <2> QED BY <2>1, <2>2
<1>9. CASE StReleases(t)
  <2>1. CASE j = slot[t]
    <3>1. /\ word.map[j] = "insert" /\ first[j] # "valid"
          /\ word'.map[j] = "invalid"
      BY <1>1, <1>9, <2>1, StFilling
      DEF StReleases, StEnds, StFill, StSetsMap
    <3> QED BY <1>3, <3>1
  <2>2. CASE j # slot[t]
    BY <1>1, <1>2, <1>9, <2>2 DEF StReleases, StSetsMap
  <2> QED BY <2>1, <2>2
<1>10. CASE StTakes(t)
  <2>1. CASE j = idx[t]
    <3>1. first[j] # "valid" /\ word'.map[j] = "invalid"
      BY <1>1, <1>10, <2>1, StTaken DEF StTakes, StSetsMap
    <3> QED BY <1>1, <3>1 DEF StEntry
  <2>2. CASE j # idx[t]
    BY <1>1, <1>2, <1>10, <2>2 DEF StTakes, StSetsMap
  <2> QED BY <2>1, <2>2
<1> QED
  BY <1>1, <1>4, <1>5, <1>6, <1>7, <1>8, <1>9, <1>10 DEF StEffect

LEMMA StPutStep ==
  ASSUME NEW t, StStep(t), NEW u \in Threads
  PROVE  StPut(u)'
<1>1. /\ StPut(u) /\ StEffect(t) /\ t \in Threads /\ 0 \notin Objects
      /\ used \subseteq Objects /\ content \in [Objects -> StKeys]
      /\ key \in [StSlots -> StKeys] /\ val \in [StSlots -> StObjects]
  BY StStepFacts, StNames DEF StMemoryType, StSharedType
<1> SUFFICES ASSUME StPutting(u)'
             PROVE  /\ obj'[u] \in used' /\ content'[obj'[u]] = k'[u]
                    /\ \A j \in StSlots : StWritten(u, j)' =>
                         /\ val'[j] = obj'[u]
                         /\ at'[u] # "write_key" => key'[j] = k'[u]
  BY DEF StPut
<1>2. CASE u # t
  <2>1. /\ StPutting(u) /\ obj'[u] = obj[u] /\ k'[u] = k[u]
        /\ at'[u] = at[u]
    BY <1>1, <1>2, StStepFacts DEF StOthersSame, StSame, StPutting
  <2>2. /\ obj[u] \in used /\ content[obj[u]] = k[u] /\ obj[u] # 0
        /\ \A j \in StSlots : StWritten(u, j) =>
              /\ val[j] = obj[u]
              /\ at[u] # "write_key" => key[j] = k[u]
    BY <1>1, <2>1 DEF StPut
  <2>3. obj[u] \in used' /\ content'[obj[u]] = content[obj[u]]
    <3>1. CASE StExchanges(t)
      <4>1. PICK o \in Objects :
              /\ o \notin used
              /\ used' = (used \ {obj[t]}) \cup {o}
              /\ content' = [content EXCEPT ![o] = k[t]]
        BY <3>1 DEF StExchanges
      <4>2. obj[u] # obj[t]
        BY <1>1, <1>2, <2>2, StApart, StStepFacts
      <4> QED BY <1>1, <2>2, <4>1, <4>2
    <3>2. CASE StFrees(t)
      <4>1. cur[t] # obj[u]
        BY <1>1, <2>2, <3>2, StApart, StStepFacts DEF StFrees, StEnds
      <4> QED BY <2>2, <3>2, <4>1 DEF StFrees
    <3>3. CASE ~StExchanges(t) /\ ~StFrees(t)
      BY <1>1, <2>2, <3>3
      DEF StEffect, StLooks, StLocal, StClaims, StWritesVal, StWritesKey,
          StCommits, StReleases, StTakes
    <3> QED BY <3>1, <3>2, <3>3
  <2>4. ASSUME NEW j \in StSlots, StWritten(u, j)
        PROVE  val'[j] = val[j] /\ key'[j] = key[j]
    <3>1. CASE StWritesVal(t) \/ StWritesKey(t)
      <4>1. ~StHolds(u, slot[t])
        BY <1>2, <3>1, StFilling
        DEF StWritesVal, StWritesKey, StMoves, StFill
      <4>2. j # slot[t]
        BY <2>4, <4>1 DEF StWritten
      <4> QED BY <1>1, <3>1, <4>2 DEF StWritesVal, StWritesKey
    <3>2. CASE ~StWritesVal(t) /\ ~StWritesKey(t)
      BY <1>1, <3>2
      DEF StEffect, StLooks, StLocal, StExchanges, StClaims, StCommits,
          StReleases, StTakes, StFrees
    <3> QED BY <3>1, <3>2
  <2>5. ASSUME NEW j \in StSlots, StWritten(u, j)'
        PROVE  /\ val'[j] = obj'[u]
               /\ at'[u] # "write_key" => key'[j] = k'[u]
    <3>1. StWritten(u, j)
      BY <1>2, <2>5, StHoldsStep
    <3> QED BY <2>1, <2>2, <2>4, <3>1
  <2> QED BY <2>1, <2>2, <2>3, <2>5
<1>3. CASE u = t
  <2>1. CASE StLooks(t)
    <3>1. /\ StPutting(t) /\ obj'[t] = obj[t] /\ k'[t] = k[t]
          /\ UNCHANGED <<used, content, key, val>> /\ at[t] # "write_key"
          /\ \A j \in StSlots : StWritten(t, j)' => StWritten(t, j)
      BY <1>3, <2>1 DEF StLooks, StLocal, StKeepsHolds
    <3> QED BY <1>1, <1>3, <3>1 DEF StPut
  <2>2. CASE StExchanges(t)
    <3>1. PICK o \in Objects :
            /\ used' = (used \ {obj[t]}) \cup {o} /\ obj'[t] = o
            /\ content' = [content EXCEPT ![o] = k[t]]
      BY <2>2 DEF StExchanges
    <3>2. k'[t] = k[t] /\ slot'[t] = 0
      BY <2>2, StOutside DEF StExchanges, StMoves
    <3>3. \A j \in StSlots : ~StWritten(t, j)'
      BY <3>2, StNames DEF StWritten, StHolds
    <3> QED BY <1>1, <1>3, <3>1, <3>2, <3>3
  <2>3. CASE StClaims(t)
    <3>1. /\ StPutting(t) /\ obj'[t] = obj[t] /\ k'[t] = k[t]
          /\ UNCHANGED <<used, content>> /\ at'[t] = "write_val"
      BY <2>3 DEF StClaims, StMoves, StPutting, StFill
    <3> QED BY <1>1, <1>3, <3>1 DEF StPut, StWritten
  <2>4. CASE StWritesVal(t)
    <3>1. /\ StPutting(t) /\ obj'[t] = obj[t] /\ k'[t] = k[t]
          /\ UNCHANGED <<used, content>> /\ at'[t] = "write_key"
          /\ slot'[t] = slot[t] /\ val' = [val EXCEPT ![slot[t]] = obj[t]]
      BY <2>4 DEF StWritesVal, StMoves, StPutting, StFill
    <3> QED BY <1>1, <1>3, <3>1 DEF StPut, StWritten, StHolds
  <2>5. CASE StWritesKey(t)
    <3>1. /\ StPutting(t) /\ obj'[t] = obj[t] /\ k'[t] = k[t]
          /\ UNCHANGED <<used, content, val>>
          /\ at[t] = "write_key" /\ at'[t] = "commit"
          /\ slot'[t] = slot[t] /\ key' = [key EXCEPT ![slot[t]] = k[t]]
      BY <2>5 DEF StWritesKey, StMoves, StPutting, StFill
    <3> QED BY <1>1, <1>3, <3>1 DEF StPut, StWritten, StHolds
  <2>6. CASE StCommits(t) \/ StReleases(t) \/ StTakes(t) \/ StFrees(t)
    <3>1. at'[t] \in {"loop", "rem_free"}
      BY <2>6 DEF StCommits, StReleases, StTakes, StFrees, StEnds, StMoves
    <3> QED BY <1>3, <3>1 DEF StPutting, StScan, StFill
  <2> QED BY <1>1, <2>1, <2>2, <2>3, <2>4, <2>5, <2>6 DEF StEffect
<1> QED BY <1>2, <1>3

-----------------------------------------------------------------------------
(* snap_stress.c: the objects are kept in their places.                    *)

LEMMA StPlaceFacts ==
  /\ \A t \in Threads : /\ <<"obj", t>> \in StPlaces
                        /\ <<"rem", t>> \in StPlaces
  /\ \A j \in StSlots : <<"slot", j>> \in StPlaces
  /\ DOMAIN StAt = StPlaces /\ StAt = [p \in StPlaces |-> StAt[p]]
  /\ \A t \in Threads :
       /\ StAt[<<"obj", t>>] = obj[t]
       /\ StAt[<<"rem", t>>] = IF at[t] = "rem_free" THEN cur[t] ELSE 0
  /\ \A j \in StSlots :
       StAt[<<"slot", j>>] = IF word.map[j] = "valid" THEN val[j] ELSE 0
BY DEF StPlaces, StAt

LEMMA StPlaceNext ==
  /\ StAt' = [p \in StPlaces |-> StAt'[p]]
  /\ \A t \in Threads :
       /\ StAt'[<<"obj", t>>] = obj'[t]
       /\ StAt'[<<"rem", t>>] = IF at'[t] = "rem_free" THEN cur'[t] ELSE 0
  /\ \A j \in StSlots :
       StAt'[<<"slot", j>>] = IF word'.map[j] = "valid" THEN val'[j] ELSE 0
BY DEF StPlaces, StAt

LEMMA StPlaceOne ==
  ASSUME NEW p \in StPlaces
  PROVE  \/ \E t \in Threads : p = <<"obj", t>> \/ p = <<"rem", t>>
         \/ \E j \in StSlots : p = <<"slot", j>>
BY DEF StPlaces

(* The places agree when they agree for all threads and slots.             *)
LEMMA StAtIs ==
  ASSUME NEW D, D = [p \in StPlaces |-> D[p]],
         \A u \in Threads :
           /\ D[<<"obj", u>>] = obj'[u]
           /\ D[<<"rem", u>>] = IF at'[u] = "rem_free" THEN cur'[u] ELSE 0,
         \A j \in StSlots :
           D[<<"slot", j>>] = IF word'.map[j] = "valid" THEN val'[j] ELSE 0
  PROVE  StAt' = D
<1>1. \A p \in StPlaces : StAt'[p] = D[p]
  <2>1. ASSUME NEW p \in StPlaces PROVE StAt'[p] = D[p]
    <3>1. CASE \E u \in Threads : p = <<"obj", u>>
      <4>1. PICK u \in Threads : p = <<"obj", u>>
        BY <3>1
      <4>2. StAt'[<<"obj", u>>] = D[<<"obj", u>>]
        BY StPlaceNext
      <4> QED BY <4>1, <4>2
    <3>2. CASE \E u \in Threads : p = <<"rem", u>>
      <4>1. PICK u \in Threads : p = <<"rem", u>>
        BY <3>2
      <4>2. StAt'[<<"rem", u>>] = D[<<"rem", u>>]
        BY StPlaceNext
      <4> QED BY <4>1, <4>2
    <3>3. CASE \E j \in StSlots : p = <<"slot", j>>
      <4>1. PICK j \in StSlots : p = <<"slot", j>>
        BY <3>3
      <4>2. StAt'[<<"slot", j>>] = D[<<"slot", j>>]
        BY StPlaceNext
      <4> QED BY <4>1, <4>2
    <3> QED BY <3>1, <3>2, <3>3, StPlaceOne
  <2> QED BY <2>1
<1> QED BY <1>1, StPlaceNext

LEMMA StOnceSame ==
  ASSUME NEW t, StStep(t), UNCHANGED used,
         \A u \in Threads :
           /\ obj'[u] = obj[u]
           /\ at'[u] = "rem_free" <=> at[u] = "rem_free"
           /\ at[u] = "rem_free" => cur'[u] = cur[u],
         \A j \in StSlots :
           /\ word'.map[j] = "valid" <=> word.map[j] = "valid"
           /\ word.map[j] = "valid" => val'[j] = val[j]
  PROVE  StOnce'
<1>1. StAt' = StAt
  <2> DEFINE D == StAt
  <2>1. /\ D = [p \in StPlaces |-> D[p]]
        /\ \A u \in Threads :
             /\ D[<<"obj", u>>] = obj'[u]
             /\ D[<<"rem", u>>] = IF at'[u] = "rem_free" THEN cur'[u] ELSE 0
        /\ \A j \in StSlots :
             D[<<"slot", j>>] = IF word'.map[j] = "valid" THEN val'[j] ELSE 0
    BY StPlaceFacts
  <2> HIDE DEF D
  <2>2. StAt' = D
    BY <2>1, StAtIs
  <2> QED BY <2>2 DEF D
<1>2. StOnce
  BY StStepFacts
<1>3. StPlaces' = StPlaces
  BY DEF StPlaces
<1> QED BY <1>1, <1>2, <1>3 DEF StOnce, Once

LEMMA StOnceStep ==
  ASSUME NEW t, StStep(t)
  PROVE  StOnce'
<1>1. /\ t \in Threads /\ word.map \in [StSlots -> StStates]
      /\ val \in [StSlots -> StObjects] /\ used \subseteq Objects
      /\ 0 \notin Objects /\ StObjects = Objects \cup {0}
      /\ \A u \in Threads : obj[u] \in StObjects /\ cur[u] \in StObjects
  BY StStepFacts, StNames
  DEF StSharedType, StMemoryType, StWords, StLocalType, StObjects
<1>2. \A u \in Threads \ {t} :
        obj'[u] = obj[u] /\ at'[u] = at[u] /\ cur'[u] = cur[u]
  BY StStepFacts DEF StOthersSame, StSame
<1>3. Once(StAt, StPlaces, used, Objects)
  BY StStepFacts DEF StOnce
<1>4. StOnce' <=> Once(StAt', StPlaces, used', Objects)
  BY DEF StOnce, Once, StPlaces
<1>5. CASE StLooks(t) \/ StWritesKey(t)
  <2>1. /\ UNCHANGED <<word, val, used>> /\ obj' = obj
        /\ at[t] # "rem_free" /\ at'[t] # "rem_free"
    BY <1>5 DEF StLooks, StLocal, StWritesKey, StMoves
  <2> QED BY <1>2, <2>1, StOnceSame
<1>6. CASE StClaims(t) \/ StReleases(t)
  <2>1. /\ UNCHANGED <<val, used>> /\ obj' = obj
        /\ at[t] # "rem_free" /\ at'[t] # "rem_free"
    BY <1>6 DEF StClaims, StReleases, StMoves, StEnds
  <2>2. \A j \in StSlots : word'.map[j] = "valid" <=> word.map[j] = "valid"
    <3>1. word.map[slot[t]] # "valid"
      BY <1>6, StFilling DEF StClaims, StReleases, StEnds, StFill
    <3> QED BY <1>1, <1>6, <3>1 DEF StClaims, StReleases, StSetsMap
  <2> QED BY <1>2, <2>1, <2>2, StOnceSame
<1>7. CASE StWritesVal(t)
  <2>1. /\ UNCHANGED <<word, used>> /\ obj' = obj
        /\ at[t] # "rem_free" /\ at'[t] # "rem_free"
        /\ val' = [val EXCEPT ![slot[t]] = obj[t]]
    BY <1>7 DEF StWritesVal, StMoves
  <2>2. word.map[slot[t]] # "valid"
    BY <1>7, StFilling DEF StWritesVal, StMoves, StFill
  <2>3. \A j \in StSlots : word.map[j] = "valid" => val'[j] = val[j]
    BY <1>1, <2>1, <2>2
  <2> QED BY <1>2, <2>1, <2>3, StOnceSame
<1>8. CASE StExchanges(t)
  <2>1. PICK o \in Objects :
          /\ o \notin used /\ obj'[t] = o
          /\ used' = (used \ {obj[t]}) \cup {o}
    BY <1>8 DEF StExchanges
  <2> DEFINE p == <<"obj", t>>
             D == [StAt EXCEPT ![p] = o]
  <2>2. p \in StPlaces /\ StAt[p] = obj[t]
    BY <1>1, StPlaceFacts
  <2>3. /\ D = [q \in StPlaces |-> D[q]] /\ D[p] = o
        /\ \A q \in StPlaces \ {p} : D[q] = StAt[q]
    BY <2>2, StPlaceFacts
  <2>4. Once(D, StPlaces, used', Objects)
    BY <1>1, <1>3, <2>1, <2>2, OncePut
  <2>5. UNCHANGED <<word, val>> /\ at[t] # "rem_free" /\ at'[t] # "rem_free"
    BY <1>8 DEF StExchanges, StMoves
  <2>6. /\ \A u \in Threads : <<"rem", u>> # p
        /\ \A u \in Threads \ {t} : <<"obj", u>> # p
        /\ \A j \in StSlots : <<"slot", j>> # p
    OBVIOUS
  <2> HIDE DEF D
  <2>7. \A u \in Threads :
          /\ D[<<"obj", u>>] = obj'[u]
          /\ D[<<"rem", u>>] = IF at'[u] = "rem_free" THEN cur'[u] ELSE 0
    BY <1>2, <2>1, <2>3, <2>5, <2>6, StPlaceFacts
  <2>8. \A j \in StSlots :
          D[<<"slot", j>>] = IF word'.map[j] = "valid" THEN val'[j] ELSE 0
    BY <2>3, <2>5, <2>6, StPlaceFacts
  <2>9. StAt' = D
    BY <2>3, <2>7, <2>8, StAtIs
  <2> QED BY <1>4, <2>4, <2>9
<1>9. CASE StCommits(t)
  <2>1. /\ slot[t] \in StSlots /\ word.map[slot[t]] = "insert"
        /\ obj[t] \in used /\ val[slot[t]] = obj[t]
    <3>1. StPut(t) /\ StWritten(t, slot[t]) /\ StPutting(t)
          /\ slot[t] \in StSlots /\ word.map[slot[t]] = "insert"
      BY <1>1, <1>9, StFilling, StStepFacts
      DEF StCommits, StEnds, StFill, StWritten, StHolds, StPutting
    <3> QED BY <3>1 DEF StPut
  <2>2. /\ word'.map = [word.map EXCEPT ![slot[t]] = "valid"]
        /\ UNCHANGED <<val, used>> /\ obj'[t] = 0
        /\ at[t] # "rem_free" /\ at'[t] # "rem_free"
    BY <1>9 DEF StCommits, StEnds, StSetsMap
  <2> DEFINE p == <<"obj", t>>
             q == <<"slot", slot[t]>>
  <2>3. /\ p \in StPlaces /\ q \in StPlaces /\ p # q
        /\ StAt[p] = obj[t] /\ StAt[q] = 0
    BY <1>1, <2>1, StPlaceFacts
  <2>6. StAt'[p] = 0 /\ StAt'[q] = StAt[p]
    BY <1>1, <2>1, <2>2, <2>3, StPlaceNext
  <2>7. \A s \in StPlaces \ {p, q} : StAt'[s] = StAt[s]
    <3>1. ASSUME NEW u \in Threads, <<"obj", u>> # p
          PROVE  StAt'[<<"obj", u>>] = StAt[<<"obj", u>>]
      <4>1. obj'[u] = obj[u]
        BY <1>2, <3>1
      <4> QED BY <4>1, StPlaceFacts, StPlaceNext
    <3>2. ASSUME NEW u \in Threads
          PROVE  StAt'[<<"rem", u>>] = StAt[<<"rem", u>>]
      <4>1. /\ at'[u] = "rem_free" <=> at[u] = "rem_free"
            /\ at[u] = "rem_free" => cur'[u] = cur[u]
        BY <1>2, <2>2
      <4> QED BY <4>1, StPlaceFacts, StPlaceNext
    <3>3. ASSUME NEW j \in StSlots, <<"slot", j>> # q
          PROVE  StAt'[<<"slot", j>>] = StAt[<<"slot", j>>]
      <4>1. word'.map[j] = word.map[j] /\ val'[j] = val[j]
        BY <1>1, <2>2, <3>3
      <4> QED BY <4>1, StPlaceFacts, StPlaceNext
    <3> QED BY <3>1, <3>2, <3>3, StPlaceOne
  <2>8. StAt' \in [StPlaces -> Objects \cup {0}]
    <3>1. \A s \in StPlaces : StAt[s] \in Objects \cup {0}
      BY <1>3 DEF Once
    <3>2. \A s \in StPlaces : StAt'[s] \in Objects \cup {0}
      BY <2>3, <2>6, <2>7, <3>1
    <3> QED BY <3>2, StPlaceNext
  <2> HIDE DEF p, q
  <2>9. Once(StAt', StPlaces, used, Objects)
    BY <1>1, <1>3, <2>3, <2>6, <2>7, <2>8, OnceMoved
  <2> QED BY <1>4, <2>2, <2>9
<1>10. CASE StTakes(t)
  <2>1. /\ idx[t] \in StSlots /\ word.map[idx[t]] = "valid"
        /\ cur[t] = val[idx[t]]
    BY <1>10, StTaken
  <2>2. /\ word'.map = [word.map EXCEPT ![idx[t]] = "invalid"]
        /\ UNCHANGED <<val, used, obj>> /\ cur'[t] = cur[t]
        /\ at[t] # "rem_free" /\ at'[t] = "rem_free"
    BY <1>10 DEF StTakes, StMoves, StSetsMap
  <2> DEFINE q == <<"rem", t>>
             p == <<"slot", idx[t]>>
  <2>3. /\ p \in StPlaces /\ q \in StPlaces /\ p # q
        /\ StAt[p] = cur[t] /\ StAt[q] = 0
    BY <1>1, <2>1, <2>2, StPlaceFacts
  <2>6. StAt'[p] = 0 /\ StAt'[q] = StAt[p]
    BY <1>1, <2>1, <2>2, <2>3, StPlaceNext
  <2>7. \A s \in StPlaces \ {p, q} : StAt'[s] = StAt[s]
    <3>1. ASSUME NEW u \in Threads
          PROVE  StAt'[<<"obj", u>>] = StAt[<<"obj", u>>]
      BY <2>2, StPlaceFacts, StPlaceNext
    <3>2. ASSUME NEW u \in Threads, <<"rem", u>> # q
          PROVE  StAt'[<<"rem", u>>] = StAt[<<"rem", u>>]
      <4>1. at'[u] = at[u] /\ cur'[u] = cur[u]
        BY <1>2, <3>2
      <4> QED BY <4>1, StPlaceFacts, StPlaceNext
    <3>3. ASSUME NEW j \in StSlots, <<"slot", j>> # p
          PROVE  StAt'[<<"slot", j>>] = StAt[<<"slot", j>>]
      <4>1. word'.map[j] = word.map[j] /\ val'[j] = val[j]
        BY <1>1, <2>2, <3>3
      <4> QED BY <4>1, StPlaceFacts, StPlaceNext
    <3> QED BY <3>1, <3>2, <3>3, StPlaceOne
  <2>8. StAt' \in [StPlaces -> Objects \cup {0}]
    <3>1. \A s \in StPlaces : StAt[s] \in Objects \cup {0}
      BY <1>3 DEF Once
    <3>2. \A s \in StPlaces : StAt'[s] \in Objects \cup {0}
      BY <2>3, <2>6, <2>7, <3>1
    <3> QED BY <3>2, StPlaceNext
  <2> HIDE DEF p, q
  <2>9. Once(StAt', StPlaces, used, Objects)
    BY <1>1, <1>3, <2>3, <2>6, <2>7, <2>8, OnceMoved
  <2> QED BY <1>4, <2>2, <2>9
<1>11. CASE StFrees(t)
  <2>1. /\ UNCHANGED <<word, val, obj>> /\ used' = used \ {cur[t]}
        /\ at[t] = "rem_free" /\ at'[t] # "rem_free"
    BY <1>11 DEF StFrees, StEnds
  <2> DEFINE p == <<"rem", t>>
             D == [StAt EXCEPT ![p] = 0]
  <2>2. p \in StPlaces /\ StAt[p] = cur[t]
    BY <1>1, <2>1, StPlaceFacts
  <2>3. /\ D = [q \in StPlaces |-> D[q]] /\ D[p] = 0
        /\ \A q \in StPlaces \ {p} : D[q] = StAt[q]
    BY <2>2, StPlaceFacts
  <2>4. Once(D, StPlaces, used', Objects)
    BY <1>1, <1>3, <2>1, <2>2, OnceTaken
  <2>6. /\ \A u \in Threads : <<"obj", u>> # p
        /\ \A u \in Threads \ {t} : <<"rem", u>> # p
        /\ \A j \in StSlots : <<"slot", j>> # p
    OBVIOUS
  <2> HIDE DEF D
  <2>7. \A u \in Threads :
          /\ D[<<"obj", u>>] = obj'[u]
          /\ D[<<"rem", u>>] = IF at'[u] = "rem_free" THEN cur'[u] ELSE 0
    BY <1>2, <2>1, <2>3, <2>6, StPlaceFacts
  <2>8. \A j \in StSlots :
          D[<<"slot", j>>] = IF word'.map[j] = "valid" THEN val'[j] ELSE 0
    BY <2>1, <2>3, <2>6, StPlaceFacts
  <2>9. StAt' = D
    BY <2>3, <2>7, <2>8, StAtIs
  <2> QED BY <1>4, <2>4, <2>9
<1>12. StEffect(t)
  BY StStepFacts
<1> QED BY <1>5, <1>6, <1>7, <1>8, <1>9, <1>10, <1>11, <1>12 DEF StEffect

-----------------------------------------------------------------------------
(* snap_stress.c: the counts.                                              *)

LEMMA StFinite ==
  /\ IsFiniteSet(StSlots) /\ IsFiniteSet(Threads)
  /\ IsFiniteSet(StValid) /\ IsFiniteSet(StFreeing) /\ IsFiniteSet(StPuts)
  /\ IsFiniteSet(StFirst)
<1>1. IsFiniteSet(StSlots)
  BY StNames, FS_Interval DEF StSlots
<1>2. IsFiniteSet(Threads)
  BY BenchAssumption
<1>3. /\ StValid \subseteq StSlots /\ StFirst \subseteq StSlots
      /\ StFreeing \subseteq Threads /\ StPuts \subseteq Threads
  BY DEF StValid, StFirst, StFreeing, StPuts
<1> QED BY <1>1, <1>2, <1>3, FS_Subset

LEMMA StFiniteNext ==
  /\ IsFiniteSet(StValid') /\ IsFiniteSet(StFreeing')
  /\ IsFiniteSet(StPuts') /\ IsFiniteSet(StFirst')
<1>1. /\ StValid' \subseteq StSlots /\ StFirst' \subseteq StSlots
      /\ StFreeing' \subseteq Threads /\ StPuts' \subseteq Threads
  BY DEF StValid, StFirst, StFreeing, StPuts
<1> QED BY <1>1, StFinite, FS_Subset

LEMMA StCountedStep ==
  ASSUME NEW t, StStep(t)
  PROVE  StCounted'
<1>1. /\ t \in Threads /\ word.map \in [StSlots -> StStates]
      /\ StEffect(t) /\ MaxAllocs \in Nat
  BY StStepFacts, BenchAssumption DEF StSharedType, StWords
<1>2. \A u \in Threads \ {t} :
        (at'[u] = "rem_free" <=> at[u] = "rem_free")
          /\ (StPutting(u)' <=> StPutting(u))
  BY StStepFacts DEF StOthersSame, StSame, StPutting
<1>3. /\ nputs \in Nat /\ nrems \in Nat /\ allocs \in 0 .. MaxAllocs
      /\ Cardinality(StValid) + Cardinality(StFreeing) + nrems
           = nputs + Cardinality(StFirst)
      /\ nputs + Cardinality(StPuts) <= allocs
  BY StStepFacts DEF StCounted
<1>4. /\ Cardinality(StFirst') = Cardinality(StFirst)
      /\ Cardinality(StFirst) \in Nat /\ Cardinality(StValid) \in Nat
      /\ Cardinality(StFreeing) \in Nat /\ Cardinality(StPuts) \in Nat
  <2>1. StFirst' = StFirst
    BY StFirstSame DEF StFirst
  <2> QED BY <2>1, StFinite, FS_CardinalityType
<1>5. ASSUME StPutting(t)' => StPutting(t)
      PROVE  /\ Cardinality(StPuts') <= Cardinality(StPuts)
             /\ Cardinality(StPuts') \in Nat
  <2>1. StPuts' \in SUBSET StPuts
    BY <1>2, <1>5 DEF StPuts
  <2> QED BY <2>1, StFinite, SizeLess
<1>6. ASSUME at'[t] = "rem_free" <=> at[t] = "rem_free"
      PROVE  Cardinality(StFreeing') = Cardinality(StFreeing)
  <2>1. StFreeing' = StFreeing
    BY <1>2, <1>6 DEF StFreeing
  <2> QED BY <2>1
<1>7. ASSUME \A j \in StSlots : word'.map[j] = "valid" <=> word.map[j] = "valid"
      PROVE  Cardinality(StValid') = Cardinality(StValid)
  <2>1. StValid' = StValid
    BY <1>7 DEF StValid
  <2> QED BY <2>1
<1>8. CASE StLooks(t) \/ StWritesVal(t) \/ StWritesKey(t)
  <2>1. /\ UNCHANGED <<nputs, nrems, allocs, word>>
        /\ at'[t] # "rem_free" /\ at[t] # "rem_free"
    BY <1>8 DEF StLooks, StLocal, StWritesVal, StWritesKey, StMoves
  <2>2. StPutting(t)' => StPutting(t)
    BY <1>8
    DEF StLooks, StKeepsHolds, StWritesVal, StWritesKey, StMoves, StPutting,
        StFill
  <2> QED BY <1>3, <1>4, <1>5, <1>6, <1>7, <2>1, <2>2 DEF StCounted
<1>9. CASE StClaims(t) \/ StReleases(t)
  <2>1. /\ UNCHANGED <<nputs, nrems, allocs>>
        /\ at'[t] # "rem_free" /\ at[t] # "rem_free"
    BY <1>9 DEF StClaims, StReleases, StMoves, StEnds
  <2>2. StPutting(t)' => StPutting(t)
    BY <1>9 DEF StClaims, StReleases, StMoves, StEnds, StPutting, StFill
  <2>3. \A j \in StSlots : word'.map[j] = "valid" <=> word.map[j] = "valid"
    <3>1. word.map[slot[t]] # "valid"
      BY <1>9, StFilling DEF StClaims, StReleases, StEnds, StFill
    <3> QED BY <1>1, <1>9, <3>1 DEF StClaims, StReleases, StSetsMap
  <2> QED BY <1>3, <1>4, <1>5, <1>6, <1>7, <2>1, <2>2, <2>3 DEF StCounted
<1>10. CASE StExchanges(t)
  <2>1. /\ UNCHANGED <<nputs, nrems, word>>
        /\ at'[t] # "rem_free" /\ at[t] # "rem_free"
        /\ allocs < MaxAllocs /\ allocs' = allocs + 1
        /\ at'[t] = "snapshot"
    BY <1>10 DEF StExchanges, StMoves
  <2>2. ~StPutting(t) /\ StPutting(t)'
    BY <1>10, <2>1, StOutside DEF StExchanges, StMoves, StPutting
  <2>3. t \notin StPuts /\ StPuts' = StPuts \cup {t}
    BY <1>1, <1>2, <2>2 DEF StPuts
  <2>4. Cardinality(StPuts') = Cardinality(StPuts) + 1
    BY <2>3, StFinite, SizeGrown
  <2> QED BY <1>1, <1>3, <1>4, <1>6, <1>7, <2>1, <2>4 DEF StCounted
<1>11. CASE StCommits(t)
  <2>1. /\ UNCHANGED <<nrems, allocs>> /\ nputs' = nputs + 1
        /\ at'[t] = "loop" /\ at[t] = "commit"
        /\ word'.map = [word.map EXCEPT ![slot[t]] = "valid"]
    BY <1>11 DEF StCommits, StEnds, StSetsMap
  <2>2. slot[t] \in StSlots /\ word.map[slot[t]] = "insert"
    BY <1>11, StFilling DEF StCommits, StEnds, StFill
  <2>3. slot[t] \notin StValid /\ StValid' = StValid \cup {slot[t]}
    BY <1>1, <2>1, <2>2 DEF StValid
  <2>4. Cardinality(StValid') = Cardinality(StValid) + 1
    BY <2>3, StFinite, SizeGrown
  <2>5. StPutting(t) /\ ~StPutting(t)'
    BY <2>1 DEF StPutting, StFill, StScan
  <2>6. t \in StPuts /\ StPuts' = StPuts \ {t}
    BY <1>1, <1>2, <2>5 DEF StPuts
  <2>7. Cardinality(StPuts') + 1 = Cardinality(StPuts)
        /\ Cardinality(StPuts') \in Nat
    BY <2>6, StFinite, SizeLost
  <2>8. Cardinality(StFreeing') = Cardinality(StFreeing)
    BY <1>6, <2>1
  <2> QED BY <1>1, <1>3, <1>4, <2>1, <2>4, <2>7, <2>8 DEF StCounted
<1>12. CASE StTakes(t)
  <2>1. /\ UNCHANGED <<nputs, nrems, allocs>>
        /\ at'[t] = "rem_free" /\ at[t] = "rem_cas"
        /\ word'.map = [word.map EXCEPT ![idx[t]] = "invalid"]
    BY <1>12 DEF StTakes, StMoves, StSetsMap
  <2>2. idx[t] \in StSlots /\ word.map[idx[t]] = "valid"
    BY <1>12, StTaken
  <2>3. idx[t] \in StValid /\ StValid' = StValid \ {idx[t]}
    BY <1>1, <2>1, <2>2 DEF StValid
  <2>4. Cardinality(StValid') + 1 = Cardinality(StValid)
        /\ Cardinality(StValid') \in Nat
    BY <2>3, StFinite, SizeLost
  <2>5. t \notin StFreeing /\ StFreeing' = StFreeing \cup {t}
    BY <1>1, <1>2, <2>1 DEF StFreeing
  <2>6. Cardinality(StFreeing') = Cardinality(StFreeing) + 1
    BY <2>5, StFinite, SizeGrown
  <2>7. /\ Cardinality(StPuts') <= Cardinality(StPuts)
        /\ Cardinality(StPuts') \in Nat
    <3>1. ~StPutting(t)'
      BY <2>1 DEF StPutting, StFill, StScan
    <3> QED BY <1>5, <3>1
  <2> QED BY <1>3, <1>4, <2>1, <2>4, <2>6, <2>7 DEF StCounted
<1>13. CASE StFrees(t)
  <2>1. /\ UNCHANGED <<nputs, allocs, word>> /\ nrems' = nrems + 1
        /\ at'[t] = "loop" /\ at[t] = "rem_free"
    BY <1>13 DEF StFrees, StEnds
  <2>2. t \in StFreeing /\ StFreeing' = StFreeing \ {t}
    BY <1>1, <1>2, <2>1 DEF StFreeing
  <2>3. Cardinality(StFreeing') + 1 = Cardinality(StFreeing)
        /\ Cardinality(StFreeing') \in Nat
    BY <2>2, StFinite, SizeLost
  <2>4. /\ Cardinality(StPuts') <= Cardinality(StPuts)
        /\ Cardinality(StPuts') \in Nat
    <3>1. ~StPutting(t)'
      BY <2>1 DEF StPutting, StFill, StScan
    <3> QED BY <1>5, <3>1
  <2>5. Cardinality(StValid') = Cardinality(StValid)
    BY <1>7, <2>1
  <2> QED BY <1>3, <1>4, <2>1, <2>3, <2>4, <2>5 DEF StCounted
<1> QED
  BY <1>1, <1>8, <1>9, <1>10, <1>11, <1>12, <1>13 DEF StEffect

-----------------------------------------------------------------------------
(* snap_stress.c: the others while t takes a step.                         *)

LEMMA StControlOther ==
  ASSUME NEW t, StStep(t), NEW u \in Threads \ {t}
  PROVE  StControl(u)'
<1>1. StControl(u) /\ StSame(u)
  BY StStepFacts DEF StOthersSame
<1> QED BY <1>1 DEF StControl, StSame, StPutting

(* Only an own slot is written, and it is not valid.                       *)
LEMMA StWrites ==
  ASSUME NEW t, StStep(t), NEW j \in StSlots
  PROVE  \/ key'[j] = key[j] /\ val'[j] = val[j]
         \/ /\ StWritesVal(t) \/ StWritesKey(t)
            /\ j = slot[t] /\ word.map[j] = "insert" /\ word' = word
            /\ ~StWritesVal(t) => val'[j] = val[j]
<1>1. /\ key \in [StSlots -> StKeys] /\ val \in [StSlots -> StObjects]
      /\ StEffect(t)
  BY StStepFacts DEF StSharedType
<1>2. CASE StWritesVal(t) \/ StWritesKey(t)
  <2>1. word.map[slot[t]] = "insert"
    BY <1>2, StFilling DEF StWritesVal, StWritesKey, StMoves, StFill
  <2> QED BY <1>1, <1>2, <2>1 DEF StWritesVal, StWritesKey
<1>3. CASE ~(StWritesVal(t) \/ StWritesKey(t))
  BY <1>1, <1>3
  DEF StEffect, StLooks, StLocal, StExchanges, StClaims, StCommits,
      StReleases, StTakes, StFrees
<1> QED BY <1>2, <1>3

LEMMA StVersion ==
  ASSUME NEW t, StStep(t)
  PROVE  /\ word.version \in Nat /\ word'.version \in Nat
         /\ word.version <= word'.version
         /\ word'.version = word.version =>
              \A j \in StSlots :
                word'.map[j] = "valid" => word.map[j] = "valid"
<1>1. word.version \in Nat /\ word.map \in [StSlots -> StStates]
      /\ word'.version \in Nat
  BY StStepFacts DEF StSharedType, StWords
<1>2. CASE StMapKept
  BY <1>1, <1>2 DEF StMapKept
<1>3. CASE StClaims(t) \/ StReleases(t) \/ StTakes(t)
  BY <1>1, <1>3 DEF StClaims, StReleases, StTakes, StSetsMap
<1>4. CASE StCommits(t)
  BY <1>1, <1>4 DEF StCommits
<1> QED BY <1>2, <1>3, <1>4, StMapSteps DEF StMapStep

LEMMA StTakingOther ==
  ASSUME NEW t, StStep(t), NEW u \in Threads \ {t}
  PROVE  StTaking(u)'
<1>1. /\ StTaking(u) /\ StSame(u) /\ idx[u] \in StSlots
      /\ snap[u].version \in Nat
  BY StStepFacts DEF StOthersSame, StLocalType, StWords
<1> SUFFICES ASSUME at[u] \in StTake
             PROVE  StTaking(u)'
  BY <1>1 DEF StTaking, StSame
<1>2. /\ snap[u].version <= word.version
      /\ at[u] # "rem_key" => snap[u].map[idx[u]] = "valid"
      /\ at[u] # "rem_key" /\ snap[u].version = word.version
         /\ word.map[idx[u]] = "valid"
         => /\ key[idx[u]] = k[u]
            /\ at[u] = "rem_cas" => cur[u] = val[idx[u]]
  BY <1>1 DEF StTaking
<1>3. snap[u].version <= word'.version
  BY <1>1, <1>2, StVersion
<1>4. ASSUME at[u] # "rem_key", snap[u].version = word'.version,
             word'.map[idx[u]] = "valid"
      PROVE  /\ key'[idx[u]] = k[u]
             /\ at[u] = "rem_cas" => cur[u] = val'[idx[u]]
  <2>1. word.version = word'.version /\ word.map[idx[u]] = "valid"
    BY <1>1, <1>2, <1>4, StVersion
  <2>2. key'[idx[u]] = key[idx[u]] /\ val'[idx[u]] = val[idx[u]]
    BY <1>1, <2>1, StWrites
  <2> QED BY <1>2, <1>4, <2>1, <2>2
<1> QED BY <1>1, <1>2, <1>3, <1>4 DEF StTaking, StSame

(* What a thread reads is not handed out meanwhile, so it keeps its key.   *)
LEMMA StKeptOther ==
  ASSUME NEW t, StStep(t), NEW u \in Threads \ {t}, NEW c, StKept(u, c)
  PROVE  /\ cur'[u] \in Objects
         /\ cur'[u] \in used' \/ u \in readers'[cur'[u]]
         /\ content'[cur'[u]] = c
<1>1. /\ cur'[u] = cur[u] /\ StEffect(t) /\ used \subseteq Objects
      /\ content \in [Objects -> StKeys]
      /\ readers \in [Objects -> SUBSET Threads]
      /\ cur[u] \in Objects /\ content[cur[u]] = c
      /\ cur[u] \in used \/ u \in readers[cur[u]]
  BY StStepFacts DEF StOthersSame, StSame, StMemoryType, StKept
<1>2. CASE StExchanges(t)
  <2>1. PICK o \in Objects :
          /\ o \notin used /\ readers[o] = {}
          /\ used' = (used \ {obj[t]}) \cup {o}
          /\ content' = [content EXCEPT ![o] = k[t]]
          /\ \A d \in Objects :
               readers'[d] = (IF d = obj[t] THEN Threads ELSE readers[d]) \ {t}
    BY <1>2 DEF StExchanges
  <2>2. cur[u] # o
    BY <1>1, <2>1
  <2>3. content'[cur[u]] = content[cur[u]]
    BY <1>1, <2>1, <2>2
  <2>4. cur[u] \in used' \/ u \in readers'[cur[u]]
    BY <1>1, <2>1, <2>2
  <2> QED BY <1>1, <2>3, <2>4
<1>3. CASE StFrees(t)
  <2>1. /\ used' = used \ {cur[t]} /\ UNCHANGED content
        /\ \A d \in Objects :
             readers'[d] = (IF d = cur[t] THEN Threads ELSE readers[d]) \ {t}
    BY <1>3 DEF StFrees
  <2>2. cur[u] \in used' \/ u \in readers'[cur[u]]
    BY <1>1, <2>1
  <2> QED BY <1>1, <2>1, <2>2
<1>4. CASE ~StExchanges(t) /\ ~StFrees(t)
  <2>1. UNCHANGED <<used, readers, content>>
    BY <1>1, <1>4
    DEF StEffect, StLooks, StLocal, StClaims, StWritesVal, StWritesKey,
        StCommits, StReleases, StTakes
  <2> QED BY <1>1, <2>1
<1> QED BY <1>2, <1>3, <1>4

LEMMA StReadingOther ==
  ASSUME NEW t, StStep(t), NEW u \in Threads \ {t}
  PROVE  StReading(u)'
<1>1. /\ StReading(u) /\ StSame(u) /\ idx[u] \in StSlots /\ StEffect(t)
      /\ val \in [StSlots -> StObjects] /\ t \in Threads
  BY StStepFacts DEF StOthersSame, StLocalType, StSharedType
<1>2. /\ at'[u] = at[u] /\ role'[u] = role[u] /\ k'[u] = k[u]
      /\ idx'[u] = idx[u] /\ cur'[u] = cur[u]
  BY <1>1 DEF StSame
<1> SUFFICES ASSUME role[u] = "get", u \notin refilled'
             PROVE  StReading(u)'
  BY <1>2 DEF StReading
<1>3. u \notin refilled
  BY <1>1
  DEF StEffect, StLooks, StLocal, StExchanges, StClaims, StWritesVal,
      StWritesKey, StCommits, StReleases, StTakes, StFrees
<1>4. ASSUME at[u] \in {"key", "again"}, val'[idx[u]] = cur[u]
      PROVE  /\ \A v \in Threads : ~StWritten(v, idx[u])'
             /\ \/ /\ cur'[u] \in Objects
                   /\ cur'[u] \in used' \/ u \in readers'[cur'[u]]
                   /\ content'[cur'[u]] =
                        IF at[u] = "key" THEN key'[idx[u]] ELSE k[u]
                \/ at[u] = "key" /\ cur[u] = 0 /\ key'[idx[u]] = 0
  <2>1. ~StWritesVal(t) \/ idx[u] # slot[t]
    BY <1>1, <1>3, <1>4 DEF StWritesVal
  <2>2. val[idx[u]] = cur[u]
    BY <1>1, <1>4, <2>1, StWrites
  <2>3. /\ \A v \in Threads : ~StWritten(v, idx[u])
        /\ \/ StKept(u, IF at[u] = "key" THEN key[idx[u]] ELSE k[u])
           \/ at[u] = "key" /\ cur[u] = 0 /\ key[idx[u]] = 0
    BY <1>1, <1>3, <1>4, <2>2 DEF StReading
  <2>4. \A v \in Threads : ~StWritten(v, idx[u])'
    <3>1. ASSUME NEW v \in Threads, NEW j \in StSlots, j = idx[u]
          PROVE  ~StWritten(v, j)'
      BY <1>1, <2>1, <2>3, <3>1, StHoldsStep
    <3> QED BY <1>1, <1>2, <3>1 DEF StWritten, StHolds
  <2>5. key'[idx[u]] = key[idx[u]]
    <3>1. ~StWritesKey(t) \/ idx[u] # slot[t]
      BY <1>1, <2>3, StFilling
      DEF StWritesKey, StMoves, StFill, StWritten
    <3> QED BY <1>1, <2>1, <3>1, StWrites
  <2>6. CASE StKept(u, IF at[u] = "key" THEN key[idx[u]] ELSE k[u])
    <3> DEFINE c == IF at[u] = "key" THEN key[idx[u]] ELSE k[u]
    <3>1. StKept(u, c)
      BY <2>6
    <3>2. c = IF at[u] = "key" THEN key'[idx[u]] ELSE k[u]
      BY <2>5
    <3> HIDE DEF c
    <3> QED BY <2>4, <3>1, <3>2, StKeptOther
  <2>7. CASE at[u] = "key" /\ cur[u] = 0 /\ key[idx[u]] = 0
    BY <2>4, <2>5, <2>7
  <2> QED BY <2>3, <2>6, <2>7
<1>5. ASSUME at[u] = "read"
      PROVE  /\ cur'[u] \in Objects
             /\ cur'[u] \in used' \/ u \in readers'[cur'[u]]
             /\ content'[cur'[u]] = k[u]
  <2>1. StKept(u, k[u])
    BY <1>1, <1>3, <1>5 DEF StReading
  <2> QED BY <2>1, StKeptOther
<1> QED BY <1>2, <1>4, <1>5 DEF StReading, StKept

-----------------------------------------------------------------------------
(* snap_stress.c: the thread that takes a step.                            *)

StOwn(t) == StControl(t)' /\ StTaking(t)' /\ StReading(t)'

LEMMA StOwnQuiet ==
  ASSUME NEW t, at'[t] \notin StTake \cup {"key", "again", "read"},
         StControl(t)'
  PROVE  StOwn(t)
BY DEF StOwn, StTaking, StReading

LEMMA StOwnEnds ==
  ASSUME NEW t, at'[t] = "loop", role'[t] = "get", slot'[t] = 0
  PROVE  StOwn(t)
<1>1. StControl(t)'
  BY DEF StControl, StScan, StFill
<1> QED BY <1>1, StOwnQuiet DEF StTake

LEMMA StOwnBegin ==
  ASSUME NEW t, StStep(t), Stress!Begin(t) \/ Stress!Exit(t)
  PROVE  StOwn(t)
<1>1. StType /\ t \in Threads /\ StControl(t)
  BY StStepFacts
<1>2. at[t] = "loop" /\ role[t] = "get" /\ slot[t] = 0
  BY <1>1
  DEF Stress!Begin, Stress!Exit, Stress!At, StControl, StPutting, StType,
      StScan, StFill
<1>3. /\ at'[t] \in {"done", "val"} /\ role'[t] = "get" /\ slot'[t] = 0
      /\ at'[t] = "val" => k'[t] \in StressKeys
  BY <1>1, <1>2
  DEF Stress!Begin, Stress!Exit, Stress!Search, Stress!Continue, Stress!Goto,
      Stress!locals, StType
<1>4. StControl(t)'
  BY <1>3 DEF StControl, StScan, StFill
<1> QED BY <1>3, <1>4, StOwnQuiet DEF StTake

LEMMA StOwnSearchControl ==
  ASSUME NEW t, StStep(t), Stress!Searching(t)
  PROVE  StControl(t)' /\ StTaking(t)'
<1>1. StType /\ t \in Threads /\ StControl(t)
  BY StStepFacts
<1>2. /\ StSearchStep(t) /\ at[t] \in StScan \cup {"read"}
      /\ k'[t] = k[t] \/ at'[t] = "loop"
  BY <1>1, StSearchStepIs
<1>3. /\ k[t] \in StressKeys /\ role[t] \in {"get", "put"}
      /\ slot[t] \in StSlots \cup {0} /\ 0 \notin StSlots
  BY <1>1, <1>2, StNames DEF StControl, StType, StScan
<1>4. CASE at'[t] \in StScan /\ role'[t] = role[t] /\ slot'[t] = slot[t]
  BY <1>1, <1>2, <1>3, <1>4
  DEF StControl, StTaking, StPutting, StScan, StFill, StTake
<1>5. CASE /\ at[t] = "read" \/ role[t] = "get"
           /\ at'[t] \in {"read", "choose"} /\ role'[t] = role[t]
           /\ slot'[t] = slot[t]
  BY <1>1, <1>2, <1>3, <1>5
  DEF StControl, StTaking, StPutting, StScan, StFill, StTake
<1>6. CASE /\ role[t] = "put" /\ role'[t] = "put" /\ slot[t] # 0
           /\ slot'[t] = slot[t] /\ at'[t] \in {"commit", "release"}
  BY <1>1, <1>2, <1>3, <1>6
  DEF StControl, StTaking, StPutting, StScan, StFill, StTake
<1>7. CASE /\ role[t] = "put" /\ role'[t] = "put" /\ slot[t] = 0
           /\ slot'[t] \in StSlots /\ at'[t] = "claim"
           /\ snap'[t] = snap[t] /\ snap[t].map[slot'[t]] = "invalid"
  BY <1>1, <1>2, <1>3, <1>7
  DEF StControl, StTaking, StPutting, StScan, StFill, StTake
<1>8. CASE /\ role[t] = "put" /\ role'[t] = "get" /\ slot[t] \in {0, 1}
           /\ slot'[t] = 0 /\ at'[t] = "loop"
  BY <1>8, StOwnEnds DEF StOwn
<1> QED BY <1>2, <1>4, <1>5, <1>6, <1>7, <1>8 DEF StSearchStep

(* A get comes to look at what it has read in three steps.                 *)
LEMMA StSearchComes ==
  ASSUME NEW t, StType, t \in Threads, Stress!Searching(t),
         at'[t] \in {"key", "again", "read"}
  PROVE  /\ UNCHANGED <<role, k, idx, cur>>
         /\ \/ at[t] = "map" /\ at'[t] = "key" /\ word.map[idx[t]] = "valid"
            \/ at[t] = "key" /\ at'[t] = "again" /\ key[idx[t]] = k[t]
            \/ at[t] = "again" /\ at'[t] = "read" /\ val[idx[t]] = cur[t]
         /\ UNCHANGED <<word, key, val, used, readers, content>>
         /\ UNCHANGED refilled
<1>1. at \in [Threads -> StLabels]
  BY DEF StType
<1>2. UNCHANGED <<word, key, val, used, readers, content>>
  BY DEF Stress!Searching, Stress!arrays, Stress!memory
<1>3. ~Stress!SearchNext(t)
  BY <1>1
  DEF Stress!SearchNext, Stress!Missed, Stress!Over, Stress!End, Stress!Goto
<1>4. CASE Stress!SearchVal(t) \/ Stress!Read(t)
  BY <1>1, <1>4 DEF Stress!SearchVal, Stress!Read, Stress!Over, Stress!Goto
<1>5. CASE Stress!SearchMap(t)
  BY <1>1, <1>2, <1>3, <1>5, StNames
  DEF Stress!Searching, Stress!SearchMap, Stress!At, Stress!Continue,
      Stress!Goto, Stress!locals
<1>6. CASE Stress!SearchKey(t)
  BY <1>1, <1>2, <1>3, <1>6
  DEF Stress!Searching, Stress!SearchKey, Stress!At, Stress!Continue,
      Stress!Goto, Stress!locals
<1>7. CASE Stress!SearchAgain(t)
  <2>1. Stress!Continue(t, "read") /\ val[idx[t]] = cur[t] /\ at[t] = "again"
    BY <1>1, <1>3, <1>7
    DEF Stress!SearchAgain, Stress!Found, Stress!At, Stress!Over, Stress!End,
        Stress!Goto
  <2> QED
    BY <1>1, <1>2, <2>1
    DEF Stress!Searching, Stress!At, Stress!Continue, Stress!Goto,
        Stress!locals
<1> QED BY <1>4, <1>5, <1>6, <1>7 DEF Stress!Searching

LEMMA StOwnReading ==
  ASSUME NEW t, StStep(t), Stress!Searching(t)
  PROVE  StReading(t)'
<1>1. /\ StType /\ t \in Threads /\ StControl(t) /\ StReading(t)
      /\ idx[t] \in StSlots /\ used \subseteq Objects
  BY StStepFacts DEF StLocalType, StMemoryType
<1>2. CASE at'[t] \notin {"key", "again", "read"}
  BY <1>2 DEF StReading
<1>3. CASE at'[t] \in {"key", "again", "read"}
  <2>1. /\ UNCHANGED <<role, k, idx, cur>>
        /\ \/ at[t] = "map" /\ at'[t] = "key" /\ word.map[idx[t]] = "valid"
           \/ at[t] = "key" /\ at'[t] = "again" /\ key[idx[t]] = k[t]
           \/ at[t] = "again" /\ at'[t] = "read" /\ val[idx[t]] = cur[t]
        /\ UNCHANGED <<word, key, val, used, readers, content>>
        /\ UNCHANGED refilled
    BY <1>1, <1>3, StSearchComes
  <2>2. \A v \in Threads : StWritten(v, idx[t])' <=> StWritten(v, idx[t])
    <3>1. ASSUME NEW v \in Threads, NEW j \in StSlots, j = idx[t]
          PROVE  StWritten(v, j)' <=> StWritten(v, j)
      <4>1. ~StWritesVal(t) /\ ~StClaims(t) /\ at[t] \in StScan
        BY <1>1, StSearchStepIs, <2>1
        DEF StWritesVal, StClaims, StMoves, StScan
      <4>2. CASE v # t
        BY <4>2, StHoldsStep
      <4>3. CASE v = t
        <5>1. UNCHANGED slot
          <6>1. CASE at'[t] # "read"
            BY <1>1, <2>1, <6>1
            DEF Stress!Searching, Stress!SearchVal, Stress!SearchMap,
                Stress!SearchKey, Stress!SearchAgain, Stress!Read, Stress!At,
                Stress!Continue, Stress!locals, Stress!SearchNext,
                Stress!Missed, Stress!Over, Stress!End, Stress!Goto, StType
          <6>2. CASE at'[t] = "read"
            BY <1>1, <2>1, <6>2
            DEF Stress!Searching, Stress!SearchVal, Stress!SearchMap,
                Stress!SearchKey, Stress!SearchAgain, Stress!Read, Stress!At,
                Stress!Found, Stress!Continue, Stress!locals,
                Stress!SearchNext, Stress!Missed, Stress!Over, Stress!End,
                Stress!Goto, StType
          <6> QED BY <6>1, <6>2
        <5> QED BY <2>1, <4>3, <5>1 DEF StWritten, StHolds
      <4> QED BY <4>2, <4>3
    <3> QED BY <1>1, <2>1, <3>1 DEF StWritten, StHolds
  <2>3. CASE at[t] = "map" /\ at'[t] = "key" /\ word.map[idx[t]] = "valid"
    <3>1. \A v \in Threads : ~StWritten(v, idx[t])
      BY <1>1, <2>3, StStepFacts DEF StHeld, StWritten
    <3>2. StEntry(idx[t])
      BY <1>1, StStepFacts
    <3>3. ASSUME val[idx[t]] = cur[t]
          PROVE  \/ StKept(t, key[idx[t]])
                 \/ cur[t] = 0 /\ key[idx[t]] = 0
      BY <1>1, <2>3, <3>2, <3>3 DEF StEntry, StDirty, StKept
    <3> QED BY <2>1, <2>2, <2>3, <3>1, <3>3 DEF StReading, StKept
  <2>4. CASE at[t] = "key" /\ at'[t] = "again" /\ key[idx[t]] = k[t]
    <3>1. k[t] # 0
      BY <1>1, <2>4, StNames DEF StControl
    <3> QED BY <1>1, <2>1, <2>2, <2>4, <3>1 DEF StReading, StKept
  <2>5. CASE at[t] = "again" /\ at'[t] = "read" /\ val[idx[t]] = cur[t]
    BY <1>1, <2>1, <2>2, <2>5 DEF StReading, StKept
  <2> QED BY <2>1, <2>3, <2>4, <2>5
<1> QED BY <1>2, <1>3

LEMMA StOwnPut ==
  ASSUME NEW t, StStep(t),
         \/ Stress!Put(t) \/ Stress!Snapshot(t) \/ Stress!Claim(t)
         \/ Stress!WriteVal(t) \/ Stress!WriteKey(t)
         \/ Stress!Commit(t) \/ Stress!Release(t)
  PROVE  StOwn(t)
<1>1. StType /\ t \in Threads /\ StControl(t)
  BY StStepFacts
<1>2. /\ at \in [Threads -> StLabels] /\ role \in [Threads -> {"get", "put"}]
      /\ slot \in [Threads -> StSlots \cup {0}] /\ k \in [Threads -> StKeys]
  BY <1>1 DEF StType
<1>3. CASE Stress!End(t)
  BY <1>1, <1>2, <1>3, StOwnEnds DEF Stress!End, Stress!Goto
<1>4. CASE ~Stress!End(t)
  <2>1. UNCHANGED k
    BY <1>4
    DEF Stress!Put, Stress!Snapshot, Stress!Claim, Stress!WriteVal,
        Stress!WriteKey, Stress!Commit, Stress!Release, Stress!Continue,
        Stress!locals
  <2>2. \/ /\ at[t] = "choose" /\ at'[t] = "snapshot"
           /\ UNCHANGED <<role, slot>>
        \/ at[t] = "snapshot" /\ at'[t] = "val" /\ role'[t] = "put"
           /\ UNCHANGED slot
        \/ /\ at[t] = "claim" /\ UNCHANGED role
           /\ \/ at'[t] = "write_val" /\ UNCHANGED slot
              \/ at'[t] = "snapshot" /\ slot'[t] = 0
        \/ /\ UNCHANGED <<role, slot>>
           /\ \/ at[t] = "write_val" /\ at'[t] = "write_key"
              \/ at[t] = "write_key" /\ at'[t] = "commit"
              \/ at[t] = "commit" /\ at'[t] = "snapshot"
    BY <1>1, <1>2, <1>4
    DEF Stress!Put, Stress!Snapshot, Stress!Claim, Stress!WriteVal,
        Stress!WriteKey, Stress!Commit, Stress!Release, Stress!Continue,
        Stress!Search, Stress!At, Stress!Goto, Stress!locals
  <2>3. k[t] \in StressKeys
    BY <1>1, <2>2 DEF StControl
  <2>4. StControl(t)'
    BY <1>1, <1>2, <2>1, <2>2, <2>3
    DEF StControl, StPutting, StScan, StFill
  <2>5. at'[t] \notin StTake \cup {"key", "again", "read"}
    BY <2>2 DEF StTake
  <2> QED BY <2>4, <2>5, StOwnQuiet
<1> QED BY <1>3, <1>4

LEMMA StOwnRemove ==
  ASSUME NEW t, StStep(t),
         \/ Stress!RemSnapshot(t) \/ Stress!RemKey(t) \/ Stress!RemVal(t)
         \/ Stress!RemCas(t) \/ Stress!RemFree(t)
  PROVE  StOwn(t)
<1>1. StType /\ t \in Threads /\ StControl(t) /\ StTaking(t)
  BY StStepFacts
<1>2. /\ at \in [Threads -> StLabels] /\ role \in [Threads -> {"get", "put"}]
      /\ slot \in [Threads -> StSlots \cup {0}] /\ k \in [Threads -> StKeys]
      /\ idx \in [Threads -> StSlots] /\ cur \in [Threads -> StObjects]
      /\ snap \in [Threads -> StWords] /\ word \in StWords
  BY <1>1 DEF StType
<1>3. CASE Stress!End(t)
  BY <1>1, <1>2, <1>3, StOwnEnds DEF Stress!End, Stress!Goto
<1>4. CASE ~Stress!End(t)
  <2>1. /\ UNCHANGED <<k, role, slot>>
        /\ at[t] \in {"choose", "rem_snapshot"} \cup StTake
    BY <1>4
    DEF Stress!RemSnapshot, Stress!RemKey, Stress!RemVal, Stress!RemCas,
        Stress!RemFree, Stress!Continue, Stress!locals, Stress!At, StTake
  <2>2. role[t] = "get" /\ slot[t] = 0 /\ k[t] \in StressKeys
    BY <1>1, <1>2, <2>1
    DEF StControl, StPutting, StScan, StFill, StTake
  <2>3. at'[t] \in {"rem_free", "rem_snapshot"} \cup StTake
    BY <1>1, <1>2, <1>4, <2>1
    DEF Stress!RemSnapshot, Stress!RemKey, Stress!RemVal, Stress!RemCas,
        Stress!RemFree, Stress!Continue, Stress!Goto, Stress!At, StTake
  <2>4. StControl(t)'
    BY <2>1, <2>2, <2>3 DEF StControl, StPutting, StScan, StFill, StTake
  <2>5. StReading(t)'
    BY <2>3 DEF StReading, StTake
  <2>6. StTaking(t)'
    <3>1. CASE Stress!RemSnapshot(t)
      <4>1. /\ at'[t] = "rem_key" /\ snap'[t] = word /\ UNCHANGED word
        BY <1>1, <1>2, <3>1 DEF Stress!RemSnapshot, Stress!Goto
      <4> QED BY <1>2, <4>1 DEF StTaking, StWords
    <3>2. CASE Stress!RemKey(t)
      <4>1. /\ UNCHANGED <<snap, word, key, val>> /\ at[t] = "rem_key"
            /\ \/ at'[t] = "rem_key"
               \/ /\ at'[t] = "rem_val" /\ UNCHANGED idx
                  /\ key[idx[t]] = k[t] /\ snap[t].map[idx[t]] = "valid"
        BY <1>1, <1>2, <1>4, <3>2, StNames
        DEF Stress!RemKey, Stress!Continue, Stress!Goto, Stress!At,
            Stress!locals, Stress!arrays
      <4> QED BY <1>1, <1>2, <2>1, <4>1 DEF StTaking, StTake
    <3>3. CASE Stress!RemVal(t)
      <4>1. /\ UNCHANGED <<snap, word, key, val, idx>> /\ at[t] = "rem_val"
            /\ at'[t] = "rem_cas" /\ cur'[t] = val[idx[t]]
        BY <1>1, <1>2, <3>3 DEF Stress!RemVal, Stress!Goto, Stress!At,
           Stress!arrays
      <4> QED BY <1>1, <1>2, <2>1, <4>1 DEF StTaking, StTake
    <3>4. CASE Stress!RemCas(t) \/ Stress!RemFree(t)
      <4>1. at'[t] \in {"rem_free", "rem_snapshot", "loop"}
        BY <1>1, <1>2, <3>4
        DEF Stress!RemCas, Stress!RemFree, Stress!Continue, Stress!End,
            Stress!Goto
      <4> QED BY <4>1 DEF StTaking, StTake
    <3> QED BY <3>1, <3>2, <3>3, <3>4
  <2> QED BY <2>4, <2>5, <2>6 DEF StOwn
<1> QED BY <1>3, <1>4

LEMMA StLoopInv ==
  ASSUME StInv, NEW t \in Threads, Stress!Loop(t)
  PROVE  StInv'
<1>1. StStep(t)
  BY StLoopGood DEF StInv, StStep
<1>2. StOwn(t)
  <2>1. CASE Stress!Searching(t)
    BY <1>1, <2>1, StOwnSearchControl, StOwnReading DEF StOwn
  <2>2. CASE ~Stress!Searching(t)
    BY <1>1, <2>2, StOwnBegin, StOwnPut, StOwnRemove DEF Stress!Loop
  <2> QED BY <2>1, <2>2
<1>3. \A u \in Threads : StControl(u)' /\ StTaking(u)' /\ StReading(u)'
  BY <1>1, <1>2, StControlOther, StTakingOther, StReadingOther DEF StOwn
<1>4. \A u \in Threads : StPut(u)'
  BY <1>1, StPutStep
<1>5. \A j \in StSlots : StHeld(j)' /\ StEntry(j)'
  BY <1>1, StHeldStep, StEntryStep
<1>6. StOnce' /\ StCounted'
  BY <1>1, StOnceStep, StCountedStep
<1>7. StType'
  BY <1>1 DEF StStep, StGood
<1> QED BY <1>3, <1>4, <1>5, <1>6, <1>7 DEF StInv

-----------------------------------------------------------------------------
(* snap_stress.c: the invariant holds at first, and says what is checked.  *)

LEMMA StInitInv ==
  ASSUME Stress!SInit
  PROVE  StInv
<1>1. /\ at = [t \in Threads |-> "loop"] /\ role = [t \in Threads |-> "get"]
      /\ k = [t \in Threads |-> 0] /\ idx = [t \in Threads |-> 1]
      /\ cur = [t \in Threads |-> 0]
      /\ snap = [t \in Threads |-> Stress!Blank]
      /\ slot = [t \in Threads |-> 0] /\ obj = [t \in Threads |-> 0]
      /\ first \in [StSlots -> StStates]
      /\ word = [version |-> 0, map |-> first]
      /\ key = [j \in StSlots |-> 0] /\ val = [j \in StSlots |-> 0]
      /\ nputs = 0 /\ nrems = 0 /\ allocs = 0
      /\ used = {} /\ readers = [o \in Objects |-> {}]
      /\ content = [o \in Objects |-> 0]
  BY StNames
  DEF Stress!SInit, Stress!MemoryInit, Stress!Slots, StSlots, StStates
<1>2. StType
  <2>1. word \in StWords
    BY <1>1 DEF StWords
  <2>2. /\ at \in [Threads -> StLabels] /\ role \in [Threads -> {"get", "put"}]
        /\ k \in [Threads -> StKeys] /\ idx \in [Threads -> StSlots]
        /\ cur \in [Threads -> StObjects] /\ snap \in [Threads -> StWords]
        /\ slot \in [Threads -> StSlots \cup {0}]
        /\ obj \in [Threads -> StObjects]
    BY <1>1, StNames DEF StLabels, StKeys, StObjects
  <2>3. /\ key \in [StSlots -> StKeys] /\ val \in [StSlots -> StObjects]
        /\ used \subseteq Objects /\ readers \in [Objects -> SUBSET Threads]
        /\ content \in [Objects -> StKeys]
    BY <1>1 DEF StKeys, StObjects
  <2> QED BY <1>1, <2>1, <2>2, <2>3 DEF StType
<1>3. ASSUME NEW t \in Threads
      PROVE  StControl(t) /\ StPut(t) /\ StTaking(t) /\ StReading(t)
  BY <1>1
  DEF StControl, StPut, StPutting, StTaking, StReading, StScan, StFill, StTake
<1>4. ASSUME NEW j \in StSlots
      PROVE  StHeld(j) /\ StEntry(j)
  BY <1>1, StNames DEF StHeld, StHolds, StEntry, StDirty
<1>5. StOnce
  <2>1. \A p \in StPlaces : StAt[p] = 0
    <3>1. ASSUME NEW p \in StPlaces PROVE StAt[p] = 0
      <4>1. CASE \E t \in Threads : p = <<"obj", t>> \/ p = <<"rem", t>>
        BY <1>1, <4>1, StPlaceFacts
      <4>2. CASE \E j \in StSlots : p = <<"slot", j>>
        <5>1. PICK j \in StSlots : p = <<"slot", j>>
          BY <4>2
        <5>2. StAt[<<"slot", j>>] = 0
          BY <1>1, StPlaceFacts
        <5> QED BY <5>1, <5>2
      <4> QED BY <4>1, <4>2, StPlaceOne
    <3> QED BY <3>1
  <2>2. StAt \in [StPlaces -> Objects \cup {0}]
    BY <2>1, StPlaceFacts
  <2> QED BY <1>1, <2>1, <2>2, StNames DEF StOnce, Once
<1>6. StCounted
  <2>1. StValid = StFirst /\ StFreeing = {} /\ StPuts = {}
    BY <1>1
    DEF StValid, StFirst, StFreeing, StPuts, StPutting, StScan, StFill
  <2>2. Cardinality(StFirst) \in Nat /\ Cardinality({}) = 0
    BY StFinite, FS_CardinalityType, FS_EmptySet
  <2> QED BY <1>1, <2>1, <2>2, BenchAssumption DEF StCounted
<1> QED BY <1>2, <1>3, <1>4, <1>5, <1>6 DEF StInv

StVars == <<ofStress, k, obj, nputs, nrems, allocs>>

LEMMA StStutter ==
  ASSUME StInv, UNCHANGED StVars
  PROVE  StInv'
<1>1. /\ UNCHANGED <<at, role, idx, cur, snap, slot, word, key, val, first>>
      /\ UNCHANGED <<refilled, used, readers, content>>
      /\ UNCHANGED <<k, obj, nputs, nrems, allocs>>
  BY DEF StVars, ofStress
<1>2. StType'
  BY <1>1 DEF StInv, StType
<1>3. \A t \in Threads : StPutting(t)' <=> StPutting(t)
  BY <1>1 DEF StPutting
<1>4. \A t \in Threads : /\ StControl(t)' <=> StControl(t)
                         /\ StTaking(t)' <=> StTaking(t)
  BY <1>1, <1>3 DEF StControl, StTaking
<1>5. ASSUME NEW t \in Threads, StPut(t) PROVE StPut(t)'
  BY <1>1, <1>3, <1>5 DEF StPut, StWritten, StHolds
<1>6. ASSUME NEW t \in Threads, StReading(t) PROVE StReading(t)'
  BY <1>1, <1>6 DEF StReading, StKept, StWritten, StHolds
<1>7. ASSUME NEW j \in StSlots, StHeld(j), StEntry(j)
      PROVE  StHeld(j)' /\ StEntry(j)'
  BY <1>1, <1>7 DEF StHeld, StEntry, StDirty, StHolds
<1>8. StAt' = StAt
  BY <1>1 DEF StAt, StPlaces
<1>9. StOnce'
  BY <1>1, <1>8 DEF StInv, StOnce, Once, StPlaces
<1>10. /\ StValid' = StValid /\ StFreeing' = StFreeing /\ StPuts' = StPuts
       /\ StFirst' = StFirst
  BY <1>1, <1>3 DEF StValid, StFreeing, StPuts, StFirst
<1>11. StCounted'
  BY <1>1, <1>10 DEF StInv, StCounted
<1> QED BY <1>2, <1>4, <1>5, <1>6, <1>7, <1>9, <1>11 DEF StInv

LEMMA StNextInv ==
  ASSUME StInv, Stress!SNext
  PROVE  StInv'
<1>1. CASE Stress!Stop /\ UNCHANGED refilled
  BY <1>1, StStutter
  DEF Stress!Stop, Stress!locals, Stress!arrays, Stress!memory, StVars,
      ofStress
<1>2. CASE \E t \in Threads : Stress!Loop(t)
  BY <1>2, StLoopInv
<1> QED BY <1>1, <1>2 DEF Stress!SNext

LEMMA StInvTypeOK ==
  ASSUME StInv
  PROVE  Stress!STypeOK
<1>1. StType /\ StCounted
  BY DEF StInv
<1>2. /\ role \in [Threads -> {"get", "put"}]
      /\ k \in [Threads -> StressKeys \cup {0}]
      /\ idx \in [Threads -> StSlots]
      /\ slot \in [Threads -> StSlots \cup {0}]
      /\ obj \in [Threads -> Objects \cup {0}]
      /\ word.map \in [StSlots -> {"invalid", "valid", "insert"}]
      /\ key \in [StSlots -> StressKeys \cup {0}]
      /\ val \in [StSlots -> Objects \cup {0}]
      /\ used \subseteq Objects /\ readers \in [Objects -> SUBSET Threads]
  BY <1>1 DEF StType, StKeys, StObjects, StWords, StStates
<1>3. {nputs, nrems} \subseteq 0 .. MaxAllocs
  <2>1. /\ nputs \in Nat /\ nrems \in Nat /\ allocs \in Nat /\ MaxAllocs \in Nat
        /\ allocs <= MaxAllocs
        /\ Cardinality(StValid) + Cardinality(StFreeing) + nrems
             = nputs + Cardinality(StFirst)
        /\ nputs + Cardinality(StPuts) <= allocs
    BY <1>1, BenchAssumption DEF StCounted
  <2>2. StFirst \subseteq StValid
    BY DEF StInv, StFirst, StValid, StEntry
  <2>3. /\ Cardinality(StFirst) <= Cardinality(StValid)
        /\ Cardinality(StFirst) \in Nat /\ Cardinality(StValid) \in Nat
    BY <2>2, StFinite, SizeLess
  <2>4. Cardinality(StFreeing) \in Nat /\ Cardinality(StPuts) \in Nat
    BY StFinite, FS_CardinalityType
  <2> QED BY <2>1, <2>3, <2>4
<1> QED
  BY <1>2, <1>3, StNames DEF Stress!STypeOK

(* Its operators are instances, with the same definitions.                 *)
LEMMA StCardinality ==
  ASSUME NEW S
  PROVE  Stress!Cardinality(S) = Cardinality(S)
BY DEF Stress!Cardinality, Cardinality

LEMMA StInvOnce ==
  ASSUME StInv
  PROVE  Stress!ObjectsOnce
<1>1. StType /\ StOnce /\ Once(StAt, StPlaces, used, Objects)
  BY DEF StInv, StOnce
<1> SUFFICES ASSUME NEW o \in Objects
             PROVE  Stress!Places(o) = IF o \in used THEN 1 ELSE 0
  BY DEF Stress!ObjectsOnce
<1> DEFINE A == {t \in Threads : obj[t] = o}
           B == {j \in Stress!Valid : val[j] = o}
           R == {t \in Threads : Stress!At(t, "rem_free") /\ cur[t] = o}
<1>2. o # 0
  BY StNames
<1>3. Stress!Valid = {j \in StSlots : word.map[j] = "valid"}
  BY StNames DEF Stress!Valid
<1>4. B = {j \in StSlots : word.map[j] = "valid" /\ val[j] = o}
      /\ R = {t \in Threads : at[t] = "rem_free" /\ cur[t] = o}
  BY <1>3 DEF Stress!At
<1>5. /\ \A p, q \in StPlaces : StAt[p] = StAt[q] /\ StAt[p] # 0 => p = q
      /\ o \in used <=> \E p \in StPlaces : StAt[p] = o
  BY <1>1 DEF Once
<1>6. /\ \A t \in A : <<"obj", t>> \in StPlaces /\ StAt[<<"obj", t>>] = o
      /\ \A t \in R : <<"rem", t>> \in StPlaces /\ StAt[<<"rem", t>>] = o
      /\ \A j \in B : <<"slot", j>> \in StPlaces /\ StAt[<<"slot", j>>] = o
  BY <1>4, StPlaceFacts
<1>7. o \in used <=> ~(A = {} /\ B = {} /\ R = {})
  <2>1. ASSUME NEW p \in StPlaces, StAt[p] = o
        PROVE  ~(A = {} /\ B = {} /\ R = {})
    <3>1. CASE \E t \in Threads : p = <<"obj", t>>
      <4>1. PICK t \in Threads : p = <<"obj", t>>
        BY <3>1
      <4>2. t \in A
        BY <2>1, <4>1, StPlaceFacts
      <4> QED BY <4>2
    <3>2. CASE \E t \in Threads : p = <<"rem", t>>
      <4>1. PICK t \in Threads : p = <<"rem", t>>
        BY <3>2
      <4>2. t \in R
        BY <1>2, <1>4, <2>1, <4>1, StPlaceFacts
      <4> QED BY <4>2
    <3>3. CASE \E j \in StSlots : p = <<"slot", j>>
      <4>1. PICK j \in StSlots : p = <<"slot", j>>
        BY <3>3
      <4>2. j \in B
        BY <1>2, <1>4, <2>1, <4>1, StPlaceFacts
      <4> QED BY <4>2
    <3> QED BY <3>1, <3>2, <3>3, StPlaceOne
  <2> QED BY <1>5, <1>6, <2>1
<1> HIDE DEF A, B, R
<1>8. \A t, u \in A : t = u
  <2>1. ASSUME NEW t \in A, NEW u \in A PROVE t = u
    <3>1. <<"obj", t>> = <<"obj", u>>
      BY <1>2, <1>5, <1>6
    <3> QED BY <3>1
  <2> QED BY <2>1
<1>9. \A t, u \in R : t = u
  <2>1. ASSUME NEW t \in R, NEW u \in R PROVE t = u
    <3>1. <<"rem", t>> = <<"rem", u>>
      BY <1>2, <1>5, <1>6
    <3> QED BY <3>1
  <2> QED BY <2>1
<1>10. \A j, c \in B : j = c
  <2>1. ASSUME NEW j \in B, NEW c \in B PROVE j = c
    <3>1. <<"slot", j>> = <<"slot", c>>
      BY <1>2, <1>5, <1>6
    <3> QED BY <3>1
  <2> QED BY <2>1
<1>11. /\ A = {} \/ B = {}
       /\ A = {} \/ R = {}
       /\ B = {} \/ R = {}
  <2>1. ASSUME NEW t \in A, NEW j \in B PROVE FALSE
    <3>1. <<"obj", t>> = <<"slot", j>>
      BY <1>2, <1>5, <1>6
    <3> QED BY <3>1
  <2>2. ASSUME NEW t \in A, NEW u \in R PROVE FALSE
    <3>1. <<"obj", t>> = <<"rem", u>>
      BY <1>2, <1>5, <1>6
    <3> QED BY <3>1
  <2>3. ASSUME NEW j \in B, NEW u \in R PROVE FALSE
    <3>1. <<"slot", j>> = <<"rem", u>>
      BY <1>2, <1>5, <1>6
    <3> QED BY <3>1
  <2> QED BY <2>1, <2>2, <2>3
<1>12. Cardinality(A) + Cardinality(B) + Cardinality(R)
         = IF A = {} /\ B = {} /\ R = {} THEN 0 ELSE 1
  BY <1>8, <1>9, <1>10, <1>11, PlacesCounted
<1>13. Stress!Places(o) = Cardinality(A) + Cardinality(B) + Cardinality(R)
  BY StCardinality DEF Stress!Places, A, B, R
<1> QED BY <1>7, <1>12, <1>13

LEMMA StInvReads ==
  ASSUME StInv
  PROVE  Stress!GetsReadTheirKey
<1>1. ASSUME NEW t \in Threads \ refilled, Stress!At(t, "read")
      PROVE  cur[t] # 0 /\ content[cur[t]] = k[t]
  <2>1. StReading(t) /\ StControl(t) /\ role[t] \in {"get", "put"}
        /\ at[t] = "read"
    BY <1>1 DEF StInv, StType, Stress!At
  <2>2. role[t] = "get"
    BY <2>1 DEF StControl, StScan, StFill
  <2>3. StKept(t, k[t])
    BY <2>1, <2>2 DEF StReading
  <2> QED BY <2>3, StNames DEF StKept
<1> QED BY <1>1, StNames DEF Stress!GetsReadTheirKey

LEMMA StInvHeld ==
  ASSUME StInv
  PROVE  Stress!StressSlotsHeld
<1> SUFFICES ASSUME NEW j \in StSlots
             PROVE  /\ word.map[j] = "insert" /\ j > 1
                         /\ first[j] # "insert" =>
                         Cardinality(Stress!Holders(j)) = 1
                    /\ Stress!Holders(j) # {} =>
                         /\ word.map[j] = "insert"
                         /\ Cardinality(Stress!Holders(j)) = 1
  BY StNames, StCardinality DEF Stress!StressSlotsHeld
<1>1. Stress!Holders(j) = {t \in Threads : StHolds(t, j)}
  <2>1. ASSUME NEW t \in Threads
        PROVE  slot[t] = j /\ at[t] \notin {"claim", "loop", "done"}
                 <=> StHolds(t, j)
    <3>1. slot[t] # 0 => at[t] \notin {"loop", "done"}
      BY DEF StInv, StControl, StPutting, StScan, StFill
    <3> QED BY <3>1, StNames DEF StHolds
  <2> QED BY <2>1 DEF Stress!Holders
<1>2. StHeld(j)
  BY DEF StInv
<1>3. \A t, u \in Stress!Holders(j) : t = u
  BY <1>1, <1>2 DEF StHeld
<1>4. Cardinality(Stress!Holders(j))
        = IF Stress!Holders(j) = {} THEN 0 ELSE 1
  BY <1>3, OneAtMost
<1> QED BY <1>1, <1>2, <1>4 DEF StHeld

LEMMA StInvCounted ==
  ASSUME StInv
  PROVE  Stress!ValidCounted
<1> SUFFICES ASSUME \A t \in Threads : at[t] = "done"
             PROVE  Cardinality(StValid) =
                      nputs - nrems + Cardinality(StFirst)
  <2>1. /\ Stress!Valid = StValid
        /\ {j \in Stress!Slots : first[j] = Stress!VALID} = StFirst
    BY StNames DEF Stress!Valid, StValid, StFirst
  <2>2. /\ Stress!Cardinality(StValid) = Cardinality(StValid)
        /\ Stress!Cardinality(StFirst) = Cardinality(StFirst)
    BY StCardinality
  <2> QED BY <2>1, <2>2 DEF Stress!ValidCounted, Stress!At
<1>1. StFreeing = {}
  BY DEF StFreeing
<1>2. /\ nputs \in Nat /\ nrems \in Nat
      /\ Cardinality(StValid) + Cardinality(StFreeing) + nrems
           = nputs + Cardinality(StFirst)
  BY DEF StInv, StCounted
<1>3. /\ Cardinality(StFreeing) = 0 /\ Cardinality(StValid) \in Nat
      /\ Cardinality(StFirst) \in Nat
  BY <1>1, StFinite, FS_CardinalityType, FS_EmptySet
<1> QED BY <1>2, <1>3

-----------------------------------------------------------------------------
(* math_cache.c and test_mem.c: the invariant.                             *)

CaObjects == CacheObjects \cup {0}
CaKeys == CacheKeys \cup {0}
CaCache == {"loop", "check", "alloc", "put", "put_free", "remove",
            "rem_check", "rem_free", "done"}
CaMem == {"fill", "fill_put", "fill_free", "barrier", "loop", "put",
          "rem_free", "done"}
CaPutting == {"put", "put_free", "fill_put", "fill_free"}
CaRemoved == {"rem_check", "rem_free"}

CaType ==
  /\ program \in {"math_cache", "test_mem"}
  /\ label \in [Threads -> CaCache \cup CaMem]
  /\ objects \in [CacheKeys -> CaObjects] /\ k \in [Threads -> CaKeys]
  /\ obj \in [Threads -> CaObjects] /\ res \in [Threads -> CaObjects]
  /\ filled \in [Threads -> 0 .. Fills]
  /\ inUse \subseteq CacheObjects
  /\ mayRead \in [CacheObjects -> SUBSET Threads]
  /\ holds \in [CacheObjects -> CaKeys]

(* A thread has an object to put when it comes to put it, and in test_mem  *)
(* may keep the one of a put that has failed.                              *)
CaControl(t) ==
  /\ label[t] \in IF program = "math_cache" THEN CaCache ELSE CaMem
  /\ label[t] \in CaPutting => obj[t] # 0
  /\ /\ program = "math_cache" \/ label[t] \in {"fill", "barrier"}
     /\ obj[t] # 0
     => label[t] \in CaPutting
  /\ label[t] = "fill_put" => filled[t] < Fills
  /\ label[t] \in CaPutting \cup {"check", "alloc"} => k[t] \in CacheKeys

(* Where the objects are.                                                  *)
CaPlaces == ({"obj", "rem"} \X Threads) \cup ({"key"} \X CacheKeys)
CaAt == [p \in CaPlaces |->
          CASE p[1] = "obj" -> obj[p[2]]
            [] p[1] = "rem" -> IF label[p[2]] \in CaRemoved THEN res[p[2]] ELSE 0
            [] p[1] = "key" -> objects[p[2]]]
CaOnce == Once(CaAt, CaPlaces, inUse, CacheObjects)

(* The objects of math_cache hold the key they are put for, in the table   *)
(* too, and those that a thread looks at are not handed out meanwhile.     *)
CaEntry(c) ==
  program = "math_cache" /\ objects[c] # 0 => holds[objects[c]] = c
CaPut(t) ==
  program = "math_cache" /\ label[t] \in {"put", "put_free"} =>
    holds[obj[t]] = k[t]
CaLooks(t) ==
  label[t] \in {"check", "rem_check"} =>
    /\ res[t] \in CacheObjects /\ holds[res[t]] = k[t]
    /\ res[t] \in inUse \/ t \in mayRead[res[t]]

CaInv ==
  /\ CaType /\ CaOnce
  /\ \A t \in Threads : CaControl(t) /\ CaPut(t) /\ CaLooks(t)
  /\ \A c \in CacheKeys : CaEntry(c)

-----------------------------------------------------------------------------
(* math_cache.c and test_mem.c: what the steps do.                         *)

LEMMA CaNames ==
  /\ Cache!Null = 0 /\ 0 \notin CacheKeys /\ 0 \notin CacheObjects
  /\ Fills \in Nat /\ 0 \in CaObjects /\ 0 \in CaKeys
  /\ Cache!Present = {c \in CacheKeys : objects[c] # 0}
  /\ CacheObjects \subseteq CaObjects /\ CacheKeys \subseteq CaKeys
BY BenchAssumption
DEF Stress!Null, Cache!Null, CaObjects, CaKeys, Cache!Present

CaSame(u) ==
  /\ label'[u] = label[u] /\ k'[u] = k[u] /\ obj'[u] = obj[u]
  /\ res'[u] = res[u] /\ filled'[u] = filled[u]
CaOthersSame(t) == \A u \in Threads \ {t} : CaSame(u)

CaRemoving(t) == label[t] \in CaRemoved
CaDrops(t, x) ==
  \A c \in CacheObjects :
    mayRead'[c] = (IF c = x THEN Threads ELSE mayRead[c]) \ {t}

CaStill(t) ==
  /\ UNCHANGED <<objects, obj, inUse, mayRead, holds>>
  /\ CaRemoving(t)' <=> CaRemoving(t)
  /\ CaRemoving(t) => res'[t] = res[t]
CaAllocs(t) ==
  /\ obj[t] = 0 /\ ~CaRemoving(t) /\ ~CaRemoving(t)' /\ UNCHANGED objects
  /\ \E o \in CacheObjects :
       /\ o \notin inUse /\ mayRead[o] = {} /\ obj'[t] = o
       /\ inUse' = inUse \cup {o} /\ CaDrops(t, 0)
       /\ \A c \in CacheObjects : c # o => holds'[c] = holds[c]
CaPuts(t) ==
  /\ ~CaRemoving(t) /\ ~CaRemoving(t)' /\ label[t] \in CaPutting
  /\ k[t] \in CacheKeys /\ objects[k[t]] = 0
  /\ objects' = [objects EXCEPT ![k[t]] = obj[t]] /\ obj'[t] = 0
  /\ UNCHANGED <<inUse, mayRead, holds>>
  /\ program = "math_cache" => label[t] = "put"
CaRemoves(t) ==
  /\ ~CaRemoving(t) /\ CaRemoving(t)' /\ UNCHANGED obj
  /\ \E c \in CacheKeys : /\ objects' = [objects EXCEPT ![c] = 0]
                          /\ res'[t] = objects[c] /\ k'[t] = c
  /\ UNCHANGED <<inUse, mayRead, holds>>
CaFreesObj(t) ==
  /\ ~CaRemoving(t) /\ ~CaRemoving(t)'
  /\ obj'[t] = 0 /\ inUse' = inUse \ {obj[t]} /\ CaDrops(t, obj[t])
  /\ UNCHANGED <<objects, holds>>
CaFreesRes(t) ==
  /\ CaRemoving(t) /\ ~CaRemoving(t)' /\ UNCHANGED obj
  /\ inUse' = inUse \ {res[t]} /\ CaDrops(t, res[t])
  /\ UNCHANGED <<objects, holds>>

CaEffect(t) ==
  \/ CaStill(t) \/ CaAllocs(t) \/ CaPuts(t) \/ CaRemoves(t)
  \/ CaFreesObj(t) \/ CaFreesRes(t)
CaOwn(t) == CaControl(t)' /\ CaPut(t)' /\ CaLooks(t)'
CaGood(t) == CaType' /\ CaOthersSame(t) /\ CaEffect(t) /\ CaOwn(t)
CaStep(t) == CaInv /\ t \in Threads /\ UNCHANGED program

LEMMA CaStepFacts ==
  ASSUME NEW t, CaStep(t)
  PROVE  /\ t \in Threads /\ UNCHANGED program
         /\ program \in {"math_cache", "test_mem"}
         /\ label \in [Threads -> CaCache \cup CaMem]
         /\ objects \in [CacheKeys -> CaObjects]
         /\ k \in [Threads -> CaKeys]
         /\ obj \in [Threads -> CaObjects] /\ res \in [Threads -> CaObjects]
         /\ filled \in [Threads -> 0 .. Fills]
         /\ inUse \subseteq CacheObjects
         /\ mayRead \in [CacheObjects -> SUBSET Threads]
         /\ holds \in [CacheObjects -> CaKeys]
         /\ CaOnce /\ \A c \in CacheKeys : CaEntry(c)
         /\ \A u \in Threads : CaControl(u) /\ CaPut(u) /\ CaLooks(u)
BY DEF CaStep, CaInv, CaType

LEMMA CaPlaceFacts ==
  /\ \A t \in Threads : /\ <<"obj", t>> \in CaPlaces
                        /\ <<"rem", t>> \in CaPlaces
  /\ \A c \in CacheKeys : <<"key", c>> \in CaPlaces
  /\ DOMAIN CaAt = CaPlaces /\ CaAt = [p \in CaPlaces |-> CaAt[p]]
  /\ \A t \in Threads :
       /\ CaAt[<<"obj", t>>] = obj[t]
       /\ CaAt[<<"rem", t>>] = IF CaRemoving(t) THEN res[t] ELSE 0
  /\ \A c \in CacheKeys : CaAt[<<"key", c>>] = objects[c]
BY DEF CaPlaces, CaAt, CaRemoving

LEMMA CaPlaceNext ==
  /\ CaAt' = [p \in CaPlaces |-> CaAt'[p]]
  /\ \A t \in Threads :
       /\ CaAt'[<<"obj", t>>] = obj'[t]
       /\ CaAt'[<<"rem", t>>] = IF CaRemoving(t)' THEN res'[t] ELSE 0
  /\ \A c \in CacheKeys : CaAt'[<<"key", c>>] = objects'[c]
BY DEF CaPlaces, CaAt, CaRemoving

LEMMA CaPlaceOne ==
  ASSUME NEW p \in CaPlaces
  PROVE  \/ \E t \in Threads : p = <<"obj", t>> \/ p = <<"rem", t>>
         \/ \E c \in CacheKeys : p = <<"key", c>>
BY DEF CaPlaces

LEMMA CaAtIs ==
  ASSUME NEW D, D = [p \in CaPlaces |-> D[p]],
         \A u \in Threads :
           /\ D[<<"obj", u>>] = obj'[u]
           /\ D[<<"rem", u>>] = IF CaRemoving(u)' THEN res'[u] ELSE 0,
         \A c \in CacheKeys : D[<<"key", c>>] = objects'[c]
  PROVE  CaAt' = D
<1>1. ASSUME NEW p \in CaPlaces PROVE CaAt'[p] = D[p]
  <2>1. CASE \E u \in Threads : p = <<"obj", u>>
    <3>1. PICK u \in Threads : p = <<"obj", u>>
      BY <2>1
    <3>2. CaAt'[<<"obj", u>>] = D[<<"obj", u>>]
      BY CaPlaceNext
    <3> QED BY <3>1, <3>2
  <2>2. CASE \E u \in Threads : p = <<"rem", u>>
    <3>1. PICK u \in Threads : p = <<"rem", u>>
      BY <2>2
    <3>2. CaAt'[<<"rem", u>>] = D[<<"rem", u>>]
      BY CaPlaceNext
    <3> QED BY <3>1, <3>2
  <2>3. CASE \E c \in CacheKeys : p = <<"key", c>>
    <3>1. PICK c \in CacheKeys : p = <<"key", c>>
      BY <2>3
    <3>2. CaAt'[<<"key", c>>] = D[<<"key", c>>]
      BY CaPlaceNext
    <3> QED BY <3>1, <3>2
  <2> QED BY <2>1, <2>2, <2>3, CaPlaceOne
<1> QED BY <1>1, CaPlaceNext

-----------------------------------------------------------------------------
(* The objects of math_cache.c and test_mem.c are kept in their places.    *)

LEMMA CaOnceStep ==
  ASSUME NEW t, CaStep(t), CaGood(t)
  PROVE  CaOnce'
<1>1. /\ t \in Threads /\ objects \in [CacheKeys -> CaObjects]
      /\ inUse \subseteq CacheObjects /\ 0 \notin CacheObjects
      /\ CaObjects = CacheObjects \cup {0}
      /\ \A u \in Threads : obj[u] \in CaObjects /\ res[u] \in CaObjects
  BY CaStepFacts, CaNames DEF CaObjects
<1>2. \A u \in Threads \ {t} :
        obj'[u] = obj[u] /\ res'[u] = res[u] /\ (CaRemoving(u)' <=> CaRemoving(u))
  BY DEF CaGood, CaOthersSame, CaSame, CaRemoving
<1>3. Once(CaAt, CaPlaces, inUse, CacheObjects)
  BY CaStepFacts DEF CaOnce
<1>4. CaOnce' <=> Once(CaAt', CaPlaces, inUse', CacheObjects)
  BY DEF CaOnce, Once, CaPlaces
<1>5. /\ \A u \in Threads : <<"obj", u>> # <<"rem", t>>
      /\ \A u \in Threads \ {t} : <<"rem", u>> # <<"rem", t>>
      /\ \A c \in CacheKeys : <<"key", c>> # <<"rem", t>>
      /\ \A u \in Threads : <<"rem", u>> # <<"obj", t>>
      /\ \A u \in Threads \ {t} : <<"obj", u>> # <<"obj", t>>
      /\ \A c \in CacheKeys : <<"key", c>> # <<"obj", t>>
  OBVIOUS
<1>6. CASE CaStill(t)
  <2> DEFINE D == CaAt
  <2>1. D = [p \in CaPlaces |-> D[p]]
    BY CaPlaceFacts
  <2>2. \A u \in Threads :
          /\ D[<<"obj", u>>] = obj'[u]
          /\ D[<<"rem", u>>] = IF CaRemoving(u)' THEN res'[u] ELSE 0
    BY <1>2, <1>6, CaPlaceFacts DEF CaStill
  <2>3. \A c \in CacheKeys : D[<<"key", c>>] = objects'[c]
    BY <1>6, CaPlaceFacts DEF CaStill
  <2> HIDE DEF D
  <2>4. CaAt' = D
    BY <2>1, <2>2, <2>3, CaAtIs
  <2> QED BY <1>3, <1>4, <1>6, <2>4 DEF D, CaStill
<1>7. CASE CaAllocs(t)
  <2>1. PICK o \in CacheObjects :
          o \notin inUse /\ obj'[t] = o /\ inUse' = inUse \cup {o}
    BY <1>7 DEF CaAllocs
  <2> DEFINE p == <<"obj", t>>
             D == [CaAt EXCEPT ![p] = o]
  <2>2. p \in CaPlaces /\ CaAt[p] = 0
    BY <1>1, <1>7, CaPlaceFacts DEF CaAllocs
  <2>3. /\ D = [q \in CaPlaces |-> D[q]] /\ D[p] = o
        /\ \A q \in CaPlaces \ {p} : D[q] = CaAt[q]
    BY <2>2, CaPlaceFacts
  <2>4. inUse' = (inUse \ {CaAt[p]}) \cup {o}
    BY <1>1, <2>1, <2>2
  <2>5. Once(D, CaPlaces, inUse', CacheObjects)
    BY <1>1, <1>3, <2>1, <2>2, <2>4, OncePut
  <2> HIDE DEF D
  <2>6. \A u \in Threads :
          /\ D[<<"obj", u>>] = obj'[u]
          /\ D[<<"rem", u>>] = IF CaRemoving(u)' THEN res'[u] ELSE 0
    BY <1>2, <1>5, <1>7, <2>1, <2>3, CaPlaceFacts DEF CaAllocs
  <2>7. \A c \in CacheKeys : D[<<"key", c>>] = objects'[c]
    BY <1>5, <1>7, <2>3, CaPlaceFacts DEF CaAllocs
  <2>8. CaAt' = D
    BY <2>3, <2>6, <2>7, CaAtIs
  <2> QED BY <1>4, <2>5, <2>8
<1>8. CASE CaPuts(t)
  <2>1. /\ k[t] \in CacheKeys /\ objects[k[t]] = 0
        /\ objects' = [objects EXCEPT ![k[t]] = obj[t]] /\ obj'[t] = 0
        /\ ~CaRemoving(t) /\ ~CaRemoving(t)' /\ UNCHANGED inUse
    BY <1>8 DEF CaPuts
  <2> DEFINE p == <<"obj", t>>
             q == <<"key", k[t]>>
  <2>2. /\ p \in CaPlaces /\ q \in CaPlaces /\ p # q
        /\ CaAt[p] = obj[t] /\ CaAt[q] = 0
    BY <1>1, <2>1, CaPlaceFacts
  <2>3. CaAt'[p] = 0 /\ CaAt'[q] = CaAt[p]
    BY <1>1, <2>1, <2>2, CaPlaceNext
  <2>4. \A s \in CaPlaces \ {p, q} : CaAt'[s] = CaAt[s]
    <3>1. ASSUME NEW u \in Threads, <<"obj", u>> # p
          PROVE  CaAt'[<<"obj", u>>] = CaAt[<<"obj", u>>]
      <4>1. obj'[u] = obj[u]
        BY <1>2, <3>1
      <4> QED BY <4>1, CaPlaceFacts, CaPlaceNext
    <3>2. ASSUME NEW u \in Threads
          PROVE  CaAt'[<<"rem", u>>] = CaAt[<<"rem", u>>]
      <4>1. /\ CaRemoving(u)' <=> CaRemoving(u)
            /\ CaRemoving(u) => res'[u] = res[u]
        BY <1>2, <2>1
      <4> QED BY <4>1, CaPlaceFacts, CaPlaceNext
    <3>3. ASSUME NEW c \in CacheKeys, <<"key", c>> # q
          PROVE  CaAt'[<<"key", c>>] = CaAt[<<"key", c>>]
      <4>1. objects'[c] = objects[c]
        BY <1>1, <2>1, <3>3
      <4> QED BY <4>1, CaPlaceFacts, CaPlaceNext
    <3> QED BY <3>1, <3>2, <3>3, CaPlaceOne
  <2>5. CaAt' \in [CaPlaces -> CacheObjects \cup {0}]
    <3>1. \A s \in CaPlaces : CaAt[s] \in CacheObjects \cup {0}
      BY <1>3 DEF Once
    <3>2. \A s \in CaPlaces : CaAt'[s] \in CacheObjects \cup {0}
      BY <2>2, <2>3, <2>4, <3>1
    <3> QED BY <3>2, CaPlaceNext
  <2> HIDE DEF p, q
  <2>6. Once(CaAt', CaPlaces, inUse, CacheObjects)
    BY <1>1, <1>3, <2>2, <2>3, <2>4, <2>5, OnceMoved
  <2> QED BY <1>4, <2>1, <2>6
<1>9. CASE CaRemoves(t)
  <2>1. PICK c \in CacheKeys :
          objects' = [objects EXCEPT ![c] = 0] /\ res'[t] = objects[c]
    BY <1>9 DEF CaRemoves
  <2>2. ~CaRemoving(t) /\ CaRemoving(t)' /\ UNCHANGED <<obj, inUse>>
    BY <1>9 DEF CaRemoves
  <2> DEFINE p == <<"key", c>>
             q == <<"rem", t>>
  <2>3. /\ p \in CaPlaces /\ q \in CaPlaces /\ p # q
        /\ CaAt[p] = objects[c] /\ CaAt[q] = 0
    BY <1>1, <2>2, CaPlaceFacts
  <2>4. CaAt'[p] = 0 /\ CaAt'[q] = CaAt[p]
    BY <1>1, <2>1, <2>2, <2>3, CaPlaceNext
  <2>5. \A s \in CaPlaces \ {p, q} : CaAt'[s] = CaAt[s]
    <3>1. ASSUME NEW u \in Threads
          PROVE  CaAt'[<<"obj", u>>] = CaAt[<<"obj", u>>]
      BY <2>2, CaPlaceFacts, CaPlaceNext
    <3>2. ASSUME NEW u \in Threads, <<"rem", u>> # q
          PROVE  CaAt'[<<"rem", u>>] = CaAt[<<"rem", u>>]
      <4>1. /\ CaRemoving(u)' <=> CaRemoving(u)
            /\ CaRemoving(u) => res'[u] = res[u]
        BY <1>2, <3>2
      <4> QED BY <4>1, CaPlaceFacts, CaPlaceNext
    <3>3. ASSUME NEW d \in CacheKeys, <<"key", d>> # p
          PROVE  CaAt'[<<"key", d>>] = CaAt[<<"key", d>>]
      <4>1. objects'[d] = objects[d]
        BY <1>1, <2>1, <3>3
      <4> QED BY <4>1, CaPlaceFacts, CaPlaceNext
    <3> QED BY <3>1, <3>2, <3>3, CaPlaceOne
  <2>6. CaAt' \in [CaPlaces -> CacheObjects \cup {0}]
    <3>1. \A s \in CaPlaces : CaAt[s] \in CacheObjects \cup {0}
      BY <1>3 DEF Once
    <3>2. \A s \in CaPlaces : CaAt'[s] \in CacheObjects \cup {0}
      BY <2>3, <2>4, <2>5, <3>1
    <3> QED BY <3>2, CaPlaceNext
  <2> HIDE DEF p, q
  <2>7. Once(CaAt', CaPlaces, inUse, CacheObjects)
    BY <1>1, <1>3, <2>3, <2>4, <2>5, <2>6, OnceMoved
  <2> QED BY <1>4, <2>2, <2>7
<1>10. CASE CaFreesObj(t) \/ CaFreesRes(t)
  <2> DEFINE p == IF CaRemoving(t) THEN <<"rem", t>> ELSE <<"obj", t>>
             D == [CaAt EXCEPT ![p] = 0]
  <2>1. p \in CaPlaces /\ inUse' = inUse \ {CaAt[p]} /\ UNCHANGED objects
    BY <1>1, <1>10, CaPlaceFacts DEF CaFreesObj, CaFreesRes
  <2>2. /\ D = [q \in CaPlaces |-> D[q]] /\ D[p] = 0
        /\ \A q \in CaPlaces \ {p} : D[q] = CaAt[q]
    BY <2>1, CaPlaceFacts
  <2>3. Once(D, CaPlaces, inUse', CacheObjects)
    BY <1>1, <1>3, <2>1, OnceTaken
  <2> HIDE DEF D
  <2>4. ASSUME NEW u \in Threads
        PROVE  /\ D[<<"obj", u>>] = obj'[u]
               /\ D[<<"rem", u>>] = IF CaRemoving(u)' THEN res'[u] ELSE 0
    <3>1. CASE u # t
      <4>1. obj'[u] = obj[u] /\ res'[u] = res[u]
            /\ (CaRemoving(u)' <=> CaRemoving(u))
        BY <1>2, <3>1
      <4>2. <<"obj", u>> # p /\ <<"rem", u>> # p
        BY <1>5, <3>1
      <4> QED BY <2>2, <4>1, <4>2, CaPlaceFacts
    <3>2. CASE u = t /\ CaFreesObj(t)
      <4>1. p = <<"obj", t>> /\ obj'[t] = 0 /\ ~CaRemoving(t)'
            /\ ~CaRemoving(t)
        BY <3>2 DEF CaFreesObj
      <4> QED BY <1>5, <2>2, <3>2, <4>1, CaPlaceFacts
    <3>3. CASE u = t /\ CaFreesRes(t)
      <4>1. p = <<"rem", t>> /\ obj' = obj /\ ~CaRemoving(t)'
        BY <3>3 DEF CaFreesRes
      <4> QED BY <1>5, <2>2, <3>3, <4>1, CaPlaceFacts
    <3> QED BY <1>10, <3>1, <3>2, <3>3
  <2>5. \A c \in CacheKeys : D[<<"key", c>>] = objects'[c]
    <3>1. \A c \in CacheKeys : <<"key", c>> # p
      BY <1>5
    <3> QED BY <2>1, <2>2, <3>1, CaPlaceFacts
  <2>6. CaAt' = D
    BY <2>2, <2>4, <2>5, CaAtIs
  <2> QED BY <1>4, <2>3, <2>6
<1> QED BY <1>6, <1>7, <1>8, <1>9, <1>10 DEF CaGood, CaEffect

-----------------------------------------------------------------------------
(* math_cache.c and test_mem.c: the others while t takes a step.           *)

LEMMA CaInUse ==
  ASSUME NEW t, CaStep(t)
  PROVE  /\ \A u \in Threads : obj[u] # 0 => obj[u] \in inUse
         /\ \A c \in CacheKeys : objects[c] # 0 => objects[c] \in inUse
<1>1. \A p \in CaPlaces : CaAt[p] # 0 => CaAt[p] \in inUse
  BY CaStepFacts DEF CaOnce, Once
<1>2. ASSUME NEW u \in Threads, obj[u] # 0 PROVE obj[u] \in inUse
  BY <1>1, <1>2, CaPlaceFacts
<1>3. ASSUME NEW c \in CacheKeys, objects[c] # 0 PROVE objects[c] \in inUse
  BY <1>1, <1>3, CaPlaceFacts
<1> QED BY <1>2, <1>3

(* What is in use, or read, keeps its key.                                 *)
LEMMA CaHolds ==
  ASSUME NEW t, CaStep(t), CaEffect(t), NEW o \in CacheObjects,
         o \in inUse \/ mayRead[o] # {}
  PROVE  holds'[o] = holds[o]
BY DEF CaEffect, CaStill, CaAllocs, CaPuts, CaRemoves, CaFreesObj, CaFreesRes

LEMMA CaEntryStep ==
  ASSUME NEW t, CaStep(t), CaEffect(t), NEW c \in CacheKeys
  PROVE  CaEntry(c)'
<1>1. /\ objects \in [CacheKeys -> CaObjects] /\ inUse \subseteq CacheObjects
      /\ program' = program /\ CaEntry(c) /\ t \in Threads
  BY CaStepFacts
<1> SUFFICES ASSUME program = "math_cache", objects'[c] # 0
             PROVE  holds'[objects'[c]] = c
  BY <1>1 DEF CaEntry
<1>2. CASE objects'[c] = objects[c]
  <2>1. objects[c] \in inUse
    BY <1>2, CaInUse
  <2>2. holds'[objects[c]] = holds[objects[c]]
    BY <1>1, <2>1, CaHolds
  <2> QED BY <1>1, <1>2, <2>2 DEF CaEntry
<1>3. CASE objects'[c] # objects[c]
  <2>1. CaPuts(t) /\ c = k[t] /\ objects'[c] = obj[t]
    BY <1>1, <1>3
    DEF CaEffect, CaStill, CaAllocs, CaPuts, CaRemoves, CaFreesObj,
        CaFreesRes
  <2>2. label[t] = "put" /\ UNCHANGED holds
    BY <2>1 DEF CaPuts
  <2> QED BY <2>1, <2>2, CaStepFacts DEF CaPut
<1> QED BY <1>2, <1>3

LEMMA CaOther ==
  ASSUME NEW t, CaStep(t), CaEffect(t), CaOthersSame(t),
         NEW u \in Threads \ {t}
  PROVE  CaControl(u)' /\ CaPut(u)' /\ CaLooks(u)'
<1>1. /\ CaControl(u) /\ CaPut(u) /\ CaLooks(u) /\ CaSame(u)
      /\ program' = program /\ inUse \subseteq CacheObjects
      /\ mayRead \in [CacheObjects -> SUBSET Threads]
  BY CaStepFacts DEF CaOthersSame
<1>2. CaControl(u)'
  BY <1>1 DEF CaControl, CaSame
<1>3. CaPut(u)'
  <2> SUFFICES ASSUME program = "math_cache", label[u] \in {"put", "put_free"}
               PROVE  holds'[obj[u]] = k[u]
    BY <1>1 DEF CaPut, CaSame
  <2>1. holds[obj[u]] = k[u] /\ obj[u] # 0
    BY <1>1 DEF CaPut, CaControl, CaPutting
  <2>2. obj[u] \in inUse
    BY <2>1, CaInUse
  <2> QED BY <1>1, <2>1, <2>2, CaHolds
<1>4. CaLooks(u)'
  <2> SUFFICES ASSUME label[u] \in {"check", "rem_check"}
               PROVE  /\ res[u] \in CacheObjects /\ holds'[res[u]] = k[u]
                      /\ res[u] \in inUse' \/ u \in mayRead'[res[u]]
    BY <1>1 DEF CaLooks, CaSame
  <2>1. /\ res[u] \in CacheObjects /\ holds[res[u]] = k[u]
        /\ res[u] \in inUse \/ u \in mayRead[res[u]]
    BY <1>1 DEF CaLooks
  <2>2. holds'[res[u]] = k[u]
    BY <2>1, CaHolds
  <2>3. res[u] \in inUse' \/ u \in mayRead'[res[u]]
    <3>1. CASE \/ CaStill(t) \/ CaPuts(t) \/ CaRemoves(t)
      BY <2>1, <3>1 DEF CaStill, CaPuts, CaRemoves
    <3>2. CASE CaAllocs(t)
      BY <1>1, <2>1, <3>2 DEF CaAllocs, CaDrops
    <3>3. CASE CaFreesObj(t)
      BY <1>1, <2>1, <3>3 DEF CaFreesObj, CaDrops
    <3>4. CASE CaFreesRes(t)
      BY <1>1, <2>1, <3>4 DEF CaFreesRes, CaDrops
    <3> QED BY <3>1, <3>2, <3>3, <3>4 DEF CaEffect
  <2> QED BY <2>1, <2>2, <2>3
<1> QED BY <1>2, <1>3, <1>4

-----------------------------------------------------------------------------
(* math_cache.c and test_mem.c: the steps.                                 *)

LEMMA CaGoodInv ==
  ASSUME NEW t, CaStep(t), CaGood(t)
  PROVE  CaInv'
<1>1. CaType' /\ CaOthersSame(t) /\ CaEffect(t) /\ CaOwn(t)
  BY DEF CaGood
<1>2. \A u \in Threads : CaControl(u)' /\ CaPut(u)' /\ CaLooks(u)'
  BY <1>1, CaOther DEF CaOwn
<1>3. \A c \in CacheKeys : CaEntry(c)'
  BY <1>1, CaEntryStep
<1>4. CaOnce'
  BY CaOnceStep
<1> QED BY <1>1, <1>2, <1>3, <1>4 DEF CaInv

LEMMA CaNewGood ==
  ASSUME NEW t, CaStep(t), NEW c \in CaKeys, NEW l, Cache!New(t, c, l),
         obj[t] = 0, ~CaRemoving(t), l \in {"put", "fill_put"},
         label[t] \in (CaCache \cup CaMem)
  PROVE  /\ label' = [label EXCEPT ![t] = l] /\ UNCHANGED <<objects, res, filled>>
         /\ obj' \in [Threads -> CaObjects] /\ obj'[t] # 0
         /\ \A u \in Threads \ {t} : obj'[u] = obj[u]
         /\ inUse' \subseteq CacheObjects
         /\ mayRead' \in [CacheObjects -> SUBSET Threads]
         /\ holds' \in [CacheObjects -> CaKeys] /\ holds'[obj'[t]] = c
         /\ CaAllocs(t)
<1>1. PICK o \in CacheObjects :
        Cache!Alloc(t, o, c) /\ obj' = [obj EXCEPT ![t] = o]
  BY DEF Cache!New
<1>2. /\ label' = [label EXCEPT ![t] = l] /\ UNCHANGED <<objects, res, filled>>
  BY DEF Cache!New, Cache!Goto
<1>3. /\ o \notin inUse /\ mayRead[o] = {} /\ inUse' = inUse \cup {o}
      /\ mayRead' = Cache!Dropped(t, mayRead)
      /\ holds' = [holds EXCEPT ![o] = c]
  BY <1>1 DEF Cache!Alloc, Cache!Available
<1>4. /\ t \in Threads /\ label \in [Threads -> CaCache \cup CaMem]
      /\ obj \in [Threads -> CaObjects] /\ inUse \subseteq CacheObjects
      /\ mayRead \in [CacheObjects -> SUBSET Threads]
      /\ holds \in [CacheObjects -> CaKeys] /\ o # 0 /\ 0 \notin CacheObjects
      /\ CacheObjects \subseteq CaObjects
  BY CaStepFacts, CaNames
<1>5. /\ mayRead' \in [CacheObjects -> SUBSET Threads] /\ CaDrops(t, 0)
  BY <1>3, <1>4 DEF Cache!Dropped, CaDrops
<1>6. obj'[t] = o /\ obj' \in [Threads -> CaObjects]
      /\ \A u \in Threads \ {t} : obj'[u] = obj[u]
  BY <1>1, <1>4
<1>7. /\ inUse' \subseteq CacheObjects /\ holds' \in [CacheObjects -> CaKeys]
      /\ holds'[o] = c
      /\ \A d \in CacheObjects : d # o => holds'[d] = holds[d]
  BY <1>3, <1>4
<1>8. ~CaRemoving(t)'
  BY <1>2, <1>4 DEF CaRemoving, CaRemoved
<1>9. CaAllocs(t)
  BY <1>2, <1>3, <1>5, <1>6, <1>7, <1>8 DEF CaAllocs
<1> QED BY <1>2, <1>4, <1>5, <1>6, <1>7, <1>9

LEMMA CaFreed ==
  ASSUME NEW t, CaStep(t), NEW x, Cache!Free(t, x)
  PROVE  /\ inUse' = inUse \ {x} /\ inUse' \subseteq CacheObjects
         /\ mayRead' \in [CacheObjects -> SUBSET Threads] /\ CaDrops(t, x)
         /\ UNCHANGED holds
<1>1. /\ inUse \subseteq CacheObjects
      /\ mayRead \in [CacheObjects -> SUBSET Threads]
  BY CaStepFacts
<1>2. /\ inUse' = inUse \ {x} /\ UNCHANGED holds
      /\ mayRead' = Cache!Dropped(t, [mayRead EXCEPT ![x] = Threads])
  BY DEF Cache!Free
<1>3. mayRead' \in [CacheObjects -> SUBSET Threads] /\ CaDrops(t, x)
  BY <1>1, <1>2 DEF Cache!Dropped, CaDrops
<1> QED BY <1>1, <1>2, <1>3

(* What changes for t when nothing else does.                              *)
LEMMA CaLookGood ==
  ASSUME NEW t, CaStep(t), NEW l \in CaCache \cup CaMem,
         label' = [label EXCEPT ![t] = l],
         UNCHANGED <<objects, obj, filled, inUse, mayRead, holds>>,
         k' = k \/ \E c \in CacheKeys : k' = [k EXCEPT ![t] = c],
         res' = res \/ \E o \in CaObjects : res' = [res EXCEPT ![t] = o],
         CaRemoving(t)' <=> CaRemoving(t), CaRemoving(t) => res' = res
  PROVE  CaType' /\ CaOthersSame(t) /\ CaEffect(t) /\ label'[t] = l
<1>1. CaType /\ t \in Threads /\ UNCHANGED program /\ CacheKeys \subseteq CaKeys
  BY CaNames DEF CaStep, CaInv
<1>2. CaStill(t)
  BY DEF CaStill
<1> QED BY <1>1, <1>2 DEF CaType, CaOthersSame, CaSame, CaEffect

LEMMA CaGetGood ==
  ASSUME NEW t, CaStep(t), program = "math_cache",
         \/ Cache!CacheGet(t) \/ Cache!CacheCheck(t)
         \/ Cache!CacheRemoveCheck(t)
  PROVE  CaGood(t)
<1>1. /\ CaControl(t) /\ CaLooks(t) /\ UNCHANGED program
      /\ k \in [Threads -> CaKeys] /\ res \in [Threads -> CaObjects]
      /\ label \in [Threads -> CaCache \cup CaMem] /\ t \in Threads
      /\ objects \in [CacheKeys -> CaObjects] /\ 0 \in CaObjects
      /\ inUse \subseteq CacheObjects
  BY CaStepFacts, CaNames
<1>2. /\ UNCHANGED <<objects, obj, filled, inUse, mayRead, holds>>
  BY DEF Cache!CacheGet, Cache!CacheCheck, Cache!CacheRemoveCheck,
         Cache!counters, Cache!memory
<1>3. CASE Cache!CacheGet(t)
  <2>1. PICK c \in CacheKeys :
          /\ k' = [k EXCEPT ![t] = c] /\ res' = [res EXCEPT ![t] = objects[c]]
          /\ label' = [label EXCEPT ![t] =
                         IF c \in Cache!Present THEN "check" ELSE "alloc"]
    BY <1>3 DEF Cache!CacheGet, Cache!Goto
  <2>2. label[t] = "loop" /\ obj[t] = 0
    BY <1>1, <1>3
    DEF Cache!CacheGet, Cache!At, CaControl, CaPutting
  <2>3. PICK l \in {"check", "alloc"} :
          /\ label' = [label EXCEPT ![t] = l]
          /\ (l = "check" => objects[c] # 0)
    <3>1. CASE c \in Cache!Present
      BY <2>1, <3>1, CaNames
    <3>2. CASE c \notin Cache!Present
      BY <2>1, <3>2
    <3> QED BY <3>1, <3>2
  <2>4. l \in CaCache \cup CaMem
    BY <2>3 DEF CaCache
  <2>5. label'[t] = l /\ res'[t] = objects[c] /\ k'[t] = c
    BY <1>1, <2>1, <2>3
  <2>6. ~CaRemoving(t) /\ ~CaRemoving(t)'
    BY <2>2, <2>3, <2>5 DEF CaRemoving, CaRemoved
  <2>7. objects[c] \in CaObjects
    BY <1>1
  <2>8. CaType' /\ CaOthersSame(t) /\ CaEffect(t)
    BY <1>1, <1>2, <2>1, <2>3, <2>4, <2>6, <2>7, CaLookGood
  <2>9. CaControl(t)' /\ CaPut(t)'
    BY <1>1, <1>2, <2>1, <2>2, <2>3, <2>5
    DEF CaControl, CaPut, CaCache, CaPutting
  <2>10. CaLooks(t)'
    <3>1. CASE l = "alloc"
      BY <2>5, <3>1 DEF CaLooks
    <3>2. CASE l = "check"
      <4>1. objects[c] # 0 /\ objects[c] \in inUse
        BY <2>3, <3>2, CaInUse
      <4>2. holds[objects[c]] = c
        BY <4>1, CaStepFacts DEF CaEntry
      <4> QED BY <1>1, <1>2, <2>5, <4>1, <4>2 DEF CaLooks
    <3> QED BY <2>3, <3>1, <3>2
  <2> QED BY <2>8, <2>9, <2>10 DEF CaGood, CaOwn
<1>4. CASE Cache!CacheCheck(t)
  <2>1. /\ label[t] = "check" /\ label' = [label EXCEPT ![t] = "remove"]
        /\ res' = [res EXCEPT ![t] = 0] /\ UNCHANGED k
    BY <1>4, CaNames DEF Cache!CacheCheck, Cache!At, Cache!Goto
  <2>2. obj[t] = 0 /\ label'[t] = "remove"
    BY <1>1, <2>1 DEF CaControl, CaPutting
  <2>3. ~CaRemoving(t) /\ ~CaRemoving(t)' /\ "remove" \in CaCache \cup CaMem
    BY <2>1, <2>2 DEF CaRemoving, CaRemoved, CaCache
  <2>4. CaType' /\ CaOthersSame(t) /\ CaEffect(t)
    BY <1>1, <1>2, <2>1, <2>3, CaLookGood
  <2>5. CaOwn(t)
    BY <1>1, <1>2, <2>1, <2>2
    DEF CaOwn, CaControl, CaPut, CaLooks, CaCache, CaPutting
  <2> QED BY <2>4, <2>5 DEF CaGood
<1>5. CASE Cache!CacheRemoveCheck(t)
  <2>1. /\ label[t] = "rem_check" /\ label' = [label EXCEPT ![t] = "rem_free"]
        /\ UNCHANGED <<k, res>>
    BY <1>5 DEF Cache!CacheRemoveCheck, Cache!At, Cache!Goto
  <2>2. obj[t] = 0 /\ label'[t] = "rem_free"
    BY <1>1, <2>1 DEF CaControl, CaPutting
  <2>3. CaRemoving(t) /\ CaRemoving(t)' /\ "rem_free" \in CaCache \cup CaMem
    BY <2>1, <2>2 DEF CaRemoving, CaRemoved, CaCache
  <2>4. CaType' /\ CaOthersSame(t) /\ CaEffect(t)
    BY <1>1, <1>2, <2>1, <2>3, CaLookGood
  <2>5. CaOwn(t)
    BY <1>1, <1>2, <2>1, <2>2
    DEF CaOwn, CaControl, CaPut, CaLooks, CaCache, CaPutting
  <2> QED BY <2>4, <2>5 DEF CaGood
<1> QED BY <1>3, <1>4, <1>5

(* A new object, of either program.                                        *)
LEMMA CaAllocGood ==
  ASSUME NEW t, CaStep(t),
         \/ program = "math_cache" /\ Cache!CacheMiss(t)
         \/ program = "test_mem" /\ Cache!Fill(t)
         \/ program = "test_mem" /\ Cache!MemPut(t) /\ obj[t] = 0
  PROVE  CaGood(t)
<1>1. /\ CaControl(t) /\ UNCHANGED program /\ t \in Threads
      /\ k \in [Threads -> CaKeys] /\ filled \in [Threads -> 0 .. Fills]
      /\ label \in [Threads -> CaCache \cup CaMem]
      /\ res \in [Threads -> CaObjects]
      /\ objects \in [CacheKeys -> CaObjects]
      /\ CacheKeys \subseteq CaKeys /\ 0 \in CaKeys /\ Fills \in Nat
  BY CaStepFacts, CaNames
<1>2. /\ obj[t] = 0 /\ ~CaRemoving(t)
  BY <1>1
  DEF Cache!CacheMiss, Cache!Fill, Cache!MemPut, Cache!At, CaControl,
      CaPutting, CaRemoving, CaRemoved
<1>3. \E c \in CaKeys, l \in {"put", "fill_put"} :
        /\ Cache!New(t, c, l)
        /\ l = "fill_put" => filled[t] < Fills /\ program = "test_mem"
        /\ program = "math_cache" => c = k[t] /\ k' = k
        /\ k' = k \/ \E d \in CacheKeys : k' = [k EXCEPT ![t] = d]
        /\ k'[t] \in CacheKeys
  <2>1. CASE program = "math_cache" /\ Cache!CacheMiss(t)
    <3>1. /\ Cache!New(t, k[t], "put") /\ k' = k /\ k[t] \in CacheKeys
      BY <1>1, <2>1 DEF Cache!CacheMiss, Cache!At, CaControl
    <3> QED BY <1>1, <2>1, <3>1
  <2>2. CASE program = "test_mem" /\ Cache!Fill(t)
    <3>1. PICK c \in CacheKeys :
            k' = [k EXCEPT ![t] = c] /\ Cache!New(t, c, "fill_put")
      BY <2>2 DEF Cache!Fill
    <3>2. filled[t] < Fills /\ k'[t] = c
      BY <1>1, <2>2, <3>1 DEF Cache!Fill
    <3> QED BY <1>1, <2>2, <3>1, <3>2
  <2>3. CASE program = "test_mem" /\ Cache!MemPut(t) /\ obj[t] = 0
    <3>1. PICK c \in CacheKeys : k' = [k EXCEPT ![t] = c]
      BY <2>3 DEF Cache!MemPut
    <3>2. Cache!New(t, 0, "put") /\ k'[t] = c
      BY <1>1, <2>3, <3>1, CaNames DEF Cache!MemPut
    <3> QED BY <1>1, <2>3, <3>1, <3>2
  <2> QED BY <2>1, <2>2, <2>3
<1>4. PICK c \in CaKeys, l \in {"put", "fill_put"} :
        /\ Cache!New(t, c, l)
        /\ l = "fill_put" => filled[t] < Fills /\ program = "test_mem"
        /\ program = "math_cache" => c = k[t] /\ k' = k
        /\ k' = k \/ \E d \in CacheKeys : k' = [k EXCEPT ![t] = d]
        /\ k'[t] \in CacheKeys
  BY <1>3
<1>5. label[t] \in CaCache \cup CaMem
  BY <1>1
<1>6. /\ label' = [label EXCEPT ![t] = l] /\ UNCHANGED <<objects, res, filled>>
      /\ obj' \in [Threads -> CaObjects] /\ obj'[t] # 0
      /\ \A u \in Threads \ {t} : obj'[u] = obj[u]
      /\ inUse' \subseteq CacheObjects
      /\ mayRead' \in [CacheObjects -> SUBSET Threads]
      /\ holds' \in [CacheObjects -> CaKeys] /\ holds'[obj'[t]] = c
      /\ CaAllocs(t)
  BY <1>2, <1>4, <1>5, CaNewGood
<1>7. label'[t] = l
  BY <1>1, <1>6
<1>8. k' \in [Threads -> CaKeys] /\ \A u \in Threads \ {t} : k'[u] = k[u]
  BY <1>1, <1>4
<1>9. label' \in [Threads -> CaCache \cup CaMem]
      /\ \A u \in Threads \ {t} : label'[u] = label[u]
  BY <1>1, <1>6 DEF CaCache, CaMem
<1>10. CaType' /\ CaOthersSame(t)
  BY <1>1, <1>6, <1>8, <1>9, CaStepFacts DEF CaType, CaOthersSame, CaSame
<1>11. CaControl(t)'
  <2>1. program \in {"math_cache", "test_mem"}
    BY CaStepFacts
  <2> QED
    BY <1>1, <1>4, <1>6, <1>7, <2>1 DEF CaControl, CaCache, CaMem, CaPutting
<1>12. CaPut(t)' /\ CaLooks(t)'
  BY <1>1, <1>4, <1>6, <1>7 DEF CaPut, CaLooks
<1> QED BY <1>6, <1>10, <1>11, <1>12 DEF CaGood, CaOwn, CaEffect

(* The call of put, of either program.                                     *)
LEMMA CaPutCallGood ==
  ASSUME NEW t, CaStep(t), NEW l \in CaCache \cup CaMem, Cache!PutCall(t),
         label' = [label EXCEPT ![t] = l], UNCHANGED <<k, res>>,
         UNCHANGED <<inUse, mayRead, holds>>,
         filled' = filled \/
           (k[t] \notin Cache!Present /\ label[t] = "fill_put"
              /\ filled' = [filled EXCEPT ![t] = filled[t] + 1]),
         label[t] \in {"put", "fill_put"}, l \notin CaRemoved \cup {"check"}
  PROVE  /\ CaType' /\ CaOthersSame(t) /\ CaEffect(t) /\ CaLooks(t)'
         /\ label'[t] = l
         /\ k[t] \in Cache!Present => obj'[t] = obj[t]
         /\ k[t] \notin Cache!Present => obj'[t] = 0
<1>1. /\ CaControl(t) /\ UNCHANGED program /\ t \in Threads
      /\ k \in [Threads -> CaKeys] /\ filled \in [Threads -> 0 .. Fills]
      /\ label \in [Threads -> CaCache \cup CaMem]
      /\ res \in [Threads -> CaObjects] /\ obj \in [Threads -> CaObjects]
      /\ objects \in [CacheKeys -> CaObjects] /\ 0 \in CaObjects
      /\ Fills \in Nat /\ Cache!Null = 0
      /\ program \in {"math_cache", "test_mem"}
  BY CaStepFacts, CaNames
<1>2. label'[t] = l /\ ~CaRemoving(t) /\ ~CaRemoving(t)'
      /\ k[t] \in CacheKeys /\ label[t] \in CaPutting
  BY <1>1 DEF CaRemoving, CaRemoved, CaControl, CaPutting
<1>3. CaLooks(t)'
  BY <1>2 DEF CaLooks, CaRemoved
<1>4. filled' \in [Threads -> 0 .. Fills]
      /\ \A u \in Threads \ {t} : filled'[u] = filled[u]
  <2>1. label[t] = "fill_put" => filled[t] + 1 \in 0 .. Fills
    BY <1>1 DEF CaControl
  <2> QED BY <1>1, <2>1
<1>5. label' \in [Threads -> CaCache \cup CaMem]
      /\ \A u \in Threads \ {t} : label'[u] = label[u]
  BY <1>1
<1>6. CASE k[t] \in Cache!Present
  <2>1. UNCHANGED <<objects, obj>>
    BY <1>6 DEF Cache!PutCall
  <2>2. CaStill(t)
    BY <1>2, <2>1 DEF CaStill
  <2>3. CaType' /\ CaOthersSame(t)
    BY <1>1, <1>4, <1>5, <2>1, CaStepFacts DEF CaType, CaOthersSame, CaSame
  <2> QED BY <1>2, <1>3, <1>6, <2>1, <2>2, <2>3 DEF CaEffect
<1>7. CASE k[t] \notin Cache!Present
  <2>1. /\ objects' = [objects EXCEPT ![k[t]] = obj[t]]
        /\ obj' = [obj EXCEPT ![t] = 0]
    BY <1>1, <1>7 DEF Cache!PutCall
  <2>2. objects[k[t]] = 0
    BY <1>2, <1>7, CaNames
  <2>3. program = "math_cache" => label[t] = "put"
    BY <1>1 DEF CaControl, CaCache
  <2>4. /\ obj' \in [Threads -> CaObjects] /\ obj'[t] = 0
        /\ \A u \in Threads \ {t} : obj'[u] = obj[u]
        /\ objects' \in [CacheKeys -> CaObjects]
    BY <1>1, <2>1
  <2>5. CaPuts(t)
    BY <1>2, <2>1, <2>2, <2>3, <2>4 DEF CaPuts
  <2>6. CaType' /\ CaOthersSame(t)
    BY <1>1, <1>4, <1>5, <2>4, CaStepFacts DEF CaType, CaOthersSame, CaSame
  <2> QED BY <1>2, <1>3, <1>7, <2>4, <2>5, <2>6 DEF CaEffect
<1> QED BY <1>6, <1>7

LEMMA CaPutGood ==
  ASSUME NEW t, CaStep(t),
         \/ program = "math_cache" /\ Cache!CachePut(t)
         \/ program = "test_mem" /\ Cache!FillPut(t)
         \/ program = "test_mem" /\ Cache!MemPutCall(t)
  PROVE  CaGood(t)
<1>1. /\ CaControl(t) /\ CaPut(t) /\ UNCHANGED program /\ t \in Threads
      /\ UNCHANGED <<k, res, inUse, mayRead, holds>> /\ Cache!PutCall(t)
  BY CaStepFacts
  DEF Cache!CachePut, Cache!FillPut, Cache!MemPutCall, Cache!memory
<1>2. k[t] \in CacheKeys /\ label[t] \in {"put", "fill_put"} /\ obj[t] # 0
  BY <1>1
  DEF Cache!CachePut, Cache!FillPut, Cache!MemPutCall, Cache!At, CaControl,
      CaPutting
<1>3. CASE program = "math_cache" /\ Cache!CachePut(t)
  <2> DEFINE l == IF k[t] \in Cache!Present THEN "put_free" ELSE "remove"
  <2>1. label' = [label EXCEPT ![t] = l] /\ UNCHANGED filled /\ label[t] = "put"
    BY <1>3 DEF Cache!CachePut, Cache!Goto, Cache!At
  <2>2. l \in CaCache /\ l \notin CaRemoved \cup {"check"}
    BY DEF CaCache, CaRemoved
  <2>3. /\ CaType' /\ CaOthersSame(t) /\ CaEffect(t) /\ CaLooks(t)'
        /\ label'[t] = l
        /\ k[t] \in Cache!Present => obj'[t] = obj[t]
        /\ k[t] \notin Cache!Present => obj'[t] = 0
    <3> HIDE DEF l
    <3> QED BY <1>1, <1>2, <2>1, <2>2, CaPutCallGood
  <2>4. CaControl(t)'
    BY <1>1, <1>2, <1>3, <2>3 DEF CaControl, CaCache, CaPutting
  <2>5. CaPut(t)'
    BY <1>1, <1>3, <2>1, <2>3 DEF CaPut
  <2> QED BY <2>3, <2>4, <2>5 DEF CaGood, CaOwn
<1>4. CASE program = "test_mem" /\ Cache!FillPut(t)
  <2> DEFINE l == IF k[t] \in Cache!Present THEN "fill_free" ELSE "fill"
  <2>1. /\ label' = [label EXCEPT ![t] = l] /\ label[t] = "fill_put"
        /\ \/ UNCHANGED filled
           \/ /\ k[t] \notin Cache!Present
              /\ filled' = [filled EXCEPT ![t] = filled[t] + 1]
    BY <1>4 DEF Cache!FillPut, Cache!Goto, Cache!At
  <2>2. l \in CaMem /\ l \notin CaRemoved \cup {"check"}
    BY DEF CaMem, CaRemoved
  <2>3. /\ CaType' /\ CaOthersSame(t) /\ CaEffect(t) /\ CaLooks(t)'
        /\ label'[t] = l
        /\ k[t] \in Cache!Present => obj'[t] = obj[t]
        /\ k[t] \notin Cache!Present => obj'[t] = 0
    <3> HIDE DEF l
    <3> QED BY <1>1, <1>2, <2>1, <2>2, CaPutCallGood
  <2>4. CaControl(t)'
    BY <1>1, <1>2, <1>4, <2>3 DEF CaControl, CaMem, CaPutting
  <2>5. CaPut(t)'
    BY <1>1, <1>4 DEF CaPut
  <2> QED BY <2>3, <2>4, <2>5 DEF CaGood, CaOwn
<1>5. CASE program = "test_mem" /\ Cache!MemPutCall(t)
  <2>1. /\ label' = [label EXCEPT ![t] = "loop"] /\ UNCHANGED filled
    BY <1>5 DEF Cache!MemPutCall, Cache!Goto
  <2>2. "loop" \in CaMem /\ "loop" \notin CaRemoved \cup {"check"}
    BY DEF CaMem, CaRemoved
  <2>3. /\ CaType' /\ CaOthersSame(t) /\ CaEffect(t) /\ CaLooks(t)'
        /\ label'[t] = "loop"
    BY <1>1, <1>2, <2>1, <2>2, CaPutCallGood
  <2>4. CaControl(t)'
    BY <1>1, <1>5, <2>3 DEF CaControl, CaMem, CaPutting
  <2>5. CaPut(t)'
    BY <1>1, <1>5 DEF CaPut
  <2> QED BY <2>3, <2>4, <2>5 DEF CaGood, CaOwn
<1> QED BY <1>3, <1>4, <1>5

LEMMA CaFreeGood ==
  ASSUME NEW t, CaStep(t),
         \/ program = "math_cache" /\ Cache!CachePutFailed(t)
         \/ program = "test_mem" /\ Cache!FillFailed(t)
         \/ Cache!RemoveFree(t)
  PROVE  CaGood(t)
<1>1. /\ CaControl(t) /\ UNCHANGED program /\ t \in Threads
      /\ label \in [Threads -> CaCache \cup CaMem]
      /\ res \in [Threads -> CaObjects] /\ obj \in [Threads -> CaObjects]
      /\ 0 \in CaObjects /\ Cache!Null = 0
      /\ program \in {"math_cache", "test_mem"}
  BY CaStepFacts, CaNames
<1>2. UNCHANGED <<objects, k, filled>>
  BY DEF Cache!CachePutFailed, Cache!FillFailed, Cache!RemoveFree,
         Cache!counters
<1>3. CASE \/ program = "math_cache" /\ Cache!CachePutFailed(t)
           \/ program = "test_mem" /\ Cache!FillFailed(t)
  <2> DEFINE l == IF program = "math_cache" THEN "remove" ELSE "fill"
  <2>1. /\ label' = [label EXCEPT ![t] = l] /\ Cache!Free(t, obj[t])
        /\ obj' = [obj EXCEPT ![t] = 0] /\ UNCHANGED res
        /\ label[t] \in {"put_free", "fill_free"}
    BY <1>1, <1>3
    DEF Cache!CachePutFailed, Cache!FillFailed, Cache!Goto, Cache!At
  <2>2. /\ inUse' = inUse \ {obj[t]} /\ inUse' \subseteq CacheObjects
        /\ mayRead' \in [CacheObjects -> SUBSET Threads]
        /\ CaDrops(t, obj[t]) /\ UNCHANGED holds
    BY <2>1, CaFreed
  <2>3. /\ l \in (IF program = "math_cache" THEN CaCache ELSE CaMem)
        /\ l \in {"remove", "fill"} /\ l \in CaCache \cup CaMem
    BY DEF CaCache, CaMem
  <2> HIDE DEF l
  <2>4. /\ label'[t] = l /\ label' \in [Threads -> CaCache \cup CaMem]
        /\ \A u \in Threads \ {t} : label'[u] = label[u] /\ obj'[u] = obj[u]
        /\ obj' \in [Threads -> CaObjects] /\ obj'[t] = 0
    BY <1>1, <2>1, <2>3
  <2>5. ~CaRemoving(t) /\ ~CaRemoving(t)'
    BY <2>1, <2>3, <2>4 DEF CaRemoving, CaRemoved
  <2>6. CaFreesObj(t)
    BY <1>2, <2>2, <2>4, <2>5 DEF CaFreesObj
  <2>7. CaType' /\ CaOthersSame(t)
    BY <1>1, <1>2, <2>1, <2>2, <2>4, CaStepFacts
    DEF CaType, CaOthersSame, CaSame
  <2>8. CaOwn(t)
    BY <1>1, <2>3, <2>4 DEF CaOwn, CaControl, CaPut, CaLooks, CaPutting
  <2> QED BY <2>6, <2>7, <2>8 DEF CaGood, CaEffect
<1>4. CASE Cache!RemoveFree(t)
  <2>1. /\ label' = [label EXCEPT ![t] = "loop"] /\ Cache!Free(t, res[t])
        /\ res' = [res EXCEPT ![t] = 0] /\ UNCHANGED obj
        /\ label[t] = "rem_free"
    BY <1>1, <1>4 DEF Cache!RemoveFree, Cache!Goto, Cache!At
  <2>2. /\ inUse' = inUse \ {res[t]} /\ inUse' \subseteq CacheObjects
        /\ mayRead' \in [CacheObjects -> SUBSET Threads]
        /\ CaDrops(t, res[t]) /\ UNCHANGED holds
    BY <2>1, CaFreed
  <2>3. /\ label'[t] = "loop" /\ label' \in [Threads -> CaCache \cup CaMem]
        /\ \A u \in Threads \ {t} : label'[u] = label[u] /\ res'[u] = res[u]
        /\ res' \in [Threads -> CaObjects]
    BY <1>1, <2>1 DEF CaCache
  <2>4. CaRemoving(t) /\ ~CaRemoving(t)'
    BY <2>1, <2>3 DEF CaRemoving, CaRemoved
  <2>5. CaFreesRes(t)
    BY <1>2, <2>1, <2>2, <2>4 DEF CaFreesRes
  <2>6. CaType' /\ CaOthersSame(t)
    BY <1>1, <1>2, <2>1, <2>2, <2>3, CaStepFacts
    DEF CaType, CaOthersSame, CaSame
  <2>7. CaControl(t)'
    BY <1>1, <2>1, <2>3 DEF CaControl, CaCache, CaMem, CaPutting
  <2>8. CaPut(t)' /\ CaLooks(t)'
    BY <2>3 DEF CaPut, CaLooks
  <2> QED BY <2>5, <2>6, <2>7, <2>8 DEF CaGood, CaOwn, CaEffect
<1> QED BY <1>3, <1>4

LEMMA CaRemoveGood ==
  ASSUME NEW t, CaStep(t),
         \/ program = "math_cache" /\ Cache!CacheRemove(t)
         \/ program = "test_mem" /\ Cache!MemRemove(t)
  PROVE  CaGood(t)
<1>1. /\ CaControl(t) /\ UNCHANGED program /\ t \in Threads
      /\ label \in [Threads -> CaCache \cup CaMem]
      /\ k \in [Threads -> CaKeys] /\ CacheKeys \subseteq CaKeys
      /\ res \in [Threads -> CaObjects] /\ 0 \in CaObjects
      /\ objects \in [CacheKeys -> CaObjects] /\ Cache!Null = 0
      /\ program \in {"math_cache", "test_mem"}
      /\ inUse \subseteq CacheObjects
  BY CaStepFacts, CaNames
<1>2. UNCHANGED <<obj, filled, inUse, mayRead, holds>>
  BY DEF Cache!CacheRemove, Cache!MemRemove, Cache!counters, Cache!memory
<1>3. \E c \in CacheKeys, l \in {"rem_check", "rem_free", "loop"} :
        /\ k' = [k EXCEPT ![t] = c] /\ Cache!RemoveCall(t, c)
        /\ label' = [label EXCEPT ![t] = l]
        /\ l = "loop" => objects[c] = 0
        /\ l # "loop" => objects[c] # 0
        /\ l \in (IF program = "math_cache" THEN CaCache ELSE CaMem)
  <2>1. CASE program = "math_cache" /\ Cache!CacheRemove(t)
    <3>1. PICK c \in CacheKeys :
            /\ k' = [k EXCEPT ![t] = c] /\ Cache!RemoveCall(t, c)
            /\ label' = [label EXCEPT ![t] =
                           IF c \in Cache!Present THEN "rem_check" ELSE "loop"]
      BY <2>1 DEF Cache!CacheRemove, Cache!Goto
    <3>2. c \in Cache!Present <=> objects[c] # 0
      BY CaNames
    <3> QED BY <2>1, <3>1, <3>2 DEF CaCache
  <2>2. CASE program = "test_mem" /\ Cache!MemRemove(t)
    <3>1. PICK c \in Cache!Present :
            k' = [k EXCEPT ![t] = c] /\ Cache!RemoveCall(t, c)
      BY <2>2 DEF Cache!MemRemove
    <3>2. c \in CacheKeys /\ objects[c] # 0
      BY CaNames
    <3>3. label' = [label EXCEPT ![t] = "rem_free"]
      BY <2>2 DEF Cache!MemRemove, Cache!Goto
    <3> QED BY <2>2, <3>1, <3>2, <3>3 DEF CaMem
  <2> QED BY <2>1, <2>2
<1>4. PICK c \in CacheKeys, l \in {"rem_check", "rem_free", "loop"} :
        /\ k' = [k EXCEPT ![t] = c] /\ Cache!RemoveCall(t, c)
        /\ label' = [label EXCEPT ![t] = l]
        /\ l = "loop" => objects[c] = 0
        /\ l # "loop" => objects[c] # 0
        /\ l \in (IF program = "math_cache" THEN CaCache ELSE CaMem)
  BY <1>3
<1>5. /\ res' = [res EXCEPT ![t] = objects[c]]
      /\ objects' = [objects EXCEPT ![c] = 0]
  BY <1>1, <1>4 DEF Cache!RemoveCall
<1>6. /\ label'[t] = l /\ label' \in [Threads -> CaCache \cup CaMem]
      /\ k' \in [Threads -> CaKeys] /\ k'[t] = c
      /\ res' \in [Threads -> CaObjects] /\ res'[t] = objects[c]
      /\ \A u \in Threads \ {t} :
           label'[u] = label[u] /\ res'[u] = res[u] /\ k'[u] = k[u]
      /\ objects' \in [CacheKeys -> CaObjects]
  BY <1>1, <1>4, <1>5
<1>7. CaType' /\ CaOthersSame(t)
  BY <1>1, <1>2, <1>6, CaStepFacts DEF CaType, CaOthersSame, CaSame
<1>8. ~CaRemoving(t) /\ label[t] \notin CaPutting
  BY <1>1
  DEF CaRemoving, CaRemoved, CaPutting, Cache!CacheRemove, Cache!MemRemove,
      Cache!At
<1>9. CaEffect(t)
  <2>1. CASE l = "loop"
    <3>1. objects' = objects
      BY <1>1, <1>4, <1>5, <2>1
    <3>2. ~CaRemoving(t)'
      BY <1>6, <2>1 DEF CaRemoving, CaRemoved
    <3> QED BY <1>2, <1>8, <3>1, <3>2 DEF CaEffect, CaStill
  <2>2. CASE l # "loop"
    <3>1. CaRemoving(t)'
      BY <1>6, <2>2 DEF CaRemoving, CaRemoved
    <3>2. CaRemoves(t)
      BY <1>2, <1>5, <1>6, <1>8, <3>1 DEF CaRemoves
    <3> QED BY <3>2 DEF CaEffect
  <2> QED BY <2>1, <2>2
<1>10. CaControl(t)'
  <2>1. l \notin CaPutting \cup {"fill", "barrier", "check", "alloc", "fill_put"}
    BY DEF CaPutting
  <2>2. program = "math_cache" => obj[t] = 0
    BY <1>1, <1>8 DEF CaControl
  <2> QED BY <1>1, <1>2, <1>4, <1>6, <2>1, <2>2 DEF CaControl
<1>11. CaPut(t)'
  BY <1>6 DEF CaPut
<1>12. CaLooks(t)'
  <2>1. CASE l # "rem_check"
    BY <1>6, <2>1 DEF CaLooks
  <2>2. CASE l = "rem_check"
    <3>1. objects[c] # 0 /\ objects[c] \in inUse /\ program = "math_cache"
      BY <1>1, <1>4, <2>2, CaInUse DEF CaMem
    <3>2. holds[objects[c]] = c
      BY <3>1, CaStepFacts DEF CaEntry
    <3> QED BY <1>1, <1>2, <1>6, <3>1, <3>2 DEF CaLooks
  <2> QED BY <2>1, <2>2
<1> QED BY <1>7, <1>9, <1>10, <1>11, <1>12 DEF CaGood, CaOwn

LEMMA CaQuietGood ==
  ASSUME NEW t, CaStep(t),
         \/ program = "test_mem" /\ Cache!Filled(t)
         \/ program = "test_mem" /\ Cache!MemPut(t) /\ obj[t] # 0
         \/ Cache!Exit(t)
  PROVE  CaGood(t)
<1>1. /\ CaControl(t) /\ UNCHANGED program /\ t \in Threads
      /\ label \in [Threads -> CaCache \cup CaMem]
      /\ k \in [Threads -> CaKeys] /\ Cache!Null = 0
      /\ program \in {"math_cache", "test_mem"}
  BY CaStepFacts, CaNames
<1>2. UNCHANGED <<objects, obj, res, filled, inUse, mayRead, holds>>
  BY <1>1
  DEF Cache!Filled, Cache!MemPut, Cache!Exit, Cache!counters, Cache!memory
<1>3. k' = k \/ \E c \in CacheKeys : k' = [k EXCEPT ![t] = c]
  BY DEF Cache!Filled, Cache!MemPut, Cache!Exit
<1>4. \E l \in {"barrier", "loop", "put", "done"} :
        /\ label' = [label EXCEPT ![t] = l]
        /\ l = "put" => obj[t] # 0 /\ k'[t] \in CacheKeys /\ program = "test_mem"
        /\ l = "barrier" => label[t] = "fill"
        /\ l # "done" => program = "test_mem"
        /\ l = "done" => label[t] = "loop"
  <2>1. CASE program = "test_mem" /\ Cache!Filled(t)
    BY <2>1 DEF Cache!Filled, Cache!Goto, Cache!At
  <2>2. CASE program = "test_mem" /\ Cache!MemPut(t) /\ obj[t] # 0
    BY <1>1, <2>2 DEF Cache!MemPut, Cache!Goto, Cache!At
  <2>3. CASE Cache!Exit(t)
    BY <2>3 DEF Cache!Exit, Cache!Goto, Cache!At
  <2> QED BY <2>1, <2>2, <2>3
<1>5. PICK l \in {"barrier", "loop", "put", "done"} :
        /\ label' = [label EXCEPT ![t] = l]
        /\ l = "put" => obj[t] # 0 /\ k'[t] \in CacheKeys /\ program = "test_mem"
        /\ l = "barrier" => label[t] = "fill"
        /\ l # "done" => program = "test_mem"
        /\ l = "done" => label[t] = "loop"
  BY <1>4
<1>6. l \in CaCache \cup CaMem /\ label'[t] = l
  BY <1>1, <1>5 DEF CaCache, CaMem
<1>7. ~CaRemoving(t) /\ ~CaRemoving(t)' /\ label[t] \notin CaPutting
  BY <1>6
  DEF CaRemoving, CaRemoved, CaPutting, Cache!Filled, Cache!MemPut,
      Cache!Exit, Cache!At
<1>8. CaType' /\ CaOthersSame(t) /\ CaEffect(t)
  BY <1>2, <1>3, <1>5, <1>6, <1>7, CaLookGood
<1>9. CaControl(t)'
  <2>1. program = "math_cache" => obj[t] = 0
    BY <1>1, <1>7 DEF CaControl
  <2>2. l = "barrier" => obj[t] = 0
    BY <1>1, <1>5, <1>7 DEF CaControl
  <2> QED
    BY <1>1, <1>2, <1>5, <1>6, <2>1, <2>2
    DEF CaControl, CaCache, CaMem, CaPutting
<1>10. CaPut(t)' /\ CaLooks(t)'
  BY <1>1, <1>5, <1>6 DEF CaPut, CaLooks
<1> QED BY <1>8, <1>9, <1>10 DEF CaGood, CaOwn

CaVars == <<program, label, objects, res, filled, inUse, mayRead, holds, k, obj>>

LEMMA CaStutter ==
  ASSUME CaInv, UNCHANGED CaVars
  PROVE  CaInv'
<1>1. /\ UNCHANGED <<program, label, objects, res, filled>>
      /\ UNCHANGED <<inUse, mayRead, holds, k, obj>>
  BY DEF CaVars
<1>2. CaType'
  BY <1>1 DEF CaInv, CaType
<1>3. CaAt' = CaAt
  BY <1>1 DEF CaAt, CaPlaces
<1>4. CaOnce'
  BY <1>1, <1>3 DEF CaInv, CaOnce, Once, CaPlaces
<1>5. \A t \in Threads : CaControl(t)' /\ CaPut(t)' /\ CaLooks(t)'
  BY <1>1 DEF CaInv, CaControl, CaPut, CaLooks
<1>6. \A c \in CacheKeys : CaEntry(c)'
  BY <1>1 DEF CaInv, CaEntry
<1> QED BY <1>2, <1>4, <1>5, <1>6 DEF CaInv

LEMMA CaNextInv ==
  ASSUME CaInv, Cache!CNext
  PROVE  CaInv'
<1>1. UNCHANGED program
  BY DEF Cache!CNext
<1>2. CASE Cache!Stop
  BY <1>1, <1>2, CaStutter DEF Cache!Stop, Cache!memory, CaVars
<1>3. ASSUME NEW t \in Threads,
             \/ program = "math_cache" /\ Cache!MathCache(t)
             \/ program = "test_mem" /\ Cache!TestMem(t)
             \/ Cache!RemoveFree(t) \/ Cache!Exit(t)
      PROVE  CaInv'
  <2>1. CaStep(t)
    BY <1>1 DEF CaStep
  <2>2. CASE program = "math_cache" /\ Cache!MathCache(t)
    <3>1. CaGood(t)
      BY <2>1, <2>2, CaGetGood, CaAllocGood, CaPutGood, CaFreeGood,
         CaRemoveGood
      DEF Cache!MathCache
    <3> QED BY <2>1, <3>1, CaGoodInv
  <2>3. CASE program = "test_mem" /\ Cache!TestMem(t)
    <3>1. CaGood(t)
      BY <2>1, <2>3, CaAllocGood, CaPutGood, CaFreeGood, CaRemoveGood,
         CaQuietGood
      DEF Cache!TestMem
    <3> QED BY <2>1, <3>1, CaGoodInv
  <2>4. CASE Cache!RemoveFree(t) \/ Cache!Exit(t)
    <3>1. CaGood(t)
      BY <2>1, <2>4, CaFreeGood, CaQuietGood
    <3> QED BY <2>1, <3>1, CaGoodInv
  <2> QED BY <1>3, <2>2, <2>3, <2>4
<1> QED BY <1>2, <1>3 DEF Cache!CNext

-----------------------------------------------------------------------------
(* math_cache.c and test_mem.c: the invariant holds at first, and says     *)
(* what is checked.                                                        *)

LEMMA CaInitInv ==
  ASSUME Cache!CInit
  PROVE  CaInv
<1>1. /\ program \in {"math_cache", "test_mem"}
      /\ label = [t \in Threads |->
                    IF program = "test_mem" THEN "fill" ELSE "loop"]
      /\ objects = [c \in CacheKeys |-> 0]
      /\ k = [t \in Threads |-> 0] /\ obj = [t \in Threads |-> 0]
      /\ res = [t \in Threads |-> 0] /\ filled = [t \in Threads |-> 0]
      /\ inUse = {} /\ mayRead = [o \in CacheObjects |-> {}]
      /\ holds = [o \in CacheObjects |-> 0]
  BY CaNames DEF Cache!CInit, Cache!MemoryInit
<1>2. label \in [Threads -> CaCache \cup CaMem]
  BY <1>1 DEF CaCache, CaMem
<1>3. CaType
  BY <1>1, <1>2, CaNames DEF CaType
<1>4. \A t \in Threads : CaControl(t) /\ CaPut(t) /\ CaLooks(t)
  BY <1>1 DEF CaControl, CaPut, CaLooks, CaPutting, CaCache, CaMem
<1>5. \A c \in CacheKeys : CaEntry(c)
  BY <1>1 DEF CaEntry
<1>6. CaOnce
  <2>1. ASSUME NEW p \in CaPlaces PROVE CaAt[p] = 0
    <3>1. CASE \E t \in Threads : p = <<"obj", t>> \/ p = <<"rem", t>>
      BY <1>1, <3>1, CaPlaceFacts
    <3>2. CASE \E c \in CacheKeys : p = <<"key", c>>
      <4>1. PICK c \in CacheKeys : p = <<"key", c>>
        BY <3>2
      <4>2. CaAt[<<"key", c>>] = 0
        BY <1>1, CaPlaceFacts
      <4> QED BY <4>1, <4>2
    <3> QED BY <3>1, <3>2, CaPlaceOne
  <2>2. CaAt \in [CaPlaces -> CacheObjects \cup {0}]
    BY <2>1, CaPlaceFacts
  <2> QED BY <1>1, <2>1, <2>2, CaNames DEF CaOnce, Once
<1> QED BY <1>3, <1>4, <1>5, <1>6 DEF CaInv

LEMMA CaInvTypeOK ==
  ASSUME CaInv
  PROVE  Cache!CTypeOK
BY CaNames DEF CaInv, CaType, CaObjects, CaKeys, Cache!CTypeOK

LEMMA CaInvLooks ==
  ASSUME CaInv
  PROVE  Cache!LooksRight
BY DEF CaInv, CaLooks, Cache!LooksRight

LEMMA CaCardinality ==
  ASSUME NEW S
  PROVE  Cache!Cardinality(S) = Cardinality(S)
BY DEF Cache!Cardinality, Cardinality

LEMMA CaInvOnce ==
  ASSUME CaInv
  PROVE  Cache!CacheObjectsOnce
<1>1. CaType /\ CaOnce /\ Once(CaAt, CaPlaces, inUse, CacheObjects)
  BY DEF CaInv, CaOnce
<1> SUFFICES ASSUME NEW o \in CacheObjects
             PROVE  Cache!CachePlaces(o) = IF o \in inUse THEN 1 ELSE 0
  BY DEF Cache!CacheObjectsOnce
<1> DEFINE A == {t \in Threads : obj[t] = o}
           B == {c \in Cache!Present : objects[c] = o}
           R == {t \in Threads : /\ label[t] \in {"rem_check", "rem_free"}
                              /\ res[t] = o}
<1>2. o # 0
  BY CaNames
<1>4. B = {c \in CacheKeys : objects[c] # 0 /\ objects[c] = o}
      /\ R = {t \in Threads : CaRemoving(t) /\ res[t] = o}
  BY CaNames DEF CaRemoving, CaRemoved
<1>5. /\ \A p, q \in CaPlaces : CaAt[p] = CaAt[q] /\ CaAt[p] # 0 => p = q
      /\ o \in inUse <=> \E p \in CaPlaces : CaAt[p] = o
  BY <1>1 DEF Once
<1>6. /\ \A t \in A : <<"obj", t>> \in CaPlaces /\ CaAt[<<"obj", t>>] = o
      /\ \A t \in R : <<"rem", t>> \in CaPlaces /\ CaAt[<<"rem", t>>] = o
      /\ \A j \in B : <<"key", j>> \in CaPlaces /\ CaAt[<<"key", j>>] = o
  BY <1>4, CaPlaceFacts
<1>7. o \in inUse <=> ~(A = {} /\ B = {} /\ R = {})
  <2>1. ASSUME NEW p \in CaPlaces, CaAt[p] = o
        PROVE  ~(A = {} /\ B = {} /\ R = {})
    <3>1. CASE \E t \in Threads : p = <<"obj", t>>
      <4>1. PICK t \in Threads : p = <<"obj", t>>
        BY <3>1
      <4>2. t \in A
        BY <2>1, <4>1, CaPlaceFacts
      <4> QED BY <4>2
    <3>2. CASE \E t \in Threads : p = <<"rem", t>>
      <4>1. PICK t \in Threads : p = <<"rem", t>>
        BY <3>2
      <4>2. t \in R
        BY <1>2, <1>4, <2>1, <4>1, CaPlaceFacts
      <4> QED BY <4>2
    <3>3. CASE \E j \in CacheKeys : p = <<"key", j>>
      <4>1. PICK j \in CacheKeys : p = <<"key", j>>
        BY <3>3
      <4>2. j \in B
        BY <1>2, <1>4, <2>1, <4>1, CaPlaceFacts
      <4> QED BY <4>2
    <3> QED BY <3>1, <3>2, <3>3, CaPlaceOne
  <2> QED BY <1>5, <1>6, <2>1
<1> HIDE DEF A, B, R
<1>8. \A t, u \in A : t = u
  <2>1. ASSUME NEW t \in A, NEW u \in A PROVE t = u
    <3>1. <<"obj", t>> = <<"obj", u>>
      BY <1>2, <1>5, <1>6
    <3> QED BY <3>1
  <2> QED BY <2>1
<1>9. \A t, u \in R : t = u
  <2>1. ASSUME NEW t \in R, NEW u \in R PROVE t = u
    <3>1. <<"rem", t>> = <<"rem", u>>
      BY <1>2, <1>5, <1>6
    <3> QED BY <3>1
  <2> QED BY <2>1
<1>10. \A j, c \in B : j = c
  <2>1. ASSUME NEW j \in B, NEW c \in B PROVE j = c
    <3>1. <<"key", j>> = <<"key", c>>
      BY <1>2, <1>5, <1>6
    <3> QED BY <3>1
  <2> QED BY <2>1
<1>11. /\ A = {} \/ B = {}
       /\ A = {} \/ R = {}
       /\ B = {} \/ R = {}
  <2>1. ASSUME NEW t \in A, NEW j \in B PROVE FALSE
    <3>1. <<"obj", t>> = <<"key", j>>
      BY <1>2, <1>5, <1>6
    <3> QED BY <3>1
  <2>2. ASSUME NEW t \in A, NEW u \in R PROVE FALSE
    <3>1. <<"obj", t>> = <<"rem", u>>
      BY <1>2, <1>5, <1>6
    <3> QED BY <3>1
  <2>3. ASSUME NEW j \in B, NEW u \in R PROVE FALSE
    <3>1. <<"key", j>> = <<"rem", u>>
      BY <1>2, <1>5, <1>6
    <3> QED BY <3>1
  <2> QED BY <2>1, <2>2, <2>3
<1>12. Cardinality(A) + Cardinality(B) + Cardinality(R)
         = IF A = {} /\ B = {} /\ R = {} THEN 0 ELSE 1
  BY <1>8, <1>9, <1>10, <1>11, PlacesCounted
<1>13. Cache!CachePlaces(o) = Cardinality(A) + Cardinality(B) + Cardinality(R)
  BY CaCardinality DEF Cache!CachePlaces, A, B, R
<1> QED BY <1>7, <1>12, <1>13

-----------------------------------------------------------------------------
(* math_cache.c and test_mem.c: the counts.                                *)

CaStored == {c \in CacheKeys : objects[c] # 0}
CaTaken == {t \in Threads : CaRemoving(t)}

(* The table holds what the fill and the puts have put there, and the      *)
(* removes have not taken, be they counted or not.                         *)
CaCounted ==
  /\ nputs \in Nat /\ nrems \in Nat
  /\ Cardinality(CaStored) + Cardinality(CaTaken) + nrems
       = Total(filled, Threads) + nputs

CaKeeps(t) ==
  /\ UNCHANGED <<objects, filled, nputs, nrems>>
  /\ CaRemoving(t)' <=> CaRemoving(t)
CaStores(t) ==
  /\ CaRemoving(t)' <=> CaRemoving(t)
  /\ \E c \in CacheKeys, o \in CacheObjects :
       objects[c] = 0 /\ objects' = [objects EXCEPT ![c] = o]
  /\ \/ nputs' = nputs + 1 /\ UNCHANGED <<filled, nrems>>
     \/ filled' = [filled EXCEPT ![t] = @ + 1] /\ UNCHANGED <<nputs, nrems>>
CaTakes(t) ==
  /\ ~CaRemoving(t) /\ CaRemoving(t)'
  /\ \E c \in CacheKeys :
       objects[c] # 0 /\ objects' = [objects EXCEPT ![c] = 0]
  /\ UNCHANGED <<filled, nputs, nrems>>
CaCounts(t) ==
  /\ CaRemoving(t) /\ ~CaRemoving(t)'
  /\ nrems' = nrems + 1 /\ UNCHANGED <<objects, filled, nputs>>
CaCall(t) == CaKeeps(t) \/ CaStores(t) \/ CaTakes(t) \/ CaCounts(t)

(* A step of t counts as one of these.                                     *)
LEMMA CaGoto ==
  ASSUME NEW t \in Threads, NEW l, label \in [Threads -> CaCache \cup CaMem],
         Cache!Goto(t, l)
  PROVE  /\ CaRemoving(t)' <=> l \in CaRemoved
         /\ \A u \in Threads \ {t} : CaRemoving(u)' <=> CaRemoving(u)
BY DEF Cache!Goto, CaRemoving

CaLooking(t) ==
  \/ Cache!CacheGet(t) \/ Cache!CacheCheck(t) \/ Cache!CacheMiss(t)
  \/ Cache!CachePutFailed(t) \/ Cache!CacheRemoveCheck(t)
  \/ Cache!Fill(t) \/ Cache!FillFailed(t) \/ Cache!Filled(t)
  \/ Cache!MemPut(t) \/ Cache!Exit(t)

LEMMA CaLookingCall ==
  ASSUME NEW t, CaStep(t), CaLooking(t)
  PROVE  CaCall(t) /\ \A u \in Threads \ {t} : CaRemoving(u)' <=> CaRemoving(u)
<1>1. /\ t \in Threads /\ label \in [Threads -> CaCache \cup CaMem]
  BY CaStepFacts
<1>2. /\ UNCHANGED <<objects, filled, nputs, nrems>>
  BY DEF CaLooking, Cache!CacheGet, Cache!CacheCheck, Cache!CacheMiss,
     Cache!CachePutFailed, Cache!CacheRemoveCheck, Cache!Fill,
     Cache!FillFailed, Cache!Filled, Cache!MemPut, Cache!Exit, Cache!New,
     Cache!counters
<1>3. \E l \in CaCache \cup CaMem :
        Cache!Goto(t, l) /\ (l \in CaRemoved <=> CaRemoving(t))
  <2>1. CASE Cache!CacheGet(t)
    <3>1. label[t] = "loop" /\ \E l \in {"check", "alloc"} : Cache!Goto(t, l)
      BY <2>1 DEF Cache!CacheGet, Cache!At
    <3> QED BY <3>1 DEF CaRemoving, CaRemoved, CaCache
  <2>2. CASE Cache!CacheCheck(t) \/ Cache!CacheMiss(t)
    BY <2>2
    DEF Cache!CacheCheck, Cache!CacheMiss, Cache!New, Cache!At, CaRemoving,
        CaRemoved, CaCache
  <2>3. CASE Cache!CachePutFailed(t) \/ Cache!CacheRemoveCheck(t)
    BY <2>3
    DEF Cache!CachePutFailed, Cache!CacheRemoveCheck, Cache!At, CaRemoving,
        CaRemoved, CaCache
  <2>4. CASE Cache!Fill(t) \/ Cache!FillFailed(t) \/ Cache!Filled(t)
    BY <2>4
    DEF Cache!Fill, Cache!FillFailed, Cache!Filled, Cache!New, Cache!At,
        CaRemoving, CaRemoved, CaMem
  <2>5. CASE Cache!MemPut(t) \/ Cache!Exit(t)
    BY <2>5
    DEF Cache!MemPut, Cache!Exit, Cache!New, Cache!At, CaRemoving,
        CaRemoved, CaMem
  <2> QED BY <2>1, <2>2, <2>3, <2>4, <2>5 DEF CaLooking
<1> QED BY <1>1, <1>2, <1>3, CaGoto DEF CaCall, CaKeeps

LEMMA CaPuttingCall ==
  ASSUME NEW t, CaStep(t),
         \/ Cache!CachePut(t) \/ Cache!FillPut(t) \/ Cache!MemPutCall(t)
  PROVE  CaCall(t) /\ \A u \in Threads \ {t} : CaRemoving(u)' <=> CaRemoving(u)
<1>1. /\ t \in Threads /\ label \in [Threads -> CaCache \cup CaMem]
      /\ CaControl(t) /\ program \in {"math_cache", "test_mem"}
      /\ obj[t] \in CacheObjects \cup {0} /\ k \in [Threads -> CaKeys]
      /\ Cache!Present = {c \in CacheKeys : objects[c] # 0}
  BY CaStepFacts, CaNames DEF CaObjects
<1>2. label[t] \in CaPutting /\ ~CaRemoving(t) /\ Cache!PutCall(t)
  BY DEF Cache!CachePut, Cache!FillPut, Cache!MemPutCall, Cache!At,
     CaRemoving, CaRemoved, CaPutting
<1>3. obj[t] \in CacheObjects /\ k[t] \in CacheKeys
  BY <1>1, <1>2 DEF CaControl
<1>4. \E l \in {"put_free", "remove", "fill_free", "fill", "loop"} :
        Cache!Goto(t, l)
  BY DEF Cache!CachePut, Cache!FillPut, Cache!MemPutCall
<1>5. /\ ~CaRemoving(t)'
      /\ \A u \in Threads \ {t} : CaRemoving(u)' <=> CaRemoving(u)
  BY <1>1, <1>4, CaGoto DEF CaRemoved
<1>6. CASE k[t] \in Cache!Present
  <2>1. UNCHANGED <<objects, filled, nputs, nrems>>
    BY <1>6
    DEF Cache!CachePut, Cache!FillPut, Cache!MemPutCall, Cache!PutCall
  <2> QED BY <1>2, <1>5, <2>1 DEF CaCall, CaKeeps
<1>7. CASE k[t] \notin Cache!Present
  <2>1. /\ objects[k[t]] = 0
        /\ objects' = [objects EXCEPT ![k[t]] = obj[t]]
    BY <1>1, <1>2, <1>3, <1>7 DEF Cache!PutCall
  <2>2. \/ nputs' = nputs + 1 /\ UNCHANGED <<filled, nrems>>
        \/ filled' = [filled EXCEPT ![t] = @ + 1] /\ UNCHANGED <<nputs, nrems>>
    BY <1>7 DEF Cache!CachePut, Cache!FillPut, Cache!MemPutCall
  <2> QED BY <1>2, <1>3, <1>5, <2>1, <2>2 DEF CaCall, CaStores
<1> QED BY <1>6, <1>7

LEMMA CaRemovingCall ==
  ASSUME NEW t, CaStep(t),
         \/ Cache!CacheRemove(t) \/ Cache!MemRemove(t) \/ Cache!RemoveFree(t)
  PROVE  CaCall(t) /\ \A u \in Threads \ {t} : CaRemoving(u)' <=> CaRemoving(u)
<1>1. /\ t \in Threads /\ label \in [Threads -> CaCache \cup CaMem]
      /\ objects \in [CacheKeys -> CaObjects] /\ Cache!Null = 0
      /\ Cache!Present = {c \in CacheKeys : objects[c] # 0}
  BY CaStepFacts, CaNames
<1>2. CASE Cache!CacheRemove(t) \/ Cache!MemRemove(t)
  <2>1. ~CaRemoving(t) /\ UNCHANGED <<filled, nputs, nrems>>
    BY <1>2
    DEF Cache!CacheRemove, Cache!MemRemove, Cache!At, CaRemoving, CaRemoved,
        Cache!counters
  <2>2. \E c \in CacheKeys, l \in {"rem_check", "rem_free", "loop"} :
          /\ Cache!RemoveCall(t, c) /\ Cache!Goto(t, l)
          /\ l = "loop" <=> objects[c] = 0
    <3>1. CASE Cache!CacheRemove(t)
      <4>1. PICK c \in CacheKeys :
              /\ Cache!RemoveCall(t, c)
              /\ Cache!Goto(t, IF c \in Cache!Present THEN "rem_check"
                                                      ELSE "loop")
        BY <3>1 DEF Cache!CacheRemove
      <4>2. CASE objects[c] = 0
        BY <1>1, <4>1, <4>2
      <4>3. CASE objects[c] # 0
        BY <1>1, <4>1, <4>3
      <4> QED BY <4>2, <4>3
    <3>2. CASE Cache!MemRemove(t)
      BY <1>1, <3>2 DEF Cache!MemRemove
    <3> QED BY <1>2, <3>1, <3>2
  <2>3. PICK c \in CacheKeys, l \in {"rem_check", "rem_free", "loop"} :
          /\ Cache!RemoveCall(t, c) /\ Cache!Goto(t, l)
          /\ l = "loop" <=> objects[c] = 0
    BY <2>2
  <2>4. objects' = [objects EXCEPT ![c] = 0]
    BY <1>1, <2>3 DEF Cache!RemoveCall
  <2>5. /\ CaRemoving(t)' <=> l # "loop"
        /\ \A u \in Threads \ {t} : CaRemoving(u)' <=> CaRemoving(u)
    BY <1>1, <2>3, CaGoto DEF CaRemoved
  <2>6. CASE objects[c] = 0
    <3>1. objects' = objects
      BY <1>1, <2>4, <2>6
    <3> QED BY <2>1, <2>3, <2>5, <2>6, <3>1 DEF CaCall, CaKeeps
  <2>7. CASE objects[c] # 0
    BY <2>1, <2>3, <2>4, <2>5, <2>7 DEF CaCall, CaTakes
  <2> QED BY <2>6, <2>7
<1>3. CASE Cache!RemoveFree(t)
  <2>1. /\ CaRemoving(t) /\ Cache!Goto(t, "loop") /\ nrems' = nrems + 1
        /\ UNCHANGED <<objects, filled, nputs>>
    BY <1>3 DEF Cache!RemoveFree, Cache!At, CaRemoving, CaRemoved
  <2> QED BY <1>1, <2>1, CaGoto DEF CaRemoved, CaCall, CaCounts
<1> QED BY <1>2, <1>3

LEMMA CaFinite ==
  /\ IsFiniteSet(CaStored) /\ IsFiniteSet(CaTaken) /\ IsFiniteSet(Threads)
  /\ Cardinality(CaStored) \in Nat /\ Cardinality(CaTaken) \in Nat
<1>1. CaStored \subseteq CacheKeys /\ CaTaken \subseteq Threads
  BY DEF CaStored, CaTaken
<1> QED BY <1>1, BenchAssumption, FS_Subset, FS_CardinalityType

LEMMA CaFilledNext ==
  Total(filled, Threads)' = Total(filled', Threads)
BY DEF Total, MapThenSumSet, MapThenFoldSet

LEMMA CaCountedStep ==
  ASSUME NEW t, CaStep(t), CaCounted, CaCall(t),
         \A u \in Threads \ {t} : CaRemoving(u)' <=> CaRemoving(u)
  PROVE  CaCounted'
<1>1. /\ t \in Threads /\ objects \in [CacheKeys -> CaObjects]
      /\ filled \in [Threads -> Int] /\ 0 \notin CacheObjects
      /\ Total(filled, Threads) \in Int /\ nputs \in Nat /\ nrems \in Nat
  <2>1. filled \in [Threads -> Int]
    BY CaStepFacts, CaNames
  <2> QED BY <2>1, CaStepFacts, CaNames, CaFinite, TotalSame DEF CaCounted
<1> DEFINE v == Cardinality(CaStored)
           w == Cardinality(CaTaken)
           s == Total(filled, Threads)
           v2 == Cardinality(CaStored')
           w2 == Cardinality(CaTaken')
           s2 == Total(filled', Threads)
<1>2. /\ v \in Nat /\ w \in Nat /\ s \in Int /\ v + w + nrems = s + nputs
      /\ nputs \in Nat /\ nrems \in Nat
  BY <1>1, CaFinite DEF CaCounted
<1>3. CaCounted' <=> /\ nputs' \in Nat /\ nrems' \in Nat
                     /\ v2 + w2 + nrems' = s2 + nputs'
  BY CaFilledNext DEF CaCounted
<1>4. CASE CaKeeps(t)
  <2>1. CaStored' = CaStored /\ CaTaken' = CaTaken
    BY <1>4 DEF CaKeeps, CaStored, CaTaken
  <2>2. v2 = v /\ w2 = w /\ s2 = s /\ nputs' = nputs /\ nrems' = nrems
    BY <1>4, <2>1 DEF CaKeeps
  <2> HIDE DEF v, w, s, v2, w2, s2
  <2> QED BY <1>2, <1>3, <2>2
<1>5. CASE CaStores(t)
  <2>1. PICK c \in CacheKeys, o \in CacheObjects :
          objects[c] = 0 /\ objects' = [objects EXCEPT ![c] = o]
    BY <1>5 DEF CaStores
  <2>2. /\ CaStored' = CaStored \cup {c} /\ c \notin CaStored
        /\ CaTaken' = CaTaken
    BY <1>1, <1>5, <2>1 DEF CaStores, CaStored, CaTaken
  <2>3. v2 = v + 1 /\ w2 = w
    BY <2>2, CaFinite, SizeGrown
  <2>4. /\ nrems' = nrems
        /\ \/ nputs' = nputs + 1 /\ s2 = s
           \/ nputs' = nputs /\ s2 = s + 1
    <3>1. CASE nputs' = nputs + 1 /\ UNCHANGED <<filled, nrems>>
      BY <3>1
    <3>2. CASE filled' = [filled EXCEPT ![t] = @ + 1] /\ UNCHANGED <<nputs, nrems>>
      <4>1. /\ filled'[t] = filled[t] + 1
            /\ \A u \in Threads \ {t} : filled'[u] = filled[u]
        BY <1>1, <3>2
      <4>2. Total(filled', Threads) = Total(filled, Threads) + 1
        BY <1>1, <4>1, CaFinite, TotalChanged
      <4> QED BY <3>2, <4>2
    <3> QED BY <1>5, <3>1, <3>2 DEF CaStores
  <2> HIDE DEF v, w, s, v2, w2, s2
  <2> QED BY <1>2, <1>3, <2>3, <2>4
<1>6. CASE CaTakes(t)
  <2>1. PICK c \in CacheKeys :
          objects[c] # 0 /\ objects' = [objects EXCEPT ![c] = 0]
    BY <1>6 DEF CaTakes
  <2>2. /\ CaStored' = CaStored \ {c} /\ c \in CaStored
        /\ CaTaken' = CaTaken \cup {t} /\ t \notin CaTaken
    BY <1>1, <1>6, <2>1 DEF CaTakes, CaStored, CaTaken
  <2>3. v2 + 1 = v /\ w2 = w + 1 /\ v2 \in Nat
    BY <2>2, CaFinite, SizeGrown, SizeLost
  <2>4. nputs' = nputs /\ nrems' = nrems /\ s2 = s
    BY <1>6 DEF CaTakes
  <2> HIDE DEF v, w, s, v2, w2, s2
  <2> QED BY <1>2, <1>3, <2>3, <2>4
<1>7. CASE CaCounts(t)
  <2>1. /\ CaStored' = CaStored
        /\ CaTaken' = CaTaken \ {t} /\ t \in CaTaken
    BY <1>1, <1>7 DEF CaCounts, CaStored, CaTaken
  <2>2. v2 = v /\ w2 + 1 = w /\ w2 \in Nat
    BY <2>1, CaFinite, SizeLost
  <2>3. nputs' = nputs /\ nrems' = nrems + 1 /\ s2 = s
    BY <1>7 DEF CaCounts
  <2> HIDE DEF v, w, s, v2, w2, s2
  <2> QED BY <1>2, <1>3, <2>2, <2>3
<1> QED BY <1>4, <1>5, <1>6, <1>7 DEF CaCall

LEMMA CaCountedInit ==
  ASSUME Cache!CInit
  PROVE  CaCounted
<1>1. /\ objects = [c \in CacheKeys |-> 0] /\ nputs = 0 /\ nrems = 0
      /\ label = [t \in Threads |->
                    IF program = "test_mem" THEN "fill" ELSE "loop"]
      /\ filled = [t \in Threads |-> 0]
  BY CaNames DEF Cache!CInit
<1>2. CaStored = {} /\ CaTaken = {}
  BY <1>1 DEF CaStored, CaTaken, CaRemoving, CaRemoved
<1>3. Total(filled, Threads) = 0
  BY <1>1, CaFinite, TotalZero
<1>4. Cardinality({}) = 0
  BY FS_EmptySet
<1> QED BY <1>1, <1>2, <1>3, <1>4 DEF CaCounted

LEMMA CaCountedNext ==
  ASSUME CaInv, CaCounted, Cache!CNext
  PROVE  CaCounted'
<1>1. CASE Cache!Stop
  <2>1. UNCHANGED <<label, objects, filled, nputs, nrems>>
    BY <1>1 DEF Cache!Stop
  <2>2. CaStored' = CaStored /\ CaTaken' = CaTaken
    BY <2>1 DEF CaStored, CaTaken, CaRemoving
  <2> QED BY <2>1, <2>2, CaFilledNext DEF CaCounted
<1>2. ASSUME NEW t \in Threads,
             \/ Cache!MathCache(t) \/ Cache!TestMem(t)
             \/ Cache!RemoveFree(t) \/ Cache!Exit(t)
      PROVE  CaCounted'
  <2>1. CaStep(t)
    BY DEF CaStep, Cache!CNext
  <2>2. \/ CaLooking(t)
        \/ Cache!CachePut(t) \/ Cache!FillPut(t) \/ Cache!MemPutCall(t)
        \/ Cache!CacheRemove(t) \/ Cache!MemRemove(t) \/ Cache!RemoveFree(t)
    BY <1>2 DEF CaLooking, Cache!MathCache, Cache!TestMem
  <2>3. CaCall(t) /\ \A u \in Threads \ {t} : CaRemoving(u)' <=> CaRemoving(u)
    BY <2>1, <2>2, CaLookingCall, CaPuttingCall, CaRemovingCall
  <2> QED BY <2>1, <2>3, CaCountedStep
<1> QED BY <1>1, <1>2 DEF Cache!CNext

LEMMA CaInvCounted ==
  ASSUME CaInv, CaCounted
  PROVE  Cache!CacheCounted
<1>1. /\ Cache!Present = CaStored
      /\ {t \in Threads : label[t] \in {"rem_check", "rem_free"}} = CaTaken
  BY CaNames DEF CaStored, CaTaken, CaRemoving, CaRemoved
<1>2. Cache!MapThenSumSet(LAMBDA t : filled[t], Threads)
        = Total(filled, Threads)
  BY DEF Total, MapThenSumSet, MapThenFoldSet, Cache!MapThenSumSet,
     Cache!MapThenFoldSet
<1>3. /\ Cache!Cardinality(CaStored) = Cardinality(CaStored)
      /\ Cache!Cardinality(CaTaken) = Cardinality(CaTaken)
  BY CaCardinality
<1>4. /\ Cardinality(CaStored) + Cardinality(CaTaken) + nrems
           = Total(filled, Threads) + nputs
      /\ nputs \in Nat /\ nrems \in Nat /\ Cardinality(CaStored) \in Nat
      /\ Cardinality(CaTaken) \in Nat /\ Total(filled, Threads) \in Int
  <2>1. filled \in [Threads -> Int]
    BY CaNames DEF CaInv, CaType
  <2> QED BY <2>1, CaFinite, TotalSame DEF CaCounted
<1> DEFINE s == Total(filled, Threads)
<1>5. Cardinality(CaStored) + Cardinality(CaTaken) = s + nputs - nrems
  <2> HIDE DEF s
  <2> QED BY <1>4 DEF s
<1> QED BY <1>1, <1>2, <1>3, <1>5 DEF Cache!CacheCounted

-----------------------------------------------------------------------------
(* The run of all benchmarks: each of them is at its own, told by bench.   *)

MCInv ==
  /\ bench \in {"test", "snap_stress", "objects"} /\ DrInv
  /\ bench = "snap_stress" => StInv
  /\ bench = "objects" => CaInv /\ CaCounted

LEMMA MCInitInv ==
  ASSUME MCInit
  PROVE  MCInv
BY DrInitInv, StInitInv, CaInitInv, CaCountedInit DEF MCInit, MCInv

LEMMA MCNextInv ==
  ASSUME MCInv, [MCNext]_mcvars
  PROVE  MCInv'
<1>1. UNCHANGED bench
  BY DEF MCNext, mcvars
<1>2. DrInv'
  BY DrNextInv DEF MCInv, MCNext, mcvars
<1>3. ASSUME bench = "snap_stress" PROVE StInv'
  <2>1. StInv
    BY <1>3 DEF MCInv
  <2>2. CASE Stress!SNext
    BY <2>1, <2>2, StNextInv
  <2>3. CASE UNCHANGED mcvars
    <3>1. UNCHANGED StVars
      BY <2>3 DEF mcvars, ofBoth, StVars
    <3> QED BY <2>1, <3>1, StStutter
  <2> QED BY <1>3, <2>2, <2>3 DEF MCNext
<1>4. ASSUME bench = "objects" PROVE CaInv' /\ CaCounted'
  <2>1. CaInv /\ CaCounted
    BY <1>4 DEF MCInv
  <2>2. CASE Cache!CNext
    BY <2>1, <2>2, CaNextInv, CaCountedNext
  <2>3. CASE UNCHANGED mcvars
    <3>1. UNCHANGED CaVars /\ UNCHANGED <<nputs, nrems>>
      BY <2>3 DEF mcvars, ofCache, ofBoth, CaVars
    <3>2. /\ CaStored' = CaStored /\ CaTaken' = CaTaken
          /\ filled' = filled
      BY <3>1 DEF CaVars, CaStored, CaTaken, CaRemoving
    <3>3. CaCounted'
      BY <2>1, <3>1, <3>2, CaFilledNext DEF CaCounted
    <3> QED BY <2>1, <3>1, <3>3, CaStutter
  <2> QED BY <1>4, <2>2, <2>3 DEF MCNext
<1> QED BY <1>1, <1>2, <1>3, <1>4 DEF MCInv

(* The benchmarks keep their invariants: the basis of the theorems below.  *)
THEOREM BmarksInvariance == MCSpec => []MCInv
<1>1. MCInit => MCInv
  BY MCInitInv
<1>2. MCInv /\ [MCNext]_mcvars => MCInv'
  BY MCNextInv
<1> QED BY <1>1, <1>2, PTL DEF MCSpec

(* What the benchmarks work with keeps its type.                           *)
THEOREM TypesKept == MCSpec => []BmarksTypeOK
<1>1. MCInv => BmarksTypeOK
  BY DrInvTypeOK, StInvTypeOK, CaInvTypeOK DEF MCInv, BmarksTypeOK
<1> QED BY <1>1, BmarksInvariance, PTL

(* Every object that snap_stress.c, math_cache.c or test_mem.c has         *)
(* allocated and not freed is in one place: with the thread that will put  *)
(* it, in the table, or with the thread that removed it.  None is freed    *)
(* twice, and none is lost.                                                *)
THEOREM NoneLost == MCSpec => []ObjectsOnce
<1>1. MCInv => ObjectsOnce
  BY StInvOnce, CaInvOnce DEF MCInv, ObjectsOnce
<1> QED BY <1>1, BmarksInvariance, PTL

(* Who looks at an object finds the key there that was asked for, although *)
(* others remove, free and reuse objects meanwhile; but for a get of       *)
(* snap_stress.c whose slot is filled again with the same object.          *)
THEOREM ReadsSafe == MCSpec => []ReadsRight
<1>1. MCInv => ReadsRight
  BY StInvReads, CaInvLooks DEF MCInv, ReadsRight
<1> QED BY <1>1, BmarksInvariance, PTL

(* A slot that a put of snap_stress.c has marked is that put's alone until *)
(* it is filled or given back.                                             *)
THEOREM MarksOwned == MCSpec => []StressSlotsHeld
<1>1. MCInv => StressSlotsHeld
  BY StInvHeld DEF MCInv, StressSlotsHeld
<1> QED BY <1>1, BmarksInvariance, PTL

(* The counts that the benchmarks report are those of what is in the       *)
(* table: of test.c when main ends, of the others at any time, for all     *)
(* numbers of threads, of entries to begin with and of calls.              *)
THEOREM CountsRight == MCSpec => []Counted
<1>1. MCInv => Counted
  BY DrInvSize, StInvCounted, CaInvCounted DEF MCInv, Counted
<1> QED BY <1>1, BmarksInvariance, PTL

====
