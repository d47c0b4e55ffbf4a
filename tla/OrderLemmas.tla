----------------------------- MODULE OrderLemmas -----------------------------
(***************************************************************************)
(* Least and greatest numbers of a set, and ranks: in a finite set with a  *)
(* strict order the rank of a member is the number of those before it.     *)
(***************************************************************************)
EXTENDS Integers, FiniteSetTheorems, WellFoundedInduction, TLAPS

\* What takes the place of an induction over the natural numbers.
LEMMA Least ==
  ASSUME NEW T \in SUBSET Nat, T # {}
  PROVE  \E x \in T : \A y \in T : x <= y
  <1> DEFINE R == {p \in Nat \X Nat : p[1] < p[2]}
  <1>1. IsWellFoundedOn(R, Nat)
    <2>1. R = OpToRel(<, Nat)
      BY DEF OpToRel
    <2> QED BY <2>1, NatLessThanWellFounded
  <1>2. PICK x \in T : \A y \in T : <<y, x>> \notin R
    <2> HIDE DEF R
    <2> QED BY <1>1, WFMin
  <1>3. ASSUME NEW y \in T PROVE x <= y
    <2>1. x \in Nat /\ y \in Nat /\ <<y, x>> \notin R
      BY <1>2
    <2>2. ~(y < x)
      BY <2>1
    <2> QED BY <2>1, <2>2
  <1> QED BY <1>3

LEMMA Greatest ==
  ASSUME NEW n \in Nat, NEW S, S \subseteq 1 .. n, S # {}
  PROVE  \E i \in S : \A j \in S : j <= i
  <1> DEFINE T == {n - j : j \in S}
  <1>1. T \in SUBSET Nat /\ T # {}
    <2>1. \A j \in S : n - j \in Nat
      OBVIOUS
    <2> QED
      BY <2>1
  <1>2. PICK k \in T : \A m \in T : k <= m
    BY <1>1, Least
  <1>3. PICK i \in S : k = n - i
    BY <1>2
  <1>4. ASSUME NEW j \in S PROVE j <= i
    <2>1. n - i <= n - j
      BY <1>2, <1>3
    <2> QED
      BY <2>1
  <1> QED
    BY <1>4

\* Ranks number the members from 1 in their order; b[u] are those before u.
LEMMA Ranks ==
  ASSUME NEW R, IsFiniteSet(R), NEW b \in [R -> SUBSET R],
         \A u \in R : u \notin b[u],
         \A u, v \in R : v \in b[u] => b[v] \subseteq b[u],
         \A u, v \in R : u # v => u \in b[v] \/ v \in b[u]
  PROVE  /\ Cardinality(R) \in Nat
         /\ \A u \in R : Cardinality(b[u]) + 1 \in 1 .. Cardinality(R)
         /\ \A u, v \in R : u \in b[v] <=> Cardinality(b[u]) < Cardinality(b[v])
         /\ \A i \in 1 .. Cardinality(R) : \E u \in R : Cardinality(b[u]) + 1 = i
  <1>1. Cardinality(R) \in Nat
    BY FS_CardinalityType
  <1>2. \A u \in R : IsFiniteSet(b[u]) /\ Cardinality(b[u]) \in Nat
    BY FS_Subset, FS_CardinalityType
  <1>3. ASSUME NEW u \in R PROVE Cardinality(b[u]) + 1 \in 1 .. Cardinality(R)
    <2>1. IsFiniteSet(R \ {u}) /\ Cardinality(R \ {u}) = Cardinality(R) - 1
      BY FS_RemoveElement
    <2>2. b[u] \in SUBSET (R \ {u})
      OBVIOUS
    <2>3. Cardinality(b[u]) <= Cardinality(R \ {u})
      BY <2>1, <2>2, FS_Subset
    <2> QED
      BY <1>1, <1>2, <2>1, <2>3
  <1>4. ASSUME NEW u \in R, NEW v \in R, u \in b[v]
        PROVE  Cardinality(b[u]) < Cardinality(b[v])
    <2>1. b[u] \in SUBSET b[v] /\ b[u] # b[v]
      BY <1>4
    <2>2. Cardinality(b[u]) <= Cardinality(b[v]) /\ Cardinality(b[u]) # Cardinality(b[v])
      BY <1>2, <2>1, FS_Subset
    <2> QED
      BY <1>2, <2>2
  <1>5. ASSUME NEW u \in R, NEW v \in R, Cardinality(b[u]) < Cardinality(b[v])
        PROVE  u \in b[v]
    <2>1. u # v
      BY <1>2, <1>5
    <2>2. v \notin b[u]
      BY <1>2, <1>4, <1>5
    <2> QED
      BY <2>1, <2>2
  <1>6. ASSUME NEW i \in 1 .. Cardinality(R) PROVE \E u \in R : Cardinality(b[u]) + 1 = i
    <2> DEFINE f == [u \in R |-> Cardinality(b[u]) + 1]
               T == 1 .. Cardinality(R)
    <2>1. f \in [R -> T]
      BY <1>3
    <2>2. IsInjective(f)
      <3> SUFFICES ASSUME NEW u \in R, NEW v \in R, u # v PROVE f[u] # f[v]
        BY DEF IsInjective
      <3> QED
        BY <1>2, <1>4
    <2>3. f \in Injection(R, T)
      BY <2>1, <2>2 DEF Injection
    <2>4. IsFiniteSet(T) /\ Cardinality(T) = Cardinality(R)
      <3>1. /\ IsFiniteSet(1 .. Cardinality(R))
            /\ Cardinality(1 .. Cardinality(R)) =
                  IF 1 > Cardinality(R) THEN 0 ELSE Cardinality(R) - 1 + 1
        BY <1>1, FS_Interval
      <3> QED
        BY <1>1, <3>1
    <2> HIDE DEF T
    <2>5. f \in Surjection(R, T)
      BY <2>3, <2>4, FS_Injection
    <2>6. \E u \in R : f[u] = i
      BY <2>5 DEF Surjection, T
    <2> QED
      BY <2>6
  <1> QED
    BY <1>1, <1>3, <1>4, <1>5, <1>6

\* In a sorted list of all members each has the place of its rank.
LEMMA SortedByRank ==
  ASSUME NEW R, IsFiniteSet(R), NEW b \in [R -> SUBSET R],
         \A u \in R : u \notin b[u],
         \A u, v \in R : v \in b[u] => b[v] \subseteq b[u],
         NEW f \in [1 .. Cardinality(R) -> R],
         \A i, j \in 1 .. Cardinality(R) : i < j => f[i] \in b[f[j]]
  PROVE  \A i \in 1 .. Cardinality(R) : Cardinality(b[f[i]]) + 1 = i
  <1> DEFINE n == Cardinality(R)
  <1>1. n \in Nat
    BY FS_CardinalityType
  <1>2. \A i, j \in 1 .. n : f[i] = f[j] => i = j
    BY <1>1
  <1>3. IsFiniteSet(1 .. n) /\ Cardinality(1 .. n) = n
    <2>1. /\ IsFiniteSet(1 .. n)
          /\ Cardinality(1 .. n) = IF 1 > n THEN 0 ELSE n - 1 + 1
      BY <1>1, FS_Interval
    <2> QED
      BY <1>1, <2>1
  <1>4. f \in Injection(1 .. n, R)
    BY <1>2 DEF Injection, IsInjective
  <1>5. f \in Surjection(1 .. n, R)
    <2> HIDE DEF n
    <2>1. Cardinality(1 .. n) = Cardinality(R)
      BY <1>3 DEF n
    <2> QED
      BY <1>4, <2>1, FS_Injection
  <1>6. ASSUME NEW i \in 1 .. n PROVE Cardinality(b[f[i]]) + 1 = i
    <2> DEFINE g == [j \in 1 .. i - 1 |-> f[j]]
    <2>1. ASSUME NEW j \in 1 .. i - 1 PROVE g[j] \in b[f[i]] /\ j \in 1 .. n /\ g[j] = f[j]
      BY <1>1
    <2>2. g \in [1 .. i - 1 -> b[f[i]]]
      BY <2>1
    <2>3. IsInjective(g)
      BY <1>2, <2>1 DEF IsInjective
    <2>4. ASSUME NEW v \in b[f[i]] PROVE \E j \in 1 .. i - 1 : g[j] = v
      <3>1. v \in R /\ v # f[i]
        OBVIOUS
      <3>2. PICK j \in 1 .. n : f[j] = v
        BY <1>5, <3>1 DEF Surjection
      <3>3. ~(i < j)
        <4> SUFFICES ASSUME i < j PROVE FALSE
          OBVIOUS
        <4>1. f[i] \in b[v]
          BY <3>2
        <4> QED
          BY <4>1, <3>1
      <3>4. j \in 1 .. i - 1
        BY <3>1, <3>2, <3>3, <1>1
      <3> QED
        BY <3>2, <3>4
    <2>5. g \in Bijection(1 .. i - 1, b[f[i]])
      BY <2>2, <2>3, <2>4 DEF Bijection, Injection, Surjection
    <2>6. i - 1 \in Nat
      BY <1>1
    <2>7. Cardinality(b[f[i]]) = i - 1
      BY <2>5, <2>6, FS_CountingElements DEF ExistsBijection
    <2> QED
      BY <2>6, <2>7, <1>1
  <1> QED
    BY <1>6
=============================================================================
