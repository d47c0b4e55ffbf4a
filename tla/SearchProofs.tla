----------------------------- MODULE SearchProofs -----------------------------
(***************************************************************************)
(* Theorems about Search, for any documents, queries, page sizes and       *)
(* changes of the index between the pages of a search.                     *)
(***************************************************************************)
EXTENDS Search, OrderLemmas, FiniteSetTheorems, SequenceTheorems, TLAPS

-----------------------------------------------------------------------------
(* What is counted.                                                        *)

\* The place of a row, counted from 1.
Rank(q, u) == Cardinality({v \in Rows(q) : Before(q, v, u)}) + 1

\* Hits that nobody touches while the search lasts.
Steady == Rows(query) \ touched

\* The rows before the edge of the next page.
Passed == {u \in Rows(query) : Rank(query, u) <= offset}

Once  == {u \in Urls : \E i \in DOMAIN shown : shown[i] = u}
Twice == {u \in Urls : \E i, j \in DOMAIN shown : i # j /\ shown[i] = u /\ shown[j] = u}

\* As long as nobody changes the index the pages are the rows by rank.
ExactInv ==
    query # None /\ writes = 0 =>
        /\ \A i \in DOMAIN shown : shown[i] \in Rows(query) /\ Rank(query, shown[i]) = i
        /\ Passed \subseteq Once
        /\ IF ended THEN Rows(query) \subseteq Once ELSE Len(shown) = offset

\* Each write takes at most one of the other hits over the edge: it is shown
\* again, or never.
DriftInv ==
    query # None =>
        /\ Cardinality({u \in Steady : u \in Twice \/ (u \in Once /\ u \notin Passed)}) <= writes
        /\ Cardinality({u \in Steady : u \in Passed /\ u \notin Once}) <= writes
        /\ ended => Cardinality({u \in Steady : u \notin Once}) <= writes
-----------------------------------------------------------------------------
(* Orders of rows: sequences that name each of their members once.         *)

LEMMA PlaceIs ==
  ASSUME NEW S, NEW order \in Seq(S), IsInjective(order)
  PROVE  /\ \A i \in 1 .. Len(order) : order[i] \in ToSet(order) /\ Place(order, order[i]) = i
         /\ \A u \in ToSet(order) : /\ Place(order, u) \in 1 .. Len(order)
                                    /\ order[Place(order, u)] = u
  <1>1. DOMAIN order = 1 .. Len(order)
    OBVIOUS
  <1>2. ASSUME NEW u \in ToSet(order)
        PROVE  Place(order, u) \in DOMAIN order /\ order[Place(order, u)] = u
    <2>1. \E i \in DOMAIN order : order[i] = u
      BY DEF ToSet
    <2> QED
      BY <2>1 DEF Place
  <1>3. ASSUME NEW i \in DOMAIN order
        PROVE  order[i] \in ToSet(order) /\ Place(order, order[i]) = i
    <2>1. order[i] \in ToSet(order)
      BY DEF ToSet
    <2> QED
      BY <2>1, <1>2 DEF IsInjective
  <1> QED
    BY <1>1, <1>2, <1>3

\* To take out a member leaves the others, in their order.
LEMMA WithoutIs ==
  ASSUME NEW S, NEW order \in Seq(S), IsInjective(order), NEW u
  PROVE  /\ Without(order, u) \in Seq(S \ {u}) /\ IsInjective(Without(order, u))
         /\ ToSet(Without(order, u)) = ToSet(order) \ {u}
         /\ \A x, y \in ToSet(order) \ {u} :
               Place(Without(order, u), x) < Place(Without(order, u), y)
                  <=> Place(order, x) < Place(order, y)
  <1> DEFINE r == Without(order, u)
             n == Len(order)
             k == Place(order, u)
  <1>1. CASE u \notin ToSet(order)
    <2>1. r = order
      BY <1>1 DEF Without
    <2>2. \A i \in 1 .. n : order[i] \in S \ {u}
      BY <1>1, PlaceIs
    <2>3. order \in Seq(S \ {u})
      BY <2>2
    <2> QED
      BY <1>1, <2>1, <2>3
  <1>2. CASE u \in ToSet(order)
    <2>1. n \in Nat /\ k \in 1 .. n /\ order[k] = u
      BY <1>2, PlaceIs
    <2>2. r = SubSeq(order, 1, k - 1) \o SubSeq(order, k + 1, n)
      BY <1>2 DEF Without, RemoveAt
    <2>3. \A i \in 1 .. n : /\ order[i] \in S /\ order[i] \in ToSet(order)
                            /\ Place(order, order[i]) = i
                            /\ i # k => order[i] # u
      BY <2>1, PlaceIs
    <2> HIDE DEF k, n, r
    <2>4. k \in Int /\ n \in Int /\ 1 <= k /\ k <= n
      BY <2>1
    <2>5. /\ SubSeq(order, 1, k - 1) \in Seq(S \ {u})
          /\ Len(SubSeq(order, 1, k - 1)) = k - 1
          /\ \A i \in 1 .. k - 1 : SubSeq(order, 1, k - 1)[i] = order[i]
      <3>1. \A i \in 1 .. k - 1 : order[i] \in S \ {u}
        BY <2>3, <2>4
      <3>2. k - 1 \in Int
        BY <2>4
      <3>3. /\ SubSeq(order, 1, k - 1) \in Seq(S \ {u})
            /\ Len(SubSeq(order, 1, k - 1)) = IF 1 <= k - 1 THEN (k - 1) - 1 + 1 ELSE 0
            /\ \A i \in 1 .. (k - 1) - 1 + 1 : SubSeq(order, 1, k - 1)[i] = order[1 + i - 1]
        BY <3>1, <3>2, SubSeqProperties
      <3> QED
        BY <3>3, <2>4
    <2>6. /\ SubSeq(order, k + 1, n) \in Seq(S \ {u})
          /\ Len(SubSeq(order, k + 1, n)) = n - k
          /\ \A i \in 1 .. n - k : SubSeq(order, k + 1, n)[i] = order[k + i]
      <3>1. \A i \in k + 1 .. n : order[i] \in S \ {u}
        BY <2>3, <2>4
      <3>2. k + 1 \in Int
        BY <2>4
      <3>3. /\ SubSeq(order, k + 1, n) \in Seq(S \ {u})
            /\ Len(SubSeq(order, k + 1, n)) = IF k + 1 <= n THEN n - (k + 1) + 1 ELSE 0
            /\ \A i \in 1 .. n - (k + 1) + 1 :
                   SubSeq(order, k + 1, n)[i] = order[k + 1 + i - 1]
        BY <3>1, <3>2, <2>4, SubSeqProperties
      <3> QED
        BY <3>3, <2>4
    <2>7. /\ r \in Seq(S \ {u}) /\ Len(r) = n - 1
          /\ \A i \in 1 .. n - 1 : r[i] = IF i < k THEN order[i] ELSE order[i + 1]
      <3> DEFINE s1 == SubSeq(order, 1, k - 1)
                 s2 == SubSeq(order, k + 1, n)
      <3>1. r = s1 \o s2 /\ s1 \in Seq(S \ {u}) /\ s2 \in Seq(S \ {u})
        BY <2>2, <2>5, <2>6
      <3>2. Len(s1) = k - 1 /\ Len(s2) = n - k
        BY <2>5, <2>6
      <3>3. /\ \A i \in 1 .. k - 1 : s1[i] = order[i]
            /\ \A i \in 1 .. n - k : s2[i] = order[k + i]
        BY <2>5, <2>6
      <3> HIDE DEF s1, s2
      <3>4. /\ r \in Seq(S \ {u}) /\ Len(r) = Len(s1) + Len(s2)
            /\ \A i \in 1 .. Len(s1) + Len(s2) :
                   r[i] = IF i <= Len(s1) THEN s1[i] ELSE s2[i - Len(s1)]
        BY <3>1, ConcatProperties
      <3>5. ASSUME NEW i \in 1 .. n - 1
            PROVE  r[i] = IF i < k THEN order[i] ELSE order[i + 1]
        <4>1. r[i] = IF i <= k - 1 THEN s1[i] ELSE s2[i - (k - 1)]
          BY <3>2, <3>4, <2>4
        <4>2. CASE i < k
          BY <4>1, <4>2, <3>3, <2>4
        <4>3. CASE ~(i < k)
          <5>1. i - (k - 1) \in 1 .. n - k /\ k + (i - (k - 1)) = i + 1
            BY <4>3, <2>4
          <5> QED
            BY <4>1, <4>3, <5>1, <3>3, <2>4
        <4> QED
          BY <4>2, <4>3
      <3> QED
        BY <3>2, <3>4, <3>5, <2>4
    <2>8. ASSUME NEW i \in 1 .. n - 1
          PROVE  /\ Place(order, r[i]) = IF i < k THEN i ELSE i + 1
                 /\ r[i] \in ToSet(order) \ {u}
      <3>1. CASE i < k
        <4>1. r[i] = order[i] /\ i \in 1 .. n /\ i # k
          BY <3>1, <2>4, <2>7
        <4> QED
          BY <3>1, <4>1, <2>3
      <3>2. CASE ~(i < k)
        <4>1. r[i] = order[i + 1] /\ i + 1 \in 1 .. n /\ i + 1 # k
          BY <3>2, <2>4, <2>7
        <4> QED
          BY <3>2, <4>1, <2>3
      <3> QED
        BY <3>1, <3>2
    <2>9. DOMAIN r = 1 .. n - 1
      BY <2>7
    <2>10. IsInjective(r)
      <3> SUFFICES ASSUME NEW a \in 1 .. n - 1, NEW b \in 1 .. n - 1, r[a] = r[b]
                   PROVE  a = b
        BY <2>9 DEF IsInjective
      <3> QED
        BY <2>4, <2>8
    <2>11. ToSet(r) = ToSet(order) \ {u}
      <3>1. ASSUME NEW x \in ToSet(r) PROVE x \in ToSet(order) \ {u}
        <4>1. PICK i \in 1 .. n - 1 : x = r[i]
          BY <2>9 DEF ToSet
        <4> QED
          BY <4>1, <2>8
      <3>2. ASSUME NEW x \in ToSet(order) \ {u} PROVE x \in ToSet(r)
        <4>1. PICK m : m = Place(order, x)
          OBVIOUS
        <4>2. m \in 1 .. n /\ order[m] = x /\ m # k
          BY <4>1, <2>1, PlaceIs DEF n
        <4>3. \E i \in 1 .. n - 1 : r[i] = x
          <5>1. CASE m < k
            <6>1. m \in 1 .. n - 1 /\ r[m] = x
              BY <5>1, <4>2, <2>4, <2>7
            <6> QED
              BY <6>1
          <5>2. CASE m > k
            <6>1. m - 1 \in 1 .. n - 1 /\ r[m - 1] = order[m - 1 + 1] /\ m - 1 + 1 = m
              BY <5>2, <4>2, <2>4, <2>7
            <6> QED
              BY <6>1, <4>2
          <5> QED
            BY <4>2, <5>1, <5>2, <2>4
        <4> QED
          BY <4>3, <2>9 DEF ToSet
      <3> QED
        BY <3>1, <3>2
    <2>12. ASSUME NEW x \in ToSet(order) \ {u}, NEW y \in ToSet(order) \ {u}
           PROVE  Place(r, x) < Place(r, y) <=> Place(order, x) < Place(order, y)
      <3>1. PICK a, b : a = Place(r, x) /\ b = Place(r, y)
        OBVIOUS
      <3>2. a \in 1 .. n - 1 /\ r[a] = x /\ b \in 1 .. n - 1 /\ r[b] = y
        BY <3>1, <2>7, <2>10, <2>11, PlaceIs
      <3>3. /\ Place(order, x) = IF a < k THEN a ELSE a + 1
            /\ Place(order, y) = IF b < k THEN b ELSE b + 1
        BY <3>2, <2>8
      <3> QED
        BY <3>1, <3>2, <3>3, <2>4
    <2> QED
      BY <2>7, <2>10, <2>11, <2>12 DEF r
  <1> QED
    BY <1>1, <1>2

\* To put a new member at the end.
LEMMA AppendIs ==
  ASSUME NEW S, NEW order \in Seq(S), IsInjective(order), NEW u, u \notin ToSet(order)
  PROVE  /\ Append(order, u) \in Seq(S \cup {u}) /\ IsInjective(Append(order, u))
         /\ ToSet(Append(order, u)) = ToSet(order) \cup {u}
         /\ \A x, y \in ToSet(order) :
               Place(Append(order, u), x) < Place(Append(order, u), y)
                  <=> Place(order, x) < Place(order, y)
  <1> DEFINE r == Append(order, u)
             n == Len(order)
  <1>1. order \in Seq(S \cup {u}) /\ n \in Nat
    BY SeqMonotonic
  <1>2. /\ r \in Seq(S \cup {u}) /\ Len(r) = n + 1 /\ r[n + 1] = u
        /\ \A i \in 1 .. n : r[i] = order[i]
    BY <1>1, AppendProperties
  <1> HIDE DEF r, n
  <1>3. \A i \in 1 .. n : order[i] \in ToSet(order) /\ Place(order, order[i]) = i
    BY PlaceIs DEF n
  <1>4. DOMAIN r = 1 .. n + 1 /\ DOMAIN order = 1 .. n
    BY <1>2 DEF n
  <1>5. IsInjective(r)
    BY <1>1, <1>2, <1>3, <1>4 DEF IsInjective
  <1>6. ToSet(r) = ToSet(order) \cup {u}
    <2>1. ASSUME NEW x \in ToSet(r) PROVE x \in ToSet(order) \cup {u}
      <3>1. PICK i \in 1 .. n + 1 : x = r[i]
        BY <1>4 DEF ToSet
      <3> QED
        BY <3>1, <1>1, <1>2, <1>3
    <2>2. u \in ToSet(r)
      BY <1>1, <1>2, <1>4 DEF ToSet
    <2>3. ASSUME NEW x \in ToSet(order) PROVE x \in ToSet(r)
      <3>1. PICK i \in 1 .. n : order[i] = x
        BY <1>4 DEF ToSet
      <3> QED
        BY <3>1, <1>1, <1>2, <1>4 DEF ToSet
    <2> QED
      BY <2>1, <2>2, <2>3
  <1>7. \A x \in ToSet(order) : Place(r, x) = Place(order, x)
    <2> SUFFICES ASSUME NEW x \in ToSet(order) PROVE Place(r, x) = Place(order, x)
      OBVIOUS
    <2>1. Place(order, x) \in 1 .. n /\ order[Place(order, x)] = x
      BY PlaceIs DEF n
    <2>2. \A i \in 1 .. n + 1 : Place(r, r[i]) = i
      BY <1>2, <1>5, PlaceIs
    <2> QED
      BY <2>1, <2>2, <1>1, <1>2
  <1> QED
    BY <1>2, <1>5, <1>6, <1>7 DEF r

-----------------------------------------------------------------------------
(* Rows and hits.                                                          *)

LEMMA StoredIs ==
  ASSUME TypeOK
  PROVE  /\ IsFiniteSet(Stored) /\ Stored \subseteq Urls
         /\ \A u \in Stored : docs[u] \in Documents
  <1>1. scan.entries \in Seq(Stored) /\ ToSet(scan.entries) = Stored
    BY DEF TypeOK
  <1> DEFINE n == Len(scan.entries)
  <1>2. n \in Nat /\ DOMAIN scan.entries = 1 .. n /\ scan.entries \in [1 .. n -> Stored]
    BY <1>1
  <1>3. IsFiniteSet(1 .. n)
    BY <1>2, FS_Interval
  <1>4. scan.entries \in Surjection(1 .. n, Stored)
    BY <1>1, <1>2 DEF Surjection, ToSet
  <1>5. IsFiniteSet(Stored)
    BY <1>3, <1>4, FS_Surjection
  <1> QED
    BY <1>5 DEF Stored, TypeOK

LEMMA RowsAreStored ==
  ASSUME TypeOK, NEW q
  PROVE  Rows(q) \subseteq Stored /\ IsFiniteSet(Rows(q)) /\ Cardinality(Rows(q)) \in Nat
  <1>1. Rows(q) \in SUBSET Stored
    BY DEF Rows, WordRows, PhraseRows
  <1> QED
    BY <1>1, StoredIs, FS_Subset, FS_CardinalityType

LEMMA KeysAreNumbers ==
  ASSUME TypeOK, NEW q, NEW u \in Stored
  PROVE  \E a \in Int, b \in Int : Keys(q, u) = <<a, b>>
  <1>1. /\ docs[u].content \in Seq(Words) /\ docs[u].depth \in Nat /\ docs[u].at \in Nat
    BY StoredIs, DocumentsAssumption
  <1>2. \A w : Frequency(docs[u], w) \in Nat
    <2> SUFFICES ASSUME NEW w PROVE Frequency(docs[u], w) \in Nat
      OBVIOUS
    <2>1. IsFiniteSet(DOMAIN docs[u].content)
      <3>1. PICK n \in Nat : DOMAIN docs[u].content = 1 .. n
        BY <1>1
      <3> QED
        BY <3>1, FS_Interval
    <2>2. {i \in DOMAIN docs[u].content : docs[u].content[i] = w}
             \in SUBSET (DOMAIN docs[u].content)
      OBVIOUS
    <2> QED
      BY <2>1, <2>2, FS_Subset, FS_CardinalityType DEF Frequency
  <1>3. \A w : Score(docs[u], w) \in Int
    BY <1>1, <1>2 DEF Score
  <1>4. PICK score \in Int :
           Keys(q, u) = IF q.sortBy = "recent" THEN <<docs[u].at, score>>
                        ELSE <<score, docs[u].at>>
    <2>1. Score(docs[u], q.words[1]) \in Int /\ 0 \in Int
      BY <1>3
    <2> QED
      BY <2>1 DEF Keys
  <1> QED
    BY <1>1, <1>4

LEMMA PositionIs ==
  ASSUME TypeOK, NEW q
  PROVE  /\ \A u \in Stored : Position(q, u) \in Int
         /\ \A u, v \in Stored : Position(q, u) = Position(q, v) => u = v
  <1> DEFINE order == IF Len(q.words) = 1 THEN scan.entries ELSE scan.documents
  <1>1. order \in Seq(Stored) /\ ToSet(order) = Stored /\ IsInjective(order)
    BY DEF TypeOK
  <1>2. \A u : Position(q, u) = Place(order, u)
    BY DEF Position
  <1> HIDE DEF order
  <1>3. \A u \in Stored : Place(order, u) \in 1 .. Len(order) /\ order[Place(order, u)] = u
    BY <1>1, PlaceIs
  <1>4. Len(order) \in Nat
    BY <1>1
  <1> QED
    BY <1>2, <1>3, <1>4

\* Before is a strict total order.
LEMMA BeforeOrders ==
  ASSUME TypeOK, NEW q, NEW u \in Stored, NEW v \in Stored
  PROVE  /\ ~Before(q, u, u)
         /\ u # v => Before(q, u, v) \/ Before(q, v, u)
         /\ \A w \in Stored : Before(q, u, v) /\ Before(q, v, w) => Before(q, u, w)
         /\ Before(q, u, v) => ~Above(Keys(q, v), Keys(q, u))
  <1>1. PICK a1 \in Int, a2 \in Int : Keys(q, u) = <<a1, a2>>
    BY KeysAreNumbers
  <1>2. PICK b1 \in Int, b2 \in Int : Keys(q, v) = <<b1, b2>>
    BY KeysAreNumbers
  <1>3. /\ Position(q, u) \in Int /\ Position(q, v) \in Int
        /\ u # v => Position(q, u) # Position(q, v)
    BY PositionIs
  <1>4. ~Before(q, u, u)
    BY <1>1, <1>3 DEF Before, Above
  <1>5. u # v => Before(q, u, v) \/ Before(q, v, u)
    BY <1>1, <1>2, <1>3 DEF Before, Above
  <1>6. ASSUME NEW w \in Stored, Before(q, u, v), Before(q, v, w) PROVE Before(q, u, w)
    <2>1. PICK c1 \in Int, c2 \in Int : Keys(q, w) = <<c1, c2>>
      BY KeysAreNumbers
    <2>2. Position(q, w) \in Int
      BY PositionIs
    <2> QED
      BY <1>1, <1>2, <1>3, <1>6, <2>1, <2>2 DEF Before, Above
  <1>7. Before(q, u, v) => ~Above(Keys(q, v), Keys(q, u))
    BY <1>1, <1>2 DEF Before, Above
  <1> QED
    BY <1>4, <1>5, <1>6, <1>7

LEMMA RankIs ==
  ASSUME TypeOK, NEW q
  PROVE  LET n == Cardinality(Rows(q)) IN
         /\ n \in Nat
         /\ \A u \in Rows(q) : Rank(q, u) \in 1 .. n
         /\ \A u, v \in Rows(q) : Before(q, u, v) <=> Rank(q, u) < Rank(q, v)
         /\ \A u, v \in Rows(q) : Rank(q, u) = Rank(q, v) => u = v
         /\ Ranked(q) \in [1 .. n -> Rows(q)]
         /\ \A i \in 1 .. n : Rank(q, Ranked(q)[i]) = i
  <1> DEFINE R == Rows(q)
             n == Cardinality(R)
             b == [u \in R |-> {v \in R : Before(q, v, u)}]
  <1>1. R \subseteq Stored /\ IsFiniteSet(R) /\ n \in Nat
    BY RowsAreStored
  <1>2. /\ b \in [R -> SUBSET R]
        /\ \A u \in R : Rank(q, u) = Cardinality(b[u]) + 1
        /\ \A u, v \in R : u \in b[v] <=> Before(q, u, v)
    BY DEF Rank
  <1> HIDE DEF b
  <1>3. /\ \A u \in R : u \notin b[u]
        /\ \A u, v \in R : u # v => u \in b[v] \/ v \in b[u]
    BY <1>1, <1>2, BeforeOrders
  <1>4. ASSUME NEW u \in R, NEW v \in R, v \in b[u] PROVE b[v] \subseteq b[u]
    BY <1>1, <1>2, <1>4, BeforeOrders
  <1> HIDE DEF R
  <1>5. /\ \A u \in R : Cardinality(b[u]) + 1 \in 1 .. n
        /\ \A u, v \in R : u \in b[v] <=> Cardinality(b[u]) < Cardinality(b[v])
        /\ \A i \in 1 .. n : \E u \in R : Cardinality(b[u]) + 1 = i
    BY <1>1, <1>2, <1>3, <1>4, Ranks
  <1>6. \A u \in R : Cardinality(b[u]) \in Nat
    <2> SUFFICES ASSUME NEW u \in R PROVE Cardinality(b[u]) \in Nat
      OBVIOUS
    <2>1. b[u] \in SUBSET R
      BY <1>2
    <2> QED
      BY <1>1, <2>1, FS_Subset, FS_CardinalityType
  <1>7. /\ \A u \in R : Rank(q, u) \in 1 .. n
        /\ \A u, v \in R : Before(q, u, v) <=> Rank(q, u) < Rank(q, v)
        /\ \A i \in 1 .. n : \E u \in R : Rank(q, u) = i
    BY <1>2, <1>5, <1>6
  <1>8. \A u, v \in R : Rank(q, u) = Rank(q, v) => u = v
    BY <1>2, <1>3, <1>5, <1>6
  <1> DEFINE Sorts(all) == \A i, j \in DOMAIN all : i < j => Before(q, all[i], all[j])
  <1>9. \E all \in [1 .. n -> R] : Sorts(all)
    <2> DEFINE all == [i \in 1 .. n |-> CHOOSE u \in R : Rank(q, u) = i]
    <2>1. \A i \in 1 .. n : all[i] \in R /\ Rank(q, all[i]) = i
      BY <1>7
    <2>2. all \in [1 .. n -> R] /\ DOMAIN all = 1 .. n
      BY <2>1
    <2> HIDE DEF all
    <2>3. Sorts(all)
      BY <1>7, <2>1, <2>2
    <2> QED
      BY <2>2, <2>3
  <1>10. Ranked(q) \in [1 .. n -> R] /\ Sorts(Ranked(q))
    BY <1>9 DEF Ranked, R
  <1>11. \A i \in 1 .. n : Rank(q, Ranked(q)[i]) = i
    <2>1. \A i, j \in 1 .. n : i < j => Ranked(q)[i] \in b[Ranked(q)[j]]
      BY <1>2, <1>10
    <2>2. \A i \in 1 .. n : Cardinality(b[Ranked(q)[i]]) + 1 = i
      BY <1>1, <1>2, <1>3, <1>4, <1>10, <2>1, SortedByRank
    <2> QED
      BY <1>2, <1>10, <2>2
  <1> QED
    BY <1>1, <1>7, <1>8, <1>10, <1>11 DEF R

LEMMA MinIs ==
  ASSUME NEW a \in Int, NEW b \in Int
  PROVE  Min({a, b}) = IF a <= b THEN a ELSE b
  <1>1. \E x \in {a, b} : \A y \in {a, b} : x <= y
    OBVIOUS
  <1>2. Min({a, b}) \in {a, b} /\ \A y \in {a, b} : Min({a, b}) <= y
    BY <1>1 DEF Min
  <1> QED
    BY <1>2

LEMMA SafeLimitIs == ASSUME NEW q \in Queries PROVE SafeLimit(q) \in Nat \ {0}
  BY QueriesAssumption DEF SafeLimit

\* A page of hits: the rows behind the edge, by rank.
LEMMA HitsAre ==
  ASSUME TypeOK, NEW q \in Queries, NEW from \in Nat
  PROVE  LET n == Cardinality(Rows(q)) IN
         /\ Hits(q, from) \in Seq(Rows(q))
         /\ Len(Hits(q, from)) = IF n <= from THEN 0
                                 ELSE IF n <= from + SafeLimit(q) THEN n - from ELSE SafeLimit(q)
         /\ \A i \in 1 .. Len(Hits(q, from)) : Rank(q, Hits(q, from)[i]) = from + i
  <1> DEFINE R    == Rows(q)
             n    == Cardinality(R)
             l    == SafeLimit(q)
             all  == Ranked(q)
             last == IF from + l <= n THEN from + l ELSE n
  <1>1. /\ n \in Nat /\ all \in [1 .. n -> R]
        /\ \A i \in 1 .. n : Rank(q, all[i]) = i
    BY RankIs
  <1>2. l \in Nat \ {0}
    BY SafeLimitIs
  <1>3. all \in Seq(R) /\ Len(all) = n
    BY <1>1
  <1> HIDE DEF n, l, all, R
  <1>4. Min({from + l, Len(all)}) = last
    BY <1>1, <1>2, <1>3, MinIs
  <1>5. Hits(q, from) = SubSeq(all, from + 1, last)
    BY <1>4 DEF Hits, all, l
  <1>6. last \in Int /\ last <= n /\ from + 1 \in Int
    BY <1>1, <1>2
  <1>7. \A i \in from + 1 .. last : all[i] \in R
    BY <1>1, <1>6
  <1> HIDE DEF last
  <1>8. /\ SubSeq(all, from + 1, last) \in Seq(R)
        /\ Len(SubSeq(all, from + 1, last)) = IF from + 1 <= last THEN last - (from + 1) + 1 ELSE 0
        /\ \A i \in 1 .. last - (from + 1) + 1 :
               SubSeq(all, from + 1, last)[i] = all[from + 1 + i - 1]
    BY <1>6, <1>7, SubSeqProperties
  <1>9. Len(Hits(q, from)) = IF n <= from THEN 0 ELSE IF n <= from + l THEN n - from ELSE l
    BY <1>1, <1>2, <1>5, <1>8 DEF last
  <1>10. ASSUME NEW i \in 1 .. Len(Hits(q, from)) PROVE Rank(q, Hits(q, from)[i]) = from + i
    <2>1. /\ i \in 1 .. last - (from + 1) + 1 /\ from + i \in 1 .. n
          /\ from + 1 + i - 1 = from + i
      BY <1>1, <1>2, <1>5, <1>6, <1>8, <1>9 DEF last
    <2>2. Hits(q, from)[i] = all[from + i]
      BY <1>5, <1>8, <2>1
    <2> QED
      BY <1>1, <2>1, <2>2
  <1> QED
    BY <1>5, <1>8, <1>9, <1>10 DEF R, n, l

\* Which rows are on the page.
LEMMA HitsHave ==
  ASSUME TypeOK, NEW q \in Queries, NEW from \in Nat
  PROVE  LET hits == Hits(q, from) IN
         /\ Len(hits) \in Nat
         /\ \A u \in Rows(q) : /\ Rank(q, u) \in Nat
                               /\ from < Rank(q, u) /\ Rank(q, u) <= from + SafeLimit(q)
                                     <=> \E i \in 1 .. Len(hits) : hits[i] = u
         /\ \A i \in 1 .. Len(hits) : hits[i] \in Rows(q) /\ Rank(q, hits[i]) = from + i
         /\ Len(hits) < SafeLimit(q) => \A u \in Rows(q) : Rank(q, u) <= from + SafeLimit(q)
         /\ Len(hits) <= SafeLimit(q)
  <1> DEFINE hits == Hits(q, from)
             n    == Cardinality(Rows(q))
             l    == SafeLimit(q)
  <1>1. /\ n \in Nat /\ \A u \in Rows(q) : Rank(q, u) \in 1 .. n
        /\ \A u, v \in Rows(q) : Rank(q, u) = Rank(q, v) => u = v
    BY RankIs
  <1>2. l \in Nat \ {0}
    BY SafeLimitIs
  <1>3. /\ hits \in Seq(Rows(q))
        /\ Len(hits) = IF n <= from THEN 0 ELSE IF n <= from + l THEN n - from ELSE l
        /\ \A i \in 1 .. Len(hits) : Rank(q, hits[i]) = from + i
    BY HitsAre
  <1>4. Len(hits) \in Nat /\ \A i \in 1 .. Len(hits) : hits[i] \in Rows(q)
    BY <1>3
  <1> HIDE DEF hits, n, l
  <1>5. ASSUME NEW u \in Rows(q), from < Rank(q, u), Rank(q, u) <= from + l
        PROVE  \E i \in 1 .. Len(hits) : hits[i] = u
    <2>1. PICK i : i = Rank(q, u) - from
      OBVIOUS
    <2>2. i \in 1 .. Len(hits) /\ from + i = Rank(q, u)
      <3>1. PICK r : r = Rank(q, u)
        OBVIOUS
      <3>2. r \in Nat /\ r <= n /\ n \in Nat
        BY <1>1, <3>1
      <3>3. from < r /\ r <= from + l /\ i = r - from
        BY <1>5, <2>1, <3>1
      <3>4. /\ Len(hits) \in Nat
            /\ Len(hits) = IF n <= from THEN 0 ELSE IF n <= from + l THEN n - from ELSE l
        BY <1>3, <1>4
      <3>5. i \in 1 .. Len(hits) /\ from + i = r
        BY <1>2, <3>2, <3>3, <3>4
      <3> QED
        BY <3>1, <3>5
    <2>3. hits[i] = u
      BY <1>1, <1>3, <1>4, <2>2
    <2> QED
      BY <2>2, <2>3
  <1>6. ASSUME NEW i \in 1 .. Len(hits)
        PROVE  from < Rank(q, hits[i]) /\ Rank(q, hits[i]) <= from + l
    <2>1. Rank(q, hits[i]) = from + i /\ i <= l
      BY <1>1, <1>2, <1>3, <1>4
    <2> QED
      BY <2>1, <1>2, <1>4
  <1>7. Len(hits) < l => \A u \in Rows(q) : Rank(q, u) <= from + l
    BY <1>1, <1>2, <1>3
  <1>8. Len(hits) <= l
    BY <1>1, <1>2, <1>3
  <1> QED
    BY <1>1, <1>3, <1>4, <1>5, <1>6, <1>7, <1>8 DEF hits, l

-----------------------------------------------------------------------------
(* Types, and what a write leaves of the order.                            *)

Listed(order) == order \in Seq(Stored) /\ ToSet(order) = Stored /\ IsInjective(order)

LEMMA TypeInit == Init => TypeOK
  <1> SUFFICES ASSUME Init PROVE TypeOK
    OBVIOUS
  <1>1. Stored = {} /\ scan.documents = <<>> /\ scan.entries = <<>>
    BY DEF Init, Stored
  <1>2. Listed(<<>>)
    BY <1>1 DEF Listed, ToSet, IsInjective
  <1>3. docs \in [Urls -> Documents \cup {None}] /\ query \in Queries \cup {None}
    BY DEF Init
  <1>4. shown \in Seq(Urls) /\ offset \in Nat /\ ended \in BOOLEAN /\ touched \subseteq Urls
    <2>1. shown = <<>> /\ offset = 0 /\ ended = FALSE /\ touched = {}
      BY DEF Init
    <2>2. shown \in Seq(Urls)
      BY <2>1, EmptySeq
    <2>3. ended \in BOOLEAN /\ touched \subseteq Urls
      BY <2>1
    <2> QED
      BY <2>1, <2>2, <2>3
  <1>5. writes \in 0 .. MaxWrites
    BY MaxWritesAssumption DEF Init
  <1> QED
    BY <1>1, <1>2, <1>3, <1>4, <1>5 DEF TypeOK, Listed

\* A write changes one document and leaves the others in their order.
LEMMA WriteIs ==
  ASSUME TypeOK, NEW u \in Urls, NEW d \in Documents, Upsert(u, d) \/ Delete(u)
  PROVE  /\ TypeOK'
         /\ UNCHANGED session /\ writes' = writes + 1 /\ touched' = touched \cup {u}
         /\ Stored' \ {u} = Stored \ {u}
         /\ \A x \in Stored \ {u} : docs'[x] = docs[x]
         /\ \A q : \A x, y \in Stored \ {u} :
               Position(q, x)' < Position(q, y)' <=> Position(q, x) < Position(q, y)
  <1> DEFINE Keeps(new, old) ==
               \A x, y \in Stored \ {u} : Place(new, x) < Place(new, y)
                                             <=> Place(old, x) < Place(old, y)
  <1>1. /\ Listed(scan.documents) /\ Listed(scan.entries)
        /\ docs \in [Urls -> Documents \cup {None}]
    BY DEF TypeOK, Listed
  <1>2. UNCHANGED session /\ writes' = writes + 1 /\ touched' = touched \cup {u}
        /\ writes < MaxWrites
    BY DEF Upsert, Delete, Touch
  <1>3. /\ docs' \in [Urls -> Documents \cup {None}]
        /\ \A x \in Urls \ {u} : docs'[x] = docs[x]
        /\ Upsert(u, d) => docs'[u] = d
        /\ Delete(u) => docs'[u] = None
    BY <1>1 DEF Upsert, Delete
  <1>4. /\ Upsert(u, d) => Stored' = Stored \cup {u}
        /\ Delete(u) => Stored' = Stored \ {u}
    BY <1>3, NoneAssumption DEF Stored
  <1>5. \A x \in Stored \ {u} : docs'[x] = docs[x]
    BY <1>3 DEF Stored
  <1>6. ASSUME NEW order, Listed(order)
        PROVE  /\ Without(order, u) \in Seq(Stored \ {u})
               /\ ToSet(Without(order, u)) = Stored \ {u}
               /\ IsInjective(Without(order, u)) /\ Keeps(Without(order, u), order)
    BY <1>6, WithoutIs DEF Listed
  <1>7. ASSUME NEW S, NEW order \in Seq(S), ToSet(order) = S, IsInjective(order), u \notin S,
               S \ {u} = Stored \ {u}
        PROVE  /\ Append(order, u) \in Seq(S \cup {u}) /\ ToSet(Append(order, u)) = S \cup {u}
               /\ IsInjective(Append(order, u)) /\ Keeps(Append(order, u), order)
    BY <1>7, AppendIs
  <1>8. ASSUME NEW order \in {scan'.documents, scan'.entries}
        PROVE  order \in Seq(Stored') /\ ToSet(order) = Stored' /\ IsInjective(order)
    <2>1. CASE Delete(u)
      <3>1. order = Without(scan.documents, u) \/ order = Without(scan.entries, u)
        BY <2>1 DEF Delete
      <3> QED
        BY <3>1, <1>1, <1>4, <1>6, <2>1
    <2>2. CASE Upsert(u, d)
      <3>1. \/ u \in Stored /\ order = scan.documents
            \/ u \notin Stored /\ order = Append(scan.documents, u)
            \/ order = Append(Without(scan.entries, u), u)
        BY <2>2 DEF Upsert
      <3>2. CASE u \in Stored /\ order = scan.documents
        <4>1. Stored' = Stored
          BY <1>4, <2>2, <3>2
        <4> QED
          BY <4>1, <3>2, <1>1 DEF Listed
      <3>3. CASE u \notin Stored /\ order = Append(scan.documents, u)
        BY <3>3, <1>1, <1>4, <1>7, <2>2 DEF Listed
      <3>4. CASE order = Append(Without(scan.entries, u), u)
        <4>1. /\ order \in Seq((Stored \ {u}) \cup {u}) /\ IsInjective(order)
              /\ ToSet(order) = (Stored \ {u}) \cup {u}
          BY <3>4, <1>1, <1>6, <1>7
        <4>2. Stored' = (Stored \ {u}) \cup {u}
          BY <1>4, <2>2
        <4> QED
          BY <4>1, <4>2
      <3> QED
        BY <3>1, <3>2, <3>3, <3>4
    <2> QED
      BY <2>1, <2>2
  <1>9. TypeOK'
    <2>1. writes' \in 0 .. MaxWrites /\ touched' \subseteq Urls
      BY <1>2, MaxWritesAssumption DEF TypeOK
    <2> QED
      BY <1>2, <1>3, <1>8, <2>1 DEF TypeOK, session
  <1>10. Keeps(scan'.documents, scan.documents) /\ Keeps(scan'.entries, scan.entries)
    <2>1. CASE Delete(u)
      <3>1. /\ scan'.documents = Without(scan.documents, u)
            /\ scan'.entries = Without(scan.entries, u)
        BY <2>1 DEF Delete
      <3> QED
        BY <3>1, <1>1, <1>6
    <2>2. CASE Upsert(u, d)
      <3>1. /\ scan'.entries = Append(Without(scan.entries, u), u)
            /\ scan'.documents = IF u \in Stored THEN scan.documents
                                 ELSE Append(scan.documents, u)
        BY <2>2 DEF Upsert
      <3>2. Keeps(scan'.documents, scan.documents)
        BY <3>1, <1>1, <1>7 DEF Listed
      <3>3. PICK order : order = Without(scan.entries, u)
        OBVIOUS
      <3>4. /\ order \in Seq(Stored \ {u}) /\ ToSet(order) = Stored \ {u}
            /\ IsInjective(order) /\ Keeps(order, scan.entries)
        BY <3>3, <1>1, <1>6
      <3>5. Keeps(Append(order, u), order)
        BY <3>4, <1>7
      <3> QED
        BY <3>1, <3>2, <3>3, <3>4, <3>5
    <2> QED
      BY <2>1, <2>2
  <1>11. ASSUME NEW q, NEW x \in Stored \ {u}, NEW y \in Stored \ {u}
         PROVE  Position(q, x)' < Position(q, y)' <=> Position(q, x) < Position(q, y)
    BY <1>10 DEF Position
  <1> HIDE DEF Keeps
  <1> QED
    BY <1>2, <1>4, <1>5, <1>9, <1>11

LEMMA SameIndex ==
  ASSUME UNCHANGED index
  PROVE  /\ Stored' = Stored
         /\ \A q : Rows(q)' = Rows(q) /\ \A u : Rank(q, u)' = Rank(q, u)
  <1>1. docs' = docs /\ scan' = scan
    BY DEF index
  <1>2. Stored' = Stored
    BY <1>1 DEF Stored
  <1>3. \A q : Rows(q)' = Rows(q)
    BY <1>1, <1>2 DEF Rows, WordRows, PhraseRows
  <1>4. \A q, u, v : Before(q, u, v)' <=> Before(q, u, v)
    BY <1>1 DEF Before, Keys, Position
  <1> QED
    BY <1>2, <1>3, <1>4 DEF Rank

LEMMA TypeStep ==
  ASSUME TypeOK, [Next]_vars
  PROVE  TypeOK'
  <1>1. CASE UNCHANGED vars
    <2>1. UNCHANGED <<docs, scan, query, shown, offset, ended, touched, writes>>
      BY <1>1 DEF vars, index, session, history
    <2> QED
      BY <2>1 DEF TypeOK, Stored
  <1>2. ASSUME UNCHANGED index, query' \in Queries \cup {None}, shown' \in Seq(Urls),
               offset' \in Nat, ended' \in BOOLEAN, touched' \subseteq Urls,
               writes' \in 0 .. MaxWrites
        PROVE  TypeOK'
    <2>1. docs' = docs /\ scan' = scan /\ Stored' = Stored
      BY <1>2, SameIndex DEF index
    <2> QED
      BY <1>2, <2>1 DEF TypeOK
  <1>3. ASSUME NEW q \in Queries, NEW from \in Nat
        PROVE  Hits(q, from) \in Seq(Urls) /\ SafeLimit(q) \in Nat
    <2>1. Hits(q, from) \in Seq(Rows(q)) /\ Rows(q) \subseteq Urls
      BY HitsAre, RowsAreStored, StoredIs
    <2>2. Hits(q, from) \in Seq(Urls)
      BY <2>1, SeqMonotonic
    <2> QED
      BY <2>2, SafeLimitIs
  <1>4. ASSUME NEW q \in Queries, Ask(q) PROVE TypeOK'
    <2>1. /\ UNCHANGED index /\ query' = q /\ shown' = Hits(q, 0) /\ offset' = SafeLimit(q)
          /\ ended' \in BOOLEAN /\ touched' = {} /\ writes' = 0
      BY <1>4 DEF Ask
    <2>2. writes' \in 0 .. MaxWrites
      BY <2>1, MaxWritesAssumption
    <2> QED
      BY <1>2, <1>3, <2>1, <2>2
  <1>5. CASE NextPage
    <2>1. /\ UNCHANGED <<index, query, history>> /\ query \in Queries /\ offset \in Nat
          /\ shown' = shown \o Hits(query, offset) /\ offset' = offset + SafeLimit(query)
          /\ ended' \in BOOLEAN /\ shown \in Seq(Urls)
      BY <1>5 DEF NextPage, TypeOK
    <2>2. shown' \in Seq(Urls)
      BY <1>3, <2>1, ConcatProperties
    <2>3. offset' \in Nat
      BY <2>1, SafeLimitIs
    <2> QED
      BY <1>2, <2>1, <2>2, <2>3 DEF TypeOK, history
  <1>6. ASSUME NEW u \in Urls, NEW d \in Documents, Upsert(u, d) PROVE TypeOK'
    BY <1>6, WriteIs
  <1>7. ASSUME NEW u \in Urls, Delete(u) PROVE TypeOK'
    <2>1. docs[u] \in Documents
      BY <1>7, StoredIs DEF Delete
    <2> QED
      BY <1>7, <2>1, WriteIs
  <1> QED
    BY <1>1, <1>4, <1>5, <1>6, <1>7 DEF Next

\* initialize and upsert_document: the rows are those of the stored documents,
\* each once, and the search keeps its types.
THEOREM TypeCorrect == Spec => []TypeOK
  BY TypeInit, TypeStep, PTL DEF Spec

-----------------------------------------------------------------------------
(* What the pages show.                                                    *)

\* The session after a page: its hits are appended to what was shown.
LEMMA PageIs ==
  ASSUME TypeOK, NEW q \in Queries, NEW from \in Nat, NEW before \in Seq(Urls),
         UNCHANGED index, query' = q, shown' = before \o Hits(q, from),
         offset' = from + SafeLimit(q), ended' => Len(Hits(q, from)) < SafeLimit(q)
  PROVE  LET hits == Hits(q, from) IN
         /\ Rows(q)' = Rows(q) /\ \A u : Rank(q, u)' = Rank(q, u)
         /\ Len(before) \in Nat /\ Len(hits) \in Nat /\ SafeLimit(q) \in Nat \ {0}
         /\ DOMAIN shown' = 1 .. Len(before) + Len(hits)
         /\ \A i \in 1 .. Len(before) : shown'[i] = before[i]
         /\ \A i \in 1 .. Len(hits) :
               /\ shown'[Len(before) + i] = hits[i] /\ hits[i] \in Rows(q)
               /\ Rank(q, hits[i]) = from + i
         /\ \A u \in Rows(q) :
               /\ Rank(q, u) \in Nat \ {0}
               /\ from < Rank(q, u) /\ Rank(q, u) <= offset'
                     <=> \E i \in 1 .. Len(hits) : hits[i] = u
         /\ ended' => \A u \in Rows(q) : Rank(q, u) <= offset'
         /\ Len(hits) <= SafeLimit(q)
  <1> DEFINE hits == Hits(q, from)
  <1>1. Rows(q)' = Rows(q) /\ \A u : Rank(q, u)' = Rank(q, u)
    BY SameIndex
  <1>2. hits \in Seq(Urls) /\ Len(before) \in Nat
    <2>1. hits \in Seq(Rows(q)) /\ Rows(q) \subseteq Urls
      BY HitsAre, RowsAreStored, StoredIs
    <2> QED
      BY <2>1, SeqMonotonic
  <1>3. SafeLimit(q) \in Nat \ {0}
    BY SafeLimitIs
  <1>4. /\ Len(hits) \in Nat
        /\ \A u \in Rows(q) : from < Rank(q, u) /\ Rank(q, u) <= from + SafeLimit(q)
                                     <=> \E i \in 1 .. Len(hits) : hits[i] = u
        /\ \A i \in 1 .. Len(hits) : hits[i] \in Rows(q) /\ Rank(q, hits[i]) = from + i
        /\ Len(hits) < SafeLimit(q) => \A u \in Rows(q) : Rank(q, u) <= from + SafeLimit(q)
        /\ Len(hits) <= SafeLimit(q)
    BY HitsHave
  <1>5. \A u \in Rows(q) : Rank(q, u) \in Nat \ {0}
    BY RankIs
  <1> HIDE DEF hits
  <1>6. shown' = before \o hits
    BY DEF hits
  <1>7. /\ Len(shown') = Len(before) + Len(hits) /\ shown' \in Seq(Urls)
        /\ \A i \in 1 .. Len(before) + Len(hits) :
               shown'[i] = IF i <= Len(before) THEN before[i] ELSE hits[i - Len(before)]
    BY <1>2, <1>6, ConcatProperties
  <1>8. DOMAIN shown' = 1 .. Len(before) + Len(hits)
    BY <1>7
  <1>9. \A i \in 1 .. Len(before) : shown'[i] = before[i]
    BY <1>2, <1>4, <1>7
  <1>10. ASSUME NEW i \in 1 .. Len(hits) PROVE shown'[Len(before) + i] = hits[i]
    <2>1. /\ Len(before) + i \in 1 .. Len(before) + Len(hits) /\ ~(Len(before) + i <= Len(before))
          /\ (Len(before) + i) - Len(before) = i
      BY <1>2, <1>4
    <2> QED
      BY <1>7, <2>1
  <1> QED
    BY <1>1, <1>2, <1>3, <1>4, <1>5, <1>8, <1>9, <1>10 DEF hits

\* Nobody has changed the index: each page continues the list by rank.
LEMMA ExactStep ==
  ASSUME TypeOK, ExactInv, [Next]_vars
  PROVE  ExactInv'
  <1>1. CASE UNCHANGED vars
    <2>1. UNCHANGED <<index, query, shown, offset, ended, writes>>
      BY <1>1 DEF vars, session, history
    <2>2. /\ Rows(query)' = Rows(query) /\ \A u : Rank(query, u)' = Rank(query, u)
      BY <2>1, SameIndex
    <2>3. Passed' = Passed /\ Once' = Once
      BY <2>1, <2>2 DEF Passed, Once
    <2> QED
      BY <2>1, <2>2, <2>3 DEF ExactInv
  \* A page whose hits come next by rank.
  <1>2. ASSUME NEW q \in Queries, NEW from \in Nat, NEW before \in Seq(Urls),
               UNCHANGED index, query' = q, shown' = before \o Hits(q, from),
               offset' = from + SafeLimit(q), ended' = (Len(Hits(q, from)) < SafeLimit(q)),
               Len(before) = from,
               \A i \in DOMAIN before : before[i] \in Rows(q) /\ Rank(q, before[i]) = i,
               \A u \in Rows(q) : Rank(q, u) <= from => \E i \in DOMAIN before : before[i] = u
        PROVE  ExactInv'
    <2> DEFINE hits == Hits(q, from)
    <2>1. /\ Rows(q)' = Rows(q) /\ \A u : Rank(q, u)' = Rank(q, u)
          /\ Len(before) \in Nat /\ Len(hits) \in Nat /\ SafeLimit(q) \in Nat \ {0}
          /\ DOMAIN shown' = 1 .. Len(before) + Len(hits)
          /\ \A i \in 1 .. Len(before) : shown'[i] = before[i]
          /\ \A i \in 1 .. Len(hits) :
                /\ shown'[Len(before) + i] = hits[i] /\ hits[i] \in Rows(q)
                /\ Rank(q, hits[i]) = from + i
          /\ \A u \in Rows(q) :
                /\ Rank(q, u) \in Nat \ {0}
                /\ from < Rank(q, u) /\ Rank(q, u) <= offset'
                      <=> \E i \in 1 .. Len(hits) : hits[i] = u
          /\ ended' => \A u \in Rows(q) : Rank(q, u) <= offset'
          /\ Len(hits) <= SafeLimit(q)
      BY <1>2, PageIs
    <2> HIDE DEF hits
    <2>2. DOMAIN before = 1 .. from
      BY <1>2
    <2>3. ASSUME NEW i \in DOMAIN shown'
          PROVE  shown'[i] \in Rows(q) /\ Rank(q, shown'[i]) = i
      <3>1. CASE i \in 1 .. from
        BY <1>2, <2>1, <2>2, <3>1
      <3>2. CASE i \notin 1 .. from
        <4>1. PICK j : j = i - from
          OBVIOUS
        <4>2. j \in 1 .. Len(hits) /\ Len(before) + j = i /\ from + j = i
          BY <1>2, <2>1, <3>2, <4>1
        <4> QED
          BY <2>1, <4>2
      <3> QED
        BY <3>1, <3>2
    <2>4. ASSUME NEW u \in Rows(q), Rank(q, u) <= offset'
          PROVE  \E i \in DOMAIN shown' : shown'[i] = u
      <3>1. CASE Rank(q, u) <= from
        <4>1. PICK i \in 1 .. from : before[i] = u
          BY <1>2, <2>2, <3>1
        <4>2. i \in DOMAIN shown' /\ shown'[i] = u
          BY <1>2, <2>1, <4>1
        <4> QED
          BY <4>2
      <3>2. CASE ~(Rank(q, u) <= from)
        <4>1. from < Rank(q, u)
          BY <2>1, <3>2
        <4>2. PICK i \in 1 .. Len(hits) : hits[i] = u
          BY <2>1, <2>4, <4>1
        <4>3. Len(before) + i \in DOMAIN shown' /\ shown'[Len(before) + i] = u
          BY <2>1, <4>2
        <4> QED
          BY <4>3
      <3> QED
        BY <3>1, <3>2
    <2>5. Rows(q) \subseteq Urls
      BY RowsAreStored, StoredIs
    <2>6. Passed' \subseteq Once'
      BY <1>2, <2>1, <2>4, <2>5 DEF Passed, Once
    <2>7. ended' => Rows(query)' \subseteq Once'
      BY <1>2, <2>1, <2>4, <2>5 DEF Once
    <2>8. ~ended' => Len(shown)' = offset'
      <3>1. shown' \in Seq(Urls) /\ Len(shown') = Len(before) + Len(hits)
        <4>1. TypeOK'
          BY TypeStep
        <4>2. shown' \in Seq(Urls)
          BY <4>1 DEF TypeOK
        <4> QED
          BY <2>1, <4>2
      <3>2. ~ended' => ~(Len(hits) < SafeLimit(q))
        BY <1>2 DEF hits
      <3>3. offset' = Len(before) + SafeLimit(q)
        BY <1>2
      <3>4. SafeLimit(q) \in Nat /\ Len(hits) \in Nat /\ Len(hits) <= SafeLimit(q)
        BY <2>1
      <3>5. ~ended' => Len(hits) = SafeLimit(q)
        BY <3>2, <3>4
      <3> QED
        BY <3>1, <3>3, <3>5
    <2>9. \A i \in DOMAIN shown' : shown'[i] \in Rows(query)' /\ Rank(query, shown[i])' = i
      BY <1>2, <2>1, <2>3
    <2> QED
      BY <2>6, <2>7, <2>8, <2>9 DEF ExactInv
  <1>3. ASSUME NEW q \in Queries, Ask(q) PROVE ExactInv'
    <2>1. /\ UNCHANGED index /\ query' = q /\ shown' = Hits(q, 0) /\ offset' = SafeLimit(q)
          /\ ended' = (Len(Hits(q, 0)) < SafeLimit(q))
      BY <1>3 DEF Ask
    <2>2. <<>> \in Seq(Urls) /\ Len(<<>>) = 0 /\ DOMAIN <<>> = {}
      OBVIOUS
    <2>3. Hits(q, 0) \in Seq(Rows(q)) /\ SafeLimit(q) \in Nat
      BY HitsAre, SafeLimitIs
    <2>4. shown' = <<>> \o Hits(q, 0) /\ offset' = 0 + SafeLimit(q)
      BY <2>1, <2>3, ConcatEmptySeq
    <2>5. \A u \in Rows(q) : ~(Rank(q, u) <= 0)
      BY RankIs
    <2> QED
      BY <1>2, <2>1, <2>2, <2>4, <2>5
  <1>4. CASE NextPage
    <2>1. /\ UNCHANGED <<index, query, writes>> /\ query # None /\ ~ended
          /\ shown' = shown \o Hits(query, offset) /\ offset' = offset + SafeLimit(query)
          /\ ended' = (Len(Hits(query, offset)) < SafeLimit(query))
      BY <1>4 DEF NextPage, history
    <2>2. query \in Queries /\ offset \in Nat /\ shown \in Seq(Urls)
      BY <2>1 DEF TypeOK
    <2>3. CASE writes # 0
      BY <2>1, <2>3 DEF ExactInv
    <2>4. CASE writes = 0
      <3>1. /\ \A i \in DOMAIN shown : shown[i] \in Rows(query) /\ Rank(query, shown[i]) = i
            /\ Passed \subseteq Once /\ Len(shown) = offset
        BY <2>1, <2>4 DEF ExactInv
      <3>2. \A u \in Rows(query) : Rank(query, u) <= offset => \E i \in DOMAIN shown : shown[i] = u
        BY <3>1 DEF Passed, Once
      <3> QED
        BY <1>2, <2>1, <2>2, <3>1, <3>2
    <2> QED
      BY <2>3, <2>4
  <1>5. ASSUME NEW u \in Urls, NEW d \in Documents, Upsert(u, d) \/ Delete(u) PROVE ExactInv'
    <2>1. writes' # 0
      BY <1>5, WriteIs DEF TypeOK
    <2> QED
      BY <2>1 DEF ExactInv
  <1>6. ASSUME NEW u \in Urls, Delete(u) PROVE ExactInv'
    <2>1. docs[u] \in Documents
      BY <1>6, StoredIs DEF Delete
    <2> QED
      BY <1>5, <1>6, <2>1
  <1> QED
    BY <1>1, <1>3, <1>4, <1>5, <1>6 DEF Next

-----------------------------------------------------------------------------
(* What was wanted.                                                        *)

LEMMA DayIs ==
  ASSUME NEW at \in Nat, NEW n \in Nat
  PROVE  /\ n <= at \div DaySeconds <=> at >= n * DaySeconds
         /\ at \div DaySeconds <= n <=> at <= (n + 1) * DaySeconds - 1
  <1> DEFINE k == at \div DaySeconds
             D == DaySeconds
  <1>1. D \in Nat /\ D > 0
    BY DaySecondsAssumption
  <1>2. k \in Nat /\ k * D <= at /\ at < (k + 1) * D
    BY <1>1
  <1> HIDE DEF k, D
  <1>3. \A a, b \in Nat : a <= b => a * D <= b * D
    BY <1>1
  <1>4. n * D \in Nat /\ k * D \in Nat /\ (n + 1) * D \in Nat /\ (k + 1) * D \in Nat
    BY <1>1, <1>2
  <1>5. n <= k => at >= n * D
    BY <1>2, <1>3, <1>4
  <1>6. k + 1 <= n => at < n * D
    BY <1>2, <1>3, <1>4
  <1>7. k <= n => at < (n + 1) * D
    <2>1. k <= n => k + 1 <= n + 1 /\ k + 1 \in Nat /\ n + 1 \in Nat
      BY <1>2
    <2> QED
      BY <1>2, <1>3, <1>4, <2>1
  <1>8. n + 1 <= k => at >= (n + 1) * D
    BY <1>2, <1>3, <1>4
  <1>9. n <= k <=> at >= n * D
    BY <1>2, <1>4, <1>5, <1>6
  <1>10. k <= n <=> at <= (n + 1) * D - 1
    BY <1>2, <1>4, <1>7, <1>8
  <1> QED
    BY <1>9, <1>10 DEF k, D

\* The statement finds what somebody wants, but for the last second of a day.
LEMMA RowsAreWanted ==
  ASSUME TypeOK, NEW q \in Queries, Len(q.words) = 1
  PROVE  Rows(q) = Wanted(q) \ TooLate(q)
  <1>1. Rows(q) = WordRows(q)
    BY DEF Rows
  <1>2. ASSUME NEW u \in Stored
        PROVE  Frequency(docs[u], q.words[1]) > 0
                  <=> \E i \in DOMAIN docs[u].content : docs[u].content[i] = q.words[1]
    <2> DEFINE c == docs[u].content
               I == {i \in DOMAIN c : c[i] = q.words[1]}
    <2>1. c \in Seq(Words)
      BY StoredIs, DocumentsAssumption
    <2>2. IsFiniteSet(DOMAIN c)
      <3>1. PICK n \in Nat : DOMAIN c = 1 .. n
        BY <2>1
      <3> QED
        BY <3>1, FS_Interval
    <2>3. I \in SUBSET (DOMAIN c)
      OBVIOUS
    <2> HIDE DEF I
    <2>4. IsFiniteSet(I) /\ Cardinality(I) \in Nat
      BY <2>2, <2>3, FS_Subset, FS_CardinalityType
    <2>5. Cardinality(I) = 0 <=> I = {}
      BY <2>4, FS_EmptySet
    <2>6. Frequency(docs[u], q.words[1]) = Cardinality(I)
      BY DEF Frequency, I
    <2>7. I # {} <=> \E i \in DOMAIN c : c[i] = q.words[1]
      BY DEF I
    <2> QED
      BY <2>4, <2>5, <2>6, <2>7
  <1>3. ASSUME NEW u \in Stored
        PROVE  InDays(docs[u], q) <=>
                  /\ q.from # None => q.from <= docs[u].at \div DaySeconds
                  /\ q.to # None => docs[u].at \div DaySeconds <= q.to
                  /\ ~(q.to # None /\ docs[u].at = (q.to + 1) * DaySeconds - 1)
    <2>1. docs[u].at \in Nat
      BY StoredIs, DocumentsAssumption
    <2>2. q.from # None => (q.from <= docs[u].at \div DaySeconds
                               <=> docs[u].at >= q.from * DaySeconds)
      BY <2>1, DayIs, QueriesAssumption
    <2>3. q.to # None => (docs[u].at < (q.to + 1) * DaySeconds - 1
                             <=> /\ docs[u].at \div DaySeconds <= q.to
                                 /\ docs[u].at # (q.to + 1) * DaySeconds - 1)
      <3> SUFFICES ASSUME q.to # None
                   PROVE  docs[u].at < (q.to + 1) * DaySeconds - 1
                             <=> /\ docs[u].at \div DaySeconds <= q.to
                                 /\ docs[u].at # (q.to + 1) * DaySeconds - 1
        OBVIOUS
      <3>1. q.to \in Nat
        BY QueriesAssumption
      <3>2. docs[u].at \div DaySeconds <= q.to <=> docs[u].at <= (q.to + 1) * DaySeconds - 1
        BY <2>1, <3>1, DayIs
      <3>3. (q.to + 1) * DaySeconds - 1 \in Int
        BY <3>1, DaySecondsAssumption
      <3> QED
        BY <2>1, <3>2, <3>3
    <2> QED
      BY <2>2, <2>3 DEF InDays
  <1> QED
    BY <1>1, <1>2, <1>3 DEF WordRows, Wanted, TooLate

\* manager.py:305-336 and sqlite_storage.py:250-268: without writes the pages are
\* one list in order of rank, without a repetition, and complete at its end.
THEOREM PagesAreExact == Spec => []PagingIsExact
  <1>1. TypeOK /\ ExactInv /\ [Next]_vars => TypeOK' /\ ExactInv'
    BY TypeStep, ExactStep
  <1>2. Init => ExactInv
    BY DEF Init, ExactInv
  <1>3. ASSUME TypeOK, ExactInv PROVE PagingIsExact
    <2> SUFFICES ASSUME WordSearch, writes = 0
                 PROVE  /\ IsInjective(shown)
                        /\ \A i, j \in DOMAIN shown :
                              i < j => ~Above(Keys(query, shown[j]), Keys(query, shown[i]))
                        /\ ToSet(shown) \subseteq Wanted(query)
                        /\ ended => Wanted(query) \ TooLate(query) \subseteq ToSet(shown)
      BY DEF PagingIsExact
    <2>1. query \in Queries /\ Len(query.words) = 1
      BY <1>3 DEF TypeOK, WordSearch
    <2>2. /\ \A i \in DOMAIN shown : shown[i] \in Rows(query) /\ Rank(query, shown[i]) = i
          /\ ended => Rows(query) \subseteq Once
      BY <1>3 DEF ExactInv, WordSearch
    <2>3. IsInjective(shown)
      BY <2>2 DEF IsInjective
    <2>4. ASSUME NEW i \in DOMAIN shown, NEW j \in DOMAIN shown, i < j
          PROVE  ~Above(Keys(query, shown[j]), Keys(query, shown[i]))
      <3>1. Before(query, shown[i], shown[j])
        BY <1>3, <2>2, <2>4, RankIs
      <3>2. shown[i] \in Stored /\ shown[j] \in Stored
        BY <1>3, <2>2, RowsAreStored
      <3> QED
        BY <1>3, <3>1, <3>2, BeforeOrders
    <2>5. Rows(query) = Wanted(query) \ TooLate(query)
      BY <1>3, <2>1, RowsAreWanted
    <2>6. ToSet(shown) \subseteq Rows(query) /\ Once \subseteq ToSet(shown)
      BY <2>2 DEF ToSet, Once
    <2> QED
      BY <2>2, <2>3, <2>4, <2>5, <2>6
  <1> QED
    BY <1>1, <1>2, <1>3, TypeInit, PTL DEF Spec

-----------------------------------------------------------------------------
(* Writes between the pages.                                               *)

\* Beside the row that is written, at most one row comes over an edge.
LEMMA EdgeMoves ==
  ASSUME TypeOK, NEW u, NEW q, NEW edge \in Nat,
         Rows(q)' \ {u} = Rows(q) \ {u},
         \A v, w \in Rows(q) \ {u} : Before(q, v, w)' <=> Before(q, v, w)
  PROVE  \E x : \A v \in Rows(q) \ {u} :
            v # x => (Rank(q, v) <= edge <=> Rank(q, v)' <= edge)
  <1>1. PICK Q : Q = Rows(q) \ {u}
    OBVIOUS
  <1>2. PICK c : c = [v \in Q |-> {w \in Q : Before(q, w, v)}]
    OBVIOUS
  <1>3. Q \subseteq Stored /\ IsFiniteSet(Q)
    <2>1. Q \in SUBSET Rows(q)
      BY <1>1
    <2> QED
      BY <2>1, RowsAreStored, FS_Subset
  <1>4. /\ c \in [Q -> SUBSET Q]
        /\ \A v, w \in Q : w \in c[v] <=> Before(q, w, v)
    BY <1>2
  <1>5. /\ \A v \in Q : v \notin c[v]
        /\ \A v, w \in Q : v # w => v \in c[w] \/ w \in c[v]
    BY <1>3, <1>4, BeforeOrders
  <1>6. ASSUME NEW v \in Q, NEW w \in Q, w \in c[v] PROVE c[w] \subseteq c[v]
    BY <1>3, <1>4, <1>6, BeforeOrders
  <1>7. \A v, w \in Q : v \in c[w] <=> Cardinality(c[v]) < Cardinality(c[w])
    BY <1>3, <1>4, <1>5, <1>6, Ranks
  <1>8. \A v \in Q : IsFiniteSet(c[v]) /\ Cardinality(c[v]) \in Nat
    BY <1>3, <1>4, FS_Subset, FS_CardinalityType
  <1>9. \A v, w \in Q : Cardinality(c[v]) = Cardinality(c[w]) => v = w
    BY <1>5, <1>7, <1>8
  <1>10. ASSUME NEW v \in Q
         PROVE  \A S \in {c[v], c[v] \cup {u}} :
                   Cardinality(S) = Cardinality(c[v]) \/ Cardinality(S) = Cardinality(c[v]) + 1
    <2>1. Cardinality(c[v] \cup {u}) = IF u \in c[v] THEN Cardinality(c[v])
                                       ELSE Cardinality(c[v]) + 1
      BY <1>8, FS_AddElement
    <2> QED
      BY <2>1
  <1>11. ASSUME NEW v \in Q
         PROVE  Rank(q, v) = Cardinality(c[v]) + 1 \/ Rank(q, v) = Cardinality(c[v]) + 1 + 1
    <2>1. {w \in Rows(q) : Before(q, w, v)} \in {c[v], c[v] \cup {u}}
      BY <1>1, <1>4
    <2> QED
      BY <2>1, <1>10 DEF Rank
  <1>12. ASSUME NEW v \in Q
         PROVE  Rank(q, v)' = Cardinality(c[v]) + 1 \/ Rank(q, v)' = Cardinality(c[v]) + 1 + 1
    <2>1. {w \in Rows(q)' : Before(q, w, v)'} \in {c[v], c[v] \cup {u}}
      BY <1>1, <1>4
    <2>2. Rank(q, v)' = Cardinality({w \in Rows(q)' : Before(q, w, v)'}) + 1
      BY DEF Rank
    <2> QED
      BY <2>1, <2>2, <1>10
  <1>13. ASSUME NEW v \in Q, Cardinality(c[v]) + 1 # edge
         PROVE  Rank(q, v) <= edge <=> Rank(q, v)' <= edge
    BY <1>8, <1>11, <1>12, <1>13
  <1>14. CASE \E x \in Q : Cardinality(c[x]) + 1 = edge
    <2>1. PICK x \in Q : Cardinality(c[x]) + 1 = edge
      BY <1>14
    <2>2. ASSUME NEW v \in Q, v # x PROVE Cardinality(c[v]) + 1 # edge
      BY <1>8, <1>9, <2>1, <2>2
    <2> QED
      BY <1>1, <1>13, <2>2
  <1>15. CASE ~ \E x \in Q : Cardinality(c[x]) + 1 = edge
    BY <1>1, <1>13, <1>15
  <1> QED
    BY <1>14, <1>15

LEMMA Bigger ==
  ASSUME NEW A, NEW B, NEW n \in Int, IsFiniteSet(B), Cardinality(B) <= n
  PROVE  /\ A \subseteq B => Cardinality(A) <= n
         /\ \A x : A \subseteq B \cup {x} => Cardinality(A) <= n + 1
  <1>1. Cardinality(B) \in Nat
    BY FS_CardinalityType
  <1>2. ASSUME A \subseteq B PROVE Cardinality(A) <= n
    <2>1. A \in SUBSET B
      BY <1>2
    <2>2. IsFiniteSet(A) /\ Cardinality(A) <= Cardinality(B)
      BY <2>1, FS_Subset
    <2> QED
      BY <1>1, <2>2, FS_CardinalityType
  <1>3. ASSUME NEW x, A \subseteq B \cup {x} PROVE Cardinality(A) <= n + 1
    <2>1. A \in SUBSET (B \cup {x})
      BY <1>3
    <2>2. /\ IsFiniteSet(B \cup {x})
          /\ Cardinality(B \cup {x}) = IF x \in B THEN Cardinality(B) ELSE Cardinality(B) + 1
      BY FS_AddElement
    <2>3. IsFiniteSet(A) /\ Cardinality(A) <= Cardinality(B \cup {x})
      BY <2>1, <2>2, FS_Subset
    <2>4. Cardinality(A) \in Nat
      BY <2>3, FS_CardinalityType
    <2> QED
      BY <1>1, <2>2, <2>3, <2>4
  <1> QED
    BY <1>2, <1>3

Again  == {u \in Steady : u \in Twice \/ (u \in Once /\ u \notin Passed)}
Missed == {u \in Steady : u \in Passed /\ u \notin Once}
Unseen == {u \in Steady : u \notin Once}

LEMMA DriftIs ==
  /\ DriftInv <=> (query # None => /\ Cardinality(Again) <= writes
                                   /\ Cardinality(Missed) <= writes
                                   /\ ended => Cardinality(Unseen) <= writes)
  /\ TypeOK => IsFiniteSet(Again) /\ IsFiniteSet(Missed) /\ IsFiniteSet(Unseen)
  <1>1. DriftInv <=> (query # None => /\ Cardinality(Again) <= writes
                                      /\ Cardinality(Missed) <= writes
                                      /\ ended => Cardinality(Unseen) <= writes)
    BY DEF DriftInv, Again, Missed, Unseen
  <1>2. ASSUME TypeOK PROVE IsFiniteSet(Again) /\ IsFiniteSet(Missed) /\ IsFiniteSet(Unseen)
    <2>1. IsFiniteSet(Rows(query))
      BY <1>2, RowsAreStored
    <2>2. /\ Again \in SUBSET Rows(query) /\ Missed \in SUBSET Rows(query)
          /\ Unseen \in SUBSET Rows(query)
      BY DEF Again, Missed, Unseen, Steady
    <2> QED
      BY <2>1, <2>2, FS_Subset
  <1> QED
    BY <1>1, <1>2

LEMMA DriftWrite ==
  ASSUME TypeOK, DriftInv, NEW u \in Urls, NEW d \in Documents, Upsert(u, d) \/ Delete(u)
  PROVE  DriftInv'
  <1>1. /\ TypeOK' /\ UNCHANGED session /\ writes' = writes + 1 /\ touched' = touched \cup {u}
        /\ Stored' \ {u} = Stored \ {u}
        /\ \A x \in Stored \ {u} : docs'[x] = docs[x]
        /\ \A q : \A x, y \in Stored \ {u} :
              Position(q, x)' < Position(q, y)' <=> Position(q, x) < Position(q, y)
    BY WriteIs
  <1>2. UNCHANGED <<query, shown, offset, ended>>
    BY <1>1 DEF session
  <1> SUFFICES ASSUME query # None PROVE DriftInv'
    BY <1>2 DEF DriftInv
  <1>3. writes \in Nat /\ offset \in Nat
    BY DEF TypeOK
  <1>4. Rows(query)' \ {u} = Rows(query) \ {u}
    <2>1. ASSUME NEW x \in Stored \ {u} PROVE x \in Rows(query)' <=> x \in Rows(query)
      <3>1. x \in Stored' /\ docs'[x] = docs[x] /\ query' = query
        BY <1>1, <1>2
      <3> QED
        BY <3>1 DEF Rows, WordRows, PhraseRows
    <2>2. Rows(query) \subseteq Stored /\ Rows(query)' \subseteq Stored'
      BY DEF Rows, WordRows, PhraseRows
    <2> QED
      BY <1>1, <2>1, <2>2
  <1>5. Rows(query) \subseteq Stored
    BY RowsAreStored
  <1>6. ASSUME NEW v \in Rows(query) \ {u}, NEW w \in Rows(query) \ {u}
        PROVE  Before(query, v, w)' <=> Before(query, v, w)
    <2>1. Keys(query, v)' = Keys(query, v) /\ Keys(query, w)' = Keys(query, w)
      BY <1>1, <1>2, <1>5 DEF Keys
    <2>2. Position(query, v)' < Position(query, w)' <=> Position(query, v) < Position(query, w)
      BY <1>1, <1>2, <1>5 DEF Position
    <2> QED
      BY <2>1, <2>2 DEF Before, Above
  <1>7. PICK x : \A v \in Rows(query) \ {u} :
                    v # x => (Rank(query, v) <= offset <=> Rank(query, v)' <= offset)
    <2>1. PICK q : q = query
      OBVIOUS
    <2>2. Rows(q)' \ {u} = Rows(q) \ {u}
      BY <1>2, <1>4, <2>1 DEF Rows, WordRows, PhraseRows
    <2>3. ASSUME NEW v \in Rows(q) \ {u}, NEW w \in Rows(q) \ {u}
          PROVE  Before(q, v, w)' <=> Before(q, v, w)
      <3>1. v \in Rows(query) \ {u} /\ w \in Rows(query) \ {u}
        BY <2>1
      <3>2. Before(query, v, w)' <=> Before(query, v, w)
        BY <1>6, <3>1
      <3>3. q = query /\ q = query'
        BY <1>2, <2>1
      <3>4. Before(query, v, w)' <=> Before(q, v, w)'
        <4>1. Keys(query, v)' = Keys(q, v)' /\ Keys(query, w)' = Keys(q, w)'
          BY <3>3 DEF Keys
        <4>2. Position(query, v)' = Position(q, v)' /\ Position(query, w)' = Position(q, w)'
          BY <3>3 DEF Position
        <4> QED
          BY <4>1, <4>2 DEF Before
      <3>5. Before(query, v, w) <=> Before(q, v, w)
        BY <3>3
      <3> QED
        BY <3>2, <3>4, <3>5
    <2>4. PICK x : \A v \in Rows(q) \ {u} :
                    v # x => (Rank(q, v) <= offset <=> Rank(q, v)' <= offset)
      BY <1>3, <2>2, <2>3, EdgeMoves
    <2>5. \A v : Rank(q, v)' = Rank(query, v)'
      BY <1>2, <2>1 DEF Rank, Rows, WordRows, PhraseRows, Before, Keys, Position
    <2> QED
      BY <2>1, <2>4, <2>5
  <1>8. Steady' \subseteq Steady /\ Steady' \subseteq Rows(query) \ {u}
    BY <1>1, <1>4 DEF Steady
  <1>9. \A v \in Steady' : v # x => (v \in Passed' <=> v \in Passed)
    BY <1>2, <1>4, <1>7, <1>8 DEF Passed
  <1>10. Once' = Once /\ Twice' = Twice
    BY <1>2 DEF Once, Twice
  <1>11. Again' \subseteq Again \cup {x} /\ Missed' \subseteq Missed \cup {x}
         /\ Unseen' \subseteq Unseen
    BY <1>8, <1>9, <1>10 DEF Again, Missed, Unseen
  <1>12. Cardinality(Again') <= writes' /\ Cardinality(Missed') <= writes'
    <2>1. /\ IsFiniteSet(Again) /\ Cardinality(Again) <= writes
          /\ IsFiniteSet(Missed) /\ Cardinality(Missed) <= writes /\ writes \in Int
      BY <1>3, DriftIs
    <2>2. Cardinality(Again') <= writes + 1
      BY <2>1, <1>11, Bigger
    <2>3. Cardinality(Missed') <= writes + 1
      BY <2>1, <1>11, Bigger
    <2> QED
      BY <1>1, <2>2, <2>3
  <1>13. ended' => Cardinality(Unseen') <= writes'
    <2> SUFFICES ASSUME ended PROVE Cardinality(Unseen') <= writes'
      BY <1>2
    <2>1. Cardinality(Unseen) <= writes + 1 /\ writes + 1 \in Int /\ IsFiniteSet(Unseen)
      <3>1. Cardinality(Unseen) <= writes /\ IsFiniteSet(Unseen)
        BY DriftIs
      <3> QED
        BY <1>3, <3>1, FS_CardinalityType
    <2> QED
      BY <1>1, <1>11, <2>1, Bigger
  <1> QED
    BY <1>12, <1>13 DEF DriftInv, Again, Missed, Unseen

\* A page shows once more only what was taken over the edge.
LEMMA DriftPage ==
  ASSUME TypeOK, DriftInv, NextPage
  PROVE  DriftInv'
  <1> DEFINE q    == query
             hits == Hits(query, offset)
  <1>1. /\ UNCHANGED index /\ query' = query /\ touched' = touched /\ writes' = writes
        /\ shown' = shown \o hits /\ offset' = offset + SafeLimit(query)
        /\ ended' = (Len(hits) < SafeLimit(query)) /\ query # None
    BY DEF NextPage, history
  <1>2. query \in Queries /\ offset \in Nat /\ shown \in Seq(Urls) /\ writes \in Nat
    BY <1>1 DEF TypeOK
  <1>3. /\ Rows(query)' = Rows(query) /\ \A u : Rank(query, u)' = Rank(query, u)
    <2>1. /\ \A p : Rows(p)' = Rows(p) /\ \A u : Rank(p, u)' = Rank(p, u)
      BY <1>1, SameIndex
    <2>2. Rows(query)' = Rows(query)
      BY <1>1, <2>1 DEF Rows, WordRows, PhraseRows, index, Stored
    <2>3. ASSUME NEW u PROVE Rank(query, u)' = Rank(query, u)
      BY <1>1, <2>2 DEF Rank, Before, Keys, Position, index
    <2> QED
      BY <2>2, <2>3
  <1>4. /\ Len(shown) \in Nat /\ Len(hits) \in Nat /\ SafeLimit(query) \in Nat \ {0}
        /\ DOMAIN shown' = 1 .. Len(shown) + Len(hits)
        /\ \A i \in 1 .. Len(shown) : shown'[i] = shown[i]
        /\ \A i \in 1 .. Len(hits) :
              /\ shown'[Len(shown) + i] = hits[i] /\ hits[i] \in Rows(query)
              /\ Rank(query, hits[i]) = offset + i
        /\ \A u \in Rows(query) :
              /\ Rank(query, u) \in Nat \ {0}
              /\ offset < Rank(query, u) /\ Rank(query, u) <= offset'
                    <=> \E i \in 1 .. Len(hits) : hits[i] = u
        /\ ended' => \A u \in Rows(query) : Rank(query, u) <= offset'
        /\ Len(hits) <= SafeLimit(query)
    <2>1. PICK p, from, before : p = query /\ from = offset /\ before = shown
      OBVIOUS
    <2>2. p \in Queries /\ from \in Nat /\ before \in Seq(Urls)
      BY <2>1, <1>2
    <2>3. hits = Hits(p, from) /\ Rows(query) = Rows(p) /\ SafeLimit(query) = SafeLimit(p)
          /\ \A u : Rank(query, u) = Rank(p, u)
      BY <2>1
    <2>4. /\ UNCHANGED index /\ query' = p /\ shown' = before \o Hits(p, from)
          /\ offset' = from + SafeLimit(p)
      BY <1>1, <2>1
    <2>5. ended' => Len(Hits(p, from)) < SafeLimit(p)
      BY <1>1, <2>1
    <2> HIDE DEF hits
    <2>6. /\ Rows(p)' = Rows(p) /\ \A u : Rank(p, u)' = Rank(p, u)
          /\ Len(before) \in Nat /\ Len(Hits(p, from)) \in Nat /\ SafeLimit(p) \in Nat \ {0}
          /\ DOMAIN shown' = 1 .. Len(before) + Len(Hits(p, from))
          /\ \A i \in 1 .. Len(before) : shown'[i] = before[i]
          /\ \A i \in 1 .. Len(Hits(p, from)) :
                /\ shown'[Len(before) + i] = Hits(p, from)[i] /\ Hits(p, from)[i] \in Rows(p)
                /\ Rank(p, Hits(p, from)[i]) = from + i
          /\ \A u \in Rows(p) :
                /\ Rank(p, u) \in Nat \ {0}
                /\ from < Rank(p, u) /\ Rank(p, u) <= offset'
                      <=> \E i \in 1 .. Len(Hits(p, from)) : Hits(p, from)[i] = u
          /\ ended' => \A u \in Rows(p) : Rank(p, u) <= offset'
          /\ Len(Hits(p, from)) <= SafeLimit(p)
      BY <2>2, <2>4, <2>5, PageIs
    <2> QED
      BY <2>1, <2>3, <2>6
  <1> HIDE DEF hits
  <1>5. Steady' = Steady /\ Steady \subseteq Rows(query) /\ Rows(query) \subseteq Urls
    BY <1>1, <1>3, RowsAreStored, StoredIs DEF Steady
  <1>6. DOMAIN shown = 1 .. Len(shown)
    BY <1>2
  \* Every place of the new list is in the old one or among the new hits.
  <1>7. ASSUME NEW i \in DOMAIN shown'
        PROVE  \/ i \in DOMAIN shown /\ shown'[i] = shown[i]
               \/ \E j \in 1 .. Len(hits) : i = Len(shown) + j /\ shown'[i] = hits[j]
    <2>1. CASE i <= Len(shown)
      BY <2>1, <1>4, <1>6
    <2>2. CASE ~(i <= Len(shown))
      <3>1. PICK j : j = i - Len(shown)
        OBVIOUS
      <3>2. j \in 1 .. Len(hits) /\ i = Len(shown) + j
        BY <2>2, <3>1, <1>4
      <3> QED
        BY <3>2, <1>4
    <2> QED
      BY <2>1, <2>2
  <1>8. ASSUME NEW u \in Steady
        PROVE  /\ u \in Once' <=> u \in Once \/ \E j \in 1 .. Len(hits) : hits[j] = u
               /\ u \in Passed' <=> u \in Passed \/ \E j \in 1 .. Len(hits) : hits[j] = u
               /\ ~ (u \in Passed /\ \E j \in 1 .. Len(hits) : hits[j] = u)
    <2>1. u \in Urls /\ u \in Rows(query)
      BY <1>5
    <2>2. u \in Once' => u \in Once \/ \E j \in 1 .. Len(hits) : hits[j] = u
      <3> SUFFICES ASSUME u \in Once' PROVE u \in Once \/ \E j \in 1 .. Len(hits) : hits[j] = u
        OBVIOUS
      <3>1. PICK i \in DOMAIN shown' : shown'[i] = u
        BY DEF Once
      <3> QED
        BY <3>1, <2>1, <1>7 DEF Once
    <2>3. u \in Once => u \in Once'
      <3> SUFFICES ASSUME u \in Once PROVE u \in Once'
        OBVIOUS
      <3>1. PICK i \in DOMAIN shown : shown[i] = u
        BY DEF Once
      <3>2. i \in DOMAIN shown' /\ shown'[i] = u
        BY <3>1, <1>4, <1>6
      <3> QED
        BY <3>2, <2>1 DEF Once
    <2>4. ASSUME NEW j \in 1 .. Len(hits), hits[j] = u PROVE u \in Once'
      <3>1. Len(shown) + j \in DOMAIN shown' /\ shown'[Len(shown) + j] = u
        BY <2>4, <1>4
      <3> QED
        BY <3>1, <2>1 DEF Once
    <2>5. /\ u \in Passed <=> Rank(query, u) <= offset
          /\ u \in Passed' <=> Rank(query, u) <= offset'
      BY <2>1, <1>1, <1>3 DEF Passed
    <2>6. offset' \in Nat /\ offset < offset' /\ Rank(query, u) \in Nat
      BY <2>1, <1>1, <1>2, <1>4
    <2>7. (\E j \in 1 .. Len(hits) : hits[j] = u)
             <=> offset < Rank(query, u) /\ Rank(query, u) <= offset'
      BY <2>1, <1>4
    <2> QED
      BY <2>2, <2>3, <2>4, <2>5, <2>6, <2>7, <1>2
  <1>9. ASSUME NEW u \in Steady, u \in Twice'
        PROVE  u \in Twice \/ (u \in Once /\ u \notin Passed)
    <2>1. PICK i \in DOMAIN shown', j \in DOMAIN shown' :
             i # j /\ shown'[i] = u /\ shown'[j] = u
      BY <1>9 DEF Twice
    <2>2. u \in Urls
      BY <1>5
    <2>3. CASE i \in DOMAIN shown /\ shown'[i] = shown[i]
               /\ j \in DOMAIN shown /\ shown'[j] = shown[j]
      BY <2>1, <2>2, <2>3 DEF Twice
    <2>4. ASSUME NEW k \in {i, j}, k \in DOMAIN shown, shown'[k] = shown[k],
                 \E m \in 1 .. Len(hits) : hits[m] = u
          PROVE  u \in Once /\ u \notin Passed
      <3>1. u \in Once
        BY <2>1, <2>2, <2>4 DEF Once
      <3> QED
        BY <3>1, <2>4, <1>8
    <2>5. ASSUME NEW k \in 1 .. Len(hits), NEW m \in 1 .. Len(hits),
                 i = Len(shown) + k, shown'[i] = hits[k],
                 j = Len(shown) + m, shown'[j] = hits[m]
          PROVE  FALSE
      <3>1. hits[k] = hits[m]
        BY <2>1, <2>5
      <3>2. offset + k = offset + m
        BY <3>1, <1>4
      <3>3. k \in Int /\ m \in Int
        OBVIOUS
      <3>4. k = m
        BY <3>2, <3>3, <1>2
      <3> QED
        BY <3>4, <2>1, <2>5
    <2> QED
      BY <2>1, <2>3, <2>4, <2>5, <1>7
  <1>10. Again' \subseteq Again
    BY <1>5, <1>8, <1>9 DEF Again
  <1>11. Missed' \subseteq Missed
    BY <1>5, <1>8 DEF Missed
  <1>12. ended' => Unseen' \subseteq Missed
    <2> SUFFICES ASSUME ended', NEW u \in Steady, u \notin Once' PROVE u \in Missed
      BY <1>5 DEF Unseen
    <2>1. u \in Passed'
      BY <1>1, <1>3, <1>4, <1>5 DEF Passed
    <2> QED
      BY <2>1, <1>8 DEF Missed
  <1>13. /\ IsFiniteSet(Again) /\ Cardinality(Again) <= writes
         /\ IsFiniteSet(Missed) /\ Cardinality(Missed) <= writes /\ writes \in Int
    BY <1>1, <1>2, DriftIs
  <1>14. Cardinality(Again') <= writes /\ Cardinality(Missed') <= writes
    BY <1>10, <1>11, <1>13, Bigger
  <1>15. ended' => Cardinality(Unseen') <= writes
    BY <1>12, <1>13, Bigger
  <1> QED
    BY <1>1, <1>14, <1>15 DEF DriftInv, Again, Missed, Unseen

\* The first page shows each of its hits once, and all that is before its edge.
LEMMA DriftAsk ==
  ASSUME TypeOK, NEW q \in Queries, Ask(q)
  PROVE  DriftInv'
  <1> DEFINE hits == Hits(q, 0)
  <1>1. /\ UNCHANGED index /\ query' = q /\ shown' = hits /\ offset' = SafeLimit(q)
        /\ ended' = (Len(hits) < SafeLimit(q)) /\ writes' = 0
    BY DEF Ask
  <1>2. Rows(q)' = Rows(q) /\ \A u : Rank(q, u)' = Rank(q, u)
    BY <1>1, SameIndex
  <1>3. /\ Len(hits) \in Nat
        /\ \A u \in Rows(q) : /\ Rank(q, u) \in Nat
                              /\ 0 < Rank(q, u) /\ Rank(q, u) <= 0 + SafeLimit(q)
                                    <=> \E i \in 1 .. Len(hits) : hits[i] = u
        /\ \A i \in 1 .. Len(hits) : hits[i] \in Rows(q) /\ Rank(q, hits[i]) = 0 + i
        /\ Len(hits) < SafeLimit(q) => \A u \in Rows(q) : Rank(q, u) <= 0 + SafeLimit(q)
    BY HitsHave
  <1>4. SafeLimit(q) \in Nat /\ \A u \in Rows(q) : 0 < Rank(q, u)
    BY SafeLimitIs, RankIs
  <1>5. hits \in Seq(Rows(q)) /\ Rows(q) \subseteq Urls
    BY HitsAre, RowsAreStored, StoredIs
  <1>6. DOMAIN shown' = 1 .. Len(hits)
    BY <1>1, <1>5
  <1> HIDE DEF hits
  <1>7. Rows(query)' = Rows(q) /\ \A u : Rank(query, u)' = Rank(q, u)
    BY <1>1, <1>2 DEF Rank, Rows, WordRows, PhraseRows, Before, Keys, Position, index, Stored
  <1>8. Steady' \subseteq Rows(q)
    BY <1>7 DEF Steady
  <1>9. ASSUME NEW u \in Rows(q)
        PROVE  /\ u \in Once' <=> Rank(q, u) <= SafeLimit(q)
               /\ u \in Passed' <=> Rank(q, u) <= SafeLimit(q)
               /\ u \notin Twice'
               /\ ended' => u \in Once'
    <2>1. u \in Passed' <=> Rank(q, u) <= SafeLimit(q)
      BY <1>1, <1>7 DEF Passed
    <2>2. u \in Once' <=> Rank(q, u) <= SafeLimit(q)
      <3>1. u \in Once' <=> \E i \in 1 .. Len(hits) : hits[i] = u
        BY <1>1, <1>5, <1>6 DEF Once
      <3>2. Rank(q, u) <= 0 + SafeLimit(q) <=> Rank(q, u) <= SafeLimit(q)
        BY <1>3, <1>4
      <3> QED
        BY <3>1, <3>2, <1>3, <1>4
    <2>3. ASSUME u \in Twice' PROVE FALSE
      <3>1. PICK i \in 1 .. Len(hits), j \in 1 .. Len(hits) :
               i # j /\ hits[i] = u /\ hits[j] = u
        BY <2>3, <1>1, <1>6 DEF Twice
      <3>2. 0 + i = 0 + j /\ i \in Int /\ j \in Int
        BY <3>1, <1>3
      <3> QED
        BY <3>1, <3>2
    <2>4. ended' => u \in Once'
      <3>1. ended' => Len(hits) < SafeLimit(q)
        BY <1>1 DEF hits
      <3> QED
        BY <3>1, <2>2, <1>3, <1>4
    <2> QED
      BY <2>1, <2>2, <2>3, <2>4
  <1>10. Again' = {} /\ Missed' = {}
    BY <1>8, <1>9 DEF Again, Missed
  <1>11. ended' => Unseen' = {}
    BY <1>8, <1>9 DEF Unseen
  <1>12. Cardinality({}) = 0
    BY FS_EmptySet
  <1>13. Cardinality(Again') <= writes' /\ Cardinality(Missed') <= writes'
    BY <1>1, <1>10, <1>12
  <1>14. ended' => Cardinality(Unseen') <= writes'
    BY <1>1, <1>11, <1>12
  <1> QED
    BY <1>13, <1>14 DEF DriftInv, Again, Missed, Unseen

LEMMA DriftStep ==
  ASSUME TypeOK, DriftInv, [Next]_vars
  PROVE  DriftInv'
  <1>1. CASE UNCHANGED vars
    <2>1. UNCHANGED <<index, docs, scan, query, shown, offset, ended, touched, writes>>
      BY <1>1 DEF vars, index, session, history
    <2>2. Rows(query)' = Rows(query) /\ \A u : Rank(query, u)' = Rank(query, u)
      BY <2>1 DEF Rank, Rows, WordRows, PhraseRows, Before, Keys, Position, Stored
    <2>3. Steady' = Steady /\ Passed' = Passed /\ Once' = Once /\ Twice' = Twice
      BY <2>1, <2>2 DEF Steady, Passed, Once, Twice
    <2> QED
      BY <2>1, <2>3 DEF DriftInv
  <1>2. ASSUME NEW u \in Urls, Delete(u) PROVE DriftInv'
    <2>1. docs[u] \in Documents
      BY <1>2, StoredIs DEF Delete
    <2> QED
      BY <1>2, <2>1, DriftWrite
  <1> QED
    BY <1>1, <1>2, DriftAsk, DriftPage, DriftWrite DEF Next

\* README.md:30: while crawls and deletions change the index between the pages of
\* a search, no more of the other hits are shown twice, and no more are left out,
\* than writes have happened.
THEOREM PagesDriftLittle == Spec => []PagingDrifts
  <1>1. TypeOK /\ DriftInv /\ [Next]_vars => TypeOK' /\ DriftInv'
    BY TypeStep, DriftStep
  <1>2. Init => DriftInv
    BY DEF Init, DriftInv
  <1>3. ASSUME TypeOK, DriftInv PROVE PagingDrifts
    <2> DEFINE steady   == Wanted(query) \ (TooLate(query) \cup touched)
               Times(u) == Cardinality({i \in DOMAIN shown : shown[i] = u})
    <2> SUFFICES ASSUME WordSearch
                 PROVE  /\ Cardinality({u \in steady : Times(u) > 1}) <= writes
                        /\ ended => Cardinality({u \in steady : Times(u) = 0}) <= writes
      BY DEF PagingDrifts
    <2>1. query \in Queries /\ Len(query.words) = 1 /\ query # None
      BY <1>3 DEF TypeOK, WordSearch
    <2>2. steady = Steady
      <3>1. Rows(query) = Wanted(query) \ TooLate(query)
        BY <1>3, <2>1, RowsAreWanted
      <3> QED
        BY <3>1 DEF Steady
    <2>3. Steady \subseteq Urls
      BY <1>3, RowsAreStored, StoredIs DEF Steady
    <2>4. ASSUME NEW u \in Steady
          PROVE  /\ Times(u) > 1 => u \in Twice
                 /\ Times(u) = 0 => u \notin Once
      <3> DEFINE I == {i \in DOMAIN shown : shown[i] = u}
      <3>1. I \in SUBSET (DOMAIN shown) /\ IsFiniteSet(DOMAIN shown)
        <4>1. PICK n \in Nat : DOMAIN shown = 1 .. n
          BY <1>3 DEF TypeOK
        <4> QED
          BY <4>1, FS_Interval
      <3>2. IsFiniteSet(I) /\ Cardinality(I) \in Nat
        BY <3>1, FS_Subset, FS_CardinalityType
      <3>3. Times(u) = 0 => I = {}
        BY <3>2, FS_EmptySet
      <3>4. Times(u) > 1 => \E i, j \in I : i # j
        <4> SUFFICES ASSUME \A i, j \in I : i = j PROVE ~(Times(u) > 1)
          OBVIOUS
        <4>1. CASE I = {}
          <5>1. Cardinality(I) = 0
            BY <4>1, FS_EmptySet
          <5> QED
            BY <5>1
        <4>2. CASE I # {}
          <5>1. PICK i \in I : TRUE
            BY <4>2
          <5>2. I = {i}
            BY <5>1
          <5> HIDE DEF I
          <5>3. Cardinality(I) = 1
            BY <5>2, FS_Singleton
          <5> QED
            BY <5>3 DEF I
        <4> QED
          BY <4>1, <4>2
      <3> QED
        BY <2>3, <3>3, <3>4 DEF Once, Twice
    <2>5. /\ {u \in steady : Times(u) > 1} \subseteq Again
          /\ {u \in steady : Times(u) = 0} \subseteq Unseen
      BY <2>2, <2>4 DEF Again, Unseen
    <2>6. writes \in Int /\ IsFiniteSet(Again) /\ IsFiniteSet(Unseen)
          /\ Cardinality(Again) <= writes /\ (ended => Cardinality(Unseen) <= writes)
      BY <1>3, <2>1, DriftIs DEF TypeOK
    <2> HIDE DEF steady, Times
    <2>7. Cardinality({u \in steady : Times(u) > 1}) <= writes
      BY <2>5, <2>6, Bigger
    <2>8. ended => Cardinality({u \in steady : Times(u) = 0}) <= writes
      BY <2>5, <2>6, Bigger
    <2> QED
      BY <2>7, <2>8
  <1> QED
    BY <1>1, <1>2, <1>3, TypeInit, PTL DEF Spec
=============================================================================
