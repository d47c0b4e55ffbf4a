------------------------- MODULE CrawlCoverageProofs -------------------------
(***************************************************************************)
(* Proofs about CrawlCoverage: on every finite, steady web site a crawl    *)
(* that has gone through its queue has covered exactly the pages within    *)
(* its depth, each met on a shortest path.                                 *)
(***************************************************************************)
EXTENDS CrawlCoverage, CrawlEngineProofs, OrderLemmas

-----------------------------------------------------------------------------
(* Induction over the natural numbers, for sets.                           *)

LEMMA Induction ==
  ASSUME NEW S, 0 \in S, \A n \in Nat : n \in S => n + 1 \in S
  PROVE  Nat \subseteq S
  <1> SUFFICES ASSUME Nat \ S # {} PROVE FALSE
    OBVIOUS
  <1>1. PICK n \in Nat \ S : \A m \in Nat \ S : n <= m
    BY Least
  <1>2. n # 0 /\ n - 1 \in Nat /\ n - 1 \in S
    BY <1>1
  <1> QED BY <1>1, <1>2

-----------------------------------------------------------------------------
(* Distances.                                                              *)

LEMMA LinksType ==
  ASSUME NEW u \in Urls
  PROVE  LinksOf(u) \in SUBSET Urls
  <1> SUFFICES ASSUME NEW ls \in Pages[u], NEW i \in DOMAIN ls
               PROVE  ls[i] \in Urls
    BY DEF LinksOf
  <1>1. ls \in Seq(Urls)
    BY PagesAssumption
  <1> QED BY <1>1, ElementOfSeq, LenProperties

\* The pages reached from a set of pages, and the pages themselves.
Grow(s) == s \cup UNION {LinksOf(u) : u \in s}

LEMMA GrowType ==
  ASSUME NEW s \in SUBSET Urls
  PROVE  Grow(s) \in SUBSET Urls
  BY LinksType DEF Grow

\* The recursion that defines Ball has a solution: it is put together from
\* its restrictions to the first k numbers, which exist by induction.
LEMMA BallDef ==
  ASSUME NEW o \in Urls
  PROVE  Ball(o) = [n \in Nat |-> IF n = 0 THEN {o} ELSE Grow(Ball(o)[n - 1])]
  <1> DEFINE Upto(h, k) ==
               /\ h \in [0 .. k -> SUBSET Urls]
               /\ h[0] = {o}
               /\ \A n \in 1 .. k : h[n] = Grow(h[n - 1])
             S == {k \in Nat : \E h \in [0 .. k -> SUBSET Urls] : Upto(h, k)}
             A(k) == CHOOSE h \in [0 .. k -> SUBSET Urls] : Upto(h, k)
             V(n) == A(n)[n]
             g == [n \in Nat |-> V(n)]
  <1>1. 0 \in S
    <2>1. Upto([n \in 0 .. 0 |-> {o}], 0)
      OBVIOUS
    <2> QED BY <2>1
  <1>2. ASSUME NEW k \in Nat, k \in S PROVE k + 1 \in S
    <2>1. PICK h \in [0 .. k -> SUBSET Urls] : Upto(h, k)
      BY <1>2
    <2> DEFINE e == [n \in 0 .. k + 1 |-> IF n <= k THEN h[n] ELSE Grow(h[k])]
    <2>2. Grow(h[k]) \in SUBSET Urls
      BY GrowType
    <2>3. Upto(e, k + 1)
      BY <2>1, <2>2
    <2>4. e \in [0 .. k + 1 -> SUBSET Urls]
      BY <2>3
    <2> HIDE DEF e, Upto
    <2> QED BY <2>3, <2>4
  <1>3. Nat \subseteq S
    <2> HIDE DEF S
    <2> QED BY <1>1, <1>2, Induction
  <1>4. ASSUME NEW k \in Nat, NEW h, Upto(h, k), NEW m \in Nat, NEW e, Upto(e, m), k <= m
        PROVE  h[k] = e[k]
    <2> DEFINE T == {n \in Nat : n <= k => h[n] = e[n]}
    <2>1. 0 \in T
      BY <1>4
    <2>2. \A n \in Nat : n \in T => n + 1 \in T
      BY <1>4
    <2>3. Nat \subseteq T
      <3> HIDE DEF T
      <3> QED BY <2>1, <2>2, Induction
    <2> QED BY <2>3
  <1>5. \A k \in Nat : Upto(A(k), k)
    <2> SUFFICES ASSUME NEW k \in Nat PROVE Upto(A(k), k)
      OBVIOUS
    <2>1. \E h \in [0 .. k -> SUBSET Urls] : Upto(h, k)
      BY <1>3
    <2> HIDE DEF Upto
    <2> QED BY <2>1
  <1> HIDE DEF A
  <1>6. ASSUME NEW n \in Nat PROVE V(n) = IF n = 0 THEN {o} ELSE Grow(V(n - 1))
    <2>1. CASE n = 0
      BY <1>5, <2>1
    <2>2. CASE n # 0
      <3>1. n - 1 \in Nat /\ n - 1 <= n
        BY <2>2
      <3>2. A(n - 1)[n - 1] = A(n)[n - 1]
        <4> HIDE DEF Upto
        <4> QED BY <1>4, <1>5, <3>1
      <3>3. A(n)[n] = Grow(A(n)[n - 1])
        BY <1>5, <2>2
      <3> QED BY <2>2, <3>2, <3>3
    <2> QED BY <2>1, <2>2
  <1>7. g = [n \in Nat |-> IF n = 0 THEN {o} ELSE Grow(g[n - 1])]
    <2> HIDE DEF V
    <2>1. \A n \in Nat : n # 0 => g[n - 1] = V(n - 1)
      OBVIOUS
    <2> QED BY <1>6, <2>1
  <1>8. g = [n \in Nat |->
               IF n = 0 THEN {o} ELSE g[n - 1] \cup UNION {LinksOf(u) : u \in g[n - 1]}]
    <2> HIDE DEF g
    <2> QED BY <1>7 DEF Grow
  <1> HIDE DEF g
  <1>9. Ball(o) = [n \in Nat |-> IF n = 0 THEN {o}
                     ELSE Ball(o)[n - 1] \cup UNION {LinksOf(u) : u \in Ball(o)[n - 1]}]
    BY <1>8 DEF Ball
  <1> QED BY <1>9 DEF Grow

LEMMA BallFacts ==
  ASSUME NEW o \in Urls
  PROVE  /\ Ball(o)[0] = {o}
         /\ \A n \in Nat : Ball(o)[n + 1] = Grow(Ball(o)[n])
         /\ \A m, n \in Nat : m <= n => Ball(o)[m] \subseteq Ball(o)[n]
  <1>1. Ball(o)[0] = {o}
    BY BallDef
  <1>2. \A n \in Nat : Ball(o)[n + 1] = Grow(Ball(o)[n])
    <2> SUFFICES ASSUME NEW n \in Nat PROVE Ball(o)[n + 1] = Grow(Ball(o)[n])
      OBVIOUS
    <2>1. n + 1 \in Nat /\ n + 1 # 0 /\ (n + 1) - 1 = n
      OBVIOUS
    <2> QED BY <2>1, BallDef
  <1>3. ASSUME NEW m \in Nat, NEW n \in Nat, m <= n
        PROVE  Ball(o)[m] \subseteq Ball(o)[n]
    <2> DEFINE T == {k \in Nat : m <= k => Ball(o)[m] \subseteq Ball(o)[k]}
    <2>1. 0 \in T
      OBVIOUS
    <2>2. ASSUME NEW k \in Nat, k \in T PROVE k + 1 \in T
      <3>1. CASE m <= k
        BY <1>2, <2>2, <3>1 DEF Grow
      <3>2. CASE ~(m <= k)
        <4>1. m <= k + 1 => m = k + 1
          BY <3>2
        <4> QED BY <4>1
      <3> QED BY <3>1, <3>2
    <2>3. Nat \subseteq T
      <3> HIDE DEF T
      <3> QED BY <2>1, <2>2, Induction
    <2> QED BY <1>3, <2>3
  <1> QED BY <1>1, <1>2, <1>3
-----------------------------------------------------------------------------
(* The configuration, and why the queue of a steady crawl is never full.   *)

LEMMA SteadyConfig ==
  ASSUME cfg \in Configs
  PROVE  /\ cfg \in Config /\ cfg.origin \in Urls
         /\ cfg.maxDepth \in Nat /\ cfg.maxPages \in Int /\ cfg.maxPages > 0
         /\ cfg.capacity \in Int /\ QueueBound \in Int
         /\ Cardinality(Urls) \in Nat /\ Cardinality(Urls) <= cfg.capacity
         /\ Cardinality(Urls) <= QueueBound /\ QueueBound >= 1
  <1>1. cfg \in Config
    BY ConfigsAssumption
  <1>2. /\ cfg.maxDepth \in Int /\ cfg.maxPages \in Int /\ cfg.capacity \in Int
        /\ cfg.origin \in Urls
    BY <1>1 DEF Config
  <1>3. cfg.capacity >= Cardinality(Urls) /\ cfg.maxPages > 0 /\ cfg.maxDepth >= 0
    BY SteadySite
  <1>4. Cardinality(Urls) \in Nat
    BY SteadySite, FS_CardinalityType
  <1> QED BY <1>1, <1>2, <1>3, <1>4 DEF QueueBound

\* The pages within a distance, from those one link nearer.
LEMMA WithinFacts ==
  ASSUME cfg \in Configs
  PROVE  /\ Within(0) = {cfg.origin}
         /\ \A n \in Nat : Within(n + 1) = Grow(Within(n))
         /\ \A m, n \in Nat : m <= n => Within(m) \subseteq Within(n)
  BY BallFacts, SteadyConfig DEF Within

LEMMA WithinGrows ==
  ASSUME cfg \in Configs, NEW m \in Nat, NEW n \in Nat, m <= n, NEW u \in Within(m)
  PROVE  u \in Within(n)
  BY WithinFacts

LEMMA UpToCardinality ==
  ASSUME NEW n \in Nat
  PROVE  Cardinality(1 .. n) = n
  <1>1. Cardinality(1 .. n) = IF 1 > n THEN 0 ELSE n - 1 + 1
    BY FS_Interval
  <1> QED BY <1>1

\* A frontier holds no more tasks than pages are seen.
LEMMA Room ==
  ASSUME NEW s, IsFiniteSet(s), NEW q \in Seq(Task), Layered(s, q)
  PROVE  Len(q) <= Cardinality(s)
  <1> DEFINE f == [i \in 1 .. Len(q) |-> q[i].url]
  <1>1. Len(q) \in Nat
    BY LenProperties
  <1>2. f \in Injection(1 .. Len(q), s)
    BY DEF Layered, Injection, IsInjective
  <1>3. Cardinality(1 .. Len(q)) <= Cardinality(s)
    BY <1>2, FS_Injection
  <1>4. Cardinality(1 .. Len(q)) = Len(q)
    BY <1>1, UpToCardinality
  <1> QED BY <1>3, <1>4

LEMMA NeverFull ==
  ASSUME cfg \in Configs, NEW s \in SUBSET Urls, NEW q \in Seq(Task), Layered(s, q)
  PROVE  /\ Len(q) <= QueueBound
         /\ \A u \in Urls \ s : Len(q) < cfg.capacity /\ Len(q) < QueueBound
  <1>1. IsFiniteSet(s) /\ Cardinality(s) <= Cardinality(Urls) /\ Cardinality(s) \in Nat
    BY SteadySite, FS_Subset, FS_CardinalityType
  <1>2. Len(q) <= Cardinality(s) /\ Len(q) \in Nat
    BY <1>1, Room, LenProperties
  <1>3. ASSUME NEW u \in Urls \ s
        PROVE  Cardinality(s) < Cardinality(Urls)
    <2>1. Cardinality(s) # Cardinality(Urls)
      BY SteadySite, FS_Subset
    <2> QED BY <1>1, <2>1, SteadyConfig
  <1>4. Len(q) <= QueueBound
    BY <1>1, <1>2, SteadyConfig
  <1>5. ASSUME NEW u \in Urls \ s
        PROVE  Len(q) < cfg.capacity /\ Len(q) < QueueBound
    BY <1>1, <1>2, <1>3, SteadyConfig
  <1> QED BY <1>4, <1>5

-----------------------------------------------------------------------------
(* Covers: each lemma is one thing the engine does to what it has seen.    *)

\* Everything nearer than the frontier is seen.
LEMMA NearerIsSeen ==
  ASSUME cfg \in Configs, NEW s, NEW q \in Seq(Task), NEW h, Covers(s, q, h),
         NEW m \in 0 .. cfg.maxDepth,
         \A i \in 1 .. Len(q) : m <= q[i].depth,
         m > 0 => h \cap Within(m - 1) = {}
  PROVE  Within(m) \subseteq s
  <1> DEFINE T == {n \in Nat : n <= m => Within(n) \subseteq s}
  <1>0. cfg.maxDepth \in Nat /\ m \in Nat /\ DOMAIN q = 1 .. Len(q)
    BY SteadyConfig, LenProperties
  <1>1. 0 \in T
    BY WithinFacts DEF Covers
  <1>2. ASSUME NEW n \in Nat, n \in T PROVE n + 1 \in T
    <2> SUFFICES ASSUME n + 1 <= m PROVE Within(n + 1) \subseteq s
      OBVIOUS
    <2>1. Within(n) \subseteq s /\ n \in 0 .. cfg.maxDepth - 1
      BY <1>0, <1>2
    <2>2. ASSUME NEW u \in Within(n) PROVE LinksOf(u) \subseteq s
      <3>1. u \notin UrlsOf(q)
        <4> SUFFICES ASSUME NEW i \in 1 .. Len(q), q[i].url = u PROVE FALSE
          BY <1>0 DEF UrlsOf
        <4>1. q[i].depth \in Nat
          <5>1. q[i] \in Task
            BY ElementOfSeq
          <5> QED BY <5>1 DEF Task
        <4>2. q[i].depth > 0 /\ q[i].depth - 1 \in Nat /\ n <= q[i].depth - 1
          BY <1>0, <4>1
        <4>3. u \in Within(q[i].depth - 1)
          BY <2>2, <4>2, WithinGrows
        <4> QED BY <4>2, <4>3 DEF Covers, Placed
      <3>2. u \notin h
        <4>1. m > 0 /\ m - 1 \in Nat /\ n <= m - 1
          BY <1>0
        <4>2. u \in Within(m - 1)
          BY <2>2, <4>1, WithinGrows
        <4> QED BY <4>1, <4>2
      <3> QED BY <2>1, <2>2, <3>1, <3>2 DEF Covers
    <2> QED BY <2>1, <2>2, WithinFacts DEF Grow
  <1>3. Nat \subseteq T
    <2> HIDE DEF T
    <2> QED BY <1>1, <1>2, Induction
  <1> QED BY <1>0, <1>3

\* The head of the queue becomes the task in hand.
LEMMA CoversTake ==
  ASSUME NEW s, NEW q \in Seq(Task), q # <<>>, Covers(s, q, {})
  PROVE  Covers(s, Tail(q), {Head(q).url}) /\ Placed(Head(q))
  <1>1. /\ Head(q) = q[1] /\ 1 \in 1 .. Len(q)
        /\ \A i \in 1 .. Len(Tail(q)) : Tail(q)[i] = q[i + 1] /\ i + 1 \in 1 .. Len(q)
    BY HeadTailProperties, EmptySeq, LenProperties
  <1>2. UrlsOf(q) = {Head(q).url} \cup UrlsOf(Tail(q))
    BY UrlsOfTail
  <1>3. \A i \in 1 .. Len(Tail(q)) : Placed(Tail(q)[i])
    BY <1>1 DEF Covers
  <1>4. s \ (UrlsOf(Tail(q)) \cup {Head(q).url}) = s \ (UrlsOf(q) \cup {})
    BY <1>2
  <1> QED BY <1>1, <1>3, <1>4 DEF Covers

\* A page not seen before joins the queue.
LEMMA CoversEnqueue ==
  ASSUME cfg \in Configs, NEW s, NEW q \in Seq(Task), NEW h, Covers(s, q, h),
         NEW t \in Task, Placed(t)
  PROVE  Covers(s \cup {t.url}, Append(q, t), h)
  <1>1. /\ Len(Append(q, t)) = Len(q) + 1 /\ Len(q) \in Nat
        /\ \A i \in 1 .. Len(q) : Append(q, t)[i] = q[i]
        /\ Append(q, t)[Len(q) + 1] = t
    BY AppendProperties, LenProperties
  <1>2. \A i \in 1 .. Len(Append(q, t)) : Placed(Append(q, t)[i])
    <2> SUFFICES ASSUME NEW i \in 1 .. Len(q) + 1 PROVE Placed(Append(q, t)[i])
      BY <1>1
    <2>1. CASE i \in 1 .. Len(q)
      BY <1>1, <2>1 DEF Covers
    <2>2. CASE i = Len(q) + 1
      BY <1>1, <2>2
    <2> QED BY <1>1, <2>1, <2>2
  <1>3. t.url \in Within(cfg.maxDepth)
    <2>1. t.depth \in Nat /\ cfg.maxDepth \in Nat
      BY SteadyConfig DEF Task
    <2> QED BY <2>1, WithinFacts DEF Placed
  <1>4. UrlsOf(q) \cup {t.url} \subseteq UrlsOf(Append(q, t))
    BY UrlsOfAppend
  <1>5. (s \cup {t.url}) \ (UrlsOf(Append(q, t)) \cup h) \subseteq s \ (UrlsOf(q) \cup h)
    BY <1>4
  <1> QED BY <1>2, <1>3, <1>5 DEF Covers

\* The task in hand is dealt with: its links are seen, or it is at the last layer.
LEMMA CoversSettle ==
  ASSUME cfg \in Configs, NEW s, NEW q \in Seq(Task), NEW t \in Task, Placed(t),
         Covers(s, q, {t.url}),
         t.depth < cfg.maxDepth => LinksOf(t.url) \subseteq s
  PROVE  Covers(s, q, {})
  <1>0. cfg.maxDepth \in Nat /\ t.depth \in Nat
    BY SteadyConfig DEF Task
  <1>1. ASSUME NEW u \in s \ UrlsOf(q), NEW n \in 0 .. cfg.maxDepth - 1, u \in Within(n)
        PROVE  LinksOf(u) \subseteq s
    <2>1. CASE u # t.url
      BY <1>1, <2>1 DEF Covers
    <2>2. CASE u = t.url
      <3>1. t.depth <= n
        <4> SUFFICES ASSUME t.depth > n PROVE FALSE
          BY <1>0
        <4>1. t.depth > 0 /\ t.depth - 1 \in Nat /\ n \in Nat /\ n <= t.depth - 1
          BY <1>0
        <4>2. u \in Within(t.depth - 1)
          BY <1>1, <4>1, WithinFacts
        <4> QED BY <2>2, <4>1, <4>2 DEF Placed
      <3> QED BY <1>0, <2>2, <3>1
    <2> QED BY <2>1, <2>2
  <1> QED BY <1>1 DEF Covers

\* What a run begins with.
LEMMA CoversBoot ==
  ASSUME TypeInv, Layered(ckpt.seen, ckpt.pending),
         ckpt.seen # {} => Covers(ckpt.seen, ckpt.pending, {})
  PROVE  Covers(BootSeen, BootQueue, {})
  <1>1. /\ cfg \in Configs /\ ckpt.pending \in Seq(Task) /\ ckpt.seen \in SUBSET Urls
        /\ Len(ckpt.pending) \in Nat
    BY LenProperties DEF TypeInv, TypeOK
  <1>2. CASE Resuming
    <2>1. ckpt.seen # {}
      <3> SUFFICES ASSUME ckpt.pending # <<>> PROVE ckpt.seen # {}
        BY <1>2 DEF Resuming
      <3>1. 1 \in 1 .. Len(ckpt.pending)
        BY <1>1, EmptySeq
      <3> QED BY <3>1 DEF Layered
    <2>2. Len(ckpt.pending) <= QueueBound /\ QueueBound \in Int
      BY <1>1, NeverFull, SteadyConfig
    <2>3. Len(ckpt.pending) = QueueBound \/ Len(ckpt.pending) < QueueBound
      BY <1>1, <2>2
    <2>4. SubSeq(ckpt.pending, 1, Len(ckpt.pending)) = ckpt.pending
      BY <1>1, SubSeqFull
    <2>5. BootQueue = ckpt.pending /\ BootSeen = ckpt.seen
      BY <1>2, <2>3, <2>4 DEF BootQueue, BootSeen
    <2> QED BY <2>1, <2>5
  <1>3. CASE ~Resuming
    <2>1. cfg.maxDepth \in Nat
      BY <1>1, SteadyConfig
    <2>2. BootQueue = <<Seed>> /\ BootSeen = {cfg.origin}
      BY <1>3, <2>1 DEF BootQueue, BootSeen
    <2>3. /\ Len(<<Seed>>) = 1 /\ <<Seed>>[1] = Seed /\ DOMAIN <<Seed>> = 1 .. 1
          /\ Seed.url = cfg.origin /\ Seed.depth = 0
      BY DEF Seed
    <2>4. Placed(Seed) /\ cfg.origin \in Within(cfg.maxDepth)
      <3>1. cfg.origin \in Within(0)
        BY <1>1, WithinFacts
      <3>2. cfg.origin \in Within(cfg.maxDepth)
        BY <1>1, <2>1, <3>1, WithinGrows
      <3> QED BY <2>1, <2>3, <3>1, <3>2 DEF Placed
    <2>5. UrlsOf(<<Seed>>) = {cfg.origin}
      BY <2>3 DEF UrlsOf
    <2> QED BY <2>2, <2>3, <2>4, <2>5 DEF Covers
  <1> QED BY <1>2, <1>3

\* The links that are left after the first of them.
LEMMA LinksOfTail ==
  ASSUME NEW ls \in Seq(Urls), ls # <<>>
  PROVE  {ls[i] : i \in DOMAIN ls}
           = {Head(ls)} \cup {Tail(ls)[i] : i \in DOMAIN Tail(ls)}
  <1>1. /\ DOMAIN ls = 1 .. Len(ls) /\ Len(ls) \in Nat /\ Len(ls) >= 1 /\ Head(ls) = ls[1]
        /\ DOMAIN Tail(ls) = 1 .. Len(ls) - 1
        /\ \A i \in 1 .. Len(ls) - 1 : Tail(ls)[i] = ls[i + 1]
    BY HeadTailProperties, LenProperties, EmptySeq
  <1>2. \A i \in 1 .. Len(ls) : i = 1 \/ (i - 1 \in 1 .. Len(ls) - 1 /\ ls[i] = Tail(ls)[i - 1])
    BY <1>1
  <1>3. \A i \in 1 .. Len(ls) - 1 : i + 1 \in 1 .. Len(ls)
    BY <1>1
  <1>4. ASSUME NEW i \in DOMAIN ls
        PROVE  ls[i] \in {Head(ls)} \cup {Tail(ls)[k] : k \in DOMAIN Tail(ls)}
    BY <1>1, <1>2
  <1>5. ASSUME NEW i \in DOMAIN Tail(ls)
        PROVE  Tail(ls)[i] \in {ls[k] : k \in DOMAIN ls}
    BY <1>1, <1>3
  <1> QED BY <1>1, <1>4, <1>5
-----------------------------------------------------------------------------
(* The inductive invariant.                                                *)

\* What is proved of the engine in general, and what holds of it when nothing
\* raises and the configuration stays the same.
EngineInv == TypeInv /\ InductiveInv /\ AccountInv

LEMMA SiteIsSteady == Steady
  BY SteadySite DEF Steady

LEMMA EngineInvariance == Spec => []EngineInv
  <1>1. Init => TypeInv /\ AccountInv
    BY TypeInit, AccountInit
  <1>2. TypeInv /\ AccountInv /\ [Next]_vars => (TypeInv /\ AccountInv)'
    BY TypeNext, AccountNext, SiteIsSteady
  <1> QED BY <1>1, <1>2, Invariance, PTL DEF Spec, EngineInv

LEMMA CoverInit == Init => CoverInv
  <1> SUFFICES ASSUME Init PROVE CoverInv
    OBVIOUS
  <1>1. ckpt.seen = {} /\ DOMAIN visits = {}
    BY DEF Init, EmptyCheckpoint
  <1> QED BY <1>1 DEF Init, CoverInv, ShortestPath, InLoop

\* All runs of a steady crawl are configured alike.
LEMMA SameConfig ==
  ASSUME TypeInv, TypeInv'
  PROVE  cfg' = cfg
  <1>1. cfg \in Configs /\ cfg' \in Configs
    BY DEF TypeInv, TypeOK
  <1> QED BY <1>1, SteadySite

\* Placed, Covers and Within depend on the state only through cfg.
LEMMA SameMeasure ==
  ASSUME cfg' = cfg
  PROVE  /\ ShortestPath' <=> \A i \in DOMAIN visits' : Placed(visits'[i])
         /\ Covers(seen, queue, InHand)' <=> Covers(seen', queue', InHand')
         /\ Covers(ckpt.seen, ckpt.pending, {})'
              <=> Covers(ckpt'.seen, ckpt'.pending, {})
         /\ Within(cfg.maxDepth)' = Within(cfg.maxDepth)
  BY DEF ShortestPath, Placed, Within, Covers, UrlsOf

LEMMA CoverNext == EngineInv /\ EngineInv' /\ CoverInv /\ [Next]_vars => CoverInv'
  <1> SUFFICES ASSUME EngineInv, EngineInv', CoverInv, [Next]_vars PROVE CoverInv'
    OBVIOUS
  <1>0. /\ cfg' = cfg /\ cfg \in Configs
        /\ seen \in SUBSET Urls /\ queue \in Seq(Task) /\ links \in Seq(Urls)
        /\ visits \in Seq(Task) /\ DOMAIN visits = 1 .. Len(visits) /\ Len(visits) \in Nat
        /\ (InPage => task \in Task) /\ (pc = "linking" => links # <<>>)
    BY SameConfig, LenProperties DEF EngineInv, TypeInv, TypeOK
  <1>a. Faults = {} /\ Failing = {}
    BY SteadySite
  <1>b. ~raised \/ ~InLoop
    BY DEF EngineInv, AccountInv
  <1>c. cfg.maxDepth \in Nat /\ cfg.origin \in Urls
    BY <1>0, SteadyConfig
  <1>d. InPage => Placed(task) /\ task = visits[Len(visits)] /\ visits # <<>>
    <2> SUFFICES ASSUME InPage PROVE Placed(task) /\ task = visits[Len(visits)] /\ visits # <<>>
      OBVIOUS
    <2>1. task = visits[Len(visits)] /\ visits # <<>>
      BY DEF EngineInv, InductiveInv, FrontierInv
    <2>2. Len(visits) \in DOMAIN visits
      BY <1>0, <2>1, EmptySeq
    <2> QED BY <2>1, <2>2 DEF CoverInv, ShortestPath
  \* The parts about the disk and the trace.
  <1>e. ASSUME UNCHANGED <<ckpt, settled, visits>>, outcome' # "completed" \/ outcome' = outcome
        PROVE  /\ ckpt'.seen # {} => Covers(ckpt.seen, ckpt.pending, {})'
               /\ outcome' = "completed" => ckpt'.seen # {}
               /\ settled' \subseteq Within(cfg.maxDepth)'
               /\ ShortestPath'
    BY <1>0, <1>e, SameMeasure DEF CoverInv, ShortestPath
  \* The run is over, or has not yet begun.
  <1>1. ASSUME UNCHANGED <<ckpt, settled, visits>>, outcome' # "completed", ~InLoop'
        PROVE  CoverInv'
    BY <1>e, <1>1 DEF CoverInv, InLoop
  \* It goes on with what it has seen and queued, not at the links.
  <1>2. ASSUME UNCHANGED <<ckpt, settled, visits, outcome, seen, queue>>, InLoop, InLoop',
               InHand' = InHand, pc' # "linking", pc' # "settle"
        PROVE  CoverInv'
    BY <1>0, <1>e, <1>2, SameMeasure DEF CoverInv
  <1>3. ASSUME NEW c \in Configs, NEW at \in {"start", "restart"}, StartRun(c, at)
        PROVE  CoverInv'
    <2>1. /\ UNCHANGED <<ckpt, settled>> /\ visits' = <<>> /\ outcome' = "none"
          /\ pc' \in {"start", "restart"}
      BY <1>3 DEF StartRun
    <2>2. ShortestPath'
      BY <2>1 DEF ShortestPath
    <2> QED BY <1>0, <2>1, <2>2, SameMeasure DEF CoverInv, InLoop
  <1>4. CASE RequestStop \/ UNCHANGED vars
    <2>1. UNCHANGED <<ckpt, settled, visits, outcome, seen, queue, pc, task, links>>
      BY <1>4 DEF RequestStop, vars, schedule, worker, history
    <2>2. InHand' = InHand /\ (InLoop' <=> InLoop)
      BY <2>1 DEF InHand, InPage, InLoop
    <2> QED BY <1>0, <1>e, <2>1, <2>2, SameMeasure DEF CoverInv
  <1>5. CASE Crash
    BY <1>1, <1>5 DEF Crash, InLoop
  <1>6. CASE RunIndex
    <2>1. /\ UNCHANGED <<ckpt, settled, visits, outcome>> /\ pc' = "loop"
          /\ seen' = BootSeen /\ queue' = BootQueue
      BY <1>6 DEF RunIndex, history
    <2>2. Covers(BootSeen, BootQueue, {})
      BY CoversBoot DEF EngineInv, InductiveInv, FrontierInv, CoverInv
    <2>3. InHand' = {}
      BY <2>1 DEF InHand, InPage
    <2> QED BY <1>0, <1>e, <2>1, <2>2, <2>3, SameMeasure DEF CoverInv
  <1>7. CASE ObserveStop \/ FindNothing
    <2>1. UNCHANGED <<ckpt, settled, visits, outcome, seen, queue>>
          /\ pc = "loop" /\ pc' = "closing"
      BY <1>7 DEF ObserveStop, FindNothing, schedule, history
    <2> QED BY <1>2, <2>1 DEF InLoop, InHand, InPage
  <1>8. CASE DropAtLimit
    BY <1>0, <1>8, SteadyConfig DEF DropAtLimit, EngineInv, InductiveInv, GaugeInv
  <1>9. CASE TakeTask
    <2>1. /\ pc = "loop" /\ pc' = "fetching" /\ queue # <<>>
          /\ queue' = Tail(queue) /\ task' = Head(queue) /\ visits' = Append(visits, Head(queue))
          /\ UNCHANGED <<ckpt, settled, outcome, seen>>
      BY <1>9 DEF TakeTask, Dequeue
    <2>2. InHand = {} /\ InHand' = {Head(queue).url}
      BY <2>1 DEF InHand, InPage
    <2>3. Covers(seen, Tail(queue), {Head(queue).url}) /\ Placed(Head(queue))
      BY <1>0, <2>1, <2>2, CoversTake DEF CoverInv, InLoop
    <2>4. ShortestPath'
      <3>1. Head(queue) \in Task
        BY <1>0, <2>1, HeadTailProperties
      <3>2. /\ DOMAIN visits' = 1 .. Len(visits) + 1
            /\ \A i \in 1 .. Len(visits) : visits'[i] = visits[i]
            /\ visits'[Len(visits) + 1] = Head(queue)
        BY <1>0, <2>1, <3>1, AppendProperties, LenProperties
      <3>3. \A i \in 1 .. Len(visits) : Placed(visits'[i])
        BY <1>0, <3>2 DEF CoverInv, ShortestPath
      <3>4. \A i \in DOMAIN visits' : Placed(visits'[i])
        BY <1>0, <2>3, <3>2, <3>3
      <3> QED BY <1>0, <3>4, SameMeasure
    <2>5. Covers(seen, queue, InHand)'
      BY <1>0, <2>1, <2>2, <2>3, SameMeasure
    <2>6. /\ ckpt'.seen # {} => Covers(ckpt.seen, ckpt.pending, {})'
          /\ outcome' = "completed" => ckpt'.seen # {}
          /\ settled' \subseteq Within(cfg.maxDepth)'
      BY <1>0, <2>1, SameMeasure DEF CoverInv
    <2> QED BY <2>1, <2>4, <2>5, <2>6 DEF CoverInv
  <1>10. CASE pc = "fetching" /\ Fetch
    <2>1. PICK ls \in Pages[task.url] : FetchPage(ls)
      BY <1>a, <1>10 DEF Fetch, FetchCancelled, FetchFails, FetchPageRaises
    <2>2. /\ UNCHANGED <<ckpt, settled, visits, outcome, seen, queue, task>>
          /\ links' = IF task.depth < cfg.maxDepth THEN ls ELSE <<>>
          /\ pc' = IF links' = <<>> THEN "settle" ELSE "linking"
      BY <2>1 DEF FetchPage, schedule, history
    <2>3. task \in Task /\ task.url \in Urls /\ InHand = {task.url} /\ InHand' = {task.url}
      BY <1>0, <1>10, <2>2 DEF InPage, InHand, Task
    <2>4. LinksOf(task.url) = {ls[i] : i \in DOMAIN ls}
      <3>1. Pages[task.url] = {ls}
        BY <2>1, <2>3, SteadySite
      <3> QED BY <3>1 DEF LinksOf
    <2>5. pc' = "linking" =>
             /\ task'.depth < cfg'.maxDepth
             /\ {links'[i] : i \in DOMAIN links'} \subseteq LinksOf(task'.url)
             /\ LinksOf(task'.url) \subseteq seen' \cup {links'[i] : i \in DOMAIN links'}
      BY <1>0, <2>2, <2>4
    <2>6. pc' = "settle" /\ task'.depth < cfg'.maxDepth => LinksOf(task'.url) \subseteq seen'
      <3> SUFFICES ASSUME pc' = "settle", task.depth < cfg.maxDepth
                   PROVE  LinksOf(task.url) \subseteq seen
        BY <1>0, <2>2
      <3>1. ls = <<>>
        BY <2>2
      <3> QED BY <2>4, <3>1
    <2>7. InLoop' => Covers(seen, queue, InHand)'
      BY <1>0, <1>10, <2>2, <2>3, SameMeasure DEF CoverInv, InLoop
    <2> QED BY <1>e, <2>2, <2>5, <2>6, <2>7 DEF CoverInv
  \* A link is dealt with: it is seen then, and its siblings are left.
  <1>11. ASSUME pc = "linking", NextLink(TRUE), seen \subseteq seen', Head(links) \in seen',
                UNCHANGED <<ckpt, settled, visits, outcome, task>>,
                Covers(seen', queue', {task.url})
         PROVE  CoverInv'
    <2>1. links' = Tail(links) /\ pc' = IF links' = <<>> THEN "settle" ELSE "linking"
      BY <1>11 DEF NextLink
    <2>2. {links[i] : i \in DOMAIN links} = {Head(links)} \cup {links'[i] : i \in DOMAIN links'}
      BY <1>0, <1>11, <2>1, LinksOfTail
    <2>3. /\ task.depth < cfg.maxDepth
          /\ {links[i] : i \in DOMAIN links} \subseteq LinksOf(task.url)
          /\ LinksOf(task.url) \subseteq seen \cup {links[i] : i \in DOMAIN links}
      BY <1>11 DEF CoverInv
    <2>4. InHand' = {task.url}
      BY <1>11, <2>1 DEF InHand, InPage
    <2>5. InLoop' => Covers(seen, queue, InHand)'
      BY <1>0, <1>11, <2>4, SameMeasure
    <2>6. /\ {links'[i] : i \in DOMAIN links'} \subseteq LinksOf(task.url)
          /\ LinksOf(task.url) \subseteq seen' \cup {links'[i] : i \in DOMAIN links'}
      BY <1>11, <2>2, <2>3
    <2>7. links' = <<>> => LinksOf(task.url) \subseteq seen'
      <3>1. links' = <<>> => {links'[i] : i \in DOMAIN links'} = {}
        OBVIOUS
      <3> QED BY <2>6, <3>1
    <2> QED BY <1>0, <1>e, <1>11, <2>1, <2>3, <2>5, <2>6, <2>7 DEF CoverInv
  \* Pages at the distance of the page in hand are all seen.
  <1>12. ASSUME pc = "linking"
         PROVE  /\ Covers(seen, queue, {task.url}) /\ Within(task.depth) \subseteq seen
                /\ task \in Task /\ task.depth \in Nat /\ task.depth < cfg.maxDepth
                /\ Head(links) \in Urls /\ Head(links) \in LinksOf(task.url)
    <2>1. task \in Task /\ task.depth \in Nat /\ InHand = {task.url}
      BY <1>0, <1>12 DEF InPage, InHand, Task
    <2>2. Covers(seen, queue, {task.url}) /\ task.depth < cfg.maxDepth
      BY <1>12, <2>1 DEF CoverInv, InLoop
    <2>3. \A i \in 1 .. Len(queue) : task.depth <= queue[i].depth
      <3>1. Len(visits) \in 1 .. Len(visits)
        BY <1>0, <1>12, <1>d, EmptySeq DEF InPage
      <3> QED BY <1>12, <1>d, <3>1 DEF EngineInv, InductiveInv, FrontierInv, Behind, InLoop,
                                       InPage
    <2>4. task.depth > 0 => {task.url} \cap Within(task.depth - 1) = {}
      BY <1>12, <1>d DEF InPage, Placed
    <2>5. Within(task.depth) \subseteq seen
      <3>1. task.depth \in 0 .. cfg.maxDepth
        BY <1>c, <2>1, <2>2
      <3>2. cfg \in Configs /\ queue \in Seq(Task)
        BY <1>0
      <3> QED BY <3>1, <3>2, <2>2, <2>3, <2>4, NearerIsSeen
    <2>6. Head(links) \in Urls /\ Head(links) \in {links[i] : i \in DOMAIN links}
      BY <1>0, <1>12, HeadTailProperties, LinksOfTail
    <2> QED BY <1>12, <2>1, <2>2, <2>5, <2>6 DEF CoverInv
  <1>13. ASSUME NEW ok \in BOOLEAN, EnqueueLink(ok)
         PROVE  CoverInv'
    <2>1. /\ pc = "linking" /\ Accepts(LinkTask) /\ NextLink(TRUE)
          /\ seen' = seen \cup {LinkTask.url} /\ queue' = Append(queue, LinkTask)
          /\ LinkTask.url = Head(links) /\ LinkTask.depth = task.depth + 1
          /\ UNCHANGED <<ckpt, settled, visits, outcome, task>>
      BY <1>a, <1>13 DEF EnqueueLink, LinkTask, history
    <2>2. LinkTask \in Task
      BY <1>12, <2>1 DEF LinkTask, Task
    <2>3. Placed(LinkTask)
      <3>1. LinkTask.url \notin seen
        BY <2>1 DEF Accepts
      <3>2. task.url \in Within(task.depth)
        BY <1>d, <2>1 DEF InPage, Placed
      <3>3. Head(links) \in Within(task.depth + 1)
        BY <1>0, <1>12, <2>1, <3>2, WithinFacts DEF Grow
      <3>4. (task.depth + 1) - 1 = task.depth /\ task.depth + 1 <= cfg.maxDepth
        BY <1>c, <1>12, <2>1
      <3> QED BY <1>12, <2>1, <3>1, <3>3, <3>4 DEF Placed
    <2>4. Covers(seen', queue', {task.url})
      BY <1>0, <1>12, <2>1, <2>2, <2>3, CoversEnqueue
    <2> QED BY <1>11, <2>1, <2>4
  <1>14. ASSUME pc = "linking", ~Accepts(LinkTask)
         PROVE  Head(links) \in seen
    <2> SUFFICES ASSUME Head(links) \notin seen PROVE FALSE
      OBVIOUS
    <2>1. LinkTask.url = Head(links) /\ LinkTask.depth = task.depth + 1
      BY DEF LinkTask
    <2>2. LinkTask.depth <= cfg.maxDepth
      BY <1>c, <1>12, <1>14, <2>1
    <2>3. Layered(seen, queue)
      BY <1>14 DEF EngineInv, InductiveInv, FrontierInv, InLoop
    <2>4. Len(queue) < QueueBound
      BY <1>0, <1>12, <1>14, <2>3, NeverFull
    <2> QED BY <1>14, <2>1, <2>2, <2>4 DEF Accepts
  <1>15. ASSUME NEW ok \in BOOLEAN, ReportDrop(ok) \/ SkipLink
         PROVE  CoverInv'
    <2>1. /\ pc = "linking" /\ ~Accepts(LinkTask) /\ NextLink(TRUE)
          /\ UNCHANGED <<ckpt, settled, visits, outcome, task, seen, queue>>
      BY <1>a, <1>15 DEF ReportDrop, SkipLink, schedule, history
    <2>2. Covers(seen', queue', {task.url})
      BY <1>12, <2>1
    <2>3. Head(links) \in seen'
      BY <1>14, <2>1
    <2> QED BY <1>11, <2>1, <2>2, <2>3
  <1>16. CASE Settle
    <2>1. /\ pc = "settle" /\ ~raised
          /\ settled' = settled \cup {task.url} /\ pc' = "loop"
          /\ UNCHANGED <<visits, outcome, seen, queue, task>>
      BY <1>b, <1>16 DEF Settle, Release, schedule, worker, InLoop
    <2>2. task \in Task /\ Placed(task) /\ InHand = {task.url} /\ InHand' = {}
      BY <1>0, <1>d, <2>1 DEF InPage, InHand
    <2>3. Covers(seen, queue, {})
      BY <1>0, <2>1, <2>2, CoversSettle DEF CoverInv, InLoop
    <2>4. Covers(seen, queue, InHand)'
      BY <1>0, <2>1, <2>2, <2>3, SameMeasure
    <2>5. settled' \subseteq Within(cfg.maxDepth)'
      <3>1. task.depth \in Nat /\ task.depth <= cfg.maxDepth /\ task.url \in Within(task.depth)
        BY <2>2 DEF Placed, Task
      <3>2. task.url \in Within(cfg.maxDepth)
        BY <1>0, <1>c, <3>1, WithinGrows
      <3> QED BY <1>0, <2>1, <3>2, SameMeasure DEF CoverInv
    <2>6. ckpt' = ckpt \/ ckpt' = [seen |-> seen, pending |-> queue]
      BY <1>16 DEF Settle, Snapshot
    <2>7. ckpt'.seen # {} => Covers(ckpt.seen, ckpt.pending, {})'
      BY <1>0, <2>3, <2>6, SameMeasure DEF CoverInv
    <2>8. outcome' # "completed"
      BY <2>1 DEF EngineInv, InductiveInv, EndInv
    <2>9. ShortestPath'
      BY <1>0, <2>1, SameMeasure DEF CoverInv, ShortestPath
    <2> QED BY <2>1, <2>4, <2>5, <2>7, <2>8, <2>9 DEF CoverInv
  <1>17. CASE FinishRun
    <2>1. /\ pc = "closing" /\ pc' = "idle" /\ UNCHANGED <<visits, settled>>
          /\ ckpt' = [seen |-> seen, pending |-> queue]
      BY <1>17 DEF FinishRun, Snapshot
    <2>2. Covers(seen, queue, {})
      BY <2>1 DEF CoverInv, InLoop, InHand, InPage
    <2>3. Covers(ckpt.seen, ckpt.pending, {})' /\ ckpt'.seen # {}
      BY <1>0, <2>1, <2>2, SameMeasure DEF Covers
    <2>4. ShortestPath' /\ settled' \subseteq Within(cfg.maxDepth)'
      BY <1>0, <2>1, SameMeasure DEF CoverInv, ShortestPath
    <2> QED BY <2>1, <2>3, <2>4 DEF CoverInv, InLoop
  <1>18. CASE RunIndexRaises \/ TakeTaskRaises \/ SettleRaises \/ FinishRunRaises
    BY <1>18, <1>a DEF RunIndexRaises, TakeTaskRaises, SettleRaises, FinishRunRaises
  <1> QED
    BY <1>3, <1>4, <1>5, <1>6, <1>7, <1>8, <1>9, <1>10, <1>13, <1>15, <1>16, <1>17, <1>18
       DEF Next, WorkerStep, Bootstrap, LoopHead, Linking, Closing

LEMMA CoverInvariance == Spec => [](EngineInv /\ CoverInv)
  BY CoverInit, CoverNext, EngineInvariance, PTL DEF Spec

\* Every visit of every run is made under the distance of its page from the
\* origin, wherever in the frontier the run was resumed.
THEOREM VisitsOnShortestPaths == Spec => []ShortestPath
  <1>1. CoverInv => ShortestPath
    BY DEF CoverInv
  <1> QED BY <1>1, CoverInvariance, PTL

\* A crawl with nothing left to do has dealt with exactly the pages within its
\* depth, on every finite steady site and across any stops and crashes.
THEOREM DepthIsCovered == Spec => []CoversTheDepth
  <1>1. EngineInv /\ CoverInv => CoversTheDepth
    <2> SUFFICES ASSUME EngineInv, CoverInv, outcome = "completed", ckpt.pending = <<>>
                 PROVE  settled = Within(cfg.maxDepth) /\ ckpt.seen = settled
      BY DEF CoversTheDepth
    <2>1. cfg \in Configs /\ cfg.maxDepth \in Nat /\ <<>> \in Seq(Task)
          /\ Len(<<>>) = 0 /\ UrlsOf(<<>>) = {}
      BY SteadyConfig, EmptySeq DEF EngineInv, TypeInv, TypeOK, UrlsOf
    <2>2. Covers(ckpt.seen, <<>>, {})
      BY DEF CoverInv
    <2>3. Within(cfg.maxDepth) \subseteq ckpt.seen
      <3>1. cfg.maxDepth \in 0 .. cfg.maxDepth
        BY <2>1
      <3>2. \A i \in 1 .. Len(<<>>) : cfg.maxDepth <= <<>>[i].depth
        BY <2>1
      <3>3. cfg.maxDepth > 0 => {} \cap Within(cfg.maxDepth - 1) = {}
        OBVIOUS
      <3>4. cfg \in Configs /\ <<>> \in Seq(Task)
        BY <2>1
      <3> HIDE DEF Within
      <3> QED BY <3>4, <2>2, <3>1, <3>2, <3>3, NearerIsSeen
    <2>4. ckpt.seen \subseteq Within(cfg.maxDepth) /\ settled \subseteq Within(cfg.maxDepth)
      BY <2>2 DEF Covers, CoverInv
    <2>5. ckpt.seen \subseteq settled
      BY <2>1 DEF EngineInv, AccountInv
    <2> QED BY <2>3, <2>4, <2>5
  <1> QED BY <1>1, CoverInvariance, PTL
=============================================================================
