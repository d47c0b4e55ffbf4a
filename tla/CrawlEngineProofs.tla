-------------------------- MODULE CrawlEngineProofs --------------------------
(***************************************************************************)
(* Proofs about CrawlEngine for every set of URLs, every web site, every   *)
(* set of configurations and faults, and any number of runs.               *)
(***************************************************************************)
EXTENDS CrawlEngineInv, FiniteSetTheorems, SequenceTheorems, TLAPS

-----------------------------------------------------------------------------
(* Types.  The gauges of the status are cardinalities, so the sets they    *)
(* count have to be known to be finite.                                    *)

FiniteSeen == IsFiniteSet(seen) /\ IsFiniteSet(ckpt.seen)

TypeInv == TypeOK /\ FiniteSeen

\* A new App: types of everything it sets.
LEMMA NewAppType ==
  /\ EmptyCheckpoint \in [seen : SUBSET Urls, pending : Seq(Task)]
  /\ FreshStatus \in Status
  /\ {} \in SUBSET Urls /\ IsFiniteSet({})
  /\ <<>> \in Seq(Task) /\ <<>> \in Seq(Urls)
  <1>1. EmptyCheckpoint \in [seen : SUBSET Urls, pending : Seq(Task)]
    BY DEF EmptyCheckpoint
  <1>2. FreshStatus \in Status
    BY DEF FreshStatus, Status
  <1> QED BY <1>1, <1>2, FS_EmptySet, EmptySeq

\* The updates of the status the actions make.
LEMMA StatusUpdates ==
  ASSUME NEW s \in Status
  PROVE  /\ [s EXCEPT !.indexed = @ + 1] \in Status
         /\ [s EXCEPT !.failed = @ + 1] \in Status
         /\ [s EXCEPT !.dropped = @ + 1] \in Status
         /\ [s EXCEPT !.running = FALSE, !.current = None] \in Status
         /\ \A n \in Nat : [s EXCEPT !.active = n] \in Status
         /\ \A n \in Nat, u \in Urls :
                [s EXCEPT !.active = n, !.current = u] \in Status
         /\ \A n, m \in Nat :
                [s EXCEPT !.running = TRUE, !.active = 0, !.current = None,
                          !.queueSize = n, !.seenCount = m] \in Status
  <1> USE DEF Status
  <1>1. [s EXCEPT !.indexed = @ + 1] \in Status
    OBVIOUS
  <1>2. [s EXCEPT !.failed = @ + 1] \in Status
    OBVIOUS
  <1>3. [s EXCEPT !.dropped = @ + 1] \in Status
    OBVIOUS
  <1>4. [s EXCEPT !.running = FALSE, !.current = None] \in Status
    OBVIOUS
  <1>5. \A n \in Nat : [s EXCEPT !.active = n] \in Status
    OBVIOUS
  <1>6. \A n \in Nat, u \in Urls : [s EXCEPT !.active = n, !.current = u] \in Status
    OBVIOUS
  <1>7. \A n, m \in Nat :
           [s EXCEPT !.running = TRUE, !.active = 0, !.current = None,
                     !.queueSize = n, !.seenCount = m] \in Status
    OBVIOUS
  <1> QED BY <1>1, <1>2, <1>3, <1>4, <1>5, <1>6, <1>7

LEMMA TypeInit == Init => TypeInv
  <1> SUFFICES ASSUME Init PROVE TypeInv
    OBVIOUS
  <1>1. TypeOK
    BY NewAppType DEF Init, TypeOK, InPage, PCs, Outcomes
  <1>2. FiniteSeen
    BY FS_EmptySet DEF Init, FiniteSeen, EmptyCheckpoint
  <1> QED BY <1>1, <1>2 DEF TypeInv

\* What a run begins with has the types of a scheduler.
LEMMA BootType ==
  ASSUME TypeInv
  PROVE  /\ BootQueue \in Seq(Task)
         /\ BootSeen \in SUBSET Urls
         /\ IsFiniteSet(BootSeen)
  <1> USE ConfigsAssumption DEF TypeInv, TypeOK, FiniteSeen
  <1>1. cfg \in Config
    OBVIOUS
  <1>2. QueueBound \in Int /\ QueueBound >= 1
    BY <1>1 DEF QueueBound, Config
  <1>3. \A n \in Int : n <= Len(ckpt.pending) => SubSeq(ckpt.pending, 1, n) \in Seq(Task)
    <2> SUFFICES ASSUME NEW n \in Int, n <= Len(ckpt.pending)
                 PROVE  SubSeq(ckpt.pending, 1, n) \in Seq(Task)
      OBVIOUS
    <2>1. \A i \in 1 .. n : ckpt.pending[i] \in Task
      BY ElementOfSeq
    <2> QED BY <2>1, SubSeqProperties
  <1>4. BootQueue \in Seq(Task)
    <2>1. Seed \in Task
      BY <1>1 DEF Seed, Task, Config
    <2>2. <<Seed>> \in Seq(Task) /\ <<>> \in Seq(Task)
      BY <2>1
    <2>3. Len(ckpt.pending) \in Int
      OBVIOUS
    <2>4. QueueBound <= Len(ckpt.pending) \/ Len(ckpt.pending) < QueueBound
      BY <1>2, <2>3
    <2> QED BY <1>2, <1>3, <2>2, <2>3, <2>4 DEF BootQueue
  <1>5. BootSeen \in SUBSET Urls
    BY <1>1 DEF BootSeen, Config
  <1>6. IsFiniteSet(BootSeen)
    <2>1. IsFiniteSet({}) /\ IsFiniteSet({cfg.origin})
      BY FS_EmptySet, FS_Singleton
    <2>2. BootSeen = ckpt.seen \/ BootSeen = {cfg.origin} \/ BootSeen = {}
      BY DEF BootSeen
    <2> QED BY <2>1, <2>2
  <1> QED BY <1>4, <1>5, <1>6

\* The gauges keep the type of the status.
LEMMA GaugesType ==
  ASSUME TypeInv, NEW q \in Seq(Task)
  PROVE  WithGauges(status, q) \in Status
  <1>1. Cardinality(seen) \in Nat /\ Len(q) \in Nat
    BY FS_CardinalityType DEF TypeInv, FiniteSeen
  <1> QED BY <1>1 DEF WithGauges, TypeInv, TypeOK, Status

LEMMA TypeNext == TypeInv /\ [Next]_vars => TypeInv'
  <1> SUFFICES ASSUME TypeInv, [Next]_vars PROVE TypeInv'
    OBVIOUS
  <1> USE DEF TypeInv, TypeOK, FiniteSeen, InPage, PCs, Outcomes,
              service, schedule, worker, history
  <1>1. ASSUME NEW c \in Configs, NEW at \in {"start", "restart"}, StartRun(c, at)
        PROVE  TypeInv'
    <2>1. status' \in Status /\ FiniteSeen'
      BY <1>1, NewAppType DEF StartRun, NewApp
    <2>2. seen' \in SUBSET Urls /\ queue' \in Seq(Task) /\ links' \in Seq(Urls)
          /\ visits' \in Seq(Task)
      BY <1>1, NewAppType DEF StartRun, NewApp
    <2>3. pagesCrawled' \in Nat /\ sinceCheckpoint' \in Nat /\ activeWorkers' \in Nat
      BY <1>1 DEF StartRun, NewApp
    <2>4. runs' \in Nat /\ crashes' \in Nat /\ failures' \in Nat
      BY <1>1 DEF StartRun
    <2>5. pc' \in {"start", "restart"} /\ task' = None /\ cfg' \in Configs
      BY <1>1 DEF StartRun, NewApp
    <2> QED BY <1>1, <2>1, <2>2, <2>3, <2>4, <2>5 DEF StartRun, NewApp
  <1>2. CASE RequestStop
    BY <1>2 DEF RequestStop
  <1>3. CASE Crash
    <2>1. status' \in Status /\ FiniteSeen'
      BY <1>3, NewAppType DEF Crash, NewApp
    <2>2. seen' \in SUBSET Urls /\ queue' \in Seq(Task) /\ links' \in Seq(Urls)
      BY <1>3, NewAppType DEF Crash, NewApp
    <2>3. pagesCrawled' \in Nat /\ sinceCheckpoint' \in Nat /\ activeWorkers' \in Nat
      BY <1>3 DEF Crash, NewApp
    <2>4. runs' \in Nat /\ crashes' \in Nat /\ failures' \in Nat
      BY <1>3 DEF Crash
    <2> QED BY <1>3, <2>1, <2>2, <2>3, <2>4 DEF Crash, NewApp
  <1>4. CASE RunIndex
    <2>1. /\ Len(BootQueue) \in Nat /\ Cardinality(BootSeen) \in Nat
          /\ BootQueue \in Seq(Task) /\ BootSeen \in SUBSET Urls /\ IsFiniteSet(BootSeen)
      BY BootType, FS_CardinalityType
    <2>2. status' \in Status
      BY <1>4, <2>1, StatusUpdates DEF RunIndex
    <2> QED BY <1>4, <2>1, <2>2 DEF RunIndex, ResetRun
  <1>5. CASE RunIndexRaises
    <2>1. FiniteSeen' /\ seen' \in SUBSET Urls /\ queue' \in Seq(Task)
      BY <1>5, BootType, NewAppType DEF RunIndexRaises
    <2>2. pagesCrawled' \in Nat /\ sinceCheckpoint' \in Nat /\ activeWorkers' \in Nat
      BY <1>5 DEF RunIndexRaises, ResetRun
    <2>3. runs' \in Nat /\ crashes' \in Nat /\ failures' \in Nat
      BY <1>5 DEF RunIndexRaises, RunFails
    <2> QED BY <1>5, <2>1, <2>2, <2>3 DEF RunIndexRaises, ResetRun, RunFails
  <1>6. CASE ObserveStop
    BY <1>6 DEF ObserveStop
  <1>7. CASE FindNothing
    BY <1>7 DEF FindNothing
  <1>8. ASSUME pc = "loop", queue # <<>>
        PROVE  Head(queue) \in Task /\ Tail(queue) \in Seq(Task)
    BY <1>8, HeadTailProperties
  <1>9. CASE DropAtLimit
    BY <1>8, <1>9 DEF DropAtLimit
  <1>10. CASE TakeTask
    <2>1. Head(queue) \in Task /\ Tail(queue) \in Seq(Task)
      BY <1>8, <1>10 DEF TakeTask, Dequeue
    <2>2. status' \in Status
      <3>1. WithGauges(status, Tail(queue)) \in Status
        BY <2>1, GaugesType
      <3>2. activeWorkers + 1 \in Nat /\ Head(queue).url \in Urls
        BY <2>1 DEF Task
      <3> QED BY <1>10, <3>1, <3>2, StatusUpdates DEF TakeTask
    <2>3. Append(visits, Head(queue)) \in Seq(Task)
      BY <2>1, AppendProperties
    <2> QED BY <1>10, <2>1, <2>2, <2>3 DEF TakeTask, Dequeue
  <1>11. CASE TakeTaskRaises
    <2>1. status' \in Status
      <3>1. activeWorkers + 1 \in Nat
        OBVIOUS
      <3> QED BY <1>11, <3>1, StatusUpdates DEF TakeTaskRaises
    <2>2. queue # <<>> /\ pc = "loop"
      BY <1>11 DEF TakeTaskRaises, Dequeue
    <2>3. Head(queue) \in Task /\ Tail(queue) \in Seq(Task)
      BY <1>8, <2>2
    <2>4. activeWorkers' \in Nat /\ failures' \in Nat
      BY <1>11 DEF TakeTaskRaises, Dequeue, RunFails
    <2> QED BY <1>11, <2>1, <2>2, <2>3, <2>4 DEF TakeTaskRaises, Dequeue, RunFails
  <1>12. CASE FetchCancelled
    BY <1>12 DEF FetchCancelled
  <1>13. ASSUME NEW counted \in BOOLEAN, NEW ok \in BOOLEAN, FetchFails(counted, ok)
         PROVE  TypeInv'
    <2>1. status' \in Status
      BY <1>13, StatusUpdates DEF FetchFails
    <2> QED BY <1>13, <2>1 DEF FetchFails, CountPage
  <1>14. ASSUME NEW ls \in Pages[task.url], FetchPage(ls), pc = "fetching"
         PROVE  TypeInv'
    <2>1. ls \in Seq(Urls)
      BY <1>14, PagesAssumption DEF Task
    <2>2. status' \in Status
      BY <1>14, StatusUpdates DEF FetchPage
    <2>3. links' \in Seq(Urls)
      BY <1>14, <2>1, NewAppType DEF FetchPage
    <2> QED BY <1>14, <2>2, <2>3 DEF FetchPage, CountPage
  <1>15. CASE FetchPageRaises
    <2>1. status' \in Status
      BY <1>15, StatusUpdates DEF FetchPageRaises
    <2> QED BY <1>15, <2>1 DEF FetchPageRaises, CountPage
  <1>16. ASSUME pc = "linking"
         PROVE  /\ Head(links) \in Urls /\ Tail(links) \in Seq(Urls)
                /\ LinkTask \in Task
    <2>1. Head(links) \in Urls /\ Tail(links) \in Seq(Urls)
      BY <1>16, HeadTailProperties
    <2> QED BY <1>16, <2>1 DEF LinkTask, Task
  <1>17. ASSUME NEW ok \in BOOLEAN, EnqueueLink(ok)
         PROVE  TypeInv'
    <2>1. seen' \in SUBSET Urls /\ queue' \in Seq(Task)
      BY <1>16, <1>17, AppendProperties DEF EnqueueLink
    <2>2. IsFiniteSet(seen')
      BY <1>17, FS_AddElement DEF EnqueueLink
    <2>3. links' \in Seq(Urls)
      BY <1>16, <1>17, NewAppType DEF EnqueueLink, NextLink
    <2> QED BY <1>17, <2>1, <2>2, <2>3 DEF EnqueueLink, NextLink
  <1>18. ASSUME NEW ok \in BOOLEAN, ReportDrop(ok)
         PROVE  TypeInv'
    <2>1. status' \in Status
      BY <1>18, StatusUpdates DEF ReportDrop
    <2>2. links' \in Seq(Urls)
      BY <1>16, <1>18, NewAppType DEF ReportDrop, NextLink
    <2> QED BY <1>18, <2>1, <2>2 DEF ReportDrop, NextLink
  <1>19. CASE SkipLink
    <2>1. links' \in Seq(Urls)
      BY <1>16, <1>19, NewAppType DEF SkipLink, NextLink
    <2> QED BY <1>19, <2>1 DEF SkipLink, NextLink
  <1>20. ASSUME Release
         PROVE  /\ activeWorkers' \in Nat /\ status' \in Status /\ stopEvent' \in BOOLEAN
    <2>1. WithGauges(status, queue) \in Status
      BY GaugesType
    <2>2. activeWorkers' \in Nat
      BY <1>20 DEF Release
    <2>3. status' \in Status
      BY <1>20, <2>1, <2>2, StatusUpdates DEF Release
    <2> QED BY <1>20, <2>2, <2>3 DEF Release, ReachedPageLimit
  <1>21. CASE Settle
    <2>1. ckpt' \in [seen : SUBSET Urls, pending : Seq(Task)] /\ sinceCheckpoint' \in Nat
      BY <1>21 DEF Settle, Snapshot
    <2>2. IsFiniteSet(ckpt'.seen)
      BY <1>21 DEF Settle, Snapshot
    <2>3. activeWorkers' \in Nat /\ status' \in Status /\ stopEvent' \in BOOLEAN
      BY <1>20, <1>21 DEF Settle
    <2>4. pc = "settle"
      BY <1>21 DEF Settle, Release
    <2>5. settled' \in SUBSET Urls
      BY <1>21, <2>4 DEF Settle, Task
    <2> QED BY <1>21, <2>1, <2>2, <2>3, <2>4, <2>5 DEF Settle, RunFails
  <1>22. CASE SettleRaises
    BY <1>20, <1>22 DEF SettleRaises, RunFails
  <1>23. CASE FinishRun
    <2>1. ckpt' \in [seen : SUBSET Urls, pending : Seq(Task)] /\ IsFiniteSet(ckpt'.seen)
      BY <1>23 DEF FinishRun, Snapshot
    <2>2. status' \in Status
      BY <1>23, StatusUpdates DEF FinishRun
    <2> QED BY <1>23, <2>1, <2>2 DEF FinishRun
  <1>24. CASE FinishRunRaises
    BY <1>24 DEF FinishRunRaises, RunFails
  <1>25. CASE UNCHANGED vars
    BY <1>25 DEF vars
  <1> QED
    BY <1>1, <1>2, <1>3, <1>4, <1>5, <1>6, <1>7, <1>9, <1>10, <1>11, <1>12, <1>13,
       <1>14, <1>15, <1>17, <1>18, <1>19, <1>21, <1>22, <1>23, <1>24, <1>25
       DEF Next, WorkerStep, Bootstrap, LoopHead, Fetch, Linking, Closing

\* Every reachable state has the types the code relies on: in the middle of a
\* page there is a task, and in the link loop there is a link.
THEOREM TypeCorrect == Spec => []TypeOK
  <1>1. Spec => []TypeInv
    BY TypeInit, TypeNext, PTL DEF Spec
  <1>2. TypeInv => TypeOK
    BY DEF TypeInv
  <1> QED BY <1>1, <1>2, PTL

-----------------------------------------------------------------------------
(* Frontiers.  Each lemma is one thing the scheduler does to its queue.    *)

LEMMA LayeredEmpty == \A s : Layered(s, <<>>)
  BY DEF Layered

LEMMA LayeredSeed ==
  ASSUME NEW s, NEW t \in Task, t.url \in s
  PROVE  Layered(s, <<t>>)
  <1>1. Len(<<t>>) = 1 /\ <<t>>[1] = t
    OBVIOUS
  <1>2. t.depth \in Nat
    BY DEF Task
  <1> QED BY <1>1, <1>2 DEF Layered

\* A queue cut off at its capacity is still a frontier.
LEMMA LayeredPrefix ==
  ASSUME NEW s, NEW q \in Seq(Task), Layered(s, q), NEW n \in Int, n <= Len(q)
  PROVE  Layered(s, SubSeq(q, 1, n))
  <1>1. \A i \in 1 .. n : q[i] \in Task
    BY ElementOfSeq
  <1>2. /\ Len(SubSeq(q, 1, n)) = IF 1 <= n THEN n ELSE 0
        /\ \A i \in 1 .. n : SubSeq(q, 1, n)[i] = q[i]
    BY <1>1, SubSeqProperties
  <1>3. \A i \in 1 .. Len(SubSeq(q, 1, n)) :
           i \in 1 .. Len(q) /\ SubSeq(q, 1, n)[i] = q[i]
    BY <1>2
  <1> QED BY <1>3 DEF Layered

\* A task is dequeued and its visit starts.
LEMMA FrontierVisit ==
  ASSUME NEW s, NEW q \in Seq(Task), NEW v \in Seq(Task), q # <<>>,
         Layered(s, q), Behind(v, s, q), Trace(v)
  PROVE  /\ Layered(s, Tail(q))
         /\ Behind(Append(v, Head(q)), s, Tail(q))
         /\ Trace(Append(v, Head(q)))
  <1> DEFINE w == Append(v, Head(q))
             r == Tail(q)
  <1>1. /\ Len(q) \in Nat /\ Len(q) >= 1
        /\ Head(q) = q[1] /\ q[1] \in Task
        /\ Len(r) = Len(q) - 1
        /\ \A i \in 1 .. Len(r) : r[i] = q[i + 1] /\ i + 1 \in 1 .. Len(q)
    <2>1. Len(q) \in Nat /\ Len(q) >= 1
      BY EmptySeq
    <2>2. Head(q) = q[1]
      OBVIOUS
    <2>3. q[1] \in Task
      BY <2>1, ElementOfSeq
    <2>4. Len(r) = Len(q) - 1 /\ \A i \in 1 .. Len(r) : r[i] = q[i + 1]
      BY HeadTailProperties
    <2> QED BY <2>1, <2>2, <2>3, <2>4
  <1>2. /\ Len(v) \in Nat
        /\ Len(w) = Len(v) + 1
        /\ \A i \in 1 .. Len(v) : w[i] = v[i]
        /\ w[Len(v) + 1] = q[1]
    BY <1>1, AppendProperties, LenProperties
  <1>3. \A i \in 1 .. Len(q) : q[i].depth \in Nat
    <2>1. \A i \in 1 .. Len(q) : q[i] \in Task
      BY ElementOfSeq
    <2> QED BY <2>1 DEF Task
  <1>4. Layered(s, r)
    <2>1. \A i \in 1 .. Len(r) : r[i].url \in s
      BY <1>1 DEF Layered
    <2>2. \A i, j \in 1 .. Len(r) : r[i].url = r[j].url => i = j
      <3> SUFFICES ASSUME NEW i \in 1 .. Len(r), NEW j \in 1 .. Len(r), r[i].url = r[j].url
                   PROVE  i = j
        OBVIOUS
      <3>1. q[i + 1].url = q[j + 1].url /\ i + 1 \in 1 .. Len(q) /\ j + 1 \in 1 .. Len(q)
        BY <1>1
      <3>2. i + 1 = j + 1
        BY <3>1 DEF Layered
      <3> QED BY <3>2, <1>1
    <2>3. \A i, j \in 1 .. Len(r) : i < j => r[i].depth <= r[j].depth
      <3> SUFFICES ASSUME NEW i \in 1 .. Len(r), NEW j \in 1 .. Len(r), i < j
                   PROVE  r[i].depth <= r[j].depth
        OBVIOUS
      <3>1. i + 1 \in 1 .. Len(q) /\ j + 1 \in 1 .. Len(q) /\ i + 1 < j + 1
        BY <1>1
      <3>2. q[i + 1].depth <= q[j + 1].depth
        BY <3>1 DEF Layered
      <3> QED BY <3>2, <1>1
    <2>4. \A i, j \in 1 .. Len(r) : r[j].depth <= r[i].depth + 1
      BY <1>1 DEF Layered
    <2> QED BY <2>1, <2>2, <2>3, <2>4 DEF Layered
  <1>5. \A i \in 1 .. Len(v) : v[i].url # q[1].url /\ v[i].depth <= q[1].depth
    BY <1>1 DEF Behind
  <1>6. \A j \in 1 .. Len(r) :
           /\ r[j].url # q[1].url
           /\ q[1].depth <= r[j].depth
           /\ r[j].depth <= q[1].depth + 1
    <2> SUFFICES ASSUME NEW j \in 1 .. Len(r)
                 PROVE  /\ r[j].url # q[1].url
                        /\ q[1].depth <= r[j].depth
                        /\ r[j].depth <= q[1].depth + 1
      OBVIOUS
    <2>1. r[j] = q[j + 1] /\ j + 1 \in 1 .. Len(q) /\ 1 \in 1 .. Len(q) /\ 1 < j + 1
      BY <1>1
    <2>2. q[j + 1].url # q[1].url
      BY <2>1 DEF Layered
    <2>3. q[1].depth <= q[j + 1].depth /\ q[j + 1].depth <= q[1].depth + 1
      BY <2>1 DEF Layered
    <2> QED BY <2>1, <2>2, <2>3
  <1>7. Behind(w, s, r)
    <2>1. \A i \in 1 .. Len(w) : w[i].url \in s
      <3> SUFFICES ASSUME NEW i \in 1 .. Len(w) PROVE w[i].url \in s
        OBVIOUS
      <3>1. CASE i = Len(v) + 1
        BY <3>1, <1>1, <1>2 DEF Layered
      <3>2. CASE i \in 1 .. Len(v)
        BY <3>2, <1>2 DEF Behind
      <3> QED BY <3>1, <3>2, <1>2
    <2>2. \A i \in 1 .. Len(w), j \in 1 .. Len(r) :
             w[i].url # r[j].url /\ w[i].depth <= r[j].depth
      <3> SUFFICES ASSUME NEW i \in 1 .. Len(w), NEW j \in 1 .. Len(r)
                   PROVE  w[i].url # r[j].url /\ w[i].depth <= r[j].depth
        OBVIOUS
      <3>1. CASE i = Len(v) + 1
        BY <3>1, <1>2, <1>6
      <3>2. CASE i \in 1 .. Len(v)
        <4>1. w[i] = v[i] /\ r[j] = q[j + 1] /\ j + 1 \in 1 .. Len(q)
          BY <3>2, <1>1, <1>2
        <4> QED BY <4>1, <3>2 DEF Behind
      <3> QED BY <3>1, <3>2, <1>2
    <2>3. \A j \in 1 .. Len(r) : r[j].depth <= w[Len(w)].depth + 1
      BY <1>2, <1>6
    <2> QED BY <2>1, <2>2, <2>3 DEF Behind
  <1>8. Trace(w)
    <2>1. \A i, j \in 1 .. Len(w) : w[i].url = w[j].url => i = j
      <3> SUFFICES ASSUME NEW i \in 1 .. Len(w), NEW j \in 1 .. Len(w), w[i].url = w[j].url
                   PROVE  i = j
        OBVIOUS
      <3>1. CASE i \in 1 .. Len(v) /\ j \in 1 .. Len(v)
        BY <3>1, <1>2 DEF Trace
      <3>2. CASE i = Len(v) + 1 /\ j \in 1 .. Len(v)
        BY <3>2, <1>2, <1>5
      <3>3. CASE i \in 1 .. Len(v) /\ j = Len(v) + 1
        BY <3>3, <1>2, <1>5
      <3> QED BY <3>1, <3>2, <3>3, <1>2
    <2>2. \A i, j \in 1 .. Len(w) : i < j => w[i].depth <= w[j].depth
      <3> SUFFICES ASSUME NEW i \in 1 .. Len(w), NEW j \in 1 .. Len(w), i < j
                   PROVE  w[i].depth <= w[j].depth
        OBVIOUS
      <3>1. i \in 1 .. Len(v) /\ (j \in 1 .. Len(v) \/ j = Len(v) + 1)
        BY <1>2
      <3> QED BY <3>1, <1>2, <1>5 DEF Trace
    <2> QED BY <2>1, <2>2 DEF Trace
  <1> QED BY <1>4, <1>7, <1>8

\* The child of the last visit enters the queue.
LEMMA FrontierEnqueue ==
  ASSUME NEW s, NEW q \in Seq(Task), NEW v \in Seq(Task), NEW t \in Task,
         Layered(s, q), Behind(v, s, q), Trace(v),
         v # <<>>, t.depth = v[Len(v)].depth + 1, t.url \notin s
  PROVE  /\ Layered(s \cup {t.url}, Append(q, t))
         /\ Behind(v, s \cup {t.url}, Append(q, t))
  <1> DEFINE r == Append(q, t)
             z == s \cup {t.url}
             k == Len(v)
  <1>1. /\ Len(q) \in Nat
        /\ Len(r) = Len(q) + 1
        /\ \A i \in 1 .. Len(q) : r[i] = q[i]
        /\ r[Len(q) + 1] = t
    BY AppendProperties, LenProperties
  <1>2. k \in Nat /\ k >= 1 /\ v[k] \in Task
    BY EmptySeq, ElementOfSeq
  <1>3. /\ \A i \in 1 .. Len(q) : q[i] \in Task
        /\ \A i \in 1 .. Len(v) : v[i] \in Task
    BY ElementOfSeq
  <1>4. /\ t.depth \in Nat /\ v[k].depth \in Nat
        /\ \A i \in 1 .. Len(q) : q[i].depth \in Nat
        /\ \A i \in 1 .. Len(v) : v[i].depth \in Nat
    BY <1>2, <1>3 DEF Task
  <1>5. \A j \in 1 .. Len(q) :
           /\ q[j].url # t.url
           /\ q[j].depth <= t.depth
           /\ t.depth <= q[j].depth + 1
    BY <1>2, <1>4 DEF Layered, Behind
  <1>6. \A i \in 1 .. Len(v) : v[i].url # t.url /\ v[i].depth <= t.depth
    <2> SUFFICES ASSUME NEW i \in 1 .. Len(v) PROVE v[i].url # t.url /\ v[i].depth <= t.depth
      OBVIOUS
    <2>1. v[i].url # t.url
      BY DEF Behind
    <2>2. i = k \/ i < k
      BY <1>2
    <2>3. v[i].depth <= v[k].depth
      BY <1>2, <1>4, <2>2 DEF Trace
    <2> QED BY <1>4, <2>1, <2>3
  <1>7. Layered(z, r)
    <2>1. \A i \in 1 .. Len(r) : r[i].url \in z
      BY <1>1 DEF Layered
    <2>2. \A i, j \in 1 .. Len(r) : r[i].url = r[j].url => i = j
      <3> SUFFICES ASSUME NEW i \in 1 .. Len(r), NEW j \in 1 .. Len(r), r[i].url = r[j].url
                   PROVE  i = j
        OBVIOUS
      <3>1. CASE i \in 1 .. Len(q) /\ j \in 1 .. Len(q)
        BY <3>1, <1>1 DEF Layered
      <3>2. CASE i = Len(q) + 1 /\ j \in 1 .. Len(q)
        BY <3>2, <1>1, <1>5
      <3>3. CASE i \in 1 .. Len(q) /\ j = Len(q) + 1
        BY <3>3, <1>1, <1>5
      <3> QED BY <3>1, <3>2, <3>3, <1>1
    <2>3. \A i, j \in 1 .. Len(r) : i < j => r[i].depth <= r[j].depth
      <3> SUFFICES ASSUME NEW i \in 1 .. Len(r), NEW j \in 1 .. Len(r), i < j
                   PROVE  r[i].depth <= r[j].depth
        OBVIOUS
      <3>1. i \in 1 .. Len(q) /\ (j \in 1 .. Len(q) \/ j = Len(q) + 1)
        BY <1>1
      <3> QED BY <3>1, <1>1, <1>5 DEF Layered
    <2>4. \A i, j \in 1 .. Len(r) : r[j].depth <= r[i].depth + 1
      <3> SUFFICES ASSUME NEW i \in 1 .. Len(r), NEW j \in 1 .. Len(r)
                   PROVE  r[j].depth <= r[i].depth + 1
        OBVIOUS
      <3>1. CASE i \in 1 .. Len(q) /\ j \in 1 .. Len(q)
        BY <3>1, <1>1 DEF Layered
      <3>2. CASE i = Len(q) + 1 /\ j \in 1 .. Len(q)
        BY <3>2, <1>1, <1>4, <1>5
      <3>3. CASE i \in 1 .. Len(q) /\ j = Len(q) + 1
        BY <3>3, <1>1, <1>4, <1>5
      <3>4. CASE i = Len(q) + 1 /\ j = Len(q) + 1
        BY <3>4, <1>1, <1>4
      <3> QED BY <3>1, <3>2, <3>3, <3>4, <1>1
    <2> QED BY <2>1, <2>2, <2>3, <2>4 DEF Layered
  <1>8. Behind(v, z, r)
    <2>1. \A i \in 1 .. Len(v) : v[i].url \in z
      BY DEF Behind
    <2>2. \A i \in 1 .. Len(v), j \in 1 .. Len(r) :
             v[i].url # r[j].url /\ v[i].depth <= r[j].depth
      BY <1>1, <1>6 DEF Behind
    <2>3. \A j \in 1 .. Len(r) : r[j].depth <= v[Len(v)].depth + 1
      BY <1>1, <1>4 DEF Behind
    <2> QED BY <2>1, <2>2, <2>3 DEF Behind
  <1> QED BY <1>7, <1>8

\* The head of the queue is thrown away.
LEMMA FrontierDrop ==
  ASSUME NEW s, NEW q \in Seq(Task), NEW v \in Seq(Task), q # <<>>,
         Layered(s, q), Behind(v, s, q), Trace(v)
  PROVE  Layered(s, Tail(q)) /\ Behind(v, s, Tail(q))
  <1> DEFINE r == Tail(q)
  <1>1. /\ Len(q) \in Nat /\ Len(r) = Len(q) - 1
        /\ \A i \in 1 .. Len(r) : r[i] = q[i + 1] /\ i + 1 \in 1 .. Len(q)
    BY HeadTailProperties, EmptySeq
  <1>2. Layered(s, r)
    BY FrontierVisit
  <1>3. Behind(v, s, r)
    <2>1. \A i \in 1 .. Len(v), j \in 1 .. Len(r) :
             v[i].url # r[j].url /\ v[i].depth <= r[j].depth
      BY <1>1 DEF Behind
    <2>2. v # <<>> => \A j \in 1 .. Len(r) : r[j].depth <= v[Len(v)].depth + 1
      BY <1>1 DEF Behind
    <2> QED BY <2>1, <2>2 DEF Behind
  <1> QED BY <1>2, <1>3

\* What a run begins with is a frontier, whatever is cut off at the capacity.
LEMMA BootFrontier ==
  ASSUME TypeInv, Layered(ckpt.seen, ckpt.pending)
  PROVE  Layered(BootSeen, BootQueue)
  <1>1. cfg \in Config /\ ckpt.pending \in Seq(Task)
    BY ConfigsAssumption DEF TypeInv, TypeOK
  <1>2. QueueBound \in Int /\ Len(ckpt.pending) \in Int
    BY <1>1 DEF QueueBound, Config
  <1>3. CASE Resuming
    <2>1. \A n \in Int : n <= Len(ckpt.pending) =>
             Layered(ckpt.seen, SubSeq(ckpt.pending, 1, n))
      BY <1>1, LayeredPrefix
    <2>2. QueueBound <= Len(ckpt.pending) \/ Len(ckpt.pending) < QueueBound
      BY <1>2
    <2> QED BY <1>2, <1>3, <2>1, <2>2 DEF BootSeen, BootQueue
  <1>4. CASE ~Resuming /\ cfg.maxDepth >= 0
    <2>1. Seed \in Task /\ Seed.url = cfg.origin
      BY <1>1 DEF Seed, Task, Config
    <2>2. Layered({cfg.origin}, <<Seed>>)
      BY <2>1, LayeredSeed
    <2> QED BY <1>4, <2>2 DEF BootSeen, BootQueue
  <1>5. CASE ~Resuming /\ ~(cfg.maxDepth >= 0)
    BY <1>5, LayeredEmpty DEF BootSeen, BootQueue
  <1> QED BY <1>3, <1>4, <1>5

LEMMA FrontierInit == Init => FrontierInv
  <1> SUFFICES ASSUME Init PROVE FrontierInv
    OBVIOUS
  <1>1. Layered(ckpt.seen, ckpt.pending)
    BY LayeredEmpty DEF Init, EmptyCheckpoint
  <1>2. Trace(visits)
    BY DEF Init, Trace
  <1> QED BY <1>1, <1>2 DEF Init, FrontierInv, InLoop, InPage

LEMMA FrontierNext == TypeInv /\ FrontierInv /\ [Next]_vars => FrontierInv'
  <1> SUFFICES ASSUME TypeInv, FrontierInv, [Next]_vars PROVE FrontierInv'
    OBVIOUS
  <1>0. /\ queue \in Seq(Task) /\ visits \in Seq(Task) /\ links \in Seq(Urls)
        /\ (InPage => task \in Task)
    BY DEF TypeInv, TypeOK
  <1> USE DEF FrontierInv, InLoop, InPage
  \* Nothing the invariant speaks of changes but the place of the run.
  <1>1. ASSUME UNCHANGED <<ckpt, seen, queue, visits, task>>,
               pc' = pc \/ pc' = "idle" \/ (InLoop /\ pc' = "closing")
                 \/ (InPage /\ pc' \in {"linking", "settle"})
        PROVE  FrontierInv'
    BY <1>1
  <1>2. ASSUME NEW c \in Configs, NEW at \in {"start", "restart"}, StartRun(c, at)
        PROVE  FrontierInv'
    <2>1. Trace(<<>>)
      BY DEF Trace
    <2> QED BY <1>2, <2>1 DEF StartRun
  <1>3. CASE RequestStop
    BY <1>1, <1>3 DEF RequestStop, schedule, worker
  <1>4. CASE Crash
    BY <1>4 DEF Crash
  <1>5. CASE RunIndex
    <2>1. visits = <<>> /\ visits' = visits /\ ckpt' = ckpt /\ pc' = "loop"
      BY <1>5 DEF RunIndex, history
    <2>2. Layered(seen', queue')
      BY <1>5, BootFrontier DEF RunIndex
    <2>3. Behind(visits', seen', queue')
      BY <2>1 DEF Behind
    <2> QED BY <2>1, <2>2, <2>3
  <1>6. CASE RunIndexRaises
    BY <1>6 DEF RunIndexRaises, RunFails
  <1>7. CASE ObserveStop
    BY <1>1, <1>7 DEF ObserveStop, schedule, worker, history
  <1>8. CASE FindNothing
    BY <1>1, <1>8 DEF FindNothing, schedule, worker, history
  <1>9. CASE DropAtLimit
    <2>1. Layered(seen, Tail(queue)) /\ Behind(visits, seen, Tail(queue))
      BY <1>0, <1>9, FrontierDrop DEF DropAtLimit
    <2> QED BY <1>9, <2>1 DEF DropAtLimit, history
  <1>10. CASE TakeTask
    <2>1. queue # <<>> /\ pc = "loop"
      BY <1>10 DEF TakeTask, Dequeue
    <2>2. /\ Layered(seen, Tail(queue))
          /\ Behind(Append(visits, Head(queue)), seen, Tail(queue))
          /\ Trace(Append(visits, Head(queue)))
      BY <1>0, <2>1, FrontierVisit
    <2>3. visits' # <<>> /\ visits'[Len(visits')] = task'
      <3>1. Head(queue) \in Task
        BY <1>0, <2>1, HeadTailProperties
      <3> QED BY <1>0, <1>10, <3>1, AppendProperties DEF TakeTask, Dequeue
    <2> QED BY <1>10, <2>2, <2>3 DEF TakeTask, Dequeue
  <1>11. CASE TakeTaskRaises
    BY <1>11 DEF TakeTaskRaises, Dequeue, RunFails
  <1>12. CASE FetchCancelled
    BY <1>1, <1>12 DEF FetchCancelled, schedule, history
  <1>13. ASSUME NEW counted \in BOOLEAN, NEW ok \in BOOLEAN, FetchFails(counted, ok)
         PROVE  FrontierInv'
    BY <1>1, <1>13 DEF FetchFails, schedule, history
  <1>14. ASSUME NEW ls \in Pages[task.url], FetchPage(ls), pc = "fetching"
         PROVE  FrontierInv'
    BY <1>1, <1>14 DEF FetchPage, schedule, history
  <1>15. CASE FetchPageRaises
    BY <1>1, <1>15 DEF FetchPageRaises, schedule, history
  <1>16. ASSUME NEW ok \in BOOLEAN, EnqueueLink(ok)
         PROVE  FrontierInv'
    <2>1. /\ pc = "linking" /\ Accepts(LinkTask)
          /\ seen' = seen \cup {LinkTask.url} /\ queue' = Append(queue, LinkTask)
          /\ pc' \in {"linking", "settle"}
          /\ UNCHANGED <<ckpt, visits, task>>
      BY <1>16 DEF EnqueueLink, NextLink, LinkTask, history
    <2>2. LinkTask \in Task
      <3>1. Head(links) \in Urls
        BY <1>0, <2>1, HeadTailProperties DEF TypeInv, TypeOK
      <3>2. task \in Task
        BY <1>0, <2>1
      <3> QED BY <3>1, <3>2 DEF LinkTask, Task
    <2>3. LinkTask.depth = visits[Len(visits)].depth + 1 /\ visits # <<>>
      BY <2>1 DEF LinkTask
    <2>4. LinkTask.url \notin seen
      BY <2>1 DEF Accepts
    <2>5. Layered(seen', queue') /\ Behind(visits', seen', queue')
      BY <1>0, <2>1, <2>2, <2>3, <2>4, FrontierEnqueue
    <2> QED BY <2>1, <2>5
  <1>17. ASSUME NEW ok \in BOOLEAN, ReportDrop(ok)
         PROVE  FrontierInv'
    BY <1>1, <1>17 DEF ReportDrop, NextLink, schedule, history
  <1>18. CASE SkipLink
    BY <1>1, <1>18 DEF SkipLink, NextLink, schedule, history
  <1>19. CASE Settle
    <2>1. pc = "settle" /\ pc' \in {"idle", "loop"} /\ UNCHANGED <<seen, queue, visits>>
      BY <1>19 DEF Settle, Release, RunFails, schedule
    <2>2. ckpt' = ckpt \/ ckpt' = [seen |-> seen, pending |-> queue]
      BY <1>19 DEF Settle, Snapshot
    <2>3. Layered(ckpt'.seen, ckpt'.pending)
      BY <2>1, <2>2
    <2> QED BY <2>1, <2>3
  <1>20. CASE SettleRaises
    BY <1>1, <1>20 DEF SettleRaises, RunFails, schedule, worker
  <1>21. CASE FinishRun
    <2>1. ckpt'.seen = seen /\ ckpt'.pending = queue /\ pc = "closing" /\ pc' = "idle"
          /\ visits' = visits
      BY <1>21 DEF FinishRun, Snapshot
    <2> QED BY <2>1
  <1>22. CASE FinishRunRaises
    BY <1>1, <1>22 DEF FinishRunRaises, RunFails, schedule, worker
  <1>23. CASE UNCHANGED vars
    BY <1>1, <1>23 DEF vars, schedule, worker, history
  <1> QED
    BY <1>2, <1>3, <1>4, <1>5, <1>6, <1>7, <1>8, <1>9, <1>10, <1>11, <1>12, <1>13, <1>14,
       <1>15, <1>16, <1>17, <1>18, <1>19, <1>20, <1>21, <1>22, <1>23
       DEF Next, WorkerStep, Bootstrap, LoopHead, Fetch, Linking, Closing

-----------------------------------------------------------------------------
(* Counters: the page budget, and how far the checkpoint is behind.        *)

CountingInv == CounterInv /\ PageBudget /\ RedoBound

\* What the counters are compared with.
LEMMA Numbers ==
  ASSUME TypeInv
  PROVE  /\ Len(visits) \in Nat /\ pagesCrawled \in Nat /\ sinceCheckpoint \in Nat
         /\ DOMAIN visits = 1 .. Len(visits)
         /\ CheckpointEvery \in Nat /\ CheckpointEvery > 0
         /\ cfg.maxPages \in Int
  <1>1. cfg \in Config
    BY ConfigsAssumption DEF TypeInv, TypeOK
  <1> QED BY <1>1, CheckpointAssumption, LenProperties DEF TypeInv, TypeOK, Config

\* A checkpoint written now holds every visit of the run as done.
LEMMA SnapshotHoldsVisits ==
  ASSUME TypeInv, FrontierInv, InLoop
  PROVE  \A i \in 1 .. Len(visits) : visits[i].url \in seen \ UrlsOf(queue)
  <1>1. DOMAIN queue = 1 .. Len(queue)
    BY LenProperties DEF TypeInv, TypeOK
  <1>2. Behind(visits, seen, queue)
    BY DEF FrontierInv
  <1> QED BY <1>1, <1>2 DEF Behind, UrlsOf

LEMMA CountingInit == Init => CountingInv
  <1> SUFFICES ASSUME Init PROVE CountingInv
    OBVIOUS
  <1>1. TypeInv
    BY TypeInit
  <1>2. Len(visits) = 0
    BY DEF Init
  <1>3. RedoBound
    BY <1>1, <1>2, Numbers DEF RedoBound
  <1> QED BY <1>3 DEF Init, CountingInv, CounterInv, PageBudget, InLoop

LEMMA CountingNext == TypeInv /\ FrontierInv /\ CountingInv /\ [Next]_vars => CountingInv'
  <1> SUFFICES ASSUME TypeInv, FrontierInv, CountingInv, [Next]_vars
               PROVE  CountingInv'
    OBVIOUS
  <1> USE Numbers DEF CountingInv, InLoop
  \* The run ends, or nothing is counted or saved and it only moves on.
  <1>1. ASSUME UNCHANGED <<ckpt, visits, cfg>>, pc' = "idle"
        PROVE  CountingInv'
    BY <1>1 DEF CounterInv, PageBudget, RedoBound, UrlsOf
  <1>2. ASSUME UNCHANGED <<ckpt, visits, cfg, pagesCrawled, sinceCheckpoint>>,
               \/ pc' = pc /\ raised' = raised
               \/ pc \in {"loop", "closing"} /\ pc' = "closing"
               \/ pc = "linking" /\ pc' \in {"linking", "settle"}
               \/ pc = "fetching" /\ pc' = "settle" /\ raised'
        PROVE  CountingInv'
    BY <1>2 DEF CounterInv, PageBudget, RedoBound, UrlsOf, Uncounted
  \* A page is counted.
  <1>3. ASSUME UNCHANGED <<ckpt, visits, cfg>>, CountPage,
               pc = "fetching", pc' \in {"linking", "settle"}
        PROVE  CountingInv'
    <2>1. CounterInv'
      BY <1>3 DEF CounterInv, UrlsOf, Uncounted, CountPage
    <2> QED BY <1>3, <2>1 DEF PageBudget, RedoBound, UrlsOf
  <1>4. ASSUME NEW c \in Configs, NEW at \in {"start", "restart"}, StartRun(c, at)
        PROVE  CountingInv'
    <2>1. visits' = <<>> /\ pc' \in {"start", "restart"} /\ Len(visits') = 0
      BY <1>4 DEF StartRun
    <2>2. RedoBound'
      BY <2>1 DEF RedoBound
    <2> QED BY <2>1, <2>2 DEF CounterInv, PageBudget
  <1>5. CASE RequestStop
    BY <1>2, <1>5 DEF RequestStop, service, worker
  <1>6. CASE Crash
    BY <1>1, <1>6 DEF Crash
  <1>7. CASE RunIndex
    <2>1. /\ visits' = <<>> /\ pc' = "loop" /\ pagesCrawled' = 0 /\ sinceCheckpoint' = 0
          /\ Len(visits') = 0
      BY <1>7 DEF RunIndex, ResetRun, FrontierInv, history
    <2>2. RedoBound'
      BY <2>1 DEF RedoBound
    <2> QED BY <2>1, <2>2 DEF CounterInv, PageBudget, Uncounted
  <1>8. CASE RunIndexRaises
    BY <1>1, <1>8 DEF RunIndexRaises, RunFails
  <1>9. CASE ObserveStop
    BY <1>2, <1>9 DEF ObserveStop, service, history
  <1>10. CASE FindNothing
    BY <1>2, <1>10 DEF FindNothing, service, history
  <1>11. CASE DropAtLimit
    BY <1>2, <1>11 DEF DropAtLimit, service, history
  <1>12. CASE TakeTask
    <2>1. /\ pc = "loop" /\ queue # <<>> /\ pagesCrawled < cfg.maxPages
          /\ visits' = Append(visits, Head(queue)) /\ pc' = "fetching"
          /\ UNCHANGED <<ckpt, cfg, pagesCrawled, sinceCheckpoint>>
      BY <1>12 DEF TakeTask, Dequeue, ReachedPageLimit
    <2>2. /\ Len(visits') = Len(visits) + 1
          /\ \A i \in 1 .. Len(visits) : visits'[i] = visits[i]
      <3>1. Head(queue) \in Task
        BY <2>1, HeadTailProperties DEF TypeInv, TypeOK
      <3> QED BY <2>1, <3>1, AppendProperties DEF TypeInv, TypeOK
    <2>3. Len(visits) = pagesCrawled
      BY <2>1 DEF CounterInv, Uncounted
    <2>4. sinceCheckpoint < CheckpointEvery /\ sinceCheckpoint <= pagesCrawled
      BY <2>1 DEF CounterInv
    <2>5. \A i \in 1 .. pagesCrawled - sinceCheckpoint :
             visits'[i].url \in ckpt.seen \ UrlsOf(ckpt.pending)
      BY <2>1, <2>2, <2>3 DEF CounterInv
    <2>6. CounterInv'
      BY <2>1, <2>2, <2>3, <2>4, <2>5 DEF CounterInv, Uncounted, UrlsOf
    <2>7. RedoBound'
      <3>1. \A i \in 1 .. Len(visits') - CheckpointEvery :
               i \in 1 .. pagesCrawled - sinceCheckpoint
        BY <2>2, <2>3, <2>4
      <3> QED BY <2>1, <2>5, <3>1 DEF RedoBound, UrlsOf
    <2>8. PageBudget'
      BY <2>1, <2>2, <2>3 DEF PageBudget
    <2> QED BY <2>6, <2>7, <2>8
  <1>13. CASE TakeTaskRaises
    BY <1>1, <1>13 DEF TakeTaskRaises, RunFails
  <1>14. CASE FetchCancelled
    BY <1>2, <1>14 DEF FetchCancelled, service, history
  <1>15. ASSUME NEW counted \in BOOLEAN, NEW ok \in BOOLEAN, FetchFails(counted, ok)
         PROVE  CountingInv'
    BY <1>3, <1>15 DEF FetchFails, history
  <1>16. ASSUME NEW ls \in Pages[task.url], FetchPage(ls), pc = "fetching"
         PROVE  CountingInv'
    BY <1>3, <1>16 DEF FetchPage, history
  <1>17. CASE FetchPageRaises
    BY <1>3, <1>17 DEF FetchPageRaises, history
  <1>18. ASSUME NEW ok \in BOOLEAN, EnqueueLink(ok)
         PROVE  CountingInv'
    BY <1>2, <1>18 DEF EnqueueLink, NextLink, service, history
  <1>19. ASSUME NEW ok \in BOOLEAN, ReportDrop(ok)
         PROVE  CountingInv'
    BY <1>2, <1>19 DEF ReportDrop, NextLink, service, history
  <1>20. CASE SkipLink
    BY <1>2, <1>20 DEF SkipLink, NextLink, service, history
  <1>21. CASE Settle
    <2>1. pc = "settle" /\ UNCHANGED <<visits, cfg, pagesCrawled, raised>>
      BY <1>21 DEF Settle, Release, worker
    <2>2. CASE CheckpointDue
      <3>1. ckpt'.seen = seen /\ ckpt'.pending = queue /\ sinceCheckpoint' = 0
        BY <1>21, <2>2 DEF Settle, Snapshot
      <3>2. \A i \in 1 .. Len(visits) : visits[i].url \in ckpt'.seen \ UrlsOf(ckpt'.pending)
        BY <2>1, <3>1, SnapshotHoldsVisits
      <3>3. RedoBound'
        BY <2>1, <3>2 DEF RedoBound, UrlsOf
      <3>4. CounterInv'
        <4>1. CASE raised
          BY <1>21, <4>1 DEF Settle, RunFails, CounterInv
        <4>2. CASE ~raised
          <5>1. pc' = "loop" /\ Len(visits) = pagesCrawled
            BY <1>21, <2>1, <4>2 DEF Settle, CounterInv, Uncounted
          <5> QED BY <2>1, <3>1, <3>2, <5>1 DEF CounterInv, Uncounted, UrlsOf
        <4> QED BY <4>1, <4>2
      <3> QED BY <2>1, <3>3, <3>4 DEF PageBudget
    <2>3. CASE ~CheckpointDue
      <3>1. UNCHANGED <<ckpt, sinceCheckpoint>> /\ sinceCheckpoint < CheckpointEvery
        BY <1>21, <2>3 DEF Settle, CheckpointDue
      <3>2. CASE raised
        BY <1>1, <1>21, <2>1, <3>1, <3>2 DEF Settle, RunFails
      <3>3. CASE ~raised
        <4>1. pc' = "loop" /\ Len(visits) = pagesCrawled
          BY <1>21, <2>1, <3>3 DEF Settle, CounterInv, Uncounted
        <4>2. CounterInv'
          BY <2>1, <3>1, <4>1 DEF CounterInv, Uncounted, UrlsOf
        <4> QED BY <2>1, <3>1, <4>2 DEF PageBudget, RedoBound, UrlsOf
      <3> QED BY <3>2, <3>3
    <2> QED BY <2>2, <2>3
  <1>22. CASE SettleRaises
    BY <1>1, <1>22 DEF SettleRaises, RunFails
  <1>23. CASE FinishRun
    <2>1. /\ ckpt'.seen = seen /\ ckpt'.pending = queue /\ pc = "closing" /\ pc' = "idle"
          /\ UNCHANGED <<visits, cfg>>
      BY <1>23 DEF FinishRun, Snapshot
    <2>2. \A i \in 1 .. Len(visits) : visits[i].url \in ckpt'.seen \ UrlsOf(ckpt'.pending)
      BY <2>1, SnapshotHoldsVisits
    <2>3. RedoBound'
      BY <2>1, <2>2 DEF RedoBound, UrlsOf
    <2> QED BY <2>1, <2>3 DEF CounterInv, PageBudget
  <1>24. CASE FinishRunRaises
    BY <1>1, <1>24 DEF FinishRunRaises, RunFails
  <1>25. CASE UNCHANGED vars
    BY <1>2, <1>25 DEF vars, service, worker, history
  <1> QED
    BY <1>4, <1>5, <1>6, <1>7, <1>8, <1>9, <1>10, <1>11, <1>12, <1>13, <1>14, <1>15, <1>16,
       <1>17, <1>18, <1>19, <1>20, <1>21, <1>22, <1>23, <1>24, <1>25
       DEF Next, WorkerStep, Bootstrap, LoopHead, Fetch, Linking, Closing

-----------------------------------------------------------------------------
(* How a run ends: the reason for it, and the figures it leaves behind.    *)

\* The first layer a page's links are not followed from.
LEMMA LinkNext == LinkInv /\ [Next]_vars => LinkInv'
  <1> SUFFICES ASSUME LinkInv, [Next]_vars PROVE LinkInv'
    OBVIOUS
  <1> USE DEF LinkInv
  <1>1. ASSUME pc' # "linking"
        PROVE  LinkInv'
    BY <1>1
  <1>2. ASSUME pc' = pc, UNCHANGED <<task, cfg>>
        PROVE  LinkInv'
    BY <1>2
  <1>3. ASSUME NEW c \in Configs, NEW at \in {"start", "restart"}, StartRun(c, at)
        PROVE  LinkInv'
    BY <1>1, <1>3 DEF StartRun
  <1>4. CASE RequestStop
    BY <1>2, <1>4 DEF RequestStop, worker
  <1>5. CASE Crash \/ Bootstrap
    BY <1>1, <1>5 DEF Crash, Bootstrap, RunIndex, RunIndexRaises, RunFails
  <1>6. CASE LoopHead
    BY <1>1, <1>6 DEF LoopHead, ObserveStop, FindNothing, DropAtLimit, TakeTask,
                      TakeTaskRaises, RunFails
  <1>7. CASE pc = "fetching" /\ Fetch
    <2>1. ASSUME NEW ls \in Pages[task.url], FetchPage(ls)
          PROVE  LinkInv'
      BY <2>1 DEF FetchPage
    <2>2. CASE FetchCancelled \/ FetchPageRaises
      BY <1>1, <2>2 DEF FetchCancelled, FetchPageRaises
    <2>3. ASSUME NEW counted \in BOOLEAN, NEW ok \in BOOLEAN, FetchFails(counted, ok)
          PROVE  LinkInv'
      BY <1>1, <2>3 DEF FetchFails
    <2> QED BY <1>7, <2>1, <2>2, <2>3 DEF Fetch
  <1>8. CASE Linking
    <2>1. pc = "linking" /\ UNCHANGED <<task, cfg>>
      BY <1>8 DEF Linking, EnqueueLink, ReportDrop, SkipLink
    <2> QED BY <2>1
  <1>9. CASE Closing
    BY <1>1, <1>9 DEF Closing, Settle, SettleRaises, FinishRun, FinishRunRaises, RunFails
  <1>10. CASE UNCHANGED vars
    BY <1>2, <1>10 DEF vars, worker
  <1> QED
    BY <1>3, <1>4, <1>5, <1>6, <1>7, <1>8, <1>9, <1>10 DEF Next, WorkerStep

LEMMA EndInit == Init => EndInv
  BY DEF Init, EndInv, InPage, EndsForAReason

LEMMA EndNext == TypeInv /\ EndInv /\ [Next]_vars => EndInv'
  <1> SUFFICES ASSUME TypeInv, EndInv, [Next]_vars PROVE EndInv'
    OBVIOUS
  <1> USE DEF InPage, ReachedPageLimit
  \* The run ends without having completed.
  <1>1. ASSUME pc' = "idle", outcome' \in {"failed", "crashed"}
        PROVE  EndInv'
    BY <1>1 DEF EndInv, EndsForAReason
  \* Inside a page nobody but request_stop touches the stop event.
  <1>2. ASSUME pc # "idle", InPage, InPage', UNCHANGED <<stopEvent, stopAsked, outcome>>
        PROVE  EndInv'
    BY <1>2 DEF EndInv, EndsForAReason
  <1>3. ASSUME NEW c \in Configs, NEW at \in {"start", "restart"}, StartRun(c, at)
        PROVE  EndInv'
    BY <1>3 DEF StartRun, EndInv, EndsForAReason
  <1>4. CASE RequestStop
    BY <1>4 DEF RequestStop, EndInv, EndsForAReason
  <1>5. CASE Crash
    BY <1>1, <1>5 DEF Crash
  <1>6. CASE RunIndex
    BY <1>6 DEF RunIndex, ResetRun, history, EndInv, EndsForAReason
  <1>7. CASE RunIndexRaises \/ TakeTaskRaises \/ SettleRaises \/ FinishRunRaises
    BY <1>1, <1>7 DEF RunIndexRaises, TakeTaskRaises, SettleRaises, FinishRunRaises, RunFails
  <1>8. CASE ObserveStop
    BY <1>8 DEF ObserveStop, service, schedule, history, EndInv, EndsForAReason
  <1>9. CASE FindNothing
    BY <1>9 DEF FindNothing, service, schedule, history, EndInv, EndsForAReason
  <1>10. CASE DropAtLimit
    BY <1>10 DEF DropAtLimit, service, history, EndInv, EndsForAReason
  <1>11. CASE TakeTask
    BY <1>11 DEF TakeTask, Dequeue, EndInv, EndsForAReason
  <1>12. CASE pc = "fetching" /\ Fetch
    <2>1. InPage' /\ UNCHANGED <<stopEvent, stopAsked, outcome>>
      BY <1>12 DEF Fetch, FetchCancelled, FetchFails, FetchPage, FetchPageRaises, history
    <2> QED BY <1>2, <1>12, <2>1
  <1>13. CASE Linking
    <2>1. pc = "linking" /\ InPage' /\ UNCHANGED <<stopEvent, stopAsked, outcome>>
      BY <1>13 DEF Linking, EnqueueLink, ReportDrop, SkipLink, NextLink, history
    <2> QED BY <1>2, <2>1
  <1>14. CASE Settle
    <2>1. CASE raised
      BY <1>1, <1>14, <2>1 DEF Settle, RunFails
    <2>2. CASE ~raised
      <3>1. /\ pc = "settle" /\ pc' = "loop" /\ UNCHANGED <<outcome, stopAsked, pagesCrawled, cfg>>
            /\ stopEvent' = (stopEvent \/ ReachedPageLimit)
        BY <1>14, <2>2 DEF Settle, Release
      <3>2. stopEvent' => stopEvent \/ ReachedPageLimit
        BY <3>1, Zenon
      <3>3. stopEvent' => stopAsked' \/ ReachedPageLimit'
        BY <3>1, <3>2 DEF EndInv
      <3> QED BY <3>1, <3>3 DEF EndInv, EndsForAReason
    <2> QED BY <2>1, <2>2
  <1>15. CASE FinishRun
    <2>1. /\ pc = "closing" /\ pc' = "idle" /\ ckpt'.pending = queue
          /\ UNCHANGED <<stopAsked, pagesCrawled, cfg>>
      BY <1>15 DEF FinishRun, Snapshot, service
    <2> QED BY <2>1 DEF EndInv, EndsForAReason
  <1>16. CASE UNCHANGED vars
    BY <1>16 DEF vars, service, schedule, history, EndInv, EndsForAReason
  <1> QED
    BY <1>3, <1>4, <1>5, <1>6, <1>7, <1>8, <1>9, <1>10, <1>11, <1>12, <1>13, <1>14, <1>15,
       <1>16
       DEF Next, WorkerStep, Bootstrap, LoopHead, Closing

LEMMA GaugeInit == Init => GaugeInv
  <1> SUFFICES ASSUME Init PROVE GaugeInv
    OBVIOUS
  <1> QED BY DEF Init, GaugeInv, InPage, InLoop, StatusAgreesWhenDone, FreshStatus

\* TypeInv and EndInv say that a run that is on has no outcome yet.
LEMMA GaugeNext == TypeInv /\ EndInv /\ GaugeInv /\ [Next]_vars => GaugeInv'
  <1> SUFFICES ASSUME TypeInv, EndInv, GaugeInv, [Next]_vars PROVE GaugeInv'
    OBVIOUS
  <1>0. /\ status \in Status /\ pagesCrawled \in Nat /\ activeWorkers \in Nat
        /\ cfg.maxPages \in Int /\ visits \in Seq(Task) /\ Len(visits) \in Nat
        /\ status.indexed \in Nat /\ status.failed \in Nat
        /\ pc # "idle" => outcome = "none"
    BY Numbers DEF TypeInv, TypeOK, Status, EndInv
  <1> USE DEF InPage, InLoop
  \* The run ends without having completed.
  <1>1. ASSUME pc' = "idle", outcome' \in {"failed", "crashed"}
        PROVE  GaugeInv'
    BY <1>1 DEF GaugeInv, StatusAgreesWhenDone
  \* It goes on inside the page and reports no result.
  <1>2. ASSUME InPage, InPage', pc = "fetching" \/ pc' # "fetching",
               UNCHANGED <<visits, activeWorkers, outcome>>,
               status'.indexed = status.indexed, status'.failed = status.failed
        PROVE  GaugeInv'
    BY <1>0, <1>2 DEF GaugeInv, StatusAgreesWhenDone
  \* It reports the result of the page in hand.
  <1>3. ASSUME pc = "fetching", pc' \in {"linking", "settle"},
               UNCHANGED <<visits, activeWorkers, outcome>>,
               \/ status' = [status EXCEPT !.indexed = @ + 1]
               \/ status' = [status EXCEPT !.failed = @ + 1]
               \/ status' = status
        PROVE  GaugeInv'
    <2>1. status'.indexed + status'.failed <= status.indexed + status.failed + 1
      BY <1>0, <1>3 DEF Status
    <2>2. status.indexed + status.failed < Len(visits)
      BY <1>3 DEF GaugeInv
    <2>3. status'.indexed \in Nat /\ status'.failed \in Nat
      BY <1>0, <1>3 DEF Status
    <2>4. status'.indexed + status'.failed <= Len(visits')
      BY <1>0, <1>3, <2>1, <2>2, <2>3
    <2>5. activeWorkers' = 1 /\ outcome' = "none" /\ pc' \in {"linking", "settle"}
      BY <1>0, <1>3 DEF GaugeInv
    <2> QED BY <2>4, <2>5 DEF GaugeInv, StatusAgreesWhenDone
  <1>4. ASSUME NEW c \in Configs, NEW at \in {"start", "restart"}, StartRun(c, at)
        PROVE  GaugeInv'
    BY <1>4 DEF StartRun, NewApp, FreshStatus, GaugeInv, StatusAgreesWhenDone
  <1>5. CASE RequestStop
    BY <1>0, <1>5 DEF RequestStop, service, schedule, GaugeInv, StatusAgreesWhenDone,
                      ReachedPageLimit
  <1>6. CASE Crash
    BY <1>1, <1>6 DEF Crash
  <1>7. CASE RunIndex
    <2>1. /\ pc \in {"start", "restart"} /\ pc' = "loop" /\ UNCHANGED <<cfg, outcome, visits>>
          /\ pagesCrawled' = 0 /\ activeWorkers' = 0
          /\ seen' = BootSeen /\ queue' = BootQueue
      BY <1>7 DEF RunIndex, ResetRun, history
    <2>2. /\ status'.queueSize = Len(queue') /\ status'.seenCount = Cardinality(seen')
          /\ status'.active = 0
          /\ status'.indexed = status.indexed /\ status'.failed = status.failed
      BY <1>0, <1>7, <2>1 DEF RunIndex, Status
    <2>3. status'.indexed + status'.failed <= Len(visits')
      BY <1>0, <2>1, <2>2 DEF GaugeInv
    <2> QED BY <1>0, <2>1, <2>2, <2>3 DEF GaugeInv, StatusAgreesWhenDone, ReachedPageLimit
  <1>8. CASE RunIndexRaises \/ TakeTaskRaises \/ SettleRaises \/ FinishRunRaises
    BY <1>1, <1>8 DEF RunIndexRaises, TakeTaskRaises, SettleRaises, FinishRunRaises, RunFails
  <1>9. CASE ObserveStop \/ FindNothing
    BY <1>0, <1>9 DEF ObserveStop, FindNothing, service, schedule, history, GaugeInv,
                      StatusAgreesWhenDone
  <1>10. CASE DropAtLimit
    <2>1. ~(cfg.maxPages > 0) /\ UNCHANGED <<cfg, visits, activeWorkers, status, outcome>>
          /\ pc = "loop" /\ pc' = "closing"
      BY <1>10 DEF DropAtLimit, GaugeInv, service, history
    <2> QED BY <1>0, <2>1 DEF GaugeInv, StatusAgreesWhenDone
  <1>11. CASE TakeTask
    <2>1. /\ pc = "loop" /\ pc' = "fetching" /\ activeWorkers' = activeWorkers + 1
          /\ visits' = Append(visits, Head(queue)) /\ UNCHANGED <<cfg, outcome>>
          /\ queue # <<>>
      BY <1>11 DEF TakeTask, Dequeue
    <2>2. Len(visits') = Len(visits) + 1
      <3>1. Head(queue) \in Task
        BY <2>1, HeadTailProperties DEF TypeInv, TypeOK
      <3> QED BY <1>0, <2>1, <3>1, AppendProperties
    <2>3. status'.indexed = status.indexed /\ status'.failed = status.failed
      BY <1>0, <1>11 DEF TakeTask, WithGauges, Status
    <2>4. status.indexed + status.failed <= Len(visits) /\ activeWorkers = 0
      BY <2>1 DEF GaugeInv
    <2>5. status'.indexed + status'.failed < Len(visits')
      BY <1>0, <2>2, <2>3, <2>4
    <2>6. activeWorkers' = 1 /\ outcome' = "none" /\ pc' = "fetching"
      BY <1>0, <2>1, <2>4
    <2>7. status'.indexed \in Nat /\ status'.failed \in Nat /\ Len(visits') \in Nat
      BY <1>0, <2>2, <2>3
    <2> QED BY <2>5, <2>6, <2>7 DEF GaugeInv, StatusAgreesWhenDone
  <1>12. CASE pc = "fetching" /\ Fetch
    <2>1. CASE FetchCancelled
      BY <1>2, <2>1 DEF FetchCancelled, service, history
    <2>2. ASSUME NEW counted \in BOOLEAN, NEW ok \in BOOLEAN, FetchFails(counted, ok)
          PROVE  GaugeInv'
      BY <1>3, <2>2 DEF FetchFails, history
    <2>3. ASSUME NEW ls \in Pages[task.url], FetchPage(ls)
          PROVE  GaugeInv'
      BY <1>3, <2>3 DEF FetchPage, history
    <2>4. CASE FetchPageRaises
      BY <1>3, <2>4 DEF FetchPageRaises, history
    <2> QED BY <1>12, <2>1, <2>2, <2>3, <2>4 DEF Fetch
  <1>13. CASE Linking
    <2>1. /\ pc = "linking" /\ pc' \in {"linking", "settle"}
          /\ UNCHANGED <<visits, activeWorkers, outcome>>
          /\ status' = status \/ status' = [status EXCEPT !.dropped = @ + 1]
      BY <1>13 DEF Linking, EnqueueLink, ReportDrop, SkipLink, NextLink, service, history
    <2>2. status'.indexed = status.indexed /\ status'.failed = status.failed
      BY <1>0, <2>1 DEF Status
    <2> QED BY <1>2, <2>1, <2>2
  <1>14. CASE Settle
    <2>1. CASE raised
      BY <1>1, <1>14, <2>1 DEF Settle, RunFails
    <2>2. CASE ~raised
      <3>1. /\ pc = "settle" /\ pc' = "loop"
            /\ UNCHANGED <<cfg, outcome, visits, queue, seen, pagesCrawled>>
            /\ stopEvent' = (stopEvent \/ ReachedPageLimit)
            /\ activeWorkers' = IF activeWorkers > 0 THEN activeWorkers - 1 ELSE 0
        BY <1>14, <2>2 DEF Settle, Release, schedule
      <3>2. activeWorkers' = 0
        BY <1>0, <3>1 DEF GaugeInv
      <3>3. /\ status'.queueSize = Len(queue') /\ status'.seenCount = Cardinality(seen')
            /\ status'.active = activeWorkers'
            /\ status'.indexed = status.indexed /\ status'.failed = status.failed
        BY <1>0, <1>14, <3>1 DEF Settle, Release, WithGauges, Status
      <3>4. ~stopEvent' => ~ReachedPageLimit'
        <4>1. ~stopEvent' => ~ReachedPageLimit
          BY <3>1, Zenon
        <4> QED BY <3>1, <4>1 DEF ReachedPageLimit
      <3> QED BY <1>0, <3>1, <3>2, <3>3, <3>4 DEF GaugeInv, StatusAgreesWhenDone
    <2> QED BY <2>1, <2>2
  <1>15. CASE FinishRun
    <2>1. /\ pc = "closing" /\ pc' = "idle" /\ ckpt'.pending = queue /\ ckpt'.seen = seen
          /\ UNCHANGED <<cfg, visits>>
          /\ status' = [status EXCEPT !.running = FALSE, !.current = None]
      BY <1>15 DEF FinishRun, Snapshot
    <2>2. /\ ~status'.running /\ status'.queueSize = status.queueSize
          /\ status'.seenCount = status.seenCount /\ status'.active = status.active
          /\ status'.indexed = status.indexed /\ status'.failed = status.failed
      BY <1>0, <2>1 DEF Status
    <2> QED BY <1>0, <2>1, <2>2 DEF GaugeInv, StatusAgreesWhenDone
  <1>16. CASE UNCHANGED vars
    BY <1>0, <1>16 DEF vars, service, schedule, history, GaugeInv, StatusAgreesWhenDone,
                       ReachedPageLimit
  <1> QED
    BY <1>4, <1>5, <1>6, <1>7, <1>8, <1>9, <1>10, <1>11, <1>12, <1>13, <1>14, <1>15, <1>16
       DEF Next, WorkerStep, Bootstrap, LoopHead, Closing

-----------------------------------------------------------------------------
(* The safety properties, and the refinement of BreadthFirst.              *)

\* The inductive invariant holds in every reachable state.
THEOREM Invariance == Spec => []InductiveInv
  <1> DEFINE I ==
         TypeInv /\ FrontierInv /\ CountingInv /\ EndInv /\ GaugeInv /\ LinkInv
  <1>1. Init => I
    <2>1. Init => LinkInv
      BY DEF Init, LinkInv
    <2> QED BY <2>1, TypeInit, FrontierInit, CountingInit, EndInit, GaugeInit
  <1>2. I /\ [Next]_vars => I'
    BY TypeNext, FrontierNext, CountingNext, EndNext, GaugeNext, LinkNext
  <1>3. I => InductiveInv
    BY DEF InductiveInv, TypeInv, CountingInv
  <1> QED BY <1>1, <1>2, <1>3, PTL DEF Spec

\* The two formulations of the trace properties are the same.
LEMMA TraceProperties ==
  ASSUME InductiveInv
  PROVE  VisitOnce /\ StrictBFS
  <1>1. DOMAIN visits = 1 .. Len(visits)
    BY LenProperties DEF InductiveInv, TypeOK
  <1>2. Trace(visits)
    BY DEF InductiveInv, FrontierInv
  <1> QED BY <1>1, <1>2 DEF Trace, VisitOnce, StrictBFS

\* No run visits a URL twice, in whatever order stops, crashes, exceptions and
\* resumptions with whatever configuration happen.
THEOREM VisitsOnce == Spec => []VisitOnce
  <1>1. InductiveInv => VisitOnce
    BY TraceProperties
  <1> QED BY <1>1, Invariance, PTL

\* The visits of every run are in breadth-first order.
THEOREM VisitsBreadthFirst == Spec => []StrictBFS
  <1>1. InductiveInv => StrictBFS
    BY TraceProperties
  <1> QED BY <1>1, Invariance, PTL

\* No run starts more visits than its page budget allows.
THEOREM BudgetKept == Spec => []PageBudget
  <1>1. InductiveInv => PageBudget
    BY DEF InductiveInv
  <1> QED BY <1>1, Invariance, PTL

\* A crash never costs more than CheckpointEvery visits.
THEOREM LittleIsRedone == Spec => []RedoBound
  <1>1. InductiveInv => RedoBound
    BY DEF InductiveInv
  <1> QED BY <1>1, Invariance, PTL

\* A run that completes was asked to stop, has used up its budget or has left
\* nothing to crawl.
THEOREM EndsWithReason == Spec => []EndsForAReason
  <1>1. InductiveInv => EndsForAReason
    BY DEF InductiveInv, EndInv
  <1> QED BY <1>1, Invariance, PTL

\* The figures the manager keeps of a completed run are those of the checkpoint
\* it left, although the gauges are copies refreshed at two places of the code.
THEOREM FiguresAgree == Spec => []StatusAgreesWhenDone
  <1>1. InductiveInv => StatusAgreesWhenDone
    BY DEF InductiveInv, GaugeInv
  <1> QED BY <1>1, Invariance, PTL

\* The queue's own test of its room and the one the service guesses a refusal
\* from never disagree to the cost of a report.
LEMMA StepReports ==
  ASSUME TypeOK, LinkInv, [Next]_vars, pc = "linking", links' # links, pc' # "idle",
         Head(links) \notin seen'
  PROVE  status'.dropped > status.dropped
  <1>0. /\ task \in Task /\ task.depth \in Nat /\ cfg.maxDepth \in Int
        /\ cfg.capacity \in Int /\ Len(queue) \in Nat /\ status.dropped \in Nat
    BY ConfigsAssumption, LenProperties DEF TypeOK, InPage, Task, Config, Status
  <1>1. CASE Linking
    <2>1. ASSUME NEW ok \in BOOLEAN, ReportDrop(ok)
          PROVE  status'.dropped > status.dropped
      BY <1>0, <2>1 DEF ReportDrop, TypeOK, Status
    <2>2. ASSUME NEW ok \in BOOLEAN, EnqueueLink(ok)
          PROVE  FALSE
      BY <2>2 DEF EnqueueLink
    <2>3. ~SkipLink
      <3> SUFFICES ASSUME SkipLink PROVE FALSE
        OBVIOUS
      <3>1. /\ ~Accepts(LinkTask) /\ Len(queue) < cfg.capacity
            /\ Head(links) \notin seen
        BY <1>0 DEF SkipLink, QueueFull, schedule
      <3>2. Len(queue) < QueueBound
        BY <1>0, <3>1 DEF QueueBound
      <3>3. LinkTask.depth <= cfg.maxDepth /\ LinkTask.url = Head(links)
        BY <1>0 DEF LinkTask, LinkInv
      <3> QED BY <3>1, <3>2, <3>3 DEF Accepts
    <2> QED BY <1>1, <2>1, <2>2, <2>3 DEF Linking
  <1>2. CASE RequestStop \/ UNCHANGED vars
    BY <1>2 DEF RequestStop, vars, worker
  <1>3. CASE Crash
    BY <1>3 DEF Crash
  <1>4. CASE \E c \in Configs, at \in {"start", "restart"} : StartRun(c, at)
    BY <1>4 DEF StartRun
  <1>5. CASE Bootstrap \/ LoopHead \/ Closing
    BY <1>5 DEF Bootstrap, RunIndex, RunIndexRaises, LoopHead, ObserveStop, FindNothing,
                DropAtLimit, TakeTask, TakeTaskRaises, Dequeue, Closing, Settle, SettleRaises,
                Release, FinishRun, FinishRunRaises
  <1> QED BY <1>1, <1>2, <1>3, <1>4, <1>5 DEF Next, WorkerStep

\* A link left out because the queue is full is always reported.
THEOREM NoSilentRefusal == Spec => RefusalsReported
  <1> DEFINE A == \A u \in Urls :
                    (pc = "linking" /\ links' # links /\ pc' # "idle"
                        /\ u = Head(links) /\ u \notin seen')
                      => status'.dropped > status.dropped
  <1>1. InductiveInv /\ [Next]_vars => [A]_vars
    BY StepReports DEF InductiveInv
  <1>2. Spec => [][A]_vars
    BY <1>1, Invariance, PTL DEF Spec
  <1> QED BY <1>2 DEF RefusalsReported

\* Every step of the engine is a step of BreadthFirst or leaves it alone.
LEMMA StepRefines ==
  InductiveInv /\ InductiveInv' /\ [Next]_vars => [Bfs!BfsNext]_(Bfs!bfsVars)
  <1> SUFFICES ASSUME InductiveInv, InductiveInv', [Next]_vars
               PROVE  [Bfs!BfsNext]_(Bfs!bfsVars)
    OBVIOUS
  <1>0. /\ visits \in Seq(Task) /\ queue \in Seq(Task) /\ visits' \in Seq(Task)
        /\ cfg \in Config /\ cfg.maxPages \in Int /\ pagesCrawled \in Nat
    BY ConfigsAssumption DEF InductiveInv, TypeOK, Config
  <1> USE DEF Bfs!bfsVars
  \* The run goes on without a new visit.
  <1>1. ASSUME UNCHANGED <<visits, cfg>>, pc' = "idle" <=> pc = "idle"
        PROVE  [Bfs!BfsNext]_(Bfs!bfsVars)
    BY <1>1
  \* The run is over.
  <1>2. ASSUME UNCHANGED <<visits, cfg>>, pc # "idle", pc' = "idle"
        PROVE  [Bfs!BfsNext]_(Bfs!bfsVars)
    BY <1>2 DEF Bfs!End, Bfs!BfsNext
  <1>3. ASSUME NEW c \in Configs, NEW at \in {"start", "restart"}, StartRun(c, at)
        PROVE  [Bfs!BfsNext]_(Bfs!bfsVars)
    <2>1. c \in Config
      BY ConfigsAssumption
    <2> QED BY <1>3, <2>1 DEF StartRun, Bfs!Begin, Bfs!BfsNext, Config
  <1>4. CASE TakeTask
    <2> DEFINE t == Head(queue)
    <2>1. /\ pc = "loop" /\ pc' = "fetching" /\ cfg' = cfg
          /\ queue # <<>> /\ pagesCrawled < cfg.maxPages
          /\ visits' = Append(visits, t)
      BY <1>0, <1>4 DEF TakeTask, Dequeue, ReachedPageLimit
    <2>2. t \in Task
      BY <1>0, <2>1, HeadTailProperties
    <2>3. /\ Len(visits) \in Nat /\ DOMAIN visits = 1 .. Len(visits)
          /\ visits' # <<>> /\ visits'[Len(visits')] = t
          /\ t = queue[1] /\ Len(queue) \in Nat /\ Len(queue) >= 1
      <3>1. /\ Len(visits') = Len(visits) + 1 /\ visits' # <<>>
            /\ visits'[Len(visits) + 1] = t
        BY <1>0, <2>1, <2>2, AppendProperties
      <3>2. Len(visits) \in Nat /\ DOMAIN visits = 1 .. Len(visits)
        BY <1>0, LenProperties
      <3>3. t = queue[1] /\ Len(queue) \in Nat /\ Len(queue) >= 1
        BY <1>0, <2>1, EmptySeq
      <3> QED BY <3>1, <3>2, <3>3
    <2>4. Len(visits) < cfg.maxPages
      <3>1. Len(visits) - pagesCrawled = 0
        BY <2>1 DEF InductiveInv, CounterInv, Uncounted
      <3> QED BY <1>0, <2>1, <2>3, <3>1
    <2>5. Behind(visits, seen, queue)
      BY <2>1 DEF InductiveInv, FrontierInv, InLoop
    <2>6. \A i \in DOMAIN visits : visits[i].url # t.url
      BY <2>3, <2>5 DEF Behind
    <2>7. Bfs!InOrder(t)
      <3> SUFFICES ASSUME visits # <<>>
                   PROVE  t.depth - visits[Len(visits)].depth \in {0, 1}
        BY DEF Bfs!InOrder
      <3>1. Len(visits) \in 1 .. Len(visits)
        BY <1>0, EmptySeq
      <3>2. visits[Len(visits)].depth <= t.depth /\ t.depth <= visits[Len(visits)].depth + 1
        BY <2>3, <2>5, <3>1 DEF Behind
      <3>3. visits[Len(visits)].depth \in Nat /\ t.depth \in Nat
        <4>1. visits[Len(visits)] \in Task
          BY <1>0, <3>1, ElementOfSeq
        <4> QED BY <4>1, <2>2 DEF Task
      <3> QED BY <3>2, <3>3
    <2>8. Bfs!Visit
      BY <2>1, <2>2, <2>3, <2>4, <2>6, <2>7 DEF Bfs!Visit, Task
    <2> QED BY <2>8 DEF Bfs!BfsNext
  <1>5. CASE RequestStop
    BY <1>1, <1>5 DEF RequestStop
  <1>6. CASE Crash
    BY <1>2, <1>6 DEF Crash
  <1>7. CASE Bootstrap
    <2>1. UNCHANGED <<visits, cfg>> /\ pc # "idle"
      BY <1>7 DEF Bootstrap, RunIndex, RunIndexRaises, history
    <2> QED BY <1>1, <1>2, <2>1
  <1>8. CASE ObserveStop \/ FindNothing \/ DropAtLimit \/ TakeTaskRaises
    <2>1. UNCHANGED <<visits, cfg>> /\ pc # "idle"
      BY <1>8 DEF ObserveStop, FindNothing, DropAtLimit, TakeTaskRaises, Dequeue, history
    <2> QED BY <1>1, <1>2, <2>1
  <1>9. CASE pc = "fetching" /\ Fetch
    <2>1. UNCHANGED <<visits, cfg>> /\ pc # "idle"
      BY <1>9 DEF Fetch, FetchCancelled, FetchFails, FetchPage, FetchPageRaises, history
    <2> QED BY <1>1, <1>2, <2>1
  <1>10. CASE Linking
    <2>1. UNCHANGED <<visits, cfg>> /\ pc # "idle"
      BY <1>10 DEF Linking, EnqueueLink, ReportDrop, SkipLink, history
    <2> QED BY <1>1, <1>2, <2>1
  <1>11. CASE Closing
    <2>1. UNCHANGED <<visits, cfg>> /\ pc # "idle"
      BY <1>11 DEF Closing, Settle, SettleRaises, FinishRun, FinishRunRaises, Release
    <2> QED BY <1>1, <1>2, <2>1
  <1>12. CASE UNCHANGED vars
    BY <1>1, <1>12 DEF vars, history
  <1> QED
    BY <1>3, <1>4, <1>5, <1>6, <1>7, <1>8, <1>9, <1>10, <1>11, <1>12
       DEF Next, WorkerStep, LoopHead

\* The engine implements BreadthFirst: somebody who sees only the trace of
\* visits cannot tell it from a textbook breadth-first search with a budget.
THEOREM EngineIsBreadthFirst == Spec => BreadthFirstSpec
  <1>1. Init => Bfs!BfsInit
    <2> SUFFICES ASSUME Init PROVE Bfs!BfsInit
      OBVIOUS
    <2>1. cfg \in Config
      BY ConfigsAssumption DEF Init
    <2> QED BY <2>1 DEF Init, Bfs!BfsInit, Config
  <1> QED BY <1>1, Invariance, StepRefines, PTL DEF Spec, BreadthFirstSpec, Bfs!BfsSpec

-----------------------------------------------------------------------------
(* Nothing is forgotten.                                                   *)

\* Nothing raises, and all runs of the crawl are configured alike, with a
\* budget of at least one page: the web manager resumes a crawl that way.
Steady ==
    /\ Faults = {}
    /\ \A c, d \in Configs : c = d
    /\ \A c \in Configs : c.maxPages > 0

LEMMA UrlsOfTail ==
  ASSUME NEW q \in Seq(Task), q # <<>>
  PROVE  /\ UrlsOf(q) = {Head(q).url} \cup UrlsOf(Tail(q))
         /\ Len(Tail(q)) = Len(q) - 1
  <1>1. /\ DOMAIN q = 1 .. Len(q) /\ Len(q) \in Nat /\ Len(q) >= 1 /\ Head(q) = q[1]
        /\ DOMAIN Tail(q) = 1 .. Len(Tail(q)) /\ Len(Tail(q)) = Len(q) - 1
        /\ \A i \in 1 .. Len(Tail(q)) : Tail(q)[i] = q[i + 1]
    BY HeadTailProperties, LenProperties, EmptySeq
  <1>2. UrlsOf(q) \subseteq {Head(q).url} \cup UrlsOf(Tail(q))
    <2> SUFFICES ASSUME NEW i \in 1 .. Len(q)
                 PROVE  q[i].url \in {Head(q).url} \cup UrlsOf(Tail(q))
      BY <1>1 DEF UrlsOf
    <2>1. CASE i = 1
      BY <1>1, <2>1
    <2>2. CASE i # 1
      <3>1. i - 1 \in 1 .. Len(Tail(q)) /\ Tail(q)[i - 1] = q[i]
        BY <1>1, <2>2
      <3> QED BY <1>1, <3>1 DEF UrlsOf
    <2> QED BY <2>1, <2>2
  <1>3. {Head(q).url} \cup UrlsOf(Tail(q)) \subseteq UrlsOf(q)
    <2>1. Head(q).url \in UrlsOf(q)
      BY <1>1 DEF UrlsOf
    <2>2. \A i \in 1 .. Len(Tail(q)) : Tail(q)[i].url \in UrlsOf(q)
      BY <1>1 DEF UrlsOf
    <2> QED BY <1>1, <2>1, <2>2 DEF UrlsOf
  <1> QED BY <1>1, <1>2, <1>3

LEMMA UrlsOfAppend ==
  ASSUME NEW q \in Seq(Task), NEW t \in Task
  PROVE  /\ UrlsOf(q) \cup {t.url} \subseteq UrlsOf(Append(q, t))
         /\ Len(Append(q, t)) = Len(q) + 1
  <1>1. /\ DOMAIN q = 1 .. Len(q) /\ Len(q) \in Nat
        /\ DOMAIN Append(q, t) = 1 .. Len(q) + 1
        /\ Len(Append(q, t)) = Len(q) + 1
        /\ \A i \in 1 .. Len(q) : Append(q, t)[i] = q[i]
        /\ Append(q, t)[Len(q) + 1] = t
    BY AppendProperties, LenProperties
  <1>2. t.url \in UrlsOf(Append(q, t))
    BY <1>1 DEF UrlsOf
  <1>3. UrlsOf(q) \subseteq UrlsOf(Append(q, t))
    BY <1>1 DEF UrlsOf
  <1> QED BY <1>1, <1>2, <1>3

\* A checkpoint that fits into the queue is restored in full.
LEMMA BootIsComplete ==
  ASSUME TypeInv, Len(ckpt.pending) <= QueueBound,
         ckpt.seen \subseteq UrlsOf(ckpt.pending) \cup settled
  PROVE  /\ BootSeen \subseteq UrlsOf(BootQueue) \cup settled
         /\ Len(BootQueue) <= QueueBound
  <1>1. cfg \in Config /\ ckpt.pending \in Seq(Task) /\ Len(ckpt.pending) \in Nat
    BY ConfigsAssumption, LenProperties DEF TypeInv, TypeOK
  <1>2. QueueBound \in Int /\ QueueBound >= 1
    BY <1>1 DEF QueueBound, Config
  <1>3. CASE Resuming
    <2>1. SubSeq(ckpt.pending, 1, Len(ckpt.pending)) = ckpt.pending
      BY <1>1, SubSeqFull
    <2>2. Len(ckpt.pending) = QueueBound \/ Len(ckpt.pending) < QueueBound
      BY <1>1, <1>2
    <2>3. BootQueue = ckpt.pending /\ BootSeen = ckpt.seen
      BY <1>3, <2>1, <2>2 DEF BootQueue, BootSeen
    <2> QED BY <2>3
  <1>4. CASE ~Resuming /\ cfg.maxDepth >= 0
    <2>1. BootQueue = <<Seed>> /\ BootSeen = {Seed.url}
      BY <1>4 DEF BootQueue, BootSeen, Seed
    <2>2. Len(<<Seed>>) = 1 /\ <<Seed>>[1] = Seed /\ DOMAIN <<Seed>> = 1 .. 1
      OBVIOUS
    <2> QED BY <1>2, <2>1, <2>2 DEF UrlsOf
  <1>5. CASE ~Resuming /\ ~(cfg.maxDepth >= 0)
    BY <1>2, <1>5, EmptySeq DEF BootQueue, BootSeen
  <1> QED BY <1>3, <1>4, <1>5

LEMMA AccountInit == Init => AccountInv
  <1> SUFFICES ASSUME Init PROVE AccountInv
    OBVIOUS
  <1>1. cfg \in Config
    BY ConfigsAssumption DEF Init
  <1>2. QueueBound \in Int /\ QueueBound >= 1
    BY <1>1 DEF QueueBound, Config
  <1>3. Len(ckpt.pending) = 0 /\ ckpt.seen = {}
    BY DEF Init, EmptyCheckpoint
  <1> QED BY <1>2, <1>3 DEF Init, AccountInv, InLoop

LEMMA AccountNext ==
  ASSUME Steady, TypeInv, AccountInv, [Next]_vars
  PROVE  AccountInv'
  <1>0. /\ cfg \in Config /\ cfg.maxPages \in Int /\ cfg.maxPages > 0
        /\ QueueBound \in Int /\ QueueBound >= 1
        /\ pagesCrawled \in Nat /\ queue \in Seq(Task) /\ Len(queue) \in Nat
        /\ (InPage => task \in Task)
    BY ConfigsAssumption, LenProperties DEF TypeInv, TypeOK, QueueBound, Config, Steady
  <1>a. Faults = {}
    BY DEF Steady
  <1> USE DEF InLoop, InPage
  \* The run ends, or only its place changes.
  <1>1. ASSUME UNCHANGED <<ckpt, settled, cfg>>, pc' = "idle"
        PROVE  AccountInv'
    BY <1>1 DEF AccountInv, UrlsOf, QueueBound
  <1>2. ASSUME UNCHANGED <<ckpt, settled, cfg, seen, queue, task>>,
               \/ UNCHANGED <<pc, pagesCrawled, raised>> /\ (stopEvent => stopEvent')
               \/ pc = "loop" /\ pc' = "closing" /\ raised' = raised
               \/ InPage /\ pc' \in {"linking", "settle"} /\ ~raised'
        PROVE  AccountInv'
    BY <1>2 DEF AccountInv, UrlsOf, QueueBound
  <1>3. ASSUME NEW c \in Configs, NEW at \in {"start", "restart"}, StartRun(c, at)
        PROVE  AccountInv'
    <2>1. cfg' = cfg
      BY <1>3 DEF StartRun, Steady, TypeInv, TypeOK
    <2> QED BY <1>3, <2>1 DEF StartRun, NewApp, AccountInv, UrlsOf, QueueBound
  <1>4. CASE RequestStop
    BY <1>2, <1>4 DEF RequestStop, service, schedule, worker
  <1>5. CASE Crash
    BY <1>1, <1>5 DEF Crash
  <1>6. CASE RunIndex
    <2>1. /\ BootSeen \subseteq UrlsOf(BootQueue) \cup settled
          /\ Len(BootQueue) <= QueueBound
      BY BootIsComplete DEF AccountInv
    <2>2. /\ UNCHANGED <<ckpt, settled, cfg, raised>> /\ pc' = "loop" /\ pagesCrawled' = 0
          /\ seen' = BootSeen /\ queue' = BootQueue /\ pc \in {"start", "restart"}
      BY <1>6 DEF RunIndex, ResetRun, worker, history
    <2>3. ~raised
      BY <2>2 DEF AccountInv
    <2> QED BY <1>0, <2>1, <2>2, <2>3 DEF AccountInv, UrlsOf, QueueBound
  <1>7. CASE ObserveStop \/ FindNothing
    BY <1>2, <1>7 DEF ObserveStop, FindNothing, service, schedule, worker, history
  <1>8. CASE DropAtLimit
    <2>1. pagesCrawled < cfg.maxPages /\ pagesCrawled >= cfg.maxPages
      BY <1>8 DEF DropAtLimit, ReachedPageLimit, AccountInv
    <2> QED BY <1>0, <2>1
  <1>9. CASE TakeTask
    <2>1. /\ pc = "loop" /\ pc' = "fetching" /\ queue # <<>>
          /\ queue' = Tail(queue) /\ task' = Head(queue)
          /\ UNCHANGED <<ckpt, settled, cfg, seen, raised>>
      BY <1>9 DEF TakeTask, Dequeue
    <2>2. /\ UrlsOf(queue) = {Head(queue).url} \cup UrlsOf(Tail(queue))
          /\ Len(Tail(queue)) = Len(queue) - 1
      BY <1>0, <2>1, UrlsOfTail
    <2>3. seen' \subseteq UrlsOf(queue') \cup settled' \cup {task'.url}
      BY <2>1, <2>2 DEF AccountInv
    <2>4. Len(queue') <= QueueBound
      BY <1>0, <2>1, <2>2 DEF AccountInv
    <2> QED BY <2>1, <2>3, <2>4 DEF AccountInv, UrlsOf, QueueBound
  <1>10. CASE pc = "fetching" /\ Fetch
    <2>1. /\ UNCHANGED <<ckpt, settled, cfg, seen, queue, task>>
          /\ pc' \in {"linking", "settle"} /\ ~raised'
      <3>1. ~raised
        BY <1>10 DEF AccountInv
      <3>2. ~FetchCancelled /\ ~FetchPageRaises
        BY <1>a DEF FetchCancelled, FetchPageRaises
      <3>3. ASSUME NEW counted \in BOOLEAN, NEW ok \in BOOLEAN, FetchFails(counted, ok)
            PROVE  /\ UNCHANGED <<ckpt, settled, cfg, seen, queue, task>>
                   /\ pc' \in {"linking", "settle"} /\ ~raised'
        BY <1>a, <3>3 DEF FetchFails, schedule, history
      <3>4. ASSUME NEW ls \in Pages[task.url], FetchPage(ls)
            PROVE  /\ UNCHANGED <<ckpt, settled, cfg, seen, queue, task>>
                   /\ pc' \in {"linking", "settle"} /\ ~raised'
        BY <3>1, <3>4 DEF FetchPage, schedule, history
      <3> QED BY <1>10, <3>2, <3>3, <3>4 DEF Fetch
    <2> QED BY <1>2, <1>10, <2>1
  <1>11. ASSUME NEW ok \in BOOLEAN, EnqueueLink(ok)
         PROVE  AccountInv'
    <2>1. /\ pc = "linking" /\ Accepts(LinkTask) /\ ok
          /\ seen' = seen \cup {LinkTask.url} /\ queue' = Append(queue, LinkTask)
          /\ pc' \in {"linking", "settle"} /\ ~raised'
          /\ UNCHANGED <<ckpt, settled, cfg, task>>
      BY <1>a, <1>11 DEF EnqueueLink, NextLink, LinkTask, history
    <2>2. LinkTask \in Task
      <3>1. Head(links) \in Urls
        BY <2>1, HeadTailProperties DEF TypeInv, TypeOK
      <3> QED BY <1>0, <2>1, <3>1 DEF LinkTask, Task
    <2>3. /\ UrlsOf(queue) \cup {LinkTask.url} \subseteq UrlsOf(queue')
          /\ Len(queue') = Len(queue) + 1
      BY <1>0, <2>1, <2>2, UrlsOfAppend
    <2>4. Len(queue') <= QueueBound
      BY <1>0, <2>1, <2>3 DEF Accepts
    <2>5. seen' \subseteq UrlsOf(queue') \cup settled' \cup {task'.url}
      BY <2>1, <2>3 DEF AccountInv
    <2> QED BY <2>1, <2>4, <2>5 DEF AccountInv, UrlsOf, QueueBound
  <1>12. ASSUME NEW ok \in BOOLEAN, ReportDrop(ok)
         PROVE  AccountInv'
    BY <1>2, <1>12, <1>a DEF ReportDrop, NextLink, schedule, history
  <1>13. CASE SkipLink
    BY <1>2, <1>13 DEF SkipLink, NextLink, schedule, history
  <1>14. CASE Settle
    <2>1. /\ pc = "settle" /\ ~raised
          /\ settled' = settled \cup {task.url} /\ pc' = "loop"
          /\ stopEvent' = (stopEvent \/ ReachedPageLimit)
          /\ UNCHANGED <<cfg, seen, queue, task, raised, pagesCrawled>>
      BY <1>14 DEF Settle, Release, AccountInv, schedule, worker
    <2>2. seen \subseteq UrlsOf(queue) \cup settled' /\ Len(queue) <= QueueBound
      BY <2>1 DEF AccountInv
    <2>3. ckpt' = ckpt \/ ckpt' = [seen |-> seen, pending |-> queue]
      BY <1>14 DEF Settle, Snapshot
    <2>4. /\ ckpt'.seen \subseteq UrlsOf(ckpt'.pending) \cup settled'
          /\ Len(ckpt'.pending) <= QueueBound
      BY <2>1, <2>2, <2>3 DEF AccountInv
    <2>5. ~stopEvent' => pagesCrawled < cfg.maxPages
      <3>1. ~stopEvent' => ~ReachedPageLimit
        BY <2>1, Zenon
      <3> QED BY <1>0, <3>1 DEF ReachedPageLimit
    <2> QED BY <2>1, <2>2, <2>4, <2>5 DEF AccountInv, UrlsOf, QueueBound
  <1>15. CASE FinishRun
    <2>1. /\ pc = "closing" /\ pc' = "idle" /\ UNCHANGED <<settled, cfg>>
          /\ ckpt'.seen = seen /\ ckpt'.pending = queue
      BY <1>15 DEF FinishRun, Snapshot
    <2> QED BY <2>1 DEF AccountInv, UrlsOf, QueueBound
  <1>16. CASE RunIndexRaises \/ TakeTaskRaises \/ SettleRaises \/ FinishRunRaises
    BY <1>16, <1>a DEF RunIndexRaises, TakeTaskRaises, SettleRaises, FinishRunRaises
  <1>17. CASE UNCHANGED vars
    BY <1>2, <1>17 DEF vars, service, schedule, worker, history
  <1> QED
    BY <1>3, <1>4, <1>5, <1>6, <1>7, <1>8, <1>9, <1>10, <1>11, <1>12, <1>13, <1>14, <1>15,
       <1>16, <1>17
       DEF Next, WorkerStep, Bootstrap, LoopHead, Linking, Closing

\* With nothing raising and a steady configuration, no page the checkpoint
\* calls seen is ever lost, across any stops, crashes and resumptions.
THEOREM NothingIsForgotten ==
  ASSUME Steady
  PROVE  Spec => []NothingForgotten
  <1>1. Init => TypeInv /\ AccountInv
    BY TypeInit, AccountInit
  <1>2. TypeInv /\ AccountInv /\ [Next]_vars => (TypeInv /\ AccountInv)'
    BY TypeNext, AccountNext
  <1>3. AccountInv => NothingForgotten
    BY DEF AccountInv, NothingForgotten, Forgotten
  <1> QED BY <1>1, <1>2, <1>3, PTL DEF Spec
-----------------------------------------------------------------------------
(* Little is forgotten, whatever raises.                                   *)

\* A set that did not grow is no larger than it was.
LEMMA NoLarger ==
  ASSUME NEW S, IsFiniteSet(S), NEW T, T \subseteq S, NEW n \in Nat, Cardinality(S) <= n
  PROVE  IsFiniteSet(T) /\ Cardinality(T) \in Nat /\ Cardinality(T) <= n
  <1>1. IsFiniteSet(T) /\ Cardinality(T) <= Cardinality(S)
    BY FS_Subset
  <1>2. Cardinality(S) \in Nat /\ Cardinality(T) \in Nat
    BY <1>1, FS_CardinalityType
  <1> QED BY <1>1, <1>2

\* A page more is at most one more.
LEMMA OneMore ==
  ASSUME NEW S, IsFiniteSet(S), NEW x, NEW n \in Nat, Cardinality(S) <= n
  PROVE  IsFiniteSet(S \cup {x}) /\ Cardinality(S \cup {x}) <= n + 1
  <1>1. IsFiniteSet(S \cup {x}) /\ Cardinality(S) \in Nat
    BY FS_AddElement, FS_CardinalityType
  <1>2. CASE x \in S
    <2>1. Cardinality(S \cup {x}) = Cardinality(S)
      BY <1>2, FS_AddElement
    <2> QED BY <1>1, <2>1
  <1>3. CASE x \notin S
    <2>1. Cardinality(S \cup {x}) = Cardinality(S) + 1
      BY <1>3, FS_AddElement
    <2> QED BY <1>1, <2>1
  <1> QED BY <1>2, <1>3

\* What a run finds when it resumes a checkpoint that fits into its queue.
LEMMA BootMislaysNothing ==
  ASSUME TypeInv, Len(ckpt.pending) <= QueueBound
  PROVE  /\ BootSeen \ (UrlsOf(BootQueue) \cup settled) \subseteq Forgotten
         /\ Len(BootQueue) <= QueueBound
  <1>1. cfg \in Config /\ ckpt.pending \in Seq(Task) /\ Len(ckpt.pending) \in Nat
    BY ConfigsAssumption, LenProperties DEF TypeInv, TypeOK
  <1>2. QueueBound \in Int /\ QueueBound >= 1
    BY <1>1 DEF QueueBound, Config
  <1>3. CASE Resuming
    <2>1. SubSeq(ckpt.pending, 1, Len(ckpt.pending)) = ckpt.pending
      BY <1>1, SubSeqFull
    <2>2. Len(ckpt.pending) = QueueBound \/ Len(ckpt.pending) < QueueBound
      BY <1>1, <1>2
    <2>3. BootQueue = ckpt.pending /\ BootSeen = ckpt.seen
      BY <1>3, <2>1, <2>2 DEF BootQueue, BootSeen
    <2> QED BY <2>3 DEF Forgotten
  <1>4. CASE ~Resuming /\ cfg.maxDepth >= 0
    <2>1. BootQueue = <<Seed>> /\ BootSeen = {Seed.url}
      BY <1>4 DEF BootQueue, BootSeen, Seed
    <2>2. Len(<<Seed>>) = 1 /\ <<Seed>>[1] = Seed /\ DOMAIN <<Seed>> = 1 .. 1
      OBVIOUS
    <2> QED BY <1>2, <2>1, <2>2 DEF UrlsOf
  <1>5. CASE ~Resuming /\ ~(cfg.maxDepth >= 0)
    BY <1>2, <1>5, EmptySeq DEF BootQueue, BootSeen
  <1> QED BY <1>3, <1>4, <1>5

LEMMA LossInit == Init => LossInv
  <1> SUFFICES ASSUME Init PROVE LossInv
    OBVIOUS
  <1>1. Forgotten = {}
    BY DEF Init, EmptyCheckpoint, Forgotten
  <1>2. OneForgottenPerFailure
    BY <1>1, FS_EmptySet DEF Init, OneForgottenPerFailure
  <1> QED BY <1>2 DEF Init, LossInv, InLoop

\* The configuration c of the crawl is that of every run, and allows a page.
LEMMA LossNext ==
  ASSUME NEW c \in Configs, c.maxPages > 0,
         runs > 0 => cfg = c, (runs > 0 => cfg = c)',
         TypeInv, LossInv, [Next]_vars
  PROVE  LossInv'
  <1>0. /\ c \in Config /\ c.maxPages \in Int
        /\ pagesCrawled \in Nat /\ failures \in Nat /\ runs \in Nat
        /\ queue \in Seq(Task) /\ Len(queue) \in Nat /\ Len(ckpt.pending) \in Nat
        /\ (InPage => task \in Task)
        /\ pc # "idle" => cfg = c
    BY ConfigsAssumption, LenProperties DEF TypeInv, TypeOK, Config, LossInv
  <1>a. QueueBound \in Int /\ QueueBound >= 1 /\ (pc # "idle" => runs > 0)
    <2>1. cfg \in Config
      BY ConfigsAssumption DEF TypeInv, TypeOK
    <2> QED BY <1>0, <2>1 DEF QueueBound, Config, LossInv
  <1>b. IsFiniteSet(Forgotten) /\ IsFiniteSet(Mislaid)
    BY FS_Difference DEF TypeInv, FiniteSeen, Forgotten, Mislaid
  <1>c. Cardinality(Forgotten) <= failures /\ (InLoop => Cardinality(Mislaid) <= failures)
    BY DEF LossInv, OneForgottenPerFailure
  \* The checkpoint is left alone, and so are the pages missing from it.
  <1>d. ASSUME ckpt' = ckpt, settled \subseteq settled', failures' \in {failures, failures + 1}
        PROVE  OneForgottenPerFailure'
    <2>1. Forgotten' \subseteq Forgotten
      BY <1>d DEF Forgotten, UrlsOf
    <2>2. Cardinality(Forgotten') \in Nat /\ Cardinality(Forgotten') <= failures
      BY <1>0, <1>b, <1>c, <2>1, NoLarger
    <2> QED BY <1>0, <1>d, <2>2 DEF OneForgottenPerFailure
  <1>e. ASSUME InLoop, Mislaid' \subseteq Mislaid, failures' = failures
        PROVE  Cardinality(Mislaid') <= failures'
    <2>1. Cardinality(Mislaid') <= failures
      BY <1>0, <1>b, <1>c, <1>e, NoLarger
    <2> QED BY <1>e, <2>1
  \* The run is over and has saved nothing.
  <1>1. ASSUME UNCHANGED <<ckpt, settled, cfg, runs>>, pc # "idle", pc' = "idle",
               failures' \in {failures, failures + 1}
        PROVE  LossInv'
    BY <1>a, <1>d, <1>1 DEF LossInv, InLoop, QueueBound
  \* It goes on with the frontier it has.
  <1>2. ASSUME UNCHANGED <<ckpt, settled, cfg, runs, failures, seen, queue, task>>,
               \/ UNCHANGED <<pc, pagesCrawled>> /\ (stopEvent => stopEvent')
               \/ pc = "loop" /\ pc' = "closing"
               \/ InPage /\ pc' \in {"linking", "settle"}
        PROVE  LossInv'
    <2>1. OneForgottenPerFailure'
      BY <1>2, <1>d
    <2>2. InLoop' => InLoop /\ Mislaid' = Mislaid
      BY <1>2 DEF InLoop, InPage, Mislaid, UrlsOf
    <2>3. InLoop' => Cardinality(Mislaid') <= failures' /\ Len(queue') <= QueueBound'
      BY <1>2, <1>c, <2>2 DEF LossInv, QueueBound
    <2>4. pc' = "loop" /\ ~stopEvent' => ~ReachedPageLimit'
      BY <1>2 DEF LossInv, ReachedPageLimit, InPage
    <2>5. (runs' = 0 => pc' = "idle" /\ ckpt' = EmptyCheckpoint)
          /\ (runs' > 0 => Len(ckpt'.pending) <= QueueBound')
      BY <1>a, <1>2 DEF LossInv, QueueBound, InPage
    <2> QED BY <2>1, <2>3, <2>4, <2>5 DEF LossInv
  <1>3. ASSUME NEW e \in Configs, NEW at \in {"start", "restart"}, StartRun(e, at)
        PROVE  LossInv'
    <2>1. /\ runs' = runs + 1 /\ pc' \in {"start", "restart"}
          /\ UNCHANGED <<ckpt, settled, failures>>
      BY <1>3 DEF StartRun
    <2>2. OneForgottenPerFailure'
      BY <2>1, <1>d
    <2>3. cfg' = c
      BY <1>0, <2>1
    <2>4. QueueBound' \in Int /\ QueueBound' >= 1
      BY <1>0, <2>3 DEF QueueBound, Config
    <2>5. Len(ckpt'.pending) <= QueueBound'
      <3>1. CASE runs = 0
        <4>1. Len(ckpt.pending) = 0
          BY <3>1 DEF LossInv, EmptyCheckpoint
        <4> QED BY <2>1, <2>4, <4>1
      <3>2. CASE runs # 0
        <4>1. cfg = c /\ Len(ckpt.pending) <= QueueBound
          BY <1>0, <3>2 DEF LossInv
        <4> QED BY <2>1, <2>3, <4>1 DEF QueueBound
      <3> QED BY <3>1, <3>2
    <2> QED BY <1>0, <2>1, <2>2, <2>5 DEF LossInv, InLoop
  <1>4. CASE RequestStop
    BY <1>2, <1>4 DEF RequestStop, schedule, service, worker
  <1>5. CASE Crash
    BY <1>1, <1>5 DEF Crash
  <1>6. CASE RunIndex
    <2>1. /\ UNCHANGED <<ckpt, settled, cfg, failures, runs>> /\ pc' = "loop" /\ pc # "idle"
          /\ pagesCrawled' = 0 /\ seen' = BootSeen /\ queue' = BootQueue
      BY <1>6 DEF RunIndex, ResetRun, history
    <2>2. /\ BootSeen \ (UrlsOf(BootQueue) \cup settled) \subseteq Forgotten
          /\ Len(BootQueue) <= QueueBound
      BY <1>a, <2>1, BootMislaysNothing DEF LossInv
    <2>3. Mislaid' \subseteq Forgotten
      BY <2>1, <2>2 DEF Mislaid, UrlsOf, InPage
    <2>4. Cardinality(Mislaid') <= failures'
      <3>1. Cardinality(Mislaid') <= failures
        BY <1>0, <1>b, <1>c, <2>3, NoLarger
      <3> QED BY <2>1, <3>1
    <2>5. ~ReachedPageLimit'
      BY <1>0, <2>1 DEF ReachedPageLimit
    <2>6. OneForgottenPerFailure'
      BY <2>1, <1>d
    <2> QED BY <1>a, <2>1, <2>2, <2>4, <2>5, <2>6 DEF LossInv, QueueBound
  <1>7. CASE RunIndexRaises \/ TakeTaskRaises \/ SettleRaises \/ FinishRunRaises
    <2>1. UNCHANGED <<ckpt, settled, cfg, runs>> /\ failures' = failures + 1
          /\ pc # "idle" /\ pc' = "idle"
      BY <1>7 DEF RunIndexRaises, TakeTaskRaises, Dequeue, SettleRaises, Release,
                  FinishRunRaises, RunFails
    <2> QED BY <1>1, <2>1
  <1>8. CASE ObserveStop \/ FindNothing
    BY <1>2, <1>8 DEF ObserveStop, FindNothing, service, schedule, worker, history
  <1>9. CASE DropAtLimit
    BY <1>9 DEF DropAtLimit, LossInv
  <1>10. CASE TakeTask
    <2>1. /\ pc = "loop" /\ pc' = "fetching" /\ queue # <<>>
          /\ queue' = Tail(queue) /\ task' = Head(queue)
          /\ UNCHANGED <<ckpt, settled, cfg, seen, failures, runs>>
      BY <1>10 DEF TakeTask, Dequeue
    <2>2. /\ UrlsOf(queue) = {Head(queue).url} \cup UrlsOf(Tail(queue))
          /\ Len(Tail(queue)) = Len(queue) - 1
      BY <1>0, <2>1, UrlsOfTail
    <2>3. Mislaid' \subseteq Mislaid
      <3>1. UrlsOf(queue') = UrlsOf(Tail(queue))
        BY <2>1
      <3>2. UrlsOf(queue)' = UrlsOf(queue')
        BY DEF UrlsOf
      <3>3. Mislaid' = seen \ (UrlsOf(Tail(queue)) \cup settled \cup {Head(queue).url})
        BY <2>1, <3>1, <3>2 DEF Mislaid, InPage
      <3>4. Mislaid = seen \ (UrlsOf(queue) \cup settled)
        BY <2>1 DEF Mislaid, InPage
      <3> QED BY <2>2, <3>3, <3>4
    <2>4. Cardinality(Mislaid') <= failures'
      BY <1>e, <2>1, <2>3 DEF InLoop
    <2>5. Len(queue') <= QueueBound'
      BY <1>0, <1>a, <2>1, <2>2 DEF LossInv, InLoop, QueueBound
    <2>6. OneForgottenPerFailure'
      BY <2>1, <1>d
    <2> QED BY <1>a, <2>1, <2>4, <2>5, <2>6 DEF LossInv, QueueBound
  <1>11. CASE pc = "fetching" /\ Fetch
    <2>1. /\ UNCHANGED <<ckpt, settled, cfg, runs, failures, seen, queue, task>>
          /\ pc' \in {"linking", "settle"}
      BY <1>11 DEF Fetch, FetchCancelled, FetchFails, FetchPage, FetchPageRaises, schedule,
                   history
    <2> QED BY <1>2, <1>11, <2>1 DEF InPage
  <1>12. ASSUME NEW ok \in BOOLEAN, EnqueueLink(ok)
         PROVE  LossInv'
    <2>1. /\ pc = "linking" /\ Accepts(LinkTask)
          /\ seen' = seen \cup {LinkTask.url} /\ queue' = Append(queue, LinkTask)
          /\ pc' \in {"linking", "settle"}
          /\ UNCHANGED <<ckpt, settled, cfg, task, failures, runs>>
      BY <1>12 DEF EnqueueLink, NextLink, LinkTask, history
    <2>2. LinkTask \in Task
      <3>1. Head(links) \in Urls
        BY <2>1, HeadTailProperties DEF TypeInv, TypeOK
      <3> QED BY <1>0, <2>1, <3>1 DEF LinkTask, Task, InPage
    <2>3. /\ UrlsOf(queue) \cup {LinkTask.url} \subseteq UrlsOf(Append(queue, LinkTask))
          /\ Len(Append(queue, LinkTask)) = Len(queue) + 1
      BY <1>0, <2>2, UrlsOfAppend
    <2>4. Mislaid' \subseteq Mislaid
      <3>1. UrlsOf(queue)' = UrlsOf(Append(queue, LinkTask))
        BY <2>1 DEF UrlsOf
      <3>2. Mislaid' = (seen \cup {LinkTask.url})
                         \ (UrlsOf(Append(queue, LinkTask)) \cup settled \cup {task.url})
        BY <2>1, <3>1 DEF Mislaid, InPage
      <3>3. Mislaid = seen \ (UrlsOf(queue) \cup settled \cup {task.url})
        BY <2>1 DEF Mislaid, InPage
      <3> QED BY <2>3, <3>2, <3>3
    <2>5. Cardinality(Mislaid') <= failures'
      BY <1>e, <2>1, <2>4 DEF InLoop
    <2>6. Len(queue') <= QueueBound'
      BY <1>0, <1>a, <2>1, <2>3 DEF Accepts, QueueBound
    <2>7. OneForgottenPerFailure'
      BY <2>1, <1>d
    <2> QED BY <1>a, <2>1, <2>5, <2>6, <2>7 DEF LossInv, QueueBound
  <1>13. ASSUME NEW ok \in BOOLEAN, ReportDrop(ok)
         PROVE  LossInv'
    BY <1>2, <1>13 DEF ReportDrop, NextLink, schedule, history, InPage
  <1>14. CASE SkipLink
    BY <1>2, <1>14 DEF SkipLink, NextLink, schedule, history, InPage
  <1>15. CASE Settle
    <2>1. /\ pc = "settle" /\ task \in Task
          /\ stopEvent' = (stopEvent \/ ReachedPageLimit)
          /\ UNCHANGED <<cfg, seen, queue, task, pagesCrawled, runs>>
      BY <1>0, <1>15 DEF Settle, Release, schedule, worker, InPage
    <2>2. /\ Mislaid = seen \ (UrlsOf(queue) \cup settled \cup {task.url})
          /\ Cardinality(Mislaid) <= failures /\ Len(queue) <= QueueBound
          /\ Cardinality(Mislaid) \in Nat
      BY <1>b, <1>c, <2>1, FS_CardinalityType DEF Mislaid, InPage, InLoop, LossInv
    <2>3. ckpt' = ckpt \/ ckpt' = [seen |-> seen, pending |-> queue]
      BY <1>15 DEF Settle, Snapshot
    <2>4. Len(ckpt'.pending) <= QueueBound'
      BY <1>a, <2>1, <2>2, <2>3 DEF LossInv, QueueBound
    <2>5. Forgotten' = ckpt'.seen \ (UrlsOf(ckpt'.pending) \cup settled')
      BY DEF Forgotten, UrlsOf
    <2>6. CASE raised
      <3>1. pc' = "idle" /\ settled' = settled /\ failures' = failures + 1
        BY <1>15, <2>6 DEF Settle, RunFails
      <3>2. CASE ckpt' = ckpt
        BY <1>1, <2>1, <3>1, <3>2
      <3>3. CASE ckpt' = [seen |-> seen, pending |-> queue]
        <4>1. Forgotten' \subseteq Mislaid \cup {task.url}
          BY <2>2, <2>5, <3>1, <3>3
        <4>2. /\ IsFiniteSet(Mislaid \cup {task.url})
              /\ Cardinality(Mislaid \cup {task.url}) <= failures + 1
          BY <1>0, <1>b, <2>2, OneMore
        <4>3. Cardinality(Forgotten') <= failures + 1
          BY <1>0, <4>1, <4>2, NoLarger
        <4>4. OneForgottenPerFailure'
          BY <3>1, <4>3 DEF OneForgottenPerFailure
        <4> QED BY <1>a, <2>1, <2>4, <3>1, <4>4 DEF LossInv, InLoop
      <3> QED BY <2>3, <3>2, <3>3
    <2>7. CASE ~raised
      <3>1. pc' = "loop" /\ settled' = settled \cup {task.url} /\ failures' = failures
        BY <1>15, <2>7 DEF Settle
      <3>2. Mislaid' \subseteq Mislaid
        BY <2>1, <2>2, <3>1 DEF Mislaid, InPage, UrlsOf
      <3>3. OneForgottenPerFailure'
        <4>1. CASE ckpt' = ckpt
          BY <1>d, <3>1, <4>1
        <4>2. CASE ckpt' = [seen |-> seen, pending |-> queue]
          <5>1. Forgotten' \subseteq Mislaid
            BY <2>2, <2>5, <3>1, <4>2
          <5>2. Cardinality(Forgotten') <= failures
            BY <1>0, <1>b, <2>2, <5>1, NoLarger
          <5> QED BY <3>1, <5>2 DEF OneForgottenPerFailure
        <4> QED BY <2>3, <4>1, <4>2
      <3>4. Cardinality(Mislaid') <= failures'
        BY <1>e, <2>1, <3>1, <3>2 DEF InLoop
      <3>5. ~stopEvent' => ~ReachedPageLimit'
        <4>1. ~stopEvent' => ~ReachedPageLimit
          BY <2>1, Zenon
        <4> QED BY <2>1, <4>1 DEF ReachedPageLimit
      <3>6. Len(queue') <= QueueBound'
        BY <2>1, <2>2 DEF QueueBound
      <3> QED BY <1>a, <2>1, <2>4, <3>1, <3>3, <3>4, <3>5, <3>6 DEF LossInv
    <2> QED BY <2>6, <2>7
  <1>16. CASE FinishRun
    <2>1. /\ pc = "closing" /\ pc' = "idle"
          /\ UNCHANGED <<settled, cfg, failures, runs>>
          /\ ckpt' = [seen |-> seen, pending |-> queue]
      BY <1>16 DEF FinishRun, Snapshot
    <2>2. Forgotten' \subseteq Mislaid
      BY <2>1 DEF Mislaid, InPage, Forgotten, UrlsOf
    <2>3. Cardinality(Forgotten') <= failures
      BY <1>0, <1>b, <1>c, <2>1, <2>2, NoLarger DEF InLoop
    <2>4. OneForgottenPerFailure'
      BY <2>1, <2>3 DEF OneForgottenPerFailure
    <2>5. Len(ckpt'.pending) <= QueueBound'
      BY <2>1 DEF LossInv, InLoop, QueueBound
    <2> QED BY <1>a, <2>1, <2>4, <2>5 DEF LossInv, InLoop
  <1>17. CASE UNCHANGED vars
    <2>1. UNCHANGED <<ckpt, settled, cfg, runs, failures, seen, queue, task>>
          /\ UNCHANGED <<pc, pagesCrawled, stopEvent>>
      BY <1>17 DEF vars, service, schedule, worker, history
    <2>2. LossInv' = LossInv
      BY <2>1 DEF LossInv, OneForgottenPerFailure, Forgotten, Mislaid, InLoop, InPage,
                  QueueBound, UrlsOf, ReachedPageLimit
    <2> QED BY <2>2
  <1> QED
    BY <1>3, <1>4, <1>5, <1>6, <1>7, <1>8, <1>9, <1>10, <1>11, <1>12, <1>13, <1>14, <1>15,
       <1>16, <1>17
       DEF Next, WorkerStep, Bootstrap, LoopHead, Linking, Closing

\* Whatever raises, and wherever the crawl is stopped, killed and resumed: no
\* more pages are missing from the checkpoint than exceptions left index(), if
\* every run of the crawl has the same configuration.
THEOREM LittleIsForgotten == Spec => SteadyCrawlsForgetLittle
  <1> SUFFICES ASSUME NEW c \in Configs, c.maxPages > 0
               PROVE  Spec /\ [](runs > 0 => cfg = c) => []OneForgottenPerFailure
    BY DEF SteadyCrawlsForgetLittle
  <1> DEFINE H == runs > 0 => cfg = c
             I == TypeInv /\ LossInv
  <1>1. Init => I
    BY TypeInit, LossInit
  <1>2. I /\ H /\ H' /\ [Next]_vars => I'
    BY TypeNext, LossNext
  <1>3. I => OneForgottenPerFailure
    BY DEF LossInv
  <1> QED BY <1>1, <1>2, <1>3, PTL DEF Spec
=============================================================================
