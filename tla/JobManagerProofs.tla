--------------------------- MODULE JobManagerProofs ---------------------------
(***************************************************************************)
(* Theorems about JobManager, for any crawlers, request threads, stops,    *)
(* failing writes and restarts.                                            *)
(***************************************************************************)
EXTENDS JobManager, FiniteSetTheorems, TLAPS

\* Handler h is carrying out a request about the crawler.
Asks(h, id) == req[h].step # "idle" /\ id \in req[h].ids

Thread(id, t) == jobs[id][t].thread
Active(id, t) == Thread(id, t) \in {"started", "crawling", "deciding"}

-----------------------------------------------------------------------------
\* What a thread works for is there, and it knows how the run has ended.
ThreadsInv(id) ==
    \A t \in DOMAIN jobs[id] :
        /\ Thread(id, t) \in {"crawling", "deciding", "writing"} =>
              jobs[id][t].serves \in DOMAIN jobs[id]
        /\ Thread(id, t) = "deciding" => jobs[id][t].verdict \in Verdicts

\* A request that starts a job is about one crawler; its job is there, has no
\* thread yet, and is started by no other request.
Starts(h) == req[h].step \in {"upsert", "start"}

RequestInv(h) ==
    /\ req[h].step \in {"read", "register", "upsert", "start"} => \E id \in Ids : req[h].ids = {id}
    /\ Starts(h) =>
          /\ \A id \in req[h].ids :
                req[h].job \in DOMAIN jobs[id] /\ Thread(id, req[h].job) = "none"
          /\ \A k \in Handlers :
                Starts(k) /\ req[k].ids = req[h].ids /\ req[k].job = req[h].job => k = h

\* Of a crawler that was never created there is nothing.
UnknownInv(id) ==
    ~Known(id) =>
        /\ jobs[id] = <<>> /\ rows[id] = None /\ data[id] = {}
        /\ \A h \in Handlers : Asks(h, id) => Erasing(h)

CarriedInv(id) == IsRunning(id) => Carried(id, registry[id]) \/ id \in broken

\* A crawler whose requests do not overlap is either asked about by one request
\* or worked for by one thread, the one of the registered job.
CalmInv(id) ==
    id \notin hasty =>
        /\ \A h, k \in Handlers : Asks(h, id) /\ Asks(k, id) => h = k
        /\ \A t \in DOMAIN jobs[id] :
              /\ Active(id, t) \/ Thread(id, t) = "writing" =>
                    t = registry[id] /\ \A h \in Handlers : ~Asks(h, id)
              /\ Thread(id, t) \in {"crawling", "deciding", "writing"} => jobs[id][t].serves = t
              /\ Active(id, t) => jobs[id][t].state = "running"
              /\ Thread(id, t) = "writing" => jobs[id][t].state \in Verdicts
        /\ \A h \in Handlers : Asks(h, id) =>
              /\ req[h].step \in {"read", "register"} => ~IsRunning(id)
              /\ req[h].step \in {"upsert", "start"} =>
                    req[h].job = registry[id] /\ IsRunning(id)
              /\ Erasing(h) => registry[id] = 0

\* Memory, table and disk agree.
Agreed(id) ==
    /\ registry[id] = 0 => rows[id] = None /\ data[id] = {}
    /\ registry[id] # 0 => rows[id] = RowOf(Registered(id), Registered(id).created)

RowRuns(id) == rows[id] # None /\ rows[id].state = "running"

\* How far they do while something is going on.
KeptInv(id) ==
    id \notin hasty \cup broken =>
        /\ \A t \in DOMAIN jobs[id] : Active(id, t) \/ Thread(id, t) = "writing" => RowRuns(id)
        /\ Quiet(id) => Agreed(id)
        /\ \A h \in Handlers : Asks(h, id) =>
              /\ req[h].step = "read" => Agreed(id)
              /\ req[h].step = "register" => Agreed(id) /\ rows[id] # None
              /\ req[h].step = "upsert" => (rows[id] = None => data[id] = {})
              /\ req[h].step = "start" => RowRuns(id)
              /\ req[h].step = "rows" => ~RowRuns(id)
              /\ req[h].step = "documents" =>
                    rows[id] = None /\ data[id] \subseteq {"documents", "checkpoint"}
              /\ req[h].step = "checkpoint" => rows[id] = None /\ data[id] \subseteq {"checkpoint"}

CrawlerInv(id) ==
    ThreadsInv(id) /\ UnknownInv(id) /\ CarriedInv(id) /\ CalmInv(id) /\ KeptInv(id)

JobInv ==
    /\ TypeOK
    /\ \A h \in Handlers : RequestInv(h)
    /\ \A id \in Ids : CrawlerInv(id)

\* RowsFollow for one crawler.
RowFollows(id) ==
    id \notin hasty \cup broken /\ RowRuns(id) =>
        IsRunning(id) \/ \E t \in DOMAIN jobs[id] : Thread(id, t) = "writing"

-----------------------------------------------------------------------------
(* What a step leaves alone.                                               *)

Grows == hasty \subseteq hasty' /\ broken \subseteq broken'

\* No request about the crawler moves.
SameRequests(id) ==
    \A h \in Handlers :
        /\ Asks(h, id)' <=> Asks(h, id)
        /\ Asks(h, id) => req'[h] = req[h]

Same(id) ==
    /\ jobs'[id] = jobs[id] /\ registry'[id] = registry[id]
    /\ rows'[id] = rows[id] /\ data'[id] = data[id] /\ birth'[id] = birth[id]

\* The invariant of a crawler that a step is not about.
LEMMA Frame ==
  ASSUME NEW id \in Ids, CrawlerInv(id), Same(id), SameRequests(id), Grows
  PROVE  CrawlerInv(id)'
  <1> USE DEF Same, SameRequests, Grows
  <1>1. ThreadsInv(id)'
    BY DEF CrawlerInv, ThreadsInv, Thread
  <1>2. UnknownInv(id)'
    BY DEF CrawlerInv, UnknownInv, Known, Erasing, Asks
  <1>3. CarriedInv(id)'
    <2>1. \A g : Starting(id, g) => Starting(id, g)'
      <3> SUFFICES ASSUME NEW g, Starting(id, g) PROVE Starting(id, g)'
        OBVIOUS
      <3>1. PICK h \in Handlers :
               req[h].step \in {"upsert", "start"} /\ req[h].ids = {id} /\ req[h].job = g
        BY DEF Starting
      <3>2. req'[h] = req[h]
        BY <3>1 DEF Asks
      <3> QED
        BY <3>1, <3>2 DEF Starting
    <2> QED
      BY <2>1 DEF CrawlerInv, CarriedInv, IsRunning, Registered, Carried
  <1>4. CalmInv(id)'
    BY DEF CrawlerInv, CalmInv, Thread, Active, IsRunning, Registered, Erasing
  <1>5. KeptInv(id)'
    <2>1. Quiet(id)' => Quiet(id)
      BY DEF Quiet, UnderWay, Asks
    <2>2. /\ Agreed(id)' <=> Agreed(id)
          /\ RowRuns(id)' <=> RowRuns(id)
      BY DEF Agreed, RowOf, Registered, RowRuns
    <2> QED
      BY <2>1, <2>2 DEF CrawlerInv, KeptInv, Thread, Active
  <1> QED
    BY <1>1, <1>2, <1>3, <1>4, <1>5 DEF CrawlerInv

\* A step that keeps the invariant of the crawlers it is about keeps it whole.
LEMMA Local ==
  ASSUME JobInv, TypeOK', Grows, NEW S \in SUBSET Ids,
         \A h \in Handlers : RequestInv(h)',
         \A c \in S : CrawlerInv(c)',
         \A c \in Ids \ S : Same(c) /\ SameRequests(c)
  PROVE  JobInv'
  <1> SUFFICES ASSUME NEW c \in Ids PROVE CrawlerInv(c)'
    BY DEF JobInv
  <1>1. CASE c \in S
    BY <1>1
  <1>2. CASE c \notin S
    <2>1. CrawlerInv(c) /\ Same(c) /\ SameRequests(c)
      BY <1>2 DEF JobInv
    <2> QED
      BY <2>1, Frame
  <1> QED
    BY <1>1, <1>2

-----------------------------------------------------------------------------
(* The steps of a thread.                                                  *)

\* The jobs of one crawler change, none is added.
Edits(id) ==
    /\ jobs' \in [Ids -> Seq(Job)]
    /\ DOMAIN jobs'[id] = DOMAIN jobs[id] /\ Len(jobs'[id]) = Len(jobs[id])
    /\ \A c \in Ids \ {id} : jobs'[c] = jobs[c]

LEMMA Edited ==
  ASSUME TypeOK, NEW id \in Ids, NEW g \in DOMAIN jobs[id], NEW job \in Job,
         jobs' = [jobs EXCEPT ![id] = [jobs[id] EXCEPT ![g] = job]]
  PROVE  /\ Edits(id)
         /\ jobs'[id][g] = job
         /\ \A t \in DOMAIN jobs[id] \ {g} : jobs'[id][t] = jobs[id][t]
  <1>1. jobs \in [Ids -> Seq(Job)]
    BY DEF TypeOK
  <1>2. [jobs[id] EXCEPT ![g] = job] \in Seq(Job)
    BY <1>1
  <1>3. jobs'[id] = [jobs[id] EXCEPT ![g] = job] /\ jobs' \in [Ids -> Seq(Job)]
    BY <1>1, <1>2
  <1>4. DOMAIN jobs'[id] = DOMAIN jobs[id] /\ Len(jobs'[id]) = Len(jobs[id])
    BY <1>1, <1>3
  <1> QED
    BY <1>1, <1>3, <1>4 DEF Edits

\* Thread g of the crawler moves on; no job changes its state.
Moves(id, g, thread, serves, verdict) ==
    /\ Edits(id)
    /\ \A t \in DOMAIN jobs[id] :
          /\ jobs'[id][t].state = jobs[id][t].state
          /\ jobs'[id][t].created = jobs[id][t].created
          /\ t # g => jobs'[id][t] = jobs[id][t]
    /\ jobs'[id][g].thread = thread /\ jobs'[id][g].serves = serves
    /\ jobs'[id][g].verdict = verdict

LEMMA Moved ==
  ASSUME TypeOK, NEW id \in Ids, NEW g \in DOMAIN jobs[id], NEW job \in Job,
         job.state = jobs[id][g].state, job.created = jobs[id][g].created,
         jobs' = [jobs EXCEPT ![id] = [jobs[id] EXCEPT ![g] = job]]
  PROVE  Moves(id, g, job.thread, job.serves, job.verdict)
  <1>1. /\ Edits(id) /\ jobs'[id][g] = job
        /\ \A t \in DOMAIN jobs[id] \ {g} : jobs'[id][t] = jobs[id][t]
    BY Edited
  <1> QED
    BY <1>1 DEF Moves

LEMMA LookUpMoves ==
  ASSUME TypeOK, NEW id \in Ids, NEW g, LookUp(id, g)
  PROVE  /\ g \in DOMAIN jobs[id]
         /\ Moves(id, g, IF registry[id] = 0 THEN "done" ELSE "crawling", registry[id],
                  jobs[id][g].verdict)
  <1>1. /\ g \in DOMAIN jobs[id] /\ jobs[id][g] \in Job /\ registry[id] \in Nat
        /\ jobs \in [Ids -> Seq(Job)]
    BY DEF TypeOK, LookUp, At
  <1>2. PICK job \in Job :
           job = [jobs[id][g] EXCEPT !.serves = registry[id],
                                     !.thread = IF registry[id] = 0 THEN "done" ELSE "crawling"]
    BY <1>1 DEF Job
  <1>3. /\ job.state = jobs[id][g].state /\ job.created = jobs[id][g].created
        /\ job.thread = IF registry[id] = 0 THEN "done" ELSE "crawling"
        /\ job.serves = registry[id] /\ job.verdict = jobs[id][g].verdict
    BY <1>1, <1>2 DEF Job
  <1>4. jobs' = [jobs EXCEPT ![id] = [jobs[id] EXCEPT ![g] = job]]
    BY <1>1, <1>2 DEF LookUp
  <1>5. Moves(id, g, job.thread, job.serves, job.verdict)
    BY <1>1, <1>3, <1>4, Moved
  <1> QED
    BY <1>1, <1>3, <1>5

LEMMA RunEndsMoves ==
  ASSUME TypeOK, NEW id \in Ids, NEW g, RunReturns(id, g) \/ RunRaises(id, g),
         jobs[id][g].serves \in DOMAIN jobs[id]
  PROVE  /\ g \in DOMAIN jobs[id]
         /\ \E verdict \in Verdicts : Moves(id, g, "deciding", jobs[id][g].serves, verdict)
  <1>1. /\ g \in DOMAIN jobs[id] /\ jobs[id][g] \in Job
        /\ jobs[id][jobs[id][g].serves] \in Job /\ jobs \in [Ids -> Seq(Job)]
    BY DEF TypeOK, RunReturns, RunRaises, At
  <1>2. PICK verdict \in Verdicts :
           jobs' = [jobs EXCEPT ![id] = [jobs[id] EXCEPT ![g] =
                       [jobs[id][g] EXCEPT !.verdict = verdict, !.thread = "deciding"]]]
    <2>1. CASE RunRaises(id, g)
      <3>1. "failed" \in Verdicts
        BY DEF Verdicts
      <3>2. jobs' = [jobs EXCEPT ![id] = [jobs[id] EXCEPT ![g] =
                       [jobs[id][g] EXCEPT !.verdict = "failed", !.thread = "deciding"]]]
        BY <1>1, <2>1 DEF RunRaises
      <3> QED
        BY <3>1, <3>2
    <2>2. CASE RunReturns(id, g)
      <3> DEFINE reason == jobs[id][jobs[id][g].serves].reason
      <3>1. (IF reason = None THEN "completed" ELSE reason) \in Verdicts
        BY <1>1 DEF Verdicts, Job
      <3> QED
        BY <1>1, <2>2, <3>1 DEF RunReturns
    <2> QED
      BY <2>1, <2>2
  <1>3. PICK job \in Job : job = [jobs[id][g] EXCEPT !.verdict = verdict, !.thread = "deciding"]
    BY <1>1 DEF Job
  <1>4. /\ job.state = jobs[id][g].state /\ job.created = jobs[id][g].created
        /\ job.thread = "deciding" /\ job.serves = jobs[id][g].serves /\ job.verdict = verdict
    BY <1>1, <1>3 DEF Job
  <1>5. jobs' = [jobs EXCEPT ![id] = [jobs[id] EXCEPT ![g] = job]]
    BY <1>2, <1>3
  <1>6. Moves(id, g, job.thread, job.serves, job.verdict)
    BY <1>1, <1>4, <1>5, Moved
  <1> QED
    BY <1>1, <1>4, <1>6

LEMMA UpsertMoves ==
  ASSUME TypeOK, NEW id \in Ids, NEW g, UpsertFinished(id, g) \/ UpsertFinishedRaises(id, g)
  PROVE  /\ g \in DOMAIN jobs[id]
         /\ Moves(id, g, "done", 0, jobs[id][g].verdict)
  <1>1. g \in DOMAIN jobs[id] /\ jobs[id][g] \in Job /\ jobs \in [Ids -> Seq(Job)]
    BY DEF TypeOK, UpsertFinished, UpsertFinishedRaises, At
  <1>2. PICK job \in Job : job = [jobs[id][g] EXCEPT !.thread = "done", !.serves = 0]
    BY <1>1 DEF Job
  <1>3. /\ job.state = jobs[id][g].state /\ job.created = jobs[id][g].created
        /\ job.thread = "done" /\ job.serves = 0 /\ job.verdict = jobs[id][g].verdict
    BY <1>1, <1>2 DEF Job
  <1>4. jobs' = [jobs EXCEPT ![id] = [jobs[id] EXCEPT ![g] = job]]
    BY <1>1, <1>2 DEF UpsertFinished, UpsertFinishedRaises
  <1>5. Moves(id, g, job.thread, job.serves, job.verdict)
    BY <1>1, <1>3, <1>4, Moved
  <1> QED
    BY <1>1, <1>3, <1>5

LEMMA StartThreadMoves ==
  ASSUME TypeOK, NEW id \in Ids, NEW h \in Handlers, StartThread(h, id),
         req[h].job \in DOMAIN jobs[id]
  PROVE  Moves(id, req[h].job, "started", jobs[id][req[h].job].serves,
               jobs[id][req[h].job].verdict)
  <1> DEFINE g == req[h].job
  <1>1. g \in DOMAIN jobs[id] /\ jobs[id][g] \in Job /\ jobs \in [Ids -> Seq(Job)]
    BY DEF TypeOK
  <1>2. PICK job \in Job : job = [jobs[id][g] EXCEPT !.thread = "started"]
    BY <1>1 DEF Job
  <1>3. /\ job.state = jobs[id][g].state /\ job.created = jobs[id][g].created
        /\ job.thread = "started" /\ job.serves = jobs[id][g].serves
        /\ job.verdict = jobs[id][g].verdict
    BY <1>1, <1>2 DEF Job
  <1>4. jobs' = [jobs EXCEPT ![id] = [jobs[id] EXCEPT ![g] = job]]
    BY <1>1, <1>2 DEF StartThread
  <1>5. Moves(id, g, job.thread, job.serves, job.verdict)
    BY <1>1, <1>3, <1>4, Moved
  <1> QED
    BY <1>3, <1>5

LEMMA RequestStopMoves ==
  ASSUME TypeOK, NEW id \in Ids, NEW reason \in Reasons, RequestStop(id, reason)
  PROVE  /\ registry[id] \in DOMAIN jobs[id]
         /\ Moves(id, registry[id], Registered(id).thread, Registered(id).serves,
                  Registered(id).verdict)
  <1> DEFINE g == registry[id]
  <1>1. g \in DOMAIN jobs[id] /\ jobs[id][g] \in Job /\ jobs \in [Ids -> Seq(Job)]
    BY DEF TypeOK, RequestStop, IsRunning
  <1>2. PICK job \in Job : job = [jobs[id][g] EXCEPT !.reason = reason]
    BY <1>1 DEF Job
  <1>3. /\ job.state = jobs[id][g].state /\ job.created = jobs[id][g].created
        /\ job.thread = jobs[id][g].thread /\ job.serves = jobs[id][g].serves
        /\ job.verdict = jobs[id][g].verdict
    BY <1>1, <1>2 DEF Job
  <1>4. jobs' = [jobs EXCEPT ![id] = [jobs[id] EXCEPT ![g] = job]]
    BY <1>1, <1>2 DEF RequestStop
  <1>5. Moves(id, g, job.thread, job.serves, job.verdict)
    BY <1>1, <1>3, <1>4, Moved
  <1> QED
    BY <1>1, <1>3, <1>5 DEF Registered

LEMMA SetStateMoves ==
  ASSUME TypeOK, NEW id \in Ids, NEW g, SetState(id, g),
         jobs[id][g].serves \in DOMAIN jobs[id], jobs[id][g].verdict \in Verdicts
  PROVE  /\ g \in DOMAIN jobs[id] /\ Edits(id)
         /\ \A t \in DOMAIN jobs[id] :
               /\ jobs'[id][t].created = jobs[id][t].created
               /\ jobs'[id][t].serves = jobs[id][t].serves
               /\ t # g => /\ jobs'[id][t].thread = jobs[id][t].thread
                           /\ jobs'[id][t].verdict = jobs[id][t].verdict
               /\ t # jobs[id][g].serves => jobs'[id][t].state = jobs[id][t].state
         /\ jobs'[id][g].thread = "writing"
         /\ jobs'[id][jobs[id][g].serves].state \in Verdicts
  <1> DEFINE s == jobs[id][g].serves
  <1>1. /\ g \in DOMAIN jobs[id] /\ s \in DOMAIN jobs[id]
        /\ jobs[id][g] \in Job /\ jobs[id][s] \in Job
        /\ jobs \in [Ids -> Seq(Job)]
    BY DEF TypeOK, SetState, At
  <1>2. PICK a \in Job : a = [jobs[id][s] EXCEPT !.state = jobs[id][g].verdict]
    BY <1>1 DEF Job, States
  <1>3. PICK own \in Job : own = IF g = s THEN a ELSE jobs[id][g]
    BY <1>1
  <1>4. PICK b \in Job : b = [own EXCEPT !.verdict = None, !.thread = "writing"]
    BY DEF Job
  <1>5. [[jobs[id] EXCEPT ![s] = a] EXCEPT ![g] = b] \in Seq(Job)
    BY <1>1
  <1>6. /\ jobs' = [jobs EXCEPT ![id] = [[jobs[id] EXCEPT ![s] = a] EXCEPT ![g] = b]]
    BY <1>1, <1>2, <1>3, <1>4 DEF SetState
  <1>7. /\ jobs' \in [Ids -> Seq(Job)]
        /\ jobs'[id] = [[jobs[id] EXCEPT ![s] = a] EXCEPT ![g] = b]
        /\ \A c \in Ids \ {id} : jobs'[c] = jobs[c]
    BY <1>1, <1>5, <1>6
  <1>8. /\ DOMAIN jobs'[id] = DOMAIN jobs[id] /\ Len(jobs'[id]) = Len(jobs[id])
        /\ jobs'[id][g] = b
        /\ g # s => jobs'[id][s] = a
        /\ \A t \in DOMAIN jobs[id] \ {g, s} : jobs'[id][t] = jobs[id][t]
    BY <1>1, <1>7
  <1>9. /\ b.thread = "writing" /\ b.state = own.state /\ b.created = own.created
        /\ b.serves = own.serves
        /\ a.thread = jobs[id][s].thread /\ a.verdict = jobs[id][s].verdict
        /\ a.created = jobs[id][s].created /\ a.serves = jobs[id][s].serves
        /\ a.state = jobs[id][g].verdict
    BY <1>1, <1>2, <1>4 DEF Job
  <1>10. Edits(id)
    BY <1>7, <1>8 DEF Edits
  <1> QED
    BY <1>1, <1>3, <1>8, <1>9, <1>10

\* What a thread, or a request to stop, does not touch is as it was.
LEMMA ThreadLocal ==
  ASSUME JobInv, NEW id \in Ids, Edits(id),
         \A t \in DOMAIN jobs[id] : Thread(id, t) = "none" => Thread(id, t)' = "none",
         UNCHANGED <<registry, req, clock, birth, hasty, restarts>>,
         rows' \in [Ids -> Row \cup {None}], \A c \in Ids \ {id} : rows'[c] = rows[c],
         data' \in [Ids -> SUBSET Data], \A c \in Ids \ {id} : data'[c] = data[c],
         broken' \subseteq Ids, broken \subseteq broken',
         CrawlerInv(id)'
  PROVE  JobInv'
  <1>1. \A c \in Ids : DOMAIN jobs'[c] = DOMAIN jobs[c] /\ Len(jobs'[c]) = Len(jobs[c])
    BY DEF Edits
  <1>2. TypeOK'
    BY <1>1 DEF JobInv, TypeOK, Edits
  <1>3. \A h \in Handlers : RequestInv(h)'
    <2> SUFFICES ASSUME NEW h \in Handlers PROVE RequestInv(h)'
      OBVIOUS
    <2>1. RequestInv(h) /\ req[h].ids \subseteq Ids
      BY DEF JobInv, TypeOK, RequestRecord
    <2>2. \A c \in Ids : \A t \in DOMAIN jobs[c] :
             Thread(c, t) = "none" => Thread(c, t)' = "none"
      BY DEF Thread, Edits
    <2> QED
      BY <1>1, <2>1, <2>2 DEF RequestInv, Starts
  <1>4. \A c \in Ids \ {id} : Same(c) /\ SameRequests(c)
    BY DEF Same, SameRequests, Asks, Edits
  <1>5. Grows
    BY DEF Grows
  <1>6. {id} \in SUBSET Ids /\ \A c \in {id} : CrawlerInv(c)'
    OBVIOUS
  <1> QED
    BY <1>2, <1>3, <1>4, <1>5, <1>6, Local

\* When a thread moves, the registered job stays in its state.
LEMMA MovesFacts ==
  ASSUME TypeOK, NEW id \in Ids, NEW g \in DOMAIN jobs[id],
         NEW thread, NEW serves, NEW verdict, Moves(id, g, thread, serves, verdict),
         registry' = registry
  PROVE  /\ DOMAIN jobs'[id] = DOMAIN jobs[id]
         /\ registry[id] # 0 => registry[id] \in DOMAIN jobs[id]
         /\ registry'[id] = registry[id]
         /\ IsRunning(id)' <=> IsRunning(id)
         /\ RowOf(Registered(id), Registered(id).created)'
               = RowOf(Registered(id), Registered(id).created) \/ registry[id] = 0
         /\ Thread(id, g)' = thread
         /\ \A t \in DOMAIN jobs[id] \ {g} : Thread(id, t)' = Thread(id, t)
  <1>1. DOMAIN jobs'[id] = DOMAIN jobs[id]
    BY DEF Moves, Edits
  <1>2. registry[id] # 0 => registry[id] \in DOMAIN jobs[id]
    BY DEF TypeOK
  <1>3. registry[id] # 0 => /\ Registered(id)'.state = Registered(id).state
                            /\ Registered(id)'.created = Registered(id).created
    BY <1>2 DEF Moves, Registered
  <1> QED
    BY <1>1, <1>2, <1>3 DEF IsRunning, RowOf, Moves, Thread

LEMMA LookUpKeeps ==
  ASSUME JobInv, NEW id \in Ids, NEW g, LookUp(id, g)
  PROVE  JobInv'
  <1> DEFINE next == IF registry[id] = 0 THEN "done" ELSE "crawling"
  <1>0. TypeOK /\ CrawlerInv(id)
    BY DEF JobInv
  <1>1. /\ g \in DOMAIN jobs[id]
        /\ Moves(id, g, next, registry[id], jobs[id][g].verdict)
    BY <1>0, LookUpMoves
  <1>2. /\ Thread(id, g) = "started"
        /\ UNCHANGED <<registry, rows, data, req, clock, birth, hasty, broken, restarts>>
    BY DEF LookUp, At, Thread, disk, history
  <1>3. /\ DOMAIN jobs'[id] = DOMAIN jobs[id]
        /\ registry[id] # 0 => registry[id] \in DOMAIN jobs[id]
        /\ registry'[id] = registry[id]
        /\ IsRunning(id)' <=> IsRunning(id)
        /\ RowOf(Registered(id), Registered(id).created)'
               = RowOf(Registered(id), Registered(id).created) \/ registry[id] = 0
        /\ Thread(id, g)' = next
        /\ \A t \in DOMAIN jobs[id] \ {g} : Thread(id, t)' = Thread(id, t)
    BY <1>0, <1>1, <1>2, MovesFacts
  <1>4. ThreadsInv(id)'
    BY <1>0, <1>1, <1>2, <1>3 DEF CrawlerInv, ThreadsInv, Moves
  <1>5. UnknownInv(id)'
    BY <1>0, <1>1, <1>2, <1>3 DEF CrawlerInv, UnknownInv, Known
  <1>6. CarriedInv(id)'
    <2> SUFFICES ASSUME registry[id] # 0, IsRunning(id)
                 PROVE  Carried(id, registry[id])' \/ id \in broken'
      BY <1>2, <1>3 DEF CarriedInv, IsRunning
    <2>1. jobs'[id][g].thread = "crawling" /\ jobs'[id][g].serves = registry[id]
      BY <1>1 DEF Moves
    <2> QED
      BY <1>1, <1>2, <1>3, <2>1 DEF Carried
  <1>7. CalmInv(id)'
    <2> SUFFICES ASSUME id \notin hasty PROVE CalmInv(id)'
      BY <1>2 DEF CalmInv
    <2>1. g = registry[id] /\ next = "crawling" /\ \A h \in Handlers : ~Asks(h, id)
      BY <1>0, <1>1, <1>2, <1>3 DEF CrawlerInv, CalmInv, Active, TypeOK
    <2>2. \A h \in Handlers : ~Asks(h, id)'
      BY <1>2, <2>1 DEF Asks
    <2> QED
      BY <1>0, <1>1, <1>2, <1>3, <2>1, <2>2 DEF CrawlerInv, CalmInv, Active, Moves
  <1>8. KeptInv(id)'
    <2> SUFFICES ASSUME id \notin hasty \cup broken PROVE KeptInv(id)'
      BY <1>2 DEF KeptInv
    <2>1. g = registry[id] /\ next = "crawling" /\ \A h \in Handlers : ~Asks(h, id)
      BY <1>0, <1>1, <1>2, <1>3 DEF CrawlerInv, CalmInv, Active, TypeOK
    <2>2. \A h \in Handlers : ~Asks(h, id)'
      BY <1>2, <2>1 DEF Asks
    <2>3. ~Quiet(id)'
      BY <1>1, <1>3, <2>1 DEF Quiet, Thread
    <2> QED
      BY <1>0, <1>1, <1>2, <1>3, <2>1, <2>2, <2>3 DEF CrawlerInv, KeptInv, Active, RowRuns
  <1>9. CrawlerInv(id)'
    BY <1>4, <1>5, <1>6, <1>7, <1>8 DEF CrawlerInv
  <1>10. \A t \in DOMAIN jobs[id] : Thread(id, t) = "none" => Thread(id, t)' = "none"
    BY <1>2, <1>3
  <1> QED
    BY <1>0, <1>1, <1>2, <1>9, <1>10, ThreadLocal DEF Moves, TypeOK

LEMMA RunEndsKeeps ==
  ASSUME JobInv, NEW id \in Ids, NEW g, RunReturns(id, g) \/ RunRaises(id, g)
  PROVE  JobInv'
  <1>0. TypeOK /\ CrawlerInv(id)
    BY DEF JobInv
  <1>1. /\ Thread(id, g) = "crawling" /\ g \in DOMAIN jobs[id]
        /\ UNCHANGED <<registry, rows, data, req, clock, birth, hasty, broken, restarts>>
    BY DEF RunReturns, RunRaises, At, Thread, disk, history
  <1>2. jobs[id][g].serves \in DOMAIN jobs[id]
    BY <1>0, <1>1 DEF CrawlerInv, ThreadsInv
  <1>3. PICK verdict \in Verdicts : Moves(id, g, "deciding", jobs[id][g].serves, verdict)
    BY <1>0, <1>2, RunEndsMoves
  <1>4. /\ DOMAIN jobs'[id] = DOMAIN jobs[id]
        /\ registry[id] # 0 => registry[id] \in DOMAIN jobs[id]
        /\ registry'[id] = registry[id]
        /\ IsRunning(id)' <=> IsRunning(id)
        /\ RowOf(Registered(id), Registered(id).created)'
               = RowOf(Registered(id), Registered(id).created) \/ registry[id] = 0
        /\ Thread(id, g)' = "deciding"
        /\ \A t \in DOMAIN jobs[id] \ {g} : Thread(id, t)' = Thread(id, t)
    BY <1>0, <1>1, <1>3, MovesFacts
  <1>5. /\ \A t \in DOMAIN jobs[id] : jobs'[id][t].serves = jobs[id][t].serves
        /\ \A t \in DOMAIN jobs[id] : jobs'[id][t].state = jobs[id][t].state
        /\ jobs'[id][g].verdict \in Verdicts
        /\ \A t \in DOMAIN jobs[id] \ {g} : jobs'[id][t].verdict = jobs[id][t].verdict
    BY <1>3 DEF Moves
  <1>6. ThreadsInv(id)'
    BY <1>0, <1>1, <1>2, <1>4, <1>5 DEF CrawlerInv, ThreadsInv
  <1>7. UnknownInv(id)'
    BY <1>0, <1>1 DEF CrawlerInv, UnknownInv, Known
  <1>8. CarriedInv(id)'
    <2> SUFFICES ASSUME registry[id] # 0, IsRunning(id), id \notin broken
                 PROVE  Carried(id, registry[id])'
      BY <1>1, <1>4 DEF CarriedInv, IsRunning
    <2>1. Carried(id, registry[id])
      BY <1>0 DEF CrawlerInv, CarriedInv
    <2>2. CASE Starting(id, registry[id])
      BY <1>1, <2>2 DEF Starting, Carried
    <2>3. CASE ~Starting(id, registry[id])
      <3>1. PICK t \in DOMAIN jobs[id] :
               \/ Thread(id, t) = "started" /\ t = registry[id]
               \/ Thread(id, t) \in {"crawling", "deciding"} /\ jobs[id][t].serves = registry[id]
        BY <2>1, <2>3 DEF Carried, Thread
      <3>2. \/ Thread(id, t)' = "started" /\ t = registry'[id]
            \/ Thread(id, t)' \in {"crawling", "deciding"} /\ jobs'[id][t].serves = registry'[id]
        BY <1>1, <1>4, <1>5, <3>1
      <3> QED
        BY <1>4, <3>2 DEF Carried, Thread
    <2> QED
      BY <2>2, <2>3
  <1>9. CalmInv(id)'
    <2> SUFFICES ASSUME id \notin hasty PROVE CalmInv(id)'
      BY <1>1 DEF CalmInv
    <2>1. g = registry[id] /\ \A h \in Handlers : ~Asks(h, id)
      BY <1>0, <1>1 DEF CrawlerInv, CalmInv, Active
    <2>2. \A h \in Handlers : ~Asks(h, id)'
      BY <1>1, <2>1 DEF Asks
    <2> QED
      BY <1>0, <1>1, <1>4, <1>5, <2>1, <2>2 DEF CrawlerInv, CalmInv, Active
  <1>10. KeptInv(id)'
    <2> SUFFICES ASSUME id \notin hasty \cup broken PROVE KeptInv(id)'
      BY <1>1 DEF KeptInv
    <2>1. g = registry[id] /\ \A h \in Handlers : ~Asks(h, id)
      BY <1>0, <1>1 DEF CrawlerInv, CalmInv, Active
    <2>2. \A h \in Handlers : ~Asks(h, id)'
      BY <1>1, <2>1 DEF Asks
    <2>3. ~Quiet(id)'
      BY <1>1, <1>4 DEF Quiet, Thread
    <2> QED
      BY <1>0, <1>1, <1>4, <2>1, <2>2, <2>3 DEF CrawlerInv, KeptInv, Active, RowRuns
  <1>11. CrawlerInv(id)'
    BY <1>6, <1>7, <1>8, <1>9, <1>10 DEF CrawlerInv
  <1>12. \A t \in DOMAIN jobs[id] : Thread(id, t) = "none" => Thread(id, t)' = "none"
    BY <1>1, <1>4
  <1> QED
    BY <1>0, <1>1, <1>3, <1>11, <1>12, ThreadLocal DEF Moves, TypeOK

LEMMA SetStateKeeps ==
  ASSUME JobInv, NEW id \in Ids, NEW g, SetState(id, g)
  PROVE  JobInv'
  <1> DEFINE s == jobs[id][g].serves
  <1>0. TypeOK /\ CrawlerInv(id)
    BY DEF JobInv
  <1>1. /\ Thread(id, g) = "deciding" /\ g \in DOMAIN jobs[id]
        /\ UNCHANGED <<registry, rows, data, req, clock, birth, hasty, broken, restarts>>
    BY DEF SetState, At, Thread, disk, history
  <1>2. s \in DOMAIN jobs[id] /\ jobs[id][g].verdict \in Verdicts
    BY <1>0, <1>1 DEF CrawlerInv, ThreadsInv
  <1>3. /\ Edits(id)
        /\ \A t \in DOMAIN jobs[id] :
              /\ jobs'[id][t].serves = jobs[id][t].serves
              /\ t # g => /\ jobs'[id][t].thread = jobs[id][t].thread
                          /\ jobs'[id][t].verdict = jobs[id][t].verdict
              /\ t # s => jobs'[id][t].state = jobs[id][t].state
        /\ jobs'[id][g].thread = "writing"
        /\ jobs'[id][s].state \in Verdicts
    BY <1>0, <1>2, SetStateMoves
  <1>4. /\ DOMAIN jobs'[id] = DOMAIN jobs[id]
        /\ registry[id] # 0 => registry[id] \in DOMAIN jobs[id]
        /\ registry'[id] = registry[id]
        /\ Thread(id, g)' = "writing"
        /\ \A t \in DOMAIN jobs[id] \ {g} : Thread(id, t)' = Thread(id, t)
        /\ jobs'[id][s].state # "running"
    BY <1>0, <1>1, <1>3, ReasonsAssumption DEF Edits, TypeOK, Thread, Verdicts
  <1>5. ThreadsInv(id)'
    BY <1>0, <1>1, <1>2, <1>3, <1>4 DEF CrawlerInv, ThreadsInv
  <1>6. UnknownInv(id)'
    BY <1>0, <1>1 DEF CrawlerInv, UnknownInv, Known
  <1>7. CarriedInv(id)'
    <2> SUFFICES ASSUME registry[id] # 0, IsRunning(id)', id \notin broken
                 PROVE  Carried(id, registry[id])'
      BY <1>1, <1>4 DEF CarriedInv, IsRunning
    <2>1. registry[id] # s /\ IsRunning(id)
      BY <1>1, <1>3, <1>4 DEF IsRunning, Registered
    <2>2. Carried(id, registry[id])
      BY <1>0, <2>1 DEF CrawlerInv, CarriedInv
    <2>3. CASE Starting(id, registry[id])
      BY <1>1, <2>3 DEF Starting, Carried
    <2>4. CASE ~Starting(id, registry[id])
      <3>1. PICK t \in DOMAIN jobs[id] :
               \/ Thread(id, t) = "started" /\ t = registry[id]
               \/ Thread(id, t) \in {"crawling", "deciding"} /\ jobs[id][t].serves = registry[id]
        BY <2>2, <2>4 DEF Carried, Thread
      <3>2. \/ Thread(id, t)' = "started" /\ t = registry'[id]
            \/ Thread(id, t)' \in {"crawling", "deciding"} /\ jobs'[id][t].serves = registry'[id]
        BY <1>1, <1>3, <1>4, <2>1, <3>1
      <3> QED
        BY <1>4, <3>2 DEF Carried, Thread
    <2> QED
      BY <2>3, <2>4
  <1>8. CalmInv(id)'
    <2> SUFFICES ASSUME id \notin hasty PROVE CalmInv(id)'
      BY <1>1 DEF CalmInv
    <2>1. g = registry[id] /\ s = g /\ \A h \in Handlers : ~Asks(h, id)
      BY <1>0, <1>1 DEF CrawlerInv, CalmInv, Active
    <2>2. \A h \in Handlers : ~Asks(h, id)'
      BY <1>1, <2>1 DEF Asks
    <2> QED
      BY <1>0, <1>1, <1>3, <1>4, <2>1, <2>2 DEF CrawlerInv, CalmInv, Active
  <1>9. KeptInv(id)'
    <2> SUFFICES ASSUME id \notin hasty \cup broken PROVE KeptInv(id)'
      BY <1>1 DEF KeptInv
    <2>1. \A h \in Handlers : ~Asks(h, id)
      BY <1>0, <1>1 DEF CrawlerInv, CalmInv, Active
    <2>2. \A h \in Handlers : ~Asks(h, id)'
      BY <1>1, <2>1 DEF Asks
    <2>3. ~Quiet(id)'
      BY <1>1, <1>4 DEF Quiet, UnderWay, Thread
    <2>4. RowRuns(id) /\ rows[id] # None
      BY <1>0, <1>1 DEF CrawlerInv, KeptInv, Active, RowRuns
    <2> QED
      BY <1>0, <1>1, <1>4, <2>1, <2>2, <2>3, <2>4 DEF CrawlerInv, KeptInv, Active, RowRuns
  <1>10. CrawlerInv(id)'
    BY <1>5, <1>6, <1>7, <1>8, <1>9 DEF CrawlerInv
  <1>11. \A t \in DOMAIN jobs[id] : Thread(id, t) = "none" => Thread(id, t)' = "none"
    BY <1>1, <1>4
  <1> QED
    BY <1>0, <1>1, <1>3, <1>10, <1>11, ThreadLocal DEF TypeOK

LEMMA UpsertFinishedKeeps ==
  ASSUME JobInv, NEW id \in Ids, NEW g, UpsertFinished(id, g) \/ UpsertFinishedRaises(id, g)
  PROVE  JobInv'
  <1> DEFINE job == jobs[id][jobs[id][g].serves]
  <1>0. TypeOK /\ CrawlerInv(id)
    BY DEF JobInv
  <1>1. /\ Thread(id, g) = "writing" /\ g \in DOMAIN jobs[id]
        /\ UNCHANGED <<registry, data, req, clock, birth, hasty, restarts>>
    BY DEF UpsertFinished, UpsertFinishedRaises, At, Thread, disk, history
  <1>2. jobs[id][g].serves \in DOMAIN jobs[id] /\ RowOf(job, job.created) \in Row
    <2>1. jobs[id][g].serves \in DOMAIN jobs[id]
      BY <1>0, <1>1 DEF CrawlerInv, ThreadsInv
    <2>2. job \in Job
      BY <1>0, <2>1 DEF TypeOK
    <2> HIDE DEF job
    <2>3. job.state \in States /\ job.created \in Nat
      BY <2>2 DEF Job
    <2> QED
      BY <2>1, <2>3 DEF RowOf, Row, job
  <1>3. \/ rows' = rows /\ broken' = broken \cup {id}
        \/ broken' = broken /\ rows' = [rows EXCEPT ![id] = RowOf(job, job.created)]
    BY DEF UpsertFinished, UpsertFinishedRaises, history, disk
  <1>4. /\ rows' \in [Ids -> Row \cup {None}] /\ \A c \in Ids \ {id} : rows'[c] = rows[c]
        /\ id \in broken' \/ rows'[id] = RowOf(job, job.created)
        /\ broken \subseteq broken' /\ broken' \subseteq Ids
    BY <1>0, <1>2, <1>3 DEF TypeOK
  <1>5. Moves(id, g, "done", 0, jobs[id][g].verdict)
    BY <1>0, UpsertMoves
  <1>6. /\ DOMAIN jobs'[id] = DOMAIN jobs[id]
        /\ registry[id] # 0 => registry[id] \in DOMAIN jobs[id]
        /\ registry'[id] = registry[id]
        /\ IsRunning(id)' <=> IsRunning(id)
        /\ RowOf(Registered(id), Registered(id).created)'
               = RowOf(Registered(id), Registered(id).created) \/ registry[id] = 0
        /\ Thread(id, g)' = "done"
        /\ \A t \in DOMAIN jobs[id] \ {g} : Thread(id, t)' = Thread(id, t)
    BY <1>0, <1>1, <1>5, MovesFacts
  <1>7. /\ \A t \in DOMAIN jobs[id] \ {g} : /\ jobs'[id][t].serves = jobs[id][t].serves
                                            /\ jobs'[id][t].verdict = jobs[id][t].verdict
        /\ \A t \in DOMAIN jobs[id] : jobs'[id][t].state = jobs[id][t].state
    BY <1>5 DEF Moves
  <1>8. ThreadsInv(id)'
    BY <1>0, <1>1, <1>6, <1>7 DEF CrawlerInv, ThreadsInv
  <1>9. UnknownInv(id)'
    BY <1>0, <1>1 DEF CrawlerInv, UnknownInv, Known
  <1>10. CarriedInv(id)'
    <2> SUFFICES ASSUME registry[id] # 0, IsRunning(id), id \notin broken
                 PROVE  Carried(id, registry[id])'
      BY <1>1, <1>4, <1>6 DEF CarriedInv, IsRunning
    <2>1. Carried(id, registry[id])
      BY <1>0 DEF CrawlerInv, CarriedInv
    <2>2. CASE Starting(id, registry[id])
      BY <1>1, <2>2 DEF Starting, Carried
    <2>3. CASE ~Starting(id, registry[id])
      <3>1. PICK t \in DOMAIN jobs[id] :
               \/ Thread(id, t) = "started" /\ t = registry[id]
               \/ Thread(id, t) \in {"crawling", "deciding"} /\ jobs[id][t].serves = registry[id]
        BY <2>1, <2>3 DEF Carried, Thread
      <3>2. \/ Thread(id, t)' = "started" /\ t = registry'[id]
            \/ Thread(id, t)' \in {"crawling", "deciding"} /\ jobs'[id][t].serves = registry'[id]
        BY <1>1, <1>6, <1>7, <3>1
      <3> QED
        BY <1>6, <3>2 DEF Carried, Thread
    <2> QED
      BY <2>2, <2>3
  <1>11. CalmInv(id)'
    <2> SUFFICES ASSUME id \notin hasty PROVE CalmInv(id)'
      BY <1>1 DEF CalmInv
    <2>1. g = registry[id] /\ \A h \in Handlers : ~Asks(h, id)
      BY <1>0, <1>1 DEF CrawlerInv, CalmInv
    <2>2. \A h \in Handlers : ~Asks(h, id)'
      BY <1>1, <2>1 DEF Asks
    <2> QED
      BY <1>0, <1>1, <1>6, <1>7, <2>1, <2>2 DEF CrawlerInv, CalmInv, Active
  <1>12. KeptInv(id)'
    <2> SUFFICES ASSUME id \notin hasty \cup broken' PROVE KeptInv(id)'
      BY <1>1 DEF KeptInv
    <2>1. /\ g = registry[id] /\ \A h \in Handlers : ~Asks(h, id)
          /\ \A t \in DOMAIN jobs[id] \ {g} : ~Active(id, t) /\ Thread(id, t) # "writing"
          /\ jobs[id][g].serves = g
      BY <1>0, <1>1 DEF CrawlerInv, CalmInv
    <2>2. \A h \in Handlers : ~Asks(h, id)'
      BY <1>1, <2>1 DEF Asks
    <2>3. \A t \in DOMAIN jobs'[id] : ~Active(id, t)' /\ Thread(id, t)' # "writing"
      BY <1>6, <2>1 DEF Active
    <2>4. Agreed(id)'
      <3>1. rows'[id] = RowOf(Registered(id), Registered(id).created) /\ registry[id] # 0
        <4>1. Registered(id) = job /\ rows'[id] = RowOf(job, job.created)
          BY <1>4, <2>1 DEF Registered
        <4>2. g \in 1 .. Len(jobs[id])
          BY <1>0, <1>1 DEF TypeOK
        <4> QED
          BY <2>1, <4>1, <4>2
      <3> QED
        BY <1>6, <3>1 DEF Agreed
    <2> QED
      BY <2>2, <2>3, <2>4 DEF KeptInv
  <1>13. CrawlerInv(id)'
    BY <1>8, <1>9, <1>10, <1>11, <1>12 DEF CrawlerInv
  <1>14. \A t \in DOMAIN jobs[id] : Thread(id, t) = "none" => Thread(id, t)' = "none"
    BY <1>1, <1>6
  <1> QED
    BY <1>0, <1>1, <1>4, <1>5, <1>13, <1>14, ThreadLocal DEF Moves, TypeOK

LEMMA CrawlKeeps ==
  ASSUME JobInv, NEW id \in Ids, NEW g, Crawl(id, g)
  PROVE  JobInv'
  <1>0. TypeOK /\ CrawlerInv(id)
    BY DEF JobInv
  <1>1. /\ Thread(id, g) = "crawling" /\ g \in DOMAIN jobs[id]
        /\ UNCHANGED <<jobs, registry, rows, req, clock, birth, hasty, broken, restarts>>
    BY DEF Crawl, At, Thread, memory, history
  <1>2. /\ data' \in [Ids -> SUBSET Data] /\ \A c \in Ids \ {id} : data'[c] = data[c]
        /\ Edits(id)
    BY <1>0, <1>1 DEF Crawl, TypeOK, Edits
  <1>3. ThreadsInv(id)' /\ CarriedInv(id)' /\ CalmInv(id)'
    BY <1>0, <1>1 DEF CrawlerInv, ThreadsInv, CarriedInv, CalmInv, IsRunning, Registered,
       Carried, Starting, Thread, Active, Asks, Erasing
  <1>4. UnknownInv(id)'
    BY <1>0, <1>1 DEF CrawlerInv, UnknownInv, Known
  <1>5. KeptInv(id)'
    <2> SUFFICES ASSUME id \notin hasty \cup broken PROVE KeptInv(id)'
      BY <1>1 DEF KeptInv
    <2>1. \A h \in Handlers : ~Asks(h, id)
      BY <1>0, <1>1 DEF CrawlerInv, CalmInv, Active
    <2>2. (\A h \in Handlers : ~Asks(h, id)') /\ ~Quiet(id)'
      BY <1>1, <2>1 DEF Asks, Quiet, Thread
    <2> QED
      BY <1>0, <1>1, <2>2 DEF CrawlerInv, KeptInv, Active, RowRuns, Thread
  <1>6. CrawlerInv(id)'
    BY <1>3, <1>4, <1>5 DEF CrawlerInv
  <1>7. \A t \in DOMAIN jobs[id] : Thread(id, t) = "none" => Thread(id, t)' = "none"
    BY <1>1 DEF Thread
  <1> QED
    BY <1>0, <1>1, <1>2, <1>6, <1>7, ThreadLocal DEF TypeOK

LEMMA RequestStopKeeps ==
  ASSUME JobInv, NEW id \in Ids, NEW reason \in Reasons, RequestStop(id, reason)
  PROVE  JobInv'
  <1> DEFINE g == registry[id]
  <1>0. TypeOK /\ CrawlerInv(id)
    BY DEF JobInv
  <1>1. UNCHANGED <<registry, rows, data, req, clock, birth, hasty, broken, restarts>>
    BY DEF RequestStop, disk, history
  <1>2. /\ g \in DOMAIN jobs[id]
        /\ Moves(id, g, Registered(id).thread, Registered(id).serves, Registered(id).verdict)
    BY <1>0, RequestStopMoves
  <1>3. /\ DOMAIN jobs'[id] = DOMAIN jobs[id]
        /\ registry'[id] = registry[id]
        /\ IsRunning(id)' <=> IsRunning(id)
        /\ RowOf(Registered(id), Registered(id).created)'
               = RowOf(Registered(id), Registered(id).created) \/ registry[id] = 0
        /\ Thread(id, g)' = Thread(id, g)
        /\ \A t \in DOMAIN jobs[id] \ {g} : Thread(id, t)' = Thread(id, t)
    BY <1>0, <1>1, <1>2, MovesFacts DEF Thread, Registered
  <1>4. \A t \in DOMAIN jobs[id] :
           /\ Thread(id, t)' = Thread(id, t)
           /\ jobs'[id][t].serves = jobs[id][t].serves
           /\ jobs'[id][t].verdict = jobs[id][t].verdict
           /\ jobs'[id][t].state = jobs[id][t].state
    BY <1>2, <1>3 DEF Moves, Registered
  <1>5. ThreadsInv(id)'
    BY <1>0, <1>3, <1>4 DEF CrawlerInv, ThreadsInv
  <1>6. UnknownInv(id)'
    BY <1>0, <1>1, <1>2 DEF CrawlerInv, UnknownInv, Known
  <1>7. CarriedInv(id)'
    <2>1. Carried(id, g) => Carried(id, g)'
      BY <1>1, <1>3, <1>4 DEF Carried, Starting, Thread
    <2> QED
      BY <1>0, <1>1, <1>3, <2>1 DEF CrawlerInv, CarriedInv
  <1>8. CalmInv(id)'
    BY <1>0, <1>1, <1>3, <1>4 DEF CrawlerInv, CalmInv, Active, Asks, Erasing
  <1>9. KeptInv(id)'
    <2>1. Quiet(id)' => Quiet(id)
      BY <1>1, <1>3, <1>4 DEF Quiet, UnderWay, Thread
    <2>2. (Agreed(id) <=> Agreed(id)') /\ (RowRuns(id) <=> RowRuns(id)')
      BY <1>1, <1>3 DEF Agreed, RowRuns
    <2> QED
      BY <1>0, <1>1, <1>3, <1>4, <2>1, <2>2 DEF CrawlerInv, KeptInv, Active, Asks
  <1>10. CrawlerInv(id)'
    BY <1>5, <1>6, <1>7, <1>8, <1>9 DEF CrawlerInv
  <1>11. \A t \in DOMAIN jobs[id] : Thread(id, t) = "none" => Thread(id, t)' = "none"
    BY <1>4
  <1> QED
    BY <1>0, <1>1, <1>2, <1>10, <1>11, ThreadLocal DEF Moves, TypeOK

-----------------------------------------------------------------------------
(* The steps of a request.                                                 *)

\* A step of request h about the crawlers of S.  It starts at most its own job.
LEMMA RequestLocal ==
  ASSUME JobInv, TypeOK', Grows, NEW h \in Handlers, NEW S \in SUBSET Ids,
         \A k \in Handlers \ {h} : req'[k] = req[k],
         req[h].step = "idle" \/ req[h].ids \subseteq S,
         req'[h].step = "idle" \/ req'[h].ids \subseteq S,
         RequestInv(h)',
         \A c \in Ids : \A t \in DOMAIN jobs[c] :
            /\ t \in DOMAIN jobs'[c]
            /\ Thread(c, t) = "none" =>
                  Thread(c, t)' = "none" \/ (Starts(h) /\ req[h].ids = {c} /\ req[h].job = t),
         \A c \in S : CrawlerInv(c)',
         \A c \in Ids \ S : Same(c)
  PROVE  JobInv'
  <1>1. \A k \in Handlers : RequestInv(k)'
    <2> SUFFICES ASSUME NEW k \in Handlers \ {h} PROVE RequestInv(k)'
      OBVIOUS
    <2>1. RequestInv(k) /\ RequestInv(h) /\ req[k].ids \subseteq Ids /\ req'[k] = req[k]
      BY DEF JobInv, TypeOK, RequestRecord
    <2>2. req[k].step \in {"read", "register", "upsert", "start"} => \E id \in Ids : req[k].ids = {id}
      BY <2>1 DEF RequestInv
    <2>3. ASSUME Starts(k)
          PROVE  /\ \A id \in req[k].ids :
                       req[k].job \in DOMAIN jobs'[id] /\ Thread(id, req[k].job)' = "none"
                 /\ \A j \in Handlers :
                       Starts(j)' /\ req'[j].ids = req[k].ids /\ req'[j].job = req[k].job => j = k
      <3>1. ASSUME NEW id \in req[k].ids
            PROVE  req[k].job \in DOMAIN jobs'[id] /\ Thread(id, req[k].job)' = "none"
        <4>1. req[k].job \in DOMAIN jobs[id] /\ Thread(id, req[k].job) = "none" /\ id \in Ids
          BY <2>1, <2>3 DEF RequestInv
        <4>2. req[k].ids = {id}
          BY <2>2, <2>3 DEF Starts
        <4>3. ~(Starts(h) /\ req[h].ids = {id} /\ req[h].job = req[k].job)
          BY <2>1, <2>3, <4>2 DEF RequestInv
        <4> QED
          BY <4>1, <4>3
      <3>2. ASSUME NEW j \in Handlers, Starts(j)', req'[j].ids = req[k].ids, req'[j].job = req[k].job
            PROVE  j = k
        <4>1. CASE j = h
          <5>1. Starts(k)'
            BY <2>1, <2>3 DEF Starts
          <5> QED
            BY <2>1, <3>2, <4>1, <5>1 DEF RequestInv
        <4>2. CASE j # h
          BY <2>1, <2>3, <3>2, <4>2 DEF RequestInv, Starts
        <4> QED
          BY <4>1, <4>2
      <3> QED
        BY <3>1, <3>2
    <2> QED
      BY <2>1, <2>2, <2>3 DEF RequestInv, Starts
  <1>2. \A c \in Ids \ S : SameRequests(c)
    BY DEF SameRequests, Asks
  <1> QED
    BY <1>1, <1>2, Local

LEMMA GotoReq ==
  ASSUME TypeOK, NEW h \in Handlers,
         NEW step \in {"register", "start", "documents", "checkpoint"}, Goto(h, step)
  PROVE  /\ req' \in [Handlers -> RequestRecord]
         /\ \A k \in Handlers \ {h} : req'[k] = req[k]
         /\ req'[h].step = step /\ req'[h].ids = req[h].ids /\ req'[h].job = req[h].job
  <1>1. req \in [Handlers -> RequestRecord] /\ req[h] \in RequestRecord
    BY DEF TypeOK
  <1>2. PICK r \in RequestRecord : r = [req[h] EXCEPT !.step = step]
    BY <1>1 DEF RequestRecord
  <1>3. r.step = step /\ r.ids = req[h].ids /\ r.job = req[h].job
    BY <1>1, <1>2 DEF RequestRecord
  <1>4. req' = [req EXCEPT ![h] = r]
    BY <1>1, <1>2 DEF Goto
  <1> QED
    BY <1>1, <1>3, <1>4

LEMMA FinishReq ==
  ASSUME TypeOK, NEW h \in Handlers, Finish(h)
  PROVE  /\ req' \in [Handlers -> RequestRecord]
         /\ \A k \in Handlers \ {h} : req'[k] = req[k]
         /\ req'[h].step = "idle"
  <1>1. req \in [Handlers -> RequestRecord] /\ Idle \in RequestRecord /\ Idle.step = "idle"
    BY DEF TypeOK, RequestRecord, Idle
  <1> QED
    BY <1>1 DEF Finish

LEMMA ReadRowKeeps ==
  ASSUME JobInv, NEW h \in Handlers, NEW id \in Ids, ReadRow(h, id)
  PROVE  JobInv'
  <1>0. TypeOK /\ CrawlerInv(id) /\ RequestInv(h)
    BY DEF JobInv
  <1>1. /\ req[h].step = "read" /\ req[h].ids = {id} /\ Asks(h, id)
        /\ UNCHANGED <<jobs, registry, rows, data, clock, birth, hasty, broken, restarts>>
    BY <1>0 DEF ReadRow, RequestInv, Asks, memory, disk, history
  <1>2. /\ req' \in [Handlers -> RequestRecord]
        /\ \A k \in Handlers \ {h} : req'[k] = req[k]
        /\ \/ req'[h].step = "idle" /\ rows[id] = None
           \/ req'[h].step = "register" /\ req'[h].ids = {id} /\ rows[id] # None
    <2>1. CASE rows[id] = None
      BY <1>0, <2>1, FinishReq DEF ReadRow
    <2>2. CASE rows[id] # None
      BY <1>0, <1>1, <2>2, GotoReq DEF ReadRow
    <2> QED
      BY <2>1, <2>2
  <1>3. \A c \in Ids : Same(c)
    BY <1>1 DEF Same
  <1>4. TypeOK' /\ Grows /\ RequestInv(h)'
    BY <1>0, <1>1, <1>2 DEF TypeOK, Grows, RequestInv, Starts
  <1>5. ThreadsInv(id)'
    BY <1>0, <1>1 DEF CrawlerInv, ThreadsInv, Thread
  <1>6. UnknownInv(id)'
    BY <1>0, <1>1 DEF CrawlerInv, UnknownInv, Known, Erasing
  <1>7. CarriedInv(id)'
    <2>1. \A g : Starting(id, g) => Starting(id, g)'
      BY <1>1, <1>2 DEF Starting
    <2> QED
      BY <1>0, <1>1, <2>1 DEF CrawlerInv, CarriedInv, IsRunning, Registered, Carried
  <1>8. CalmInv(id)'
    <2> SUFFICES ASSUME id \notin hasty PROVE CalmInv(id)'
      BY <1>1 DEF CalmInv
    <2>1. /\ \A k \in Handlers : Asks(k, id) => k = h
          /\ ~IsRunning(id)
      BY <1>0, <1>1 DEF CrawlerInv, CalmInv
    <2>2. /\ \A k \in Handlers : Asks(k, id)' => k = h /\ req'[k].step = "register"
          /\ ~IsRunning(id)'
      BY <1>1, <1>2, <2>1 DEF Asks, IsRunning, Registered
    <2> QED
      BY <1>0, <1>1, <2>2 DEF CrawlerInv, CalmInv, Thread, Active, Erasing
  <1>9. KeptInv(id)'
    <2> SUFFICES ASSUME id \notin hasty \cup broken PROVE KeptInv(id)'
      BY <1>1 DEF KeptInv
    <2>1. Agreed(id)
      BY <1>0, <1>1 DEF CrawlerInv, KeptInv
    <2>2. Agreed(id)'
      BY <1>1, <2>1 DEF Agreed, RowOf, Registered
    <2>3. \A k \in Handlers : Asks(k, id)' => k = h /\ req'[k].step = "register" /\ rows[id] # None
      BY <1>0, <1>1, <1>2 DEF CrawlerInv, CalmInv, Asks
    <2> QED
      BY <1>0, <1>1, <2>2, <2>3 DEF CrawlerInv, KeptInv, Thread, Active, RowRuns
  <1>10. CrawlerInv(id)'
    BY <1>5, <1>6, <1>7, <1>8, <1>9 DEF CrawlerInv
  <1>11. \A c \in Ids : \A t \in DOMAIN jobs[c] : t \in DOMAIN jobs'[c] /\ Thread(c, t)' = Thread(c, t)
    BY <1>1 DEF Thread
  <1> DEFINE S == {id}
  <1>12. S \in SUBSET Ids /\ (\A c \in S : CrawlerInv(c)') /\ (\A c \in Ids \ S : Same(c))
    BY <1>3, <1>10
  <1>13. req[h].ids \subseteq S /\ (req'[h].step = "idle" \/ req'[h].ids \subseteq S)
    BY <1>1, <1>2
  <1> HIDE DEF S
  <1> QED
    BY <1>2, <1>4, <1>11, <1>12, <1>13, RequestLocal

LEMMA UpsertStartedKeeps ==
  ASSUME JobInv, NEW h \in Handlers, NEW id \in Ids, UpsertStarted(h, id)
  PROVE  JobInv'
  <1> DEFINE job == jobs[id][req[h].job]
  <1> DEFINE S == {id}
  <1>0. TypeOK /\ CrawlerInv(id) /\ RequestInv(h)
    BY DEF JobInv
  <1>1. /\ req[h].step = "upsert" /\ Starts(h) /\ req[h].ids = {id} /\ Asks(h, id)
        /\ req[h].job \in DOMAIN jobs[id]
        /\ UNCHANGED <<jobs, registry, data, clock, birth, hasty, broken, restarts>>
    BY <1>0 DEF UpsertStarted, RequestInv, Starts, Asks, memory, history
  <1>2. /\ req' \in [Handlers -> RequestRecord]
        /\ \A k \in Handlers \ {h} : req'[k] = req[k]
        /\ req'[h].step = "start" /\ req'[h].ids = {id} /\ req'[h].job = req[h].job
    BY <1>0, <1>1, GotoReq DEF UpsertStarted
  <1>3. job \in Job /\ job.state \in States /\ job.created \in Nat
    <2>1. job \in Job
      BY <1>0, <1>1 DEF TypeOK
    <2> HIDE DEF job
    <2> QED
      BY <2>1 DEF Job
  <1>4. PICK created \in Nat : rows' = [rows EXCEPT ![id] = RowOf(job, created)]
    <2>1. rows[id] \in Row \cup {None}
      BY <1>0 DEF TypeOK
    <2>2. CASE rows[id] = None
      BY <1>3, <2>2 DEF UpsertStarted
    <2>3. CASE rows[id] # None
      <3>1. rows[id].created \in Nat
        BY <2>1, <2>3 DEF Row
      <3> QED
        BY <2>3, <3>1 DEF UpsertStarted
    <2> QED
      BY <2>2, <2>3
  <1>5. RowOf(job, created) \in Row /\ RowOf(job, created) # None
    <2>1. RowOf(job, created) \in [state : States, created : Nat]
      BY <1>3 DEF RowOf
    <2> QED
      BY <2>1, NoneAssumption DEF Row
  <1>6. /\ rows' \in [Ids -> Row \cup {None}] /\ rows'[id] = RowOf(job, created)
        /\ \A c \in Ids \ {id} : rows'[c] = rows[c]
    BY <1>0, <1>4, <1>5 DEF TypeOK
  <1>7. /\ \A c \in Ids \ S : Same(c)
        /\ \A c \in Ids : \A t \in DOMAIN jobs[c] : t \in DOMAIN jobs'[c] /\ Thread(c, t)' = Thread(c, t)
    BY <1>1, <1>6 DEF Same, Thread
  <1>8. TypeOK' /\ Grows
    BY <1>0, <1>1, <1>2, <1>6 DEF TypeOK, Grows
  <1>9. RequestInv(h)'
    <2>1. \A k \in Handlers : Starts(k)' /\ req'[k].ids = req'[h].ids /\ req'[k].job = req'[h].job
                                   => k = h
      BY <1>0, <1>1, <1>2 DEF RequestInv, Starts
    <2>2. \A c \in req'[h].ids : /\ req'[h].job \in DOMAIN jobs'[c]
                               /\ jobs'[c][req'[h].job].thread = "none"
      BY <1>0, <1>1, <1>2 DEF RequestInv, Thread
    <2> QED
      BY <1>2, <2>1, <2>2 DEF RequestInv, Thread
  <1>10. ThreadsInv(id)'
    BY <1>0, <1>1 DEF CrawlerInv, ThreadsInv, Thread
  <1>11. UnknownInv(id)'
    BY <1>0, <1>1 DEF CrawlerInv, UnknownInv, Known, Erasing
  <1>12. CarriedInv(id)'
    <2>1. \A g : Starting(id, g) => Starting(id, g)'
      BY <1>1, <1>2 DEF Starting
    <2> QED
      BY <1>0, <1>1, <2>1 DEF CrawlerInv, CarriedInv, IsRunning, Registered, Carried
  <1>13. ASSUME id \notin hasty
         PROVE  /\ \A k \in Handlers : Asks(k, id) => k = h
                /\ req[h].job = registry[id] /\ IsRunning(id)
                /\ \A t \in DOMAIN jobs[id] : ~Active(id, t) /\ Thread(id, t) # "writing"
    BY <1>0, <1>1, <1>13 DEF CrawlerInv, CalmInv
  <1>14. CalmInv(id)'
    <2> SUFFICES ASSUME id \notin hasty PROVE CalmInv(id)'
      BY <1>1 DEF CalmInv
    <2>1. /\ \A k \in Handlers : Asks(k, id)' => k = h
          /\ req'[h].job = registry'[id] /\ IsRunning(id)'
          /\ \A t \in DOMAIN jobs'[id] : ~Active(id, t)' /\ Thread(id, t)' # "writing"
      BY <1>1, <1>2, <1>13 DEF Asks, IsRunning, Registered, Active, Thread
    <2> QED
      BY <1>2, <2>1 DEF CalmInv, Active, Erasing
  <1>15. KeptInv(id)'
    <2> SUFFICES ASSUME id \notin hasty \cup broken PROVE KeptInv(id)'
      BY <1>1 DEF KeptInv
    <2>1. /\ \A k \in Handlers : Asks(k, id)' => k = h
          /\ \A t \in DOMAIN jobs'[id] : ~Active(id, t)' /\ Thread(id, t)' # "writing"
          /\ Asks(h, id)'
      BY <1>1, <1>2, <1>13 DEF Asks, Active, Thread
    <2>2. ~Quiet(id)'
      BY <2>1 DEF Quiet, UnderWay, Asks
    <2>3. RowRuns(id)'
      <3>1. job.state = "running"
        BY <1>13 DEF IsRunning, Registered
      <3> HIDE DEF job
      <3> QED
        BY <1>5, <1>6, <3>1 DEF RowRuns, RowOf
    <2> QED
      BY <1>2, <2>1, <2>2, <2>3 DEF KeptInv
  <1>16. \A c \in S : CrawlerInv(c)'
    BY <1>10, <1>11, <1>12, <1>14, <1>15 DEF CrawlerInv
  <1>17. S \in SUBSET Ids /\ req[h].ids \subseteq S /\ req'[h].ids \subseteq S
    BY <1>1, <1>2
  <1> HIDE DEF S, job
  <1> QED
    BY <1>2, <1>7, <1>8, <1>9, <1>16, <1>17, RequestLocal

LEMMA UpsertStartedRaisesKeeps ==
  ASSUME JobInv, NEW h \in Handlers, NEW id \in Ids, UpsertStartedRaises(h, id)
  PROVE  JobInv'
  <1> DEFINE S == {id}
  <1>0. TypeOK /\ CrawlerInv(id) /\ RequestInv(h)
    BY DEF JobInv
  <1>1. /\ req[h].step = "upsert" /\ req[h].ids = {id} /\ Asks(h, id)
        /\ UNCHANGED <<jobs, registry, rows, data, clock, birth, hasty, restarts>>
        /\ broken' = broken \cup {id}
    BY <1>0 DEF UpsertStartedRaises, RequestInv, Starts, Asks, memory, disk
  <1>2. /\ req' \in [Handlers -> RequestRecord]
        /\ \A k \in Handlers \ {h} : req'[k] = req[k]
        /\ req'[h].step = "idle"
    BY <1>0, FinishReq DEF UpsertStartedRaises
  <1>3. /\ \A c \in Ids \ S : Same(c)
        /\ \A c \in Ids : \A t \in DOMAIN jobs[c] : t \in DOMAIN jobs'[c] /\ Thread(c, t)' = Thread(c, t)
    BY <1>1 DEF Same, Thread
  <1>4. TypeOK' /\ Grows /\ RequestInv(h)'
    BY <1>0, <1>1, <1>2 DEF TypeOK, Grows, RequestInv, Starts
  <1>5. ThreadsInv(id)'
    BY <1>0, <1>1 DEF CrawlerInv, ThreadsInv, Thread
  <1>6. UnknownInv(id)'
    BY <1>0, <1>1 DEF CrawlerInv, UnknownInv, Known, Erasing
  <1>7. CarriedInv(id)' /\ KeptInv(id)'
    BY <1>1 DEF CarriedInv, KeptInv
  <1>8. CalmInv(id)'
    <2> SUFFICES ASSUME id \notin hasty PROVE CalmInv(id)'
      BY <1>1 DEF CalmInv
    <2>1. \A k \in Handlers : ~Asks(k, id)'
      BY <1>0, <1>1, <1>2 DEF CrawlerInv, CalmInv, Asks
    <2>2. \A t \in DOMAIN jobs'[id] : ~Active(id, t)' /\ Thread(id, t)' # "writing"
      BY <1>0, <1>1 DEF CrawlerInv, CalmInv, Active, Thread
    <2> QED
      BY <2>1, <2>2 DEF CalmInv, Active
  <1>9. \A c \in S : CrawlerInv(c)'
    BY <1>5, <1>6, <1>7, <1>8 DEF CrawlerInv
  <1>10. S \in SUBSET Ids /\ req[h].ids \subseteq S
    BY <1>1
  <1> HIDE DEF S
  <1> QED
    BY <1>2, <1>3, <1>4, <1>9, <1>10, RequestLocal

LEMMA StartThreadKeeps ==
  ASSUME JobInv, NEW h \in Handlers, NEW id \in Ids, StartThread(h, id)
  PROVE  JobInv'
  <1> DEFINE S == {id}
  <1>0. TypeOK /\ CrawlerInv(id) /\ RequestInv(h)
    BY DEF JobInv
  <1>j. PICK g \in Nat : g = req[h].job
    BY <1>0 DEF TypeOK, RequestRecord
  <1>1. /\ req[h].step = "start" /\ Starts(h) /\ req[h].ids = {id} /\ Asks(h, id)
        /\ g \in DOMAIN jobs[id] /\ Thread(id, g) = "none"
        /\ UNCHANGED <<registry, rows, data, clock, birth, hasty, broken, restarts>>
    BY <1>0, <1>j DEF StartThread, RequestInv, Starts, Asks, disk, history
  <1>2. /\ req' \in [Handlers -> RequestRecord]
        /\ \A k \in Handlers \ {h} : req'[k] = req[k]
        /\ req'[h].step = "idle"
    BY <1>0, FinishReq DEF StartThread
  <1>3. Moves(id, g, "started", jobs[id][g].serves, jobs[id][g].verdict)
    BY <1>0, <1>1, <1>j, StartThreadMoves
  <1>4. /\ DOMAIN jobs'[id] = DOMAIN jobs[id]
        /\ registry[id] # 0 => registry[id] \in DOMAIN jobs[id]
        /\ registry'[id] = registry[id]
        /\ IsRunning(id)' <=> IsRunning(id)
        /\ Thread(id, g)' = "started"
        /\ \A t \in DOMAIN jobs[id] \ {g} : Thread(id, t)' = Thread(id, t)
    BY <1>0, <1>1, <1>3, MovesFacts
  <1>5. \A t \in DOMAIN jobs[id] : /\ jobs'[id][t].serves = jobs[id][t].serves
                                   /\ jobs'[id][t].verdict = jobs[id][t].verdict
                                   /\ jobs'[id][t].state = jobs[id][t].state
    BY <1>3 DEF Moves
  <1>6. /\ \A c \in Ids : DOMAIN jobs'[c] = DOMAIN jobs[c] /\ Len(jobs'[c]) = Len(jobs[c])
        /\ jobs' \in [Ids -> Seq(Job)]
        /\ \A c \in Ids \ {id} : jobs'[c] = jobs[c]
    BY <1>3 DEF Moves, Edits
  <1>7. \A c \in Ids \ S : Same(c)
    BY <1>1, <1>6 DEF Same
  <1>8. \A c \in Ids : \A t \in DOMAIN jobs[c] :
            /\ t \in DOMAIN jobs'[c]
            /\ Thread(c, t) = "none" =>
                  Thread(c, t)' = "none" \/ (Starts(h) /\ req[h].ids = {c} /\ req[h].job = t)
    BY <1>1, <1>4, <1>6, <1>j DEF Thread
  <1>9. TypeOK'
    BY <1>0, <1>1, <1>2, <1>6 DEF TypeOK
  <1>10. Grows /\ RequestInv(h)'
    BY <1>1, <1>2 DEF Grows, RequestInv, Starts
  <1>11. ThreadsInv(id)'
    BY <1>0, <1>1, <1>4, <1>5 DEF CrawlerInv, ThreadsInv
  <1>12. UnknownInv(id)'
    BY <1>0, <1>1 DEF CrawlerInv, UnknownInv, Known, Erasing
  <1>13. CarriedInv(id)'
    <2> SUFFICES ASSUME registry[id] # 0, IsRunning(id), id \notin broken
                 PROVE  Carried(id, registry[id])'
      BY <1>1, <1>4 DEF CarriedInv, IsRunning
    <2>1. Carried(id, registry[id])
      BY <1>0 DEF CrawlerInv, CarriedInv
    <2>2. CASE g = registry[id]
      BY <1>1, <1>4, <2>2 DEF Carried, Thread
    <2>3. CASE g # registry[id] /\ Starting(id, registry[id])
      <3>1. Starting(id, registry[id])'
        BY <1>1, <1>2, <1>j, <2>3 DEF Starting
      <3> QED
        BY <3>1 DEF Carried
    <2>4. CASE g # registry[id] /\ ~Starting(id, registry[id])
      <3>1. PICK t \in DOMAIN jobs[id] :
               \/ Thread(id, t) = "started" /\ t = registry[id]
               \/ Thread(id, t) \in {"crawling", "deciding"} /\ jobs[id][t].serves = registry[id]
        BY <2>1, <2>4 DEF Carried, Thread
      <3>2. \/ Thread(id, t)' = "started" /\ t = registry'[id]
            \/ Thread(id, t)' \in {"crawling", "deciding"} /\ jobs'[id][t].serves = registry'[id]
        BY <1>1, <1>4, <1>5, <3>1
      <3> QED
        BY <1>4, <3>2 DEF Carried, Thread
    <2> QED
      BY <2>2, <2>3, <2>4
  <1>14. ASSUME id \notin hasty
         PROVE  /\ \A k \in Handlers : ~Asks(k, id)'
                /\ g = registry[id] /\ IsRunning(id)
                /\ \A t \in DOMAIN jobs[id] : ~Active(id, t) /\ Thread(id, t) # "writing"
    BY <1>0, <1>1, <1>2, <1>j, <1>14 DEF CrawlerInv, CalmInv, Asks
  <1>15. CalmInv(id)'
    <2> SUFFICES ASSUME id \notin hasty PROVE CalmInv(id)'
      BY <1>1 DEF CalmInv
    <2>1. \A t \in DOMAIN jobs'[id] \ {g} : ~Active(id, t)' /\ Thread(id, t)' # "writing"
      BY <1>4, <1>14 DEF Active
    <2>2. jobs'[id][g].state = "running"
      BY <1>1, <1>5, <1>14 DEF IsRunning, Registered
    <2> QED
      BY <1>1, <1>4, <1>14, <2>1, <2>2 DEF CalmInv, Active
  <1>16. KeptInv(id)'
    <2> SUFFICES ASSUME id \notin hasty \cup broken PROVE KeptInv(id)'
      BY <1>1 DEF KeptInv
    <2>1. \A t \in DOMAIN jobs'[id] : Thread(id, t)' # "writing"
      BY <1>4, <1>14
    <2>2. ~Quiet(id)'
      BY <1>1, <1>4 DEF Quiet, Thread
    <2>3. RowRuns(id)'
      BY <1>0, <1>1 DEF CrawlerInv, KeptInv, RowRuns
    <2> QED
      BY <1>14, <2>1, <2>2, <2>3 DEF KeptInv
  <1>17. \A c \in S : CrawlerInv(c)'
    BY <1>11, <1>12, <1>13, <1>15, <1>16 DEF CrawlerInv
  <1>18. S \in SUBSET Ids /\ req[h].ids \subseteq S
    BY <1>1
  <1> HIDE DEF S
  <1> QED
    BY <1>2, <1>7, <1>8, <1>9, <1>10, <1>17, <1>18, RequestLocal

LEMMA ResumeCrawlerKeeps ==
  ASSUME JobInv, NEW h \in Handlers, NEW id \in Ids, ResumeCrawler(h, id)
  PROVE  JobInv'
  <1> DEFINE S == {id}
  <1>0. TypeOK /\ CrawlerInv(id)
    BY DEF JobInv
  <1>1. /\ req[h].step = "idle" /\ Known(id) /\ ~IsRunning(id)
        /\ hasty' = hasty \cup {c \in {id} : UnderWay(c)}
        /\ UNCHANGED <<jobs, registry, rows, data, clock, birth, broken, restarts>>
    BY DEF ResumeCrawler, memory, disk, Hasty
  <1>2. /\ req' \in [Handlers -> RequestRecord]
        /\ \A k \in Handlers \ {h} : req'[k] = req[k]
        /\ req'[h].step = "read" /\ req'[h].ids = {id}
    <2>1. [step |-> "read", ids |-> {id}, job |-> 0] \in RequestRecord
      BY DEF RequestRecord
    <2>2. req \in [Handlers -> RequestRecord]
      BY <1>0 DEF TypeOK
    <2> QED
      BY <2>1, <2>2 DEF ResumeCrawler
  <1>3. /\ \A c \in Ids \ S : Same(c)
        /\ \A c \in Ids : \A t \in DOMAIN jobs[c] : t \in DOMAIN jobs'[c] /\ Thread(c, t)' = Thread(c, t)
    BY <1>1 DEF Same, Thread
  <1>4. TypeOK' /\ Grows /\ RequestInv(h)'
    BY <1>0, <1>1, <1>2 DEF TypeOK, Grows, RequestInv, Starts
  <1>5. ThreadsInv(id)' /\ UnknownInv(id)'
    BY <1>0, <1>1 DEF CrawlerInv, ThreadsInv, Thread, UnknownInv, Known
  <1>6. CarriedInv(id)'
    BY <1>1 DEF CarriedInv, IsRunning, Registered
  <1>7. ASSUME id \notin hasty'
        PROVE  /\ \A k \in Handlers : Asks(k, id)' => k = h
               /\ \A t \in DOMAIN jobs'[id] : ~Active(id, t)' /\ Thread(id, t)' # "writing"
               /\ Quiet(id)
    <2>1. id \notin hasty /\ ~UnderWay(id)
      BY <1>1, <1>7
    <2>2. /\ \A k \in Handlers : ~Asks(k, id)
          /\ \A t \in DOMAIN jobs[id] : Thread(id, t) # "writing"
      BY <2>1 DEF UnderWay, Asks, Thread
    <2>3. \A t \in DOMAIN jobs[id] : ~Active(id, t)
      BY <1>0, <1>1, <2>1 DEF CrawlerInv, CalmInv, IsRunning, Registered, TypeOK
    <2>4. \A t \in DOMAIN jobs[id] : jobs[id][t] \in Job
      BY <1>0 DEF TypeOK
    <2>5. \A t \in DOMAIN jobs[id] : Thread(id, t) \in {"none", "done"}
      BY <2>2, <2>3, <2>4 DEF Active, Thread, Job
    <2> QED
      BY <1>1, <1>2, <2>1, <2>2, <2>3, <2>5 DEF Quiet, Asks, Active, Thread
  <1>8. CalmInv(id)'
    <2> SUFFICES ASSUME id \notin hasty' PROVE CalmInv(id)'
      BY DEF CalmInv
    <2>1. ~IsRunning(id)'
      BY <1>1 DEF IsRunning, Registered
    <2> QED
      BY <1>2, <1>7, <2>1 DEF CalmInv, Active, Erasing
  <1>9. KeptInv(id)'
    <2> SUFFICES ASSUME id \notin hasty' \cup broken' PROVE KeptInv(id)'
      BY DEF KeptInv
    <2>1. Agreed(id)
      BY <1>0, <1>1, <1>7 DEF CrawlerInv, KeptInv
    <2>2. Agreed(id)'
      BY <1>1, <2>1 DEF Agreed, RowOf, Registered
    <2> QED
      BY <1>2, <1>7, <2>2 DEF KeptInv
  <1>10. \A c \in S : CrawlerInv(c)'
    BY <1>5, <1>6, <1>8, <1>9 DEF CrawlerInv
  <1>11. S \in SUBSET Ids /\ req'[h].ids \subseteq S
    BY <1>2
  <1> HIDE DEF S
  <1> QED
    BY <1>1, <1>2, <1>3, <1>4, <1>10, <1>11, RequestLocal

\* What _start_job leaves, when it has registered its job.
Registers(h, id, n) ==
    /\ n \notin DOMAIN jobs[id] /\ n # 0 /\ Len(jobs'[id]) = n
    /\ DOMAIN jobs'[id] = DOMAIN jobs[id] \cup {n}
    /\ jobs' \in [Ids -> Seq(Job)]
    /\ \A t \in DOMAIN jobs[id] : jobs'[id][t] = jobs[id][t]
    /\ jobs'[id][n] = NewJob("running", clock')
    /\ registry' \in [Ids -> Nat] /\ registry'[id] = n
    /\ \A c \in Ids \ {id} : jobs'[c] = jobs[c] /\ registry'[c] = registry[c]
    /\ clock' \in Nat \ {0}
    /\ req' \in [Handlers -> RequestRecord]
    /\ \A k \in Handlers \ {h} : req'[k] = req[k]
    /\ req'[h] = [step |-> "upsert", ids |-> {id}, job |-> n]

LEMMA RegisterDoes ==
  ASSUME TypeOK, NEW h \in Handlers, NEW id \in Ids, Register(h, id)
  PROVE  \E n \in Nat : Registers(h, id, n)
  <1>1. /\ jobs \in [Ids -> Seq(Job)] /\ registry \in [Ids -> Nat] /\ clock \in Nat
        /\ req \in [Handlers -> RequestRecord] /\ jobs[id] \in Seq(Job)
    BY DEF TypeOK
  <1>2. clock' \in Nat \ {0}
    BY <1>1 DEF Register
  <1>3. NewJob("running", clock') \in Job
    BY <1>2 DEF NewJob, Job, States
  <1>4. PICK job \in Job : job = NewJob("running", clock')
    BY <1>3
  <1>5. PICK n \in Nat : n = Len(jobs[id]) + 1
    BY <1>1
  <1>6. /\ Append(jobs[id], job) \in Seq(Job) /\ Len(Append(jobs[id], job)) = n
        /\ DOMAIN Append(jobs[id], job) = DOMAIN jobs[id] \cup {n}
        /\ n \notin DOMAIN jobs[id] /\ n # 0
        /\ \A t \in DOMAIN jobs[id] : Append(jobs[id], job)[t] = jobs[id][t]
        /\ Append(jobs[id], job)[n] = job
    BY <1>1, <1>5
  <1>7. jobs' = [jobs EXCEPT ![id] = Append(jobs[id], job)]
    BY <1>4 DEF Register
  <1>8. /\ jobs' \in [Ids -> Seq(Job)] /\ jobs'[id] = Append(jobs[id], job)
        /\ \A c \in Ids \ {id} : jobs'[c] = jobs[c]
    BY <1>1, <1>6, <1>7
  <1>9. registry' = [registry EXCEPT ![id] = n]
    BY <1>6, <1>8 DEF Register
  <1>10. req' = [req EXCEPT ![h] = [step |-> "upsert", ids |-> {id}, job |-> n]]
    BY <1>6, <1>8 DEF Register
  <1>11. [step |-> "upsert", ids |-> {id}, job |-> n] \in RequestRecord
    BY DEF RequestRecord
  <1>12. /\ registry' \in [Ids -> Nat] /\ registry'[id] = n
         /\ \A c \in Ids \ {id} : registry'[c] = registry[c]
    BY <1>1, <1>9
  <1>13. /\ req' \in [Handlers -> RequestRecord]
         /\ \A k \in Handlers \ {h} : req'[k] = req[k]
         /\ req'[h] = [step |-> "upsert", ids |-> {id}, job |-> n]
    BY <1>1, <1>10, <1>11
  <1> QED
    BY <1>2, <1>4, <1>6, <1>8, <1>12, <1>13 DEF Registers

\* Of a crawler nobody else is busy with, a job is registered: what holds of it.
LEMMA RegisterKeeps ==
  ASSUME JobInv, NEW h \in Handlers, NEW id \in Ids, Register(h, id),
         UNCHANGED <<rows, data, broken, restarts>>,
         hasty \subseteq hasty', hasty' \subseteq Ids,
         req[h].step = "idle" \/ req[h].ids = {id},
         birth' \in [Ids -> Nat], birth'[id] # 0,
         \A c \in Ids \ {id} : birth'[c] = birth[c],
         id \notin hasty' =>
            /\ \A k \in Handlers \ {h} : ~Asks(k, id)
            /\ \A t \in DOMAIN jobs[id] : ~Active(id, t) /\ Thread(id, t) # "writing",
         id \notin hasty' \cup broken => (rows[id] = None => data[id] = {})
  PROVE  JobInv'
  <1> DEFINE S == {id}
  <1>0. TypeOK /\ CrawlerInv(id)
    BY DEF JobInv
  <1>1. PICK n \in Nat : Registers(h, id, n)
    BY <1>0, RegisterDoes
  <1>2. jobs'[id][n].thread = "none" /\ jobs'[id][n].state = "running"
    BY <1>1 DEF Registers, NewJob
  <1>3. req'[h].step = "upsert" /\ req'[h].ids = {id} /\ req'[h].job = n
    BY <1>1 DEF Registers
  <1>4. \A c \in Ids : \A t \in DOMAIN jobs[c] : t \in DOMAIN jobs'[c] /\ Thread(c, t)' = Thread(c, t)
    BY <1>1 DEF Registers, Thread
  <1>5. \A c \in Ids \ S : Same(c)
    BY <1>1 DEF Same, Registers
  <1>6. TypeOK'
    <2>1. \A c \in Ids : registry'[c] <= Len(jobs'[c])
      <3>1. ASSUME NEW c \in Ids \ {id} PROVE registry'[c] <= Len(jobs'[c])
        BY <1>0, <1>1 DEF TypeOK, Registers
      <3>2. registry'[id] <= Len(jobs'[id])
        BY <1>1 DEF Registers
      <3> QED
        BY <3>1, <3>2
    <2> QED
      BY <1>0, <1>1, <2>1 DEF TypeOK, Registers
  <1>7. RequestInv(h)'
    <2>1. ASSUME NEW k \in Handlers, Starts(k)', req'[k].ids = {id}, req'[k].job = n PROVE k = h
      <3> SUFFICES ASSUME k # h PROVE FALSE
        OBVIOUS
      <3>1. req[k].step \in {"upsert", "start"} /\ req[k].ids = {id} /\ req[k].job = n
        BY <1>1, <2>1 DEF Registers, Starts
      <3>2. n \in DOMAIN jobs[id]
        BY <3>1 DEF JobInv, RequestInv, Starts
      <3> QED
        BY <1>1, <3>2 DEF Registers
    <2>2. n \in DOMAIN jobs'[id] /\ jobs'[id][n].thread = "none"
      BY <1>1, <1>2 DEF Registers
    <2> QED
      BY <1>3, <2>1, <2>2 DEF RequestInv, Thread
  <1>8. Grows
    BY DEF Grows
  <1>9. ThreadsInv(id)'
    BY <1>0, <1>1, <1>2 DEF CrawlerInv, ThreadsInv, Registers, Thread
  <1>10. UnknownInv(id)'
    BY DEF UnknownInv, Known
  <1>11. CarriedInv(id)'
    <2>1. Starting(id, n)'
      BY <1>3 DEF Starting
    <2>2. registry'[id] = n
      BY <1>1 DEF Registers
    <2> QED
      BY <2>1, <2>2 DEF CarriedInv, Carried
  <1>12. ASSUME id \notin hasty'
         PROVE  /\ \A k \in Handlers : Asks(k, id)' => k = h
                /\ \A t \in DOMAIN jobs'[id] : ~Active(id, t)' /\ Thread(id, t)' # "writing"
                /\ IsRunning(id)'
    <2>1. \A k \in Handlers : Asks(k, id)' => k = h
      BY <1>1, <1>12 DEF Registers, Asks
    <2>2. \A t \in DOMAIN jobs'[id] : ~Active(id, t)' /\ Thread(id, t)' # "writing"
      BY <1>1, <1>2, <1>4, <1>12 DEF Registers, Active, Thread
    <2> QED
      BY <1>1, <1>2, <2>1, <2>2 DEF Registers, IsRunning, Registered
  <1>13. CalmInv(id)'
    <2> SUFFICES ASSUME id \notin hasty' PROVE CalmInv(id)'
      BY DEF CalmInv
    <2>1. req'[h].job = registry'[id]
      BY <1>1, <1>3 DEF Registers
    <2> QED
      BY <1>3, <1>12, <2>1 DEF CalmInv, Active, Erasing
  <1>14. KeptInv(id)'
    <2> SUFFICES ASSUME id \notin hasty' \cup broken PROVE KeptInv(id)'
      BY DEF KeptInv
    <2>1. ~Quiet(id)'
      BY <1>3 DEF Quiet, UnderWay
    <2> QED
      BY <1>3, <1>12, <2>1 DEF KeptInv
  <1>15. \A c \in S : CrawlerInv(c)'
    BY <1>9, <1>10, <1>11, <1>13, <1>14 DEF CrawlerInv
  <1>16. S \in SUBSET Ids /\ (req[h].step = "idle" \/ req[h].ids \subseteq S) /\ req'[h].ids \subseteq S
    BY <1>3
  <1>17. \A k \in Handlers \ {h} : req'[k] = req[k]
    BY <1>1 DEF Registers
  <1> HIDE DEF S
  <1> QED
    BY <1>4, <1>5, <1>6, <1>7, <1>8, <1>15, <1>16, <1>17, RequestLocal

LEMMA RegisterResumedKeeps ==
  ASSUME JobInv, NEW h \in Handlers, NEW id \in Ids, RegisterResumed(h, id)
  PROVE  JobInv'
  <1>0. TypeOK /\ CrawlerInv(id) /\ RequestInv(h)
    BY DEF JobInv
  <1>1. /\ req[h].step = "register" /\ req[h].ids = {id} /\ Asks(h, id) /\ Register(h, id)
        /\ UNCHANGED <<rows, data, birth, hasty, broken, restarts>>
    BY <1>0 DEF RegisterResumed, RequestInv, Asks, disk, history
  <1>2. birth[id] # 0
    BY <1>0, <1>1 DEF CrawlerInv, UnknownInv, Known, Erasing
  <1>3. id \notin hasty =>
            /\ \A k \in Handlers \ {h} : ~Asks(k, id)
            /\ \A t \in DOMAIN jobs[id] : ~Active(id, t) /\ Thread(id, t) # "writing"
    BY <1>0, <1>1 DEF CrawlerInv, CalmInv
  <1>4. id \notin hasty \cup broken => rows[id] # None
    BY <1>0, <1>1 DEF CrawlerInv, KeptInv
  <1>5. birth \in [Ids -> Nat] /\ hasty \subseteq Ids
    BY <1>0 DEF TypeOK
  <1> QED
    BY <1>1, <1>2, <1>3, <1>4, <1>5, RegisterKeeps

LEMMA CreateCrawlerKeeps ==
  ASSUME JobInv, NEW h \in Handlers, NEW id \in Ids, CreateCrawler(h, id)
  PROVE  JobInv'
  <1>0. TypeOK /\ CrawlerInv(id)
    BY DEF JobInv
  <1>1. /\ req[h].step = "idle" /\ ~Known(id) /\ Register(h, id)
        /\ birth' = [birth EXCEPT ![id] = clock']
        /\ hasty' = hasty \cup {c \in {id} : UnderWay(c)}
        /\ UNCHANGED <<rows, data, broken, restarts>>
    BY DEF CreateCrawler, disk, Hasty
  <1>2. clock' \in Nat \ {0}
    BY <1>0, <1>1 DEF TypeOK, Register
  <1>3. /\ birth' \in [Ids -> Nat] /\ birth'[id] # 0
        /\ \A c \in Ids \ {id} : birth'[c] = birth[c]
        /\ hasty \subseteq hasty' /\ hasty' \subseteq Ids
    BY <1>0, <1>1, <1>2 DEF TypeOK
  <1>4. jobs[id] = <<>> /\ rows[id] = None /\ data[id] = {}
    BY <1>0, <1>1 DEF CrawlerInv, UnknownInv
  <1>5. id \notin hasty' =>
            /\ \A k \in Handlers \ {h} : ~Asks(k, id)
            /\ \A t \in DOMAIN jobs[id] : ~Active(id, t) /\ Thread(id, t) # "writing"
    <2>1. id \notin hasty' => ~UnderWay(id)
      BY <1>1
    <2>2. DOMAIN jobs[id] = {}
      BY <1>4
    <2> QED
      BY <2>1, <2>2 DEF UnderWay, Asks
  <1> QED
    BY <1>1, <1>3, <1>4, <1>5, RegisterKeeps

LEMMA EraseKeeps ==
  ASSUME JobInv, NEW h \in Handlers, NEW S \in SUBSET Ids, Erase(h, S)
  PROVE  JobInv'
  <1>0. TypeOK
    BY DEF JobInv
  <1>1. /\ req[h].step = "idle" /\ \A c \in S : ~IsRunning(c)
        /\ hasty' = hasty \cup {c \in S : UnderWay(c)}
        /\ UNCHANGED <<jobs, rows, data, clock, birth, broken, restarts>>
    BY DEF Erase, disk, Hasty
  <1>2. /\ req' \in [Handlers -> RequestRecord]
        /\ \A k \in Handlers \ {h} : req'[k] = req[k]
        /\ req'[h].step = "rows" /\ req'[h].ids = S
    <2>1. [step |-> "rows", ids |-> S, job |-> 0] \in RequestRecord
      BY DEF RequestRecord
    <2>2. req \in [Handlers -> RequestRecord]
      BY <1>0 DEF TypeOK
    <2> QED
      BY <2>1, <2>2 DEF Erase
  <1>3. /\ registry' \in [Ids -> Nat]
        /\ \A c \in S : registry'[c] = 0
        /\ \A c \in Ids \ S : registry'[c] = registry[c]
    BY <1>0 DEF Erase, TypeOK
  <1>4. /\ \A c \in Ids \ S : Same(c)
        /\ \A c \in Ids : \A t \in DOMAIN jobs[c] : t \in DOMAIN jobs'[c] /\ Thread(c, t)' = Thread(c, t)
    BY <1>1, <1>3 DEF Same, Thread
  <1>5. TypeOK'
    <2>1. \A c \in Ids : registry'[c] <= Len(jobs'[c])
      <3> SUFFICES ASSUME NEW c \in Ids PROVE registry'[c] <= Len(jobs'[c])
        OBVIOUS
      <3>1. jobs[c] \in Seq(Job) /\ registry[c] <= Len(jobs[c])
        BY <1>0 DEF TypeOK
      <3>2. registry'[c] = 0 \/ registry'[c] = registry[c]
        BY <1>3
      <3> QED
        BY <1>1, <3>1, <3>2
    <2> QED
      BY <1>0, <1>1, <1>2, <1>3, <2>1 DEF TypeOK
  <1>6. Grows /\ RequestInv(h)'
    BY <1>1, <1>2 DEF Grows, RequestInv, Starts
  <1>7. ASSUME NEW id \in S PROVE CrawlerInv(id)'
    <2>0. CrawlerInv(id) /\ id \in Ids
      BY DEF JobInv
    <2>1. ThreadsInv(id)'
      BY <1>1, <2>0 DEF CrawlerInv, ThreadsInv, Thread
    <2>2. UnknownInv(id)'
      <3> SUFFICES ASSUME ~Known(id)
                   PROVE  \A k \in Handlers : Asks(k, id)' => Erasing(k)'
        BY <1>1, <2>0 DEF CrawlerInv, UnknownInv, Known
      <3> QED
        BY <1>2, <2>0 DEF CrawlerInv, UnknownInv, Asks, Erasing
    <2>3. CarriedInv(id)'
      BY <1>3 DEF CarriedInv, IsRunning
    <2>4. ASSUME id \notin hasty'
          PROVE  /\ \A k \in Handlers : Asks(k, id)' => k = h
                 /\ \A t \in DOMAIN jobs'[id] : ~Active(id, t)' /\ Thread(id, t)' # "writing"
                 /\ Quiet(id)
      <3>1. id \notin hasty /\ ~UnderWay(id)
        BY <1>1, <2>4
      <3>2. /\ \A k \in Handlers : ~Asks(k, id)
            /\ \A t \in DOMAIN jobs[id] : Thread(id, t) # "writing"
        BY <3>1 DEF UnderWay, Asks, Thread
      <3>3. \A t \in DOMAIN jobs[id] : ~Active(id, t)
        BY <1>0, <1>1, <2>0, <3>1 DEF CrawlerInv, CalmInv, IsRunning, Registered, TypeOK
      <3>4. \A t \in DOMAIN jobs[id] : jobs[id][t] \in Job
        BY <1>0, <2>0 DEF TypeOK
      <3>5. \A t \in DOMAIN jobs[id] : Thread(id, t) \in {"none", "done"}
        BY <3>2, <3>3, <3>4 DEF Active, Thread, Job
      <3> QED
        BY <1>1, <1>2, <3>1, <3>2, <3>3, <3>5 DEF Quiet, Asks, Active, Thread
    <2>5. CalmInv(id)'
      <3> SUFFICES ASSUME id \notin hasty' PROVE CalmInv(id)'
        BY DEF CalmInv
      <3> QED
        BY <1>2, <1>3, <2>4 DEF CalmInv, Active
    <2>6. KeptInv(id)'
      <3> SUFFICES ASSUME id \notin hasty' \cup broken' PROVE KeptInv(id)'
        BY DEF KeptInv
      <3>1. Agreed(id)
        BY <1>1, <2>0, <2>4 DEF CrawlerInv, KeptInv
      <3>2. ~RowRuns(id)
        BY <1>1, <3>1 DEF Agreed, RowRuns, RowOf, IsRunning
      <3>3. ~RowRuns(id)'
        BY <1>1, <3>2 DEF RowRuns
      <3>4. ~Quiet(id)'
        BY <1>2 DEF Quiet, UnderWay
      <3> QED
        BY <1>2, <2>4, <3>3, <3>4 DEF KeptInv
    <2> QED
      BY <2>1, <2>2, <2>3, <2>5, <2>6 DEF CrawlerInv
  <1> QED
    BY <1>1, <1>2, <1>4, <1>5, <1>6, <1>7, RequestLocal

\* What the steps of an erasure have in common, whether they succeed or raise.
LEMMA EraseStepKeeps ==
  ASSUME JobInv, NEW h \in Handlers, NEW S \in SUBSET Ids, Erasing(h), S = req[h].ids,
         UNCHANGED <<jobs, registry, clock, birth, hasty, restarts>>,
         broken \subseteq broken', broken' \subseteq Ids,
         req' \in [Handlers -> RequestRecord],
         \A k \in Handlers \ {h} : req'[k] = req[k],
         \/ Erasing(h)' /\ req'[h].ids = S
         \/ req'[h].step = "idle",
         rows' \in [Ids -> Row \cup {None}], data' \in [Ids -> SUBSET Data],
         \A c \in Ids \ S : rows'[c] = rows[c] /\ data'[c] = data[c],
         \A c \in S : rows'[c] \in {rows[c], None} /\ data'[c] \subseteq data[c],
         \A c \in S \ (hasty \cup broken') :
            /\ req'[h].step # "rows"
            /\ rows'[c] = None
            /\ req'[h].step = "documents" => data'[c] \subseteq {"documents", "checkpoint"}
            /\ req'[h].step = "checkpoint" => data'[c] \subseteq {"checkpoint"}
            /\ req'[h].step = "idle" => data'[c] = {}
  PROVE  JobInv'
  <1>0. TypeOK
    BY DEF JobInv
  <1>1. /\ \A c \in Ids \ S : Same(c)
        /\ \A c \in Ids : \A t \in DOMAIN jobs[c] : t \in DOMAIN jobs'[c] /\ Thread(c, t)' = Thread(c, t)
    BY DEF Same, Thread
  <1>2. TypeOK' /\ Grows /\ RequestInv(h)'
    BY <1>0 DEF TypeOK, Grows, RequestInv, Starts, Erasing
  <1>3. ASSUME NEW id \in S PROVE CrawlerInv(id)'
    <2>0. CrawlerInv(id) /\ id \in Ids /\ Asks(h, id)
      BY DEF JobInv, Asks, Erasing
    <2>1. ThreadsInv(id)'
      BY <2>0 DEF CrawlerInv, ThreadsInv, Thread
    <2>2. UnknownInv(id)'
      <3> SUFFICES ASSUME ~Known(id) PROVE UnknownInv(id)'
        BY DEF UnknownInv, Known
      <3>1. jobs'[id] = <<>> /\ rows'[id] = None /\ data'[id] = {}
        BY <2>0 DEF CrawlerInv, UnknownInv
      <3>2. \A k \in Handlers : Asks(k, id)' => Erasing(k)'
        BY <2>0 DEF CrawlerInv, UnknownInv, Asks, Erasing
      <3> QED
        BY <3>1, <3>2 DEF UnknownInv
    <2>3. CarriedInv(id)'
      <3>1. \A g : Starting(id, g) => Starting(id, g)'
        BY DEF Starting, Erasing
      <3> QED
        BY <2>0, <3>1 DEF CrawlerInv, CarriedInv, IsRunning, Registered, Carried
    <2>4. ASSUME id \notin hasty
          PROVE  /\ \A k \in Handlers : Asks(k, id)' => k = h /\ Erasing(h)'
                 /\ \A t \in DOMAIN jobs'[id] : ~Active(id, t)' /\ Thread(id, t)' # "writing"
                 /\ registry'[id] = 0
      <3>1. \A k \in Handlers : Asks(k, id)' => k = h
        BY <2>0, <2>4 DEF CrawlerInv, CalmInv, Asks
      <3>2. /\ \A t \in DOMAIN jobs[id] : ~Active(id, t) /\ Thread(id, t) # "writing"
            /\ registry[id] = 0
        BY <2>0, <2>4 DEF CrawlerInv, CalmInv
      <3>3. \A t \in DOMAIN jobs'[id] : ~Active(id, t)' /\ Thread(id, t)' # "writing"
        BY <3>2 DEF Active, Thread
      <3> QED
        BY <3>1, <3>2, <3>3 DEF Asks
    <2>5. CalmInv(id)'
      <3> SUFFICES ASSUME id \notin hasty PROVE CalmInv(id)'
        BY DEF CalmInv
      <3> QED
        BY <2>4 DEF CalmInv, Active, Erasing
    <2>6. KeptInv(id)'
      <3> SUFFICES ASSUME id \notin hasty \cup broken' PROVE KeptInv(id)'
        BY DEF KeptInv
      <3>1. Quiet(id)' => Agreed(id)'
        <4> SUFFICES ASSUME Quiet(id)' PROVE Agreed(id)'
          OBVIOUS
        <4>1. req'[h].step = "idle"
          BY <2>0 DEF Quiet, UnderWay, Erasing
        <4> QED
          BY <2>4, <4>1 DEF Agreed
      <3>2. \A k \in Handlers : Asks(k, id)' =>
               k = h /\ req'[h].step \in {"documents", "checkpoint"}
        BY <2>4 DEF Erasing
      <3> QED
        BY <2>4, <3>1, <3>2 DEF KeptInv
    <2> QED
      BY <2>1, <2>2, <2>3, <2>5, <2>6 DEF CrawlerInv
  <1>4. /\ req[h].ids \subseteq S
        /\ req'[h].step = "idle" \/ req'[h].ids \subseteq S
        /\ \A c \in S : CrawlerInv(c)'
    BY <1>3
  <1> QED
    <2>1. \A c \in Ids : \A t \in DOMAIN jobs[c] :
             /\ t \in DOMAIN jobs'[c]
             /\ Thread(c, t) = "none" =>
                  Thread(c, t)' = "none" \/ (Starts(h) /\ req[h].ids = {c} /\ req[h].job = t)
      BY <1>1
    <2>2. \A c \in Ids \ S : Same(c)
      BY <1>1
    <2>3. TypeOK' /\ Grows /\ RequestInv(h)'
      BY <1>2
    <2> QED
      BY <1>4, <2>1, <2>2, <2>3, RequestLocal

LEMMA EraseDataDoes ==
  ASSUME TypeOK, NEW h \in Handlers, NEW kind, EraseData(h, kind)
  PROVE  /\ data' \in [Ids -> SUBSET Data]
         /\ \A c \in Ids \ req[h].ids : data'[c] = data[c]
         /\ \A c \in Ids \cap req[h].ids : data'[c] = data[c] \ {kind}
  BY DEF EraseData, TypeOK

LEMMA ErasesKeep ==
  ASSUME JobInv, NEW h \in Handlers,
         EraseRows(h) \/ EraseDocuments(h) \/ EraseCheckpoint(h) \/ EraseRaises(h)
  PROVE  JobInv'
  <1>0. TypeOK /\ req[h].ids \in SUBSET Ids
    BY DEF JobInv, TypeOK, RequestRecord
  <1>1. PICK S \in SUBSET Ids : S = req[h].ids
    BY <1>0
  <1>2. \A c \in S \ (hasty \cup broken) :
           /\ req[h].step = "documents" =>
                 rows[c] = None /\ data[c] \subseteq {"documents", "checkpoint"}
           /\ req[h].step = "checkpoint" => rows[c] = None /\ data[c] \subseteq {"checkpoint"}
    BY <1>1 DEF JobInv, CrawlerInv, KeptInv, Asks
  <1>3. rows \in [Ids -> Row \cup {None}] /\ data \in [Ids -> SUBSET Data]
    BY <1>0 DEF TypeOK
  <1>00. broken \subseteq Ids
    BY <1>0 DEF TypeOK
  <1>4. CASE EraseRows(h)
    <2>1. /\ Erasing(h) /\ UNCHANGED <<jobs, registry, clock, birth, hasty, broken, restarts>>
          /\ EraseData(h, "events") /\ Goto(h, "documents")
          /\ rows' = [c \in Ids |-> IF c \in req[h].ids THEN None ELSE rows[c]]
      BY <1>4 DEF EraseRows, Erasing, memory, history
    <2>2. /\ req' \in [Handlers -> RequestRecord] /\ \A k \in Handlers \ {h} : req'[k] = req[k]
          /\ req'[h].step = "documents" /\ req'[h].ids = S
      BY <1>0, <1>1, <2>1, GotoReq
    <2>3. /\ data' \in [Ids -> SUBSET Data] /\ \A c \in Ids \ S : data'[c] = data[c]
          /\ \A c \in S : data'[c] = data[c] \ {"events"}
      BY <1>0, <1>1, <2>1, EraseDataDoes
    <2>4. /\ rows' \in [Ids -> Row \cup {None}] /\ \A c \in Ids \ S : rows'[c] = rows[c]
          /\ \A c \in S : rows'[c] = None
      BY <1>1, <1>3, <2>1
    <2>5. \A c \in S : data'[c] \subseteq {"documents", "checkpoint"} /\ data'[c] \subseteq data[c]
      BY <1>3, <2>3 DEF Data
    <2>6. Erasing(h)' /\ req'[h].step # "rows" /\ req'[h].step # "checkpoint" /\ req'[h].step # "idle"
      BY <2>2 DEF Erasing
    <2> QED
      BY <1>1, <2>1, <2>2, <2>3, <2>4, <2>5, <2>6, <1>00, EraseStepKeeps
  <1>5. CASE EraseDocuments(h)
    <2>1. /\ Erasing(h) /\ UNCHANGED <<jobs, registry, rows, clock, birth, hasty, broken, restarts>>
          /\ EraseData(h, "documents") /\ Goto(h, "checkpoint") /\ req[h].step = "documents"
      BY <1>5 DEF EraseDocuments, Erasing, memory, history
    <2>2. /\ req' \in [Handlers -> RequestRecord] /\ \A k \in Handlers \ {h} : req'[k] = req[k]
          /\ req'[h].step = "checkpoint" /\ req'[h].ids = S
      BY <1>0, <1>1, <2>1, GotoReq
    <2>3. /\ data' \in [Ids -> SUBSET Data] /\ \A c \in Ids \ S : data'[c] = data[c]
          /\ \A c \in S : data'[c] = data[c] \ {"documents"}
      BY <1>0, <1>1, <2>1, EraseDataDoes
    <2>4. \A c \in S \ (hasty \cup broken) : rows'[c] = None /\ data'[c] \subseteq {"checkpoint"}
      BY <1>2, <2>1, <2>3
    <2>5. \A c \in S : rows'[c] \in {rows[c], None} /\ data'[c] \subseteq data[c]
      BY <2>1, <2>3
    <2>6. Erasing(h)' /\ req'[h].step # "rows" /\ req'[h].step # "documents" /\ req'[h].step # "idle"
      BY <2>2 DEF Erasing
    <2> QED
      BY <1>1, <1>3, <2>1, <2>2, <2>3, <2>4, <2>5, <2>6, <1>00, EraseStepKeeps
  <1>6. CASE EraseCheckpoint(h)
    <2>1. /\ Erasing(h) /\ UNCHANGED <<jobs, registry, rows, clock, birth, hasty, broken, restarts>>
          /\ EraseData(h, "checkpoint") /\ Finish(h) /\ req[h].step = "checkpoint"
      BY <1>6 DEF EraseCheckpoint, Erasing, memory, history
    <2>2. /\ req' \in [Handlers -> RequestRecord] /\ \A k \in Handlers \ {h} : req'[k] = req[k]
          /\ req'[h].step = "idle"
      BY <1>0, <2>1, FinishReq
    <2>3. /\ data' \in [Ids -> SUBSET Data] /\ \A c \in Ids \ S : data'[c] = data[c]
          /\ \A c \in S : data'[c] = data[c] \ {"checkpoint"}
      BY <1>0, <1>1, <2>1, EraseDataDoes
    <2>4. \A c \in S \ (hasty \cup broken) : rows'[c] = None /\ data'[c] = {}
      BY <1>2, <2>1, <2>3
    <2>5. \A c \in S : rows'[c] \in {rows[c], None} /\ data'[c] \subseteq data[c]
      BY <2>1, <2>3
    <2>6. req'[h].step # "rows" /\ req'[h].step # "documents" /\ req'[h].step # "checkpoint"
      BY <2>2
    <2> QED
      BY <1>1, <1>3, <2>1, <2>2, <2>3, <2>4, <2>5, <2>6, <1>00, EraseStepKeeps
  <1>7. CASE EraseRaises(h)
    <2>1. /\ Erasing(h) /\ UNCHANGED <<jobs, registry, rows, clock, birth, hasty, restarts>>
          /\ Finish(h) /\ broken' = broken \cup {c \in S : Known(c)}
      BY <1>1, <1>7 DEF EraseRaises, memory
    <2>2. /\ req' \in [Handlers -> RequestRecord] /\ \A k \in Handlers \ {h} : req'[k] = req[k]
          /\ req'[h].step = "idle"
      BY <1>0, <2>1, FinishReq
    <2>3. PICK gone \in SUBSET S :
             data' = [c \in Ids |-> IF c \in gone THEN data[c] \ {"checkpoint"} ELSE data[c]]
      BY <1>1, <1>7 DEF EraseRaises
    <2>4. /\ data' \in [Ids -> SUBSET Data] /\ \A c \in Ids \ S : data'[c] = data[c]
          /\ \A c \in S : data'[c] \subseteq data[c]
      BY <1>3, <2>3
    <2>5. \A c \in S \ (hasty \cup broken') : rows'[c] = None /\ data'[c] = {}
      <3> SUFFICES ASSUME NEW c \in S \ (hasty \cup broken')
                   PROVE  rows'[c] = None /\ data'[c] = {}
        OBVIOUS
      <3>1. ~Known(c) /\ UnknownInv(c)
        BY <2>1 DEF JobInv, CrawlerInv
      <3> QED
        BY <2>1, <2>4, <3>1 DEF UnknownInv
    <2>6. /\ \A c \in S : rows'[c] \in {rows[c], None}
          /\ req'[h].step # "rows" /\ req'[h].step # "documents" /\ req'[h].step # "checkpoint"
          /\ broken \subseteq broken' /\ broken' \subseteq Ids
      BY <1>00, <2>1, <2>2
    <2> QED
      BY <1>1, <1>3, <2>1, <2>2, <2>4, <2>5, <2>6, EraseStepKeeps
  <1> QED
    BY <1>4, <1>5, <1>6, <1>7

-----------------------------------------------------------------------------
(* The end of the process, the first boot, and every step.                 *)

\* In a crawler's normal life a run that is under way has a row that says so, and
\* a crawler without a row and nobody erasing it has no data either.
LEMMA RowOrNothing ==
  ASSUME JobInv, NEW id \in Ids \ (hasty \cup broken),
         \A h \in Handlers : Asks(h, id) => ~Erasing(h), rows[id] = None
  PROVE  data[id] = {}
  <1>1. TypeOK /\ CalmInv(id) /\ KeptInv(id)
    BY DEF JobInv, CrawlerInv
  <1>2. Agreed(id) => data[id] = {}
    <2> SUFFICES ASSUME Agreed(id), registry[id] # 0 PROVE FALSE
      BY DEF Agreed
    <2>1. registry[id] \in DOMAIN jobs[id] /\ jobs[id] \in Seq(Job)
      BY <1>1 DEF TypeOK
    <2>2. Registered(id) \in Job
      BY <2>1 DEF Registered
    <2>3. RowOf(Registered(id), Registered(id).created) \in [state : States, created : Nat]
      BY <2>2 DEF RowOf, Job
    <2> QED
      BY <2>3, NoneAssumption DEF Agreed
  <1>3. CASE \E h \in Handlers : Asks(h, id)
    <2>1. PICK h \in Handlers : Asks(h, id)
      BY <1>3
    <2>2. req[h].step \in {"read", "register", "upsert", "start"}
      BY <1>1, <2>1 DEF Asks, Erasing, TypeOK, RequestRecord
    <2> QED
      BY <1>1, <1>2, <2>1, <2>2 DEF KeptInv, RowRuns
  <1>4. CASE \A h \in Handlers : ~Asks(h, id)
    <2>1. \A t \in DOMAIN jobs[id] : ~Active(id, t) /\ Thread(id, t) # "writing"
      BY <1>1 DEF KeptInv, RowRuns
    <2>2. \A t \in DOMAIN jobs[id] : jobs[id][t] \in Job
      BY <1>1 DEF TypeOK
    <2>3. \A t \in DOMAIN jobs[id] : Thread(id, t) \in {"none", "done"}
      BY <2>1, <2>2 DEF Active, Thread, Job
    <2>4. Quiet(id)
      BY <1>4, <2>3 DEF Quiet, UnderWay, Asks, Thread
    <2> QED
      BY <1>1, <1>2, <2>4 DEF KeptInv
  <1> QED
    BY <1>3, <1>4

LEMMA Short ==
  /\ <<>> \in Seq(Job) /\ Len(<<>>) = 0 /\ DOMAIN <<>> = {}
  /\ \A job \in Job : /\ <<job>> \in Seq(Job) /\ Len(<<job>>) = 1
                       /\ DOMAIN <<job>> = {1} /\ <<job>>[1] = job
  <1>1. <<>> \in Seq(Job) /\ Len(<<>>) = 0 /\ DOMAIN <<>> = {}
    OBVIOUS
  <1>2. ASSUME NEW job \in Job
        PROVE  /\ <<job>> \in Seq(Job) /\ Len(<<job>>) = 1
               /\ DOMAIN <<job>> = {1} /\ <<job>>[1] = job
    OBVIOUS
  <1> QED
    BY <1>1, <1>2

LEMMA RestartKeeps ==
  ASSUME JobInv, Restart
  PROVE  JobInv'
  <1>0. TypeOK
    BY DEF JobInv
  <1>1. /\ rows' = [id \in Ids |-> Loaded(rows[id])]
        /\ jobs' = [id \in Ids |->
                      IF rows[id] = None THEN <<>>
                      ELSE <<NewJob(Loaded(rows[id]).state, rows[id].created)>>]
        /\ registry' = [id \in Ids |-> Len(jobs'[id])]
        /\ req' = [h \in Handlers |-> Idle]
        /\ broken' = broken \cup {id \in Ids : \E h \in Handlers : Erasing(h) /\ id \in req[h].ids}
        /\ restarts' = restarts + 1
        /\ UNCHANGED <<data, clock, birth, hasty>>
    BY DEF Restart
  <1>2. ASSUME NEW id \in Ids
        PROVE  \/ rows[id] = None /\ Loaded(rows[id]) = None
               \/ /\ rows[id] # None /\ Loaded(rows[id]) \in Row /\ Loaded(rows[id]) # None
                  /\ Loaded(rows[id]).state # "running"
                  /\ Loaded(rows[id]).created = rows[id].created
    <2>1. CASE rows[id] = None
      BY <2>1 DEF Loaded
    <2>2. CASE rows[id] # None
      <3>1. rows[id] \in Row
        BY <1>0, <2>2 DEF TypeOK
      <3>2. Loaded(rows[id]) =
               [state |-> IF rows[id].state = "running" THEN "interrupted" ELSE rows[id].state,
                created |-> rows[id].created]
        BY <2>2, <3>1 DEF Loaded, Row
      <3>3. /\ Loaded(rows[id]) \in [state : States, created : Nat]
            /\ Loaded(rows[id]).state # "running"
            /\ Loaded(rows[id]).created = rows[id].created
        BY <3>1, <3>2 DEF Row, States
      <3> QED
        BY <2>2, <3>3, NoneAssumption DEF Row
    <2> QED
      BY <2>1, <2>2
  <1>3. ASSUME NEW id \in Ids
        PROVE  \/ /\ rows[id] = None /\ rows'[id] = None
                  /\ jobs'[id] = <<>> /\ registry'[id] = 0
               \/ /\ rows[id] # None /\ rows'[id] \in Row /\ rows'[id] # None
                  /\ rows'[id].state # "running"
                  /\ jobs'[id] = <<NewJob(rows'[id].state, rows'[id].created)>>
                  /\ registry'[id] = 1
    BY <1>1, <1>2
  <1>4. ASSUME NEW id \in Ids
        PROVE  /\ jobs'[id] \in Seq(Job) /\ registry'[id] \in Nat /\ registry'[id] <= Len(jobs'[id])
               /\ rows'[id] \in Row \cup {None}
    <2>1. CASE rows[id] = None
      <3>1. jobs'[id] = <<>> /\ registry'[id] = 0 /\ rows'[id] = None
        BY <1>3, <2>1
      <3>2. jobs'[id] \in Seq(Job) /\ Len(jobs'[id]) = 0
        BY <3>1, Short
      <3> QED
        BY <3>1, <3>2
    <2>2. CASE rows[id] # None
      <3>1. /\ rows'[id] \in Row /\ registry'[id] = 1
            /\ jobs'[id] = <<NewJob(rows'[id].state, rows'[id].created)>>
        BY <1>3, <2>2
      <3>2. NewJob(rows'[id].state, rows'[id].created) \in Job
        BY <3>1 DEF NewJob, Job, Row
      <3>3. jobs'[id] \in Seq(Job) /\ Len(jobs'[id]) = 1
        BY <3>1, <3>2, Short
      <3> QED
        BY <3>1, <3>3
    <2> QED
      BY <2>1, <2>2
  <1>5. \A h \in Handlers : req'[h].step = "idle" /\ req'[h] \in RequestRecord
    BY <1>1 DEF Idle, RequestRecord
  <1>6. TypeOK'
    <2>1. jobs' \in [Ids -> Seq(Job)] /\ registry' \in [Ids -> Nat] /\ rows' \in [Ids -> Row \cup {None}]
      BY <1>1, <1>4
    <2>2. req' \in [Handlers -> RequestRecord]
      BY <1>1, <1>5
    <2>3. restarts' \in Nat /\ broken' \subseteq Ids
      BY <1>0, <1>1 DEF TypeOK
    <2> QED
      BY <1>0, <1>1, <1>4, <2>1, <2>2, <2>3 DEF TypeOK
  <1>7. \A h \in Handlers : RequestInv(h)'
    BY <1>5 DEF RequestInv, Starts
  <1>8. ASSUME NEW id \in Ids PROVE CrawlerInv(id)'
    <2>0. CrawlerInv(id)
      BY DEF JobInv
    <2>a. \/ DOMAIN jobs'[id] = {} /\ registry'[id] = 0
          \/ /\ DOMAIN jobs'[id] = {1} /\ registry'[id] = 1
             /\ jobs'[id][1].thread = "none" /\ jobs'[id][1].state # "running"
      <3>1. CASE rows[id] = None
        <4>1. jobs'[id] = <<>> /\ registry'[id] = 0
          BY <1>3, <3>1
        <4> QED
          BY <4>1, Short
      <3>2. CASE rows[id] # None
        <4>1. /\ rows'[id] \in Row /\ registry'[id] = 1 /\ rows'[id].state # "running"
              /\ jobs'[id] = <<NewJob(rows'[id].state, rows'[id].created)>>
          BY <1>3, <3>2
        <4>2. PICK job \in Job : job = NewJob(rows'[id].state, rows'[id].created)
          BY <4>1 DEF NewJob, Job, Row
        <4>3. job.thread = "none" /\ job.state # "running"
          BY <4>1, <4>2 DEF NewJob
        <4>4. DOMAIN jobs'[id] = {1} /\ jobs'[id][1] = job
          BY <4>1, <4>2, Short
        <4> QED
          BY <4>1, <4>3, <4>4
      <3> QED
        BY <3>1, <3>2
    <2>1. \A t \in DOMAIN jobs'[id] : jobs'[id][t].thread = "none" /\ t = 1 /\ registry'[id] = 1
      BY <2>a
    <2>2. \A h \in Handlers : ~Asks(h, id)'
      BY <1>5 DEF Asks
    <2>3. ~IsRunning(id)'
      BY <2>a DEF IsRunning, Registered
    <2>4. ThreadsInv(id)'
      BY <2>1 DEF ThreadsInv, Thread
    <2>5. UnknownInv(id)'
      BY <1>1, <1>3, <2>0, <2>2 DEF CrawlerInv, UnknownInv, Known
    <2>6. CarriedInv(id)'
      BY <2>3 DEF CarriedInv
    <2>7. CalmInv(id)'
      BY <2>1, <2>2 DEF CalmInv, Active, Thread
    <2>8. KeptInv(id)'
      <3> SUFFICES ASSUME id \notin hasty \cup broken' PROVE Agreed(id)'
        BY <1>1, <2>1, <2>2 DEF KeptInv, Active, Thread
      <3>1. CASE rows[id] = None
        <4>1. id \notin hasty \cup broken /\ \A h \in Handlers : Asks(h, id) => ~Erasing(h)
          BY <1>1 DEF Asks
        <4>2. data[id] = {}
          BY <3>1, <4>1, RowOrNothing
        <4> QED
          BY <1>1, <1>3, <3>1, <4>2 DEF Agreed
      <3>2. CASE rows[id] # None
        <4>1. /\ rows'[id] \in Row /\ registry'[id] = 1
              /\ jobs'[id] = <<NewJob(rows'[id].state, rows'[id].created)>>
          BY <1>3, <3>2
        <4>2. /\ Registered(id)'.state = rows'[id].state
              /\ Registered(id)'.created = rows'[id].created
          BY <4>1 DEF Registered, NewJob
        <4>3. rows'[id] = [state |-> rows'[id].state, created |-> rows'[id].created]
          BY <4>1 DEF Row
        <4> QED
          BY <4>1, <4>2, <4>3 DEF Agreed, RowOf
      <3> QED
        BY <3>1, <3>2
    <2> QED
      BY <2>4, <2>5, <2>6, <2>7, <2>8 DEF CrawlerInv
  <1> QED
    BY <1>6, <1>7, <1>8 DEF JobInv

LEMMA InitHolds == Init => JobInv
  <1> SUFFICES ASSUME Init PROVE JobInv
    OBVIOUS
  <1>1. PICK stored \in SUBSET Ids : Boots(stored)
    BY DEF Init
  <1>2. /\ req = [h \in Handlers |-> Idle] /\ clock = 1
        /\ hasty = {} /\ broken = {} /\ restarts = 0
    BY DEF Init
  <1>3. \A h \in Handlers : req[h].step = "idle" /\ req[h] \in RequestRecord
    BY <1>2 DEF Idle, RequestRecord
  <1>4. ASSUME NEW id \in Ids
        PROVE  \/ /\ rows[id] = None /\ jobs[id] = <<>> /\ registry[id] = 0
                  /\ data[id] = {} /\ birth[id] = 0
               \/ /\ rows[id] = [state |-> "interrupted", created |-> 1]
                  /\ jobs[id] = <<NewJob("interrupted", 1)>> /\ registry[id] = 1
                  /\ data[id] = Data /\ birth[id] = 1
    BY <1>1 DEF Boots
  <1>5. /\ [state |-> "interrupted", created |-> 1] \in [state : States, created : Nat]
        /\ NewJob("interrupted", 1) \in Job
    BY DEF States, NewJob, Job
  <1>6. [state |-> "interrupted", created |-> 1] # None
    BY <1>5, NoneAssumption
  <1>7. TypeOK
    <2>1. ASSUME NEW id \in Ids
          PROVE  /\ jobs[id] \in Seq(Job) /\ registry[id] \in Nat /\ registry[id] <= Len(jobs[id])
                 /\ rows[id] \in Row \cup {None} /\ data[id] \in SUBSET Data /\ birth[id] \in Nat
      <3>1. CASE rows[id] = None
        <4>1. jobs[id] = <<>> /\ registry[id] = 0 /\ data[id] = {} /\ birth[id] = 0
          BY <1>4, <1>6, <3>1
        <4>2. jobs[id] \in Seq(Job) /\ Len(jobs[id]) = 0
          BY <4>1, Short
        <4> QED
          BY <3>1, <4>1, <4>2
      <3>2. CASE rows[id] # None
        <4>1. /\ rows[id] = [state |-> "interrupted", created |-> 1]
              /\ jobs[id] = <<NewJob("interrupted", 1)>> /\ registry[id] = 1
              /\ data[id] = Data /\ birth[id] = 1
          BY <1>4, <3>2
        <4>2. jobs[id] \in Seq(Job) /\ Len(jobs[id]) = 1
          BY <1>5, <4>1, Short
        <4> QED
          BY <1>5, <4>1, <4>2 DEF Row
      <3> QED
        BY <3>1, <3>2
    <2>2. /\ jobs \in [Ids -> Seq(Job)] /\ registry \in [Ids -> Nat]
          /\ rows \in [Ids -> Row \cup {None}]
          /\ data \in [Ids -> SUBSET Data] /\ birth \in [Ids -> Nat]
      BY <1>1, <2>1 DEF Boots
    <2>3. req \in [Handlers -> RequestRecord]
      BY <1>2, <1>3
    <2> QED
      BY <1>2, <2>1, <2>2, <2>3 DEF TypeOK
  <1>8. \A h \in Handlers : RequestInv(h)
    BY <1>3 DEF RequestInv, Starts
  <1>9. ASSUME NEW id \in Ids PROVE CrawlerInv(id)
    <2>1. \A t \in DOMAIN jobs[id] :
             jobs[id][t].thread = "none" /\ jobs[id][t].state = "interrupted" /\ t = 1
      BY <1>4 DEF NewJob
    <2>2. \A h \in Handlers : ~Asks(h, id)
      BY <1>3 DEF Asks
    <2>3. ThreadsInv(id) /\ CalmInv(id)
      BY <2>1, <2>2 DEF ThreadsInv, CalmInv, Thread, Active
    <2>4. UnknownInv(id)
      BY <1>4, <2>2 DEF UnknownInv, Known
    <2>5. CarriedInv(id)
      BY <1>4 DEF CarriedInv, IsRunning, Registered, NewJob
    <2>6. Agreed(id)
      BY <1>4, <1>6 DEF Agreed, RowOf, Registered, NewJob
    <2>7. KeptInv(id)
      BY <2>1, <2>2, <2>6 DEF KeptInv, Thread, Active
    <2> QED
      BY <2>3, <2>4, <2>5, <2>7 DEF CrawlerInv
  <1> QED
    BY <1>7, <1>8, <1>9 DEF JobInv

LEMMA StepKeeps == JobInv /\ [Next]_vars => JobInv'
  <1> SUFFICES ASSUME JobInv, [Next]_vars PROVE JobInv'
    OBVIOUS
  <1>1. ASSUME NEW h \in Handlers, Request(h) PROVE JobInv'
    <2>1. CASE \E id \in Ids : CreateCrawler(h, id) \/ ResumeCrawler(h, id)
      BY <2>1, CreateCrawlerKeeps, ResumeCrawlerKeeps
    <2>2. CASE \E id \in {id \in Ids : Known(id)} : Erase(h, {id})
      <3>1. PICK id \in Ids : Erase(h, {id})
        BY <2>2
      <3>2. {id} \in SUBSET Ids
        OBVIOUS
      <3> QED
        BY <3>1, <3>2, EraseKeeps
    <2>3. CASE Erase(h, Ids)
      BY <2>3, EraseKeeps
    <2> QED
      BY <1>1, <2>1, <2>2, <2>3 DEF Request
  <1>2. ASSUME NEW h \in Handlers, HandlerStep(h) PROVE JobInv'
    BY <1>2, ReadRowKeeps, RegisterResumedKeeps, UpsertStartedKeeps, UpsertStartedRaisesKeeps,
       StartThreadKeeps, ErasesKeep DEF HandlerStep
  <1>3. ASSUME NEW id \in Ids, NEW reason \in Reasons, RequestStop(id, reason) PROVE JobInv'
    BY <1>3, RequestStopKeeps
  <1>4. ASSUME NEW id \in Ids, NEW g, ThreadStep(id, g) \/ Crawl(id, g) PROVE JobInv'
    BY <1>4, LookUpKeeps, RunEndsKeeps, SetStateKeeps, UpsertFinishedKeeps, CrawlKeeps DEF ThreadStep
  <1>5. CASE Restart
    BY <1>5, RestartKeeps
  <1>6. CASE UNCHANGED vars
    <2>1. UNCHANGED <<jobs, registry, rows, data, req, clock, birth, hasty, broken, restarts>>
      BY <1>6 DEF vars, memory, disk, history
    <2>2. TypeOK' /\ Grows /\ \A h \in Handlers : RequestInv(h)'
      BY <2>1 DEF JobInv, TypeOK, Grows, RequestInv, Starts, Thread
    <2>3. \A c \in Ids : Same(c) /\ SameRequests(c)
      BY <2>1 DEF Same, SameRequests, Asks
    <2>4. {} \in SUBSET Ids /\ \A c \in {} : CrawlerInv(c)'
      OBVIOUS
    <2> QED
      BY <2>2, <2>3, <2>4, Local
  <1> QED
    BY <1>1, <1>2, <1>3, <1>4, <1>5, <1>6 DEF Next

\* The invariant of the crawler jobs, for any number of crawlers and requests.  What
\* it says of rows and data it says of crawlers that are neither hasty nor broken.
THEOREM Invariant == Spec => []JobInv
  BY InitHolds, StepKeeps, PTL DEF Spec

-----------------------------------------------------------------------------
(* What follows.                                                           *)

\* Every variable has its type, and a registered number is that of a job.
THEOREM TypeCorrect == Spec => []TypeOK
  <1>1. JobInv => TypeOK
    BY DEF JobInv
  <1> QED
    BY <1>1, Invariant, PTL

\* A job registered as running is carried by a thread or by the request that will
\* start its thread, however requests overlap, unless a write or an erasure of the
\* crawler has failed.
THEOREM RunningJobsAreCarried == Spec => []RunningIsCarried
  <1>1. JobInv => RunningIsCarried
    BY DEF JobInv, CrawlerInv, CarriedInv, RunningIsCarried
  <1> QED
    BY <1>1, Invariant, PTL

\* While requests about a crawler do not overlap, it has one run at a time.
THEOREM OneRunAtATime == Spec => []OneRun
  <1>1. JobInv => OneRun
    <2> SUFFICES ASSUME JobInv, NEW id \in Ids \ hasty
                 PROVE  Cardinality(
                          {g \in DOMAIN jobs[id] : jobs[id][g].thread \in {"crawling", "deciding"}}) <= 1
      BY DEF OneRun
    <2> DEFINE R == {g \in DOMAIN jobs[id] : jobs[id][g].thread \in {"crawling", "deciding"}}
    <2>1. R \subseteq {registry[id]}
      BY DEF JobInv, CrawlerInv, CalmInv, Active, Thread
    <2>2. R = {} \/ R = {registry[id]}
      BY <2>1
    <2>3. Cardinality({}) = 0 /\ Cardinality({registry[id]}) = 1
      BY FS_EmptySet, FS_Singleton
    <2> HIDE DEF R
    <2>4. Cardinality(R) <= 1
      BY <2>2, <2>3
    <2> QED
      BY <2>4 DEF R
  <1> QED
    BY <1>1, Invariant, PTL

\* Once all is quiet about a crawler, its row and its registered job agree; of one
\* whose requests have overlapped, or a write or an erasure of which has raised or
\* was cut off, nothing is said.
THEOREM QuietTablesAgree == Spec => []QuietAgreement
  <1>1. JobInv => QuietAgreement
    <2> SUFFICES ASSUME JobInv, NEW id \in Ids \ (hasty \cup broken), Quiet(id)
                 PROVE  /\ registry[id] = 0 <=> rows[id] = None
                        /\ registry[id] # 0 => rows[id] = RowOf(Registered(id), Registered(id).created)
      BY DEF QuietAgreement
    <2>1. Agreed(id) /\ TypeOK
      BY DEF JobInv, CrawlerInv, KeptInv
    <2>2. ASSUME registry[id] # 0 PROVE rows[id] # None
      <3>1. registry[id] \in DOMAIN jobs[id]
        BY <2>1, <2>2 DEF TypeOK
      <3>2. Registered(id) \in Job
        BY <2>1, <3>1 DEF TypeOK, Registered
      <3>3. RowOf(Registered(id), Registered(id).created) \in [state : States, created : Nat]
        BY <3>2 DEF RowOf, Job
      <3> QED
        BY <2>1, <2>2, <3>3, NoneAssumption DEF Agreed
    <2> QED
      BY <2>1, <2>2 DEF Agreed
  <1> QED
    BY <1>1, Invariant, PTL

\* What is deleted is gone, row, events, documents and checkpoint, once a deletion
\* has gone through: not if its requests have overlapped, or if a write or an erasure
\* of it has raised or was cut off.
THEOREM DeletedIsGone == Spec => []ErasedIsGone
  <1>1. JobInv => ErasedIsGone
    BY DEF JobInv, CrawlerInv, KeptInv, Agreed, ErasedIsGone
  <1> QED
    BY <1>1, Invariant, PTL

\* A row says "running" only while its job does or its thread is about to write it;
\* crawlers that are hasty or broken are excused.
THEOREM RowsFollowJobs == Spec => []RowsFollow
  <1>1. JobInv => RowsFollow
    <2> SUFFICES ASSUME JobInv, NEW id \in Ids \ (hasty \cup broken), RowRuns(id),
                        \A t \in DOMAIN jobs[id] : Thread(id, t) # "writing"
                 PROVE  IsRunning(id)
      BY DEF RowsFollow, RowRuns, Thread
    <2>1. TypeOK /\ CalmInv(id) /\ KeptInv(id)
      BY DEF JobInv, CrawlerInv
    <2>2. ASSUME Agreed(id) PROVE IsRunning(id)
      <3>1. registry[id] # 0 /\ rows[id] = RowOf(Registered(id), Registered(id).created)
        BY <2>2 DEF Agreed, RowRuns
      <3> QED
        BY <3>1 DEF RowRuns, RowOf, IsRunning
    <2>3. CASE \E t \in DOMAIN jobs[id] : Active(id, t)
      <3>1. PICK t \in DOMAIN jobs[id] : t = registry[id] /\ jobs[id][t].state = "running"
        BY <2>1, <2>3 DEF CalmInv
      <3>2. registry[id] # 0
        BY <2>1, <3>1 DEF TypeOK
      <3> QED
        BY <3>1, <3>2 DEF IsRunning, Registered
    <2>4. CASE \E h \in Handlers : Asks(h, id)
      <3>1. PICK h \in Handlers : Asks(h, id)
        BY <2>4
      <3>2. req[h].step \in {"read", "register", "upsert", "start", "rows", "documents", "checkpoint"}
        BY <2>1, <3>1 DEF Asks, TypeOK, RequestRecord
      <3>3. CASE req[h].step \in {"read", "register"}
        BY <2>1, <2>2, <3>1, <3>3 DEF KeptInv
      <3>4. CASE req[h].step \in {"upsert", "start"}
        BY <2>1, <3>1, <3>4 DEF CalmInv
      <3>5. CASE req[h].step \in {"rows", "documents", "checkpoint"}
        BY <2>1, <3>1, <3>5 DEF KeptInv, RowRuns
      <3> QED
        BY <3>2, <3>3, <3>4, <3>5
    <2>5. CASE /\ \A t \in DOMAIN jobs[id] : ~Active(id, t)
               /\ \A h \in Handlers : ~Asks(h, id)
      <3>1. \A t \in DOMAIN jobs[id] : jobs[id][t] \in Job
        BY <2>1 DEF TypeOK
      <3>2. \A t \in DOMAIN jobs[id] : Thread(id, t) \in {"none", "done"}
        BY <2>5, <3>1 DEF Active, Thread, Job
      <3>3. Quiet(id)
        BY <2>5, <3>2 DEF Quiet, UnderWay, Asks, Thread
      <3> QED
        BY <2>1, <2>2, <3>3 DEF KeptInv
    <2> QED
      BY <2>3, <2>4, <2>5
  <1> QED
    BY <1>1, Invariant, PTL

\* Only the end of the process counts as one.
LEMMA OnlyRestartsCount ==
  ASSUME [Next]_vars, ~Restart
  PROVE  restarts' = restarts
  <1>1. ASSUME NEW h \in Handlers, Request(h) \/ HandlerStep(h) PROVE restarts' = restarts
    BY <1>1 DEF Request, CreateCrawler, ResumeCrawler, Erase, HandlerStep, ReadRow,
       RegisterResumed, UpsertStarted, UpsertStartedRaises, StartThread, EraseRows,
       EraseDocuments, EraseCheckpoint, EraseRaises, history
  <1>2. ASSUME NEW id \in Ids, NEW g, ThreadStep(id, g) \/ Crawl(id, g)
        PROVE  restarts' = restarts
    BY <1>2 DEF ThreadStep, LookUp, Crawl, RunReturns, RunRaises, SetState, UpsertFinished,
       UpsertFinishedRaises, history
  <1>3. ASSUME NEW id \in Ids, NEW reason \in Reasons, RequestStop(id, reason)
        PROVE  restarts' = restarts
    BY <1>3 DEF RequestStop, history
  <1> QED
    BY <1>1, <1>2, <1>3 DEF Next, vars, history

\* README.md:157, product_prd.md:250: a run that is cut off by the end of the
\* process is reported as interrupted, so that it can be resumed.
CutOffIsInterrupted ==
    [][restarts' # restarts =>
          \A id \in Ids \ (hasty \cup broken) :
              (\E g \in DOMAIN jobs[id] : jobs[id][g].thread \in {"started", "crawling", "deciding"}) =>
                  /\ rows'[id] # None /\ rows'[id].state = "interrupted"
                  /\ data[id] \subseteq data'[id]]_vars

\* A run that is cut off by the end of the process is reported as interrupted, unless
\* its crawler is hasty or broken.
THEOREM InterruptedIsReported == Spec => CutOffIsInterrupted
  <1>1. JobInv /\ [Next]_vars =>
           [restarts' # restarts =>
              \A id \in Ids \ (hasty \cup broken) :
                 (\E g \in DOMAIN jobs[id] : jobs[id][g].thread \in {"started", "crawling", "deciding"})
                    =>
                     /\ rows'[id] # None /\ rows'[id].state = "interrupted"
                     /\ data[id] \subseteq data'[id]]_vars
    <2> SUFFICES ASSUME JobInv, [Next]_vars, restarts' # restarts,
                        NEW id \in Ids \ (hasty \cup broken), NEW g \in DOMAIN jobs[id], Active(id, g)
                 PROVE  /\ rows'[id] # None /\ rows'[id].state = "interrupted"
                        /\ data[id] \subseteq data'[id]
      BY DEF Active, Thread
    <2>1. Restart
      BY OnlyRestartsCount
    <2>2. RowRuns(id) /\ TypeOK
      BY DEF JobInv, CrawlerInv, KeptInv
    <2>3. rows[id] \in Row
      BY <2>2 DEF RowRuns, TypeOK
    <2>4. rows'[id] = [state |-> "interrupted", created |-> rows[id].created]
      BY <2>1, <2>2, <2>3 DEF Restart, Loaded, RowRuns, Row
    <2>5. rows'[id] \in [state : States, created : Nat]
      BY <2>3, <2>4 DEF Row, States
    <2>6. data' = data
      BY <2>1 DEF Restart
    <2> QED
      BY <2>4, <2>5, <2>6, NoneAssumption
  <1> QED
    BY <1>1, Invariant, PTL DEF Spec, CutOffIsInterrupted

\* Only the transaction of an erasure removes a row.
LEMMA OnlyErasuresRemove ==
  ASSUME JobInv, [Next]_vars, NEW id \in Ids, rows[id] # None, rows'[id] = None
  PROVE  \E h \in Handlers : EraseRows(h) /\ id \in req[h].ids
  <1>0. TypeOK
    BY DEF JobInv
  <1>1. ASSUME NEW job \in Job, NEW created \in Nat PROVE RowOf(job, created) # None
    <2>1. RowOf(job, created) \in [state : States, created : Nat]
      BY DEF RowOf, Job
    <2> QED
      BY <2>1, NoneAssumption
  <1>2. ASSUME NEW h \in Handlers, Request(h) PROVE rows' = rows
    BY <1>2 DEF Request, CreateCrawler, ResumeCrawler, Erase, disk
  <1>3. ASSUME NEW h \in Handlers, NEW c \in Ids,
               ReadRow(h, c) \/ RegisterResumed(h, c) \/ UpsertStartedRaises(h, c) \/ StartThread(h, c)
        PROVE  rows' = rows
    BY <1>3 DEF ReadRow, RegisterResumed, UpsertStartedRaises, StartThread, disk
  <1>4. ASSUME NEW h \in Handlers, NEW c \in Ids, UpsertStarted(h, c) PROVE rows'[id] # None
    <2>1. req[h].job \in DOMAIN jobs[c] /\ rows \in [Ids -> Row \cup {None}]
      BY <1>0, <1>4 DEF JobInv, RequestInv, Starts, UpsertStarted, TypeOK
    <2>2. PICK job \in Job : job = jobs[c][req[h].job]
      BY <1>0, <2>1 DEF TypeOK
    <2>3. job.created \in Nat /\ (rows[id] # None => rows[id].created \in Nat)
      BY <2>1, <2>2 DEF Job, Row
    <2>4. CASE c = id
      <3>1. rows' = [rows EXCEPT ![id] = RowOf(job, rows[id].created)]
        BY <1>4, <2>2, <2>4 DEF UpsertStarted
      <3> QED
        BY <1>1, <2>1, <2>3, <3>1
    <2>5. CASE c # id
      BY <1>4, <2>1, <2>5 DEF UpsertStarted
    <2> QED
      BY <2>4, <2>5
  <1>5. ASSUME NEW h \in Handlers, EraseDocuments(h) \/ EraseCheckpoint(h) \/ EraseRaises(h)
        PROVE  rows' = rows
    BY <1>5 DEF EraseDocuments, EraseCheckpoint, EraseRaises
  <1>6. ASSUME NEW h \in Handlers, EraseRows(h) PROVE id \in req[h].ids
    BY <1>6 DEF EraseRows
  <1>7. ASSUME NEW c \in Ids, NEW t,
               \/ LookUp(c, t) \/ Crawl(c, t) \/ RunReturns(c, t) \/ RunRaises(c, t)
               \/ SetState(c, t) \/ UpsertFinishedRaises(c, t)
        PROVE  rows' = rows
    BY <1>7 DEF LookUp, Crawl, RunReturns, RunRaises, SetState, UpsertFinishedRaises, disk
  <1>8. ASSUME NEW c \in Ids, NEW t, UpsertFinished(c, t) PROVE rows'[id] # None
    <2>1. /\ t \in DOMAIN jobs[c] /\ Thread(c, t) = "writing"
          /\ rows \in [Ids -> Row \cup {None}]
      BY <1>0, <1>8 DEF UpsertFinished, At, Thread, TypeOK
    <2>2. jobs[c][t].serves \in DOMAIN jobs[c]
      BY <2>1 DEF JobInv, CrawlerInv, ThreadsInv
    <2>3. PICK job \in Job : job = jobs[c][jobs[c][t].serves]
      BY <1>0, <2>2 DEF TypeOK
    <2>4. rows' = [rows EXCEPT ![c] = RowOf(job, job.created)] /\ job.created \in Nat
      BY <1>8, <2>3 DEF UpsertFinished, Job
    <2> QED
      BY <1>1, <2>1, <2>4
  <1>9. ASSUME Restart PROVE rows'[id] # None
    <2>1. rows[id] \in Row /\ rows'[id] = Loaded(rows[id])
      BY <1>0, <1>9 DEF Restart, TypeOK
    <2>2. rows'[id] \in [state : States, created : Nat]
      BY <2>1 DEF Loaded, Row, States
    <2> QED
      BY <2>2, NoneAssumption
  <1>10. ASSUME NEW c \in Ids, NEW reason \in Reasons, RequestStop(c, reason) PROVE rows' = rows
    BY <1>10 DEF RequestStop, disk
  <1> QED
    BY <1>2, <1>3, <1>4, <1>5, <1>6, <1>7, <1>8, <1>9, <1>10
    DEF Next, HandlerStep, ThreadStep, vars, disk

\* product_prd.md:391, 444: deleting and clearing spare a running crawler.
EraseSparesRunning ==
    [][\A id \in Ids \ hasty :
          rows[id] # None /\ rows'[id] = None =>
              \A g \in DOMAIN jobs[id] : jobs[id][g].thread \in {"none", "done"}]_vars

\* Deleting and clearing spare a running crawler, unless it is hasty.
THEOREM RunningIsSpared == Spec => EraseSparesRunning
  <1>1. JobInv /\ [Next]_vars =>
           [\A id \in Ids \ hasty :
              rows[id] # None /\ rows'[id] = None =>
                 \A g \in DOMAIN jobs[id] : jobs[id][g].thread \in {"none", "done"}]_vars
    <2> SUFFICES ASSUME JobInv, [Next]_vars, NEW id \in Ids \ hasty, rows[id] # None, rows'[id] = None,
                        NEW g \in DOMAIN jobs[id]
                 PROVE  jobs[id][g].thread \in {"none", "done"}
      OBVIOUS
    <2>1. PICK h \in Handlers : EraseRows(h) /\ id \in req[h].ids
      BY OnlyErasuresRemove
    <2>2. Asks(h, id)
      BY <2>1 DEF EraseRows, Asks
    <2>3. ~Active(id, g) /\ Thread(id, g) # "writing"
      BY <2>2 DEF JobInv, CrawlerInv, CalmInv
    <2>4. jobs[id][g] \in Job
      BY DEF JobInv, TypeOK
    <2> QED
      BY <2>3, <2>4 DEF Active, Thread, Job
  <1> QED
    BY <1>1, Invariant, PTL DEF Spec, EraseSparesRunning

-----------------------------------------------------------------------------
(* A crawler that is in the list loses nothing, also when an erasure fails. *)

Halfway(h) == req[h].step \in {"documents", "checkpoint"}

\* Once the first step of an erasure is done, the row is gone and stays gone.  For
\* crawlers with a failure KeptInv does not say so.
GoneInv ==
    \A id \in Ids \ hasty : \A h \in Handlers : Asks(h, id) /\ Halfway(h) => rows[id] = None

\* An erasure gets past its first step by EraseRows alone.
LEMMA HalfwayBegins ==
  ASSUME JobInv, [Next]_vars, NEW h \in Handlers, Halfway(h)'
  PROVE  EraseRows(h) \/ (Halfway(h) /\ req'[h].ids = req[h].ids)
  <1>0. TypeOK /\ req \in [Handlers -> RequestRecord]
    BY DEF JobInv, TypeOK
  <1>1. CASE req' = req
    BY <1>1 DEF Halfway
  <1>2. ASSUME NEW k \in Handlers, Request(k)
        PROVE  Halfway(h) /\ req'[h].ids = req[h].ids
    <2>1. ~Halfway(k)' /\ \A j \in Handlers \ {k} : req'[j] = req[j]
      <3>1. ASSUME NEW c \in Ids, CreateCrawler(k, c) \/ ResumeCrawler(k, c)
            PROVE  ~Halfway(k)' /\ \A j \in Handlers \ {k} : req'[j] = req[j]
        BY <1>0, <3>1 DEF CreateCrawler, ResumeCrawler, Register, Halfway
      <3>2. ASSUME NEW ids, Erase(k, ids)
            PROVE  ~Halfway(k)' /\ \A j \in Handlers \ {k} : req'[j] = req[j]
        BY <1>0, <3>2 DEF Erase, Halfway
      <3> QED
        BY <1>2, <3>1, <3>2 DEF Request
    <2> QED
      BY <1>0, <2>1 DEF Halfway
  <1>3. ASSUME NEW k \in Handlers, HandlerStep(k), ~EraseRows(k)
        PROVE  Halfway(h) /\ req'[h].ids = req[h].ids
    <2>1. CASE Finish(k)
      BY <1>0, <2>1, FinishReq DEF Halfway
    <2>2. CASE Goto(k, "register") \/ Goto(k, "start")
      BY <1>0, <2>2, GotoReq DEF Halfway
    <2>3. CASE EraseDocuments(k)
      BY <1>0, <2>3, GotoReq DEF EraseDocuments, Halfway
    <2>4. ASSUME NEW c \in Ids, RegisterResumed(k, c)
          PROVE  Halfway(h) /\ req'[h].ids = req[h].ids
      BY <1>0, <2>4 DEF RegisterResumed, Register, Halfway
    <2> QED
      BY <1>3, <2>1, <2>2, <2>3, <2>4 DEF HandlerStep, ReadRow, UpsertStarted, UpsertStartedRaises,
         StartThread, EraseCheckpoint, EraseRaises
  <1>4. ASSUME NEW k \in Handlers, EraseRows(k)
        PROVE  EraseRows(h) \/ (Halfway(h) /\ req'[h].ids = req[h].ids)
    BY <1>0, <1>4, GotoReq DEF EraseRows, Halfway
  <1>5. ASSUME NEW c \in Ids, NEW t, ThreadStep(c, t) \/ Crawl(c, t) PROVE req' = req
    BY <1>5 DEF ThreadStep, LookUp, Crawl, RunReturns, RunRaises, SetState, UpsertFinished,
       UpsertFinishedRaises
  <1>6. ASSUME NEW c \in Ids, NEW reason \in Reasons, RequestStop(c, reason) PROVE req' = req
    BY <1>6 DEF RequestStop
  <1>7. CASE Restart
    BY <1>7 DEF Restart, Idle, Halfway
  <1>8. CASE UNCHANGED vars
    BY <1>1, <1>8 DEF vars
  <1> QED
    BY <1>1, <1>2, <1>3, <1>4, <1>5, <1>6, <1>7, <1>8 DEF Next

\* Only the first write of a run and the last one bring a row about.
LEMMA OnlyWritesAdd ==
  ASSUME [Next]_vars, TypeOK, NEW id \in Ids, rows[id] = None, rows'[id] # None
  PROVE  \/ \E h \in Handlers : UpsertStarted(h, id)
         \/ \E t : UpsertFinished(id, t)
  <1>0. rows \in [Ids -> Row \cup {None}]
    BY DEF TypeOK
  <1>1. ASSUME NEW h \in Handlers, Request(h) PROVE rows' = rows
    BY <1>1 DEF Request, CreateCrawler, ResumeCrawler, Erase, disk
  <1>2. ASSUME NEW h \in Handlers, HandlerStep(h), \A c \in Ids : ~UpsertStarted(h, c)
        PROVE  rows'[id] = None
    BY <1>0, <1>2 DEF HandlerStep, ReadRow, RegisterResumed, UpsertStartedRaises, StartThread,
       EraseRows, EraseDocuments, EraseCheckpoint, EraseRaises, disk
  <1>3. ASSUME NEW h \in Handlers, NEW c \in Ids, UpsertStarted(h, c) PROVE c = id
    BY <1>0, <1>3 DEF UpsertStarted
  <1>4. ASSUME NEW c \in Ids, NEW t, ThreadStep(c, t) \/ Crawl(c, t), ~UpsertFinished(c, t)
        PROVE  rows' = rows
    BY <1>4 DEF ThreadStep, LookUp, Crawl, RunReturns, RunRaises, SetState, UpsertFinishedRaises, disk
  <1>5. ASSUME NEW c \in Ids, NEW t, UpsertFinished(c, t) PROVE c = id
    BY <1>0, <1>5 DEF UpsertFinished
  <1>6. ASSUME NEW c \in Ids, NEW reason \in Reasons, RequestStop(c, reason) PROVE rows' = rows
    BY <1>6 DEF RequestStop, disk
  <1>7. ASSUME Restart PROVE rows'[id] = None
    BY <1>7 DEF Restart, Loaded
  <1> QED
    BY <1>1, <1>2, <1>3, <1>4, <1>5, <1>6, <1>7 DEF Next, vars, disk

\* Only the steps of an erasure take data away, and one that raises only at the
\* checkpoint files.
LEMMA OnlyErasuresShrink ==
  ASSUME [Next]_vars, TypeOK, NEW id \in Ids, ~(data[id] \subseteq data'[id])
  PROVE  \E h \in Handlers :
            id \in req[h].ids /\ (EraseRows(h) \/ (Halfway(h) /\ rows' = rows))
  <1>0. data \in [Ids -> SUBSET Data]
    BY DEF TypeOK
  <1>1. ASSUME NEW h \in Handlers, Request(h) PROVE data' = data
    BY <1>1 DEF Request, CreateCrawler, ResumeCrawler, Erase, disk
  <1>2. ASSUME NEW h \in Handlers, HandlerStep(h)
        PROVE  id \in req[h].ids /\ (EraseRows(h) \/ (Halfway(h) /\ rows' = rows))
    <2>1. ASSUME NEW c \in Ids,
                 \/ ReadRow(h, c) \/ RegisterResumed(h, c) \/ UpsertStarted(h, c)
                 \/ UpsertStartedRaises(h, c) \/ StartThread(h, c)
          PROVE  data' = data
      BY <2>1 DEF ReadRow, RegisterResumed, UpsertStarted, UpsertStartedRaises, StartThread, disk
    <2>2. CASE EraseRows(h)
      BY <1>0, <2>2 DEF EraseRows, EraseData
    <2>3. CASE EraseDocuments(h) \/ EraseCheckpoint(h)
      BY <1>0, <2>3 DEF EraseDocuments, EraseCheckpoint, EraseData, Halfway
    <2>4. CASE EraseRaises(h)
      <3>1. PICK gone \in SUBSET req[h].ids :
               /\ gone # {} => req[h].step = "checkpoint"
               /\ data' = [c \in Ids |-> IF c \in gone THEN data[c] \ {"checkpoint"} ELSE data[c]]
        BY <2>4 DEF EraseRaises
      <3>2. id \in gone
        BY <1>0, <3>1
      <3> QED
        BY <2>4, <3>1, <3>2 DEF EraseRaises, Halfway
    <2> QED
      BY <1>2, <2>1, <2>2, <2>3, <2>4 DEF HandlerStep
  <1>3. ASSUME NEW c \in Ids, NEW t, ThreadStep(c, t) PROVE data' = data
    BY <1>3 DEF ThreadStep, LookUp, RunReturns, RunRaises, SetState, UpsertFinished,
       UpsertFinishedRaises, disk
  <1>4. ASSUME NEW c \in Ids, NEW t, Crawl(c, t) PROVE data[id] \subseteq data'[id]
    BY <1>0, <1>4 DEF Crawl
  <1>5. ASSUME NEW c \in Ids, NEW reason \in Reasons, RequestStop(c, reason) PROVE data' = data
    BY <1>5 DEF RequestStop, disk
  <1>6. ASSUME Restart PROVE data' = data
    BY <1>6 DEF Restart
  <1> QED
    BY <1>1, <1>2, <1>3, <1>4, <1>5, <1>6 DEF Next, vars, disk

LEMMA HastyGrows ==
  ASSUME [Next]_vars
  PROVE  hasty \subseteq hasty'
  <1>1. ASSUME NEW h \in Handlers, Request(h) PROVE hasty \subseteq hasty'
    BY <1>1 DEF Request, CreateCrawler, ResumeCrawler, Erase, Hasty
  <1>2. ASSUME NEW h \in Handlers, HandlerStep(h) PROVE hasty' = hasty
    BY <1>2 DEF HandlerStep, ReadRow, RegisterResumed, UpsertStarted, UpsertStartedRaises,
       StartThread, EraseRows, EraseDocuments, EraseCheckpoint, EraseRaises, history
  <1>3. ASSUME NEW c \in Ids, NEW t, ThreadStep(c, t) \/ Crawl(c, t) PROVE hasty' = hasty
    BY <1>3 DEF ThreadStep, LookUp, Crawl, RunReturns, RunRaises, SetState, UpsertFinished,
       UpsertFinishedRaises, history
  <1>4. ASSUME NEW c \in Ids, NEW reason \in Reasons, RequestStop(c, reason) PROVE hasty' = hasty
    BY <1>4 DEF RequestStop, history
  <1> QED
    BY <1>1, <1>2, <1>3, <1>4 DEF Next, Restart, vars, history

LEMMA GoneStep ==
  ASSUME JobInv, JobInv', GoneInv, [Next]_vars
  PROVE  GoneInv'
  <1> SUFFICES ASSUME NEW id \in Ids, id \notin hasty', NEW h \in Handlers, Asks(h, id)', Halfway(h)'
               PROVE  rows'[id] = None
    BY DEF GoneInv
  <1>0. TypeOK /\ id \notin hasty
    BY HastyGrows DEF JobInv
  <1>1. CASE EraseRows(h)
    BY <1>0, <1>1, GotoReq DEF EraseRows, Asks
  <1>2. CASE Halfway(h) /\ req'[h].ids = req[h].ids
    <2>1. Asks(h, id)
      BY <1>2 DEF Asks, Halfway
    <2>2. rows[id] = None
      BY <1>0, <1>2, <2>1 DEF GoneInv
    <2>3. CalmInv(id)
      BY DEF JobInv, CrawlerInv
    <2>4. ASSUME NEW k \in Handlers, UpsertStarted(k, id) PROVE FALSE
      <3>1. Asks(k, id) /\ req[k].step = "upsert"
        BY <2>4 DEF UpsertStarted, Asks
      <3>2. k = h
        BY <1>0, <2>1, <2>3, <3>1 DEF CalmInv
      <3> QED
        BY <1>2, <3>1, <3>2 DEF Halfway
    <2>5. ASSUME NEW t, UpsertFinished(id, t) PROVE FALSE
      <3>1. t \in DOMAIN jobs[id] /\ Thread(id, t) = "writing"
        BY <2>5 DEF UpsertFinished, At, Thread
      <3> QED
        BY <1>0, <2>1, <2>3, <3>1 DEF CalmInv
    <2> QED
      BY <1>0, <2>2, <2>4, <2>5, OnlyWritesAdd
  <1> QED
    BY <1>1, <1>2, HalfwayBegins

\* manager.py:119-145: a crawler that stays in the list, or is put into it, loses
\* none of its data, for any crawlers erased at once and whatever raises, is cut
\* off or never comes to its end; only crawlers asked two things at once are excused.
THEOREM ListedKeepsData == Spec => ListedLosesNothing
  <1>1. Init => GoneInv
    BY DEF Init, Idle, GoneInv, Asks
  <1>2. JobInv /\ JobInv' /\ GoneInv /\ [Next]_vars => GoneInv'
    BY GoneStep
  <1>3. JobInv /\ GoneInv /\ [Next]_vars =>
           [\A id \in Ids \ hasty : rows'[id] # None => data[id] \subseteq data'[id]]_vars
    <2> SUFFICES ASSUME JobInv, GoneInv, [Next]_vars, NEW id \in Ids \ hasty, rows'[id] # None,
                        ~(data[id] \subseteq data'[id])
                 PROVE  FALSE
      OBVIOUS
    <2>1. PICK h \in Handlers : id \in req[h].ids /\ (EraseRows(h) \/ (Halfway(h) /\ rows' = rows))
      BY OnlyErasuresShrink DEF JobInv
    <2>2. CASE EraseRows(h)
      BY <2>1, <2>2 DEF EraseRows
    <2>3. CASE Halfway(h) /\ rows' = rows
      BY <2>1, <2>3 DEF GoneInv, Asks, Halfway
    <2> QED
      BY <2>1, <2>2, <2>3
  <1> QED
    BY <1>1, <1>2, <1>3, Invariant, PTL DEF Spec, ListedLosesNothing

-----------------------------------------------------------------------------
(* The crawlers live the lives of CrawlerLives.                            *)

Excused(id) == id \in hasty \cup broken

CreatedBy(h, id) == req[h].step = "upsert" /\ id \in req[h].ids

\* Nothing becomes of a crawler in a step, unless it is excused.
Stays(id) == Life(id)' \in {Life(id), "excused"}

LEMMA VerdictsAreNoOther ==
  /\ "running" \notin Verdicts /\ "interrupted" \notin Verdicts
  /\ "new" \notin States /\ "gone" \notin States /\ "excused" \notin States
  BY ReasonsAssumption DEF Verdicts, States

LEMMA LifeType ==
  ASSUME TypeOK, NEW id \in Ids
  PROVE  Life(id) \in Living!Lives
  <1>1. rows[id] # None => rows[id].state \in States
    BY DEF TypeOK, Row
  <1> QED
    BY <1>1 DEF Life, Living!Lives, Living!Resting, States

\* A step in which each crawler turns to what next says, or is excused.
LEMMA Turning ==
  ASSUME TypeOK', NEW next, \A id \in Ids : Life(id)' \in {next[id], "excused"}
  PROVE  Living!Turn(next)
  <1>1. \A id \in Ids : rows'[id] # None => rows'[id].state \in States
    BY DEF TypeOK, Row
  <1>2. \A id \in Ids : Life(id)' \in Living!Lives
    BY <1>1 DEF Life, Living!Lives, Living!Resting, States
  <1> QED
    BY <1>2 DEF Living!Turn

LEMMA Excusing ==
  ASSUME TypeOK', \A id \in Ids : Stays(id)
  PROVE  Living!Proceed
  <1>1. Living!Turn([id \in Ids |-> Life(id)])
    BY Turning DEF Stays
  <1> QED
    BY <1>1 DEF Living!Excuse, Living!Proceed

\* What a crawler's life is read off.
LEMMA LifeStays ==
  ASSUME Grows, NEW id \in Ids,
         ~Excused(id)' =>
            /\ Busy(id)' <=> Busy(id)
            /\ rows'[id] = rows[id] /\ birth'[id] = birth[id]
            /\ rows[id] = None => (Creating(id)' <=> Creating(id))
  PROVE  Stays(id)
  <1>1. Excused(id) => Excused(id)'
    BY DEF Grows, Excused
  <1> QED
    BY <1>1 DEF Stays, Life, Excused, Known

\* Of a step of request h it is enough to know what h does about the crawler.
LEMMA RequestStays ==
  ASSUME Grows, NEW id \in Ids, NEW h \in Handlers,
         Busy(id)' <=> Busy(id), rows'[id] = rows[id], birth'[id] = birth[id],
         \A k \in Handlers \ {h} : req'[k] = req[k],
         CreatedBy(h, id)' <=> CreatedBy(h, id)
  PROVE  Stays(id)
  <1>1. Creating(id)' <=> Creating(id)
    BY DEF Creating, CreatedBy
  <1> QED
    BY <1>1, LifeStays

\* Requests that do not write rows: reading one, the checks, erasing the rest.
LEMMA QuietRequestLives ==
  ASSUME JobInv, JobInv', NEW h \in Handlers,
         \/ \E id \in Ids : ResumeCrawler(h, id) \/ ReadRow(h, id)
         \/ \E ids \in SUBSET Ids : Erase(h, ids)
         \/ EraseDocuments(h) \/ EraseCheckpoint(h) \/ EraseRaises(h)
  PROVE  Living!Proceed
  <1> DEFINE Reads ==
               /\ UNCHANGED <<jobs, rows, birth>> /\ Grows
               /\ \A k \in Handlers \ {h} : req'[k] = req[k]
               /\ req[h].step # "upsert" /\ req'[h].step # "upsert"
  <1>1. Reads
    <2>1. req \in [Handlers -> RequestRecord] /\ TypeOK
      BY DEF JobInv, TypeOK
    <2>2. ASSUME NEW id \in Ids, ResumeCrawler(h, id) PROVE Reads
      BY <2>1, <2>2 DEF ResumeCrawler, memory, disk, Hasty, Grows
    <2>3. ASSUME NEW id \in Ids, ReadRow(h, id) PROVE Reads
      BY <2>1, <2>3, GotoReq, FinishReq DEF ReadRow, memory, disk, history, Grows
    <2>4. ASSUME NEW ids \in SUBSET Ids, Erase(h, ids) PROVE Reads
      BY <2>1, <2>4 DEF Erase, disk, Hasty, Grows
    <2>5. CASE EraseDocuments(h)
      BY <2>1, <2>5, GotoReq DEF EraseDocuments, memory, history, Grows
    <2>6. CASE EraseCheckpoint(h)
      BY <2>1, <2>6, FinishReq DEF EraseCheckpoint, memory, history, Grows
    <2>7. CASE EraseRaises(h)
      BY <2>1, <2>7, FinishReq DEF EraseRaises, Erasing, memory, Grows
    <2> QED
      BY <2>2, <2>3, <2>4, <2>5, <2>6, <2>7
  <1>2. ASSUME NEW id \in Ids PROVE Stays(id)
    <2>1. Busy(id)' <=> Busy(id)
      BY <1>1 DEF Busy
    <2>2. CreatedBy(h, id)' <=> CreatedBy(h, id)
      BY <1>1 DEF CreatedBy
    <2> QED
      BY <1>1, <2>1, <2>2, RequestStays
  <1> QED
    BY <1>2, Excusing DEF JobInv

LEMMA UpsertStartedRaisesLives ==
  ASSUME JobInv, JobInv', NEW h \in Handlers, NEW id \in Ids, UpsertStartedRaises(h, id)
  PROVE  Living!Proceed
  <1>1. TypeOK /\ RequestInv(h)
    BY DEF JobInv
  <1>2. /\ UNCHANGED <<jobs, rows, birth>> /\ Grows /\ Excused(id)'
        /\ \A k \in Handlers \ {h} : req'[k] = req[k]
        /\ req[h].ids = {id} /\ req'[h].step = "idle"
    BY <1>1, FinishReq DEF UpsertStartedRaises, RequestInv, memory, disk, Grows, Excused
  <1>3. ASSUME NEW c \in Ids \ {id} PROVE Stays(c)
    <2>1. Busy(c)' <=> Busy(c)
      BY <1>2 DEF Busy
    <2>2. CreatedBy(h, c)' <=> CreatedBy(h, c)
      BY <1>2 DEF CreatedBy
    <2> QED
      BY <1>2, <2>1, <2>2, RequestStays
  <1>4. Stays(id)
    BY <1>2 DEF Stays, Life, Excused
  <1> QED
    BY <1>3, <1>4, Excusing DEF JobInv

\* A job is registered: of a new crawler, or of one that has a row.
LEMMA RegisterLives ==
  ASSUME JobInv, JobInv', NEW h \in Handlers, NEW id \in Ids,
         CreateCrawler(h, id) \/ RegisterResumed(h, id)
  PROVE  Living!Proceed
  <1>1. TypeOK /\ RequestInv(h) /\ CrawlerInv(id) /\ Register(h, id)
    BY DEF JobInv, CreateCrawler, RegisterResumed
  <1>2. PICK n \in Nat : Registers(h, id, n)
    BY <1>1, RegisterDoes
  <1>3. /\ rows' = rows /\ Grows
        /\ \A c \in Ids \ {id} : birth'[c] = birth[c]
        /\ req[h].step = "idle" \/ req[h].step = "register"
    BY <1>1 DEF CreateCrawler, RegisterResumed, disk, history, Hasty, Grows, TypeOK
  <1>4. jobs'[id][n].thread = "none"
    BY <1>2 DEF Registers, NewJob
  <1>5. ASSUME NEW c \in Ids PROVE Busy(c)' <=> Busy(c)
    BY <1>2, <1>4 DEF Registers, Busy
  <1>6. ASSUME NEW c \in Ids \ {id} PROVE Stays(c)
    <2>1. CreatedBy(h, c)' <=> CreatedBy(h, c)
      BY <1>2, <1>3 DEF CreatedBy, Registers
    <2>2. \A k \in Handlers \ {h} : req'[k] = req[k]
      BY <1>2 DEF Registers
    <2> QED
      BY <1>3, <1>5, <2>1, <2>2, RequestStays
  <1>7. Stays(id)
    <2>1. CASE CreateCrawler(h, id)
      <3>1. ~Known(id) /\ rows[id] = None /\ jobs[id] = <<>>
        BY <1>1, <2>1 DEF CreateCrawler, CrawlerInv, UnknownInv
      <3>2. ~Busy(id)
        BY <3>1 DEF Busy
      <3>3. Creating(id)'
        BY <1>2 DEF Creating, Registers
      <3>4. Life(id) \in {"new", "excused"}
        BY <3>1, <3>2 DEF Life
      <3>5. Life(id)' \in {"new", "excused"}
        BY <1>3, <1>5, <3>1, <3>2, <3>3 DEF Life
      <3>6. Excused(id) => Life(id)' = "excused"
        BY <1>3 DEF Life, Grows, Excused
      <3>7. ~Excused(id) => Life(id) = "new"
        BY <3>1, <3>2 DEF Life, Excused
      <3> QED
        BY <3>4, <3>5, <3>6, <3>7 DEF Stays
    <2>2. CASE RegisterResumed(h, id)
      <3>1. birth' = birth /\ Asks(h, id) /\ req[h].step = "register"
        BY <2>2 DEF RegisterResumed, history, Asks
      <3>2. ~Excused(id)' => rows[id] # None
        BY <1>1, <1>3, <3>1 DEF CrawlerInv, KeptInv, Excused, Grows
      <3> QED
        BY <1>3, <1>5, <3>1, <3>2, LifeStays
    <2> QED
      BY <2>1, <2>2, <1>1
  <1> QED
    BY <1>6, <1>7, Excusing DEF JobInv

\* The threads of a crawler that a request is carried out about are at rest.
LEMMA AskedRests ==
  ASSUME JobInv, NEW id \in Ids, ~Excused(id), NEW h \in Handlers, Asks(h, id)
  PROVE  ~Busy(id)
  <1>1. \A t \in DOMAIN jobs[id] : ~Active(id, t) /\ Thread(id, t) # "writing"
    BY DEF JobInv, CrawlerInv, CalmInv, Excused
  <1>2. \A t \in DOMAIN jobs[id] : jobs[id][t] \in Job
    BY DEF JobInv, TypeOK
  <1> QED
    BY <1>1, <1>2 DEF Busy, Active, Thread, Job

\* The first write of a run starts it, for whoever sees the list.
LEMMA UpsertStartedLives ==
  ASSUME JobInv, JobInv', NEW h \in Handlers, NEW id \in Ids, UpsertStarted(h, id)
  PROVE  Living!Proceed
  <1>1. TypeOK /\ TypeOK' /\ RequestInv(h) /\ CrawlerInv(id) /\ CrawlerInv(id)'
    BY DEF JobInv
  <1>2. /\ req[h].step = "upsert" /\ req[h].ids = {id} /\ Asks(h, id)
        /\ UNCHANGED <<jobs, registry, birth, hasty, broken>>
    BY <1>1 DEF UpsertStarted, RequestInv, Asks, memory, history
  <1>3. /\ \A k \in Handlers \ {h} : req'[k] = req[k]
        /\ req'[h].step = "start" /\ req'[h].ids = {id}
    BY <1>1, <1>2, GotoReq DEF UpsertStarted
  <1>4. Grows /\ \A c \in Ids : Busy(c)' <=> Busy(c)
    BY <1>2 DEF Grows, Busy
  <1>5. \A c \in Ids \ {id} : rows'[c] = rows[c]
    BY <1>1 DEF UpsertStarted, TypeOK
  <1>6. ASSUME NEW c \in Ids \ {id} PROVE Stays(c)
    <2>1. CreatedBy(h, c)' <=> CreatedBy(h, c)
      BY <1>2, <1>3 DEF CreatedBy
    <2> QED
      BY <1>2, <1>3, <1>4, <1>5, <2>1, RequestStays
  <1>7. CASE Excused(id)
    <2>1. Stays(id)
      BY <1>2, <1>7 DEF Stays, Life, Excused
    <2> QED
      BY <1>1, <1>6, <2>1, Excusing
  <1>8. CASE ~Excused(id)
    <2>1. ~Busy(id) /\ ~Busy(id)'
      BY <1>2, <1>4, <1>8, AskedRests
    <2>2. Asks(h, id)' /\ RowRuns(id)'
      BY <1>1, <1>2, <1>3, <1>8 DEF Asks, CrawlerInv, KeptInv, Excused
    <2>3. Life(id)' = "running"
      BY <1>2, <1>8, <2>1, <2>2 DEF Life, RowRuns, Excused
    <2>4. Creating(id)
      BY <1>2 DEF Creating
    <2>5. Life(id) \in Living!Resting \cup {"new", "running"}
      BY <1>1, <1>8, <2>1, <2>4 DEF Life, Excused, Living!Resting, TypeOK, Row, States
    <2>6. CASE Life(id) = "running"
      <3>1. Stays(id)
        BY <2>3, <2>6 DEF Stays
      <3> QED
        BY <1>1, <1>6, <3>1, Excusing
    <2>7. CASE Life(id) # "running"
      <3> DEFINE next == [[c \in Ids |-> Life(c)] EXCEPT ![id] = "running"]
      <3>1. \A c \in Ids : Life(c)' \in {next[c], "excused"}
        BY <1>6, <2>3 DEF Stays
      <3>2. Living!Turn(next)
        BY <1>1, <3>1, Turning
      <3>3. Living!Start(id)
        BY <2>5, <2>7, <3>2 DEF Living!Start
      <3> QED
        BY <3>3 DEF Living!Proceed
    <2> QED
      BY <2>6, <2>7
  <1> QED
    BY <1>7, <1>8

LEMMA StartThreadLives ==
  ASSUME JobInv, JobInv', NEW h \in Handlers, NEW id \in Ids, StartThread(h, id)
  PROVE  Living!Proceed
  <1>1. TypeOK /\ RequestInv(h) /\ CrawlerInv(id) /\ CrawlerInv(id)'
    BY DEF JobInv
  <1>2. /\ req[h].step = "start" /\ req[h].ids = {id} /\ Asks(h, id)
        /\ req[h].job \in DOMAIN jobs[id]
        /\ UNCHANGED <<rows, birth, hasty, broken>>
    BY <1>1 DEF StartThread, RequestInv, Starts, Asks, disk, history
  <1>3. \A k \in Handlers \ {h} : req'[k] = req[k]
    BY <1>1, FinishReq DEF StartThread
  <1>4. req'[h].step = "idle"
    BY <1>1, FinishReq DEF StartThread
  <1>5. Moves(id, req[h].job, "started", jobs[id][req[h].job].serves, jobs[id][req[h].job].verdict)
    BY <1>1, <1>2, StartThreadMoves
  <1>6. Grows /\ Busy(id)'
    BY <1>2, <1>5 DEF Grows, Busy, Moves, Edits
  <1>7. ASSUME NEW c \in Ids \ {id} PROVE Stays(c)
    <2>1. CreatedBy(h, c)' <=> CreatedBy(h, c)
      BY <1>2, <1>4 DEF CreatedBy
    <2>2. Busy(c)' <=> Busy(c)
      BY <1>5 DEF Busy, Moves, Edits
    <2> QED
      BY <1>2, <1>3, <1>6, <2>1, <2>2, RequestStays
  <1>8. Stays(id)
    <2>1. CASE Excused(id)
      BY <1>2, <2>1 DEF Stays, Life, Excused
    <2>2. CASE ~Excused(id)
      <3>1. ~Busy(id) /\ RowRuns(id)
        BY <1>1, <1>2, <2>2, AskedRests DEF CrawlerInv, KeptInv, Excused
      <3>2. Life(id) = "running"
        BY <2>2, <3>1 DEF Life, RowRuns, Excused
      <3>3. Life(id)' = "running"
        BY <1>2, <1>6, <2>2 DEF Life, Excused
      <3> QED
        BY <3>2, <3>3 DEF Stays
    <2> QED
      BY <2>1, <2>2
  <1> QED
    BY <1>7, <1>8, Excusing DEF JobInv

\* A step of the crawler's threads, or a request to stop, that writes no row.
LEMMA ThreadLives ==
  ASSUME JobInv, JobInv', NEW id \in Ids, Grows,
         UNCHANGED <<rows, req, birth>>, \A c \in Ids \ {id} : jobs'[c] = jobs[c],
         ~Excused(id)' => (Busy(id)' <=> Busy(id))
  PROVE  Living!Proceed
  <1>1. ASSUME NEW c \in Ids PROVE Stays(c)
    <2>1. ~Excused(c)' => (Busy(c)' <=> Busy(c))
      BY DEF Busy
    <2>2. Creating(c)' <=> Creating(c)
      BY DEF Creating
    <2> QED
      BY <2>1, <2>2, LifeStays
  <1> QED
    BY <1>1, Excusing DEF JobInv

LEMMA ThreadStepLives ==
  ASSUME JobInv, JobInv', NEW id \in Ids, NEW g,
         \/ LookUp(id, g) \/ RunReturns(id, g) \/ RunRaises(id, g) \/ SetState(id, g)
         \/ Crawl(id, g) \/ UpsertFinishedRaises(id, g)
         \/ \E reason \in Reasons : RequestStop(id, reason)
  PROVE  Living!Proceed
  <1>1. TypeOK /\ CrawlerInv(id)
    BY DEF JobInv
  <1>2. UNCHANGED <<rows, req, birth>> /\ Grows
    BY DEF LookUp, RunReturns, RunRaises, SetState, Crawl, UpsertFinishedRaises, RequestStop,
       memory, disk, history, Grows
  <1>3. CASE LookUp(id, g)
    <2>1. /\ g \in DOMAIN jobs[id]
          /\ Moves(id, g, IF registry[id] = 0 THEN "done" ELSE "crawling", registry[id],
                   jobs[id][g].verdict)
      BY <1>1, <1>3, LookUpMoves
    <2>2. Thread(id, g) = "started" /\ UNCHANGED <<hasty, broken>>
      BY <1>3 DEF LookUp, At, Thread, history
    <2>3. ~Excused(id)' => registry[id] # 0
      BY <1>1, <2>1, <2>2 DEF Excused, CrawlerInv, CalmInv, Active, TypeOK
    <2>4. ~Excused(id)' => (Busy(id)' <=> Busy(id))
      BY <2>1, <2>2, <2>3 DEF Busy, Moves, Edits, Thread
    <2> QED
      BY <1>2, <2>1, <2>4, ThreadLives DEF Moves, Edits
  <1>4. CASE RunReturns(id, g) \/ RunRaises(id, g)
    <2>1. Thread(id, g) = "crawling" /\ g \in DOMAIN jobs[id]
      BY <1>4 DEF RunReturns, RunRaises, At, Thread
    <2>2. jobs[id][g].serves \in DOMAIN jobs[id]
      BY <1>1, <2>1 DEF CrawlerInv, ThreadsInv
    <2>3. PICK verdict \in Verdicts : Moves(id, g, "deciding", jobs[id][g].serves, verdict)
      BY <1>1, <1>4, <2>2, RunEndsMoves
    <2>4. Busy(id)' <=> Busy(id)
      BY <2>1, <2>3 DEF Busy, Moves, Edits, Thread
    <2> QED
      BY <1>2, <2>3, <2>4, ThreadLives DEF Moves, Edits
  <1>5. CASE SetState(id, g)
    <2>1. Thread(id, g) = "deciding" /\ g \in DOMAIN jobs[id]
      BY <1>5 DEF SetState, At, Thread
    <2>2. jobs[id][g].serves \in DOMAIN jobs[id] /\ jobs[id][g].verdict \in Verdicts
      BY <1>1, <2>1 DEF CrawlerInv, ThreadsInv
    <2>3. Edits(id) /\ jobs'[id][g].thread = "writing"
      BY <1>1, <1>5, <2>2, SetStateMoves
    <2>4. Busy(id)' <=> Busy(id)
      BY <2>1, <2>3 DEF Busy, Edits, Thread
    <2> QED
      BY <1>2, <2>3, <2>4, ThreadLives DEF Edits
  <1>6. CASE Crawl(id, g)
    <2>1. jobs' = jobs
      BY <1>6 DEF Crawl, memory
    <2> QED
      BY <1>2, <2>1, ThreadLives DEF Busy
  <1>7. CASE UpsertFinishedRaises(id, g)
    <2>1. /\ \A c \in Ids \ {id} : jobs'[c] = jobs[c]
          /\ Excused(id)'
      BY <1>1, <1>7, UpsertMoves DEF Moves, Edits, UpsertFinishedRaises, Excused
    <2> QED
      BY <1>2, <2>1, ThreadLives
  <1>8. ASSUME NEW reason \in Reasons, RequestStop(id, reason) PROVE Living!Proceed
    <2>1. /\ registry[id] \in DOMAIN jobs[id]
          /\ Moves(id, registry[id], Registered(id).thread, Registered(id).serves,
                   Registered(id).verdict)
      BY <1>1, <1>8, RequestStopMoves
    <2>2. Busy(id)' <=> Busy(id)
      BY <2>1 DEF Busy, Moves, Edits, Registered
    <2> QED
      BY <1>2, <2>1, <2>2, ThreadLives DEF Moves, Edits
  <1> QED
    BY <1>3, <1>4, <1>5, <1>6, <1>7, <1>8

\* The last write of a thread ends the run, for whoever sees the list.
LEMMA UpsertFinishedLives ==
  ASSUME JobInv, JobInv', NEW id \in Ids, NEW g, UpsertFinished(id, g)
  PROVE  Living!Proceed
  <1> DEFINE job == jobs[id][jobs[id][g].serves]
  <1>1. TypeOK /\ TypeOK' /\ CrawlerInv(id) /\ CrawlerInv(id)'
    BY DEF JobInv
  <1>2. /\ Thread(id, g) = "writing" /\ g \in DOMAIN jobs[id]
        /\ rows' = [rows EXCEPT ![id] = RowOf(job, job.created)]
        /\ UNCHANGED <<registry, req, birth, hasty, broken>> /\ Grows
    BY DEF UpsertFinished, At, Thread, history, Grows
  <1>3. Moves(id, g, "done", 0, jobs[id][g].verdict)
    BY <1>1, UpsertMoves
  <1>4. ASSUME NEW c \in Ids \ {id} PROVE Stays(c)
    <2>1. (Busy(c)' <=> Busy(c)) /\ (Creating(c)' <=> Creating(c)) /\ rows'[c] = rows[c]
      BY <1>1, <1>2, <1>3 DEF Busy, Creating, Moves, Edits, TypeOK
    <2> QED
      BY <1>2, <2>1, LifeStays
  <1>5. CASE Excused(id)
    <2>1. Stays(id)
      BY <1>2, <1>5 DEF Stays, Life, Excused
    <2> QED
      BY <1>1, <1>4, <2>1, Excusing
  <1>6. CASE ~Excused(id)
    <2>1. /\ jobs[id][g].serves = g /\ jobs[id][g].state \in Verdicts
          /\ \A t \in DOMAIN jobs[id] \ {g} : ~Active(id, t) /\ Thread(id, t) # "writing"
      BY <1>1, <1>2, <1>6 DEF CrawlerInv, CalmInv, Excused
    <2>2. \A t \in DOMAIN jobs[id] : jobs[id][t] \in Job
      BY <1>1 DEF TypeOK
    <2>3. ~Busy(id)'
      BY <1>3, <2>1, <2>2 DEF Busy, Moves, Edits, Active, Thread, Job
    <2>4. Busy(id)
      BY <1>2 DEF Busy, Thread
    <2>5. PICK verdict \in Verdicts : rows'[id].state = verdict /\ rows'[id] # None
      <3>1. jobs[id][g].created \in Nat
        BY <1>2, <2>2 DEF Job
      <3>2. rows'[id] = RowOf(jobs[id][g], jobs[id][g].created)
        BY <1>1, <1>2, <2>1 DEF TypeOK
      <3>3. rows'[id] \in [state : States, created : Nat]
        BY <2>1, <3>1, <3>2 DEF RowOf, States
      <3>4. rows'[id].state = jobs[id][g].state
        BY <3>2 DEF RowOf
      <3> QED
        BY <2>1, <3>3, <3>4, NoneAssumption
    <2>6. Life(id) = "running" /\ Life(id)' = verdict
      BY <1>2, <1>6, <2>3, <2>4, <2>5 DEF Life, Excused
    <2> DEFINE next == [[c \in Ids |-> Life(c)] EXCEPT ![id] = verdict]
    <2>7. \A c \in Ids : Life(c)' \in {next[c], "excused"}
      BY <1>4, <2>6 DEF Stays
    <2>8. Living!Turn(next)
      BY <1>1, <2>7, Turning
    <2>9. Living!End(id)
      BY <2>6, <2>8 DEF Living!End
    <2> QED
      BY <2>9 DEF Living!Proceed
  <1> QED
    BY <1>5, <1>6

\* The transaction that removes rows erases crawlers that are at rest.
LEMMA EraseRowsLives ==
  ASSUME JobInv, JobInv', NEW h \in Handlers, EraseRows(h)
  PROVE  Living!Proceed
  <1> DEFINE life == [c \in Ids |-> Life(c)]
             next == [c \in Ids |-> IF c \in req[h].ids /\ life[c] \in Living!Resting
                                    THEN "gone" ELSE life[c]]
  <1>1. TypeOK /\ TypeOK' /\ req[h].ids \in SUBSET Ids
    BY DEF JobInv, TypeOK, RequestRecord
  <1>2. /\ req[h].step = "rows" /\ UNCHANGED <<jobs, birth, hasty, broken>> /\ Grows
        /\ rows' = [c \in Ids |-> IF c \in req[h].ids THEN None ELSE rows[c]]
    BY DEF EraseRows, memory, history, Grows
  <1>3. /\ \A k \in Handlers \ {h} : req'[k] = req[k]
        /\ req'[h].step = "documents"
    BY <1>1, GotoReq DEF EraseRows
  <1>4. ASSUME NEW c \in Ids
        PROVE  (Busy(c)' <=> Busy(c)) /\ (Creating(c)' <=> Creating(c))
    BY <1>2, <1>3 DEF Busy, Creating
  <1>5. ASSUME NEW c \in req[h].ids, ~Excused(c)
        PROVE  /\ Life(c) # "running"
               /\ Life(c)' = next[c]
    <2>1. Asks(h, c) /\ c \in Ids /\ CrawlerInv(c)
      BY <1>1, <1>2 DEF Asks, JobInv
    <2>2. ~Busy(c) /\ ~Busy(c)' /\ ~RowRuns(c)
      BY <1>2, <1>4, <1>5, <2>1, AskedRests DEF CrawlerInv, KeptInv, Excused
    <2>3. ~Creating(c) /\ ~Creating(c)'
      BY <1>2, <1>4, <1>5, <2>1 DEF CrawlerInv, CalmInv, Creating, Asks, Excused
    <2>4. rows'[c] = None
      BY <1>2, <2>1
    <2>5. CASE rows[c] = None
      <3>1. Life(c) \in {"new", "gone"} /\ Life(c)' = Life(c)
        BY <1>2, <1>5, <2>2, <2>3, <2>4, <2>5 DEF Life, Known, Excused
      <3> QED
        BY <2>1, <3>1, VerdictsAreNoOther DEF Living!Resting, States
    <2>6. CASE rows[c] # None
      <3>1. Known(c)
        BY <2>1, <2>6 DEF CrawlerInv, UnknownInv
      <3>2. Life(c)' = "gone"
        BY <1>2, <1>5, <2>2, <2>3, <2>4, <3>1 DEF Life, Known, Excused
      <3>3. rows[c].state \in States
        BY <1>1, <2>1, <2>6 DEF TypeOK, Row
      <3>4. Life(c) = rows[c].state
        BY <1>5, <2>2, <2>6 DEF Life, Excused
      <3>5. Life(c) # "running" /\ Life(c) \in Living!Resting
        BY <2>2, <2>6, <3>3, <3>4 DEF RowRuns, States, Living!Resting
      <3> QED
        BY <2>1, <3>2, <3>5
    <2> QED
      BY <2>5, <2>6
  <1>6. ASSUME NEW c \in Ids PROVE Life(c)' \in {next[c], "excused"}
    <2>1. CASE Excused(c)
      BY <1>2, <2>1 DEF Life, Excused
    <2>2. CASE ~Excused(c) /\ c \in req[h].ids
      BY <1>5, <2>2
    <2>3. CASE c \notin req[h].ids
      <3>1. Stays(c)
        BY <1>2, <1>4, <2>3, LifeStays
      <3> QED
        BY <2>3, <3>1 DEF Stays
    <2> QED
      BY <2>1, <2>2, <2>3
  <1>7. \A c \in req[h].ids : life[c] # "running"
    <2>1. \A c \in req[h].ids : Excused(c) => Life(c) = "excused"
      BY DEF Life, Excused
    <2> QED
      BY <1>1, <1>5, <2>1
  <1>8. Living!Turn(next)
    BY <1>1, <1>6, Turning
  <1>9. Living!Erase(req[h].ids)
    BY <1>7, <1>8 DEF Living!Erase
  <1> QED
    BY <1>1, <1>9 DEF Living!Proceed

\* The end of the process and the next boot interrupt the runs under way.
LEMMA RestartLives ==
  ASSUME JobInv, JobInv', Restart
  PROVE  \E ids \in SUBSET Ids : Living!GoDown(ids)
  <1> DEFINE life == [c \in Ids |-> Life(c)]
             lost == {c \in Ids : Life(c) = "new" /\ Life(c)' = "gone"}
             next == [c \in Ids |-> CASE life[c] = "running" -> "interrupted"
                                      [] c \in lost -> "gone"
                                      [] OTHER -> life[c]]
  <1>1. TypeOK /\ TypeOK'
    BY DEF JobInv
  <1>2. /\ rows' = [c \in Ids |-> Loaded(rows[c])]
        /\ jobs' = [c \in Ids |->
                      IF rows[c] = None THEN <<>>
                      ELSE <<NewJob(Loaded(rows[c]).state, rows[c].created)>>]
        /\ req' = [h \in Handlers |-> Idle]
        /\ hasty' = hasty /\ broken \subseteq broken' /\ birth' = birth
    BY DEF Restart
  <1>3. ASSUME NEW c \in Ids PROVE ~Busy(c)' /\ ~Creating(c)'
    <2>1. ~Creating(c)'
      BY <1>2 DEF Creating, Idle
    <2>2. CASE rows[c] = None
      <3>1. jobs'[c] = <<>>
        BY <1>2, <2>2
      <3> QED
        BY <2>1, <3>1 DEF Busy
    <2>3. CASE rows[c] # None
      <3>1. jobs'[c] = <<NewJob(Loaded(rows[c]).state, rows[c].created)>>
        BY <1>2, <2>3
      <3>2. \A t \in DOMAIN jobs'[c] : jobs'[c][t].thread = "none"
        BY <3>1 DEF NewJob
      <3> QED
        BY <2>1, <3>2 DEF Busy
    <2> QED
      BY <2>2, <2>3
  <1>4. ASSUME NEW c \in Ids, ~Excused(c)' PROVE Life(c)' = next[c]
    <2>1. ~Excused(c) /\ CrawlerInv(c)
      BY <1>2, <1>4 DEF Excused, JobInv
    <2>2. ASSUME Busy(c) PROVE RowRuns(c)
      <3>1. PICK t \in DOMAIN jobs[c] : jobs[c][t].thread \notin {"none", "done"}
        BY <2>2 DEF Busy
      <3>2. jobs[c][t] \in Job
        BY <1>1, <3>1 DEF TypeOK
      <3>3. Active(c, t) \/ Thread(c, t) = "writing"
        BY <3>1, <3>2 DEF Active, Thread, Job
      <3> QED
        BY <2>1, <3>3 DEF CrawlerInv, KeptInv, Excused
    <2>3. CASE rows[c] = None
      <3>1. ~Busy(c) /\ rows'[c] = None
        BY <1>2, <2>2, <2>3 DEF RowRuns, Loaded
      <3>2. Life(c) \in {"new", "gone"} /\ Life(c)' \in {"new", "gone"}
        BY <1>3, <1>4, <2>1, <2>3, <3>1 DEF Life, Excused
      <3>3. Life(c) = "gone" => Life(c)' = "gone"
        BY <1>2, <1>3, <1>4, <2>1, <2>3, <3>1 DEF Life, Excused, Known
      <3> QED
        BY <3>2, <3>3
    <2>4. CASE rows[c] # None
      <3>1. rows[c] \in Row /\ rows[c].state \in States
        BY <1>1, <2>4 DEF TypeOK, Row
      <3>2. /\ rows'[c] # None
            /\ rows'[c].state = IF rows[c].state = "running" THEN "interrupted" ELSE rows[c].state
        <4>1. rows'[c] = [state |-> IF rows[c].state = "running" THEN "interrupted"
                                    ELSE rows[c].state,
                          created |-> rows[c].created]
          BY <1>2, <2>4, <3>1 DEF Loaded, Row
        <4>2. rows'[c] \in [state : States, created : Nat]
          BY <3>1, <4>1 DEF Row, States
        <4> QED
          BY <4>1, <4>2, NoneAssumption
      <3>3. Life(c)' = rows'[c].state
        BY <1>3, <1>4, <3>2 DEF Life, Excused
      <3>4. Life(c) = rows[c].state
        BY <2>1, <2>2, <2>4 DEF Life, RowRuns, Excused
      <3>5. c \notin lost
        BY <3>1, <3>4, VerdictsAreNoOther
      <3> QED
        BY <3>2, <3>3, <3>4, <3>5
    <2> QED
      BY <2>3, <2>4
  <1>5. \A c \in Ids : Life(c)' \in {next[c], "excused"}
    <2>1. \A c \in Ids : Excused(c)' => Life(c)' = "excused"
      BY DEF Life, Excused
    <2> QED
      BY <1>4, <2>1
  <1>6. Living!Turn(next)
    BY <1>1, <1>5, Turning
  <1>7. Living!GoDown(lost)
    BY <1>6 DEF Living!GoDown
  <1>8. lost \in SUBSET Ids
    OBVIOUS
  <1> HIDE DEF lost
  <1> QED
    BY <1>7, <1>8

LEMMA LivesBegin == Init => Living!LivesInit
  <1> SUFFICES ASSUME Init PROVE Living!LivesInit
    OBVIOUS
  <1>1. PICK stored \in SUBSET Ids : Boots(stored)
    BY DEF Init
  <1>2. hasty = {} /\ broken = {} /\ restarts = 0
    BY DEF Init
  <1>3. ASSUME NEW id \in Ids PROVE Life(id) \in {"new", "interrupted"}
    <2>1. CASE id \in stored
      <3>1. /\ rows[id] = [state |-> "interrupted", created |-> 1]
            /\ jobs[id] = <<NewJob("interrupted", 1)>>
        BY <1>1, <2>1 DEF Boots
      <3>2. ~Busy(id)
        BY <3>1 DEF Busy, NewJob
      <3>3. rows[id] # None /\ rows[id].state = "interrupted"
        <4>1. rows[id] \in [state : States, created : Nat]
          BY <3>1 DEF States
        <4> QED
          BY <3>1, <4>1, NoneAssumption
      <3> QED
        BY <1>2, <3>2, <3>3 DEF Life
    <2>2. CASE id \notin stored
      <3>1. rows[id] = None /\ jobs[id] = <<>> /\ ~Known(id)
        BY <1>1, <2>2 DEF Boots, Known
      <3> QED
        BY <1>2, <3>1 DEF Life, Busy
    <2> QED
      BY <2>1, <2>2
  <1> QED
    BY <1>2, <1>3 DEF Living!LivesInit

LEMMA StepLives ==
  ASSUME JobInv, JobInv', [Next]_vars
  PROVE  [Living!LivesNext]_(Living!livesVars)
  <1>1. ASSUME NEW h \in Handlers, Request(h) PROVE Living!Proceed
    <2>1. ASSUME NEW ids \in SUBSET Ids, Erase(h, ids) PROVE Living!Proceed
      BY <2>1, QuietRequestLives
    <2>2. CASE \E id \in Ids : CreateCrawler(h, id) \/ ResumeCrawler(h, id)
      BY <2>2, RegisterLives, QuietRequestLives
    <2> QED
      BY <1>1, <2>1, <2>2 DEF Request
  <1>2. ASSUME NEW h \in Handlers, HandlerStep(h) PROVE Living!Proceed
    BY <1>2, QuietRequestLives, RegisterLives, UpsertStartedLives, UpsertStartedRaisesLives,
       StartThreadLives, EraseRowsLives DEF HandlerStep
  <1>3. ASSUME NEW id \in Ids, NEW g, ThreadStep(id, g) \/ Crawl(id, g) PROVE Living!Proceed
    BY <1>3, ThreadStepLives, UpsertFinishedLives DEF ThreadStep
  <1>4. ASSUME NEW id \in Ids, NEW reason \in Reasons, RequestStop(id, reason)
        PROVE  Living!Proceed
    BY <1>4, ThreadStepLives
  <1>5. CASE Restart
    BY <1>5, RestartLives DEF Restart, Living!LivesNext
  <1>6. CASE UNCHANGED vars
    <2>1. \A id \in Ids : Life(id)' = Life(id)
      BY <1>6 DEF vars, memory, disk, history, Life, Busy, Creating, Known
    <2>2. restarts' = restarts
      BY <1>6 DEF vars, history
    <2> QED
      BY <2>1, <2>2 DEF Living!livesVars
  <1>7. CASE Living!Proceed /\ ~Restart
    BY <1>7, OnlyRestartsCount DEF Living!LivesNext
  <1> QED
    BY <1>1, <1>2, <1>3, <1>4, <1>5, <1>6, <1>7 DEF Next

\* The manager implements CrawlerLives: beside whatever requests, threads, failures
\* and ends of the process, a crawler that is asked one thing at a time starts, runs,
\* ends, rests and goes as its list tells, up to its first failed write or erasure.
THEOREM ManagerImplementsLives == Spec => CrawlersLive
  <1>1. JobInv /\ JobInv' /\ [Next]_vars => [Living!LivesNext]_(Living!livesVars)
    BY StepLives
  <1> QED
    BY <1>1, LivesBegin, Invariant, PTL DEF Spec, CrawlersLive, Living!LivesSpec
=============================================================================
