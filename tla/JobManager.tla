------------------------------ MODULE JobManager ------------------------------
(***************************************************************************)
(* CrawlerManager (web/manager.py): the crawler jobs of the web server.    *)
(*                                                                         *)
(* ThreadingHTTPServer answers every request on a thread of its own, and   *)
(* every run of a crawler has a thread too.  They share _jobs, guarded by  *)
(* _lock, the CrawlerJob objects, which no lock guards, and the rows and   *)
(* events of crawler_meta.sqlite3, the documents and the checkpoint files, *)
(* each written in a transaction of its own.  A step of the model is what  *)
(* happens under one lock, in one transaction or in one assignment.        *)
(*                                                                         *)
(* What a run does is CrawlEngine's subject; here index() is a time during *)
(* which data of the crawler appears on disk, ended by a return or by an   *)
(* exception.                                                              *)
(*                                                                         *)
(* Definitions whose names begin with Bug are the mistakes somebody could  *)
(* have made in the definition that follows them; no action uses them.     *)
(***************************************************************************)
EXTENDS Integers, Sequences, FiniteSets

CONSTANTS
    Ids,            \* crawler ids: uuid4, so a new crawler has a new one
    Handlers,       \* threads that answer requests
    Reasons,        \* why runs are stopped
    Faults,         \* what may go wrong: see FaultKinds
    MaxStarts,      \* bound: calls of _start_job
    MaxRestarts,    \* bound: deaths of the process
    None            \* Python's None, no row

\* "row": writing a row raises (sqlite "database is locked" after 5 seconds).
\* "erase": a step of an erasure raises, a transaction or the removal of a file.
FaultKinds == {"row", "erase"}

Verdicts == Reasons \cup {"completed", "failed"}
States   == Verdicts \cup {"running", "interrupted"}
\* "documents": those at URLs that no other crawler visits.  Crawlers share the
\* documents of the other URLs and lose them to each other, as IndexStore shows.
Data     == {"events", "documents", "checkpoint"}

ASSUME ReasonsAssumption == Reasons \subseteq {"paused", "stopped"}
ASSUME FaultsAssumption == Faults \subseteq FaultKinds
ASSUME BoundsAssumption == MaxStarts \in Nat /\ MaxRestarts \in Nat
ASSUME NoneAssumption   == None \notin States /\ None \notin [state : States, created : Nat]

VARIABLES
    jobs,           \* jobs[id]: the CrawlerJob objects made for id, in order
    registry,       \* _jobs: which of them is registered, 0 for none
    rows,           \* table crawler_jobs
    data,           \* data[id]: what else the disk holds of a crawler
    req,            \* req[h]: the request a handler thread is busy with
    clock,          \* the time, counted in calls of _start_job
    birth,          \* history: when a crawler was created, 0 for never
    hasty,          \* history: ids whose requests overlapped, see Hasty
    broken,         \* history: ids with a raising write of their row, or whose
                    \* erasure raised or was cut off by the end of the process
    restarts        \* history: number of deaths of the process

memory  == <<jobs, registry>>
disk    == <<rows, data>>
history == <<birth, hasty, broken, restarts>>
vars    == <<memory, disk, req, clock, history>>

\* A CrawlerJob and its thread.  The thread was made for this object but works
\* for the one it finds registered: serves.  verdict is the state it is about
\* to assign.  An object loaded from the table has no thread and no App.
Job ==
    [state : States, created : Nat, reason : Reasons \cup {None},
     thread : {"none", "started", "crawling", "deciding", "writing", "done"},
     serves : Nat, verdict : Verdicts \cup {None}]

NewJob(state, created) ==
    [state |-> state, created |-> created, reason |-> None, thread |-> "none",
     serves |-> 0, verdict |-> None]

Idle == [step |-> "idle", ids |-> {}, job |-> 0]

Registered(id) == jobs[id][registry[id]]
IsRunning(id)  == registry[id] # 0 /\ Registered(id).state = "running"

-----------------------------------------------------------------------------
(* Whose requests overlap.  Requests about different crawlers, and one     *)
(* after the other about the same, are the normal case.  A crawler becomes *)
(* hasty when a request about it gets past its check while another one is  *)
(* being carried out, or between SetState and UpsertFinished of a thread.  *)

UnderWay(id) ==
    \/ \E h \in Handlers : req[h].step # "idle" /\ id \in req[h].ids
    \/ \E g \in DOMAIN jobs[id] : jobs[id][g].thread = "writing"

Hasty(ids) == hasty' = hasty \cup {id \in ids : UnderWay(id)}

\* Nothing is going on about the crawler.
Quiet(id) ==
    /\ ~UnderWay(id)
    /\ \A g \in DOMAIN jobs[id] : jobs[id][g].thread \in {"none", "done"}

-----------------------------------------------------------------------------
\* A server that has just booted on the data of an earlier one, with a row for
\* every crawler of stored.
Boots(stored) ==
    /\ rows = [id \in Ids |->
                  IF id \in stored THEN [state |-> "interrupted", created |-> 1] ELSE None]
    /\ jobs = [id \in Ids |->
                  IF id \in stored THEN <<NewJob("interrupted", 1)>> ELSE <<>>]
    /\ registry = [id \in Ids |-> IF id \in stored THEN 1 ELSE 0]
    /\ data = [id \in Ids |-> IF id \in stored THEN Data ELSE {}]
    /\ birth = [id \in Ids |-> IF id \in stored THEN 1 ELSE 0]

Init ==
    /\ \E stored \in SUBSET Ids : Boots(stored)
    /\ req = [h \in Handlers |-> Idle]
    /\ clock = 1
    /\ hasty = {} /\ broken = {}
    /\ restarts = 0

\* Nobody asks for a crawler by an id that was never given out.
Known(id) == birth[id] # 0

Goto(h, step) == req' = [req EXCEPT ![h].step = step]
Finish(h)     == req' = [req EXCEPT ![h] = Idle]

(* _start_job, of create_crawler and of resume_crawler.                    *)

\* A new CrawlerJob is registered, in the place of the one before.
Register(h, id) ==
    /\ clock <= MaxStarts
    /\ clock' = clock + 1
    /\ jobs' = [jobs EXCEPT ![id] = Append(@, NewJob("running", clock'))]
    /\ registry' = [registry EXCEPT ![id] = Len(jobs'[id])]
    /\ req' = [req EXCEPT ![h] = [step |-> "upsert", ids |-> {id}, job |-> Len(jobs'[id])]]

CreateCrawler(h, id) ==
    /\ req[h].step = "idle" /\ ~Known(id)
    /\ Register(h, id)
    /\ birth' = [birth EXCEPT ![id] = clock']
    /\ Hasty({id})
    /\ UNCHANGED <<disk, broken, restarts>>

BugResumeUnchecked(h, id) ==
    /\ req[h].step = "idle" /\ Known(id)
    /\ req' = [req EXCEPT ![h] = [step |-> "read", ids |-> {id}, job |-> 0]]
    /\ Hasty({id})
    /\ UNCHANGED <<memory, disk, clock, birth, broken, restarts>>

\* Under the lock: not while the registered job is running.
ResumeCrawler(h, id) ==
    /\ req[h].step = "idle" /\ Known(id)
    /\ ~IsRunning(id)
    /\ req' = [req EXCEPT ![h] = [step |-> "read", ids |-> {id}, job |-> 0]]
    /\ Hasty({id})
    /\ UNCHANGED <<memory, disk, clock, birth, broken, restarts>>

\* The configuration comes from the row; without a row nothing is resumed.
ReadRow(h, id) ==
    /\ req[h].step = "read" /\ id \in req[h].ids
    /\ IF rows[id] = None THEN Finish(h) ELSE Goto(h, "register")
    /\ UNCHANGED <<memory, disk, clock, history>>

RegisterResumed(h, id) ==
    /\ req[h].step = "register" /\ id \in req[h].ids
    /\ Register(h, id)
    /\ UNCHANGED <<disk, history>>

\* INSERT or, on conflict, UPDATE: the row gets the state the object has now.
RowOf(job, created) == [state |-> job.state, created |-> created]

BugUpsertOnlyNew(h, id) ==
    /\ req[h].step = "upsert" /\ id \in req[h].ids
    /\ rows' = IF rows[id] = None
               THEN [rows EXCEPT ![id] = RowOf(jobs[id][req[h].job], jobs[id][req[h].job].created)]
               ELSE rows
    /\ Goto(h, "start")
    /\ UNCHANGED <<memory, data, clock, history>>

\* With keep_created_if_exists.
UpsertStarted(h, id) ==
    /\ req[h].step = "upsert" /\ id \in req[h].ids
    /\ LET job == jobs[id][req[h].job] IN
       rows' = [rows EXCEPT ![id] =
                   RowOf(job, IF @ # None THEN @.created ELSE job.created)]
    /\ Goto(h, "start")
    /\ UNCHANGED <<memory, data, clock, history>>

\* The exception ends the request: the thread is never started.
UpsertStartedRaises(h, id) ==
    /\ req[h].step = "upsert" /\ id \in req[h].ids
    /\ "row" \in Faults
    /\ Finish(h)
    /\ broken' = broken \cup {id}
    /\ UNCHANGED <<memory, disk, clock, birth, hasty, restarts>>

StartThread(h, id) ==
    /\ req[h].step = "start" /\ id \in req[h].ids
    /\ jobs' = [jobs EXCEPT ![id][req[h].job].thread = "started"]
    /\ Finish(h)
    /\ UNCHANGED <<registry, disk, clock, history>>

-----------------------------------------------------------------------------
(* pause_crawler, stop_crawler, delete_crawler, clear_all_data.            *)

\* Under the lock; the App is there, because a job is running only in the
\* process that made it.
RequestStop(id, reason) ==
    /\ IsRunning(id)
    /\ jobs' = [jobs EXCEPT ![id][registry[id]].reason = reason]
    /\ UNCHANGED <<registry, disk, req, clock, history>>

BugEraseKeepsJob(h, ids) ==
    /\ req[h].step = "idle"
    /\ \A id \in ids : ~IsRunning(id)
    /\ req' = [req EXCEPT ![h] = [step |-> "rows", ids |-> ids, job |-> 0]]
    /\ Hasty(ids)
    /\ UNCHANGED <<memory, disk, clock, birth, broken, restarts>>

\* Under the lock: none of the crawlers is running, and all are forgotten.
\* delete_crawler erases one crawler, clear_all_data all there are or will be
\* by the time of a step.
Erase(h, ids) ==
    /\ req[h].step = "idle"
    /\ \A id \in ids : ~IsRunning(id)
    /\ registry' = [id \in Ids |-> IF id \in ids THEN 0 ELSE registry[id]]
    /\ req' = [req EXCEPT ![h] = [step |-> "rows", ids |-> ids, job |-> 0]]
    /\ Hasty(ids)
    /\ UNCHANGED <<jobs, disk, clock, birth, broken, restarts>>

\* Three more steps: rows and events in one transaction, then the documents,
\* then the checkpoint files.
EraseData(h, kind) ==
    data' = [id \in Ids |-> IF id \in req[h].ids THEN data[id] \ {kind} ELSE data[id]]

BugEraseEventsFirst(h) ==
    /\ req[h].step = "rows"
    /\ EraseData(h, "events")
    /\ IF \E id \in req[h].ids : "events" \in data[id] THEN UNCHANGED <<rows, req>>
       ELSE /\ rows' = [id \in Ids |-> IF id \in req[h].ids THEN None ELSE rows[id]]
            /\ Goto(h, "documents")
    /\ UNCHANGED <<memory, clock, history>>

EraseRows(h) ==
    /\ req[h].step = "rows"
    /\ rows' = [id \in Ids |-> IF id \in req[h].ids THEN None ELSE rows[id]]
    /\ EraseData(h, "events")
    /\ Goto(h, "documents")
    /\ UNCHANGED <<memory, clock, history>>

EraseDocuments(h) ==
    /\ req[h].step = "documents"
    /\ EraseData(h, "documents")
    /\ Goto(h, "checkpoint")
    /\ UNCHANGED <<memory, rows, clock, history>>

BugEraseNoCheckpoint(h) ==
    /\ req[h].step = "checkpoint"
    /\ Finish(h)
    /\ UNCHANGED <<memory, disk, clock, history>>

EraseCheckpoint(h) ==
    /\ req[h].step = "checkpoint"
    /\ EraseData(h, "checkpoint")
    /\ Finish(h)
    /\ UNCHANGED <<memory, rows, clock, history>>

Erasing(h) == req[h].step \in {"rows", "documents", "checkpoint"}

\* The exception ends the request: what this step and the later ones would have
\* erased stays, and the jobs stay forgotten.  A transaction leaves nothing half
\* done, the loop over the checkpoint files some of them.
EraseRaises(h) ==
    /\ Erasing(h)
    /\ "erase" \in Faults
    /\ \E gone \in SUBSET req[h].ids :
          /\ gone # {} => req[h].step = "checkpoint"
          /\ data' = [id \in Ids |-> IF id \in gone THEN data[id] \ {"checkpoint"} ELSE data[id]]
    /\ Finish(h)
    /\ broken' = broken \cup {id \in req[h].ids : Known(id)}
    /\ UNCHANGED <<memory, rows, clock, birth, hasty, restarts>>

-----------------------------------------------------------------------------
(* _run_job: thread g of crawler id.                                       *)

At(id, g, step) == g \in DOMAIN jobs[id] /\ jobs[id][g].thread = step

\* Under the lock: the job is the one registered now.  With none registered
\* the KeyError ends the thread, outside the try block.
LookUp(id, g) ==
    /\ At(id, g, "started")
    /\ jobs' = [jobs EXCEPT ![id][g].serves = registry[id],
                            ![id][g].thread = IF registry[id] = 0 THEN "done" ELSE "crawling"]
    /\ UNCHANGED <<registry, disk, req, clock, history>>

\* A page of the crawl: events, a document, sooner or later a checkpoint.
Crawl(id, g) ==
    /\ At(id, g, "crawling")
    /\ data' = [data EXCEPT ![id] = Data]
    /\ UNCHANGED <<memory, rows, req, clock, history>>

BugRunReturnsReason(id, g) ==
    /\ At(id, g, "crawling")
    /\ jobs' = [jobs EXCEPT ![id][g].verdict = jobs[id][jobs[id][g].serves].reason,
                            ![id][g].thread = "deciding"]
    /\ UNCHANGED <<registry, disk, req, clock, history>>

\* index() has returned; the thread looks whether a stop was requested.
RunReturns(id, g) ==
    /\ At(id, g, "crawling")
    /\ LET reason == jobs[id][jobs[id][g].serves].reason IN
       jobs' = [jobs EXCEPT ![id][g].verdict = IF reason = None THEN "completed" ELSE reason,
                            ![id][g].thread = "deciding"]
    /\ UNCHANGED <<registry, disk, req, clock, history>>

BugRunRaisesKeepsState(id, g) ==
    /\ At(id, g, "crawling")
    /\ jobs' = [jobs EXCEPT ![id][g].verdict = "running", ![id][g].thread = "deciding"]
    /\ UNCHANGED <<registry, disk, req, clock, history>>

RunRaises(id, g) ==
    /\ At(id, g, "crawling")
    /\ jobs' = [jobs EXCEPT ![id][g].verdict = "failed", ![id][g].thread = "deciding"]
    /\ UNCHANGED <<registry, disk, req, clock, history>>

\* Without the lock: from here on the crawler may be resumed or deleted.
SetState(id, g) ==
    /\ At(id, g, "deciding")
    /\ jobs' = [jobs EXCEPT ![id][jobs[id][g].serves].state = jobs[id][g].verdict,
                            ![id][g].verdict = None,
                            ![id][g].thread = "writing"]
    /\ UNCHANGED <<registry, disk, req, clock, history>>

BugUpsertUnlessFailed(id, g) ==
    /\ At(id, g, "writing")
    /\ LET job == jobs[id][jobs[id][g].serves] IN
       rows' = IF job.state = "failed" THEN rows
               ELSE [rows EXCEPT ![id] = RowOf(job, job.created)]
    /\ jobs' = [jobs EXCEPT ![id][g].thread = "done", ![id][g].serves = 0]
    /\ UNCHANGED <<registry, data, req, clock, history>>

\* The finally block: the row, also if there is none any more.
UpsertFinished(id, g) ==
    /\ At(id, g, "writing")
    /\ LET job == jobs[id][jobs[id][g].serves] IN
       rows' = [rows EXCEPT ![id] = RowOf(job, job.created)]
    /\ jobs' = [jobs EXCEPT ![id][g].thread = "done", ![id][g].serves = 0]
    /\ UNCHANGED <<registry, data, req, clock, history>>

UpsertFinishedRaises(id, g) ==
    /\ At(id, g, "writing")
    /\ "row" \in Faults
    /\ jobs' = [jobs EXCEPT ![id][g].thread = "done", ![id][g].serves = 0]
    /\ broken' = broken \cup {id}
    /\ UNCHANGED <<registry, disk, req, clock, birth, hasty, restarts>>

-----------------------------------------------------------------------------
(* The process dies, with its daemon threads, and a new one boots:         *)
(* _load_jobs_from_db makes an object of every row and has no running ones.*)
(* Nobody is served before it has finished.                                *)

Loaded(row) ==
    IF row # None /\ row.state = "running" THEN [row EXCEPT !.state = "interrupted"] ELSE row

Restart ==
    /\ restarts < MaxRestarts
    /\ restarts' = restarts + 1
    /\ rows' = [id \in Ids |-> Loaded(rows[id])]
    /\ jobs' = [id \in Ids |->
                  IF rows[id] = None THEN <<>>
                  ELSE <<NewJob(Loaded(rows[id]).state, rows[id].created)>>]
    /\ registry' = [id \in Ids |-> Len(jobs'[id])]
    /\ req' = [h \in Handlers |-> Idle]
    /\ broken' = broken \cup {id \in Ids : \E h \in Handlers : Erasing(h) /\ id \in req[h].ids}
    /\ UNCHANGED <<data, clock, birth, hasty>>

-----------------------------------------------------------------------------
HandlerStep(h) ==
    \/ \E id \in Ids :
          \/ ReadRow(h, id) \/ RegisterResumed(h, id)
          \/ UpsertStarted(h, id) \/ UpsertStartedRaises(h, id) \/ StartThread(h, id)
    \/ EraseRows(h) \/ EraseDocuments(h) \/ EraseCheckpoint(h) \/ EraseRaises(h)

Request(h) ==
    \/ \E id \in Ids : CreateCrawler(h, id) \/ ResumeCrawler(h, id)
    \/ \E id \in {id \in Ids : Known(id)} : Erase(h, {id})
    \/ Erase(h, Ids)

\* What a thread does to come to its end; while it crawls, it may also Crawl.
ThreadStep(id, g) ==
    \/ LookUp(id, g)
    \/ RunReturns(id, g) \/ RunRaises(id, g)
    \/ SetState(id, g)
    \/ UpsertFinished(id, g) \/ UpsertFinishedRaises(id, g)

Next ==
    \/ \E h \in Handlers : Request(h) \/ HandlerStep(h)
    \/ \E id \in Ids, reason \in Reasons : RequestStop(id, reason)
    \/ \E id \in Ids, g \in 1 .. MaxStarts + 1 :
          ThreadStep(id, g) \/ Crawl(id, g)
    \/ Restart

Spec == Init /\ [][Next]_vars

\* A request that is being answered is answered, and a thread goes on; that
\* index() comes to its end is what CrawlEngine shows (RunEnds).  Nobody has
\* to ask for anything, and no process has to die.
FairSpec ==
    /\ Spec
    /\ \A h \in Handlers : WF_vars(HandlerStep(h))
    /\ \A id \in Ids, g \in 1 .. MaxStarts + 1 : WF_vars(ThreadStep(id, g))

-----------------------------------------------------------------------------
(* Properties.                                                             *)

Row == [state : States, created : Nat]
RequestRecord ==
    [step : {"idle", "read", "register", "upsert", "start", "rows", "documents", "checkpoint"},
     ids : SUBSET Ids, job : Nat]

\* Every variable has its type; every number of a job is that of an object.
TypeOK ==
    /\ jobs \in [Ids -> Seq(Job)]
    /\ registry \in [Ids -> Nat] /\ \A id \in Ids : registry[id] <= Len(jobs[id])
    /\ rows \in [Ids -> Row \cup {None}]
    /\ data \in [Ids -> SUBSET Data]
    /\ req \in [Handlers -> RequestRecord]
    /\ clock \in Nat
    /\ birth \in [Ids -> Nat] /\ hasty \subseteq Ids /\ broken \subseteq Ids
    /\ restarts \in Nat

\* Somebody is about to end what job g of id stands for: the handler that will
\* start its thread, or a thread that works for it or will find it registered.
Starting(id, g) ==
    \E h \in Handlers : req[h].step \in {"upsert", "start"} /\ req[h].ids = {id} /\ req[h].job = g

Carried(id, g) ==
    \/ Starting(id, g)
    \/ \E t \in DOMAIN jobs[id] :
          \/ jobs[id][t].thread = "started" /\ t = g
          \/ jobs[id][t].thread \in {"crawling", "deciding"} /\ jobs[id][t].serves = g

\* A job that is registered as running is being run or about to be: otherwise it
\* could be neither resumed nor deleted, and nothing could be cleared, until the
\* server is restarted.  However requests overlap, that does not come about unless
\* a write or an erasure of the crawler has failed: a raising first write of its
\* row (manager.py:436) does bring it about.
RunningIsCarried ==
    \A id \in Ids : IsRunning(id) => Carried(id, registry[id]) \/ id \in broken

\* In a crawler's normal life its row says "running" only while its job does or
\* its thread is about to write the row: the list shows no ghosts.
RowsFollow ==
    \A id \in Ids \ (hasty \cup broken) :
        rows[id] # None /\ rows[id].state = "running" =>
            \/ IsRunning(id)
            \/ \E g \in DOMAIN jobs[id] : jobs[id][g].thread = "writing"

\* A crawler has one run at a time, or two runs would share its checkpoint.
OneRun ==
    \A id \in Ids \ hasty :
        Cardinality({g \in DOMAIN jobs[id] : jobs[id][g].thread \in {"crawling", "deciding"}}) <= 1

\* Once all is quiet about a crawler, the list, which shows the rows in the order
\* of their creation, and the registered jobs, which the checks of the next request
\* go by, agree; also when the first write of a run has kept an older time.  Not so
\* if a write or an erasure has failed: a deletion that raises before its first
\* commit leaves a row whose job is forgotten.
QuietAgreement ==
    \A id \in Ids \ (hasty \cup broken) :
        Quiet(id) =>
            /\ registry[id] = 0 <=> rows[id] = None
            /\ registry[id] # 0 => rows[id] = RowOf(Registered(id), Registered(id).created)

\* product_prd.md:382-387: what is deleted is gone, row, events, documents and
\* checkpoint, and nothing of it comes back; unless a write or an erasure of the
\* crawler has failed, for nothing repeats the later steps of a deletion.
ErasedIsGone ==
    \A id \in Ids \ (hasty \cup broken) :
        Quiet(id) /\ registry[id] = 0 => rows[id] = None /\ data[id] = {}

\* A crawler that is in the list loses nothing: whatever step of an erasure raises
\* or is cut off, the row goes first, with the events, so what is left over is in
\* no list, and nobody resumes a crawler whose checkpoint or own documents (see Data)
\* are missing.
\* That a running crawler is spared (product_prd.md:391, 444) is part of it: its
\* thread will write the row.
ListedLosesNothing ==
    [][\A id \in Ids \ hasty : rows'[id] # None => data[id] \subseteq data'[id]]_vars

\* However requests overlap, also if a job has been replaced by another one, what
\* is running comes to its end; excused are crawlers with a failed write.
EveryRunSettles ==
    \A id \in Ids : IsRunning(id) /\ id \notin broken ~> ~IsRunning(id) \/ id \in broken

-----------------------------------------------------------------------------
(* What all of this amounts to for those who see the list of the crawlers. *)

\* A thread of the crawler has something left to do.
Busy(id) == \E g \in DOMAIN jobs[id] : jobs[id][g].thread \notin {"none", "done"}

\* Its job is registered and is about to get its first row.
Creating(id) == \E h \in Handlers : req[h].step = "upsert" /\ id \in req[h].ids

Life(id) ==
    IF id \in hasty \cup broken THEN "excused"
    ELSE IF Busy(id) THEN "running"
    ELSE IF rows[id] # None THEN rows[id].state
    ELSE IF ~Known(id) \/ Creating(id) THEN "new"
    ELSE "gone"

Living == INSTANCE CrawlerLives WITH life <- [id \in Ids |-> Life(id)], boots <- restarts

\* The manager implements CrawlerLives.  Of the many steps of a request or a thread
\* one shows: the first write of the row starts a run, the last one ends it, the
\* transaction of an erasure erases, each for its crawler and no other.  The end
\* of the process, and nothing else, interrupts what runs (README.md:157, product_prd.md:250).
CrawlersLive == Living!LivesSpec

-----------------------------------------------------------------------------
(* What the documents say and the code does not keep: each is refuted by a *)
(* run of its own.                                                         *)

\* service.py:86: "Strict BFS guarantee: keep a single consumer over FIFO
\* queue."  No two threads are inside index() of one App.
SingleConsumer ==
    \A id \in Ids : \A t, u \in DOMAIN jobs[id] :
        (jobs[id][t].thread = "crawling" /\ jobs[id][u].thread = "crawling"
            /\ jobs[id][t].serves = jobs[id][u].serves) => t = u

\* product_prd.md:382-387: deleting a crawler removes its row.
DeletedStaysDeleted ==
    \A id \in Ids :
        Quiet(id) /\ registry[id] = 0 => rows[id] = None
=============================================================================
