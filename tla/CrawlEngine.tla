----------------------------- MODULE CrawlEngine -----------------------------
(***************************************************************************)
(* One crawl: CrawlerService (crawler/service.py) driving CrawlScheduler   *)
(* and InMemoryQueue (queue/), the checkpoint of JsonStateStore            *)
(* (utils/persistence.py) and the counters of StatusService (status/).     *)
(*                                                                         *)
(* A crawl is a series of runs over one checkpoint file.  Every run is a   *)
(* new App (new scheduler, queue, counters, stop event); the checkpoint    *)
(* and the visit trace in the event table outlive it.  Inside a run there  *)
(* is a single worker, whose steps are the actions below, and other        *)
(* threads that may call request_stop between any two of them.             *)
(*                                                                         *)
(* URLs are their normal forms: scheduler, parser and seed all pass        *)
(* through normalize_url.  What a fetch can return is a parameter: the     *)
(* link lists Pages[u], or a failure when u is in Failing.                 *)
(*                                                                         *)
(* Definitions whose names begin with Bug are the mistakes somebody could  *)
(* have made in the definition that follows them; no action uses them.     *)
(***************************************************************************)
EXTENDS Integers, Sequences, FiniteSets

CONSTANTS
    Urls,               \* normalised URLs
    Pages,              \* Pages[u]: the link lists a fetch of u may yield
    Failing,            \* URLs whose fetch may end in an error result
    Configs,            \* the configurations runs are started with
    CheckpointEvery,    \* config.checkpoint_every_pages
    Faults,             \* what may go wrong: see FaultKinds
    MaxRuns,            \* bound: runs started
    MaxCrashes,         \* bound: crashes of the process
    None                \* Python's None

\* "sink":   the event sink raises (sqlite "database is locked")
\* "index":  the index storage raises
\* "disk":   reading or writing the checkpoint raises
\* "cancel": the worker is cancelled while it awaits (Ctrl-C under asyncio.run)
FaultKinds == {"sink", "index", "disk", "cancel"}

Config == [origin : Urls, maxDepth : Int, maxPages : Int, capacity : Int]
Task   == [url : Urls, depth : Nat]

ASSUME PagesAssumption      == Pages \in [Urls -> SUBSET Seq(Urls)]
ASSUME FailingAssumption    == Failing \subseteq Urls
ASSUME ConfigsAssumption    == Configs \subseteq Config
ASSUME CheckpointAssumption == CheckpointEvery \in Nat \ {0}
ASSUME FaultsAssumption     == Faults \subseteq FaultKinds
ASSUME BoundsAssumption     == MaxRuns \in Nat /\ MaxCrashes \in Nat
ASSUME NoneAssumption       == None \notin Task /\ None \notin Urls

VARIABLES
    ckpt,               \* the checkpoint file; empty is the same as missing
    seen, queue,        \* scheduler._seen, the FIFO queue
    pagesCrawled,       \* service._pages_crawled
    sinceCheckpoint,    \* service._pages_since_checkpoint
    activeWorkers,      \* service._active_workers
    stopEvent,          \* service._stop_event.is_set()
    pc,                 \* where the run is
    task, links,        \* the task in hand, its links still to schedule
    raised,             \* an exception is on its way through the finally block
    cfg,                \* the configuration of the run
    status,             \* StatusService
    visits,             \* history: visit_start events of the latest run
    settled,            \* history: URLs whose visit came to its regular end
    stopAsked,          \* history: somebody called request_stop in this run
    outcome,            \* history: how the latest run ended
    runs, crashes,      \* history: number of runs started, of crashes
    failures            \* history: number of runs ended by an exception

service  == <<pagesCrawled, sinceCheckpoint, activeWorkers>>
schedule == <<seen, queue>>
worker   == <<task, links, raised>>
history  == <<visits, settled, stopAsked, outcome, runs, crashes, failures>>
vars     == <<ckpt, schedule, service, stopEvent, pc, worker, cfg, status,
              history>>

-----------------------------------------------------------------------------
(* The queue and the checkpoint.                                           *)

UrlsOf(q) == {q[i].url : i \in DOMAIN q}

\* InMemoryQueue never has a capacity below one, whatever is configured.
QueueBound == IF cfg.capacity < 1 THEN 1 ELSE cfg.capacity

BugAcceptsUnqueued(t) ==
    /\ t.depth <= cfg.maxDepth
    /\ t.url \notin UrlsOf(queue)
    /\ Len(queue) < QueueBound

BugAcceptsBelowDepth(t) ==
    /\ t.depth < cfg.maxDepth
    /\ t.url \notin seen
    /\ Len(queue) < QueueBound

\* The outcome of schedule(): within depth, not seen before, room in the queue.
\* A URL that does not get into the queue is taken out of seen again.
Accepts(t) ==
    /\ t.depth <= cfg.maxDepth
    /\ t.url \notin seen
    /\ Len(queue) < QueueBound

BugQueueOverFull == Len(queue) > cfg.capacity

\* The service has a test of its own for a refusal, on the configured value.
QueueFull == Len(queue) >= cfg.capacity

EmptyCheckpoint == [seen |-> {}, pending |-> <<>>]
Snapshot        == [seen |-> seen, pending |-> queue]

BugLimitPassed == pagesCrawled > cfg.maxPages
BugLimitAhead  == pagesCrawled + 1 >= cfg.maxPages

ReachedPageLimit == pagesCrawled >= cfg.maxPages
FullyIdle == queue = <<>> /\ activeWorkers = 0

FreshStatus ==
    [running |-> FALSE, current |-> None, active |-> 0, queueSize |-> 0,
     seenCount |-> 0, indexed |-> 0, failed |-> 0, dropped |-> 0]

WithGauges(s, q) == [s EXCEPT !.queueSize = Len(q), !.seenCount = Cardinality(seen)]

-----------------------------------------------------------------------------
Init ==
    /\ ckpt = EmptyCheckpoint
    /\ seen = {} /\ queue = <<>>
    /\ pagesCrawled = 0 /\ sinceCheckpoint = 0 /\ activeWorkers = 0
    /\ stopEvent = FALSE
    /\ pc = "idle"
    /\ task = None /\ links = <<>> /\ raised = FALSE
    /\ cfg \in Configs
    /\ status = FreshStatus
    /\ visits = <<>> /\ settled = {} /\ stopAsked = FALSE /\ outcome = "none"
    /\ runs = 0 /\ crashes = 0 /\ failures = 0

\* A new App, so everything but the disk is as new; its thread has not yet
\* entered index().  "start" ignores the checkpoint, "restart" resumes from it.
NewApp ==
    /\ seen' = {} /\ queue' = <<>>
    /\ pagesCrawled' = 0 /\ sinceCheckpoint' = 0 /\ activeWorkers' = 0
    /\ stopEvent' = FALSE
    /\ task' = None /\ links' = <<>> /\ raised' = FALSE
    /\ status' = FreshStatus

StartRun(c, at) ==
    /\ pc = "idle" /\ runs < MaxRuns
    /\ NewApp
    /\ pc' = at
    /\ cfg' = c
    /\ visits' = <<>> /\ stopAsked' = FALSE /\ outcome' = "none"
    /\ runs' = runs + 1
    /\ UNCHANGED <<ckpt, settled, crashes, failures>>

\* Pause, Stop, a signal handler: another thread, at any moment of the run.
RequestStop ==
    /\ pc # "idle"
    /\ stopEvent' = TRUE
    /\ stopAsked' = TRUE
    /\ UNCHANGED <<ckpt, schedule, service, pc, worker, cfg, status, visits,
                   settled, outcome, runs, crashes, failures>>

\* The process dies.  The checkpoint is replaced atomically, so it survives
\* as it was; the scheduler and everything else in memory is gone.
Crash ==
    /\ pc # "idle" /\ crashes < MaxCrashes
    /\ NewApp
    /\ pc' = "idle"
    /\ outcome' = "crashed"
    /\ crashes' = crashes + 1
    /\ UNCHANGED <<ckpt, cfg, visits, settled, stopAsked, runs, failures>>

\* An exception leaves index(): neither finish_run nor mark_stopped happens.
RunFails ==
    /\ pc' = "idle"
    /\ outcome' = "failed"
    /\ failures' = failures + 1

-----------------------------------------------------------------------------
(* index() up to the worker: reset, a new stop event, _bootstrap.          *)

Resuming == pc = "restart" /\ (ckpt.pending # <<>> \/ ckpt.seen # {})

Seed == [url |-> cfg.origin, depth |-> 0]

BugBootEmpty == IF Resuming \/ cfg.maxDepth < 0 THEN <<>> ELSE <<Seed>>

\* import_pending stops at the capacity; seen is restored in full.
BootQueue ==
    IF Resuming
    THEN SubSeq(ckpt.pending, 1,
                IF Len(ckpt.pending) < QueueBound THEN Len(ckpt.pending) ELSE QueueBound)
    ELSE IF cfg.maxDepth >= 0 THEN <<Seed>> ELSE <<>>

BootSeen ==
    IF Resuming THEN ckpt.seen
    ELSE IF cfg.maxDepth >= 0 THEN {cfg.origin} ELSE {}

ResetRun ==
    /\ pagesCrawled' = 0 /\ sinceCheckpoint' = 0 /\ activeWorkers' = 0
    /\ stopEvent' = FALSE

RunIndex ==
    /\ pc \in {"start", "restart"}
    /\ ResetRun
    /\ seen' = BootSeen /\ queue' = BootQueue
    /\ status' = [status EXCEPT !.running = TRUE, !.active = 0, !.current = None,
                                !.queueSize = Len(BootQueue),
                                !.seenCount = Cardinality(BootSeen)]
    /\ pc' = "loop"
    /\ UNCHANGED <<ckpt, worker, cfg, history>>

\* initialize() or load() raises on an empty scheduler, or the sink raises on
\* the first queue_enqueue / queue_restored event.
RunIndexRaises ==
    /\ pc \in {"start", "restart"}
    /\ ResetRun
    /\ \/ /\ "index" \in Faults \/ ("disk" \in Faults /\ pc = "restart")
          /\ seen' = {} /\ queue' = <<>>
       \/ /\ "sink" \in Faults /\ BootQueue # <<>>
          /\ seen' = BootSeen /\ queue' = BootQueue
    /\ RunFails
    /\ UNCHANGED <<ckpt, worker, cfg, status, visits, settled, stopAsked, runs,
                   crashes>>

-----------------------------------------------------------------------------
(* The head of the worker loop.                                            *)

ObserveStop ==
    /\ pc = "loop" /\ stopEvent
    /\ pc' = "closing"
    /\ UNCHANGED <<ckpt, schedule, service, stopEvent, worker, cfg, status, history>>

\* Nothing queued and nobody working: the crawl is exhausted.  (With somebody
\* working the loop would sleep and look again, which changes nothing.)
FindNothing ==
    /\ pc = "loop" /\ ~stopEvent /\ queue = <<>>
    /\ FullyIdle
    /\ stopEvent' = TRUE
    /\ pc' = "closing"
    /\ UNCHANGED <<ckpt, schedule, service, worker, cfg, status, history>>

\* The budget is compared after the task has left the queue.
DropAtLimit ==
    /\ pc = "loop" /\ ~stopEvent /\ queue # <<>>
    /\ ReachedPageLimit
    /\ queue' = Tail(queue)
    /\ task' = Head(queue)
    /\ stopEvent' = TRUE
    /\ pc' = "closing"
    /\ UNCHANGED <<ckpt, seen, service, links, raised, cfg, status, history>>

Dequeue ==
    /\ pc = "loop" /\ ~stopEvent /\ queue # <<>>
    /\ ~ReachedPageLimit
    /\ queue' = Tail(queue)
    /\ task' = Head(queue)
    /\ activeWorkers' = activeWorkers + 1

TakeTask ==
    /\ Dequeue
    /\ visits' = Append(visits, Head(queue))
    /\ status' = [WithGauges(status, Tail(queue)) EXCEPT
                     !.active = activeWorkers + 1, !.current = Head(queue).url]
    /\ pc' = "fetching"
    /\ UNCHANGED <<ckpt, seen, pagesCrawled, sinceCheckpoint, stopEvent, links, raised,
                   cfg, settled, stopAsked, outcome, runs, crashes, failures>>

\* visit_start is emitted before the try block: no finally, no checkpoint.
TakeTaskRaises ==
    /\ Dequeue
    /\ "sink" \in Faults
    /\ status' = [status EXCEPT !.active = activeWorkers + 1]
    /\ RunFails
    /\ UNCHANGED <<ckpt, seen, pagesCrawled, sinceCheckpoint, stopEvent, links, raised,
                   cfg, visits, settled, stopAsked, runs, crashes>>

-----------------------------------------------------------------------------
(* One page: fetch, index, schedule its links, then the finally block.     *)

CountPage ==
    /\ pagesCrawled' = pagesCrawled + 1
    /\ sinceCheckpoint' = sinceCheckpoint + 1

FetchCancelled ==
    /\ pc = "fetching" /\ "cancel" \in Faults
    /\ raised' = TRUE
    /\ pc' = "settle"
    /\ UNCHANGED <<ckpt, schedule, service, stopEvent, task, links, cfg, status, history>>

\* An error result.  "unsupported-content-type" is not counted as a failure;
\* a raising sink hits before the failure is counted.
FetchFails(counted, ok) ==
    /\ pc = "fetching" /\ task.url \in Failing
    /\ ok \/ "sink" \in Faults
    /\ CountPage
    /\ status' = IF ok /\ counted THEN [status EXCEPT !.failed = @ + 1] ELSE status
    /\ raised' = ~ok
    /\ pc' = "settle"
    /\ UNCHANGED <<ckpt, schedule, activeWorkers, stopEvent, task, links, cfg, history>>

BugFetchPageLinks(ls) ==
    /\ pc = "fetching"
    /\ CountPage
    /\ status' = [status EXCEPT !.indexed = @ + 1]
    /\ links' = IF task.depth < cfg.maxDepth THEN ls ELSE <<>>
    /\ pc' = "linking"
    /\ UNCHANGED <<ckpt, schedule, activeWorkers, stopEvent, task, raised, cfg, history>>

\* A page: its document goes to the index, its links to the scheduler unless
\* the page is at the last layer.
FetchPage(ls) ==
    /\ pc = "fetching"
    /\ CountPage
    /\ status' = [status EXCEPT !.indexed = @ + 1]
    /\ links' = IF task.depth < cfg.maxDepth THEN ls ELSE <<>>
    /\ pc' = IF links' = <<>> THEN "settle" ELSE "linking"
    /\ UNCHANGED <<ckpt, schedule, activeWorkers, stopEvent, task, raised, cfg, history>>

\* upsert_document raises, or after it the sink raises on visit_done.
FetchPageRaises ==
    /\ pc = "fetching" /\ Pages[task.url] # {}
    /\ CountPage
    /\ \/ "index" \in Faults /\ status' = status
       \/ "sink" \in Faults /\ status' = [status EXCEPT !.indexed = @ + 1]
    /\ raised' = TRUE
    /\ pc' = "settle"
    /\ UNCHANGED <<ckpt, schedule, activeWorkers, stopEvent, task, links, cfg, history>>

BugLinkTwoDeeper == [url |-> Head(links), depth |-> task.depth + 2]

LinkTask == [url |-> Head(links), depth |-> task.depth + 1]

\* The next link, or out of the loop: at its end or by an exception.
NextLink(ok) ==
    /\ links' = IF ok THEN Tail(links) ELSE <<>>
    /\ raised' = ~ok
    /\ pc' = IF links' = <<>> THEN "settle" ELSE "linking"

BugEnqueueInFront(ok) ==
    /\ pc = "linking" /\ Accepts(LinkTask)
    /\ ok \/ "sink" \in Faults
    /\ seen' = seen \cup {Head(links)}
    /\ queue' = <<LinkTask>> \o queue
    /\ NextLink(ok)
    /\ UNCHANGED <<ckpt, service, stopEvent, task, cfg, status, history>>

EnqueueLink(ok) ==
    /\ pc = "linking" /\ Accepts(LinkTask)
    /\ ok \/ "sink" \in Faults
    /\ seen' = seen \cup {Head(links)}
    /\ queue' = Append(queue, LinkTask)
    /\ NextLink(ok)
    /\ UNCHANGED <<ckpt, service, stopEvent, task, cfg, status, history>>

\* Reported as a drop whenever the queue is full, also for a link seen before.
ReportDrop(ok) ==
    /\ pc = "linking" /\ ~Accepts(LinkTask)
    /\ QueueFull
    /\ ok \/ "sink" \in Faults
    /\ status' = [status EXCEPT !.dropped = @ + 1]
    /\ NextLink(ok)
    /\ UNCHANGED <<ckpt, schedule, service, stopEvent, task, cfg, history>>

SkipLink ==
    /\ pc = "linking" /\ ~Accepts(LinkTask)
    /\ ~QueueFull
    /\ NextLink(TRUE)
    /\ UNCHANGED <<ckpt, schedule, service, stopEvent, task, cfg, status, history>>

BugReleaseStaleGauges ==
    /\ pc = "settle"
    /\ activeWorkers' = IF activeWorkers > 0 THEN activeWorkers - 1 ELSE 0
    /\ status' = [status EXCEPT !.active = activeWorkers']
    /\ stopEvent' = (stopEvent \/ ReachedPageLimit)

BugReleaseNoLimit ==
    /\ pc = "settle"
    /\ activeWorkers' = IF activeWorkers > 0 THEN activeWorkers - 1 ELSE 0
    /\ status' = [WithGauges(status, queue) EXCEPT !.active = activeWorkers']
    /\ stopEvent' = stopEvent

BugReleaseKeepsWorker ==
    /\ pc = "settle"
    /\ activeWorkers' = activeWorkers
    /\ status' = WithGauges(status, queue)
    /\ stopEvent' = (stopEvent \/ ReachedPageLimit)

\* The finally block up to the checkpoint.
Release ==
    /\ pc = "settle"
    /\ activeWorkers' = IF activeWorkers > 0 THEN activeWorkers - 1 ELSE 0
    /\ status' = [WithGauges(status, queue) EXCEPT !.active = activeWorkers']
    /\ stopEvent' = (stopEvent \/ ReachedPageLimit)

BugCheckpointLate ==
    \/ stopEvent'
    \/ queue = <<>> /\ activeWorkers' = 0
    \/ sinceCheckpoint > CheckpointEvery

CheckpointDue ==
    \/ stopEvent'
    \/ queue = <<>> /\ activeWorkers' = 0
    \/ sinceCheckpoint >= CheckpointEvery

\* The exception, if there is one, goes on after the checkpoint is written.
Settle ==
    /\ Release
    /\ IF CheckpointDue
       THEN ckpt' = Snapshot /\ sinceCheckpoint' = 0
       ELSE UNCHANGED <<ckpt, sinceCheckpoint>>
    /\ IF raised
       THEN RunFails /\ UNCHANGED settled
       ELSE /\ settled' = settled \cup {task.url}
            /\ pc' = "loop"
            /\ UNCHANGED <<outcome, failures>>
    /\ UNCHANGED <<schedule, pagesCrawled, worker, cfg, visits, stopAsked, runs, crashes>>

SettleRaises ==
    /\ Release
    /\ CheckpointDue /\ "disk" \in Faults
    /\ RunFails
    /\ UNCHANGED <<ckpt, schedule, pagesCrawled, sinceCheckpoint, worker, cfg, visits,
                   settled, stopAsked, runs, crashes>>

\* After the worker: a last checkpoint, then the run is marked as stopped.
FinishRun ==
    /\ pc = "closing"
    /\ ckpt' = Snapshot
    /\ status' = [status EXCEPT !.running = FALSE, !.current = None]
    /\ pc' = "idle"
    /\ outcome' = "completed"
    /\ UNCHANGED <<schedule, service, stopEvent, worker, cfg, visits, settled, stopAsked,
                   runs, crashes, failures>>

FinishRunRaises ==
    /\ pc = "closing" /\ Faults \cap {"disk", "cancel"} # {}
    /\ RunFails
    /\ UNCHANGED <<ckpt, schedule, service, stopEvent, worker, cfg, status, visits,
                   settled, stopAsked, runs, crashes>>

-----------------------------------------------------------------------------
Bootstrap == RunIndex \/ RunIndexRaises

LoopHead == ObserveStop \/ FindNothing \/ DropAtLimit \/ TakeTask \/ TakeTaskRaises

Fetch ==
    \/ FetchCancelled
    \/ \E counted, ok \in BOOLEAN : FetchFails(counted, ok)
    \/ \E ls \in Pages[task.url] : FetchPage(ls)
    \/ FetchPageRaises

Linking ==
    \/ \E ok \in BOOLEAN : EnqueueLink(ok) \/ ReportDrop(ok)
    \/ SkipLink

Closing == Settle \/ SettleRaises \/ FinishRun \/ FinishRunRaises

\* What the job thread of a run does.
WorkerStep ==
    \/ Bootstrap
    \/ LoopHead
    \/ pc = "fetching" /\ Fetch
    \/ Linking
    \/ Closing

Next ==
    \/ \E c \in Configs, at \in {"start", "restart"} : StartRun(c, at)
    \/ RequestStop
    \/ Crash
    \/ WorkerStep

Spec == Init /\ [][Next]_vars

\* The thread of a run keeps running, and every fetch returns: it has a
\* timeout.  Nothing makes anybody start a run, ask for a stop or crash.
FairSpec == Spec /\ WF_vars(WorkerStep)

-----------------------------------------------------------------------------
(* Properties.                                                             *)

PCs      == {"idle", "start", "restart", "loop", "fetching", "linking", "settle",
             "closing"}
InPage   == pc \in {"fetching", "linking", "settle"}
Outcomes == {"none", "completed", "failed", "crashed"}

Status ==
    [running : BOOLEAN, current : Urls \cup {None}, active : Nat, queueSize : Nat,
     seenCount : Nat, indexed : Nat, failed : Nat, dropped : Nat]

\* Every variable has its type; in the middle of a page there is a task.
TypeOK ==
    /\ ckpt \in [seen : SUBSET Urls, pending : Seq(Task)]
    /\ seen \in SUBSET Urls /\ queue \in Seq(Task)
    /\ pagesCrawled \in Nat /\ sinceCheckpoint \in Nat /\ activeWorkers \in Nat
    /\ stopEvent \in BOOLEAN
    /\ pc \in PCs
    /\ task \in Task \cup {None} /\ (InPage => task \in Task)
    /\ links \in Seq(Urls) /\ (pc = "linking" => links # <<>>)
    /\ raised \in BOOLEAN
    /\ cfg \in Configs
    /\ status \in Status
    /\ visits \in Seq(Task) /\ settled \in SUBSET Urls
    /\ stopAsked \in BOOLEAN /\ outcome \in Outcomes
    /\ runs \in Nat /\ crashes \in Nat /\ failures \in Nat

\* README.md:26, product_prd.md:24: no URL is visited twice in a run, also
\* when the run continues an earlier one that was stopped, failed or crashed
\* between two checkpoints.
VisitOnce ==
    \A i, j \in DOMAIN visits : visits[i].url = visits[j].url => i = j

\* README.md:5, product_prd.md:157: strict BFS, a run never goes back to a
\* layer it has left, wherever in the frontier it was resumed.
StrictBFS ==
    \A i, j \in DOMAIN visits : i < j => visits[i].depth <= visits[j].depth

\* A run starts no more visits than max_pages, although the budget is
\* compared at three places and the counter moves only after the fetch.
PageBudget == visits # <<>> => Len(visits) <= cfg.maxPages

Forgotten == ckpt.seen \ (UrlsOf(ckpt.pending) \cup settled)

\* README.md:155-157: whatever the checkpoint calls seen is either still
\* pending or has really been dealt with, so that resuming loses no page.
\* Holds when nothing raises and the configuration stays the same.
NothingForgotten == Forgotten = {}

\* An exception in the middle of a page costs that page, and only that page:
\* the finally block may checkpoint it as seen without it being settled.
OneForgottenPerFailure == Cardinality(Forgotten) <= failures

\* A crash costs at most CheckpointEvery visits: all the earlier ones of the
\* run are in the checkpoint as done.
RedoBound ==
    \A i \in 1 .. Len(visits) - CheckpointEvery :
        visits[i].url \in ckpt.seen \ UrlsOf(ckpt.pending)

\* README.md:84: a run that completes was asked to stop, has used up its
\* budget or has left nothing to crawl.
EndsForAReason ==
    outcome = "completed" =>
        \/ stopAsked
        \/ pagesCrawled >= cfg.maxPages
        \/ ckpt.pending = <<>>

\* What the status reports of a completed run is what the checkpoint holds:
\* the manager shows and stores these figures after the App is gone.
StatusAgreesWhenDone ==
    outcome = "completed" /\ cfg.maxPages > 0 =>
        /\ status.queueSize = Len(ckpt.pending)
        /\ status.seenCount = Cardinality(ckpt.seen)
        /\ status.active = 0 /\ ~status.running
        /\ status.indexed + status.failed <= Len(visits)

\* product_prd.md:443: a link that is left out because the queue is full is
\* reported, though the queue refuses it and the service reports it, each by
\* a test of its own and after seen has been rolled back.
RefusalsReported ==
    [][\A u \in Urls :
          (pc = "linking" /\ links' # links /\ pc' # "idle"
              /\ u = Head(links) /\ u \notin seen')
              => status'.dropped > status.dropped]_vars

\* A run comes to its end, whatever is asked of it and whatever raises.
RunEnds == pc # "idle" ~> pc = "idle"

\* The trace of visits is the one BreadthFirst promises.
Bfs == INSTANCE BreadthFirst WITH running <- pc # "idle", budget <- cfg.maxPages
BreadthFirstSpec == Bfs!BfsSpec

-----------------------------------------------------------------------------
(* What the documents say and the code does not keep, refuted by a run.    *)

\* README.md:154-155: Pause and Stop stop an active crawler, so once a stop is
\* asked for no further visit starts.  index() replaces the stop event, and a
\* request made before that is gone.
StopIsHonoured == [][stopAsked => visits' = visits \/ visits' = <<>>]_vars
=============================================================================
