---------------------------- MODULE CrawlEngineInv ----------------------------
(***************************************************************************)
(* The inductive invariant of CrawlEngine: why a single consumer of a FIFO *)
(* queue visits every page once and in breadth-first order, and why a      *)
(* checkpoint is never far behind.                                         *)
(***************************************************************************)
EXTENDS CrawlEngine

\* A frontier: different pages, all of them seen, layer after layer, never
\* more than two layers at a time.
Layered(s, q) ==
    /\ \A i \in 1 .. Len(q) : q[i].url \in s
    /\ \A i, j \in 1 .. Len(q) : q[i].url = q[j].url => i = j
    /\ \A i, j \in 1 .. Len(q) : i < j => q[i].depth <= q[j].depth
    /\ \A i, j \in 1 .. Len(q) : q[j].depth <= q[i].depth + 1

\* A trace of visits: different pages, layer after layer.
Trace(v) ==
    /\ \A i, j \in 1 .. Len(v) : v[i].url = v[j].url => i = j
    /\ \A i, j \in 1 .. Len(v) : i < j => v[i].depth <= v[j].depth

\* What was visited is seen, is not in the frontier and is no deeper than it;
\* the frontier is at most one layer ahead of the last visit.
Behind(v, s, q) ==
    /\ \A i \in 1 .. Len(v) : v[i].url \in s
    /\ \A i \in 1 .. Len(v), j \in 1 .. Len(q) :
          v[i].url # q[j].url /\ v[i].depth <= q[j].depth
    /\ v # <<>> => \A j \in 1 .. Len(q) : q[j].depth <= v[Len(v)].depth + 1

InLoop == pc \in {"loop", "fetching", "linking", "settle", "closing"}

FrontierInv ==
    /\ Layered(ckpt.seen, ckpt.pending)
    /\ Trace(visits)
    /\ pc \in {"start", "restart"} => visits = <<>>
    /\ InLoop => Layered(seen, queue) /\ Behind(visits, seen, queue)
    /\ InPage => visits # <<>> /\ visits[Len(visits)] = task

\* Visits of the run that are not counted as crawled yet: the one in hand, or
\* one whose fetch was cancelled.
Uncounted == Len(visits) - pagesCrawled

CounterInv ==
    /\ pc \in {"loop", "linking", "closing"} => Uncounted = 0
    /\ pc = "fetching" => Uncounted = 1
    /\ pc = "settle" => Uncounted = 0 \/ (raised /\ Uncounted = 1)
    /\ pc \in {"loop", "closing"} => sinceCheckpoint < CheckpointEvery
    /\ InLoop =>
          /\ sinceCheckpoint <= pagesCrawled
          /\ Uncounted + sinceCheckpoint <= CheckpointEvery
          /\ \A i \in 1 .. pagesCrawled - sinceCheckpoint :
                visits[i].url \in ckpt.seen \ UrlsOf(ckpt.pending)

\* Whoever is on the way out of the loop has a reason that FinishRun will not
\* take away: the stop event is set by a request, by the budget or, on an
\* empty queue, by the worker itself.
EndInv ==
    /\ pc # "idle" => outcome = "none"
    /\ InPage /\ stopEvent => stopAsked
    /\ pc = "loop" /\ stopEvent => stopAsked \/ ReachedPageLimit
    /\ pc = "closing" => stopAsked \/ ReachedPageLimit \/ queue = <<>>
    /\ EndsForAReason

\* Between two pages the gauges are those of the scheduler.  They are copies,
\* and a task dropped at the limit would leave them behind, so the budget must
\* be found used up in the finally block and never at the head of the loop.
GaugeInv ==
    /\ pc \in {"start", "restart"} => status.indexed = 0 /\ status.failed = 0
    /\ pc \in {"loop", "closing"} => activeWorkers = 0
    /\ InPage => activeWorkers = 1
    /\ InLoop => status.indexed + status.failed <= Len(visits)
    /\ pc = "fetching" => status.indexed + status.failed < Len(visits)
    /\ cfg.maxPages > 0 =>
          /\ pc = "loop" /\ ~stopEvent => ~ReachedPageLimit
          /\ pc \in {"loop", "closing"} =>
                /\ status.queueSize = Len(queue)
                /\ status.seenCount = Cardinality(seen)
                /\ status.active = 0
    /\ StatusAgreesWhenDone

\* A page at the last layer hands no links to the scheduler.
LinkInv == pc = "linking" => task.depth < cfg.maxDepth

\* Everything above together with the properties it is for.
InductiveInv ==
    /\ TypeOK
    /\ FrontierInv
    /\ CounterInv
    /\ PageBudget
    /\ RedoBound
    /\ EndInv
    /\ GaugeInv
    /\ LinkInv

-----------------------------------------------------------------------------
(* Why nothing is forgotten when nothing raises, the configuration stays   *)
(* the same and the budget is not empty.                                   *)

\* Whatever is seen is queued, in hand or settled, in memory as well as on
\* disk; no run drops a task, because it stops as soon as its budget is used
\* up, and no resumption does, because the checkpoint fits into the queue.
AccountInv ==
    /\ ckpt.seen \subseteq UrlsOf(ckpt.pending) \cup settled
    /\ Len(ckpt.pending) <= QueueBound
    /\ InLoop =>
          /\ seen \subseteq UrlsOf(queue) \cup settled
                            \cup (IF InPage THEN {task.url} ELSE {})
          /\ Len(queue) <= QueueBound
          /\ ~raised
    /\ pc = "loop" /\ ~stopEvent => pagesCrawled < cfg.maxPages
    /\ pc \in {"start", "restart"} => ~raised

-----------------------------------------------------------------------------
(* How much is forgotten when things do raise, in a crawl that is always   *)
(* resumed as it was started, as the web server does.                      *)

\* An exception in the middle of a page costs that page, and only that page.
SteadyCrawlsForgetLittle ==
    \A c \in Configs :
        c.maxPages > 0 /\ [](runs > 0 => cfg = c) => []OneForgottenPerFailure

\* Seen by the scheduler, but neither queued nor settled nor in hand.
Mislaid ==
    seen \ (UrlsOf(queue) \cup settled \cup (IF InPage THEN {task.url} ELSE {}))

\* Every page missing from the checkpoint, or from the memory of the run that
\* was resumed from it, is accounted for by an earlier exception.
LossInv ==
    /\ runs = 0 => pc = "idle" /\ ckpt = EmptyCheckpoint
    /\ OneForgottenPerFailure
    /\ runs > 0 => Len(ckpt.pending) <= QueueBound
    /\ InLoop => Cardinality(Mislaid) <= failures /\ Len(queue) <= QueueBound
    /\ pc = "loop" /\ ~stopEvent => ~ReachedPageLimit
=============================================================================
