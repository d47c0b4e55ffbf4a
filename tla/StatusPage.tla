------------------------------ MODULE StatusPage ------------------------------
(***************************************************************************)
(* The page of one crawler (web/server.py): what its script shows of the   *)
(* crawler and what its buttons do, while the crawl goes on in the server. *)
(*                                                                         *)
(* The script is one thread, but every fetch is answered by a server       *)
(* thread of its own, so that replies come back in any order, and each     *)
(* reply is put together from three reads (get_crawler_status,             *)
(* web/manager.py): the row, the events, and the live App or, without one, *)
(* counts of what is stored.  Nothing but this page steers the crawler.    *)
(*                                                                         *)
(* JobManager's subject is abridged here: a run sets its final state in    *)
(* one step, and a request about the crawler is carried out in one.        *)
(*                                                                         *)
(* Definitions whose names begin with Bug are the mistakes somebody could  *)
(* have made in the definition that follows them; no action uses them.     *)
(***************************************************************************)
EXTENDS Integers, FiniteSets

CONSTANTS
    Slots,          \* bound: fetches of /api/status on their way at once
    Handlers,       \* bound: clicks handled at once
    Halts,          \* "pause", "stop" or both: what the user presses
    Attempts,       \* attempts of waitForStableState
    MaxVisits,      \* bound: visits of the crawler
    MaxChances,     \* bound: clicks, and requests that fail on their way
    None            \* JavaScript's null

Intents == {"pause", "stop", "resume"}
Ended   == {"paused", "stopped", "completed", "failed", "interrupted"}
States  == Ended \cup {"running"}

ASSUME HaltsAssumption  == Halts \subseteq {"pause", "stop"}
ASSUME BoundsAssumption ==
    Attempts \in Nat /\ MaxVisits \in Nat /\ MaxChances \in Nat

VARIABLES
    job,            \* the registered CrawlerJob, its App and its counters
    unsaved,        \* final states that threads have yet to write to the row
    row,            \* the row of the crawler
    events,         \* the number of its visit_start events
    runs,           \* history: the number of its runs
    shown,          \* page: state on the badge, which also decides the buttons
    detail,         \* page: counters and visited URLs
    auto,           \* page: the Auto Refresh box is ticked
    fetches,        \* page: fetches of refreshCrawlerDetail
    handlers,       \* page: calls of handleCrawlerControlSubmit
    clicks, losses, \* history: number of clicks, of requests that failed
    newest,         \* history: the newest version of the row that was shown
    overtaken       \* history: what is older was shown, or written, after what is newer

server == <<job, unsaved, row, events, runs>>
page   == <<shown, detail, auto, newest, overtaken>>
vars   == <<server, page, fetches, handlers, clicks, losses>>

\* app: there is an App (none after a reboot); busy: in the middle of a page;
\* counted: its status counter pages_crawled.
Job   == [state : States, reason : {"paused", "stopped", None}, app : BOOLEAN,
          busy : BOOLEAN, counted : Nat]
Write == [state : States, run : Nat]
Row   == [state : States, run : Nat, version : Nat]

ASSUME NoneAssumption == None \notin States \cup Row

Detail == [events : Nat, counted : Nat]

IdleFetch   == [step |-> "idle", row |-> None, events |-> 0, counted |-> 0]
IdleHandler == [intent |-> None, step |-> "idle", tries |-> 0, own |-> FALSE, got |-> None]

Chance == clicks + losses < MaxChances

-----------------------------------------------------------------------------
(* The server: the job thread (web/manager.py).                            *)

RowWrite(w) == row' = [state |-> w.state, run |-> w.run, version |-> row.version + 1]

VisitStart ==
    /\ job.state = "running" /\ ~job.busy /\ events < MaxVisits
    /\ events' = events + 1
    /\ job' = [job EXCEPT !.busy = TRUE]
    /\ UNCHANGED <<unsaved, row, runs, page, fetches, handlers, clicks, losses>>

\* Pages of an unsupported type are not counted.
VisitEnd(counts) ==
    /\ job.state = "running" /\ job.busy
    /\ job' = [job EXCEPT !.busy = FALSE, !.counted = IF counts THEN @ + 1 ELSE @]
    /\ UNCHANGED <<unsaved, row, events, runs, page, fetches, handlers, clicks, losses>>

\* index() has returned, or raised in the middle of a page.
RunEnds(raised) ==
    /\ job.state = "running"
    /\ job.busy => raised
    /\ LET verdict == IF raised THEN "failed"
                      ELSE IF job.reason = None THEN "completed" ELSE job.reason IN
       /\ job' = [job EXCEPT !.state = verdict, !.busy = FALSE]
       /\ unsaved' = unsaved \cup {[state |-> verdict, run |-> runs]}
    /\ UNCHANGED <<row, events, runs, page, fetches, handlers, clicks, losses>>

\* The write of a run may come after that of the next one's beginning.
UpsertFinished(w) ==
    /\ w \in unsaved
    /\ unsaved' = unsaved \ {w}
    /\ RowWrite(w)
    /\ overtaken' = (overtaken \/ w.run < row.run)
    /\ UNCHANGED <<job, events, runs, shown, detail, auto, newest, fetches, handlers,
                   clicks, losses>>

-----------------------------------------------------------------------------
(* get_crawler_status for the fetch in slot s, read by read.               *)

ReadRow(s) ==
    /\ fetches[s].step = "sent"
    /\ fetches' = [fetches EXCEPT ![s].step = "row", ![s].row = row]
    /\ UNCHANGED <<server, page, handlers, clicks, losses>>

ReadEvents(s) ==
    /\ fetches[s].step = "row"
    /\ fetches' = [fetches EXCEPT ![s].step = "events", ![s].events = events]
    /\ UNCHANGED <<server, page, handlers, clicks, losses>>

\* App.get_status, or _build_persisted_status, which counts the visits.
PagesCrawled == IF job.app THEN job.counted ELSE events

BugReadRowAgain(s) ==
    /\ fetches[s].step = "events"
    /\ fetches' = [fetches EXCEPT ![s].step = "answered", ![s].row = row,
                                  ![s].counted = PagesCrawled]
    /\ UNCHANGED <<server, page, handlers, clicks, losses>>

ReadStatus(s) ==
    /\ fetches[s].step = "events"
    /\ fetches' = [fetches EXCEPT ![s].step = "answered", ![s].counted = PagesCrawled]
    /\ UNCHANGED <<server, page, handlers, clicks, losses>>

-----------------------------------------------------------------------------
(* refreshCrawlerDetail.                                                   *)

Send(s) == fetches' = [fetches EXCEPT ![s] = [IdleFetch EXCEPT !.step = "sent"]]

BugTimerFires(s) ==
    /\ auto /\ shown = "running" /\ fetches[s].step = "idle"
    /\ Send(s)
    /\ UNCHANGED <<server, page, handlers, clicks, losses>>

\* setInterval, every four seconds while the box is ticked.
TimerFires(s) ==
    /\ auto /\ fetches[s].step = "idle"
    /\ Send(s)
    /\ UNCHANGED <<server, page, handlers, clicks, losses>>

\* The button "Refresh Now".
ClickRefresh(s) ==
    /\ Chance /\ fetches[s].step = "idle"
    /\ Send(s)
    /\ clicks' = clicks + 1
    /\ UNCHANGED <<server, page, handlers, losses>>

\* The badge and the buttons, which are made anew: those that wait for the
\* end of a click are gone.
Show(state, version) ==
    /\ shown' = state
    /\ newest' = IF version > newest THEN version ELSE newest
    /\ overtaken' = (overtaken \/ version < newest)

NewButtons(hs) == [h \in Handlers |-> [hs[h] EXCEPT !.own = FALSE]]

BugDeliverStopsFirst(s) ==
    /\ fetches[s].step = "answered"
    /\ Show(fetches[s].row.state, fetches[s].row.version)
    /\ auto' = (auto /\ shown' = "running")
    /\ detail' = IF auto' THEN [events |-> fetches[s].events, counted |-> fetches[s].counted]
                 ELSE detail
    /\ fetches' = [fetches EXCEPT ![s] = IdleFetch]
    /\ handlers' = NewButtons(handlers)
    /\ UNCHANGED <<server, clicks, losses>>

\* Everything on the page is replaced.  A crawler that does not run needs no
\* more refreshing: the box is cleared, and no code ticks it again.
Deliver(s) ==
    /\ fetches[s].step = "answered"
    /\ Show(fetches[s].row.state, fetches[s].row.version)
    /\ detail' = [events |-> fetches[s].events, counted |-> fetches[s].counted]
    /\ auto' = (auto /\ shown' = "running")
    /\ fetches' = [fetches EXCEPT ![s] = IdleFetch]
    /\ handlers' = NewButtons(handlers)
    /\ UNCHANGED <<server, clicks, losses>>

\* A network error, or status 500 because sqlite stayed locked.  As the reads
\* change nothing, it does not matter after which of them.
LoseDetail(s) ==
    /\ fetches[s].step = "sent" /\ Chance
    /\ fetches' = [fetches EXCEPT ![s] = IdleFetch]
    /\ losses' = losses + 1
    /\ UNCHANGED <<server, page, handlers, clicks>>

-----------------------------------------------------------------------------
(* handleCrawlerControlSubmit and waitForStableState.                      *)

Offered(state) ==
    CASE state = "running"   -> Halts
      [] state = "completed" -> {}
      [] OTHER               -> {"resume"}

Advance(h, r) == handlers' = [handlers EXCEPT ![h] = r]

\* The button is disabled until its click is dealt with.
Click(h, intent) ==
    /\ Chance /\ handlers[h].step = "idle"
    /\ intent \in Offered(shown)
    /\ \A g \in Handlers : ~(handlers[g].own /\ handlers[g].intent = intent)
    /\ Advance(h, [IdleHandler EXCEPT !.intent = intent, !.step = "post", !.own = TRUE])
    /\ clicks' = clicks + 1
    /\ UNCHANGED <<server, page, fetches, losses>>

\* The end of a POST: with an error message unless it was accepted and the
\* reply arrives.
Answer(h, accepted, arrives) ==
    /\ IF accepted /\ arrives
       THEN Advance(h, [handlers[h] EXCEPT !.step = "ask"])
       ELSE Advance(h, IdleHandler)
    /\ arrives \/ Chance
    /\ losses' = IF arrives THEN losses ELSE losses + 1

\* _request_stop.
ServeHalt(h, arrives) ==
    /\ handlers[h].step = "post" /\ handlers[h].intent # "resume"
    /\ LET accepted == job.state = "running" IN
       /\ job' = IF accepted
                 THEN [job EXCEPT !.reason = IF handlers[h].intent = "pause" THEN "paused"
                                                                           ELSE "stopped"]
                 ELSE job
       /\ Answer(h, accepted, arrives)
    /\ UNCHANGED <<unsaved, row, events, runs, page, fetches, clicks>>

\* resume_crawler: a new job with a new App, and its row.
ServeResume(h, arrives) ==
    /\ handlers[h].step = "post" /\ handlers[h].intent = "resume"
    /\ LET accepted == job.state # "running" IN
       /\ IF accepted
          THEN /\ job' = [state |-> "running", reason |-> None, app |-> TRUE,
                          busy |-> FALSE, counted |-> 0]
               /\ runs' = runs + 1
               /\ RowWrite([state |-> "running", run |-> runs'])
          ELSE UNCHANGED <<job, runs, row>>
       /\ Answer(h, accepted, arrives)
    /\ UNCHANGED <<unsaved, events, page, fetches, clicks>>

\* The request does not reach the server.
LosePost(h) ==
    /\ handlers[h].step = "post" /\ Chance
    /\ Advance(h, IdleHandler)
    /\ losses' = losses + 1
    /\ UNCHANGED <<server, page, fetches, clicks>>

\* fetchCrawlerState: of the whole reply only the state is used.
AskState(h) ==
    /\ handlers[h].step = "ask"
    /\ Advance(h, [handlers[h] EXCEPT !.step = "told", !.got = row])
    /\ UNCHANGED <<server, page, fetches, clicks, losses>>

LoseState(h) ==
    /\ handlers[h].step = "ask" /\ Chance
    /\ Advance(h, [handlers[h] EXCEPT !.step = "told", !.got = None])
    /\ losses' = losses + 1
    /\ UNCHANGED <<server, page, fetches, clicks>>

BugAssumed(intent) == intent

\* What the page assumes when it is not told: that the click had its effect.
Assumed(intent) ==
    CASE intent = "pause" -> "paused" [] intent = "stop" -> "stopped" [] OTHER -> "running"

\* A resumption is asked about once; after a halt the page waits for the run
\* to end, for a while.
Stable(h) ==
    \/ handlers[h].intent = "resume"
    \/ handlers[h].tries = Attempts
    \/ handlers[h].got # None /\ handlers[h].got.state # "running"

AskAgain(h) ==
    /\ handlers[h].step = "told" /\ ~Stable(h)
    /\ Advance(h, [handlers[h] EXCEPT !.step = "ask", !.got = None,
                       !.tries = IF @ < Attempts THEN @ + 1 ELSE @])
    /\ UNCHANGED <<server, page, fetches, clicks, losses>>

\* The new state is shown, and the rest of the page refreshed.
HearState(h, s) ==
    /\ handlers[h].step = "told" /\ Stable(h)
    /\ fetches[s].step = "idle"
    /\ IF handlers[h].got = None
       THEN Show(Assumed(handlers[h].intent), newest)
       ELSE Show(handlers[h].got.state, handlers[h].got.version)
    /\ handlers' = [NewButtons(handlers) EXCEPT ![h] = IdleHandler]
    /\ Send(s)
    /\ UNCHANGED <<server, detail, auto, clicks, losses>>

-----------------------------------------------------------------------------
\* The page has just been loaded: of a crawl that runs, or of one that a
\* reboot has interrupted.
Init ==
    /\ \E app \in BOOLEAN :
          /\ job = [state |-> IF app THEN "running" ELSE "interrupted", reason |-> None,
                    app |-> app, busy |-> FALSE, counted |-> 0]
          /\ row = [state |-> job.state, run |-> 1, version |-> 1]
          /\ events = IF app THEN 0 ELSE 1
    /\ unsaved = {} /\ runs = 1
    /\ shown = row.state /\ detail = [events |-> events, counted |-> events]
    /\ auto = TRUE
    /\ fetches = [s \in Slots |-> IdleFetch]
    /\ handlers = [h \in Handlers |-> IdleHandler]
    /\ clicks = 0 /\ losses = 0
    /\ newest = 1 /\ overtaken = FALSE

JobThread ==
    \/ VisitStart
    \/ \E counts \in BOOLEAN : VisitEnd(counts)
    \/ \E raised \in BOOLEAN : RunEnds(raised)
    \/ \E w \in unsaved : UpsertFinished(w)

\* An exchange that has begun comes to its end.
Exchange(s) == ReadRow(s) \/ ReadEvents(s) \/ ReadStatus(s) \/ Deliver(s) \/ LoseDetail(s)

Handle(h) ==
    \/ \E arrives \in BOOLEAN : ServeHalt(h, arrives) \/ ServeResume(h, arrives)
    \/ LosePost(h) \/ AskState(h) \/ LoseState(h) \/ AskAgain(h)
    \/ \E s \in Slots : HearState(h, s)

Next ==
    \/ JobThread
    \/ \E s \in Slots : TimerFires(s) \/ ClickRefresh(s) \/ Exchange(s)
    \/ \E h \in Handlers : Handle(h) \/ \E intent \in Intents : Click(h, intent)

Spec == Init /\ [][Next]_vars

\* The timer goes on, and requests are answered or fail.  The crawl need not
\* end, and the user need not do anything.
Fairness ==
    /\ WF_vars(\E s \in Slots : Exchange(s))
    /\ WF_vars(\E s \in Slots : TimerFires(s))

FairSpec == Spec /\ Fairness

-----------------------------------------------------------------------------
(* Properties.                                                             *)

Fetch ==
    [step : {"idle", "sent", "row", "events", "answered"}, row : Row \cup {None},
     events : Nat, counted : Nat]
Handler ==
    [intent : Intents \cup {None}, step : {"idle", "post", "ask", "told"}, tries : Nat,
     own : BOOLEAN, got : Row \cup {None}]

\* Every variable has its type.
TypeOK ==
    /\ job \in Job /\ unsaved \in SUBSET Write /\ row \in Row
    /\ events \in Nat /\ runs \in Nat
    /\ shown \in States /\ detail \in Detail /\ auto \in BOOLEAN
    /\ fetches \in [Slots -> Fetch] /\ handlers \in [Handlers -> Handler]
    /\ clicks \in Nat /\ losses \in Nat /\ newest \in Nat /\ overtaken \in BOOLEAN

\* A reply that says the latest run has ended has all of its visits and final
\* counters, though the three were read one after the other beside a running
\* crawl (manager.py:217-245): the page gives up refreshing on the strength
\* of the state alone (server.py, refreshCrawlerDetail).
EndedRepliesAreFinal ==
    \A s \in Slots :
        LET f == fetches[s] IN
        f.step \in {"events", "answered"} /\ f.row.state # "running" /\ f.row.run = runs =>
            /\ f.events = events
            /\ f.step = "answered" => f.counted = PagesCrawled

Quiet ==
    /\ \A s \in Slots : fetches[s].step = "idle"
    /\ \A h \in Handlers : handlers[h].step = "idle"

\* What a page shows that refreshes itself no more stays on the screen, so it
\* must be right: the state, and when the run has ended its visits and
\* counters.  Exempt are what a failed request, an overtaken reply or the late
\* write of an older run (manager.py:464) has done, and a crawler that was
\* resumed: no code ticks the box again.
FrozenPageIsRight ==
    Quiet /\ ~auto /\ losses = 0 /\ ~overtaken =>
        \/ shown = row.state /\ detail = [events |-> events, counted |-> PagesCrawled]
        \/ shown = "running" /\ runs > 1

\* A page that refreshes itself notices the end of the crawl, whatever is
\* clicked meanwhile and however replies are lost or overtake each other.
EndIsNoticed == row.state # "running" ~> ~auto \/ row.state = "running"
=============================================================================
