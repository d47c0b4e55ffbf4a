--------------------------- MODULE StatusPageProofs ---------------------------
(***************************************************************************)
(* Theorems about StatusPage, for any number of fetches and clicks at      *)
(* once, of visits, runs and failing requests.                             *)
(***************************************************************************)
EXTENDS StatusPage, TLAPS

Types ==
    /\ job \in Job /\ unsaved \in SUBSET Write /\ row \in Row
    /\ events \in Nat /\ runs \in Nat
    /\ fetches \in [Slots -> Fetch]

\* What is or will be written of the latest run says that it has ended only
\* when it has.
RunInv ==
    /\ row.run <= runs
    /\ row.run = runs /\ row.state # "running" => job.state # "running"
    /\ \A w \in unsaved : w.run <= runs /\ (w.run = runs => job.state # "running")

\* A reply that has begun with the end of the latest run has, as far as it has
\* come, what the run has left for good.
FetchOK(f) ==
    f.step \in {"row", "events", "answered"} =>
        /\ f.row \in Row /\ f.row.run <= runs
        /\ f.row.run = runs /\ f.row.state # "running" =>
              /\ job.state # "running"
              /\ f.step \in {"events", "answered"} => f.events = events
              /\ f.step = "answered" => f.counted = PagesCrawled

FetchInv == \A s \in Slots : FetchOK(fetches[s])

PageInv == Types /\ RunInv /\ FetchInv

-----------------------------------------------------------------------------
\* A step of one fetch.
LEMMA FetchStep ==
  ASSUME PageInv, NEW s \in Slots, NEW f \in Fetch, FetchOK(f),
         fetches' = [fetches EXCEPT ![s] = f], UNCHANGED server
  PROVE  PageInv'
  <1>1. /\ job' = job /\ unsaved' = unsaved /\ row' = row
        /\ events' = events /\ runs' = runs
    BY DEF server
  <1>2. Types' /\ RunInv'
    BY <1>1 DEF PageInv, Types, RunInv
  <1>3. \A g : FetchOK(g) => FetchOK(g)'
    BY <1>1 DEF FetchOK, PagesCrawled
  <1>4. \A t \in Slots : fetches'[t] = IF t = s THEN f ELSE fetches[t]
    BY DEF PageInv, Types
  <1>5. FetchInv'
    <2> SUFFICES ASSUME NEW t \in Slots PROVE FetchOK(fetches[t])'
      BY DEF FetchInv
    <2>1. FetchOK(fetches[t])
      BY DEF PageInv, FetchInv
    <2> QED
      BY <2>1, <1>1, <1>4 DEF FetchOK, PagesCrawled
  <1> QED
    BY <1>2, <1>5 DEF PageInv

\* A step of the server that either concerns a run that goes on, or leaves
\* everything that a reply can show of an ended one.
LEMMA ServerStep ==
  ASSUME PageInv, fetches' = fetches, Types', RunInv', runs' = runs,
         \/ job.state = "running"
         \/ /\ job'.state # "running" /\ events' = events
            /\ job'.app = job.app /\ job'.counted = job.counted
  PROVE  PageInv'
  <1>1. \A s \in Slots : FetchOK(fetches[s])'
    BY DEF PageInv, FetchInv, FetchOK, PagesCrawled
  <1> QED
    BY <1>1 DEF PageInv, FetchInv

\* Neither the server nor a fetch moves.
LEMMA Elsewhere ==
  ASSUME PageInv, UNCHANGED <<server, fetches>>
  PROVE  PageInv'
  BY DEF PageInv, server, Types, RunInv, FetchInv, FetchOK, PagesCrawled

-----------------------------------------------------------------------------
(* The job thread.                                                         *)

LEMMA VisitSteps ==
  ASSUME PageInv, NEW counts \in BOOLEAN, VisitStart \/ VisitEnd(counts)
  PROVE  PageInv'
  <1>1. /\ job.state = "running" /\ fetches' = fetches /\ runs' = runs
        /\ unsaved' = unsaved /\ row' = row
    BY DEF VisitStart, VisitEnd
  <1>2. job' \in Job /\ job'.state = job.state
    <2>1. PICK n \in {job.counted, job.counted + 1}, busy \in BOOLEAN :
             job' = [job EXCEPT !.busy = busy, !.counted = n]
      <3>1. CASE VisitStart
        <4>1. job' = [job EXCEPT !.busy = TRUE, !.counted = job.counted]
          BY <3>1 DEF VisitStart, PageInv, Types, Job
        <4> QED
          BY <4>1
      <3>2. CASE VisitEnd(counts) /\ counts
        BY <3>2 DEF VisitEnd
      <3>3. CASE VisitEnd(counts) /\ ~counts
        BY <3>3 DEF VisitEnd
      <3> QED
        BY <3>1, <3>2, <3>3
    <2>2. n \in Nat
      BY DEF PageInv, Types, Job
    <2> QED
      BY <2>1, <2>2 DEF PageInv, Types, Job
  <1>3. events' \in Nat
    BY DEF VisitStart, VisitEnd, PageInv, Types
  <1> QED
    BY <1>1, <1>2, <1>3, ServerStep DEF PageInv, Types, RunInv

LEMMA RunEndsStep ==
  ASSUME PageInv, NEW raised \in BOOLEAN, RunEnds(raised)
  PROVE  PageInv'
  <1> DEFINE verdict == IF raised THEN "failed"
                        ELSE IF job.reason = None THEN "completed" ELSE job.reason
  <1>1. /\ job.state = "running" /\ fetches' = fetches /\ runs' = runs
        /\ row' = row /\ events' = events
        /\ job' = [job EXCEPT !.state = verdict, !.busy = FALSE]
        /\ unsaved' = unsaved \cup {[state |-> verdict, run |-> runs]}
    BY DEF RunEnds
  <1>2. verdict \in Ended
    BY DEF PageInv, Types, Job, Ended
  <1> HIDE DEF verdict
  <1>3. verdict \in States /\ verdict # "running"
    BY <1>2 DEF States, Ended
  <1>4. job' \in Job /\ job'.state = verdict
    BY <1>1, <1>3 DEF PageInv, Types, Job
  <1>5. unsaved' \in SUBSET Write
    BY <1>1, <1>3 DEF PageInv, Types, Write
  <1>6. RunInv'
    BY <1>1, <1>3, <1>4 DEF PageInv, Types, RunInv, Write
  <1> QED
    BY <1>1, <1>4, <1>5, <1>6, ServerStep DEF PageInv, Types

LEMMA UpsertStep ==
  ASSUME PageInv, NEW w \in unsaved, UpsertFinished(w)
  PROVE  PageInv'
  <1>1. /\ job' = job /\ fetches' = fetches /\ runs' = runs /\ events' = events
        /\ unsaved' = unsaved \ {w}
        /\ row' = [state |-> w.state, run |-> w.run, version |-> row.version + 1]
    BY DEF UpsertFinished, RowWrite
  <1>2. w \in Write
    BY DEF PageInv, Types
  <1>3. row' \in Row
    BY <1>1, <1>2 DEF PageInv, Types, Row, Write
  <1>4. RunInv'
    BY <1>1, <1>2 DEF PageInv, RunInv
  <1> QED
    BY <1>1, <1>3, <1>4, ServerStep DEF PageInv, Types

-----------------------------------------------------------------------------
(* get_crawler_status.                                                     *)

LEMMA ReadSteps ==
  ASSUME PageInv, NEW s \in Slots, ReadRow(s) \/ ReadEvents(s) \/ ReadStatus(s)
  PROVE  PageInv'
  <1>1. UNCHANGED server
    BY DEF ReadRow, ReadEvents, ReadStatus
  <1>2. fetches[s] \in Fetch /\ FetchOK(fetches[s])
    BY DEF PageInv, Types, FetchInv
  <1>3. CASE ReadRow(s)
    <2> DEFINE f == [fetches[s] EXCEPT !.step = "row", !.row = row]
    <2>1. fetches' = [fetches EXCEPT ![s] = f]
      BY <1>3 DEF ReadRow
    <2>2. f \in Fetch /\ f.step = "row" /\ f.row = row
      BY <1>2 DEF PageInv, Types, Fetch
    <2>3. FetchOK(f)
      BY <2>2 DEF FetchOK, PageInv, Types, RunInv
    <2> HIDE DEF f
    <2> QED
      BY <2>1, <2>2, <2>3, <1>1, FetchStep
  <1>4. CASE ReadEvents(s)
    <2> DEFINE f == [fetches[s] EXCEPT !.step = "events", !.events = events]
    <2>1. fetches' = [fetches EXCEPT ![s] = f] /\ fetches[s].step = "row"
      BY <1>4 DEF ReadEvents
    <2>2. f \in Fetch /\ f.step = "events" /\ f.row = fetches[s].row /\ f.events = events
      BY <1>2 DEF PageInv, Types, Fetch
    <2>3. FetchOK(f)
      BY <2>1, <2>2, <1>2 DEF FetchOK
    <2> HIDE DEF f
    <2> QED
      BY <2>1, <2>2, <2>3, <1>1, FetchStep
  <1>5. CASE ReadStatus(s)
    <2> DEFINE f == [fetches[s] EXCEPT !.step = "answered", !.counted = PagesCrawled]
    <2>1. fetches' = [fetches EXCEPT ![s] = f] /\ fetches[s].step = "events"
      BY <1>5 DEF ReadStatus
    <2>2. PagesCrawled \in Nat
      BY DEF PagesCrawled, PageInv, Types, Job
    <2>3. /\ f \in Fetch /\ f.step = "answered" /\ f.row = fetches[s].row
          /\ f.events = fetches[s].events /\ f.counted = PagesCrawled
      BY <1>2, <2>2 DEF Fetch
    <2>4. FetchOK(f)
      BY <2>1, <2>3, <1>2 DEF FetchOK
    <2> HIDE DEF f
    <2> QED
      BY <2>1, <2>3, <2>4, <1>1, FetchStep
  <1> QED
    BY <1>3, <1>4, <1>5

-----------------------------------------------------------------------------
(* The page.                                                               *)

LEMMA IdleAndSent ==
  /\ IdleFetch \in Fetch /\ FetchOK(IdleFetch)
  /\ [IdleFetch EXCEPT !.step = "sent"] \in Fetch
  /\ FetchOK([IdleFetch EXCEPT !.step = "sent"])
  BY DEF IdleFetch, Fetch, FetchOK

LEMMA SendAndDeliver ==
  ASSUME PageInv, NEW s \in Slots,
         TimerFires(s) \/ ClickRefresh(s) \/ Deliver(s) \/ LoseDetail(s)
  PROVE  PageInv'
  <1>1. UNCHANGED server
    BY DEF TimerFires, ClickRefresh, Deliver, LoseDetail
  <1>2. \/ fetches' = [fetches EXCEPT ![s] = IdleFetch]
        \/ fetches' = [fetches EXCEPT ![s] = [IdleFetch EXCEPT !.step = "sent"]]
    BY DEF TimerFires, ClickRefresh, Deliver, LoseDetail, Send
  <1> QED
    BY <1>1, <1>2, IdleAndSent, FetchStep

LEMMA HaltStep ==
  ASSUME PageInv, NEW h \in Handlers, NEW arrives \in BOOLEAN, ServeHalt(h, arrives)
  PROVE  PageInv'
  <1>1. /\ unsaved' = unsaved /\ row' = row /\ events' = events /\ runs' = runs
        /\ fetches' = fetches
    BY DEF ServeHalt
  <1>2. CASE job.state = "running"
    <2>1. PICK reason \in {"paused", "stopped"} : job' = [job EXCEPT !.reason = reason]
      BY <1>2 DEF ServeHalt
    <2>2. job' \in Job /\ job'.state = job.state
      BY <2>1 DEF PageInv, Types, Job
    <2> QED
      BY <1>1, <1>2, <2>2, ServerStep DEF PageInv, Types, RunInv
  <1>3. CASE job.state # "running"
    <2>1. job' = job
      BY <1>3 DEF ServeHalt
    <2> QED
      BY <1>1, <2>1, Elsewhere DEF server
  <1> QED
    BY <1>2, <1>3

\* With a new run, no row and no reply is about the latest run any more but the
\* row written now.
LEMMA ResumeStep ==
  ASSUME PageInv, NEW h \in Handlers, NEW arrives \in BOOLEAN, ServeResume(h, arrives)
  PROVE  PageInv'
  <1>1. unsaved' = unsaved /\ events' = events /\ fetches' = fetches
    BY DEF ServeResume
  <1>2. CASE job.state = "running"
    <2>1. job' = job /\ runs' = runs /\ row' = row
      BY <1>2 DEF ServeResume
    <2> QED
      BY <1>1, <2>1, Elsewhere DEF server
  <1>3. CASE job.state # "running"
    <2>1. /\ job' = [state |-> "running", reason |-> None, app |-> TRUE,
                     busy |-> FALSE, counted |-> 0]
          /\ runs' = runs + 1
          /\ row' = [state |-> "running", run |-> runs', version |-> row.version + 1]
      BY <1>3 DEF ServeResume, RowWrite
    <2>2. job' \in Job /\ runs' \in Nat /\ row' \in Row
      BY <2>1 DEF PageInv, Types, Job, Row, States
    <2>3. Types'
      BY <1>1, <2>2 DEF PageInv, Types
    <2>4. RunInv'
      BY <1>1, <2>1 DEF PageInv, Types, RunInv, Write
    <2>5. ASSUME NEW s \in Slots PROVE FetchOK(fetches[s])'
      <3>1. FetchOK(fetches[s])
        BY DEF PageInv, FetchInv
      <3>2. fetches[s].step \in {"row", "events", "answered"} =>
               fetches[s].row \in Row /\ fetches[s].row.run <= runs
                   /\ fetches[s].row.run \in Nat
        BY <3>1 DEF FetchOK, Row
      <3> QED
        BY <3>2, <1>1, <2>1 DEF FetchOK, PageInv, Types
    <2> QED
      BY <2>3, <2>4, <2>5 DEF PageInv, FetchInv
  <1> QED
    BY <1>2, <1>3

\* The other steps of a click; the last one sends a fetch.
LEMMA ClickSteps ==
  ASSUME PageInv, NEW h \in Handlers, NEW intent \in Intents,
         \/ Click(h, intent) \/ LosePost(h) \/ AskState(h) \/ LoseState(h) \/ AskAgain(h)
         \/ \E s \in Slots : HearState(h, s)
  PROVE  PageInv'
  <1>1. CASE \/ Click(h, intent) \/ LosePost(h) \/ AskState(h) \/ LoseState(h)
             \/ AskAgain(h)
    <2>1. UNCHANGED <<server, fetches>>
      BY <1>1 DEF Click, LosePost, AskState, LoseState, AskAgain
    <2> QED
      BY <2>1, Elsewhere
  <1>2. ASSUME NEW s \in Slots, HearState(h, s) PROVE PageInv'
    BY <1>2, IdleAndSent, FetchStep DEF HearState, Send
  <1> QED
    BY <1>1, <1>2

-----------------------------------------------------------------------------
LEMMA StepKeeps ==
  ASSUME PageInv, [Next]_vars
  PROVE  PageInv'
  <1>1. CASE UNCHANGED vars
    BY <1>1, Elsewhere DEF vars
  <1>2. CASE JobThread
    BY <1>2, VisitSteps, RunEndsStep, UpsertStep DEF JobThread
  <1>3. ASSUME NEW s \in Slots, TimerFires(s) \/ ClickRefresh(s) \/ Exchange(s)
        PROVE  PageInv'
    BY <1>3, ReadSteps, SendAndDeliver DEF Exchange
  <1>4. ASSUME NEW h \in Handlers, Handle(h) PROVE PageInv'
    <2>1. ASSUME NEW arrives \in BOOLEAN, ServeHalt(h, arrives) \/ ServeResume(h, arrives)
          PROVE  PageInv'
      BY <2>1, HaltStep, ResumeStep
    <2>2. CASE \/ LosePost(h) \/ AskState(h) \/ LoseState(h) \/ AskAgain(h)
               \/ \E s \in Slots : HearState(h, s)
      BY <2>2, ClickSteps DEF Intents
    <2> QED
      BY <1>4, <2>1, <2>2 DEF Handle
  <1>5. ASSUME NEW h \in Handlers, NEW intent \in Intents, Click(h, intent) PROVE PageInv'
    BY <1>5, ClickSteps
  <1> QED
    BY <1>1, <1>2, <1>3, <1>4, <1>5 DEF Next

LEMMA InitHolds ==
  ASSUME Init
  PROVE  PageInv
  <1>1. PICK app \in BOOLEAN :
           /\ job = [state |-> IF app THEN "running" ELSE "interrupted", reason |-> None,
                     app |-> app, busy |-> FALSE, counted |-> 0]
           /\ row = [state |-> job.state, run |-> 1, version |-> 1]
           /\ events = IF app THEN 0 ELSE 1
    BY DEF Init
  <1>2. unsaved = {} /\ runs = 1 /\ fetches = [s \in Slots |-> IdleFetch]
    BY DEF Init
  <1>3. job.state \in States /\ row.state = job.state /\ row.run = 1 /\ events \in Nat
    BY <1>1 DEF States, Ended
  <1>4. job \in Job
    BY <1>1 DEF Job, States, Ended
  <1>5. row \in Row
    BY <1>1, <1>3 DEF Row
  <1>6. Types
    BY <1>2, <1>3, <1>4, <1>5, IdleAndSent DEF Types
  <1>7. RunInv
    BY <1>2, <1>3 DEF RunInv
  <1>8. FetchInv
    BY <1>2, IdleAndSent DEF FetchInv
  <1> QED
    BY <1>6, <1>7, <1>8 DEF PageInv

\* manager.py:215-243, server.py refreshCrawlerDetail: a reply that says the run
\* has ended is complete, so the page may stop asking.
THEOREM EndedIsFinal == Spec => []EndedRepliesAreFinal
  <1>1. PageInv /\ [Next]_vars => PageInv'
    BY StepKeeps
  <1>2. PageInv => EndedRepliesAreFinal
    BY DEF PageInv, FetchInv, FetchOK, EndedRepliesAreFinal
  <1> QED
    BY <1>1, <1>2, InitHolds, PTL DEF Spec
-----------------------------------------------------------------------------
(* Types.                                                                  *)

PageTypes ==
    /\ shown \in States /\ detail \in Detail /\ auto \in BOOLEAN
    /\ handlers \in [Handlers -> Handler]
    /\ clicks \in Nat /\ losses \in Nat /\ newest \in Nat /\ overtaken \in BOOLEAN

LEMMA TypeParts == (TypeOK <=> Types /\ PageTypes) /\ (TypeOK' <=> Types' /\ PageTypes')
  <1>1. TypeOK <=> Types /\ PageTypes
    BY DEF TypeOK, Types, PageTypes
  <1>2. TypeOK' <=> Types' /\ PageTypes'
    BY DEF TypeOK, Types, PageTypes
  <1> QED
    BY <1>1, <1>2

\* The buttons made anew; a handler that goes on or is idle again.
LEMMA HandlerTypes ==
  ASSUME TypeOK, NEW h \in Handlers
  PROVE  /\ NewButtons(handlers) \in [Handlers -> Handler]
         /\ IdleHandler \in Handler
         /\ [NewButtons(handlers) EXCEPT ![h] = IdleHandler] \in [Handlers -> Handler]
         /\ \A r \in Handler : Advance(h, r) => handlers' \in [Handlers -> Handler]
         /\ \A g \in Handlers : NewButtons(handlers)[g] = [handlers[g] EXCEPT !.own = FALSE]
  <1>1. \A g \in Handlers : handlers[g] \in Handler
    BY DEF TypeOK
  <1>2. \A g \in Handlers : [handlers[g] EXCEPT !.own = FALSE] \in Handler
    BY <1>1 DEF Handler
  <1>3. IdleHandler \in Handler
    BY DEF IdleHandler, Handler
  <1>4. NewButtons(handlers) \in [Handlers -> Handler]
    BY <1>2 DEF NewButtons
  <1>5. \A r \in Handler : Advance(h, r) => handlers' \in [Handlers -> Handler]
    BY DEF TypeOK, Advance
  <1> QED
    BY <1>3, <1>4, <1>5 DEF NewButtons

LEMMA ShowTypes ==
  ASSUME TypeOK, NEW state \in States, NEW version \in Nat, Show(state, version)
  PROVE  shown' \in States /\ newest' \in Nat /\ overtaken' \in BOOLEAN
  BY DEF TypeOK, Show

\* What a click does to its handler.
LEMMA HandlerMoves ==
  ASSUME TypeOK, NEW h \in Handlers
  PROVE  /\ \A intent \in Intents : Click(h, intent) =>
                Advance(h, [IdleHandler EXCEPT !.intent = intent, !.step = "post", !.own = TRUE])
                /\ [IdleHandler EXCEPT !.intent = intent, !.step = "post", !.own = TRUE] \in Handler
         /\ [handlers[h] EXCEPT !.step = "ask"] \in Handler
         /\ [handlers[h] EXCEPT !.step = "told", !.got = row] \in Handler
         /\ [handlers[h] EXCEPT !.step = "told", !.got = None] \in Handler
         /\ [handlers[h] EXCEPT !.step = "ask", !.got = None,
                !.tries = IF @ < Attempts THEN @ + 1 ELSE @] \in Handler
  <1>1. handlers[h] \in Handler /\ row \in Row
    BY DEF TypeOK
  <1>2. \A intent \in Intents :
            [IdleHandler EXCEPT !.intent = intent, !.step = "post", !.own = TRUE] \in Handler
    BY DEF IdleHandler, Handler
  <1>3. [handlers[h] EXCEPT !.step = "ask", !.got = None,
            !.tries = IF @ < Attempts THEN @ + 1 ELSE @] \in Handler
    <2> DEFINE n == IF handlers[h].tries < Attempts THEN handlers[h].tries + 1
                    ELSE handlers[h].tries
    <2>1. n \in Nat
      BY <1>1, BoundsAssumption DEF Handler
    <2> HIDE DEF n
    <2>2. [handlers[h] EXCEPT !.step = "ask", !.got = None, !.tries = n] \in Handler
      BY <1>1, <2>1 DEF Handler
    <2> QED
      BY <2>2 DEF n
  <1> QED
    BY <1>1, <1>2, <1>3 DEF Handler, Click

LEMMA PageTypeStep ==
  ASSUME TypeOK, PageInv, [Next]_vars
  PROVE  PageTypes'
  <1> USE DEF PageTypes, page
  <1>0. TypeOK => PageTypes
    BY TypeParts
  <1>1. CASE UNCHANGED vars
    BY <1>0, <1>1 DEF vars
  <1>2. CASE JobThread
    BY <1>0, <1>2 DEF JobThread, VisitStart, VisitEnd, RunEnds, UpsertFinished
  <1>3. ASSUME NEW s \in Slots, TimerFires(s) \/ ClickRefresh(s) \/ Exchange(s)
        PROVE  PageTypes'
    <2>1. CASE TimerFires(s) \/ ClickRefresh(s) \/ ReadRow(s) \/ ReadEvents(s) \/ ReadStatus(s)
               \/ LoseDetail(s)
      BY <1>0, <2>1 DEF TimerFires, ClickRefresh, ReadRow, ReadEvents, ReadStatus, LoseDetail
    <2>2. ASSUME Deliver(s) PROVE PageTypes'
      <3>1. fetches[s] \in Fetch /\ fetches[s].row \in Row
        BY <2>2 DEF TypeOK, Deliver, PageInv, FetchInv, FetchOK
      <3>2. shown' \in States /\ newest' \in Nat /\ overtaken' \in BOOLEAN
        BY <2>2, <3>1, ShowTypes DEF Deliver, Row
      <3>3. detail' \in Detail
        BY <2>2, <3>1 DEF Deliver, Detail, Fetch
      <3>4. handlers' \in [Handlers -> Handler]
        <4>1. handlers' = NewButtons(handlers)
          BY <2>2 DEF Deliver
        <4>2. \A g \in Handlers : [handlers[g] EXCEPT !.own = FALSE] \in Handler
          BY DEF TypeOK, Handler
        <4> QED
          BY <4>1, <4>2 DEF NewButtons
      <3>5. auto' \in BOOLEAN /\ clicks' = clicks /\ losses' = losses
        BY <2>2 DEF Deliver, TypeOK
      <3> QED
        BY <1>0, <3>2, <3>3, <3>4, <3>5
    <2> QED
      BY <1>3, <2>1, <2>2 DEF Exchange
  <1>4. ASSUME NEW h \in Handlers, NEW intent \in Intents, Click(h, intent) PROVE PageTypes'
    <2>1. handlers' \in [Handlers -> Handler]
      BY <1>4, HandlerTypes, HandlerMoves
    <2> QED
      BY <1>0, <1>4, <2>1 DEF Click
  <1>5. ASSUME NEW h \in Handlers, Handle(h) PROVE PageTypes'
    <2>1. ASSUME NEW accepted, NEW arrives \in BOOLEAN, Answer(h, accepted, arrives)
          PROVE  handlers' \in [Handlers -> Handler] /\ losses' \in Nat
      <3>1. \E r \in {[handlers[h] EXCEPT !.step = "ask"], IdleHandler} : Advance(h, r)
        BY <2>1 DEF Answer
      <3>2. losses' \in Nat
        BY <1>0, <2>1 DEF Answer
      <3> QED
        BY <3>1, <3>2, HandlerTypes, HandlerMoves
    <2>2. ASSUME NEW arrives \in BOOLEAN, ServeHalt(h, arrives) \/ ServeResume(h, arrives)
          PROVE  PageTypes'
      <3>1. PICK accepted : Answer(h, accepted, arrives)
        BY <2>2 DEF ServeHalt, ServeResume
      <3>2. handlers' \in [Handlers -> Handler] /\ losses' \in Nat
        BY <2>1, <3>1
      <3> QED
        BY <1>0, <2>2, <3>2 DEF ServeHalt, ServeResume
    <2>3. CASE LosePost(h) \/ AskState(h) \/ LoseState(h) \/ AskAgain(h)
      <3>1. handlers' \in [Handlers -> Handler]
        BY <2>3, HandlerTypes, HandlerMoves DEF LosePost, AskState, LoseState, AskAgain
      <3>2. losses' \in Nat /\ clicks' = clicks /\ UNCHANGED page
        BY <1>0, <2>3 DEF LosePost, AskState, LoseState, AskAgain
      <3> QED
        BY <1>0, <3>1, <3>2
    <2>4. ASSUME NEW s \in Slots, HearState(h, s) PROVE PageTypes'
      <3>1. handlers[h] \in Handler
        BY DEF TypeOK
      <3>2. shown' \in States /\ newest' \in Nat /\ overtaken' \in BOOLEAN
        <4>1. \A intent : Assumed(intent) \in States
          BY DEF Assumed, States, Ended
        <4> QED
          BY <1>0, <2>4, <3>1, <4>1, ShowTypes DEF HearState, Handler, Row
      <3>3. handlers' \in [Handlers -> Handler]
        BY <2>4, HandlerTypes DEF HearState
      <3> QED
        BY <1>0, <2>4, <3>2, <3>3 DEF HearState
    <2> QED
      BY <1>5, <2>2, <2>3, <2>4 DEF Handle
  <1> QED
    BY <1>1, <1>2, <1>3, <1>4, <1>5 DEF Next

LEMMA TypeInit == Init => TypeOK
  <1> SUFFICES ASSUME Init PROVE TypeOK
    OBVIOUS
  <1>1. Types
    BY InitHolds DEF PageInv
  <1>2. IdleHandler \in Handler
    BY DEF IdleHandler, Handler
  <1>3. PageTypes
    BY <1>1, <1>2 DEF Init, PageTypes, Types, Row, Detail
  <1> QED
    BY <1>1, <1>3, TypeParts

\* Every variable keeps its type, for any number of fetches and clicks.
THEOREM TypeCorrect == Spec => []TypeOK
  <1>1. PageInv /\ TypeOK /\ [Next]_vars => PageInv' /\ TypeOK'
    BY StepKeeps, PageTypeStep, TypeParts DEF PageInv
  <1> QED
    BY <1>1, InitHolds, TypeInit, PTL DEF Spec

-----------------------------------------------------------------------------
(* Why a page that refreshes itself no more is right.  All of this is about *)
(* behaviours in which no request has failed and nothing older has come     *)
(* after something newer: then the versions of the row are in the order of  *)
(* the runs, at most two of each run.                                       *)

Clean == losses = 0 /\ ~overtaken

\* The first version of the row that is about its run.
Began == IF row.state = "running" THEN row.version ELSE row.version - 1

\* What the row was once, and when the run has ended the one row that says so.
Past(x) ==
    /\ x \in Row /\ 1 <= x.run /\ x.run <= row.run /\ x.version <= row.version
    /\ x.version = row.version => x = row
    /\ x.run = row.run => x.version >= Began /\ (x # row => x.state = "running")
    /\ x.run < row.run => x.version < Began

RowsInv ==
    /\ row.run = runs
    /\ \A w \in unsaved : w.state # "running" /\ (w.run = runs => row.state = "running")
    /\ \A w, v \in unsaved : w.run = v.run => w = v

\* What replies on their way know is past.
FetchKnows(f)   == f.step \in {"row", "events", "answered"} => Past(f.row)
HandlerKnows(g) == g.step = "told" => g.got # None /\ Past(g.got)

KnownInv ==
    /\ \A s \in Slots : FetchKnows(fetches[s])
    /\ \A h \in Handlers : HandlerKnows(handlers[h])

\* A click that has resumed the crawler and will show it.
Coming(g) ==
    /\ g.intent = "resume"
    /\ g.step = "ask" \/ (g.step = "told" /\ g.got.run = runs)

Seen(run) == [state |-> shown, run |-> run, version |-> newest]

\* The page shows the latest run, or somebody is about to.
ShownInv ==
    \E run \in 1 .. runs :
        /\ Past(Seen(run))
        /\ run = runs \/ \E h \in Handlers : Coming(handlers[h])

\* Once the end is shown, so are the visits and counters, or a reply is awaited.
Current == detail = [events |-> events, counted |-> PagesCrawled]

DetailInv ==
    newest = row.version /\ row.state # "running" =>
        Current \/ \E s \in Slots : fetches[s].step # "idle"

AutoInv == ~auto /\ runs = 1 => shown # "running"

OrderInv ==
    /\ runs >= 1
    /\ Clean => RowsInv /\ KnownInv /\ ShownInv /\ DetailInv /\ AutoInv

\* A reply takes a step on its way, or a fetch is sent.
LEMMA OrderFetch ==
  ASSUME TypeOK, OrderInv, NEW s \in Slots, NEW f, FetchKnows(f), f.step # "idle",
         fetches' = [fetches EXCEPT ![s] = f],
         UNCHANGED <<server, page, handlers, losses>>
  PROVE  OrderInv'
  <1> SUFFICES ASSUME Clean PROVE RowsInv' /\ KnownInv' /\ ShownInv' /\ DetailInv' /\ AutoInv'
    BY DEF OrderInv, Clean, server, page
  <1>1. \A t \in Slots : fetches'[t] = IF t = s THEN f ELSE fetches[t]
    BY DEF TypeOK
  <1>2. RowsInv' /\ AutoInv' /\ ShownInv'
    BY DEF OrderInv, RowsInv, AutoInv, ShownInv, Seen, Past, Began, Coming, server, page
  <1>3. KnownInv'
    <2>1. ASSUME NEW t \in Slots PROVE FetchKnows(fetches[t])'
      BY <1>1 DEF OrderInv, KnownInv, FetchKnows, Past, Began, server
    <2>2. ASSUME NEW h \in Handlers PROVE HandlerKnows(handlers[h])'
      BY DEF OrderInv, KnownInv, HandlerKnows, Past, Began, server
    <2> QED
      BY <2>1, <2>2 DEF KnownInv
  <1>4. DetailInv'
    BY <1>1 DEF DetailInv
  <1> QED
    BY <1>2, <1>3, <1>4

\* A click takes a step; the counters of the job stay.
LEMMA OrderHandler ==
  ASSUME TypeOK, OrderInv, NEW h \in Handlers, NEW r, HandlerKnows(r),
         Clean => (Coming(handlers[h]) => Coming(r)),
         handlers' = [handlers EXCEPT ![h] = r], Clean' => Clean,
         job'.app = job.app /\ job'.counted = job.counted,
         UNCHANGED <<unsaved, row, events, runs, page, fetches>>
  PROVE  OrderInv'
  <1> SUFFICES ASSUME Clean PROVE RowsInv' /\ KnownInv' /\ ShownInv' /\ DetailInv' /\ AutoInv'
    BY DEF OrderInv
  <1>1. \A g \in Handlers : handlers'[g] = IF g = h THEN r ELSE handlers[g]
    BY DEF TypeOK
  <1>2. RowsInv' /\ AutoInv'
    BY DEF OrderInv, RowsInv, AutoInv, page
  <1>3. KnownInv'
    <2>1. ASSUME NEW t \in Slots PROVE FetchKnows(fetches[t])'
      BY DEF OrderInv, KnownInv, FetchKnows, Past, Began
    <2>2. ASSUME NEW g \in Handlers PROVE HandlerKnows(handlers[g])'
      BY <1>1 DEF OrderInv, KnownInv, HandlerKnows, Past, Began
    <2> QED
      BY <2>1, <2>2 DEF KnownInv
  <1>4. ShownInv'
    <2>1. \A g \in Handlers : Coming(handlers[g]) => Coming(handlers[g])'
      BY <1>1 DEF Coming
    <2>2. PICK run \in 1 .. runs : /\ Past(Seen(run))
                                   /\ run = runs \/ \E g \in Handlers : Coming(handlers[g])
      BY DEF OrderInv, ShownInv
    <2>3. Past(Seen(run))'
      BY <2>2 DEF Past, Seen, Began, page
    <2> QED
      BY <2>1, <2>2, <2>3 DEF ShownInv
  <1>5. DetailInv'
    BY DEF OrderInv, DetailInv, Current, PagesCrawled, page
  <1> QED
    BY <1>2, <1>3, <1>4, <1>5

\* Whoever shows something that is past and not older than what is shown, shows
\* the latest run if it was shown.
LEMMA OrderShow ==
  ASSUME TypeOK, OrderInv, Clean, Clean', NEW x, Past(x), Show(x.state, x.version),
         UNCHANGED server
  PROVE  /\ x.run \in 1 .. runs' /\ Seen(x.run)' = x /\ Past(Seen(x.run))'
         /\ newest <= x.version /\ newest' = x.version /\ shown' = x.state
         /\ \A run \in 1 .. runs : Past(Seen(run)) /\ run = runs => x.run = runs
         /\ ~auto /\ runs = 1 => x.state # "running"
  <1>1. x \in Row /\ x.version \in Nat /\ x.run \in Nat /\ newest \in Nat /\ row \in Row
        /\ row.run \in Nat /\ row.version \in Nat /\ row.run = runs
    BY DEF Past, Row, TypeOK, OrderInv, RowsInv
  <1>2. newest <= x.version
    <2>1. ~ (x.version < newest)
      BY DEF Clean, Show
    <2> QED
      BY <1>1, <2>1
  <1>3. newest' = x.version /\ shown' = x.state
    BY <1>1, <1>2 DEF Show
  <1>4. Seen(x.run)' = x
    BY <1>1, <1>3 DEF Seen, Row
  <1>5. Past(Seen(x.run))'
    <2>1. Past(x)'
      BY DEF Past, Began, server
    <2> QED
      BY <1>4, <2>1 DEF Past
  <1>6. x.run \in 1 .. runs'
    BY <1>1 DEF Past, server
  <1>7. ASSUME NEW run \in 1 .. runs, Past(Seen(run)), run = runs PROVE x.run = runs
    <2>1. Seen(run).version >= Began
      BY <1>1, <1>7 DEF Past, Seen
    <2>2. x.version >= Began
      BY <1>1, <1>2, <2>1 DEF Seen, Began
    <2> QED
      BY <1>1, <2>2 DEF Past, Began
  <1>8. ASSUME ~auto, runs = 1 PROVE x.state # "running"
    <2>1. PICK run \in 1 .. runs : Past(Seen(run))
      BY DEF OrderInv, ShownInv
    <2>2. Seen(run) = row /\ row.state # "running" /\ newest = row.version
      BY <1>8, <2>1 DEF OrderInv, RowsInv, AutoInv, Past, Seen
    <2>3. x.version = row.version
      BY <1>1, <1>2, <2>2 DEF Past
    <2> QED
      BY <2>2, <2>3 DEF Past
  <1> QED
    BY <1>2, <1>3, <1>4, <1>5, <1>6, <1>7, <1>8

LEMMA OrderDeliver ==
  ASSUME TypeOK, PageInv, OrderInv, NEW s \in Slots, Deliver(s)
  PROVE  OrderInv'
  <1>0. PICK x : x = fetches[s].row
    OBVIOUS
  <1>1. /\ Show(x.state, x.version) /\ UNCHANGED server /\ losses' = losses
        /\ fetches[s].step = "answered" /\ fetches' = [fetches EXCEPT ![s] = IdleFetch]
        /\ handlers' = NewButtons(handlers)
        /\ detail' = [events |-> fetches[s].events, counted |-> fetches[s].counted]
        /\ auto' = (auto /\ shown' = "running")
    BY <1>0 DEF Deliver
  <1> SUFFICES ASSUME Clean, Clean'
               PROVE  RowsInv' /\ KnownInv' /\ ShownInv' /\ DetailInv' /\ AutoInv'
    BY <1>1 DEF OrderInv, Clean, Show, server
  <1>2. Past(x)
    BY <1>0, <1>1 DEF OrderInv, KnownInv, FetchKnows
  <1>3. /\ x.run \in 1 .. runs' /\ Seen(x.run)' = x /\ Past(Seen(x.run))'
        /\ newest <= x.version /\ newest' = x.version /\ shown' = x.state
        /\ \A run \in 1 .. runs : Past(Seen(run)) /\ run = runs => x.run = runs
        /\ ~auto /\ runs = 1 => x.state # "running"
    BY <1>1, <1>2, OrderShow
  <1>4. \A g \in Handlers :
            /\ handlers'[g].step = handlers[g].step /\ handlers'[g].got = handlers[g].got
            /\ handlers'[g].intent = handlers[g].intent
    <2>1. \A g \in Handlers : handlers[g] \in Handler
      BY DEF TypeOK
    <2>2. ASSUME NEW g \in Handlers PROVE handlers'[g] = [handlers[g] EXCEPT !.own = FALSE]
      BY <1>1 DEF NewButtons
    <2> QED
      BY <2>1, <2>2 DEF Handler
  <1>5. \A t \in Slots : fetches'[t] = IF t = s THEN IdleFetch ELSE fetches[t]
    BY <1>1 DEF TypeOK
  <1>6. RowsInv'
    BY <1>1 DEF OrderInv, RowsInv, server
  <1>7. KnownInv'
    <2>1. ASSUME NEW t \in Slots PROVE FetchKnows(fetches[t])'
      BY <1>1, <1>5 DEF OrderInv, KnownInv, FetchKnows, Past, Began, server, IdleFetch
    <2>2. ASSUME NEW g \in Handlers PROVE HandlerKnows(handlers[g])'
      BY <1>1, <1>4 DEF OrderInv, KnownInv, HandlerKnows, Past, Began, server
    <2> QED
      BY <2>1, <2>2 DEF KnownInv
  <1>8. ShownInv'
    <2>0. PICK run \in 1 .. runs : /\ Past(Seen(run))
                                   /\ run = runs \/ \E g \in Handlers : Coming(handlers[g])
      BY DEF OrderInv, ShownInv
    <2>1. x.run = runs \/ \E g \in Handlers : Coming(handlers[g])
      BY <1>3, <2>0
    <2>2. \A g \in Handlers : Coming(handlers[g]) => Coming(handlers[g])'
      BY <1>1, <1>4 DEF Coming, server
    <2>3. runs' = runs
      BY <1>1 DEF server
    <2>4. x.run = runs' \/ \E g \in Handlers : Coming(handlers[g])'
      BY <2>1, <2>2, <2>3
    <2> QED
      BY <1>3, <2>4 DEF ShownInv
  \* The reply that shows the end has the visits and counters of the run.
  <1>9. DetailInv'
    <2> SUFFICES ASSUME x.version = row.version, row.state # "running" PROVE Current'
      BY <1>1, <1>3 DEF DetailInv, server
    <2>1. x = row /\ x.run = runs
      BY <1>2 DEF Past, OrderInv, RowsInv
    <2>2. fetches[s].events = events /\ fetches[s].counted = PagesCrawled
      BY <1>0, <1>1, <2>1 DEF PageInv, FetchInv, FetchOK
    <2> QED
      BY <1>1, <2>2 DEF Current, PagesCrawled, server
  <1>10. AutoInv'
    BY <1>1, <1>3 DEF AutoInv, server
  <1> QED
    BY <1>6, <1>7, <1>8, <1>9, <1>10

LEMMA OrderHear ==
  ASSUME TypeOK, PageInv, OrderInv, NEW h \in Handlers, NEW s \in Slots, HearState(h, s)
  PROVE  OrderInv'
  <1>0. PICK x : x = handlers[h].got
    OBVIOUS
  <1>1. /\ handlers[h].step = "told"
        /\ fetches' = [fetches EXCEPT ![s] = [IdleFetch EXCEPT !.step = "sent"]]
        /\ handlers' = [NewButtons(handlers) EXCEPT ![h] = IdleHandler]
        /\ UNCHANGED <<server, detail, auto, losses>>
    BY DEF HearState, Send
  <1>2. x # None => Show(x.state, x.version)
    BY <1>0 DEF HearState
  <1>3. Clean' => Clean
    BY <1>1 DEF HearState, Clean, Show
  <1> SUFFICES ASSUME Clean, Clean'
               PROVE  RowsInv' /\ KnownInv' /\ ShownInv' /\ DetailInv' /\ AutoInv'
    BY <1>1, <1>3 DEF OrderInv, server
  <1>4. x # None /\ Past(x)
    BY <1>0, <1>1 DEF OrderInv, KnownInv, HandlerKnows
  <1>5. /\ x.run \in 1 .. runs' /\ Seen(x.run)' = x /\ Past(Seen(x.run))'
        /\ newest <= x.version /\ newest' = x.version /\ shown' = x.state
        /\ \A run \in 1 .. runs : Past(Seen(run)) /\ run = runs => x.run = runs
        /\ ~auto /\ runs = 1 => x.state # "running"
    BY <1>1, <1>2, <1>4, OrderShow
  <1>6. /\ handlers'[h] = IdleHandler
        /\ \A g \in Handlers \ {h} :
              /\ handlers'[g].step = handlers[g].step /\ handlers'[g].got = handlers[g].got
              /\ handlers'[g].intent = handlers[g].intent
    <2>1. \A g \in Handlers : handlers[g] \in Handler
      BY DEF TypeOK
    <2>2. /\ NewButtons(handlers) \in [Handlers -> Handler]
          /\ \A g \in Handlers : NewButtons(handlers)[g] = [handlers[g] EXCEPT !.own = FALSE]
      BY HandlerTypes
    <2>3. handlers'[h] = IdleHandler
      BY <1>1, <2>2
    <2>4. ASSUME NEW g \in Handlers \ {h} PROVE handlers'[g] = [handlers[g] EXCEPT !.own = FALSE]
      BY <1>1, <2>2
    <2> QED
      BY <2>1, <2>3, <2>4 DEF Handler
  <1>7. \A t \in Slots : fetches'[t] = IF t = s THEN [IdleFetch EXCEPT !.step = "sent"]
                                       ELSE fetches[t]
    BY <1>1 DEF TypeOK
  <1>8. RowsInv' /\ AutoInv'
    BY <1>1, <1>5 DEF OrderInv, RowsInv, AutoInv, server
  <1>9. KnownInv'
    <2>1. ASSUME NEW t \in Slots PROVE FetchKnows(fetches[t])'
      BY <1>1, <1>7 DEF OrderInv, KnownInv, FetchKnows, Past, Began, server, IdleFetch
    <2>2. ASSUME NEW g \in Handlers PROVE HandlerKnows(handlers[g])'
      <3>1. CASE g = h
        BY <1>6, <3>1 DEF HandlerKnows, IdleHandler
      <3>2. CASE g # h
        BY <1>1, <1>6, <3>2 DEF OrderInv, KnownInv, HandlerKnows, Past, Began, server
      <3> QED
        BY <3>1, <3>2
    <2> QED
      BY <2>1, <2>2 DEF KnownInv
  <1>10. ShownInv'
    <2>1. PICK run \in 1 .. runs : /\ Past(Seen(run))
                                   /\ run = runs \/ \E g \in Handlers : Coming(handlers[g])
      BY DEF OrderInv, ShownInv
    <2>2. runs' = runs
      BY <1>1 DEF server
    <2>3. ASSUME NEW g \in Handlers, Coming(handlers[g])
          PROVE  x.run = runs' \/ Coming(handlers[g])'
      BY <1>0, <1>1, <1>6, <2>2, <2>3 DEF Coming
    <2>4. x.run = runs' \/ \E g \in Handlers : Coming(handlers[g])'
      BY <1>5, <2>1, <2>2, <2>3
    <2> QED
      BY <1>5, <2>4 DEF ShownInv
  <1>11. DetailInv'
    <2>1. fetches'[s].step # "idle"
      BY <1>7 DEF IdleFetch
    <2> QED
      BY <2>1 DEF DetailInv
  <1> QED
    BY <1>8, <1>9, <1>10, <1>11

\* A run that goes on, or ends: its row says that it runs.
LEMMA OrderRun ==
  ASSUME TypeOK, PageInv, OrderInv, job.state = "running", RowsInv => RowsInv',
         UNCHANGED <<row, runs, page, fetches, handlers, losses>>
  PROVE  OrderInv'
  <1> SUFFICES ASSUME Clean PROVE RowsInv' /\ KnownInv' /\ ShownInv' /\ DetailInv' /\ AutoInv'
    BY DEF OrderInv, Clean, page
  <1>1. row.state = "running"
    BY DEF PageInv, RunInv, OrderInv, RowsInv
  <1>2. RowsInv' /\ AutoInv' /\ DetailInv'
    BY <1>1 DEF OrderInv, AutoInv, DetailInv, page
  <1>3. KnownInv'
    BY DEF OrderInv, KnownInv, FetchKnows, HandlerKnows, Past, Began
  <1>4. ShownInv'
    BY DEF OrderInv, ShownInv, Seen, Past, Began, Coming, page
  <1> QED
    BY <1>2, <1>3, <1>4

LEMMA OrderJob ==
  ASSUME TypeOK, PageInv, OrderInv, NEW flag \in BOOLEAN,
         VisitStart \/ VisitEnd(flag) \/ RunEnds(flag)
  PROVE  OrderInv'
  <1>1. job.state = "running" /\ UNCHANGED <<row, runs, page, fetches, handlers, losses>>
    BY DEF VisitStart, VisitEnd, RunEnds
  <1>2. ASSUME RowsInv PROVE RowsInv'
    <2>1. CASE VisitStart \/ VisitEnd(flag)
      <3>1. unsaved' = unsaved
        BY <2>1 DEF VisitStart, VisitEnd
      <3> QED
        BY <1>1, <1>2, <3>1 DEF RowsInv
    <2>2. CASE RunEnds(flag)
      <3>1. PICK verdict : /\ verdict \in Ended
                           /\ unsaved' = unsaved \cup {[state |-> verdict, run |-> runs]}
        BY <2>2 DEF RunEnds, TypeOK, Job, Ended
      <3>2. verdict # "running"
        BY <3>1 DEF Ended
      <3>3. row.state = "running" /\ \A w \in unsaved : w.run # runs
        BY <1>1, <1>2 DEF RowsInv, PageInv, RunInv
      <3> QED
        BY <1>1, <1>2, <3>1, <3>2, <3>3 DEF RowsInv
    <2> QED
      BY <2>1, <2>2
  <1> QED
    BY <1>1, <1>2, OrderRun

\* The end of the latest run is written over its beginning; the write of an
\* older run is what overtaken tells.
LEMMA OrderUpsert ==
  ASSUME TypeOK, PageInv, OrderInv, NEW w \in unsaved, UpsertFinished(w)
  PROVE  OrderInv'
  <1>1. /\ unsaved' = unsaved \ {w}
        /\ row' = [state |-> w.state, run |-> w.run, version |-> row.version + 1]
        /\ UNCHANGED <<job, events, runs, shown, detail, auto, newest, fetches, handlers,
                       losses>>
    BY DEF UpsertFinished, RowWrite
  <1>2. Clean' => Clean /\ ~(w.run < row.run)
    BY <1>1 DEF UpsertFinished, Clean
  <1> SUFFICES ASSUME Clean, Clean'
               PROVE  RowsInv' /\ KnownInv' /\ ShownInv' /\ DetailInv' /\ AutoInv'
    BY <1>1, <1>2 DEF OrderInv
  <1>3. row \in Row /\ w \in Write /\ row.version \in Nat /\ row.run = runs
    BY DEF TypeOK, OrderInv, RowsInv, Row
  <1>4. w.run = runs
    BY <1>2, <1>3 DEF PageInv, RunInv, Row, Write
  <1>5. w.state # "running" /\ row.state = "running"
    BY <1>4 DEF OrderInv, RowsInv
  <1>6. Began' = Began
    BY <1>1, <1>3, <1>5 DEF Began
  <1>7. ASSUME NEW x, Past(x) PROVE Past(x)'
    BY <1>1, <1>3, <1>4, <1>5, <1>6, <1>7 DEF Past, Row
  <1>8. RowsInv'
    BY <1>1, <1>4 DEF OrderInv, RowsInv
  <1>9. KnownInv'
    BY <1>1, <1>7 DEF OrderInv, KnownInv, FetchKnows, HandlerKnows
  <1>10. PICK run \in 1 .. runs : /\ Past(Seen(run))
                                  /\ run = runs \/ \E g \in Handlers : Coming(handlers[g])
    BY DEF OrderInv, ShownInv
  <1>11. ShownInv'
    <2>1. Seen(run)' = Seen(run)
      BY <1>1 DEF Seen
    <2>2. Past(Seen(run))'
      BY <1>7, <1>10, <2>1 DEF Past
    <2> QED
      BY <1>1, <1>10, <2>2 DEF ShownInv, Coming
  <1>12. DetailInv'
    BY <1>1, <1>3, <1>10 DEF DetailInv, Past, Seen, TypeOK
  <1>13. AutoInv'
    BY <1>1 DEF OrderInv, AutoInv
  <1> QED
    BY <1>8, <1>9, <1>11, <1>12, <1>13

\* A resumption that is answered is about to be shown.
LEMMA OrderResume ==
  ASSUME TypeOK, PageInv, OrderInv, NEW h \in Handlers, NEW arrives \in BOOLEAN,
         ServeResume(h, arrives)
  PROVE  OrderInv'
  <1>1. handlers[h].step = "post" /\ handlers[h].intent = "resume"
        /\ UNCHANGED <<unsaved, events, page, fetches, clicks>>
    BY DEF ServeResume
  <1>2. CASE job.state = "running"
    <2>1. UNCHANGED <<job, runs, row>> /\ handlers' = [handlers EXCEPT ![h] = IdleHandler]
      BY <1>2 DEF ServeResume, Answer, Advance
    <2>2. losses' = losses \/ losses' = losses + 1
      BY DEF ServeResume, Answer
    <2>3. Clean' => Clean
      BY <1>1, <2>2 DEF Clean, page, TypeOK
    <2>4. HandlerKnows(IdleHandler) /\ ~Coming(handlers[h])
      BY <1>1 DEF HandlerKnows, IdleHandler, Coming
    <2> QED
      BY <1>1, <2>1, <2>3, <2>4, OrderHandler
  <1>3. CASE job.state # "running"
    <2>1. runs' = runs + 1
          /\ row' = [state |-> "running", run |-> runs', version |-> row.version + 1]
      BY <1>3 DEF ServeResume, RowWrite
    <2>2. runs \in Nat /\ runs >= 1 /\ runs' > 1 /\ runs' >= 1
      BY <2>1 DEF OrderInv, TypeOK
    <2>3. ~arrives => losses' = losses + 1
      BY DEF ServeResume, Answer
    <2>4. arrives => /\ losses' = losses
                     /\ handlers' = [handlers EXCEPT ![h] = [handlers[h] EXCEPT !.step = "ask"]]
      BY <1>3 DEF ServeResume, Answer, Advance
    <2>5. Clean' => Clean /\ arrives
      BY <1>1, <2>3, <2>4 DEF Clean, page, TypeOK
    <2> SUFFICES ASSUME Clean, arrives
                 PROVE  RowsInv' /\ KnownInv' /\ ShownInv' /\ DetailInv' /\ AutoInv'
      BY <2>2, <2>5 DEF OrderInv
    <2>6. row \in Row /\ row.version \in Nat /\ row.run = runs
      BY DEF TypeOK, OrderInv, RowsInv, Row
    <2>7. ASSUME NEW x, Past(x) PROVE Past(x)'
      BY <2>1, <2>2, <2>6, <2>7 DEF Past, Row, Began
    <2>8. /\ handlers'[h].step = "ask" /\ handlers'[h].intent = "resume"
          /\ \A g \in Handlers \ {h} : handlers'[g] = handlers[g]
      BY <1>1, <2>4 DEF TypeOK, Handler
    <2>9. RowsInv'
      BY <1>1, <2>1, <2>2 DEF OrderInv, RowsInv, PageInv, RunInv, TypeOK, Write
    <2>10. KnownInv'
      <3>1. ASSUME NEW t \in Slots PROVE FetchKnows(fetches[t])'
        BY <1>1, <2>7 DEF OrderInv, KnownInv, FetchKnows
      <3>2. ASSUME NEW g \in Handlers PROVE HandlerKnows(handlers[g])'
        <4>1. CASE g = h
          BY <2>8, <4>1 DEF HandlerKnows
        <4>2. CASE g # h
          BY <2>7, <2>8, <4>2 DEF OrderInv, KnownInv, HandlerKnows
        <4> QED
          BY <4>1, <4>2
      <3> QED
        BY <3>1, <3>2 DEF KnownInv
    <2>11. ShownInv'
      <3>1. PICK run \in 1 .. runs : Past(Seen(run))
        BY DEF OrderInv, ShownInv
      <3>2. Seen(run)' = Seen(run)
        BY <1>1 DEF Seen, page
      <3>3. Past(Seen(run))'
        BY <2>7, <3>1, <3>2 DEF Past
      <3>4. Coming(handlers[h])'
        BY <2>8 DEF Coming
      <3>5. run \in 1 .. runs'
        BY <2>1, <2>2
      <3> QED
        BY <3>3, <3>4, <3>5 DEF ShownInv
    <2>12. DetailInv' /\ AutoInv'
      BY <2>1, <2>2 DEF DetailInv, AutoInv
    <2> QED
      BY <2>9, <2>10, <2>11, <2>12
  <1> QED
    BY <1>2, <1>3

LEMMA OrderHalt ==
  ASSUME TypeOK, PageInv, OrderInv, NEW h \in Handlers, NEW arrives \in BOOLEAN,
         ServeHalt(h, arrives)
  PROVE  OrderInv'
  <1>1. /\ handlers[h].step = "post" /\ handlers[h].intent # "resume"
        /\ UNCHANGED <<unsaved, row, events, runs, page, fetches>>
    BY DEF ServeHalt
  <1>2. job'.app = job.app /\ job'.counted = job.counted
    <2>1. job' = job \/ \E reason : job' = [job EXCEPT !.reason = reason]
      BY DEF ServeHalt
    <2> QED
      BY <2>1 DEF TypeOK, Job
  <1>3. PICK r : /\ handlers' = [handlers EXCEPT ![h] = r]
                 /\ r = IdleHandler \/ r = [handlers[h] EXCEPT !.step = "ask"]
    BY DEF ServeHalt, Answer, Advance
  <1>4. HandlerKnows(r)
    BY <1>3 DEF HandlerKnows, IdleHandler, TypeOK, Handler
  <1>5. ~Coming(handlers[h])
    BY <1>1 DEF Coming
  <1>6. losses' = losses \/ losses' = losses + 1
    BY DEF ServeHalt, Answer
  <1>7. Clean' => Clean
    BY <1>1, <1>6 DEF Clean, page, TypeOK
  <1> QED
    BY <1>1, <1>2, <1>3, <1>4, <1>5, <1>7, OrderHandler

\* The other steps of a click.
LEMMA OrderClick ==
  ASSUME TypeOK, PageInv, OrderInv, NEW h \in Handlers, NEW intent \in Intents,
         \/ Click(h, intent) \/ LosePost(h) \/ AskState(h) \/ LoseState(h) \/ AskAgain(h)
  PROVE  OrderInv'
  <1> DEFINE Moves(r) == handlers' = [handlers EXCEPT ![h] = r]
  <1>1. handlers[h] \in Handler /\ row.run = row.run
    BY DEF TypeOK
  <1>2. CASE Click(h, intent)
    <2>1. PICK r : /\ Moves(r) /\ handlers[h].step = "idle"
                   /\ r = [IdleHandler EXCEPT !.intent = intent, !.step = "post", !.own = TRUE]
      BY <1>2 DEF Click, Advance
    <2>2. HandlerKnows(r) /\ ~Coming(handlers[h])
      BY <2>1 DEF HandlerKnows, IdleHandler, Coming
    <2>3. UNCHANGED <<server, page, fetches, losses>>
      BY <1>2 DEF Click
    <2> QED
      BY <2>1, <2>2, <2>3, OrderHandler DEF server, page, Clean
  <1>3. CASE LosePost(h) \/ LoseState(h)
    <2>1. losses' # 0 /\ runs' = runs
      BY <1>3 DEF LosePost, LoseState, TypeOK, server
    <2> QED
      BY <2>1 DEF OrderInv, Clean
  <1>4. CASE AskState(h)
    <2>1. PICK r : /\ Moves(r) /\ handlers[h].step = "ask"
                   /\ r = [handlers[h] EXCEPT !.step = "told", !.got = row]
      BY <1>4 DEF AskState, Advance
    <2>2. UNCHANGED <<server, page, fetches, losses>>
      BY <1>4 DEF AskState
    <2>3. r.step = "told" /\ r.got = row /\ r.intent = handlers[h].intent
      BY <1>1, <2>1 DEF Handler
    <2>4. CASE Clean
      <3>1. row.run = runs /\ row \in Row /\ row # None /\ runs >= 1
        BY <2>4, NoneAssumption DEF OrderInv, RowsInv, TypeOK
      <3>2. Past(row)
        BY <3>1 DEF Past, Began, Row
      <3>3. HandlerKnows(r) /\ (Coming(handlers[h]) => Coming(r))
        BY <2>3, <3>1, <3>2 DEF HandlerKnows, Coming
      <3> QED
        BY <2>1, <2>2, <3>3, OrderHandler DEF server, page, Clean
    <2>5. CASE ~Clean
      BY <2>2, <2>5 DEF OrderInv, Clean, server, page
    <2> QED
      BY <2>4, <2>5
  <1>5. CASE AskAgain(h)
    <2>1. PICK r : /\ Moves(r) /\ handlers[h].step = "told" /\ ~Stable(h)
                   /\ r = [handlers[h] EXCEPT !.step = "ask", !.got = None,
                             !.tries = IF @ < Attempts THEN @ + 1 ELSE @]
      BY <1>5 DEF AskAgain, Advance
    <2>2. UNCHANGED <<server, page, fetches, losses>>
      BY <1>5 DEF AskAgain
    <2>3. r.step = "ask" /\ ~Coming(handlers[h])
      BY <1>1, <2>1 DEF Handler, Coming, Stable
    <2>4. HandlerKnows(r)
      BY <2>3 DEF HandlerKnows
    <2> QED
      BY <2>1, <2>2, <2>3, <2>4, OrderHandler DEF server, page, Clean
  <1> QED
    BY <1>2, <1>3, <1>4, <1>5

LEMMA OrderFetchSteps ==
  ASSUME TypeOK, PageInv, OrderInv, NEW s \in Slots,
         TimerFires(s) \/ ClickRefresh(s) \/ Exchange(s)
  PROVE  OrderInv'
  <1>1. fetches[s] \in Fetch
    BY DEF TypeOK
  <1>2. CASE TimerFires(s) \/ ClickRefresh(s)
    <2>1. /\ fetches' = [fetches EXCEPT ![s] = [IdleFetch EXCEPT !.step = "sent"]]
          /\ UNCHANGED <<server, page, handlers, losses>>
      BY <1>2 DEF TimerFires, ClickRefresh, Send
    <2>2. FetchKnows([IdleFetch EXCEPT !.step = "sent"])
          /\ [IdleFetch EXCEPT !.step = "sent"].step # "idle"
      BY DEF FetchKnows, IdleFetch
    <2> QED
      BY <2>1, <2>2, OrderFetch
  <1>3. CASE ReadRow(s) \/ ReadEvents(s) \/ ReadStatus(s)
    <2>1. UNCHANGED <<server, page, handlers, losses>>
      BY <1>3 DEF ReadRow, ReadEvents, ReadStatus
    <2>2. PICK f : /\ fetches' = [fetches EXCEPT ![s] = f]
                   /\ f.step \in {"row", "events", "answered"}
                   /\ f.row = row \/ /\ f.row = fetches[s].row
                                     /\ fetches[s].step \in {"row", "events", "answered"}
      <3>1. CASE ReadRow(s)
        <4>1. PICK f : /\ fetches' = [fetches EXCEPT ![s] = f]
                       /\ f = [fetches[s] EXCEPT !.step = "row", !.row = row]
          BY <3>1 DEF ReadRow
        <4>2. f.step \in {"row", "events", "answered"} /\ f.row = row
          BY <1>1, <4>1 DEF Fetch
        <4> QED
          BY <4>1, <4>2
      <3>2. CASE ReadEvents(s)
        <4>1. PICK f : /\ fetches' = [fetches EXCEPT ![s] = f] /\ fetches[s].step = "row"
                       /\ f = [fetches[s] EXCEPT !.step = "events", !.events = events]
          BY <3>2 DEF ReadEvents
        <4>2. f.step \in {"row", "events", "answered"} /\ f.row = fetches[s].row
          BY <1>1, <4>1 DEF Fetch
        <4> QED
          BY <4>1, <4>2
      <3>3. CASE ReadStatus(s)
        <4>1. PICK f : /\ fetches' = [fetches EXCEPT ![s] = f] /\ fetches[s].step = "events"
                       /\ f = [fetches[s] EXCEPT !.step = "answered", !.counted = PagesCrawled]
          BY <3>3 DEF ReadStatus
        <4>2. f.step \in {"row", "events", "answered"} /\ f.row = fetches[s].row
          BY <1>1, <4>1 DEF Fetch
        <4> QED
          BY <4>1, <4>2
      <3> QED
        BY <1>3, <3>1, <3>2, <3>3
    <2>3. CASE Clean
      <3>1. row.run = runs /\ row \in Row /\ runs >= 1
        BY <2>3 DEF OrderInv, RowsInv, TypeOK
      <3>2. Past(row)
        BY <3>1 DEF Past, Began, Row
      <3>3. FetchKnows(f)
        BY <2>2, <2>3, <3>2 DEF OrderInv, KnownInv, FetchKnows
      <3> QED
        BY <2>1, <2>2, <3>3, OrderFetch
    <2>4. CASE ~Clean
      BY <2>1, <2>4 DEF OrderInv, Clean, server, page
    <2> QED
      BY <2>3, <2>4
  <1>4. CASE LoseDetail(s)
    <2>1. losses' # 0 /\ runs' = runs
      BY <1>4 DEF LoseDetail, TypeOK, server
    <2> QED
      BY <2>1 DEF OrderInv, Clean
  <1> QED
    BY <1>2, <1>3, <1>4, OrderDeliver DEF Exchange

LEMMA OrderStep ==
  ASSUME TypeOK, PageInv, OrderInv, [Next]_vars
  PROVE  OrderInv'
  <1>1. CASE UNCHANGED vars
    <2>1. UNCHANGED <<job, unsaved, row, events, runs, shown, detail, auto, newest, overtaken,
                      fetches, handlers, losses>>
      BY <1>1 DEF vars, server, page
    <2> QED
      BY <2>1 DEF OrderInv, Clean, RowsInv, KnownInv, FetchKnows, HandlerKnows, ShownInv, Seen,
                  Past, Began, Coming, DetailInv, Current, PagesCrawled, AutoInv
  <1>2. CASE JobThread
    BY <1>2, OrderJob, OrderUpsert DEF JobThread
  <1>3. ASSUME NEW s \in Slots, TimerFires(s) \/ ClickRefresh(s) \/ Exchange(s)
        PROVE  OrderInv'
    BY <1>3, OrderFetchSteps
  <1>4. ASSUME NEW h \in Handlers, Handle(h) PROVE OrderInv'
    <2>1. ASSUME NEW arrives \in BOOLEAN, ServeHalt(h, arrives) \/ ServeResume(h, arrives)
          PROVE  OrderInv'
      BY <2>1, OrderHalt, OrderResume
    <2>2. CASE LosePost(h) \/ AskState(h) \/ LoseState(h) \/ AskAgain(h)
      BY <2>2, OrderClick DEF Intents
    <2>3. ASSUME NEW s \in Slots, HearState(h, s) PROVE OrderInv'
      BY <2>3, OrderHear
    <2> QED
      BY <1>4, <2>1, <2>2, <2>3 DEF Handle
  <1>5. ASSUME NEW h \in Handlers, NEW intent \in Intents, Click(h, intent) PROVE OrderInv'
    BY <1>5, OrderClick
  <1> QED
    BY <1>1, <1>2, <1>3, <1>4, <1>5 DEF Next

LEMMA OrderStarts == Init => OrderInv
  <1> SUFFICES ASSUME Init PROVE OrderInv
    OBVIOUS
  <1>1. /\ row.run = 1 /\ runs = 1 /\ row.version = 1 /\ newest = 1 /\ shown = row.state
        /\ unsaved = {} /\ auto = TRUE
        /\ detail = [events |-> events, counted |-> events]
        /\ fetches = [s \in Slots |-> IdleFetch] /\ handlers = [h \in Handlers |-> IdleHandler]
        /\ row = [state |-> row.state, run |-> 1, version |-> 1]
        /\ row.state # "running" => PagesCrawled = events
    BY DEF Init, PagesCrawled
  <1>2. row \in Row
    BY TypeInit DEF TypeOK
  <1>3. RowsInv /\ AutoInv
    BY <1>1 DEF RowsInv, AutoInv
  <1>4. KnownInv
    BY <1>1 DEF KnownInv, FetchKnows, HandlerKnows, IdleFetch, IdleHandler
  <1>5. ShownInv
    <2>1. Seen(1) = row
      BY <1>1 DEF Seen
    <2>2. Past(row)
      BY <1>1, <1>2 DEF Past, Began
    <2>3. Past(Seen(1))
      BY <2>1, <2>2 DEF Past
    <2> QED
      BY <1>1, <2>3 DEF ShownInv
  <1>6. DetailInv
    BY <1>1 DEF DetailInv, Current
  <1> QED
    BY <1>1, <1>3, <1>4, <1>5, <1>6 DEF OrderInv

\* server.py refreshCrawlerDetail and handleCrawlerControlSubmit: what a page
\* that refreshes itself no more shows is the state of the crawler, with its
\* visits and counters, unless a request failed, something older came after
\* something newer, or the crawler was resumed.
THEOREM FrozenIsRight == Spec => []FrozenPageIsRight
  <1>1. TypeOK /\ PageInv /\ OrderInv /\ [Next]_vars => TypeOK' /\ PageInv' /\ OrderInv'
    BY StepKeeps, PageTypeStep, TypeParts, OrderStep DEF PageInv
  <1>2. ASSUME TypeOK, OrderInv PROVE FrozenPageIsRight
    <2> SUFFICES ASSUME Quiet, ~auto, Clean
                 PROVE  \/ shown = row.state
                           /\ detail = [events |-> events, counted |-> PagesCrawled]
                        \/ shown = "running" /\ runs > 1
      BY DEF FrozenPageIsRight, Clean
    <2>1. RowsInv /\ ShownInv /\ DetailInv /\ AutoInv /\ runs >= 1 /\ runs \in Nat
      BY <1>2 DEF OrderInv, TypeOK
    <2>2. ~ \E h \in Handlers : Coming(handlers[h])
      BY DEF Quiet, Coming
    <2>3. Past(Seen(runs))
      BY <2>1, <2>2 DEF ShownInv
    <2>4. shown = "running" => runs > 1
      BY <2>1 DEF AutoInv
    <2>5. shown # "running" => shown = row.state /\ newest = row.version
      BY <2>1, <2>3 DEF Past, Seen, RowsInv
    <2>6. shown # "running" => Current
      BY <2>1, <2>5 DEF DetailInv, Quiet
    <2> QED
      BY <2>4, <2>5, <2>6 DEF Current
  <1> QED
    BY <1>1, <1>2, InitHolds, TypeInit, OrderStarts, PTL DEF Spec
=============================================================================
