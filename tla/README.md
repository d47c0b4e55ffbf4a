# A TLA+ model of CrawlDesk

CrawlDesk (`src/`) is a single-machine web crawler and search engine: it crawls
breadth-first from an origin URL, indexes pages into SQLite, keeps checkpoints
from which a crawl can be resumed, and is steered from a command line or from a
web server that runs many crawlers as jobs. This directory models its own logic
in TLA+, model-checks it with TLC, and proves every safety property of the passing
runs for all values of the constants with TLAPS. Paths below are relative to
`src/src/webcrawler/`.

## 1. The system

| Component | State it keeps | Operations | Hard parts |
|---|---|---|---|
| Crawl engine, `crawler/service.py` | counters, stop event, active workers, task in hand | `index`, `_bootstrap`, `_worker_loop`, `request_stop`, checkpoints | stop at any `await`, exceptions through `finally`, resumption in mid-layer, termination |
| Scheduler and queue, `queue/` | seen set, bounded FIFO | `schedule`, `next_task`, `restore`, `reset` | full queue rolls back `seen`; truncation on restore |
| Checkpoint, `utils/persistence.py` | one JSON file per crawl | `save` (temp file and rename), `load` | crash between two saves; shared by crawls of the command line |
| Status counters, `status/service.py` | gauges and counters of a run | `mark_*`, `update_*`, `snapshot` | gauges are copies and can be stale |
| Fetcher and parsers, `crawler/fetcher.py`, `utils/url.py` | none | `fetch`, `normalize_url`, link and text extraction | failures become results; idempotence of normalisation |
| Rate limiter, `crawler/rate_limiter.py` | next allowed time | `acquire` | spacing under early wake-ups |
| Job manager, `web/manager.py` | `_jobs`, job objects and their threads, tables `crawler_jobs` and `crawler_events` | create, resume, pause, stop, delete, clear, boot, views | request threads, job threads and the table interleave; check and act under different lock holds |
| Web server, `web/server.py` | none of its own | one thread per request (`ThreadingHTTPServer`) | overlapping requests |
| Page of a crawler, script in `web/server.py` | what is on the screen, the Auto Refresh box, the fetches and clicks under way | timer, Refresh Now, buttons, waiting for the end of a run | replies overtake each other and get lost; a status is read in three steps while the crawl goes on |
| Index storage, `index/sqlite_storage.py` | tables `documents` and `word_entries`, 26 shard files | `upsert_document`, `search`, `_write_storage_files` | several connections; shard files written outside the transaction |
| Search, `search/service.py` | none | `search` | ranking, limit and offset |
| Page store, `crawler/storage.py` | list of pages of a run | `start_run`, `add_page`, `finish_run` | none |
| Command line, `main.py` | none | `index`, `search`, `status`, `web`, `start` | resumes by default from one shared checkpoint; several launchers in search of ports, over one data directory |

A web request calls the manager; `_start_job` makes an `App` (engine, scheduler,
queue, index, status), a row and a thread; the thread runs `App.index`, whose
engine pulls tasks from the scheduler, fetches, writes documents to the index,
events through a sink into the manager's database, and checkpoints to disk.
Pause and stop reach the engine from the request thread through its stop event.

What makes each part correct:

* engine: no page twice in a run, breadth-first order, depth and page budget
  kept, a stop or crash loses nothing and repeats little, every run ends for a
  reason and leaves a status that agrees with its checkpoint;
* manager: one run per crawler, no job stuck as running, memory and table agree
  once it is quiet, what is erased stays erased, what is running is spared, a
  run cut off by the end of the process is reported as interrupted;
* index: the words are those of the documents, a write of the shard files that
  nobody disturbs makes them agree whatever came before, what a job has indexed
  is listed in its events, a deletion leaves nothing behind, no lock keeps
  anybody for ever;
* search: pages of hits of an unchanged index are one ranked list, and changes
  between two pages do no more harm than they must; what contains a phrase is
  found;
* page: what stays on the screen for good is right, and a page that refreshes
  itself notices the end of the crawl;
* launcher: launchers started together do not shut each other out, and a boot
  takes nothing for a remainder that is alive;
* rate limiter: any two requests keep their distance;
* URLs: a page gets one task, whatever form its links have (but for one form,
  see `UrlIntake`).

## 2. The modules

| Module | What it is |
|---|---|
| `BreadthFirst` | abstract: what a crawl promises somebody who sees only the trace of visits |
| `CrawlEngine` | engine, scheduler, queue, checkpoint, status: one action per step of the worker |
| `CrawlEngineInv` | the inductive invariants of the engine |
| `CrawlEngineProofs` | theorems about the engine and their proofs |
| `CrawlCoverage`, `CrawlCoverageProofs` | what a finished crawl has covered, against a reference on the link graph; theorems |
| `MCCrawlEngine`, `MCCrawlCoverage` | sites and configurations for TLC |
| `CrawlerLives` | abstract: what becomes of a crawler, as those see it who look at the list |
| `JobManager` | jobs, threads, requests, table, erasure, restart |
| `IndexStore` | connections of crawls and deletions, write lock, documents, words, shard files |
| `IndexStoreProofs` | theorems about the index and their proofs |
| `Search`, `SearchProofs` | queries, filters, ranks and pages of hits over a changing index; theorems |
| `MCIndexStore`, `MCSearch` | pages, documents and queries for TLC |
| `JobManagerProofs` | theorems about the manager and their proofs |
| `StatusPage`, `StatusPageProofs` | a crawler's page, its requests and the replies to them; theorems |
| `Launcher` | launchers, ports, boots of the manager |
| `RateLimiter` | `acquire()` over a clock |
| `UrlIntake` | normalisation and its uses on the way from an href to a task |
| `Surroundings`, `SurroundingsProofs` | the four machines above side by side; theorems about the last three |
| `MCSurroundings`, `MCLauncher` | values for `Surroundings` and its parts one at a time; values for `Launcher` |
| `OrderLemmas` | least and greatest numbers, and the ranks of an order |

### CrawlEngine and the code

A crawl is a series of runs over one checkpoint (`ckpt`); `StartRun` is a new
`App`. `pc` says where the run is:

| `pc` | Code | Actions |
|---|---|---|
| `idle` | no run | `StartRun` |
| `start`, `restart` | thread made, `index()` not entered; without or with `resume` | `RunIndex`, `RunIndexRaises` (`service.py:51-118`) |
| `loop` | head of `while` (127) | `ObserveStop`, `FindNothing`, `DropAtLimit`, `TakeTask`, `TakeTaskRaises` (127-149) |
| `fetching` | inside the `try`, before the result (151-198) | `FetchPage`, `FetchFails`, `FetchPageRaises`, `FetchCancelled` |
| `linking` | loop over the links (200-224) | `EnqueueLink`, `ReportDrop`, `SkipLink` |
| `settle` | `finally` (225-231) | `Settle`, `SettleRaises` |
| `closing` | after the worker (93-95) | `FinishRun`, `FinishRunRaises` |

`RequestStop` may happen between any two steps, `Crash` too. A step is what the
single worker does without another thread being able to see or change the
difference: other threads only set the stop event and read the status. The
`sleep(0.03)` branch of the loop is not an action: with one worker an empty
queue at the loop head means an idle crawl, and sleeping changes nothing.
`Faults` says which calls may raise: the event sink and the index (sqlite
"database is locked"), the checkpoint (disk), the await itself (cancellation by
Ctrl-C). `visits`, `settled`, `stopAsked`, `outcome`, `runs`, `crashes` and
`failures` are history: the visit events of the run, what was finished, and what
has happened to the crawl; no action is guarded by them except by the bounds.

`cfg` is chosen anew at every start, because the command line may resume with
other limits or another origin. The web manager resumes with the row's.

### BreadthFirst and the refinement

`BreadthFirst` knows whether a run is on, its budget and its trace; a visit goes
to a page not in the trace, no shallower than the last and at most one layer
deeper. `CrawlEngine` implements it under `running <- pc # "idle"`,
`budget <- cfg.maxPages`. TLC checks this as the property `BreadthFirstSpec` and
TLAPS proves it (`EngineIsBreadthFirst`).

### JobManager and the code

`jobs[id]` are the `CrawlerJob` objects made for a crawler, each with its
thread; `registry[id]` is `_jobs[id]`. `req[h]` is the request of a handler
thread and the step it has reached; `rows` is the table, `data` what else of the
crawler is on disk.

| Code (`web/manager.py`) | Actions |
|---|---|
| `create_crawler` (51), `_start_job` (389-438) | `CreateCrawler`, `UpsertStarted`, `StartThread` |
| `resume_crawler` (74-101), `_start_job` | `ResumeCrawler` (check), `ReadRow`, `RegisterResumed`, `UpsertStarted`, `StartThread` |
| `_request_stop` (466-474) | `RequestStop` |
| `delete_crawler` (112-145), `clear_all_data` (147-170) | `Erase` (check and pop), `EraseRows`, `EraseDocuments`, `EraseCheckpoint`; `EraseRaises` at any of the last three |
| `_run_job` (440-464) | `LookUp`, `Crawl`, `RunReturns` or `RunRaises`, `SetState`, `UpsertFinished` |
| end of the process, `_load_jobs_from_db` (626-669) | `Restart` |

One step is one hold of the lock, one transaction or one assignment that other
threads can see. A refused request changes nothing and is no step. `index()` is
a time in which data appears: that it ends is `RunEnds` of `CrawlEngine`. The
two assignments of `_request_stop` (471-472) are one step, though `_run_job`
reads the flags without the lock; see the hazard at `manager.py:471`. The boot
loads the rows one by one, each with an update of its own; nobody is served
before it has finished and a boot cut off and repeated gives the same result,
so it is one step. Preparing a job (shard files, directories, `App`) before it
is registered touches nothing the module models.

`hasty` is history: the crawlers for which a request got past its check while
another request about the same crawler was being carried out, or while a thread
had set its final state but not yet written the row. `broken` collects crawlers
whose row could not be written and those whose erasure raised (`EraseRaises`: sqlite's
"database is locked" after five seconds, a file that cannot be written or removed) or
was cut off by a dying process. The job is popped first, so after a deletion that
raises in its first transaction the row is still there and its crawler is not
registered; after one that raises later, documents and checkpoint are left. So
`QuietAgreement`, `ErasedIsGone`, `RowsFollow` and `CrawlersLive` say nothing of
broken crawlers, nor of hasty ones. `RunningIsCarried` and `EveryRunSettles` exempt
the broken only: a first write of the row that raises does leave a job that is
running for ever (`manager.py:436`). `OneRun` and `ListedLosesNothing` exempt the
hasty only: what a failed deletion leaves behind is either still in the list with all
it had, or in no list. What can happen to hasty crawlers is shown by the runs
`job_two_consumers` and `job_resurrected`.

`data[id]` are the crawler's events, its checkpoint, and the documents of URLs that no
other crawler visits. Documents of shared URLs go with any of their crawlers; that is
`Erased` of `IndexStore`.

### CrawlerLives and the refinement

In `CrawlerLives` a crawler is new, running, at rest (with the verdict of its last
run, or interrupted) or gone for good; there are no requests, threads or locks.
`JobManager` implements it under `life <- Life(id)` for every crawler and `boots <-
restarts` (`CrawlersLive`): a crawler runs as long as a thread of it has something
left to do or its row says so, rests as its row says, and is new before its first
row. Of the steps of a request or a thread one shows, that of a transaction on the
row: `UpsertStarted` is `Start`, `UpsertFinished` is `End`, `EraseRows` is `Erase`,
`Restart` is `GoDown`; all others are stutters. The state that a thread assigns
before it writes the row (`SetState`) does not show: to the list the crawler runs
until the row is written, and if the process dies in between, the run was
interrupted. A crawler whose creation has not come as far as its row may be lost in
a restart (`lost`). The promise is made for crawlers that are asked one thing at a
time and of which no write and no erasure has failed; one that is hasty or broken is `"excused"` from
then on, and the others keep their promise whatever happens to it.

### IndexStore and the code

`conn[a]` is what a connection is doing: `step` says where, and the other fields
hold what its thread has in hand (the page's URL, the URLs and owners a deletion
is for, the words read for the shard files, the number of the file). The
connections are those of crawls, some of them begun on the command line
(`Consoles`: no events, no shard files made, a new id each time), and of requests
that delete (`Erasers`).

| Code | Actions |
|---|---|
| `_start_job` (`manager.py:401-435`), `ensure_storage_files` (`sqlite_storage.py:292-296`) | `Start`, `ShardExists`, `ShardMissing`, `CreateShard`, `Register` |
| event sink (`manager.py:476-500`) | `Visit` |
| failed fetch, end of the run (`service.py:168-179`, 91-96) | `FetchFails`, `EndRun` |
| `upsert_document` (81-123) | `BeginUpsert`, `CommitUpsert`, `StatementRaises`, `CrawlTimeout` |
| `_write_storage_files` (298-325) | `TakeSheet`, `NothingToWrite`, `TruncateShard`, `WriteShard`, `FileRaises` |
| `delete_crawler` (`manager.py:112-140`), `clear_all_data` (147-163) | `DeleteCrawler`, `ClearAllData`, `BeginErase`, the file steps, `CommitErase`, `EraseTimeout` |
| end of all processes | `Crash` |

The statements of one transaction are one step (`BeginUpsert`, `BeginErase`): sqlite
hides them until the commit, and what others notice is the write lock, which is
held from there to the commit. `draft` is what the transaction will publish. A
statement that raises may leave the transaction open, since no code rolls it
back; the lock then goes only with the connection, that is, when the next job of
the crawler or its deletion drops the `App`. A file is written in two steps,
because `write_text` truncates before it writes; two writers of one file may
leave a text of neither (`Torn`). The check of a deletion and its transaction on
the events are one step, because the window between them is `JobManager`'s. The
deleted job is referred to by its request until that ends, which is why a
deletion of a failed crawler whose lock leaked times out, and only then frees it.

`settled` is history: the last write of the files began when nobody else was
writing, and nobody has begun since. `spent` are the ids that cannot start again,
because their row is gone or because they were a console's. Ranks, titles,
origins and times of documents are left out; the origin goes wherever the depth
goes.

### Search and the code

`Ask` is the first page of a search and `NextPage` the next one, each a single
SELECT on what is committed: `Hits` filters (`WordRows`, `PhraseRows`), ranks
(`Keys`, and the order of the rows where ranks are equal, `scan`) and cuts out
the page (`SafeLimit`, offset). `Upsert` and `Delete` are what crawls and
deletions commit in between. A query is the sequence of its words; a filter for a
domain is the set of URLs that have it in them; a time is a second, and a day has
`DaySeconds` of them. `touched` and `writes` are history: what has changed since
the first page.

`PhraseRows` translates the statement with the parameters as the code binds them:
by position, in another order than they stand in the statement.

### StatusPage and the code

`shown`, `detail` and `auto` are what the page displays; `fetches[s]` is a call
of `refreshCrawlerDetail` and `handlers[h]` one of `handleCrawlerControlSubmit`,
each waiting for the server. The server is the job thread, abridged from
`JobManager` to what the reads can see: visits, the end of a run, and the write of
its row, which comes later and may come after the next run's.

| Code | Actions |
|---|---|
| timer and "Refresh Now" (`web/server.py:1458-1465`) | `TimerFires`, `ClickRefresh` |
| `get_crawler_status` (`web/manager.py:217-285`): row, events, counters | `ReadRow`, `ReadEvents`, `ReadStatus` |
| `refreshCrawlerDetail` (1345-1372) | `Deliver`, `LoseDetail` |
| `handleCrawlerControlSubmit` (1397-1445) | `Click`, `ServeHalt`, `ServeResume`, `LosePost`, `HearState` |
| `fetchCrawlerState`, `waitForStableState` (1374-1395) | `AskState`, `LoseState`, `AskAgain` |
| job thread | `VisitStart`, `VisitEnd`, `RunEnds`, `UpsertFinished` |

A button is disabled until its click is dealt with, but the buttons are made anew
with every reply (`NewButtons`), so the same request can be on its way twice.
After a pause or stop the page polls until the run has ended, ten times
(`Attempts`), and then shows what it hears, or what it assumes if it hears
nothing. `newest`, `overtaken`, `clicks` and `losses` are history; `overtaken` says
that something older was shown, or written into the row, after something newer. That the user
ticks the Auto Refresh box again, deletes the crawler or reloads the page is left
out: a reload is the initial state.

### Launcher, RateLimiter, UrlIntake and the code

| Code | Actions |
|---|---|
| `_pick_available_port`, `_is_port_available` (`main.py:171-192`) | `ProbeBinds`, `ProbeRefused`, `ProbeOverflows`, `CloseProbe` |
| `_load_jobs_from_db` (`web/manager.py:626-669`) | `Load` (the SELECT), `Mark` (one UPDATE), `Booted` |
| `run_web_server`, Ctrl-C (`web/server.py:1473-1484`, `main.py:164-168`) | `Bind`, `Stop` |
| crawls of a server | `StartCrawl`, `EndCrawl` |
| `acquire` (`crawler/rate_limiter.py:14-21`) | `AcquireAtOnce`, `AcquireSleeps`, `WakeUp`, `Cancel`; `Tick` is the clock |
| `index`, `handle_starttag`, each with `schedule`; `next_task`, `restore` | `Seed`, `Follow`, `Take`, `Restore` |

A probe and a listening server both keep a port from others; between the probe
and the binding nobody has it. Ports of other programs do not change while one
looks (`foreign`); that they do is a reason for a refused `Bind`, not for another
property. The lock of `acquire` is held while its holder sleeps, so one task is in
it at a time; the event loop may wake it up to `Early` ticks before time. A URL is
a record of its parts and `NormalizeUrl` works on them; a link is normalised twice
(`Follow`, `Schedule`), the origin too (`service.py:58` and `scheduler.py:44`), the
seen URLs once more per resumption. As in the code, what must not be empty is the
netloc, not the host (`NoNetloc`): `http://:8080/x` is crawled, and `http://:80/a`
becomes `http:///a`, which the second normalisation rejects. Of what a path has after
its last name, slashes and semicolons, each normalisation takes away the slashes at
the end and one semicolon in front of them, so `/a;b/` needs two and `/a;b/;c/` three.

## 3. The runs

| Run | Shows | Distinct states |
|---|---|---|
| `crawl_engine` | all faults, three runs with three configurations (among them a budget of 0, a capacity of 0 and a depth of -1), a crash, a queue of two: `TypeOK`, `InductiveInv`, `SteadyCrawlsForgetLittle`, `RedoBound`, `VisitOnce`, `StrictBFS`, `PageBudget`, `EndsForAReason`, `StatusAgreesWhenDone`, `RefusalsReported`, `RunEnds`, `BreadthFirstSpec` | 157 000 |
| `crawl_coverage` | `CoversTheDepth`, `ShortestPath`, `NothingForgotten`: a crawl cut into four runs covers exactly what is within reach | 10 000 |
| `job_manager` | one crawler, two request threads, failing writes and erasures, a restart: `TypeOK`, `RunningIsCarried`, `RowsFollow`, `OneRun`, `QuietAgreement`, `ErasedIsGone`, `CrawlersLive`, `ListedLosesNothing` | 1 742 000 |
| `job_settles` | one crawler, two request threads, two starts besides its first, failing writes and erasures: `EveryRunSettles` | 143 000 |
| `index_store` | a job, a console crawl and a deleting request on two URLs and two shard files, with failing statements and files, timeouts, a crash: `TypeOK`, `WordsFollowDocuments`, `LoneWriteRepairs`, `IndexedWereVisited`, `DeletionIsComplete`, `EverybodySettles` | 80 000 |
| `search_paging` | searches for one word over three URLs and four documents, two changes between the pages: `TypeOK`, `PagingIsExact`, `PagingDrifts` | 234 000 |
| `surroundings` | the page of a crawler with two fetches or two clicks under way, pauses, resumptions and lost replies: `EndedRepliesAreFinal`, `FrozenPageIsRight`, `EndIsNoticed`; three launchers: `SomebodyServes`; a rate limiter: `Spacing`; any three of sixteen hrefs: `ExactlyOneTask`; `TypesOK` of all | 898 000 |

`surroundings` is four small machines that share no state (`Surroundings`). Its
first state says which of them moves (`part`; the page counts twice, once with two
fetches and one click, once with two clicks and one fetch), so each is explored by
itself, with the deadlock check off and the fairness of the page alone.

The other runs each refute one statement of the repository's documents or
comments; the counterexamples are behaviours of the code:

| Run | What happens |
|---|---|
| `engine_lost_stop` | a stop between the start of the job and the entry into `index()` is lost (`service.py:69`); README lines 154 and 155 |
| `job_two_consumers` | two overlapping resumptions run two threads in one `App` (`manager.py:75`); `service.py:86` |
| `job_resurrected` | a deleted crawler is put back by the last write of its thread (`manager.py:464`); PRD lines 382-387 |
| `launcher_second` | a second launcher marks the crawler that runs in the first server as interrupted (`manager.py:651`); PRD line 250 |
| `search_phrase` | a query of two words does not find the page that contains them: the parameters of the statement are bound in the wrong order (`sqlite_storage.py:177`); PRD line 205 |

Behind `SteadyCrawlsForgetLittle` there is another: an exception in the middle of
a page makes the `finally` block checkpoint the page as done (`service.py:231`), so
that no resumption fetches it again, although README lines 152 and 157 say that a
crawl can be continued safely. The property bounds the damage: in a crawl that is
always resumed with the same limits, a page per failure.

Met while modelling, without a run of their own: links seen before count as
dropped by backpressure while the queue is full (`service.py:217`, `ReportDrop`);
the command line resumes one checkpoint for all origins, so indexing a second
site after a finished first one visits nothing (`service.py:101`); the creation
time of a resumed crawler is overwritten at the end of its run
(`manager.py:464`, `UpsertFinished`, although 436 asks to keep it); deleting a
crawler deletes documents that others have indexed since (`manager.py:137`,
`Erased`); a filter up to a day misses the last second of it
(`sqlite_storage.py:169`, `InDays`); after a pause and a resumption the Auto
Refresh box stays off, so that the page shows "running" for ever
(`server.py:1366`, `Deliver`; `FrozenPageIsRight` exempts it); a late reply
overwrites a newer one, and so does the late write of an older run's end in the row
of a resumed crawler (`overtaken`; with two resumptions under way the page then shows
that the crawl has ended when a newer run goes on, which is how an attempt to prove
`FrozenPageIsRight` without this exemption fails, at `manager.py:464`); the page says "Paused." also when the run
still goes on after all polls (`HearState`); `normalize_url` drops
what follows a semicolon in the last segment, so that a page linked to as `/a;b` or
`/a;b/` is fetched as `/a`, and of several semicolons after the last name it drops one
at a time, so that `/a;b/;c/` makes a task of its own beside that of `/a`, and another
one after a resumption (`UrlIntake`; `ExactlyOneTask` exempts it); a port above 65535
ends the launcher with an `OverflowError` instead of the message it has for ports
in use (`ProbeOverflows`); two launchers may be given the same port, and the later
one ends with an error (`Bind`); the boot of a second server overwrites a row that
the first has finished meanwhile, since its UPDATE does not look at the state again
(`Mark`).

`MaxRuns`, `MaxCrashes`, `MaxStarts`, `MaxRestarts`, `MaxVisits`, `MaxErasures`,
`MaxWrites`, `MaxChances`, `MaxGrants`, `MaxHrefs` and `MaxTasks` are the only bounds
besides `MaxTime`, the end of the rate limiter's clock, and the sets of `Slots` and
`Handlers`; they only limit how often something is begun. `MaxWrites` counts from the first page of each
search, `MaxChances` the clicks and the lost requests of a page together. Deadlock is checked in
`search_paging` only; elsewhere it is not, because the system may stop: when the bounds are used up and nothing is
going on, nothing more has to happen.

Why they are enough. Four pages make the shapes that matter to the frontier: a
page reached over two parents, links back, a link to a page of the same layer,
a page whose links change between fetches, and one that may fail. Two runs are
needed to see a checkpoint used, a third to see one made by a resumed run; a
checkpoint every two visits makes a crash fall between two checkpoints.
`crawl_coverage` has seven pages so that depth-first and breadth-first orders
give different depths. In `JobManager` a race needs two requests and a thread;
a crawler that exists from the start and two further starts give two
overlapping resumptions, a thread writing its row during another run, and a
restart on top. The runs of the manager have one crawler: the state of different
crawlers meets only in `clear_all_data`, which does to each of them what a deletion
does; that nothing else comes of more crawlers is what the theorems show, which hold
for any set of them (only `EveryRunSettles` has no theorem). In `job_settles` the
crawler can be started twice besides its first run, so that two resumptions overlap,
the job of the one replaces that of the other in `_jobs`, and an erasure in between
leaves a thread without a job (the `KeyError`). In `IndexStore` two connections
that write files, of two crawls or of a crawl and a deletion, are enough for every
overlap of two snapshots; two shards for a write cut off between files; two
visits for a page that another crawler indexes again; a word with a digit in
front has no shard. `search_paging` has documents with equal ranks, equal times
and both, so that order, ties and edges of pages matter; with two changes of
the same document two others stay as they are and can move over an edge. In
`surroundings` two fetches are enough for one reply to overtake another, two clicks
for two resumptions whose runs end in either order, and two chances for a pause and a resumption, or a click and a lost reply; "stop" differs
from "pause" in nothing the page acts on. Two of the three launchers want the same
port first, the third wants the highest there is, and every set of ports held by
others occurs. The clock covers four requests of an interval of three with an
early wake-up. The hrefs are one page with slashes, with one semicolon
and with two after its name, a page with a semicolon in front of its last name and its
twin without, one with another port, the root in two forms, a query in two orders,
URLs without a host, with a default port and with another one, and a scheme that
cannot be crawled. A crawl meets three of them (`MaxHrefs`): two forms of a page and
something else, in every order, with any number of resumptions in between; `MaxTasks`
cuts off a page with several semicolons, which gets another task after every
resumption.

### Fairness

`FairSpec` of `CrawlEngine` is weak fairness of the worker's step: the run's
thread keeps running and a fetch ends, because `urlopen` has a timeout and every
exception of it becomes a result (`fetcher.py:28-73`). Starting, stopping,
crashing are not fair. `FairSpec` of `JobManager` is weak fairness of each
request thread that is busy and of each job thread: threads are scheduled,
transactions wait at most five seconds (they then raise, which is an action),
and `index()` ends (`RunEnds`). Nobody has to make a request. `FairSpec` of `IndexStore` is weak
fairness of each connection's steps: its thread is scheduled, a fetch ends, and
sqlite either gives the lock or raises after five seconds. Crashes, new crawls
and new deletions are not fair. `Fairness` of `StatusPage` is weak fairness of the
timer while the box is ticked, and of the exchanges: a fetch is answered or fails,
since each read waits at most five seconds for sqlite and a browser gives up on a
dead connection. The crawl need not end, and the user need not do anything. The refutations of
action properties need no fairness.

## 4. The proofs

`CrawlEngineProofs` proves for every set of URLs, every link structure that may
change from fetch to fetch, every set of configurations, every
`CheckpointEvery >= 1`, every subset of the faults and any number of runs and
crashes:

* `TypeCorrect`: `Spec => []TypeOK`;
* `Invariance`: `Spec => []InductiveInv`;
* `VisitsOnce`, `VisitsBreadthFirst`, `BudgetKept`, `LittleIsRedone`: the
  properties `VisitOnce`, `StrictBFS`, `PageBudget`, `RedoBound`;
* `EngineIsBreadthFirst`: `Spec => BreadthFirstSpec`, the refinement;
* `EndsWithReason`, `FiguresAgree`, `NoSilentRefusal`: `EndsForAReason`,
  `StatusAgreesWhenDone`, `RefusalsReported`;
* `NothingIsForgotten`: `NothingForgotten`, assuming one configuration with a
  budget of at least one page, and no faults (`Steady`). Without any of the
  three it is false: an exception in a page, or the truncation on a smaller
  capacity, forgets pages;
* `LittleIsForgotten`: `SteadyCrawlsForgetLittle`, for a crawl that is always
  resumed with the limits it began with, whatever fails.

The argument. `StrictBFS` and `VisitOnce` speak of the trace only and are not
inductive. The frontier must be known to be layered: depths never decrease along
the queue and differ by at most one, its URLs differ and are all seen
(`Layered`); and the trace must lie behind it: visited URLs are seen, not queued
and no deeper (`Behind`). A link is appended one layer below the page in hand,
which is the last visit, so it fits at the end of the queue; a task taken from
the front fits at the end of the trace. Since a checkpoint is a copy of such a
frontier, a resumption starts with one again, whatever the new configuration is,
and a truncated queue is still layered. `CounterInv` relates the number of
visits, of counted pages and of pages since the last checkpoint, which gives the
budget and `RedoBound`: the visits before the last checkpoint are in it as done.
`AccountInv` says that what is seen is queued, in hand or settled; that nothing
is dropped at the budget, since the `finally` block sets the stop event as soon
as it is used up; and that a checkpoint fits into the queue it is loaded into.
`LossInv` is the same with faults: what is missing in memory or on disk is no more
than the exceptions there have been, since each one loses the page in hand only.
`EndInv` says that who leaves the loop has a reason that the last lines of `index()`
do not take away. `GaugeInv` says that between two pages the gauges, which are
copies, are those of the scheduler; it needs that the budget is found used up in the
`finally` block and never at the head of the loop, where a task would be dropped
behind their back. `LinkInv` says that a page at the last layer hands no links to the
scheduler, so that a refusal has no other reason than the ones that are reported.

`CrawlCoverageProofs` proves for every finite steady site, any depth and any stops,
crashes and resumptions `VisitsOnShortestPaths` (`ShortestPath`) and `DepthIsCovered`
(`CoversTheDepth`). `Covers` says of a seen set and a frontier, in memory and on disk,
that nothing is too far away, that the frontier's depths are distances, and that the
links of every page behind it are seen. With the layers of `FrontierInv` this makes
every page seen that is nearer than the frontier (`NearerIsSeen`), so a link is new
only if it is as far away as its depth says, and an empty frontier leaves nothing
out. `Ball` is a recursive function; that it satisfies its recursion is proved from
the well-foundedness of the natural numbers (`BallDef`, `Induction`), because the
library's theorem about such definitions takes an operator as a parameter.

`IndexStoreProofs` proves for every set of URLs, words, pages and shards, any
crawls and deletions side by side, every subset of the faults and any number of
visits, deletions and crashes:

* `TypeCorrect`: `Spec => []TypeOK`; `IndexInvariance`: `Spec => []IndexInv`;
* `WordsAreTheDocuments`, `IndexedAreListed`, `DeletionsAreComplete`,
  `LoneWritesRepair`: `WordsFollowDocuments`, `IndexedWereVisited`,
  `DeletionIsComplete` and `LoneWriteRepairs`.

The argument. What a commit publishes is the draft made when the lock was taken,
so every property of the tables must hold of the draft as well: words and
documents in step (`Consistent`), and documents listed in the events of their
crawler (`ListInv`, which also knows that the page in hand is listed). A deletion
is complete when it commits because its draft was purged when it was made
(`LockInv`: it holds the lock ever since, so nobody has made another), even
though crawls have committed between the deletion of the events and the lock.
That the events of a job which can still run are never missing rests on
`EraseInv`: the jobs a deletion is for are over for good. The shard files agree after a
lone write because a connection that began to write when nobody else did, and has not
been joined since, is the only one to have touched the files: it has brought those
before the one in hand in step with the words it read, and these are still the words
(`Progress`, `FilesInv`).

`JobManagerProofs` proves for every set of crawlers and of request threads and
any number of starts, failing writes, failing erasures and restarts: `Invariant`, and
from it `TypeCorrect`, `RunningJobsAreCarried`, `OneRunAtATime`, `QuietTablesAgree`,
`DeletedIsGone`, `ListedKeepsData`, `RowsFollowJobs`, `InterruptedIsReported` and
`RunningIsSpared`, which state `TypeOK`, `RunningIsCarried`, `OneRun`,
`QuietAgreement`, `ErasedIsGone`, `ListedLosesNothing`, `RowsFollow`,
`CutOffIsInterrupted` and `EraseSparesRunning`; and `ManagerImplementsLives`
(`Spec => CrawlersLive`), the refinement. Each excuses hasty or broken crawlers, or
both, as its property does (see above): in particular nothing is claimed of the row
and the data of a crawler whose deletion has raised half-way, except that it is not
listed without its data. No run has `CutOffIsInterrupted` and `EraseSparesRunning`,
which are stated beside their theorems: what they say of the row is part of
`CrawlersLive` and `ListedLosesNothing`.

The argument. None of these is inductive, because each speaks of the rests between
the steps of a request or a thread. `RequestInv` says what a request that is under
way relies on: the job it starts exists, has no thread, and is started by no other
request. `ThreadsInv` says that what a thread works for exists and that a thread
past `index()` knows how the run ended; `CarriedInv` is `RunningIsCarried`. These hold
of hasty crawlers too. For the others the key is `CalmInv`: a
crawler whose requests do not overlap is either asked about by one request or
worked for by one thread, that of the registered job, never both at once. That is
what makes its steps sequential, so that `KeptInv` can say for each step of a
request how far memory, table and disk agree: all of it when quiet (`Agreed`), the
row alone while a thread runs, and less and less while it is being erased.
`UnknownInv` adds that of a crawler never created there is nothing. For
`ListedLosesNothing` the invariant has to say of broken crawlers, too, that no row is
left or comes back once an erasure has got past its first transaction (`GoneInv`). A lemma per
action shows that it keeps the invariant of the crawlers it is about; `Frame` and
`Local` do the rest for all others. For the refinement a second lemma per action shows
which step of `CrawlerLives` it is: nothing becomes of a crawler whose row, threads and
unfinished creation are as before (`LifeStays`), a crawler a request is about has no
thread with anything left to do (`AskedRests`), and a thread that is about to write
finds the row running and its job with a verdict (`KeptInv`, `CalmInv`), so that the
write is an end, and a restart before it an interruption.

`SurroundingsProofs` proves that the four parts side by side keep what each promises:
`PartsTypeCorrect` (`TypesOK`), and

* `OneLauncherServes` (`SomebodyServes`) for any launchers, first ports and ports of
  other programs. A port a launcher has passed or was refused is covered for good
  (`CoverInv`): another program has it, or a launcher that has got this far with it is
  still there; for a launcher only lets go of a port it has probed when it finds that
  yet another one holds it. So when all have come to rest, whoever covers the port that
  is not foreign serves or has served.
* `RequestsAreSpaced` (`Spacing`) for every interval and earliness: the next slot is an
  interval away from the latest request, two from the one before, and so on
  (`SlotsInv`), and a request comes at most `Early` before its slot.
* `EachPageOneTask` (`ExactlyOneTask`) for any absolute URLs, in any order and with any
  number of resumptions: a page with an href that can be crawled gets a task, and one
  only if no href of it has several semicolons after its last name. Of two URLs of one
  page at most one is its own normal form (`FixedAlike`): the names and semicolons up
  to the last name are all that counts of a path (`StrippedAlike`), and how often each
  pair occurs all that counts of a query (`SortedAlike`: the sorted list of pairs is
  determined by their number, and exists, since each place has a rank,
  `CanBeSorted`). A normal form names the same page (`NormFits`), so whatever is seen
  belongs to a task and every page handed in has one (`IntakeInv`). With one semicolon
  at most, two normalisations are enough (`NormThrice`): the page's tasks are all its
  one URL that stays as it is, which stays in the seen set however often that is
  restored, and is therefore scheduled once.

`StatusPageProofs` proves `EndedIsFinal` (`EndedRepliesAreFinal`): what is or will be
written of the latest run says that it has ended only when it has (`RunInv`), and then
neither events nor counters change until the next run, which makes the reply one about
an older run (`FetchInv`). `FrozenIsRight` (`FrozenPageIsRight`) is about behaviours in
which no request failed and nothing older came after something newer, and allows a page
whose crawler was resumed to be stuck at "running": without these it is false, of the
model and of the code. There the versions
of the row are in the order of the runs, the last one of a run being its end; what
replies on their way carry is a former row (`Past`, `KnownInv`); the page shows the
latest run, or a click that has resumed the crawler is about to (`ShownInv`); and once it
shows the end of it, it shows all visits and the final counters, or a reply that brings
them is awaited (`DetailInv`).

`SearchProofs` proves `TypeCorrect`, `PagesAreExact` (`PagingIsExact`) and
`PagesDriftLittle` (`PagingDrifts`) for any documents, queries of one word, limits and
changes. A hit has a rank, one more than the number of hits before it; ranks are the
numbers from 1 to the number of hits (`Ranks`). While nothing changes, the i-th hit shown
is the one of rank i (`ExactInv`). A change of one document shifts the ranks of the others
by one at most and all in the same direction, so that at most one of them gets over the
edge of the next page (`EdgeMoves`): the hits that were passed without being shown, or
shown without being passed, are no more than the changes (`DriftInv`).

The assumptions are the named `ASSUME`s of the modules, which TLC evaluates in every
run of them: types of the constants, and `None` being none of the other values; in
`CrawlCoverage` the steady site (`SteadySite`: finite, every page with one list of
links, nothing fails, one configuration with room for all pages), of which coverage
speaks; in `Search` the form of the queries. What a theorem assumes beyond that is in its
statement.

Only model-checked: liveness (`RunEnds`, `EveryRunSettles`, `EverybodySettles`,
`EndIsNoticed`), which is out of the prover's reach. All other properties of the passing
runs are proved.

## 5. Not modelled

Of the manager: the list and its filters, the overview and the random word, each a
few SELECTs without an effect (the overview's counts are separate SELECTs, so they
may be from different moments). Of the index storage, the creation and migration
of the tables and the counts; of the search, snippets, LIKE wildcards inside a
filter, queries without a letter or digit, and phrases together with the filters
only the command line has. Of the fetcher, decompression, charset and the parsing
of HTML into links and text: what comes out of them is any of the link lists in
`Pages`. Left out for good: HTML and CSS of the web pages and the printing of the
command line (layout); reading the environment; logging; the opening of a browser;
the in-memory page list (`crawler/storage.py`: it steers nothing); `types.py`
(protocols without behaviour); timestamps other than the creation time and the
time of indexing; the order numbers of events.

## 6. Plan

1. Done: `CrawlEngine` with `BreadthFirst`, coverage; `JobManager` with
   `CrawlerLives`; `IndexStore`; `Search`; `StatusPage`, `Launcher`, `RateLimiter`,
   `UrlIntake`; theorems for every safety property of the passing runs and for both
   refinements.
2. An abstract specification of the index, documents that appear, are replaced and
   disappear in whole transactions, which `IndexStore` implements and whose changes
   are those `Search` pages over.
