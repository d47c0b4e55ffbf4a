------------------------------ MODULE IndexStore ------------------------------
(***************************************************************************)
(* SQLiteIndexStorage (index/sqlite_storage.py) and the deletions of       *)
(* CrawlerManager: the documents and their words in index.sqlite3, and the *)
(* shard files a.data ... z.data, copies of the words.                     *)
(*                                                                         *)
(* Every crawl and every deletion has a connection of its own.  sqlite     *)
(* lets one connection write at a time; one that waits longer than five    *)
(* seconds raises.  The shard files are outside of the transactions: a     *)
(* crawl rewrites them from a snapshot after its commit, a deletion from   *)
(* its own view before its commit, and no lock keeps them apart.           *)
(*                                                                         *)
(* Definitions whose names begin with Bug are the mistakes somebody could  *)
(* have made in the definition that follows them; no action uses them.     *)
(***************************************************************************)
EXTENDS Integers, Sequences, FiniteSets

CONSTANTS
    Urls,
    Words,
    Shards,         \* the shard files in the order they are written
    ShardOf,        \* ShardOf[w]: its first character, which may be a digit
    Pages,          \* what a visit may find: its depth and the words' frequencies
    Crawlers,       \* crawls, by crawler id
    Consoles,       \* those begun on the command line: without events or shards
    Erasers,        \* requests that delete a crawler or clear all data
    Faults,         \* what may go wrong: see FaultKinds
    MaxVisits,      \* bound: pages visited
    MaxErasures,    \* bound: deletions asked for
    MaxCrashes,     \* bound: sudden ends of everything
    None            \* Python's None

\* "sql": a statement of an upsert raises; "file": writing a shard file raises.
FaultKinds == {"sql", "file"}
Agents     == Crawlers \cup Erasers

DocOf(page, c) == [text |-> page.text, depth |-> page.depth, owner |-> c]

Doc    == {DocOf(page, c) : page \in Pages, c \in Crawlers}
Entry  == [word : Words, url : Urls, depth : Nat, frequency : Nat]
Steps  == {"off", "ensure", "create", "register", "idle", "fetching", "open",
           "committed", "erasing", "truncate", "write", "commit"}
Tables == [docs : [Urls -> Doc \cup {None}], words : SUBSET Entry]

ASSUME PagesAssumption    ==
    \A p \in Pages : /\ p.depth \in Nat /\ DOMAIN p.text \subseteq Words
                     /\ \A w \in DOMAIN p.text : p.text[w] \in Nat
ASSUME ShardsAssumption   == Shards \in Seq(STRING) /\ Shards # <<>>
ASSUME AgentsAssumption   == Consoles \subseteq Crawlers /\ Crawlers \cap Erasers = {}
ASSUME FaultsAssumption   == Faults \subseteq FaultKinds
ASSUME NoneAssumption     == None \notin Doc \cup Agents \cup Urls

VARIABLES
    db,             \* tables documents and word_entries, as committed
    lock,           \* the connection whose transaction may write, or None
    draft,          \* what the tables will be when that transaction commits
    files,          \* files[i]: the file of Shards[i]
    conn,           \* conn[a]: what a connection is doing
    visited,        \* table crawler_events: URLs with a visit_start of a crawler
    spent,          \* crawler ids that never start again: without a row, or a console's
    settled,        \* history: the last write of the files was alone, see Enter
    visits, erasures, crashes   \* history: counted for the bounds

tables  == <<db, lock, draft>>
counts  == <<visits, erasures, crashes>>
meta    == <<visited, spent>>
vars    == <<tables, files, conn, meta, settled, counts>>

Resting(step) ==
    [step |-> step, url |-> None, owners |-> {}, urls |-> {}, sheet |-> {},
     at |-> 1, alone |-> FALSE]

Absent      == [exists |-> FALSE, torn |-> FALSE, lines |-> {}]
File(lines) == [exists |-> TRUE, torn |-> FALSE, lines |-> lines]
Torn        == [exists |-> TRUE, torn |-> TRUE, lines |-> {}]

\* A first start: nothing is stored and the shard files do not exist.
Init ==
    /\ db = [docs |-> [u \in Urls |-> None], words |-> {}]
    /\ lock = None /\ draft = db
    /\ files = [i \in DOMAIN Shards |-> Absent]
    /\ conn = [a \in Agents |-> Resting(IF a \in Crawlers THEN "off" ELSE "idle")]
    /\ visited = [c \in Crawlers |-> {}]
    /\ spent = {} /\ settled = TRUE
    /\ visits = 0 /\ erasures = 0 /\ crashes = 0

-----------------------------------------------------------------------------
(* Who is alone.  A connection is writing files from the commit that makes *)
(* them stale, or the test that finds one missing, to the last file; for a *)
(* deletion to its commit.  settled holds from the end of a write that was *)
(* alone all the time to the beginning of the next one.                    *)

Writing(a) == conn[a].step \in {"create", "committed", "truncate", "write", "commit"}

Enter(a, as) ==
    /\ conn' = [b \in Agents |->
                   IF b = a
                   THEN [as EXCEPT !.alone = \A o \in Agents \ {a} : ~Writing(o)]
                   ELSE [conn[b] EXCEPT !.alone = FALSE]]
    /\ settled' = FALSE

Leave(a, step) ==
    /\ conn' = [conn EXCEPT ![a] = Resting(step)]
    /\ settled' = conn[a].alone

Become(a, as) == conn' = [conn EXCEPT ![a] = as] /\ UNCHANGED settled
Goto(a, step) == Become(a, [conn[a] EXCEPT !.step = step])

-----------------------------------------------------------------------------
(* The statements of the transactions.                                     *)

\* The origin of a document goes wherever its depth goes.
Entries(u, d) ==
    {[word |-> w, url |-> u, depth |-> d.depth, frequency |-> d.text[w]] :
        w \in DOMAIN d.text}

BugUpserted(t, u, d) ==
    [docs  |-> [t.docs EXCEPT ![u] = d],
     words |-> {e \in t.words : ~(e.url = u /\ e.word \in DOMAIN d.text)}
                 \cup Entries(u, d)]

\* The document is replaced, its words are spent, its new words inserted.
Upserted(t, u, d) ==
    [docs  |-> [t.docs EXCEPT ![u] = d],
     words |-> {e \in t.words : e.url # u} \cup Entries(u, d)]

BugErased(t, owners, urls) ==
    LET gone == {u \in Urls : t.docs[u] # None /\ t.docs[u].owner \in owners}
    IN  [docs  |-> [u \in Urls |-> IF u \in gone THEN None ELSE t.docs[u]],
         words |-> {e \in t.words : e.url \notin gone}]

\* Documents of the owners and of the urls; their words go with them (ON DELETE
\* CASCADE), and those of the urls once more.
Erased(t, owners, urls) ==
    LET gone == {u \in Urls : t.docs[u] # None /\ t.docs[u].owner \in owners} \cup urls
    IN  [docs  |-> [u \in Urls |-> IF u \in gone THEN None ELSE t.docs[u]],
         words |-> {e \in t.words : e.url \notin gone}]

Begin(a, t) == lock = None /\ lock' = a /\ draft' = t
Commit      == db' = draft /\ lock' = None /\ UNCHANGED draft
Rollback    == draft' = db /\ lock' = None /\ UNCHANGED db

-----------------------------------------------------------------------------
(* A crawl from its start to its end.                                      *)

\* A new run.  Every crawl of the command line has an id of its own.
Start(c) ==
    /\ conn[c].step = "off" /\ c \notin spent
    /\ Goto(c, IF c \in Consoles THEN "register" ELSE "ensure")
    /\ UNCHANGED <<tables, files, meta, counts>>

\* Jobs of the web server first make the shard files that are missing.
Ensured(c) ==
    IF conn[c].at < Len(Shards)
    THEN [conn[c] EXCEPT !.step = "ensure", !.at = @ + 1, !.alone = FALSE]
    ELSE Resting("register")

ShardExists(c) ==
    /\ conn[c].step = "ensure" /\ files[conn[c].at].exists
    /\ Become(c, Ensured(c))
    /\ UNCHANGED <<tables, files, meta, counts>>

ShardMissing(c) ==
    /\ conn[c].step = "ensure" /\ ~files[conn[c].at].exists
    /\ Enter(c, [conn[c] EXCEPT !.step = "create"])
    /\ UNCHANGED <<tables, files, meta, counts>>

CreateShard(c) ==
    /\ conn[c].step = "create"
    /\ files' = [files EXCEPT ![conn[c].at] = File({})]
    /\ Become(c, Ensured(c))
    /\ UNCHANGED <<tables, meta, counts>>

\* The job takes the place of the last one, whose App goes, and with it what its
\* connection may have left open.
Register(c) ==
    /\ conn[c].step = "register"
    /\ Become(c, Resting("idle"))
    /\ IF lock = c THEN Rollback ELSE UNCHANGED tables
    /\ spent' = spent \cup ({c} \cap Consoles)
    /\ UNCHANGED <<files, visited, counts>>

BugVisit(c, u) ==
    /\ conn[c].step = "idle" /\ visits < MaxVisits
    /\ Become(c, [conn[c] EXCEPT !.step = "fetching", !.url = u])
    /\ visits' = visits + 1
    /\ UNCHANGED <<tables, files, meta, erasures, crashes>>

\* The event sink of a job writes visit_start; the command line has none.
Visit(c, u) ==
    /\ conn[c].step = "idle" /\ visits < MaxVisits
    /\ Become(c, [conn[c] EXCEPT !.step = "fetching", !.url = u])
    /\ visited' = IF c \in Consoles THEN visited ELSE [visited EXCEPT ![c] = @ \cup {u}]
    /\ visits' = visits + 1
    /\ UNCHANGED <<tables, files, spent, erasures, crashes>>

FetchFails(c) ==
    /\ conn[c].step = "fetching"
    /\ Become(c, Resting("idle"))
    /\ UNCHANGED <<tables, files, meta, counts>>

BeginUpsert(c, page) ==
    /\ conn[c].step = "fetching"
    /\ Begin(c, Upserted(db, conn[c].url, DocOf(page, c)))
    /\ Become(c, Resting("open"))
    /\ UNCHANGED <<db, files, meta, counts>>

CommitUpsert(c) ==
    /\ conn[c].step = "open"
    /\ Commit
    /\ Enter(c, Resting("committed"))
    /\ UNCHANGED <<files, meta, counts>>

EndRun(c) ==
    /\ conn[c].step = "idle"
    /\ Become(c, Resting("off"))
    /\ UNCHANGED <<tables, files, meta, counts>>

\* sqlite may have rolled the transaction back or leave it open; nobody else does,
\* until the connection goes with its App.  A console ends.
StatementRaises(c) ==
    /\ "sql" \in Faults
    /\ conn[c].step = "open"
    /\ Become(c, Resting("off"))
    /\ Rollback \/ (c \notin Consoles /\ UNCHANGED tables)
    /\ UNCHANGED <<files, meta, counts>>

-----------------------------------------------------------------------------
(* _write_storage_files.                                                   *)

NoShards == \A i \in DOMAIN files : ~files[i].exists

\* The crawl reads the words, in a transaction of its own.
TakeSheet(c) ==
    /\ conn[c].step = "committed" /\ ~NoShards
    /\ Become(c, [conn[c] EXCEPT !.step = "truncate", !.sheet = db.words])
    /\ UNCHANGED <<tables, files, meta, counts>>

NothingToWrite(c) ==
    /\ conn[c].step = "committed" /\ NoShards
    /\ Leave(c, "idle")
    /\ UNCHANGED <<tables, files, meta, counts>>

\* The lines of the i-th shard: a word of the sheet in each.
Lines(sheet, i) == {e \in sheet : ShardOf[e.word] = Shards[i]}

BugTruncateShard(a) ==
    /\ conn[a].step = "truncate"
    /\ files' = IF Lines(conn[a].sheet, conn[a].at) = {} THEN files
                ELSE [files EXCEPT ![conn[a].at] = File({})]
    /\ Goto(a, "write")
    /\ UNCHANGED <<tables, meta, counts>>

TruncateShard(a) ==
    /\ conn[a].step = "truncate"
    /\ files' = [files EXCEPT ![conn[a].at] = File({})]
    /\ Goto(a, "write")
    /\ UNCHANGED <<tables, meta, counts>>

\* What a file holds after new is written from its beginning.  When somebody
\* else has written since it was truncated, a tail of theirs may remain.
Overwritten(old, new) ==
    IF old \in {File({}), File(new)} THEN {File(new)}
    ELSE IF new = {} THEN {old}
    ELSE {File(new), Torn}

BugNextShard(a) ==
    IF conn[a].at <= Len(Shards)
    THEN Become(a, [conn[a] EXCEPT !.step = "truncate", !.at = @ + 1])
    ELSE IF a \in Crawlers THEN Leave(a, "idle")
    ELSE Goto(a, "commit")

NextShard(a) ==
    IF conn[a].at < Len(Shards)
    THEN Become(a, [conn[a] EXCEPT !.step = "truncate", !.at = @ + 1])
    ELSE IF a \in Crawlers THEN Leave(a, "idle")
    ELSE Goto(a, "commit")

WriteShard(a) ==
    /\ conn[a].step = "write"
    /\ \E f \in Overwritten(files[conn[a].at], Lines(conn[a].sheet, conn[a].at)) :
           files' = [files EXCEPT ![conn[a].at] = f]
    /\ NextShard(a)
    /\ UNCHANGED <<tables, meta, counts>>

\* The disk refuses.  It ends the run of a crawl, whose document is committed, and
\* undoes a deletion.
FileRaises(a) ==
    /\ "file" \in Faults
    /\ conn[a].step \in {"truncate", "write"}
    /\ Become(a, Resting(IF a \in Crawlers THEN "off" ELSE "idle"))
    /\ IF lock = a THEN Rollback ELSE UNCHANGED tables
    /\ UNCHANGED <<files, meta, counts>>

-----------------------------------------------------------------------------
(* delete_crawler and clear_all_data, after their check.                   *)

Delete(e, owners, urls) ==
    /\ conn[e].step = "idle" /\ erasures < MaxErasures
    /\ \A c \in owners \ Consoles : conn[c].step = "off"
    /\ Become(e, [Resting("erasing") EXCEPT !.owners = owners, !.urls = urls])
    /\ visited' = [c \in Crawlers |-> IF c \in owners THEN {} ELSE visited[c]]
    /\ spent' = spent \cup (owners \ Consoles)
    /\ erasures' = erasures + 1
    /\ UNCHANGED <<db, files, visits, crashes>>

\* The row and the events go, and the URLs are kept for the documents.  The
\* deleted job is still referred to until the request is answered.
DeleteCrawler(e, c) ==
    /\ c \notin Consoles
    /\ Delete(e, {c}, visited[c])
    /\ UNCHANGED <<lock, draft>>

\* All jobs, rows and events go; a console's crawl is not asked.
ClearAllData(e) ==
    /\ Delete(e, Crawlers, Urls)
    /\ IF lock \in Crawlers \ Consoles
       THEN lock' = None /\ draft' = db
       ELSE UNCHANGED <<lock, draft>>

BeginErase(e) ==
    LET t == Erased(db, conn[e].owners, conn[e].urls)
    IN  /\ conn[e].step = "erasing"
        /\ Begin(e, t)
        /\ Enter(e, [conn[e] EXCEPT !.step = IF NoShards THEN "commit" ELSE "truncate",
                                    !.sheet = t.words])
        /\ UNCHANGED <<db, files, meta, counts>>

CommitErase(e) ==
    /\ conn[e].step = "commit"
    /\ Commit
    /\ Leave(e, "idle")
    /\ UNCHANGED <<files, meta, counts>>

-----------------------------------------------------------------------------
\* Five seconds have passed and another connection still holds the lock.  This
\* ends the run of a crawl ...
CrawlTimeout(c) ==
    /\ conn[c].step = "fetching" /\ lock \notin {None, c}
    /\ Become(c, Resting("off"))
    /\ UNCHANGED <<tables, files, meta, counts>>

BugEraseTimeout(e) ==
    /\ conn[e].step = "erasing" /\ lock \notin {None, e}
    /\ UNCHANGED vars

\* ... and fails a request: only then a deleted job goes.
EraseTimeout(e) ==
    /\ conn[e].step = "erasing" /\ lock \notin {None, e}
    /\ Become(e, Resting("idle"))
    /\ IF lock \in conn[e].owners \ Consoles THEN Rollback ELSE UNCHANGED tables
    /\ UNCHANGED <<files, meta, counts>>

\* Everything ends; what is committed and what is in the files stays.
Crash ==
    /\ crashes < MaxCrashes
    /\ crashes' = crashes + 1
    /\ Rollback
    /\ conn' = [a \in Agents |-> Resting(IF a \in Crawlers THEN "off" ELSE "idle")]
    /\ UNCHANGED <<files, meta, settled, visits, erasures>>

-----------------------------------------------------------------------------
CrawlStep(c) ==
    \/ ShardExists(c) \/ ShardMissing(c) \/ CreateShard(c) \/ Register(c)
    \/ \E u \in Urls : Visit(c, u)
    \/ FetchFails(c) \/ EndRun(c) \/ CrawlTimeout(c)
    \/ \E page \in Pages : BeginUpsert(c, page)
    \/ CommitUpsert(c) \/ StatementRaises(c)
    \/ TakeSheet(c) \/ NothingToWrite(c)
    \/ TruncateShard(c) \/ WriteShard(c) \/ FileRaises(c)

EraseStep(e) ==
    \/ BeginErase(e) \/ EraseTimeout(e)
    \/ TruncateShard(e) \/ WriteShard(e) \/ FileRaises(e)
    \/ CommitErase(e)

Next ==
    \/ \E c \in Crawlers : Start(c) \/ CrawlStep(c)
    \/ \E e \in Erasers :
           \/ \E c \in Crawlers : DeleteCrawler(e, c)
           \/ ClearAllData(e)
           \/ EraseStep(e)
    \/ Crash

Spec == Init /\ [][Next]_vars

FairSpec ==
    /\ Spec
    /\ \A c \in Crawlers : WF_vars(CrawlStep(c))
    /\ \A e \in Erasers : WF_vars(EraseStep(e))

-----------------------------------------------------------------------------
TypeOK ==
    /\ db \in Tables /\ draft \in Tables
    /\ lock \in Agents \cup {None}
    /\ files \in [DOMAIN Shards -> [exists : BOOLEAN, torn : BOOLEAN, lines : SUBSET Entry]]
    /\ conn \in [Agents -> [step : Steps, url : Urls \cup {None}, owners : SUBSET Crawlers,
                            urls : SUBSET Urls, sheet : SUBSET Entry,
                            at : DOMAIN Shards, alone : BOOLEAN]]
    /\ \A c \in Crawlers : conn[c].step = "fetching" => conn[c].url \in Urls
    /\ visited \in [Crawlers -> SUBSET Urls] /\ spent \subseteq Crawlers

\* sqlite_storage.py:81-123: word_entries is the inverted index of documents,
\* whatever crawls and deletions commit and whatever breaks off; search joins the
\* two (250-264) and would miss or invent hits.
Consistent(t) ==
    t.words = UNION {Entries(u, t.docs[u]) : u \in {v \in Urls : t.docs[v] # None}}

WordsFollowDocuments == Consistent(db)

\* README.md:96-98: the shards are the inverted index.  Nothing keeps writers of
\* the files apart, but one write that nobody else's overlaps makes them all right
\* again, whatever earlier ones, crashes and failures have left.
Repaired(words) ==
    NoShards \/ \A i \in DOMAIN files : files[i] = File(Lines(words, i))

LoneWriteRepairs == settled => Repaired(db.words)

\* manager.py:119-138: a document of a job was visited according to its events, so
\* a status shows no more pages indexed than crawled (503-524) and a deletion by
\* URL reaches it; a crawler whose deletion broke off between the two databases
\* is the exception.
Listed(t) ==
    \A u \in Urls :
        t.docs[u] # None /\ t.docs[u].owner \notin spent
            => u \in visited[t.docs[u].owner]

IndexedWereVisited == Listed(db)

\* Nothing of the owners, of the urls, or of documents that are not there.
Purged(t, owners, urls) ==
    \A u \in Urls :
        /\ t.docs[u] # None => u \notin urls /\ t.docs[u].owner \notin owners
        /\ t.docs[u] = None => \A w \in t.words : w.url # u

\* product_prd.md:381-387: when a deletion commits, the index holds neither a
\* document of the crawler nor a trace of a page that its events named, whatever
\* was committed between the deletion of the events and the lock.
DeletionIsComplete ==
    [][\A e \in Erasers : conn[e].step = "commit" /\ conn'[e].step = "idle" /\ crashes' = crashes
          => Purged(db', conn[e].owners, conn[e].urls)]_vars

\* sqlite_storage.py:28: a writer waits at most five seconds, so no lock, leaked or
\* held during the writing of the files, keeps a run or a request for ever.
EverybodySettles ==
    \A a \in Agents : conn[a].step \notin {"off", "idle"} ~> conn[a].step \in {"off", "idle"}

-----------------------------------------------------------------------------
(* The inductive invariant of IndexStoreProofs.                            *)

\* What a page in hand will add to the tables is listed, and so is the draft.
ListInv ==
    /\ Listed(db) /\ Listed(draft)
    /\ \A c \in Crawlers :
           conn[c].step = "fetching" => c \in spent \/ conn[c].url \in visited[c]
    /\ \A c \in Consoles :
           visited[c] = {} /\ (conn[c].step \notin {"off", "register"} => c \in spent)

\* The jobs a deletion waits for are over for good.
EraseInv ==
    \A e \in Erasers : conn[e].step = "erasing" =>
        \A c \in conn[e].owners \ Consoles : conn[c].step = "off" /\ c \in spent

\* An open transaction has the lock, and a deletion's holds what it will leave.
LockInv ==
    /\ \A c \in Crawlers : conn[c].step = "open" => lock = c
    /\ \A e \in Erasers :
           /\ conn[e].step \in {"idle", "erasing", "truncate", "write", "commit"}
           /\ conn[e].step \in {"truncate", "write", "commit"}
                  => lock = e /\ Purged(draft, conn[e].owners, conn[e].urls)

IndexInv == Consistent(db) /\ Consistent(draft) /\ ListInv /\ EraseInv /\ LockInv

\* How far a writer of the files that is alone has come.  A crawl copies what is
\* committed, a deletion what it will commit.
Progress(a) ==
    /\ Writing(a) /\ \A o \in Agents \ {a} : ~Writing(o)
    /\ conn[a].step \in {"truncate", "write"} =>
          /\ conn[a].sheet = IF a \in Crawlers THEN db.words ELSE draft.words
          /\ \A i \in 1 .. conn[a].at - 1 : files[i] = File(Lines(conn[a].sheet, i))
    /\ conn[a].step = "write" => files[conn[a].at] = File({})
    /\ a \in Erasers /\ conn[a].step = "commit" => Repaired(draft.words)

\* Nobody is in the middle of a write that is called settled, and whoever is alone
\* is the only writer.
FilesInv ==
    /\ settled => \A a \in Agents : ~Writing(a)
    /\ LoneWriteRepairs
    /\ \A a \in Agents :
          /\ conn[a].step \in {"erasing", "committed"} => conn[a].at = 1
          /\ conn[a].alone => Progress(a)

=============================================================================
