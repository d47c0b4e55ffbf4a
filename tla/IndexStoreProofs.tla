--------------------------- MODULE IndexStoreProofs ---------------------------
(***************************************************************************)
(* Proofs about IndexStore for every set of URLs, words and shards, any    *)
(* crawls and deletions, any faults and any number of crashes.             *)
(***************************************************************************)
EXTENDS IndexStore, TLAPS

-----------------------------------------------------------------------------
(* Types.                                                                  *)

Connection ==
    [step : Steps, url : Urls \cup {None}, owners : SUBSET Crawlers,
     urls : SUBSET Urls, sheet : SUBSET Entry, at : DOMAIN Shards, alone : BOOLEAN]

LEMMA FirstShard == 1 \in DOMAIN Shards /\ Len(Shards) \in Nat
                    /\ DOMAIN Shards = 1 .. Len(Shards)
  BY ShardsAssumption

LEMMA RestingType ==
  ASSUME NEW s \in Steps PROVE Resting(s) \in Connection
  BY FirstShard DEF Resting, Connection

\* The words of a document are entries.
LEMMA EntriesType ==
  ASSUME NEW u \in Urls, NEW d \in Doc PROVE Entries(u, d) \in SUBSET Entry
  <1>1. PICK page \in Pages, c \in Crawlers : d = DocOf(page, c)
    BY DEF Doc
  <1>2. d.text = page.text /\ d.depth = page.depth
    BY <1>1 DEF DocOf
  <1>3. /\ d.depth \in Nat /\ DOMAIN d.text \subseteq Words
        /\ \A w \in DOMAIN d.text : d.text[w] \in Nat
    BY <1>2, PagesAssumption
  <1> QED BY <1>3 DEF Entries, Entry

\* What the statements make of tables are tables.
LEMMA StatementsType ==
  ASSUME NEW t \in Tables
  PROVE  /\ \A u \in Urls, d \in Doc : Upserted(t, u, d) \in Tables
         /\ \A owners \in SUBSET Crawlers, urls \in SUBSET Urls :
                Erased(t, owners, urls) \in Tables
  <1>1. ASSUME NEW u \in Urls, NEW d \in Doc PROVE Upserted(t, u, d) \in Tables
    BY EntriesType DEF Upserted, Tables
  <1>2. ASSUME NEW owners \in SUBSET Crawlers, NEW urls \in SUBSET Urls
        PROVE Erased(t, owners, urls) \in Tables
    BY DEF Erased, Tables
  <1> QED BY <1>1, <1>2

\* The four ways a connection changes.
LEMMA ConnectionChanges ==
  ASSUME conn \in [Agents -> Connection], NEW a \in Agents
  PROVE  /\ \A r \in Connection : Become(a, r) => conn' \in [Agents -> Connection]
         /\ \A r \in Connection : Enter(a, r) => conn' \in [Agents -> Connection]
         /\ \A s \in Steps : Leave(a, s) => conn' \in [Agents -> Connection]
         /\ \A s \in Steps : Goto(a, s) => conn' \in [Agents -> Connection]
  <1>1. \A r \in Connection : Become(a, r) => conn' \in [Agents -> Connection]
    BY DEF Become
  <1>2. ASSUME NEW r \in Connection, Enter(a, r) PROVE conn' \in [Agents -> Connection]
    <2>1. ASSUME NEW b \in Agents, NEW p \in BOOLEAN
          PROVE /\ [r EXCEPT !.alone = p] \in Connection
                /\ [conn[b] EXCEPT !.alone = p] \in Connection
      BY DEF Connection
    <2>2. ASSUME NEW b \in Agents PROVE conn'[b] \in Connection
      BY <1>2, <2>1 DEF Enter
    <2> QED BY <1>2, <2>2 DEF Enter
  <1>3. \A s \in Steps : Leave(a, s) => conn' \in [Agents -> Connection]
    BY RestingType DEF Leave
  <1>4. ASSUME NEW s \in Steps, Goto(a, s) PROVE conn' \in [Agents -> Connection]
    <2>1. [conn[a] EXCEPT !.step = s] \in Connection
      BY DEF Connection
    <2> QED BY <1>4, <2>1 DEF Goto, Become
  <1> QED BY <1>1, <1>2, <1>3, <1>4

LEMMA TypeInit == Init => TypeOK
  <1> SUFFICES ASSUME Init PROVE TypeOK
    OBVIOUS
  <1>1. db \in Tables /\ draft \in Tables
    BY DEF Init, Tables
  <1>2. conn \in [Agents -> Connection] /\ \A c \in Crawlers : conn[c].step # "fetching"
    <2>1. Resting("off") \in Connection /\ Resting("idle") \in Connection
      BY RestingType DEF Steps
    <2> QED BY <2>1 DEF Init, Resting, Agents
  <1> QED BY <1>1, <1>2 DEF Init, TypeOK, Connection, Absent

\* The type of a connection that goes through the shards.
LEMMA ShardLoopType ==
  ASSUME TypeOK, NEW a \in Agents
  PROVE  /\ Ensured(a) \in Connection
         /\ NextShard(a) => conn' \in [Agents -> Connection]
  <1>0. conn \in [Agents -> Connection] /\ conn[a] \in Connection
    BY DEF TypeOK, Connection
  <1>1. ASSUME conn[a].at < Len(Shards)
        PROVE  /\ [conn[a] EXCEPT !.step = "ensure", !.at = @ + 1, !.alone = FALSE] \in Connection
               /\ [conn[a] EXCEPT !.step = "truncate", !.at = @ + 1] \in Connection
    <2>1. conn[a].at + 1 \in DOMAIN Shards
      BY <1>0, <1>1, FirstShard DEF Connection
    <2> QED BY <1>0, <2>1 DEF Connection, Steps
  <1>2. Ensured(a) \in Connection
    BY <1>1, RestingType DEF Ensured, Steps
  <1>3. ASSUME NextShard(a) PROVE conn' \in [Agents -> Connection]
    <2>1. CASE conn[a].at < Len(Shards)
      BY <1>0, <1>1, <1>3, <2>1, ConnectionChanges DEF NextShard
    <2>2. CASE ~(conn[a].at < Len(Shards))
      BY <1>0, <1>3, <2>2, ConnectionChanges DEF NextShard, Steps
    <2> QED BY <2>1, <2>2
  <1> QED BY <1>2, <1>3

\* Files stay files, whatever is written.
LEMMA FileType ==
  ASSUME TypeOK, NEW i \in DOMAIN Shards, NEW sheet \in SUBSET Entry,
         NEW f \in Overwritten(files[i], Lines(sheet, i)) \cup {File({})}
  PROVE  [files EXCEPT ![i] = f] \in
             [DOMAIN Shards -> [exists : BOOLEAN, torn : BOOLEAN, lines : SUBSET Entry]]
  <1> DEFINE FileTypes == [exists : BOOLEAN, torn : BOOLEAN, lines : SUBSET Entry]
  <1>1. f \in FileTypes
    <2>1. files[i] \in FileTypes
      BY DEF TypeOK
    <2>2. Lines(sheet, i) \in SUBSET Entry
      BY DEF Lines
    <2>3. \A ls \in SUBSET Entry : File(ls) \in FileTypes
      BY DEF File
    <2>4. Torn \in FileTypes /\ {} \in SUBSET Entry
      BY DEF Torn
    <2> HIDE DEF FileTypes
    <2> QED BY <2>1, <2>2, <2>3, <2>4 DEF Overwritten
  <1> QED BY <1>1 DEF TypeOK

-----------------------------------------------------------------------------
(* What each action does to the step of its connection; the others' steps, *)
(* pages and targets stay.                                                 *)

Same(b) ==
    /\ conn'[b].step = conn[b].step /\ conn'[b].url = conn[b].url
    /\ conn'[b].owners = conn[b].owners /\ conn'[b].urls = conn[b].urls

Moved(a, steps) ==
    /\ conn' \in [Agents -> Connection] /\ conn'[a].step \in steps
    /\ \A b \in Agents \ {a} : Same(b)

SameTarget(a) == conn'[a].owners = conn[a].owners /\ conn'[a].urls = conn[a].urls

LEMMA Moves ==
  ASSUME TypeOK, NEW a \in Agents
  PROVE  /\ \A r \in Connection : Become(a, r) =>
                Moved(a, {r.step}) /\ conn'[a] = r
         /\ \A r \in Connection : Enter(a, r) =>
                /\ Moved(a, {r.step}) /\ conn'[a].url = r.url
                /\ conn'[a].owners = r.owners /\ conn'[a].urls = r.urls
         /\ \A s \in Steps : Leave(a, s) => Moved(a, {s})
         /\ \A s \in Steps : Goto(a, s) => Moved(a, {s}) /\ SameTarget(a)
  <1>0. conn \in [Agents -> Connection]
    BY DEF TypeOK, Connection
  <1>1. \A r \in Connection : Become(a, r) => Moved(a, {r.step}) /\ conn'[a] = r
    BY <1>0, ConnectionChanges DEF Become, Moved, Same
  <1>2. ASSUME NEW r \in Connection, Enter(a, r)
        PROVE  /\ Moved(a, {r.step}) /\ conn'[a].url = r.url
               /\ conn'[a].owners = r.owners /\ conn'[a].urls = r.urls
    <2>1. ASSUME NEW x \in Connection, NEW p
          PROVE  LET y == [x EXCEPT !.alone = p]
                 IN  /\ y.step = x.step /\ y.url = x.url
                     /\ y.owners = x.owners /\ y.urls = x.urls
      BY DEF Connection
    <2>2. ASSUME NEW b \in Agents \ {a} PROVE Same(b)
      BY <1>0, <1>2, <2>1 DEF Enter, Same
    <2> DEFINE p == \A o \in Agents \ {a} : ~Writing(o)
    <2>3. conn'[a] = [r EXCEPT !.alone = p]
      BY <1>0, <1>2 DEF Enter
    <2> HIDE DEF p
    <2>4. /\ conn'[a].step = r.step /\ conn'[a].url = r.url
          /\ conn'[a].owners = r.owners /\ conn'[a].urls = r.urls
      BY <2>1, <2>3
    <2> QED BY <1>0, <1>2, <2>2, <2>4, ConnectionChanges DEF Moved
  <1>3. ASSUME NEW s \in Steps, Leave(a, s) PROVE Moved(a, {s})
    <2>1. Resting(s) \in Connection /\ Resting(s).step = s
      BY RestingType DEF Resting
    <2>2. conn' = [conn EXCEPT ![a] = Resting(s)]
      BY <1>3 DEF Leave
    <2> QED BY <1>0, <2>1, <2>2 DEF Moved, Same
  <1>4. ASSUME NEW s \in Steps, Goto(a, s) PROVE Moved(a, {s}) /\ SameTarget(a)
    <2>1. LET y == [conn[a] EXCEPT !.step = s]
          IN  y \in Connection /\ y.step = s /\ y.owners = conn[a].owners /\ y.urls = conn[a].urls
      BY <1>0 DEF Connection
    <2> QED BY <1>0, <1>1, <1>4, <2>1 DEF Goto, SameTarget
  <1> QED BY <1>1, <1>2, <1>3, <1>4

\* The shard loops.
LEMMA LoopMoves ==
  ASSUME TypeOK, NEW a \in Agents
  PROVE  /\ Become(a, Ensured(a)) => Moved(a, {"ensure", "register"})
         /\ NextShard(a) /\ a \in Crawlers => Moved(a, {"truncate", "idle"})
         /\ NextShard(a) /\ a \notin Crawlers =>
                Moved(a, {"truncate", "commit"}) /\ SameTarget(a)
  <1>0. conn[a] \in Connection
    BY DEF TypeOK, Connection
  <1>1. Ensured(a) \in Connection /\ Ensured(a).step \in {"ensure", "register"}
    BY <1>0, ShardLoopType DEF Ensured, Resting, Connection
  <1>2. ASSUME NextShard(a), conn[a].at < Len(Shards)
        PROVE  Moved(a, {"truncate"}) /\ SameTarget(a)
    <2>1. conn[a].at + 1 \in DOMAIN Shards
      BY <1>0, <1>2, FirstShard DEF Connection
    <2>2. LET y == [conn[a] EXCEPT !.step = "truncate", !.at = @ + 1]
          IN  /\ y \in Connection /\ y.step = "truncate"
              /\ y.owners = conn[a].owners /\ y.urls = conn[a].urls
      BY <1>0, <2>1 DEF Connection, Steps
    <2> QED BY <1>2, <2>2, Moves DEF NextShard, SameTarget
  <1>3. ASSUME NextShard(a), ~(conn[a].at < Len(Shards))
        PROVE  /\ a \in Crawlers => Moved(a, {"idle"})
               /\ a \notin Crawlers => Moved(a, {"commit"}) /\ SameTarget(a)
    BY <1>3, Moves DEF NextShard, Steps
  <1> QED BY <1>1, <1>2, <1>3, Moves DEF Moved

\* The actions of a crawl.
LEMMA CrawlMoves ==
  ASSUME TypeOK, NEW c \in Crawlers
  PROVE  /\ Start(c) => Moved(c, {"ensure", "register"})
         /\ ShardExists(c) => Moved(c, {"ensure", "register"})
         /\ ShardMissing(c) => Moved(c, {"create"})
         /\ CreateShard(c) => Moved(c, {"ensure", "register"})
         /\ Register(c) => Moved(c, {"idle"})
         /\ \A u \in Urls : Visit(c, u) => Moved(c, {"fetching"}) /\ conn'[c].url = u
         /\ FetchFails(c) \/ NothingToWrite(c) => Moved(c, {"idle"})
         /\ EndRun(c) \/ StatementRaises(c) => Moved(c, {"off"})
         /\ \A page \in Pages : BeginUpsert(c, page) => Moved(c, {"open"})
         /\ CommitUpsert(c) => Moved(c, {"committed"})
         /\ TakeSheet(c) => Moved(c, {"truncate"})
         /\ CrawlTimeout(c) => Moved(c, {"off"})
  <1>0. c \in Agents /\ conn[c] \in Connection
    BY DEF TypeOK, Connection, Agents
  <1> USE <1>0
  <1>1. Start(c) => Moved(c, {"ensure", "register"})
    BY Moves DEF Start, Steps, Moved
  <1>2. /\ ShardExists(c) => Moved(c, {"ensure", "register"})
        /\ CreateShard(c) => Moved(c, {"ensure", "register"})
    BY LoopMoves DEF ShardExists, CreateShard
  <1>3. ShardMissing(c) => Moved(c, {"create"})
    <2>1. LET y == [conn[c] EXCEPT !.step = "create"]
          IN  y \in Connection /\ y.step = "create"
      BY DEF Connection, Steps
    <2> QED BY <2>1, Moves DEF ShardMissing
  <1>4. \A s \in Steps : Resting(s) \in Connection /\ Resting(s).step = s
    BY RestingType DEF Resting
  <1>5. /\ Register(c) => Moved(c, {"idle"})
        /\ FetchFails(c) \/ NothingToWrite(c) => Moved(c, {"idle"})
        /\ EndRun(c) \/ StatementRaises(c) => Moved(c, {"off"})
        /\ \A page \in Pages : BeginUpsert(c, page) => Moved(c, {"open"})
        /\ CommitUpsert(c) => Moved(c, {"committed"})
        /\ CrawlTimeout(c) => Moved(c, {"off"})
    BY <1>4, Moves DEF Register, FetchFails, NothingToWrite, EndRun, StatementRaises,
         BeginUpsert, CommitUpsert, CrawlTimeout, Steps, Moved
  <1>6. ASSUME NEW u \in Urls, Visit(c, u)
        PROVE  Moved(c, {"fetching"}) /\ conn'[c].url = u
    <2>1. LET y == [conn[c] EXCEPT !.step = "fetching", !.url = u]
          IN  y \in Connection /\ y.step = "fetching" /\ y.url = u
      BY DEF Connection, Steps
    <2> QED BY <1>6, <2>1, Moves DEF Visit
  <1>7. TakeSheet(c) => Moved(c, {"truncate"})
    <2>1. ASSUME NEW ws \in SUBSET Entry
          PROVE  LET y == [conn[c] EXCEPT !.step = "truncate", !.sheet = ws]
                 IN  y \in Connection /\ y.step = "truncate"
      BY DEF Connection, Steps
    <2>2. db.words \in SUBSET Entry
      BY DEF TypeOK, Tables
    <2> QED BY <2>1, <2>2, Moves DEF TakeSheet
  <1> QED BY <1>1, <1>2, <1>3, <1>5, <1>6, <1>7

\* The writing of the files, by crawls and by deletions.
LEMMA FileMoves ==
  ASSUME TypeOK, NEW a \in Agents
  PROVE  /\ TruncateShard(a) => Moved(a, {"write"}) /\ SameTarget(a)
         /\ WriteShard(a) /\ a \in Crawlers => Moved(a, {"truncate", "idle"})
         /\ WriteShard(a) /\ a \notin Crawlers =>
                Moved(a, {"truncate", "commit"}) /\ SameTarget(a)
         /\ FileRaises(a) => Moved(a, {IF a \in Crawlers THEN "off" ELSE "idle"})
         /\ (TruncateShard(a) \/ WriteShard(a)) =>
                files' \in [DOMAIN Shards ->
                               [exists : BOOLEAN, torn : BOOLEAN, lines : SUBSET Entry]]
  <1>0. conn[a] \in Connection /\ conn[a].at \in DOMAIN Shards /\ conn[a].sheet \in SUBSET Entry
    BY DEF TypeOK, Connection
  <1>1. TruncateShard(a) => Moved(a, {"write"}) /\ SameTarget(a)
    BY Moves DEF TruncateShard, Steps
  <1>2. WriteShard(a) => NextShard(a)
    BY DEF WriteShard
  <1>3. FileRaises(a) => Moved(a, {IF a \in Crawlers THEN "off" ELSE "idle"})
    <2>1. \A s \in Steps : Resting(s) \in Connection /\ Resting(s).step = s
      BY RestingType DEF Resting
    <2>2. (IF a \in Crawlers THEN "off" ELSE "idle") \in Steps
      BY DEF Steps
    <2> QED BY <2>1, <2>2, Moves DEF FileRaises
  <1>4. (TruncateShard(a) \/ WriteShard(a)) =>
            files' \in [DOMAIN Shards ->
                           [exists : BOOLEAN, torn : BOOLEAN, lines : SUBSET Entry]]
    BY <1>0, FileType DEF TruncateShard, WriteShard
  <1> QED BY <1>1, <1>2, <1>3, <1>4, LoopMoves

\* The other actions of a deletion.
LEMMA EraseMoves ==
  ASSUME TypeOK, NEW e \in Erasers
  PROVE  /\ \A owners \in SUBSET Crawlers, urls \in SUBSET Urls :
                Delete(e, owners, urls) =>
                    /\ Moved(e, {"erasing"})
                    /\ conn'[e].owners = owners /\ conn'[e].urls = urls
         /\ BeginErase(e) => Moved(e, {"truncate", "commit"}) /\ SameTarget(e)
         /\ CommitErase(e) => Moved(e, {"idle"})
         /\ EraseTimeout(e) => Moved(e, {"idle"})
  <1>0. e \in Agents /\ conn[e] \in Connection
    BY DEF TypeOK, Connection, Agents
  <1> USE <1>0
  <1>1. ASSUME NEW owners \in SUBSET Crawlers, NEW urls \in SUBSET Urls, Delete(e, owners, urls)
        PROVE  Moved(e, {"erasing"}) /\ conn'[e].owners = owners /\ conn'[e].urls = urls
    <2>1. LET y == [Resting("erasing") EXCEPT !.owners = owners, !.urls = urls]
          IN  /\ y \in Connection /\ y.step = "erasing"
              /\ y.owners = owners /\ y.urls = urls
      BY FirstShard DEF Resting, Connection, Steps
    <2> QED BY <1>1, <2>1, Moves DEF Delete
  <1>2. ASSUME BeginErase(e) PROVE Moved(e, {"truncate", "commit"}) /\ SameTarget(e)
    <2> DEFINE ws == Erased(db, conn[e].owners, conn[e].urls).words
               s  == IF NoShards THEN "commit" ELSE "truncate"
               y  == [conn[e] EXCEPT !.step = s, !.sheet = ws]
    <2>1. Enter(e, y)
      BY <1>2 DEF BeginErase
    <2>2. ws \in SUBSET Entry
      BY DEF Erased, TypeOK, Tables
    <2>3. s \in {"truncate", "commit"}
      OBVIOUS
    <2> HIDE DEF s, ws
    <2>4. /\ y \in Connection /\ y.step \in {"truncate", "commit"}
          /\ y.owners = conn[e].owners /\ y.urls = conn[e].urls
      BY <2>2, <2>3 DEF Connection, Steps
    <2> HIDE DEF y
    <2> QED BY <2>1, <2>4, Moves DEF SameTarget, Moved
  <1>3. CommitErase(e) => Moved(e, {"idle"})
    BY Moves DEF CommitErase, Steps
  <1>4. EraseTimeout(e) => Moved(e, {"idle"})
    <2>1. Resting("idle") \in Connection /\ Resting("idle").step = "idle"
      BY RestingType DEF Resting, Steps
    <2> QED BY <2>1, Moves DEF EraseTimeout
  <1> QED BY <1>1, <1>2, <1>3, <1>4

LEMMA CrashMoves ==
  TypeOK /\ Crash =>
      /\ conn' \in [Agents -> Connection]
      /\ \A c \in Crawlers : conn'[c].step = "off"
      /\ \A e \in Erasers : conn'[e].step = "idle"
  <1>1. \A s \in {"off", "idle"} : Resting(s) \in Connection /\ Resting(s).step = s
    BY RestingType DEF Resting, Steps
  <1>2. \A e \in Erasers : e \notin Crawlers
    BY AgentsAssumption
  <1> QED BY <1>1, <1>2 DEF Crash, Agents

-----------------------------------------------------------------------------
(* Type correctness.                                                       *)

\* A page is in hand with its URL.
InHand == \A c \in Crawlers : conn[c].step = "fetching" => conn[c].url \in Urls

LEMMA InHandKept ==
  ASSUME TypeOK, NEW a \in Agents, NEW steps, Moved(a, steps),
         a \in Crawlers /\ "fetching" \in steps => conn'[a].url \in Urls
  PROVE  InHand'
  BY DEF TypeOK, Moved, Same, InHand, Agents

FileTypes == [DOMAIN Shards -> [exists : BOOLEAN, torn : BOOLEAN, lines : SUBSET Entry]]

TypedData ==
    /\ db \in Tables /\ draft \in Tables /\ lock \in Agents \cup {None}
    /\ files \in FileTypes
    /\ visited \in [Crawlers -> SUBSET Urls] /\ spent \subseteq Crawlers

LEMMA TypeParts ==
  /\ TypeOK <=> TypedData /\ conn \in [Agents -> Connection] /\ InHand
  /\ TypeOK' <=> TypedData' /\ conn' \in [Agents -> Connection] /\ InHand'
  <1>1. TypeOK <=> TypedData /\ conn \in [Agents -> Connection] /\ InHand
    BY DEF TypeOK, TypedData, FileTypes, Connection, InHand
  <1>2. TypeOK' <=> TypedData' /\ conn' \in [Agents -> Connection] /\ InHand'
    BY DEF TypeOK, TypedData, FileTypes, Connection, InHand
  <1> QED BY <1>1, <1>2

LEMMA CrawlTypes ==
  ASSUME TypeOK, NEW c \in Crawlers, Start(c) \/ CrawlStep(c)
  PROVE  TypeOK'
  <1>0. c \in Agents /\ TypedData /\ conn[c] \in Connection /\ InHand
    BY TypeParts DEF Agents
  <1> USE <1>0 DEF tables, meta
  <1>1. ASSUME NEW steps, Moved(c, steps), "fetching" \notin steps, TypedData' PROVE TypeOK'
    BY <1>1, InHandKept, TypeParts DEF Moved
  <1>2. CASE Start(c)
    <2>1. TypedData'
      BY <1>2 DEF Start, TypedData
    <2> QED BY <1>1, <1>2, <2>1, CrawlMoves
  <1>3. CASE ShardExists(c) \/ ShardMissing(c)
    <2>1. TypedData'
      BY <1>3 DEF ShardExists, ShardMissing, TypedData
    <2> QED BY <1>1, <1>3, <2>1, CrawlMoves
  <1>4. CASE CreateShard(c)
    <2>1. conn[c].at \in DOMAIN Shards
      BY DEF Connection
    <2>2. files' \in FileTypes
      BY <1>4, <2>1, FileType DEF CreateShard, FileTypes
    <2>3. TypedData'
      BY <1>4, <2>2 DEF CreateShard, TypedData
    <2> QED BY <1>1, <1>4, <2>3, CrawlMoves
  <1>5. CASE Register(c)
    <2>1. TypedData'
      BY <1>5 DEF Register, Rollback, TypedData
    <2> QED BY <1>1, <1>5, <2>1, CrawlMoves
  <1>6. ASSUME NEW u \in Urls, Visit(c, u) PROVE TypeOK'
    <2>1. TypedData'
      BY <1>6 DEF Visit, TypedData
    <2>2. Moved(c, {"fetching"}) /\ conn'[c].url = u
      BY <1>6, CrawlMoves
    <2>3. InHand'
      BY <2>2, InHandKept
    <2> QED BY <2>1, <2>2, <2>3, TypeParts DEF Moved
  <1>7. CASE FetchFails(c) \/ EndRun(c) \/ TakeSheet(c) \/ NothingToWrite(c)
    <2>1. TypedData'
      BY <1>7 DEF FetchFails, EndRun, TakeSheet, NothingToWrite, TypedData
    <2> QED BY <1>1, <1>7, <2>1, CrawlMoves
  <1>8. ASSUME NEW page \in Pages, BeginUpsert(c, page) PROVE TypeOK'
    <2>1. conn[c].url \in Urls /\ DocOf(page, c) \in Doc
      BY <1>8 DEF BeginUpsert, InHand, Doc
    <2>2. Upserted(db, conn[c].url, DocOf(page, c)) \in Tables
      BY <2>1, StatementsType DEF TypedData
    <2>3. TypedData'
      BY <1>8, <2>2 DEF BeginUpsert, Begin, TypedData
    <2> QED BY <1>1, <1>8, <2>3, CrawlMoves
  <1>9. CASE CommitUpsert(c) \/ StatementRaises(c)
    <2>1. TypedData'
      BY <1>9 DEF CommitUpsert, StatementRaises, Commit, Rollback, TypedData
    <2> QED BY <1>1, <1>9, <2>1, CrawlMoves
  <1>10. CASE CrawlTimeout(c)
    <2>1. TypedData'
      BY <1>10 DEF CrawlTimeout, TypedData
    <2> QED BY <1>1, <1>10, <2>1, CrawlMoves
  <1>11. CASE TruncateShard(c) \/ WriteShard(c)
    <2>1. TypedData'
      BY <1>11, FileMoves DEF TruncateShard, WriteShard, TypedData, FileTypes
    <2> QED BY <1>1, <1>11, <2>1, FileMoves
  <1>12. CASE FileRaises(c)
    <2>1. TypedData'
      BY <1>12 DEF FileRaises, Rollback, TypedData
    <2>2. Moved(c, {"off"})
      BY <1>12, FileMoves
    <2> QED BY <1>1, <2>1, <2>2
  <1> QED BY <1>2, <1>3, <1>4, <1>5, <1>6, <1>7, <1>8, <1>9, <1>10, <1>11, <1>12 DEF CrawlStep

LEMMA EraseTypes ==
  ASSUME TypeOK, NEW e \in Erasers,
         \/ \E c \in Crawlers : DeleteCrawler(e, c)
         \/ ClearAllData(e) \/ EraseStep(e)
  PROVE  TypeOK'
  <1>0. e \in Agents /\ e \notin Crawlers /\ TypedData /\ conn[e] \in Connection
    BY TypeParts, AgentsAssumption DEF Agents
  <1> USE <1>0 DEF tables, meta
  <1>1. ASSUME NEW steps, Moved(e, steps), TypedData' PROVE TypeOK'
    BY <1>1, InHandKept, TypeParts DEF Moved
  <1>2. ASSUME NEW c \in Crawlers, DeleteCrawler(e, c) PROVE TypeOK'
    <2>1. visited[c] \in SUBSET Urls /\ Delete(e, {c}, visited[c])
      BY <1>2 DEF DeleteCrawler, TypedData
    <2>2. TypedData'
      BY <1>2 DEF DeleteCrawler, Delete, TypedData
    <2> QED BY <1>1, <2>1, <2>2, EraseMoves
  <1>3. CASE ClearAllData(e)
    <2>1. TypedData'
      BY <1>3 DEF ClearAllData, Delete, TypedData
    <2> QED BY <1>1, <1>3, <2>1, EraseMoves DEF ClearAllData
  <1>4. CASE BeginErase(e)
    <2>1. Erased(db, conn[e].owners, conn[e].urls) \in Tables
      BY StatementsType DEF TypedData, Connection
    <2>2. TypedData'
      BY <1>4, <2>1 DEF BeginErase, Begin, TypedData
    <2> QED BY <1>1, <1>4, <2>2, EraseMoves
  <1>5. CASE CommitErase(e)
    <2>1. TypedData'
      BY <1>5 DEF CommitErase, Commit, TypedData
    <2> QED BY <1>1, <1>5, <2>1, EraseMoves
  <1>6. CASE EraseTimeout(e)
    <2>1. TypedData'
      BY <1>6 DEF EraseTimeout, Rollback, TypedData
    <2> QED BY <1>1, <1>6, <2>1, EraseMoves
  <1>7. CASE TruncateShard(e) \/ WriteShard(e)
    <2>1. TypedData'
      BY <1>7, FileMoves DEF TruncateShard, WriteShard, TypedData, FileTypes
    <2> QED BY <1>1, <1>7, <2>1, FileMoves
  <1>8. CASE FileRaises(e)
    <2>1. TypedData'
      BY <1>8 DEF FileRaises, Rollback, TypedData
    <2> QED BY <1>1, <1>8, <2>1, FileMoves
  <1> QED BY <1>2, <1>3, <1>4, <1>5, <1>6, <1>7, <1>8 DEF EraseStep

LEMMA TypeStep == TypeOK /\ [Next]_vars => TypeOK'
  <1> SUFFICES ASSUME TypeOK, [Next]_vars PROVE TypeOK'
    OBVIOUS
  <1>1. CASE Crash
    <2>1. TypedData'
      BY <1>1, TypeParts DEF Crash, Rollback, TypedData, meta
    <2> QED BY <1>1, <2>1, CrashMoves, TypeParts DEF InHand
  <1>2. CASE UNCHANGED vars
    BY <1>2 DEF vars, tables, meta, TypeOK
  <1> QED BY <1>1, <1>2, CrawlTypes, EraseTypes DEF Next

\* Every variable keeps its type, and a page in hand has a URL: a loop over the
\* shards never leaves them (sqlite_storage.py:292-325).
THEOREM TypeCorrect == Spec => []TypeOK
  BY TypeInit, TypeStep, PTL DEF Spec

-----------------------------------------------------------------------------
(* Words and documents.                                                    *)

LEMMA EntryOf == \A u, d : \A w \in Entries(u, d) : w.url = u
  BY DEF Entries

\* The statements keep the words in step with the documents.
LEMMA StatementsConsistent ==
  ASSUME NEW t \in Tables, Consistent(t)
  PROVE  /\ \A u \in Urls, d \in Doc : Consistent(Upserted(t, u, d))
         /\ \A owners, urls : Consistent(Erased(t, owners, urls))
  <1>0. /\ \A w : w \in t.words <=>
                \E u \in Urls : t.docs[u] # None /\ w \in Entries(u, t.docs[u])
        /\ t.docs \in [Urls -> Doc \cup {None}]
    BY DEF Consistent, Tables
  <1>1. ASSUME NEW u \in Urls, NEW d \in Doc PROVE Consistent(Upserted(t, u, d))
    <2> DEFINE x == Upserted(t, u, d)
    <2>1. /\ \A v \in Urls : x.docs[v] = IF v = u THEN d ELSE t.docs[v]
          /\ d # None
      BY <1>0, NoneAssumption DEF Upserted
    <2>2. \A w : w \in x.words <=>
              \E v \in Urls : x.docs[v] # None /\ w \in Entries(v, x.docs[v])
      BY <1>0, <2>1, EntryOf DEF Upserted
    <2> HIDE DEF x
    <2>3. Consistent(x)
      BY <2>2 DEF Consistent
    <2> QED BY <2>3 DEF x
  <1>2. ASSUME NEW owners, NEW urls PROVE Consistent(Erased(t, owners, urls))
    <2> DEFINE x    == Erased(t, owners, urls)
               gone == {u \in Urls : t.docs[u] # None /\ t.docs[u].owner \in owners} \cup urls
    <2>1. \A v \in Urls : x.docs[v] = IF v \in gone THEN None ELSE t.docs[v]
      BY DEF Erased
    <2>2. \A w : w \in x.words <=> w \in t.words /\ w.url \notin gone
      BY DEF Erased
    <2> HIDE DEF x, gone
    <2>3. \A w : w \in x.words <=>
              \E v \in Urls : x.docs[v] # None /\ w \in Entries(v, x.docs[v])
      BY <1>0, <2>1, <2>2, EntryOf
    <2>4. Consistent(x)
      BY <2>3 DEF Consistent
    <2> QED BY <2>4 DEF x
  <1> QED BY <1>1, <1>2

\* The five things a step may do to the tables.
LEMMA TableSteps ==
  ASSUME TypeOK, [Next]_vars
  PROVE  \/ UNCHANGED <<db, draft>>
         \/ db' = db /\ draft' = db
         \/ db' = draft /\ draft' = draft
         \/ \E c \in Crawlers, page \in Pages :
                BeginUpsert(c, page) /\ conn[c].url \in Urls /\ DocOf(page, c) \in Doc
         \/ \E e \in Erasers : BeginErase(e)
  <1> USE DEF tables, Rollback, Commit
  <1>1. ASSUME NEW a \in Agents, TruncateShard(a) \/ WriteShard(a) \/ FileRaises(a)
        PROVE  UNCHANGED <<db, draft>> \/ (db' = db /\ draft' = db)
    BY <1>1 DEF TruncateShard, WriteShard, FileRaises
  <1>2. ASSUME NEW c \in Crawlers, Start(c) \/ CrawlStep(c) PROVE
              \/ UNCHANGED <<db, draft>>
              \/ db' = db /\ draft' = db
              \/ db' = draft /\ draft' = draft
              \/ \E page \in Pages : BeginUpsert(c, page)
    <2>1. ASSUME NEW u \in Urls, Visit(c, u) PROVE UNCHANGED <<db, draft>>
      BY <2>1 DEF Visit
    <2>2. c \in Agents
      BY DEF Agents
    <2> QED BY <1>1, <1>2, <2>1, <2>2 DEF CrawlStep, Start, ShardExists, ShardMissing, CreateShard,
              Register, FetchFails, EndRun, CommitUpsert, StatementRaises, TakeSheet,
              NothingToWrite, CrawlTimeout
  <1>3. \A c \in Crawlers, page \in Pages :
            BeginUpsert(c, page) => conn[c].url \in Urls /\ DocOf(page, c) \in Doc
    BY DEF BeginUpsert, TypeOK, Doc
  <1>4. ASSUME NEW e \in Erasers,
               \/ \E c \in Crawlers : DeleteCrawler(e, c)
               \/ ClearAllData(e) \/ EraseStep(e)
        PROVE \/ UNCHANGED <<db, draft>>
              \/ db' = db /\ draft' = db
              \/ db' = draft /\ draft' = draft
              \/ BeginErase(e)
    <2>1. e \in Agents
      BY DEF Agents
    <2> QED BY <1>1, <1>4, <2>1 DEF EraseStep, DeleteCrawler, ClearAllData, Delete, CommitErase,
              EraseTimeout
  <1>5. CASE Crash
    BY <1>5 DEF Crash
  <1>6. CASE UNCHANGED vars
    BY <1>6 DEF vars
  <1> QED BY <1>2, <1>3, <1>4, <1>5, <1>6 DEF Next

LEMMA ConsistentStep ==
  TypeOK /\ Consistent(db) /\ Consistent(draft) /\ [Next]_vars
      => Consistent(db)' /\ Consistent(draft)'
  <1> SUFFICES ASSUME TypeOK, Consistent(db), Consistent(draft), [Next]_vars
               PROVE  Consistent(db') /\ Consistent(draft')
    BY DEF Consistent
  <1>0. db \in Tables
    BY DEF TypeOK
  <1>1. ASSUME NEW c \in Crawlers, NEW page \in Pages,
               BeginUpsert(c, page), conn[c].url \in Urls, DocOf(page, c) \in Doc
        PROVE  Consistent(db') /\ Consistent(draft')
    BY <1>0, <1>1, StatementsConsistent DEF BeginUpsert, Begin
  <1>2. ASSUME NEW e \in Erasers, BeginErase(e)
        PROVE  Consistent(db') /\ Consistent(draft')
    BY <1>0, <1>2, StatementsConsistent DEF BeginErase, Begin
  <1> QED BY <1>1, <1>2, TableSteps

\* Whatever crawls and deletions commit, the words are those of the documents.
THEOREM WordsAreTheDocuments == Spec => []WordsFollowDocuments
  <1>1. Init => Consistent(db) /\ Consistent(draft)
    BY DEF Init, Consistent
  <1>2. TypeOK /\ Consistent(db) /\ Consistent(draft) /\ [Next]_vars
            => Consistent(db)' /\ Consistent(draft)'
    BY ConsistentStep
  <1>3. Consistent(db) => WordsFollowDocuments
    BY DEF WordsFollowDocuments
  <1> QED BY <1>1, <1>2, <1>3, TypeCorrect, PTL DEF Spec

-----------------------------------------------------------------------------
(* Documents and events.                                                   *)

LEMMA OwnerType ==
  \A t \in Tables, u \in Urls : t.docs[u] # None => t.docs[u].owner \in Crawlers
  BY DEF Tables, Doc, DocOf

\* ListInv over steps that change neither events nor ids: what is added to the
\* tables has been in hand, and nobody takes a page in hand.
LEMMA ListKept ==
  ASSUME TypeOK, ListInv, UNCHANGED <<visited, spent>>,
         \A x \in {db', draft'} : x = db \/ x = draft \/ Listed(x),
         \A c \in Crawlers : conn'[c].step = "fetching" =>
             conn[c].step = "fetching" /\ conn'[c].url = conn[c].url,
         \A c \in Consoles : conn'[c].step \notin {"off", "register"} =>
             conn[c].step \notin {"off", "register"}
  PROVE  ListInv'
  <1>1. Listed(db)' /\ Listed(draft)'
    BY DEF ListInv, Listed
  <1> QED BY <1>1, AgentsAssumption DEF ListInv

LEMMA ListCrawlStep ==
  ASSUME TypeOK, ListInv, NEW c \in Crawlers, Start(c) \/ CrawlStep(c)
  PROVE  ListInv'
  <1>0. c \in Agents /\ conn[c] \in Connection /\ Crawlers \subseteq Agents /\ Consoles \subseteq Crawlers
    BY AgentsAssumption DEF TypeOK, Connection, Agents
  <1> USE <1>0 DEF tables, meta
  <1>1. ASSUME NEW steps, Moved(c, steps), "fetching" \notin steps,
               c \in Consoles => \/ conn[c].step \notin {"off", "register"}
                                 \/ steps \subseteq {"off", "register"},
               UNCHANGED <<visited, spent>>,
               \A x \in {db', draft'} : x = db \/ x = draft \/ Listed(x)
        PROVE  ListInv'
    BY <1>1, ListKept DEF Moved, Same
  <1>2. CASE Start(c)
    <2>1. CASE c \in Consoles
      <3>1. Moved(c, {"register"})
        BY <1>2, <2>1, Moves DEF Start, Steps
      <3> QED BY <1>1, <1>2, <2>1, <3>1 DEF Start
    <2>2. CASE c \notin Consoles
      BY <1>1, <1>2, <2>2, CrawlMoves DEF Start
    <2> QED BY <2>1, <2>2
  <1>3. CASE ShardExists(c)
    BY <1>1, <1>3, CrawlMoves DEF ShardExists
  <1>4. CASE ShardMissing(c)
    BY <1>1, <1>4, CrawlMoves DEF ShardMissing
  <1>5. CASE CreateShard(c)
    BY <1>1, <1>5, CrawlMoves DEF CreateShard
  <1>6. CASE Register(c)
    <2>1. /\ Moved(c, {"idle"}) /\ visited' = visited
          /\ spent' = spent \cup ({c} \cap Consoles)
          /\ db' = db /\ draft' \in {db, draft}
      BY <1>6, CrawlMoves DEF Register, Rollback
    <2>2. Listed(db)' /\ Listed(draft)'
      BY <2>1 DEF ListInv, Listed
    <2>3. \A k \in Crawlers : conn'[k].step = "fetching" => k \in spent' \/ conn'[k].url \in visited'[k]
      BY <2>1 DEF ListInv, Moved, Same
    <2>4. \A k \in Consoles : visited'[k] = {} /\ (conn'[k].step \notin {"off", "register"} => k \in spent')
      BY <2>1 DEF ListInv, Moved, Same
    <2> QED BY <2>2, <2>3, <2>4 DEF ListInv
  <1>7. ASSUME NEW u \in Urls, Visit(c, u) PROVE ListInv'
    <2>1. /\ Moved(c, {"fetching"}) /\ conn'[c].url = u /\ conn[c].step = "idle"
          /\ db' = db /\ draft' = draft /\ spent' = spent
          /\ visited' = IF c \in Consoles THEN visited ELSE [visited EXCEPT ![c] = @ \cup {u}]
      BY <1>7, CrawlMoves DEF Visit
    <2>2. /\ visited \in [Crawlers -> SUBSET Urls]
          /\ \A k \in Crawlers : visited[k] \subseteq visited'[k]
          /\ c \notin Consoles => u \in visited'[c]
          /\ \A k \in Consoles : visited'[k] = visited[k]
      BY <2>1 DEF TypeOK
    <2>3. Listed(db)' /\ Listed(draft)'
      BY <2>1, <2>2, OwnerType DEF ListInv, Listed, TypeOK
    <2>4. \A k \in Crawlers : conn'[k].step = "fetching" => k \in spent' \/ conn'[k].url \in visited'[k]
      BY <2>1, <2>2 DEF ListInv, Moved, Same
    <2>5. \A k \in Consoles : visited'[k] = {} /\ (conn'[k].step \notin {"off", "register"} => k \in spent')
      BY <2>1, <2>2 DEF ListInv, Moved, Same
    <2> QED BY <2>3, <2>4, <2>5 DEF ListInv
  <1>8. CASE FetchFails(c) \/ NothingToWrite(c) \/ TakeSheet(c)
    BY <1>1, <1>8, CrawlMoves DEF FetchFails, NothingToWrite, TakeSheet
  <1>9. CASE EndRun(c) \/ StatementRaises(c)
    BY <1>1, <1>9, CrawlMoves DEF EndRun, StatementRaises, Rollback
  <1>10. ASSUME NEW page \in Pages, BeginUpsert(c, page) PROVE ListInv'
    <2> DEFINE u == conn[c].url
               d == DocOf(page, c)
    <2>1. /\ u \in Urls /\ d \in Doc /\ d # None /\ d.owner = c
          /\ c \in spent \/ u \in visited[c]
      BY <1>10, NoneAssumption DEF BeginUpsert, TypeOK, ListInv, Doc, DocOf
    <2> HIDE DEF d
    <2>2. Listed(Upserted(db, u, d))
      BY <2>1 DEF Listed, ListInv, Upserted, TypeOK, Tables
    <2>3. /\ db' = db /\ draft' = Upserted(db, u, d)
          /\ UNCHANGED <<visited, spent>> /\ Moved(c, {"open"}) /\ conn[c].step = "fetching"
      BY <1>10, CrawlMoves DEF BeginUpsert, Begin, d
    <2> QED BY <1>1, <2>2, <2>3
  <1>11. CASE CommitUpsert(c)
    BY <1>1, <1>11, CrawlMoves DEF CommitUpsert, Commit
  <1>12. CASE CrawlTimeout(c)
    BY <1>1, <1>12, CrawlMoves DEF CrawlTimeout
  <1>13. CASE TruncateShard(c) \/ WriteShard(c)
    BY <1>1, <1>13, FileMoves DEF TruncateShard, WriteShard
  <1>14. CASE FileRaises(c)
    <2>1. Moved(c, {"off"})
      BY <1>14, FileMoves
    <2> QED BY <1>1, <1>14, <2>1 DEF FileRaises, Rollback
  <1> QED BY <1>2, <1>3, <1>4, <1>5, <1>6, <1>7, <1>8, <1>9, <1>10, <1>11, <1>12, <1>13, <1>14
          DEF CrawlStep

LEMMA ListEraseStep ==
  ASSUME TypeOK, ListInv, NEW e \in Erasers,
         \/ \E c \in Crawlers : DeleteCrawler(e, c)
         \/ ClearAllData(e) \/ EraseStep(e)
  PROVE  ListInv'
  <1>0. e \in Agents /\ e \notin Crawlers /\ Crawlers \subseteq Agents /\ Consoles \subseteq Crawlers
    BY AgentsAssumption DEF Agents
  <1> USE <1>0 DEF tables, meta
  <1>1. ASSUME NEW steps, Moved(e, steps), UNCHANGED <<visited, spent>>,
               \A x \in {db', draft'} : x = db \/ x = draft \/ Listed(x)
        PROVE  ListInv'
    BY <1>1, ListKept DEF Moved, Same
  <1>2. ASSUME NEW owners \in SUBSET Crawlers, NEW urls \in SUBSET Urls,
               Delete(e, owners, urls), draft' \in {db, draft}
        PROVE  ListInv'
    <2>1. /\ Moved(e, {"erasing"}) /\ db' = db
          /\ \A c \in owners \ Consoles : conn[c].step = "off"
          /\ visited' = [c \in Crawlers |-> IF c \in owners THEN {} ELSE visited[c]]
          /\ spent' = spent \cup (owners \ Consoles)
      BY <1>2, EraseMoves DEF Delete
    <2>2. \A c \in Crawlers : c \in spent' \/ visited'[c] = visited[c]
      BY <2>1 DEF ListInv
    <2>3. Listed(db)' /\ Listed(draft)'
      BY <1>2, <2>1, <2>2, OwnerType DEF ListInv, Listed, TypeOK
    <2>4. \A k \in Crawlers : conn'[k].step = "fetching" => k \in spent' \/ conn'[k].url \in visited'[k]
      BY <2>1, <2>2 DEF ListInv, Moved, Same
    <2>5. \A k \in Consoles : visited'[k] = {} /\ (conn'[k].step \notin {"off", "register"} => k \in spent')
      BY <2>1 DEF ListInv, Moved, Same
    <2> QED BY <2>3, <2>4, <2>5 DEF ListInv
  <1>3. ASSUME NEW c \in Crawlers, DeleteCrawler(e, c) PROVE ListInv'
    <2>1. visited[c] \in SUBSET Urls
      BY DEF TypeOK
    <2> QED BY <1>2, <1>3, <2>1 DEF DeleteCrawler
  <1>4. CASE ClearAllData(e)
    BY <1>2, <1>4 DEF ClearAllData
  <1>5. CASE BeginErase(e)
    <2>1. Listed(Erased(db, conn[e].owners, conn[e].urls))
      BY DEF ListInv, Listed, Erased
    <2> QED BY <1>1, <1>5, <2>1, EraseMoves DEF BeginErase, Begin
  <1>6. CASE CommitErase(e)
    BY <1>1, <1>6, EraseMoves DEF CommitErase, Commit
  <1>7. CASE EraseTimeout(e)
    BY <1>1, <1>7, EraseMoves DEF EraseTimeout, Rollback
  <1>8. CASE TruncateShard(e) \/ WriteShard(e)
    BY <1>1, <1>8, FileMoves DEF TruncateShard, WriteShard
  <1>9. CASE FileRaises(e)
    BY <1>1, <1>9, FileMoves DEF FileRaises, Rollback
  <1> QED BY <1>3, <1>4, <1>5, <1>6, <1>7, <1>8, <1>9 DEF EraseStep

LEMMA ListStep == TypeOK /\ ListInv /\ [Next]_vars => ListInv'
  <1> SUFFICES ASSUME TypeOK, ListInv, [Next]_vars PROVE ListInv'
    OBVIOUS
  <1>1. CASE Crash
    BY <1>1, CrashMoves, ListKept, AgentsAssumption DEF Crash, Rollback, meta
  <1>2. CASE UNCHANGED vars
    BY <1>2 DEF vars, tables, meta, ListInv, Listed
  <1> QED BY <1>1, <1>2, ListCrawlStep, ListEraseStep DEF Next

LEMMA IndexedInit == Init => ListInv
  BY AgentsAssumption DEF Init, ListInv, Listed, Resting, Agents

\* A document of a job that has not been deleted is listed among its visits.
THEOREM IndexedAreListed == Spec => []IndexedWereVisited
  <1>1. Init => ListInv
    BY IndexedInit
  <1>2. ListInv => IndexedWereVisited
    BY DEF ListInv, IndexedWereVisited
  <1> QED BY <1>1, <1>2, ListStep, TypeCorrect, PTL DEF Spec

-----------------------------------------------------------------------------
(* The write lock and deletions.                                           *)

\* What a deletion computes is purged, when the words are in step.
LEMMA ErasedIsPurged ==
  ASSUME NEW t \in Tables, Consistent(t), NEW owners, NEW urls
  PROVE  Purged(Erased(t, owners, urls), owners, urls)
  <1> DEFINE gone == {u \in Urls : t.docs[u] # None /\ t.docs[u].owner \in owners} \cup urls
             x    == Erased(t, owners, urls)
  <1>1. /\ \A u \in Urls : x.docs[u] = IF u \in gone THEN None ELSE t.docs[u]
        /\ \A w : w \in x.words <=> w \in t.words /\ w.url \notin gone
    BY DEF Erased
  <1>2. \A w \in t.words : t.docs[w.url] # None
    BY EntryOf DEF Consistent
  <1>3. \A u \in Urls : x.docs[u] # None => u \notin urls /\ x.docs[u].owner \notin owners
    BY <1>1
  <1>4. \A u \in Urls : x.docs[u] = None => \A w \in x.words : w.url # u
    BY <1>1, <1>2
  <1> QED BY <1>3, <1>4 DEF Purged

LockPart(b) ==
    /\ b \in Crawlers => (conn[b].step = "open" => lock = b)
    /\ b \in Erasers =>
        /\ conn[b].step \in {"idle", "erasing", "truncate", "write", "commit"}
        /\ conn[b].step \in {"truncate", "write", "commit"} =>
               lock = b /\ Purged(draft, conn[b].owners, conn[b].urls)
        /\ conn[b].step = "erasing" =>
               \A c \in conn[b].owners \ Consoles : conn[c].step = "off" /\ c \in spent

LEMMA LockParts ==
  /\ (LockInv /\ EraseInv) <=> \A b \in Agents : LockPart(b)
  /\ (LockInv' /\ EraseInv') <=> \A b \in Agents : LockPart(b)'
  <1>1. (LockInv /\ EraseInv) <=> \A b \in Agents : LockPart(b)
    BY DEF LockInv, EraseInv, LockPart, Agents
  <1>2. (LockInv' /\ EraseInv') <=> \A b \in Agents : LockPart(b)'
    BY DEF LockInv, EraseInv, LockPart, Agents
  <1> QED BY <1>1, <1>2

\* A step takes the lock from nobody who needs it, and starts no job that a
\* deletion takes for ended.
LEMMA LockKept ==
  ASSUME TypeOK, \A b \in Agents : LockPart(b), NEW a \in Agents, NEW steps, Moved(a, steps),
         spent \subseteq spent',
         a \in Crawlers => conn[a].step # "off" \/ a \notin spent,
         \A b \in Agents \ {a} : lock = b =>
             (lock' = b /\ draft' = draft) \/ (b \in Crawlers /\ conn[b].step # "open"),
         LockPart(a)'
  PROVE  \A b \in Agents : LockPart(b)'
  <1> SUFFICES ASSUME NEW b \in Agents \ {a} PROVE LockPart(b)'
    OBVIOUS
  <1>1. Same(b) /\ LockPart(b)
    BY DEF Moved
  <1>2. b \in Crawlers => (conn'[b].step = "open" => lock' = b)
    BY <1>1 DEF Same, LockPart
  <1>3. b \in Erasers => b \notin Crawlers
    BY AgentsAssumption
  <1>4. b \in Erasers /\ conn'[b].step \in {"truncate", "write", "commit"} =>
            lock' = b /\ Purged(draft', conn'[b].owners, conn'[b].urls)
    BY <1>1, <1>3 DEF Same, LockPart
  <1>5. ASSUME b \in Erasers, conn'[b].step = "erasing", NEW c \in conn'[b].owners \ Consoles
        PROVE  conn'[c].step = "off" /\ c \in spent'
    <2>1. conn[c].step = "off" /\ c \in spent /\ c \in Crawlers
      BY <1>1, <1>5 DEF Same, LockPart, TypeOK
    <2>2. c # a /\ c \in Agents
      BY <2>1 DEF Agents
    <2> QED BY <2>1, <2>2 DEF Moved, Same
  <1> QED BY <1>1, <1>2, <1>4, <1>5 DEF Same, LockPart, Purged

LEMMA LockCrawlStep ==
  ASSUME TypeOK, \A b \in Agents : LockPart(b), NEW c \in Crawlers, Start(c) \/ CrawlStep(c)
  PROVE  \A b \in Agents : LockPart(b)'
  <1>0. c \in Agents /\ c \notin Erasers /\ None \notin Agents /\ LockPart(c)
    BY AgentsAssumption, NoneAssumption DEF Agents
  <1> USE <1>0 DEF tables, meta
  <1>1. ASSUME NEW steps, Moved(c, steps), "open" \notin steps \/ lock' = c, spent \subseteq spent',
               conn[c].step # "off" \/ c \notin spent,
               UNCHANGED <<lock, draft>> \/ lock \in {None, c}
        PROVE  \A b \in Agents : LockPart(b)'
    <2>1. LockPart(c)'
      BY <1>1 DEF LockPart, Moved
    <2> QED BY <1>1, <2>1, LockKept
  <1>2. CASE Start(c)
    BY <1>1, <1>2, CrawlMoves DEF Start
  <1>3. CASE ShardExists(c) \/ CreateShard(c)
    BY <1>1, <1>3, CrawlMoves DEF ShardExists, CreateShard
  <1>4. CASE ShardMissing(c)
    BY <1>1, <1>4, CrawlMoves DEF ShardMissing
  <1>5. CASE Register(c)
    BY <1>1, <1>5, CrawlMoves DEF Register, Rollback
  <1>6. ASSUME NEW u \in Urls, Visit(c, u) PROVE \A b \in Agents : LockPart(b)'
    BY <1>1, <1>6, CrawlMoves DEF Visit
  <1>7. CASE FetchFails(c) \/ NothingToWrite(c)
    BY <1>1, <1>7, CrawlMoves DEF FetchFails, NothingToWrite
  <1>8. CASE EndRun(c)
    BY <1>1, <1>8, CrawlMoves DEF EndRun
  <1>9. CASE StatementRaises(c)
    BY <1>1, <1>9, CrawlMoves DEF StatementRaises, LockPart
  <1>10. ASSUME NEW page \in Pages, BeginUpsert(c, page) PROVE \A b \in Agents : LockPart(b)'
    BY <1>1, <1>10, CrawlMoves DEF BeginUpsert, Begin
  <1>11. CASE CommitUpsert(c)
    BY <1>1, <1>11, CrawlMoves DEF CommitUpsert, LockPart
  <1>12. CASE TakeSheet(c)
    BY <1>1, <1>12, CrawlMoves DEF TakeSheet
  <1>13. CASE CrawlTimeout(c)
    BY <1>1, <1>13, CrawlMoves DEF CrawlTimeout
  <1>14. CASE TruncateShard(c) \/ WriteShard(c)
    BY <1>1, <1>14, FileMoves DEF TruncateShard, WriteShard
  <1>15. CASE FileRaises(c)
    <2>1. Moved(c, {"off"})
      BY <1>15, FileMoves
    <2> QED BY <1>1, <1>15, <2>1 DEF FileRaises
  <1> QED BY <1>2, <1>3, <1>4, <1>5, <1>6, <1>7, <1>8, <1>9, <1>10, <1>11, <1>12, <1>13,
             <1>14, <1>15 DEF CrawlStep

LEMMA LockEraseStep ==
  ASSUME TypeOK, Consistent(db), \A b \in Agents : LockPart(b), NEW e \in Erasers,
         \/ \E c \in Crawlers : DeleteCrawler(e, c)
         \/ ClearAllData(e) \/ EraseStep(e)
  PROVE  \A b \in Agents : LockPart(b)'
  <1>0. /\ e \in Agents /\ e \notin Crawlers /\ None \notin Agents /\ LockPart(e)
        /\ Crawlers \subseteq Agents
    BY AgentsAssumption, NoneAssumption DEF Agents
  <1> USE <1>0 DEF tables, meta
  <1>1. ASSUME NEW steps, Moved(e, steps), steps \subseteq {"idle"}, spent \subseteq spent',
               \/ UNCHANGED <<lock, draft>> \/ lock \in {None, e}
               \/ lock \in Crawlers /\ conn[lock].step # "open"
        PROVE  \A b \in Agents : LockPart(b)'
    <2>1. LockPart(e)'
      BY <1>1 DEF LockPart, Moved
    <2> QED BY <1>1, <2>1, LockKept
  <1>2. ASSUME NEW owners \in SUBSET Crawlers, NEW urls \in SUBSET Urls, Delete(e, owners, urls),
               UNCHANGED <<lock, draft>> \/ lock \in owners \ Consoles
        PROVE  \A b \in Agents : LockPart(b)'
    <2>1. /\ Moved(e, {"erasing"}) /\ conn'[e].owners = owners
          /\ \A c \in owners \ Consoles : conn[c].step = "off"
          /\ spent' = spent \cup (owners \ Consoles)
      BY <1>2, EraseMoves DEF Delete
    <2>2. \A c \in owners \ Consoles : conn'[c].step = "off" /\ c \in spent'
      BY <2>1 DEF Moved, Same
    <2>3. LockPart(e)'
      BY <2>1, <2>2 DEF LockPart, Moved
    <2>4. \A b \in Agents \ {e} : lock = b =>
              (lock' = b /\ draft' = draft) \/ (b \in Crawlers /\ conn[b].step # "open")
      BY <1>2, <2>1
    <2>5. spent \subseteq spent'
      BY <2>1
    <2> QED BY <2>1, <2>3, <2>4, <2>5, LockKept
  <1>3. ASSUME NEW c \in Crawlers, DeleteCrawler(e, c) PROVE \A b \in Agents : LockPart(b)'
    <2>1. visited[c] \in SUBSET Urls
      BY DEF TypeOK
    <2> QED BY <1>2, <1>3, <2>1 DEF DeleteCrawler
  <1>4. CASE ClearAllData(e)
    BY <1>2, <1>4 DEF ClearAllData
  <1>5. ASSUME NEW steps, Moved(e, steps), SameTarget(e),
               steps \subseteq {"truncate", "write", "commit"},
               spent' = spent, lock' = e, lock \in {None, e},
               Purged(draft', conn[e].owners, conn[e].urls)
        PROVE  \A b \in Agents : LockPart(b)'
    <2>1. LockPart(e)'
      BY <1>5 DEF LockPart, Moved, SameTarget, Purged
    <2> QED BY <1>5, <2>1, LockKept
  <1>6. CASE BeginErase(e)
    <2>1. Purged(Erased(db, conn[e].owners, conn[e].urls), conn[e].owners, conn[e].urls)
      BY ErasedIsPurged DEF TypeOK
    <2>2. /\ Moved(e, {"truncate", "commit"}) /\ SameTarget(e)
          /\ draft' = Erased(db, conn[e].owners, conn[e].urls)
          /\ lock = None /\ lock' = e /\ spent' = spent
      BY <1>6, EraseMoves DEF BeginErase, Begin
    <2> QED BY <1>5, <2>1, <2>2
  <1>7. CASE TruncateShard(e) \/ WriteShard(e)
    <2>1. /\ Moved(e, {"write"}) \/ Moved(e, {"truncate", "commit"})
          /\ SameTarget(e) /\ UNCHANGED <<tables, spent>>
          /\ conn[e].step \in {"truncate", "write"}
      BY <1>7, FileMoves DEF TruncateShard, WriteShard
    <2>2. lock = e /\ Purged(draft, conn[e].owners, conn[e].urls)
      BY <2>1 DEF LockPart
    <2> QED BY <1>5, <2>1, <2>2
  <1>8. CASE CommitErase(e)
    BY <1>1, <1>8, EraseMoves DEF CommitErase, LockPart
  <1>9. CASE FileRaises(e)
    BY <1>1, <1>9, FileMoves DEF FileRaises, LockPart
  <1>10. CASE EraseTimeout(e)
    <2>1. lock \in conn[e].owners \ Consoles => lock \in Crawlers /\ conn[lock].step # "open"
      BY <1>10 DEF EraseTimeout, LockPart, TypeOK
    <2>2. UNCHANGED <<lock, draft>> \/ lock \in conn[e].owners \ Consoles
      BY <1>10 DEF EraseTimeout
    <2>3. Moved(e, {"idle"}) /\ spent' = spent
      BY <1>10, EraseMoves DEF EraseTimeout
    <2> QED BY <1>1, <2>1, <2>2, <2>3
  <1> QED BY <1>3, <1>4, <1>6, <1>7, <1>8, <1>9, <1>10 DEF EraseStep

LEMMA LockStep ==
  TypeOK /\ Consistent(db) /\ LockInv /\ EraseInv /\ [Next]_vars => LockInv' /\ EraseInv'
  <1> SUFFICES ASSUME TypeOK, Consistent(db), \A b \in Agents : LockPart(b), [Next]_vars
               PROVE  \A b \in Agents : LockPart(b)'
    BY LockParts
  <1>1. CASE Crash
    BY <1>1, CrashMoves, AgentsAssumption DEF LockPart
  <1>2. CASE UNCHANGED vars
    BY <1>2 DEF vars, tables, meta, LockPart, Purged
  <1> QED BY <1>1, <1>2, LockCrawlStep, LockEraseStep DEF Next

\* The inductive invariant holds.
THEOREM IndexInvariance == Spec => []IndexInv
  <1>1. Init => IndexInv
    <2>1. Init => \A a \in Agents : conn[a].step = IF a \in Crawlers THEN "off" ELSE "idle"
      BY DEF Init, Resting
    <2>2. Init => Consistent(db) /\ Consistent(draft)
      BY DEF Init, Consistent
    <2>3. Init => ListInv
      BY IndexedInit
    <2>4. Init => LockInv /\ EraseInv
      BY <2>1, AgentsAssumption DEF LockInv, EraseInv, Agents
    <2> QED BY <2>2, <2>3, <2>4 DEF IndexInv
  <1>2. TypeOK /\ IndexInv /\ [Next]_vars => IndexInv'
    BY ConsistentStep, ListStep, LockStep DEF IndexInv
  <1> QED BY <1>1, <1>2, TypeCorrect, PTL DEF Spec

Counted == crashes \in Nat

LEMMA CrashesCounted == Spec => []Counted
  <1>1. Counted /\ [Next]_vars => Counted'
    <2> SUFFICES ASSUME crashes \in Nat, [Next]_vars PROVE crashes' \in Nat
      BY DEF Counted
    <2>1. CASE Crash
      BY <2>1 DEF Crash
    <2>2. ASSUME NEW a \in Agents, TruncateShard(a) \/ WriteShard(a) \/ FileRaises(a)
          PROVE  crashes' = crashes
      BY <2>2 DEF TruncateShard, WriteShard, FileRaises, counts
    <2>3. ASSUME NEW c \in Crawlers, Start(c) \/ CrawlStep(c) PROVE crashes' = crashes
      <3>1. c \in Agents
        BY DEF Agents
      <3>2. ASSUME NEW u \in Urls, Visit(c, u) PROVE crashes' = crashes
        BY <3>2 DEF Visit
      <3>3. ASSUME NEW page \in Pages, BeginUpsert(c, page) PROVE crashes' = crashes
        BY <3>3 DEF BeginUpsert, counts
      <3> QED BY <2>2, <2>3, <3>1, <3>2, <3>3 DEF CrawlStep, Start, ShardExists, ShardMissing,
                CreateShard, Register, FetchFails, EndRun, CrawlTimeout, CommitUpsert,
                StatementRaises, TakeSheet, NothingToWrite, counts
    <2>4. ASSUME NEW e \in Erasers,
                 \/ \E c \in Crawlers : DeleteCrawler(e, c)
                 \/ ClearAllData(e) \/ EraseStep(e)
          PROVE  crashes' = crashes
      <3>1. e \in Agents
        BY DEF Agents
      <3> QED BY <2>2, <2>4, <3>1 DEF EraseStep, DeleteCrawler, ClearAllData, Delete,
                BeginErase, EraseTimeout, CommitErase, counts
    <2>5. CASE UNCHANGED vars
      BY <2>5 DEF vars, counts
    <2> QED BY <2>1, <2>3, <2>4, <2>5 DEF Next
  <1>2. Init => Counted
    BY DEF Init, Counted
  <1> QED BY <1>1, <1>2, PTL DEF Spec

\* A deletion that commits leaves no document, no page of the events and no word
\* behind, whatever other crawls and deletions do at the same time.
THEOREM DeletionsAreComplete == Spec => DeletionIsComplete
  <1> DEFINE Complete ==
        \A e \in Erasers : conn[e].step = "commit" /\ conn'[e].step = "idle" /\ crashes' = crashes
            => Purged(db', conn[e].owners, conn[e].urls)
  <1>1. TypeOK /\ IndexInv /\ Counted /\ [Next]_vars => Complete
    <2> SUFFICES ASSUME TypeOK, IndexInv, crashes \in Nat, [Next]_vars, NEW e \in Erasers,
                        conn[e].step = "commit", conn'[e].step = "idle", crashes' = crashes
                 PROVE  Purged(db', conn[e].owners, conn[e].urls)
      BY DEF Counted
    <2>1. e \in Agents /\ e \notin Crawlers /\ Purged(draft, conn[e].owners, conn[e].urls)
      BY AgentsAssumption DEF IndexInv, LockInv, Agents
    <2>2. ASSUME NEW a \in Agents \ {e}, NEW steps, Moved(a, steps) PROVE FALSE
      BY <2>1, <2>2 DEF Moved, Same
    <2>3. ~Crash /\ ~UNCHANGED vars
      BY DEF Crash, vars
    <2>4. ASSUME NEW c \in Crawlers, Start(c) \/ CrawlStep(c) PROVE FALSE
      <3>1. c \in Agents \ {e} /\ c \notin Erasers
        BY <2>1, AgentsAssumption DEF Agents
      <3>2. ASSUME NEW u \in Urls, Visit(c, u) PROVE FALSE
        BY <2>2, <3>1, <3>2, CrawlMoves
      <3>3. ASSUME NEW page \in Pages, BeginUpsert(c, page) PROVE FALSE
        BY <2>2, <3>1, <3>3, CrawlMoves
      <3>4. ~(TruncateShard(c) \/ WriteShard(c) \/ FileRaises(c))
        BY <2>2, <3>1, FileMoves
      <3> QED BY <2>2, <2>4, <3>1, <3>2, <3>3, <3>4, CrawlMoves DEF CrawlStep
    <2>5. PICK d \in Erasers :
              (\E c \in Crawlers : DeleteCrawler(d, c)) \/ ClearAllData(d) \/ EraseStep(d)
      BY <2>3, <2>4 DEF Next
    <2>6. d \in Agents /\ d \notin Crawlers
      BY AgentsAssumption DEF Agents
    <2>7. ASSUME NEW owners \in SUBSET Crawlers, NEW urls \in SUBSET Urls,
                 Delete(d, owners, urls)
          PROVE  FALSE
      BY <2>1, <2>2, <2>6, <2>7, EraseMoves DEF Delete
    <2>8. ~(\E c \in Crawlers : DeleteCrawler(d, c)) /\ ~ClearAllData(d)
      BY <2>7 DEF DeleteCrawler, ClearAllData, TypeOK
    <2>9. CASE d = e
      <3>1. CommitErase(e)
        BY <2>5, <2>8, <2>9 DEF EraseStep, BeginErase, EraseTimeout, TruncateShard, WriteShard, FileRaises
      <3> QED BY <2>1, <3>1 DEF CommitErase, Commit
    <2>10. CASE d # e
      <3>1. ~(TruncateShard(d) \/ WriteShard(d) \/ FileRaises(d))
        BY <2>2, <2>6, <2>10, FileMoves
      <3> QED BY <2>2, <2>5, <2>6, <2>8, <2>10, <3>1, EraseMoves DEF EraseStep
    <2> QED BY <2>9, <2>10
  <1>2. DeletionIsComplete <=> [][Complete]_vars
    BY DEF DeletionIsComplete
  <1> HIDE DEF Complete
  <1> QED BY <1>1, <1>2, CrashesCounted, TypeCorrect, IndexInvariance, PTL DEF Spec

-----------------------------------------------------------------------------
(* The shard files.                                                        *)

Idle(r) ==
    /\ r.step \notin {"create", "committed", "truncate", "write", "commit"}
    /\ r.step = "erasing" => r.at = 1
    /\ r.alone = FALSE

\* The whole record after each of the ways a connection changes.
LEMMA Changes ==
  ASSUME TypeOK, NEW a \in Agents
  PROVE  /\ \A r : Become(a, r) =>
                /\ conn'[a] = r /\ settled' = settled
                /\ \A b \in Agents \ {a} : conn'[b] = conn[b]
         /\ \A r \in Connection : Enter(a, r) =>
                /\ conn'[a].step = r.step /\ conn'[a].at = r.at /\ conn'[a].sheet = r.sheet
                /\ conn'[a].alone <=> \A o \in Agents \ {a} : ~Writing(o)
                /\ \A b \in Agents \ {a} :
                      conn'[b].step = conn[b].step /\ conn'[b].at = conn[b].at /\ ~conn'[b].alone
                /\ settled' = FALSE
         /\ \A s : Leave(a, s) =>
                /\ conn'[a] = Resting(s) /\ settled' = conn[a].alone
                /\ \A b \in Agents \ {a} : conn'[b] = conn[b]
  <1>0. conn \in [Agents -> Connection]
    BY DEF TypeOK, Connection
  <1>1. ASSUME NEW r, Become(a, r)
        PROVE  /\ conn'[a] = r /\ settled' = settled
               /\ \A b \in Agents \ {a} : conn'[b] = conn[b]
    BY <1>0, <1>1 DEF Become
  <1>2. ASSUME NEW r \in Connection, Enter(a, r)
        PROVE  /\ conn'[a].step = r.step /\ conn'[a].at = r.at /\ conn'[a].sheet = r.sheet
               /\ conn'[a].alone <=> \A o \in Agents \ {a} : ~Writing(o)
               /\ \A b \in Agents \ {a} :
                     conn'[b].step = conn[b].step /\ conn'[b].at = conn[b].at /\ ~conn'[b].alone
               /\ settled' = FALSE
    <2> DEFINE p == \A o \in Agents \ {a} : ~Writing(o)
    <2>1. ASSUME NEW x \in Connection, NEW q
          PROVE  LET y == [x EXCEPT !.alone = q]
                 IN  y.step = x.step /\ y.at = x.at /\ y.sheet = x.sheet /\ y.alone = q
      BY DEF Connection
    <2>2. conn'[a] = [r EXCEPT !.alone = p]
      BY <1>0, <1>2 DEF Enter
    <2>3. \A b \in Agents \ {a} : conn'[b] = [conn[b] EXCEPT !.alone = FALSE]
      BY <1>0, <1>2 DEF Enter
    <2>4. ASSUME NEW b \in Agents \ {a}
          PROVE  conn'[b].step = conn[b].step /\ conn'[b].at = conn[b].at /\ ~conn'[b].alone
      <3>1. conn[b] \in Connection /\ conn'[b] = [conn[b] EXCEPT !.alone = FALSE]
        BY <1>0, <2>3
      <3> QED BY <2>1, <3>1
    <2> HIDE DEF p
    <2>5. /\ conn'[a].step = r.step /\ conn'[a].at = r.at /\ conn'[a].sheet = r.sheet
          /\ conn'[a].alone = p
      BY <2>1, <2>2
    <2> QED BY <1>2, <2>4, <2>5 DEF Enter, p
  <1>3. ASSUME NEW s, Leave(a, s)
        PROVE  /\ conn'[a] = Resting(s) /\ settled' = conn[a].alone
               /\ \A b \in Agents \ {a} : conn'[b] = conn[b]
    BY <1>0, <1>3 DEF Leave
  <1> QED BY <1>1, <1>2, <1>3

\* A step of a connection that is not writing files afterwards.
LEMMA FilesAside ==
  ASSUME FilesInv, NEW a \in Agents, Idle(conn'[a]), settled' = settled,
         \A b \in Agents \ {a} : conn'[b] = conn[b],
         (db' = db /\ files' = files) \/ Writing(a),
         \A b \in Erasers \ {a} :
             conn[b].step \in {"truncate", "write", "commit"} => draft' = draft
  PROVE  FilesInv'
  <1>1. ~Writing(a)' /\ \A b \in Agents \ {a} : Writing(b)' <=> Writing(b)
    BY DEF Idle, Writing
  <1>2. settled' => (\A b \in Agents : ~Writing(b)') /\ Repaired(db.words)'
    <2> SUFFICES ASSUME settled PROVE (\A b \in Agents : ~Writing(b)') /\ Repaired(db.words)'
      OBVIOUS
    <2>1. \A b \in Agents : ~Writing(b)
      BY DEF FilesInv
    <2> QED BY <1>1, <2>1 DEF FilesInv, LoneWriteRepairs, Repaired, NoShards
  <1>3. ASSUME NEW b \in Agents \ {a}, conn[b].alone PROVE Progress(b)'
    <2>1. Progress(b) /\ ~Writing(a) /\ db' = db /\ files' = files /\ conn'[b] = conn[b]
      BY <1>3 DEF FilesInv, Progress
    <2>2. Writing(b)' /\ \A o \in Agents \ {b} : ~Writing(o)'
      BY <1>1, <2>1 DEF Progress
    <2>3. b \notin Crawlers /\ conn[b].step \in {"truncate", "write", "commit"} => draft' = draft
      BY DEF Agents
    <2>4. b \in Erasers => b \notin Crawlers
      BY AgentsAssumption
    <2> QED BY <2>1, <2>2, <2>3, <2>4 DEF Progress, Repaired, NoShards
  <1> QED BY <1>2, <1>3 DEF FilesInv, LoneWriteRepairs, Idle

\* A connection begins to write files.
LEMMA FilesEnter ==
  ASSUME TypeOK, FilesInv, NEW a \in Agents, NEW r \in Connection, Enter(a, r),
         r.step \in {"create", "committed", "truncate", "commit"}, r.at = 1,
         r.step = "truncate" => r.sheet = IF a \in Crawlers THEN db'.words ELSE draft'.words,
         r.step = "commit" => NoShards'
  PROVE  FilesInv'
  <1>1. /\ conn'[a].step = r.step /\ conn'[a].at = r.at /\ conn'[a].sheet = r.sheet
        /\ conn'[a].alone <=> \A o \in Agents \ {a} : ~Writing(o)
        /\ \A b \in Agents \ {a} :
              conn'[b].step = conn[b].step /\ conn'[b].at = conn[b].at /\ ~conn'[b].alone
        /\ settled' = FALSE
    BY Changes
  <1>2. conn'[a].alone => Writing(a)' /\ \A o \in Agents \ {a} : ~Writing(o)'
    BY <1>1 DEF Writing
  <1>3. conn'[a].alone => Progress(a)'
    BY <1>1, <1>2 DEF Progress, Repaired
  <1> QED BY <1>1, <1>3 DEF FilesInv, LoneWriteRepairs

\* A connection goes on writing files.
LEMMA FilesOn ==
  ASSUME FilesInv, NEW a \in Agents, Writing(a), Writing(a)', settled' = settled,
         conn'[a].alone = conn[a].alone, conn'[a].step \notin {"erasing", "committed"},
         \A b \in Agents \ {a} : conn'[b] = conn[b],
         conn[a].alone /\ (\A o \in Agents \ {a} : ~Writing(o)') => Progress(a)'
  PROVE  FilesInv'
  <1>1. ~settled /\ \A b \in Agents \ {a} : ~conn[b].alone
    BY DEF FilesInv, Progress
  <1>2. ASSUME conn[a].alone PROVE \A o \in Agents \ {a} : ~Writing(o)'
    BY <1>2 DEF FilesInv, Progress, Writing
  <1> QED BY <1>1, <1>2 DEF FilesInv, LoneWriteRepairs

\* A connection has written its files.
LEMMA FilesLeave ==
  ASSUME TypeOK, FilesInv, NEW a \in Agents, Writing(a), Leave(a, "idle"),
         conn[a].alone => Repaired(db.words)'
  PROVE  FilesInv'
  <1>1. /\ conn'[a] = Resting("idle") /\ settled' = conn[a].alone
        /\ \A b \in Agents \ {a} : conn'[b] = conn[b]
    BY Changes
  <1>2. \A b \in Agents \ {a} : ~conn[b].alone
    BY DEF FilesInv, Progress
  <1>3. conn[a].alone => \A b \in Agents : ~Writing(b)'
    BY <1>1 DEF FilesInv, Progress, Writing, Resting
  <1> QED BY <1>1, <1>2, <1>3 DEF FilesInv, LoneWriteRepairs, Resting

\* One file emptied, and one file written.
LEMMA FilesWritten ==
  ASSUME TypeOK, FilesInv, NEW a \in Agents, TruncateShard(a) \/ WriteShard(a)
  PROVE  FilesInv'
  <1> DEFINE k == conn[a].at
             s == conn[a].sheet
  <1>0. /\ conn[a] \in Connection /\ k \in DOMAIN Shards /\ Writing(a)
        /\ files \in FileTypes /\ UNCHANGED <<db, draft>>
        /\ DOMAIN Shards = 1 .. Len(Shards) /\ Len(Shards) \in Nat
    BY FirstShard DEF TypeOK, FileTypes, Connection, TruncateShard, WriteShard, tables, Writing
  <1>1. conn[a].alone =>
            /\ s = IF a \in Crawlers THEN db.words ELSE draft.words
            /\ \A i \in 1 .. k - 1 : files[i] = File(Lines(s, i))
            /\ conn[a].step = "write" => files[k] = File({})
    BY DEF FilesInv, Progress, TruncateShard, WriteShard
  <1>2. CASE TruncateShard(a)
    <2> DEFINE y == [conn[a] EXCEPT !.step = "write"]
    <2>1. Become(a, y) /\ files' = [files EXCEPT ![k] = File({})]
      BY <1>2 DEF TruncateShard, Goto
    <2>2. y.step = "write" /\ y.at = k /\ y.sheet = s /\ y.alone = conn[a].alone
      BY <1>0 DEF Connection
    <2>3. conn'[a] = y /\ settled' = settled /\ \A b \in Agents \ {a} : conn'[b] = conn[b]
      BY <2>1, Changes
    <2> HIDE DEF y
    <2>4. /\ \A i \in 1 .. k - 1 : files'[i] = files[i]
          /\ files'[k] = File({})
      BY <1>0, <2>1 DEF FileTypes
    <2>5. Writing(a)'
      BY <2>2, <2>3 DEF Writing
    <2>6. conn[a].alone /\ (\A o \in Agents \ {a} : ~Writing(o)') => Progress(a)'
      BY <1>0, <1>1, <2>2, <2>3, <2>4, <2>5 DEF Progress
    <2> QED BY <1>0, <2>2, <2>3, <2>5, <2>6, FilesOn
  <1>3. CASE WriteShard(a)
    <2>1. /\ conn[a].step = "write" /\ NextShard(a)
          /\ \E f \in Overwritten(files[k], Lines(s, k)) : files' = [files EXCEPT ![k] = f]
      BY <1>3 DEF WriteShard
    <2>2. conn[a].alone => files'[k] = File(Lines(s, k))
      BY <1>0, <1>1, <2>1 DEF Overwritten, FileTypes
    <2>3. \A i \in DOMAIN Shards \ {k} : files'[i] = files[i]
      BY <1>0, <2>1 DEF FileTypes
    <2>4. conn[a].alone => \A i \in 1 .. k : files'[i] = File(Lines(s, i))
      BY <1>0, <1>1, <2>2, <2>3
    <2>5. DOMAIN files' = DOMAIN Shards
      BY <1>0, <2>1 DEF FileTypes
    <2>6. CASE k < Len(Shards)
      <3> DEFINE y == [conn[a] EXCEPT !.step = "truncate", !.at = @ + 1]
      <3>1. Become(a, y)
        BY <2>1, <2>6 DEF NextShard
      <3>2. y.step = "truncate" /\ y.at = k + 1 /\ y.sheet = s /\ y.alone = conn[a].alone
        BY <1>0 DEF Connection
      <3>3. conn'[a] = y /\ settled' = settled /\ \A b \in Agents \ {a} : conn'[b] = conn[b]
        BY <3>1, Changes
      <3> HIDE DEF y
      <3>4. Writing(a)' /\ (k + 1) - 1 = k
        BY <1>0, <3>2, <3>3 DEF Writing
      <3>5. conn[a].alone /\ (\A o \in Agents \ {a} : ~Writing(o)') => Progress(a)'
        BY <1>0, <1>1, <2>4, <3>2, <3>3, <3>4 DEF Progress
      <3> QED BY <1>0, <3>2, <3>3, <3>4, <3>5, FilesOn
    <2>7. CASE ~(k < Len(Shards))
      <3>1. k = Len(Shards)
        BY <1>0, <2>7
      <3>2. conn[a].alone => \A i \in DOMAIN files' : files'[i] = File(Lines(s, i))
        BY <1>0, <2>4, <2>5, <3>1
      <3>3. CASE a \in Crawlers
        <4>1. Leave(a, "idle")
          BY <2>1, <2>7, <3>3 DEF NextShard
        <4>2. conn[a].alone => Repaired(db.words)'
          BY <1>0, <1>1, <3>2, <3>3 DEF Repaired
        <4> QED BY <1>0, <4>1, <4>2, FilesLeave
      <3>4. CASE a \notin Crawlers
        <4> DEFINE y == [conn[a] EXCEPT !.step = "commit"]
        <4>1. Become(a, y)
          BY <2>1, <2>7, <3>4 DEF NextShard, Goto
        <4>2. y.step = "commit" /\ y.sheet = s /\ y.alone = conn[a].alone
          BY <1>0 DEF Connection
        <4>3. conn'[a] = y /\ settled' = settled /\ \A b \in Agents \ {a} : conn'[b] = conn[b]
          BY <4>1, Changes
        <4> HIDE DEF y
        <4>4. Writing(a)'
          BY <4>2, <4>3 DEF Writing
        <4>5. conn[a].alone /\ (\A o \in Agents \ {a} : ~Writing(o)') => Progress(a)'
          BY <1>0, <1>1, <3>2, <3>4, <4>2, <4>3, <4>4 DEF Progress, Repaired
        <4> QED BY <1>0, <4>2, <4>3, <4>4, <4>5, FilesOn
      <3> QED BY <3>3, <3>4
    <2> QED BY <2>6, <2>7
  <1> QED BY <1>2, <1>3

LEMMA FilesCrawlStep ==
  ASSUME TypeOK, LockInv, FilesInv, NEW c \in Crawlers, Start(c) \/ CrawlStep(c)
  PROVE  FilesInv'
  <1>0. /\ c \in Agents /\ c \notin Erasers /\ conn[c] \in Connection /\ None \notin Agents
        /\ conn[c].at \in DOMAIN Shards /\ DOMAIN Shards = 1 .. Len(Shards) /\ Len(Shards) \in Nat
        /\ conn[c].alone => Writing(c)
    BY AgentsAssumption, NoneAssumption, FirstShard
       DEF TypeOK, Connection, Agents, FilesInv, Progress
  <1> USE <1>0 DEF tables
  <1>1. \A s \in Steps \ {"create", "committed", "truncate", "write", "commit"} :
            /\ Idle(Resting(s))
            /\ Resting(s) \in Connection /\ Resting(s).step = s /\ Resting(s).at = 1
    BY RestingType DEF Idle, Resting
  \* Whoever does not write the files and takes no other's draft.
  <1>2. ASSUME NEW r, Become(c, r), Idle(r), (db' = db /\ files' = files) \/ Writing(c),
               draft' = draft \/ lock \in {None, c}
        PROVE  FilesInv'
    <2>1. \A b \in Erasers \ {c} :
              conn[b].step \in {"truncate", "write", "commit"} => draft' = draft
      BY <1>2 DEF LockInv, Agents
    <2>2. conn'[c] = r /\ settled' = settled /\ \A b \in Agents \ {c} : conn'[b] = conn[b]
      BY <1>2, Changes
    <2>3. Idle(conn'[c])
      BY <1>2, <2>2 DEF Idle
    <2> QED BY <1>2, <2>1, <2>2, <2>3, FilesAside
  <1>3. Idle(Ensured(c))
    <2>1. LET y == [conn[c] EXCEPT !.step = "ensure", !.at = @ + 1, !.alone = FALSE]
          IN  Idle(y)
      BY DEF Connection, Idle
    <2> QED BY <1>1, <2>1 DEF Ensured, Steps
  <1>4. CASE Start(c)
    <2> DEFINE s == IF c \in Consoles THEN "register" ELSE "ensure"
               y == [conn[c] EXCEPT !.step = s]
    <2>1. Become(c, y) /\ conn[c].step = "off" /\ UNCHANGED <<tables, files>>
      BY <1>4 DEF Start, Goto
    <2>2. ~conn[c].alone
      BY <2>1 DEF Writing
    <2>3. s \in {"register", "ensure"}
      OBVIOUS
    <2> HIDE DEF s
    <2>4. Idle(y)
      BY <2>2, <2>3 DEF Idle, Connection
    <2> QED BY <1>2, <2>1, <2>4
  <1>5. CASE ShardExists(c) \/ CreateShard(c)
    BY <1>2, <1>3, <1>5 DEF ShardExists, CreateShard, Writing
  <1>6. CASE ShardMissing(c)
    <2> DEFINE y == [conn[c] EXCEPT !.step = "create"]
    <2>1. Enter(c, y)
      BY <1>6 DEF ShardMissing
    <2>2. y \in Connection /\ y.step = "create" /\ y.at = conn[c].at
      BY DEF Connection, Steps
    <2> HIDE DEF y
    <2>3. /\ conn'[c].step = "create" /\ settled' = FALSE
          /\ conn'[c].alone <=> \A o \in Agents \ {c} : ~Writing(o)
          /\ \A b \in Agents \ {c} :
                conn'[b].step = conn[b].step /\ conn'[b].at = conn[b].at /\ ~conn'[b].alone
      BY <2>1, <2>2, Changes
    <2>4. conn'[c].alone => Progress(c)'
      BY <2>3 DEF Progress, Writing
    <2> QED BY <2>3, <2>4 DEF FilesInv, LoneWriteRepairs
  <1>7. CASE Register(c)
    BY <1>1, <1>2, <1>7 DEF Register, Rollback, Steps
  <1>8. ASSUME NEW u \in Urls, Visit(c, u) PROVE FilesInv'
    <2> DEFINE y == [conn[c] EXCEPT !.step = "fetching", !.url = u]
    <2>1. Become(c, y) /\ conn[c].step = "idle" /\ UNCHANGED <<tables, files>>
      BY <1>8 DEF Visit
    <2>2. ~conn[c].alone
      BY <2>1 DEF Writing
    <2>3. Idle(y)
      BY <2>2 DEF Idle, Connection
    <2> QED BY <1>2, <2>1, <2>3
  <1>9. CASE FetchFails(c) \/ EndRun(c) \/ CrawlTimeout(c)
    BY <1>1, <1>2, <1>9 DEF FetchFails, EndRun, CrawlTimeout, Steps
  <1>10. ASSUME NEW page \in Pages, BeginUpsert(c, page) PROVE FilesInv'
    BY <1>1, <1>2, <1>10 DEF BeginUpsert, Begin, Steps
  <1>11. CASE CommitUpsert(c)
    <2>1. Resting("committed") \in Connection
      BY RestingType DEF Steps
    <2>2. Resting("committed").step = "committed" /\ Resting("committed").at = 1
      BY DEF Resting
    <2> QED BY <1>11, <2>1, <2>2, FilesEnter DEF CommitUpsert
  <1>12. CASE StatementRaises(c)
    BY <1>1, <1>2, <1>12 DEF StatementRaises, Rollback, LockInv, Steps
  <1>13. CASE TakeSheet(c)
    <2> DEFINE y == [conn[c] EXCEPT !.step = "truncate", !.sheet = db.words]
    <2>1. /\ Become(c, y) /\ conn[c].step = "committed" /\ Writing(c)
          /\ UNCHANGED <<db, draft, files>>
      BY <1>13 DEF TakeSheet, Writing
    <2>2. /\ y.step = "truncate" /\ y.at = conn[c].at /\ y.sheet = db.words
          /\ y.alone = conn[c].alone
      BY DEF Connection
    <2>3. conn'[c] = y /\ settled' = settled /\ \A b \in Agents \ {c} : conn'[b] = conn[b]
      BY <2>1, Changes
    <2> HIDE DEF y
    <2>4. Writing(c)' /\ conn'[c].at = 1
      BY <2>1, <2>2, <2>3 DEF FilesInv, Writing
    <2>5. (\A o \in Agents \ {c} : ~Writing(o)') => Progress(c)'
      BY <2>1, <2>2, <2>3, <2>4 DEF Progress
    <2> QED BY <2>1, <2>2, <2>3, <2>4, <2>5, FilesOn
  <1>14. CASE NothingToWrite(c)
    BY <1>14, FilesLeave DEF NothingToWrite, Writing, Repaired, NoShards
  <1>15. CASE TruncateShard(c) \/ WriteShard(c)
    BY <1>15, FilesWritten
  <1>16. CASE FileRaises(c)
    BY <1>1, <1>2, <1>16 DEF FileRaises, Rollback, Writing, Steps
  <1> QED BY <1>4, <1>5, <1>6, <1>7, <1>8, <1>9, <1>10, <1>11, <1>12, <1>13, <1>14, <1>15, <1>16
             DEF CrawlStep

LEMMA FilesEraseStep ==
  ASSUME TypeOK, LockInv, EraseInv, FilesInv, NEW e \in Erasers,
         \/ \E c \in Crawlers : DeleteCrawler(e, c)
         \/ ClearAllData(e) \/ EraseStep(e)
  PROVE  FilesInv'
  <1>0. /\ e \in Agents /\ e \notin Crawlers /\ conn[e] \in Connection /\ None \notin Agents
        /\ \A b \in Erasers : b \in Agents /\ b \notin Crawlers
    BY AgentsAssumption, NoneAssumption DEF TypeOK, Connection, Agents
  <1> USE <1>0 DEF tables
  <1>1. Idle(Resting("idle"))
    BY DEF Idle, Resting
  <1>2. ASSUME NEW r, Become(e, r), Idle(r), db' = db /\ files' = files,
               draft' = draft \/ lock \in {None, e} \cup Crawlers
        PROVE  FilesInv'
    <2>1. \A b \in Erasers \ {e} :
              conn[b].step \in {"truncate", "write", "commit"} => draft' = draft
      BY <1>2 DEF LockInv
    <2>2. conn'[e] = r /\ settled' = settled /\ \A b \in Agents \ {e} : conn'[b] = conn[b]
      BY <1>2, Changes
    <2>3. Idle(conn'[e])
      BY <1>2, <2>2 DEF Idle
    <2> QED BY <1>2, <2>1, <2>2, <2>3, FilesAside
  <1>3. ASSUME NEW owners \in SUBSET Crawlers, NEW urls \in SUBSET Urls, Delete(e, owners, urls),
               draft' = draft \/ lock \in Crawlers
        PROVE  FilesInv'
    <2> DEFINE y == [Resting("erasing") EXCEPT !.owners = owners, !.urls = urls]
    <2>1. Idle(y)
      BY DEF Idle, Resting
    <2>2. Become(e, y) /\ UNCHANGED <<db, files>>
      BY <1>3 DEF Delete
    <2> QED BY <1>2, <1>3, <2>1, <2>2
  <1>4. ASSUME NEW c \in Crawlers, DeleteCrawler(e, c) PROVE FilesInv'
    <2>1. visited[c] \in SUBSET Urls
      BY DEF TypeOK
    <2> QED BY <1>3, <1>4, <2>1 DEF DeleteCrawler
  <1>5. CASE ClearAllData(e)
    BY <1>3, <1>5 DEF ClearAllData
  <1>6. CASE BeginErase(e)
    <2> DEFINE ws == Erased(db, conn[e].owners, conn[e].urls).words
               s  == IF NoShards THEN "commit" ELSE "truncate"
               y  == [conn[e] EXCEPT !.step = s, !.sheet = ws]
    <2>1. /\ Enter(e, y) /\ conn[e].step = "erasing" /\ files' = files
          /\ draft'.words = ws
      BY <1>6 DEF BeginErase, Begin
    <2>2. ws \in SUBSET Entry
      BY DEF Erased, TypeOK, Tables
    <2>3. s \in {"truncate", "commit"} /\ (s = "commit" => NoShards')
      BY <2>1 DEF NoShards
    <2>4. conn[e].at = 1
      BY <2>1 DEF FilesInv
    <2> HIDE DEF s, ws
    <2>5. y \in Connection /\ y.step = s /\ y.at = 1 /\ y.sheet = ws
      BY <2>2, <2>3, <2>4 DEF Connection, Steps
    <2> HIDE DEF y
    <2> QED BY <2>1, <2>3, <2>5, FilesEnter
  <1>7. CASE TruncateShard(e) \/ WriteShard(e)
    BY <1>7, FilesWritten
  <1>8. CASE CommitErase(e)
    <2>1. Writing(e) /\ Leave(e, "idle") /\ db' = draft /\ files' = files /\ conn[e].step = "commit"
      BY <1>8 DEF CommitErase, Commit, Writing
    <2>2. conn[e].alone => Repaired(db.words)'
      BY <2>1 DEF FilesInv, Progress, Repaired, NoShards
    <2> QED BY <2>1, <2>2, FilesLeave
  <1>9. CASE FileRaises(e)
    BY <1>1, <1>2, <1>9 DEF FileRaises, Rollback
  <1>10. CASE EraseTimeout(e)
    <2>1. lock \in conn[e].owners \ Consoles => lock \in Crawlers
      BY DEF Connection
    <2> QED BY <1>1, <1>2, <1>10, <2>1 DEF EraseTimeout, Rollback
  <1> QED BY <1>4, <1>5, <1>6, <1>7, <1>8, <1>9, <1>10 DEF EraseStep

LEMMA FilesStep == TypeOK /\ LockInv /\ EraseInv /\ FilesInv /\ [Next]_vars => FilesInv'
  <1> SUFFICES ASSUME TypeOK, LockInv, EraseInv, FilesInv, [Next]_vars PROVE FilesInv'
    OBVIOUS
  <1>1. CASE Crash
    <2>1. \A a \in Agents : Idle(conn'[a])
      BY <1>1 DEF Crash, Idle, Resting
    <2>2. \A a \in Agents : ~Writing(a)'
      BY <2>1 DEF Idle, Writing
    <2>3. UNCHANGED <<db, files, settled>>
      BY <1>1 DEF Crash, Rollback
    <2>4. LoneWriteRepairs'
      BY <2>3 DEF FilesInv, LoneWriteRepairs, Repaired, NoShards
    <2> QED BY <2>1, <2>2, <2>4 DEF FilesInv, Idle
  <1>2. CASE UNCHANGED vars
    BY <1>2 DEF vars, tables, FilesInv, LoneWriteRepairs, Progress, Repaired, NoShards, Writing
  <1> QED BY <1>1, <1>2, FilesCrawlStep, FilesEraseStep DEF Next

\* A write of the shard files that no other overlaps leaves every file with the
\* committed words, whatever writes, failures and crashes came before.
THEOREM LoneWritesRepair == Spec => []LoneWriteRepairs
  <1>1. Init => FilesInv
    <2>1. Init => \A a \in Agents : Idle(conn[a])
      BY DEF Init, Idle, Resting
    <2>2. Init => LoneWriteRepairs
      BY DEF Init, LoneWriteRepairs, Repaired, NoShards, Absent
    <2> QED BY <2>1, <2>2 DEF FilesInv, Idle, Writing
  <1>2. IndexInv => LockInv /\ EraseInv
    BY DEF IndexInv
  <1>3. FilesInv => LoneWriteRepairs
    BY DEF FilesInv
  <1> QED BY <1>1, <1>2, <1>3, FilesStep, TypeCorrect, IndexInvariance, PTL DEF Spec

=============================================================================
