------------------------------- MODULE Search -------------------------------
(***************************************************************************)
(* Searching the index (index/sqlite_storage.py, 126-282) while crawls and *)
(* deletions change it.  A client asks for the first page of hits and then *)
(* for the next ones by their offset; each page is one SELECT, which sees  *)
(* what was committed at that moment, and nothing ties the pages together. *)
(*                                                                         *)
(* A query of one word goes to word_entries joined with documents, any     *)
(* other to the documents alone.  The tables are in step (IndexStore), so  *)
(* the entries of a document are the words of its content here.            *)
(*                                                                         *)
(* Definitions whose names begin with Bug are the mistakes somebody could  *)
(* have made in the definition that follows them; no action uses them.     *)
(***************************************************************************)
EXTENDS Integers, SequencesExt

CONSTANTS
    Urls,
    Words,
    LengthOf,       \* LengthOf[p]: the length of the phrase p as a word
    Documents,      \* documents that crawls may write
    Queries,        \* queries that clients may ask
    DaySeconds,     \* the length of a day
    MaxWrites,      \* bound: changes of the index during one search
    None            \* Python's None: no document, no query, no such filter

ASSUME DaySecondsAssumption == DaySeconds \in Nat \ {0}
ASSUME MaxWritesAssumption  == MaxWrites \in Nat
ASSUME NoneAssumption       == None \notin Documents

\* Only the command line can filter by crawler and by day.  A phrase with these
\* filters is left out.
ASSUME QueriesAssumption ==
    \A q \in Queries :
        /\ q.words \in Seq(Words) \ {<<>>}
        /\ q.domain = None \/ q.domain \subseteq Urls
        /\ q.from \in Nat \cup {None} /\ q.to \in Nat \cup {None}
        /\ q.sortBy \in {"relevance", "recent"}
        /\ q.limit \in Int
        /\ Len(q.words) > 1 =>
               /\ q.owner = None /\ q.from = None /\ q.to = None
               /\ q.words \in DOMAIN LengthOf

ASSUME DocumentsAssumption ==
    \A d \in Documents :
        /\ d.title \in Seq(Words) /\ d.content \in Seq(Words)
        /\ d.depth \in Nat /\ d.at \in Nat

VARIABLES
    docs,       \* table documents, as committed
    scan,       \* the order of the rows: of the documents, and of the entries of a word
    query,      \* what the client searches for, or None
    shown,      \* the URLs of the hits of all pages so far
    offset,     \* where the next page begins
    ended,      \* the last page was not full
    touched,    \* history: URLs written or removed since the first page ...
    writes      \* ... and how often that was

index   == <<docs, scan>>
session == <<query, shown, offset, ended>>
history == <<touched, writes>>
vars    == <<index, session, history>>

Stored == {u \in Urls : docs[u] # None}

Init ==
    /\ docs = [u \in Urls |-> None]
    /\ scan = [documents |-> <<>>, entries |-> <<>>]
    /\ query = None /\ shown = <<>> /\ offset = 0 /\ ended = FALSE
    /\ touched = {} /\ writes = 0

-----------------------------------------------------------------------------
(* Rows, conditions and ranks.                                             *)

Frequency(d, w) == Cardinality({i \in DOMAIN d.content : d.content[i] = w})

Score(d, w) == Frequency(d, w) * 10 + 1000 - d.depth * 5

\* indexed_at is compared as text: the end of a day is its last full second, and
\* what was indexed during that second is longer, hence later.
InDays(d, q) ==
    /\ q.from = None \/ d.at >= q.from * DaySeconds
    /\ q.to = None \/ d.at < (q.to + 1) * DaySeconds - 1

\* The join of the entries of the word with their documents.
WordRows(q) ==
    {u \in Stored :
        /\ Frequency(docs[u], q.words[1]) > 0
        /\ q.domain = None \/ u \in q.domain
        /\ q.owner = None \/ docs[u].owner = q.owner
        /\ InDays(docs[u], q)}

\* The statement names the parameters of the score first, the list of parameters
\* has them last.  So the title is compared with the whole query without its
\* wildcards, the content with the query's length, and a domain, which is compared
\* with the length, leaves nothing.
PhraseRows(q) ==
    {u \in Stored :
        /\ docs[u].title = q.words \/ docs[u].content = <<LengthOf[q.words]>>
        /\ q.domain = None}

Rows(q) == IF Len(q.words) = 1 THEN WordRows(q) ELSE PhraseRows(q)

\* What a row is ranked by, the first key first.  The score of a phrase is a
\* division by a text, which is NULL for all.
Keys(q, u) ==
    LET score == IF Len(q.words) = 1 THEN Score(docs[u], q.words[1]) ELSE 0
    IN  IF q.sortBy = "recent" THEN <<docs[u].at, score>> ELSE <<score, docs[u].at>>

Above(k, l) == k[1] > l[1] \/ (k[1] = l[1] /\ k[2] > l[2])

Place(order, u) == CHOOSE i \in DOMAIN order : order[i] = u

\* sqlite keeps rows with equal keys in the order in which it has found them.
Position(q, u) == Place(IF Len(q.words) = 1 THEN scan.entries ELSE scan.documents, u)

BugBefore(q, u, v) == Position(q, u) < Position(q, v)

Before(q, u, v) ==
    \/ Above(Keys(q, u), Keys(q, v))
    \/ Keys(q, u) = Keys(q, v) /\ Position(q, u) < Position(q, v)

Ranked(q) ==
    CHOOSE all \in [1 .. Cardinality(Rows(q)) -> Rows(q)] :
        \A i, j \in DOMAIN all : i < j => Before(q, all[i], all[j])

SafeLimit(q) == IF q.limit < 1 THEN 1 ELSE q.limit

BugHits(q, from) ==
    LET all == Ranked(q)
    IN  SubSeq(all, IF from = 0 THEN 1 ELSE from, Min({from + SafeLimit(q), Len(all)}))

\* LIMIT and OFFSET.
Hits(q, from) ==
    LET all == Ranked(q)
    IN  SubSeq(all, from + 1, Min({from + SafeLimit(q), Len(all)}))

-----------------------------------------------------------------------------
(* The client.                                                             *)

\* GET /search?query=...&pageLimit=..., the search page and the command line.
Ask(q) ==
    LET hits == Hits(q, 0)
    IN  /\ query' = q /\ shown' = hits
        /\ offset' = SafeLimit(q)
        /\ ended' = (Len(hits) < SafeLimit(q))
        /\ touched' = {} /\ writes' = 0
        /\ UNCHANGED index

\* The same with the next pageOffset.
NextPage ==
    LET hits == Hits(query, offset)
    IN  /\ query # None /\ ~ended
        /\ shown' = shown \o hits
        /\ offset' = offset + SafeLimit(query)
        /\ ended' = (Len(hits) < SafeLimit(query))
        /\ UNCHANGED <<index, query, history>>

-----------------------------------------------------------------------------
(* The others.                                                             *)

Touch(u) ==
    /\ writes < MaxWrites
    /\ writes' = writes + 1 /\ touched' = touched \cup {u}
    /\ UNCHANGED session

Without(order, u) ==
    IF u \in ToSet(order) THEN RemoveAt(order, Place(order, u)) ELSE order

BugUpsert(u, d) ==
    /\ docs' = [docs EXCEPT ![u] = d]
    /\ scan' = [documents |-> IF u \in Stored THEN scan.documents
                              ELSE Append(scan.documents, u),
                entries   |-> Append(scan.entries, u)]
    /\ Touch(u)

\* A document keeps its row, its words get new ones.
Upsert(u, d) ==
    /\ docs' = [docs EXCEPT ![u] = d]
    /\ scan' = [documents |-> IF u \in Stored THEN scan.documents
                              ELSE Append(scan.documents, u),
                entries   |-> Append(Without(scan.entries, u), u)]
    /\ Touch(u)

Delete(u) ==
    /\ u \in Stored
    /\ docs' = [docs EXCEPT ![u] = None]
    /\ scan' = [documents |-> Without(scan.documents, u),
                entries   |-> Without(scan.entries, u)]
    /\ Touch(u)

Next ==
    \/ \E q \in Queries : Ask(q)
    \/ NextPage
    \/ \E u \in Urls, d \in Documents : Upsert(u, d)
    \/ \E u \in Urls : Delete(u)

Spec == Init /\ [][Next]_vars

-----------------------------------------------------------------------------
TypeOK ==
    /\ docs \in [Urls -> Documents \cup {None}]
    /\ \A order \in {scan.documents, scan.entries} :
           /\ order \in Seq(Stored) /\ ToSet(order) = Stored
           /\ IsInjective(order)
    /\ query \in Queries \cup {None}
    /\ shown \in Seq(Urls) /\ offset \in Nat /\ ended \in BOOLEAN
    /\ touched \subseteq Urls /\ writes \in 0 .. MaxWrites

\* What somebody who searches for one word wants, in days.
Wanted(q) ==
    {u \in Stored :
        LET d   == docs[u]
            day == d.at \div DaySeconds
        IN  /\ \E i \in DOMAIN d.content : d.content[i] = q.words[1]
            /\ q.domain # None => u \in q.domain
            /\ q.owner # None => d.owner = q.owner
            /\ q.from # None => q.from <= day
            /\ q.to # None => day <= q.to}

\* The exception: the last second of the last day.
TooLate(q) == {u \in Stored : q.to # None /\ docs[u].at = (q.to + 1) * DaySeconds - 1}

WordSearch == query # None /\ Len(query.words) = 1

\* README.md:141-146, manager.py:305-336: as long as nobody changes the index, the
\* pages together are one list in order of rank, without a repetition, and when
\* the last page is not full, nothing that was wanted is missing.
PagingIsExact ==
    WordSearch /\ writes = 0 =>
        /\ IsInjective(shown)
        /\ \A i, j \in DOMAIN shown :
               i < j => ~Above(Keys(query, shown[j]), Keys(query, shown[i]))
        /\ ToSet(shown) \subseteq Wanted(query)
        /\ ended => Wanted(query) \ TooLate(query) \subseteq ToSet(shown)

\* README.md:30: searching goes on while crawls index.  Each change moves at most
\* one of the other hits over the edge of a page, so of the hits that stay as they
\* are no more than that are shown twice or left out.
PagingDrifts ==
    WordSearch =>
        LET steady == Wanted(query) \ (TooLate(query) \cup touched)
            Times(u) == Cardinality({i \in DOMAIN shown : shown[i] = u})
        IN  /\ Cardinality({u \in steady : Times(u) > 1}) <= writes
            /\ ended => Cardinality({u \in steady : Times(u) = 0}) <= writes

\* product_prd.md:204-205: a keyword is looked for in title and content; a page
\* whose title or content has the phrase in it is found.
HasPhrase(text, phrase) ==
    \E i \in 1 .. Len(text) - Len(phrase) + 1 :
        SubSeq(text, i, i + Len(phrase) - 1) = phrase

PhrasesAreFound ==
    query # None /\ Len(query.words) > 1 /\ ended /\ writes = 0 =>
        \A u \in Stored :
            /\ HasPhrase(docs[u].title, query.words) \/ HasPhrase(docs[u].content, query.words)
            /\ query.domain # None => u \in query.domain
            => u \in ToSet(shown)
=============================================================================
