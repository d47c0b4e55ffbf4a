------------------------------ MODULE UrlIntake ------------------------------
(***************************************************************************)
(* From hrefs to tasks: normalize_url (utils/url.py) and its uses.  A link *)
(* is normalised when the page is parsed, the origin when a run begins,    *)
(* and each again when it is scheduled; the seen URLs of a checkpoint once *)
(* more when they are restored, its pending tasks never.                   *)
(*                                                                         *)
(* CrawlEngine takes URLs for their normal forms; this module shows what   *)
(* makes that right.  Queue capacity, depth and budget are its subject.    *)
(*                                                                         *)
(* Definitions whose names begin with Bug are the mistakes somebody could  *)
(* have made in the definition that follows them; no action uses them.     *)
(***************************************************************************)
EXTENDS Integers, Sequences, FiniteSets

CONSTANTS
    Hrefs,          \* absolute URLs as pages and users write them
    None            \* Python's None: not a URL to crawl

VARIABLES
    seen,           \* CrawlScheduler._seen
    pending,        \* the queue, with a checkpoint in step with it
    made,           \* history: the URLs of all tasks, in order
    handed          \* history: the hrefs that were handed in

vars == <<seen, pending, made, handed>>

\* path: the segments after each slash; a segment is a name, 0 for an empty one,
\* and what follows a semicolon, 0 for nothing.  query: pairs of key and value.
\* host: what is written before the port; host 0, port 0: none is given.
\* caps: scheme or host has upper-case letters.
Segment == [name : Nat, params : Nat]
Url     == [scheme : {"http", "https", "other"}, caps : BOOLEAN, host : Nat, port : Nat,
            path : Seq(Segment), query : Seq(Nat \X Nat), fragment : Nat]

Empty == [name |-> 0, params |-> 0]

-----------------------------------------------------------------------------
(* normalize_url.                                                          *)

\* urlparse splits the parameters off the last segment only.
WithoutParams(path) ==
    IF path = <<>> THEN path ELSE [path EXCEPT ![Len(path)].params = 0]

BugWithoutSlashes(path) ==
    CASE path = <<>> -> <<Empty>>
      [] Len(path) > 1 /\ path[Len(path)] = Empty -> SubSeq(path, 1, Len(path) - 1)
      [] OTHER -> path

\* path.rstrip("/"), but never nothing.
WithoutSlashes(path) ==
    LET filled == {i \in DOMAIN path : path[i] # Empty} IN
    IF filled = {} THEN <<Empty>>
    ELSE SubSeq(path, 1, CHOOSE i \in filled : \A j \in filled : j <= i)

Before(p, q) == p[1] < q[1] \/ (p[1] = q[1] /\ p[2] < q[2])

Pairs(query) == {query[i] : i \in DOMAIN query}

Times(query, pair) == Cardinality({i \in DOMAIN query : query[i] = pair})

\* params.sort.
Sorted(query) ==
    CHOOSE s \in [DOMAIN query -> Pairs(query)] :
        /\ \A i, j \in DOMAIN s : i < j => ~Before(s[j], s[i])
        /\ \A pair \in Pairs(query) : Times(s, pair) = Times(query, pair)

DefaultPort(url) ==
    \/ url.scheme = "http" /\ url.port = 80
    \/ url.scheme = "https" /\ url.port = 443

\* urlparse's netloc, host and port, is empty.  (Before Python 3.12.5 urlunparse
\* made a host of the first name if two slashes came after a netloc that was
\* emptied by normalize_url; that is left out.)
NoNetloc(url) == url.host = 0 /\ url.port = 0

NormalizeUrl(url) ==
    IF url = None \/ url.scheme \notin {"http", "https"} \/ NoNetloc(url) THEN None
    ELSE [url EXCEPT
             !.caps = FALSE,
             !.port = IF DefaultPort(url) THEN 0 ELSE @,
             !.path = WithoutSlashes(WithoutParams(@)),
             !.query = Sorted(@),
             !.fragment = 0]

-----------------------------------------------------------------------------
(* CrawlScheduler: schedule, next_task, restore.                           *)

Init == seen = {} /\ pending = <<>> /\ made = <<>> /\ handed = {}

Schedule(url) ==
    LET normalized == NormalizeUrl(url) IN
    IF normalized = None \/ normalized \in seen THEN UNCHANGED <<seen, pending, made>>
    ELSE /\ seen' = seen \cup {normalized}
         /\ pending' = Append(pending, normalized)
         /\ made' = Append(made, normalized)

\* index, then _bootstrap; without a normal form the run fails.
Seed(href) ==
    /\ made = <<>>
    /\ Schedule(NormalizeUrl(href))
    /\ handed' = handed \cup {href}

\* handle_starttag of the page's parser, then the loop over its links.
Follow(href) ==
    /\ made # <<>>
    /\ Schedule(NormalizeUrl(href))
    /\ handed' = handed \cup {href}

Take ==
    /\ pending # <<>>
    /\ pending' = Tail(pending)
    /\ UNCHANGED <<seen, made, handed>>

\* A run that goes on from its checkpoint.
Restore ==
    /\ seen' = {NormalizeUrl(url) : url \in seen} \ {None}
    /\ UNCHANGED <<pending, made, handed>>

Next == Take \/ Restore \/ \E href \in Hrefs : Seed(href) \/ Follow(href)

Spec == Init /\ [][Next]_vars

-----------------------------------------------------------------------------
(* Properties.                                                             *)

TypeOK ==
    /\ \A url \in seen : url \in Url
    /\ \A i \in DOMAIN pending : pending[i] \in Url
    /\ \A i \in DOMAIN made : made[i] \in Url
    /\ handed \subseteq Hrefs

\* The reference: which URLs name the same page, as the project understands it
\* (product_prd.md:165-171).  It says nothing of semicolons; the code drops what
\* follows one in the last segment.
Port(url) == IF url.port # 0 THEN url.port ELSE IF url.scheme = "http" THEN 80 ELSE 443

Names(path) == {i \in DOMAIN path : path[i].name # 0}

\* Of what follows the last name, slashes and semicolons, nothing counts.
SamePath(p, q) ==
    /\ Names(p) = Names(q)
    /\ \A i \in Names(p) :
          /\ p[i].name = q[i].name
          /\ \A j \in 1 .. i - 1 : p[j].params = q[j].params

SameQuery(q, r) ==
    Len(q) = Len(r) /\ \A pair \in Pairs(q) \cup Pairs(r) : Times(q, pair) = Times(r, pair)

SamePage(u, v) ==
    /\ u.scheme = v.scheme /\ u.host = v.host /\ Port(u) = Port(v)
    /\ SamePath(u.path, v.path) /\ SameQuery(u.query, v.query)

\* What can be crawled at all.  The port makes a URL without a host one to crawl,
\* unless it is the default port, which is as good as none.
Crawlable(url) ==
    url.scheme \in {"http", "https"} /\ (url.host # 0 \/ (url.port # 0 /\ ~DefaultPort(url)))

\* At most one semicolon comes after the last name.  normalize_url cuts off one at
\* a time, and one that has a slash after it only the next time.
Leftover(path) == {i \in DOMAIN path : path[i].params # 0 /\ \A j \in Names(path) : j <= i}
Steady(url) == \A i, j \in Leftover(url.path) : i = j

\* product_prd.md:523, README.md:26: whatever form its links have and however
\* often the crawl is resumed, a page that is linked to gets a task, and only one.
\* Only one is not true of a page some href of which has several semicolons after
\* its last name: /a;b/;c/ keeps one and gets another task than /a, and a third one
\* when a resumption has cut it off in the list of what was seen.
ExactlyOneTask ==
    \A href \in handed :
        LET tasks == {i \in DOMAIN made : SamePage(made[i], href)} IN
        IF ~Crawlable(href) THEN tasks = {}
        ELSE /\ tasks # {}
             /\ (\A other \in handed : SamePage(other, href) => Steady(other)) =>
                    Cardinality(tasks) = 1
=============================================================================
