---------------------------- MODULE CrawlCoverage ----------------------------
(***************************************************************************)
(* What a crawl that has gone through its queue has covered, against a     *)
(* reference computed from the link graph alone.  The claims are about     *)
(* steady web sites: every page yields one list of links, nothing fails to *)
(* load and the queue has room for every page, so that a page can be       *)
(* missed or met too deep only by a mistake of the crawler, across any     *)
(* stops, crashes and resumptions.                                         *)
(***************************************************************************)
EXTENDS CrawlEngineInv

ASSUME SteadySite ==
    /\ IsFiniteSet(Urls)
    /\ \A u \in Urls : \E ls \in Pages[u] : Pages[u] = {ls}
    /\ Failing = {} /\ Faults = {}
    /\ \A c, e \in Configs :
          c = e /\ c.capacity >= Cardinality(Urls) /\ c.maxPages > 0 /\ c.maxDepth >= 0

LinksOf(u) == UNION {{ls[i] : i \in DOMAIN ls} : ls \in Pages[u]}

\* Ball(o)[n]: the pages at most n links away from page o.
Ball(o) ==
    LET B[n \in Nat] ==
            IF n = 0 THEN {o} ELSE B[n - 1] \cup UNION {LinksOf(u) : u \in B[n - 1]}
    IN  B

Within(n) == Ball(cfg.origin)[n]

\* product_prd.md:23: "crawl from an origin URL up to max depth".  A crawl with
\* nothing left to do has dealt with exactly the pages within that distance,
\* however often it was stopped or crashed on the way.
CoversTheDepth ==
    outcome = "completed" /\ ckpt.pending = <<>> =>
        /\ settled = Within(cfg.maxDepth)
        /\ ckpt.seen = settled

\* A task whose depth is the distance of its page from the origin.
Placed(t) ==
    /\ t.depth <= cfg.maxDepth
    /\ t.url \in Within(t.depth)
    /\ t.depth > 0 => t.url \notin Within(t.depth - 1)

\* Breadth-first search meets every page on a shortest path: the depth under
\* which a page is indexed is its distance from the origin.
ShortestPath == \A i \in DOMAIN visits : Placed(visits[i])

-----------------------------------------------------------------------------
(* Why: the inductive invariant.                                           *)

\* A set of seen pages with a frontier: nothing is too far away, the frontier
\* is placed, and the links of every page behind it that is not at the last
\* layer are seen.
Covers(s, q, h) ==
    /\ cfg.origin \in s
    /\ s \subseteq Within(cfg.maxDepth)
    /\ \A i \in 1 .. Len(q) : Placed(q[i])
    /\ \A u \in s \ (UrlsOf(q) \cup h) : \A n \in 0 .. cfg.maxDepth - 1 :
          u \in Within(n) => LinksOf(u) \subseteq s

InHand == IF InPage THEN {task.url} ELSE {}

CoverInv ==
    /\ ckpt.seen # {} => Covers(ckpt.seen, ckpt.pending, {})
    /\ outcome = "completed" => ckpt.seen # {}
    /\ settled \subseteq Within(cfg.maxDepth)
    /\ ShortestPath
    /\ InLoop => Covers(seen, queue, InHand)
    /\ pc = "linking" =>
          /\ task.depth < cfg.maxDepth
          /\ {links[i] : i \in DOMAIN links} \subseteq LinksOf(task.url)
          /\ LinksOf(task.url) \subseteq seen \cup {links[i] : i \in DOMAIN links}
    /\ pc = "settle" /\ task.depth < cfg.maxDepth => LinksOf(task.url) \subseteq seen
=============================================================================
