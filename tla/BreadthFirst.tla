---------------------------- MODULE BreadthFirst ----------------------------
(***************************************************************************)
(* What a crawl run promises to somebody who only watches its trace of     *)
(* visits: pages are visited while a run is on, each page at most once,    *)
(* never more of them than the page budget, and in breadth-first order.    *)
(* Queues, threads, checkpoints and failures are the business of           *)
(* CrawlEngine, which implements this specification.                       *)
(***************************************************************************)
EXTENDS Integers, Sequences

CONSTANT Urls

VARIABLES
    running,    \* is a crawl run on?
    budget,     \* the page budget of the run
    visits      \* the visits of the latest run, in the order they started

bfsVars == <<running, budget, visits>>

BfsInit ==
    /\ running = FALSE
    /\ budget \in Int
    /\ visits = <<>>

\* A run starts with an empty trace and a budget of its own.
Begin ==
    /\ ~running
    /\ running' = TRUE
    /\ budget' \in Int
    /\ visits' = <<>>

\* In the layer of the previous visit or in the next one.  A resumed run may
\* begin at any layer.
InOrder(t) ==
    visits = <<>> \/ t.depth - visits[Len(visits)].depth \in {0, 1}

\* A page nobody visited in this run.  (The new visit is taken from the new
\* trace, not from the infinite set of visits, so that TLC can find it.)
Visit ==
    /\ running
    /\ Len(visits) < budget
    /\ visits' # <<>>
    /\ LET t == visits'[Len(visits')] IN
          /\ t \in [url : Urls, depth : Nat]
          /\ \A i \in DOMAIN visits : visits[i].url # t.url
          /\ InOrder(t)
          /\ visits' = Append(visits, t)
    /\ UNCHANGED <<running, budget>>

End ==
    /\ running
    /\ running' = FALSE
    /\ UNCHANGED <<budget, visits>>

BfsNext ==
    \/ Begin
    \/ Visit
    \/ End

BfsSpec == BfsInit /\ [][BfsNext]_bfsVars
=============================================================================
