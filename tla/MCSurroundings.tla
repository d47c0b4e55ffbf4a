--------------------------- MODULE MCSurroundings ---------------------------
(***************************************************************************)
(* Values for the constants of Surroundings, and its parts one at a time:  *)
(* the first state says which part moves, and the others stay where they   *)
(* are.                                                                    *)
(***************************************************************************)
EXTENDS Surroundings

VARIABLE part       \* the part that moves

\* Two of three launchers want the same port first; the highest port is within
\* reach of the third.
MCStart == <<1, 1, 3>>

\* One page in forms with slashes, with one semicolon and with two; one that has
\* a semicolon before its last name and its twin without; one that differs in the
\* port; the root in two forms; a query in two orders; URLs without a host, with a
\* default port and with another one; and what cannot be crawled.
Named(n) == [name |-> n, params |-> 0]
With(n)  == [name |-> n, params |-> 1]
Nothing  == Named(0)
Plain ==
    [scheme |-> "http", caps |-> FALSE, host |-> 1, port |-> 0, path |-> <<Named(1)>>,
     query |-> <<>>, fragment |-> 0]

SomeHrefs ==
    {Plain,
     [Plain EXCEPT !.path = <<Named(1), Nothing, Nothing, Nothing>>, !.port = 80],
     [Plain EXCEPT !.path = <<With(1)>>, !.caps = TRUE, !.fragment = 1],
     [Plain EXCEPT !.path = <<Named(1), With(0)>>],
     [Plain EXCEPT !.path = <<With(1), Nothing>>],
     [Plain EXCEPT !.path = <<With(1), With(0), Nothing>>],
     [Plain EXCEPT !.path = <<With(1), Named(2)>>],
     [Plain EXCEPT !.path = <<Named(1), Named(2)>>],
     [Plain EXCEPT !.port = 443],
     [Plain EXCEPT !.path = <<Nothing, Nothing>>], [Plain EXCEPT !.path = <<>>],
     [Plain EXCEPT !.query = <<<<2, 0>>, <<1, 1>>, <<1, 0>>>>],
     [Plain EXCEPT !.query = <<<<1, 0>>, <<2, 0>>, <<1, 1>>>>],
     [Plain EXCEPT !.host = 0, !.port = 80], [Plain EXCEPT !.host = 0, !.port = 443],
     [Plain EXCEPT !.scheme = "other"]}

\* Bounds: how many of them one crawl meets, and how often it is given one that
\* gets another task after every resumption.
MaxHrefs == 3
MaxTasks == 4

-----------------------------------------------------------------------------
\* Parts that do not move have one initial state.
MCInit ==
    /\ AllInit
    /\ part \in {"page", "clicks", "launch", "limit", "url"}
    /\ part # "clicks" => job.app
    /\ part # "launch" => foreign = {} /\ rows = [c \in Crawlers |-> "none"]
    /\ part # "limit" => now = 0

\* Bound: two fetches of the page at once, or two of its clicks, but not both.
Spare(S) == S \ {CHOOSE x \in S : TRUE}

FewAtOnce ==
    /\ part = "page"   => \A h \in Spare(Handlers) : handlers'[h].step = "idle"
    /\ part = "clicks" => \A s \in Spare(Slots) : fetches'[s].step = "idle"

FewHrefs == part = "url" => Cardinality(handed') <= MaxHrefs /\ Len(made') <= MaxTasks

MCNext ==
    \/ part \in {"page", "clicks"} /\ Next /\ FewAtOnce
       /\ UNCHANGED <<part, launchVars, limitVars, urlVars>>
    \/ part = "launch" /\ Launching!Next /\ UNCHANGED <<part, vars, limitVars, urlVars>>
    \/ part = "limit" /\ Limiting!Next /\ UNCHANGED <<part, vars, launchVars, urlVars>>
    \/ part = "url" /\ Intake!Next /\ FewHrefs
       /\ UNCHANGED <<part, vars, launchVars, limitVars>>

\* Only of the page something is expected in time; its fairness is that of
\* StatusPage.
MCSpec ==
    /\ MCInit
    /\ [][MCNext]_<<part, vars, launchVars, limitVars, urlVars>>
    /\ Fairness
=============================================================================
