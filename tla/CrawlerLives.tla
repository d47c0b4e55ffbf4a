----------------------------- MODULE CrawlerLives -----------------------------
(***************************************************************************)
(* What the web server promises to those who only see the list of their    *)
(* crawlers: each is started, runs, ends, may be resumed again and again,  *)
(* and may be deleted once it rests, for good.  When the server goes down  *)
(* the running ones are interrupted, and a crawler whose creation was not  *)
(* finished may be lost.  Requests, threads, locks and transactions are    *)
(* the business of JobManager, which implements this specification.        *)
(*                                                                         *)
(* The promise is made to everybody who asks for one thing of a crawler at *)
(* a time.  Whoever does not, or meets a database that refuses a write, is *)
(* told nothing about that crawler any more: it is excused.                *)
(***************************************************************************)
EXTENDS Naturals

CONSTANTS
    Ids,        \* crawler ids, also of those that do not exist yet
    Verdicts    \* how a run may end

VARIABLES
    life,       \* what has become of each crawler
    boots       \* how often the server has come up again

livesVars == <<life, boots>>

Resting == Verdicts \cup {"interrupted"}
Lives   == Resting \cup {"new", "running", "gone", "excused"}

LivesInit == life \in [Ids -> {"new", "interrupted"}] /\ boots = 0

\* The crawlers turn to what next says, unless they are excused.
Turn(next) ==
    /\ life' \in [Ids -> Lives]
    /\ \A id \in Ids : life'[id] \in {next[id], "excused"}

\* A crawler is started for the first time, or resumed.
Start(id) ==
    /\ life[id] \in Resting \cup {"new"}
    /\ Turn([life EXCEPT ![id] = "running"])

End(id) ==
    /\ life[id] = "running"
    /\ \E verdict \in Verdicts : Turn([life EXCEPT ![id] = verdict])

\* One crawler or all of them are erased; none of them is running.
Erase(ids) ==
    /\ \A id \in ids : life[id] # "running"
    /\ Turn([id \in Ids |-> IF id \in ids /\ life[id] \in Resting THEN "gone" ELSE life[id]])

\* The server goes down and comes up again.
GoDown(lost) ==
    /\ \A id \in lost : life[id] = "new"
    /\ Turn([id \in Ids |-> CASE life[id] = "running" -> "interrupted"
                              [] id \in lost -> "gone"
                              [] OTHER -> life[id]])

Excuse == Turn(life)

\* What may happen while the server is up.
Proceed ==
    \/ \E id \in Ids : Start(id) \/ End(id)
    \/ \E ids \in SUBSET Ids : Erase(ids)
    \/ Excuse

LivesNext ==
    \/ Proceed /\ UNCHANGED boots
    \/ (\E lost \in SUBSET Ids : GoDown(lost)) /\ boots' = boots + 1

LivesSpec == LivesInit /\ [][LivesNext]_livesVars
=============================================================================
