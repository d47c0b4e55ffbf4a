------------------------------- MODULE Launcher -------------------------------
(***************************************************************************)
(* "crawldesk start" (main.py): several launchers on one machine and one   *)
(* data directory, each looking for a port of its own, booting a           *)
(* CrawlerManager and serving.                                             *)
(*                                                                         *)
(* The port is tried with a probe, a socket bound and closed, and bound    *)
(* again by the server after the manager has booted, so launchers can get  *)
(* in each other's way.  What a server does with crawlers is abridged to   *)
(* the beginning and the end of their runs (JobManager has the rest).      *)
(*                                                                         *)
(* Definitions whose names begin with Bug are the mistakes somebody could  *)
(* have made in the definition that follows them; no action uses them.     *)
(***************************************************************************)
EXTENDS Integers

CONSTANTS
    Launchers,      \* processes
    Crawlers,       \* crawler ids
    Start,          \* --port of each launcher, not 0 (which means any port)
    MaxPortTries,   \* --max-port-tries
    Highest         \* the highest port there is

VARIABLES
    at,             \* at[l]: where launcher l is
    port,           \* port[l]: the port it tries or uses
    foreign,        \* ports that other programs hold, for good
    job,            \* job[l][c]: state of crawler c in l's _jobs
    found,          \* found[l]: rows its boot has found running and not marked yet
    row             \* row[c]: state of the crawler's row, "none" without one

vars == <<at, port, foreign, job, found, row>>

Tries == IF MaxPortTries > 1 THEN MaxPortTries ELSE 1

\* "refused": the server could not bind; "crashed": there is no such port.
Rest  == {"serving", "stopped", "refused", "gaveUp", "crashed"}
Alive == {"probed", "picked", "loading", "booted", "serving", "stopped"}
Steps == Rest \cup Alive \cup {"probing"}

BugHeldBy(l) == at[l] \in Alive \ {"stopped"}

\* A probe without SO_REUSEADDR and a listening server both keep others out; in
\* between the port is free.
HeldBy(l) == at[l] \in {"probed", "serving"}

Held(p) == p \in foreign \/ \E l \in Launchers : HeldBy(l) /\ port[l] = p

Init ==
    /\ at = [l \in Launchers |-> "probing"]
    /\ port = Start
    /\ foreign \in SUBSET (1 .. Highest)
    /\ job = [l \in Launchers |-> [c \in Crawlers |-> "unknown"]]
    /\ found = [l \in Launchers |-> {}]
    /\ row \in [Crawlers -> {"none", "running"}]

Goto(l, step) == at' = [at EXCEPT ![l] = step]

-----------------------------------------------------------------------------
(* _pick_available_port, _is_port_available.                               *)

ProbeBinds(l) ==
    /\ at[l] = "probing" /\ port[l] <= Highest
    /\ ~Held(port[l])
    /\ Goto(l, "probed")
    /\ UNCHANGED <<port, foreign, job, found, row>>

\* The next port, as long as there are tries left.
ProbeRefused(l) ==
    /\ at[l] = "probing" /\ port[l] <= Highest
    /\ Held(port[l])
    /\ port' = [port EXCEPT ![l] = @ + 1]
    /\ Goto(l, IF port'[l] < Start[l] + Tries THEN "probing" ELSE "gaveUp")
    /\ UNCHANGED <<foreign, job, found, row>>

\* Not an OSError, so not taken for a port in use.
ProbeOverflows(l) ==
    /\ at[l] = "probing" /\ port[l] > Highest
    /\ Goto(l, "crashed")
    /\ UNCHANGED <<port, foreign, job, found, row>>

CloseProbe(l) ==
    /\ at[l] = "probed"
    /\ Goto(l, "picked")
    /\ UNCHANGED <<port, foreign, job, found, row>>

-----------------------------------------------------------------------------
(* run_web_server, CrawlerManager._load_jobs_from_db.                      *)

\* One SELECT; then an UPDATE for every row found running, without looking at
\* the row again.
Load(l) ==
    /\ at[l] = "picked"
    /\ found' = [found EXCEPT ![l] = {c \in Crawlers : row[c] = "running"}]
    /\ job' = [job EXCEPT ![l] =
                  [c \in Crawlers |-> IF row[c] = "none" THEN "unknown" ELSE "ended"]]
    /\ Goto(l, "loading")
    /\ UNCHANGED <<port, foreign, row>>

Mark(l, c) ==
    /\ at[l] = "loading" /\ c \in found[l]
    /\ found' = [found EXCEPT ![l] = @ \ {c}]
    /\ row' = [row EXCEPT ![c] = "interrupted"]
    /\ UNCHANGED <<at, port, foreign, job>>

Booted(l) ==
    /\ at[l] = "loading" /\ found[l] = {}
    /\ Goto(l, "booted")
    /\ UNCHANGED <<port, foreign, job, found, row>>

\* ThreadingHTTPServer binds and listens; an OSError ends the process, which
\* catches nothing but Ctrl-C.
Bind(l) ==
    /\ at[l] = "booted"
    /\ Goto(l, IF Held(port[l]) THEN "refused" ELSE "serving")
    /\ UNCHANGED <<port, foreign, job, found, row>>

-----------------------------------------------------------------------------
(* What a server does: create_crawler or resume_crawler, _run_job, Ctrl-C. *)

\* Only the server's own _jobs tell it that a crawler runs.
StartCrawl(l, c) ==
    /\ at[l] = "serving" /\ job[l][c] # "running"
    /\ job' = [job EXCEPT ![l][c] = "running"]
    /\ row' = [row EXCEPT ![c] = "running"]
    /\ UNCHANGED <<at, port, foreign, found>>

EndCrawl(l, c) ==
    /\ at[l] = "serving" /\ job[l][c] = "running"
    /\ job' = [job EXCEPT ![l][c] = "ended"]
    /\ row' = [row EXCEPT ![c] = "ended"]
    /\ UNCHANGED <<at, port, foreign, found>>

\* The threads of the process end with it.
Stop(l) ==
    /\ at[l] = "serving"
    /\ Goto(l, "stopped")
    /\ UNCHANGED <<port, foreign, job, found, row>>

-----------------------------------------------------------------------------
Launch(l) ==
    \/ ProbeBinds(l) \/ ProbeRefused(l) \/ ProbeOverflows(l) \/ CloseProbe(l)
    \/ Load(l) \/ Booted(l) \/ Bind(l)
    \/ \E c \in Crawlers : Mark(l, c)

Next ==
    \E l \in Launchers :
        \/ Launch(l) \/ Stop(l)
        \/ \E c \in Crawlers : StartCrawl(l, c) \/ EndCrawl(l, c)

Spec == Init /\ [][Next]_vars

-----------------------------------------------------------------------------
(* Properties.                                                             *)

TypeOK ==
    /\ at \in [Launchers -> Steps]
    /\ port \in [Launchers -> Nat]
    /\ foreign \subseteq 1 .. Highest
    /\ job \in [Launchers -> [Crawlers -> {"unknown", "running", "ended"}]]
    /\ found \in [Launchers -> SUBSET Crawlers]
    /\ row \in [Crawlers -> {"none", "running", "interrupted", "ended"}]

Tried(l) == {p \in Start[l] .. Start[l] + Tries - 1 : p <= Highest}

\* product_prd.md:432, "auto free-port fallback": if one of the ports that
\* somebody tries is not held by another program, the launchers do not shut each
\* other out with their probes: once all have come to rest, one of them serves
\* or has served.
SomebodyServes ==
    /\ \A l \in Launchers : at[l] \in Rest
    /\ \E l \in Launchers : ~(Tried(l) \subseteq foreign)
    => \E l \in Launchers : at[l] \in {"serving", "stopped"}

\* product_prd.md:250: old running jobs are marked as interrupted at boot.  A
\* crawler that runs in a live server is not an old one.  (Refuted by a run of
\* its own.)
OnlyOldJobsAreInterrupted ==
    \A c \in Crawlers :
        row[c] = "interrupted" =>
            ~\E l \in Launchers : at[l] = "serving" /\ job[l][c] = "running"
=============================================================================
