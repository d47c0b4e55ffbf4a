----------------------------- MODULE Surroundings -----------------------------
(***************************************************************************)
(* The parts around the crawler, side by side: the page of a crawler       *)
(* (StatusPage), the launchers, the rate limiter and the intake of URLs.   *)
(* They share no state.                                                    *)
(***************************************************************************)
EXTENDS StatusPage, Sequences

CONSTANTS
    Launchers, Crawlers, Start, MaxPortTries, Highest,      \* see Launcher
    Interval, Early, MaxTime, MaxGrants,                    \* see RateLimiter
    Hrefs                                                   \* see UrlIntake

VARIABLES
    at, port, foreign, registered, found, rows,
    now, nextAllowed, sleeping, grants,
    seen, pending, made, handed

launchVars == <<at, port, foreign, registered, found, rows>>
limitVars  == <<now, nextAllowed, sleeping, grants>>
urlVars    == <<seen, pending, made, handed>>

Launching == INSTANCE Launcher WITH job <- registered, row <- rows
Limiting  == INSTANCE RateLimiter
Intake    == INSTANCE UrlIntake

ASSUME LaunchersAssumption ==
    Start \in [Launchers -> Nat] /\ MaxPortTries \in Int /\ Highest \in Nat

ASSUME RateAssumption == Interval \in Nat /\ Early \in Nat /\ MaxTime \in Nat

ASSUME HrefsAssumption == Hrefs \subseteq Intake!Url /\ None \notin Intake!Url

-----------------------------------------------------------------------------
AllInit == Init /\ Launching!Init /\ Limiting!Init /\ Intake!Init

AllNext ==
    \/ Next /\ UNCHANGED <<launchVars, limitVars, urlVars>>
    \/ Launching!Next /\ UNCHANGED <<vars, limitVars, urlVars>>
    \/ Limiting!Next /\ UNCHANGED <<vars, launchVars, urlVars>>
    \/ Intake!Next /\ UNCHANGED <<vars, launchVars, limitVars>>

AllSpec == AllInit /\ [][AllNext]_<<vars, launchVars, limitVars, urlVars>>

-----------------------------------------------------------------------------
\* Every variable of every part has its type.
TypesOK == TypeOK /\ Launching!TypeOK /\ Limiting!TypeOK /\ Intake!TypeOK

\* Launcher: the launchers' probes do not shut out all of them.
SomebodyServes == Launching!SomebodyServes

\* RateLimiter: requests keep their distance.
Spacing == Limiting!Spacing

\* UrlIntake: each page that is linked to gets a task, and only one unless some href
\* of it has several semicolons after its last name.
ExactlyOneTask == Intake!ExactlyOneTask
=============================================================================
