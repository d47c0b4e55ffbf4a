----------------------------- MODULE RateLimiter -----------------------------
(***************************************************************************)
(* AsyncRateLimiter (crawler/rate_limiter.py): the tasks of one event loop *)
(* that want to send a request, one at a time in acquire(), because its    *)
(* lock is held while it sleeps.                                           *)
(*                                                                         *)
(* Time is counted in ticks of the clock.  The event loop may end a sleep  *)
(* a little early: it calls what is due within its clock's resolution.     *)
(*                                                                         *)
(* Definitions whose names begin with Bug are the mistakes somebody could  *)
(* have made in the definition that follows them; no action uses them.     *)
(***************************************************************************)
EXTENDS Integers, Sequences

CONSTANTS
    Interval,       \* 1 / requests_per_second
    Early,          \* by how much a sleep may end early
    MaxTime,        \* bound: the time
    MaxGrants       \* bound: requests

VARIABLES
    now,            \* time.monotonic()
    nextAllowed,    \* _next_allowed
    sleeping,       \* the task that has the lock is asleep
    grants          \* history: the times at which acquire() returned

vars == <<now, nextAllowed, sleeping, grants>>

Init ==
    /\ now \in 0 .. MaxTime
    /\ nextAllowed = 0
    /\ sleeping = FALSE
    /\ grants = <<>>

Tick ==
    /\ now < MaxTime
    /\ now' = now + 1
    /\ UNCHANGED <<nextAllowed, sleeping, grants>>

BugLater == nextAllowed

\* max(self._next_allowed, now)
Later == IF nextAllowed > now THEN nextAllowed ELSE now

\* acquire() ends: the next request is due an interval after this one was, or
\* after now if it comes late.
Grant ==
    /\ Len(grants) < MaxGrants
    /\ nextAllowed' = Later + Interval
    /\ sleeping' = FALSE
    /\ grants' = Append(grants, now)
    /\ UNCHANGED now

AcquireAtOnce == ~sleeping /\ nextAllowed <= now /\ Grant

AcquireSleeps ==
    /\ ~sleeping /\ nextAllowed > now
    /\ sleeping' = TRUE
    /\ UNCHANGED <<now, nextAllowed, grants>>

\* Nobody else has changed nextAllowed: the lock is held.
WakeUp == sleeping /\ nextAllowed <= now + Early /\ Grant

\* Cancelled in its sleep, by Ctrl-C: the slot is nobody's.
Cancel ==
    /\ sleeping
    /\ sleeping' = FALSE
    /\ UNCHANGED <<now, nextAllowed, grants>>

Next == Tick \/ AcquireAtOnce \/ AcquireSleeps \/ WakeUp \/ Cancel

Spec == Init /\ [][Next]_vars

-----------------------------------------------------------------------------
(* Properties.                                                             *)

TypeOK ==
    /\ now \in Nat /\ nextAllowed \in Nat /\ sleeping \in BOOLEAN
    /\ grants \in Seq(Nat)

\* Any two requests, however many lie between them, are as far apart as the
\* rate demands, but for one early wake-up: earliness does not add up from one
\* request to the next, and a pause is not made up for by a burst.
Spacing ==
    \A i, j \in 1 .. Len(grants) :
        i < j => grants[j] - grants[i] >= (j - i) * Interval - Early
=============================================================================
