-------------------------- MODULE SurroundingsProofs --------------------------
(***************************************************************************)
(* Theorems about the parts around the crawler: for any launchers, first   *)
(* ports and ports of other programs; for every rate, every earliness of   *)
(* the event loop and any number of requests; and for any absolute URLs.   *)
(***************************************************************************)
EXTENDS Surroundings, StatusPageProofs, OrderLemmas, SequenceTheorems

-----------------------------------------------------------------------------
(* Launchers.                                                              *)

LaunchTypes ==
    /\ at \in [Launchers -> Launching!Steps]
    /\ port \in [Launchers -> Nat]

\* Somebody has the port, is about to have it, or has had it.
Covered(p) == p \in foreign \/ \E k \in Launchers : port[k] = p /\ at[k] \in Launching!Alive

\* Where the search for a port has come to.
SearchInv ==
    \A l \in Launchers :
        /\ port[l] >= Start[l]
        /\ at[l] = "gaveUp" => port[l] >= Start[l] + Launching!Tries
        /\ at[l] = "crashed" => port[l] > Highest
        /\ at[l] \in Launching!Alive \cup {"refused"} => port[l] \notin foreign

\* A port that somebody has passed or was refused is covered.
CoverInv ==
    \A l \in Launchers :
        /\ \A p \in Start[l] .. port[l] - 1 : Covered(p)
        /\ at[l] = "refused" => Covered(port[l])

LaunchInv == LaunchTypes /\ SearchInv /\ CoverInv

LEMMA TriesAreNat ==
  Launching!Tries \in Nat
  BY LaunchersAssumption DEF Launching!Tries

\* What is held is covered.
LEMMA HeldIsCovered ==
  ASSUME NEW p, Launching!Held(p)
  PROVE  Covered(p)
  BY DEF Launching!Held, Launching!HeldBy, Covered, Launching!Alive

\* The launcher that steps keeps its port and stays alive, or there is another
\* one that does: what was covered remains so.
LEMMA CoverStays ==
  ASSUME LaunchTypes, NEW l \in Launchers, NEW p, Covered(p), foreign' = foreign,
         \A k \in Launchers : k # l => at'[k] = at[k] /\ port'[k] = port[k],
         \/ at[l] \notin Launching!Alive
         \/ at'[l] \in Launching!Alive /\ port'[l] = port[l]
         \/ ~Launching!HeldBy(l) /\ Launching!Held(port[l])
  PROVE  Covered(p)'
  <1>1. CASE p \in foreign
    BY <1>1 DEF Covered
  <1>2. CASE p \notin foreign
    <2>1. PICK k \in Launchers : port[k] = p /\ at[k] \in Launching!Alive
      BY <1>2 DEF Covered
    <2>2. CASE k # l
      BY <2>1, <2>2 DEF Covered
    <2>3. CASE k = l /\ at'[l] \in Launching!Alive /\ port'[l] = port[l]
      BY <2>1, <2>3 DEF Covered
    <2>4. CASE k = l /\ ~Launching!HeldBy(l) /\ Launching!Held(port[l])
      <3>1. PICK m \in Launchers : Launching!HeldBy(m) /\ port[m] = p
        BY <2>4, <2>1, <1>2 DEF Launching!Held
      <3>2. m # l /\ at[m] \in Launching!Alive
        BY <3>1, <2>4 DEF Launching!HeldBy, Launching!Alive
      <3> QED
        BY <3>1, <3>2 DEF Covered
    <2> QED
      BY <2>1, <2>2, <2>3, <2>4
  <1> QED
    BY <1>1, <1>2

\* A step of launcher l that leaves its port alone, and with which it does not
\* stop being alive unless somebody else holds the port.
LEMMA QuietStep ==
  ASSUME LaunchInv, NEW l \in Launchers, NEW step \in Launching!Steps,
         at' = [at EXCEPT ![l] = step], port' = port, foreign' = foreign,
         \/ at[l] \notin Launching!Alive
         \/ step \in Launching!Alive
         \/ ~Launching!HeldBy(l) /\ Launching!Held(port[l]),
         step = "gaveUp" => port[l] >= Start[l] + Launching!Tries,
         step = "crashed" => port[l] > Highest,
         step \in Launching!Alive \cup {"refused"} => port[l] \notin foreign,
         step = "refused" => Covered(port[l])
  PROVE  LaunchInv'
  <1>1. LaunchTypes'
    BY DEF LaunchInv, LaunchTypes
  <1>2. at'[l] = step /\ \A k \in Launchers : k # l => at'[k] = at[k]
    BY DEF LaunchInv, LaunchTypes
  <1>3. SearchInv'
    BY <1>2 DEF LaunchInv, SearchInv
  <1>4. \A p : Covered(p) => Covered(p)'
    BY <1>2, CoverStays DEF LaunchInv
  <1>5. CoverInv'
    <2> SUFFICES ASSUME NEW k \in Launchers
                 PROVE  /\ \A p \in Start[k] .. port[k] - 1 : Covered(p)'
                        /\ at'[k] = "refused" => Covered(port[k])'
      BY DEF CoverInv, Covered
    <2>1. \A p \in Start[k] .. port[k] - 1 : Covered(p)'
      BY <1>4 DEF LaunchInv, CoverInv
    <2>2. at'[k] = "refused" => Covered(port[k])
      BY <1>2 DEF LaunchInv, CoverInv
    <2> QED
      BY <2>1, <2>2, <1>4
  <1> QED
    BY <1>1, <1>3, <1>5 DEF LaunchInv

\* The launcher turns to the next port.
LEMMA NextPort ==
  ASSUME LaunchInv, NEW l \in Launchers, Launching!ProbeRefused(l)
  PROVE  LaunchInv'
  <1> DEFINE step == IF port[l] + 1 < Start[l] + Launching!Tries THEN "probing" ELSE "gaveUp"
  <1>1. /\ port[l] \in Nat /\ Start[l] \in Nat /\ Launching!Tries \in Nat
        /\ at[l] = "probing" /\ Launching!Held(port[l]) /\ foreign' = foreign
        /\ port' = [port EXCEPT ![l] = port[l] + 1] /\ port'[l] = port[l] + 1
    BY TriesAreNat, LaunchersAssumption DEF Launching!ProbeRefused, LaunchInv, LaunchTypes
  <1>2. at' = [at EXCEPT ![l] = step]
    BY <1>1 DEF Launching!ProbeRefused, Launching!Goto
  <1>3. /\ at'[l] = step
        /\ \A k \in Launchers : k # l => at'[k] = at[k] /\ port'[k] = port[k]
    BY <1>1, <1>2 DEF LaunchInv, LaunchTypes
  <1>4. LaunchTypes'
    BY <1>1, <1>2 DEF LaunchInv, LaunchTypes, Launching!Steps, Launching!Rest, Launching!Alive
  <1>5. SearchInv'
    BY <1>1, <1>3 DEF LaunchInv, SearchInv, Launching!Alive
  <1>6. \A p : Covered(p) => Covered(p)'
    BY <1>1, <1>3, CoverStays DEF LaunchInv, Launching!Alive
  <1>7. CoverInv'
    <2> SUFFICES ASSUME NEW k \in Launchers
                 PROVE  /\ \A p \in Start[k] .. port'[k] - 1 : Covered(p)'
                        /\ at'[k] = "refused" => Covered(port[k])'
      BY DEF CoverInv, Covered
    <2>1. CASE k # l
      <3>1. /\ \A p \in Start[k] .. port[k] - 1 : Covered(p)
            /\ at[k] = "refused" => Covered(port[k])
        BY DEF LaunchInv, CoverInv
      <3>2. at'[k] = "refused" => Covered(port[k])'
        <4> SUFFICES ASSUME at'[k] = "refused" PROVE Covered(port[k])'
          OBVIOUS
        <4>1. PICK p : p = port[k] /\ p = port'[k] /\ Covered(p)'
          BY <3>1, <2>1, <1>3, <1>6
        <4> QED
          BY <4>1 DEF Covered
      <3> QED
        BY <3>1, <3>2, <2>1, <1>3, <1>6
    <2>2. CASE k = l
      <3>0. at'[k] # "refused"
        BY <2>2, <1>3
      <3>1. \A p \in Start[l] .. port[l] - 1 : Covered(p)
        BY DEF LaunchInv, CoverInv
      <3>2. Covered(port[l])
        BY <1>1, HeldIsCovered
      <3>3. \A p \in Start[l] .. port'[l] - 1 : p = port[l] \/ p \in Start[l] .. port[l] - 1
        BY <1>1
      <3> QED
        BY <3>0, <3>1, <3>2, <3>3, <2>2, <1>6
    <2> QED
      BY <2>1, <2>2
  <1> QED
    BY <1>4, <1>5, <1>7 DEF LaunchInv

\* Every step keeps the invariant.
LEMMA LaunchStep ==
  ASSUME LaunchInv, [Launching!Next]_launchVars
  PROVE  LaunchInv'
  <1>1. CASE UNCHANGED launchVars
    BY <1>1 DEF launchVars, LaunchInv, LaunchTypes, SearchInv, CoverInv, Covered
  <1>2. ASSUME NEW l \in Launchers, Launching!ProbeBinds(l) PROVE LaunchInv'
    BY <1>2, QuietStep DEF Launching!ProbeBinds, Launching!Goto, Launching!Held, Launching!Alive, Launching!Steps
  <1>3. ASSUME NEW l \in Launchers, Launching!ProbeRefused(l) PROVE LaunchInv'
    BY <1>3, NextPort
  <1>4. ASSUME NEW l \in Launchers, Launching!ProbeOverflows(l) PROVE LaunchInv'
    BY <1>4, QuietStep DEF Launching!ProbeOverflows, Launching!Goto, Launching!Alive, Launching!Steps, Launching!Rest
  <1>5. ASSUME NEW l \in Launchers, Launching!CloseProbe(l) \/ Launching!Load(l) \/ Launching!Booted(l) \/ Launching!Stop(l)
        PROVE  LaunchInv'
    <2>1. PICK step \in Launching!Alive : at' = [at EXCEPT ![l] = step]
      BY <1>5 DEF Launching!CloseProbe, Launching!Load, Launching!Booted, Launching!Stop, Launching!Goto, Launching!Alive
    <2>2. at[l] \in Launching!Alive /\ port' = port /\ foreign' = foreign
      BY <1>5 DEF Launching!CloseProbe, Launching!Load, Launching!Booted, Launching!Stop, Launching!Alive
    <2>3. port[l] \notin foreign /\ step \in Launching!Steps /\ step \notin {"gaveUp", "crashed", "refused"}
      BY <2>2 DEF LaunchInv, SearchInv, Launching!Alive, Launching!Steps
    <2> QED
      BY <2>1, <2>2, <2>3, QuietStep
  <1>6. ASSUME NEW l \in Launchers, Launching!Bind(l) PROVE LaunchInv'
    <2>1. /\ at[l] = "booted" /\ ~Launching!HeldBy(l) /\ at[l] \in Launching!Alive
          /\ port' = port /\ foreign' = foreign
      BY <1>6 DEF Launching!Bind, Launching!HeldBy, Launching!Alive
    <2>2. port[l] \notin foreign
      BY <2>1 DEF LaunchInv, SearchInv
    <2>3. CASE Launching!Held(port[l])
      <3>1. at' = [at EXCEPT ![l] = "refused"] /\ Covered(port[l])
        BY <1>6, <2>3, HeldIsCovered DEF Launching!Bind, Launching!Goto
      <3> QED
        BY <3>1, <2>1, <2>2, <2>3, QuietStep DEF Launching!Alive, Launching!Steps, Launching!Rest
    <2>4. CASE ~Launching!Held(port[l])
      <3>1. at' = [at EXCEPT ![l] = "serving"]
        BY <1>6, <2>4 DEF Launching!Bind, Launching!Goto
      <3> QED
        BY <3>1, <2>1, <2>2, QuietStep DEF Launching!Alive, Launching!Steps, Launching!Rest
    <2> QED
      BY <2>3, <2>4
  <1>7. ASSUME NEW l \in Launchers, NEW c \in Crawlers,
               Launching!Mark(l, c) \/ Launching!StartCrawl(l, c) \/ Launching!EndCrawl(l, c)
        PROVE  LaunchInv'
    <2>1. at' = at /\ port' = port /\ foreign' = foreign
      BY <1>7 DEF Launching!Mark, Launching!StartCrawl, Launching!EndCrawl
    <2> QED
      BY <2>1 DEF LaunchInv, LaunchTypes, SearchInv, CoverInv, Covered
  <1> QED
    BY <1>1, <1>2, <1>3, <1>4, <1>5, <1>6, <1>7 DEF Launching!Next, Launching!Launch

\* When nobody moves any more, a port that is covered and not another program's
\* is that of a server.
LEMMA RestServes ==
  ASSUME LaunchInv
  PROVE  Launching!SomebodyServes
  <1> SUFFICES ASSUME \A l \in Launchers : at[l] \in Launching!Rest,
                      NEW l \in Launchers, ~(Launching!Tried(l) \subseteq foreign)
               PROVE  \E k \in Launchers : at[k] \in {"serving", "stopped"}
    BY DEF Launching!SomebodyServes
  <1>1. \A p : Covered(p) /\ p \notin foreign =>
                   \E k \in Launchers : at[k] \in {"serving", "stopped"}
    BY DEF Covered, Launching!Alive, Launching!Rest
  <1>2. PICK p \in Launching!Tried(l) : p \notin foreign
    OBVIOUS
  <1>3. /\ port[l] \in Nat /\ Start[l] \in Nat /\ Launching!Tries \in Nat /\ Highest \in Nat
        /\ p \in Start[l] .. Start[l] + Launching!Tries - 1 /\ p <= Highest
    BY TriesAreNat, LaunchersAssumption DEF LaunchInv, LaunchTypes, Launching!Tried
  <1>4. CASE at[l] \in {"serving", "stopped"}
    BY <1>4
  <1>5. CASE at[l] \in {"gaveUp", "crashed"}
    <2>1. p \in Start[l] .. port[l] - 1
      BY <1>3, <1>5 DEF LaunchInv, SearchInv
    <2> QED
      BY <2>1, <1>1, <1>2 DEF LaunchInv, CoverInv
  <1>6. CASE at[l] = "refused"
    BY <1>6, <1>1 DEF LaunchInv, CoverInv, SearchInv
  <1> QED
    BY <1>4, <1>5, <1>6 DEF Launching!Rest

LEMMA LaunchTypeStep ==
  ASSUME Launching!TypeOK, [Launching!Next]_launchVars
  PROVE  Launching!TypeOK'
  <1> USE DEF Launching!TypeOK, Launching!Goto, Launching!Steps, Launching!Rest, Launching!Alive
  <1>1. CASE UNCHANGED launchVars
    BY <1>1 DEF launchVars
  <1>2. ASSUME NEW l \in Launchers,
               \/ Launching!ProbeBinds(l) \/ Launching!ProbeOverflows(l)
               \/ Launching!CloseProbe(l) \/ Launching!Booted(l) \/ Launching!Stop(l)
        PROVE  Launching!TypeOK'
    BY <1>2 DEF Launching!ProbeBinds, Launching!ProbeOverflows, Launching!CloseProbe,
                Launching!Booted, Launching!Stop
  <1>3. ASSUME NEW l \in Launchers, Launching!ProbeRefused(l) PROVE Launching!TypeOK'
    <2>1. port' \in [Launchers -> Nat]
      BY <1>3 DEF Launching!ProbeRefused
    <2>2. at' \in [Launchers -> Launching!Steps]
      BY <1>3 DEF Launching!ProbeRefused
    <2> QED
      BY <1>3, <2>1, <2>2 DEF Launching!ProbeRefused
  <1>4. ASSUME NEW l \in Launchers, Launching!Bind(l) PROVE Launching!TypeOK'
    BY <1>4 DEF Launching!Bind
  <1>5. ASSUME NEW l \in Launchers, Launching!Load(l) PROVE Launching!TypeOK'
    BY <1>5 DEF Launching!Load
  <1>6. ASSUME NEW l \in Launchers, NEW c \in Crawlers,
               Launching!Mark(l, c) \/ Launching!StartCrawl(l, c) \/ Launching!EndCrawl(l, c)
        PROVE  Launching!TypeOK'
    <2>1. CASE Launching!Mark(l, c)
      BY <2>1 DEF Launching!Mark
    <2>2. CASE Launching!StartCrawl(l, c) \/ Launching!EndCrawl(l, c)
      <3>1. PICK state \in {"running", "ended"} :
               /\ registered' = [registered EXCEPT ![l] = [registered[l] EXCEPT ![c] = state]]
               /\ rows' = [rows EXCEPT ![c] = state]
               /\ UNCHANGED <<at, port, foreign, found>>
        BY <2>2 DEF Launching!StartCrawl, Launching!EndCrawl
      <3> QED
        BY <3>1
    <2> QED
      BY <1>6, <2>1, <2>2
  <1> QED
    BY <1>1, <1>2, <1>3, <1>4, <1>5, <1>6 DEF Launching!Next, Launching!Launch

LEMMA LaunchInit ==
  ASSUME Launching!Init
  PROVE  Launching!TypeOK /\ LaunchInv
  <1>1. \A l \in Launchers :
           at[l] = "probing" /\ port[l] = Start[l] /\ Start[l] \in Nat
    BY LaunchersAssumption DEF Launching!Init
  <1>2. Launching!TypeOK
    BY LaunchersAssumption DEF Launching!Init, Launching!TypeOK, Launching!Steps
  <1>3. SearchInv
    <2> SUFFICES ASSUME NEW l \in Launchers
                 PROVE  /\ port[l] >= Start[l]
                        /\ at[l] \notin {"gaveUp", "crashed", "refused"}
                        /\ at[l] \notin Launching!Alive
      BY DEF SearchInv
    <2>1. at[l] = "probing" /\ port[l] = Start[l] /\ Start[l] \in Nat
      BY <1>1
    <2>2. at[l] \notin {"gaveUp", "crashed", "refused"} /\ at[l] \notin Launching!Alive
      BY <2>1 DEF Launching!Alive
    <2> QED
      BY <2>1, <2>2
  <1>4. CoverInv
    <2> SUFFICES ASSUME NEW l \in Launchers
                 PROVE  Start[l] .. port[l] - 1 = {} /\ at[l] # "refused"
      BY DEF CoverInv
    <2> QED
      BY <1>1
  <1> QED
    BY <1>2, <1>3, <1>4 DEF LaunchInv, LaunchTypes, Launching!TypeOK

-----------------------------------------------------------------------------
(* The rate limiter.                                                       *)

\* What is due next is an interval away from the latest request, two from the
\* one before, and so on.
SlotsInv ==
    \A i \in 1 .. Len(grants) :
        nextAllowed >= grants[i] + (Len(grants) + 1 - i) * Interval

LimiterInv == Limiting!TypeOK /\ SlotsInv /\ Limiting!Spacing

\* One more slot is one more interval.
LEMMA OneMore ==
  ASSUME NEW n \in Int, NEW d \in Int
  PROVE  (n + 1) * d = n * d + d
  OBVIOUS

\* A grant: the request that ends its turn now keeps its distance from all the
\* earlier ones, and moves the next slot by an interval.
LEMMA GrantKeeps ==
  ASSUME LimiterInv, Limiting!Grant, nextAllowed <= now + Early
  PROVE  LimiterInv'
  <1> DEFINE n == Len(grants)
  <1>1. /\ now \in Nat /\ nextAllowed \in Nat /\ grants \in Seq(Nat)
        /\ Interval \in Nat /\ Early \in Nat
    BY RateAssumption DEF LimiterInv, Limiting!TypeOK
  <1>2. /\ now' = now /\ sleeping' = FALSE /\ grants' = Append(grants, now)
        /\ nextAllowed' \in Nat
        /\ nextAllowed' >= nextAllowed + Interval /\ nextAllowed' >= now + Interval
    BY <1>1 DEF Limiting!Grant, Limiting!Later
  <1>3. /\ n \in Nat /\ Len(grants') = n + 1 /\ grants'[n + 1] = now
        /\ \A i \in 1 .. n : grants'[i] = grants[i] /\ grants[i] \in Nat
    BY <1>1, <1>2
  <1>4. Limiting!TypeOK'
    <2>1. Append(grants, now) \in Seq(Nat)
      BY <1>1
    <2> QED
      BY <2>1, <1>1, <1>2 DEF Limiting!TypeOK
  <1>5. SlotsInv'
    <2> SUFFICES ASSUME NEW i \in 1 .. n + 1
                 PROVE  nextAllowed' >= grants'[i] + ((n + 1) + 1 - i) * Interval
      BY <1>3 DEF SlotsInv
    <2>1. CASE i = n + 1
      <3>1. ((n + 1) + 1 - i) * Interval = Interval
        BY <2>1, <1>1, <1>3
      <3> QED
        BY <3>1, <2>1, <1>1, <1>2, <1>3
    <2>2. CASE i # n + 1
      <3>1. i \in 1 .. n /\ n + 1 - i \in Int
        BY <2>2, <1>3
      <3>2. nextAllowed >= grants[i] + (n + 1 - i) * Interval
        BY <3>1 DEF LimiterInv, SlotsInv
      <3>3. ((n + 1 - i) + 1) * Interval = (n + 1 - i) * Interval + Interval
        BY <3>1, <1>1, OneMore
      <3>4. (n + 1) + 1 - i = (n + 1 - i) + 1
        BY <3>1, <1>3
      <3>5. (n + 1 - i) * Interval \in Int
        BY <3>1, <1>1
      <3> HIDE DEF n
      <3> QED
        BY <3>1, <3>2, <3>3, <3>4, <3>5, <1>1, <1>2, <1>3
    <2> QED
      BY <2>1, <2>2
  <1>6. Limiting!Spacing'
    <2> SUFFICES ASSUME NEW i \in 1 .. n + 1, NEW j \in 1 .. n + 1, i < j
                 PROVE  grants'[j] - grants'[i] >= (j - i) * Interval - Early
      BY <1>3 DEF Limiting!Spacing
    <2>1. i \in 1 .. n
      BY <1>3
    <2>2. CASE j = n + 1
      <3>1. nextAllowed >= grants[i] + (j - i) * Interval
        BY <2>1, <2>2 DEF LimiterInv, SlotsInv
      <3>2. (j - i) * Interval \in Int
        BY <2>1, <1>1
      <3> HIDE DEF n
      <3> QED
        BY <3>1, <3>2, <2>1, <2>2, <1>1, <1>3
    <2>3. CASE j # n + 1
      <3>1. j \in 1 .. n
        BY <2>3, <1>3
      <3> QED
        BY <3>1, <2>1, <1>3 DEF LimiterInv, Limiting!Spacing
    <2> QED
      BY <2>2, <2>3
  <1> QED
    BY <1>4, <1>5, <1>6 DEF LimiterInv

\* Every step keeps the invariant.
LEMMA LimitStep ==
  ASSUME LimiterInv, [Limiting!Next]_limitVars
  PROVE  LimiterInv'
  <1> USE DEF LimiterInv, Limiting!TypeOK, SlotsInv, Limiting!Spacing
  <1>1. CASE Limiting!Tick
    BY <1>1 DEF Limiting!Tick
  <1>2. CASE Limiting!AcquireAtOnce
    <2>1. nextAllowed <= now + Early
      BY <1>2, RateAssumption DEF Limiting!AcquireAtOnce
    <2> QED
      BY <2>1, <1>2, GrantKeeps DEF Limiting!AcquireAtOnce
  <1>3. CASE Limiting!AcquireSleeps
    BY <1>3 DEF Limiting!AcquireSleeps
  <1>4. CASE Limiting!WakeUp
    BY <1>4, GrantKeeps DEF Limiting!WakeUp
  <1>5. CASE Limiting!Cancel
    BY <1>5 DEF Limiting!Cancel
  <1>6. CASE UNCHANGED limitVars
    BY <1>6 DEF limitVars
  <1> QED
    BY <1>1, <1>2, <1>3, <1>4, <1>5, <1>6 DEF Limiting!Next

LEMMA LimitInit ==
  ASSUME Limiting!Init
  PROVE  LimiterInv
  <1>1. grants = <<>> /\ Len(grants) = 0 /\ grants \in Seq(Nat)
    BY DEF Limiting!Init
  <1>2. now \in Nat /\ nextAllowed \in Nat
    BY RateAssumption DEF Limiting!Init
  <1>3. sleeping \in BOOLEAN
    BY DEF Limiting!Init
  <1> QED
    BY <1>1, <1>2, <1>3 DEF LimiterInv, SlotsInv, Limiting!TypeOK, Limiting!Spacing
-----------------------------------------------------------------------------
(* Paths of URLs: normalize_url takes away what is Empty at the end and one *)
(* semicolon, if it comes last.                                            *)

\* A path goes on with empty segments for ever.
SegmentAt(path, i) == IF i \in DOMAIN path THEN path[i] ELSE Intake!Empty

Bare(segment) == [name |-> segment.name, params |-> 0]

Stripped(path) == Intake!WithoutSlashes(Intake!WithoutParams(path))

\* No slash at the end that could go.
EndsWell(path) == path = <<Intake!Empty>> \/ (path # <<>> /\ path[Len(path)] # Intake!Empty)

LEMMA WithoutParamsIs ==
  ASSUME NEW path \in Seq(Intake!Segment)
  PROVE  LET w == Intake!WithoutParams(path) IN
         /\ w \in Seq(Intake!Segment) /\ Len(w) = Len(path)
         /\ \A i \in 1 .. Len(path) : w[i] = IF i = Len(path) THEN Bare(path[i]) ELSE path[i]
  <1> DEFINE w == Intake!WithoutParams(path)
             n == Len(path)
  <1>1. n \in Nat /\ \A i \in 1 .. n : path[i] \in Intake!Segment
    OBVIOUS
  <1>2. CASE path = <<>>
    BY <1>2 DEF Intake!WithoutParams
  <1>3. CASE path # <<>>
    <2>1. n \in 1 .. n
      BY <1>1, <1>3
    <2>2. w = [path EXCEPT ![n] = [path[n] EXCEPT !.params = 0]]
      BY <1>3 DEF Intake!WithoutParams
    <2>3. [path[n] EXCEPT !.params = 0] = Bare(path[n]) /\ Bare(path[n]) \in Intake!Segment
      BY <1>1, <2>1 DEF Intake!Segment, Bare
    <2>4. w = [path EXCEPT ![n] = Bare(path[n])]
      BY <2>2, <2>3
    <2> HIDE DEF w
    <2>5. w \in Seq(Intake!Segment) /\ Len(w) = n
      BY <2>1, <2>3, <2>4
    <2>6. \A i \in 1 .. n : w[i] = IF i = n THEN Bare(path[i]) ELSE path[i]
      BY <2>1, <2>4
    <2> QED
      BY <2>5, <2>6 DEF w
  <1> QED
    BY <1>2, <1>3

\* What path.rstrip("/") or "/" leaves of a path.
LEMMA StrippedIs ==
  ASSUME NEW path \in Seq(Intake!Segment)
  PROVE  LET w == Stripped(path) IN
         /\ w \in Seq(Intake!Segment) /\ EndsWell(w) /\ Len(w) \in Nat \ {0}
         /\ \A i \in Nat \ {0} :
               SegmentAt(w, i) = IF i = Len(path) THEN Bare(path[i]) ELSE SegmentAt(path, i)
  <1> DEFINE p == Intake!WithoutParams(path)
             n == Len(path)
             filled == {i \in DOMAIN p : p[i] # Intake!Empty}
             w == Stripped(path)
  <1>1. /\ p \in Seq(Intake!Segment) /\ Len(p) = n /\ n \in Nat
        /\ \A i \in 1 .. n : p[i] = IF i = n THEN Bare(path[i]) ELSE path[i]
        /\ DOMAIN p = 1 .. n /\ DOMAIN path = 1 .. n
    BY WithoutParamsIs
  <1> HIDE DEF p
  <1> HIDE DEF n
  <1>2. ASSUME NEW i \in Nat \ {0}
        PROVE  SegmentAt(p, i) = IF i = n THEN Bare(path[i]) ELSE SegmentAt(path, i)
    <2>1. CASE i \in 1 .. n
      <3>1. SegmentAt(p, i) = p[i] /\ SegmentAt(path, i) = path[i]
        BY <1>1, <2>1 DEF SegmentAt
      <3> QED
        BY <1>1, <2>1, <3>1
    <2>2. CASE i \notin 1 .. n
      <3>1. i # n /\ i \notin DOMAIN p /\ i \notin DOMAIN path
        BY <1>1, <2>2
      <3> QED
        BY <3>1 DEF SegmentAt
    <2> QED
      BY <2>1, <2>2
  <1>3. w = IF filled = {} THEN <<Intake!Empty>>
            ELSE SubSeq(p, 1, CHOOSE i \in filled : \A j \in filled : j <= i)
    BY DEF Stripped, Intake!WithoutSlashes, p
  <1>4. CASE filled = {}
    <2>1. w = <<Intake!Empty>> /\ Intake!Empty \in Intake!Segment
      BY <1>3, <1>4 DEF Intake!Empty, Intake!Segment
    <2>2. \A i \in Nat \ {0} : SegmentAt(p, i) = Intake!Empty
      BY <1>1, <1>4 DEF SegmentAt
    <2> HIDE DEF w
    <2>3. Len(w) = 1 /\ w[1] = Intake!Empty /\ DOMAIN w = {1}
      BY <2>1
    <2>4. \A i \in Nat \ {0} : SegmentAt(w, i) = Intake!Empty
      BY <2>3 DEF SegmentAt
    <2>5. w \in Seq(Intake!Segment) /\ EndsWell(w)
      BY <2>1 DEF EndsWell
    <2>6. \A i \in Nat \ {0} :
             SegmentAt(w, i) = IF i = n THEN Bare(path[i]) ELSE SegmentAt(path, i)
      BY <1>2, <2>2, <2>4
    <2> QED
      BY <2>3, <2>5, <2>6 DEF w, n
  <1>5. CASE filled # {}
    <2>0. \E i \in filled : \A j \in filled : j <= i
      BY <1>1, <1>5, Greatest
    <2>1. PICK m \in filled : m = CHOOSE i \in filled : \A j \in filled : j <= i
      BY <2>0
    <2>2. \A j \in filled : j <= m
      BY <2>0, <2>1
    <2>3. m \in 1 .. n /\ w = SubSeq(p, 1, m) /\ p[m] # Intake!Empty
      BY <1>1, <1>3, <1>5, <2>1
    <2> HIDE DEF w
    <2>4. /\ w \in Seq(Intake!Segment) /\ Len(w) = m /\ DOMAIN w = 1 .. m
          /\ \A i \in 1 .. m : w[i] = p[i]
      <3>1. m \in Int /\ 1 \in Int /\ m >= 1 /\ \A i \in 1 .. m : p[i] \in Intake!Segment
        BY <1>1, <2>3
      <3>2. /\ SubSeq(p, 1, m) \in Seq(Intake!Segment)
            /\ Len(SubSeq(p, 1, m)) = IF 1 <= m THEN m - 1 + 1 ELSE 0
            /\ \A i \in 1 .. m - 1 + 1 : SubSeq(p, 1, m)[i] = p[1 + i - 1]
        BY <3>1, SubSeqProperties
      <3> QED
        BY <2>3, <3>1, <3>2
    <2>5. ASSUME NEW i \in Nat \ {0} PROVE SegmentAt(w, i) = SegmentAt(p, i)
      <3>1. CASE i \in 1 .. m
        <4>1. i \in DOMAIN w /\ i \in DOMAIN p /\ w[i] = p[i]
          BY <1>1, <2>3, <2>4, <3>1
        <4> QED
          BY <4>1 DEF SegmentAt
      <3>2. CASE i \notin 1 .. m
        <4>1. i \notin filled
          BY <2>2, <2>3, <3>2
        <4>2. SegmentAt(p, i) = Intake!Empty
          BY <4>1 DEF SegmentAt
        <4> QED
          BY <2>4, <3>2, <4>2 DEF SegmentAt
      <3> QED
        BY <3>1, <3>2
    <2>6. EndsWell(w)
      <3>1. w # <<>> /\ w[Len(w)] # Intake!Empty
        BY <2>3, <2>4
      <3> QED
        BY <3>1 DEF EndsWell
    <2>7. \A i \in Nat \ {0} :
             SegmentAt(w, i) = IF i = n THEN Bare(path[i]) ELSE SegmentAt(path, i)
      BY <1>2, <2>5
    <2> QED
      BY <2>3, <2>4, <2>6, <2>7 DEF w, n
  <1> QED
    BY <1>4, <1>5

\* Where a path ends is part of it.
LEMMA EndedAlike ==
  ASSUME NEW v \in Seq(Intake!Segment), NEW w \in Seq(Intake!Segment), EndsWell(v), EndsWell(w),
         \A i \in Nat \ {0} : SegmentAt(v, i) = SegmentAt(w, i)
  PROVE  v = w
  <1>1. /\ Len(v) \in Nat \ {0} /\ DOMAIN v = 1 .. Len(v)
        /\ Len(w) \in Nat \ {0} /\ DOMAIN w = 1 .. Len(w)
    <2>1. ASSUME NEW a \in Seq(Intake!Segment), EndsWell(a)
          PROVE  Len(a) \in Nat \ {0} /\ DOMAIN a = 1 .. Len(a)
      <3>0. <<Intake!Empty>> # <<>>
        <4>1. Len(<<Intake!Empty>>) = 1 /\ Len(<<>>) = 0
          OBVIOUS
        <4> QED
          BY <4>1
      <3>1. a # <<>>
        BY <2>1, <3>0 DEF EndsWell
      <3> QED
        BY <3>1, EmptySeq
    <2> QED
      BY <2>1
  <1>2. ASSUME NEW a \in Seq(Intake!Segment), NEW b \in Seq(Intake!Segment), EndsWell(b),
               Len(a) \in Nat \ {0}, Len(a) < Len(b),
               \A i \in Nat \ {0} : SegmentAt(a, i) = SegmentAt(b, i)
        PROVE  FALSE
    <2>1. DOMAIN a = 1 .. Len(a) /\ Len(b) \in DOMAIN b /\ Len(b) \in Nat \ {0} /\ Len(b) > 1
      BY <1>2
    <2>2. b[Len(b)] # Intake!Empty
      BY <1>2, <2>1 DEF EndsWell
    <2>3. SegmentAt(a, Len(b)) = Intake!Empty /\ SegmentAt(b, Len(b)) = b[Len(b)]
      BY <1>2, <2>1 DEF SegmentAt
    <2> QED
      BY <1>2, <2>1, <2>2, <2>3
  <1>3. Len(v) = Len(w)
    <2>1. ~(Len(v) < Len(w))
      BY <1>1, <1>2
    <2>2. ~(Len(w) < Len(v))
      BY <1>1, <1>2
    <2>3. \A m, n \in Nat : ~(m < n) /\ ~(n < m) => m = n
      OBVIOUS
    <2>4. Len(v) \in Nat /\ Len(w) \in Nat
      BY <1>1
    <2> QED
      BY <2>1, <2>2, <2>3, <2>4
  <1>4. \A i \in 1 .. Len(v) : v[i] = w[i]
    <2> SUFFICES ASSUME NEW i \in 1 .. Len(v) PROVE v[i] = w[i]
      OBVIOUS
    <2>1. SegmentAt(v, i) = v[i] /\ SegmentAt(w, i) = w[i] /\ i \in Nat \ {0}
      BY <1>1, <1>3 DEF SegmentAt
    <2> QED
      BY <2>1
  <1> QED
    BY <1>3, <1>4, SeqEqual

\* The names of a path, and of the semicolons after the last of them those that
\* are left, position by position.
LEMMA ReadOff ==
  ASSUME NEW p \in Seq(Intake!Segment)
  PROVE  /\ \A i \in Nat \ {0} :
               /\ i \in Intake!Names(p) <=> SegmentAt(p, i).name # 0
               /\ i \in Intake!Leftover(p) <=>
                     SegmentAt(p, i).params # 0 /\ \A j \in Intake!Names(p) : j <= i
         /\ Intake!Names(p) \subseteq 1 .. Len(p) /\ Intake!Leftover(p) \subseteq 1 .. Len(p)
         /\ \A i \in 1 .. Len(p) : SegmentAt(p, i) = p[i]
         /\ Len(p) \in Nat /\ DOMAIN p = 1 .. Len(p) /\ 1 .. Len(p) \subseteq Nat \ {0}
  BY DEF Intake!Names, Intake!Leftover, SegmentAt, Intake!Empty

\* A stripped path is the same path, with fewer semicolons left.
LEMMA StrippedFits ==
  ASSUME NEW p \in Seq(Intake!Segment)
  PROVE  /\ Stripped(p) \in Seq(Intake!Segment)
         /\ Intake!SamePath(Stripped(p), p)
         /\ Intake!Leftover(Stripped(p)) \subseteq Intake!Leftover(p)
         /\ Len(p) \notin Intake!Leftover(Stripped(p))
  <1>1. PICK w : w = Stripped(p)
    OBVIOUS
  <1>2. /\ w \in Seq(Intake!Segment)
        /\ \A i \in Nat \ {0} :
              SegmentAt(w, i) = IF i = Len(p) THEN Bare(p[i]) ELSE SegmentAt(p, i)
    BY <1>1, StrippedIs
  <1>3. \A i \in Nat \ {0} : SegmentAt(w, i).name = SegmentAt(p, i).name
    BY <1>2, ReadOff DEF Bare
  <1>4. Intake!Names(w) = Intake!Names(p)
    <2>1. \A i \in Nat \ {0} : i \in Intake!Names(w) <=> i \in Intake!Names(p)
      BY <1>2, <1>3, ReadOff
    <2>2. Intake!Names(w) \subseteq Nat \ {0} /\ Intake!Names(p) \subseteq Nat \ {0}
      BY <1>2, ReadOff
    <2> QED
      BY <2>1, <2>2
  <1>5. ASSUME NEW i \in Intake!Names(w)
        PROVE  /\ w[i].name = p[i].name
               /\ \A j \in 1 .. i - 1 : w[j].params = p[j].params
    <2>1. i \in 1 .. Len(p) /\ i \in 1 .. Len(w) /\ Len(p) \in Nat /\ Len(w) \in Nat
      BY <1>2, <1>4, ReadOff
    <2>2. w[i].name = p[i].name
      BY <1>2, <1>3, <2>1, ReadOff
    <2>3. ASSUME NEW j \in 1 .. i - 1 PROVE w[j].params = p[j].params
      <3>1. j \in 1 .. Len(p) /\ j \in 1 .. Len(w) /\ j # Len(p)
        BY <2>1
      <3> QED
        BY <1>2, <3>1, ReadOff
    <2> QED
      BY <2>2, <2>3
  <1>6. Intake!SamePath(w, p)
    BY <1>4, <1>5 DEF Intake!SamePath
  <1>7. ASSUME NEW i \in Intake!Leftover(w) PROVE i \in Intake!Leftover(p) /\ i # Len(p)
    <2>1. i \in Nat \ {0} /\ SegmentAt(w, i).params # 0 /\ \A j \in Intake!Names(p) : j <= i
      BY <1>2, <1>4, ReadOff
    <2>2. i # Len(p)
      BY <1>2, <2>1 DEF Bare
    <2>3. SegmentAt(p, i).params # 0
      BY <1>2, <2>1, <2>2
    <2> QED
      BY <2>1, <2>2, <2>3, ReadOff
  <1> QED
    BY <1>1, <1>2, <1>6, <1>7

\* A path that ends as it should stays as it is.
LEMMA StaysStripped ==
  ASSUME NEW p \in Seq(Intake!Segment), EndsWell(p), p[Len(p)].params = 0
  PROVE  Stripped(p) = p
  <1>1. PICK w : w = Stripped(p)
    OBVIOUS
  <1>2. /\ w \in Seq(Intake!Segment) /\ EndsWell(w)
        /\ \A i \in Nat \ {0} :
              SegmentAt(w, i) = IF i = Len(p) THEN Bare(p[i]) ELSE SegmentAt(p, i)
    BY <1>1, StrippedIs
  <1>3. Len(p) \in 1 .. Len(p) /\ p[Len(p)] \in Intake!Segment
    BY DEF EndsWell
  <1>4. Bare(p[Len(p)]) = SegmentAt(p, Len(p))
    BY <1>3, ReadOff DEF Bare, Intake!Segment
  <1>5. \A i \in Nat \ {0} : SegmentAt(w, i) = SegmentAt(p, i)
    BY <1>2, <1>4
  <1>6. w = p
    BY <1>2, <1>5, EndedAlike
  <1> QED
    BY <1>1, <1>6

\* And one that stays as it is ends so.
LEMMA EndsStripped ==
  ASSUME NEW p \in Seq(Intake!Segment), Stripped(p) = p
  PROVE  /\ Len(p) \in 1 .. Len(p) /\ p[Len(p)].params = 0
         /\ p = <<Intake!Empty>> \/ Len(p) \in Intake!Names(p)
  <1>1. /\ EndsWell(p) /\ Len(p) \in Nat \ {0}
        /\ SegmentAt(p, Len(p)) = Bare(p[Len(p)])
    BY StrippedIs
  <1>2. p[Len(p)] = Bare(p[Len(p)]) /\ Len(p) \in 1 .. Len(p)
    BY <1>1, ReadOff
  <1>3. p[Len(p)].params = 0
    BY <1>2 DEF Bare
  <1>4. ASSUME p # <<Intake!Empty>> PROVE Len(p) \in Intake!Names(p)
    <2>1. p[Len(p)].name # 0
      BY <1>1, <1>2, <1>4 DEF EndsWell, Bare, Intake!Empty
    <2> QED
      BY <1>2, <2>1 DEF Intake!Names
  <1> QED
    BY <1>2, <1>3, <1>4

\* With one semicolon after the last name, twice is enough.
LEMMA TwiceIsEnough ==
  ASSUME NEW p \in Seq(Intake!Segment),
         \A i, j \in Intake!Leftover(p) : i = j
  PROVE  Stripped(Stripped(Stripped(p))) = Stripped(Stripped(p))
  <1>1. PICK w : w = Stripped(p)
    OBVIOUS
  <1>2. /\ w \in Seq(Intake!Segment) /\ EndsWell(w) /\ Len(w) \in Nat \ {0}
        /\ Intake!Leftover(w) \subseteq Intake!Leftover(p)
    BY <1>1, StrippedIs, StrippedFits
  <1>3. CASE w[Len(w)].params = 0
    BY <1>1, <1>2, <1>3, StaysStripped
  <1>4. CASE w[Len(w)].params # 0
    <2>1. Len(w) \in Intake!Leftover(w)
      BY <1>2, <1>4, ReadOff DEF Intake!Leftover
    <2>2. PICK r : r = Stripped(w)
      OBVIOUS
    <2>3. /\ r \in Seq(Intake!Segment) /\ EndsWell(r) /\ Len(r) \in Nat \ {0}
          /\ Intake!Leftover(r) \subseteq Intake!Leftover(w) /\ Len(w) \notin Intake!Leftover(r)
      BY <1>2, <2>2, StrippedIs, StrippedFits
    <2>4. Intake!Leftover(r) = {}
      BY <1>2, <2>1, <2>3
    <2>5. r[Len(r)].params = 0
      BY <2>3, <2>4, ReadOff DEF Intake!Leftover
    <2>6. Stripped(r) = r
      BY <2>3, <2>5, StaysStripped
    <2> QED
      BY <1>1, <2>2, <2>6
  <1> QED
    BY <1>3, <1>4

\* Of all forms of a path one stays as it is.
LEMMA StrippedAlike ==
  ASSUME NEW p \in Seq(Intake!Segment), NEW q \in Seq(Intake!Segment),
         Stripped(p) = p, Stripped(q) = q, Intake!SamePath(p, q)
  PROVE  p = q
  <1>1. /\ Len(p) \in 1 .. Len(p) /\ p[Len(p)].params = 0
        /\ p = <<Intake!Empty>> \/ Len(p) \in Intake!Names(p)
    BY EndsStripped
  <1>2. /\ Len(q) \in 1 .. Len(q) /\ q[Len(q)].params = 0
        /\ q = <<Intake!Empty>> \/ Len(q) \in Intake!Names(q)
    BY EndsStripped
  <1>3. /\ Intake!Names(p) = Intake!Names(q)
        /\ \A i \in Intake!Names(p) :
              /\ p[i].name = q[i].name
              /\ \A j \in 1 .. i - 1 : p[j].params = q[j].params
    BY DEF Intake!SamePath
  <1>4. /\ Intake!Names(p) \subseteq 1 .. Len(p) /\ Intake!Names(q) \subseteq 1 .. Len(q)
        /\ Len(p) \in Nat /\ Len(q) \in Nat
        /\ \A i \in 1 .. Len(p) : p[i] \in Intake!Segment
        /\ \A i \in 1 .. Len(q) : q[i] \in Intake!Segment
    BY ReadOff
  <1>5. CASE Intake!Names(p) = {}
    BY <1>1, <1>2, <1>3, <1>5
  <1>6. CASE Intake!Names(p) # {}
    <2>1. Intake!Names(<<Intake!Empty>>) = {}
      BY DEF Intake!Names, Intake!Empty
    <2>2. Len(p) \in Intake!Names(p) /\ Len(q) \in Intake!Names(p)
      BY <1>1, <1>2, <1>3, <1>6, <2>1
    <2>3. Len(p) = Len(q)
      BY <1>3, <1>4, <2>2
    <2>4. ASSUME NEW i \in 1 .. Len(p) PROVE p[i] = q[i]
      <3>1. p[i] \in Intake!Segment /\ q[i] \in Intake!Segment
        BY <1>4, <2>3
      <3>2. p[i].name = q[i].name
        <4>1. CASE i \in Intake!Names(p)
          BY <1>3, <4>1
        <4>2. CASE i \notin Intake!Names(p)
          BY <1>3, <1>4, <2>3, <4>2 DEF Intake!Names
        <4> QED
          BY <4>1, <4>2
      <3>3. p[i].params = q[i].params
        <4>1. CASE i = Len(p)
          BY <1>1, <1>2, <2>3, <4>1
        <4>2. CASE i # Len(p)
          <5>1. i \in 1 .. Len(p) - 1
            BY <1>4, <4>2
          <5> QED
            BY <1>3, <2>2, <5>1
        <4> QED
          BY <4>1, <4>2
      <3>4. \A a, b \in Intake!Segment : a.name = b.name /\ a.params = b.params => a = b
        <4>1. \A a \in Intake!Segment : a = [name |-> a.name, params |-> a.params]
          BY DEF Intake!Segment
        <4> QED
          BY <4>1
      <3> QED
        BY <3>1, <3>2, <3>3, <3>4
    <2> QED
      BY <2>3, <2>4, SeqEqual
  <1> QED
    BY <1>5, <1>6
-----------------------------------------------------------------------------
(* Queries of URLs: sorting keeps how often each pair occurs, and that is   *)
(* all that decides.                                                       *)

Query == Seq(Nat \X Nat)

\* Pairs in order of key and value.
Sorts(query, s) ==
    /\ \A i, j \in DOMAIN s : i < j => ~Intake!Before(s[j], s[i])
    /\ \A pair \in Intake!Pairs(query) : Intake!Times(s, pair) = Intake!Times(query, pair)

LEMMA BeforeIs ==
  /\ \A p \in Nat \X Nat : ~Intake!Before(p, p)
  /\ \A p, q \in Nat \X Nat : Intake!Before(p, q) => ~Intake!Before(q, p)
  /\ \A p, q \in Nat \X Nat : p # q => Intake!Before(p, q) \/ Intake!Before(q, p)
  /\ \A p, q, r \in Nat \X Nat :
        Intake!Before(p, q) /\ Intake!Before(q, r) => Intake!Before(p, r)
  <1>1. \A p \in Nat \X Nat : p[1] \in Nat /\ p[2] \in Nat /\ p = <<p[1], p[2]>>
    OBVIOUS
  <1>2. \A p, q \in Nat \X Nat : p # q => p[1] # q[1] \/ p[2] # q[2]
    BY <1>1
  <1> QED
    BY <1>1, <1>2 DEF Intake!Before

LEMMA PairsAre ==
  ASSUME NEW q \in Query
  PROVE  /\ Len(q) \in Nat /\ DOMAIN q = 1 .. Len(q)
         /\ \A i \in 1 .. Len(q) : q[i] \in Intake!Pairs(q)
         /\ Intake!Pairs(q) \subseteq Nat \X Nat
  BY DEF Query, Intake!Pairs

\* UrlIntake counts as FiniteSets does.
LEMMA CountsAlike ==
  ASSUME NEW S
  PROVE  Intake!Cardinality(S) = Cardinality(S)
  BY DEF Intake!Cardinality, Cardinality

LEMMA IntervalIsFinite ==
  ASSUME NEW n \in Nat
  PROVE  IsFiniteSet(1 .. n)
  <1>1. 1 \in Int /\ n \in Int
    OBVIOUS
  <1> QED
    BY <1>1, FS_Interval

\* What occurs at all occurs a positive number of times.
LEMMA Occurs ==
  ASSUME NEW q \in Query, NEW pair
  PROVE  /\ Intake!Times(q, pair) \in Nat
         /\ pair \in Intake!Pairs(q) <=> Intake!Times(q, pair) # 0
  <1> DEFINE places == {i \in DOMAIN q : q[i] = pair}
  <1>1. IsFiniteSet(places)
    <2>1. IsFiniteSet(1 .. Len(q))
      BY PairsAre, IntervalIsFinite
    <2>2. places \in SUBSET (1 .. Len(q))
      BY PairsAre
    <2> QED
      BY <2>1, <2>2, FS_Subset
  <1>2. Cardinality(places) \in Nat /\ (Cardinality(places) = 0 <=> places = {})
    BY <1>1, FS_CardinalityType, FS_EmptySet
  <1>3. pair \in Intake!Pairs(q) <=> \E i \in DOMAIN q : q[i] = pair
    BY DEF Intake!Pairs
  <1>4. (\E i \in DOMAIN q : q[i] = pair) <=> places # {}
    OBVIOUS
  <1>5. Intake!Times(q, pair) = Cardinality(places)
    BY CountsAlike DEF Intake!Times
  <1> HIDE DEF places
  <1> QED
    BY <1>2, <1>3, <1>4, <1>5

\* A query can be sorted: by the ranks of its places, in the order of their
\* pairs and, where these are equal, of the places.
LEMMA CanBeSorted ==
  ASSUME NEW q \in Query
  PROVE  \E s \in [DOMAIN q -> Intake!Pairs(q)] : Sorts(q, s)
  <1> DEFINE R == DOMAIN q
             Prior(i, j) == Intake!Before(q[i], q[j]) \/ (q[i] = q[j] /\ i < j)
             b == [i \in R |-> {j \in R : Prior(j, i)}]
             n == Len(q)
  <1>1. n \in Nat /\ R = 1 .. n /\ \A i \in R : q[i] \in Nat \X Nat /\ q[i] \in Intake!Pairs(q)
    BY PairsAre
  <1>2. IsFiniteSet(R) /\ Cardinality(R) = n
    <2>1. IsFiniteSet(1 .. n) /\ Cardinality(1 .. n) = IF 1 > n THEN 0 ELSE n - 1 + 1
      BY <1>1, FS_Interval
    <2> QED
      BY <1>1, <2>1
  <1>3. b \in [R -> SUBSET R] /\ \A i, j \in R : j \in b[i] <=> Prior(j, i)
    OBVIOUS
  <1>4. \A i \in R : ~Prior(i, i)
    BY <1>1, BeforeIs
  <1>5. ASSUME NEW i \in R, NEW j \in R, NEW k \in R, Prior(i, j), Prior(j, k)
        PROVE  Prior(i, k)
    <2>1. i \in Nat /\ j \in Nat /\ k \in Nat
      BY <1>1
    <2> QED
      BY <1>1, <1>5, <2>1, BeforeIs
  <1>6. ASSUME NEW i \in R, NEW j \in R, i # j PROVE Prior(i, j) \/ Prior(j, i)
    <2>1. i \in Nat /\ j \in Nat
      BY <1>1
    <2> QED
      BY <1>1, <1>6, <2>1, BeforeIs
  <1> HIDE DEF b, Prior
  <1>7. /\ \A i \in R : i \notin b[i]
        /\ \A i, j \in R : i # j => i \in b[j] \/ j \in b[i]
    BY <1>3, <1>4, <1>6
  <1>8. ASSUME NEW i \in R, NEW j \in R, j \in b[i] PROVE b[j] \subseteq b[i]
    BY <1>3, <1>5, <1>8
  <1> HIDE DEF R
  <1>9. /\ \A i \in R : Cardinality(b[i]) + 1 \in 1 .. n
        /\ \A i, j \in R : i \in b[j] <=> Cardinality(b[i]) < Cardinality(b[j])
        /\ \A k \in 1 .. n : \E i \in R : Cardinality(b[i]) + 1 = k
    BY <1>2, <1>3, <1>7, <1>8, Ranks
  <1>10. \A i \in R : Cardinality(b[i]) \in Nat
    <2> SUFFICES ASSUME NEW i \in R PROVE Cardinality(b[i]) \in Nat
      OBVIOUS
    <2>1. b[i] \in SUBSET R
      BY <1>3
    <2> QED
      BY <1>2, <2>1, FS_Subset, FS_CardinalityType
  <1> DEFINE from == [k \in 1 .. n |-> CHOOSE i \in R : Cardinality(b[i]) + 1 = k]
             s    == [k \in 1 .. n |-> q[from[k]]]
  <1>11. \A k \in 1 .. n : from[k] \in R /\ Cardinality(b[from[k]]) + 1 = k
    BY <1>9
  <1>12. \A k \in 1 .. n : s[k] = q[from[k]] /\ DOMAIN s = 1 .. n
    OBVIOUS
  <1>13. \A i \in R : \E k \in 1 .. n : from[k] = i
    <2> SUFFICES ASSUME NEW i \in R PROVE \E k \in 1 .. n : from[k] = i
      OBVIOUS
    <2>1. PICK k \in 1 .. n : k = Cardinality(b[i]) + 1
      BY <1>9
    <2>2. from[k] \in R /\ Cardinality(b[from[k]]) + 1 = Cardinality(b[i]) + 1
      BY <1>11, <2>1
    <2>3. Cardinality(b[from[k]]) = Cardinality(b[i])
      BY <1>10, <2>2
    <2>4. from[k] \notin b[i] /\ i \notin b[from[k]]
      BY <1>9, <1>10, <2>2, <2>3
    <2> QED
      BY <1>7, <2>2, <2>4
  <1>14. s \in [1 .. n -> Intake!Pairs(q)]
    <2>1. \A k \in 1 .. n : s[k] \in Intake!Pairs(q)
      BY <1>1, <1>11, <1>12
    <2> QED
      BY <2>1
  <1> HIDE DEF from, s
  <1>15. ASSUME NEW i \in 1 .. n, NEW j \in 1 .. n, i < j PROVE ~Intake!Before(s[j], s[i])
    <2>1. Prior(from[i], from[j])
      <3>1. Cardinality(b[from[i]]) < Cardinality(b[from[j]])
        BY <1>1, <1>10, <1>11, <1>15
      <3> QED
        BY <1>3, <1>9, <1>11, <3>1 DEF R
    <2>2. Intake!Before(q[from[i]], q[from[j]]) \/ q[from[i]] = q[from[j]]
      BY <2>1 DEF Prior
    <2> QED
      BY <1>1, <1>11, <1>12, <2>2, BeforeIs
  <1>16. ASSUME NEW pair PROVE Intake!Times(s, pair) = Intake!Times(q, pair)
    <2> DEFINE here  == {k \in 1 .. n : s[k] = pair}
               there == {i \in R : q[i] = pair}
               f     == [k \in here |-> from[k]]
    <2>1. \A k \in here : f[k] = from[k] /\ f[k] \in there
      BY <1>11, <1>12
    <2>2. f \in [here -> there]
      BY <2>1
    <2>3. ASSUME NEW k \in here, NEW m \in here, f[k] = f[m] PROVE k = m
      <3>1. from[k] = from[m] /\ k \in 1 .. n /\ m \in 1 .. n
        BY <2>1, <2>3
      <3>2. k = Cardinality(b[from[k]]) + 1 /\ m = Cardinality(b[from[m]]) + 1
        BY <1>11, <3>1
      <3> QED
        BY <3>1, <3>2
    <2>4. ASSUME NEW i \in there PROVE \E k \in here : f[k] = i
      <3>1. PICK k \in 1 .. n : from[k] = i
        BY <1>13
      <3>2. k \in here
        BY <1>12, <3>1
      <3> QED
        BY <2>1, <3>1, <3>2
    <2> HIDE DEF f
    <2>5. f \in Bijection(here, there)
      BY <2>2, <2>3, <2>4 DEF Bijection, Injection, Surjection, IsInjective
    <2>6. ExistsBijection(here, there)
      BY <2>5 DEF ExistsBijection
    <2>7. IsFiniteSet(here)
      <3>1. IsFiniteSet(1 .. n)
        BY <1>1, IntervalIsFinite
      <3>2. here \in SUBSET (1 .. n)
        OBVIOUS
      <3> QED
        BY <3>1, <3>2, FS_Subset
    <2>8. Cardinality(there) = Cardinality(here)
      BY <2>6, <2>7, FS_Bijection
    <2>9. Intake!Times(q, pair) = Cardinality(there)
      BY CountsAlike DEF Intake!Times, R
    <2>10. Intake!Times(s, pair) = Cardinality(here)
      <3>1. DOMAIN s = 1 .. n
        BY <1>14
      <3> QED
        BY <3>1, CountsAlike DEF Intake!Times
    <2> QED
      BY <2>8, <2>9, <2>10
  <1>17. Sorts(q, s)
    <2>1. DOMAIN s = 1 .. n
      BY <1>14
    <2> QED
      BY <1>15, <1>16, <2>1 DEF Sorts
  <1> QED
    BY <1>1, <1>14, <1>17

\* The same pairs, as often, in order of key and value.
LEMMA SortedIs ==
  ASSUME NEW q \in Query
  PROVE  Intake!Sorted(q) \in Query /\ Intake!SameQuery(Intake!Sorted(q), q)
  <1>1. PICK s : s = Intake!Sorted(q)
    OBVIOUS
  <1>2. s \in [DOMAIN q -> Intake!Pairs(q)] /\ Sorts(q, s)
    BY <1>1, CanBeSorted DEF Intake!Sorted, Sorts
  <1>3. s \in Query /\ Len(s) = Len(q)
    <2>1. PICK n, P, Q : /\ n \in Nat /\ n = Len(q) /\ P = Nat \X Nat
                         /\ Q \subseteq P /\ s \in [1 .. n -> Q]
      <3>1. s \in [1 .. Len(q) -> Intake!Pairs(q)]
        BY <1>2, PairsAre
      <3> QED
        BY <3>1, PairsAre
    <2>2. s \in Seq(P) /\ Len(s) = n
      <3>1. s \in [1 .. n -> P]
        BY <2>1
      <3> QED
        BY <2>1, <3>1
    <2> QED
      BY <2>1, <2>2 DEF Query
  <1>4. Intake!Pairs(s) \subseteq Intake!Pairs(q)
    BY <1>2 DEF Intake!Pairs
  <1>5. Intake!SameQuery(s, q)
    BY <1>2, <1>3, <1>4 DEF Intake!SameQuery, Sorts
  <1> QED
    BY <1>1, <1>3, <1>5

\* What is the same query is sorted to the same list.
LEMMA SortedAlike ==
  ASSUME NEW q \in Query, NEW r \in Query, Intake!SameQuery(q, r)
  PROVE  Intake!Pairs(q) = Intake!Pairs(r) /\ Intake!Sorted(q) = Intake!Sorted(r)
  <1>1. Len(q) = Len(r) /\ \A pair \in Intake!Pairs(q) \cup Intake!Pairs(r) :
                              Intake!Times(q, pair) = Intake!Times(r, pair)
    BY DEF Intake!SameQuery
  <1>2. Intake!Pairs(q) = Intake!Pairs(r)
    BY <1>1, Occurs
  <1>3. DOMAIN q = DOMAIN r
    BY <1>1, PairsAre
  <1>4. \A s : Sorts(q, s) <=> Sorts(r, s)
    BY <1>1, <1>2 DEF Sorts
  <1>5. Intake!Sorted(q) = CHOOSE s \in [DOMAIN q -> Intake!Pairs(q)] : Sorts(q, s)
    BY DEF Intake!Sorted, Sorts
  <1>6. Intake!Sorted(r) = CHOOSE s \in [DOMAIN q -> Intake!Pairs(q)] : Sorts(r, s)
    BY <1>2, <1>3 DEF Intake!Sorted, Sorts
  <1> QED
    BY <1>2, <1>4, <1>5, <1>6

LEMMA SameQueryJoins ==
  ASSUME NEW p \in Query, NEW q \in Query, NEW r \in Query,
         Intake!SameQuery(p, q), Intake!SameQuery(p, r)
  PROVE  Intake!SameQuery(q, r)
  <1>1. Intake!Pairs(p) = Intake!Pairs(q) /\ Intake!Pairs(p) = Intake!Pairs(r)
    BY SortedAlike
  <1> QED
    BY <1>1 DEF Intake!SameQuery
-----------------------------------------------------------------------------
(* Normal forms: a page has URLs of many forms, but only one of them stays *)
(* as it is.                                                               *)

Norm(url) == Intake!NormalizeUrl(url)

\* What normalize_url gives a normal form, and that one again.
Fit == {url \in Intake!Url : Intake!Crawlable(url)}

LEMMA FitHas ==
  ASSUME NEW u \in Fit
  PROVE  /\ u # None /\ u.scheme \in {"http", "https"} /\ u.host \in Nat /\ u.port \in Nat
         /\ u.host # 0 \/ (u.port # 0 /\ ~Intake!DefaultPort(u))
         /\ u.path \in Seq(Intake!Segment) /\ u.query \in Query
  BY HrefsAssumption DEF Fit, Intake!Crawlable, Intake!Url, Query

\* The normal form, part by part.
LEMMA NormIs ==
  ASSUME NEW u \in Fit
  PROVE  Norm(u) = [scheme |-> u.scheme, caps |-> FALSE, host |-> u.host,
                    port |-> IF Intake!DefaultPort(u) THEN 0 ELSE u.port,
                    path |-> Stripped(u.path), query |-> Intake!Sorted(u.query),
                    fragment |-> 0]
  <1>1. u \in Intake!Url /\ u # None /\ u.scheme \in {"http", "https"} /\ ~Intake!NoNetloc(u)
    BY FitHas DEF Fit, Intake!NoNetloc
  <1>2. Norm(u) = [u EXCEPT
             !.caps = FALSE,
             !.port = IF Intake!DefaultPort(u) THEN 0 ELSE @,
             !.path = Intake!WithoutSlashes(Intake!WithoutParams(@)),
             !.query = Intake!Sorted(@),
             !.fragment = 0]
    BY <1>1 DEF Norm, Intake!NormalizeUrl
  <1> QED
    BY <1>1, <1>2 DEF Intake!Url, Stripped

\* It is a URL of the same page, and it can be crawled.
LEMMA NormFits ==
  ASSUME NEW u \in Fit
  PROVE  Norm(u) \in Fit /\ Intake!SamePage(Norm(u), u)
  <1>1. PICK n, p, q : n = Norm(u) /\ p = Stripped(u.path) /\ q = Intake!Sorted(u.query)
    OBVIOUS
  <1>2. n = [scheme |-> u.scheme, caps |-> FALSE, host |-> u.host,
             port |-> IF Intake!DefaultPort(u) THEN 0 ELSE u.port,
             path |-> p, query |-> q, fragment |-> 0]
    BY <1>1, NormIs
  <1>3. p \in Seq(Intake!Segment) /\ Intake!SamePath(p, u.path)
    BY <1>1, FitHas, StrippedFits
  <1>4. q \in Query /\ Intake!SameQuery(q, u.query)
    BY <1>1, FitHas, SortedIs
  <1>5. n \in Intake!Url
    BY <1>2, <1>3, <1>4, FitHas DEF Intake!Url, Query
  <1>6. n \in Fit
    BY <1>2, <1>5, FitHas DEF Fit, Intake!Crawlable, Intake!DefaultPort
  <1>7. Intake!Port(n) = Intake!Port(u)
    BY <1>2, FitHas DEF Intake!Port, Intake!DefaultPort
  <1> QED
    BY <1>1, <1>2, <1>3, <1>4, <1>6, <1>7 DEF Intake!SamePage

\* A URL that is its own normal form, part by part.
LEMMA FixedIs ==
  ASSUME NEW u \in Fit, Norm(u) = u
  PROVE  /\ u = [scheme |-> u.scheme, caps |-> FALSE, host |-> u.host, port |-> u.port,
                 path |-> u.path, query |-> u.query, fragment |-> 0]
         /\ ~(u.scheme = "http" /\ u.port = 80) /\ ~(u.scheme = "https" /\ u.port = 443)
         /\ Stripped(u.path) = u.path /\ Intake!Sorted(u.query) = u.query
  <1>1. u = [scheme |-> u.scheme, caps |-> FALSE, host |-> u.host,
             port |-> IF Intake!DefaultPort(u) THEN 0 ELSE u.port,
             path |-> Stripped(u.path), query |-> Intake!Sorted(u.query),
             fragment |-> 0]
    BY NormIs
  <1>2. /\ Stripped(u.path) = u.path /\ Intake!Sorted(u.query) = u.query
        /\ u.port = IF Intake!DefaultPort(u) THEN 0 ELSE u.port
    BY <1>1
  <1>3. Intake!DefaultPort(u) => u.port = 0
    BY <1>2
  <1>4. ~(u.scheme = "http" /\ u.port = 80) /\ ~(u.scheme = "https" /\ u.port = 443)
    BY <1>3 DEF Intake!DefaultPort
  <1> QED
    BY <1>1, <1>2, <1>4

\* No page has two of them.
LEMMA FixedAlike ==
  ASSUME NEW u \in Fit, NEW v \in Fit, Norm(u) = u, Norm(v) = v, Intake!SamePage(u, v)
  PROVE  u = v
  <1>1. /\ u.scheme = v.scheme /\ u.host = v.host /\ Intake!Port(u) = Intake!Port(v)
        /\ Intake!SamePath(u.path, v.path) /\ Intake!SameQuery(u.query, v.query)
    BY DEF Intake!SamePage
  <1>2. u.path = v.path
    BY <1>1, FitHas, FixedIs, StrippedAlike
  <1>3. u.query = v.query
    BY <1>1, FitHas, FixedIs, SortedAlike
  <1>4. u.port = v.port
    <2>1. ~(u.scheme = "http" /\ u.port = 80) /\ ~(u.scheme = "https" /\ u.port = 443)
      BY FixedIs
    <2>2. ~(v.scheme = "http" /\ v.port = 80) /\ ~(v.scheme = "https" /\ v.port = 443)
      BY FixedIs
    <2> QED
      BY <1>1, <2>1, <2>2, FitHas DEF Intake!Port
  <1>5. /\ u = [scheme |-> u.scheme, caps |-> FALSE, host |-> u.host, port |-> u.port,
                 path |-> u.path, query |-> u.query, fragment |-> 0]
        /\ v = [scheme |-> v.scheme, caps |-> FALSE, host |-> v.host, port |-> v.port,
                 path |-> v.path, query |-> v.query, fragment |-> 0]
    BY FixedIs
  <1> QED
    BY <1>1, <1>2, <1>3, <1>4, <1>5

\* To normalise twice is enough, but for a URL with several semicolons after
\* its last name.
LEMMA NormThrice ==
  ASSUME NEW u \in Fit, Intake!Steady(u)
  PROVE  Norm(Norm(Norm(u))) = Norm(Norm(u))
  <1>1. PICK n, m, k : n = Norm(u) /\ m = Norm(n) /\ k = Norm(m)
    OBVIOUS
  <1>2. n \in Fit /\ m \in Fit
    BY <1>1, NormFits
  <1>3. n.path = Stripped(u.path) /\ m.path = Stripped(n.path)
    BY <1>1, <1>2, NormIs
  <1>4. Stripped(m.path) = m.path
    BY <1>3, FitHas, TwiceIsEnough DEF Intake!Steady
  <1>5. Intake!Sorted(m.query) = m.query
    <2>1. m.query = Intake!Sorted(n.query)
      BY <1>1, <1>2, NormIs
    <2>2. Intake!SameQuery(m.query, n.query) /\ m.query \in Query /\ n.query \in Query
      BY <1>1, <1>2, NormFits, FitHas DEF Intake!SamePage
    <2> QED
      BY <2>1, <2>2, SortedAlike
  <1>6. m.caps = FALSE /\ m.fragment = 0 /\ ~Intake!DefaultPort(m)
    BY <1>1, <1>2, NormIs DEF Intake!DefaultPort
  <1>7. k = m
    <2>1. k = [scheme |-> m.scheme, caps |-> FALSE, host |-> m.host, port |-> m.port,
               path |-> m.path, query |-> m.query, fragment |-> 0]
      BY <1>1, <1>2, <1>4, <1>5, <1>6, NormIs
    <2> QED
      BY <1>2, <1>6, <2>1 DEF Fit, Intake!Url
  <1> QED
    BY <1>1, <1>7

\* What two URLs have in common with a third they have in common.
LEMMA SamePathJoins ==
  ASSUME NEW p, NEW q, NEW r, Intake!SamePath(p, q), Intake!SamePath(p, r)
  PROVE  Intake!SamePath(q, r)
  BY DEF Intake!SamePath

LEMMA SamePageJoins ==
  ASSUME NEW u \in Fit, NEW v \in Fit, NEW w \in Fit,
         Intake!SamePage(u, v), Intake!SamePage(u, w)
  PROVE  Intake!SamePage(v, w)
  <1>1. Intake!SamePath(v.path, w.path)
    BY SamePathJoins DEF Intake!SamePage
  <1>2. Intake!SameQuery(v.query, w.query)
    BY FitHas, SameQueryJoins DEF Intake!SamePage
  <1> QED
    BY <1>1, <1>2 DEF Intake!SamePage

LEMMA SamePageTurns ==
  ASSUME NEW u \in Fit, NEW v \in Fit, Intake!SamePage(u, v)
  PROVE  Intake!SamePage(v, u)
  <1>1. Intake!SamePage(u, u)
    BY DEF Intake!SamePage, Intake!SamePath, Intake!SameQuery
  <1> QED
    BY <1>1, SamePageJoins

\* What was handed in is normalised twice before it becomes a task.
Twice(href) == Norm(Norm(href))

LEMMA TwiceFits ==
  ASSUME NEW u \in Fit
  PROVE  Twice(u) \in Fit /\ Intake!SamePage(Twice(u), u)
  <1>1. PICK n, m : n = Norm(u) /\ m = Norm(n)
    OBVIOUS
  <1>2. /\ n \in Fit /\ Intake!SamePage(n, u)
        /\ m \in Fit /\ Intake!SamePage(m, n)
    BY <1>1, NormFits
  <1>3. Intake!SamePage(m, u)
    BY <1>2, SamePageTurns, SamePageJoins
  <1> QED
    BY <1>1, <1>2, <1>3 DEF Twice

LEMMA HrefFits ==
  ASSUME NEW href \in Hrefs
  PROVE  /\ Intake!Crawlable(href) => href \in Fit
         /\ ~Intake!Crawlable(href) => Twice(href) = None
  <1>1. href \in Intake!Url /\ href # None
    BY HrefsAssumption
  <1>2. Norm(None) = None
    BY DEF Norm, Intake!NormalizeUrl
  <1>3. ASSUME ~Intake!Crawlable(href) PROVE Twice(href) = None
    <2>1. CASE href.scheme \notin {"http", "https"} \/ Intake!NoNetloc(href)
      BY <1>2, <2>1 DEF Twice, Norm, Intake!NormalizeUrl
    <2>2. CASE href.scheme \in {"http", "https"} /\ ~Intake!NoNetloc(href)
      <3>1. href.host = 0 /\ Intake!DefaultPort(href)
        BY <1>3, <2>2 DEF Intake!Crawlable, Intake!NoNetloc
      <3>2. Norm(href) = [href EXCEPT
                   !.caps = FALSE,
                   !.port = 0,
                   !.path = Intake!WithoutSlashes(Intake!WithoutParams(@)),
                   !.query = Intake!Sorted(@),
                   !.fragment = 0]
        BY <1>1, <2>2, <3>1 DEF Norm, Intake!NormalizeUrl
      <3>3. Norm(href).host = 0 /\ Norm(href).port = 0
        BY <1>1, <3>1, <3>2 DEF Intake!Url
      <3>4. Intake!NoNetloc(Norm(href))
        BY <3>3 DEF Intake!NoNetloc
      <3> QED
        BY <3>4 DEF Twice, Norm, Intake!NormalizeUrl
    <2> QED
      BY <2>1, <2>2
  <1> QED
    BY <1>1, <1>3 DEF Fit

-----------------------------------------------------------------------------
(* The intake of URLs.                                                     *)

\* Each page that was handed in has a task, all that is seen belongs to a task,
\* and a task whose URL is its own normal form stays seen and is the only one.
IntakeInv ==
    /\ handed \subseteq Hrefs
    /\ made \in Seq(Fit) /\ pending \in Seq(Fit) /\ seen \subseteq Fit
    /\ \A url \in seen : \E i \in DOMAIN made : Intake!SamePage(made[i], url)
    /\ \A i \in DOMAIN made : \E href \in handed : href \in Fit /\ made[i] = Twice(href)
    /\ \A i \in DOMAIN made : Norm(made[i]) = made[i] =>
           made[i] \in seen /\ \A j \in DOMAIN made : made[j] = made[i] => j = i
    /\ \A href \in handed : Intake!Crawlable(href) =>
           \E i \in DOMAIN made : Intake!SamePage(made[i], href)

\* An href that is handed in gets a task, unless its page has one.
LEMMA ScheduleKeeps ==
  ASSUME IntakeInv, NEW href \in Hrefs,
         Intake!Schedule(Norm(href)), handed' = handed \cup {href}
  PROVE  IntakeInv'
  <1>1. PICK t : t = Twice(href) /\ t = Intake!NormalizeUrl(Norm(href))
    BY DEF Twice, Norm
  <1>2. /\ Intake!Crawlable(href) => href \in Fit /\ t \in Fit /\ t # None /\ Intake!SamePage(t, href)
        /\ ~Intake!Crawlable(href) => t = None
    BY <1>1, HrefFits, TwiceFits, FitHas
  <1>3. /\ handed \subseteq Hrefs /\ made \in Seq(Fit) /\ pending \in Seq(Fit) /\ seen \subseteq Fit
        /\ \A url \in seen : \E i \in DOMAIN made : Intake!SamePage(made[i], url)
        /\ \A i \in DOMAIN made : \E h \in handed : h \in Fit /\ made[i] = Twice(h)
        /\ \A i \in DOMAIN made : Norm(made[i]) = made[i] =>
               made[i] \in seen /\ \A j \in DOMAIN made : made[j] = made[i] => j = i
        /\ \A h \in handed : Intake!Crawlable(h) =>
               \E i \in DOMAIN made : Intake!SamePage(made[i], h)
    BY DEF IntakeInv
  <1>4. /\ Len(made) \in Nat /\ DOMAIN made = 1 .. Len(made)
        /\ \A i \in DOMAIN made : made[i] \in Fit
    BY <1>3
  <1>5. CASE t = None \/ t \in seen
    <2>1. seen' = seen /\ made' = made /\ pending' = pending
      BY <1>1, <1>5 DEF Intake!Schedule
    <2>2. ASSUME Intake!Crawlable(href)
          PROVE  \E i \in DOMAIN made : Intake!SamePage(made[i], href)
      <3>1. href \in Fit /\ t \in Fit /\ t \in seen /\ Intake!SamePage(t, href)
        BY <1>2, <1>5, <2>2
      <3>2. PICK i \in DOMAIN made : Intake!SamePage(made[i], t)
        BY <1>3, <3>1
      <3>3. Intake!SamePage(t, made[i])
        BY <1>4, <3>1, <3>2, SamePageTurns
      <3> QED
        BY <1>4, <3>1, <3>3, SamePageJoins
    <2>3. \A h \in handed' : Intake!Crawlable(h) =>
             \E i \in DOMAIN made : Intake!SamePage(made[i], h)
      BY <1>3, <2>2
    <2>4. \A i \in DOMAIN made : \E h \in handed' : h \in Fit /\ made[i] = Twice(h)
      BY <1>3
    <2> QED
      BY <1>3, <2>1, <2>3, <2>4 DEF IntakeInv
  <1>6. CASE t # None /\ t \notin seen
    <2>1. seen' = seen \cup {t} /\ made' = Append(made, t) /\ pending' = Append(pending, t)
      BY <1>1, <1>6 DEF Intake!Schedule
    <2>2. href \in Fit /\ t \in Fit /\ Intake!SamePage(t, href)
      BY <1>2, <1>6
    <2>3. /\ made' \in Seq(Fit) /\ pending' \in Seq(Fit)
          /\ DOMAIN made' = 1 .. Len(made) + 1 /\ made'[Len(made) + 1] = t
          /\ \A i \in DOMAIN made : i \in DOMAIN made' /\ made'[i] = made[i]
          /\ \A i \in DOMAIN made' : i \in DOMAIN made \/ i = Len(made) + 1
          /\ Len(made) + 1 \in DOMAIN made'
      BY <1>3, <1>4, <2>1, <2>2
    <2>4. Intake!SamePage(t, t)
      BY DEF Intake!SamePage, Intake!SamePath, Intake!SameQuery
    <2>5. \A url \in seen' : \E i \in DOMAIN made' : Intake!SamePage(made'[i], url)
      <3> SUFFICES ASSUME NEW url \in seen'
                   PROVE  \E i \in DOMAIN made' : Intake!SamePage(made'[i], url)
        OBVIOUS
      <3>1. CASE url = t
        BY <2>3, <2>4, <3>1
      <3>2. CASE url \in seen
        <4>1. PICK i \in DOMAIN made : Intake!SamePage(made[i], url)
          BY <1>3, <3>2
        <4> QED
          BY <2>3, <4>1
      <3> QED
        BY <2>1, <3>1, <3>2
    <2>6. \A i \in DOMAIN made' : \E h \in handed' : h \in Fit /\ made'[i] = Twice(h)
      BY <1>1, <1>3, <2>2, <2>3
    <2>7. ASSUME NEW i \in DOMAIN made', Norm(made'[i]) = made'[i]
          PROVE  made'[i] \in seen' /\ \A j \in DOMAIN made' : made'[j] = made'[i] => j = i
      <3>1. CASE i \in DOMAIN made
        <4>1. /\ made'[i] = made[i] /\ made[i] \in seen
              /\ \A j \in DOMAIN made : made[j] = made[i] => j = i
          BY <1>3, <2>3, <2>7, <3>1
        <4>2. made[i] # t
          BY <1>6, <4>1
        <4> QED
          BY <2>1, <2>3, <4>1, <4>2
      <3>2. CASE i = Len(made) + 1
        <4>1. made'[i] = t /\ Norm(t) = t
          BY <2>3, <2>7, <3>2
        <4>2. \A j \in DOMAIN made : made[j] # t
          BY <1>3, <1>6, <4>1
        <4> QED
          BY <2>1, <2>3, <3>2, <4>1, <4>2
      <3> QED
        BY <2>3, <3>1, <3>2
    <2>8. \A h \in handed' : Intake!Crawlable(h) =>
             \E i \in DOMAIN made' : Intake!SamePage(made'[i], h)
      <3> SUFFICES ASSUME NEW h \in handed', Intake!Crawlable(h)
                   PROVE  \E i \in DOMAIN made' : Intake!SamePage(made'[i], h)
        OBVIOUS
      <3>1. CASE h = href
        BY <2>2, <2>3, <3>1
      <3>2. CASE h \in handed
        <4>1. PICK i \in DOMAIN made : Intake!SamePage(made[i], h)
          BY <1>3, <3>2
        <4> QED
          BY <2>3, <4>1
      <3> QED
        BY <3>1, <3>2
    <2>9. handed' \subseteq Hrefs /\ seen' \subseteq Fit
      BY <1>3, <2>1, <2>2
    <2> QED
      BY <2>3, <2>5, <2>6, <2>7, <2>8, <2>9 DEF IntakeInv
  <1> QED
    BY <1>5, <1>6

\* The seen URLs of a checkpoint are normalised once more; those of the tasks
\* that matter are their own normal forms already.
LEMMA RestoreKeeps ==
  ASSUME IntakeInv, Intake!Restore
  PROVE  IntakeInv'
  <1>1. /\ seen \subseteq Fit /\ made \in Seq(Fit)
        /\ \A url \in seen : \E i \in DOMAIN made : Intake!SamePage(made[i], url)
        /\ \A i \in DOMAIN made : Norm(made[i]) = made[i] =>
               made[i] \in seen /\ \A j \in DOMAIN made : made[j] = made[i] => j = i
    BY DEF IntakeInv
  <1>2. /\ seen' = {Norm(url) : url \in seen} \ {None}
        /\ made' = made /\ pending' = pending /\ handed' = handed
    BY DEF Intake!Restore, Norm
  <1>3. seen' \subseteq Fit
    BY <1>1, <1>2, NormFits
  <1>4. ASSUME NEW url \in seen' PROVE \E i \in DOMAIN made : Intake!SamePage(made[i], url)
    <2>1. PICK old \in seen : url = Norm(old)
      BY <1>2
    <2>2. PICK i \in DOMAIN made : Intake!SamePage(made[i], old)
      BY <1>1
    <2>3. /\ old \in Fit /\ url \in Fit /\ made[i] \in Fit
          /\ Intake!SamePage(old, url) /\ Intake!SamePage(old, made[i])
      BY <1>1, <2>1, <2>2, NormFits, SamePageTurns
    <2> QED
      BY <2>3, SamePageTurns, SamePageJoins
  <1>5. ASSUME NEW i \in DOMAIN made, Norm(made[i]) = made[i] PROVE made[i] \in seen'
    <2>1. made[i] \in seen /\ made[i] # None
      BY <1>1, <1>5, FitHas
    <2> QED
      BY <1>2, <1>5, <2>1
  <1> QED
    BY <1>1, <1>2, <1>3, <1>4, <1>5 DEF IntakeInv

LEMMA IntakeStep ==
  ASSUME IntakeInv, [Intake!Next]_urlVars
  PROVE  IntakeInv'
  <1>1. CASE UNCHANGED urlVars
    BY <1>1 DEF urlVars, IntakeInv
  <1>2. CASE Intake!Take
    BY <1>2 DEF Intake!Take, IntakeInv
  <1>3. CASE Intake!Restore
    BY <1>3, RestoreKeeps
  <1>4. ASSUME NEW href \in Hrefs, Intake!Seed(href) \/ Intake!Follow(href) PROVE IntakeInv'
    <2>1. Intake!Schedule(Norm(href)) /\ handed' = handed \cup {href}
      BY <1>4 DEF Intake!Seed, Intake!Follow, Norm
    <2> QED
      BY <2>1, ScheduleKeeps
  <1> QED
    BY <1>1, <1>2, <1>3, <1>4 DEF Intake!Next

LEMMA IntakeInit ==
  ASSUME Intake!Init
  PROVE  IntakeInv
  BY DEF Intake!Init, IntakeInv

LEMMA IntakeTypes ==
  ASSUME IntakeInv
  PROVE  Intake!TypeOK
  BY DEF IntakeInv, Intake!TypeOK, Fit

\* The tasks of a page are made of hrefs of that page; if twice is enough for
\* these, all tasks are the page's one URL that stays as it is.
LEMMA OneTask ==
  ASSUME IntakeInv
  PROVE  Intake!ExactlyOneTask
  <1> DEFINE tasks(href) == {i \in DOMAIN made : Intake!SamePage(made[i], href)}
  <1>1. /\ handed \subseteq Hrefs
        /\ \A i \in DOMAIN made : made[i] \in Fit
        /\ \A i \in DOMAIN made : \E h \in handed : h \in Fit /\ made[i] = Twice(h)
        /\ \A i \in DOMAIN made : Norm(made[i]) = made[i] =>
               \A j \in DOMAIN made : made[j] = made[i] => j = i
        /\ \A h \in handed : Intake!Crawlable(h) =>
               \E i \in DOMAIN made : Intake!SamePage(made[i], h)
    BY DEF IntakeInv
  <1>2. ASSUME NEW href \in handed, ~Intake!Crawlable(href) PROVE tasks(href) = {}
    <2>1. href \in Intake!Url
      BY <1>1, HrefsAssumption
    <2>2. ASSUME NEW i \in DOMAIN made, Intake!SamePage(made[i], href) PROVE FALSE
      <3>1. /\ made[i].scheme = href.scheme /\ made[i].host = href.host
            /\ Intake!Port(made[i]) = Intake!Port(href)
        BY <2>2 DEF Intake!SamePage
      <3>2. /\ made[i].scheme \in {"http", "https"} /\ made[i].port \in Nat
            /\ made[i].host # 0 \/ (made[i].port # 0 /\ ~Intake!DefaultPort(made[i]))
        BY <1>1, FitHas
      <3>3. /\ href.scheme \in {"http", "https"} /\ href.host = 0
            /\ href.port = 0 \/ Intake!DefaultPort(href)
        BY <1>2, <3>1, <3>2 DEF Intake!Crawlable
      <3> QED
        BY <3>1, <3>2, <3>3 DEF Intake!Port, Intake!DefaultPort
    <2> QED
      BY <2>2
  <1>3. ASSUME NEW href \in handed, Intake!Crawlable(href) PROVE tasks(href) # {}
    BY <1>1, <1>3
  <1>4. ASSUME NEW href \in handed, Intake!Crawlable(href),
               \A other \in handed : Intake!SamePage(other, href) => Intake!Steady(other)
        PROVE  Cardinality(tasks(href)) = 1
    <2>1. href \in Fit
      BY <1>1, <1>4, HrefFits
    <2>2. ASSUME NEW i \in tasks(href)
          PROVE  /\ i \in DOMAIN made /\ made[i] \in Fit /\ Norm(made[i]) = made[i]
                 /\ Intake!SamePage(made[i], href)
      <3>1. i \in DOMAIN made /\ made[i] \in Fit /\ Intake!SamePage(made[i], href)
        BY <1>1, <2>2
      <3>2. PICK h \in handed : h \in Fit /\ made[i] = Twice(h)
        BY <1>1, <3>1
      <3>3. Intake!SamePage(h, href)
        BY <2>1, <3>1, <3>2, TwiceFits, SamePageJoins
      <3>4. Norm(made[i]) = made[i]
        BY <1>4, <3>2, <3>3, NormThrice DEF Twice
      <3> QED
        BY <3>1, <3>4
    <2>3. PICK k : k \in tasks(href)
      BY <1>3, <1>4
    <2>4. ASSUME NEW i \in tasks(href) PROVE i = k
      <3>1. Intake!SamePage(href, made[i]) /\ Intake!SamePage(href, made[k])
        BY <2>1, <2>2, <2>3, SamePageTurns
      <3>2. made[i] = made[k]
        BY <2>1, <2>2, <2>3, <3>1, SamePageJoins, FixedAlike
      <3> QED
        BY <1>1, <2>2, <2>3, <3>2
    <2> HIDE DEF tasks
    <2>5. tasks(href) = {k}
      BY <2>3, <2>4
    <2> QED
      BY <2>5, FS_Singleton
  <1>5. \A href \in handed : Intake!Cardinality(tasks(href)) = Cardinality(tasks(href))
    BY CountsAlike
  <1> QED
    BY <1>2, <1>3, <1>4, <1>5 DEF Intake!ExactlyOneTask

-----------------------------------------------------------------------------
(* All parts together: each step is one of one part, and leaves the others *)
(* as they are.                                                            *)

AllInv ==
    /\ PageInv /\ TypeOK
    /\ Launching!TypeOK /\ LaunchInv
    /\ LimiterInv
    /\ IntakeInv

LEMMA AllStarts ==
  ASSUME AllInit
  PROVE  AllInv
  BY InitHolds, TypeInit, LaunchInit, LimitInit, IntakeInit DEF AllInit, AllInv

LEMMA AllStep ==
  ASSUME AllInv, [AllNext]_<<vars, launchVars, limitVars, urlVars>>
  PROVE  AllInv'
  <1>1. /\ [Next]_vars /\ [Launching!Next]_launchVars
        /\ [Limiting!Next]_limitVars /\ [Intake!Next]_urlVars
    BY DEF AllNext
  <1>2. PageInv' /\ TypeOK'
    BY <1>1, StepKeeps, PageTypeStep, TypeParts DEF AllInv, PageInv
  <1>3. Launching!TypeOK' /\ LaunchInv'
    BY <1>1, LaunchTypeStep, LaunchStep DEF AllInv
  <1>4. LimiterInv'
    BY <1>1, LimitStep DEF AllInv
  <1>5. IntakeInv'
    BY <1>1, IntakeStep DEF AllInv
  <1> QED
    BY <1>2, <1>3, <1>4, <1>5 DEF AllInv

\* What the four parts keep, each on its own, they keep side by side.
THEOREM AllHolds == AllSpec => []AllInv
  <1>1. AllInit => AllInv
    BY AllStarts
  <1>2. AllInv /\ [AllNext]_<<vars, launchVars, limitVars, urlVars>> => AllInv'
    BY AllStep
  <1> QED
    BY <1>1, <1>2, PTL DEF AllSpec

\* The variables of all four parts keep their types: the server, the page, the
\* launchers, the rate limiter's clock and the scheduler's lists.
THEOREM PartsTypeCorrect == AllSpec => []TypesOK
  <1>1. AllInv => TypesOK
    BY IntakeTypes DEF AllInv, LimiterInv, TypesOK
  <1> QED
    BY <1>1, AllHolds, PTL

\* main.py's probe for a free port never shuts out all launchers: when nobody
\* moves any more, somebody serves, unless all ports were other programs'.
THEOREM OneLauncherServes == AllSpec => []SomebodyServes
  <1>1. AllInv => SomebodyServes
    BY RestServes DEF AllInv, SomebodyServes
  <1> QED
    BY <1>1, AllHolds, PTL

\* RateLimiter.acquire keeps requests an interval apart, but for the event
\* loop's earliness, however many tasks wait at once and for however long.
THEOREM RequestsAreSpaced == AllSpec => []Spacing
  <1>1. AllInv => Spacing
    BY DEF AllInv, LimiterInv, Spacing
  <1> QED
    BY <1>1, AllHolds, PTL

\* normalize_url and the scheduler give each page that is linked to a task, whatever
\* forms its hrefs have and however often the crawl is resumed, and nothing else;
\* only one task, if none of its hrefs has several semicolons after its last name.
\* Of the hrefs no more is assumed than that they are absolute URLs.
THEOREM EachPageOneTask == AllSpec => []ExactlyOneTask
  <1>1. AllInv => ExactlyOneTask
    BY OneTask DEF AllInv, ExactlyOneTask
  <1> QED
    BY <1>1, AllHolds, PTL
=============================================================================
