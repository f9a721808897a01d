------------------------------ MODULE Progress ------------------------------
(***************************************************************************)
(* The parts of the system that must make progress, one at a time.         *)
(***************************************************************************)
EXTENDS Pool, Integers, FiniteSets

CONSTANTS
    MaxFaults,                                          \* bound, of every part
    Deployments, Feeds, Universes, MaxRuns, MaxStalls, MaxResumes,      \* StaleHalt
    Attempts, Bodies, MaxSlow, MaxCrashes,              \* IdempotencyStore
    Backtests, Researches, Portfolios, Batches, Slots, Limit, MaxTries, \* Jobs
    Grace, Cap, Window, Cooldown, Throttle              \* GatewayWatchdog

\* The answers that are not a request's outcome.
ASSUME KeyAssumption ==
    Attempts \cap {"none", "nobody", "mismatch", "inFlight", "retry", "refused", "lost"} = {}
\* The defaults of WatchdogConfig: 3 restarts in 900 s, a cooldown of 1800 s.
ASSUME WatchAssumption ==
    /\ Grace \in Nat /\ Cap \in Nat \ {0} /\ Window \in Nat \ {0} /\ Cooldown \in Nat
    /\ Window <= Cooldown

-----------------------------------------------------------------------------
Halts == INSTANCE StaleHalt WITH
    fleet <- v1, manifest <- v2, verdict <- v3, marker <- v4, row <- v5, pc <- v6, run <-
    v7, universe <- v8, feed <- v9, shutdown <- v10, mon <- v11, snap <- v12, halt_fired <-
    v13, on_halt_fired <- v14, resume <- v15, used <- v16,
    Deployments <- Deployments, Feeds <- Feeds, Universes <- Universes, MaxRuns <- MaxRuns,
    MaxStalls <- MaxStalls, MaxFaults <- MaxFaults, MaxResumes <- MaxResumes

Keys == INSTANCE IdempotencyStore WITH
    key <- v1, att <- v2, used <- v3,
    Attempts <- Attempts, Bodies <- Bodies, MaxSlow <- MaxSlow, MaxCrashes <- MaxCrashes

Queue == INSTANCE Jobs WITH
    row <- v1, api <- v2, arq <- v3, pc <- v4, cancel <- v5, seen <- v6, leases <- v7, raced
    <- v8, scan <- v9, faults <- v10,
    Backtests <- Backtests, Researches <- Researches, Portfolios <- Portfolios, Batches <- Batches,
    Slots <- Slots, Limit <- Limit, MaxTries <- MaxTries, MaxFaults <- MaxFaults

Watch == INSTANCE GatewayWatchdog WITH
    gw <- v1, probe <- v2, live <- v3, st <- v4, tick <- v5, due <- v6, issued <- v7, calm
    <- v8, faults <- v9,
    Grace <- Grace, Cap <- Cap, Window <- Window, Cooldown <- Cooldown, Throttle <- Throttle,
    MaxFaults <- MaxFaults

-----------------------------------------------------------------------------
\* A behaviour is one of a single component.
Init ==
    \/ part = "Halts" /\ Halts!Init /\ Idle17
    \/ part = "Keys"  /\ Keys!Init /\ Idle4
    \/ part = "Queue" /\ Queue!Init /\ Idle11
    \/ part = "Watch" /\ Watch!Init /\ Idle10

Next ==
    \/ part = "Halts" /\ Halts!Next /\ UNCHANGED <<part, Rest17>>
    \/ part = "Keys"  /\ Keys!Next /\ UNCHANGED <<part, Rest4>>
    \/ part = "Queue" /\ Queue!Next /\ UNCHANGED <<part, Rest11>>
    \/ part = "Watch" /\ Watch!Next /\ UNCHANGED <<part, Rest10>>

Spec == Init /\ [][Next]_pool

\* What the scheduling of the code guarantees: a node's event loop turns, requests end
\* and Redis expires keys, workers run what the queue delivers and the watchdogs' timers
\* fire.
Fairness ==
    /\ \A d \in Deployments :
         /\ WF_pool(part = "Halts" /\ Halts!RunLoop(d) /\ UNCHANGED <<part, Rest17>>)
         /\ WF_pool(part = "Halts" /\ Halts!MonitorStep(d) /\ UNCHANGED <<part, Rest17>>)
    /\ WF_pool(part = "Keys" /\ Keys!Expire /\ UNCHANGED <<part, Rest4>>)
    /\ \A a \in Attempts : WF_pool(part = "Keys" /\ Keys!Request(a) /\ UNCHANGED <<part, Rest4>>)
    /\ WF_pool(part = "Queue" /\ Queue!Watchdog /\ UNCHANGED <<part, Rest11>>)
    /\ \A j \in Backtests \cup Researches \cup Portfolios :
         /\ WF_pool(part = "Queue" /\ Queue!Worker(j) /\ UNCHANGED <<part, Rest11>>)
         /\ WF_pool(part = "Queue" /\ Queue!Deliver(j) /\ UNCHANGED <<part, Rest11>>)
         /\ WF_pool(part = "Queue" /\ Queue!Age(j) /\ UNCHANGED <<part, Rest11>>)
    /\ WF_pool(part = "Watch" /\ Watch!Elapse /\ UNCHANGED <<part, Rest10>>)
    /\ WF_pool(part = "Watch" /\ Watch!TickStep /\ UNCHANGED <<part, Rest10>>)
    /\ WF_pool(part = "Watch" /\ Watch!StartPeriodEnds /\ UNCHANGED <<part, Rest10>>)

FairSpec == Spec /\ Fairness

-----------------------------------------------------------------------------
\* A required feed that stays silent brings its node down, whether or not the fleet latch
\* could be written. (StaleHalt: DataStaleMonitor.)
StaleFeedStopsNode ==
    \A d \in Deployments, f \in Feeds :
        part = "Halts" /\ Halts!TradesOnStale(d, f) ~> part = "Halts" /\ Halts!StaleNoMore(d, f)

\* One key stands for one request, and is freed: a cached answer is one of a request with
\* the same body, no two requests with a key work at a time unless one outlived its
\* reservation or was refused, and no key stays pending for ever. (IdempotencyStore:
\* reserve, commit, release and the expiry.)
OneRequestPerKey ==
    /\ [](part = "Keys" => Keys!OneRequestPerKey)
    /\ part = "Keys" /\ Keys!Held ~> part = "Keys" /\ ~Keys!Held

\* No backtest or research job hangs. (Jobs: the watchdog and the final attempt.)
EveryJobEnds ==
    \A j \in Backtests \cup Researches :
        part = "Queue" /\ Queue!Waits(j) ~> part = "Queue" /\ Queue!Ended(j)

\* A gateway that is not proved healthy is recreated at most Cap times in a window, and
\* the watchdog never gives up on it. (GatewayWatchdog: the cap, the escalation's
\* cooldown and the retry after it.)
GatewayIsRecovered ==
    /\ [](part = "Watch" => Watch!NoRestartStorm)
    /\ \/ []<>(part # "Watch" \/ Watch!Relieved)
       \/ []<><<part = "Watch" /\ Watch!Recreate>>_pool
=============================================================================
