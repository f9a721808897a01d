-------------------------------- MODULE Node --------------------------------
(***************************************************************************)
(* The parts of a live node and of its supervisor around FleetRouter, one   *)
(* at a time.                                                              *)
(***************************************************************************)
EXTENDS Pool, Integers, Sequences, FiniteSets

CONSTANTS
    MaxRuns, MaxFaults, MaxOps,     \* bounds on restarts, failures and requests, of every part
    MaxAge, MaxRead, OutageGrace,   \* HaltGate
    Halted, Universes,              \* StaleHalt: its deployments, and the feeds they may require
    Trades,                         \* OrderAudit
    Watched, Interval, GraceOf, StartupGrace, Horizon,        \* DataFreshness
    Stops, Kills,                   \* Flatness
    Txns, Deps, Gateway, LinkOrders, MaxTxns,               \* LockOrder
    Workers, Projected, Client, MaxEvents, MaxAttempts,   \* Projection
    Accounts, Consumed, AccountOf, Spof, Ttl, StaleAfter, Cooldown,   \* FleetAlerts
    Deployments, Plan, PaperAccts, Endpoints, PaperPorts, Settings, Configs, Native  \* NodeRouting

ASSUME BoundsAssumption == MaxRuns \in Nat \ {0} /\ MaxFaults \in Nat /\ MaxOps \in Nat
ASSUME GateAssumption == MaxAge \in Nat /\ MaxRead \in Nat /\ OutageGrace \in Nat \ {0}
ASSUME FreshAssumption ==
    /\ Interval \in [Watched -> Nat] /\ \A p \in DOMAIN GraceOf : GraceOf[p] \in Nat
    /\ StartupGrace \in Nat /\ Horizon \in Nat /\ "none" \notin Watched
ASSUME ProjectAssumption == MaxEvents \in Nat /\ MaxAttempts \in Nat \ {0} /\ Client \notin Workers
ASSUME AlertsAssumption ==
    /\ Spof \in Nat /\ Ttl \in Nat \ {0} /\ StaleAfter \in Nat /\ Cooldown \in Nat
    /\ AccountOf \in [Consumed -> Accounts]
ASSUME FlatAssumption == "none" \notin Stops \cup Kills
ASSUME LockAssumption ==
    /\ Deps \subseteq Nat /\ IsFiniteSet(Deps) /\ MaxTxns \in Nat
    /\ \A o \in LinkOrders : o \in Seq({o[i] : i \in DOMAIN o})
ASSUME RoutingAssumption ==
    /\ Settings \in Endpoints /\ "none" \notin Endpoints
    /\ \A c \in Configs : \A i \in DOMAIN c : c[i].ep \in Endpoints
    /\ \A d \in Deployments : Plan[d].members # {}

-----------------------------------------------------------------------------
Gate == INSTANCE HaltGate WITH
    latch <- v1, phase <- v2, armed <- v3, cache <- v4, age <- v5, reader <- v6, lag <- v7,
    worst <- v8, down <- v9, timer <- v10, handler <- v11, polled <- v12, ops <- v13,
    MaxAge <- MaxAge, MaxRead <- MaxRead, Grace <- OutageGrace, MaxOps <- MaxOps

Halts == INSTANCE StaleHalt WITH
    fleet <- v1, manifest <- v2, verdict <- v3, marker <- v4, row <- v5, pc <- v6, run <-
    v7, universe <- v8, feed <- v9, shutdown <- v10, mon <- v11, snap <- v12, halt_fired <-
    v13, on_halt_fired <- v14, resume <- v15, used <- v16,
    Deployments <- Halted, Feeds <- UNION Universes, Universes <- Universes, MaxRuns <- MaxRuns,
    MaxStalls <- MaxFaults, MaxFaults <- MaxFaults, MaxResumes <- MaxFaults

Audit == INSTANCE OrderAudit WITH
    order <- v1, fills <- v2, seen <- v3, tasks <- v4, audit <- v5, trades <- v6, pnl <- v7,
    counted <- v8, outcome <- v9, run <- v10, faults <- v11,
    Trades <- Trades, MaxRuns <- MaxRuns, MaxFaults <- MaxFaults

Fresh == INSTANCE DataFreshness WITH
    now <- v1, phase <- v2, last <- v3, own <- v4, shared <- v5, started <- v6, silent <- v7,
    Feeds <- Watched, Interval <- Interval, GraceOf <- GraceOf,
    StartupGrace <- StartupGrace, Horizon <- Horizon

Flat == INSTANCE Flatness WITH
    req <- v1, inflight <- v2, bus <- v3, handled <- v4, pending <- v5, report <- v6, node
    <- v7, unknown <- v8, born <- v9, faults <- v10,
    Stops <- Stops, Kills <- Kills, MaxRuns <- MaxRuns, MaxFaults <- MaxFaults

Locks == INSTANCE LockOrder WITH
    tx <- v1, holder <- v2, starting <- v3, begun <- v4,
    Txns <- Txns, Deps <- Deps, Gateway <- Gateway,
    LinkOrders <- LinkOrders, MaxTxns <- MaxTxns

Project == INSTANCE Projection WITH
    stream <- v1, cache <- v2, last <- v3, pel <- v4, acked <- v5, dlq <- v6, onState <- v7,
    onEvents <- v8, up <- v9, knows <- v10, todo <- v11, at <- v12, inbox <- v13, view <-
    v14, hydrated <- v15, on <- v16, subscribed <- v17, due <- v18, faults <- v19,
    Workers <- Workers, Instruments <- Projected, Client <- Client,
    MaxEvents <- MaxEvents, MaxAttempts <- MaxAttempts, MaxFaults <- MaxFaults

Alerts == INSTANCE FleetAlerts WITH
    key <- v1, ran <- v2, sup <- v3, due <- v4, consumers <- v5, dep <- v6, last <- v7,
    queue <- v8, seen <- v9, paged <- v10, unsent <- v11, owed <- v12, used <- v13,
    Accounts <- Accounts, Deployments <- Consumed, AccountOf <- AccountOf, Static <- {},
    Spof <- Spof, Ttl <- Ttl, Stale <- StaleAfter, Cooldown <- Cooldown, MaxFaults <- MaxFaults,
    MaxCrashes <- MaxFaults

Routing == INSTANCE NodeRouting WITH
    config <- v1, api <- v2, sup <- v3, stage <- v4, node <- v5, edits <- v6,
    Deployments <- Deployments, Plan <- Plan, PaperAccts <- PaperAccts, Endpoints <- Endpoints,
    PaperPorts <- PaperPorts, Settings <- Settings, Configs <- Configs, Native <- Native,
    MaxEdits <- MaxOps

-----------------------------------------------------------------------------
\* A behaviour is one of a single component.
Init ==
    \/ part = "Gate"    /\ Gate!Init /\ Idle14
    \/ part = "Halts"   /\ Halts!Init /\ Idle17
    \/ part = "Audit"   /\ Audit!Init /\ Idle12
    \/ part = "Fresh"   /\ Fresh!Init /\ Idle8
    \/ part = "Flat"    /\ Flat!Init /\ Idle11
    \/ part = "Locks"   /\ Locks!Init /\ Idle5
    \/ part = "Project" /\ Project!Init
    \/ part = "Alerts"  /\ Alerts!Init /\ Idle14
    \/ part = "Routing" /\ Routing!Init /\ Idle7

Next ==
    \/ part = "Gate"    /\ Gate!Next /\ UNCHANGED <<part, Rest14>>
    \/ part = "Halts"   /\ Halts!Next /\ UNCHANGED <<part, Rest17>>
    \/ part = "Audit"   /\ Audit!Next /\ UNCHANGED <<part, Rest12>>
    \/ part = "Fresh"   /\ Fresh!Next /\ UNCHANGED <<part, Rest8>>
    \/ part = "Flat"    /\ Flat!Next /\ UNCHANGED <<part, Rest11>>
    \/ part = "Locks"   /\ Locks!Next /\ UNCHANGED <<part, Rest5>>
    \/ part = "Project" /\ Project!Next /\ UNCHANGED part
    \/ part = "Alerts"  /\ Alerts!Next /\ UNCHANGED <<part, Rest14>>
    \/ part = "Routing" /\ Routing!Next /\ UNCHANGED <<part, Rest7>>

Spec == Init /\ [][Next]_pool

-----------------------------------------------------------------------------
TypeOK ==
    CASE part = "Gate"    -> Gate!TypeOK
      [] part = "Halts"   -> Halts!TypeOK
      [] part = "Audit"   -> Audit!TypeOK
      [] part = "Fresh"   -> Fresh!TypeOK
      [] part = "Flat"    -> Flat!TypeOK
      [] part = "Locks"   -> Locks!TypeOK
      [] part = "Project" -> Project!TypeOK
      [] part = "Alerts"  -> Alerts!TypeOK
      [] part = "Routing" -> Routing!TypeOK

\* No opening order passes the strategy's gate once a halt has been latched for longer
\* than the gate's cache may be old and a read may take. (HaltGate: _halt_is_active.)
HaltStopsOrders == part = "Gate" => Gate!HaltStopsOrders

\* No node trades through an outage of IB longer than the grace period. (HaltGate:
\* IBDisconnectHandler.)
OutageStopsTrading == part = "Gate" => Gate!OutageStopsTrading

\* /resume never clears the halt on the word of an earlier run of a deployment, and a
\* node that its monitor stopped while it started is never recorded as running.
\* (StaleHalt: RESUME_CLEAR_LUA, the node's markers and verdicts, and the checkpoint
\* before _mark_running.)
ResumeTrustsThisRun ==
    [][part = "Halts" => Halts!ResumeTrustsThisRun /\ Halts!HaltedAtStartIsNotPromoted]_pool

\* A fill is recorded and counted once, over crashes and replays. (OrderAudit:
\* write_trade_fill.)
FillRecordedOnce == part = "Audit" => Audit!FillRecordedOnce

\* Healthy feeds never halt the fleet, and a silent one is found once its budget is
\* over. (DataFreshness: evaluate.)
StalenessIsExact == part = "Fresh" => Fresh!NoFalseHalt /\ Fresh!SilenceIsFound

\* A /stop answers "stopped" only of a run that has ended, and with no older run's
\* report. (Flatness: live_stop and _drain_and_report_flatness.)
StopAnswerIsHonest == part = "Flat" => Flat!StopAnswerIsHonest

\* Two deployments never start on one gateway at once, and no transactions of the
\* supervisor and the API wait for one another in a circle. (LockOrder: the advisory
\* lock of phase A, and the order of the row locks.)
LocksAreSound == part = "Locks" => Locks!OneStartPerGateway /\ Locks!NoWaitCycle

\* No event that the projection has read is lost, and every listener that has caught
\* up shows what was published last. (Projection: the order of publish and XACK.)
ProjectionFollows == part = "Project" => Project!NoEventLost /\ Project!ListenersFollow

\* A supervisor's outage is reported after it, and every deployment found flat is
\* paged. (FleetAlerts: the first pass and the deduper.)
AlertsAreSent == part = "Alerts" => Alerts!OutageIsReported /\ Alerts!FlatIsPaged

\* A node goes through a gateway of its account's own, alone while it starts, and has
\* a feed. (NodeRouting: GatewayRouter and the payload factory.)
RoutingIsRight ==
    part = "Routing" => Routing!RouteIsRight /\ Routing!OneStartPerSession /\ Routing!NoBlindNode
=============================================================================
