-------------------------- MODULE GatewayWatchdog --------------------------
(***************************************************************************)
(* The IB Gateway watchdog of production (services/gateway_watchdog.py and *)
(* the "system gateway-watchdog-tick" command of cli.py): a host timer     *)
(* inspects the gateway's container, the tick adds the API's own probe and *)
(* the number of active deployments, decides, persists the anti-flap       *)
(* counters and prints the action the host script carries out.             *)
(*                                                                         *)
(* Times are kept as ages.  decide() only ever compares a difference with  *)
(* a threshold, so an age stops growing at the threshold it is compared    *)
(* with, and behaviours of any length stay within finitely many states.    *)
(***************************************************************************)
EXTENDS Integers, FiniteSets

CONSTANTS Grace,      \* grace_secs, in units of the timer's period
          Cap,        \* restart_cap
          Window,     \* window_secs
          Cooldown,   \* cooldown_secs
          Throttle,   \* alert_throttle_secs
          MaxFaults   \* bound on failed probes, queries, ticks and recreates,
                      \* and on restarts by somebody else

VARIABLES gw,      \* what docker inspect says of the container
          probe,   \* IBProbe.is_healthy, refreshed on its own schedule
          live,    \* is a deployment active?
          st,      \* the WatchdogState persisted in Redis
          tick,    \* the tick being run
          due,     \* the timer's period has passed
          issued,  \* ages of the recreates since the counters were last reset
          calm,    \* time since a tick last saw the gateway not down
          faults

vars == <<gw, probe, live, st, tick, due, issued, calm, faults>>

\* An unset time.
None == -1

Fresh == [down |-> None, restarts |-> {}, cool |-> None, escalated |-> FALSE,
          retried |-> FALSE, reason |-> "none", said |-> 0]

NoTick == [at |-> "idle", seen |-> "healthy", connected |-> FALSE,
           health |-> "unknown", active |-> "none", act |-> "none"]

Fault == faults < MaxFaults /\ faults' = faults + 1

-----------------------------------------------------------------------------
(* What is watched. *)

\* The gateway fails, or leaves its start period one way or the other.
GatewayMoves ==
    /\ gw' \in CASE gw = "healthy"   -> {"unhealthy", "stopped"}
                 [] gw = "starting"  -> {"healthy", "unhealthy"}
                 [] gw = "unhealthy" -> {"healthy"}
                 [] gw = "stopped"   -> {}
    /\ UNCHANGED <<probe, live, st, tick, due, issued, calm, faults>>

StartPeriodEnds == gw = "starting" /\ GatewayMoves

\* Docker's restart policy, IBC or an operator restarts the container.
RestartedByOthers ==
    /\ gw \in {"unhealthy", "stopped"}
    /\ Fault
    /\ gw' = "starting"
    /\ UNCHANGED <<probe, live, st, tick, due, issued, calm>>

\* IBProbe.check_health: one connection attempt.
ProbeRuns ==
    /\ probe # (gw = "healthy")
    /\ probe' = (gw = "healthy")
    /\ UNCHANGED <<gw, live, st, tick, due, issued, calm, faults>>

DeploymentChanges ==
    /\ live' = ~live
    /\ UNCHANGED <<gw, probe, st, tick, due, issued, calm, faults>>

Older(age, limit) == IF age = limit THEN limit ELSE age + 1

\* One timer period passes between two ticks.
Elapse ==
    /\ tick.at = "idle"
    /\ due' = TRUE
    /\ st' = [st EXCEPT
                !.down = IF @ = None THEN None ELSE Older(@, Grace),
                !.restarts = {a + 1 : a \in {b \in @ : b + 1 < Window}},
                !.cool = IF @ = None \/ @ = 0 THEN @ ELSE @ - 1,
                !.said = Older(@, Throttle)]
    /\ issued' = {a + 1 : a \in {b \in issued : b + 1 < Window}}
    /\ calm' = Older(calm, Grace)
    /\ UNCHANGED <<gw, probe, live, tick, faults>>

-----------------------------------------------------------------------------
(* The tick. *)

\* The host script reads the container's state and starts the command.
Inspect ==
    /\ tick.at = "idle" /\ due
    /\ due' = FALSE
    /\ tick' = [NoTick EXCEPT !.at = "probe", !.seen = gw]
    /\ UNCHANGED <<gw, probe, live, st, issued, calm, faults>>

\* _watchdog_probe_gateway_health: a stopped, unhealthy or starting container
\* speaks for itself, otherwise /account/health decides.
Probe ==
    /\ tick.at = "probe"
    /\ LET up == tick.seen = "healthy" /\ probe
       IN  tick' = [tick EXCEPT !.at = "count",
                                !.connected = up,
                                !.health = CASE tick.seen = "stopped"  -> "unknown"
                                             [] tick.seen = "starting" -> "starting"
                                             [] up                     -> "healthy"
                                             [] OTHER                  -> "unhealthy"]
    /\ UNCHANGED <<gw, probe, live, st, due, issued, calm, faults>>

\* The endpoint cannot be reached: down, of unknown health.
ProbeUnreachable ==
    /\ tick.at = "probe" /\ tick.seen = "healthy"
    /\ Fault
    /\ tick' = [tick EXCEPT !.at = "count", !.connected = FALSE, !.health = "unknown"]
    /\ UNCHANGED <<gw, probe, live, st, due, issued, calm>>

\* The endpoint refuses the watchdog's key: no decision is taken at all.
ProbeRefused ==
    /\ tick.at = "probe" /\ tick.seen = "healthy"
    /\ Fault
    /\ tick' = NoTick
    /\ UNCHANGED <<gw, probe, live, st, due, issued, calm>>

\* _watchdog_count_active_deployments
CountActive ==
    /\ tick.at = "count"
    /\ tick' = [tick EXCEPT !.at = "decide", !.active = IF live THEN "yes" ELSE "no"]
    /\ UNCHANGED <<gw, probe, live, st, due, issued, calm, faults>>

CountFails ==
    /\ tick.at = "count"
    /\ Fault
    /\ tick' = [tick EXCEPT !.at = "decide", !.active = "unknown"]
    /\ UNCHANGED <<gw, probe, live, st, due, issued, calm>>

Running == tick.seen # "stopped"

\* Mutant: the start period after a recreate counts as recovery.
StartingIsHealthy == Running /\ (tick.health = "starting" \/ tick.connected)

_is_confirmed_healthy == Running /\ tick.health = "healthy" /\ tick.connected

\* A container in its start period is neither up nor down.
_is_down ==
    \/ ~Running
    \/ tick.health # "starting" /\ (tick.health = "unhealthy" \/ ~tick.connected)

Decision(action, state) == [action |-> action, state |-> state]

\* The same warning is not repeated within Throttle.
AlertOnly(base, reason) ==
    Decision("alert_only",
             IF st.reason = reason /\ st.said < Throttle
             THEN base
             ELSE [base EXCEPT !.reason = reason, !.said = 0])

\* Mutant: a second failed retry does not give the next one back.
RetrySpent(base) ==
    Decision("escalate", [base EXCEPT !.restarts = {}, !.cool = Cooldown,
                                      !.escalated = TRUE])

\* The single retry after a cooldown failed too.
ReEscalate(base) ==
    Decision("escalate", [base EXCEPT !.restarts = {}, !.cool = Cooldown,
                                      !.escalated = TRUE, !.retried = FALSE])

\* Mutant: the cap is tested one restart late.
RestartBeyondCap(base) ==
    IF Cardinality(base.restarts) > Cap
    THEN Decision("escalate", [base EXCEPT !.cool = Cooldown, !.escalated = TRUE,
                                           !.retried = FALSE])
    ELSE Decision("restart", [base EXCEPT !.restarts = @ \cup {0}, !.down = None])

\* Idle and down: at most Cap restarts within Window, then escalation.
RestartOrEscalate(base) ==
    IF Cardinality(base.restarts) >= Cap
    THEN Decision("escalate", [base EXCEPT !.cool = Cooldown, !.escalated = TRUE,
                                           !.retried = FALSE])
    ELSE Decision("restart", [base EXCEPT !.restarts = @ \cup {0}, !.down = None])

decide ==
    LET base == [st EXCEPT !.down = IF @ = None THEN 0 ELSE @]
    IN  CASE ~_is_down /\ _is_confirmed_healthy ->
                 Decision(IF st.escalated THEN "recovered" ELSE "none", Fresh)
          [] ~_is_down /\ ~_is_confirmed_healthy -> Decision("none", st)
          [] _is_down /\ base.down < Grace -> Decision("none", base)
          [] _is_down /\ base.down >= Grace /\ st.cool # None /\ st.cool # 0 ->
                 Decision("none", base)
          [] OTHER ->
                 CASE tick.active = "yes"     -> AlertOnly(base, "live-active")
                   [] tick.active = "unknown" -> AlertOnly(base, "live-status-unknown")
                   [] tick.active = "no" /\ st.escalated ->
                        IF st.retried
                        THEN ReEscalate(base)
                        ELSE Decision("restart", [base EXCEPT !.retried = TRUE,
                                                              !.down = None])
                   [] OTHER -> RestartOrEscalate(base)

\* The decision is taken and the next state is written to Redis.
Decide ==
    /\ tick.at = "decide"
    /\ st' = decide.state
    /\ tick' = [tick EXCEPT !.at = "act", !.act = decide.action]
    /\ calm' = IF _is_down THEN calm ELSE 0
    /\ issued' = IF tick.connected THEN {} ELSE issued
    /\ UNCHANGED <<gw, probe, live, due, faults>>

\* The tick fails: before the write nothing is recorded; after it the action
\* is recorded and never carried out.  The host script does not act on it.
TickFails ==
    /\ tick.at \in {"decide", "act"}
    /\ Fault
    /\ tick' = NoTick
    /\ UNCHANGED <<gw, probe, live, st, due, issued, calm>>

\* docker compose up -d --force-recreate ib-gateway
Recreate ==
    /\ tick.at = "act" /\ tick.act = "restart"
    /\ gw' = "starting"
    /\ issued' = issued \cup {0}
    /\ tick' = NoTick
    /\ UNCHANGED <<probe, live, st, due, calm, faults>>

NoHostAction ==
    /\ tick.at = "act" /\ tick.act # "restart"
    /\ tick' = NoTick
    /\ UNCHANGED <<gw, probe, live, st, due, issued, calm, faults>>

\* gateway-watchdog-reset
Reset ==
    /\ tick.at = "idle" /\ st # Fresh
    /\ Fault
    /\ st' = Fresh /\ issued' = {}
    /\ UNCHANGED <<gw, probe, live, tick, due, calm>>

-----------------------------------------------------------------------------
Init ==
    /\ gw \in {"healthy", "stopped"} /\ probe = FALSE /\ live = FALSE
    /\ st = Fresh /\ tick = NoTick /\ due = FALSE
    /\ issued = {} /\ calm = 0 /\ faults = 0

TickStep == \/ Inspect \/ Probe \/ CountActive \/ Decide \/ Recreate \/ NoHostAction

Next ==
    \/ GatewayMoves \/ RestartedByOthers \/ ProbeRuns \/ DeploymentChanges \/ Elapse
    \/ TickStep \/ ProbeUnreachable \/ ProbeRefused \/ CountFails \/ TickFails \/ Reset

Spec == Init /\ [][Next]_vars

\* The timer fires, a tick runs to its end (TimeoutStartSec) and the start
\* period of a container ends.
Fairness ==
    /\ WF_vars(Elapse) /\ WF_vars(TickStep)
    /\ WF_vars(StartPeriodEnds)

FairSpec == Spec /\ Fairness

-----------------------------------------------------------------------------
TypeOK ==
    /\ gw \in {"stopped", "starting", "unhealthy", "healthy"}
    /\ probe \in BOOLEAN /\ live \in BOOLEAN /\ due \in BOOLEAN
    /\ st.down \in 0..Grace \cup {None}
    /\ st.restarts \in SUBSET (0..Window)
    /\ st.cool \in 0..Cooldown \cup {None}
    /\ st.reason \in {"none", "live-active", "live-status-unknown"}
    /\ tick.at \in {"idle", "probe", "count", "decide", "act"}
    /\ issued \subseteq 0..Window /\ calm \in 0..Grace /\ faults \in 0..MaxFaults

\* No restart storm: until the gateway has proved healthy (or an operator has
\* reset the counters) it is recreated at most Cap times within a Window,
\* whatever escalations, cooldowns and retries lie between.
NoRestartStorm == Cardinality(issued) <= Cap

\* The inductive invariant behind it. Before an escalation the recreates of a window are
\* among the restarts that decide() counts; after it they all happened before the
\* cooldown began; and the single retry comes when the cooldown has outlived them.
WatchIsTyped ==
    /\ st \in [down : Int, restarts : SUBSET (0 .. (Window - 1)), cool : Int, escalated : BOOLEAN,
               retried : BOOLEAN, reason : {"none", "live-active", "live-status-unknown"}, said : Nat]
    /\ tick \in [at : {"idle", "probe", "count", "decide", "act"},
                 seen : {"stopped", "starting", "unhealthy", "healthy"}, connected : BOOLEAN,
                 health : {"unknown", "starting", "healthy", "unhealthy"},
                 active : {"none", "yes", "no", "unknown"},
                 act : {"none", "recovered", "alert_only", "escalate", "restart"}]
    /\ tick.at = "decide" => tick.active # "none"
    /\ gw \in {"stopped", "starting", "unhealthy", "healthy"}
    /\ issued \subseteq 0 .. (Window - 1)
AboutToRecreate == tick.at = "act" /\ tick.act = "restart"
CountedBefore ==
    ~st.escalated =>
        /\ issued \subseteq st.restarts /\ Cardinality(st.restarts) <= Cap
        /\ AboutToRecreate => 0 \in st.restarts
QuietAfter ==
    st.escalated /\ ~st.retried =>
        /\ ~AboutToRecreate /\ Cardinality(issued) <= Cap
        /\ st.cool \in 0 .. Cooldown /\ \A a \in issued : a + st.cool >= Cooldown
SingleRetry ==
    st.escalated /\ st.retried =>
        /\ AboutToRecreate => issued = {}
        /\ Cardinality(issued) <= Cap
CapIsKept == WatchIsTyped /\ CountedBefore /\ QuietAfter /\ SingleRetry

Relieved == gw = "healthy" \/ live

\* The watchdog never gives up: a gateway that does not come back, with no
\* deployment on it, is recreated again and again.
KeepsTrying == []<>Relieved \/ []<><<Recreate>>_vars

\* Does not hold (docs/prds/ib-gateway-watchdog.md, "2 consecutive ticks"): a
\* gateway is recreated only after every tick of the last Grace saw it down.
\* Ticks that see a start period leave down_since as it was.
GraceIsServed == tick.at = "act" /\ tick.act = "restart" => calm >= Grace
=============================================================================
