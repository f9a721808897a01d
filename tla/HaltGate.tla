------------------------------ MODULE HaltGate ------------------------------
(***************************************************************************)
(* The node-side halt gate of a live strategy, layer 4 of the kill switch: *)
(* RiskAwareStrategy and the refresh task that wire_halt_refresh starts,    *)
(* with the IB disconnect handler of the same node.                        *)
(*                                                                         *)
(* The gate is synchronous and reads a cache, never Redis. Two readers fill *)
(* the cache: the refresh loop and the immediate refresh of the wiring.     *)
(* Time is a tick; ages saturate at Old.                                    *)
(***************************************************************************)
EXTENDS Integers

CONSTANTS
    MaxAge,      \* HALT_CACHE_MAX_AGE_S, in ticks
    MaxRead,     \* the Redis client's socket_timeout, in ticks
    Grace,       \* DEFAULT_GRACE_SECONDS of the disconnect handler, in ticks
    MaxOps       \* bound on the operators' requests and lost connections

VARIABLES
    latch,       \* for each latch: how long it has been set, Clear if it is not
    phase,       \* where the node is
    armed,       \* _halt_gate_armed
    cache,       \* the value of _halt_cache, "none" before the first refresh
    age,         \* how long ago the cache was stamped
    reader,      \* where each reader is
    lag,         \* how long ago each reader read the fleet latch
    worst,       \* how old a latch was, at most, when an opening order passed
    down,        \* how long IB has been disconnected, Clear while it is not
    timer,       \* _disconnected_since as an age, Clear for None
    handler,     \* where the disconnect handler is
    polled,      \* has it probed the connection in this tick?
    ops

latches == <<latch, ops>>
gate    == <<armed, cache, age, worst>>
readers == <<reader, lag>>
watcher == <<timer, handler>>
vars    == <<latches, phase, gate, readers, down, watcher, polled>>

Latches == {"fleet", "account"}
Readers == {"loop", "immediate"}
Clear   == -1
Bound   == MaxAge + MaxRead
Old     == Bound + Grace + 2
Aged(t) == IF t = Clear \/ t = Old THEN t ELSE t + 1
Eldest  == IF latch["fleet"] > latch["account"] THEN latch["fleet"] ELSE latch["account"]

-----------------------------------------------------------------------------
(* The latches.                                                            *)

Write(l) == latch' = [latch EXCEPT ![l] = IF @ = Clear THEN 0 ELSE @]

\* /kill-all or another node's safety layer latches the fleet (HALT_WRITE_LUA),
\* /drain one account; /resume and the 24 h time to live clear them.
SetLatch(l) ==
    /\ ops < MaxOps /\ Write(l) /\ ops' = ops + 1
    /\ UNCHANGED <<phase, gate, readers, down, watcher, polled>>

ClearLatch(l) ==
    /\ latch[l] # Clear
    /\ latch' = [latch EXCEPT ![l] = Clear]
    /\ UNCHANGED <<ops, phase, gate, readers, down, watcher, polled>>

-----------------------------------------------------------------------------
(* Wiring: on_post_build runs before the node trades.                       *)

\* Mutant: the gate is armed by the first refresh that succeeds.
WireUnarmed ==
    /\ phase = "built"
    /\ phase' \in {"wiring", "failed"}
    /\ reader' = [r \in Readers |-> IF r = "loop" THEN "idle" ELSE "fleet"]
    /\ UNCHANGED <<latches, gate, lag, down, watcher, polled>>

\* enforce_halt_gate_mro: a strategy whose submit methods are not the gated ones
\* fails the spawn; otherwise the gate is armed before the first refresh, and the
\* refresh loop exists whatever that refresh does.
wire_halt_refresh ==
    /\ phase = "built"
    /\ \/ phase' = "failed" /\ UNCHANGED <<armed, reader>>
       \/ /\ phase' = "wiring" /\ armed' = TRUE
          /\ reader' = [r \in Readers |-> IF r = "loop" THEN "idle" ELSE "fleet"]
    /\ UNCHANGED <<latches, cache, age, worst, lag, down, watcher, polled>>

\* The wiring returns, its refresh done or failed; the node trades, and the
\* disconnect handler is spawned (a failing spawn is tolerated).
TradingStarts ==
    /\ phase = "wiring" /\ reader["immediate"] = "idle"
    /\ phase' = "trading"
    /\ handler' \in {"poll", "none"}
    /\ UNCHANGED <<latches, gate, readers, down, timer, polled>>

-----------------------------------------------------------------------------
(* Refreshing the cache.                                                   *)

Goto(r, step) == reader' = [reader EXCEPT ![r] = step]

\* The loop's sleep is over.
RefreshDue ==
    /\ phase \in {"wiring", "trading"} /\ reader["loop"] = "idle"
    /\ Goto("loop", "fleet")
    /\ UNCHANGED <<latches, phase, gate, lag, down, watcher, polled>>

Stamp(r, value) ==
    /\ cache' = value /\ age' = 0 /\ Goto(r, "idle")

\* _read_halt_value: a set fleet latch is the answer ...
ReadFleet(r) ==
    /\ reader[r] = "fleet"
    /\ IF latch["fleet"] # Clear
       THEN Stamp(r, "halted") /\ UNCHANGED lag
       ELSE Goto(r, "account") /\ lag' = [lag EXCEPT ![r] = 0] /\ UNCHANGED <<cache, age>>
    /\ UNCHANGED <<latches, phase, armed, worst, down, watcher, polled>>

\* ... otherwise the account latch is. The stamp is taken after both reads.
ReadAccount(r) ==
    /\ reader[r] = "account"
    /\ Stamp(r, IF latch["account"] # Clear THEN "halted" ELSE "clear")
    /\ UNCHANGED <<latches, phase, armed, worst, lag, down, watcher, polled>>

\* A read fails or times out: the cache is left to age.
ReadFails(r) ==
    /\ reader[r] # "idle" /\ Goto(r, "idle")
    /\ UNCHANGED <<latches, phase, gate, lag, down, watcher, polled>>

-----------------------------------------------------------------------------
(* The gate.                                                               *)

\* Mutant: an old cache is trusted.
HaltIsActiveAnyAge == cache \in {"none", "halted"}

_halt_is_active == cache \in {"none", "halted"} \/ age > MaxAge

\* _run_risk_checks: position, daily loss, exposure and market hours, from the portfolio
\* the node holds at that moment; everything passes when no limits are wired.
RiskSuite == BOOLEAN

\* _gate_decision: reduce-only and MARKET_EXIT orders always pass; an armed gate
\* denies the rest under a halt; the risk suite may deny it after that.
_gate_decision(leg, suite) ==
    leg = "reduce" \/ ((~armed \/ ~_halt_is_active) /\ suite)

\* submit_order, modify_order and submit_order_list: one denied leg denies them all.
\* A denial is only recorded.
SubmitOrder ==
    /\ phase = "trading"
    /\ \E legs \in SUBSET {"open", "reduce"}, suite \in RiskSuite :
         /\ "open" \in legs
         /\ \A leg \in legs : _gate_decision(leg, suite)
    /\ worst' = IF Eldest > worst THEN Eldest ELSE worst
    /\ UNCHANGED <<latches, phase, armed, cache, age, readers, down, watcher, polled>>

-----------------------------------------------------------------------------
(* The IB disconnect handler.                                              *)

\* IB is lost; while the node starts, wait_until_ready fails instead.
Disconnects ==
    /\ phase = "trading" /\ down = Clear /\ ops < MaxOps
    /\ down' = 0 /\ ops' = ops + 1
    /\ UNCHANGED <<latch, phase, gate, readers, watcher, polled>>

Reconnects ==
    /\ down # Clear /\ down' = Clear
    /\ UNCHANGED <<latches, phase, gate, readers, watcher, polled>>

\* Mutant: a probe that fails counts as connected.
ProbeOptimistic == {down = Clear, TRUE}

\* _safe_check_connection: a probe that fails counts as disconnected.
_safe_check_connection == {down = Clear, FALSE}

\* One turn of run().
Poll ==
    /\ phase = "trading" /\ handler = "poll" /\ ~polled
    /\ \E connected \in _safe_check_connection :
         /\ timer' = IF connected THEN Clear ELSE IF timer = Clear THEN 0 ELSE timer
         /\ handler' = IF ~connected /\ timer >= Grace THEN "fire" ELSE "poll"
    /\ polled' = TRUE
    /\ UNCHANGED <<latches, phase, gate, readers, down>>

\* _fire_halt: up to HALT_SET_MAX_ATTEMPTS writes of the fleet latch ...
FireHalt ==
    /\ handler = "fire" /\ handler' = "onHalt"
    /\ Write("fleet") \/ UNCHANGED latch
    /\ UNCHANGED <<ops, phase, gate, readers, down, timer, polled>>

\* ... and on_halt, whatever became of them: the node shuts down.
OnHalt ==
    /\ handler = "onHalt" /\ handler' = "done"
    /\ phase' = "stopped"
    /\ reader' = [r \in Readers |-> "idle"]
    /\ UNCHANGED <<latches, gate, lag, down, timer, polled>>

-----------------------------------------------------------------------------
\* Time passes: no read outlasts the socket's time-out, a probe is made in every
\* tick, and the halt's writes and on_halt are over within one.
Tick ==
    /\ \A r \in Readers : reader[r] = "account" => lag[r] < MaxRead
    /\ phase = "trading" /\ handler # "none" => polled /\ handler = "poll"
    /\ latch' = [l \in Latches |-> Aged(latch[l])]
    /\ age' = Aged(age) /\ down' = Aged(down) /\ timer' = Aged(timer)
    /\ lag' = [r \in Readers |-> IF reader[r] = "account" THEN lag[r] + 1 ELSE lag[r]]
    /\ polled' = FALSE
    /\ UNCHANGED <<ops, phase, armed, cache, worst, reader, handler>>

Init ==
    /\ latch = [l \in Latches |-> Clear] /\ ops = 0
    /\ phase = "built" /\ armed = FALSE
    /\ cache = "none" /\ age = 0 /\ worst = Clear
    /\ reader = [r \in Readers |-> "idle"] /\ lag = [r \in Readers |-> 0]
    /\ down = Clear /\ timer = Clear /\ handler = "none" /\ polled = FALSE

Next ==
    \/ \E l \in Latches : SetLatch(l) \/ ClearLatch(l)
    \/ wire_halt_refresh \/ TradingStarts \/ RefreshDue
    \/ \E r \in Readers : ReadFleet(r) \/ ReadAccount(r) \/ ReadFails(r)
    \/ SubmitOrder \/ Disconnects \/ Reconnects \/ Poll \/ FireHalt \/ OnHalt
    \/ Tick

Spec == Init /\ [][Next]_vars

-----------------------------------------------------------------------------
TypeOK ==
    /\ latch \in [Latches -> Clear .. Old] /\ ops \in 0 .. MaxOps
    /\ phase \in {"built", "wiring", "trading", "failed", "stopped"}
    /\ armed \in BOOLEAN /\ cache \in {"none", "clear", "halted"}
    /\ age \in 0 .. Old /\ worst \in Clear .. Old
    /\ reader \in [Readers -> {"idle", "fleet", "account"}]
    /\ lag \in [Readers -> 0 .. MaxRead]
    /\ down \in Clear .. Old /\ timer \in Clear .. Old
    /\ handler \in {"none", "poll", "fire", "onHalt", "done"} /\ polled \in BOOLEAN

\* No opening order passes the gate once a latch has been set for longer than the
\* cache may be old and a read may take, however the two readers overlap, reads fail
\* or the first refresh never succeeds. (_halt_is_active; the arming order and the
\* socket time-out of wire_halt_refresh.)
HaltStopsOrders == worst <= Bound

\* A node does not trade on through an IB outage: when the connection has been down
\* for the grace period and two polls, the handler has begun to fire the halt, and
\* the node stops even if every write of the latch failed.
OutageStopsTrading ==
    phase = "trading" /\ handler = "poll" => down <= Grace + 1

\* Why the two hold, as an inductive invariant: what a reader or the cache believes to be
\* clear has not been latched for longer than that belief is old, and the handler's clock
\* runs at most one poll behind the outage.
ArmedFirst == phase \in {"wiring", "trading"} => armed

ClearIsRecent ==
    /\ \A r \in Readers : reader[r] = "account" => latch["fleet"] <= lag[r]
    /\ cache = "clear" => \A l \in Latches : latch[l] <= age + MaxRead

OutageIsTimed ==
    /\ phase \in {"built", "wiring"} => down = Clear /\ timer = Clear
    /\ phase = "trading" /\ handler = "poll" =>
         /\ down <= timer + 1 \/ (~polled /\ down <= 1)
         /\ timer < Grace \/ (~polled /\ timer = Grace)

SafeGate == TypeOK /\ HaltStopsOrders /\ ArmedFirst /\ ClearIsRecent /\ OutageIsTimed
=============================================================================
