----------------------------- MODULE FleetRouter -----------------------------
(***************************************************************************)
(* The life of ONE live deployment under the live supervisor: the row of   *)
(* live_deployments, its rows of live_node_processes, the trading          *)
(* subprocesses, and everyone who writes them:                             *)
(*                                                                         *)
(*   - the API requests /live/start-portfolio, /live/stop, /live/kill-all  *)
(*     and /live/resume (api/live.py), in another OS process;              *)
(*   - the supervisor's asyncio tasks (live_supervisor): the command       *)
(*     consumer, the restart task, the periodic re-scan, the reaper, the   *)
(*     startup watchdog with its ownerless-row backstop, and the           *)
(*     HeartbeatMonitor;                                                   *)
(*   - the trading subprocess itself (trading_node_subprocess.py).         *)
(*                                                                         *)
(* A step is one database transaction (all of them lock the deployment row *)
(* first), one Redis call or one synchronous stretch between two awaits.   *)
(* Rows are numbered in the order of started_at, so row n is the latest    *)
(* and row r is newer than q iff r > q.                                    *)
(***************************************************************************)
EXTENDS Integers, Sequences, FiniteSets, RestartPolicy

CONSTANTS
    MaxRows,       \* bound on the node rows ever inserted
    MaxAttempts,   \* _RESTART_TASK_MAX_ATTEMPTS
    MaxStarts,     \* bound on /start-portfolio requests
    MaxStops,      \* bound on /stop requests
    MaxHalts,      \* bound on /kill-all requests
    MaxFaults,     \* bound on Redis, database, payload and start() failures
    MaxCrashes,    \* bound on supervisor crashes and shutdowns
    SlowBoot       \* may a spawn outlast the stale-heartbeat threshold?

ASSUME BoundsAssumption ==
    /\ MaxRows \in Nat \ {0}  /\ MaxAttempts \in Nat \ {0}
    /\ MaxStarts \in Nat      /\ MaxStops \in Nat
    /\ MaxHalts \in Nat       /\ MaxFaults \in Nat
    /\ MaxCrashes \in Nat     /\ SlowBoot \in BOOLEAN

VARIABLES
    dep,       \* the live_deployments row: status, and the start generation
    rows,      \* the live_node_processes rows, by number
    n,         \* how many of them have been inserted
    child,     \* the subprocess spawned for each row
    sig,       \* is that subprocess, still alive, under a SIGTERM?
    handle,    \* node_handle_cache: the row whose process handle is held, or 0
    reap,      \* the row whose exit reap_once is processing, or 0
    task,      \* what each supervisor task is doing
    halt,      \* the halt latch in Redis
    stream,    \* commands published and not yet delivered, in order
    pel,       \* delivered commands that were not ACKed, by type
    api,       \* the /start-portfolio request in progress
    apiFloor,  \* the rows that request ignores when they are terminal
    stopReq,   \* the /stop and the /kill-all request in progress
    inflight,  \* is the key inflight_stop set in Redis?
    sup,       \* the supervisor process
    intent,    \* history: the operator's last word on this deployment
    used       \* how much of each bound has been used

db    == <<dep, rows, n>>
procs == <<child, sig>>
mem   == <<handle, reap, task>>
bus   == <<stream, pel>>
reqs  == <<api, apiFloor, stopReq, inflight>>
env   == <<halt, sup, intent, used>>
vars  == <<db, procs, mem, bus, reqs, env>>

RowIds == 1 .. MaxRows
Spawners == {"consumer", "restart", "rescan"}
Actors == Spawners \cup {"watchdog"}
Commands == {"START", "STOP"}
Stoppers == {"stop", "killAll"}

StartupStatuses == {"starting", "building"}
LiveStatuses    == {"starting", "building", "ready", "running"}
ActiveStatuses  == LiveStatuses \cup {"stopping"}
RowStatuses     == ActiveStatuses \cup {"stopped", "failed", "absent"}
\* The code never writes "building", "ready" or "stopping" to a deployment row.
DepLive         == {"starting", "running"}
DepStatuses     == DepLive \cup {"stopped", "failed"}

AliveStates == {"booting", "building", "ready", "running", "exiting0", "exiting1"}
ChildStates == AliveStates \cup {"none", "exited0", "exited1"}

\* The steps of a spawn between Phase A's commit and the end of Phase C: the
\* row is in _in_flight_spawn_rows exactly while its task is at one of them.
\* At ReservedSteps the process handle is not installed yet.
ReservedSteps == {"haltCheck", "payload", "recheck", "gate", "start", "failing",
                  "terminalize", "cancelled"}
InFlightSteps == ReservedSteps \cup {"phaseC"}
Steps == InFlightSteps \cup
         {"idle", "phaseA", "stopTx", "stopSig", "ctx", "gates", "backoff",
          "refail", "giveup", "ackStart", "ackStop", "flip"}
StopSteps == {"idle", "latched", "publish", "add", "polling", "sawTerminal"}

Dep  == [status : DepStatuses, gen : Nat]
Used == [starts : Nat, stops : Nat, halts : Nat, faults : Nat, crashes : Nat]
Row  == [status : RowStatuses, kind : FailureKinds, stop : BOOLEAN, pid : BOOLEAN,
         gen : Nat, disp : BOOLEAN, fails : Nat, paused : BOOLEAN,
         stale : BOOLEAN, local : BOOLEAN, auto : BOOLEAN]
Task == [at : Steps, row : 0 .. MaxRows, kind : FailureKinds, ack : BOOLEAN,
         fails : Nat, paused : BOOLEAN, try : Nat, owned : 0 .. MaxRows]

NoRow == [status |-> "absent", kind |-> "null", stop |-> FALSE, pid |-> FALSE,
          gen |-> 0, disp |-> FALSE, fails |-> 0, paused |-> FALSE,
          stale |-> FALSE, local |-> TRUE, auto |-> FALSE]
Idle  == [at |-> "idle", row |-> 0, kind |-> "null", ack |-> TRUE,
          fails |-> 0, paused |-> FALSE, try |-> 0, owned |-> 0]

-----------------------------------------------------------------------------
(* Reads shared by the actors.                                             *)

Active(r)   == rows[r].status \in ActiveStatuses
ActiveRows  == {r \in RowIds : Active(r)}
Alive(r)    == child[r] \in AliveStates
\* The heartbeat thread runs from _self_write_pid until the terminal mark.
Beating(r)  == child[r] \in {"building", "ready", "running"}
InFlight(r) == \E a \in Actors : task[a].row = r /\ task[a].at \in InFlightSteps
HandleAlive == handle # 0 /\ Alive(handle)

\* stop_requested_at of the deployment's latest row.
latest_stop_requested_at == n # 0 /\ rows[n].stop

\* Mutant: the sync without its guard.
SyncedUnguarded(status) == [dep EXCEPT !.status = status]

\* The guarded deployment sync that follows a terminal write of a node row.
Synced(status) == [dep EXCEPT !.status = IF @ \in DepLive THEN status ELSE @]

\* A heartbeat's age is only ever read of active rows: a failed row forgets it.
Failed(r, kind) ==
    [rows EXCEPT ![r] = [@ EXCEPT !.status = "failed", !.kind = kind, !.stale = FALSE]]

Fault == used.faults < MaxFaults /\ used' = [used EXCEPT !.faults = @ + 1]

Goto(a, step) == task' = [task EXCEPT ![a].at = step]
StopGoto(c, step) == stopReq' = [stopReq EXCEPT ![c] = step]

-----------------------------------------------------------------------------
(* /live/start-portfolio                                                   *)

\* The request is admitted: no halt, and a supervisor's heartbeat.
ApiAdmit ==
    /\ api = "idle" /\ used.starts < MaxStarts
    /\ ~halt /\ sup = "up"
    /\ api' = "admitted"
    /\ used' = [used EXCEPT !.starts = @ + 1]
    /\ UNCHANGED <<db, procs, mem, bus, apiFloor, stopReq, inflight, halt, sup, intent>>

\* The upsert: a live status is kept, anything else becomes "starting", and
\* last_started_at moves on, so older rows no longer belong to this attempt.
ApiStart ==
    /\ api = "admitted" /\ api' = "upserted"
    /\ dep' = [status |-> IF dep.status \in DepLive THEN dep.status ELSE "starting",
               gen    |-> dep.gen + 1]
    /\ intent' = "start"
    /\ UNCHANGED <<rows, n, procs, mem, bus, apiFloor, stopReq, inflight, halt, sup, used>>

\* An active process answers the request without a command.
ApiAlreadyActive ==
    /\ api = "upserted"
    /\ \E r \in RowIds :
         /\ rows[r].status \in LiveStatuses
         /\ dep' = IF rows[r].status \in {"ready", "running"}
                   THEN [dep EXCEPT !.status = "running"] ELSE dep
    /\ api' = "idle"
    /\ UNCHANGED <<rows, n, procs, mem, bus, apiFloor, stopReq, inflight, env>>

\* Otherwise START is published; a failed publish marks the deployment failed.
ApiPublishStart ==
    /\ api = "upserted"
    /\ \A r \in RowIds : rows[r].status \notin LiveStatuses
    /\ \/ /\ stream' = Append(stream, "START")
          /\ api' = "polling" /\ apiFloor' = n
          /\ UNCHANGED <<dep, used>>
       \/ /\ Fault
          /\ dep' = [dep EXCEPT !.status = "failed"]
          /\ api' = "idle" /\ UNCHANGED <<stream, apiFloor>>
    /\ UNCHANGED <<rows, n, procs, mem, pel, stopReq, inflight, halt, sup, intent>>

\* The row _poll_for_terminal looks at: the latest one that is ready or
\* running, or that did not exist when START was published.
PolledRow ==
    LET seen == {r \in RowIds : \/ rows[r].status \in {"ready", "running"}
                                \/ r > apiFloor /\ r <= n}
    IN  IF seen = {} THEN 0 ELSE CHOOSE r \in seen : \A q \in seen : q <= r

ApiPoll ==
    /\ api = "polling" /\ PolledRow # 0
    /\ \/ rows[PolledRow].status \in {"ready", "running"} /\ api' = "sawReady"
       \/ rows[PolledRow].status \in {"failed", "stopped"} /\ api' = "idle"
    /\ apiFloor' = 0
    /\ UNCHANGED <<db, procs, mem, bus, stopReq, inflight, env>>

\* The request then writes the deployment row without locking or re-reading it.
ApiCommitRunning ==
    /\ api = "sawReady" /\ api' = "idle"
    /\ dep' = [dep EXCEPT !.status = "running"]
    /\ UNCHANGED <<rows, n, procs, mem, bus, apiFloor, stopReq, inflight, env>>

\* The poll deadline: with no active node row the deployment is failed, by a later
\* statement and without its lock.
ApiPollTimeout ==
    /\ api = "polling"
    /\ api' = IF ActiveRows = {} THEN "timedOut" ELSE "idle"
    /\ apiFloor' = 0
    /\ UNCHANGED <<db, procs, mem, bus, stopReq, inflight, env>>

ApiTimeoutFlip ==
    /\ api = "timedOut" /\ api' = "idle"
    /\ dep' = [dep EXCEPT !.status = IF @ = "starting" THEN "failed" ELSE @]
    /\ UNCHANGED <<rows, n, procs, mem, bus, apiFloor, stopReq, inflight, env>>

-----------------------------------------------------------------------------
(* /live/stop, /live/kill-all and /live/resume                             *)

\* What /stop and FleetRouter.stop do when the deployment has no active row:
\* a latest failed row without the intent is stamped and nothing else happens;
\* otherwise a live deployment becomes "stopped".
StopWithoutActiveRow ==
    IF dep.status # "stopped" /\ n # 0 /\ rows[n].status = "failed" /\ ~rows[n].stop
    THEN rows' = [rows EXCEPT ![n].stop = TRUE] /\ dep' = dep
    ELSE rows' = rows /\ dep' = Synced("stopped")

\* live_stop's transaction; with an active row the intent is stamped on it and
\* a STOP command is still to be published.
ApiStop ==
    /\ stopReq["stop"] = "idle" /\ used.stops < MaxStops /\ dep.gen > 0
    /\ IF ActiveRows = {}
       THEN StopWithoutActiveRow /\ stopReq' = stopReq /\ intent' = "stop"
       ELSE /\ rows' = [r \in RowIds |-> IF Active(r) THEN [rows[r] EXCEPT !.stop = TRUE]
                                                      ELSE rows[r]]
            /\ StopGoto("stop", "publish") /\ UNCHANGED <<dep, intent>>
    /\ used' = [used EXCEPT !.stops = @ + 1]
    /\ UNCHANGED <<n, procs, mem, bus, api, apiFloor, inflight, halt, sup>>

\* live_kill_all sets the latch first and reads the live rows afterwards.
KillAllLatch ==
    /\ stopReq["killAll"] = "idle" /\ used.halts < MaxHalts /\ used.starts > 0
    /\ halt' = TRUE /\ StopGoto("killAll", "latched")
    /\ used' = [used EXCEPT !.halts = @ + 1]
    /\ UNCHANGED <<db, procs, mem, bus, api, apiFloor, inflight, sup, intent>>

\* The operator's word counts once the /stop was accepted.
Accepted(c) == intent' = IF c = "stop" THEN "stop" ELSE intent

\* coalesce_or_publish_stop_with_flatness: SET NX of the in-flight key. A stop
\* that finds it set publishes nothing and polls for the other one's report ...
Coalesce(c) ==
    /\ inflight' = TRUE
    /\ IF inflight THEN StopGoto(c, "polling") /\ Accepted(c)
                   ELSE StopGoto(c, "add") /\ UNCHANGED intent

ApiStopPublish ==
    /\ stopReq["stop"] = "publish" /\ Coalesce("stop")
    /\ UNCHANGED <<db, procs, mem, bus, api, apiFloor, halt, sup, used>>

\* Mutant: only rows that finished starting are selected.
KillAllRunningOnly ==
    /\ stopReq["killAll"] = "latched"
    /\ IF \E r \in RowIds : rows[r].status \in {"ready", "running"}
       THEN Coalesce("killAll")
       ELSE StopGoto("killAll", "idle") /\ UNCHANGED <<inflight, intent>>
    /\ UNCHANGED <<db, procs, mem, bus, api, apiFloor, halt, sup, used>>

\* live_kill_all selects the deployments with a live row.
KillAllPublish ==
    /\ stopReq["killAll"] = "latched"
    /\ IF \E r \in RowIds : rows[r].status \in LiveStatuses
       THEN Coalesce("killAll")
       ELSE StopGoto("killAll", "idle") /\ UNCHANGED <<inflight, intent>>
    /\ UNCHANGED <<db, procs, mem, bus, api, apiFloor, halt, sup, used>>

\* ... and the one that set it adds the command, or deletes the key again.
PublishStop(c) ==
    /\ stopReq[c] = "add"
    /\ \/ /\ stream' = Append(stream, "STOP") /\ StopGoto(c, "polling")
          /\ Accepted(c) /\ UNCHANGED <<inflight, used>>
       \/ /\ Fault /\ inflight' = FALSE /\ StopGoto(c, "idle")
          /\ UNCHANGED <<stream, intent>>
    /\ UNCHANGED <<db, procs, mem, pel, api, apiFloor, halt, sup>>

\* live_stop polls until the latest row is terminal or gives up ...
ApiStopPoll ==
    /\ stopReq["stop"] = "polling"
    /\ \/ StopGoto("stop", "idle")
       \/ rows[n].status \in {"stopped", "failed"} /\ StopGoto("stop", "sawTerminal")
    /\ UNCHANGED <<db, procs, mem, bus, api, apiFloor, inflight, env>>

\* ... and then writes "stopped" without locking or re-reading the deployment,
\* and deletes the key, whoever has set it by now.
ApiStopCommit ==
    /\ stopReq["stop"] = "sawTerminal" /\ StopGoto("stop", "idle")
    /\ dep' = [dep EXCEPT !.status = "stopped"] /\ inflight' = FALSE
    /\ UNCHANGED <<rows, n, procs, mem, bus, api, apiFloor, env>>

\* live_kill_all polls for the flatness report and deletes the key if it arrives.
KillAllPoll ==
    /\ stopReq["killAll"] = "polling" /\ StopGoto("killAll", "idle")
    /\ inflight' \in {FALSE, inflight}
    /\ UNCHANGED <<db, procs, mem, bus, api, apiFloor, env>>

\* The key's time to live.
InflightExpires ==
    /\ inflight /\ inflight' = FALSE
    /\ UNCHANGED <<db, procs, mem, bus, api, apiFloor, stopReq, env>>

Resume ==
    /\ halt /\ halt' = FALSE
    /\ UNCHANGED <<db, procs, mem, bus, reqs, sup, intent, used>>

-----------------------------------------------------------------------------
(* The spawn: Phase A, Phase B and Phase C, run by the consumer for a START *)
(* and by the restart task and the re-scan with a restart_carry.            *)

Carry(a) == a # "consumer"

\* Is a redelivered START of a failed deployment still this attempt's own
\* transient failure?
RetryEligible == n # 0 /\ rows[n].gen = dep.gen /\ is_retry_eligible(rows[n].kind)

\* Mutant: an active row does not refuse a second reservation.
PhaseAWithoutActiveCheck(a, gwBusy) ==
    IF dep.status = "stopped" THEN "OPERATOR_STOPPED"
    ELSE IF Carry(a) /\ latest_stop_requested_at THEN "OPERATOR_STOPPED"
    ELSE IF \E r \in RowIds : rows[r].status = "stopping" THEN "BUSY_STOPPING"
    ELSE IF dep.status = "failed" /\ ~Carry(a) /\ ~RetryEligible THEN "NOT_STARTABLE"
    ELSE IF gwBusy THEN "CONCURRENT_STARTUP"
    ELSE "RESERVED"

\* _phase_a_reserve_slot's early returns, in their order. gwBusy: another
\* deployment is starting on the same gateway.
PhaseAOutcome(a, gwBusy) ==
    IF dep.status = "stopped" THEN "OPERATOR_STOPPED"
    ELSE IF Carry(a) /\ latest_stop_requested_at THEN "OPERATOR_STOPPED"
    ELSE IF \E r \in RowIds : rows[r].status = "stopping" THEN "BUSY_STOPPING"
    ELSE IF ActiveRows # {} THEN "ALREADY_ACTIVE"
    ELSE IF dep.status = "failed" /\ ~Carry(a) /\ ~RetryEligible THEN "NOT_STARTABLE"
    ELSE IF gwBusy THEN "CONCURRENT_STARTUP"
    ELSE "RESERVED"

\* What the caller of spawn_with_outcome does with (ack, process_started).
\* No ACK: the consumer leaves START in the PEL; a restart re-fails its row.
AfterSpawn(a, ack) ==
    /\ task' = [task EXCEPT ![a] =
                  IF Carry(a) THEN IF ack THEN Idle ELSE [@ EXCEPT !.at = "refail"]
                  ELSE IF ack THEN [Idle EXCEPT !.at = "ackStart"] ELSE Idle]
    /\ pel' = IF ~Carry(a) /\ ~ack THEN [pel EXCEPT !["START"] = @ + 1] ELSE pel

\* The next round of _run_restart_task's retry loop; the re-scan just goes on.
NextAttempt(a) ==
    task' = [task EXCEPT ![a] =
       IF a = "rescan" THEN Idle
       ELSE IF @.try < MaxAttempts
            THEN [Idle EXCEPT !.at = "ctx", !.try = task[a].try + 1, !.owned = task[a].owned]
            ELSE [Idle EXCEPT !.at = "giveup", !.owned = task[a].owned]]

\* An exception out of spawn_with_outcome.
SpawnRaises(a) ==
    IF Carry(a) THEN NextAttempt(a) /\ pel' = pel
    ELSE /\ task' = [task EXCEPT ![a] = Idle]
         /\ pel' = [pel EXCEPT !["START"] = @ + 1]

NewRow(a, within) ==
    LET count == IF Carry(a)
                 THEN record_failure(task[a].fails, task[a].paused, within)
                 ELSE record_success
    IN  [NoRow EXCEPT !.status = "starting", !.gen = dep.gen, !.auto = Carry(a),
                      !.fails = count.fails, !.paused = count.paused]

phase_a_reserve_slot(a) ==
    /\ task[a].at = "phaseA"
    /\ \E gwBusy \in BOOLEAN :
         LET outcome == PhaseAOutcome(a, gwBusy) IN
         IF outcome = "RESERVED"
         THEN /\ n < MaxRows
              /\ \E within \in BOOLEAN : rows' = [rows EXCEPT ![n + 1] = NewRow(a, within)]
              /\ n' = n + 1
              /\ dep' = [dep EXCEPT !.status = IF @ = "failed" THEN "starting" ELSE @]
              /\ task' = [task EXCEPT ![a] = [@ EXCEPT !.at = "haltCheck", !.row = n + 1]]
              /\ pel' = pel
         ELSE /\ AfterSpawn(a, outcome \notin {"BUSY_STOPPING", "CONCURRENT_STARTUP"})
              /\ UNCHANGED db
    /\ UNCHANGED <<procs, handle, reap, stream, reqs, env>>

\* Leave for _mark_failed with a kind, and with the ACK to return after it.
Fail(a, kind, ack) ==
    task' = [task EXCEPT ![a] = [@ EXCEPT !.at = "failing", !.kind = kind, !.ack = ack]]

\* The halt checks that open Phase B and, repeated, follow the payload factory.
\* A failing fleet-halt read raises; a failing account-halt read is marked
\* transient and ACKed.
HaltCheck(a, here, next) ==
    /\ task[a].at = here
    /\ \/ ~halt /\ Goto(a, next) /\ UNCHANGED <<pel, used>>
       \/ halt /\ Fail(a, "neverran", TRUE) /\ UNCHANGED <<pel, used>>
       \/ Fault /\ SpawnRaises(a)
       \/ Fault /\ Fail(a, "transient", TRUE) /\ UNCHANGED pel
    /\ UNCHANGED <<db, procs, handle, reap, stream, reqs, halt, sup, intent>>

\* The payload factory: success, a permanent error (ACK) or a transient one.
PayloadFactory(a) ==
    /\ task[a].at = "payload"
    /\ \/ Goto(a, "recheck") /\ UNCHANGED used
       \/ Fault /\ Fail(a, "neverran", TRUE)
       \/ Fault /\ Fail(a, "transient", FALSE)
    /\ UNCHANGED <<db, procs, handle, reap, bus, reqs, halt, sup, intent>>

\* The pre-start gate reads the latest row's stop intent (unreadable: stopped).
StopIntentGate(a) ==
    /\ task[a].at = "gate"
    /\ \/ /\ Goto(a, IF latest_stop_requested_at THEN "terminalize" ELSE "start")
          /\ UNCHANGED used
       \/ Fault /\ Goto(a, "terminalize")
    /\ UNCHANGED <<db, procs, handle, reap, bus, reqs, halt, sup, intent>>

\* process.start(), and the handle goes into the cache in the same stretch.
StartProcess(a) ==
    /\ task[a].at = "start"
    /\ \/ /\ child' = [child EXCEPT ![task[a].row] = "booting"]
          /\ handle' = task[a].row /\ Goto(a, "phaseC") /\ UNCHANGED used
       \/ Fault /\ Fail(a, "neverran", TRUE) /\ UNCHANGED <<child, handle>>
    /\ UNCHANGED <<db, sig, reap, bus, reqs, halt, sup, intent>>

\* Mutant: Phase C records the pid and does not re-read the stop intent.
PhaseCWithoutReread(a) ==
    /\ task[a].at = "phaseC"
    /\ rows' = [rows EXCEPT ![task[a].row].pid = TRUE]
    /\ AfterSpawn(a, TRUE)
    /\ UNCHANGED <<dep, n, procs, handle, reap, stream, reqs, env>>

\* Phase C records the pid and re-reads the intent under the node row's lock;
\* a /stop that raced the start terminates the child. A failing write is logged.
PhaseC(a) ==
    /\ task[a].at = "phaseC"
    /\ LET r == task[a].row IN
       \/ /\ rows' = [rows EXCEPT ![r].pid = TRUE]
          /\ sig' = [sig EXCEPT ![r] = @ \/ (rows[r].stop /\ Alive(r))]
          /\ UNCHANGED used
       \/ Fault /\ UNCHANGED <<rows, sig>>
    /\ AfterSpawn(a, TRUE)
    /\ UNCHANGED <<dep, n, child, handle, reap, stream, reqs, halt, sup, intent>>

\* _mark_failed writes the row whatever its status is by now.
mark_failed(a) ==
    /\ task[a].at = "failing"
    /\ \/ /\ rows' = Failed(task[a].row, task[a].kind) /\ dep' = Synced("failed")
          /\ AfterSpawn(a, task[a].ack) /\ UNCHANGED used
       \/ /\ Fault /\ UNCHANGED <<rows, dep>>
          /\ IF task[a].kind = "transient" THEN AfterSpawn(a, task[a].ack)
                                           ELSE SpawnRaises(a)
    /\ UNCHANGED <<n, procs, handle, reap, stream, reqs, halt, sup, intent>>

\* The row write of _terminalize_reserved_row: only a live row, and a kind
\* that is already there is kept.
Terminalized(r) ==
    IF rows[r].status \in LiveStatuses
    THEN /\ rows' = Failed(r, IF rows[r].kind = "null" THEN "transient" ELSE rows[r].kind)
         /\ dep' = Synced("failed")
    ELSE UNCHANGED <<rows, dep>>

terminalize_reserved_row(a) ==
    /\ task[a].at = "terminalize"
    /\ \/ Terminalized(task[a].row) /\ UNCHANGED used
       \/ Fault /\ UNCHANGED <<rows, dep>>
    /\ AfterSpawn(a, TRUE)
    /\ UNCHANGED <<n, procs, handle, reap, stream, reqs, halt, sup, intent>>

-----------------------------------------------------------------------------
(* The consumer: one command of the account's stream at a time.            *)

\* A new command, in order, or an un-ACKed one that XAUTOCLAIM redelivers.
Deliver(cmd) ==
    /\ task["consumer"].at = "idle"
    /\ \/ stream # <<>> /\ Head(stream) = cmd /\ stream' = Tail(stream) /\ pel' = pel
       \/ pel[cmd] > 0 /\ pel' = [pel EXCEPT ![cmd] = @ - 1] /\ stream' = stream
    /\ Goto("consumer", IF cmd = "START" THEN "phaseA" ELSE "stopTx")
    /\ UNCHANGED <<db, procs, handle, reap, reqs, env>>

\* Mutant: the dead-lettering does not check that the command is pending.
MoveToDlqUnguarded(cmd) ==
    /\ pel' = [pel EXCEPT ![cmd] = @ - 1]
    /\ UNCHANGED <<db, procs, mem, stream, reqs, env>>

\* A command past its delivery limit goes to the dead-letter stream.
MoveToDlq(cmd) ==
    /\ task["consumer"].at = "idle"
    /\ pel[cmd] > 0 /\ pel' = [pel EXCEPT ![cmd] = @ - 1]
    /\ UNCHANGED <<db, procs, mem, stream, reqs, env>>

\* FleetRouter.stop's transaction. A row of another host is not ACKed.
stop ==
    /\ task["consumer"].at = "stopTx"
    /\ IF ActiveRows = {}
       THEN StopWithoutActiveRow /\ Goto("consumer", "ackStop") /\ pel' = pel
       ELSE \E r \in ActiveRows :
              /\ dep' = dep
              /\ IF rows[r].local
                 THEN /\ rows' = [rows EXCEPT ![r] = [@ EXCEPT !.status = "stopping", !.stop = TRUE]]
                      /\ task' = [task EXCEPT !["consumer"] =
                           [@ EXCEPT !.at = "stopSig", !.row = IF rows[r].pid THEN r ELSE 0]]
                      /\ pel' = pel
                 ELSE /\ rows' = rows /\ Goto("consumer", "idle")
                      /\ pel' = [pel EXCEPT !["STOP"] = @ + 1]
    /\ UNCHANGED <<n, procs, handle, reap, stream, reqs, env>>

\* SIGTERM to the cached process, or to the pid the transaction read.
StopSignal ==
    /\ task["consumer"].at = "stopSig"
    /\ LET target == IF handle # 0 THEN handle ELSE task["consumer"].row
       IN  sig' = [r \in RowIds |-> sig[r] \/ (r = target /\ Alive(r))]
    /\ task' = [task EXCEPT !["consumer"] = [Idle EXCEPT !.at = "ackStop"]]
    /\ UNCHANGED <<db, child, handle, reap, bus, reqs, env>>

\* A command in the consumer's hands is still un-ACKed in the PEL.
InHand == IF task["consumer"].at = "idle" THEN pel
          ELSE IF task["consumer"].at \in {"stopTx", "stopSig", "ackStop"}
               THEN [pel EXCEPT !["STOP"] = @ + 1]
               ELSE [pel EXCEPT !["START"] = @ + 1]

\* So are the next k commands when they were read in the same batch: whoever
\* drops the batch leaves them to a later XAUTOCLAIM.
Stranded(k) == [c \in Commands |-> InHand[c] + Cardinality({i \in 1 .. k : stream[i] = c})]

DropBatch == \E k \in 0 .. Len(stream) :
    pel' = Stranded(k) /\ stream' = SubSeq(stream, k + 1, Len(stream))

\* The ACK of a handled command; when it fails the consume loop starts over.
Ack ==
    /\ task["consumer"].at \in {"ackStart", "ackStop"}
    /\ \/ UNCHANGED <<bus, used>>
       \/ Fault /\ DropBatch
    /\ task' = [task EXCEPT !["consumer"] = Idle]
    /\ UNCHANGED <<db, procs, handle, reap, reqs, halt, sup, intent>>

-----------------------------------------------------------------------------
(* Auto-restart: the restart task the reaper schedules, and the re-scan.   *)

\* _load_restart_context: the latest row's counters are what Phase A will carry;
\* no row, no restart.
load_restart_context(a) ==
    /\ task[a].at = "ctx"
    /\ \/ /\ task' = [task EXCEPT ![a] =
                         IF n = 0 THEN Idle
                         ELSE [@ EXCEPT !.at = "gates", !.fails = rows[n].fails,
                                        !.paused = rows[n].paused]]
          /\ UNCHANGED used
       \/ Fault /\ NextAttempt(a)
    /\ UNCHANGED <<db, procs, handle, reap, bus, reqs, halt, sup, intent>>

\* The gates before a decision (unreadable: closed) and the decision itself;
\* the re-scan does not wait for a backoff.
RestartGates(a) ==
    /\ task[a].at = "gates"
    /\ \/ /\ halt \/ latest_stop_requested_at
          /\ task' = [task EXCEPT ![a] = Idle] /\ UNCHANGED used
       \/ Fault /\ task' = [task EXCEPT ![a] = Idle]
       \/ /\ ~halt /\ ~latest_stop_requested_at
          /\ \E action \in decide(task[a].fails, task[a].paused) :
               task' = [task EXCEPT ![a] =
                  IF action = "RESTART" THEN [@ EXCEPT !.at = "phaseA"]
                  ELSE IF action = "BACKOFF" /\ a = "restart" THEN [@ EXCEPT !.at = "backoff"]
                  ELSE Idle]
          /\ UNCHANGED used
    /\ UNCHANGED <<db, procs, handle, reap, bus, reqs, halt, sup, intent>>

\* The cancellable backoff ends on a halt, or the intent is read once more.
Backoff(a) ==
    /\ task[a].at = "backoff"
    /\ task' = [task EXCEPT ![a] = IF halt \/ latest_stop_requested_at
                                   THEN Idle ELSE [@ EXCEPT !.at = "phaseA"]]
    /\ UNCHANGED <<db, procs, handle, reap, bus, reqs, env>>

NewerActive(r) == \E q \in RowIds : q > r /\ Active(q)

\* _refail_stranded_restart: the row this attempt reserved, if any.
refail_stranded_restart(a) ==
    /\ task[a].at = "refail"
    /\ LET r == task[a].row IN
       IF r = 0 THEN UNCHANGED <<rows, dep>>
       ELSE /\ rows' = IF rows[r].status \in LiveStatuses THEN Failed(r, "transient") ELSE rows
            /\ dep' = IF NewerActive(r) THEN dep ELSE Synced("failed")
    /\ NextAttempt(a)
    /\ UNCHANGED <<n, procs, handle, reap, bus, reqs, env>>

\* The row a restart gives up on: no longer dispatched, and failed if it is live.
GivenUp(r) ==
    IF rows[r].status \in LiveStatuses
    THEN [rows[r] EXCEPT !.disp = FALSE, !.status = "failed",
                         !.kind = IF @ = "null" THEN "transient" ELSE @]
    ELSE [rows[r] EXCEPT !.disp = FALSE]

\* _clear_sentinel_and_refail_after_giveup: the row whose crash was dispatched.
clear_sentinel_and_refail_after_giveup(a) ==
    /\ task[a].at = "giveup"
    /\ LET r == task[a].owned
       IN  /\ rows' = [rows EXCEPT ![r] = GivenUp(r)]
           /\ dep' = IF NewerActive(r) THEN dep ELSE Synced("failed")
    /\ task' = [task EXCEPT ![a] = Idle]
    /\ UNCHANGED <<n, procs, handle, reap, bus, reqs, env>>

\* Mutant: the stale flip is scoped to this host's rows, as the watchdog is.
StaleLatestOfThisHost ==
    n # 0 /\ rows[n].status \in LiveStatuses /\ rows[n].stale /\ rows[n].local

StaleLatest == n # 0 /\ rows[n].status \in LiveStatuses /\ rows[n].stale

\* _load_rescan_candidates: flip a stale latest row, then select the candidate.
rescan_for_restart ==
    /\ task["rescan"].at = "idle" /\ n # 0
    /\ rows' = IF StaleLatest THEN Failed(n, "crash") ELSE rows
    /\ dep' = IF StaleLatest THEN Synced("failed") ELSE dep
    /\ LET candidate == /\ rows'[n].status = "failed" /\ dep'.status = "failed"
                        /\ ~rows'[n].paused /\ ~rows'[n].stop
                        /\ is_recoverable_crash(rows'[n].kind)
       IN  /\ candidate \/ StaleLatest
           /\ IF candidate THEN Goto("rescan", "ctx") ELSE task' = task
    /\ UNCHANGED <<n, procs, handle, reap, bus, reqs, env>>

\* A transaction or a read of a supervisor task fails and changes nothing: the
\* spawn raises, a STOP is not ACKed, an unreadable gate is closed, and the
\* best-effort writes are only logged.
TransactionFails(a) ==
    /\ Fault
    /\ \/ task[a].at = "phaseA" /\ SpawnRaises(a)
       \/ task[a].at = "refail" /\ NextAttempt(a) /\ pel' = pel
       \/ /\ task[a].at \in {"backoff", "giveup", "flip"}
          /\ task' = [task EXCEPT ![a] = Idle] /\ pel' = pel
       \/ /\ task[a].at = "stopTx"
          /\ task' = [task EXCEPT ![a] = Idle] /\ pel' = [pel EXCEPT !["STOP"] = @ + 1]
    /\ UNCHANGED <<db, procs, handle, reap, stream, reqs, halt, sup, intent>>

-----------------------------------------------------------------------------
(* The reaper, the watchdog, the ownerless backstop, the HeartbeatMonitor.  *)

\* reap_once sees a dead cached process ...
reap_once ==
    /\ reap = 0 /\ handle # 0 /\ ~Alive(handle)
    /\ reap' = handle
    /\ UNCHANGED <<db, procs, handle, task, bus, reqs, env>>

\* Mutant: the eviction does not compare the handle.
EvictedAny(r) == 0

\* The handle is evicted only if it is still the one that exited.
Evicted(r) == IF handle = r THEN 0 ELSE handle

ExitStatus(r) == IF child[r] = "exited0" THEN "stopped" ELSE "failed"

\* The classification is written only where nobody has classified the row.
ExitKind(r) ==
    IF Active(r) /\ rows[r].kind = "null"
    THEN IF child[r] = "exited0" THEN "none" ELSE "crash"
    ELSE rows[r].kind

\* The exit schedules a restart, once per row.
Dispatches(r) ==
    /\ child[r] # "exited0" /\ is_recoverable_crash(ExitKind(r))
    /\ ~rows[r].stop /\ ~rows[r].disp

Exited(r) ==
    [rows[r] EXCEPT !.status = IF Active(r) THEN ExitStatus(r) ELSE @,
                    !.kind = ExitKind(r), !.disp = @ \/ Dispatches(r)]

\* ... and _on_child_exit classifies the exit on the row that process owns.
on_child_exit ==
    /\ reap # 0 /\ reap' = 0
    /\ LET r == reap
       IN  /\ rows' = [rows EXCEPT ![r] = Exited(r)]
           /\ dep' = IF Active(r) THEN Synced(ExitStatus(r)) ELSE dep
           /\ task' = IF Dispatches(r) /\ task["restart"].at = "idle"
                      THEN [task EXCEPT !["restart"] =
                              [Idle EXCEPT !.at = "ctx", !.try = 1, !.owned = r]]
                      ELSE task
           /\ handle' = Evicted(r)
    /\ UNCHANGED <<n, procs, bus, reqs, env>>

\* A startup row of this host past the hard timeout.
Wedged(r) ==
    /\ rows[r].status \in StartupStatuses /\ rows[r].local
    /\ InFlight(r) => SlowBoot

\* Mutant: the watchdog fails the row and leaves the wedged process alone.
WatchdogWithoutKill(r) ==
    /\ task["watchdog"].at = "idle" /\ Wedged(r)
    /\ task' = [task EXCEPT !["watchdog"] = [@ EXCEPT !.at = "flip", !.row = r]]
    /\ UNCHANGED <<db, procs, handle, reap, bus, reqs, env>>

\* watchdog_once reads the wedged row without a lock and kills at once: SIGKILL
\* goes to the cached live process, else to the row's pid ...
watchdog_once(r) ==
    /\ task["watchdog"].at = "idle" /\ Wedged(r)
    /\ LET target == IF HandleAlive THEN handle ELSE IF rows[r].pid THEN r ELSE 0
       IN  child' = [q \in RowIds |-> IF q = target /\ Alive(q) THEN "exited1" ELSE child[q]]
    /\ task' = [task EXCEPT !["watchdog"] = [@ EXCEPT !.at = "flip", !.row = r]]
    /\ UNCHANGED <<db, sig, handle, reap, bus, reqs, env>>

\* ... then it waits for the deployment lock and fails the row, whatever became
\* of it in between.
WatchdogFlip ==
    /\ task["watchdog"].at = "flip"
    /\ rows' = Failed(task["watchdog"].row, "crash") /\ dep' = Synced("failed")
    /\ task' = [task EXCEPT !["watchdog"] = Idle]
    /\ UNCHANGED <<n, procs, handle, reap, bus, reqs, env>>

reap_ownerless_active_rows(r) ==
    /\ Active(r) /\ ~rows[r].pid /\ rows[r].stale
    /\ ~HandleAlive /\ ~InFlight(r)
    /\ rows' = Failed(r, "crash") /\ dep' = Synced("failed")
    /\ UNCHANGED <<n, procs, mem, bus, reqs, env>>

\* Mutant: a row that is being stopped is left to the reaper.
MarkStaleServingOnly(r) ==
    /\ rows[r].status \in {"ready", "running"} /\ rows[r].stale
    /\ rows' = Failed(r, "crash") /\ dep' = Synced("failed")
    /\ UNCHANGED <<n, procs, mem, bus, reqs, env>>

\* HeartbeatMonitor._mark_stale_as_failed: post-startup rows only.
mark_stale_as_failed(r) ==
    /\ rows[r].status \in {"ready", "running", "stopping"} /\ rows[r].stale
    /\ rows' = Failed(r, "crash") /\ dep' = Synced("failed")
    /\ UNCHANGED <<n, procs, mem, bus, reqs, env>>

\* Time: the heartbeat of a row that nobody refreshes passes the threshold.
HeartbeatStale(r) ==
    /\ Active(r) /\ ~rows[r].stale /\ ~Beating(r)
    /\ (InFlight(r) \/ child[r] = "booting") => SlowBoot
    /\ rows' = [rows EXCEPT ![r].stale = TRUE]
    /\ UNCHANGED <<dep, n, procs, mem, bus, reqs, env>>

-----------------------------------------------------------------------------
(* The trading subprocess.                                                 *)

\* _mark_terminal, then the process winds down with that exit code.
mark_terminal(r, status, kind) ==
    /\ rows' = [rows EXCEPT ![r] =
         [@ EXCEPT !.status = status, !.kind = kind, !.stale = FALSE]]
    /\ dep' = Synced(status)
    /\ child' = [child EXCEPT ![r] = IF status = "stopped" THEN "exiting0" ELSE "exiting1"]

\* The partial unique index refuses a second active row of the deployment; the
\* subprocess then fails permanently.
ChildWrite(r, state) ==
    IF ActiveRows \ {r} # {}
    THEN mark_terminal(r, "failed", "neverran")
    ELSE /\ rows' = [rows EXCEPT ![r] =
              [@ EXCEPT !.status = state, !.stale = FALSE, !.pid = TRUE]]
         /\ child' = [child EXCEPT ![r] = state] /\ dep' = dep

\* _self_write_pid: "building", whatever the row's status was.
self_write_pid(r) ==
    /\ child[r] = "booting" /\ ~sig[r]
    /\ ChildWrite(r, "building")
    /\ UNCHANGED <<n, sig, mem, bus, reqs, env>>

\* _mark_ready, also unconditional.
mark_ready(r) ==
    /\ child[r] = "building" /\ ~sig[r]
    /\ ChildWrite(r, "ready")
    /\ UNCHANGED <<n, sig, mem, bus, reqs, env>>

\* _mark_running promotes unless a stop or a terminal status intervened; the
\* node keeps running either way.
mark_running(r) ==
    /\ child[r] = "ready" /\ ~sig[r]
    /\ child' = [child EXCEPT ![r] = "running"]
    /\ IF rows[r].stop \/ rows[r].status \in {"stopping", "stopped", "failed"}
       THEN UNCHANGED <<rows, dep>>
       ELSE /\ rows' = [rows EXCEPT ![r] =
                 [@ EXCEPT !.status = "running", !.stale = FALSE,
                           !.fails = record_success.fails,
                           !.paused = record_success.paused]]
            /\ dep' = [dep EXCEPT !.status = IF @ = "starting" THEN "running" ELSE @]
    /\ UNCHANGED <<n, sig, mem, bus, reqs, env>>

\* The handled ends: SIGTERM or a node that returns, an exception while
\* building, a failed reconciliation or a node crash.
ChildEnds(r) ==
    /\ child[r] \in {"building", "ready", "running"}
    /\ \/ /\ sig[r] \/ child[r] = "running"
          /\ mark_terminal(r, "stopped", "none")
       \/ child[r] \in {"building", "ready"} /\ mark_terminal(r, "failed", "neverran")
       \/ mark_terminal(r, "failed", "crash")
    /\ UNCHANGED <<n, sig, mem, bus, reqs, env>>

\* SIGKILL, OOM, or SIGTERM before the handlers are installed: no last write.
ChildDies(r) ==
    /\ Alive(r) /\ child[r] # "exiting0"
    /\ child' = [child EXCEPT ![r] = "exited1"]
    /\ sig' = [sig EXCEPT ![r] = FALSE]
    /\ UNCHANGED <<db, mem, bus, reqs, env>>

ChildExits(r) ==
    /\ child[r] = "exiting0"
    /\ child' = [child EXCEPT ![r] = "exited0"]
    /\ sig' = [sig EXCEPT ![r] = FALSE]
    /\ UNCHANGED <<db, mem, bus, reqs, env>>

-----------------------------------------------------------------------------
(* The supervisor process.                                                 *)

\* The container dies with its subprocesses; memory is lost.
SupervisorDies ==
    /\ sup # "down" /\ (sup = "up" => used.crashes < MaxCrashes)
    /\ sup' = "down"
    /\ used' = IF sup = "up" THEN [used EXCEPT !.crashes = @ + 1] ELSE used
    /\ child' = [r \in RowIds |-> IF Alive(r) THEN "exited1" ELSE child[r]]
    /\ handle' = 0 /\ reap' = 0
    /\ task' = [a \in Actors |-> Idle]
    /\ DropBatch /\ sig' = [r \in RowIds |-> FALSE]
    /\ UNCHANGED <<db, reqs, halt, intent>>

\* An orderly shutdown cancels the tasks; a cancelled spawn terminalizes the row
\* it reserved while no handle is installed.
SupervisorCloses ==
    /\ sup = "up" /\ used.crashes < MaxCrashes
    /\ sup' = "closing"
    /\ used' = [used EXCEPT !.crashes = @ + 1]
    /\ task' = [a \in Actors |-> IF task[a].at \in ReservedSteps
                                 THEN [task[a] EXCEPT !.at = "cancelled"] ELSE Idle]
    /\ DropBatch
    /\ UNCHANGED <<db, procs, handle, reap, reqs, halt, intent>>

CancelledSpawn(a) ==
    /\ sup = "closing" /\ task[a].at = "cancelled"
    /\ Terminalized(task[a].row)
    /\ task' = [task EXCEPT ![a] = Idle]
    /\ UNCHANGED <<n, procs, handle, reap, bus, reqs, env>>

\* The returning supervisor has the same hostname, or a new one.
SupervisorBoots ==
    /\ sup = "down" /\ sup' = "up"
    /\ rows' \in {rows, [r \in RowIds |-> IF r <= n THEN [rows[r] EXCEPT !.local = FALSE]
                                                   ELSE rows[r]]}
    /\ UNCHANGED <<dep, n, procs, mem, bus, reqs, halt, intent, used>>

-----------------------------------------------------------------------------
Init ==
    /\ dep = [status |-> "stopped", gen |-> 0]
    /\ rows = [r \in RowIds |-> NoRow] /\ n = 0
    /\ child = [r \in RowIds |-> "none"] /\ sig = [r \in RowIds |-> FALSE]
    /\ handle = 0 /\ reap = 0 /\ task = [a \in Actors |-> Idle]
    /\ halt = FALSE /\ stream = <<>> /\ pel = [c \in Commands |-> 0]
    /\ api = "idle" /\ apiFloor = 0 /\ stopReq = [c \in Stoppers |-> "idle"] /\ inflight = FALSE
    /\ sup = "up" /\ intent = "none"
    /\ used = [starts |-> 0, stops |-> 0, halts |-> 0, faults |-> 0, crashes |-> 0]

Spawn(a) ==
    \/ phase_a_reserve_slot(a)
    \/ HaltCheck(a, "haltCheck", "payload")
    \/ PayloadFactory(a)
    \/ HaltCheck(a, "recheck", "gate")
    \/ StopIntentGate(a)
    \/ StartProcess(a)
    \/ PhaseC(a)
    \/ mark_failed(a)
    \/ terminalize_reserved_row(a)

AutoRestart(a) ==
    \/ load_restart_context(a)
    \/ RestartGates(a)
    \/ Backoff(a)
    \/ refail_stranded_restart(a)
    \/ clear_sentinel_and_refail_after_giveup(a)

Consumer == \/ \E cmd \in Commands : Deliver(cmd)
            \/ \E cmd \in Commands : MoveToDlq(cmd)
            \/ stop
            \/ StopSignal
            \/ Ack

Loops == \/ rescan_for_restart
         \/ reap_once
         \/ on_child_exit
         \/ \E r \in RowIds : watchdog_once(r)
         \/ WatchdogFlip
         \/ \E r \in RowIds : reap_ownerless_active_rows(r)
         \/ \E r \in RowIds : mark_stale_as_failed(r)

Supervisor == /\ sup = "up"
              /\ \/ \E a \in Spawners : Spawn(a)
                 \/ \E a \in {"restart", "rescan"} : AutoRestart(a)
                 \/ Consumer
                 \/ Loops
                 \/ \E a \in Actors : TransactionFails(a)

Subprocess(r) == \/ self_write_pid(r)
                 \/ mark_ready(r)
                 \/ mark_running(r)
                 \/ ChildEnds(r)
                 \/ ChildDies(r)
                 \/ ChildExits(r)

Api == \/ ApiAdmit \/ ApiStart \/ ApiAlreadyActive \/ ApiPublishStart \/ ApiPoll
       \/ ApiCommitRunning \/ ApiPollTimeout \/ ApiTimeoutFlip
       \/ ApiStop \/ ApiStopPublish \/ ApiStopPoll \/ ApiStopCommit
       \/ KillAllLatch \/ KillAllPublish \/ KillAllPoll
       \/ \E c \in Stoppers : PublishStop(c)
       \/ InflightExpires \/ Resume

Next == \/ Api
        \/ Supervisor
        \/ \E r \in RowIds : Subprocess(r)
        \/ \E r \in RowIds : HeartbeatStale(r)
        \/ SupervisorDies \/ SupervisorCloses \/ SupervisorBoots
        \/ \E a \in Spawners : CancelledSpawn(a)

Spec == Init /\ [][Next]_vars

Run(A) == sup = "up" /\ A

\* What the code's scheduling guarantees: the supervisor's loops are ticked for
\* ever while its process is up, a task that can take its next step takes it,
\* time passes, and the container that went down is brought back (restart:
\* always). Nothing is assumed of operators, faults, crashes, or of how far a
\* subprocess gets.
Fairness ==
    /\ WF_vars(Run(Spawn("consumer") \/ stop \/ StopSignal \/ Ack))
    /\ \A a \in {"restart", "rescan"} : WF_vars(Run(Spawn(a) \/ AutoRestart(a)))
    /\ WF_vars(Run(reap_once \/ on_child_exit))
    /\ WF_vars(Run(rescan_for_restart))
    /\ WF_vars(\E r \in RowIds : HeartbeatStale(r))
    /\ WF_vars(Run(\E r \in RowIds : \/ watchdog_once(r) \/ WatchdogFlip
                                     \/ reap_ownerless_active_rows(r)
                                     \/ mark_stale_as_failed(r)))
    /\ WF_vars(SupervisorBoots \/ (sup = "closing" /\ SupervisorDies))

FairSpec == Spec /\ Fairness

-----------------------------------------------------------------------------
TypeOK ==
    /\ dep \in Dep
    /\ rows \in [RowIds -> Row]
    /\ n \in 0 .. MaxRows
    /\ child \in [RowIds -> ChildStates]
    /\ sig \in [RowIds -> BOOLEAN]
    /\ handle \in 0 .. MaxRows
    /\ reap \in 0 .. MaxRows
    /\ task \in [Actors -> Task]
    /\ halt \in BOOLEAN
    /\ stream \in Seq(Commands)
    /\ pel \in [Commands -> Nat]
    /\ api \in {"idle", "admitted", "upserted", "polling", "sawReady", "timedOut"}
    /\ apiFloor \in 0 .. MaxRows
    /\ stopReq \in [Stoppers -> StopSteps]
    /\ inflight \in BOOLEAN
    /\ sup \in {"up", "closing", "down"}
    /\ intent \in {"none", "start", "stop"}
    /\ used \in Used

\* A STOP for the deployment is published or about to be, or in the consumer's
\* hands, or row r's spawn has yet to re-read the stop intent.
StopOnItsWay(r) ==
    \/ \E c \in Stoppers : stopReq[c] \in {"publish", "add"}
    \/ \E i \in 1 .. Len(stream) : stream[i] = "STOP"
    \/ pel["STOP"] > 0
    \/ task["consumer"].at \in {"stopTx", "stopSig"}
    \/ InFlight(r)

\* A deployment has at most one active node row, although rows are inserted by
\* three tasks and a subprocess revives its own row without looking at its status.
\* (Phase A under the deployment lock, and the partial unique index against
\* _self_write_pid and _mark_ready.)
OneActiveRow ==
    \A r, q \in RowIds : Active(r) /\ Active(q) => r = q

\* What makes it inductive: a subprocess and a spawn in flight have their row.
RowsExist ==
    /\ \A r \in RowIds : child[r] # "none" => rows[r].status # "absent"
    /\ \A a \in Actors : task[a].at \in InFlightSteps /\ task[a].row \in RowIds
                           => rows[task[a].row].status # "absent"

\* While no spawn outlasts the heartbeat threshold, a live node always has an
\* active row, and the supervisor holds its handle: what /stop signals, what the
\* watchdog kills and what Phase A counts is that node. (Every writer of a
\* terminal status, from _mark_failed to the re-scan's stale flip.)
NodeIsOwned ==
    \A r \in RowIds : Beating(r) => Active(r) /\ handle = r

\* What makes it inductive. A node that has not written its terminal mark is owned;
\* a spawn that has reserved its row has not started it, nobody fails the row
\* meanwhile, and there is one such spawn; a row a task still remembers, or whose
\* heartbeat is stale, has no node and gets none.
NodeStates == {"booting", "building", "ready", "running"}
Ended      == {"exited0", "exited1"}
Reserved(r) == \E a \in Actors : task[a].at \in ReservedSteps /\ task[a].row = r
Detached(r) == r # 0 => /\ rows[r].status # "absent" /\ child[r] \notin NodeStates
                        /\ ~Reserved(r)

NodesOwned == \A r \in RowIds : child[r] \in NodeStates => Active(r) /\ handle = r

SpawnsReserved ==
    /\ \A a \in Actors : task[a].at \in ReservedSteps =>
         LET r == task[a].row
         IN  r \in RowIds /\ Active(r) /\ child[r] = "none" /\ ~rows[r].stale
    /\ \A a, b \in Actors :
         task[a].at \in ReservedSteps /\ task[b].at \in ReservedSteps => a = b

StaleIsDead == \A r \in RowIds : rows[r].stale => child[r] \notin NodeStates

RowsDetached ==
    \A a \in Actors \ {"consumer"} :
        task[a].at \notin InFlightSteps => Detached(task[a].row)

ExitsSeen ==
    /\ handle # 0 => child[handle] # "none"
    /\ reap # 0 => child[reap] \in Ended
    /\ \A a \in Actors : task[a].owned # 0 => child[task[a].owned] \in Ended

NumberedRows == \A r \in RowIds : r > n => rows[r].status = "absent"

Ownership == /\ NodesOwned /\ SpawnsReserved /\ StaleIsDead
             /\ RowsDetached /\ ExitsSeen /\ NumberedRows

\* Row r is behind a row whose end no later stop intent follows, and which either
\* carries one, so that it took a START still in the stream to insert a row behind it
\* (the case of the run stop_gap), or ended by itself, so that a /stop that came then
\* found nothing to stamp.
BehindAnEnd(r) ==
    \E q \in 1 .. r - 1 : /\ \/ rows[q].stop /\ ~rows[q + 1].auto
                             \/ ~rows[q].stop /\ rows[q].status = "stopped"
                          /\ \A p \in q + 1 .. r : ~rows[p].stop

\* After the operator's accepted /stop, a node that the auto-restart machinery
\* spawned is never left running: it is under SIGTERM or a STOP is on its way,
\* unless the machinery restarts what began behind an earlier end.
\* (The stop gates of _attempt_auto_restart, Phase A and Phase B, and Phase C's
\* re-read, against /stop committing between any two of them.)
AutoRestartHonoursStop ==
    intent = "stop" /\ sup = "up" =>
        \A r \in RowIds : rows[r].auto /\ Beating(r)
                              => sig[r] \/ StopOnItsWay(r) \/ BehindAnEnd(r)

\* Once /kill-all has read the rows, and until /resume, every live node is under
\* SIGTERM or a STOP is on its way to it: a spawn that passed its halt checks
\* before the latch was set has a row that /kill-all then finds.
HaltReachesEveryNode ==
    halt /\ stopReq["killAll"] # "latched" /\ sup = "up" =>
        \A r \in RowIds : Beating(r) => sig[r] \/ StopOnItsWay(r)

\* What makes it inductive when one /kill-all meets any starts and restarts, and no
\* /stop, fault or crash interferes. Until it has read the rows no STOP exists that it
\* could be coalesced with. After that the STOP is still to be handled; or it was,
\* with its intent on the row of every spawn that is past its halt checks, and every
\* node is signalled, about to be, or in a Phase C that will find the intent.
StopIsDue == \/ \E i \in 1 .. Len(stream) : stream[i] = "STOP"
             \/ task["consumer"].at = "stopTx"
BeforeTheHalt == used.halts = 0 \/ stopReq["killAll"] = "latched"

\* The supervisor is up and has not lost a STOP, and the rows are its own.
Served == sup = "up" /\ pel["STOP"] = 0 /\ \A r \in RowIds : rows[r].local

OneHalt ==
    /\ Served /\ stopReq["stop"] = "idle"
    /\ used.halts = 0 => ~halt /\ stopReq["killAll"] = "idle"
    /\ BeforeTheHalt => /\ ~inflight /\ ~StopIsDue /\ task["consumer"].at # "stopSig"
                        /\ \A r \in RowIds : rows[r].status # "stopping"

SpawnsAreStamped ==
    \A a \in Actors : task[a].at \in {"gate", "start"} => rows[task[a].row].stop
NodesAreSignalled ==
    \A r \in RowIds : child[r] \in NodeStates =>
        \/ sig[r] \/ task["consumer"].at = "stopSig"
        \/ rows[r].stop /\ \E a \in Actors : task[a].at = "phaseC" /\ task[a].row = r

HaltIsCarriedOut ==
    halt /\ stopReq["killAll"] # "latched" =>
        \/ stopReq["killAll"] = "add" \/ StopIsDue
        \/ SpawnsAreStamped /\ NodesAreSignalled

\* What makes AutoRestartHonoursStop inductive when one /stop meets any starts and
\* restarts, and no kill-all, fault or crash interferes. Only the latest row is
\* active; a row that ended as "stopped" stays so, for the watchdog does not come
\* back to it; nothing is restarted before there is a row.
EndedWell == {"exiting0", "exited0"}

LatestIsActive ==
    \A r \in RowIds : (Active(r) => r = n) /\ (r <= n => rows[r].status # "absent")
StoppedStands ==
    /\ \A r \in RowIds : child[r] \in EndedWell => rows[r].status = "stopped"
    /\ task["watchdog"].at = "flip" =>
         task["watchdog"].row \in {r \in RowIds : rows[r].status # "stopped"}
NoRowNoRestart ==
    n = 0 => api # "sawReady" /\ \A a \in {"restart", "rescan"} : task[a].at = "idle"
Standing == LatestIsActive /\ StoppedStands /\ NoRowNoRestart

\* Before the /stop nothing of it exists, and a deployment is "stopped" only as its
\* latest row is. From its transaction on, the latest row carries the intent, or has
\* ended, or is behind an end; and the node of a row that carries it is signalled,
\* about to be, or in a Phase C that will find the intent.
StopUnderWay == stopReq["stop"] \in {"publish", "add"}
OneStop ==
    /\ Served /\ ~halt /\ stopReq["killAll"] = "idle"
    /\ used.stops = 0 => /\ stopReq["stop"] = "idle" /\ intent # "stop" /\ ~inflight
                         /\ ~StopIsDue /\ task["consumer"].at # "stopSig"
                         /\ dep.status = "stopped" => n = 0 \/ rows[n].status = "stopped"
    /\ stopReq["stop"] = "publish" => ~inflight
    /\ StopUnderWay => n # 0
StopIsKept ==
    intent = "stop" \/ StopUnderWay =>
        IF n = 0 THEN dep.status \notin DepLive
        ELSE rows[n].stop \/ rows[n].status = "stopped" \/ BehindAnEnd(n)
StopsAreSignalled ==
    \A r \in RowIds : rows[r].stop /\ child[r] \in NodeStates =>
        \/ sig[r] \/ StopUnderWay \/ StopIsDue \/ task["consumer"].at = "stopSig"
        \/ \E a \in Actors : task[a].at = "phaseC" /\ task[a].row = r

\* INVARIANT 1 of the fleet_router lock-order comment, for every spawn path:
\* after an operator /stop no node runs that is not being stopped.
StopGatesEverySpawn ==
    intent = "stop" /\ sup = "up" =>
        \A r \in RowIds : Beating(r) => sig[r] \/ StopOnItsWay(r)

\* The API's poll-timeout comment: the deployment of a live node is never
\* "failed", where /live/status and the deploy gate do not see the node. Does not
\* hold: Phase A may reserve a row between the time-out check and the flip.
LiveNodeIsVisible ==
    \A r \in RowIds : child[r] = "running" => dep.status # "failed"

\* The restart ceiling: once the latest row is paused, the machinery inserts no
\* further restart row. Does not hold: two restarters decide on one context.
PausedIsNotRestarted ==
    [][n' = n + 1 /\ rows'[n'].auto => n # 0 /\ ~rows[n].paused]_vars

\* A stopped deployment leaves "stopped" only by a start request's own write: no
\* terminal sync, stale flip, promotion or give-up of an earlier attempt moves it.
\* (The non-terminal guard of every deployment sync, and Phase A's gate.)
StoppedIsTerminal ==
    [][dep.status = "stopped" /\ dep'.status # "stopped" => api' # api]_vars

\* INVARIANT 3 and the backstops behind it: the row of a dead node does not stay
\* active for ever, where it would make Phase A refuse every later start.
NoOrphanRow ==
    \A r \in RowIds : Active(r) /\ ~Alive(r) ~> ~Active(r) \/ Alive(r)
=============================================================================
