---------------------------- MODULE RestartPolicy ----------------------------
(***************************************************************************)
(* The auto-restart policy of the live supervisor                          *)
(* (live_supervisor/restart_policy.py) and the failure classification it   *)
(* is gated on (services/live/failure_kind.py), as pure operators.         *)
(*                                                                         *)
(* A node row's failure_kind is abstracted to the classes the supervisor   *)
(* tells apart: "null" (never written), "none" (clean exit), "transient"   *)
(* (SPAWN_FAILED_TRANSIENT), "neverran" (SPAWN_FAILED_PERMANENT, the       *)
(* registry kinds, HALT_ACTIVE and ACCOUNT_HALT_ACTIVE) and "crash"        *)
(* (NODE_CRASHED, RECONCILIATION_FAILED, HEARTBEAT_TIMEOUT, BUILD_TIMEOUT).*)
(* Time is abstracted to the two comparisons the policy makes: whether the *)
(* previous restart is inside RESTART_WINDOW_S and whether the backoff     *)
(* delay has already elapsed.                                              *)
(***************************************************************************)
EXTENDS Integers

CONSTANT MaxRestarts    \* MAX_RESTART_ATTEMPTS, the ceiling that latches the pause

ASSUME MaxRestartsAssumption == MaxRestarts \in Nat \ {0}

FailureKinds == {"null", "none", "transient", "neverran", "crash"}

\* FailureKind.is_retry_eligible: only a transient spawn failure is redelivered.
is_retry_eligible(kind) == kind = "transient"

\* FailureKind.is_recoverable_crash: everything but the never-ran kinds and a clean exit.
is_recoverable_crash(kind) == kind \notin {"neverran", "none"}

\* RestartPolicy.decide: the set of decisions, one per outcome of the clock.
decide(fails, paused) ==
    IF paused THEN {"PAUSED"}
    ELSE IF fails = 0 THEN {"RESTART"}
    ELSE {"RESTART", "BACKOFF"}

\* RestartPolicy.record_failure: the counter and the pause latch it leaves,
\* given whether the previous restart lies inside the window.
record_failure(fails, paused, within) ==
    LET count == IF within THEN fails + 1 ELSE 1
    IN  [fails |-> count, paused |-> paused \/ count >= MaxRestarts]

\* RestartPolicy.record_success.
record_success == [fails |-> 0, paused |-> FALSE]
=============================================================================
