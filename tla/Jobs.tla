-------------------------------- MODULE Jobs --------------------------------
(***************************************************************************)
(* Backtest jobs, research jobs and portfolio runs: a row that the API       *)
(* enqueues before it commits, an arq queue that delivers a job again when   *)
(* its worker dies, the workers, the cancel endpoints, the compute slots     *)
(* that research and portfolio jobs share, and the job watchdog.             *)
(* Reports, metrics and trades are left out: a row is its status. A row that *)
(* is read, assigned and committed by the ORM takes two steps where another  *)
(* writer can come between.                                                  *)
(***************************************************************************)
EXTENDS Integers, FiniteSets

CONSTANTS
    Backtests, Researches, Portfolios,   \* job ids
    Batches,        \* the sets of jobs that may be submitted together
    Slots,          \* the compute slots each job asks for
    Limit,          \* compute_slot_limit
    MaxTries,       \* max_tries of the arq workers
    MaxFaults       \* bound on crashes, infrastructure errors and stalled event loops

VARIABLES
    row,            \* [status, stale]; stale: beyond the watchdog's cutoff
    api,            \* the request that submits a job: "none", "enqueue", "commit", "done"
    arq,            \* the queue's view of a job: [state, tries]
    pc,             \* the worker of a job
    cancel,         \* the cancel request of a job: "none", "read", "done"
    seen,           \* the jobs whose heartbeat has seen the cancellation
    leases,         \* the jobs with a compute lease
    raced,          \* two acquisitions have crossed, or a lease was lost (history)
    scan,           \* the rows the watchdog is about to fail
    faults

vars == <<row, api, arq, pc, cancel, seen, leases, raced, scan, faults>>

Jobs == Backtests \cup Researches \cup Portfolios
Terminal == {"completed", "failed", "cancelled"}
Live     == {"pending", "running"}
Status(j)   == row[j].status
Write(j, s) == row' = [row EXCEPT ![j].status = s]
At(j, p)    == pc[j] = p
Goto(j, p)  == pc' = [pc EXCEPT ![j] = p]
Fault       == faults < MaxFaults /\ faults' = faults + 1
Taken(S)    == UNION {{j} \X (1..Slots[j]) : j \in S}
Used(S)     == Cardinality(Taken(S))

-----------------------------------------------------------------------------
(* The API.                                                                  *)

\* The enqueue comes before the commit; when it fails the row is rolled back.
Enqueue(j) ==
    /\ api[j] = "enqueue"
    /\ \/ /\ arq' = [arq EXCEPT ![j].state = "queued"] /\ api' = [api EXCEPT ![j] = "commit"]
          /\ UNCHANGED faults
       \/ Fault /\ api' = [api EXCEPT ![j] = "done"] /\ UNCHANGED arq
    /\ UNCHANGED <<row, pc, cancel, seen, leases, raced, scan>>

Commit(j) ==
    /\ api[j] = "commit" /\ api' = [api EXCEPT ![j] = "done"] /\ Write(j, "pending")
    /\ UNCHANGED <<arq, pc, cancel, seen, leases, raced, scan, faults>>

\* A research job is read and written; a portfolio run is one conditional UPDATE.
CancelResearch(j) ==
    /\ j \in Researches
    /\ \/ /\ cancel[j] = "none" /\ Status(j) \in Live
          /\ cancel' = [cancel EXCEPT ![j] = "read"] /\ UNCHANGED row
       \/ /\ cancel[j] = "read"
          /\ cancel' = [cancel EXCEPT ![j] = "done"] /\ Write(j, "cancelled")
    /\ UNCHANGED <<api, arq, pc, seen, leases, raced, scan, faults>>

CancelPortfolio(j) ==
    /\ j \in Portfolios /\ cancel[j] = "none" /\ Status(j) \in Live
    /\ cancel' = [cancel EXCEPT ![j] = "done"] /\ Write(j, "cancelled")
    /\ UNCHANGED <<api, arq, pc, seen, leases, raced, scan, faults>>

-----------------------------------------------------------------------------
(* The queue (external): a delivery, and another one after a worker has died *)
(* or raised, up to MaxTries.                                                *)

Deliver(j) ==
    /\ arq[j].state = "queued" /\ At(j, "idle")
    /\ IF arq[j].tries < MaxTries
       THEN arq' = [arq EXCEPT ![j] = [state |-> "taken", tries |-> @.tries + 1]] /\ Goto(j, "start")
       ELSE arq' = [arq EXCEPT ![j].state = "done"] /\ UNCHANGED pc
    /\ UNCHANGED <<row, api, cancel, seen, leases, raced, scan, faults>>

FinalAttempt(j) == arq[j].tries >= MaxTries
Return(j) == Goto(j, "idle") /\ arq' = [arq EXCEPT ![j].state = "done"]
Raise(j)  == Goto(j, "idle") /\ arq' = [arq EXCEPT ![j].state = "queued"]

-----------------------------------------------------------------------------
(* The start of a job.                                                       *)

\* _start_backtest: whatever the row's status is.
StartBacktest(j) ==
    /\ j \in Backtests /\ At(j, "start")
    /\ IF Status(j) = "absent" THEN Return(j) /\ UNCHANGED row
       ELSE /\ row' = [row EXCEPT ![j] = [status |-> "running", stale |-> FALSE]]
            /\ Goto(j, "work") /\ UNCHANGED arq
    /\ UNCHANGED <<api, cancel, seen, leases, raced, scan, faults>>

\* _mark_running of a research job: a missing or terminal row ends the job.
StartResearch(j) ==
    /\ j \in Researches
    /\ \/ /\ At(j, "start") /\ UNCHANGED row
          /\ IF Status(j) \in Live THEN Goto(j, "mark") /\ UNCHANGED arq ELSE Return(j)
       \/ /\ At(j, "mark") /\ row' = [row EXCEPT ![j] = [status |-> "running", stale |-> FALSE]]
          /\ Goto(j, "slots") /\ UNCHANGED arq
    /\ UNCHANGED <<api, cancel, seen, leases, raced, scan, faults>>

\* Mutant: an arq retry flips a finished run back.
StartAnyRun(j) == Status(j) # "absent"
\* mark_run_running: an UPDATE of a pending or running row.
MarkRunRunning(j) == Status(j) \in Live

\* A run that is not there after _START_LOOKUP_ATTEMPTS is raised to the queue.
StartPortfolio(j) ==
    /\ j \in Portfolios /\ At(j, "start")
    /\ IF MarkRunRunning(j)
       THEN /\ row' = [row EXCEPT ![j] = [status |-> "running", stale |-> FALSE]]
            /\ Goto(j, "slots") /\ UNCHANGED arq
       ELSE (IF Status(j) = "absent" THEN Raise(j) ELSE Return(j)) /\ UNCHANGED row
    /\ UNCHANGED <<api, cancel, seen, leases, raced, scan, faults>>

-----------------------------------------------------------------------------
(* Compute slots: usage is read, then the lease is set.                     *)

\* Mutant: room for one slot is room for the job.
FitsOne(j) == Used(leases) < Limit
Fits(j) == Used(leases) + Slots[j] <= Limit

ReadUsage(j) ==
    /\ At(j, "slots") /\ Fits(j) /\ Goto(j, "lease")
    /\ raced' = (raced \/ \E k \in Jobs : At(k, "lease"))
    /\ UNCHANGED <<row, api, arq, cancel, seen, leases, scan, faults>>

TakeLease(j) ==
    /\ At(j, "lease") /\ Goto(j, "work") /\ leases' = leases \cup {j}
    /\ UNCHANGED <<row, api, arq, cancel, seen, raced, scan, faults>>

\* compute_slot_wait_seconds is over: the job fails.
NoSlots(j) ==
    /\ At(j, "slots") /\ ~Fits(j) /\ Goto(j, "fail")
    /\ UNCHANGED <<row, api, arq, cancel, seen, leases, raced, scan, faults>>

\* The key of a lease expires: its worker is dead, or has not renewed it in time.
ExpireLease(j) ==
    /\ j \in leases /\ leases' = leases \ {j}
    /\ \/ At(j, "idle") /\ UNCHANGED <<raced, faults>>
       \/ ~At(j, "idle") /\ Fault /\ raced' = TRUE
    /\ UNCHANGED <<row, api, arq, pc, cancel, seen, scan>>

-----------------------------------------------------------------------------
(* The work and its end.                                                     *)

\* The engine returns a report, fails, or (a portfolio run) hits an infrastructure
\* error, which is raised to the queue and recorded only on the final attempt.
Work(j) ==
    /\ At(j, "work")
    /\ \/ (Goto(j, "final") \/ Goto(j, "fail")) /\ UNCHANGED faults
       \/ j \in Portfolios /\ Fault /\ Goto(j, IF FinalAttempt(j) THEN "fail" ELSE "raise")
    /\ UNCHANGED <<row, api, arq, cancel, seen, leases, raced, scan>>

\* The heartbeat refreshes the row, and a research job's reads the cancellation.
Heartbeat(j) ==
    /\ pc[j] \in {"slots", "lease", "work"}
    /\ row' = [row EXCEPT ![j].stale = FALSE]
    /\ seen' = IF j \in Researches /\ Status(j) = "cancelled" THEN seen \cup {j} ELSE seen
    /\ UNCHANGED <<api, arq, pc, cancel, leases, raced, scan, faults>>

\* _finalize_backtest and _finalize_job write whatever the row says; a research job
\* whose cancellation was seen is cancelled.
Finalize(j) ==
    /\ j \notin Portfolios /\ At(j, "final") /\ Goto(j, "release")
    /\ Write(j, IF j \in seen THEN "cancelled" ELSE "completed")
    /\ UNCHANGED <<api, arq, cancel, seen, leases, raced, scan, faults>>

\* Mutant: the result of a run is written by id alone.
CompleteAnyRun(j) == TRUE
\* run_portfolio_backtest: an UPDATE of a pending or running row.
MarkRunCompleted(j) == Status(j) \in Live

FinalizePortfolio(j) ==
    /\ j \in Portfolios /\ At(j, "final") /\ Goto(j, "release")
    /\ IF MarkRunCompleted(j) THEN Write(j, "completed") ELSE UNCHANGED row
    /\ UNCHANGED <<api, arq, cancel, seen, leases, raced, scan, faults>>

\* _mark_backtest_failed and _mark_failed.
MarkFailed(j) ==
    /\ j \notin Portfolios /\ At(j, "fail") /\ Goto(j, "release") /\ Write(j, "failed")
    /\ UNCHANGED <<api, arq, cancel, seen, leases, raced, scan, faults>>

\* mark_run_failed reads, refuses a terminal row, and writes.
MarkRunFailed(j) ==
    /\ j \in Portfolios
    /\ \/ At(j, "fail") /\ Goto(j, IF Status(j) \in Terminal THEN "release" ELSE "failing") /\ UNCHANGED row
       \/ At(j, "failing") /\ Goto(j, "release") /\ Write(j, "failed")
    /\ UNCHANGED <<api, arq, cancel, seen, leases, raced, scan, faults>>

\* The finally block.
Release(j) ==
    /\ pc[j] \in {"release", "raise"} /\ leases' = leases \ {j}
    /\ IF At(j, "raise") THEN Raise(j) ELSE Return(j)
    /\ UNCHANGED <<row, api, cancel, seen, raced, scan, faults>>

\* The worker dies; the queue delivers the job again.
Crash(j) ==
    /\ ~At(j, "idle") /\ Fault /\ Raise(j)
    /\ UNCHANGED <<row, api, cancel, seen, leases, raced, scan>>

-----------------------------------------------------------------------------
(* The watchdog, which does not know portfolio runs.                         *)

\* A row gets old: pending for job_pending_grace_seconds, or running without a
\* heartbeat for job_stale_seconds (no worker, or one whose event loop is blocked).
Age(j) ==
    /\ Status(j) \in Live /\ ~row[j].stale
    /\ \/ (Status(j) = "pending" \/ At(j, "idle")) /\ UNCHANGED faults
       \/ Status(j) = "running" /\ ~At(j, "idle") /\ Fault
    /\ row' = [row EXCEPT ![j].stale = TRUE]
    /\ UNCHANGED <<api, arq, pc, cancel, seen, leases, raced, scan>>

\* Mutant: only running rows are looked at.
UnhealthyRunning(j) == Status(j) = "running" /\ row[j].stale
\* _check_job_health.
Unhealthy(j) == Status(j) \in Live /\ row[j].stale

Scan ==
    /\ scan = {}
    /\ scan' = {j \in Jobs \ Portfolios : Unhealthy(j)} /\ scan' # {}
    /\ UNCHANGED <<row, api, arq, pc, cancel, seen, leases, raced, faults>>

ScanCommit ==
    /\ scan # {} /\ scan' = {}
    /\ row' = [j \in Jobs |-> IF j \in scan THEN [row[j] EXCEPT !.status = "failed"] ELSE row[j]]
    /\ UNCHANGED <<api, arq, pc, cancel, seen, leases, raced, faults>>

-----------------------------------------------------------------------------
Init ==
    /\ row = [j \in Jobs |-> [status |-> "absent", stale |-> FALSE]]
    /\ \E b \in Batches : api = [j \in Jobs |-> IF j \in b THEN "enqueue" ELSE "none"]
    /\ arq = [j \in Jobs |-> [state |-> "none", tries |-> 0]]
    /\ pc = [j \in Jobs |-> "idle"] /\ cancel = [j \in Jobs |-> "none"]
    /\ seen = {} /\ leases = {} /\ raced = FALSE /\ scan = {} /\ faults = 0

Worker(j) ==
    \/ StartBacktest(j) \/ StartResearch(j) \/ StartPortfolio(j)
    \/ ReadUsage(j) \/ TakeLease(j) \/ NoSlots(j) \/ Work(j)
    \/ Finalize(j) \/ FinalizePortfolio(j) \/ MarkFailed(j) \/ MarkRunFailed(j) \/ Release(j)
Watchdog == Scan \/ ScanCommit
Next ==
    \/ \E j \in Jobs : Enqueue(j) \/ Commit(j) \/ CancelResearch(j) \/ CancelPortfolio(j)
                         \/ Deliver(j) \/ Worker(j) \/ Heartbeat(j) \/ ExpireLease(j)
                         \/ Crash(j) \/ Age(j)
    \/ Watchdog

Spec == Init /\ [][Next]_vars

\* Workers run, the queue delivers, time passes and the watchdog's cron job runs.
Fairness ==
    /\ WF_vars(Watchdog)
    /\ \A j \in Jobs : WF_vars(Worker(j)) /\ WF_vars(Deliver(j)) /\ WF_vars(Age(j))
FairSpec == Spec /\ Fairness

-----------------------------------------------------------------------------
TypeOK ==
    /\ row \in [Jobs -> [status : Terminal \cup Live \cup {"absent"}, stale : BOOLEAN]]
    /\ arq \in [Jobs -> [state : {"none", "queued", "taken", "done"}, tries : 0..MaxTries]]
    /\ leases \subseteq Jobs /\ scan \subseteq Jobs \ Portfolios /\ seen \subseteq Researches
    /\ faults \in 0..MaxFaults

\* The outcome of a portfolio run stands: a redelivery, a late result or a cancel that
\* crosses it never revives a finished run or replaces its outcome, except that a failure
\* may overwrite a cancellation.
\* An action property: [][PortfolioOutcomeStands]_vars.
PortfolioOutcomeStands ==
    \A j \in Portfolios : Status(j) \in Terminal =>
       Status(j)' \in {Status(j)} \cup (IF Status(j) = "cancelled" THEN {"failed"} ELSE {})

Waits(j) == Status(j) \in Live
Ended(j) == Status(j) \in Terminal

\* No backtest or research job hangs: not when its worker takes it before the row is
\* committed, when workers die on every delivery, or when a queue never delivers it.
EveryJobEnds == \A j \in Backtests \cup Researches : Waits(j) ~> Ended(j)

\* Jobs that compute hold at most Limit slots, except after two acquisitions that
\* crossed or a lease that ran out under its job.
SlotLimit == raced \/ Used(leases) <= Limit

\* Does not hold: a research job cancelled while its engine runs completes if the
\* heartbeat has not seen it, and a backtest that the watchdog has failed runs anyway.
CancelStands == [][\A j \in Researches : Status(j) = "cancelled" => Status(j)' # "completed"]_vars

-----------------------------------------------------------------------------
(* What keeps them inductive *)

PCs == {"idle", "start", "mark", "slots", "lease", "work", "final", "fail", "failing", "raise", "release"}

JobsAreTyped ==
    /\ TypeOK /\ pc \in [Jobs -> PCs] /\ api \in [Jobs -> {"none", "enqueue", "commit", "done"}]
    /\ cancel \in [Jobs -> {"none", "read", "done"}]

\* A run is worked on only once it is committed, and only its worker completes it.
RunIsSound(j) ==
    /\ api[j] # "done" => Status(j) = "absent"
    /\ pc[j] \notin {"idle", "start"} => Status(j) # "absent"
    /\ pc[j] = "failing" => Status(j) # "completed"

\* Unless two have crossed, one job at most has read the usage, and it still fits.
SlotsAreCounted ==
    /\ IsFiniteSet(Taken(leases))
    /\ raced \/ /\ Used(leases) <= Limit
                /\ \A j \in Jobs : At(j, "lease") => Fits(j) /\ \A k \in Jobs : At(k, "lease") => k = j

SoundJobs == JobsAreTyped /\ SlotsAreCounted /\ \A j \in Portfolios : RunIsSound(j)
=============================================================================
