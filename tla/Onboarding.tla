----------------------------- MODULE Onboarding -----------------------------
(***************************************************************************)
(* Symbol onboarding: requests for the same watchlist share a digest that    *)
(* names both the arq job and the run's row. The job is enqueued before the   *)
(* row is committed, so the worker may look for a row that is not there yet.   *)
(***************************************************************************)
EXTENDS Integers, FiniteSets

CONSTANTS
    Requests,               \* POST /onboard of one watchlist
    Repairs,                \* POST /onboard/{run_id}/repair of its run
    Symbols,
    MaxTries,               \* max_tries of the ingest worker
    MaxFaults               \* failing commits, dead processes, time-outs

VARIABLES
    row,                    \* the run of each digest: [status, id, sym]
    job,                    \* the arq job of each digest: [state, id, tries, left]
    pc,                     \* of each request
    used                    \* faults so far, by kind

vars == <<row, job, pc, used>>

None == "none"
Digests == {"watchlist", "repair"}
Callers == Requests \cup Repairs
DigestOf(r) == IF r \in Requests THEN "watchlist" ELSE "repair"
NoRow == [status |-> None, id |-> None, sym |-> [s \in Symbols |-> None]]
JobOf(id, state) == [state |-> state, id |-> id, tries |-> 0, left |-> {}]
NoJob == JobOf(None, None)
Goto(r, p) == pc' = [pc EXCEPT ![r] = p]
Fault(kind) == used.commit + used.kill + used.crash < MaxFaults /\ used' = [used EXCEPT ![kind] = @ + 1]
Asked(d) == {s \in Symbols : row[d].sym[s] # None}

-----------------------------------------------------------------------------
(* _enqueue_and_persist_run *)

\* A run of the digest is answered with 200 whatever its status.
Onboard(r) ==
    /\ r \in Requests /\ pc[r] = "idle"
    /\ Goto(r, IF row["watchlist"] # NoRow THEN "ok" ELSE "enqueue")
    /\ UNCHANGED <<row, job, used>>

\* A repair takes the failed symbols of a run that is not in progress.
FailedSymbols == {s \in Symbols : row["watchlist"].sym[s] = "failed"}
Repair(r) ==
    /\ r \in Repairs /\ pc[r] = "idle" /\ row["watchlist"] # NoRow
    /\ Goto(r, IF row["watchlist"].status = "in_progress" \/ FailedSymbols = {} THEN "refused"
               ELSE IF row["repair"] # NoRow THEN "ok" ELSE "enqueue")
    /\ UNCHANGED <<row, job, used>>

\* enqueue_job returns None for a job id that is queued, running or has a kept result.
Enqueue(r) ==
    LET d == DigestOf(r) IN
    /\ pc[r] = "enqueue"
    /\ \/ /\ job[d] = NoJob /\ Goto(r, "insert")
          /\ job' = [job EXCEPT ![d] = JobOf(r, "queued")]
       \/ job[d] # NoJob /\ Goto(r, "reselect") /\ UNCHANGED job
       \/ Goto(r, "unavailable") /\ UNCHANGED job
    /\ UNCHANGED <<row, used>>

Reselect(r) ==
    /\ pc[r] = "reselect" /\ Goto(r, IF row[DigestOf(r)] # NoRow THEN "ok" ELSE "conflict")
    /\ UNCHANGED <<row, job, used>>

NewStates(r) == [s \in Symbols |-> IF r \in Requests \/ s \in FailedSymbols THEN "not_started" ELSE None]

Insert(r) ==
    LET d == DigestOf(r) IN
    /\ pc[r] = "insert" /\ row[d] = NoRow /\ Goto(r, "accepted")
    /\ row' = [row EXCEPT ![d] = [status |-> "pending", id |-> r, sym |-> NewStates(r)]]
    /\ UNCHANGED <<job, used>>

\* The commit fails, or meets the row of another caller: the job is aborted, if it can be.
InsertFails(r) ==
    LET d == DigestOf(r) IN
    /\ pc[r] = "insert" /\ Goto(r, "error") /\ UNCHANGED row
    /\ IF row[d] # NoRow THEN UNCHANGED used ELSE Fault("commit")
    /\ \/ UNCHANGED job
       \/ job[d].id = r /\ job[d].state = "queued" /\ job' = [job EXCEPT ![d] = NoJob]

ApiDies(r) ==
    /\ pc[r] = "insert" /\ Goto(r, "error") /\ Fault("commit") /\ UNCHANGED <<row, job>>

-----------------------------------------------------------------------------
(* run_symbol_onboarding, one job at a time *)

Ends(d)     == job' = [job EXCEPT ![d] = JobOf(job[d].id, "result")]
Requeued(d) == job' = [job EXCEPT ![d] = [@ EXCEPT !.state = "queued", !.left = {}]]

\* Mutant: the job of a missing row ends.
MissingEnds(d) == Ends(d)
\* Retry(defer=2): the row may be about to be committed.
Missing(d) == job' = [job EXCEPT ![d].tries = @ + 1]

\* arq gives up after max_tries. Assumed: a commit takes less than the two seconds between
\* two tries, so that only the first of them can come before it.
Take(d) ==
    /\ job[d].state = "queued" /\ \A e \in Digests : job[e].state # "running"
    /\ \/ /\ job[d].tries < MaxTries /\ row[d].id # job[d].id
          /\ job[d].tries > 0 => pc[job[d].id] # "insert"
          /\ Missing(d) /\ UNCHANGED row
       \/ /\ job[d].tries < MaxTries /\ row[d].id = job[d].id
          /\ row' = [row EXCEPT ![d].status = "in_progress"]
          /\ job' = [job EXCEPT ![d] = [job[d] EXCEPT !.state = "running", !.tries = @ + 1,
                                                      !.left = Asked(d)]]
       \/ /\ job[d].tries = MaxTries /\ Ends(d) /\ UNCHANGED row
    /\ UNCHANGED <<pc, used>>

\* _onboard_one_symbol: bootstrap, ingest, coverage and IB qualification in turn.
StartSymbol(d, s) ==
    /\ job[d].state = "running" /\ s \in job[d].left
    /\ \A t \in Asked(d) : row[d].sym[t] = "in_progress" => t \notin job[d].left
    /\ row' = [row EXCEPT ![d].sym[s] = "in_progress"]
    /\ UNCHANGED <<job, pc, used>>

FinishSymbol(d, s) ==
    /\ job[d].state = "running" /\ s \in job[d].left /\ row[d].sym[s] = "in_progress"
    /\ \E o \in {"succeeded", "failed"} : row' = [row EXCEPT ![d].sym[s] = o]
    /\ job' = [job EXCEPT ![d].left = @ \ {s}]
    /\ UNCHANGED <<pc, used>>

\* Mutant: one symbol is enough.
AnySucceeded(d) == IF \E s \in Asked(d) : row[d].sym[s] = "succeeded" THEN "completed" ELSE "with_failures"
_compute_terminal_status(d) ==
    IF \A s \in Asked(d) : row[d].sym[s] = "succeeded" THEN "completed" ELSE "with_failures"

Finish(d) ==
    /\ job[d].state = "running" /\ job[d].left = {}
    /\ row' = [row EXCEPT ![d].status = _compute_terminal_status(d)] /\ Ends(d)
    /\ UNCHANGED <<pc, used>>

\* An exception marks the run FAILED, unless the database is what failed.
Crashes(d) ==
    /\ job[d].state = "running" /\ Fault("crash") /\ Ends(d)
    /\ \E st \in {"failed", row[d].status} : row' = [row EXCEPT ![d].status = st]
    /\ UNCHANGED pc

\* A dead worker's job is run again; the job time-out cancels the coroutine, which no
\* handler catches.
Killed(d) ==
    /\ job[d].state = "running" /\ Fault("kill")
    /\ Requeued(d) \/ Ends(d)
    /\ UNCHANGED <<row, pc>>

ExpireResult(d) ==
    /\ job[d].state = "result" /\ job' = [job EXCEPT ![d] = NoJob]
    /\ UNCHANGED <<row, pc, used>>

-----------------------------------------------------------------------------
Init ==
    /\ row = [d \in Digests |-> NoRow] /\ job = [d \in Digests |-> NoJob]
    /\ pc = [r \in Callers |-> "idle"]
    /\ used = [commit |-> 0, kill |-> 0, crash |-> 0]

Worker(d) ==
    \/ Take(d) \/ Finish(d)
    \/ \E s \in Symbols : StartSymbol(d, s) \/ FinishSymbol(d, s)

Next ==
    \/ \E r \in Callers :
         Onboard(r) \/ Repair(r) \/ Enqueue(r) \/ Reselect(r) \/ Insert(r) \/ InsertFails(r) \/ ApiDies(r)
    \/ \E d \in Digests : Worker(d) \/ Crashes(d) \/ Killed(d) \/ ExpireResult(d)

Spec == Init /\ [][Next]_vars

-----------------------------------------------------------------------------
TypeOK ==
    /\ \A d \in Digests :
         /\ row[d].status \in {None, "pending", "in_progress", "completed", "with_failures", "failed"}
         /\ row[d].id \in Callers \cup {None} /\ job[d].id \in Callers \cup {None}
         /\ job[d].tries \in 0..MaxTries /\ job[d].left \subseteq Symbols

\* A run that was answered as accepted is still going to be worked on: the job that names
\* its row is in the queue or running, although it was enqueued before the row existed.
\* A run in progress loses its job only to a crash, a kill or a time-out.
AcceptedRunHasJob ==
    \A d \in Digests :
        LET carried == job[d].id = row[d].id /\ job[d].state \in {"queued", "running"} IN
        /\ row[d].status = "pending" => carried
        /\ row[d].status = "in_progress" => carried \/ used.crash + used.kill > 0

\* COMPLETED means that every symbol succeeded, also when a second delivery of the job
\* has worked on the symbols again.
CompletedMeansAll ==
    \A d \in Digests : row[d].status = "completed" => \A s \in Asked(d) : row[d].sym[s] = "succeeded"

\* Does not hold: after a time-out the run stays IN_PROGRESS, a new request is answered
\* with it, and a repair is refused.
NoStuckRun ==
    \A d \in Digests : row[d].status = "in_progress" => job[d].state \in {"queued", "running"}

-----------------------------------------------------------------------------
(* Why AcceptedRunHasJob and CompletedMeansAll hold.                        *)

RunType ==
    [status : {None, "pending", "in_progress", "completed", "with_failures", "failed"},
     id : Callers \cup {None},
     sym : [Symbols -> {None, "not_started", "in_progress", "succeeded", "failed"}]]
JobType ==
    [state : {None, "queued", "running", "result"}, id : Callers \cup {None},
     tries : 0..MaxTries, left : SUBSET Symbols]
PCs == {"idle", "enqueue", "insert", "reselect", "ok", "accepted", "refused", "conflict", "unavailable", "error"}
RunsAreTyped ==
    /\ row \in [Digests -> RunType] /\ job \in [Digests -> JobType]
    /\ pc \in [Callers -> PCs] /\ used \in [commit : Nat, kill : Nat, crash : Nat]

\* Only the caller that inserted a row is answered "accepted", and it is done.
RowIsAccepted(d) == row[d].id \in Callers => pc[row[d].id] = "accepted"

\* The job of a caller that is about to insert waits in the queue, with a try left.
InsertIsCovered(d) ==
    \A r \in Callers : DigestOf(r) = d /\ pc[r] = "insert" =>
        job[d].id = r /\ job[d].state = "queued" /\ job[d].tries <= 1

\* So does the job of a row that nobody has worked on.
PendingIsQueued(d) ==
    row[d].status = "pending" =>
        job[d].id = row[d].id /\ job[d].state = "queued" /\ job[d].tries <= 1

\* A job that runs works on its own row, and only a crash or a kill parts the two.
WorkIsInProgress(d) ==
    /\ job[d].state = "running" => row[d].status = "in_progress" /\ job[d].id = row[d].id
    /\ row[d].status = "in_progress" => job[d].state = "running" \/ used.crash + used.kill > 0

AllSucceeded(d) ==
    row[d].status = "completed" => \A s \in Symbols : row[d].sym[s] \in {None, "succeeded"}

RunIsCarried(d) ==
    RowIsAccepted(d) /\ InsertIsCovered(d) /\ PendingIsQueued(d) /\ WorkIsInProgress(d) /\ AllSucceeded(d)

\* The inductive invariant.
Carried == RunsAreTyped /\ \A d \in Digests : RunIsCarried(d)
=============================================================================
