----------------------------- MODULE PortfolioRun -----------------------------
(***************************************************************************)
(* One execution of a portfolio run. The worker's event loop warms the        *)
(* catalog, fans the members' backtests out to a pool as large as its compute  *)
(* lease, and stores the outcome; a full run first spends its trials over       *)
(* walk-forward windows in a thread of its own. The operator may cancel at any   *)
(* moment; both callers poll for it through a coroutine on the event loop.        *)
(***************************************************************************)
EXTENDS Integers, FiniteSets

CONSTANTS
    Members,                \* the portfolio's candidates
    Ranges,                 \* date ranges a run may ask for, in days
    TrialCounts,            \* n_trials_override or portfolio_full_trial_count
    Leases,                 \* compute slots the worker may hold
    Parallelism,            \* max_parallelism a run may ask for
    SlotLimit,              \* settings.compute_slot_limit
    MaxFaults               \* failing catalogs, members, tells and polls

VARIABLES
    ask,                    \* the run: [full, days, trials, par] and its lease
    row,                    \* status of the run's row
    pc,                     \* of the worker
    member,                 \* backtest of each member: "wait", "run", "ok", "failed"
    window, left,           \* the optimizer's window and the trials left in it
    asked, told,            \* trials of the study
    err,                    \* why the worker gives up
    early,                  \* cancelled before the fan-out (history)
    faults

vars == <<ask, row, pc, member, window, left, asked, told, err, early, faults>>

Live == {"pending", "running"}
Least(a, b) == IF a < b THEN a ELSE b
Largest(a, b) == IF a > b THEN a ELSE b
Fault == faults < MaxFaults /\ faults' = faults + 1
In(s) == {m \in Members : member[m] = s}

-----------------------------------------------------------------------------
(* _scaled_walk_forward_params *)

TestDays(d) == IF d >= 315 THEN 63 ELSE Largest(30, (d * 2) \div 10)
TrainUnclamped(d) == IF d >= 315 THEN 252 ELSE Largest(30, (d * 7) \div 10)
TrainDays(d) == IF d >= 315 THEN 252 ELSE Largest(30, Least((d * 7) \div 10, d - TestDays(d)))
\* build_walk_forward_windows, the step being the test leg
WindowCount(d) ==
    IF TrainDays(d) + TestDays(d) > d THEN 0
    ELSE (d - TrainDays(d) - TestDays(d)) \div TestDays(d) + 1

AtLeastOne(w) == Largest(1, ask.trials \div WindowCount(ask.days))
\* n_trials // windows each, and one more in the first n_trials % windows
TrialsIn(w) ==
    ask.trials \div WindowCount(ask.days) + (IF w <= ask.trials % WindowCount(ask.days) THEN 1 ELSE 0)

-----------------------------------------------------------------------------
(* The poll: the answer of a coroutine that only the event loop can run *)

\* Called on the loop it waits for itself until the time-out, which reads as "not cancelled".
\* Called from the optimizer's thread it reads the row, and a failing poll is FALSE as well.
PollOnLoop(answer) == answer = FALSE /\ UNCHANGED faults
PollInThread(answer) == (answer = (row = "cancelled") /\ UNCHANGED faults) \/ (answer = FALSE /\ Fault)

-----------------------------------------------------------------------------
(* The worker *)

\* mark_run_running has found the row live.
Start ==
    /\ pc = "idle" /\ row = "pending" /\ row' = "running" /\ pc' = "load"
    /\ UNCHANGED <<ask, member, window, left, asked, told, err, early, faults>>

GiveUp(why) == pc' = "fail" /\ err' = why

\* _load_allocations, _resolve_allocations: none, or one without candidate, strategy or instruments
Load ==
    /\ pc = "load"
    /\ \/ pc' = "warm" /\ UNCHANGED <<err, faults>>
       \/ Fault /\ GiveUp("allocations")
    /\ UNCHANGED <<ask, row, member, window, left, asked, told, early>>

\* ensure_catalog_data for every asset class
WarmCatalog ==
    /\ pc = "warm"
    /\ \/ pc' = "fan" /\ UNCHANGED <<err, faults>>
       \/ Fault /\ GiveUp("catalog")
    /\ UNCHANGED <<ask, row, member, window, left, asked, told, early>>

\* _execute_candidate_backtests: the poll, then every member is submitted to the pool.
FanOut ==
    /\ pc = "fan"
    /\ \E cancelled \in BOOLEAN :
        /\ PollOnLoop(cancelled)
        /\ IF cancelled THEN GiveUp("cancelled") ELSE pc' = "gather" /\ UNCHANGED err
    /\ UNCHANGED <<ask, row, member, window, left, asked, told, early>>

PoolAsRequested == Largest(1, Least(Least(Cardinality(Members), ask.par), SlotLimit))
\* max_workers, the lease, wins over the run's max_parallelism.
PoolSize == Largest(1, Least(Least(Cardinality(Members), ask.lease), SlotLimit))

StartMember(m) ==
    /\ pc = "gather" /\ member[m] = "wait" /\ Cardinality(In("run")) < PoolSize
    /\ member' = [member EXCEPT ![m] = "run"]
    /\ UNCHANGED <<ask, row, pc, window, left, asked, told, err, early, faults>>

EndMember(m) ==
    /\ member[m] = "run"
    /\ \/ member' = [member EXCEPT ![m] = "ok"] /\ UNCHANGED faults
       \/ Fault /\ member' = [member EXCEPT ![m] = "failed"]
    /\ UNCHANGED <<ask, row, pc, window, left, asked, told, err, early>>

\* gather returns when all have ended; one failure fails the run.
AnySuccess == In("ok") # {}
AllSucceeded == In("failed") = {}
Gather ==
    /\ pc = "gather" /\ In("wait") \cup In("run") = {}
    /\ LET why == IF ~AllSucceeded THEN "member"
                  ELSE IF ask.full /\ WindowCount(ask.days) = 0 THEN "no windows" ELSE "none"
       IN  IF why # "none" THEN GiveUp(why)
           ELSE pc' = (IF ask.full THEN "window" ELSE "store") /\ UNCHANGED err
    /\ UNCHANGED <<ask, row, member, window, left, asked, told, early, faults>>

-----------------------------------------------------------------------------
(* run_portfolio_walk_forward, in a thread *)

NextWindow ==
    /\ pc = "window"
    /\ IF window = WindowCount(ask.days) THEN pc' = "store" /\ UNCHANGED <<window, left, faults>>
       ELSE \E cancelled \in BOOLEAN :
              /\ PollInThread(cancelled)
              /\ IF cancelled THEN pc' = "store" /\ UNCHANGED <<window, left>>
                 ELSE pc' = "trial" /\ window' = window + 1 /\ left' = TrialsIn(window + 1)
    /\ UNCHANGED <<ask, row, member, asked, told, err, early>>

Ask ==
    /\ pc = "trial"
    /\ IF left = 0 THEN pc' = "window" /\ UNCHANGED <<left, asked, faults>>
       ELSE \E cancelled \in BOOLEAN :
              /\ PollInThread(cancelled)
              /\ IF cancelled THEN pc' = "window" /\ left' = 0 /\ UNCHANGED asked
                 ELSE pc' = "tell" /\ left' = left - 1 /\ asked' = asked + 1
    /\ UNCHANGED <<ask, row, member, window, told, err, early>>

\* The trial is told its score, a breached cap or an error. A tell that fails is followed by
\* another in the handler; when that fails too, a last one is tried before the error leaves.
Tell ==
    /\ pc = "tell"
    /\ \/ told' = told + 1 /\ pc' = "trial" /\ UNCHANGED <<err, faults>>
       \/ Fault /\ told' = told + 1 /\ pc' = "trial" /\ UNCHANGED err
       \/ Fault /\ told' \in {told, told + 1} /\ GiveUp("journal")
    /\ UNCHANGED <<ask, row, member, window, left, asked, early>>

-----------------------------------------------------------------------------
(* The outcome *)

\* The UPDATE names the statuses it may replace.
MayStore == row \in Live
Store ==
    /\ pc = "store" /\ pc' = "end"
    /\ row' = IF MayStore THEN "completed" ELSE row
    /\ UNCHANGED <<ask, member, window, left, asked, told, err, early, faults>>

Fail ==
    /\ pc = "fail" /\ pc' = "end"
    /\ row' = IF row \in Live THEN "failed" ELSE row
    /\ UNCHANGED <<ask, member, window, left, asked, told, err, early, faults>>

Cancel ==
    /\ row \in Live /\ row' = "cancelled"
    /\ early' = (pc \in {"load", "warm", "fan"})
    /\ UNCHANGED <<ask, pc, member, window, left, asked, told, err, faults>>

\* create_run refuses a full run of less than 90 days.
Requests ==
    {a \in [full : BOOLEAN, days : Ranges, trials : TrialCounts, par : Parallelism, lease : Leases] :
        (a.full => a.days >= 90) /\ a.lease <= a.par}

Init ==
    /\ ask \in Requests /\ row = "pending" /\ pc = "idle" /\ member = [m \in Members |-> "wait"]
    /\ window = 0 /\ left = 0 /\ asked = 0 /\ told = 0 /\ err = "none" /\ early = FALSE /\ faults = 0

Next ==
    \/ Start \/ Load \/ WarmCatalog \/ FanOut \/ Gather \/ NextWindow \/ Ask \/ Tell \/ Store \/ Fail \/ Cancel
    \/ \E m \in Members : StartMember(m) \/ EndMember(m)

Spec == Init /\ [][Next]_vars

-----------------------------------------------------------------------------
(* Properties *)

TypeOK ==
    /\ ask \in Requests /\ row \in Live \cup {"completed", "failed", "cancelled"}
    /\ pc \in {"idle", "load", "warm", "fan", "gather", "window", "trial", "tell", "store", "fail", "end"}
    /\ member \in [Members -> {"wait", "run", "ok", "failed"}]
    /\ window \in 0..WindowCount(ask.days) /\ left \in Nat /\ told <= asked
    /\ err \in {"none", "allocations", "catalog", "cancelled", "member", "no windows", "journal"}
    /\ early \in BOOLEAN /\ faults \in 0..MaxFaults

\* A completed run rests on every member and, in full mode, on exactly the trials asked for, each
\* of them told; no range that was admitted is without a window.
CompletedIsWhole ==
    /\ row = "completed" => /\ In("ok") = Members
                            /\ ask.full => asked = ask.trials /\ told = asked
    /\ err # "no windows"

\* The backtests that run at once stay within the slots the worker holds.
PoolWithinLease == Cardinality(In("run")) <= ask.lease

\* Does not hold. A run cancelled before its backtests start launches none.
CancelStopsFanOut == early => In("wait") = Members

-----------------------------------------------------------------------------
(* What keeps them inductive *)

BeforeTrials == {"idle", "load", "warm", "fan", "gather"}
Optimizing   == {"window", "trial", "tell"}

\* The trials of the first w windows; those of all windows are the trials asked for.
Planned(w) ==
    w * (ask.trials \div WindowCount(ask.days)) + Least(w, ask.trials % WindowCount(ask.days))

\* No trial is asked for before the members have ended, and none is left between windows.
TrialsAreCounted ==
    /\ pc \in BeforeTrials => window = 0 /\ asked = 0 /\ told = 0
    /\ pc \in BeforeTrials \cup {"window"} => left = 0
    /\ pc \in Optimizing => /\ ask.full /\ asked = told + (IF pc = "tell" THEN 1 ELSE 0)
                            /\ row = "cancelled" \/ asked + left = Planned(window)

\* What is stored rests on every member and trial; a cancelled run stores nothing.
OutcomeIsWhole ==
    /\ row = "completed" => pc = "end"
    /\ pc \in Optimizing \cup {"store"} \/ row = "completed" => In("ok") = Members
    /\ (pc = "store" \/ row = "completed") /\ ask.full =>
         told = asked /\ (row = "cancelled" \/ asked = ask.trials)

SoundRun ==
    /\ TypeOK /\ asked \in Nat /\ told \in Nat
    /\ TrialsAreCounted /\ OutcomeIsWhole /\ PoolWithinLease /\ err # "no windows"
=============================================================================
