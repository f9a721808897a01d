--------------------------- MODULE ResearchSearch ---------------------------
(***************************************************************************)
(* The research engine: a parameter sweep (every candidate, successive       *)
(* halving over growing prefixes of the training days, or sampled trials)     *)
(* selects one candidate from training runs alone; a walk-forward repeats the  *)
(* sweep per window and then tests what it selected on the following days.      *)
(* A backtest may fail, give no usable objective, or too few trades, each time. *)
(***************************************************************************)
EXTENDS Integers, FiniteSets, Sequences, SequencesExt

CONSTANTS
    Grid,                   \* how many parameter combinations there are
    Requests,               \* the requests a user may send, see RequestType
    Outcomes,               \* what a backtest may yield, see OutcomeType
    MinHoldout, MaxHoldout, \* 21 and 126 days
    AutoDays, AutoPct,      \* 252 days and 0.2
    HalvingCount, HalvingDays,  \* 8 candidates and 60 days
    DefaultTrades,          \* 10
    MaxTrials               \* settings.optuna_max_trials

VARIABLES
    req,                    \* the request
    pc,
    window,                 \* index of the walk-forward window, 1 in a sweep
    stage,                  \* index of the halving stage
    survivors,              \* candidate indexes, best first once ranked
    cand,                   \* the result record of each candidate
    trials,                 \* terminal_trials of the sampled search
    best,                   \* the selected candidate, 0: none
    log                     \* backtests run: [c, from, to, why, win]

vars == <<req, pc, window, stage, survivors, cand, trials, best, log>>

NoneGiven == -1
Candidates == 1..Grid
OutcomeType == [kind : {"error", "nan", "ok"}, value : Int, trades : Nat, gain : BOOLEAN]
RequestType ==
    [days : Nat, holdout : Nat \cup {NoneGiven}, pct : Nat \cup {NoneGiven}, purge : Nat,
     search : {"auto", "grid", "successive_halving", "optuna"}, fractions : SUBSET (1..100),
     factor : Nat, min : Nat \cup {NoneGiven}, positive : BOOLEAN,
     forward : BOOLEAN, expanding : BOOLEAN, train : Nat, test : Nat, step : Nat]

Least(S) == CHOOSE n \in S : \A m \in S : n <= m
Largest(S) == CHOOSE n \in S : \A m \in S : n >= m
Ceil(n, d) == (n + d - 1) \div d
\* The members of C in the order R, a relation on C.
Sorted(C, R) == [i \in 1..Cardinality(C) |-> CHOOSE c \in C : Cardinality({d \in C : <<d, c>> \in R}) = i]
Length(a, b) == Largest({1, b - a + 1})

-----------------------------------------------------------------------------
(* Date ranges *)

\* Days train_start..train_end of window k, followed by the test days.
WindowOf(q, k) ==
    LET cursor == 1 + (k - 1) * q.step
        last == cursor + q.train - 1
    IN  [trainFrom |-> IF q.expanding THEN 1 ELSE cursor, trainTo |-> last,
         testFrom |-> last + 1, testTo |-> last + q.test]
WindowFits(q, k) == WindowOf(q, k).testTo <= q.days
build_walk_forward_windows(q) == {k \in 1..q.days : \A j \in 1..k : WindowFits(q, j)}

SweepFrom(q, k) == IF q.forward THEN WindowOf(q, k).trainFrom ELSE 1
SweepTo(q, k) == IF q.forward THEN WindowOf(q, k).trainTo ELSE q.days

\* How many days are held out of a..b, 0: none.
HoldoutDays(q, a, b) ==
    LET n == Length(a, b)
        pct == IF q.holdout = NoneGiven /\ q.pct = NoneGiven /\ n >= AutoDays THEN AutoPct ELSE q.pct
    IN  CASE q.holdout # NoneGiven -> q.holdout
          [] q.holdout = NoneGiven /\ pct # NoneGiven ->
                 Largest({MinHoldout, Least({MaxHoldout, Ceil(n * pct, 100)})})
          [] OTHER -> 0
ExplicitSplit(q) == q.holdout # NoneGiven \/ q.pct # NoneGiven
SplitTooLarge(q, a, b) == HoldoutDays(q, a, b) > 0 /\ HoldoutDays(q, a, b) + q.purge >= Length(a, b)
SplitRaises(q, a, b) == SplitTooLarge(q, a, b) /\ ExplicitSplit(q)
HasSplit(q, a, b) == HoldoutDays(q, a, b) > 0 /\ ~SplitTooLarge(q, a, b)
HoldoutFrom(q, a, b) == b - HoldoutDays(q, a, b) + 1
TrainUpToHoldout(q, a, b) == IF HasSplit(q, a, b) THEN HoldoutFrom(q, a, b) - 1 ELSE b
\* resolve_train_holdout_split: the last day candidates may be trained on.
TrainTo(q, a, b) == IF HasSplit(q, a, b) THEN HoldoutFrom(q, a, b) - q.purge - 1 ELSE b

\* The days of the current sweep, and the last one candidates are trained on.
From == SweepFrom(req, window)
To == SweepTo(req, window)
Trained == TrainTo(req, From, To)

resolve_search_strategy ==
    IF req.search # "auto" THEN req.search
    ELSE IF Grid >= HalvingCount /\ Length(From, Trained) >= HalvingDays THEN "successive_halving" ELSE "grid"

MinTrades ==
    IF req.min = NoneGiven /\ resolve_search_strategy # "grid" THEN DefaultTrades ELSE req.min

normalize_stage_fractions(fs) ==
    {Least({100, Largest({5, f})}) : f \in IF fs = {} THEN {35, 70, 100} ELSE fs} \cup {100}
StageEnd(f) == Least({Trained, From + Largest({1, Ceil(Length(From, Trained) * f, 100)}) - 1})
\* One stage per distinct end day, at the smallest fraction that reaches it.
build_successive_halving_stages ==
    LET fs == normalize_stage_fractions(req.fractions)
        ends == {StageEnd(f) : f \in fs}
        days == Sorted(ends, {p \in ends \X ends : p[1] <= p[2]})
    IN  [i \in DOMAIN days |->
            [to |-> days[i], fraction |-> Least({f \in fs : StageEnd(f) = days[i]})]]

-----------------------------------------------------------------------------
(* Candidates *)

NotRun == [kind |-> "none", value |-> 0, trades |-> 0, gain |-> FALSE]
Fresh == [res |-> NotRun, pruned |-> FALSE, full |-> FALSE, eligible |-> FALSE]
scaled_min_trades(f) == Largest({1, Ceil(MinTrades * f, 100)})
is_stage_eligible(r, f) ==
    /\ r.kind # "error"
    /\ MinTrades # NoneGiven => r.trades >= scaled_min_trades(f)
    /\ req.positive => r.gain
\* extract_usable_objective_value gives a number.
Usable(r) == r.kind = "ok"

\* rank_results: the best objective first, equal ones in the order they were in.
Pos(s, c) == CHOOSE i \in DOMAIN s : s[i] = c
Ranked(s, C, x) ==
    Sorted(C, {p \in C \X C :
                  LET u == x[p[1]].res.value
                      v == x[p[2]].res.value
                  IN  u > v \/ (u = v /\ Pos(s, p[1]) <= Pos(s, p[2]))})

SelectableUnpruned(x) == Usable(x.res) /\ ~x.pruned
Selectable(x) == Usable(x.res) /\ ~x.pruned /\ x.full /\ is_stage_eligible(x.res, 100)
mark_training_selection(x) ==
    [x EXCEPT !.eligible = Selectable(x),
              !.pruned = @ \/ (Usable(x.res) /\ x.full /\ ~is_stage_eligible(x.res, 100))]

\* _run_one of each candidate of s: the outcome is free each time.
Runs(s) == [ToSet(s) -> Outcomes]
Logged(s, a, b, why) == log' = log \cup {[c |-> c, from |-> a, to |-> b, why |-> why, win |-> window] : c \in ToSet(s)}
AllCandidates == [i \in Candidates |-> i]

-----------------------------------------------------------------------------
(* The sweep *)

BeginSweep ==
    /\ pc = "sweep" /\ cand' = [c \in Candidates |-> Fresh] /\ survivors' = AllCandidates
    /\ stage' = 1 /\ trials' = 0 /\ best' = 0
    /\ pc' = CASE SplitRaises(req, From, To) -> "failed"
               [] resolve_search_strategy = "optuna" -> "trial"
               [] resolve_search_strategy = "successive_halving" -> "stage"
               [] OTHER -> "full"
    /\ UNCHANGED <<req, window, log>>

\* A stage of _run_successive_halving.
KeepCount(n) == Least({n, Largest({1, Ceil(n, req.factor)})})
LastStage == stage = Len(build_successive_halving_stages)
Seen(o) == [c \in Candidates |-> IF c \in DOMAIN o THEN [cand[c] EXCEPT !.res = o[c]] ELSE cand[c]]
PassedStage(o) ==
    {c \in DOMAIN o :
        Usable(o[c]) /\ is_stage_eligible(o[c], build_successive_halving_stages[stage].fraction)}
Kept(o) ==
    LET order == Ranked(survivors, PassedStage(o), Seen(o))
    IN  IF LastStage THEN order ELSE SubSeq(order, 1, KeepCount(Len(order)))
Cut(o) == {c \in DOMAIN o : Usable(o[c])} \ ToSet(Kept(o))
RunStage ==
    /\ pc = "stage" /\ Logged(survivors, From, build_successive_halving_stages[stage].to, "train")
    /\ \E o \in Runs(survivors) :
        /\ cand' = [c \in Candidates |-> IF c \in Cut(o) THEN [Seen(o)[c] EXCEPT !.pruned = TRUE] ELSE Seen(o)[c]]
        /\ survivors' = Kept(o)
        /\ pc' = IF LastStage \/ Kept(o) = <<>> THEN "full" ELSE "stage"
    /\ stage' = stage + 1 /\ UNCHANGED <<req, window, trials, best>>

\* The survivors are run over all of the training days.
RunFull ==
    /\ pc = "full" /\ pc' = "select" /\ Logged(survivors, From, Trained, "train")
    /\ \E o \in Runs(survivors) :
        cand' = [c \in Candidates |-> IF c \in DOMAIN o
                    THEN [cand[c] EXCEPT !.res = o[c], !.full = o[c].kind # "error"] ELSE cand[c]]
    /\ UNCHANGED <<req, window, stage, survivors, trials, best>>

\* A trial of _run_optuna_parameter_sweep: a configuration seen before is told, not run.
TargetTrials == Least({MaxTrials, Grid})
RunTrial ==
    /\ pc = "trial"
    /\ IF trials = TargetTrials \/ (\A c \in Candidates : cand[c].res.kind # "none")
       THEN pc' = "select" /\ UNCHANGED <<cand, trials, log>>
       ELSE /\ UNCHANGED pc /\ trials' = trials + 1
            /\ \E c \in Candidates :
                IF cand[c].res.kind # "none" THEN UNCHANGED <<cand, log>>
                ELSE /\ Logged(<<c>>, From, Trained, "train")
                     /\ \E o \in Outcomes :
                            cand' = [cand EXCEPT ![c] = [@ EXCEPT !.res = o, !.full = o.kind # "error"]]
    /\ UNCHANGED <<req, window, stage, survivors, best>>

\* _select_best_result, then the diagnostics of the one selected.
Select ==
    LET marked == [c \in Candidates |-> mark_training_selection(cand[c])]
        order == Ranked(AllCandidates, {c \in Candidates : marked[c].eligible}, marked)
        split == HasSplit(req, From, To) /\ order # <<>>
        entry(a, b, why) == [c |-> Head(order), from |-> a, to |-> b, why |-> why, win |-> window]
    IN
    /\ pc = "select" /\ cand' = marked /\ best' = IF order = <<>> THEN 0 ELSE Head(order)
    /\ log' = IF split THEN log \cup {entry(HoldoutFrom(req, From, To), To, "holdout"), entry(From, To, "period")}
              ELSE log
    /\ pc' = IF req.forward THEN "test" ELSE "done"
    /\ UNCHANGED <<req, window, stage, survivors, trials>>

\* run_walk_forward: the window's test, and on to the next window.
Test ==
    LET w == WindowOf(req, window)
        tested == IF best = 0 THEN <<>> ELSE <<best>>
    IN
    /\ pc = "test" /\ Logged(tested, w.testFrom, w.testTo, "test")
    /\ IF WindowFits(req, window + 1) THEN pc' = "sweep" /\ window' = window + 1
       ELSE pc' = "done" /\ UNCHANGED window
    /\ UNCHANGED <<req, stage, survivors, cand, trials, best>>

\* The request's validator, and no window in the range.
Accepted(q) ==
    LET n == IF q.forward THEN q.train ELSE q.days
    IN  ~(ExplicitSplit(q) /\ HoldoutDays(q, 1, n) + q.purge >= n)
Submit ==
    /\ pc = "idle"
    /\ pc' = CASE ~Accepted(req) -> "refused"
               [] req.forward /\ build_walk_forward_windows(req) = {} -> "failed"
               [] OTHER -> "sweep"
    /\ UNCHANGED <<req, window, stage, survivors, cand, trials, best, log>>

Init ==
    /\ req \in Requests /\ pc = "idle" /\ window = 1 /\ stage = 1 /\ survivors = <<>> /\ trials = 0
    /\ cand = [c \in Candidates |-> Fresh] /\ best = 0 /\ log = {}

Next == Submit \/ BeginSweep \/ RunStage \/ RunFull \/ RunTrial \/ Select \/ Test

Spec == Init /\ [][Next]_vars

-----------------------------------------------------------------------------
(* Properties *)

TypeOK ==
    /\ req \in Requests /\ best \in 0..Grid /\ window \in 1..req.days /\ trials \in 0..MaxTrials
    /\ pc \in {"idle", "refused", "failed", "sweep", "stage", "full", "trial", "select", "test", "done"}
    /\ ToSet(survivors) \subseteq Candidates
    /\ DOMAIN cand = Candidates

\* What a selection rests on is over before it is judged: within a window no training run comes
\* within the purge of the held-out days, and no run at all reaches the days of the window's test.
NoLookahead ==
    \A r \in log, h \in log :
        /\ r.win = h.win /\ r.why = "train" /\ h.why = "holdout" => r.to + req.purge < h.from
        /\ r.win = h.win /\ r.why # "test" /\ h.why = "test" => r.to < h.from
        /\ r.to <= req.days /\ r.from <= r.to

\* The candidate selected was run over every training day, passed, and nothing that did so too beats it.
Passed(c) == cand[c].res.kind = "ok" /\ is_stage_eligible(cand[c].res, 100)
FullyTrained(c) == [c |-> c, from |-> From, to |-> Trained, why |-> "train", win |-> window] \in log
SelectionIsSound ==
    pc \in {"test", "done"} /\ best # 0 =>
        /\ Passed(best) /\ FullyTrained(best)
        /\ \A c \in Candidates : Passed(c) /\ FullyTrained(c) /\ cand[c].full =>
              cand[best].res.value >= cand[c].res.value

\* A stage never drops the best candidate that passed it.
\* An action property: [][HalvingKeepsTheBest]_vars.
HalvingKeepsTheBest ==
    pc = "stage" =>
     \A c \in ToSet(survivors) \ ToSet(survivors') :
         Usable(cand'[c].res) /\ is_stage_eligible(cand'[c].res, build_successive_halving_stages[stage].fraction) =>
             \E d \in ToSet(survivors') : cand'[d].res.value >= cand'[c].res.value

-----------------------------------------------------------------------------
(* What keeps them inductive *)

\* Every run of the log is over days its window gives it.
RunIsInPlace(r) ==
    LET a == SweepFrom(req, r.win)
        b == SweepTo(req, r.win)
        w == WindowOf(req, r.win)
    IN  /\ r.win \in 1..window /\ r.to \in Int
        /\ \/ r.why = "train" /\ r.from = a /\ a <= r.to /\ r.to <= TrainTo(req, a, b)
           \/ r.why = "holdout" /\ HasSplit(req, a, b) /\ r.from = HoldoutFrom(req, a, b) /\ r.to = b
           \/ r.why = "period" /\ r.from = a /\ r.to = b
           \/ r.why = "test" /\ req.forward /\ r.from = w.testFrom /\ r.to = w.testTo

\* A walk-forward that has begun is in a window that fits, and so were the ones before it.
WindowsFit ==
    req.forward =>
        \/ pc \in {"idle", "refused", "failed"} /\ log = {} /\ window = 1
        \/ \A k \in 1..window : WindowFits(req, k)

\* A candidate counts as fully run only with a run over all training days, and none that a
\* stage dropped does.
FullIsTrained ==
    /\ pc \in {"stage", "full"} => /\ \A c \in Candidates : ~cand[c].full
                                   /\ \A c \in ToSet(survivors) : ~cand[c].pruned
    /\ pc = "trial" => \A c \in Candidates : ~cand[c].pruned
    /\ pc = "select" => \A c \in Candidates : cand[c].full => ~cand[c].pruned
    /\ pc \in {"trial", "select", "test", "done"} => \A c \in Candidates : cand[c].full => FullyTrained(c)

\* What is selected is a best one that was fully run, and only a walk-forward tests it.
BestIsBest ==
    /\ pc = "test" => req.forward
    /\ pc \in {"test", "done"} /\ best # 0 =>
         /\ Passed(best) /\ cand[best].full
         /\ \A c \in Candidates : Passed(c) /\ cand[c].full => cand[best].res.value >= cand[c].res.value

Fields == {"res", "pruned", "full", "eligible"}
SoundSearch ==
    /\ TypeOK /\ survivors \in Seq(Candidates)
    /\ \A c \in Candidates : DOMAIN cand[c] = Fields /\ cand[c].res \in OutcomeType \cup {NotRun}
    /\ trials <= TargetTrials
    /\ pc = "stage" => stage \in DOMAIN build_successive_halving_stages
    /\ \A r \in log : RunIsInPlace(r)
    /\ WindowsFit /\ FullIsTrained /\ BestIsBest
=============================================================================
