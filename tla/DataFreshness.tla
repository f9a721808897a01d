---------------------------- MODULE DataFreshness ----------------------------
(***************************************************************************)
(* When a feed counts as stale: the DataFreshnessActor that records bars,   *)
(* the hand-over of its registry to the DataStaleMonitor, and evaluate().    *)
(* Time is a counter. A healthy feed delivers a bar within its interval and  *)
(* the phase's grace, counted from its last bar, from the opening of the     *)
(* phase and from its subscription; a silent feed delivers none.             *)
(***************************************************************************)
EXTENDS Integers, FiniteSets, FiniteSetsExt

CONSTANTS
    Feeds,          \* required feeds, all of one dataset
    Interval,       \* expected_interval_s of each feed
    GraceOf,        \* grace_s of each phase; 0 for a phase that is never stale
    StartupGrace,   \* startup_grace_s
    Horizon         \* bound on the time

VARIABLES
    now,
    phase,          \* [is, open]: SessionPhase
    last,           \* time of each feed's last bar, Never before the first
    own,            \* the actor's registry until the hand-over
    shared,         \* the monitor's registry
    started,        \* monitor_started_ns, Never before start()
    silent          \* the feed that stopped delivering, or "none"

vars == <<now, phase, last, own, shared, started, silent>>

Never  == -1
Closed == 0
Empty  == [f \in Feeds |-> Never]
Grace  == GraceOf[phase.is]
Open   == Grace # 0
Since(t) == Max({t, phase.open, 0})

-----------------------------------------------------------------------------
(* The registry.                                                           *)

\* FreshnessRegistry.record: the newest event wins.
record(reg, f, ts) == [reg EXCEPT ![f] = Max({@, ts})]

\* on_bar, into the registry the actor holds.
on_bar(f) ==
    /\ Open /\ f # silent /\ last[f] # now
    /\ last' = [last EXCEPT ![f] = now]
    /\ IF started = Never THEN own' = record(own, f, now) /\ UNCHANGED shared
                          ELSE shared' = record(shared, f, now) /\ UNCHANGED own
    /\ UNCHANGED <<now, phase, started, silent>>

\* set_registry replays the old registry into the new one.
Replayed(old) == [f \in Feeds |-> record(Empty, f, old[f])[f]]

\* The monitor starts with its registry; the actor swaps under its lock.
set_registry ==
    /\ started = Never /\ started' = now
    /\ shared' = Replayed(own)
    /\ UNCHANGED <<now, phase, last, own, silent>>

-----------------------------------------------------------------------------
(* evaluate().                                                             *)

\* Mutant: an absent feed is measured from the monitor's start only.
AbsentUnclamped(f) == now - started > Max({StartupGrace, Interval[f] + Grace})

\* Mutant: an absent feed has the flat startup grace.
AbsentFlat(f) == now - Max({started, phase.open}) > StartupGrace

\* Mutant: only a feed that was seen once can be stale.
AbsentNever(f) == FALSE

AbsentStale(f) ==
    now - Max({started, phase.open}) > Max({StartupGrace, Interval[f] + Grace})

\* Mutant: the last bar of an earlier phase is not clamped to the phase's opening.
SeenUnclamped(f) == now - shared[f] > Interval[f] + Grace

SeenStale(f) == now - Max({shared[f], phase.open}) > Interval[f] + Grace

DatasetStale ==
    LET seen == {f \in Feeds : shared[f] # Never}
    IN  /\ seen # {}
        /\ now - Max({Max({shared[f], phase.open}) : f \in seen})
             > Min({Interval[f] : f \in Feeds}) + Grace

\* The findings: stale feeds, and the dataset.
evaluate ==
    IF ~Open THEN {}
    ELSE {f \in Feeds : IF shared[f] = Never THEN AbsentStale(f) ELSE SeenStale(f)}
         \cup (IF DatasetStale THEN {"dataset"} ELSE {})

-----------------------------------------------------------------------------
(* The market and the clock.                                                *)

\* Mutant: every open phase counts from the first opening of the day.
PhaseKeepsOpening(p) == [is |-> p, open |-> IF GraceOf[p] = 0 THEN Closed
                                            ELSE IF Open THEN phase.open ELSE now]

\* resolve_session_phase: an open phase knows when it opened, a closed one does not.
resolve_session_phase(p) == [is |-> p, open |-> IF GraceOf[p] = 0 THEN Closed ELSE now]

PhaseChange(p) ==
    /\ p # phase.is /\ phase' = resolve_session_phase(p)
    /\ UNCHANGED <<now, last, own, shared, started, silent>>

FeedGoesSilent(f) ==
    /\ silent = "none" /\ Open
    /\ silent' = f
    /\ UNCHANGED <<now, phase, last, own, shared, started>>

\* Time passes, but not past the bar that a healthy feed owes.
Tick ==
    /\ now < Horizon /\ now' = now + 1
    /\ Open => \A f \in Feeds \ {silent} : now < Since(last[f]) + Interval[f] + Grace
    /\ UNCHANGED <<phase, last, own, shared, started, silent>>

Init ==
    /\ now = 0
    /\ phase \in {[is |-> p, open |-> 0] : p \in DOMAIN GraceOf}
    /\ last = Empty /\ own = Empty /\ shared = Empty
    /\ started = Never /\ silent = "none"

Next ==
    \/ set_registry \/ Tick
    \/ \E f \in Feeds : on_bar(f) \/ FeedGoesSilent(f)
    \/ \E p \in DOMAIN GraceOf : PhaseChange(p)

Spec == Init /\ [][Next]_vars

-----------------------------------------------------------------------------
TypeOK ==
    /\ now \in 0 .. Horizon /\ phase.is \in DOMAIN GraceOf /\ phase.open \in 0 .. now
    /\ last \in [Feeds -> Never .. now] /\ own \in [Feeds -> Never .. now]
    /\ shared \in [Feeds -> Never .. now] /\ started \in Never .. now

\* Healthy feeds never halt the fleet: whatever the order of bars, phase changes,
\* subscription and hand-over, evaluate() finds nothing while every feed keeps its
\* cadence.
NoFalseHalt == started # Never /\ silent = "none" => evaluate = {}

\* A silent feed does not stay unnoticed: in an open phase it is found once its budget
\* (the startup grace at the latest) is over, counted from its last bar, the phase's
\* opening and the monitor's start.
SilenceIsFound ==
    LET f == silent
    IN  /\ f # "none" /\ started # Never /\ Open
        /\ now - Max({last[f], phase.open, started}) > Max({StartupGrace, Interval[f] + Grace})
        => f \in evaluate

\* Why the two hold, as an inductive invariant: the registry in use has every bar, over the
\* hand-over too, and no healthy feed is past the time of its next bar.
RegistryFollows ==
    IF started = Never THEN own = last /\ shared = Empty ELSE shared = last

NoBarIsLate ==
    Open => \A f \in Feeds \ {silent} : now <= Since(last[f]) + Interval[f] + Grace

ExactStaleness == TypeOK /\ silent \in Feeds \cup {"none"} /\ RegistryFollows /\ NoBarIsLate
=============================================================================
