----------------------------- MODULE StaleHalt -----------------------------
(***************************************************************************)
(* The data-stale halt of a live node and the operator's /resume: the run   *)
(* loop of a trading subprocess from the clearing of the reconciled marker  *)
(* to its terminal write, the DataStaleMonitor in it, and the conditional   *)
(* clear of RESUME_CLEAR_LUA against both.                                  *)
(*                                                                         *)
(* A deployment keeps its id, and its Redis keys, over its runs. A verdict  *)
(* carries the run that published it, which the code does not record: only  *)
(* properties read it. Keys may expire whenever their monitor is not        *)
(* publishing.                                                             *)
(***************************************************************************)
EXTENDS Integers, FiniteSets

CONSTANTS
    Deployments,
    Feeds,          \* the feeds of all universes
    Universes,      \* the sets of feeds a run may require
    MaxRuns,        \* bound on the runs of a deployment
    MaxStalls,      \* bound on the feeds that go silent
    MaxFaults,      \* bound on failing Redis calls and crashes
    MaxResumes      \* bound on /kill-all and on /resume

VARIABLES
    fleet,          \* the fleet latch
    manifest,       \* each deployment's manifest key: a set of feeds, or None
    verdict,        \* the verdict key of each deployment and feed: [is, run]
    marker,         \* the run that set the reconciled marker, 0 if it is absent
    row,            \* status of the deployment row
    pc,             \* where the run loop is
    run,            \* the run of the deployment, 0 before the first
    universe,       \* _required_feeds of the run
    feed,           \* what evaluate() would say of each feed now
    shutdown,       \* shutdown_requested
    mon,            \* where the monitor is
    snap,           \* the feeds of the tick's snapshot, as evaluate() judged them
    halt_fired,     \* _halt_fired
    on_halt_fired,  \* _on_halt_fired
    resume,         \* the /resume in flight: [at, load, todo, pin]
    used            \* [stalls, faults, halts, resumes]

redis    == <<manifest, verdict, marker>>
loop     == <<row, pc, run, universe, shutdown>>
monitor  == <<mon, snap, halt_fired, on_halt_fired>>
vars     == <<fleet, redis, loop, feed, monitor, resume, used>>

None       == {"none"}
Absent     == [is |-> "absent", run |-> 0]
Idle       == [at |-> "idle", load |-> {}, todo |-> {}, pin |-> [d \in Deployments |-> None]]
Active(d)  == row[d] \in {"starting", "running"}
Ticking(d) == pc[d] \in {"check", "mark", "run"}
Stale(d)   == \E f \in universe[d] : snap[d][f] = "stale"

Goto(d, step) == pc' = [pc EXCEPT ![d] = step]
Mon(d, step)  == mon' = [mon EXCEPT ![d] = step]
Fault         == used.faults < MaxFaults /\ used' = [used EXCEPT !.faults = @ + 1]

-----------------------------------------------------------------------------
(* The data.                                                               *)

\* A bar of a feed arrives, or a feed is silent past its budget.
FeedArrives(d, f) ==
    /\ pc[d] # "off" /\ feed[d][f] # "warm"
    /\ feed' = [feed EXCEPT ![d][f] = "warm"]
    /\ UNCHANGED <<fleet, redis, loop, monitor, resume, used>>

FeedStalls(d, f) ==
    /\ pc[d] # "off" /\ feed[d][f] # "stale" /\ used.stalls < MaxStalls
    /\ feed' = [feed EXCEPT ![d][f] = "stale"]
    /\ used' = [used EXCEPT !.stalls = @ + 1]
    /\ UNCHANGED <<fleet, redis, loop, monitor, resume>>

-----------------------------------------------------------------------------
(* The run loop (run_subprocess_async).                                     *)

\* A start or restart of the deployment; a halt refuses it (see FleetRouter).
Spawn(d) ==
    /\ pc[d] = "off" /\ run[d] < MaxRuns /\ ~fleet
    /\ Goto(d, "clear")
    /\ run' = [run EXCEPT ![d] = @ + 1] /\ row' = [row EXCEPT ![d] = "starting"]
    /\ \E u \in Universes : universe' = [universe EXCEPT ![d] = u]
    /\ feed' = [feed EXCEPT ![d] = [f \in Feeds |-> "pending"]]
    /\ shutdown' = [shutdown EXCEPT ![d] = FALSE]
    /\ halt_fired' = [halt_fired EXCEPT ![d] = FALSE]
    /\ on_halt_fired' = [on_halt_fired EXCEPT ![d] = FALSE]
    /\ UNCHANGED <<fleet, redis, mon, snap, resume, used>>

\* Mutant: the marker of the last run stays until the new one is set.
KeepMarker(d) ==
    /\ pc[d] = "clear" /\ Goto(d, "build")
    /\ UNCHANGED <<fleet, manifest, verdict, marker, row, run, universe, shutdown, feed,
                   monitor, resume, used>>

\* reconciled_marker.clear(), before anything is built.
ClearMarker(d) ==
    /\ pc[d] = "clear"
    /\ marker' = [marker EXCEPT ![d] = 0] /\ Goto(d, "build")
    /\ UNCHANGED <<fleet, manifest, verdict, row, run, universe, shutdown, feed, monitor,
                   resume, used>>

\* build(), run_async() and wait_until_ready, to the monitor's start(); a shutdown
\* is seen at the checkpoints on the way.
Build(d) ==
    /\ pc[d] = "build"
    /\ Goto(d, IF shutdown[d] THEN "teardown" ELSE "manifest")
    /\ UNCHANGED <<fleet, redis, row, run, universe, shutdown, feed, monitor, resume, used>>

\* DataStaleMonitor.start: the manifest first ...
PublishManifest(d) ==
    /\ pc[d] = "manifest"
    /\ manifest' = [manifest EXCEPT ![d] = universe[d]]
    /\ Goto(d, "start")
    /\ UNCHANGED <<fleet, verdict, marker, row, run, universe, shutdown, feed, monitor, resume, used>>

\* ... then one evaluation and its publication (the tick below), before it returns.
StartReturns(d) ==
    /\ pc[d] = "start" /\ mon[d] = "published"
    /\ Goto(d, "check") /\ Mon(d, "idle")
    /\ UNCHANGED <<fleet, redis, row, run, universe, shutdown, feed, snap, halt_fired,
                   on_halt_fired, resume, used>>

\* Mutant: the run loop promotes a node that its monitor has just shut down.
CheckpointMissing(d) ==
    /\ pc[d] = "check"
    /\ row' = [row EXCEPT ![d] = "running"] /\ Goto(d, "mark")
    /\ UNCHANGED <<fleet, redis, run, universe, shutdown, feed, monitor, resume, used>>

\* The checkpoint after start(), and _mark_running; a stop intent on the row (a
\* SIGTERM is on its way) leaves the row as it is, and the marker unset.
MarkRunning(d) ==
    /\ pc[d] = "check"
    /\ IF shutdown[d] THEN Goto(d, "teardown") /\ UNCHANGED row
       ELSE \/ row' = [row EXCEPT ![d] = "running"] /\ Goto(d, "mark")
            \/ Goto(d, "run") /\ UNCHANGED row
    /\ UNCHANGED <<fleet, redis, run, universe, shutdown, feed, monitor, resume, used>>

MarkReconciled(d) ==
    /\ pc[d] = "mark"
    /\ marker' = [marker EXCEPT ![d] = run[d]] /\ Goto(d, "run")
    /\ UNCHANGED <<fleet, manifest, verdict, row, run, universe, shutdown, feed, monitor,
                   resume, used>>

\* /stop, /kill-all or /drain have sent a SIGTERM.
SigTerm(d) ==
    /\ pc[d] # "off" /\ ~shutdown[d]
    /\ shutdown' = [shutdown EXCEPT ![d] = TRUE]
    /\ UNCHANGED <<fleet, redis, row, pc, run, universe, feed, monitor, resume, used>>

\* run_async() returns because the node was stopped.
NodeStopped(d) ==
    /\ pc[d] = "run" /\ shutdown[d] /\ Goto(d, "teardown")
    /\ UNCHANGED <<fleet, redis, row, run, universe, shutdown, feed, monitor, resume, used>>

\* An exception in the run loop: a publication of start() that failed, for one.
RunLoopRaises(d) ==
    /\ pc[d] \in {"clear", "manifest", "start", "mark"} /\ Fault
    /\ Goto(d, "teardown")
    /\ UNCHANGED <<fleet, redis, row, run, universe, shutdown, feed, monitor, resume>>

\* The finally block: monitor.stop() cancels the tick and deletes the verdicts (an
\* error is swallowed), the manifest is left to expire.
StopMonitor(d) ==
    /\ pc[d] = "teardown" /\ Goto(d, "terminal") /\ Mon(d, "idle")
    /\ \/ /\ verdict' = [verdict EXCEPT ![d] =
                [f \in Feeds |-> IF f \in universe[d] THEN Absent ELSE @[f]]]
          /\ UNCHANGED used
       \/ Fault /\ UNCHANGED verdict
    /\ UNCHANGED <<fleet, manifest, marker, row, run, universe, shutdown, feed, snap,
                   halt_fired, on_halt_fired, resume>>

MarkTerminal(d) ==
    /\ pc[d] = "terminal" /\ Goto(d, "off")
    /\ row' = [row EXCEPT ![d] = "terminal"]
    /\ UNCHANGED <<fleet, redis, run, universe, shutdown, feed, monitor, resume, used>>

\* SIGKILL or a crash: the keys stay, and the row until the supervisor sees it.
Crash(d) ==
    /\ pc[d] # "off" /\ Fault
    /\ Goto(d, "off") /\ Mon(d, "idle")
    /\ UNCHANGED <<fleet, redis, row, run, universe, shutdown, feed, snap, halt_fired,
                   on_halt_fired, resume>>

Reaped(d) ==
    /\ pc[d] = "off" /\ Active(d)
    /\ row' = [row EXCEPT ![d] = "terminal"]
    /\ UNCHANGED <<fleet, redis, pc, run, universe, shutdown, feed, monitor, resume, used>>

\* A key's time to live (three ticks) is over.
Expires(d) ==
    /\ pc[d] = "off" \/ mon[d] # "idle"
    /\ \/ manifest' = [manifest EXCEPT ![d] = None] /\ UNCHANGED verdict
       \/ \E f \in Feeds : verdict' = [verdict EXCEPT ![d][f] = Absent] /\ UNCHANGED manifest
    /\ UNCHANGED <<fleet, marker, loop, feed, monitor, resume, used>>

-----------------------------------------------------------------------------
(* The monitor's tick; start() runs it once, before the loop exists.         *)

\* Snapshot and evaluate(); a fully warm result re-arms the episode's guards.
Evaluate(d) ==
    /\ mon[d] = "idle" /\ (pc[d] = "start" \/ Ticking(d))
    /\ snap' = [snap EXCEPT ![d] = feed[d]]
    /\ LET stale == \E f \in universe[d] : feed[d][f] = "stale"
       IN  /\ halt_fired' = [halt_fired EXCEPT ![d] = stale /\ @]
           /\ on_halt_fired' = [on_halt_fired EXCEPT ![d] = stale /\ @]
           /\ Mon(d, IF stale /\ ~halt_fired[d] THEN "fire" ELSE "publish")
    /\ UNCHANGED <<fleet, redis, loop, feed, resume, used>>

\* Mutant: the local shutdown depends on the write of the latch.
FireHaltOnlyLatched(d) ==
    /\ mon[d] = "fire"
    /\ \/ /\ fleet' = TRUE /\ UNCHANGED used
          /\ halt_fired' = [halt_fired EXCEPT ![d] = TRUE] /\ Mon(d, "onHalt")
       \/ Mon(d, "publish") /\ UNCHANGED <<fleet, halt_fired, used>>
    /\ UNCHANGED <<redis, loop, feed, snap, on_halt_fired, resume>>

\* _fire_halt: HALT_WRITE_LUA, or HALT_SET_MAX_ATTEMPTS of it fail; the local
\* shutdown follows in both cases.
FireHalt(d) ==
    /\ mon[d] = "fire"
    /\ \/ fleet' = TRUE /\ halt_fired' = [halt_fired EXCEPT ![d] = TRUE]
       \/ UNCHANGED <<fleet, halt_fired>>
    /\ Mon(d, IF on_halt_fired[d] THEN "publish" ELSE "onHalt")
    /\ UNCHANGED <<redis, loop, feed, snap, on_halt_fired, resume, used>>

\* _maybe_fire_on_halt: shutdown_requested is set, and stop_async() awaited, before
\* the tick goes on.
OnHalt(d) ==
    /\ mon[d] = "onHalt" /\ Mon(d, "publish")
    /\ on_halt_fired' = [on_halt_fired EXCEPT ![d] = TRUE]
    /\ shutdown' = [shutdown EXCEPT ![d] = TRUE]
    /\ UNCHANGED <<fleet, redis, row, pc, run, universe, feed, snap, halt_fired, resume, used>>

\* Mutant: a feed without an observation is published as warm.
VerdictOptimistic(s) == IF s = "pending" THEN "warm" ELSE s

\* _queue_per_feed: stale, pending while unobserved, or warm.
VerdictOf(s) == s

\* The verdicts and, in the loop, the manifest, in one pipeline. A failure there is
\* swallowed; in start() it is not (RunLoopRaises).
Publish(d) ==
    /\ mon[d] = "publish"
    /\ Mon(d, IF pc[d] = "start" THEN "published" ELSE "idle")
    /\ \/ /\ verdict' = [verdict EXCEPT ![d] = [f \in Feeds |->
                IF f \in universe[d] THEN [is |-> VerdictOf(snap[d][f]), run |-> run[d]] ELSE @[f]]]
          /\ manifest' = [manifest EXCEPT ![d] = IF pc[d] = "start" THEN @ ELSE universe[d]]
          /\ UNCHANGED used
       \/ pc[d] # "start" /\ Fault /\ UNCHANGED <<verdict, manifest>>
    /\ UNCHANGED <<fleet, marker, loop, feed, snap, halt_fired, on_halt_fired, resume>>

-----------------------------------------------------------------------------
(* The operators.                                                          *)

KillAll ==
    /\ used.halts < MaxResumes /\ used' = [used EXCEPT !.halts = @ + 1]
    /\ fleet' = TRUE
    /\ UNCHANGED <<redis, loop, feed, monitor, resume>>

\* /resume: the active deployments are loaded ...
ResumeLoads ==
    /\ resume.at = "idle" /\ used.resumes < MaxResumes
    /\ used' = [used EXCEPT !.resumes = @ + 1]
    /\ LET load == {d \in Deployments : Active(d)}
       IN  resume' = [resume EXCEPT !.at = "probe", !.load = load, !.todo = load]
    /\ UNCHANGED <<fleet, redis, loop, feed, monitor>>

Passes(d, feeds) == /\ marker[d] # 0
                    /\ \A f \in feeds : verdict[d][f].is = "warm"

\* ... each one's manifest, marker and verdicts are probed (409 when one is missing) ...
ResumeProbes(d) ==
    /\ resume.at = "probe" /\ d \in resume.todo
    /\ resume' = IF manifest[d] # None /\ Passes(d, manifest[d])
                 THEN [resume EXCEPT !.todo = @ \ {d}, !.pin[d] = manifest[d]]
                 ELSE Idle
    /\ UNCHANGED <<fleet, redis, loop, feed, monitor, used>>

\* Mutant: the script does not compare the manifest with the probed one.
UnpinnedClear(d) == manifest[d] # None /\ Passes(d, resume.pin[d])

\* RESUME_CLEAR_LUA's re-check of one deployment.
StillPasses(d) == manifest[d] = resume.pin[d] /\ Passes(d, resume.pin[d])

\* ... and the script clears the latch if all of it still holds.
ResumeClears ==
    /\ resume.at = "probe" /\ resume.todo = {}
    /\ fleet' = (fleet /\ \E d \in resume.load : ~StillPasses(d))
    /\ resume' = Idle
    /\ UNCHANGED <<redis, loop, feed, monitor, used>>

-----------------------------------------------------------------------------
Init ==
    /\ fleet = FALSE
    /\ manifest = [d \in Deployments |-> None]
    /\ verdict = [d \in Deployments |-> [f \in Feeds |-> Absent]]
    /\ marker = [d \in Deployments |-> 0]
    /\ row = [d \in Deployments |-> "terminal"] /\ pc = [d \in Deployments |-> "off"]
    /\ run = [d \in Deployments |-> 0]
    /\ universe = [d \in Deployments |-> {}]
    /\ feed = [d \in Deployments |-> [f \in Feeds |-> "pending"]]
    /\ shutdown = [d \in Deployments |-> FALSE]
    /\ mon = [d \in Deployments |-> "idle"]
    /\ snap = [d \in Deployments |-> [f \in Feeds |-> "pending"]]
    /\ halt_fired = [d \in Deployments |-> FALSE]
    /\ on_halt_fired = [d \in Deployments |-> FALSE]
    /\ resume = Idle
    /\ used = [stalls |-> 0, faults |-> 0, halts |-> 0, resumes |-> 0]

MonitorStep(d) == Evaluate(d) \/ FireHalt(d) \/ OnHalt(d) \/ Publish(d)

RunLoop(d) ==
    \/ ClearMarker(d) \/ Build(d) \/ PublishManifest(d) \/ StartReturns(d)
    \/ MarkRunning(d) \/ MarkReconciled(d) \/ NodeStopped(d)
    \/ StopMonitor(d) \/ MarkTerminal(d)

Next ==
    \/ \E d \in Deployments :
         \/ RunLoop(d) \/ MonitorStep(d) \/ ResumeProbes(d)
         \/ Spawn(d) \/ SigTerm(d) \/ RunLoopRaises(d) \/ Crash(d) \/ Reaped(d) \/ Expires(d)
         \/ \E f \in Feeds : FeedArrives(d, f) \/ FeedStalls(d, f)
    \/ KillAll \/ ResumeLoads \/ ResumeClears

Spec == Init /\ [][Next]_vars

\* The subprocess runs its event loop, unless it crashes.
Fairness == \A d \in Deployments : WF_vars(RunLoop(d)) /\ WF_vars(MonitorStep(d))
FairSpec == Spec /\ Fairness

-----------------------------------------------------------------------------
TypeOK ==
    /\ fleet \in BOOLEAN
    /\ \A d \in Deployments :
         /\ manifest[d] \in Universes \cup {None}
         /\ verdict[d] \in [Feeds -> [is : {"absent", "pending", "warm", "stale"}, run : 0 .. MaxRuns]]
         /\ marker[d] \in 0 .. MaxRuns /\ run[d] \in 0 .. MaxRuns
         /\ row[d] \in {"starting", "running", "terminal"}
         /\ pc[d] \in {"off", "clear", "build", "manifest", "start", "check", "mark", "run",
                       "teardown", "terminal"}
         /\ mon[d] \in {"idle", "fire", "onHalt", "publish", "published"}
         /\ mon[d] # "idle" => pc[d] \in {"start", "check", "mark", "run", "teardown"}

\* A /resume never clears the halt on the word of an earlier run: for a deployment
\* it checked whose node is up, the marker and the verdict of every feed the node
\* requires are this run's, the verdict is warm, and the feed was observed in it.
\* (Deployment ids are stable: the marker is cleared first, start() overwrites the
\* verdicts before _mark_running, and RESUME_CLEAR_LUA compares the manifest with the
\* probed one.) A node that is going down is left out: the one whose clearing of the
\* marker failed has the old marker until its row is terminal, and never trades.
\* An action property: [][ResumeTrustsThisRun]_vars.
Up(d) == pc[d] \in {"build", "manifest", "start", "check", "mark", "run"}

ResumeTrustsThisRun ==
    \A d \in resume.load :
      fleet /\ ~fleet' /\ Up(d) =>
         /\ marker[d] = run[d]
         /\ \A f \in universe[d] : /\ verdict[d][f] = [is |-> "warm", run |-> run[d]]
                                  /\ feed[d][f] # "pending"

\* A node whose monitor shut it down while it started is never recorded as running
\* and reconciled. (The checkpoint between start() and _mark_running.)
\* An action property: [][HaltedAtStartIsNotPromoted]_vars.
HaltedAtStartIsNotPromoted ==
    \A d \in Deployments :
      pc[d] = "check" /\ shutdown[d] /\ pc'[d] # pc[d] => row'[d] # "running" /\ pc'[d] # "mark"

\* The inductive invariant behind both. What an earlier run has left is told apart by
\* how far this one has come: first the marker goes, ...
MarkerIsOurs(d) ==
    /\ pc[d] \in {"build", "manifest", "start", "check", "mark"} => marker[d] = 0
    /\ pc[d] = "run" => marker[d] \in {0, run[d]}

\* ... then the manifest is replaced, and with the first publication the verdicts.
ManifestIsOurs(d) ==
    pc[d] \in {"start", "check", "mark", "run"} => manifest[d] \in {universe[d], None}

VerdictsAreOurs(d) ==
    pc[d] \in {"check", "mark", "run"} \/ mon[d] = "published" =>
        \A f \in universe[d] : verdict[d][f] = Absent \/ verdict[d][f].run = run[d]

\* A feed that this run has found warm has been observed in it.
WarmIsObserved(d) ==
    \A f \in Feeds :
        /\ verdict[d][f].run <= run[d]
        /\ verdict[d][f].run = run[d] /\ verdict[d][f].is = "warm" => feed[d][f] # "pending"
        /\ mon[d] \in {"fire", "onHalt", "publish"} /\ snap[d][f] = "warm" => feed[d][f] # "pending"

MonitorRests(d) == pc[d] \in {"off", "clear", "build", "manifest", "terminal"} => mon[d] = "idle"

NotPromoted(d) == pc[d] \in {"clear", "build", "manifest", "start", "check"} => row[d] # "running"

RunIsSound(d) ==
    /\ MarkerIsOurs(d) /\ ManifestIsOurs(d) /\ VerdictsAreOurs(d) /\ WarmIsObserved(d)
    /\ MonitorRests(d) /\ NotPromoted(d)

\* What /resume has probed had a manifest.
ProbedIsPinned == \A d \in resume.load \ resume.todo : resume.pin[d] # None

Judged    == {"pending", "warm", "stale"}
Verdict   == [is : {"absent"} \cup Judged, run : Nat]
Manifests == (SUBSET Feeds) \cup {None}
Resume    == [at : {"idle", "probe"}, load : SUBSET Deployments, todo : SUBSET Deployments,
              pin : [Deployments -> Manifests]]
Steps     == {"off", "clear", "build", "manifest", "start", "check", "mark", "run", "teardown", "terminal"}

HaltsAreTyped ==
    /\ manifest \in [Deployments -> Manifests] /\ verdict \in [Deployments -> [Feeds -> Verdict]]
    /\ marker \in [Deployments -> Nat] /\ run \in [Deployments -> Nat]
    /\ row \in [Deployments -> {"starting", "running", "terminal"}] /\ pc \in [Deployments -> Steps]
    /\ universe \in [Deployments -> SUBSET Feeds]
    /\ feed \in [Deployments -> [Feeds -> Judged]] /\ snap \in [Deployments -> [Feeds -> Judged]]
    /\ mon \in [Deployments -> {"idle", "fire", "onHalt", "publish", "published"}]
    /\ resume \in Resume

TrustedHalts == HaltsAreTyped /\ ProbedIsPinned /\ \A d \in Deployments : RunIsSound(d)

TradesOnStale(d, f) == pc[d] = "run" /\ f \in universe[d] /\ feed[d][f] = "stale"
StaleNoMore(d, f)   == pc[d] = "off" \/ feed[d][f] # "stale"

\* A running node does not trade on stale data: a required feed that stays silent
\* brings the node down, whether or not the fleet latch could be written.
StaleFeedStopsNode ==
    \A d \in Deployments : \A f \in Feeds : TradesOnStale(d, f) ~> StaleNoMore(d, f)

\* The /resume docstring and RESUME_CLEAR_LUA's comment: the halt is not cleared
\* while a feed of an active node is stale; a feed that stalls after the clear is a
\* new event, which the monitor halts again. So no monitor that has latched the
\* fleet in the present episode finds the latch cleared. Does not hold: a tick sets
\* the latch before it publishes the verdict that a /resume then looks at.
ClearedOnlyWhenWarm ==
    [][fleet /\ ~fleet' => \A d \in resume.load : ~(Ticking(d) /\ halt_fired[d])]_vars
=============================================================================
