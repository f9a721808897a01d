-------------------------- MODULE FleetRouterProofs --------------------------
(***************************************************************************)
(* Type correctness of FleetRouter for every value of its constants. One    *)
(* lemma per group of actors shows that its steps keep TypeOK; under it, one *)
(* step per action. The other theorems about FleetRouter rest on this one.  *)
(*                                                                         *)
(* On top of it: at most one active row, and a stopped deployment stays    *)
(* stopped.  OneActiveRow is not inductive alone: mark_running writes      *)
(* "running" into any row that is not stopping or terminal, so the proof   *)
(* also needs that a subprocess has a row at all, which in turn needs that *)
(* a spawn in flight has one (RowsExist). A step keeps the invariant when  *)
(* it makes no row active that was not, and loses no row; only Phase A's   *)
(* insertion and the subprocess's own writes make a row active, and both   *)
(* look at the other rows first.                                           *)
(***************************************************************************)
EXTENDS FleetRouter, FiniteSetTheorems, SequenceTheorems, TLAPS

\* The updates the actions make, as facts about the types they stay in.

\* A new status, written plainly or through the guarded sync, keeps the
\* deployment row well formed.
LEMMA DepType == ASSUME dep \in Dep, NEW s \in DepStatuses
                 PROVE  /\ [dep EXCEPT !.status = s] \in Dep
                        /\ Synced(s) \in Dep
  BY DEF Dep, Synced

\* Counting a request, a fault or a crash keeps the counters natural numbers.
LEMMA UsedType == ASSUME used \in Used
                  PROVE  /\ [used EXCEPT !.starts = @ + 1] \in Used
                         /\ [used EXCEPT !.stops = @ + 1] \in Used
                         /\ [used EXCEPT !.halts = @ + 1] \in Used
                         /\ [used EXCEPT !.faults = @ + 1] \in Used
                         /\ [used EXCEPT !.crashes = @ + 1] \in Used
  BY DEF Used

\* Failing one row with a legal failure kind keeps the table of node rows well
\* formed.
LEMMA FailedType == ASSUME rows \in [RowIds -> Row], NEW r, NEW k,
                           r \in RowIds => k \in FailureKinds
                    PROVE  Failed(r, k) \in [RowIds -> Row]
  BY ZenonT(60) DEF Failed, Row, RowStatuses

\* The empty tables, idle tasks and empty streams of the initial state are well
\* formed.
LEMMA InitType == Init => TypeOK
<1> SUFFICES ASSUME Init PROVE TypeOK
  OBVIOUS
<1>1. NoRow \in Row
  BY DEF NoRow, Row, RowStatuses, FailureKinds
<1>2. Idle \in Task
  BY BoundsAssumption DEF Idle, Task, Steps, FailureKinds
<1>3. dep \in Dep /\ used \in Used
  BY DEF Init, Dep, Used, DepStatuses
<1>4. rows \in [RowIds -> Row] /\ task \in [Actors -> Task]
  BY <1>1, <1>2 DEF Init
<1>5. /\ child \in [RowIds -> ChildStates]
      /\ pel \in [Commands -> Nat] /\ stream \in Seq(Commands)
  BY DEF Init, ChildStates
<1>6. sig \in [RowIds -> BOOLEAN]
  BY DEF Init
<1>7. {n, handle, reap, apiFloor} \subseteq 0 .. MaxRows
  BY BoundsAssumption DEF Init
<1>8. /\ halt \in BOOLEAN /\ inflight \in BOOLEAN
      /\ api = "idle" /\ sup = "up" /\ intent = "none"
      /\ stopReq \in [Stoppers -> StopSteps]
  BY DEF Init, StopSteps
<1> QED
  BY <1>3, <1>4, <1>5, <1>6, <1>7, <1>8 DEF TypeOK

\* What a /stop without an active row writes is well formed.
LEMMA StopType == ASSUME TypeOK
                  PROVE  /\ \A r \in RowIds : [rows[r] EXCEPT !.stop = TRUE] \in Row
                         /\ StopWithoutActiveRow => dep' \in Dep /\ rows' \in [RowIds -> Row]
<1>1. \A r \in RowIds : [rows[r] EXCEPT !.stop = TRUE] \in Row
  BY DEF TypeOK, Row
<1>2. [rows EXCEPT ![n].stop = TRUE] \in [RowIds -> Row]
  BY <1>1 DEF TypeOK
<1>3. Synced("stopped") \in Dep
  BY DepType DEF TypeOK, DepStatuses
<1> QED
  BY <1>1, <1>2, <1>3 DEF StopWithoutActiveRow, TypeOK

\* What _terminalize_reserved_row writes is well formed.
LEMMA TerminalizedType == ASSUME TypeOK, NEW r, Terminalized(r)
                          PROVE  dep' \in Dep /\ rows' \in [RowIds -> Row]
<1>1. r \in RowIds => rows[r].kind \in FailureKinds
  BY DEF TypeOK, Row
<1>2. "transient" \in FailureKinds /\ "failed" \in DepStatuses
  BY DEF FailureKinds, DepStatuses
<1>3. Failed(r, IF rows[r].kind = "null" THEN "transient" ELSE rows[r].kind) \in [RowIds -> Row]
  BY <1>1, <1>2, FailedType DEF TypeOK
<1> QED
  BY <1>1, <1>2, <1>3, DepType DEF Terminalized, TypeOK

\* The task updates every actor makes (move, go idle, leave for _mark_failed)
\* are well formed.
LEMMA TaskType == ASSUME task \in [Actors -> Task], NEW a \in Actors
                  PROVE  /\ Idle \in Task
                         /\ [task EXCEPT ![a] = Idle] \in [Actors -> Task]
                         /\ \A s \in Steps : /\ [task[a] EXCEPT !.at = s] \in Task
                                             /\ [task EXCEPT ![a].at = s] \in [Actors -> Task]
<1>1. Idle \in Task
  BY BoundsAssumption DEF Idle, Task, Steps, FailureKinds
<1>2. \A s \in Steps : [task[a] EXCEPT !.at = s] \in Task
  BY DEF Task
<1> QED
  BY <1>1, <1>2

\* Where the spawn's helpers leave the task and the PEL.
LEMMA SpawnType ==
    ASSUME TypeOK, NEW a \in Actors
    PROVE  /\ [pel EXCEPT !["START"] = @ + 1] \in [Commands -> Nat]
           /\ [task EXCEPT ![a] = Idle] \in [Actors -> Task]
           /\ [task EXCEPT ![a] = [@ EXCEPT !.at = "refail"]] \in [Actors -> Task]
           /\ [task EXCEPT ![a] = [Idle EXCEPT !.at = "ackStart"]] \in [Actors -> Task]
           /\ [task EXCEPT ![a] = [Idle EXCEPT !.at = "ackStop"]] \in [Actors -> Task]
           /\ \A s \in Steps : Goto(a, s) => task' \in [Actors -> Task]
           /\ \A k \in FailureKinds : /\ Fail(a, k, TRUE) => task' \in [Actors -> Task]
                                      /\ Fail(a, k, FALSE) => task' \in [Actors -> Task]
           /\ NextAttempt(a) => task' \in [Actors -> Task]
<1>1. task \in [Actors -> Task] /\ pel \in [Commands -> Nat]
  BY DEF TypeOK
<1>2. [pel EXCEPT !["START"] = @ + 1] \in [Commands -> Nat]
  BY <1>1 DEF Commands
<1>3. \A s \in {"refail", "ctx", "giveup", "failing", "ackStart", "ackStop"} : s \in Steps
  BY DEF Steps, InFlightSteps, ReservedSteps
<1>4. /\ [Idle EXCEPT !.at = "ctx", !.try = task[a].try + 1, !.owned = task[a].owned] \in Task
      /\ [Idle EXCEPT !.at = "giveup", !.owned = task[a].owned] \in Task
  <2>1. task[a].try + 1 \in Nat /\ task[a].owned \in 0 .. MaxRows
    BY <1>1 DEF Task
  <2>2. \A t \in Nat, o \in 0 .. MaxRows :
           /\ [Idle EXCEPT !.at = "ctx", !.try = t, !.owned = o] \in Task
           /\ [Idle EXCEPT !.at = "giveup", !.owned = o] \in Task
    BY <1>1, <1>3, TaskType DEF Task
  <2> QED
    BY <2>1, <2>2
<1>5. NextAttempt(a) => task' \in [Actors -> Task]
  BY <1>1, <1>4, TaskType DEF NextAttempt
<1>6. \A k \in FailureKinds, ack \in BOOLEAN :
         [task[a] EXCEPT !.at = "failing", !.kind = k, !.ack = ack] \in Task
  BY <1>1, <1>3 DEF Task
<1>7. \A k \in FailureKinds : /\ Fail(a, k, TRUE) => task' \in [Actors -> Task]
                              /\ Fail(a, k, FALSE) => task' \in [Actors -> Task]
  BY <1>1, <1>6 DEF Fail
<1>8. \A s \in Steps : Goto(a, s) => task' \in [Actors -> Task]
  BY <1>1, TaskType DEF Goto
<1>9. [Idle EXCEPT !.at = "ackStart"] \in Task /\ [Idle EXCEPT !.at = "ackStop"] \in Task
  BY <1>1, <1>3, TaskType DEF Task
<1> QED
  BY <1>1, <1>2, <1>3, <1>5, <1>7, <1>8, <1>9, TaskType

\* Every API request step keeps the types.
LEMMA ApiType == TypeOK /\ Api => TypeOK'
<1> SUFFICES ASSUME TypeOK, Api PROVE TypeOK'
  OBVIOUS
<1> USE DEF TypeOK, db, procs, mem, bus, reqs, env
<1>0. /\ {"starting", "running", "stopped", "failed"} \subseteq DepStatuses
      /\ Append(stream, "START") \in Seq(Commands)
      /\ Append(stream, "STOP") \in Seq(Commands)
  BY DEF DepStatuses, DepLive, Commands
<1>00. \A c \in Stoppers, step \in StopSteps :
         StopGoto(c, step) => stopReq' \in [Stoppers -> StopSteps]
  BY DEF StopGoto
<1>000. /\ {"idle", "latched", "publish", "add", "polling", "sawTerminal"} \subseteq StopSteps
        /\ {"stop", "killAll"} \subseteq Stoppers
  BY DEF StopSteps, Stoppers
<1>0000. ASSUME NEW c \in Stoppers, Coalesce(c)
         PROVE  /\ stopReq' \in [Stoppers -> StopSteps]
                /\ inflight' \in BOOLEAN /\ intent' \in {"none", "start", "stop"}
  BY <1>00, <1>000, <1>0000 DEF Coalesce, Accepted
<1>01. CASE ApiAdmit
  BY <1>01, UsedType DEF ApiAdmit
<1>1. CASE ApiStart
  BY <1>1, <1>0 DEF ApiStart, Dep
<1>2. CASE ApiAlreadyActive
  BY <1>2, <1>0, DepType DEF ApiAlreadyActive
<1>3. CASE ApiPublishStart
  BY <1>3, <1>0, DepType, UsedType DEF ApiPublishStart, Fault
<1>4. CASE ApiPoll
  BY <1>4, BoundsAssumption DEF ApiPoll
<1>5. CASE ApiCommitRunning
  BY <1>5, <1>0, DepType DEF ApiCommitRunning
<1>6. CASE ApiPollTimeout
  BY <1>6, BoundsAssumption DEF ApiPollTimeout
<1>7. CASE ApiTimeoutFlip
  BY <1>7, <1>0 DEF ApiTimeoutFlip, Dep
<1>8. CASE ApiStop
  BY <1>8, <1>00, <1>000, UsedType, StopType DEF ApiStop
<1>9. CASE ApiStopPublish
  BY <1>9, <1>000, <1>0000 DEF ApiStopPublish
<1>10. CASE ApiStopPoll
  BY <1>10, <1>00, <1>000 DEF ApiStopPoll
<1>11. CASE ApiStopCommit
  BY <1>11, <1>0, <1>00, <1>000, DepType DEF ApiStopCommit
<1>12. CASE KillAllLatch
  BY <1>12, <1>00, <1>000, UsedType DEF KillAllLatch
<1>13. CASE KillAllPublish
  BY <1>13, <1>00, <1>000, <1>0000 DEF KillAllPublish
<1>14. CASE KillAllPoll
  BY <1>14, <1>00, <1>000 DEF KillAllPoll
<1>15. ASSUME NEW c \in Stoppers, PublishStop(c) PROVE TypeOK'
  BY <1>15, <1>0, <1>00, <1>000, UsedType DEF PublishStop, Accepted, Fault
<1>16. CASE InflightExpires
  BY <1>16 DEF InflightExpires
<1>17. CASE Resume
  BY <1>17 DEF Resume
<1> QED
  BY <1>01, <1>1, <1>2, <1>3, <1>4, <1>5, <1>6, <1>7, <1>8, <1>9, <1>10, <1>11, <1>12, <1>13,
     <1>14, <1>15, <1>16, <1>17 DEF Api

\* Every step of Phase A, B and C keeps the types.
LEMMA SpawnStepType == \A a \in Actors : TypeOK /\ Spawn(a) => TypeOK'
<1> SUFFICES ASSUME NEW a \in Actors, TypeOK, Spawn(a) PROVE TypeOK'
  OBVIOUS
<1> USE DEF TypeOK, db, procs, mem, bus, reqs, env
<1>0. /\ {"haltCheck", "payload", "recheck", "gate", "start", "terminalize", "phaseC"} \subseteq Steps
      /\ {"null", "neverran", "transient"} \subseteq FailureKinds
      /\ "failed" \in DepStatuses
      /\ Fault => used' \in Used
  BY UsedType DEF Steps, InFlightSteps, ReservedSteps, FailureKinds, DepStatuses, Fault
<1>00. task[a].row \in 0 .. MaxRows /\ task[a].kind \in FailureKinds
  BY DEF Task
<1>1. CASE phase_a_reserve_slot(a)
  <2>1. \A within \in BOOLEAN : NewRow(a, within) \in Row
    <3>1. dep.gen \in Nat /\ Carry(a) \in BOOLEAN /\ task[a].fails \in Nat /\ task[a].paused \in BOOLEAN
      BY DEF Dep, Carry, Task
    <3>2. \A within \in BOOLEAN :
             LET c == record_failure(task[a].fails, task[a].paused, within)
             IN  c.fails \in Nat /\ c.paused \in BOOLEAN
      BY <3>1 DEF record_failure
    <3>3. record_success.fails \in Nat /\ record_success.paused \in BOOLEAN
      BY DEF record_success
    <3>4. \A f \in Nat, p \in BOOLEAN :
             [NoRow EXCEPT !.status = "starting", !.gen = dep.gen, !.auto = Carry(a),
                           !.fails = f, !.paused = p] \in Row
      BY <3>1 DEF NoRow, Row, RowStatuses, ActiveStatuses, LiveStatuses, FailureKinds
    <3> QED
      BY <3>1, <3>2, <3>3, <3>4 DEF NewRow
  <2>2. n < MaxRows => n + 1 \in RowIds /\ n + 1 \in 0 .. MaxRows
    BY BoundsAssumption DEF RowIds
  <2>3. \A r \in 0 .. MaxRows : [task[a] EXCEPT !.at = "haltCheck", !.row = r] \in Task
    BY <1>0 DEF Task
  <2>4. [dep EXCEPT !.status = IF @ = "failed" THEN "starting" ELSE @] \in Dep
    BY DEF Dep, DepStatuses, DepLive
  <2>5. task' \in [Actors -> Task] /\ pel' \in [Commands -> Nat]
    BY <1>1, <2>2, <2>3, SpawnType, ZenonT(60) DEF phase_a_reserve_slot, AfterSpawn
  <2>6. rows' \in [RowIds -> Row] /\ n' \in 0 .. MaxRows /\ dep' \in Dep
    BY <1>1, <2>1, <2>2, <2>4 DEF phase_a_reserve_slot
  <2>7. UNCHANGED <<procs, handle, reap, stream, reqs, env>>
    BY <1>1 DEF phase_a_reserve_slot
  <2> QED
    BY <2>5, <2>6, <2>7
<1>2. ASSUME NEW here, NEW next \in Steps, HaltCheck(a, here, next) PROVE TypeOK'
  <2>1. task' \in [Actors -> Task] /\ pel' \in [Commands -> Nat]
    BY <1>2, <1>0, SpawnType DEF HaltCheck, SpawnRaises
  <2>2. used' \in Used /\ UNCHANGED <<db, procs, handle, reap, stream, reqs, halt, sup, intent>>
    BY <1>2, <1>0 DEF HaltCheck
  <2> QED
    BY <2>1, <2>2
<1>3. CASE PayloadFactory(a)
  <2>1. task' \in [Actors -> Task]
    BY <1>3, <1>0, SpawnType DEF PayloadFactory
  <2>2. used' \in Used /\ UNCHANGED <<db, procs, handle, reap, bus, reqs, halt, sup, intent>>
    BY <1>3, <1>0 DEF PayloadFactory
  <2> QED
    BY <2>1, <2>2
<1>4. CASE StopIntentGate(a)
  <2>1. task' \in [Actors -> Task]
    BY <1>4, <1>0, SpawnType DEF StopIntentGate
  <2>2. used' \in Used /\ UNCHANGED <<db, procs, handle, reap, bus, reqs, halt, sup, intent>>
    BY <1>4, <1>0 DEF StopIntentGate
  <2> QED
    BY <2>1, <2>2
<1>5. CASE StartProcess(a)
  <2>1. child' \in [RowIds -> ChildStates] /\ handle' \in 0 .. MaxRows
    BY <1>5, <1>00 DEF StartProcess, ChildStates, AliveStates
  <2>2. task' \in [Actors -> Task]
    BY <1>5, <1>0, SpawnType DEF StartProcess
  <2>3. used' \in Used /\ UNCHANGED <<db, sig, reap, bus, reqs, halt, sup, intent>>
    BY <1>5, <1>0 DEF StartProcess
  <2> QED
    BY <2>1, <2>2, <2>3
<1>6. CASE PhaseC(a)
  <2>1. [rows EXCEPT ![task[a].row].pid = TRUE] \in [RowIds -> Row]
    BY ZenonT(60) DEF Row
  <2>2. rows' \in [RowIds -> Row] /\ sig' \in [RowIds -> BOOLEAN]
    BY <1>6, <2>1 DEF PhaseC
  <2>3. task' \in [Actors -> Task] /\ pel' \in [Commands -> Nat]
    BY <1>6, SpawnType DEF PhaseC, AfterSpawn
  <2>4. used' \in Used /\ UNCHANGED <<dep, n, child, handle, reap, stream, reqs, halt, sup, intent>>
    BY <1>6, <1>0 DEF PhaseC
  <2> QED
    BY <2>2, <2>3, <2>4
<1>7. CASE mark_failed(a)
  <2>0. Failed(task[a].row, task[a].kind) \in [RowIds -> Row] /\ Synced("failed") \in Dep
    BY <1>0, <1>00, FailedType, DepType
  <2>1. rows' \in [RowIds -> Row] /\ dep' \in Dep
    BY <1>7, <2>0 DEF mark_failed
  <2>2. task' \in [Actors -> Task] /\ pel' \in [Commands -> Nat]
    BY <1>7, SpawnType DEF mark_failed, AfterSpawn, SpawnRaises
  <2>3. used' \in Used /\ UNCHANGED <<n, procs, handle, reap, stream, reqs, halt, sup, intent>>
    BY <1>7, <1>0 DEF mark_failed
  <2> QED
    BY <2>1, <2>2, <2>3
<1>8. CASE terminalize_reserved_row(a)
  <2>1. rows' \in [RowIds -> Row] /\ dep' \in Dep
    BY <1>8, TerminalizedType DEF terminalize_reserved_row
  <2>2. task' \in [Actors -> Task] /\ pel' \in [Commands -> Nat]
    BY <1>8, SpawnType DEF terminalize_reserved_row, AfterSpawn
  <2>3. used' \in Used /\ UNCHANGED <<n, procs, handle, reap, stream, reqs, halt, sup, intent>>
    BY <1>8, <1>0 DEF terminalize_reserved_row
  <2> QED
    BY <2>1, <2>2, <2>3
<1> QED
  BY <1>0, <1>1, <1>2, <1>3, <1>4, <1>5, <1>6, <1>7, <1>8 DEF Spawn

\* Every step of the restart task and the re-scan keeps the types.
LEMMA AutoRestartType == \A a \in Actors : TypeOK /\ AutoRestart(a) => TypeOK'
<1> SUFFICES ASSUME NEW a \in Actors, TypeOK, AutoRestart(a) PROVE TypeOK'
  OBVIOUS
<1> USE DEF TypeOK, db, procs, mem, bus, reqs, env
<1>0. /\ {"gates", "phaseA", "backoff"} \subseteq Steps
      /\ "transient" \in FailureKinds /\ "failed" \in DepStatuses
      /\ Fault => used' \in Used
  BY UsedType DEF Steps, FailureKinds, DepStatuses, Fault
<1>1. CASE load_restart_context(a)
  <2>1. n # 0 => [task[a] EXCEPT !.at = "gates", !.fails = rows[n].fails,
                                 !.paused = rows[n].paused] \in Task
    <3>1. n # 0 => rows[n].fails \in Nat /\ rows[n].paused \in BOOLEAN
      BY BoundsAssumption DEF Row, RowIds
    <3>2. \A f \in Nat, p \in BOOLEAN :
             [task[a] EXCEPT !.at = "gates", !.fails = f, !.paused = p] \in Task
      BY <1>0 DEF Task
    <3> QED
      BY <3>1, <3>2
  <2>2. task' \in [Actors -> Task]
    BY <1>1, <2>1, TaskType, SpawnType DEF load_restart_context
  <2>3. used' \in Used /\ UNCHANGED <<db, procs, handle, reap, bus, reqs, halt, sup, intent>>
    BY <1>1, <1>0 DEF load_restart_context
  <2> QED
    BY <2>2, <2>3
<1>2. CASE RestartGates(a)
  <2>0. Idle \in Task /\ \A step \in Steps : [task[a] EXCEPT !.at = step] \in Task
    BY TaskType
  <2>1. task' \in [Actors -> Task]
    <3>1. PICK t \in Task : task' = [task EXCEPT ![a] = t]
      BY <1>2, <1>0, <2>0 DEF RestartGates
    <3> QED
      BY <3>1
  <2>2. used' \in Used /\ UNCHANGED <<db, procs, handle, reap, bus, reqs, halt, sup, intent>>
    BY <1>2, <1>0 DEF RestartGates
  <2> QED
    BY <2>1, <2>2
<1>3. CASE Backoff(a)
  <2>1. task' \in [Actors -> Task]
    BY <1>3, <1>0, TaskType DEF Backoff
  <2> QED
    BY <1>3, <2>1 DEF Backoff
<1>4. CASE refail_stranded_restart(a)
  <2>1. Failed(task[a].row, "transient") \in [RowIds -> Row] /\ Synced("failed") \in Dep
    BY <1>0, FailedType, DepType
  <2>2. rows' \in [RowIds -> Row] /\ dep' \in Dep
    BY <1>4, <2>1 DEF refail_stranded_restart
  <2>3. task' \in [Actors -> Task]
    BY <1>4, SpawnType DEF refail_stranded_restart
  <2> QED
    BY <1>4, <2>2, <2>3 DEF refail_stranded_restart
<1>5. CASE clear_sentinel_and_refail_after_giveup(a)
  <2>1. ASSUME NEW r \in RowIds PROVE GivenUp(r) \in Row
    <3>1. PICK k \in FailureKinds :
             k = IF rows[r].kind = "null" THEN "transient" ELSE rows[r].kind
      BY <1>0 DEF Row
    <3>2. /\ [rows[r] EXCEPT !.disp = FALSE, !.status = "failed", !.kind = k] \in Row
          /\ [rows[r] EXCEPT !.disp = FALSE] \in Row
      BY ZenonT(60) DEF Row, RowStatuses
    <3> QED
      BY <3>1, <3>2 DEF GivenUp
  <2>2. rows' \in [RowIds -> Row]
    BY <1>5, <2>1 DEF clear_sentinel_and_refail_after_giveup
  <2>3. dep' \in Dep /\ task' \in [Actors -> Task]
    BY <1>5, <1>0, DepType, TaskType DEF clear_sentinel_and_refail_after_giveup
  <2> QED
    BY <1>5, <2>2, <2>3 DEF clear_sentinel_and_refail_after_giveup
<1> QED
  BY <1>1, <1>2, <1>3, <1>4, <1>5 DEF AutoRestart

\* A dropped batch leaves a well-formed stream and PEL.
LEMMA DropBatchType == ASSUME TypeOK, DropBatch
                       PROVE  stream' \in Seq(Commands) /\ pel' \in [Commands -> Nat]
<1> USE DEF TypeOK
<1>1. InHand \in [Commands -> Nat]
  BY DEF InHand, Commands
<1>2. PICK k \in 0 .. Len(stream) :
         pel' = Stranded(k) /\ stream' = SubSeq(stream, k + 1, Len(stream))
  BY DEF DropBatch
<1>3. \A c \in Commands : Cardinality({i \in 1 .. k : stream[i] = c}) \in Nat
  <2> TAKE c \in Commands
  <2>1. IsFiniteSet(1 .. k)
    BY FS_Interval
  <2>2. IsFiniteSet({i \in 1 .. k : stream[i] = c})
    BY <2>1, FS_Subset
  <2> QED
    BY <2>2, FS_CardinalityType
<1>4. stream' \in Seq(Commands)
  BY <1>2, SubSeqProperties
<1>5. \A c \in Commands : InHand[c] + Cardinality({i \in 1 .. k : stream[i] = c}) \in Nat
  <2> SUFFICES ASSUME NEW c \in Commands,
                      NEW x \in Nat, x = InHand[c],
                      NEW y \in Nat, y = Cardinality({i \in 1 .. k : stream[i] = c})
               PROVE  x + y \in Nat
    BY <1>1, <1>3
  <2> QED
    OBVIOUS
<1>6. Stranded(k) \in [Commands -> Nat]
  BY <1>5, Zenon DEF Stranded
<1> QED
  BY <1>2, <1>4, <1>6

\* Every step of the command consumer keeps the types.
LEMMA ConsumerType == TypeOK /\ Consumer => TypeOK'
<1> SUFFICES ASSUME TypeOK, Consumer PROVE TypeOK'
  OBVIOUS
<1> USE DEF TypeOK, db, procs, mem, bus, reqs, env
<1>0. /\ {"phaseA", "stopTx", "stopSig", "idle", "ackStop"} \subseteq Steps
      /\ "consumer" \in Actors /\ "STOP" \in Commands
  BY DEF Steps, Actors, Spawners, Commands
<1>1. ASSUME NEW cmd \in Commands, Deliver(cmd) PROVE TypeOK'
  <2>1. task' \in [Actors -> Task]
    BY <1>1, <1>0, SpawnType DEF Deliver
  <2>2. stream' \in Seq(Commands)
    BY <1>1, HeadTailProperties DEF Deliver
  <2>3. pel' \in [Commands -> Nat]
    BY <1>1 DEF Deliver
  <2> QED
    BY <1>1, <2>1, <2>2, <2>3 DEF Deliver
<1>2. ASSUME NEW cmd \in Commands, MoveToDlq(cmd) PROVE TypeOK'
  <2>1. pel' \in [Commands -> Nat]
    BY <1>2 DEF MoveToDlq
  <2> QED
    BY <1>2, <2>1 DEF MoveToDlq
<1>3. CASE stop
  <2>1. \A r \in RowIds : [rows[r] EXCEPT !.status = "stopping", !.stop = TRUE] \in Row
    BY ZenonT(60) DEF Row, RowStatuses, ActiveStatuses
  <2>2. \A q \in 0 .. MaxRows :
           [task["consumer"] EXCEPT !.at = "stopSig", !.row = q] \in Task
    BY <1>0 DEF Task
  <2>3. ActiveRows \subseteq RowIds /\ RowIds \subseteq 0 .. MaxRows /\ 0 \in 0 .. MaxRows
    BY BoundsAssumption DEF ActiveRows, RowIds
  <2>4. [pel EXCEPT !["STOP"] = @ + 1] \in [Commands -> Nat]
    BY <1>0
  <2>5. rows' \in [RowIds -> Row] /\ dep' \in Dep
    <3>1. CASE ActiveRows = {}
      BY <1>3, <3>1, StopType DEF stop
    <3>2. CASE ActiveRows # {}
      <4>1. PICK r \in ActiveRows :
               /\ dep' = dep
               /\ \/ rows' = [rows EXCEPT ![r] = [@ EXCEPT !.status = "stopping", !.stop = TRUE]]
                  \/ rows' = rows
        BY <1>3, <3>2 DEF stop
      <4> QED
        BY <4>1, <2>1, <2>3
    <3> QED
      BY <3>1, <3>2
  <2>6. task' \in [Actors -> Task] /\ pel' \in [Commands -> Nat]
    <3>1. CASE ActiveRows = {}
      BY <1>3, <1>0, <3>1, SpawnType DEF stop
    <3>2. CASE ActiveRows # {}
      <4>1. PICK r \in ActiveRows :
               \/ /\ task' = [task EXCEPT !["consumer"] =
                       [@ EXCEPT !.at = "stopSig", !.row = IF rows[r].pid THEN r ELSE 0]]
                  /\ pel' = pel
               \/ /\ Goto("consumer", "idle")
                  /\ pel' = [pel EXCEPT !["STOP"] = @ + 1]
        BY <1>3, <3>2 DEF stop
      <4>2. (IF rows[r].pid THEN r ELSE 0) \in 0 .. MaxRows
        BY <2>3
      <4>3. [task["consumer"] EXCEPT !.at = "stopSig",
                                     !.row = IF rows[r].pid THEN r ELSE 0] \in Task
        BY <4>2, <2>2
      <4>4. CASE task' = [task EXCEPT !["consumer"] =
                    [@ EXCEPT !.at = "stopSig", !.row = IF rows[r].pid THEN r ELSE 0]]
        BY <4>1, <4>3, <4>4, <2>4
      <4>5. CASE Goto("consumer", "idle")
        BY <4>1, <4>5, <1>0, <2>4, SpawnType
      <4> QED
        BY <4>1, <4>4, <4>5
    <3> QED
      BY <3>1, <3>2
  <2> QED
    BY <1>3, <2>5, <2>6 DEF stop
<1>4. CASE StopSignal
  <2>1. task' \in [Actors -> Task]
    BY <1>4, <1>0, SpawnType DEF StopSignal
  <2>2. sig' \in [RowIds -> BOOLEAN]
    BY <1>4 DEF StopSignal
  <2> QED
    BY <1>4, <2>1, <2>2 DEF StopSignal
<1>5. CASE Ack
  <2>1. task' \in [Actors -> Task]
    BY <1>5, <1>0, TaskType DEF Ack
  <2>2. stream' \in Seq(Commands) /\ pel' \in [Commands -> Nat] /\ used' \in Used
    BY <1>5, DropBatchType, UsedType DEF Ack, Fault
  <2> QED
    BY <1>5, <2>1, <2>2 DEF Ack
<1> QED
  BY <1>1, <1>2, <1>3, <1>4, <1>5 DEF Consumer

\* Every tick of the re-scan, reaper, watchdog, backstop and HeartbeatMonitor
\* keeps the types.
LEMMA LoopsType == TypeOK /\ Loops => TypeOK'
<1> SUFFICES ASSUME TypeOK, Loops PROVE TypeOK'
  OBVIOUS
<1> USE DEF TypeOK, db, procs, mem, bus, reqs, env
<1>0. /\ {"ctx", "flip"} \subseteq Steps /\ {"rescan", "restart", "watchdog"} \subseteq Actors
      /\ {"none", "crash"} \subseteq FailureKinds /\ {"stopped", "failed"} \subseteq DepStatuses
      /\ "exited1" \in ChildStates
  BY DEF Steps, Actors, Spawners, FailureKinds, DepStatuses, ChildStates
<1>00. ASSUME NEW r \in RowIds
       PROVE  Failed(r, "crash") \in [RowIds -> Row] /\ Synced("failed") \in Dep
  BY <1>0, FailedType, DepType
<1>1. CASE rescan_for_restart
  <2>1. n \in RowIds
    BY <1>1, BoundsAssumption DEF rescan_for_restart, RowIds
  <2>2. rows' \in [RowIds -> Row] /\ dep' \in Dep
    BY <1>1, <1>00, <2>1 DEF rescan_for_restart
  <2>3. task' \in [Actors -> Task]
    BY <1>1, <1>0, SpawnType DEF rescan_for_restart
  <2> QED
    BY <1>1, <2>2, <2>3 DEF rescan_for_restart
<1>2. CASE reap_once
  BY <1>2 DEF reap_once
<1>3. CASE on_child_exit
  <2>1. reap \in RowIds /\ 0 \in 0 .. MaxRows
    BY <1>3, BoundsAssumption DEF on_child_exit, RowIds
  <2>2. rows[reap].kind \in FailureKinds /\ rows[reap].status \in RowStatuses
    BY <2>1 DEF Row
  <2>3. ExitKind(reap) \in FailureKinds /\ ExitStatus(reap) \in {"stopped", "failed"}
    BY <1>0, <2>2 DEF ExitKind, ExitStatus
  <2>4. Exited(reap) \in Row
    <3>1. PICK st \in RowStatuses :
             st = IF Active(reap) THEN ExitStatus(reap) ELSE rows[reap].status
      BY <2>2, <2>3 DEF RowStatuses
    <3>2. PICK b \in BOOLEAN : b = (rows[reap].disp \/ Dispatches(reap))
      OBVIOUS
    <3>3. [rows[reap] EXCEPT !.status = st, !.kind = ExitKind(reap), !.disp = b] \in Row
      BY <2>1, <2>3, ZenonT(60) DEF Row
    <3> QED
      BY <3>1, <3>2, <3>3 DEF Exited
  <2>5. rows' \in [RowIds -> Row]
    BY <1>3, <2>1, <2>4 DEF on_child_exit
  <2>6. dep' \in Dep
    BY <1>3, <1>0, <2>3, DepType DEF on_child_exit
  <2>7. [Idle EXCEPT !.at = "ctx", !.try = 1, !.owned = reap] \in Task
    BY <1>0, TaskType DEF Task
  <2>8. task' \in [Actors -> Task]
    BY <1>3, <2>7 DEF on_child_exit
  <2>9. handle' \in 0 .. MaxRows /\ reap' \in 0 .. MaxRows
    BY <1>3, <2>1 DEF on_child_exit, Evicted
  <2> QED
    BY <1>3, <2>5, <2>6, <2>8, <2>9 DEF on_child_exit
<1>4. ASSUME NEW r \in RowIds, watchdog_once(r) PROVE TypeOK'
  <2>1. child' \in [RowIds -> ChildStates]
    BY <1>4, <1>0 DEF watchdog_once
  <2>2. [task["watchdog"] EXCEPT !.at = "flip", !.row = r] \in Task
    <3>1. r \in 0 .. MaxRows /\ task["watchdog"] \in Task
      BY <1>0, BoundsAssumption DEF RowIds
    <3> QED
      BY <1>0, <3>1 DEF Task
  <2>3. task' \in [Actors -> Task]
    BY <1>4, <2>2 DEF watchdog_once
  <2> QED
    BY <1>4, <2>1, <2>3 DEF watchdog_once
<1>7. CASE WatchdogFlip
  <2>1. rows' \in [RowIds -> Row] /\ dep' \in Dep
    BY <1>7, <1>0, FailedType, DepType DEF WatchdogFlip
  <2>2. task' \in [Actors -> Task]
    BY <1>7, <1>0, TaskType DEF WatchdogFlip
  <2> QED
    BY <1>7, <2>1, <2>2 DEF WatchdogFlip
<1>5. ASSUME NEW r \in RowIds, reap_ownerless_active_rows(r) PROVE TypeOK'
  BY <1>5, <1>00 DEF reap_ownerless_active_rows
<1>6. ASSUME NEW r \in RowIds, mark_stale_as_failed(r) PROVE TypeOK'
  BY <1>6, <1>00 DEF mark_stale_as_failed
<1> QED
  BY <1>1, <1>2, <1>3, <1>4, <1>5, <1>6, <1>7 DEF Loops

\* The three shapes of a subprocess's write of its row.
LEMMA ChildRowType ==
    ASSUME NEW row \in Row, NEW st \in RowStatuses
    PROVE  /\ \A k \in FailureKinds :
                [row EXCEPT !.status = st, !.kind = k, !.stale = FALSE] \in Row
           /\ [row EXCEPT !.status = st, !.stale = FALSE, !.pid = TRUE] \in Row
           /\ \A f \in Nat, p \in BOOLEAN :
                [row EXCEPT !.status = st, !.stale = FALSE, !.fails = f, !.paused = p] \in Row
<1>1. \A k \in FailureKinds : [row EXCEPT !.status = st, !.kind = k, !.stale = FALSE] \in Row
  BY DEF Row
<1>2. [row EXCEPT !.status = st, !.stale = FALSE, !.pid = TRUE] \in Row
  BY DEF Row
<1>3. \A f \in Nat, p \in BOOLEAN :
        [row EXCEPT !.status = st, !.stale = FALSE, !.fails = f, !.paused = p] \in Row
  BY DEF Row
<1> QED
  BY <1>1, <1>2, <1>3

\* What the subprocess's own writes leave.
LEMMA ChildWriteType ==
    ASSUME TypeOK, NEW r \in RowIds
    PROVE  /\ \A st \in {"stopped", "failed"}, k \in FailureKinds : mark_terminal(r, st, k) =>
                rows' \in [RowIds -> Row] /\ dep' \in Dep /\ child' \in [RowIds -> ChildStates]
           /\ \A st \in {"building", "ready"} : ChildWrite(r, st) =>
                rows' \in [RowIds -> Row] /\ dep' \in Dep /\ child' \in [RowIds -> ChildStates]
<1> USE DEF TypeOK
<1>1. ASSUME NEW st \in {"stopped", "failed"}, NEW k \in FailureKinds, mark_terminal(r, st, k)
      PROVE  rows' \in [RowIds -> Row] /\ dep' \in Dep /\ child' \in [RowIds -> ChildStates]
  <2>0. st \in RowStatuses
    BY DEF RowStatuses
  <2>1. [rows[r] EXCEPT !.status = st, !.kind = k, !.stale = FALSE] \in Row
    BY <2>0, ChildRowType
  <2>2. rows' \in [RowIds -> Row]
    BY <1>1, <2>1 DEF mark_terminal
  <2>3. dep' \in Dep
    BY <1>1, DepType DEF mark_terminal, DepStatuses
  <2>4. child' \in [RowIds -> ChildStates]
    BY <1>1 DEF mark_terminal, ChildStates, AliveStates
  <2> QED
    BY <2>2, <2>3, <2>4
<1>2. ASSUME NEW st \in {"building", "ready"}, ChildWrite(r, st)
      PROVE  rows' \in [RowIds -> Row] /\ dep' \in Dep /\ child' \in [RowIds -> ChildStates]
  <2>1. CASE ActiveRows \ {r} # {}
    BY <1>1, <1>2, <2>1 DEF ChildWrite, FailureKinds
  <2>2. CASE ~(ActiveRows \ {r} # {})
    <3>0. st \in RowStatuses
      BY DEF RowStatuses, ActiveStatuses, LiveStatuses
    <3>1. [rows[r] EXCEPT !.status = st, !.stale = FALSE, !.pid = TRUE] \in Row
      BY <3>0, ChildRowType
    <3>2. child' \in [RowIds -> ChildStates]
      BY <1>2, <2>2 DEF ChildWrite, ChildStates, AliveStates
    <3> QED
      BY <1>2, <2>2, <3>1, <3>2 DEF ChildWrite
  <2> QED
    BY <2>1, <2>2
<1> QED
  BY <1>1, <1>2

\* Every step of a trading subprocess, and a heartbeat going stale, keeps the
\* types.
LEMMA SubprocessType == \A r \in RowIds : TypeOK /\ (Subprocess(r) \/ HeartbeatStale(r)) => TypeOK'
<1> SUFFICES ASSUME NEW r \in RowIds, TypeOK, Subprocess(r) \/ HeartbeatStale(r) PROVE TypeOK'
  OBVIOUS
<1> USE DEF TypeOK, db, procs, mem, bus, reqs, env
<1>1. CASE self_write_pid(r)
  BY <1>1, ChildWriteType DEF self_write_pid
<1>2. CASE mark_ready(r)
  BY <1>2, ChildWriteType DEF mark_ready
<1>3. CASE mark_running(r)
  <2>0. /\ "running" \in RowStatuses
        /\ record_success.fails \in Nat /\ record_success.paused \in BOOLEAN
    BY DEF RowStatuses, ActiveStatuses, LiveStatuses, record_success
  <2>1. [rows[r] EXCEPT !.status = "running", !.stale = FALSE, !.fails = record_success.fails,
                        !.paused = record_success.paused] \in Row
    BY <2>0, ChildRowType
  <2>2. rows' \in [RowIds -> Row]
    BY <1>3, <2>1 DEF mark_running
  <2>3. dep' \in Dep
    BY <1>3 DEF mark_running, Dep, DepStatuses, DepLive
  <2>4. child' \in [RowIds -> ChildStates]
    BY <1>3 DEF mark_running, ChildStates, AliveStates
  <2> QED
    BY <1>3, <2>2, <2>3, <2>4 DEF mark_running
<1>4. CASE ChildEnds(r)
  <2>1. rows' \in [RowIds -> Row] /\ dep' \in Dep /\ child' \in [RowIds -> ChildStates]
    BY <1>4, ChildWriteType DEF ChildEnds, FailureKinds
  <2> QED
    BY <1>4, <2>1 DEF ChildEnds
<1>5. CASE ChildDies(r)
  BY <1>5 DEF ChildDies, ChildStates
<1>6. CASE ChildExits(r)
  BY <1>6 DEF ChildExits, ChildStates
<1>7. CASE HeartbeatStale(r)
  <2>1. [rows EXCEPT ![r].stale = TRUE] \in [RowIds -> Row]
    BY ZenonT(60) DEF Row
  <2> QED
    BY <1>7, <2>1 DEF HeartbeatStale
<1> QED
  BY <1>1, <1>2, <1>3, <1>4, <1>5, <1>6, <1>7 DEF Subprocess

\* The supervisor's own life, and its failing calls.
LifeCycle == \/ SupervisorDies
             \/ SupervisorCloses
             \/ SupervisorBoots
             \/ \E a \in Spawners : CancelledSpawn(a)
             \/ \E a \in Actors : TransactionFails(a)

\* Death, shutdown, boot, cancelled spawns and failing calls of the supervisor keep
\* the types.
LEMMA LifeCycleType == TypeOK /\ LifeCycle => TypeOK'
<1> SUFFICES ASSUME TypeOK, LifeCycle PROVE TypeOK'
  OBVIOUS
<1> USE DEF TypeOK, db, procs, mem, bus, reqs, env
<1>0. /\ Idle \in Task /\ "cancelled" \in Steps
      /\ 0 \in 0 .. MaxRows
  BY TaskType, BoundsAssumption DEF Actors, Spawners, Steps, InFlightSteps, ReservedSteps
<1>1. CASE SupervisorDies
  <2>1. used' \in Used
    BY <1>1, UsedType DEF SupervisorDies
  <2>2. child' \in [RowIds -> ChildStates] /\ sig' \in [RowIds -> BOOLEAN]
    BY <1>1 DEF SupervisorDies, ChildStates
  <2>3. task' \in [Actors -> Task] /\ stream' \in Seq(Commands) /\ pel' \in [Commands -> Nat]
    BY <1>1, <1>0, DropBatchType DEF SupervisorDies
  <2> QED
    BY <1>1, <1>0, <2>1, <2>2, <2>3 DEF SupervisorDies
<1>2. CASE SupervisorCloses
  <2>1. used' \in Used
    BY <1>2, UsedType DEF SupervisorCloses
  <2>2. \A a \in Actors : [task[a] EXCEPT !.at = "cancelled"] \in Task
    BY <1>0, TaskType
  <2>3. task' \in [Actors -> Task] /\ stream' \in Seq(Commands) /\ pel' \in [Commands -> Nat]
    BY <1>2, <1>0, <2>2, DropBatchType DEF SupervisorCloses
  <2> QED
    BY <1>2, <2>1, <2>3 DEF SupervisorCloses
<1>3. CASE SupervisorBoots
  <2>1. \A r \in RowIds : [rows[r] EXCEPT !.local = FALSE] \in Row
    BY DEF Row
  <2>2. rows' \in [RowIds -> Row]
    BY <1>3, <2>1 DEF SupervisorBoots
  <2> QED
    BY <1>3, <2>2 DEF SupervisorBoots
<1>4. ASSUME NEW a \in Spawners, CancelledSpawn(a) PROVE TypeOK'
  <2>0. a \in Actors
    BY DEF Actors
  <2>1. rows' \in [RowIds -> Row] /\ dep' \in Dep
    BY <1>4, <2>0, TerminalizedType DEF CancelledSpawn
  <2>2. task' \in [Actors -> Task]
    BY <1>4, <2>0, TaskType DEF CancelledSpawn
  <2> QED
    BY <1>4, <2>1, <2>2 DEF CancelledSpawn
<1>5. ASSUME NEW a \in Actors, TransactionFails(a) PROVE TypeOK'
  <2>1. used' \in Used
    BY <1>5, UsedType DEF TransactionFails, Fault
  <2>2. [pel EXCEPT !["STOP"] = @ + 1] \in [Commands -> Nat]
    BY DEF Commands
  <2>3. task' \in [Actors -> Task] /\ pel' \in [Commands -> Nat]
    BY <1>5, <2>2, SpawnType DEF TransactionFails, SpawnRaises
  <2> QED
    BY <1>5, <2>1, <2>3 DEF TransactionFails
<1> QED
  BY <1>1, <1>2, <1>3, <1>4, <1>5 DEF LifeCycle

\* The groups of steps a behaviour is made of.
LEMMA NextGroups ==
    Next => \/ Api
            \/ \E a \in Actors : Spawn(a) \/ AutoRestart(a)
            \/ Consumer
            \/ Loops
            \/ \E r \in RowIds : Subprocess(r) \/ HeartbeatStale(r)
            \/ LifeCycle
  BY DEF Next, Supervisor, Actors, Spawners, LifeCycle

\* Every step of the API, the supervisor and the subprocesses keeps the tables,
\* the task states, the streams and the counters well formed, whatever the bounds.
THEOREM TypeCorrect == Spec => []TypeOK
<1>1. Init => TypeOK
  BY InitType
<1>2. TypeOK /\ [Next]_vars => TypeOK'
  <2> SUFFICES ASSUME TypeOK, [Next]_vars PROVE TypeOK'
    OBVIOUS
  <2>1. CASE UNCHANGED vars
    BY <2>1 DEF TypeOK, vars, db, procs, mem, bus, reqs, env
  <2>2. CASE Next
    BY <2>2, NextGroups, ApiType, SpawnStepType, AutoRestartType, ConsumerType, LoopsType,
       SubprocessType, LifeCycleType
  <2> QED
    BY <2>1, <2>2
<1> QED
  BY <1>1, <1>2, PTL DEF Spec

-----------------------------------------------------------------------------
\* No row disappears.
KeepsRows == \A r \in RowIds : rows[r].status # "absent" => rows'[r].status # "absent"

\* No row becomes active.
NoNewActive == \A r \in RowIds :
    rows'[r].status \in ActiveStatuses => rows[r].status \in ActiveStatuses

\* A new subprocess has a row.
KeepsChildren == \A r \in RowIds :
    child'[r] # "none" => child[r] # "none" \/ rows'[r].status # "absent"

\* A spawn that enters its in-flight steps has a row.
KeepsSpawns == \A a \in Actors :
    task'[a].at \in InFlightSteps =>
        \/ task[a].at \in InFlightSteps /\ task'[a].row = task[a].row
        \/ task'[a].row \in RowIds /\ rows'[task'[a].row].status # "absent"

\* What each step shows of itself.
Quiet == KeepsRows /\ NoNewActive /\ KeepsChildren /\ KeepsSpawns

\* A step that makes no row active and loses no row, subprocess row or spawn
\* row keeps the invariant.
LEMMA QuietKeeps == ASSUME TypeOK, OneActiveRow, RowsExist,
                           NoNewActive \/ OneActiveRow', KeepsRows, KeepsChildren, KeepsSpawns
                    PROVE  OneActiveRow' /\ RowsExist'
<1>1. OneActiveRow'
  BY DEF OneActiveRow, NoNewActive, Active
<1>2. \A r \in RowIds : child'[r] # "none" => rows'[r].status # "absent"
  BY DEF RowsExist, KeepsRows, KeepsChildren
<1>3. \A a \in Actors : task'[a].at \in InFlightSteps /\ task'[a].row \in RowIds
                           => rows'[task'[a].row].status # "absent"
  BY DEF RowsExist, KeepsRows, KeepsSpawns
<1> QED
  BY <1>1, <1>2, <1>3 DEF RowsExist

\* A step that leaves the node rows alone loses none and makes none active.
LEMMA SameRows == rows' = rows => KeepsRows /\ NoNewActive
  BY DEF KeepsRows, NoNewActive

\* A step that leaves the subprocesses alone gives none to a missing row.
LEMMA SameChildren == child' = child => KeepsChildren
  BY DEF KeepsChildren

\* A step that leaves the tasks alone gives no spawn a missing row.
LEMMA SameTasks == task' = task => KeepsSpawns
  BY DEF KeepsSpawns

\* Failing a row makes no row active.
LEMMA FailedRows == ASSUME TypeOK, NEW r, NEW k, rows' = Failed(r, k)
                    PROVE  KeepsRows /\ NoNewActive
  BY DEF TypeOK, Failed, Row, KeepsRows, NoNewActive, ActiveStatuses, LiveStatuses

\* A /stop without an active row makes no row active.
LEMMA StopRows == ASSUME TypeOK, StopWithoutActiveRow PROVE KeepsRows /\ NoNewActive
  BY ZenonT(60) DEF TypeOK, StopWithoutActiveRow, Row, KeepsRows, NoNewActive

\* _terminalize_reserved_row makes no row active.
LEMMA TerminalizedRows == ASSUME TypeOK, NEW r, Terminalized(r) PROVE KeepsRows /\ NoNewActive
  BY FailedRows, SameRows DEF Terminalized

\* A task that moves to a step outside the spawn, or moves on inside it.
LEMMA TaskMoves ==
    ASSUME TypeOK, NEW a \in Actors
    PROVE  /\ task' = [task EXCEPT ![a] = Idle] => KeepsSpawns
           /\ \A s : Goto(a, s) /\ (s \in InFlightSteps => task[a].at \in InFlightSteps) => KeepsSpawns
           /\ \A k, ack : Fail(a, k, ack) /\ task[a].at \in InFlightSteps => KeepsSpawns
           /\ task' = [task EXCEPT ![a] = [Idle EXCEPT !.at = "ackStop"]] => KeepsSpawns
           /\ \A ack : AfterSpawn(a, ack) => KeepsSpawns
           /\ NextAttempt(a) => KeepsSpawns
           /\ SpawnRaises(a) => KeepsSpawns
<1>0. /\ {"idle", "ctx", "giveup", "refail", "ackStart", "ackStop"} \cap InFlightSteps = {}
      /\ Idle.at = "idle"
      /\ \A s : [Idle EXCEPT !.at = s].at = s
      /\ task \in [Actors -> Task]
  BY DEF InFlightSteps, ReservedSteps, Idle, TypeOK
<1>1. task' = [task EXCEPT ![a] = Idle] => KeepsSpawns
  BY <1>0 DEF KeepsSpawns
<1>2. \A s : Goto(a, s) /\ (s \in InFlightSteps => task[a].at \in InFlightSteps) => KeepsSpawns
  BY <1>0 DEF KeepsSpawns, Goto, Task
<1>3. \A k, ack : Fail(a, k, ack) /\ task[a].at \in InFlightSteps => KeepsSpawns
  BY <1>0 DEF KeepsSpawns, Fail, Task
<1>4. \A ack : AfterSpawn(a, ack) => KeepsSpawns
  BY <1>0 DEF KeepsSpawns, AfterSpawn, Task
<1>5. NextAttempt(a) => KeepsSpawns
  BY <1>0 DEF KeepsSpawns, NextAttempt, Idle
<1>6. SpawnRaises(a) => KeepsSpawns
  BY <1>0, <1>1, <1>5 DEF SpawnRaises
<1>7. task' = [task EXCEPT ![a] = [Idle EXCEPT !.at = "ackStop"]] => KeepsSpawns
  BY <1>0 DEF KeepsSpawns
<1> QED
  BY <1>1, <1>2, <1>3, <1>4, <1>5, <1>6, <1>7

\* No API request makes a node row active.
LEMMA ApiQuiet == TypeOK /\ Api => Quiet
<1> SUFFICES ASSUME TypeOK, Api PROVE Quiet
  OBVIOUS
<1>1. child' = child /\ task' = task
  BY DEF Api, db, procs, mem, bus, reqs, env, ApiAdmit, ApiStart, ApiAlreadyActive,
         ApiPublishStart,
         ApiPoll, ApiCommitRunning, ApiPollTimeout, ApiTimeoutFlip, ApiStop, ApiStopPublish,
         ApiStopPoll, ApiStopCommit, KillAllLatch, KillAllPublish, KillAllPoll, PublishStop,
         InflightExpires, Resume
<1>2. CASE ApiStop
  <2>1. ASSUME ActiveRows = {} PROVE KeepsRows /\ NoNewActive
    BY <1>2, <2>1, StopRows DEF ApiStop
  <2>2. ASSUME ActiveRows # {} PROVE KeepsRows /\ NoNewActive
    <3>1. \A r \in RowIds : [rows[r] EXCEPT !.stop = TRUE].status = rows[r].status
      BY DEF TypeOK, Row
    <3>2. \A r \in RowIds : rows'[r].status = rows[r].status
      BY <1>2, <2>2, <3>1 DEF ApiStop
    <3> QED
      BY <3>2 DEF KeepsRows, NoNewActive
  <2> QED
    BY <1>1, <2>1, <2>2, SameChildren, SameTasks DEF Quiet
<1>3. CASE ~ApiStop
  <2>1. rows' = rows
    BY <1>3 DEF Api, db, procs, mem, bus, reqs, env, ApiAdmit, ApiStart, ApiAlreadyActive,
         ApiPublishStart,
                ApiPoll, ApiCommitRunning, ApiPollTimeout, ApiTimeoutFlip, ApiStopPublish,
                ApiStopPoll, ApiStopCommit, KillAllLatch, KillAllPublish, KillAllPoll,
                PublishStop, InflightExpires, Resume
  <2> QED
    BY <1>1, <2>1, SameRows, SameChildren, SameTasks DEF Quiet
<1> QED
  BY <1>2, <1>3

\* Phase A inserts its row only when no row is active.
LEMMA PhaseAKeeps == ASSUME TypeOK, NEW a \in Actors, phase_a_reserve_slot(a)
                     PROVE  /\ NoNewActive \/ OneActiveRow'
                            /\ KeepsRows /\ KeepsChildren /\ KeepsSpawns
<1>0. child' = child
  BY DEF phase_a_reserve_slot, procs
<1>1. PICK gwBusy \in BOOLEAN :
        IF PhaseAOutcome(a, gwBusy) = "RESERVED"
        THEN /\ n < MaxRows
             /\ \E within \in BOOLEAN : rows' = [rows EXCEPT ![n + 1] = NewRow(a, within)]
             /\ task' = [task EXCEPT ![a] = [@ EXCEPT !.at = "haltCheck", !.row = n + 1]]
        ELSE \E ack : AfterSpawn(a, ack) /\ rows' = rows
  BY DEF phase_a_reserve_slot, db
<1>2. CASE PhaseAOutcome(a, gwBusy) # "RESERVED"
  BY <1>0, <1>1, <1>2, SameRows, SameChildren, TaskMoves
<1>3. CASE PhaseAOutcome(a, gwBusy) = "RESERVED"
  <2>1. ActiveRows = {}
    BY <1>3 DEF PhaseAOutcome
  <2>2. n + 1 \in RowIds
    BY <1>1, <1>3, BoundsAssumption DEF TypeOK, RowIds
  <2>3. PICK v : rows' = [rows EXCEPT ![n + 1] = v] /\ v.status = "starting"
    <3>1. \A within : NewRow(a, within).status = "starting"
      BY DEF NewRow, NoRow
    <3> QED
      BY <1>1, <1>3, <3>1
  <2>4. \A r \in RowIds : rows'[r] = IF r = n + 1 THEN v ELSE rows[r]
    BY <2>2, <2>3 DEF TypeOK
  <2>5. OneActiveRow'
    BY <2>1, <2>4 DEF OneActiveRow, Active, ActiveRows
  <2>6. KeepsRows
    BY <2>3, <2>4 DEF KeepsRows
  <2>7. KeepsSpawns
    <3>1. task'[a].row = n + 1 /\ \A b \in Actors : b # a => task'[b] = task[b]
      BY <1>1, <1>3, ZenonT(60) DEF TypeOK, Task
    <3>2. rows'[n + 1].status # "absent"
      BY <2>2, <2>3, <2>4
    <3> QED
      BY <2>2, <3>1, <3>2 DEF KeepsSpawns
  <2> QED
    BY <1>0, <2>5, <2>6, <2>7, SameChildren
<1> QED
  BY <1>2, <1>3

\* No step of a spawn after Phase A makes a node row active.
LEMMA SpawnQuiet ==
    ASSUME TypeOK, RowsExist, NEW a \in Actors, Spawn(a), ~phase_a_reserve_slot(a) PROVE Quiet
<1> USE DEF db, procs, mem, bus, reqs, env
<1>0. /\ ReservedSteps \subseteq InFlightSteps /\ "phaseC" \in InFlightSteps
      /\ {"haltCheck", "payload", "recheck", "gate", "start", "failing", "terminalize"} \subseteq InFlightSteps
  BY DEF InFlightSteps, ReservedSteps
<1>1. ASSUME NEW here \in InFlightSteps, NEW next \in InFlightSteps, HaltCheck(a, here, next)
      PROVE  Quiet
  <2>1. rows' = rows /\ child' = child
    BY <1>1 DEF HaltCheck
  <2>2. KeepsSpawns
    BY <1>1, TaskMoves DEF HaltCheck
  <2> QED
    BY <2>1, <2>2, SameRows, SameChildren DEF Quiet
<1>2. CASE PayloadFactory(a)
  <2>1. rows' = rows /\ child' = child
    BY <1>2 DEF PayloadFactory
  <2>2. KeepsSpawns
    BY <1>0, <1>2, TaskMoves DEF PayloadFactory
  <2> QED
    BY <2>1, <2>2, SameRows, SameChildren DEF Quiet
<1>3. CASE StopIntentGate(a)
  <2>1. rows' = rows /\ child' = child
    BY <1>3 DEF StopIntentGate
  <2>2. KeepsSpawns
    BY <1>0, <1>3, TaskMoves DEF StopIntentGate
  <2> QED
    BY <2>1, <2>2, SameRows, SameChildren DEF Quiet
<1>4. CASE StartProcess(a)
  <2>1. rows' = rows
    BY <1>4 DEF StartProcess
  <2>2. KeepsSpawns
    BY <1>0, <1>4, TaskMoves DEF StartProcess
  <2>3. task[a].row \in RowIds => rows[task[a].row].status # "absent"
    BY <1>0, <1>4 DEF StartProcess, RowsExist
  <2>4. KeepsChildren
    BY <1>4, <2>1, <2>3 DEF StartProcess, KeepsChildren, TypeOK
  <2> QED
    BY <2>1, <2>2, <2>4, SameRows DEF Quiet
<1>5. CASE PhaseC(a)
  <2>1. KeepsRows /\ NoNewActive
    <3>1. \A r \in RowIds : [rows EXCEPT ![task[a].row].pid = TRUE][r].status = rows[r].status
      BY DEF TypeOK, Row
    <3>2. \A r \in RowIds : rows'[r].status = rows[r].status
      BY <1>5, <3>1 DEF PhaseC
    <3> QED
      BY <3>2 DEF KeepsRows, NoNewActive
  <2>2. child' = child /\ KeepsSpawns
    BY <1>5, TaskMoves DEF PhaseC
  <2> QED
    BY <2>1, <2>2, SameChildren DEF Quiet
<1>6. CASE mark_failed(a)
  <2>1. KeepsRows /\ NoNewActive
    BY <1>6, FailedRows, SameRows DEF mark_failed
  <2>2. child' = child /\ KeepsSpawns
    BY <1>6, TaskMoves DEF mark_failed
  <2> QED
    BY <2>1, <2>2, SameChildren DEF Quiet
<1>7. CASE terminalize_reserved_row(a)
  <2>1. KeepsRows /\ NoNewActive
    BY <1>7, TerminalizedRows, SameRows DEF terminalize_reserved_row
  <2>2. child' = child /\ KeepsSpawns
    BY <1>7, TaskMoves DEF terminalize_reserved_row
  <2> QED
    BY <2>1, <2>2, SameChildren DEF Quiet
<1> QED
  BY <1>0, <1>1, <1>2, <1>3, <1>4, <1>5, <1>6, <1>7 DEF Spawn

\* No step of the restart task or the re-scan outside the spawn makes a node
\* row active.
LEMMA AutoRestartQuiet == ASSUME TypeOK, NEW a \in Actors, AutoRestart(a) PROVE Quiet
<1> USE DEF db, procs, mem, bus, reqs, env
<1>0. /\ {"idle", "gates", "phaseA", "backoff"} \cap InFlightSteps = {}
      /\ Idle.at = "idle" /\ task \in [Actors -> Task]
  BY DEF InFlightSteps, ReservedSteps, Idle, TypeOK
<1>00. child' = child
  BY DEF AutoRestart, load_restart_context, RestartGates, Backoff, refail_stranded_restart,
         clear_sentinel_and_refail_after_giveup
<1>1. CASE load_restart_context(a)
  <2>1. rows' = rows
    BY <1>1 DEF load_restart_context
  <2>2. KeepsSpawns
    <3>1. CASE NextAttempt(a)
      BY <3>1, TaskMoves
    <3>2. CASE n = 0 /\ task' = [task EXCEPT ![a] = Idle]
      BY <3>2, TaskMoves
    <3>3. CASE task' = [task EXCEPT ![a] = [@ EXCEPT !.at = "gates", !.fails = rows[n].fails,
                                                    !.paused = rows[n].paused]]
      BY <1>0, <3>3 DEF KeepsSpawns, Task
    <3> QED
      BY <1>1, <3>1, <3>2, <3>3 DEF load_restart_context
  <2> QED
    BY <1>00, <2>1, <2>2, SameRows, SameChildren DEF Quiet
<1>2. CASE RestartGates(a)
  <2>1. rows' = rows
    BY <1>2 DEF RestartGates
  <2>2. KeepsSpawns
    BY <1>0, <1>2 DEF RestartGates, KeepsSpawns, Task
  <2> QED
    BY <1>00, <2>1, <2>2, SameRows, SameChildren DEF Quiet
<1>3. CASE Backoff(a)
  <2>1. rows' = rows
    BY <1>3 DEF Backoff
  <2>2. KeepsSpawns
    BY <1>0, <1>3 DEF Backoff, KeepsSpawns, Task
  <2> QED
    BY <1>00, <2>1, <2>2, SameRows, SameChildren DEF Quiet
<1>4. CASE refail_stranded_restart(a)
  <2>1. KeepsRows /\ NoNewActive
    BY <1>4, FailedRows, SameRows DEF refail_stranded_restart
  <2>2. KeepsSpawns
    BY <1>4, TaskMoves DEF refail_stranded_restart
  <2> QED
    BY <1>00, <2>1, <2>2, SameChildren DEF Quiet
<1>5. CASE clear_sentinel_and_refail_after_giveup(a)
  <2>1. \A r \in RowIds : /\ GivenUp(r).status = "failed" \/ GivenUp(r).status = rows[r].status
    BY DEF GivenUp, TypeOK, Row
  <2>2. KeepsRows /\ NoNewActive
    BY <1>5, <2>1 DEF clear_sentinel_and_refail_after_giveup, TypeOK,
                      KeepsRows, NoNewActive, ActiveStatuses, LiveStatuses
  <2>3. KeepsSpawns
    BY <1>5, TaskMoves DEF clear_sentinel_and_refail_after_giveup
  <2> QED
    BY <1>00, <2>2, <2>3, SameChildren DEF Quiet
<1> QED
  BY <1>1, <1>2, <1>3, <1>4, <1>5 DEF AutoRestart

\* No step of the consumer makes a row active: FleetRouter.stop moves an active
\* row to stopping.
LEMMA ConsumerQuiet == ASSUME TypeOK, Consumer PROVE Quiet
<1> USE DEF db, procs, mem, bus, reqs, env
<1>0. /\ {"idle", "phaseA", "stopTx", "stopSig", "ackStop"} \cap InFlightSteps = {} /\ "consumer" \in Actors
      /\ task \in [Actors -> Task]
  BY DEF InFlightSteps, ReservedSteps, TypeOK, Actors, Spawners
<1>1. ASSUME NEW cmd \in Commands, Deliver(cmd) PROVE Quiet
  <2>1. rows' = rows /\ child' = child
    BY <1>1 DEF Deliver
  <2>2. KeepsSpawns
    BY <1>0, <1>1, TaskMoves DEF Deliver
  <2> QED
    BY <2>1, <2>2, SameRows, SameChildren DEF Quiet
<1>2. ASSUME NEW cmd \in Commands, MoveToDlq(cmd) PROVE Quiet
  BY <1>2, SameRows, SameChildren, SameTasks DEF MoveToDlq, Quiet
<1>3. CASE stop
  <2>1. child' = child
    BY <1>3 DEF stop
  <2>2. CASE ActiveRows = {}
    BY <1>0, <1>3, <2>1, <2>2, StopRows, TaskMoves, SameChildren DEF stop, Quiet
  <2>3. CASE ActiveRows # {}
    <3>1. PICK r \in ActiveRows :
            \/ /\ rows' = [rows EXCEPT ![r] = [@ EXCEPT !.status = "stopping", !.stop = TRUE]]
               /\ task' = [task EXCEPT !["consumer"] =
                    [@ EXCEPT !.at = "stopSig", !.row = IF rows[r].pid THEN r ELSE 0]]
            \/ rows' = rows /\ Goto("consumer", "idle")
      BY <1>3, <2>3 DEF stop
    <3>2. CASE rows' = rows /\ Goto("consumer", "idle")
      BY <1>0, <2>1, <3>2, SameRows, SameChildren, TaskMoves DEF Quiet
    <3>3. CASE /\ rows' = [rows EXCEPT ![r] = [@ EXCEPT !.status = "stopping", !.stop = TRUE]]
               /\ task' = [task EXCEPT !["consumer"] =
                    [@ EXCEPT !.at = "stopSig", !.row = IF rows[r].pid THEN r ELSE 0]]
      <4>1. [rows[r] EXCEPT !.status = "stopping", !.stop = TRUE].status = "stopping"
        BY DEF TypeOK, Row, ActiveRows
      <4>2. r \in RowIds /\ rows[r].status \in ActiveStatuses
        BY DEF ActiveRows, Active
      <4>3. KeepsRows /\ NoNewActive
        BY <3>3, <4>1, <4>2 DEF TypeOK, KeepsRows, NoNewActive
      <4>4. KeepsSpawns
        BY <1>0, <3>3 DEF KeepsSpawns, Task
      <4> QED
        BY <2>1, <4>3, <4>4, SameChildren DEF Quiet
    <3> QED
      BY <3>1, <3>2, <3>3
  <2> QED
    BY <2>2, <2>3
<1>4. CASE StopSignal
  <2>1. rows' = rows /\ child' = child
    BY <1>4 DEF StopSignal
  <2>2. KeepsSpawns
    BY <1>0, <1>4, TaskMoves DEF StopSignal
  <2> QED
    BY <2>1, <2>2, SameRows, SameChildren DEF Quiet
<1>5. CASE Ack
  BY <1>0, <1>5, TaskMoves, SameRows, SameChildren DEF Ack, Quiet
<1> QED
  BY <1>1, <1>2, <1>3, <1>4, <1>5 DEF Consumer

\* No periodic loop makes a row active.
LEMMA LoopsQuiet == ASSUME TypeOK, RowsExist, Loops PROVE Quiet
<1> USE DEF db, procs, mem, bus, reqs, env
<1>0. /\ {"ctx", "flip", "idle"} \cap InFlightSteps = {}
      /\ {"rescan", "restart", "watchdog"} \subseteq Actors /\ task \in [Actors -> Task]
  BY DEF InFlightSteps, ReservedSteps, TypeOK, Actors, Spawners
<1>1. CASE rescan_for_restart
  <2>1. KeepsRows /\ NoNewActive
    BY <1>1, FailedRows, SameRows DEF rescan_for_restart
  <2>2. child' = child
    BY <1>1 DEF rescan_for_restart
  <2>3. KeepsSpawns
    BY <1>0, <1>1, TaskMoves, SameTasks DEF rescan_for_restart
  <2> QED
    BY <2>1, <2>2, <2>3, SameChildren DEF Quiet
<1>2. CASE reap_once
  BY <1>2, SameRows, SameChildren, SameTasks DEF reap_once, Quiet
<1>3. CASE on_child_exit
  <2>1. reap \in RowIds
    BY <1>3, BoundsAssumption DEF on_child_exit, RowIds, TypeOK
  <2>2. \/ Exited(reap).status = rows[reap].status
        \/ Exited(reap).status \in {"stopped", "failed"}
    BY <2>1 DEF Exited, ExitStatus, TypeOK, Row
  <2>3. \A r \in RowIds : rows'[r] = IF r = reap THEN Exited(r) ELSE rows[r]
    BY <1>3, <2>1 DEF on_child_exit, TypeOK
  <2>4. KeepsRows /\ NoNewActive
    BY <2>2, <2>3 DEF KeepsRows, NoNewActive, ActiveStatuses, LiveStatuses
  <2>5. child' = child
    BY <1>3 DEF on_child_exit
  <2>6. KeepsSpawns
    BY <1>0, <1>3 DEF on_child_exit, KeepsSpawns, Idle
  <2> QED
    BY <2>4, <2>5, <2>6, SameChildren DEF Quiet
<1>4. ASSUME NEW r \in RowIds, watchdog_once(r) PROVE Quiet
  <2>1. KeepsChildren
    BY <1>4 DEF watchdog_once, KeepsChildren, Alive, AliveStates
  <2>2. [task["watchdog"] EXCEPT !.at = "flip", !.row = r].at = "flip"
    BY <1>0 DEF Task
  <2>3. KeepsSpawns
    BY <1>0, <1>4, <2>2 DEF watchdog_once, KeepsSpawns
  <2> QED
    BY <1>4, <2>1, <2>3, SameRows DEF watchdog_once, Quiet
<1>7. CASE WatchdogFlip
  <2>1. KeepsSpawns
    BY <1>0, <1>7, TaskMoves DEF WatchdogFlip
  <2> QED
    BY <1>7, <2>1, FailedRows, SameChildren DEF WatchdogFlip, Quiet
<1>5. ASSUME NEW r \in RowIds, reap_ownerless_active_rows(r) PROVE Quiet
  BY <1>5, FailedRows, SameChildren, SameTasks DEF reap_ownerless_active_rows, Quiet
<1>6. ASSUME NEW r \in RowIds, mark_stale_as_failed(r) PROVE Quiet
  BY <1>6, FailedRows, SameChildren, SameTasks DEF mark_stale_as_failed, Quiet
<1> QED
  BY <1>1, <1>2, <1>3, <1>4, <1>5, <1>6, <1>7 DEF Loops

\* The subprocess's terminal mark makes no row active.
LEMMA TerminalRows ==
    ASSUME TypeOK, NEW r \in RowIds, NEW st \in {"stopped", "failed"}, NEW k,
           child[r] # "none", mark_terminal(r, st, k)
    PROVE  KeepsRows /\ NoNewActive /\ KeepsChildren
<1>1. [rows[r] EXCEPT !.status = st, !.kind = k, !.stale = FALSE].status = st
  BY DEF TypeOK, Row
<1>2. \A q \in RowIds : rows'[q].status = IF q = r THEN st ELSE rows[q].status
  BY <1>1 DEF mark_terminal, TypeOK
<1>3. KeepsChildren
  BY DEF mark_terminal, KeepsChildren, TypeOK
<1> QED
  BY <1>2, <1>3 DEF KeepsRows, NoNewActive, ActiveStatuses, LiveStatuses

\* The subprocess's own writes: the index refuses a second active row.
LEMMA ChildWriteKeeps ==
    ASSUME TypeOK, NEW r \in RowIds, child[r] # "none",
           NEW st \in {"building", "ready"}, ChildWrite(r, st)
    PROVE  (NoNewActive \/ OneActiveRow') /\ KeepsRows /\ KeepsChildren
<1>1. CASE ActiveRows \ {r} # {}
  BY <1>1, TerminalRows DEF ChildWrite
<1>2. CASE ActiveRows \ {r} = {}
  <2>1. [rows[r] EXCEPT !.status = st, !.stale = FALSE, !.pid = TRUE].status = st
    BY DEF TypeOK, Row
  <2>2. \A q \in RowIds : rows'[q].status = IF q = r THEN st ELSE rows[q].status
    BY <1>2, <2>1 DEF ChildWrite, TypeOK
  <2>3. \A q \in RowIds : rows[q].status \in ActiveStatuses => q = r
    BY <1>2 DEF ActiveRows, Active
  <2>4. OneActiveRow'
    BY <2>2, <2>3 DEF OneActiveRow, Active
  <2>5. KeepsRows
    BY <2>2 DEF KeepsRows
  <2>6. KeepsChildren
    BY <1>2 DEF ChildWrite, KeepsChildren, TypeOK
  <2> QED
    BY <2>4, <2>5, <2>6
<1> QED
  BY <1>1, <1>2

\* The subprocess's writes, which do make rows active, keep at most one active
\* row.
LEMMA SubprocessKeeps ==
    ASSUME TypeOK, RowsExist, NEW r \in RowIds, Subprocess(r) \/ HeartbeatStale(r)
    PROVE  (NoNewActive \/ OneActiveRow') /\ KeepsRows /\ KeepsChildren /\ KeepsSpawns
<1> USE DEF db, procs, mem, bus, reqs, env
<1>0. KeepsSpawns
  BY SameTasks DEF Subprocess, self_write_pid, mark_ready, mark_running, ChildEnds, ChildDies,
                   ChildExits, HeartbeatStale
<1>1. CASE self_write_pid(r)
  BY <1>0, <1>1, ChildWriteKeeps DEF self_write_pid
<1>2. CASE mark_ready(r)
  BY <1>0, <1>2, ChildWriteKeeps DEF mark_ready
<1>3. CASE mark_running(r)
  <2>1. KeepsChildren
    BY <1>3 DEF mark_running, KeepsChildren, TypeOK
  <2>2. CASE rows' = rows
    BY <1>0, <2>1, <2>2, SameRows
  <2>3. CASE rows' # rows
    <3>1. rows[r].status \in RowStatuses /\ rows[r].status # "absent"
      BY <1>3 DEF mark_running, RowsExist, TypeOK, Row
    <3>2. rows[r].status \in ActiveStatuses
      BY <1>3, <2>3, <3>1 DEF mark_running, RowStatuses
    <3>3. [rows[r] EXCEPT !.status = "running", !.stale = FALSE, !.fails = record_success.fails,
                          !.paused = record_success.paused].status = "running"
      BY DEF TypeOK, Row
    <3>4. \A q \in RowIds : rows'[q].status = IF q = r THEN "running" ELSE rows[q].status
      BY <1>3, <2>3, <3>3 DEF mark_running, TypeOK
    <3> QED
      BY <1>0, <2>1, <3>2, <3>4 DEF KeepsRows, NoNewActive
  <2> QED
    BY <2>2, <2>3
<1>4. CASE ChildEnds(r)
  BY <1>0, <1>4, TerminalRows DEF ChildEnds
<1>5. CASE ChildDies(r)
  <2>1. KeepsChildren
    BY <1>5 DEF ChildDies, KeepsChildren, TypeOK, Alive, AliveStates
  <2> QED
    BY <1>0, <1>5, <2>1, SameRows DEF ChildDies
<1>6. CASE ChildExits(r)
  <2>1. KeepsChildren
    BY <1>6 DEF ChildExits, KeepsChildren, TypeOK
  <2> QED
    BY <1>0, <1>6, <2>1, SameRows DEF ChildExits
<1>7. CASE HeartbeatStale(r)
  <2>1. \A q \in RowIds : [rows EXCEPT ![r].stale = TRUE][q].status = rows[q].status
    BY DEF TypeOK, Row
  <2>2. KeepsRows /\ NoNewActive
    BY <1>7, <2>1 DEF HeartbeatStale, KeepsRows, NoNewActive
  <2> QED
    BY <1>0, <1>7, <2>2, SameChildren DEF HeartbeatStale
<1> QED
  BY <1>1, <1>2, <1>3, <1>4, <1>5, <1>6, <1>7 DEF Subprocess

\* The supervisor's death, shutdown and boot make no row active.
LEMMA LifeCycleQuiet == ASSUME TypeOK, LifeCycle PROVE Quiet
<1> USE DEF db, procs, mem, bus, reqs, env
<1>0. /\ Idle.at \notin InFlightSteps /\ ReservedSteps \subseteq InFlightSteps
      /\ task \in [Actors -> Task]
  BY DEF InFlightSteps, ReservedSteps, TypeOK, Idle
<1>1. CASE SupervisorDies
  <2>1. KeepsChildren
    BY <1>1 DEF SupervisorDies, KeepsChildren, Alive, AliveStates
  <2>2. KeepsSpawns
    BY <1>0, <1>1 DEF SupervisorDies, KeepsSpawns
  <2> QED
    BY <1>1, <2>1, <2>2, SameRows DEF SupervisorDies, Quiet
<1>2. CASE SupervisorCloses
  <2>1. \A a \in Actors : [task[a] EXCEPT !.at = "cancelled"].row = task[a].row
    BY <1>0 DEF Task
  <2>2. KeepsSpawns
    BY <1>0, <1>2, <2>1 DEF SupervisorCloses, KeepsSpawns
  <2> QED
    BY <1>2, <2>2, SameRows, SameChildren DEF SupervisorCloses, Quiet
<1>3. CASE SupervisorBoots
  <2>1. \A r \in RowIds : [rows[r] EXCEPT !.local = FALSE].status = rows[r].status
    BY DEF TypeOK, Row
  <2>2. \A r \in RowIds : rows'[r].status = rows[r].status
    BY <1>3, <2>1 DEF SupervisorBoots
  <2> QED
    BY <1>3, <2>2, SameChildren, SameTasks DEF SupervisorBoots, Quiet, KeepsRows, NoNewActive
<1>4. ASSUME NEW a \in Spawners, CancelledSpawn(a) PROVE Quiet
  <2>1. a \in Actors
    BY DEF Actors
  <2> QED
    BY <1>4, <2>1, TerminalizedRows, SameChildren, TaskMoves DEF CancelledSpawn, Quiet
<1>5. ASSUME NEW a \in Actors, TransactionFails(a) PROVE Quiet
  <2>1. KeepsSpawns
    BY <1>5, TaskMoves DEF TransactionFails
  <2> QED
    BY <1>5, <2>1, SameRows, SameChildren DEF TransactionFails, Quiet
<1> QED
  BY <1>1, <1>2, <1>3, <1>4, <1>5 DEF LifeCycle

\* Every step keeps OneActiveRow and RowsExist together.
LEMMA RowInvariant == Spec => [](OneActiveRow /\ RowsExist)
<1>1. Init => OneActiveRow /\ RowsExist
  BY DEF Init, OneActiveRow, RowsExist, Active, ActiveStatuses, LiveStatuses, NoRow, Idle,
         InFlightSteps, ReservedSteps
<1>2. TypeOK /\ OneActiveRow /\ RowsExist /\ [Next]_vars => OneActiveRow' /\ RowsExist'
  <2> SUFFICES ASSUME TypeOK, OneActiveRow, RowsExist, [Next]_vars
               PROVE  OneActiveRow' /\ RowsExist'
    OBVIOUS
  <2>1. CASE UNCHANGED vars
    BY <2>1 DEF OneActiveRow, RowsExist, Active, vars, db, procs, mem
  <2>2. CASE Next
    <3>1. (NoNewActive \/ OneActiveRow') /\ KeepsRows /\ KeepsChildren /\ KeepsSpawns
      BY <2>2, NextGroups, ApiQuiet, PhaseAKeeps, SpawnQuiet, AutoRestartQuiet, ConsumerQuiet,
         LoopsQuiet, SubprocessKeeps, LifeCycleQuiet DEF Quiet
    <3> QED
      BY <3>1, QuietKeeps
  <2> QED
    BY <2>1, <2>2
<1> QED
  BY <1>1, <1>2, TypeCorrect, PTL DEF Spec

\* At any time a deployment has at most one active node row, whatever the number
\* of rows, requests, faults and crashes, and however long a spawn takes.
THEOREM AtMostOneActiveRow == Spec => []OneActiveRow
  BY RowInvariant, PTL

-----------------------------------------------------------------------------
\* A guarded sync does not touch a stopped deployment.
LEMMA SyncedStopped == ASSUME TypeOK, dep.status = "stopped", NEW s
                       PROVE  Synced(s).status = "stopped"
  BY DEF Synced, TypeOK, Dep, DepLive

\* _terminalize_reserved_row does not touch a stopped deployment.
LEMMA TerminalizedStopped == ASSUME TypeOK, dep.status = "stopped", NEW r, Terminalized(r)
                             PROVE  dep'.status = "stopped"
  BY SyncedStopped DEF Terminalized

\* No API request but a start request's write moves a stopped deployment.
LEMMA ApiStopped == ASSUME TypeOK, dep.status = "stopped", Api
                    PROVE  dep'.status = "stopped" \/ api' # api
<1> USE DEF db, procs, mem, bus, reqs, env
<1>1. CASE ApiStop
  BY <1>1, SyncedStopped DEF ApiStop, StopWithoutActiveRow
<1>2. CASE ApiStopCommit
  BY <1>2 DEF ApiStopCommit, TypeOK, Dep
<1>3. CASE ApiStart \/ ApiAlreadyActive \/ ApiPublishStart \/ ApiCommitRunning \/ ApiTimeoutFlip
  BY <1>3 DEF ApiStart, ApiAlreadyActive, ApiPublishStart, ApiCommitRunning, ApiTimeoutFlip
<1>4. CASE ApiAdmit \/ ApiPoll \/ ApiPollTimeout \/ ApiStopPublish \/ ApiStopPoll
           \/ KillAllLatch \/ KillAllPublish \/ KillAllPoll \/ InflightExpires \/ Resume
           \/ \E c \in Stoppers : PublishStop(c)
  BY <1>4 DEF ApiAdmit, ApiPoll, ApiPollTimeout, ApiStopPublish, ApiStopPoll, KillAllLatch,
              KillAllPublish, KillAllPoll, InflightExpires, PublishStop, Resume
<1> QED
  BY <1>1, <1>2, <1>3, <1>4 DEF Api

\* No step of a spawn moves a stopped deployment: Phase A refuses it, later
\* writes are guarded.
LEMMA SpawnStopped == ASSUME TypeOK, dep.status = "stopped", NEW a \in Actors, Spawn(a)
                      PROVE  dep'.status = "stopped"
<1> USE DEF db, procs, mem, bus, reqs, env
<1>1. CASE phase_a_reserve_slot(a)
  BY <1>1 DEF phase_a_reserve_slot, PhaseAOutcome
<1>2. CASE mark_failed(a)
  BY <1>2, SyncedStopped DEF mark_failed
<1>3. CASE terminalize_reserved_row(a)
  BY <1>3, TerminalizedStopped DEF terminalize_reserved_row
<1>4. CASE \/ HaltCheck(a, "haltCheck", "payload") \/ PayloadFactory(a)
           \/ HaltCheck(a, "recheck", "gate") \/ StopIntentGate(a)
           \/ StartProcess(a) \/ PhaseC(a)
  BY <1>4 DEF HaltCheck, PayloadFactory, StopIntentGate, StartProcess, PhaseC
<1> QED
  BY <1>1, <1>2, <1>3, <1>4 DEF Spawn

\* No restart, re-fail or give-up moves a stopped deployment.
LEMMA AutoRestartStopped == ASSUME TypeOK, dep.status = "stopped", NEW a \in Actors, AutoRestart(a)
                            PROVE  dep'.status = "stopped"
<1> USE DEF db, procs, mem, bus, reqs, env
<1>1. CASE refail_stranded_restart(a)
  BY <1>1, SyncedStopped DEF refail_stranded_restart
<1>2. CASE clear_sentinel_and_refail_after_giveup(a)
  BY <1>2, SyncedStopped DEF clear_sentinel_and_refail_after_giveup
<1>3. CASE load_restart_context(a) \/ RestartGates(a) \/ Backoff(a)
  BY <1>3 DEF load_restart_context, RestartGates, Backoff
<1> QED
  BY <1>1, <1>2, <1>3 DEF AutoRestart

\* No command and no periodic loop moves a stopped deployment.
LEMMA LoopsStopped == ASSUME TypeOK, dep.status = "stopped", Consumer \/ Loops
                      PROVE  dep'.status = "stopped"
<1> USE DEF db, procs, mem, bus, reqs, env
<1>1. CASE stop
  BY <1>1, SyncedStopped DEF stop, StopWithoutActiveRow
<1>2. CASE StopSignal \/ Ack \/ \E cmd \in Commands : Deliver(cmd) \/ MoveToDlq(cmd)
  BY <1>2 DEF StopSignal, Ack, Deliver, MoveToDlq
<1>3. CASE rescan_for_restart \/ reap_once \/ on_child_exit
  BY <1>3, SyncedStopped DEF rescan_for_restart, reap_once, on_child_exit
<1>4. CASE \/ WatchdogFlip
           \/ \E r \in RowIds : watchdog_once(r) \/ reap_ownerless_active_rows(r) \/ mark_stale_as_failed(r)
  BY <1>4, SyncedStopped DEF WatchdogFlip, watchdog_once, reap_ownerless_active_rows, mark_stale_as_failed
<1> QED
  BY <1>1, <1>2, <1>3, <1>4 DEF Consumer, Loops

\* No write of a subprocess moves a stopped deployment.
LEMMA SubprocessStopped ==
    ASSUME TypeOK, dep.status = "stopped", NEW r \in RowIds, Subprocess(r) \/ HeartbeatStale(r)
    PROVE  dep'.status = "stopped"
<1> USE DEF db, procs, mem, bus, reqs, env
<1>1. CASE self_write_pid(r) \/ mark_ready(r)
  BY <1>1, SyncedStopped DEF self_write_pid, mark_ready, ChildWrite, mark_terminal
<1>2. CASE mark_running(r)
  BY <1>2 DEF mark_running, TypeOK, Dep
<1>3. CASE ChildEnds(r)
  BY <1>3, SyncedStopped DEF ChildEnds, mark_terminal
<1>4. CASE ChildDies(r) \/ ChildExits(r) \/ HeartbeatStale(r)
  BY <1>4 DEF ChildDies, ChildExits, HeartbeatStale
<1> QED
  BY <1>1, <1>2, <1>3, <1>4 DEF Subprocess

\* Nothing in the supervisor's own life moves a stopped deployment.
LEMMA LifeCycleStopped == ASSUME TypeOK, dep.status = "stopped", LifeCycle
                          PROVE  dep'.status = "stopped"
  BY TerminalizedStopped DEF LifeCycle, SupervisorDies, SupervisorCloses, SupervisorBoots,
                             CancelledSpawn, TransactionFails, db

\* Nothing but a start request's own write takes a deployment out of "stopped":
\* no supervisor task, subprocess or stop request does, whatever the bounds.
THEOREM StoppedStays == Spec => StoppedIsTerminal
<1>1. TypeOK /\ [Next]_vars
        => [dep.status = "stopped" /\ dep'.status # "stopped" => api' # api]_vars
  <2> SUFFICES ASSUME TypeOK, Next, dep.status = "stopped", dep'.status # "stopped"
               PROVE  api' # api
    OBVIOUS
  <2> QED
    BY NextGroups, ApiStopped, SpawnStopped, AutoRestartStopped, LoopsStopped,
       SubprocessStopped, LifeCycleStopped
<1> QED
  BY <1>1, TypeCorrect, PTL DEF Spec, StoppedIsTerminal

-----------------------------------------------------------------------------
(***************************************************************************)
(* While no spawn outlasts the heartbeat threshold, a live node has an      *)
(* active row and the supervisor holds its handle, for every number of      *)
(* rows, requests, faults and crashes.                                      *)
(*                                                                         *)
(* Ownership is the inductive invariant. Most steps are calm: they give no  *)
(* row a node, reserve none and take the active status from none that has   *)
(* a node or a reservation. What is left is Phase A's reservation and       *)
(* process.start(), which rest on OneActiveRow.                             *)
(*                                                                         *)
(* On top of it: a /kill-all reaches every node. OneHalt and                *)
(* HaltIsCarriedOut are the inductive invariants, and most steps are        *)
(* orderly: they take no signal and no stop intent back, and let no spawn   *)
(* past its halt checks.                                                    *)
(*                                                                         *)
(* And a /stop reaches every node that does not begin behind an end.        *)
(* OneStop, StopIsKept and StopsAreSignalled are the inductive invariants,  *)
(* over Standing. Most steps are orderly and steady: they keep every row,   *)
(* its flags and its end, and activate none.                                *)
(***************************************************************************)


\* The invariants the steps start from.
Inv == TypeOK /\ OneActiveRow /\ RowsExist /\ Ownership

\* No row appears or disappears; a row that loses its active status or whose
\* heartbeat goes stale has no node and no reservation.
CalmRows ==
    \A r \in RowIds :
        /\ rows'[r].status = "absent" <=> rows[r].status = "absent"
        /\ Active(r) => Active(r)' \/ (child'[r] \notin NodeStates /\ ~Reserved(r)')
        /\ rows'[r].stale => rows[r].stale \/ (child'[r] \notin NodeStates /\ ~Reserved(r)')

\* No process is started, and an exit is final.
CalmChildren ==
    \A r \in RowIds :
        /\ child'[r] \in NodeStates => child[r] \in NodeStates
        /\ child[r] \in Ended => child'[r] \in Ended
        /\ child'[r] = "none" <=> child[r] = "none"

\* A task reserves nothing, and the row it keeps is one it may keep.
CalmTask(a) ==
    /\ task'[a].at \in ReservedSteps => task[a].at \in ReservedSteps /\ task'[a].row = task[a].row
    /\ a # "consumer" /\ task'[a].at \notin InFlightSteps =>
         \/ task'[a].row = 0
         \/ task[a].at \notin InFlightSteps /\ task'[a].row = task[a].row
         \/ Detached(task[a].row)'
    /\ task'[a].owned \in {0, task[a].owned} \/ child[task'[a].owned] \in Ended
CalmTasks == \A a \in Actors : CalmTask(a)

\* The handle of a node is kept, and only an exit is reaped.
CalmMemory ==
    /\ handle' = handle \/ (handle' = 0 /\ \A r \in RowIds : child'[r] \in NodeStates => handle # r)
    /\ reap' \in {0, reap} \/ child[reap'] \in Ended
    /\ n' = n

Calm == CalmRows /\ CalmChildren /\ CalmTasks /\ CalmMemory

\* What the types say of the names used here.
LEMMA StepSets ==
    /\ ReservedSteps \subseteq InFlightSteps
    /\ {"idle", "phaseA", "stopTx", "stopSig", "ctx", "gates", "backoff", "refail", "giveup",
        "ackStart", "ackStop", "flip", "phaseC"} \cap ReservedSteps = {}
    /\ {"idle", "phaseA", "stopTx", "stopSig", "ctx", "gates", "backoff", "refail", "giveup",
        "ackStart", "ackStop", "flip"} \cap InFlightSteps = {}
    /\ "phaseC" \in InFlightSteps
    /\ {"haltCheck", "payload", "recheck", "gate", "start", "failing", "terminalize",
        "cancelled"} \subseteq ReservedSteps
    /\ ActiveStatuses = {"starting", "building", "ready", "running", "stopping"}
    /\ LiveStatuses \subseteq ActiveStatuses
    /\ AliveStates = NodeStates \cup {"exiting0", "exiting1"}
    /\ ChildStates = AliveStates \cup Ended \cup {"none"}
  BY DEF InFlightSteps, ReservedSteps, ActiveStatuses, LiveStatuses, AliveStates, ChildStates,
         NodeStates, Ended

\* A calm step keeps the invariant.
LEMMA CalmKeeps == ASSUME Inv, TypeOK', Calm PROVE Ownership'
<1> USE DEF Inv, Calm, Ownership
<1>1. NodesOwned'
  <2> SUFFICES ASSUME NEW r \in RowIds, child'[r] \in NodeStates PROVE Active(r)' /\ handle' = r
    BY DEF NodesOwned
  <2>1. child[r] \in NodeStates /\ Active(r) /\ handle = r
    BY DEF CalmChildren, NodesOwned
  <2> QED
    BY <2>1 DEF CalmRows, CalmMemory
<1>2. \A r \in RowIds : Reserved(r)' => Reserved(r)
  BY DEF CalmTasks, CalmTask, Reserved
<1>3. SpawnsReserved'
  <2>1. ASSUME NEW a \in Actors, task'[a].at \in ReservedSteps
        PROVE  /\ task'[a].row \in RowIds /\ Active(task[a].row)'
               /\ child'[task'[a].row] = "none" /\ ~rows'[task'[a].row].stale
    <3>1. task[a].at \in ReservedSteps /\ task'[a].row = task[a].row
      BY <2>1 DEF CalmTasks, CalmTask
    <3>2. PICK r \in RowIds : r = task[a].row /\ r = task'[a].row
      BY <3>1 DEF SpawnsReserved
    <3>3. Active(r) /\ child[r] = "none" /\ ~rows[r].stale /\ Reserved(r)'
      BY <2>1, <3>1, <3>2 DEF SpawnsReserved, Reserved
    <3>4. Active(r)' /\ child'[r] = "none" /\ ~rows'[r].stale
      BY <3>3 DEF CalmRows, CalmChildren
    <3> QED
      BY <3>2, <3>4 DEF Active
  <2>2. \A a, b \in Actors : task'[a].at \in ReservedSteps /\ task'[b].at \in ReservedSteps => a = b
    BY DEF CalmTasks, CalmTask, SpawnsReserved
  <2> QED
    BY <2>1, <2>2 DEF SpawnsReserved
<1>4. StaleIsDead'
  BY DEF StaleIsDead, CalmRows, CalmChildren
<1>5. RowsDetached'
  <2> SUFFICES ASSUME NEW a \in Actors \ {"consumer"}, task'[a].at \notin InFlightSteps,
                      task'[a].row # 0
               PROVE  /\ rows'[task'[a].row].status # "absent"
                      /\ child'[task'[a].row] \notin NodeStates /\ ~Reserved(task[a].row)'
    BY DEF RowsDetached, Detached
  <2>1. CASE Detached(task[a].row)'
    BY <2>1 DEF Detached
  <2>2. CASE task[a].at \notin InFlightSteps /\ task'[a].row = task[a].row
    <3>1. PICK r \in RowIds : r = task[a].row /\ r = task'[a].row
      BY <2>2, BoundsAssumption DEF TypeOK, Task, RowIds
    <3>2. rows[r].status # "absent" /\ child[r] \notin NodeStates /\ ~Reserved(r)
      BY <2>2, <3>1 DEF RowsDetached, Detached
    <3>3. rows'[r].status # "absent" /\ child'[r] \notin NodeStates /\ ~Reserved(r)'
      BY <1>2, <3>2 DEF CalmRows, CalmChildren
    <3> QED
      BY <3>1, <3>3 DEF Reserved
  <2> QED
    BY <2>1, <2>2 DEF CalmTasks, CalmTask
<1>6. ExitsSeen'
  <2>1. \A r \in 0 .. MaxRows : r # 0 => r \in RowIds
    BY BoundsAssumption DEF RowIds
  <2>2. handle' # 0 => child'[handle'] # "none"
    BY <2>1 DEF ExitsSeen, CalmMemory, CalmChildren, TypeOK
  <2>3. reap' # 0 => child'[reap'] \in Ended
    BY <2>1 DEF ExitsSeen, CalmMemory, CalmChildren, TypeOK
  <2>4. \A a \in Actors : task'[a].owned # 0 => child'[task'[a].owned] \in Ended
    <3> SUFFICES ASSUME NEW a \in Actors, task'[a].owned # 0
                 PROVE  child'[task'[a].owned] \in Ended
      OBVIOUS
    <3>1. task'[a].owned \in RowIds
      BY <2>1 DEF TypeOK, Task
    <3>2. child[task'[a].owned] \in Ended
      BY DEF CalmTasks, CalmTask, ExitsSeen
    <3> QED
      BY <3>1, <3>2 DEF CalmChildren
  <2> QED
    BY <2>2, <2>3, <2>4 DEF ExitsSeen
<1>7. NumberedRows'
  BY DEF NumberedRows, CalmRows, CalmMemory
<1> QED
  BY <1>1, <1>3, <1>4, <1>5, <1>6, <1>7

\* A step that keeps every row's status and heartbeat is calm about rows.
LEMMA StatusKept ==
    ASSUME \A r \in RowIds : rows'[r].status = rows[r].status /\ rows'[r].stale = rows[r].stale
    PROVE  CalmRows
  BY DEF CalmRows, Active

\* Failing a row that has neither node nor reservation is calm.
LEMMA FailCalm ==
    ASSUME TypeOK, NEW r, NEW k, rows' = Failed(r, k),
           r \in RowIds => /\ rows[r].status # "absent" /\ child'[r] \notin NodeStates
                           /\ ~Reserved(r)'
    PROVE  CalmRows
<1>1. \A q \in RowIds : q # r => rows'[q] = rows[q]
  BY DEF Failed, TypeOK
<1>2. r \in RowIds => rows'[r].status = "failed" /\ rows'[r].stale = FALSE
  BY DEF Failed, TypeOK, Row
<1> QED
  BY <1>1, <1>2 DEF CalmRows, Active

\* What is left alone is calm.
LEMMA SameCalm ==
    /\ rows' = rows => CalmRows
    /\ child' = child => CalmChildren
    /\ task' = task => CalmTasks
    /\ UNCHANGED <<handle, reap, n>> => CalmMemory
<1>1. rows' = rows => CalmRows
  BY StatusKept
<1>2. child' = child => CalmChildren
  BY DEF CalmChildren
<1>3. task' = task => CalmTasks
  BY DEF CalmTasks, CalmTask
<1>4. UNCHANGED <<handle, reap, n>> => CalmMemory
  BY DEF CalmMemory
<1> QED
  BY <1>1, <1>2, <1>3, <1>4

\* A step that moves one task is calm when that task keeps no reservation it did not
\* have, and no row but one it may keep.
LEMMA OneTask ==
    ASSUME TypeOK, NEW a \in Actors, NEW t, task' = [task EXCEPT ![a] = t],
           t.at \in ReservedSteps => task[a].at \in ReservedSteps /\ t.row = task[a].row,
           a # "consumer" /\ t.at \notin InFlightSteps =>
              \/ t.row = 0
              \/ t.row = task[a].row /\ (task[a].at \notin InFlightSteps \/ Detached(task[a].row)'),
           t.owned \in {0, task[a].owned} \/ child[t.owned] \in Ended
    PROVE  CalmTasks
<1>1. task'[a] = t /\ \A b \in Actors \ {a} : task'[b] = task[b]
  BY DEF TypeOK
<1>2. \A b \in Actors \ {a} : CalmTask(b)
  BY <1>1 DEF CalmTask
<1>3. CalmTask(a)
  BY <1>1 DEF CalmTask
<1> QED
  BY <1>2, <1>3 DEF CalmTasks

\* The moves that tasks make are calm: out of a spawn with no row, on inside it,
\* or with a row that is detached by now.
LEMMA CalmMoves ==
    ASSUME TypeOK, NEW a \in Actors
    PROVE  /\ task' = [task EXCEPT ![a] = Idle] => CalmTasks
           /\ task' = [task EXCEPT ![a] = [Idle EXCEPT !.at = "ackStop"]] => CalmTasks
           /\ \A s : /\ Goto(a, s) /\ (s \in ReservedSteps => task[a].at \in ReservedSteps)
                     /\ (s \notin InFlightSteps => task[a].at \notin InFlightSteps \/ a = "consumer")
                     => CalmTasks
           /\ \A k, ack : Fail(a, k, ack) /\ task[a].at \in ReservedSteps => CalmTasks
           /\ \A ack : /\ AfterSpawn(a, ack)
                       /\ ack \/ task[a].at \notin InFlightSteps \/ Detached(task[a].row)'
                       => CalmTasks
           /\ NextAttempt(a) => CalmTasks
           /\ SpawnRaises(a) => CalmTasks
<1>0. /\ task \in [Actors -> Task] /\ task[a] \in Task
      /\ Idle.at = "idle" /\ Idle.row = 0 /\ Idle.owned = 0
  BY DEF TypeOK, Idle
<1>00. ASSUME NEW s PROVE LET t == [Idle EXCEPT !.at = s] IN t.at = s /\ t.row = 0 /\ t.owned = 0
  BY DEF Idle
<1>000. ASSUME NEW s
        PROVE  LET t == [task[a] EXCEPT !.at = s]
               IN  t.at = s /\ t.row = task[a].row /\ t.owned = task[a].owned
  BY <1>0 DEF Task
<1>1. ASSUME task' = [task EXCEPT ![a] = Idle] PROVE CalmTasks
  BY <1>0, <1>1, StepSets, OneTask
<1>2. ASSUME NEW s \in {"ackStop", "ackStart"},
             task' = [task EXCEPT ![a] = [Idle EXCEPT !.at = s]]
      PROVE  CalmTasks
  <2> DEFINE t == [Idle EXCEPT !.at = s]
  <2>1. t.at = s /\ t.row = 0 /\ t.owned = 0
    BY <1>00
  <2>2. task' = [task EXCEPT ![a] = t]
    BY <1>2
  <2> HIDE DEF t
  <2> QED
    BY <2>1, <2>2, StepSets, OneTask
<1>3. ASSUME NEW s, Goto(a, s), s \in ReservedSteps => task[a].at \in ReservedSteps,
             \/ s \in InFlightSteps \/ task[a].at \notin InFlightSteps \/ a = "consumer"
             \/ Detached(task[a].row)'
      PROVE  CalmTasks
  <2> DEFINE t == [task[a] EXCEPT !.at = s]
  <2>1. task' = [task EXCEPT ![a] = t]
    BY <1>0, <1>3 DEF Goto
  <2>2. t.at = s /\ t.row = task[a].row /\ t.owned = task[a].owned
    BY <1>000
  <2> HIDE DEF t
  <2> QED
    BY <1>3, <2>1, <2>2, OneTask
<1>4. ASSUME NEW k, NEW ack, Fail(a, k, ack), task[a].at \in ReservedSteps PROVE CalmTasks
  <2> DEFINE t == [task[a] EXCEPT !.at = "failing", !.kind = k, !.ack = ack]
  <2>1. task' = [task EXCEPT ![a] = t]
    BY <1>4 DEF Fail
  <2>2. t.at = "failing" /\ t.row = task[a].row /\ t.owned = task[a].owned
    BY <1>0 DEF Task
  <2> HIDE DEF t
  <2> QED
    BY <1>4, <2>1, <2>2, StepSets, OneTask
<1>5. ASSUME NEW ack, AfterSpawn(a, ack),
             ack \/ task[a].at \notin InFlightSteps \/ Detached(task[a].row)'
      PROVE  CalmTasks
  <2>1. CASE task' = [task EXCEPT ![a] = Idle]
    BY <1>1, <2>1
  <2>2. CASE task' = [task EXCEPT ![a] = [Idle EXCEPT !.at = "ackStart"]]
    BY <1>2, <2>2
  <2>3. CASE ~ack /\ task' = [task EXCEPT ![a] = [task[a] EXCEPT !.at = "refail"]]
    <3>1. Goto(a, "refail")
      BY <1>0, <2>3 DEF Goto
    <3> QED
      BY <1>3, <1>5, <2>3, <3>1, StepSets
  <2> QED
    BY <1>5, <2>1, <2>2, <2>3 DEF AfterSpawn
<1>6. ASSUME NextAttempt(a) PROVE CalmTasks
  <2>1. CASE task' = [task EXCEPT ![a] = Idle]
    BY <1>1, <2>1
  <2>2. CASE task' # [task EXCEPT ![a] = Idle]
    <3> DEFINE again == [Idle EXCEPT !.at = "ctx", !.try = task[a].try + 1, !.owned = task[a].owned]
    <3> DEFINE last == [Idle EXCEPT !.at = "giveup", !.owned = task[a].owned]
    <3>1. /\ again.at = "ctx" /\ again.row = 0 /\ again.owned = task[a].owned
          /\ last.at = "giveup" /\ last.row = 0 /\ last.owned = task[a].owned
      BY DEF Idle
    <3>2. task' = [task EXCEPT ![a] = again] \/ task' = [task EXCEPT ![a] = last]
      BY <1>6, <2>2 DEF NextAttempt
    <3> HIDE DEF again, last
    <3> QED
      BY <3>1, <3>2, StepSets, OneTask
  <2> QED
    BY <2>1, <2>2
<1>7. SpawnRaises(a) => CalmTasks
  BY <1>1, <1>6 DEF SpawnRaises
<1> QED
  BY <1>1, <1>2, <1>3, <1>4, <1>5, <1>6, <1>7

\* A spawn that leaves its reserved steps leaves no reservation, and its row has no
\* node.
LEMMA LeaveReserved ==
    ASSUME Inv, NEW a \in Actors, task[a].at \in ReservedSteps,
           NEW t, task' = [task EXCEPT ![a] = t], t.at \notin ReservedSteps
    PROVE  /\ \A r : ~Reserved(r)'
           /\ task[a].row \in RowIds /\ Active(task[a].row) /\ child[task[a].row] = "none"
<1>1. \A b \in Actors : task'[b].at \notin ReservedSteps
  BY DEF Inv, TypeOK, Ownership, SpawnsReserved
<1> QED
  BY <1>1 DEF Reserved, Inv, Ownership, SpawnsReserved

\* A task outside the spawn after AfterSpawn, SpawnRaises or NextAttempt.
LEMMA Leaves ==
    ASSUME TypeOK, NEW a \in Actors,
           (\E ack : AfterSpawn(a, ack)) \/ SpawnRaises(a) \/ NextAttempt(a)
             \/ task' = [task EXCEPT ![a] = Idle]
    PROVE  \E t : task' = [task EXCEPT ![a] = t] /\ t.at \notin ReservedSteps
<1>1. /\ Idle.at \notin ReservedSteps /\ [Idle EXCEPT !.at = "ackStart"].at \notin ReservedSteps
      /\ [task[a] EXCEPT !.at = "refail"].at \notin ReservedSteps
      /\ [Idle EXCEPT !.at = "ctx", !.try = task[a].try + 1, !.owned = task[a].owned].at \notin ReservedSteps
      /\ [Idle EXCEPT !.at = "giveup", !.owned = task[a].owned].at \notin ReservedSteps
  BY StepSets DEF Idle, TypeOK, Task
<1> QED
  BY <1>1 DEF AfterSpawn, SpawnRaises, NextAttempt

\* No API request touches a node, a reservation or an active status.
LEMMA ApiCalm == ASSUME TypeOK, Api PROVE Calm
<1>1. UNCHANGED <<child, task, handle, reap, n>>
  BY DEF Api, db, procs, mem, bus, reqs, env, ApiAdmit, ApiStart, ApiAlreadyActive,
         ApiPublishStart, ApiPoll, ApiCommitRunning, ApiPollTimeout, ApiTimeoutFlip, ApiStop,
         ApiStopPublish, ApiStopPoll, ApiStopCommit, KillAllLatch, KillAllPublish, KillAllPoll,
         PublishStop, InflightExpires, Resume
<1>2. \A r \in RowIds : LET v == [rows[r] EXCEPT !.stop = TRUE]
                        IN  v.status = rows[r].status /\ v.stale = rows[r].stale
  BY DEF TypeOK, Row
<1>3. CASE ApiStop
  <2>1. \A r \in RowIds : rows'[r] = rows[r] \/ rows'[r] = [rows[r] EXCEPT !.stop = TRUE]
    BY <1>3 DEF ApiStop, StopWithoutActiveRow, TypeOK
  <2>2. CalmRows
    BY <1>2, <2>1, StatusKept
  <2> QED
    BY <1>1, <2>2, SameCalm DEF Calm
<1>4. CASE ~ApiStop
  <2>1. rows' = rows
    BY <1>4 DEF Api, db, procs, mem, bus, reqs, env, ApiAdmit, ApiStart, ApiAlreadyActive,
                ApiPublishStart, ApiPoll, ApiCommitRunning, ApiPollTimeout, ApiTimeoutFlip,
                ApiStopPublish, ApiStopPoll, ApiStopCommit, KillAllLatch, KillAllPublish,
                KillAllPoll, PublishStop, InflightExpires, Resume
  <2> QED
    BY <1>1, <2>1, SameCalm DEF Calm
<1> QED
  BY <1>3, <1>4

\* Every step of a spawn but the reservation and process.start() is calm: the row a
\* failing spawn writes is its own, and then it is no longer reserved.
LEMMA SpawnCalm ==
    ASSUME Inv, NEW a \in Actors, Spawn(a), ~phase_a_reserve_slot(a), child' = child PROVE Calm
<1> USE DEF db, procs, mem, bus, reqs, env
<1>0. UNCHANGED <<reap, n>> /\ CalmChildren /\ TypeOK
  BY SameCalm DEF Spawn, HaltCheck, PayloadFactory, StopIntentGate, StartProcess, PhaseC,
                  mark_failed, terminalize_reserved_row, Inv
<1>1. ASSUME NEW here \in ReservedSteps, NEW next \in ReservedSteps, HaltCheck(a, here, next)
      PROVE  Calm
  <2>1. rows' = rows /\ handle' = handle
    BY <1>1 DEF HaltCheck
  <2>2. CalmTasks
    BY <1>0, <1>1, CalmMoves, StepSets DEF HaltCheck
  <2> QED
    BY <1>0, <2>1, <2>2, SameCalm DEF Calm
<1>2. CASE PayloadFactory(a)
  <2>1. rows' = rows /\ handle' = handle
    BY <1>2 DEF PayloadFactory
  <2>2. CalmTasks
    BY <1>0, <1>2, CalmMoves, StepSets DEF PayloadFactory
  <2> QED
    BY <1>0, <2>1, <2>2, SameCalm DEF Calm
<1>3. CASE StopIntentGate(a)
  <2>1. rows' = rows /\ handle' = handle
    BY <1>3 DEF StopIntentGate
  <2>2. CalmTasks
    BY <1>0, <1>3, CalmMoves, StepSets DEF StopIntentGate
  <2> QED
    BY <1>0, <2>1, <2>2, SameCalm DEF Calm
<1>4. CASE StartProcess(a)
  <2>1. task[a].row \in RowIds /\ child[task[a].row] = "none"
    BY <1>4, StepSets DEF StartProcess, Inv, Ownership, SpawnsReserved
  <2>2. child' # [child EXCEPT ![task[a].row] = "booting"]
    BY <1>0, <2>1 DEF TypeOK
  <2>3. rows' = rows /\ handle' = handle /\ CalmTasks
    BY <1>0, <1>4, <2>2, CalmMoves, StepSets DEF StartProcess
  <2> QED
    BY <1>0, <2>3, SameCalm DEF Calm
<1>5. CASE PhaseC(a)
  <2>1. \A r \in RowIds : LET v == [rows EXCEPT ![task[a].row].pid = TRUE][r]
                          IN  v.status = rows[r].status /\ v.stale = rows[r].stale
    BY <1>0 DEF TypeOK, Row
  <2>2. CalmRows
    BY <1>5, <2>1, StatusKept DEF PhaseC
  <2>3. handle' = handle /\ CalmTasks
    BY <1>0, <1>5, CalmMoves DEF PhaseC
  <2> QED
    BY <1>0, <2>2, <2>3, SameCalm DEF Calm
<1>6. CASE mark_failed(a)
  <2>1. task[a].at \in ReservedSteps /\ handle' = handle
    BY <1>6, StepSets DEF mark_failed
  <2>2. PICK t : task' = [task EXCEPT ![a] = t] /\ t.at \notin ReservedSteps
    BY <1>0, <1>6, Leaves DEF mark_failed
  <2>3. /\ \A r : ~Reserved(r)'
        /\ task[a].row \in RowIds /\ Active(task[a].row) /\ child[task[a].row] = "none"
    BY <2>1, <2>2, LeaveReserved
  <2>4. rows[task[a].row].status # "absent" /\ child'[task[a].row] \notin NodeStates
    BY <2>3, StepSets DEF Active, NodeStates
  <2>5. CalmRows
    BY <1>0, <1>6, <2>3, <2>4, FailCalm, SameCalm DEF mark_failed
  <2>6. CASE task'[a].row = task[a].row
    <3>1. rows'[task[a].row].status # "absent"
      BY <2>3, <2>4, <2>5 DEF CalmRows
    <3>2. Detached(task[a].row)'
      BY <2>3, <2>4, <2>6, <3>1 DEF Detached
    <3>3. CalmTasks
      BY <1>0, <1>6, <3>2, CalmMoves DEF mark_failed
    <3> QED
      BY <1>0, <2>1, <2>5, <3>3, SameCalm DEF Calm
  <2>7. CASE task'[a].row # task[a].row
    <3>1. \/ \E ack \in {TRUE} : AfterSpawn(a, ack)
          \/ SpawnRaises(a)
          \/ task' = [task EXCEPT ![a] = Idle]
      <4>1. \A s : [task EXCEPT ![a] = [@ EXCEPT !.at = s]][a].row = task[a].row
        BY <1>0 DEF TypeOK, Task
      <4>2. AfterSpawn(a, task[a].ack) \/ SpawnRaises(a)
        BY <1>6 DEF mark_failed
      <4>3. task[a].ack \in BOOLEAN
        BY <1>0 DEF TypeOK, Task
      <4> QED
        BY <2>7, <4>1, <4>2, <4>3 DEF AfterSpawn
    <3>2. CalmTasks
      BY <1>0, <3>1, CalmMoves
    <3> QED
      BY <1>0, <2>1, <2>5, <3>2, SameCalm DEF Calm
  <2> QED
    BY <2>6, <2>7
<1>7. CASE terminalize_reserved_row(a)
  <2>1. task[a].at \in ReservedSteps /\ handle' = handle
    BY <1>7, StepSets DEF terminalize_reserved_row
  <2>2. PICK t : task' = [task EXCEPT ![a] = t] /\ t.at \notin ReservedSteps
    BY <1>0, <1>7, Leaves DEF terminalize_reserved_row
  <2>3. /\ \A r : ~Reserved(r)'
        /\ task[a].row \in RowIds /\ Active(task[a].row) /\ child[task[a].row] = "none"
    BY <2>1, <2>2, LeaveReserved
  <2>4. rows[task[a].row].status # "absent" /\ child'[task[a].row] \notin NodeStates
    BY <2>3, StepSets DEF Active, NodeStates
  <2>5. CalmRows
    BY <1>0, <1>7, <2>3, <2>4, FailCalm, SameCalm DEF terminalize_reserved_row, Terminalized
  <2>6. CalmTasks
    BY <1>0, <1>7, CalmMoves DEF terminalize_reserved_row
  <2> QED
    BY <1>0, <2>1, <2>5, <2>6, SameCalm DEF Calm
<1> QED
  BY <1>1, <1>2, <1>3, <1>4, <1>5, <1>6, <1>7, StepSets DEF Spawn

\* The reservation: no row is active, so no spawn has reserved one and no node
\* runs, and the new row is one that nobody knows.
LEMMA ReserveOwns ==
    ASSUME Inv, TypeOK', NEW a \in Actors, phase_a_reserve_slot(a) PROVE Ownership'
<1>0. TypeOK /\ UNCHANGED <<child, handle, reap>>
  BY DEF phase_a_reserve_slot, procs, Inv
<1>1. CASE \E ack : AfterSpawn(a, ack) /\ UNCHANGED db
  <2>1. rows' = rows /\ n' = n /\ task[a].at \notin InFlightSteps
    BY <1>1, StepSets DEF phase_a_reserve_slot, db
  <2>2. CalmTasks
    BY <1>0, <1>1, <2>1, CalmMoves
  <2> QED
    BY <1>0, <2>1, <2>2, SameCalm, CalmKeeps DEF Calm
<1>2. CASE /\ ActiveRows = {} /\ n < MaxRows /\ n' = n + 1
           /\ \E within : rows' = [rows EXCEPT ![n + 1] = NewRow(a, within)]
           /\ task' = [task EXCEPT ![a] = [@ EXCEPT !.at = "haltCheck", !.row = n + 1]]
  <2> DEFINE new == n + 1
  <2>1. new \in RowIds /\ rows[new].status = "absent" /\ child[new] = "none"
    <3>1. new \in RowIds /\ new > n
      BY <1>0, <1>2, BoundsAssumption DEF TypeOK, RowIds
    <3> QED
      BY <3>1 DEF Inv, Ownership, NumberedRows, RowsExist
  <2>2. PICK v : /\ rows' = [rows EXCEPT ![new] = v]
                 /\ v.status = "starting" /\ v.stale = FALSE
    <3>1. \A within : NewRow(a, within).status = "starting" /\ NewRow(a, within).stale = FALSE
      BY DEF NewRow, NoRow
    <3> QED
      BY <1>2, <3>1
  <2>3. \A r \in RowIds : rows'[r] = IF r = new THEN v ELSE rows[r]
    BY <1>0, <2>1, <2>2 DEF TypeOK
  <2>4. /\ \A b \in Actors \ {a} : task'[b] = task[b]
        /\ task'[a].at = "haltCheck" /\ task'[a].row = new /\ task'[a].owned = task[a].owned
    BY <1>0, <1>2 DEF TypeOK, Task
  <2> HIDE DEF new
  <2>5. \A r \in RowIds : ~Active(r) /\ child[r] \notin NodeStates
    BY <1>2 DEF ActiveRows, Inv, Ownership, NodesOwned
  <2>6. \A b \in Actors : task[b].at \notin ReservedSteps
    BY <2>5 DEF Inv, Ownership, SpawnsReserved
  <2>7. rows'[new].status \in ActiveStatuses
    BY <2>1, <2>2, <2>3, StepSets
  <2>8. NodesOwned' /\ StaleIsDead'
    BY <1>0, <2>5 DEF NodesOwned, StaleIsDead
  <2>9. SpawnsReserved'
    <3>1. \A b \in Actors : task'[b].at \in ReservedSteps => b = a
      BY <2>4, <2>6
    <3>2. rows'[task'[a].row].status \in ActiveStatuses
      BY <2>4, <2>7
    <3>3. child'[task'[a].row] = "none" /\ ~rows'[task'[a].row].stale /\ task'[a].row \in RowIds
      BY <1>0, <2>1, <2>2, <2>3, <2>4
    <3> QED
      BY <3>1, <3>2, <3>3 DEF SpawnsReserved, Active
  <2>10. RowsDetached'
    <3> SUFFICES ASSUME NEW b \in Actors \ {"consumer"}, task'[b].at \notin InFlightSteps,
                        task'[b].row # 0
                 PROVE  /\ rows'[task'[b].row].status # "absent"
                        /\ child'[task'[b].row] \notin NodeStates /\ ~Reserved(task[b].row)'
      BY DEF RowsDetached, Detached
    <3>1. b # a /\ task'[b] = task[b]
      BY <2>4, StepSets
    <3>2. PICK r \in RowIds : r = task[b].row /\ r = task'[b].row
      BY <1>0, <3>1, BoundsAssumption, SMTT(30) DEF TypeOK, Task, RowIds
    <3>3. rows[r].status # "absent"
      BY <3>1, <3>2 DEF Inv, Ownership, RowsDetached, Detached
    <3>4. r # new
      BY <2>1, <3>3
    <3>5. \A c \in Actors : ~(task'[c].at \in ReservedSteps /\ task'[c].row = r)
      BY <2>4, <2>6, <3>4
    <3> QED
      BY <1>0, <2>3, <2>5, <3>2, <3>3, <3>4, <3>5 DEF Reserved
  <2>11. ExitsSeen'
    BY <1>0, <2>4 DEF Inv, Ownership, ExitsSeen
  <2>12. NumberedRows'
    <3>1. n \in Int /\ n' = new /\ new = n + 1 /\ RowIds \subseteq Int
      BY <1>0, <1>2, BoundsAssumption DEF TypeOK, RowIds, new
    <3> QED
      BY <2>3, <3>1 DEF Inv, Ownership, NumberedRows
  <2> QED
    BY <2>8, <2>9, <2>10, <2>11, <2>12 DEF Ownership
<1> QED
  <2>1. PICK gwBusy \in BOOLEAN :
          IF PhaseAOutcome(a, gwBusy) = "RESERVED"
          THEN /\ n < MaxRows
               /\ \E within \in BOOLEAN : rows' = [rows EXCEPT ![n + 1] = NewRow(a, within)]
               /\ n' = n + 1
               /\ task' = [task EXCEPT ![a] = [@ EXCEPT !.at = "haltCheck", !.row = n + 1]]
          ELSE \E ack : AfterSpawn(a, ack) /\ UNCHANGED db
    BY DEF phase_a_reserve_slot
  <2>2. PhaseAOutcome(a, gwBusy) = "RESERVED" => ActiveRows = {}
    BY DEF PhaseAOutcome
  <2> QED
    BY <1>1, <1>2, <2>1, <2>2

\* process.start(): the reserved row is the only active one, so no other node runs,
\* and the handle of this one is installed in the same stretch.
LEMMA StartOwns ==
    ASSUME Inv, TypeOK', NEW a \in Actors, StartProcess(a), child' # child PROVE Ownership'
<1>0. TypeOK /\ UNCHANGED <<rows, reap, n>> /\ task[a].at \in ReservedSteps
  BY StepSets DEF StartProcess, Inv, db
<1>1. PICK r \in RowIds : /\ r = task[a].row /\ Active(r) /\ child[r] = "none" /\ ~rows[r].stale
  BY <1>0 DEF Inv, Ownership, SpawnsReserved
<1>2. /\ child' = [child EXCEPT ![r] = "booting"] /\ handle' = r /\ Goto(a, "phaseC")
  BY <1>1 DEF StartProcess
<1>3. /\ \A b \in Actors \ {a} : task'[b] = task[b]
      /\ task'[a].at = "phaseC" /\ task'[a].owned = task[a].owned
  BY <1>0, <1>2 DEF TypeOK, Task, Goto
<1>4. \A q \in RowIds : child'[q] = IF q = r THEN "booting" ELSE child[q]
  BY <1>0, <1>2 DEF TypeOK
<1>5. \A b \in Actors : task'[b].at \notin ReservedSteps
  BY <1>0, <1>3, StepSets DEF Inv, Ownership, SpawnsReserved
<1>6. NodesOwned'
  <2>1. \A q \in RowIds : child[q] \in NodeStates => q = r
    BY <1>1 DEF Inv, Ownership, NodesOwned, OneActiveRow
  <2>2. child[r] \notin NodeStates /\ Active(r)'
    BY <1>0, <1>1 DEF NodeStates, Active
  <2> QED
    BY <1>2, <1>4, <2>1, <2>2 DEF NodesOwned
<1>7. SpawnsReserved'
  BY <1>5 DEF SpawnsReserved
<1>8. StaleIsDead'
  BY <1>0, <1>1, <1>4 DEF Inv, Ownership, StaleIsDead
<1>9. RowsDetached'
  <2> SUFFICES ASSUME NEW b \in Actors \ {"consumer"}, task'[b].at \notin InFlightSteps,
                      task'[b].row # 0
               PROVE  /\ rows'[task'[b].row].status # "absent"
                      /\ child'[task'[b].row] \notin NodeStates /\ ~Reserved(task[b].row)'
    BY DEF RowsDetached, Detached
  <2>1. b # a /\ task'[b] = task[b]
    BY <1>3, StepSets
  <2>2. PICK q \in RowIds : q = task[b].row /\ q = task'[b].row
    BY <1>0, <2>1, BoundsAssumption, SMTT(30) DEF TypeOK, Task, RowIds
  <2>3. rows[q].status # "absent" /\ child[q] \notin NodeStates /\ ~Reserved(q)
    BY <2>1, <2>2 DEF Inv, Ownership, RowsDetached, Detached
  <2>4. q # r
    BY <1>0, <1>1, <2>3 DEF Reserved
  <2> QED
    BY <1>0, <1>4, <1>5, <2>2, <2>3, <2>4 DEF Reserved
<1>10. ExitsSeen'
  <2>1. \A q \in RowIds : child[q] \in Ended => child'[q] \in Ended
    BY <1>1, <1>4 DEF Ended
  <2>2. reap \in RowIds \/ reap = 0
    BY <1>0, BoundsAssumption DEF TypeOK, RowIds
  <2>3. \A b \in Actors : task'[b].owned = task[b].owned /\ (task[b].owned = 0 \/ task[b].owned \in RowIds)
    <3>1. \A b \in Actors : task[b].owned \in 0 .. MaxRows
      BY <1>0 DEF TypeOK, Task
    <3> QED
      BY <1>3, <3>1, BoundsAssumption DEF RowIds
  <2> QED
    BY <1>0, <1>2, <1>4, <2>1, <2>2, <2>3 DEF Inv, Ownership, ExitsSeen
<1>11. NumberedRows'
  BY <1>0 DEF Inv, Ownership, NumberedRows
<1> QED
  BY <1>6, <1>7, <1>8, <1>9, <1>10, <1>11 DEF Ownership

\* The restart task and the re-scan fail only rows that are detached or whose
\* process has exited.
LEMMA AutoRestartCalm ==
    ASSUME Inv, NEW a \in {"restart", "rescan"}, AutoRestart(a) PROVE Calm
<1> USE DEF db, procs, mem, bus, reqs, env
<1> a \in Actors /\ a # "consumer"
  BY DEF Actors, Spawners
<1>0. TypeOK /\ UNCHANGED <<child, handle, reap, n>> /\ CalmChildren /\ CalmMemory
  BY SameCalm DEF AutoRestart, load_restart_context, RestartGates, Backoff, Inv,
         refail_stranded_restart, clear_sentinel_and_refail_after_giveup
<1>1. CASE load_restart_context(a)
  <2>1. CASE NextAttempt(a)
    BY <1>0, <1>1, <2>1, CalmMoves, SameCalm DEF load_restart_context, Calm
  <2>2. CASE task' = [task EXCEPT ![a] = Idle]
    BY <1>0, <1>1, <2>2, CalmMoves, SameCalm DEF load_restart_context, Calm
  <2>3. CASE task' = [task EXCEPT ![a] = [@ EXCEPT !.at = "gates", !.fails = rows[n].fails,
                                                  !.paused = rows[n].paused]]
    <3> DEFINE t == [task[a] EXCEPT !.at = "gates", !.fails = rows[n].fails, !.paused = rows[n].paused]
    <3>1. t.at = "gates" /\ t.row = task[a].row /\ t.owned = task[a].owned
      BY <1>0 DEF TypeOK, Task
    <3>2. task' = [task EXCEPT ![a] = t] /\ task[a].at \notin InFlightSteps
      BY <1>1, <2>3, StepSets DEF load_restart_context
    <3> HIDE DEF t
    <3>3. CalmTasks
      BY <1>0, <3>1, <3>2, StepSets, OneTask
    <3> QED
      BY <1>0, <1>1, <3>3, SameCalm DEF load_restart_context, Calm
  <2> QED
    BY <1>1, <2>1, <2>2, <2>3 DEF load_restart_context
<1>2. CASE RestartGates(a) \/ Backoff(a)
  <2>1. rows' = rows /\ task[a].at \notin InFlightSteps
    BY <1>2, StepSets DEF RestartGates, Backoff
  <2>2. \/ task' = [task EXCEPT ![a] = Idle]
        \/ \E s \in {"phaseA", "backoff"} : Goto(a, s)
    BY <1>2 DEF RestartGates, Backoff, Goto
  <2>3. CalmTasks
    BY <1>0, <2>1, <2>2, CalmMoves, StepSets
  <2> QED
    BY <1>0, <2>1, <2>3, SameCalm DEF Calm
<1>3. CASE refail_stranded_restart(a)
  <2>1. CalmTasks
    BY <1>0, <1>3, CalmMoves DEF refail_stranded_restart
  <2>2. CASE rows' = rows
    BY <1>0, <2>1, <2>2, SameCalm DEF Calm
  <2>3. CASE rows' # rows
    <3>1. PICK r \in RowIds : r = task[a].row
      BY <1>0, <1>3, <2>3, BoundsAssumption DEF refail_stranded_restart, TypeOK, Task, RowIds
    <3>2. /\ task[a].at = "refail" /\ rows' = Failed(r, "transient")
          /\ rows[r].status \in LiveStatuses
      BY <1>3, <2>3, <3>1 DEF refail_stranded_restart
    <3>3. Detached(r)
      BY <3>1, <3>2, StepSets DEF Inv, Ownership, RowsDetached
    <3>4. r # 0 /\ \A q \in RowIds : Reserved(q)' => Reserved(q)
      BY <2>1 DEF RowIds, Reserved, CalmTasks, CalmTask
    <3>5. rows[r].status # "absent"
      BY <3>2, StepSets
    <3>6. CalmRows
      BY <1>0, <3>2, <3>3, <3>4, <3>5, FailCalm DEF Detached
    <3> QED
      BY <1>0, <2>1, <3>6 DEF Calm
  <2> QED
    BY <2>2, <2>3
<1>4. CASE clear_sentinel_and_refail_after_giveup(a)
  <2>1. CalmTasks
    BY <1>0, <1>4, CalmMoves DEF clear_sentinel_and_refail_after_giveup
  <2>2. rows' = [rows EXCEPT ![task[a].owned] = GivenUp(task[a].owned)]
    BY <1>4 DEF clear_sentinel_and_refail_after_giveup
  <2>3. CASE task[a].owned \notin RowIds
    <3>1. rows' = rows
      BY <1>0, <2>2, <2>3 DEF TypeOK
    <3> QED
      BY <1>0, <2>1, <3>1, SameCalm DEF Calm
  <2>4. ASSUME NEW r \in RowIds, r = task[a].owned PROVE Calm
    <3>1. \A q \in RowIds : rows'[q] = IF q = r THEN GivenUp(r) ELSE rows[q]
      BY <1>0, <2>2, <2>4 DEF TypeOK
    <3>2. /\ GivenUp(r).status = rows[r].status \/ (GivenUp(r).status = "failed" /\ Active(r))
          /\ GivenUp(r).stale = rows[r].stale
      BY <1>0, StepSets DEF GivenUp, TypeOK, Row, Active
    <3>3. child[r] \in Ended
      BY <2>4 DEF Inv, Ownership, ExitsSeen, RowIds
    <3>4. ~Reserved(r)
      BY <3>3 DEF Reserved, Ended, Inv, Ownership, SpawnsReserved
    <3>5. child'[r] \notin NodeStates /\ ~Reserved(r)'
      BY <1>0, <2>1, <3>3, <3>4 DEF Reserved, CalmTasks, CalmTask, Ended, NodeStates
    <3>6. CalmRows
      BY <3>1, <3>2, <3>5, StepSets DEF CalmRows, Active
    <3> QED
      BY <1>0, <2>1, <3>6 DEF Calm
  <2> QED
    BY <2>3, <2>4
<1> QED
  BY <1>1, <1>2, <1>3, <1>4 DEF AutoRestart

\* No command of the stream touches a node or a reservation: FleetRouter.stop moves
\* an active row to stopping, which is active.
LEMMA ConsumerCalm == ASSUME Inv, Consumer PROVE Calm
<1> USE DEF db, procs, mem, bus, reqs, env
<1>0. /\ TypeOK /\ UNCHANGED <<child, handle, reap, n>> /\ CalmChildren /\ CalmMemory
      /\ "consumer" \in Actors
  BY SameCalm DEF Consumer, Deliver, MoveToDlq, stop, StopSignal, Ack, Inv, Actors, Spawners
<1>1. CASE \E cmd \in Commands : Deliver(cmd)
  <2>1. rows' = rows /\ CalmTasks
    BY <1>0, <1>1, CalmMoves, StepSets DEF Deliver
  <2> QED
    BY <1>0, <2>1, SameCalm DEF Calm
<1>2. CASE \E cmd \in Commands : MoveToDlq(cmd)
  BY <1>0, <1>2, SameCalm DEF MoveToDlq, Calm
<1>3. CASE StopSignal \/ Ack
  <2>1. rows' = rows /\ CalmTasks
    BY <1>0, <1>3, CalmMoves DEF StopSignal, Ack
  <2> QED
    BY <1>0, <2>1, SameCalm DEF Calm
<1>4. CASE stop
  <2>1. CASE ActiveRows = {}
    <3>1. \A r \in RowIds : LET v == [rows[r] EXCEPT !.stop = TRUE]
                            IN  v.status = rows[r].status /\ v.stale = rows[r].stale
      BY <1>0 DEF TypeOK, Row
    <3>2. \A r \in RowIds : rows'[r] = rows[r] \/ rows'[r] = [rows[r] EXCEPT !.stop = TRUE]
      BY <1>0, <1>4, <2>1 DEF stop, StopWithoutActiveRow, TypeOK
    <3>3. CalmRows
      BY <3>1, <3>2, StatusKept
    <3>4. CalmTasks
      BY <1>0, <1>4, <2>1, CalmMoves, StepSets DEF stop
    <3> QED
      BY <1>0, <3>3, <3>4 DEF Calm
  <2>2. CASE ActiveRows # {}
    <3>1. PICK r \in RowIds :
            /\ Active(r)
            /\ \/ /\ rows' = [rows EXCEPT ![r] = [@ EXCEPT !.status = "stopping", !.stop = TRUE]]
                  /\ task' = [task EXCEPT !["consumer"] =
                       [@ EXCEPT !.at = "stopSig", !.row = IF rows[r].pid THEN r ELSE 0]]
               \/ rows' = rows /\ Goto("consumer", "idle")
      BY <1>4, <2>2 DEF stop, ActiveRows
    <3>2. CASE rows' = rows /\ Goto("consumer", "idle")
      BY <1>0, <3>2, SameCalm, CalmMoves, StepSets DEF Calm
    <3>3. CASE /\ rows' = [rows EXCEPT ![r] = [@ EXCEPT !.status = "stopping", !.stop = TRUE]]
               /\ task' = [task EXCEPT !["consumer"] =
                    [@ EXCEPT !.at = "stopSig", !.row = IF rows[r].pid THEN r ELSE 0]]
      <4> DEFINE v == [rows[r] EXCEPT !.status = "stopping", !.stop = TRUE]
      <4>1. v.status = "stopping" /\ v.stale = rows[r].stale
        BY <1>0 DEF TypeOK, Row
      <4>2. \A q \in RowIds : rows'[q] = IF q = r THEN v ELSE rows[q]
        BY <1>0, <3>3 DEF TypeOK
      <4> HIDE DEF v
      <4>3. CalmRows
        BY <3>1, <4>1, <4>2, StepSets DEF CalmRows, Active
      <4> DEFINE t == [task["consumer"] EXCEPT !.at = "stopSig", !.row = IF rows[r].pid THEN r ELSE 0]
      <4>4. t.at = "stopSig" /\ t.owned = task["consumer"].owned
        BY <1>0 DEF TypeOK, Task
      <4>5. task' = [task EXCEPT !["consumer"] = t]
        BY <3>3
      <4> HIDE DEF t
      <4>6. CalmTasks
        BY <1>0, <4>4, <4>5, OneTask, StepSets
      <4> QED
        BY <1>0, <4>3, <4>6 DEF Calm
    <3> QED
      BY <3>1, <3>2, <3>3
  <2> QED
    BY <2>1, <2>2
<1> QED
  BY <1>1, <1>2, <1>3, <1>4 DEF Consumer

\* A row with a stale heartbeat has no node and no reservation.
LEMMA StaleRow ==
    ASSUME Inv, NEW r \in RowIds, rows[r].stale, child' = child, CalmTasks
    PROVE  child'[r] \notin NodeStates /\ ~Reserved(r)'
<1>1. ~Reserved(r)
  BY DEF Inv, Ownership, SpawnsReserved, Reserved
<1> QED
  BY <1>1 DEF Inv, Ownership, StaleIsDead, Reserved, CalmTasks, CalmTask

\* The periodic loops are calm: a stale heartbeat, an exit that was seen and a
\* process that the watchdog has killed belong to rows without a node.
LEMMA LoopsCalm == ASSUME Inv, Loops, SlowBoot = FALSE PROVE Calm
<1> USE DEF db, procs, mem, bus, reqs, env
<1>0. TypeOK /\ {"rescan", "restart", "watchdog"} \subseteq Actors
  BY DEF Inv, Actors, Spawners
<1>1. CASE rescan_for_restart
  <2>1. UNCHANGED <<child, handle, reap, n>> /\ CalmChildren /\ CalmMemory
    BY <1>1, SameCalm DEF rescan_for_restart
  <2>2. CalmTasks
    BY <1>0, <1>1, CalmMoves, SameCalm, StepSets DEF rescan_for_restart
  <2>3. CASE StaleLatest
    <3>1. PICK r \in RowIds : r = n
      BY <1>0, <2>3, BoundsAssumption DEF StaleLatest, TypeOK, RowIds
    <3>2. rows' = Failed(r, "crash") /\ rows[r].stale /\ rows[r].status # "absent"
      BY <1>1, <2>3, <3>1, StepSets DEF rescan_for_restart, StaleLatest
    <3>3. CalmRows
      BY <1>0, <2>1, <2>2, <3>2, StaleRow, FailCalm
    <3> QED
      BY <2>1, <2>2, <3>3 DEF Calm
  <2>4. CASE ~StaleLatest
    BY <1>1, <2>1, <2>2, <2>4, SameCalm DEF rescan_for_restart, Calm
  <2> QED
    BY <2>3, <2>4
<1>2. CASE reap_once
  <2>1. UNCHANGED <<rows, child, task, handle, n>> /\ reap' = handle
    BY <1>2 DEF reap_once
  <2>2. handle \in RowIds
    BY <1>0, <1>2, BoundsAssumption DEF reap_once, TypeOK, RowIds
  <2>3. child[handle] \in Ended
    BY <1>0, <1>2, <2>2, StepSets DEF reap_once, Alive, Inv, Ownership, ExitsSeen, TypeOK
  <2>4. CalmMemory
    BY <2>1, <2>3 DEF CalmMemory
  <2> QED
    BY <2>1, <2>4, SameCalm DEF Calm
<1>3. CASE on_child_exit
  <2>1. PICK r \in RowIds : r = reap /\ child[r] \in Ended
    BY <1>0, <1>3, BoundsAssumption DEF on_child_exit, RowIds, TypeOK, Inv, Ownership, ExitsSeen
  <2>2. UNCHANGED <<child, n>> /\ reap' = 0 /\ handle' = (IF handle = r THEN 0 ELSE handle)
    BY <1>3, <2>1 DEF on_child_exit, Evicted
  <2>3. CalmMemory
    BY <2>1, <2>2 DEF CalmMemory, Ended, NodeStates
  <2>4. CalmTasks
    <3>1. CASE task' = task
      BY <3>1, SameCalm
    <3>2. CASE task' # task
      <4> DEFINE t == [Idle EXCEPT !.at = "ctx", !.try = 1, !.owned = r]
      <4>1. t.at = "ctx" /\ t.row = 0 /\ t.owned = r
        BY DEF Idle
      <4>2. task' = [task EXCEPT !["restart"] = t]
        BY <1>3, <2>1, <3>2 DEF on_child_exit
      <4> HIDE DEF t
      <4> QED
        BY <1>0, <2>1, <4>1, <4>2, OneTask, StepSets
    <3> QED
      BY <3>1, <3>2
  <2>5. /\ Exited(r).status = rows[r].status \/ (Active(r) /\ Exited(r).status \in {"stopped", "failed"})
        /\ Exited(r).stale = rows[r].stale
    <3>1. ASSUME NEW s, NEW k, NEW d
          PROVE  LET v == [rows[r] EXCEPT !.status = s, !.kind = k, !.disp = d]
                 IN  v.status = s /\ v.stale = rows[r].stale
      BY <1>0 DEF TypeOK, Row
    <3>2. /\ Exited(r).status = IF Active(r) THEN ExitStatus(r) ELSE rows[r].status
          /\ Exited(r).stale = rows[r].stale
      BY <3>1 DEF Exited
    <3> QED
      BY <3>2 DEF ExitStatus
  <2>6. \A q \in RowIds : rows'[q] = IF q = r THEN Exited(r) ELSE rows[q]
    BY <1>0, <1>3, <2>1 DEF on_child_exit, TypeOK
  <2>7. child'[r] \notin NodeStates /\ ~Reserved(r)'
    <3>1. ~Reserved(r)
      BY <2>1 DEF Reserved, Ended, Inv, Ownership, SpawnsReserved
    <3> QED
      BY <2>1, <2>2, <2>4, <3>1 DEF Reserved, CalmTasks, CalmTask, Ended, NodeStates
  <2>8. CalmRows
    BY <2>5, <2>6, <2>7, StepSets DEF CalmRows, Active
  <2> QED
    BY <2>2, <2>3, <2>4, <2>8, SameCalm DEF Calm
<1>4. ASSUME NEW r \in RowIds, watchdog_once(r) PROVE Calm
  <2>1. UNCHANGED <<rows, handle, reap, n>>
    BY <1>4 DEF watchdog_once
  <2>2. PICK target : /\ target = IF HandleAlive THEN handle ELSE IF rows[r].pid THEN r ELSE 0
                      /\ child' = [q \in RowIds |-> IF q = target /\ Alive(q) THEN "exited1" ELSE child[q]]
    BY <1>4 DEF watchdog_once
  <2>3. CalmChildren
    BY <2>2, StepSets DEF CalmChildren, Alive, NodeStates, Ended
  <2>4. ~InFlight(r) /\ rows[r].status \in LiveStatuses
    BY <1>4 DEF watchdog_once, Wedged, StartupStatuses, LiveStatuses
  <2>5. child'[r] \notin NodeStates
    <3>1. CASE child[r] \in NodeStates
      <4>1. handle = r /\ Alive(r) /\ r # 0
        BY <3>1, StepSets DEF Inv, Ownership, NodesOwned, Alive, RowIds
      <4> QED
        BY <2>2, <4>1 DEF HandleAlive, NodeStates
    <3>2. CASE child[r] \notin NodeStates
      BY <2>2, <3>2 DEF NodeStates
    <3> QED
      BY <3>1, <3>2
  <2>6. ~Reserved(r)
    BY <2>4, StepSets DEF InFlight, Reserved
  <2> DEFINE t == [task["watchdog"] EXCEPT !.at = "flip", !.row = r]
  <2>7. t.at = "flip" /\ t.row = r /\ t.owned = task["watchdog"].owned
    BY <1>0 DEF TypeOK, Task
  <2>8. task' = [task EXCEPT !["watchdog"] = t]
    BY <1>4 DEF watchdog_once
  <2> HIDE DEF t
  <2>9. task'["watchdog"] = t /\ \A b \in Actors \ {"watchdog"} : task'[b] = task[b]
    BY <1>0, <2>8 DEF TypeOK
  <2>10. ~Reserved(r)'
    BY <2>6, <2>7, <2>9, StepSets DEF Reserved
  <2>11. rows'[r].status # "absent"
    BY <2>1, <2>4, StepSets
  <2>12. Detached(task["watchdog"].row)'
    BY <2>5, <2>7, <2>9, <2>10, <2>11 DEF Detached, Reserved
  <2>13. CalmTasks
    BY <2>7, <2>9, <2>12, StepSets DEF CalmTasks, CalmTask
  <2> QED
    BY <2>1, <2>3, <2>13, SameCalm DEF Calm
<1>5. CASE WatchdogFlip
  <2>1. UNCHANGED <<child, handle, reap, n>> /\ CalmTasks
    BY <1>0, <1>5, CalmMoves DEF WatchdogFlip
  <2>2. Detached(task["watchdog"].row)
    BY <1>0, <1>5, StepSets DEF WatchdogFlip, Inv, Ownership, RowsDetached
  <2>3. rows' = Failed(task["watchdog"].row, "crash")
    BY <1>5 DEF WatchdogFlip
  <2>4. \A q \in RowIds : q # 0 /\ (Reserved(q)' => Reserved(q))
    BY <2>1 DEF RowIds, Reserved, CalmTasks, CalmTask
  <2>5. PICK r : r = task["watchdog"].row
    OBVIOUS
  <2>6. CalmRows
    BY <1>0, <2>1, <2>2, <2>3, <2>4, <2>5, FailCalm DEF Detached
  <2> QED
    BY <2>1, <2>6, SameCalm DEF Calm
<1>6. ASSUME NEW r \in RowIds, reap_ownerless_active_rows(r) \/ mark_stale_as_failed(r) PROVE Calm
  <2>1. UNCHANGED <<child, task, handle, reap, n>> /\ CalmTasks
    BY <1>6, SameCalm DEF reap_ownerless_active_rows, mark_stale_as_failed
  <2>2. rows' = Failed(r, "crash") /\ rows[r].stale /\ rows[r].status # "absent"
    BY <1>6, StepSets DEF reap_ownerless_active_rows, mark_stale_as_failed, Active
  <2>3. CalmRows
    BY <1>0, <2>1, <2>2, StaleRow, FailCalm
  <2> QED
    BY <2>1, <2>3, SameCalm DEF Calm
<1> QED
  BY <1>1, <1>2, <1>3, <1>4, <1>5, <1>6 DEF Loops

\* The subprocess's own writes leave its row active, or take its node with them.
LEMMA SubprocessCalm == ASSUME Inv, NEW r \in RowIds, Subprocess(r) PROVE Calm
<1> USE DEF db, procs, mem, bus, reqs, env
<1>0. /\ TypeOK /\ UNCHANGED <<task, handle, reap, n>> /\ CalmTasks /\ CalmMemory
      /\ ~Reserved(r)' <=> ~Reserved(r)
  BY SameCalm DEF Subprocess, self_write_pid, mark_ready, mark_running, ChildEnds, ChildDies,
                  ChildExits, Inv, Reserved
<1>1. /\ child[r] # "none" /\ rows[r].status # "absent"
      /\ child[r] \in NodeStates => Active(r)
      /\ ~Reserved(r)
  <2>1. child[r] # "none"
    BY DEF Subprocess, self_write_pid, mark_ready, mark_running, ChildEnds, ChildDies, ChildExits,
           Alive, AliveStates
  <2> QED
    BY <2>1 DEF Inv, RowsExist, Ownership, NodesOwned, SpawnsReserved, Reserved
<1>2. ASSUME NEW st \in {"stopped", "failed"}, NEW k, child[r] \in NodeStates, mark_terminal(r, st, k)
      PROVE  Calm
  <2>1. \A q \in RowIds : child'[q] = IF q = r THEN (IF st = "stopped" THEN "exiting0" ELSE "exiting1")
                                     ELSE child[q]
    BY <1>0, <1>2 DEF mark_terminal, TypeOK
  <2>2. CalmChildren
    BY <1>1, <1>2, <2>1 DEF CalmChildren, NodeStates, Ended
  <2> DEFINE v == [rows[r] EXCEPT !.status = st, !.kind = k, !.stale = FALSE]
  <2>3. v.status = st /\ v.stale = FALSE
    BY <1>0 DEF TypeOK, Row
  <2>4. \A q \in RowIds : rows'[q] = IF q = r THEN v ELSE rows[q]
    BY <1>0, <1>2 DEF mark_terminal, TypeOK
  <2> HIDE DEF v
  <2>5. CalmRows
    BY <1>0, <1>1, <2>1, <2>3, <2>4 DEF CalmRows, Active, NodeStates
  <2> QED
    BY <1>0, <2>2, <2>5 DEF Calm
<1>3. ASSUME NEW st \in {"building", "ready"}, child[r] \in NodeStates, ChildWrite(r, st)
      PROVE  Calm
  <2>1. CASE mark_terminal(r, "failed", "neverran")
    BY <1>2, <1>3, <2>1
  <2>2. CASE ActiveRows \ {r} = {}
    <3>1. \A q \in RowIds : child'[q] = IF q = r THEN st ELSE child[q]
      BY <1>0, <1>3, <2>2 DEF ChildWrite, TypeOK
    <3>2. CalmChildren
      BY <1>1, <1>3, <3>1 DEF CalmChildren, NodeStates, Ended
    <3> DEFINE v == [rows[r] EXCEPT !.status = st, !.stale = FALSE, !.pid = TRUE]
    <3>3. v.status = st /\ v.stale = FALSE
      BY <1>0 DEF TypeOK, Row
    <3>4. \A q \in RowIds : rows'[q] = IF q = r THEN v ELSE rows[q]
      BY <1>0, <1>3, <2>2 DEF ChildWrite, TypeOK
    <3> HIDE DEF v
    <3>5. CalmRows
      BY <1>1, <3>3, <3>4, StepSets DEF CalmRows, Active
    <3> QED
      BY <1>0, <3>2, <3>5 DEF Calm
  <2> QED
    BY <1>3, <2>1, <2>2 DEF ChildWrite
<1>4. CASE self_write_pid(r) \/ mark_ready(r)
  BY <1>3, <1>4 DEF self_write_pid, mark_ready, NodeStates
<1>5. CASE mark_running(r)
  <2>1. \A q \in RowIds : child'[q] = IF q = r THEN "running" ELSE child[q]
    BY <1>0, <1>5 DEF mark_running, TypeOK
  <2>2. CalmChildren
    BY <1>5, <2>1 DEF mark_running, CalmChildren, NodeStates, Ended
  <2>3. CASE rows' = rows
    BY <1>0, <2>2, <2>3, SameCalm DEF Calm
  <2>4. CASE rows' # rows
    <3> DEFINE v == [rows[r] EXCEPT !.status = "running", !.stale = FALSE,
                                    !.fails = record_success.fails, !.paused = record_success.paused]
    <3>1. v.status = "running" /\ v.stale = FALSE
      BY <1>0 DEF TypeOK, Row
    <3>2. \A q \in RowIds : rows'[q] = IF q = r THEN v ELSE rows[q]
      BY <1>0, <1>5, <2>4 DEF mark_running, TypeOK
    <3> HIDE DEF v
    <3>3. CalmRows
      BY <1>1, <3>1, <3>2, StepSets DEF CalmRows, Active
    <3> QED
      BY <1>0, <2>2, <3>3 DEF Calm
  <2> QED
    BY <2>3, <2>4
<1>6. CASE ChildEnds(r)
  BY <1>2, <1>6 DEF ChildEnds, NodeStates
<1>7. CASE ChildDies(r) \/ ChildExits(r)
  <2>1. PICK st \in Ended : \A q \in RowIds : child'[q] = IF q = r THEN st ELSE child[q]
    BY <1>0, <1>7 DEF ChildDies, ChildExits, TypeOK, Ended
  <2>2. child[r] \notin Ended /\ rows' = rows
    BY <1>7, StepSets DEF ChildDies, ChildExits, Alive, Ended, NodeStates
  <2>3. CalmChildren
    BY <1>1, <2>1, <2>2 DEF CalmChildren, Ended, NodeStates
  <2> QED
    BY <1>0, <2>2, <2>3, SameCalm DEF Calm
<1> QED
  BY <1>4, <1>5, <1>6, <1>7 DEF Subprocess

\* A heartbeat that nobody refreshes: while a spawn does not outlast the threshold,
\* the row has neither a node nor a spawn in flight.
LEMMA HeartbeatCalm == ASSUME Inv, NEW r \in RowIds, HeartbeatStale(r), SlowBoot = FALSE PROVE Calm
<1>0. TypeOK /\ UNCHANGED <<child, task, handle, reap, n>>
  BY DEF HeartbeatStale, procs, mem, Inv
<1>1. child'[r] \notin NodeStates /\ ~Reserved(r)'
  BY <1>0, StepSets DEF HeartbeatStale, Beating, InFlight, Reserved, NodeStates
<1> DEFINE v == [rows[r] EXCEPT !.stale = TRUE]
<1>2. v.status = rows[r].status
  BY <1>0 DEF TypeOK, Row
<1>3. \A q \in RowIds : rows'[q] = IF q = r THEN v ELSE rows[q]
  BY <1>0 DEF HeartbeatStale, TypeOK
<1> HIDE DEF v
<1>4. CalmRows
  BY <1>1, <1>2, <1>3 DEF CalmRows, Active
<1> QED
  BY <1>0, <1>4, SameCalm DEF Calm

\* The supervisor's death takes every node with it; shutdown, boot and failing calls
\* start nothing.
LEMMA LifeCycleCalm == ASSUME Inv, LifeCycle PROVE Calm
<1> USE DEF db, procs, mem, bus, reqs, env
<1>0. TypeOK /\ Idle.at = "idle" /\ Idle.row = 0 /\ Idle.owned = 0
  BY DEF Inv, Idle
<1>1. CASE SupervisorDies
  <2>1. /\ child' = [r \in RowIds |-> IF Alive(r) THEN "exited1" ELSE child[r]]
        /\ rows' = rows /\ n' = n /\ handle' = 0 /\ reap' = 0 /\ task' = [a \in Actors |-> Idle]
    BY <1>1 DEF SupervisorDies
  <2>2. CalmChildren
    BY <2>1, StepSets DEF CalmChildren, Alive, Ended, NodeStates
  <2>3. CalmTasks
    BY <1>0, <2>1, StepSets DEF CalmTasks, CalmTask
  <2>4. \A r \in RowIds : child'[r] \notin NodeStates
    BY <2>1, StepSets DEF Alive, NodeStates
  <2>5. CalmMemory
    BY <2>1, <2>4 DEF CalmMemory
  <2> QED
    BY <2>1, <2>2, <2>3, <2>5, SameCalm DEF Calm
<1>2. CASE SupervisorCloses
  <2>1. UNCHANGED <<rows, child, handle, reap, n>>
    BY <1>2 DEF SupervisorCloses
  <2>2. \A a \in Actors : LET t == [task[a] EXCEPT !.at = "cancelled"]
                          IN  t.at = "cancelled" /\ t.row = task[a].row /\ t.owned = task[a].owned
    BY <1>0 DEF TypeOK, Task
  <2>3. \A a \in Actors : task'[a] = IF task[a].at \in ReservedSteps
                                     THEN [task[a] EXCEPT !.at = "cancelled"] ELSE Idle
    BY <1>2 DEF SupervisorCloses
  <2>4. CalmTasks
    BY <1>0, <2>2, <2>3, StepSets DEF CalmTasks, CalmTask
  <2> QED
    BY <2>1, <2>4, SameCalm DEF Calm
<1>3. CASE SupervisorBoots
  <2>1. \A r \in RowIds : LET v == [rows[r] EXCEPT !.local = FALSE]
                          IN  v.status = rows[r].status /\ v.stale = rows[r].stale
    BY <1>0 DEF TypeOK, Row
  <2>2. \A r \in RowIds : rows'[r] = rows[r] \/ rows'[r] = [rows[r] EXCEPT !.local = FALSE]
    BY <1>3 DEF SupervisorBoots
  <2>3. CalmRows
    BY <2>1, <2>2, StatusKept
  <2> QED
    BY <1>3, <2>3, SameCalm DEF SupervisorBoots, Calm
<1>4. ASSUME NEW a \in Spawners, CancelledSpawn(a) PROVE Calm
  <2>0. a \in Actors
    BY DEF Actors
  <2>1. UNCHANGED <<child, handle, reap, n>> /\ CalmTasks
    BY <1>0, <1>4, <2>0, CalmMoves DEF CancelledSpawn
  <2>2. task[a].at \in ReservedSteps /\ task' = [task EXCEPT ![a] = Idle] /\ Idle.at \notin ReservedSteps
    BY <1>0, <1>4, StepSets DEF CancelledSpawn
  <2>3. /\ \A r : ~Reserved(r)'
        /\ task[a].row \in RowIds /\ Active(task[a].row) /\ child[task[a].row] = "none"
    BY <2>0, <2>2, LeaveReserved
  <2>4. rows[task[a].row].status # "absent" /\ child'[task[a].row] \notin NodeStates
    BY <2>1, <2>3, StepSets DEF Active, NodeStates
  <2>5. CalmRows
    BY <1>0, <1>4, <2>3, <2>4, FailCalm, SameCalm DEF CancelledSpawn, Terminalized
  <2> QED
    BY <2>1, <2>5, SameCalm DEF Calm
<1>5. ASSUME NEW a \in Actors, TransactionFails(a) PROVE Calm
  <2>1. UNCHANGED <<rows, child, handle, reap, n>> /\ CalmTasks
    BY <1>0, <1>5, CalmMoves DEF TransactionFails
  <2> QED
    BY <2>1, SameCalm DEF Calm
<1> QED
  BY <1>1, <1>2, <1>3, <1>4, <1>5 DEF LifeCycle

\* Ownership is an invariant while no spawn outlasts the heartbeat threshold.
LEMMA OwnershipInvariant == ASSUME SlowBoot = FALSE PROVE Spec => []Ownership
<1>1. Init => Ownership
  <2> SUFFICES ASSUME Init PROVE Ownership
    OBVIOUS
  <2>1. /\ \A r \in RowIds : rows[r].status = "absent" /\ rows[r].stale = FALSE /\ child[r] = "none"
        /\ \A a \in Actors : task[a].at = "idle" /\ task[a].row = 0 /\ task[a].owned = 0
        /\ handle = 0 /\ reap = 0
    BY DEF Init, NoRow, Idle
  <2> QED
    BY <2>1, StepSets DEF Ownership, NodesOwned, SpawnsReserved, StaleIsDead, RowsDetached,
                          Detached, ExitsSeen, NumberedRows, NodeStates
<1>2. TypeOK /\ TypeOK' /\ OneActiveRow /\ RowsExist /\ Ownership /\ [Next]_vars => Ownership'
  <2> SUFFICES ASSUME Inv, TypeOK', [Next]_vars PROVE Ownership'
    BY DEF Inv
  <2>1. CASE UNCHANGED vars
    BY <2>1, SameCalm, CalmKeeps DEF vars, db, procs, mem, Calm
  <2>2. ASSUME NEW a \in Actors, Spawn(a) PROVE Ownership'
    <3>1. CASE phase_a_reserve_slot(a)
      BY <3>1, ReserveOwns
    <3>2. CASE ~phase_a_reserve_slot(a) /\ child' = child
      BY <2>2, <3>2, SpawnCalm, CalmKeeps
    <3>3. CASE ~phase_a_reserve_slot(a) /\ child' # child
      <4>1. StartProcess(a)
        BY <2>2, <3>3 DEF Spawn, HaltCheck, PayloadFactory, StopIntentGate, PhaseC, mark_failed,
                          terminalize_reserved_row, procs
      <4> QED
        BY <3>3, <4>1, StartOwns
    <3> QED
      BY <3>1, <3>2, <3>3
  <2>3. CASE Supervisor
    <3>1. Calm \/ \E a \in Actors : Spawn(a)
      BY <2>3, AutoRestartCalm, ConsumerCalm, LoopsCalm, LifeCycleCalm
         DEF Supervisor, LifeCycle, Actors
    <3> QED
      BY <2>2, <3>1, CalmKeeps
  <2>4. CASE Next /\ ~Supervisor
    <3>1. Calm
      BY <2>4, ApiCalm, SubprocessCalm, HeartbeatCalm, LifeCycleCalm DEF Next, LifeCycle, Inv
    <3> QED
      BY <3>1, CalmKeeps
  <2> QED
    BY <2>1, <2>3, <2>4
<1> QED
  BY <1>1, <1>2, TypeCorrect, RowInvariant, PTL DEF Spec

\* While no spawn outlasts the heartbeat threshold, a live node has an active row and
\* the supervisor holds its handle: whatever fails a row, from the watchdog to the
\* restart's give-up, in whatever order, it is never the row of a live node.
THEOREM LiveNodesAreOwned == ASSUME SlowBoot = FALSE PROVE Spec => []NodeIsOwned
<1>1. Ownership => NodeIsOwned
  BY DEF Ownership, NodesOwned, NodeIsOwned, Beating, NodeStates
<1> QED
  BY <1>1, OwnershipInvariant, PTL

-----------------------------------------------------------------------------
\* Nothing fails; and the setting of the halt's theorem, one /kill-all and no /stop.
Uninterrupted == SlowBoot = FALSE /\ MaxFaults = 0 /\ MaxCrashes = 0
Undisturbed   == Uninterrupted /\ MaxHalts \in {0, 1} /\ MaxStops = 0

\* The invariants the steps start from.
HaltInv == Inv /\ OneHalt /\ HaltIsCarriedOut

\* A row that exists keeps its stop intent and its host, and starts no stopping.
OrderlyRows ==
    \A r \in RowIds :
        /\ rows'[r].local
        /\ rows'[r].status = "stopping" => rows[r].status = "stopping"
        /\ rows[r].status # "absent" => rows'[r].stop = rows[r].stop /\ rows'[r].auto = rows[r].auto

\* A spawn passes its halt checks only without a halt, and no command moves in or
\* out of a STOP's steps.
OrderlyTasks ==
    /\ \A a \in Actors : task'[a].at \in {"gate", "start"} =>
         ~halt \/ (task[a].at \in {"gate", "start"} /\ task'[a].row = task[a].row)
    /\ StopIsDue' <=> StopIsDue
    /\ task'["consumer"].at = "stopSig" <=> task["consumer"].at = "stopSig"
    /\ pel'["STOP"] = 0

\* A node stays under its SIGTERM, and a Phase C that finds a stop intent sends one.
OrderlyNodes ==
    \A r \in RowIds : child'[r] \in NodeStates =>
        /\ child[r] \in NodeStates
        /\ sig[r] => sig'[r]
        /\ \A a \in Actors : task[a].at = "phaseC" /\ task[a].row = r /\ rows[r].stop =>
             sig'[r] \/ (task'[a].at = "phaseC" /\ task'[a].row = r)

OrderlyRequests ==
    /\ UNCHANGED <<stopReq, inflight, halt, sup>> /\ (intent' = "stop" => intent = "stop")
    /\ used'.halts = used.halts /\ used'.stops = used.stops

Orderly == OrderlyRows /\ OrderlyTasks /\ OrderlyNodes /\ OrderlyRequests

\* An orderly step keeps the invariant.
LEMMA OrderlyKeeps ==
    ASSUME HaltInv, Orderly PROVE OneHalt' /\ HaltIsCarriedOut'
<1> USE DEF HaltInv, Orderly
<1>1. OneHalt'
  BY DEF OneHalt, Served, BeforeTheHalt, OrderlyRows, OrderlyTasks, OrderlyRequests
<1>2. ASSUME SpawnsAreStamped, NodesAreSignalled, halt
      PROVE  SpawnsAreStamped' /\ NodesAreSignalled'
  <2>1. ASSUME NEW a \in Actors, task'[a].at \in {"gate", "start"} PROVE rows'[task'[a].row].stop
    <3>1. task[a].at \in {"gate", "start"} /\ task'[a].row = task[a].row
      BY <1>2, <2>1 DEF OrderlyTasks
    <3>2. task[a].row \in RowIds /\ Active(task[a].row)
      BY <3>1, StepSets DEF Inv, Ownership, SpawnsReserved
    <3>3. rows[task[a].row].stop /\ rows[task[a].row].status # "absent"
      BY <1>2, <3>1, <3>2, StepSets DEF SpawnsAreStamped, Active
    <3> QED
      BY <3>1, <3>2, <3>3 DEF OrderlyRows
  <2>2. ASSUME NEW r \in RowIds, child'[r] \in NodeStates
        PROVE  \/ sig'[r] \/ task'["consumer"].at = "stopSig"
               \/ rows'[r].stop /\ \E a \in Actors : task'[a].at = "phaseC" /\ task'[a].row = r
    <3>1. child[r] \in NodeStates /\ rows[r].status # "absent"
      BY <2>2, StepSets DEF OrderlyNodes, Inv, RowsExist, NodeStates
    <3>2. CASE sig[r] \/ task["consumer"].at = "stopSig"
      BY <2>2, <3>2 DEF OrderlyNodes, OrderlyTasks
    <3>3. CASE rows[r].stop /\ \E a \in Actors : task[a].at = "phaseC" /\ task[a].row = r
      BY <2>2, <3>1, <3>3 DEF OrderlyNodes, OrderlyRows
    <3> QED
      BY <1>2, <3>1, <3>2, <3>3 DEF NodesAreSignalled
  <2> QED
    BY <2>1, <2>2 DEF SpawnsAreStamped, NodesAreSignalled
<1>3. HaltIsCarriedOut'
  BY <1>2 DEF HaltIsCarriedOut, OrderlyTasks, OrderlyRequests
<1> QED
  BY <1>1, <1>3

\* What is left alone is orderly.
LEMMA SameOrderly ==
    ASSUME Served
    PROVE  /\ rows' = rows => OrderlyRows
           /\ UNCHANGED <<task, bus>> => OrderlyTasks
           /\ UNCHANGED <<child, sig, task>> => OrderlyNodes
           /\ UNCHANGED <<reqs, env>> => OrderlyRequests
<1>1. rows' = rows => OrderlyRows
  BY DEF Served, OrderlyRows
<1>2. UNCHANGED <<task, bus>> => OrderlyTasks
  BY DEF Served, OrderlyTasks, StopIsDue, bus
<1>3. UNCHANGED <<child, sig, task>> => OrderlyNodes
  BY DEF OrderlyNodes
<1>4. UNCHANGED <<reqs, env>> => OrderlyRequests
  BY DEF OrderlyRequests, reqs, env
<1> QED
  BY <1>1, <1>2, <1>3, <1>4

\* Nothing fails here.
LEMMA NoFault == ASSUME TypeOK, Uninterrupted PROVE ~Fault
  BY DEF TypeOK, Uninterrupted, Used, Fault

\* A step that writes one row is orderly when that row keeps its host and its intent.
LEMMA OneRow ==
    ASSUME TypeOK, Served, NEW r, NEW v, rows' = [rows EXCEPT ![r] = v],
           r \in RowIds => /\ v.local
                           /\ v.status = "stopping" => rows[r].status = "stopping"
                           /\ rows[r].status # "absent" => v.stop = rows[r].stop /\ v.auto = rows[r].auto
    PROVE  OrderlyRows
<1>1. \A q \in RowIds : rows'[q] = IF q = r THEN v ELSE rows[q]
  BY DEF TypeOK
<1> QED
  BY <1>1 DEF OrderlyRows, Served

LEMMA FailOrderly ==
    ASSUME TypeOK, Served, NEW r, NEW k, rows' = Failed(r, k) PROVE OrderlyRows
<1> DEFINE v == [rows[r] EXCEPT !.status = "failed", !.kind = k, !.stale = FALSE]
<1>1. rows' = [rows EXCEPT ![r] = v]
  BY DEF Failed
<1>2. r \in RowIds => v.status = "failed" /\ v.local = rows[r].local /\ v.stop = rows[r].stop /\ v.auto = rows[r].auto
  BY DEF TypeOK, Row
<1>3. r \in RowIds => rows[r].local
  BY DEF Served
<1> HIDE DEF v
<1> QED
  BY <1>1, <1>2, <1>3, OneRow

\* The steps a task must not move into or out of unnoticed.
Watched == {"gate", "start", "stopTx", "stopSig"}
Moved(a) == \E t : task' = [task EXCEPT ![a] = t] /\ t.at \notin Watched

\* A step that moves one task elsewhere is orderly, and so are the nodes when that
\* task was not in Phase C.
LEMMA OneMove ==
    ASSUME TypeOK, Served, NEW a \in Actors, Moved(a),
           task[a].at \notin {"stopTx", "stopSig"},
           stream' = stream, pel'["STOP"] = pel["STOP"]
    PROVE  /\ OrderlyTasks
           /\ UNCHANGED <<child, sig>> /\ task[a].at # "phaseC" => OrderlyNodes
<1>0. PICK t : task' = [task EXCEPT ![a] = t] /\ t.at \notin Watched
  BY DEF Moved
<1>1. /\ task'[a] = t /\ \A b \in Actors \ {a} : task'[b] = task[b]
      /\ "consumer" \in Actors /\ t.at \notin Watched
  BY <1>0 DEF TypeOK, Actors, Spawners
<1>2. OrderlyTasks
  BY <1>1 DEF OrderlyTasks, StopIsDue, Served, Watched
<1>3. UNCHANGED <<child, sig>> /\ task[a].at # "phaseC" => OrderlyNodes
  BY <1>1 DEF OrderlyNodes
<1> QED
  BY <1>2, <1>3

\* The ways out of a spawn, and on inside it.
LEMMA MoveForms ==
    ASSUME TypeOK, NEW a \in Actors
    PROVE  /\ \A ack : AfterSpawn(a, ack) => Moved(a) /\ pel'["STOP"] = pel["STOP"]
           /\ SpawnRaises(a) => Moved(a) /\ pel'["STOP"] = pel["STOP"]
           /\ NextAttempt(a) => Moved(a)
           /\ \A k, ack : Fail(a, k, ack) => Moved(a)
           /\ \A s : s \notin Watched /\ Goto(a, s) => Moved(a)
           /\ task' = [task EXCEPT ![a] = Idle] => Moved(a)
<1>1. /\ Idle.at \notin Watched /\ [Idle EXCEPT !.at = "ackStart"].at \notin Watched
      /\ [task[a] EXCEPT !.at = "refail"].at \notin Watched
      /\ [Idle EXCEPT !.at = "ctx", !.try = task[a].try + 1, !.owned = task[a].owned].at \notin Watched
      /\ [Idle EXCEPT !.at = "giveup", !.owned = task[a].owned].at \notin Watched
  BY DEF Idle, TypeOK, Task, Watched
<1>2. pel \in [Commands -> Nat] /\ [pel EXCEPT !["START"] = @ + 1]["STOP"] = pel["STOP"]
  BY DEF TypeOK, Commands
<1>3. NextAttempt(a) => Moved(a)
  BY <1>1 DEF NextAttempt, Moved
<1>4. ASSUME NEW k, NEW ack, Fail(a, k, ack)
      PROVE  Moved(a)
  <2>1. [task[a] EXCEPT !.at = "failing", !.kind = k, !.ack = ack].at \notin Watched
    BY DEF TypeOK, Task, Watched
  <2> QED
    BY <1>4, <2>1 DEF Fail, Moved
<1>5. ASSUME NEW s, s \notin Watched, Goto(a, s)
      PROVE  Moved(a)
  <2>1. [task[a] EXCEPT !.at = s].at = s
    BY DEF TypeOK, Task
  <2>2. task' = [task EXCEPT ![a] = [task[a] EXCEPT !.at = s]]
    BY <1>5 DEF Goto, TypeOK
  <2> QED
    BY <1>5, <2>1, <2>2 DEF Moved
<1>6. ASSUME NEW ack, AfterSpawn(a, ack)
      PROVE  Moved(a) /\ pel'["STOP"] = pel["STOP"]
  BY <1>1, <1>2, <1>6 DEF AfterSpawn, Moved
<1>7. ASSUME SpawnRaises(a)
      PROVE  Moved(a) /\ pel'["STOP"] = pel["STOP"]
  BY <1>1, <1>2, <1>3, <1>7 DEF SpawnRaises, Moved
<1>8. task' = [task EXCEPT ![a] = Idle] => Moved(a)
  BY <1>1 DEF Moved
<1> QED
  BY <1>3, <1>4, <1>5, <1>6, <1>7, <1>8

\* Outside process.start() a spawn is orderly: under a halt its checks fail it, and a
\* Phase C that finds a stop intent signals the node.
LEMMA SpawnOrderly ==
    ASSUME Inv, Served, Uninterrupted, NEW a \in Actors, Spawn(a), ~StartProcess(a) PROVE Orderly
<1> USE DEF db, procs, mem, bus, reqs, env
<1>0. TypeOK /\ Served /\ ~Fault
  BY NoFault DEF Inv
<1>1. OrderlyRequests
  BY <1>0 DEF Spawn, phase_a_reserve_slot, HaltCheck, PayloadFactory, StopIntentGate, PhaseC,
              mark_failed, terminalize_reserved_row, OrderlyRequests
<1>2. CASE phase_a_reserve_slot(a)
  <2>1. UNCHANGED <<child, sig, stream>> /\ task[a].at = "phaseA"
    BY <1>2 DEF phase_a_reserve_slot
  <2>2. CASE UNCHANGED db /\ \E ack : AfterSpawn(a, ack)
    BY <1>0, <1>1, <2>1, <2>2, MoveForms, OneMove, SameOrderly DEF Orderly
  <2>3. CASE /\ \E within : rows' = [rows EXCEPT ![n + 1] = NewRow(a, within)]
             /\ task' = [task EXCEPT ![a] = [@ EXCEPT !.at = "haltCheck", !.row = n + 1]]
             /\ n < MaxRows /\ pel' = pel
    <3>1. PICK v : rows' = [rows EXCEPT ![n + 1] = v] /\ v.local /\ v.status = "starting"
      <4>1. \A within : NewRow(a, within).local /\ NewRow(a, within).status = "starting"
        BY DEF NewRow, NoRow
      <4> QED
        BY <2>3, <4>1
    <3>2. rows[n + 1].status = "absent" \/ n + 1 \notin RowIds
      <4>1. n + 1 > n
        BY <1>0, BoundsAssumption DEF TypeOK
      <4> QED
        BY <4>1 DEF Inv, Ownership, NumberedRows
    <3>3. OrderlyRows
      BY <1>0, <3>1, <3>2, OneRow
    <3>4. [task[a] EXCEPT !.at = "haltCheck", !.row = n + 1].at \notin Watched
      BY <1>0 DEF TypeOK, Task, Watched
    <3>5. Moved(a)
      BY <2>3, <3>4 DEF Moved
    <3> QED
      BY <1>0, <1>1, <2>1, <2>3, <3>3, <3>5, OneMove DEF Orderly
  <2> QED
    BY <1>2, <2>2, <2>3 DEF phase_a_reserve_slot
<1>3. ASSUME NEW here \in ReservedSteps, NEW next, HaltCheck(a, here, next), next \in {"payload", "gate"}
      PROVE  Orderly
  <2>1. /\ UNCHANGED <<rows, child, sig, stream, pel>> /\ task[a].at = here
        /\ here \notin {"phaseC", "stopTx", "stopSig"}
    BY <1>0, <1>3, StepSets DEF HaltCheck
  <2>2. CASE \E k, ack : Fail(a, k, ack)
    <3>1. Moved(a)
      BY <1>0, <2>2, MoveForms
    <3> QED
      BY <1>0, <1>1, <2>1, <3>1, OneMove, SameOrderly DEF Orderly
  <2>3. CASE ~halt /\ Goto(a, next)
    <3>1. task' = [task EXCEPT ![a] = [task[a] EXCEPT !.at = next]]
      BY <1>0, <2>3 DEF Goto, TypeOK
    <3>2. [task[a] EXCEPT !.at = next].at = next
      BY <1>0 DEF TypeOK, Task
    <3>3. /\ task'[a].at = next /\ \A b \in Actors \ {a} : task'[b] = task[b]
          /\ "consumer" \in Actors
      BY <1>0, <3>1, <3>2 DEF TypeOK, Actors, Spawners
    <3>4. OrderlyTasks
      BY <1>0, <1>3, <2>1, <2>3, <3>3 DEF OrderlyTasks, StopIsDue, Served
    <3>5. OrderlyNodes
      BY <2>1, <3>3 DEF OrderlyNodes
    <3> QED
      BY <1>0, <1>1, <2>1, <3>4, <3>5, SameOrderly DEF Orderly
  <2> QED
    BY <1>0, <1>3, <2>2, <2>3 DEF HaltCheck
<1>4. CASE PayloadFactory(a)
  <2>1. UNCHANGED <<rows, child, sig, stream, pel>> /\ task[a].at = "payload" /\ Goto(a, "recheck")
    BY <1>0, <1>4 DEF PayloadFactory
  <2>2. Moved(a)
    <3>1. "recheck" \notin Watched
      BY DEF Watched
    <3> QED
      BY <1>0, <2>1, <3>1, MoveForms
  <2> QED
    BY <1>0, <1>1, <2>1, <2>2, OneMove, SameOrderly DEF Orderly
<1>5. CASE StopIntentGate(a)
  <2>1. /\ UNCHANGED <<rows, child, sig, stream, pel>> /\ task[a].at = "gate"
        /\ Goto(a, "terminalize") \/ Goto(a, "start")
    BY <1>0, <1>5 DEF StopIntentGate
  <2>2. PICK s \in {"terminalize", "start"} : Goto(a, s)
    BY <2>1
  <2>3. LET t == [task[a] EXCEPT !.at = s] IN t.at = s /\ t.row = task[a].row
    BY <1>0 DEF TypeOK, Task
  <2>4. /\ task'[a].at = s /\ task'[a].row = task[a].row
        /\ \A b \in Actors \ {a} : task'[b] = task[b]
        /\ "consumer" \in Actors
    BY <1>0, <2>2, <2>3 DEF TypeOK, Actors, Spawners, Goto
  <2>5. OrderlyTasks
    BY <1>0, <2>1, <2>4 DEF OrderlyTasks, StopIsDue, Served
  <2>6. OrderlyNodes
    BY <2>1, <2>4 DEF OrderlyNodes
  <2> QED
    BY <1>0, <1>1, <2>1, <2>5, <2>6, SameOrderly DEF Orderly
<1>6. CASE PhaseC(a)
  <2> DEFINE r == task[a].row
  <2>1. /\ UNCHANGED <<child, stream>> /\ task[a].at = "phaseC"
        /\ rows' = [rows EXCEPT ![r].pid = TRUE]
        /\ sig' = [sig EXCEPT ![r] = @ \/ (rows[r].stop /\ Alive(r))]
        /\ AfterSpawn(a, TRUE)
    BY <1>0, <1>6 DEF PhaseC
  <2>2. Moved(a) /\ pel'["STOP"] = pel["STOP"]
    BY <1>0, <2>1, MoveForms
  <2>3. OrderlyTasks
    BY <1>0, <2>1, <2>2, OneMove
  <2>4. OrderlyRows
    <3>1. r \in RowIds => LET v == [rows[r] EXCEPT !.pid = TRUE]
                          IN  v.local = rows[r].local /\ v.status = rows[r].status /\ v.stop = rows[r].stop /\ v.auto = rows[r].auto
      BY <1>0 DEF TypeOK, Row
    <3>2. \A q \in RowIds : q # r => rows'[q] = rows[q]
      BY <1>0, <2>1 DEF TypeOK
    <3>3. r \in RowIds => rows'[r] = [rows[r] EXCEPT !.pid = TRUE]
      BY <1>0, <2>1 DEF TypeOK
    <3>4. \A q \in RowIds : rows'[q].local = rows[q].local /\ rows'[q].status = rows[q].status
                            /\ rows'[q].stop = rows[q].stop /\ rows'[q].auto = rows[q].auto
      BY <3>1, <3>2, <3>3
    <3> QED
      BY <1>0, <3>4 DEF OrderlyRows, Served
  <2>5. OrderlyNodes
    <3> SUFFICES ASSUME NEW q \in RowIds, child[q] \in NodeStates
                 PROVE  /\ sig[q] => sig'[q]
                        /\ \A b \in Actors : task[b].at = "phaseC" /\ task[b].row = q /\ rows[q].stop =>
                             sig'[q] \/ (task'[b].at = "phaseC" /\ task'[b].row = q)
      BY <2>1 DEF OrderlyNodes
    <3>1. sig'[q] = IF q = r THEN sig[q] \/ (rows[q].stop /\ Alive(q)) ELSE sig[q]
      BY <1>0, <2>1 DEF TypeOK
    <3>2. Alive(q)
      BY StepSets DEF Alive
    <3>3. \A b \in Actors \ {a} : task'[b] = task[b]
      BY <1>0, <2>2 DEF TypeOK, Moved
    <3> QED
      BY <3>1, <3>2, <3>3
  <2> QED
    BY <1>1, <2>3, <2>4, <2>5 DEF Orderly
<1>7. CASE mark_failed(a)
  <2>1. UNCHANGED <<child, sig, stream>> /\ task[a].at = "failing" /\ OrderlyRows
    BY <1>0, <1>7, FailOrderly DEF mark_failed
  <2>2. Moved(a) /\ pel'["STOP"] = pel["STOP"]
    BY <1>0, <1>7, MoveForms DEF mark_failed
  <2> QED
    BY <1>0, <1>1, <2>1, <2>2, OneMove DEF Orderly
<1>8. CASE terminalize_reserved_row(a)
  <2>1. UNCHANGED <<child, sig, stream>> /\ task[a].at = "terminalize" /\ OrderlyRows
    BY <1>0, <1>8, FailOrderly, SameOrderly DEF terminalize_reserved_row, Terminalized
  <2>2. Moved(a) /\ pel'["STOP"] = pel["STOP"]
    BY <1>0, <1>8, MoveForms DEF terminalize_reserved_row
  <2> QED
    BY <1>0, <1>1, <2>1, <2>2, OneMove DEF Orderly
<1> QED
  BY <1>2, <1>3, <1>4, <1>5, <1>6, <1>7, <1>8, StepSets DEF Spawn

\* The restart task and the re-scan write no stop intent and start no process.
LEMMA AutoRestartOrderly ==
    ASSUME Inv, Served, Uninterrupted, NEW a \in {"restart", "rescan"}, AutoRestart(a) PROVE Orderly
<1> USE DEF db, procs, mem, bus, reqs, env
<1>0. TypeOK /\ Served /\ ~Fault /\ a \in Actors
  BY NoFault DEF Inv, Actors, Spawners
<1>1. /\ UNCHANGED <<child, sig, stream, pel>> /\ OrderlyRequests
      /\ task[a].at \in {"ctx", "gates", "backoff", "refail", "giveup"}
  BY <1>0 DEF AutoRestart, load_restart_context, RestartGates, Backoff, refail_stranded_restart,
              clear_sentinel_and_refail_after_giveup, OrderlyRequests
<1>2. Moved(a)
  <2>1. /\ Idle.at \notin Watched
        /\ \A s \in {"phaseA", "backoff"} : [task[a] EXCEPT !.at = s].at \notin Watched
        /\ [task[a] EXCEPT !.at = "gates", !.fails = rows[n].fails, !.paused = rows[n].paused].at
              \notin Watched
    BY <1>0 DEF Watched, Idle, TypeOK, Task
  <2>2. CASE load_restart_context(a)
    BY <1>0, <2>1, <2>2 DEF load_restart_context, Moved
  <2>3. CASE RestartGates(a)
    <3>1. \/ task' = [task EXCEPT ![a] = Idle]
          \/ \E action : task' = [task EXCEPT ![a] =
                  IF action = "RESTART" THEN [@ EXCEPT !.at = "phaseA"]
                  ELSE IF action = "BACKOFF" /\ a = "restart" THEN [@ EXCEPT !.at = "backoff"]
                  ELSE Idle]
      BY <2>3 DEF RestartGates
    <3> QED
      BY <2>1, <3>1 DEF Moved
  <2>4. CASE Backoff(a)
    BY <2>1, <2>4 DEF Backoff, Moved
  <2>5. CASE refail_stranded_restart(a)
    BY <1>0, <2>5, MoveForms DEF refail_stranded_restart
  <2>6. CASE clear_sentinel_and_refail_after_giveup(a)
    BY <1>0, <2>6, MoveForms DEF clear_sentinel_and_refail_after_giveup
  <2> QED
    BY <2>2, <2>3, <2>4, <2>5, <2>6 DEF AutoRestart
<1>3. OrderlyRows
  <2>1. CASE refail_stranded_restart(a)
    BY <1>0, <2>1, FailOrderly, SameOrderly DEF refail_stranded_restart
  <2>2. CASE clear_sentinel_and_refail_after_giveup(a)
    <3> DEFINE r == task[a].owned
    <3>1. rows' = [rows EXCEPT ![r] = GivenUp(r)]
      BY <2>2 DEF clear_sentinel_and_refail_after_giveup
    <3>2. r \in RowIds => /\ GivenUp(r).local = rows[r].local /\ GivenUp(r).stop = rows[r].stop /\ GivenUp(r).auto = rows[r].auto
                          /\ GivenUp(r).status \in {rows[r].status, "failed"}
      BY <1>0 DEF GivenUp, TypeOK, Row
    <3>3. r \in RowIds => rows[r].local
      BY <1>0 DEF Served
    <3> QED
      BY <1>0, <3>1, <3>2, <3>3, OneRow
  <2>3. CASE rows' = rows
    BY <1>0, <2>3, SameOrderly
  <2> QED
    BY <2>1, <2>2, <2>3 DEF AutoRestart, load_restart_context, RestartGates, Backoff
<1> QED
  BY <1>0, <1>1, <1>2, <1>3, OneMove DEF Orderly

\* The consumer outside a STOP: START commands and acknowledgements.
LEMMA ConsumerOrderly ==
    ASSUME Inv, Served, Uninterrupted, Consumer, ~stop, ~StopSignal PROVE Orderly
<1> USE DEF db, procs, mem, bus, reqs, env
<1>0. TypeOK /\ Served /\ ~Fault /\ "consumer" \in Actors
  BY NoFault DEF Inv, Actors, Spawners
<1>1. UNCHANGED <<rows, child, sig>> /\ OrderlyRequests /\ OrderlyRows
  BY <1>0, SameOrderly DEF Consumer, Deliver, MoveToDlq, Ack, OrderlyRequests
<1>2. ASSUME NEW cmd \in Commands, Deliver(cmd) PROVE Orderly
  <2>1. /\ task["consumer"].at = "idle" /\ pel["STOP"] = 0 /\ stream \in Seq(Commands)
        /\ \A b \in Actors \ {"consumer"} : task'[b] = task[b]
        /\ task'["consumer"].at = IF cmd = "START" THEN "phaseA" ELSE "stopTx"
    BY <1>0, <1>2 DEF Deliver, Goto, Served, TypeOK, Task
  <2>2. pel'["STOP"] = 0
    BY <1>0, <1>2, <2>1 DEF Deliver, TypeOK, Commands
  <2>3. CASE cmd = "STOP"
    <3>1. stream # <<>> /\ Head(stream) = "STOP"
      BY <1>2, <2>1, <2>3 DEF Deliver
    <3>2. StopIsDue
      BY <2>1, <3>1 DEF StopIsDue
    <3>3. StopIsDue'
      BY <2>1, <2>3 DEF StopIsDue
    <3> QED
      BY <1>1, <2>1, <2>2, <2>3, <3>2, <3>3 DEF Orderly, OrderlyTasks, OrderlyNodes
  <2>4. CASE cmd = "START"
    <3>1. CASE stream' = stream
      <4>1. StopIsDue' <=> StopIsDue
        BY <2>1, <2>4, <3>1 DEF StopIsDue
      <4> QED
        BY <1>1, <2>1, <2>2, <2>4, <4>1 DEF Orderly, OrderlyTasks, OrderlyNodes
    <3>2. CASE stream # <<>> /\ Head(stream) = "START" /\ stream' = Tail(stream)
      <4>1. /\ Len(stream') = Len(stream) - 1 /\ Len(stream) \in Nat \ {0} /\ stream[1] = "START"
            /\ \A i \in 1 .. Len(stream') : stream'[i] = stream[i + 1]
        BY <2>1, <3>2
      <4>2. (\E i \in 1 .. Len(stream) : stream[i] = "STOP") <=>
            (\E i \in 1 .. Len(stream') : stream'[i] = "STOP")
        <5>1. ASSUME NEW i \in 1 .. Len(stream), stream[i] = "STOP"
              PROVE  \E j \in 1 .. Len(stream') : stream'[j] = "STOP"
          <6>1. i # 1 /\ i - 1 \in 1 .. Len(stream') /\ (i - 1) + 1 = i
            BY <4>1, <5>1
          <6> QED
            BY <4>1, <5>1, <6>1
        <5>2. ASSUME NEW i \in 1 .. Len(stream'), stream'[i] = "STOP"
              PROVE  \E j \in 1 .. Len(stream) : stream[j] = "STOP"
          BY <4>1, <5>2
        <5> QED
          BY <5>1, <5>2
      <4>3. StopIsDue' <=> StopIsDue
        BY <2>1, <2>4, <4>2 DEF StopIsDue
      <4> QED
        BY <1>1, <2>1, <2>2, <2>4, <4>3 DEF Orderly, OrderlyTasks, OrderlyNodes
    <3> QED
      BY <1>2, <2>4, <3>1, <3>2 DEF Deliver
  <2> QED
    BY <2>3, <2>4 DEF Commands
<1>3. ASSUME NEW cmd \in Commands, MoveToDlq(cmd) PROVE Orderly
  <2>1. UNCHANGED <<task, stream>> /\ pel'["STOP"] = 0
    BY <1>0, <1>3 DEF MoveToDlq, Served, TypeOK, Commands
  <2>2. OrderlyTasks
    BY <2>1 DEF OrderlyTasks, StopIsDue
  <2> QED
    BY <1>0, <1>1, <2>1, <2>2, SameOrderly DEF Orderly
<1>4. CASE Ack
  <2>1. /\ UNCHANGED <<stream, pel>> /\ task' = [task EXCEPT !["consumer"] = Idle]
        /\ task["consumer"].at \notin {"stopTx", "stopSig", "phaseC"}
    BY <1>0, <1>4 DEF Ack
  <2>2. Moved("consumer")
    BY <1>0, <2>1, MoveForms
  <2> QED
    BY <1>0, <1>1, <2>1, <2>2, OneMove DEF Orderly
<1> QED
  BY <1>2, <1>3, <1>4 DEF Consumer

\* The loops fail rows and reap exits; none takes a signal or an intent back.
LEMMA LoopsOrderly == ASSUME Inv, Served, Uninterrupted, Loops PROVE Orderly
<1> USE DEF db, procs, mem, bus, reqs, env
<1>0. /\ TypeOK /\ Served /\ {"consumer", "restart", "rescan", "watchdog"} \subseteq Actors
      /\ Idle.at = "idle"
  BY DEF Inv, Actors, Spawners, Idle
<1>1. UNCHANGED <<sig, stream, pel>> /\ OrderlyRequests
  BY DEF Loops, rescan_for_restart, reap_once, on_child_exit, watchdog_once, WatchdogFlip,
         reap_ownerless_active_rows, mark_stale_as_failed, OrderlyRequests
<1>2. CASE rescan_for_restart
  <2>1. UNCHANGED child /\ OrderlyRows /\ task["rescan"].at = "idle"
    BY <1>0, <1>2, FailOrderly, SameOrderly DEF rescan_for_restart
  <2>2. CASE task' = task
    BY <1>0, <1>1, <2>1, <2>2, SameOrderly DEF Orderly
  <2>3. CASE Goto("rescan", "ctx")
    <3>1. "ctx" \notin Watched
      BY DEF Watched
    <3>2. Moved("rescan")
      BY <1>0, <2>3, <3>1, MoveForms
    <3> QED
      BY <1>0, <1>1, <2>1, <3>2, OneMove DEF Orderly
  <2> QED
    BY <1>2, <2>2, <2>3 DEF rescan_for_restart
<1>3. CASE reap_once
  BY <1>0, <1>1, <1>3, SameOrderly DEF reap_once, Orderly
<1>4. CASE on_child_exit
  <2>1. rows' = [rows EXCEPT ![reap] = Exited(reap)] /\ UNCHANGED child
    BY <1>4 DEF on_child_exit
  <2>2. reap \in RowIds => /\ Exited(reap).local = rows[reap].local
                           /\ Exited(reap).stop = rows[reap].stop /\ Exited(reap).auto = rows[reap].auto
                           /\ Exited(reap).status \in {rows[reap].status, "stopped", "failed"}
    BY <1>0 DEF Exited, ExitStatus, TypeOK, Row
  <2>3. reap \in RowIds => rows[reap].local
    BY <1>0 DEF Served
  <2>4. OrderlyRows
    BY <1>0, <2>1, <2>2, <2>3, OneRow
  <2>5. CASE task' = task
    BY <1>0, <1>1, <2>1, <2>4, <2>5, SameOrderly DEF Orderly
  <2>6. CASE /\ task["restart"].at = "idle"
             /\ task' = [task EXCEPT !["restart"] = [Idle EXCEPT !.at = "ctx", !.try = 1, !.owned = reap]]
    <3>1. Moved("restart")
      <4>1. [Idle EXCEPT !.at = "ctx", !.try = 1, !.owned = reap].at \notin Watched
        BY DEF Idle, Watched
      <4> QED
        BY <2>6, <4>1 DEF Moved
    <3> QED
      BY <1>0, <1>1, <2>1, <2>4, <2>6, <3>1, OneMove DEF Orderly
  <2> QED
    BY <1>4, <2>5, <2>6 DEF on_child_exit
<1>5. ASSUME NEW r \in RowIds, watchdog_once(r) PROVE Orderly
  <2>1. /\ rows' = rows /\ task["watchdog"].at = "idle"
        /\ task' = [task EXCEPT !["watchdog"] = [@ EXCEPT !.at = "flip", !.row = r]]
    BY <1>5 DEF watchdog_once
  <2>2. [task["watchdog"] EXCEPT !.at = "flip", !.row = r].at \notin Watched
    BY <1>0 DEF TypeOK, Task, Watched
  <2>3. Moved("watchdog")
    BY <2>1, <2>2 DEF Moved
  <2>4. \A q \in RowIds : child'[q] \in NodeStates => child[q] \in NodeStates
    BY <1>5 DEF watchdog_once, NodeStates
  <2>5. \A b \in Actors \ {"watchdog"} : task'[b] = task[b]
    BY <1>0, <2>1 DEF TypeOK
  <2>6. OrderlyNodes
    BY <1>1, <2>1, <2>4, <2>5 DEF OrderlyNodes
  <2> QED
    BY <1>0, <1>1, <2>1, <2>3, <2>6, OneMove, SameOrderly DEF Orderly
<1>6. CASE WatchdogFlip
  <2>1. /\ UNCHANGED child /\ task["watchdog"].at = "flip" /\ OrderlyRows
        /\ task' = [task EXCEPT !["watchdog"] = Idle]
    BY <1>0, <1>6, FailOrderly DEF WatchdogFlip
  <2>2. Moved("watchdog")
    BY <1>0, <2>1, MoveForms
  <2> QED
    BY <1>0, <1>1, <2>1, <2>2, OneMove DEF Orderly
<1>7. ASSUME NEW r \in RowIds, reap_ownerless_active_rows(r) \/ mark_stale_as_failed(r) PROVE Orderly
  <2>1. UNCHANGED <<child, task>> /\ OrderlyRows
    BY <1>0, <1>7, FailOrderly DEF reap_ownerless_active_rows, mark_stale_as_failed
  <2> QED
    BY <1>0, <1>1, <2>1, SameOrderly DEF Orderly
<1> QED
  BY <1>2, <1>3, <1>4, <1>5, <1>6, <1>7 DEF Loops

\* A subprocess under its SIGTERM stays there until it is gone, and leaves the intent
\* on its row.
LEMMA SubprocessOrderly ==
    ASSUME Inv, Served, NEW r \in RowIds, Subprocess(r) \/ HeartbeatStale(r) PROVE Orderly
<1> USE DEF db, procs, mem, bus, reqs, env
<1>0. TypeOK /\ Served /\ rows[r].local
  BY DEF Inv, Served
<1>1. UNCHANGED <<task, stream, pel>> /\ OrderlyRequests /\ OrderlyTasks
  BY <1>0, SameOrderly DEF Subprocess, self_write_pid, mark_ready, mark_running, ChildEnds, ChildDies,
         ChildExits, HeartbeatStale, OrderlyRequests
<1>2. ASSUME NEW s, NEW k, mark_terminal(r, s, k), s \in {"stopped", "failed"}, sig' = sig PROVE Orderly
  <2> DEFINE v == [rows[r] EXCEPT !.status = s, !.kind = k, !.stale = FALSE]
  <2>1. rows' = [rows EXCEPT ![r] = v]
    BY <1>2 DEF mark_terminal
  <2>2. v.status = s /\ v.local = rows[r].local /\ v.stop = rows[r].stop /\ v.auto = rows[r].auto
    BY <1>0 DEF TypeOK, Row
  <2> HIDE DEF v
  <2>3. OrderlyRows
    BY <1>0, <1>2, <2>1, <2>2, OneRow
  <2>4. \A q \in RowIds : child'[q] \in NodeStates => child[q] \in NodeStates
    BY <1>0, <1>2 DEF mark_terminal, TypeOK, NodeStates
  <2>5. OrderlyNodes
    BY <1>1, <1>2, <2>4 DEF OrderlyNodes
  <2> QED
    BY <1>1, <2>3, <2>5 DEF Orderly
<1>3. ASSUME NEW s, ChildWrite(r, s), s \in {"building", "ready"}, sig' = sig, child[r] \in NodeStates
      PROVE  Orderly
  <2>1. CASE mark_terminal(r, "failed", "neverran")
    BY <1>2, <1>3, <2>1
  <2>2. CASE /\ rows' = [rows EXCEPT ![r] = [@ EXCEPT !.status = s, !.stale = FALSE, !.pid = TRUE]]
             /\ child' = [child EXCEPT ![r] = s]
    <3> DEFINE v == [rows[r] EXCEPT !.status = s, !.stale = FALSE, !.pid = TRUE]
    <3>1. rows' = [rows EXCEPT ![r] = v]
      BY <2>2
    <3>2. v.status = s /\ v.local = rows[r].local /\ v.stop = rows[r].stop /\ v.auto = rows[r].auto
      BY <1>0 DEF TypeOK, Row
    <3> HIDE DEF v
    <3>3. OrderlyRows
      BY <1>0, <1>3, <3>1, <3>2, OneRow
    <3>4. \A q \in RowIds : child'[q] \in NodeStates => child[q] \in NodeStates
      BY <1>0, <1>3, <2>2 DEF TypeOK, NodeStates
    <3>5. OrderlyNodes
      BY <1>1, <1>3, <3>4 DEF OrderlyNodes
    <3> QED
      BY <1>1, <3>3, <3>5 DEF Orderly
  <2> QED
    BY <1>3, <2>1, <2>2 DEF ChildWrite
<1>4. CASE self_write_pid(r) \/ mark_ready(r)
  BY <1>3, <1>4 DEF self_write_pid, mark_ready, NodeStates
<1>5. CASE mark_running(r)
  <2>1. \A q \in RowIds : child'[q] \in NodeStates => child[q] \in NodeStates
    BY <1>0, <1>5 DEF mark_running, TypeOK, NodeStates
  <2>2. OrderlyNodes
    BY <1>1, <1>5, <2>1 DEF OrderlyNodes, mark_running
  <2>3. CASE rows' = rows
    BY <1>0, <1>1, <2>2, <2>3, SameOrderly DEF Orderly
  <2>4. CASE rows' # rows
    <3> DEFINE v == [rows[r] EXCEPT !.status = "running", !.stale = FALSE,
                                    !.fails = record_success.fails, !.paused = record_success.paused]
    <3>1. rows' = [rows EXCEPT ![r] = v]
      BY <1>5, <2>4 DEF mark_running
    <3>2. v.status = "running" /\ v.local = rows[r].local /\ v.stop = rows[r].stop /\ v.auto = rows[r].auto
      BY <1>0 DEF TypeOK, Row
    <3> HIDE DEF v
    <3>3. OrderlyRows
      BY <1>0, <3>1, <3>2, OneRow
    <3> QED
      BY <1>1, <2>2, <3>3 DEF Orderly
  <2> QED
    BY <2>3, <2>4
<1>6. CASE ChildEnds(r)
  BY <1>2, <1>6 DEF ChildEnds
<1>7. CASE ChildDies(r) \/ ChildExits(r)
  <2>1. /\ rows' = rows
        /\ \A q \in RowIds : child'[q] = IF q = r THEN child'[r] ELSE child[q]
        /\ child'[r] \notin NodeStates
        /\ \A q \in RowIds : q # r => sig'[q] = sig[q]
    BY <1>0, <1>7 DEF ChildDies, ChildExits, TypeOK, NodeStates
  <2>2. OrderlyNodes
    BY <1>1, <2>1 DEF OrderlyNodes
  <2> QED
    BY <1>0, <1>1, <2>1, <2>2, SameOrderly DEF Orderly
<1>8. CASE HeartbeatStale(r)
  <2> DEFINE v == [rows[r] EXCEPT !.stale = TRUE]
  <2>1. rows' = [rows EXCEPT ![r] = v] /\ UNCHANGED <<child, sig>>
    BY <1>0, <1>8 DEF HeartbeatStale, TypeOK
  <2>2. v.status = rows[r].status /\ v.local = rows[r].local /\ v.stop = rows[r].stop /\ v.auto = rows[r].auto
    BY <1>0 DEF TypeOK, Row
  <2> HIDE DEF v
  <2>3. OrderlyRows
    BY <1>0, <2>1, <2>2, OneRow
  <2> QED
    BY <1>0, <1>1, <2>1, <2>3, SameOrderly DEF Orderly
<1> QED
  BY <1>4, <1>5, <1>6, <1>7, <1>8 DEF Subprocess

\* A start request writes the deployment and adds a START at most.
StartRequest == \/ ApiAdmit \/ ApiStart \/ ApiAlreadyActive \/ ApiPublishStart \/ ApiPoll
                \/ ApiCommitRunning \/ ApiPollTimeout \/ ApiTimeoutFlip

LEMMA StartRequestOrderly ==
    ASSUME Inv, Served, Uninterrupted, StartRequest PROVE Orderly
<1> USE DEF db, procs, mem, bus, reqs, env, StartRequest
<1>0. TypeOK /\ Served /\ ~Fault /\ used \in Used
  BY NoFault DEF Inv, TypeOK
<1>1. /\ UNCHANGED <<rows, child, sig, task, pel, stopReq, inflight, halt, sup>>
      /\ stream' \in {stream, Append(stream, "START")}
  BY <1>0 DEF ApiAdmit, ApiStart, ApiAlreadyActive, ApiPublishStart, ApiPoll,
              ApiCommitRunning, ApiPollTimeout, ApiTimeoutFlip
<1>2. /\ used'.halts = used.halts /\ used'.stops = used.stops
      /\ intent' = "stop" => intent = "stop"
  BY <1>0 DEF ApiAdmit, ApiStart, ApiAlreadyActive, ApiPublishStart, ApiPoll,
              ApiCommitRunning, ApiPollTimeout, ApiTimeoutFlip, Used
<1>3. (\E i \in 1 .. Len(stream') : stream'[i] = "STOP") <=>
      (\E i \in 1 .. Len(stream) : stream[i] = "STOP")
  <2>1. CASE stream' = stream
    BY <2>1
  <2>2. CASE stream' = Append(stream, "START")
    <3>1. /\ Len(stream') = Len(stream) + 1 /\ Len(stream) \in Nat
          /\ \A i \in 1 .. Len(stream') :
               stream'[i] = IF i <= Len(stream) THEN stream[i] ELSE "START"
      BY <1>0, <2>2 DEF TypeOK
    <3> QED
      BY <3>1
  <2> QED
    BY <1>1, <2>1, <2>2
<1>4. StopIsDue' <=> StopIsDue
  BY <1>1, <1>3 DEF StopIsDue
<1>5. OrderlyTasks
  BY <1>0, <1>1, <1>4 DEF OrderlyTasks, Served
<1> QED
  BY <1>0, <1>1, <1>2, <1>5, SameOrderly DEF Orderly, OrderlyRequests

\* process.start() of a spawn whose row carries the intent: Phase C follows.
LEMMA StartCarries ==
    ASSUME HaltInv, Undisturbed, NEW a \in Actors, StartProcess(a) PROVE OneHalt' /\ HaltIsCarriedOut'
<1> USE DEF db, procs, mem, bus, reqs, env
<1>0. TypeOK /\ OneHalt /\ ~Fault /\ "consumer" \in Actors
  BY NoFault DEF HaltInv, Inv, Undisturbed, Actors, Spawners
<1>1. PICK r \in RowIds : r = task[a].row
  BY StepSets DEF StartProcess, HaltInv, Inv, Ownership, SpawnsReserved
<1>2. /\ task[a].at = "start" /\ child' = [child EXCEPT ![r] = "booting"] /\ Goto(a, "phaseC")
      /\ UNCHANGED <<rows, sig, stream, pel, stopReq, inflight, halt, sup, used>>
  BY <1>0, <1>1 DEF StartProcess
<1>3. LET t == [task[a] EXCEPT !.at = "phaseC"] IN t.at = "phaseC" /\ t.row = r
  BY <1>0, <1>1 DEF TypeOK, Task
<1>4. /\ task'[a].at = "phaseC" /\ task'[a].row = r
      /\ \A b \in Actors \ {a} : task'[b] = task[b]
  BY <1>0, <1>2, <1>3 DEF TypeOK, Goto
<1>5. \A q \in RowIds : child'[q] = IF q = r THEN "booting" ELSE child[q]
  BY <1>0, <1>2 DEF TypeOK
<1>6. /\ StopIsDue' <=> StopIsDue
      /\ task'["consumer"].at = "stopSig" <=> task["consumer"].at = "stopSig"
  BY <1>0, <1>2, <1>4 DEF StopIsDue
<1>7. OneHalt'
  BY <1>0, <1>2, <1>6 DEF OneHalt, Served, BeforeTheHalt
<1>8. ASSUME SpawnsAreStamped, NodesAreSignalled PROVE SpawnsAreStamped' /\ NodesAreSignalled'
  <2>1. rows[r].stop
    BY <1>1, <1>2, <1>8 DEF SpawnsAreStamped
  <2>2. SpawnsAreStamped'
    BY <1>2, <1>4, <1>8 DEF SpawnsAreStamped
  <2>3. ASSUME NEW q \in RowIds, q # r, child'[q] \in NodeStates
        PROVE  \/ sig'[q] \/ task'["consumer"].at = "stopSig"
               \/ rows'[q].stop /\ \E b \in Actors : task'[b].at = "phaseC" /\ task'[b].row = q
    BY <1>2, <1>4, <1>5, <1>6, <1>8, <2>3 DEF NodesAreSignalled
  <2> QED
    BY <1>2, <1>4, <2>1, <2>2, <2>3 DEF NodesAreSignalled
<1>9. HaltIsCarriedOut'
  BY <1>2, <1>6, <1>8 DEF HaltIsCarriedOut, HaltInv
<1> QED
  BY <1>7, <1>9

\* FleetRouter.stop's transaction: the one active row is that of every node and of
\* every spawn past its checks, and it takes the intent; without one there are none.
LEMMA StopCarries == ASSUME HaltInv, stop PROVE OneHalt' /\ HaltIsCarriedOut'
<1> USE DEF db, procs, mem, bus, reqs, env
<1>0. TypeOK /\ OneHalt /\ "consumer" \in Actors /\ task["consumer"].at = "stopTx"
  BY DEF HaltInv, Inv, Actors, Spawners, stop
<1>1. UNCHANGED <<child, sig, stream, stopReq, inflight, halt, sup, used>>
  BY DEF stop
<1>2. ~BeforeTheHalt /\ ~BeforeTheHalt'
  BY <1>0, <1>1 DEF OneHalt, Served, BeforeTheHalt, StopIsDue
<1>3. used.halts # 0
  BY <1>2 DEF BeforeTheHalt
<1>4. CASE ActiveRows = {}
  <2>1. StopWithoutActiveRow /\ Goto("consumer", "ackStop") /\ pel' = pel
    BY <1>4 DEF stop
  <2>2. \A r \in RowIds : LET v == [rows[r] EXCEPT !.stop = TRUE] IN v.local = rows[r].local
    BY <1>0 DEF TypeOK, Row
  <2>3. \A r \in RowIds : rows'[r] = rows[r] \/ rows'[r] = [rows[r] EXCEPT !.stop = TRUE]
    BY <1>0, <2>1 DEF StopWithoutActiveRow, TypeOK
  <2>4. OneHalt'
    BY <1>0, <1>1, <1>2, <1>3, <2>1, <2>2, <2>3 DEF OneHalt, Served
  <2>5. \A r \in RowIds : child'[r] \notin NodeStates
    BY <1>1, <1>4 DEF ActiveRows, HaltInv, Inv, Ownership, NodesOwned
  <2>6. \A a \in Actors : task[a].at \notin {"gate", "start"}
    BY <1>4, StepSets DEF ActiveRows, HaltInv, Inv, Ownership, SpawnsReserved
  <2>7. \A a \in Actors : task'[a].at \notin {"gate", "start"}
    BY <1>0, <2>1, <2>6 DEF Goto, TypeOK, Task
  <2> QED
    BY <2>4, <2>5, <2>7 DEF HaltIsCarriedOut, SpawnsAreStamped, NodesAreSignalled
<1>5. CASE ActiveRows # {}
  <2>1. PICK r \in ActiveRows :
           IF rows[r].local
           THEN /\ rows' = [rows EXCEPT ![r] = [@ EXCEPT !.status = "stopping", !.stop = TRUE]]
                /\ task' = [task EXCEPT !["consumer"] =
                             [@ EXCEPT !.at = "stopSig", !.row = IF rows[r].pid THEN r ELSE 0]]
                /\ pel' = pel
           ELSE Goto("consumer", "idle")
    BY <1>5 DEF stop
  <2>2. r \in RowIds /\ Active(r) /\ rows[r].local
    BY <1>0 DEF ActiveRows, OneHalt, Served
  <2>3. /\ pel' = pel /\ task'["consumer"].at = "stopSig"
        /\ \A b \in Actors \ {"consumer"} : task'[b] = task[b]
    <3>1. [task["consumer"] EXCEPT !.at = "stopSig", !.row = IF rows[r].pid THEN r ELSE 0].at = "stopSig"
      BY <1>0 DEF TypeOK, Task
    <3> QED
      BY <1>0, <2>1, <2>2, <3>1 DEF TypeOK
  <2>4. LET v == [rows[r] EXCEPT !.status = "stopping", !.stop = TRUE]
        IN  v.local = rows[r].local /\ v.stop = TRUE
    BY <1>0, <2>2 DEF TypeOK, Row
  <2>5. /\ rows'[r].stop /\ rows'[r].local
        /\ \A q \in RowIds \ {r} : rows'[q] = rows[q]
    BY <1>0, <2>1, <2>2, <2>4 DEF TypeOK
  <2>6. OneHalt'
    BY <1>0, <1>1, <1>2, <1>3, <2>3, <2>5 DEF OneHalt, Served
  <2>7. SpawnsAreStamped'
    <3> SUFFICES ASSUME NEW a \in Actors, task'[a].at \in {"gate", "start"}
                 PROVE  rows'[task'[a].row].stop
      BY DEF SpawnsAreStamped
    <3>1. task'[a] = task[a] /\ task[a].at \in ReservedSteps
      BY <2>3, StepSets
    <3>2. task[a].row \in RowIds /\ Active(task[a].row)
      BY <3>1 DEF HaltInv, Inv, Ownership, SpawnsReserved
    <3>3. task[a].row = r
      BY <2>2, <3>2 DEF HaltInv, Inv, OneActiveRow
    <3> QED
      BY <2>5, <3>1, <3>3
  <2>8. NodesAreSignalled'
    BY <2>3 DEF NodesAreSignalled
  <2> QED
    BY <2>6, <2>7, <2>8 DEF HaltIsCarriedOut
<1> QED
  BY <1>4, <1>5

\* Its signal reaches the node: the supervisor holds the handle of every node.
LEMMA SignalCarries == ASSUME HaltInv, StopSignal PROVE OneHalt' /\ HaltIsCarriedOut'
<1> USE DEF db, procs, mem, bus, reqs, env
<1>0. TypeOK /\ OneHalt /\ "consumer" \in Actors /\ task["consumer"].at = "stopSig"
  BY DEF HaltInv, Inv, Actors, Spawners, StopSignal
<1>1. UNCHANGED <<rows, child, stream, pel, stopReq, inflight, halt, sup, used>>
  BY DEF StopSignal
<1>2. ~BeforeTheHalt /\ ~BeforeTheHalt' /\ used.halts # 0
  BY <1>0, <1>1 DEF OneHalt, Served, BeforeTheHalt
<1>3. /\ \A b \in Actors \ {"consumer"} : task'[b] = task[b]
      /\ task'["consumer"].at = "ackStop"
  BY <1>0 DEF StopSignal, TypeOK, Idle
<1>4. OneHalt'
  BY <1>0, <1>1, <1>2 DEF OneHalt, Served
<1>5. \A r \in RowIds : child[r] \in NodeStates => sig'[r]
  <2> SUFFICES ASSUME NEW r \in RowIds, child[r] \in NodeStates PROVE sig'[r]
    OBVIOUS
  <2>1. handle = r /\ Alive(r)
    BY StepSets DEF HaltInv, Inv, Ownership, NodesOwned, Alive
  <2>2. r # 0
    BY BoundsAssumption DEF RowIds
  <2> QED
    BY <2>1, <2>2 DEF StopSignal
<1>6. NodesAreSignalled'
  BY <1>1, <1>5 DEF NodesAreSignalled
<1>7. SpawnsAreStamped => SpawnsAreStamped'
  BY <1>1, <1>3 DEF SpawnsAreStamped
<1>8. StopIsDue => StopIsDue'
  BY <1>0, <1>1 DEF StopIsDue
<1>9. HaltIsCarriedOut'
  BY <1>1, <1>6, <1>7, <1>8 DEF HaltIsCarriedOut, HaltInv
<1> QED
  BY <1>4, <1>9

\* The operators' requests: /kill-all finds a live row and no key that would swallow
\* its STOP, or no active row and so nothing that runs or is about to.
LEMMA ApiCarries == ASSUME HaltInv, Undisturbed, Api PROVE OneHalt' /\ HaltIsCarriedOut'
<1> USE DEF db, procs, mem, bus, reqs, env
<1>0. /\ TypeOK /\ OneHalt /\ HaltIsCarriedOut /\ ~Fault
      /\ stopReq["stop"] = "idle" /\ "stop" \in Stoppers /\ "killAll" \in Stoppers
      /\ stopReq \in [Stoppers -> StopSteps] /\ used \in Used
  BY NoFault DEF HaltInv, Inv, Undisturbed, TypeOK, OneHalt, Served, Stoppers
<1>1. UNCHANGED <<child, sig, task>>
  BY DEF Api, ApiAdmit, ApiStart, ApiAlreadyActive, ApiPublishStart, ApiPoll, ApiCommitRunning,
         ApiPollTimeout, ApiTimeoutFlip, ApiStop, ApiStopPublish, ApiStopPoll, ApiStopCommit,
         KillAllLatch, KillAllPublish, KillAllPoll, PublishStop, InflightExpires, Resume
<1>2. CASE StartRequest
  BY <1>0, <1>2, StartRequestOrderly, OrderlyKeeps DEF HaltInv, OneHalt, Undisturbed
<1>3. CASE ApiStop \/ ApiStopPublish \/ ApiStopPoll \/ ApiStopCommit \/ PublishStop("stop")
  BY <1>0, <1>3 DEF ApiStop, ApiStopPublish, ApiStopPoll, ApiStopCommit, PublishStop,
                    Undisturbed, Used
<1>4. CASE KillAllLatch
  <2>1. /\ UNCHANGED <<rows, stream, pel, inflight, sup>>
        /\ stopReq' = [stopReq EXCEPT !["killAll"] = "latched"]
        /\ used' = [used EXCEPT !.halts = @ + 1] /\ used.halts < MaxHalts
    BY <1>4 DEF KillAllLatch, StopGoto
  <2>2. used.halts = 0 /\ used'.halts = 1
    BY <1>0, <2>1 DEF Undisturbed, Uninterrupted, Used
  <2>3. stopReq'["killAll"] = "latched" /\ stopReq'["stop"] = "idle"
    BY <1>0, <2>1
  <2> QED
    BY <1>0, <1>1, <2>1, <2>2, <2>3 DEF OneHalt, Served, BeforeTheHalt, HaltIsCarriedOut, StopIsDue
<1>5. CASE KillAllPublish
  <2>1. UNCHANGED <<rows, stream, pel, halt, sup, used>> /\ stopReq["killAll"] = "latched"
    BY <1>5 DEF KillAllPublish
  <2>2. ~inflight /\ used.halts # 0 /\ \A r \in RowIds : rows[r].status # "stopping"
    BY <1>0, <2>1 DEF OneHalt, Served, BeforeTheHalt
  <2>3. CASE stopReq' = [stopReq EXCEPT !["killAll"] = "add"]
    <3>1. stopReq'["killAll"] = "add" /\ stopReq'["stop"] = "idle"
      BY <1>0, <2>3
    <3> QED
      BY <1>0, <1>1, <2>1, <2>2, <3>1 DEF OneHalt, Served, BeforeTheHalt, HaltIsCarriedOut
  <2>4. CASE /\ stopReq' = [stopReq EXCEPT !["killAll"] = "idle"]
             /\ \A r \in RowIds : rows[r].status \notin LiveStatuses
    <3>1. stopReq'["killAll"] = "idle" /\ stopReq'["stop"] = "idle"
      BY <1>0, <2>4
    <3>2. \A r \in RowIds : ~Active(r)
      BY <2>2, <2>4 DEF Active, ActiveStatuses
    <3>3. \A r \in RowIds : child'[r] \notin NodeStates
      BY <1>1, <3>2 DEF HaltInv, Inv, Ownership, NodesOwned
    <3>4. \A a \in Actors : task'[a].at \notin {"gate", "start"}
      BY <1>1, <3>2, StepSets DEF HaltInv, Inv, Ownership, SpawnsReserved
    <3> QED
      BY <1>0, <1>1, <2>1, <2>2, <3>1, <3>3, <3>4
         DEF OneHalt, Served, BeforeTheHalt, HaltIsCarriedOut, SpawnsAreStamped, NodesAreSignalled
  <2> QED
    BY <1>5, <2>2, <2>3, <2>4 DEF KillAllPublish, Coalesce, StopGoto
<1>6. CASE PublishStop("killAll")
  <2>1. /\ UNCHANGED <<rows, pel, inflight, halt, sup, used>> /\ stopReq["killAll"] = "add"
        /\ stream' = Append(stream, "STOP")
        /\ stopReq' = [stopReq EXCEPT !["killAll"] = "polling"]
    BY <1>0, <1>6 DEF PublishStop, StopGoto
  <2>2. stopReq'["killAll"] = "polling" /\ stopReq'["stop"] = "idle"
    BY <1>0, <2>1
  <2>3. StopIsDue'
    <3>1. Len(stream) + 1 \in 1 .. Len(stream') /\ stream'[Len(stream) + 1] = "STOP"
      BY <1>0, <2>1 DEF TypeOK
    <3> QED
      BY <3>1 DEF StopIsDue
  <2> QED
    BY <1>0, <1>1, <2>1, <2>2, <2>3 DEF OneHalt, Served, BeforeTheHalt, HaltIsCarriedOut
<1>7. CASE KillAllPoll
  <2>1. /\ UNCHANGED <<rows, stream, pel, halt, sup, used>> /\ stopReq["killAll"] = "polling"
        /\ stopReq' = [stopReq EXCEPT !["killAll"] = "idle"]
    BY <1>7 DEF KillAllPoll, StopGoto
  <2>2. stopReq'["killAll"] = "idle" /\ stopReq'["stop"] = "idle"
    BY <1>0, <2>1
  <2> QED
    BY <1>0, <1>1, <2>1, <2>2
       DEF OneHalt, Served, BeforeTheHalt, HaltIsCarriedOut, StopIsDue, SpawnsAreStamped, NodesAreSignalled
<1>8. CASE InflightExpires \/ Resume
  <2>1. /\ UNCHANGED <<rows, stream, pel, stopReq, sup, used>>
        /\ halt' => halt
        /\ inflight' => inflight
    BY <1>8 DEF InflightExpires, Resume
  <2> QED
    BY <1>0, <1>1, <2>1
       DEF OneHalt, Served, BeforeTheHalt, HaltIsCarriedOut, StopIsDue, SpawnsAreStamped, NodesAreSignalled
<1> QED
  BY <1>2, <1>3, <1>4, <1>5, <1>6, <1>7, <1>8 DEF Api, StartRequest, Stoppers

\* The supervisor does not stop and no call fails.
LEMMA NoLifeCycle == ASSUME TypeOK, Served, Uninterrupted PROVE ~LifeCycle
<1>1. ~Fault
  BY NoFault
<1>2. sup = "up" /\ ~(used.crashes < MaxCrashes)
  BY DEF Served, TypeOK, Uninterrupted, Used
<1> QED
  BY <1>1, <1>2 DEF LifeCycle, SupervisorDies, SupervisorCloses, SupervisorBoots, CancelledSpawn,
              TransactionFails

\* Once /kill-all has read the rows, and until /resume, every live node is under SIGTERM
\* or a STOP is on its way to it, for any number of rows, start requests, restarts and
\* resumes. The setting is that of the run fleet_halt: one /kill-all, and no /stop whose
\* key could swallow its STOP, no failing Phase C, no crash, no spawn beyond the
\* heartbeat threshold; each of these defeats it.
THEOREM HaltsReachEveryNode ==
    ASSUME SlowBoot = FALSE, MaxHalts \in {0, 1}, MaxStops = 0, MaxFaults = 0, MaxCrashes = 0
    PROVE  Spec => []HaltReachesEveryNode
<1>0. Undisturbed
  BY DEF Undisturbed, Uninterrupted
<1>1. Init => OneHalt /\ HaltIsCarriedOut
  <2> SUFFICES ASSUME Init PROVE OneHalt /\ HaltIsCarriedOut
    OBVIOUS
  <2>1. /\ \A r \in RowIds : rows[r].local /\ rows[r].status = "absent"
        /\ task["consumer"].at = "idle" /\ Len(stream) = 0
        /\ sup = "up" /\ pel["STOP"] = 0 /\ ~halt /\ ~inflight
        /\ stopReq["stop"] = "idle" /\ stopReq["killAll"] = "idle"
    BY DEF Init, NoRow, Idle, Actors, Spawners, Commands, Stoppers
  <2> QED
    BY <2>1 DEF OneHalt, Served, HaltIsCarriedOut, StopIsDue, BeforeTheHalt
<1>2. Inv /\ OneHalt /\ HaltIsCarriedOut /\ [Next]_vars => OneHalt' /\ HaltIsCarriedOut'
  <2> SUFFICES ASSUME HaltInv, [Next]_vars PROVE OneHalt' /\ HaltIsCarriedOut'
    BY DEF HaltInv
  <2>0. TypeOK /\ Inv /\ OneHalt /\ Served /\ Uninterrupted
    BY <1>0 DEF HaltInv, Inv, OneHalt, Served, Undisturbed, Uninterrupted
  <2>1. CASE UNCHANGED vars
    <3>1. UNCHANGED <<rows, task, bus, child, sig, reqs, env>>
      BY <2>1 DEF vars, db, procs, mem
    <3> QED
      BY <2>0, <3>1, SameOrderly, OrderlyKeeps DEF Orderly
  <2>2. ASSUME NEW a \in Actors, Spawn(a) PROVE OneHalt' /\ HaltIsCarriedOut'
    BY <1>0, <2>0, <2>2, SpawnOrderly, OrderlyKeeps, StartCarries
  <2>3. CASE Consumer
    BY <1>0, <2>0, <2>3, ConsumerOrderly, OrderlyKeeps, StopCarries, SignalCarries
  <2>4. CASE Supervisor
    <3>1. \/ \E a \in Actors : Spawn(a)
          \/ \E a \in {"restart", "rescan"} : AutoRestart(a)
          \/ Consumer \/ Loops \/ LifeCycle
      BY <2>4 DEF Supervisor, LifeCycle, Actors
    <3> QED
      BY <1>0, <2>0, <2>2, <2>3, <3>1, AutoRestartOrderly, LoopsOrderly, OrderlyKeeps, NoLifeCycle
  <2>5. CASE Next /\ ~Supervisor
    <3>1. Api \/ (\E r \in RowIds : Subprocess(r) \/ HeartbeatStale(r)) \/ LifeCycle
      BY <2>5 DEF Next, LifeCycle
    <3> QED
      BY <1>0, <2>0, <3>1, ApiCarries, SubprocessOrderly, OrderlyKeeps, NoLifeCycle
  <2> QED
    BY <2>1, <2>4, <2>5
<1>3. OneHalt /\ HaltIsCarriedOut => HaltReachesEveryNode
  <2> SUFFICES ASSUME OneHalt, HaltIsCarriedOut, halt, stopReq["killAll"] # "latched",
                      NEW r \in RowIds, Beating(r)
               PROVE  sig[r] \/ StopOnItsWay(r)
    BY DEF HaltReachesEveryNode
  <2>1. child[r] \in NodeStates /\ "killAll" \in Stoppers
    BY DEF Beating, NodeStates, Stoppers
  <2>2. CASE stopReq["killAll"] = "add" \/ StopIsDue
    BY <2>1, <2>2 DEF StopOnItsWay, StopIsDue
  <2>3. CASE NodesAreSignalled
    BY <2>1, <2>3, StepSets DEF NodesAreSignalled, StopOnItsWay, InFlight
  <2> QED
    BY <2>2, <2>3 DEF HaltIsCarriedOut
<1> QED
  BY <1>1, <1>2, <1>3, TypeCorrect, RowInvariant, OwnershipInvariant, PTL DEF Spec, Inv
-----------------------------------------------------------------------------
\* The invariants the steps of the stop's theorem start from.
StopInv == Inv /\ Standing /\ OneStop /\ StopIsKept /\ StopsAreSignalled

\* Rows neither come nor become active, and "stopped" is the end of a node's row and
\* stays.
SteadyRows ==
    /\ n' = n
    /\ \A r \in RowIds :
         /\ rows'[r].status = "absent" <=> rows[r].status = "absent"
         /\ rows'[r].status \in ActiveStatuses => rows[r].status \in ActiveStatuses
         /\ rows[r].status = "stopped" => rows'[r].status = "stopped"
         /\ rows'[r].status = "stopped" => rows[r].status = "stopped" \/ child[r] \in NodeStates
         /\ child'[r] \in EndedWell => child[r] \in EndedWell \/ rows'[r].status = "stopped"

\* The watchdog turns to no stopped row, and without a row nothing restarts.
SteadyTasks ==
    /\ task'["watchdog"].at = "flip" =>
         \/ task'["watchdog"] = task["watchdog"]
         \/ task'["watchdog"].row \in {r \in RowIds : rows'[r].status # "stopped"}
    /\ n = 0 => api' # "sawReady" /\ \A a \in {"restart", "rescan"} : task'[a].at = "idle"

\* A deployment becomes "stopped" with its latest row or by a /stop, and gets live
\* again by a start request or with a row.
SteadyDep ==
    /\ dep'.status = "stopped" =>
         \/ dep.status = "stopped" \/ used'.stops # 0
         \/ n # 0 /\ rows'[n].status = "stopped"
    /\ dep.status \notin DepLive => dep'.status \notin DepLive \/ n # 0 \/ intent' = "start"

Steady == SteadyRows /\ SteadyTasks /\ SteadyDep

\* A steady step keeps what stands.
LEMMA SteadyStands == ASSUME StopInv, SteadyRows, SteadyTasks PROVE Standing'
<1> USE DEF StopInv, Standing
<1>1. LatestIsActive'
  BY DEF LatestIsActive, SteadyRows, Active
<1>2. \A r \in RowIds : child'[r] \in EndedWell => rows'[r].status = "stopped"
  BY DEF StoppedStands, SteadyRows
<1>3. ASSUME task'["watchdog"].at = "flip"
      PROVE  task'["watchdog"].row \in {r \in RowIds : rows'[r].status # "stopped"}
  <2>1. CASE task'["watchdog"] = task["watchdog"]
    <3> DEFINE r == task["watchdog"].row
    <3>1. r \in RowIds /\ rows[r].status # "stopped" /\ "watchdog" \in Actors \ {"consumer"}
      BY <1>3, <2>1 DEF StoppedStands, Actors, Spawners
    <3>2. Detached(r) /\ r # 0
      BY <1>3, <2>1, <3>1, StepSets, BoundsAssumption DEF Inv, Ownership, RowsDetached, RowIds
    <3> QED
      BY <2>1, <3>1, <3>2 DEF SteadyRows, Detached
  <2> QED
    BY <1>3, <2>1 DEF SteadyTasks
<1>4. NoRowNoRestart'
  BY DEF NoRowNoRestart, SteadyTasks, SteadyRows
<1> QED
  BY <1>1, <1>2, <1>3, <1>4 DEF StoppedStands

\* Statuses that stay, and the failing of a row that has not ended, are steady.
LEMMA SameSteady ==
    ASSUME n' = n, \A r \in RowIds : rows'[r].status = rows[r].status,
           \A r \in RowIds : child'[r] \in EndedWell => child[r] \in EndedWell
    PROVE  SteadyRows
  BY DEF SteadyRows

LEMMA FailSteady ==
    ASSUME TypeOK, NEW r, NEW k, rows' = Failed(r, k), n' = n,
           r \in RowIds => rows[r].status \notin {"stopped", "absent"},
           \A q \in RowIds : child'[q] \in EndedWell => child[q] \in EndedWell
    PROVE  SteadyRows
<1>1. \A q \in RowIds : q # r => rows'[q] = rows[q]
  BY DEF Failed, TypeOK
<1>2. r \in RowIds => rows'[r].status = "failed"
  BY DEF Failed, TypeOK, Row
<1> QED
  BY <1>1, <1>2, StepSets DEF SteadyRows

\* A deployment that is left alone, or synced to "failed", is steady.
LEMMA SyncSteady ==
    ASSUME TypeOK, dep' = dep \/ dep' = Synced("failed") PROVE SteadyDep
<1>1. Synced("failed").status = IF dep.status \in DepLive THEN "failed" ELSE dep.status
  BY DEF Synced, TypeOK, Dep
<1> QED
  BY <1>1 DEF SteadyDep, DepLive

\* Where no row is, none has a status, and nothing runs.
LEMMA NoRows ==
    ASSUME Inv, n = 0
    PROVE  \A r \in RowIds : rows[r].status = "absent" /\ child[r] = "none"
<1>1. \A r \in RowIds : r > n
  BY BoundsAssumption DEF RowIds
<1> QED
  BY <1>1 DEF Inv, Ownership, NumberedRows, RowsExist

\* The requests move no row's status; a start request sees "ready" in a row only.
LEMMA ApiSteady == ASSUME StopInv, Api PROVE Steady
<1> USE DEF db, procs, mem, bus, reqs, env
<1>0. TypeOK /\ Inv /\ OneStop /\ used \in Used /\ dep \in Dep
  BY DEF StopInv, Inv, TypeOK
<1>1. UNCHANGED <<child, task, n>>
  BY DEF Api, ApiAdmit, ApiStart, ApiAlreadyActive, ApiPublishStart, ApiPoll, ApiCommitRunning,
         ApiPollTimeout, ApiTimeoutFlip, ApiStop, ApiStopPublish, ApiStopPoll, ApiStopCommit,
         KillAllLatch, KillAllPublish, KillAllPoll, PublishStop, InflightExpires, Resume
<1>2. \A r \in RowIds : rows'[r].status = rows[r].status
  <2>1. CASE ApiStop
    <3>1. \A r \in RowIds : [rows[r] EXCEPT !.stop = TRUE].status = rows[r].status
      BY <1>0 DEF TypeOK, Row
    <3>2. \A r \in RowIds : rows'[r] = rows[r] \/ rows'[r] = [rows[r] EXCEPT !.stop = TRUE]
      BY <1>0, <2>1 DEF ApiStop, StopWithoutActiveRow, TypeOK
    <3> QED
      BY <3>1, <3>2
  <2>2. CASE rows' = rows
    BY <2>2
  <2> QED
    BY <2>1, <2>2
       DEF Api, ApiAdmit, ApiStart, ApiAlreadyActive, ApiPublishStart, ApiPoll, ApiCommitRunning,
           ApiPollTimeout, ApiTimeoutFlip, ApiStopPublish, ApiStopPoll, ApiStopCommit,
           KillAllLatch, KillAllPublish, KillAllPoll, PublishStop, InflightExpires, Resume
<1>3. SteadyRows
  BY <1>1, <1>2, SameSteady
<1>4. ASSUME n = 0 PROVE api' # "sawReady"
  <2>1. CASE ApiPoll
    <3>1. \A r \in RowIds : rows[r].status = "absent"
      BY <1>0, <1>4, NoRows
    <3>2. \A r \in RowIds : ~(r <= n)
      BY <1>4, BoundsAssumption DEF RowIds
    <3>3. PolledRow = 0
      BY <3>1, <3>2 DEF PolledRow
    <3> QED
      BY <2>1, <3>3 DEF ApiPoll
  <2>2. CASE ~ApiPoll
    BY <1>4, <2>2
       DEF Api, ApiAdmit, ApiStart, ApiAlreadyActive, ApiPublishStart, ApiCommitRunning,
           ApiPollTimeout, ApiTimeoutFlip, ApiStop, ApiStopPublish, ApiStopPoll, ApiStopCommit,
           KillAllLatch, KillAllPublish, KillAllPoll, PublishStop, InflightExpires, Resume,
           StopInv, Standing, NoRowNoRestart
  <2> QED
    BY <2>1, <2>2
<1>5. SteadyTasks
  BY <1>1, <1>4 DEF SteadyTasks, StopInv, Standing, NoRowNoRestart
<1>6. SteadyDep
  <2>1. CASE ApiStart
    <3>1. intent' = "start" /\ dep'.status # "stopped"
      BY <1>0, <2>1 DEF ApiStart, Dep, DepStatuses, DepLive
    <3> QED
      BY <3>1 DEF SteadyDep
  <2>2. CASE ApiAlreadyActive
    <3>1. PICK r \in RowIds : rows[r].status \in LiveStatuses
      BY <2>2 DEF ApiAlreadyActive
    <3>2. n # 0
      BY <1>0, <3>1, NoRows, StepSets
    <3>3. dep'.status \in {dep.status, "running"}
      BY <1>0, <2>2 DEF ApiAlreadyActive, Dep
    <3> QED
      BY <3>2, <3>3 DEF SteadyDep
  <2>3. CASE ApiCommitRunning
    <3>1. n # 0
      BY <2>3 DEF ApiCommitRunning, StopInv, Standing, NoRowNoRestart
    <3>2. dep'.status = "running"
      BY <1>0, <2>3 DEF ApiCommitRunning, Dep
    <3> QED
      BY <3>1, <3>2 DEF SteadyDep
  <2>4. CASE ApiPublishStart \/ ApiTimeoutFlip
    <3>1. dep'.status \in {dep.status, "failed"}
      BY <1>0, <2>4 DEF ApiPublishStart, ApiTimeoutFlip, Dep
    <3> QED
      BY <3>1 DEF SteadyDep, DepLive
  <2>5. CASE ApiStop
    <3>1. used'.stops # 0
      BY <1>0, <2>5 DEF ApiStop, Used
    <3>2. dep'.status \in {dep.status, "stopped"}
      BY <1>0, <2>5 DEF ApiStop, StopWithoutActiveRow, Synced, Dep
    <3> QED
      BY <3>1, <3>2 DEF SteadyDep, DepLive
  <2>6. CASE ApiStopCommit
    <3>1. used'.stops # 0
      BY <1>0, <2>6 DEF ApiStopCommit, OneStop
    <3>2. dep'.status = "stopped"
      BY <1>0, <2>6 DEF ApiStopCommit, Dep
    <3> QED
      BY <3>1, <3>2 DEF SteadyDep, DepLive
  <2>7. CASE dep' = dep
    BY <1>0, <2>7, SyncSteady
  <2> QED
    BY <2>1, <2>2, <2>3, <2>4, <2>5, <2>6, <2>7
       DEF Api, ApiAdmit, ApiPoll, ApiPollTimeout, ApiStopPublish, ApiStopPoll,
           KillAllLatch, KillAllPublish, KillAllPoll, PublishStop, InflightExpires, Resume
<1> QED
  BY <1>3, <1>5, <1>6 DEF Steady

\* A spawn after its reservation fails no row but the one it has reserved.
LEMMA SpawnSteady ==
    ASSUME StopInv, NEW a \in Spawners, Spawn(a), ~(phase_a_reserve_slot(a) /\ n' # n) PROVE Steady
<1> USE DEF db, procs, mem, bus, reqs, env
<1>0. TypeOK /\ Inv /\ a \in Actors /\ {"restart", "rescan", "watchdog"} \subseteq Actors
  BY DEF StopInv, Inv, Actors, Spawners
<1>1. /\ n' = n /\ api' = api /\ \A b \in Actors \ {a} : task'[b] = task[b]
  <2>1. n' = n /\ api' = api
    BY DEF Spawn, phase_a_reserve_slot, HaltCheck, PayloadFactory, StopIntentGate, StartProcess,
           PhaseC, mark_failed, terminalize_reserved_row
  <2>2. \E t : task' = [task EXCEPT ![a] = t]
    <3>1. /\ \A s : Goto(a, s) => \E t : task' = [task EXCEPT ![a] = t]
          /\ \A k, ack : Fail(a, k, ack) => \E t : task' = [task EXCEPT ![a] = t]
          /\ \A ack : AfterSpawn(a, ack) => \E t : task' = [task EXCEPT ![a] = t]
          /\ SpawnRaises(a) => \E t : task' = [task EXCEPT ![a] = t]
      BY DEF Goto, Fail, AfterSpawn, SpawnRaises, NextAttempt
    <3> QED
      BY <3>1 DEF Spawn, phase_a_reserve_slot, HaltCheck, PayloadFactory, StopIntentGate,
                  StartProcess, PhaseC, mark_failed, terminalize_reserved_row
  <2> QED
    BY <1>0, <2>1, <2>2 DEF TypeOK
<1>2. SteadyTasks
  <2>1. task'["watchdog"] = task["watchdog"]
    BY <1>0, <1>1 DEF Spawners
  <2>2. task[a].at # "idle"
    BY DEF Spawn, phase_a_reserve_slot, HaltCheck, PayloadFactory, StopIntentGate, StartProcess,
           PhaseC, mark_failed, terminalize_reserved_row
  <2> QED
    BY <1>0, <1>1, <2>1, <2>2 DEF SteadyTasks, StopInv, Standing, NoRowNoRestart
<1>3. \A r \in RowIds : child'[r] \in EndedWell => child[r] \in EndedWell
  BY <1>0 DEF Spawn, phase_a_reserve_slot, HaltCheck, PayloadFactory, StopIntentGate, StartProcess,
              PhaseC, mark_failed, terminalize_reserved_row, TypeOK, EndedWell
<1>4. CASE mark_failed(a) \/ terminalize_reserved_row(a)
  <2>1. \/ rows' = rows /\ dep' = dep
        \/ (\E k : rows' = Failed(task[a].row, k)) /\ dep' = Synced("failed")
    BY <1>4 DEF mark_failed, terminalize_reserved_row, Terminalized
  <2>2. Active(task[a].row)
    BY <1>0, <1>4, StepSets DEF mark_failed, terminalize_reserved_row, Inv, Ownership, SpawnsReserved
  <2>3. SteadyRows
    BY <1>0, <1>1, <1>3, <2>1, <2>2, FailSteady, SameSteady, StepSets DEF Active
  <2> QED
    BY <1>0, <1>2, <2>1, <2>3, SyncSteady DEF Steady
<1>5. CASE PhaseC(a)
  <2>1. \A r \in RowIds : [rows[r] EXCEPT !.pid = TRUE].status = rows[r].status
    BY <1>0 DEF TypeOK, Row
  <2>2. \A r \in RowIds : rows'[r] = rows[r] \/ rows'[r] = [rows[r] EXCEPT !.pid = TRUE]
    BY <1>0, <1>5 DEF PhaseC, TypeOK
  <2>3. SteadyRows
    BY <1>1, <1>3, <2>1, <2>2, SameSteady
  <2> QED
    BY <1>0, <1>2, <1>5, <2>3, SyncSteady DEF Steady, PhaseC
<1>6. CASE UNCHANGED <<rows, dep>>
  BY <1>0, <1>1, <1>2, <1>3, <1>6, SameSteady, SyncSteady DEF Steady
<1>7. CASE phase_a_reserve_slot(a)
  <2>1. n # n + 1
    BY <1>0 DEF TypeOK
  <2>2. UNCHANGED db
    BY <1>1, <1>7, <2>1 DEF phase_a_reserve_slot
  <2> QED
    BY <1>6, <2>2
<1> QED
  BY <1>4, <1>5, <1>6, <1>7 DEF Spawn, HaltCheck, PayloadFactory, StopIntentGate, StartProcess

\* The restart task and the re-scan fail live rows only, and there is a row.
LEMMA AutoRestartSteady ==
    ASSUME StopInv, NEW a \in {"restart", "rescan"}, AutoRestart(a) PROVE Steady
<1> USE DEF db, procs, mem, bus, reqs, env
<1>0. TypeOK /\ Inv /\ a \in Actors /\ "watchdog" \in Actors
  BY DEF StopInv, Inv, Actors, Spawners
<1>1. /\ UNCHANGED <<n, child>> /\ task[a].at # "idle"
      /\ dep' = dep \/ dep' = Synced("failed")
  BY DEF AutoRestart, load_restart_context, RestartGates, Backoff, refail_stranded_restart,
         clear_sentinel_and_refail_after_giveup
<1>2. n # 0
  BY <1>1 DEF StopInv, Standing, NoRowNoRestart
<1>3. task'["watchdog"] = task["watchdog"]
  <2>1. \E t : task' = [task EXCEPT ![a] = t]
    BY DEF AutoRestart, load_restart_context, RestartGates, Backoff, refail_stranded_restart,
           clear_sentinel_and_refail_after_giveup, NextAttempt
  <2> QED
    BY <1>0, <2>1 DEF TypeOK
<1>4. SteadyRows
  <2>1. CASE refail_stranded_restart(a)
    BY <1>0, <1>1, <2>1, FailSteady, SameSteady, StepSets DEF refail_stranded_restart
  <2>2. CASE clear_sentinel_and_refail_after_giveup(a)
    <3> DEFINE r == task[a].owned
    <3>1. \A q \in RowIds : rows'[q] = IF q = r THEN GivenUp(r) ELSE rows[q]
      BY <1>0, <2>2 DEF clear_sentinel_and_refail_after_giveup, TypeOK
    <3>2. r \in RowIds => \/ GivenUp(r).status = rows[r].status
                          \/ rows[r].status \in LiveStatuses /\ GivenUp(r).status = "failed"
      BY <1>0 DEF GivenUp, TypeOK, Row
    <3> QED
      BY <1>1, <3>1, <3>2, StepSets DEF SteadyRows
  <2>3. CASE rows' = rows
    BY <1>1, <2>3, SameSteady
  <2> QED
    BY <2>1, <2>2, <2>3 DEF AutoRestart, load_restart_context, RestartGates, Backoff
<1> QED
  BY <1>0, <1>1, <1>2, <1>3, <1>4, SyncSteady DEF Steady, SteadyTasks

\* FleetRouter.stop's transaction leaves the active row active; what it writes to the
\* deployment comes of a /stop.
LEMMA ConsumerSteady == ASSUME StopInv, Consumer PROVE Steady
<1> USE DEF db, procs, mem, bus, reqs, env
<1>0. /\ TypeOK /\ Inv /\ OneStop /\ {"consumer", "restart", "rescan", "watchdog"} \subseteq Actors
      /\ dep \in Dep
  BY DEF StopInv, Inv, Actors, Spawners, TypeOK
<1>1. UNCHANGED <<n, child, api, used>> \/ Ack
  BY DEF Consumer, Deliver, MoveToDlq, stop, StopSignal
<1>2. UNCHANGED <<n, child, api>>
  BY <1>1 DEF Ack
<1>3. \A a \in Actors \ {"consumer"} : task'[a] = task[a]
  BY <1>0 DEF Consumer, Deliver, MoveToDlq, stop, StopSignal, Ack, Goto, TypeOK
<1>4. SteadyTasks
  BY <1>0, <1>2, <1>3 DEF SteadyTasks, StopInv, Standing, NoRowNoRestart
<1>5. CASE stop
  <2>1. used'.stops # 0
    BY <1>0, <1>5 DEF stop, OneStop, StopIsDue
  <2>2. dep'.status \in {dep.status, "stopped"}
    BY <1>0, <1>5 DEF stop, StopWithoutActiveRow, Synced, Dep
  <2>3. SteadyDep
    BY <2>1, <2>2 DEF SteadyDep, DepLive
  <2>4. \A r \in RowIds : /\ [rows[r] EXCEPT !.stop = TRUE].status = rows[r].status
                          /\ [rows[r] EXCEPT !.status = "stopping", !.stop = TRUE].status = "stopping"
    BY <1>0 DEF TypeOK, Row
  <2>5. CASE ActiveRows = {}
    <3>1. \A r \in RowIds : rows'[r] = rows[r] \/ rows'[r] = [rows[r] EXCEPT !.stop = TRUE]
      BY <1>0, <1>5, <2>5 DEF stop, StopWithoutActiveRow, TypeOK
    <3>2. SteadyRows
      BY <1>2, <2>4, <3>1, SameSteady
    <3> QED
      BY <1>4, <2>3, <3>2 DEF Steady
  <2>6. CASE ActiveRows # {}
    <3>1. PICK r \in ActiveRows :
             \/ rows' = [rows EXCEPT ![r] = [@ EXCEPT !.status = "stopping", !.stop = TRUE]]
             \/ rows' = rows
      BY <1>5, <2>6 DEF stop
    <3>2. \A q \in RowIds : rows'[q].status = rows[q].status \/ (q = r /\ rows'[q].status = "stopping")
      BY <1>0, <2>4, <3>1 DEF TypeOK
    <3>3. rows[r].status \in ActiveStatuses
      BY DEF ActiveRows, Active
    <3>4. SteadyRows
      BY <1>2, <3>2, <3>3, StepSets DEF SteadyRows
    <3> QED
      BY <1>4, <2>3, <3>4 DEF Steady
  <2> QED
    BY <2>5, <2>6
<1>6. CASE UNCHANGED <<rows, dep>>
  BY <1>0, <1>2, <1>4, <1>6, SameSteady, SyncSteady DEF Steady
<1> QED
  BY <1>5, <1>6 DEF Consumer, Deliver, MoveToDlq, StopSignal, Ack

\* The loops fail active rows only: an exit 0 has marked its row, and the row that the
\* watchdog comes back to has not ended.
LEMMA LoopsSteady == ASSUME StopInv, Loops PROVE Steady
<1> USE DEF db, procs, mem, bus, reqs, env
<1>0. /\ TypeOK /\ Inv /\ {"consumer", "restart", "rescan", "watchdog"} \subseteq Actors
  BY DEF StopInv, Inv, Actors, Spawners
<1>1. UNCHANGED <<n, api>>
  BY DEF Loops, rescan_for_restart, reap_once, on_child_exit, watchdog_once, WatchdogFlip,
         reap_ownerless_active_rows, mark_stale_as_failed
<1>2. ASSUME NEW r \in RowIds, Active(r), NEW k, rows' = Failed(r, k), dep' = Synced("failed"),
             UNCHANGED <<child, task>>
      PROVE  Steady
  <2>1. SteadyRows
    BY <1>0, <1>1, <1>2, FailSteady, StepSets DEF Active
  <2>2. SteadyTasks
    BY <1>0, <1>1, <1>2 DEF SteadyTasks, StopInv, Standing, NoRowNoRestart
  <2> QED
    BY <1>0, <1>2, <2>1, <2>2, SyncSteady DEF Steady
<1>3. CASE rescan_for_restart
  <2>1. /\ n # 0 /\ UNCHANGED child /\ (dep' = dep \/ dep' = Synced("failed"))
        /\ rows' = rows \/ (rows' = Failed(n, "crash") /\ rows[n].status \in LiveStatuses)
        /\ task' = task \/ Goto("rescan", "ctx")
    BY <1>3 DEF rescan_for_restart, StaleLatest
  <2>2. task'["watchdog"] = task["watchdog"]
    BY <1>0, <2>1 DEF Goto, TypeOK
  <2>3. SteadyRows
    BY <1>0, <1>1, <2>1, FailSteady, SameSteady, StepSets
  <2> QED
    BY <1>0, <2>1, <2>2, <2>3, SyncSteady DEF Steady, SteadyTasks
<1>4. CASE reap_once
  BY <1>0, <1>1, <1>4, SameSteady, SyncSteady
     DEF reap_once, Steady, SteadyTasks, StopInv, Standing, NoRowNoRestart
<1>5. CASE on_child_exit
  <2>1. reap \in RowIds /\ child[reap] \in Ended
    BY <1>0, <1>5, BoundsAssumption DEF on_child_exit, Inv, Ownership, ExitsSeen, TypeOK, RowIds
  <2>2. n # 0
    BY <1>0, <2>1, NoRows DEF Ended
  <2>3. Active(reap) => ExitStatus(reap) = "failed"
    BY <2>1, StepSets DEF ExitStatus, StopInv, Standing, StoppedStands, EndedWell, Active
  <2>4. Exited(reap).status = IF Active(reap) THEN "failed" ELSE rows[reap].status
    BY <1>0, <2>1, <2>3 DEF Exited, TypeOK, Row
  <2>5. \A q \in RowIds : rows'[q] = IF q = reap THEN Exited(reap) ELSE rows[q]
    BY <1>0, <1>5 DEF on_child_exit, TypeOK
  <2>6. UNCHANGED child /\ (dep' = dep \/ dep' = Synced("failed"))
    BY <1>5, <2>3 DEF on_child_exit
  <2>7. SteadyRows
    BY <1>1, <2>4, <2>5, <2>6, StepSets DEF SteadyRows, Active
  <2>8. task'["watchdog"] = task["watchdog"]
    BY <1>0, <1>5 DEF on_child_exit, TypeOK
  <2> QED
    BY <1>0, <2>2, <2>6, <2>7, <2>8, SyncSteady DEF Steady, SteadyTasks
<1>6. ASSUME NEW r \in RowIds, watchdog_once(r) PROVE Steady
  <2>1. UNCHANGED <<rows, dep>> /\ rows[r].status \in StartupStatuses
    BY <1>6 DEF watchdog_once, Wedged
  <2>2. \A q \in RowIds : child'[q] \in EndedWell => child[q] \in EndedWell
    BY <1>6 DEF watchdog_once, EndedWell
  <2>3. task'["watchdog"].row = r /\ \A a \in Actors \ {"watchdog"} : task'[a] = task[a]
    <3>1. [task["watchdog"] EXCEPT !.at = "flip", !.row = r].row = r
      BY <1>0 DEF TypeOK, Task
    <3> QED
      BY <1>0, <1>6, <3>1 DEF watchdog_once, TypeOK
  <2>4. SteadyTasks
    BY <1>0, <1>1, <2>1, <2>3 DEF SteadyTasks, StartupStatuses, StopInv, Standing, NoRowNoRestart
  <2> QED
    BY <1>0, <1>1, <2>1, <2>2, <2>4, SameSteady, SyncSteady DEF Steady
<1>7. CASE WatchdogFlip
  <2> DEFINE r == task["watchdog"].row
  <2>1. /\ UNCHANGED child /\ rows' = Failed(r, "crash") /\ dep' = Synced("failed")
        /\ r \in RowIds /\ rows[r].status # "stopped"
    BY <1>7 DEF WatchdogFlip, StopInv, Standing, StoppedStands
  <2>2. rows[r].status # "absent"
    <3>1. Detached(r) /\ r # 0
      BY <1>0, <1>7, <2>1, StepSets, BoundsAssumption
         DEF WatchdogFlip, Inv, Ownership, RowsDetached, RowIds
    <3> QED
      BY <3>1 DEF Detached
  <2>3. SteadyRows
    BY <1>0, <1>1, <2>1, <2>2, FailSteady
  <2>4. task'["watchdog"].at = "idle" /\ \A a \in Actors \ {"watchdog"} : task'[a] = task[a]
    BY <1>0, <1>7 DEF WatchdogFlip, TypeOK, Idle
  <2>5. SteadyTasks
    BY <1>0, <1>1, <2>4 DEF SteadyTasks, StopInv, Standing, NoRowNoRestart
  <2> QED
    BY <1>0, <2>1, <2>3, <2>5, SyncSteady DEF Steady
<1>8. ASSUME NEW r \in RowIds, reap_ownerless_active_rows(r) \/ mark_stale_as_failed(r) PROVE Steady
  BY <1>2, <1>8, StepSets DEF reap_ownerless_active_rows, mark_stale_as_failed, Active
<1> QED
  BY <1>3, <1>4, <1>5, <1>6, <1>7, <1>8 DEF Loops

\* A subprocess that writes is a node, whose row is active and the latest.
LEMMA SubprocessSteady ==
    ASSUME StopInv, NEW r \in RowIds, Subprocess(r) \/ HeartbeatStale(r) PROVE Steady
<1> USE DEF db, procs, mem, bus, reqs, env
<1>0. /\ TypeOK /\ Inv /\ dep \in Dep /\ {"restart", "rescan", "watchdog"} \subseteq Actors
      /\ r # 0
  BY BoundsAssumption DEF StopInv, Inv, Actors, Spawners, TypeOK, RowIds
<1>1. UNCHANGED <<n, api, task, used, intent>>
  BY DEF Subprocess, self_write_pid, mark_ready, mark_running, ChildEnds, ChildDies, ChildExits,
         HeartbeatStale
<1>2. SteadyTasks
  BY <1>0, <1>1 DEF SteadyTasks, StopInv, Standing, NoRowNoRestart
<1>3. child[r] \in NodeStates => Active(r) /\ n = r
  BY <1>0 DEF StopInv, Inv, Ownership, NodesOwned, Standing, LatestIsActive
<1>4. ASSUME NEW st \in {"stopped", "failed"}, NEW k, child[r] \in NodeStates, mark_terminal(r, st, k)
      PROVE  Steady
  <2>1. \A q \in RowIds : child'[q] = IF q = r THEN (IF st = "stopped" THEN "exiting0" ELSE "exiting1")
                                     ELSE child[q]
    BY <1>0, <1>4 DEF mark_terminal, TypeOK
  <2> DEFINE v == [rows[r] EXCEPT !.status = st, !.kind = k, !.stale = FALSE]
  <2>2. v.status = st
    BY <1>0 DEF TypeOK, Row
  <2>3. \A q \in RowIds : rows'[q] = IF q = r THEN v ELSE rows[q]
    BY <1>0, <1>4 DEF mark_terminal, TypeOK
  <2> HIDE DEF v
  <2>4. SteadyRows
    BY <1>1, <1>3, <1>4, <2>1, <2>2, <2>3, StepSets DEF SteadyRows, Active, EndedWell
  <2>5. dep'.status = IF dep.status \in DepLive THEN st ELSE dep.status
    BY <1>0, <1>4 DEF mark_terminal, Synced, Dep
  <2>6. SteadyDep
    BY <1>0, <1>3, <1>4, <2>2, <2>3, <2>5 DEF SteadyDep, DepLive
  <2> QED
    BY <1>2, <2>4, <2>6 DEF Steady
<1>5. ASSUME NEW st, child[r] \in NodeStates, st \in ActiveStatuses,
             \A q \in RowIds : rows'[q].status = IF q = r THEN st ELSE rows[q].status,
             \A q \in RowIds : child'[q] \in EndedWell => child[q] \in EndedWell
      PROVE  SteadyRows
  BY <1>1, <1>3, <1>5, StepSets DEF SteadyRows, Active
<1>6. ASSUME NEW st \in {"building", "ready"}, child[r] \in NodeStates, ChildWrite(r, st) PROVE Steady
  <2>1. CASE mark_terminal(r, "failed", "neverran")
    BY <1>4, <1>6, <2>1
  <2>2. CASE ActiveRows \ {r} = {}
    <3>1. \A q \in RowIds : child'[q] \in EndedWell => child[q] \in EndedWell
      BY <1>0, <1>6, <2>2 DEF ChildWrite, TypeOK, EndedWell
    <3>2. [rows[r] EXCEPT !.status = st, !.stale = FALSE, !.pid = TRUE].status = st
      BY <1>0 DEF TypeOK, Row
    <3>3. \A q \in RowIds : rows'[q].status = IF q = r THEN st ELSE rows[q].status
      BY <1>0, <1>6, <2>2, <3>2 DEF ChildWrite, TypeOK
    <3>4. dep' = dep
      BY <1>6, <2>2 DEF ChildWrite
    <3> QED
      BY <1>0, <1>2, <1>5, <1>6, <3>1, <3>3, <3>4, SyncSteady, StepSets DEF Steady
  <2> QED
    BY <1>6, <2>1, <2>2 DEF ChildWrite
<1>7. CASE self_write_pid(r) \/ mark_ready(r)
  BY <1>6, <1>7 DEF self_write_pid, mark_ready, NodeStates
<1>8. CASE mark_running(r)
  <2>1. child[r] \in NodeStates /\ \A q \in RowIds : child'[q] \in EndedWell => child[q] \in EndedWell
    BY <1>0, <1>8 DEF mark_running, TypeOK, EndedWell, NodeStates
  <2>2. dep'.status = dep.status \/ (dep.status = "starting" /\ dep'.status = "running")
    BY <1>0, <1>8 DEF mark_running, Dep
  <2>3. SteadyDep
    BY <2>2 DEF SteadyDep, DepLive
  <2>4. CASE rows' = rows
    BY <1>1, <1>2, <2>1, <2>3, <2>4, SameSteady DEF Steady
  <2>5. CASE rows' # rows
    <3>1. [rows[r] EXCEPT !.status = "running", !.stale = FALSE, !.fails = record_success.fails,
                          !.paused = record_success.paused].status = "running"
      BY <1>0 DEF TypeOK, Row
    <3>2. \A q \in RowIds : rows'[q].status = IF q = r THEN "running" ELSE rows[q].status
      BY <1>0, <1>8, <2>5, <3>1 DEF mark_running, TypeOK
    <3> QED
      BY <1>2, <1>5, <2>1, <2>3, <3>2, StepSets DEF Steady
  <2> QED
    BY <2>4, <2>5
<1>9. CASE ChildEnds(r)
  BY <1>4, <1>9 DEF ChildEnds, NodeStates
<1>10. CASE ChildDies(r) \/ ChildExits(r)
  <2>1. \A q \in RowIds : child'[q] \in EndedWell => child[q] \in EndedWell
    BY <1>0, <1>10 DEF ChildDies, ChildExits, TypeOK, EndedWell
  <2> QED
    BY <1>0, <1>1, <1>2, <1>10, <2>1, SameSteady, SyncSteady DEF Steady, ChildDies, ChildExits
<1>11. CASE HeartbeatStale(r)
  <2>1. [rows[r] EXCEPT !.stale = TRUE].status = rows[r].status
    BY <1>0 DEF TypeOK, Row
  <2>2. \A q \in RowIds : rows'[q].status = rows[q].status
    BY <1>0, <1>11, <2>1 DEF HeartbeatStale, TypeOK
  <2> QED
    BY <1>0, <1>1, <1>2, <1>11, <2>2, SameSteady, SyncSteady DEF Steady, HeartbeatStale
<1> QED
  BY <1>7, <1>8, <1>9, <1>10, <1>11 DEF Subprocess

\* What the steps keep, other than what stands.
Stops == OneStop /\ StopIsKept /\ StopsAreSignalled

\* The row numbers up to n are rows, and those are there.
LEMMA RowsSoFar ==
    ASSUME StopInv
    PROVE  /\ n \in 0 .. MaxRows /\ MaxRows \in Nat
           /\ \A r \in 1 .. n : r \in RowIds /\ rows[r].status # "absent"
           /\ n # 0 => n \in 1 .. n
<1>1. n \in 0 .. MaxRows /\ MaxRows \in Nat
  BY BoundsAssumption DEF StopInv, Inv, TypeOK
<1> QED
  BY <1>1 DEF StopInv, Standing, LatestIsActive, RowIds

\* What began behind an end stays behind it.
LEMMA EndStays ==
    ASSUME StopInv, BehindAnEnd(n), n' \in {n, n + 1}, n' # n => ~rows'[n'].stop,
           \A r \in 1 .. n : /\ rows'[r].stop = rows[r].stop /\ rows'[r].auto = rows[r].auto
                             /\ rows[r].status = "stopped" => rows'[r].status = "stopped"
    PROVE  BehindAnEnd(n)'
<1>1. n \in Nat
  BY RowsSoFar
<1>2. PICK q \in 1 .. n - 1 : /\ \/ rows[q].stop /\ ~rows[q + 1].auto
                                 \/ ~rows[q].stop /\ rows[q].status = "stopped"
                              /\ \A p \in q + 1 .. n : ~rows[p].stop
  BY DEF BehindAnEnd
<1>3. /\ q \in 1 .. n /\ q + 1 \in 1 .. n /\ \A p \in q + 1 .. n : p \in 1 .. n
      /\ q \in 1 .. n' - 1
  <2>1. /\ q \in 1 .. n /\ q + 1 \in 1 .. n /\ \A p \in q + 1 .. n : p \in 1 .. n
        /\ q \in 1 .. (n + 1) - 1
    BY <1>1
  <2> QED
    BY <2>1
<1>4. \A p \in q + 1 .. n' : ~rows'[p].stop
  <2> SUFFICES ASSUME NEW p \in q + 1 .. n' PROVE ~rows'[p].stop
    OBVIOUS
  <2>1. p \in q + 1 .. n \/ (p = n' /\ n' # n)
    BY <1>1, <1>3
  <2> QED
    BY <1>2, <1>3, <2>1
<1> QED
  BY <1>2, <1>3, <1>4 DEF BehindAnEnd

\* An orderly and steady step keeps the invariant.
LEMMA SteadyKeeps == ASSUME StopInv, Orderly, Steady PROVE Stops'
<1> USE DEF StopInv, Orderly, Steady
<1>0. n' = n
  BY DEF SteadyRows
<1>1. \A r \in 1 .. n : /\ rows'[r].stop = rows[r].stop /\ rows'[r].auto = rows[r].auto
                        /\ rows[r].status = "stopped" => rows'[r].status = "stopped"
  BY RowsSoFar DEF OrderlyRows, SteadyRows
<1>2. n # 0 => n \in 1 .. n
  BY RowsSoFar
<1>3. StopUnderWay' = StopUnderWay /\ (intent' = "stop" => intent = "stop")
  BY DEF StopUnderWay, OrderlyRequests
<1>4. OneStop'
  <2>1. Served' /\ ~halt' /\ stopReq'["killAll"] = "idle"
    BY DEF OneStop, Served, OrderlyRows, OrderlyTasks, OrderlyRequests
  <2>2. used'.stops = 0 /\ dep'.status = "stopped" => n' = 0 \/ rows'[n'].status = "stopped"
    BY <1>0, <1>1, <1>2 DEF OneStop, SteadyDep, OrderlyRequests
  <2> QED
    BY <1>0, <1>3, <2>1, <2>2 DEF OneStop, OrderlyTasks, OrderlyRequests
<1>5. StopIsKept'
  <2> SUFFICES ASSUME intent' = "stop" \/ StopUnderWay'
               PROVE  IF n' = 0 THEN dep'.status \notin DepLive
                      ELSE rows'[n'].stop \/ rows'[n'].status = "stopped" \/ BehindAnEnd(n)'
    BY DEF StopIsKept
  <2>1. intent = "stop" \/ StopUnderWay
    BY <1>3
  <2>2. CASE n = 0
    <3>1. ~StopUnderWay /\ dep.status \notin DepLive
      BY <2>1, <2>2 DEF OneStop, StopIsKept
    <3> QED
      BY <1>0, <1>3, <2>2, <3>1 DEF SteadyDep
  <2>3. CASE n # 0
    <3>1. rows[n].stop \/ rows[n].status = "stopped" \/ BehindAnEnd(n)
      BY <2>1, <2>3 DEF StopIsKept
    <3> QED
      BY <1>0, <1>1, <1>2, <2>3, <3>1, EndStays
  <2> QED
    BY <2>2, <2>3
<1>6. StopsAreSignalled'
  <2> SUFFICES ASSUME NEW r \in RowIds, rows'[r].stop, child'[r] \in NodeStates
               PROVE  \/ sig'[r] \/ StopUnderWay' \/ StopIsDue' \/ task'["consumer"].at = "stopSig"
                      \/ \E a \in Actors : task'[a].at = "phaseC" /\ task'[a].row = r
    BY DEF StopsAreSignalled
  <2>1. child[r] \in NodeStates /\ rows[r].status # "absent"
    BY StepSets DEF OrderlyNodes, Inv, RowsExist, NodeStates
  <2>2. rows[r].stop
    BY <2>1 DEF OrderlyRows
  <2> QED
    BY <1>3, <2>1, <2>2 DEF StopsAreSignalled, OrderlyNodes, OrderlyTasks
<1> QED
  BY <1>4, <1>5, <1>6 DEF Stops

\* Phase A inserts a row behind a stop intent for a START only, and without a row for
\* a deployment that a start request has made live.
LEMMA ReserveStops ==
    ASSUME StopInv, Uninterrupted, NEW a \in Spawners, phase_a_reserve_slot(a), n' # n
    PROVE  Standing' /\ Stops'
<1> USE DEF db, procs, mem, bus, reqs, env
<1>0. /\ TypeOK /\ Inv /\ OneStop /\ Served /\ a \in Actors /\ n \in Nat /\ dep \in Dep
      /\ "consumer" \in Actors /\ "watchdog" \in Actors
  BY RowsSoFar DEF StopInv, Inv, OneStop, Actors, Spawners, TypeOK
<1>1. PICK gwBusy \in BOOLEAN : PhaseAOutcome(a, gwBusy) = "RESERVED"
  BY DEF phase_a_reserve_slot
<1>2. /\ dep.status # "stopped" /\ ActiveRows = {}
      /\ Carry(a) => ~latest_stop_requested_at
      /\ dep.status = "failed" => Carry(a) \/ RetryEligible
  BY <1>1 DEF PhaseAOutcome
<1>3. PICK v : /\ rows' = [rows EXCEPT ![n + 1] = v]
               /\ v.status = "starting" /\ v.stop = FALSE /\ v.auto = Carry(a) /\ v.local
  <2>1. \A within \in BOOLEAN :
          LET v == NewRow(a, within)
          IN  v.status = "starting" /\ v.stop = FALSE /\ v.auto = Carry(a) /\ v.local
    BY DEF NewRow, NoRow
  <2> QED
    BY <2>1 DEF phase_a_reserve_slot
<1>4. /\ n' = n + 1 /\ n < MaxRows /\ task[a].at = "phaseA"
      /\ dep' = [dep EXCEPT !.status = IF @ = "failed" THEN "starting" ELSE @]
      /\ task' = [task EXCEPT ![a] = [@ EXCEPT !.at = "haltCheck", !.row = n + 1]]
      /\ UNCHANGED <<child, sig, stream, pel, api, stopReq, inflight, halt, sup, intent, used>>
  BY DEF phase_a_reserve_slot
<1>5. /\ n + 1 \in RowIds /\ \A r \in RowIds : rows'[r] = IF r = n + 1 THEN v ELSE rows[r]
      /\ rows[n + 1].status = "absent" /\ child[n + 1] = "none"
      /\ \A r \in 1 .. n : r \in RowIds /\ r # n + 1
  <2>1. n + 1 \in RowIds /\ n + 1 > n
    BY <1>0, <1>4, BoundsAssumption DEF RowIds
  <2>2. \A r \in 1 .. n : r \in RowIds /\ r # n + 1
    BY <1>0, RowsSoFar
  <2> QED
    BY <1>0, <1>3, <2>1, <2>2 DEF TypeOK, Inv, Ownership, NumberedRows, RowsExist
<1>6. [task[a] EXCEPT !.at = "haltCheck", !.row = n + 1].at = "haltCheck"
  BY <1>0 DEF TypeOK, Task
<1>7. /\ task'[a].at = "haltCheck" /\ \A b \in Actors \ {a} : task'[b] = task[b]
  BY <1>0, <1>4, <1>6 DEF TypeOK
<1>8. Standing'
  <2>1. LatestIsActive'
    <3> SUFFICES ASSUME NEW r \in RowIds
                 PROVE  /\ rows'[r].status \in ActiveStatuses => r = n + 1
                        /\ r <= n + 1 => rows'[r].status # "absent"
      BY <1>4 DEF LatestIsActive, Active
    <3>1. CASE r = n + 1
      BY <1>3, <1>5, <3>1
    <3>2. CASE r # n + 1
      <4>1. rows'[r] = rows[r] /\ ~Active(r) /\ (r <= n + 1 => r <= n)
        BY <1>0, <1>2, <1>5, <3>2, BoundsAssumption DEF ActiveRows, RowIds
      <4> QED
        BY <4>1 DEF Active, StopInv, Standing, LatestIsActive
    <3> QED
      BY <3>1, <3>2
  <2>2. StoppedStands'
    <3>1. task'["watchdog"] = task["watchdog"]
      BY <1>0, <1>7 DEF Spawners
    <3> QED
      BY <1>3, <1>4, <1>5, <3>1 DEF StoppedStands, StopInv, Standing, EndedWell
  <2>3. n' # 0
    BY <1>0, <1>4
  <2> QED
    BY <2>1, <2>2, <2>3 DEF Standing, NoRowNoRestart
<1>9. /\ StopIsDue' <=> StopIsDue
      /\ StopUnderWay' <=> StopUnderWay
      /\ task'["consumer"].at = "stopSig" <=> task["consumer"].at = "stopSig"
  BY <1>0, <1>4, <1>7 DEF StopIsDue, StopUnderWay
<1>10. OneStop'
  <2>1. Served'
    BY <1>0, <1>3, <1>4, <1>5 DEF Served
  <2>2. dep'.status # "stopped" /\ n' # 0
    BY <1>0, <1>2, <1>4 DEF Dep
  <2> QED
    BY <1>0, <1>4, <1>9, <2>1, <2>2 DEF OneStop
<1>11. StopIsKept'
  <2> SUFFICES ASSUME intent = "stop" \/ StopUnderWay PROVE BehindAnEnd(n)'
    BY <1>0, <1>4, <1>9 DEF StopIsKept
  <2>1. n # 0
    <3> SUFFICES ASSUME n = 0 PROVE FALSE
      OBVIOUS
    <3>1. dep.status = "failed"
      BY <1>0, <1>2 DEF StopInv, StopIsKept, Dep, DepStatuses, DepLive
    <3>2. a = "consumer" /\ ~RetryEligible
      BY <1>4 DEF StopInv, Standing, NoRowNoRestart, Spawners, RetryEligible
    <3> QED
      BY <1>2, <3>1, <3>2 DEF Carry
  <2>2. /\ rows'[n + 1].stop = FALSE /\ rows'[n + 1].auto = Carry(a)
        /\ \A r \in 1 .. n : rows'[r] = rows[r]
    BY <1>3, <1>5
  <2>3. n \in 1 .. (n + 1) - 1 /\ n \in 1 .. n /\ \A p \in n + 1 .. n + 1 : p = n + 1
    BY <1>0, <2>1
  <2>4. CASE rows[n].stop
    <3>1. ~Carry(a)
      BY <1>2, <2>1, <2>4 DEF latest_stop_requested_at
    <3> QED
      BY <1>4, <2>2, <2>3, <2>4, <3>1 DEF BehindAnEnd
  <2>5. CASE ~rows[n].stop /\ rows[n].status = "stopped"
    BY <1>4, <2>2, <2>3, <2>5 DEF BehindAnEnd
  <2>6. CASE BehindAnEnd(n)
    BY <1>4, <2>2, <2>6, EndStays
  <2> QED
    BY <2>1, <2>4, <2>5, <2>6 DEF StopInv, StopIsKept
<1>12. StopsAreSignalled'
  <2> SUFFICES ASSUME NEW r \in RowIds, rows'[r].stop, child'[r] \in NodeStates
               PROVE  \/ sig'[r] \/ StopUnderWay' \/ StopIsDue' \/ task'["consumer"].at = "stopSig"
                      \/ \E b \in Actors : task'[b].at = "phaseC" /\ task'[b].row = r
    BY DEF StopsAreSignalled
  <2>1. rows[r].stop /\ child[r] \in NodeStates
    BY <1>3, <1>4, <1>5
  <2>2. \A b \in Actors : task[b].at = "phaseC" => task'[b] = task[b]
    BY <1>4, <1>7
  <2> QED
    BY <1>4, <1>9, <2>1, <2>2 DEF StopInv, StopsAreSignalled
<1> QED
  BY <1>8, <1>10, <1>11, <1>12 DEF Stops

\* Rows, requests and the deployment that stay keep what the /stop has recorded.
LEMMA SameStops ==
    ASSUME StopInv, UNCHANGED <<rows, n, dep, stopReq, inflight, halt, sup, intent, used, pel>>,
           used.stops = 0 => ~StopIsDue' /\ task'["consumer"].at # "stopSig"
    PROVE  OneStop' /\ StopIsKept'
<1>1. OneStop'
  BY DEF StopInv, OneStop, Served, StopUnderWay
<1>2. StopIsKept'
  BY DEF StopInv, StopIsKept, StopUnderWay, BehindAnEnd
<1> QED
  BY <1>1, <1>2

\* process.start() is followed by a Phase C that finds the intent.
LEMMA StartStops == ASSUME StopInv, Uninterrupted, NEW a \in Spawners, StartProcess(a) PROVE Stops'
<1> USE DEF db, procs, mem, bus, reqs, env
<1>0. TypeOK /\ OneStop /\ ~Fault /\ a \in Actors /\ "consumer" \in Actors
  BY NoFault DEF StopInv, Inv, Actors, Spawners
<1>1. PICK r \in RowIds : r = task[a].row
  BY <1>0, StepSets DEF StartProcess, StopInv, Inv, Ownership, SpawnsReserved
<1>2. /\ task[a].at = "start" /\ child' = [child EXCEPT ![r] = "booting"] /\ Goto(a, "phaseC")
      /\ UNCHANGED <<rows, n, dep, sig, stream, pel, stopReq, inflight, halt, sup, intent, used>>
  BY <1>0, <1>1 DEF StartProcess
<1>3. LET t == [task[a] EXCEPT !.at = "phaseC"] IN t.at = "phaseC" /\ t.row = r
  BY <1>0, <1>1 DEF TypeOK, Task
<1>4. /\ task'[a].at = "phaseC" /\ task'[a].row = r
      /\ \A b \in Actors \ {a} : task'[b] = task[b]
  BY <1>0, <1>2, <1>3 DEF TypeOK, Goto
<1>5. \A q \in RowIds : child'[q] = IF q = r THEN "booting" ELSE child[q]
  BY <1>0, <1>2 DEF TypeOK
<1>6. /\ StopIsDue' <=> StopIsDue
      /\ task'["consumer"].at = "stopSig" <=> task["consumer"].at = "stopSig"
      /\ StopUnderWay' <=> StopUnderWay
  BY <1>0, <1>2, <1>4 DEF StopIsDue, StopUnderWay
<1>7. OneStop' /\ StopIsKept'
  BY <1>0, <1>2, <1>6, SameStops DEF OneStop
<1>8. \A b \in Actors : task[b].at = "phaseC" => task'[b] = task[b]
  BY <1>2, <1>4
<1>9. StopsAreSignalled'
  <2> SUFFICES ASSUME NEW q \in RowIds, rows[q].stop, child'[q] \in NodeStates
               PROVE  \/ sig[q] \/ StopUnderWay \/ StopIsDue \/ task["consumer"].at = "stopSig"
                      \/ \E b \in Actors : task'[b].at = "phaseC" /\ task'[b].row = q
    BY <1>2, <1>6 DEF StopsAreSignalled
  <2>1. CASE q = r
    BY <1>0, <1>4, <2>1
  <2>2. CASE q # r
    <3>1. child[q] \in NodeStates
      BY <1>5, <2>2
    <3> QED
      BY <1>8, <3>1 DEF StopInv, StopsAreSignalled
  <2> QED
    BY <2>1, <2>2
<1> QED
  BY <1>7, <1>9 DEF Stops

\* What StopIsKept says of the latest row.
Kept == rows[n].stop \/ rows[n].status = "stopped" \/ BehindAnEnd(n)

\* What /stop and FleetRouter.stop do without an active row: the latest row has the
\* intent, or has ended as "stopped", or there is none and the deployment is not live.
LEMMA NothingToStop ==
    ASSUME StopInv, ActiveRows = {}, StopWithoutActiveRow, n' = n, child' = child
    PROVE  /\ \A r \in RowIds : rows'[r].local /\ child'[r] \notin NodeStates
           /\ \/ dep.status = "stopped" /\ ~(n = 0 \/ Kept)
              \/ IF n' = 0 THEN dep'.status \notin DepLive ELSE Kept'
<1>0. TypeOK /\ OneStop /\ dep \in Dep /\ (n # 0 => n \in RowIds /\ rows[n].status # "absent")
  BY RowsSoFar DEF StopInv, Inv, TypeOK
<1>1. \A r \in RowIds : LET v == [rows[r] EXCEPT !.stop = TRUE] IN v.local = rows[r].local /\ v.stop
  BY <1>0 DEF TypeOK, Row
<1>2. \A r \in RowIds : rows'[r] = rows[r] \/ (r = n /\ rows'[r] = [rows[r] EXCEPT !.stop = TRUE])
  BY <1>0 DEF StopWithoutActiveRow, TypeOK
<1>3. \A r \in RowIds : rows'[r].local /\ child'[r] \notin NodeStates
  BY <1>0, <1>1, <1>2 DEF OneStop, Served, ActiveRows, StopInv, Inv, Ownership, NodesOwned
<1>4. Synced("stopped").status \notin DepLive
  BY <1>0 DEF Synced, Dep, DepLive
<1>5. CASE n = 0
  BY <1>3, <1>4, <1>5 DEF StopWithoutActiveRow
<1>6. CASE n # 0 /\ rows' # rows
  <2>1. rows'[n] = [rows[n] EXCEPT !.stop = TRUE]
    BY <1>0, <1>6 DEF StopWithoutActiveRow, TypeOK
  <2> QED
    BY <1>0, <1>1, <1>3, <1>6, <2>1 DEF Kept
<1>7. CASE n # 0 /\ rows' = rows
  <2>1. Kept => Kept'
    BY <1>7 DEF Kept, BehindAnEnd
  <2>2. ~Active(n)
    BY <1>0, <1>7 DEF ActiveRows
  <2>3. rows[n].status \in {"stopped", "failed"}
    BY <1>0, <1>7, <2>2 DEF Active, TypeOK, Row, RowStatuses, ActiveStatuses
  <2>4. dep.status = "stopped" \/ Kept
    <3>1. CASE dep.status # "stopped" /\ rows[n].status = "failed" /\ ~rows[n].stop
      <4>1. rows'[n] = [rows[n] EXCEPT !.stop = TRUE]
        BY <1>0, <1>7, <3>1 DEF StopWithoutActiveRow, TypeOK
      <4> QED
        BY <1>0, <1>1, <1>7, <3>1, <4>1 DEF Kept
    <3> QED
      BY <1>7, <2>3, <3>1 DEF Kept
  <2> QED
    BY <1>3, <1>7, <2>1, <2>4
<1> QED
  BY <1>5, <1>6, <1>7

\* FleetRouter.stop's transaction marks the one active row, which is the latest, and goes
\* on to signal its node.
LEMMA StopTxStops == ASSUME StopInv, stop PROVE Stops'
<1> USE DEF db, procs, mem, bus, reqs, env
<1>0. /\ TypeOK /\ OneStop /\ Served /\ "consumer" \in Actors /\ task["consumer"].at = "stopTx"
      /\ used.stops # 0
  BY DEF StopInv, Inv, OneStop, StopIsDue, Actors, Spawners, stop
<1>1. UNCHANGED <<n, child, sig, stream, stopReq, inflight, halt, sup, intent, used>>
  BY DEF stop
<1>2. StopUnderWay' <=> StopUnderWay
  BY <1>1 DEF StopUnderWay
<1>3. CASE ActiveRows = {}
  <2>1. StopWithoutActiveRow /\ pel' = pel
    BY <1>3 DEF stop
  <2>2. /\ \A r \in RowIds : rows'[r].local /\ child'[r] \notin NodeStates
        /\ \/ dep.status = "stopped" /\ ~(n = 0 \/ Kept)
           \/ IF n' = 0 THEN dep'.status \notin DepLive ELSE Kept'
    BY <1>1, <1>3, <2>1, NothingToStop
  <2>3. OneStop'
    BY <1>0, <1>1, <1>2, <2>1, <2>2 DEF OneStop, Served
  <2>4. StopIsKept'
    BY <1>1, <1>2, <2>2 DEF StopInv, StopIsKept, Kept
  <2>5. StopsAreSignalled'
    BY <2>2 DEF StopsAreSignalled
  <2> QED
    BY <2>3, <2>4, <2>5 DEF Stops
<1>4. CASE ActiveRows # {}
  <2>1. PICK r \in ActiveRows :
           IF rows[r].local
           THEN /\ rows' = [rows EXCEPT ![r] = [@ EXCEPT !.status = "stopping", !.stop = TRUE]]
                /\ task' = [task EXCEPT !["consumer"] =
                             [@ EXCEPT !.at = "stopSig", !.row = IF rows[r].pid THEN r ELSE 0]]
                /\ pel' = pel
           ELSE Goto("consumer", "idle")
    BY <1>4 DEF stop
  <2>2. r \in RowIds /\ Active(r) /\ rows[r].local /\ r = n
    BY <1>0 DEF ActiveRows, Served, StopInv, Standing, LatestIsActive
  <2>3. pel' = pel /\ task'["consumer"].at = "stopSig"
    <3>1. [task["consumer"] EXCEPT !.at = "stopSig", !.row = IF rows[r].pid THEN r ELSE 0].at = "stopSig"
      BY <1>0 DEF TypeOK, Task
    <3> QED
      BY <1>0, <2>1, <2>2, <3>1 DEF TypeOK
  <2>4. LET v == [rows[r] EXCEPT !.status = "stopping", !.stop = TRUE]
        IN  v.local = rows[r].local /\ v.stop = TRUE
    BY <1>0, <2>2 DEF TypeOK, Row
  <2>5. rows'[n].stop /\ n # 0 /\ \A q \in RowIds : rows'[q].local
    <3> DEFINE v == [rows[r] EXCEPT !.status = "stopping", !.stop = TRUE]
    <3>1. \A q \in RowIds : rows'[q] = IF q = r THEN v ELSE rows[q]
      BY <1>0, <2>1, <2>2 DEF TypeOK
    <3>2. v.local = rows[r].local /\ v.stop = TRUE
      BY <2>4
    <3>3. n # 0
      BY <2>2, BoundsAssumption DEF RowIds
    <3> HIDE DEF v
    <3> QED
      BY <1>0, <2>2, <3>1, <3>2, <3>3 DEF Served
  <2>6. OneStop'
    BY <1>0, <1>1, <1>2, <2>3, <2>5 DEF OneStop, Served
  <2>7. StopIsKept'
    BY <1>1, <2>5 DEF StopIsKept
  <2>8. StopsAreSignalled'
    BY <2>3 DEF StopsAreSignalled
  <2> QED
    BY <2>6, <2>7, <2>8 DEF Stops
<1> QED
  BY <1>3, <1>4

\* Its signal reaches the node: the supervisor holds the handle of every node.
LEMMA SignalStops == ASSUME StopInv, StopSignal PROVE Stops'
<1> USE DEF db, procs, mem, bus, reqs, env
<1>0. /\ TypeOK /\ OneStop /\ "consumer" \in Actors /\ task["consumer"].at = "stopSig"
      /\ used.stops # 0
  BY DEF StopInv, Inv, OneStop, Actors, Spawners, StopSignal
<1>1. UNCHANGED <<rows, n, dep, child, stream, pel, stopReq, inflight, halt, sup, intent, used>>
  BY DEF StopSignal
<1>2. OneStop' /\ StopIsKept'
  BY <1>0, <1>1, SameStops
<1>3. ASSUME NEW r \in RowIds, child[r] \in NodeStates PROVE sig'[r]
  <2>1. handle = r /\ Alive(r)
    BY <1>3, StepSets DEF StopInv, Inv, Ownership, NodesOwned, Alive
  <2>2. r # 0
    BY BoundsAssumption DEF RowIds
  <2> QED
    BY <2>1, <2>2 DEF StopSignal
<1>4. StopsAreSignalled'
  BY <1>1, <1>3 DEF StopsAreSignalled
<1> QED
  BY <1>2, <1>4 DEF Stops

\* The operators' requests: the one /stop stamps the latest row if it is active, and
\* nobody's key swallows its STOP; otherwise it finds what has ended.
LEMMA ApiStops ==
    ASSUME StopInv, Uninterrupted, MaxStops \in {0, 1}, MaxHalts = 0, Api PROVE Stops'
<1> USE DEF db, procs, mem, bus, reqs, env
<1>0. /\ TypeOK /\ Inv /\ OneStop /\ Served /\ ~Fault /\ dep \in Dep
      /\ "stop" \in Stoppers /\ "killAll" \in Stoppers
      /\ stopReq \in [Stoppers -> StopSteps] /\ used \in Used
  BY NoFault DEF StopInv, Inv, OneStop, TypeOK, Stoppers
<1>1. UNCHANGED <<child, sig, task, n>>
  BY DEF Api, ApiAdmit, ApiStart, ApiAlreadyActive, ApiPublishStart, ApiPoll, ApiCommitRunning,
         ApiPollTimeout, ApiTimeoutFlip, ApiStop, ApiStopPublish, ApiStopPoll, ApiStopCommit,
         KillAllLatch, KillAllPublish, KillAllPoll, PublishStop, InflightExpires, Resume
<1>2. CASE StartRequest
  BY <1>0, <1>2, StartRequestOrderly, ApiSteady, SteadyKeeps
<1>3. CASE KillAllLatch \/ KillAllPublish \/ KillAllPoll \/ PublishStop("killAll") \/ Resume
  BY <1>0, <1>3 DEF KillAllLatch, KillAllPublish, KillAllPoll, PublishStop, Resume, OneStop, Used
<1>4. CASE ApiStop
  <2>1. /\ UNCHANGED <<stream, pel, inflight, halt, sup>>
        /\ used.stops < MaxStops /\ used' = [used EXCEPT !.stops = @ + 1] /\ stopReq["stop"] = "idle"
    BY <1>4 DEF ApiStop
  <2>2. used.stops = 0 /\ used'.stops = 1
    BY <1>0, <2>1 DEF Used
  <2>3. CASE ActiveRows = {}
    <3>1. StopWithoutActiveRow /\ stopReq' = stopReq /\ intent' = "stop"
      BY <1>4, <2>3 DEF ApiStop
    <3>2. dep.status = "stopped" => n = 0 \/ Kept
      BY <1>0, <2>2 DEF OneStop, Kept
    <3>3. /\ \A r \in RowIds : rows'[r].local /\ child'[r] \notin NodeStates
          /\ IF n' = 0 THEN dep'.status \notin DepLive ELSE Kept'
      BY <1>1, <2>3, <3>1, <3>2, NothingToStop
    <3>4. OneStop'
      BY <1>0, <1>1, <2>1, <2>2, <3>1, <3>3 DEF OneStop, Served, StopUnderWay
    <3> QED
      BY <3>3, <3>4 DEF Stops, StopIsKept, StopsAreSignalled, Kept
  <2>4. CASE ActiveRows # {}
    <3>1. /\ rows' = [r \in RowIds |-> IF Active(r) THEN [rows[r] EXCEPT !.stop = TRUE] ELSE rows[r]]
          /\ StopGoto("stop", "publish")
      BY <1>4, <2>4 DEF ApiStop
    <3>2. stopReq'["stop"] = "publish" /\ stopReq'["killAll"] = stopReq["killAll"]
      BY <1>0, <3>1 DEF StopGoto
    <3>3. \A r \in RowIds : LET v == [rows[r] EXCEPT !.stop = TRUE] IN v.local = rows[r].local /\ v.stop
      BY <1>0 DEF TypeOK, Row
    <3>4. PICK r \in RowIds : Active(r)
      BY <2>4 DEF ActiveRows
    <3>5. r = n /\ n # 0
      BY <3>4, BoundsAssumption DEF StopInv, Standing, LatestIsActive, RowIds
    <3>6. rows'[n].stop /\ \A q \in RowIds : rows'[q].local
      BY <1>0, <3>1, <3>3, <3>4, <3>5 DEF Served
    <3>7. StopUnderWay'
      BY <3>2 DEF StopUnderWay
    <3>8. OneStop'
      BY <1>0, <1>1, <2>1, <2>2, <3>2, <3>5, <3>6 DEF OneStop, Served
    <3> QED
      BY <1>1, <3>5, <3>6, <3>7, <3>8 DEF Stops, StopIsKept, StopsAreSignalled
  <2> QED
    BY <2>3, <2>4
<1>5. CASE ApiStopPublish
  <2>1. /\ UNCHANGED <<rows, dep, stream, pel, halt, sup, used>> /\ stopReq["stop"] = "publish"
        /\ Coalesce("stop")
    BY <1>5 DEF ApiStopPublish
  <2>2. ~inflight /\ used.stops # 0
    BY <1>0, <2>1 DEF OneStop
  <2>3. stopReq' = [stopReq EXCEPT !["stop"] = "add"] /\ intent' = intent
    BY <2>1, <2>2 DEF Coalesce, StopGoto
  <2>4. stopReq'["stop"] = "add" /\ stopReq'["killAll"] = stopReq["killAll"]
    BY <1>0, <2>3
  <2>5. StopUnderWay /\ StopUnderWay'
    BY <2>1, <2>4 DEF StopUnderWay
  <2>6. OneStop'
    BY <1>0, <1>1, <2>1, <2>2, <2>4, <2>5 DEF OneStop, Served
  <2>7. StopIsKept'
    BY <1>1, <2>1, <2>5 DEF StopInv, StopIsKept, BehindAnEnd
  <2> QED
    BY <2>5, <2>6, <2>7 DEF Stops, StopsAreSignalled
<1>6. CASE PublishStop("stop")
  <2>1. /\ UNCHANGED <<rows, dep, pel, inflight, halt, sup, used>> /\ stopReq["stop"] = "add"
        /\ stream' = Append(stream, "STOP")
        /\ stopReq' = [stopReq EXCEPT !["stop"] = "polling"]
    BY <1>0, <1>6 DEF PublishStop, StopGoto
  <2>2. stopReq'["stop"] = "polling" /\ stopReq'["killAll"] = stopReq["killAll"]
    BY <1>0, <2>1
  <2>3. StopIsDue'
    <3>1. Len(stream) + 1 \in 1 .. Len(stream') /\ stream'[Len(stream) + 1] = "STOP"
      BY <1>0, <2>1 DEF TypeOK
    <3> QED
      BY <3>1 DEF StopIsDue
  <2>4. StopUnderWay /\ used.stops # 0
    BY <1>0, <2>1 DEF StopUnderWay, OneStop
  <2>5. OneStop'
    BY <1>0, <1>1, <2>1, <2>2, <2>4 DEF OneStop, Served, StopUnderWay
  <2>6. StopIsKept'
    BY <1>1, <2>1, <2>4 DEF StopInv, StopIsKept, BehindAnEnd
  <2> QED
    BY <2>3, <2>5, <2>6 DEF Stops, StopsAreSignalled
<1>7. CASE ApiStopPoll \/ ApiStopCommit \/ InflightExpires
  <2>1. /\ UNCHANGED <<rows, stream, pel, halt, sup, used, intent>> /\ (inflight' => inflight)
        /\ dep' = dep \/ dep' = [dep EXCEPT !.status = "stopped"]
        /\ \/ stopReq' = stopReq
           \/ /\ stopReq["stop"] \in {"polling", "sawTerminal"}
              /\ StopGoto("stop", "idle") \/ StopGoto("stop", "sawTerminal")
    BY <1>7 DEF ApiStopPoll, ApiStopCommit, InflightExpires
  <2>2. /\ stopReq'["killAll"] = stopReq["killAll"] /\ (StopUnderWay' <=> StopUnderWay)
        /\ stopReq'["stop"] = "publish" => stopReq["stop"] = "publish"
    BY <1>0, <2>1 DEF StopGoto, StopUnderWay
  <2>3. used.stops # 0
    BY <1>0, <1>7 DEF ApiStopPoll, ApiStopCommit, InflightExpires, OneStop
  <2>4. dep'.status \in DepLive => dep.status \in DepLive
    BY <1>0, <2>1 DEF Dep, DepLive
  <2>5. StopIsDue' <=> StopIsDue
    BY <1>1, <2>1 DEF StopIsDue
  <2>6. OneStop'
    BY <1>0, <1>1, <2>1, <2>2, <2>3 DEF OneStop, Served
  <2>7. StopIsKept'
    BY <1>1, <2>1, <2>2, <2>4 DEF StopInv, StopIsKept, BehindAnEnd
  <2>8. StopsAreSignalled'
    BY <1>1, <2>1, <2>2, <2>5 DEF StopInv, StopsAreSignalled
  <2> QED
    BY <2>6, <2>7, <2>8 DEF Stops
<1> QED
  BY <1>2, <1>3, <1>4, <1>5, <1>6, <1>7 DEF Api, StartRequest, Stoppers

\* After the operator's accepted /stop no node of the auto-restart machinery is left
\* running: it is under SIGTERM, a STOP is on its way, or the machinery restarts what
\* began behind an earlier end; for any number of rows, start requests and restarts,
\* and wherever the /stop commits between their steps. The setting is that of the run
\* fleet_stop: one /stop, and no kill-all or other /stop whose key could swallow its
\* STOP, no failing Phase C, no crash, no spawn beyond the heartbeat threshold.
THEOREM RestartsHonourStops ==
    ASSUME SlowBoot = FALSE, MaxStops \in {0, 1}, MaxHalts = 0, MaxFaults = 0, MaxCrashes = 0
    PROVE  Spec => []AutoRestartHonoursStop
<1>0. Uninterrupted
  BY DEF Uninterrupted
<1>1. Init => Standing /\ Stops
  <2> SUFFICES ASSUME Init PROVE Standing /\ Stops
    OBVIOUS
  <2>1. /\ \A r \in RowIds : rows[r].local /\ rows[r].status = "absent" /\ child[r] = "none"
        /\ \A r \in RowIds : ~(r <= n) /\ rows[r].stop = FALSE
        /\ \A a \in Actors : task[a].at = "idle"
        /\ {"consumer", "watchdog", "restart", "rescan"} \subseteq Actors
        /\ Len(stream) = 0 /\ n = 0 /\ api = "idle" /\ intent = "none"
        /\ sup = "up" /\ pel["STOP"] = 0 /\ ~halt /\ ~inflight
        /\ stopReq["stop"] = "idle" /\ stopReq["killAll"] = "idle"
    BY BoundsAssumption DEF Init, NoRow, Idle, Actors, Spawners, Commands, Stoppers, RowIds
  <2>2. Standing
    BY <2>1, StepSets
       DEF Standing, LatestIsActive, StoppedStands, NoRowNoRestart, Active, EndedWell
  <2> QED
    BY <2>1, <2>2 DEF Stops, OneStop, Served, StopIsKept, StopsAreSignalled, StopIsDue, StopUnderWay
<1>2. Inv /\ Standing /\ Stops /\ [Next]_vars => Standing' /\ Stops'
  <2> SUFFICES ASSUME StopInv, [Next]_vars PROVE Standing' /\ Stops'
    BY DEF StopInv, Stops
  <2>0. TypeOK /\ Inv /\ Served /\ Uninterrupted
    BY <1>0 DEF StopInv, Inv, OneStop
  <2>1. ASSUME Steady, Orderly \/ Stops' PROVE Standing' /\ Stops'
    BY <2>1, SteadyStands, SteadyKeeps DEF Steady
  <2>2. CASE UNCHANGED vars
    <3>1. UNCHANGED <<rows, n, dep, api, task, bus, child, sig, reqs, env>>
      BY <2>2 DEF vars, db, procs, mem, reqs
    <3>2. Steady
      BY <2>0, <3>1, SameSteady, SyncSteady
         DEF Steady, SteadyTasks, StopInv, Standing, NoRowNoRestart
    <3> QED
      BY <2>0, <2>1, <3>1, <3>2, SameOrderly DEF Orderly
  <2>3. ASSUME NEW a \in Spawners, Spawn(a) PROVE Standing' /\ Stops'
    <3>1. a \in Actors
      BY DEF Actors
    <3>2. CASE phase_a_reserve_slot(a) /\ n' # n
      BY <2>0, <3>2, ReserveStops
    <3>3. CASE ~(phase_a_reserve_slot(a) /\ n' # n)
      <4>1. Steady
        BY <2>3, <3>3, SpawnSteady
      <4> QED
        BY <2>0, <2>1, <2>3, <3>1, <4>1, SpawnOrderly, StartStops
    <3> QED
      BY <3>2, <3>3
  <2>4. CASE Consumer
    BY <2>0, <2>1, <2>4, ConsumerSteady, ConsumerOrderly, StopTxStops, SignalStops
  <2>5. CASE Supervisor
    <3>1. \/ \E a \in Spawners : Spawn(a)
          \/ \E a \in {"restart", "rescan"} : AutoRestart(a)
          \/ Consumer \/ Loops \/ LifeCycle
      BY <2>5 DEF Supervisor, LifeCycle
    <3> QED
      BY <2>0, <2>1, <2>3, <2>4, <3>1, AutoRestartSteady, AutoRestartOrderly, LoopsSteady,
         LoopsOrderly, NoLifeCycle
  <2>6. CASE Next /\ ~Supervisor
    <3>1. Api \/ (\E r \in RowIds : Subprocess(r) \/ HeartbeatStale(r)) \/ LifeCycle
      BY <2>6 DEF Next, LifeCycle
    <3> QED
      BY <2>0, <2>1, <3>1, ApiSteady, ApiStops, SubprocessSteady, SubprocessOrderly, NoLifeCycle
  <2> QED
    BY <2>2, <2>5, <2>6
<1>3. Inv /\ Standing /\ Stops => AutoRestartHonoursStop
  <2> SUFFICES ASSUME Inv, Standing, Stops, intent = "stop", NEW r \in RowIds, Beating(r)
               PROVE  sig[r] \/ StopOnItsWay(r) \/ BehindAnEnd(r)
    BY DEF AutoRestartHonoursStop
  <2>1. child[r] \in NodeStates /\ "stop" \in Stoppers
    BY DEF Beating, NodeStates, Stoppers
  <2>2. Active(r) /\ r = n /\ n # 0
    BY <2>1, BoundsAssumption DEF Inv, Ownership, NodesOwned, Standing, LatestIsActive, RowIds
  <2>3. rows[r].stop \/ BehindAnEnd(r)
    BY <2>2, StepSets DEF Stops, StopIsKept, Active
  <2>4. CASE rows[r].stop
    BY <2>1, <2>4, StepSets
       DEF Stops, StopsAreSignalled, StopUnderWay, StopIsDue, StopOnItsWay, InFlight
  <2> QED
    BY <2>3, <2>4
<1> QED
  BY <1>1, <1>2, <1>3, TypeCorrect, RowInvariant, OwnershipInvariant, PTL DEF Spec, Inv
=============================================================================
