----------------------------- MODULE NodeProofs -----------------------------
(***************************************************************************)
(* Proofs about the parts of a live node, for every value of the           *)
(* constants, the locks of transactions and the types of all parts among   *)
(* them. A behaviour of Node is one of a single part, so an invariant of a *)
(* part says nothing of the behaviours of the others. The variables of a   *)
(* part are v1, v2, ... in the order of its declaration.                   *)
(***************************************************************************)
EXTENDS Node, Sequences, WellFoundedInduction, FiniteSetTheorems, TLAPS

-----------------------------------------------------------------------------
(* OrderAudit.  v3: seen, v4: tasks, v6: trades, v8: counted, v11: faults.   *)

LEMMA AuditStart == Audit!Init => Audit!AuditTrail
BY BoundsAssumption DEF Audit!Init, Audit!AuditTrail, Audit!TypeOK, Audit!BooksAreTyped,
   Audit!FillTasks, Audit!TaskIsOfSeenFill, Audit!UncountedRow, Audit!RowsAreOfFills,
   Audit!SeenIsUnderWay, Audit!Recorded

LEMMA AuditEmit ==
    ASSUME Audit!AuditTrail, NEW ev \in {"submitted", "accepted", "canceled", "rejected", "denied"},
           NEW from, NEW to \in {"submitted", "accepted", "rejected", "canceled", "denied"},
           Audit!Emit(ev, from, to)
    PROVE  Audit!AuditTrail'
<1> USE DEF Audit!AuditTrail, Audit!Emit, Audit!Task
<1>1. Audit!TypeOK' /\ Audit!BooksAreTyped'
  BY DEF Audit!TypeOK, Audit!BooksAreTyped, Audit!Row, Audit!NoTrade, Audit!Recorded
<1>2. \A t \in Trades : \A at : Audit!FillTasks(t, at)' = Audit!FillTasks(t, at)
  BY DEF Audit!FillTasks
<1>3. Audit!TaskIsOfSeenFill' /\ Audit!UncountedRow' /\ Audit!RowsAreOfFills'
  BY <1>2 DEF Audit!TaskIsOfSeenFill, Audit!UncountedRow, Audit!RowsAreOfFills
<1>4. Audit!SeenIsUnderWay'
  BY <1>2 DEF Audit!SeenIsUnderWay, Audit!TypeOK
<1> QED BY <1>1, <1>3, <1>4

\* A fill seen for the first time, by the venue's event or by the reconciliation.
LEMMA AuditFill ==
    ASSUME Audit!AuditTrail, NEW t \in Trades, Audit!OrderFilled(t) \/ Audit!Replay(t)
    PROVE  Audit!AuditTrail'
<1> DEFINE k == Audit!Task("filled", t)
<1> USE DEF Audit!AuditTrail, Audit!OrderFilled, Audit!Replay
<1>1. /\ k \in v4' /\ k.ev = "filled" /\ k.at = "begin" /\ k.trade = t
      /\ v4 \subseteq v4' /\ \A l \in v4' \ v4 : l = k \/ l = Audit!Task("closed", Audit!NoTrade)
      /\ v3' = v3 \cup {t} /\ t \in v2' /\ v2 \subseteq v2'
  BY DEF Audit!Task
<1>2. Audit!TypeOK' /\ Audit!BooksAreTyped'
  BY DEF Audit!TypeOK, Audit!BooksAreTyped, Audit!Row, Audit!NoTrade, Audit!Recorded, Audit!Task
<1>3. /\ \A u \in Trades : Audit!FillTasks(u, "audit")' = Audit!FillTasks(u, "audit")
      /\ \A u \in Trades : Audit!FillTasks(u, "begin") \subseteq Audit!FillTasks(u, "begin")'
      /\ k \in Audit!FillTasks(t, "begin")'
  BY <1>1 DEF Audit!FillTasks, Audit!Task
<1>4. Audit!TaskIsOfSeenFill'
  BY <1>1 DEF Audit!TaskIsOfSeenFill, Audit!Task
<1>5. Audit!UncountedRow' /\ Audit!RowsAreOfFills'
  BY <1>1, <1>3 DEF Audit!UncountedRow, Audit!RowsAreOfFills
<1>6. Audit!SeenIsUnderWay'
  BY <1>1, <1>3 DEF Audit!SeenIsUnderWay, Audit!TypeOK
<1> QED BY <1>2, <1>4, <1>5, <1>6

\* A crash forgets the tasks, and what this process has seen with them.
LEMMA AuditRestart ==
    ASSUME Audit!AuditTrail, Audit!Restart
    PROVE  Audit!AuditTrail'
BY BoundsAssumption DEF Audit!AuditTrail, Audit!Restart, Audit!TypeOK, Audit!BooksAreTyped, Audit!Row, Audit!Recorded,
   Audit!FillTasks, Audit!TaskIsOfSeenFill, Audit!UncountedRow, Audit!RowsAreOfFills,
   Audit!SeenIsUnderWay

\* A task that ends without a change of the Trade rows or the metric: a status write, the
\* P&L of the position, or a failing transaction.
LEMMA AuditTaskEnds ==
    ASSUME Audit!AuditTrail, NEW k \in v4,
           Audit!WriteStatus(k) \/ Audit!WritePnl(k) \/ Audit!WriteFails(k)
    PROVE  Audit!AuditTrail'
<1> USE DEF Audit!AuditTrail
<1>1. v4' = v4 \ {k} /\ v3' = v3 /\ v2' = v2 /\ v6' = v6 /\ v8' = v8 /\ v10' = v10 /\ v1' = v1
  BY DEF Audit!WriteStatus, Audit!WritePnl, Audit!WriteFails
<1>2. v11' \in Nat /\ (v11' = 0 => v11 = 0 /\ k.ev # "filled")
  <2>1. CASE Audit!WriteStatus(k) \/ Audit!WritePnl(k)
    BY <2>1 DEF Audit!WriteStatus, Audit!WritePnl, Audit!BooksAreTyped
  <2>2. CASE Audit!WriteFails(k)
    BY <2>2 DEF Audit!WriteFails, Audit!BooksAreTyped
  <2> QED BY <2>1, <2>2
<1>3. Audit!TypeOK'
  <2>1. v7' \subseteq Audit!Recorded'
    BY <1>1 DEF Audit!TypeOK, Audit!Recorded, Audit!WriteStatus, Audit!WritePnl, Audit!WriteFails
  <2>2. v5' \in {"none", "submitted", "accepted", "rejected", "canceled", "denied", "filled"}
    BY DEF Audit!TypeOK, Audit!Row, Audit!WriteStatus, Audit!WritePnl, Audit!WriteFails,
           Audit!AuditAfter
  <2> QED BY <1>1, <2>1, <2>2 DEF Audit!TypeOK
<1>4. Audit!BooksAreTyped'
  BY <1>1, <1>2 DEF Audit!BooksAreTyped
<1>5. /\ \A u \in Trades : Audit!FillTasks(u, "audit")' \subseteq Audit!FillTasks(u, "audit")
      /\ k.ev # "filled" => \A u \in Trades : Audit!FillTasks(u, "begin")' = Audit!FillTasks(u, "begin")
  BY <1>1 DEF Audit!FillTasks
<1>6. Audit!TaskIsOfSeenFill' /\ Audit!UncountedRow' /\ Audit!RowsAreOfFills'
  BY <1>1, <1>5 DEF Audit!TaskIsOfSeenFill, Audit!UncountedRow, Audit!RowsAreOfFills
<1>7. Audit!SeenIsUnderWay'
  BY <1>1, <1>2, <1>5 DEF Audit!SeenIsUnderWay, Audit!TypeOK
<1> QED BY <1>3, <1>4, <1>6, <1>7

\* The insert: the task goes on to the metric only if the row is new.
LEMMA AuditWriteFill ==
    ASSUME Audit!AuditTrail, NEW k \in v4, Audit!WriteFill(k)
    PROVE  Audit!AuditTrail'
<1> DEFINE t == k.trade
           l == [k EXCEPT !.at = "audit"]
<1> USE DEF Audit!AuditTrail
<1>1. /\ k.ev = "filled" /\ k.at = "begin" /\ t \in Trades /\ t \in v3 /\ t \in v2
      /\ k \in Audit!Row /\ v6 \in [Trades -> 0 .. 1]
  BY DEF Audit!TypeOK, Audit!BooksAreTyped, Audit!TaskIsOfSeenFill, Audit!WriteFill, Audit!Row
<1>2. /\ l \in Audit!Row /\ l.ev = "filled" /\ l.trade = t /\ l.at = "audit"
  BY <1>1 DEF Audit!Row
<1>3. /\ v6' = [v6 EXCEPT ![t] = 1]
      /\ v4' = (v4 \ {k}) \cup (IF v6[t] = 0 THEN {l} ELSE {})
      /\ v3' = v3 /\ v2' = v2 /\ v8' = v8 /\ v10' = v10 /\ v11' = v11 /\ v1' = v1 /\ v5' = v5
      /\ v7' = v7
  <2>1. (IF v6[t] = 0 THEN 1 ELSE v6[t]) = 1
    BY <1>1
  <2>2. v6' = [v6 EXCEPT ![t] = IF v6[t] = 0 THEN 1 ELSE v6[t]]
    BY DEF Audit!WriteFill, Audit!write_trade_fill
  <2> QED BY <2>1, <2>2, <1>1 DEF Audit!WriteFill, Audit!write_trade_fill
<1> HIDE DEF t, l
<1>4. Audit!TypeOK' /\ Audit!BooksAreTyped'
  BY <1>1, <1>2, <1>3 DEF Audit!TypeOK, Audit!BooksAreTyped, Audit!Recorded
<1>5. Audit!TaskIsOfSeenFill'
  BY <1>1, <1>2, <1>3 DEF Audit!TaskIsOfSeenFill
<1>6. /\ \A u \in Trades \ {t} : /\ Audit!FillTasks(u, "audit")' = Audit!FillTasks(u, "audit")
                                 /\ Audit!FillTasks(u, "begin")' = Audit!FillTasks(u, "begin")
      /\ Audit!FillTasks(t, "audit")' = Audit!FillTasks(t, "audit") \cup (IF v6[t] = 0 THEN {l} ELSE {})
  BY <1>1, <1>2, <1>3 DEF Audit!FillTasks, t
<1>7. Audit!UncountedRow'
  <2>1. v6[t] = 0 => v8[t] = 0 /\ Audit!FillTasks(t, "audit") = {}
    BY <1>1 DEF Audit!UncountedRow, Audit!RowsAreOfFills, Audit!BooksAreTyped
  <2> QED BY <2>1, <1>1, <1>3, <1>6 DEF Audit!UncountedRow
<1>8. Audit!RowsAreOfFills'
  BY <1>1, <1>3 DEF Audit!RowsAreOfFills, Audit!BooksAreTyped
<1>9. Audit!SeenIsUnderWay'
  BY <1>1, <1>3, <1>6 DEF Audit!SeenIsUnderWay, Audit!TypeOK
<1> QED BY <1>4, <1>5, <1>7, <1>8, <1>9

\* The metric: the task of the new row is the only one that counts it.
LEMMA AuditUpdateFilled ==
    ASSUME Audit!AuditTrail, NEW k \in v4, Audit!UpdateFilled(k)
    PROVE  Audit!AuditTrail'
<1> DEFINE t == k.trade
<1> USE DEF Audit!AuditTrail
<1>1. /\ k.ev = "filled" /\ k.at = "audit" /\ t \in Trades /\ k \in Audit!FillTasks(t, "audit")
      /\ v8 \in [Trades -> 0 .. 1] /\ v6 \in [Trades -> 0 .. 1]
  BY DEF Audit!TypeOK, Audit!BooksAreTyped, Audit!UpdateFilled, Audit!Row, Audit!FillTasks
<1>2. v6[t] = 1 /\ v8[t] = 0 /\ Audit!FillTasks(t, "audit") = {k}
  BY <1>1 DEF Audit!UncountedRow
<1>3. /\ v8' = [v8 EXCEPT ![t] = 1] /\ v4' = v4 \ {k}
      /\ v3' = v3 /\ v2' = v2 /\ v6' = v6 /\ v10' = v10 /\ v11' = v11 /\ v1' = v1 /\ v7' = v7
      /\ v5' \in {v5, "filled"}
  BY <1>1, <1>2 DEF Audit!UpdateFilled, Audit!AuditAfter
<1> HIDE DEF t
<1>4. Audit!TypeOK' /\ Audit!BooksAreTyped'
  BY <1>1, <1>3 DEF Audit!TypeOK, Audit!BooksAreTyped, Audit!Recorded
<1>5. /\ \A u \in Trades : Audit!FillTasks(u, "begin")' = Audit!FillTasks(u, "begin")
      /\ \A u \in Trades : Audit!FillTasks(u, "audit")' = Audit!FillTasks(u, "audit") \ {k}
  BY <1>1, <1>3 DEF Audit!FillTasks
<1>6. \A u \in Trades : u # t => k \notin Audit!FillTasks(u, "audit")
  BY DEF Audit!FillTasks, t
<1>7. Audit!UncountedRow' /\ Audit!RowsAreOfFills' /\ Audit!TaskIsOfSeenFill'
  BY <1>1, <1>2, <1>3, <1>5, <1>6 DEF Audit!UncountedRow, Audit!RowsAreOfFills, Audit!TaskIsOfSeenFill
<1>8. Audit!SeenIsUnderWay'
  BY <1>3, <1>5 DEF Audit!SeenIsUnderWay, Audit!TypeOK
<1> QED BY <1>4, <1>7, <1>8

LEMMA AuditStep ==
    ASSUME Audit!AuditTrail, [Audit!Next]_(Audit!vars)
    PROVE  Audit!AuditTrail'
<1>1. CASE Audit!OrderSubmitted \/ Audit!OrderAccepted \/ Audit!OrderRejected
           \/ Audit!OrderCanceled \/ Audit!OrderDenied
  BY <1>1, AuditEmit DEF Audit!OrderSubmitted, Audit!OrderAccepted, Audit!OrderRejected,
     Audit!OrderCanceled, Audit!OrderDenied
<1>2. CASE UNCHANGED Audit!vars
  BY <1>2 DEF Audit!vars, Audit!AuditTrail, Audit!TypeOK, Audit!BooksAreTyped, Audit!Recorded,
     Audit!FillTasks, Audit!TaskIsOfSeenFill, Audit!UncountedRow, Audit!RowsAreOfFills,
     Audit!SeenIsUnderWay
<1>3. CASE \E t \in Trades : Audit!OrderFilled(t) \/ Audit!Replay(t)
  BY <1>3, AuditFill
<1>4. CASE \E k \in v4 : Audit!WriteStatus(k) \/ Audit!WritePnl(k) \/ Audit!WriteFails(k)
  BY <1>4, AuditTaskEnds
<1>5. CASE \E k \in v4 : Audit!WriteFill(k)
  BY <1>5, AuditWriteFill
<1>6. CASE \E k \in v4 : Audit!UpdateFilled(k)
  BY <1>6, AuditUpdateFilled
<1>7. CASE Audit!Restart
  BY <1>7, AuditRestart
<1> QED BY <1>1, <1>2, <1>3, <1>4, <1>5, <1>6, <1>7 DEF Audit!Next

LEMMA AuditInvariant == Spec => [](part = "Audit" => Audit!AuditTrail)
<1> DEFINE Inv == part = "Audit" => Audit!AuditTrail
<1>1. Init => Inv
  BY AuditStart DEF Init
<1>2. Inv /\ [Next]_pool => Inv'
  <2> SUFFICES ASSUME Inv, [Next]_pool, part' = "Audit" PROVE Audit!AuditTrail'
    OBVIOUS
  <2>1. part = "Audit" /\ [Audit!Next]_(Audit!vars)
    BY DEF Next, pool, Rest4, Rest5, Rest6, Rest7, Rest8, Rest9, Rest10, Rest11, Rest12, Audit!vars
  <2> QED BY <2>1, AuditStep
<1> QED BY <1>1, <1>2, PTL DEF Spec

\* Over crashes, replays by the reconciliation and tasks in any order, a fill has one Trade
\* row and is counted once, and without a database error none is lost.
THEOREM FillsAreRecordedOnce == Spec => []FillRecordedOnce
<1> DEFINE Inv == part = "Audit" => Audit!AuditTrail
<1>1. Inv => FillRecordedOnce
  <2>1. Audit!AuditTrail => Audit!FillRecordedOnce
    BY DEF Audit!AuditTrail, Audit!TypeOK, Audit!BooksAreTyped, Audit!RowsAreOfFills,
       Audit!SeenIsUnderWay, Audit!FillTasks, Audit!FillRecordedOnce, Audit!Recorded
  <2> QED BY <2>1 DEF FillRecordedOnce
<1> QED BY <1>1, AuditInvariant, PTL

-----------------------------------------------------------------------------
(* HaltGate.  v1: latch, v2: phase, v4: cache, v5: age, v6: reader, v7: lag, *)
(* v8: worst, v9: down, v10: timer, v11: handler, v12: polled.              *)

LEMMA GateStart == Gate!Init => Gate!SafeGate
<1> SUFFICES ASSUME Gate!Init PROVE Gate!SafeGate
  OBVIOUS
<1>1. Gate!Old \in Nat /\ Gate!Bound \in Nat /\ Gate!Clear = -1
  BY GateAssumption DEF Gate!Old, Gate!Bound, Gate!Clear
<1>2. Gate!TypeOK /\ Gate!HaltStopsOrders
  <2>1. v3 \in BOOLEAN /\ v12 \in BOOLEAN
    BY DEF Gate!Init
  <2>2. v1 \in [Gate!Latches -> Gate!Clear .. Gate!Old] /\ v7 \in [Gate!Readers -> 0 .. MaxRead]
    BY <1>1, GateAssumption DEF Gate!Init
  <2>3. v6 \in [Gate!Readers -> {"idle", "fleet", "account"}]
    BY DEF Gate!Init
  <2> QED
    BY <1>1, <2>1, <2>2, <2>3, BoundsAssumption DEF Gate!Init, Gate!TypeOK, Gate!HaltStopsOrders
<1>3. Gate!ArmedFirst /\ Gate!ClearIsRecent /\ Gate!OutageIsTimed
  BY DEF Gate!Init, Gate!ArmedFirst, Gate!ClearIsRecent, Gate!OutageIsTimed
<1> QED BY <1>2, <1>3 DEF Gate!SafeGate

\* The latches change.
LEMMA GateLatches ==
    ASSUME Gate!SafeGate, NEW l \in Gate!Latches,
           Gate!SetLatch(l) \/ Gate!ClearLatch(l) \/ Gate!FireHalt
    PROVE  Gate!SafeGate'
<1> USE BoundsAssumption, GateAssumption DEF Gate!SafeGate
<1>1. /\ v1' \in [Gate!Latches -> Gate!Clear .. Gate!Old]
      /\ \A m \in Gate!Latches : v1'[m] <= v1[m] \/ v1'[m] = 0
  BY DEF Gate!SetLatch, Gate!ClearLatch, Gate!FireHalt, Gate!Write, Gate!TypeOK, Gate!Latches,
         Gate!Clear, Gate!Old, Gate!Bound
<1>2. /\ v13' \in 0 .. MaxOps /\ v2' = v2 /\ v3' = v3 /\ v4' = v4 /\ v5' = v5 /\ v8' = v8
      /\ v6' = v6 /\ v7' = v7 /\ v9' = v9 /\ v10' = v10 /\ v12' = v12
      /\ v11' = v11 \/ (v11 = "fire" /\ v11' = "onHalt")
  BY DEF Gate!SetLatch, Gate!ClearLatch, Gate!FireHalt, Gate!TypeOK, Gate!latches, Gate!gate,
         Gate!readers, Gate!watcher
<1>3. Gate!TypeOK' /\ Gate!HaltStopsOrders' /\ Gate!ArmedFirst'
  BY <1>1, <1>2 DEF Gate!TypeOK, Gate!HaltStopsOrders, Gate!ArmedFirst, Gate!Old, Gate!Bound
<1>4. Gate!ClearIsRecent'
  BY <1>1, <1>2 DEF Gate!ClearIsRecent, Gate!TypeOK, Gate!Latches, Gate!Readers, Gate!Clear,
     Gate!Old, Gate!Bound
<1>5. Gate!OutageIsTimed'
  BY <1>2 DEF Gate!OutageIsTimed
<1> QED BY <1>3, <1>4, <1>5

\* The wiring and the readers.
LEMMA GateReaders ==
    ASSUME Gate!SafeGate,
           \/ Gate!wire_halt_refresh \/ Gate!TradingStarts \/ Gate!RefreshDue
           \/ \E r \in Gate!Readers : Gate!ReadFleet(r) \/ Gate!ReadAccount(r) \/ Gate!ReadFails(r)
    PROVE  Gate!SafeGate'
<1> USE BoundsAssumption, GateAssumption
    DEF Gate!SafeGate, Gate!TypeOK, Gate!Latches, Gate!Readers, Gate!latches, Gate!gate,
        Gate!readers, Gate!watcher, Gate!Clear, Gate!HaltStopsOrders
<1>1. CASE Gate!wire_halt_refresh
  BY <1>1 DEF Gate!wire_halt_refresh, Gate!ArmedFirst, Gate!ClearIsRecent, Gate!OutageIsTimed
<1>2. CASE Gate!TradingStarts
  BY <1>2 DEF Gate!TradingStarts, Gate!ArmedFirst, Gate!ClearIsRecent, Gate!OutageIsTimed
<1>3. CASE Gate!RefreshDue
  BY <1>3 DEF Gate!RefreshDue, Gate!Goto, Gate!ArmedFirst, Gate!ClearIsRecent, Gate!OutageIsTimed
<1>4. ASSUME NEW r \in Gate!Readers, Gate!ReadFleet(r) PROVE Gate!SafeGate'
  BY <1>4 DEF Gate!ReadFleet, Gate!Stamp, Gate!Goto, Gate!ArmedFirst, Gate!ClearIsRecent,
     Gate!OutageIsTimed, Gate!Old, Gate!Bound
<1>5. ASSUME NEW r \in Gate!Readers, Gate!ReadAccount(r) PROVE Gate!SafeGate'
  BY <1>5 DEF Gate!ReadAccount, Gate!Stamp, Gate!Goto, Gate!ArmedFirst, Gate!ClearIsRecent,
     Gate!OutageIsTimed, Gate!Old, Gate!Bound
<1>6. ASSUME NEW r \in Gate!Readers, Gate!ReadFails(r) PROVE Gate!SafeGate'
  BY <1>6 DEF Gate!ReadFails, Gate!Goto, Gate!ArmedFirst, Gate!ClearIsRecent, Gate!OutageIsTimed
<1> QED BY <1>1, <1>2, <1>3, <1>4, <1>5, <1>6

\* An order that opens a position passes only on a clear cache that is not too old.
LEMMA GateSubmit ==
    ASSUME Gate!SafeGate, Gate!SubmitOrder
    PROVE  Gate!SafeGate'
<1> USE BoundsAssumption, GateAssumption
    DEF Gate!SafeGate, Gate!TypeOK, Gate!latches, Gate!readers, Gate!watcher
<1>1. v3 /\ v4 = "clear" /\ v5 <= MaxAge
  BY DEF Gate!SubmitOrder, Gate!_gate_decision, Gate!_halt_is_active, Gate!ArmedFirst
<1>2. /\ v1["fleet"] <= Gate!Bound /\ v1["account"] <= Gate!Bound
      /\ v1["fleet"] \in Gate!Clear .. Gate!Old /\ v1["account"] \in Gate!Clear .. Gate!Old
  BY <1>1 DEF Gate!ClearIsRecent, Gate!Latches, Gate!Bound, Gate!Clear, Gate!Old
<1>3. v8' <= Gate!Bound /\ v8' \in Gate!Clear .. Gate!Old
  BY <1>2 DEF Gate!SubmitOrder, Gate!Eldest, Gate!HaltStopsOrders, Gate!Bound, Gate!Old, Gate!Clear
<1> QED
  BY <1>3 DEF Gate!SubmitOrder, Gate!HaltStopsOrders, Gate!ArmedFirst, Gate!ClearIsRecent,
     Gate!OutageIsTimed

\* IB and the disconnect handler.
LEMMA GateOutage ==
    ASSUME Gate!SafeGate, Gate!Disconnects \/ Gate!Reconnects \/ Gate!Poll \/ Gate!OnHalt
    PROVE  Gate!SafeGate'
<1> USE BoundsAssumption, GateAssumption
    DEF Gate!SafeGate, Gate!TypeOK, Gate!Latches, Gate!Readers, Gate!latches, Gate!gate,
        Gate!readers, Gate!watcher, Gate!Clear, Gate!HaltStopsOrders
<1>1. CASE Gate!Disconnects
  BY <1>1 DEF Gate!Disconnects, Gate!ArmedFirst, Gate!ClearIsRecent, Gate!OutageIsTimed,
     Gate!Old, Gate!Bound
<1>2. CASE Gate!Reconnects
  BY <1>2 DEF Gate!Reconnects, Gate!ArmedFirst, Gate!ClearIsRecent, Gate!OutageIsTimed,
     Gate!Old, Gate!Bound
<1>3. CASE Gate!Poll
  <2>1. PICK connected \in Gate!_safe_check_connection :
          /\ v10' = IF connected THEN -1 ELSE IF v10 = -1 THEN 0 ELSE v10
          /\ v11' = IF ~connected /\ v10 >= OutageGrace THEN "fire" ELSE "poll"
    BY <1>3 DEF Gate!Poll
  <2>2. connected => v9 = -1
    BY <2>1, Zenon DEF Gate!_safe_check_connection
  <2>3. v10' \in {-1, 0, v10} /\ v11' \in {"fire", "poll"}
    BY <2>1
  <2>4. /\ v2' = v2 /\ v9' = v9 /\ v12' = TRUE /\ v2 = "trading" /\ v11 = "poll" /\ ~v12
        /\ v9 \in Int /\ v10 \in Int /\ -1 <= v10
    BY <1>3 DEF Gate!Poll, Gate!Old, Gate!Bound
  <2>5. Gate!OutageIsTimed'
    <3>1. CASE v11' = "poll" /\ connected
      BY <3>1, <2>1, <2>2, <2>4 DEF Gate!OutageIsTimed
    <3>2. CASE v11' = "poll" /\ ~connected
      BY <3>2, <2>1, <2>4 DEF Gate!OutageIsTimed
    <3> QED BY <3>1, <3>2, <2>3, <2>4 DEF Gate!OutageIsTimed
  <2> QED
    BY <1>3, <2>3, <2>5 DEF Gate!Poll, Gate!ArmedFirst, Gate!ClearIsRecent, Gate!Old, Gate!Bound
<1>4. CASE Gate!OnHalt
  BY <1>4 DEF Gate!OnHalt, Gate!ArmedFirst, Gate!ClearIsRecent, Gate!OutageIsTimed
<1> QED BY <1>1, <1>2, <1>3, <1>4

\* Time: every belief ages with the latches, and the clock of the handler with the outage.
LEMMA GateTick ==
    ASSUME Gate!SafeGate, Gate!Tick
    PROVE  Gate!SafeGate'
<1> USE BoundsAssumption, GateAssumption DEF Gate!SafeGate
<1>1. Gate!Old \in Nat /\ Gate!Old = MaxAge + MaxRead + OutageGrace + 2 /\ Gate!Clear = -1
  BY DEF Gate!Old, Gate!Bound, Gate!Clear
<1>2. \A t \in -1 .. Gate!Old : /\ Gate!Aged(t) \in -1 .. Gate!Old /\ Gate!Aged(t) <= t + 1
                                /\ (t \in Nat /\ t # Gate!Old => Gate!Aged(t) = t + 1)
                                /\ (t \in Nat => Gate!Aged(t) \in 0 .. Gate!Old /\ Gate!Aged(t) >= t)
                                /\ (t = -1 => Gate!Aged(t) = -1)
  BY <1>1 DEF Gate!Aged
<1>3. Gate!TypeOK' /\ Gate!HaltStopsOrders' /\ Gate!ArmedFirst'
  <2>1. v1' \in [Gate!Latches -> Gate!Clear .. Gate!Old]
    BY <1>1, <1>2 DEF Gate!Tick, Gate!TypeOK
  <2>2. v7' \in [Gate!Readers -> 0 .. MaxRead]
    BY DEF Gate!Tick, Gate!TypeOK
  <2>3. v5' \in 0 .. Gate!Old /\ v9' \in Gate!Clear .. Gate!Old /\ v10' \in Gate!Clear .. Gate!Old
    BY <1>1, <1>2 DEF Gate!Tick, Gate!TypeOK
  <2> QED
    BY <1>1, <2>1, <2>2, <2>3 DEF Gate!Tick, Gate!TypeOK, Gate!HaltStopsOrders, Gate!ArmedFirst,
       Gate!Bound
<1>4. Gate!ClearIsRecent'
  <2>1. \A r \in Gate!Readers : v6'[r] = "account" => v1'["fleet"] <= v7'[r]
    BY <1>1, <1>2 DEF Gate!Tick, Gate!TypeOK, Gate!ClearIsRecent, Gate!Readers, Gate!Latches
  <2>2. ASSUME v4' = "clear", NEW l \in Gate!Latches PROVE v1'[l] <= v5' + MaxRead
    <3>1. v1[l] <= v5 + MaxRead /\ v1[l] \in -1 .. Gate!Old /\ v5 \in 0 .. Gate!Old
      BY <1>1, <2>2 DEF Gate!Tick, Gate!ClearIsRecent, Gate!TypeOK
    <3>2. v1'[l] = Gate!Aged(v1[l]) /\ v5' = Gate!Aged(v5)
      BY <2>2 DEF Gate!Tick
    <3> QED BY <1>1, <1>2, <3>1, <3>2
  <2> QED BY <2>1, <2>2 DEF Gate!ClearIsRecent
<1>5. Gate!OutageIsTimed'
  <2>1. /\ v2' = v2 /\ v11' = v11 /\ v12' = FALSE /\ v9' = Gate!Aged(v9) /\ v10' = Gate!Aged(v10)
        /\ v9 \in -1 .. Gate!Old /\ v10 \in -1 .. Gate!Old
        /\ v2 = "trading" /\ v11 = "poll" => v12
    BY <1>1 DEF Gate!Tick, Gate!TypeOK
  <2>2. CASE v2 = "trading" /\ v11 = "poll"
    <3>1. v9 <= v10 + 1 /\ v10 < OutageGrace
      BY <2>1, <2>2 DEF Gate!OutageIsTimed
    <3> QED BY <3>1, <2>1, <2>2, <1>1, <1>2 DEF Gate!OutageIsTimed
  <2> QED BY <2>1, <2>2, <1>1, <1>2 DEF Gate!OutageIsTimed
<1> QED BY <1>3, <1>4, <1>5

LEMMA GateInvariant == Spec => [](part = "Gate" => Gate!SafeGate)
<1> DEFINE Inv == part = "Gate" => Gate!SafeGate
<1>1. Init => Inv
  BY GateStart DEF Init
<1>2. Inv /\ [Next]_pool => Inv'
  <2> SUFFICES ASSUME Inv, [Next]_pool, part' = "Gate" PROVE Gate!SafeGate'
    OBVIOUS
  <2>1. CASE UNCHANGED pool
    BY <2>1 DEF pool, Rest4, Rest5, Rest6, Rest7, Rest8, Rest9, Rest10, Rest11, Rest12, Rest13,
       Gate!SafeGate, Gate!TypeOK, Gate!HaltStopsOrders, Gate!ArmedFirst, Gate!ClearIsRecent,
       Gate!OutageIsTimed
  <2>2. CASE part = "Gate" /\ Gate!Next
    <3>1. Gate!SafeGate
      BY <2>2
    <3>2. "fleet" \in Gate!Latches
      BY DEF Gate!Latches
    <3> QED BY <2>2, <3>1, <3>2, GateLatches, GateReaders, GateSubmit, GateOutage, GateTick DEF Gate!Next
  <2> QED BY <2>1, <2>2 DEF Next
<1> QED BY <1>1, <1>2, PTL DEF Spec

\* However the two readers overlap, reads fail or latches come and go, no opening order
\* passes the strategy's gate once a halt has been latched for longer than MaxAge + MaxRead.
THEOREM HaltedNodesOpenNothing == Spec => []HaltStopsOrders
<1>1. (part = "Gate" => Gate!SafeGate) => HaltStopsOrders
  BY DEF HaltStopsOrders, Gate!SafeGate
<1> QED BY <1>1, GateInvariant, PTL

\* A node whose disconnect handler runs does not trade through an outage of IB that is
\* longer than the grace period and a poll, however probes and latch writes fail.
THEOREM OutagesStopTrading == Spec => []OutageStopsTrading
<1>1. (part = "Gate" => Gate!SafeGate) => OutageStopsTrading
  BY GateAssumption DEF OutageStopsTrading, Gate!SafeGate, Gate!OutageStopsTrading,
     Gate!OutageIsTimed, Gate!TypeOK, Gate!Clear, Gate!Old, Gate!Bound
<1> QED BY <1>1, GateInvariant, PTL

-----------------------------------------------------------------------------
(* NodeRouting.  v3: sup, v4: stage, v5: node.                              *)

LEMMA RoutingBoot ==
    ASSUME NEW c \in Configs
    PROVE  /\ Routing!Boot(c).routes \in Configs \cup {<<>>}
           /\ Routing!Parses(Routing!Boot(c).routes)
<1>1. CASE Routing!Parses(c)
  BY <1>1 DEF Routing!Boot
<1>2. CASE ~Routing!Parses(c)
  BY <1>2 DEF Routing!Boot, Routing!Down, Routing!Parses
<1> QED BY <1>1, <1>2

LEMMA RoutingStart == Routing!Init => Routing!RightRouting
<1> SUFFICES ASSUME Routing!Init PROVE Routing!RightRouting
  OBVIOUS
<1>1. Routing!Parses(v3.routes) /\ Routing!TypeOK
  BY RoutingBoot DEF Routing!Init, Routing!TypeOK, Routing!NoNode
<1>2. Routing!RouteIsRight /\ Routing!NoBlindNode /\ Routing!NodeWhileStarted /\ Routing!LoginIsReserved
  BY DEF Routing!Init, Routing!RouteIsRight, Routing!NoBlindNode, Routing!NodeWhileStarted,
         Routing!LoginIsReserved
<1> QED BY <1>1, <1>2 DEF Routing!RightRouting

\* The configuration and the two processes.
LEMMA RoutingProcesses ==
    ASSUME Routing!RightRouting,
           (\E c \in Configs : Routing!Reconfigure(c)) \/ Routing!BootApi \/ Routing!BootSupervisor
    PROVE  Routing!RightRouting'
<1> USE DEF Routing!RightRouting
<1>1. CASE (\E c \in Configs : Routing!Reconfigure(c)) \/ Routing!BootApi
  <2>1. v3' = v3 /\ v4' = v4 /\ v5' = v5 /\ v1' \in Configs /\ v2'.routes \in Configs \cup {<<>>}
    BY <1>1, RoutingBoot DEF Routing!Reconfigure, Routing!BootApi, Routing!TypeOK
  <2> QED
    BY <2>1 DEF Routing!TypeOK, Routing!RouteIsRight, Routing!NoBlindNode, Routing!NodeWhileStarted,
       Routing!LoginIsReserved, Routing!Parses, Routing!Entries
<1>2. CASE Routing!BootSupervisor
  <2>1. /\ v1' = v1 /\ v2' = v2 /\ v3' = Routing!Boot(v1)
        /\ v4' \in [Deployments -> {"idle", "queued"}]
        /\ v5' = [d \in Deployments |-> Routing!NoNode]
    BY <1>2 DEF Routing!BootSupervisor, Routing!TypeOK
  <2>2. v3'.routes \in Configs \cup {<<>>} /\ Routing!Parses(v3.routes)'
    BY <2>1, RoutingBoot DEF Routing!TypeOK, Routing!Parses
  <2>3. Routing!TypeOK'
    BY <2>1, <2>2 DEF Routing!TypeOK, Routing!NoNode
  <2>4. /\ Routing!RouteIsRight' /\ Routing!NoBlindNode' /\ Routing!NodeWhileStarted'
        /\ Routing!LoginIsReserved'
    BY <2>1 DEF Routing!RouteIsRight, Routing!NoBlindNode, Routing!NodeWhileStarted,
       Routing!LoginIsReserved
  <2> QED BY <2>2, <2>3, <2>4
<1> QED BY <1>1, <1>2

\* The stages of a start before and after the factory.
LEMMA RoutingStages ==
    ASSUME Routing!RightRouting, NEW d \in Deployments,
           Routing!Admit(d) \/ Routing!Reserve(d) \/ Routing!MarkRunning(d) \/ Routing!StopNode(d)
    PROVE  Routing!RightRouting'
<1> USE DEF Routing!RightRouting
<1>1. /\ v1' = v1 /\ v2' = v2 /\ v3' = v3 /\ v4 \in [Deployments -> {"idle", "queued", "reserved", "starting", "running"}]
      /\ Routing!Parses(v3.routes)'
  BY DEF Routing!Admit, Routing!Reserve, Routing!MarkRunning, Routing!StopNode, Routing!TypeOK,
         Routing!Parses
<1>2. Routing!TypeOK'
  BY <1>1 DEF Routing!Admit, Routing!Reserve, Routing!MarkRunning, Routing!StopNode, Routing!TypeOK,
         Routing!NoNode, Routing!NodeWhileStarted
<1>3. Routing!NodeWhileStarted'
  BY <1>1 DEF Routing!Admit, Routing!Reserve, Routing!MarkRunning, Routing!StopNode,
         Routing!NodeWhileStarted
<1>4. Routing!RouteIsRight' /\ Routing!NoBlindNode'
  BY <1>1 DEF Routing!Admit, Routing!Reserve, Routing!MarkRunning, Routing!StopNode,
         Routing!NodeWhileStarted, Routing!RouteIsRight, Routing!NoBlindNode, Routing!Entries
<1>5. Routing!LoginIsReserved'
  BY <1>1 DEF Routing!Admit, Routing!Reserve, Routing!MarkRunning, Routing!StopNode,
         Routing!LoginIsReserved
<1> QED BY <1>1, <1>2, <1>3, <1>4, <1>5

\* A node is always given a feed, or none is needed at all.
LEMMA RoutingFeeds ==
    ASSUME NEW d \in Deployments
    PROVE  Routing!Feeds(d).feeds # {}
BY RoutingAssumption DEF Routing!Feeds, Routing!use_per_account_topology, Routing!NativeFeeds,
   Routing!IbFeeds

\* The payload factory: routed with the supervisor's own router, checked against the port.
LEMMA RoutingFactory ==
    ASSUME Routing!RightRouting, NEW d \in Deployments, Routing!Factory(d)
    PROVE  Routing!RightRouting'
<1> DEFINE eps == {e \in Routing!Routes(d) : Routing!PortAgrees(e, d)}
<1> USE DEF Routing!RightRouting
<1>1. /\ v1' = v1 /\ v2' = v2 /\ v3' = v3 /\ v4[d] = "reserved" /\ v5[d] = Routing!NoNode
      /\ Routing!Parses(v3.routes)'
      /\ v4 \in [Deployments -> {"idle", "queued", "reserved", "starting", "running"}]
  BY DEF Routing!Factory, Routing!TypeOK, Routing!Parses, Routing!NodeWhileStarted
<1>2. CASE eps = {}
  <2>1. v4' = [v4 EXCEPT ![d] = "idle"] /\ v5' = v5
    BY <1>2 DEF Routing!Factory
  <2> QED
    BY <1>1, <2>1 DEF Routing!TypeOK, Routing!NodeWhileStarted, Routing!RouteIsRight,
       Routing!NoBlindNode, Routing!Entries, Routing!LoginIsReserved
<1>3. CASE eps # {}
  <2>1. PICK e \in eps : /\ v4' = [v4 EXCEPT ![d] = "starting"]
                         /\ v5' = [v5 EXCEPT ![d] = [ep |-> e, source |-> Routing!Feeds(d).source,
                                                     feeds |-> Routing!Feeds(d).feeds]]
    BY <1>3 DEF Routing!Factory
  <2> DEFINE n == [ep |-> e, source |-> Routing!Feeds(d).source, feeds |-> Routing!Feeds(d).feeds]
  <2>2. v5'[d] = n /\ n.ep = e /\ n.feeds # {} /\ n # Routing!NoNode
    BY <2>1, RoutingFeeds DEF Routing!NoNode, Routing!NodeWhileStarted
  <2>3. e \in Routing!Routes(d) /\ Routing!PortAgrees(e, d)
    OBVIOUS
  <2>4. e \in Endpoints
    BY <2>3, RoutingAssumption DEF Routing!Routes, Routing!Entries, Routing!TypeOK
  <2>5. Routing!IsRouted(d) => \E x \in Routing!Entries(v3, Plan[d].login) :
                                   x.ep = e /\ Routing!Binds(x, Plan[d].acct)
    BY <2>3 DEF Routing!Routes
  <2>6. /\ (e \in PaperPorts) = (Plan[d].acct \in PaperAccts)
        /\ (Plan[d].acct \in PaperAccts) = Plan[d].paper
    BY <2>3 DEF Routing!PortAgrees
  <2> HIDE DEF n, eps
  <2>7. \A x \in Deployments \ {d} : v5'[x] = v5[x] /\ v4'[x] = v4[x]
    BY <1>1, <2>1 DEF Routing!NodeWhileStarted
  <2>8. Routing!TypeOK' /\ Routing!NodeWhileStarted'
    BY <1>1, <2>1, <2>2, <2>4, <2>7, RoutingAssumption DEF Routing!TypeOK, Routing!NodeWhileStarted, Routing!NoNode
  <2>9. Routing!RouteIsRight' /\ Routing!NoBlindNode'
    BY <1>1, <2>2, <2>5, <2>6, <2>7 DEF Routing!RouteIsRight, Routing!NoBlindNode, Routing!Entries
  <2>10. Routing!LoginIsReserved'
    BY <1>1, <2>1 DEF Routing!LoginIsReserved
  <2> QED BY <1>1, <2>8, <2>9, <2>10
<1> QED BY <1>2, <1>3

\* A login is as good as a gateway, because the router names neither twice.
LEMMA RoutingSessions ==
    ASSUME Routing!RightRouting
    PROVE  Routing!OneStartPerSession
<1> SUFFICES ASSUME NEW d \in Deployments, NEW e \in Deployments,
                    Routing!IsRouted(d), Routing!IsRouted(e),
                    v4[d] = "starting", v4[e] = "starting", v5[d].ep = v5[e].ep
             PROVE  d = e
  BY DEF Routing!OneStartPerSession
<1> USE DEF Routing!RightRouting
<1>1. PICK x \in Routing!Entries(v3, Plan[d].login) : x.ep = v5[d].ep
  BY DEF Routing!RouteIsRight, Routing!NodeWhileStarted
<1>2. PICK y \in Routing!Entries(v3, Plan[e].login) : y.ep = v5[e].ep
  BY DEF Routing!RouteIsRight, Routing!NodeWhileStarted
<1>3. PICK i \in DOMAIN v3.routes : v3.routes[i] = x /\ x.login = Plan[d].login
  BY DEF Routing!Entries
<1>4. PICK j \in DOMAIN v3.routes : v3.routes[j] = y /\ y.login = Plan[e].login
  BY DEF Routing!Entries
<1>5. i = j
  BY <1>1, <1>2, <1>3, <1>4 DEF Routing!Parses
<1> QED BY <1>3, <1>4, <1>5 DEF Routing!LoginIsReserved

LEMMA RoutingInvariant == Spec => [](part = "Routing" => Routing!RightRouting)
<1> DEFINE Inv == part = "Routing" => Routing!RightRouting
<1>1. Init => Inv
  BY RoutingStart DEF Init
<1>2. Inv /\ [Next]_pool => Inv'
  <2> SUFFICES ASSUME Inv, [Next]_pool, part' = "Routing" PROVE Routing!RightRouting'
    OBVIOUS
  <2>1. CASE UNCHANGED pool
    BY <2>1 DEF pool, Rest4, Rest5, Rest6, Routing!RightRouting, Routing!TypeOK,
       Routing!RouteIsRight, Routing!NoBlindNode, Routing!NodeWhileStarted, Routing!LoginIsReserved,
       Routing!Parses, Routing!Entries
  <2>2. CASE part = "Routing" /\ Routing!Next
    BY <2>2, RoutingProcesses, RoutingStages, RoutingFactory DEF Routing!Next
  <2> QED BY <2>1, <2>2 DEF Next
<1> QED BY <1>1, <1>2, PTL DEF Spec

\* Whatever the operator edits and whichever process restarts, a node trades through a
\* gateway of its account's kind that its supervisor binds to the account, two starts never
\* share a session, and no node is without a feed.
THEOREM RoutesAreRight == Spec => []RoutingIsRight
<1> DEFINE Inv == part = "Routing" => Routing!RightRouting
<1>1. Inv => RoutingIsRight
  BY RoutingSessions DEF RoutingIsRight, Routing!RightRouting
<1> QED BY <1>1, RoutingInvariant, PTL

-----------------------------------------------------------------------------
(* Flatness.  v1: req, v2: inflight, v3: bus, v4: handled, v5: pending,       *)
(* v6: report, v7: node, v9: born.                                           *)

LEMMA AppendElements ==
    ASSUME NEW S, NEW s \in Seq(S), NEW x \in S
    PROVE  /\ Append(s, x) \in Seq(S) /\ Append(s, x) # <<>>
           /\ \A i \in DOMAIN Append(s, x) : Append(s, x)[i] = x \/ \E j \in DOMAIN s : s[j] = Append(s, x)[i]
<1>1. Append(s, x) \in Seq(S) /\ Len(Append(s, x)) = Len(s) + 1 /\ Len(s) \in Nat
  OBVIOUS
<1>2. ASSUME NEW i \in 1 .. Len(s) + 1
      PROVE  Append(s, x)[i] = x \/ \E j \in DOMAIN s : s[j] = Append(s, x)[i]
  <2>1. CASE i = Len(s) + 1
    BY <2>1
  <2>2. CASE i \in 1 .. Len(s)
    BY <2>2
  <2> QED BY <2>1, <2>2, <1>1
<1> QED BY <1>1, <1>2, SMTT(30)

LEMMA TailElements ==
    ASSUME NEW S, NEW s \in Seq(S), s # <<>>
    PROVE  /\ Tail(s) \in Seq(S) /\ Head(s) \in S /\ Head(s) = s[1] /\ 1 \in DOMAIN s
           /\ \A i \in DOMAIN Tail(s) : \E j \in DOMAIN s : s[j] = Tail(s)[i]
<1>1. Tail(s) \in Seq(S) /\ Len(Tail(s)) = Len(s) - 1 /\ Len(s) \in Nat \ {0}
  OBVIOUS
<1>2. \A i \in 1 .. Len(s) - 1 : i + 1 \in DOMAIN s /\ Tail(s)[i] = s[i + 1]
  BY <1>1
<1> QED BY <1>1, <1>2

LEMMA FlatStart == Flat!Init => Flat!HonestStops
<1> SUFFICES ASSUME Flat!Init PROVE Flat!HonestStops
  OBVIOUS
<1>1. Flat!TypeOK /\ Flat!RequestsAreTyped
  BY BoundsAssumption DEF Flat!Init, Flat!TypeOK, Flat!RequestsAreTyped, Flat!RequestRecord,
     Flat!None, Flat!NoReport, Flat!Requests
<1>2. Flat!NoncesAreFresh /\ Flat!NoncesAreBorn /\ Flat!ReportsAreLater /\ Flat!StopsSeeTheEnd
  BY DEF Flat!Init, Flat!NoncesAreFresh, Flat!NoncesAreBorn, Flat!ReportsAreLater,
     Flat!StopsSeeTheEnd, Flat!Unborn, Flat!EarlySteps, Flat!Queued, Flat!None, Flat!NoReport,
     Flat!Requests
<1> QED BY <1>1, <1>2 DEF Flat!HonestStops

\* What a step of request q may do: its fields change, the key is taken or freed, and the
\* nonce of q is born or published.
FlatMoves(q) ==
    LET r == v1'[q]
        born == r.pc \notin Flat!EarlySteps
    IN  /\ r \in Flat!RequestRecord /\ v1' = [v1 EXCEPT ![q] = r]
        /\ v4' = v4 /\ v5' = v5 /\ v6' = v6 /\ v7' = v7
        /\ v2' \in {v2, "none"} \/ (v2' = q /\ born)
        /\ v3' = v3 \/ (v3' = Append(v3, q) /\ born)
        /\ v9' = v9 \/ (v9' = [v9 EXCEPT ![q] = v7.run] /\ v1[q].pc \in Flat!EarlySteps)
        /\ ~born => v1[q].pc \in Flat!EarlySteps /\ r.nonce = "none"
        /\ r.nonce # "none" => \/ r.nonce = q /\ born
                               \/ r.nonce # q /\ v1[r.nonce].pc \notin Flat!EarlySteps
        /\ r.pc \in {"publish", "poll", "row", "free", "answer"} => r.nonce # "none"
        /\ r.report # 0 => r.nonce # "none" /\ r.report >= v9'[r.nonce]
        /\ q \in Stops =>
             /\ r.run <= v7.run /\ (r.pc = "begin" => r.run = 0)
             /\ r.pc # "done" => r.answer = "none"
             /\ r.pc \in {"free", "answer"} => r.ended >= r.run
             /\ r.answer = "stopped" /\ r.run > 0 => r.ended >= r.run /\ r.report # 0

LEMMA FlatMove ==
    ASSUME Flat!HonestStops, NEW q \in Flat!Requests, FlatMoves(q)
    PROVE  Flat!HonestStops'
<1> USE DEF FlatMoves
<1> USE FlatAssumption DEF Flat!HonestStops, Flat!None, Flat!NoReport
<1>1. /\ v1 \in [Flat!Requests -> Flat!RequestRecord] /\ v1' \in [Flat!Requests -> Flat!RequestRecord]
      /\ \A p \in Flat!Requests \ {q} : v1'[p] = v1[p]
      /\ Stops \subseteq Flat!Requests /\ "none" \notin Flat!Requests
  BY DEF Flat!RequestsAreTyped, Flat!Requests
<1>2. /\ v3' \in Seq(Flat!Requests) /\ (v3 # <<>> => v3' # <<>>)
      /\ \A p \in Flat!Requests \ {q} : (\E i \in DOMAIN v3' : v3'[i] = p) => (\E i \in DOMAIN v3 : v3[i] = p)
  <2>1. v3 \in Seq(Flat!Requests)
    BY DEF Flat!TypeOK
  <2>2. CASE v3' = Append(v3, q)
    BY <2>1, <2>2, AppendElements
  <2> QED BY <2>1, <2>2
<1>3. v9' \in [Flat!Requests -> Nat] /\ \A p \in Flat!Requests \ {q} : v9'[p] = v9[p]
  BY DEF Flat!RequestsAreTyped, Flat!TypeOK
<1>4. \A p \in Flat!Requests : v1'[q].pc \notin Flat!EarlySteps \/ p # q => (Flat!Unborn(p)' => Flat!Unborn(p))
  BY <1>1 DEF Flat!Unborn
<1>5. Flat!TypeOK'
  BY <1>1, <1>2 DEF Flat!TypeOK, Flat!RequestRecord
<1>6. Flat!RequestsAreTyped'
  BY <1>1, <1>2, <1>3 DEF Flat!RequestsAreTyped
<1>7. Flat!NoncesAreFresh'
  <2> SUFFICES ASSUME NEW p \in Flat!Requests, Flat!Unborn(p)'
               PROVE  ~Flat!Queued(p)' /\ v6'[p] = 0 /\ v1'[p].nonce = "none"
    BY DEF Flat!NoncesAreFresh
  <2>1. Flat!Unborn(p) /\ v1'[p].nonce = "none"
    BY <1>1 DEF Flat!Unborn, Flat!NoncesAreFresh
  <2>2. p = q => v3' = v3
    BY <1>1 DEF Flat!Unborn
  <2> QED BY <1>2, <2>1, <2>2 DEF Flat!NoncesAreFresh, Flat!Queued
<1>8. Flat!NoncesAreBorn'
  <2>1. v2' # "none" => ~Flat!Unborn(v2)'
    BY <1>1 DEF Flat!NoncesAreBorn, Flat!Unborn, Flat!TypeOK
  <2>2. ASSUME NEW p \in Flat!Requests, v1'[p].nonce # "none" PROVE ~Flat!Unborn(v1[p].nonce)'
    <3>1. PICK x : x = v1'[p].nonce
      OBVIOUS
    <3>2. x \in Flat!Requests
      BY <1>1, <2>2, <3>1 DEF Flat!RequestRecord
    <3>3. CASE p = q
      BY <1>1, <2>2, <3>1, <3>2, <3>3 DEF Flat!Unborn
    <3>4. CASE p # q
      <4>1. v1[p].nonce = x /\ v1[x].pc \notin Flat!EarlySteps
        BY <1>1, <2>2, <3>1, <3>4 DEF Flat!NoncesAreBorn, Flat!Unborn
      <4>2. v1'[x].pc \notin Flat!EarlySteps
        BY <1>1, <3>2, <4>1
      <4> QED BY <3>1, <4>2 DEF Flat!Unborn
    <3> QED BY <3>3, <3>4
  <2>3. \A p \in Flat!Requests : v1'[p].pc \in {"publish", "poll", "row", "free", "answer"} => v1'[p].nonce # "none"
    BY <1>1 DEF Flat!NoncesAreBorn
  <2> QED BY <2>1, <2>2, <2>3 DEF Flat!NoncesAreBorn
<1>9. Flat!ReportsAreLater'
  <2>1. v7.run \in Nat /\ v6 \in [Flat!Requests -> Nat]
    BY DEF Flat!TypeOK, Flat!RequestsAreTyped
  <2>2. \A p \in Flat!Requests : v9'[p] <= v7'.run /\ (v6'[p] # 0 => v6'[p] >= v9'[p])
    <3>1. v9 \in [Flat!Requests -> Nat]
      BY DEF Flat!RequestsAreTyped
    <3>2. CASE v9' = v9
      BY <3>2 DEF Flat!ReportsAreLater
    <3>3. CASE v9' = [v9 EXCEPT ![q] = v7.run] /\ v1[q].pc \in Flat!EarlySteps
      <4>1. v6[q] = 0 /\ v9'[q] = v7.run
        BY <3>1, <3>3 DEF Flat!NoncesAreFresh, Flat!Unborn
      <4> QED BY <4>1, <1>3, <2>1 DEF Flat!ReportsAreLater
    <3> QED BY <3>2, <3>3
  <2>3. ASSUME NEW p \in Flat!Requests, v1'[p].report # 0
        PROVE  v1'[p].nonce # "none" /\ v1'[p].report >= v9'[v1'[p].nonce]
    <3>1. CASE p = q
      BY <3>1, <2>3, <1>1
    <3>2. CASE p # q
      <4>1. /\ v1'[p] = v1[p] /\ v1[p].nonce # "none" /\ v1[p].report >= v9[v1[p].nonce]
            /\ v1[p].nonce \in Flat!Requests /\ ~Flat!Unborn(v1[p].nonce)
        BY <3>2, <2>3, <1>1 DEF Flat!ReportsAreLater, Flat!NoncesAreBorn, Flat!RequestRecord
      <4>2. v9'[v1[p].nonce] = v9[v1[p].nonce]
        BY <4>1, <1>3 DEF Flat!Unborn
      <4> QED BY <4>1, <4>2
    <3> QED BY <3>1, <3>2
  <2> QED BY <2>2, <2>3 DEF Flat!ReportsAreLater
<1>10. Flat!StopsSeeTheEnd'
  BY <1>1 DEF Flat!StopsSeeTheEnd
<1> QED BY <1>5, <1>6, <1>7, <1>8, <1>9, <1>10

\* A request is moved by new values of some of its fields.
LEMMA FlatFields ==
    ASSUME Flat!HonestStops, NEW q \in Flat!Requests
    PROVE  /\ v1[q].pc \in {"begin", "set", "get", "publish", "poll", "row", "free", "answer", "done"}
           /\ v1[q].nonce \in Flat!Requests \cup {"none"} /\ v1[q].run \in Nat
           /\ v1[q].report \in Nat /\ v1[q].ended \in Nat
           /\ v1[q].answer \in {"none", "nothing", "unknown", "stopped", "error", "timeout"}
           /\ v7.run \in Nat \ {0} /\ v6 \in [Flat!Requests -> Nat] /\ v9 \in [Flat!Requests -> Nat]
           /\ v1 \in [Flat!Requests -> Flat!RequestRecord] /\ v1[q] \in Flat!RequestRecord
           /\ v2 \in Flat!Requests \cup {"none"}
<1>1. /\ v1 \in [Flat!Requests -> Flat!RequestRecord] /\ v6 \in [Flat!Requests -> Nat]
      /\ v9 \in [Flat!Requests -> Nat] /\ v2 \in Flat!Requests \cup {"none"}
  BY DEF Flat!HonestStops, Flat!TypeOK, Flat!RequestsAreTyped, Flat!None
<1>2. v7.run \in Nat \ {0}
  BY DEF Flat!HonestStops, Flat!TypeOK
<1>3. v1[q] \in Flat!RequestRecord
  BY <1>1
<1> QED BY <1>1, <1>2, <1>3 DEF Flat!RequestRecord, Flat!None

LEMMA FlatBegin ==
    ASSUME Flat!HonestStops, NEW q \in Flat!Requests, Flat!Begin(q)
    PROVE  Flat!HonestStops'
<1>0. v1 \in [Flat!Requests -> Flat!RequestRecord] /\ v1[q] \in Flat!RequestRecord /\ v7.run \in Nat
  BY FlatFields
<1>1. /\ v1[q].pc = "begin" /\ v1[q].nonce = "none" /\ (q \in Stops => v1[q].answer = "none")
      /\ v1[q].report = 0 /\ (q \in Stops => v1[q].run = 0)
      /\ v2' = v2 /\ v3' = v3 /\ v4' = v4 /\ v5' = v5 /\ v6' = v6 /\ v7' = v7 /\ v9' = v9
  BY DEF Flat!HonestStops, Flat!Begin, Flat!At, Flat!Unborn, Flat!EarlySteps, Flat!NoncesAreFresh,
         Flat!ReportsAreLater, Flat!StopsSeeTheEnd, Flat!None, Flat!NoReport
<1>2. CASE Flat!Active
  <2>1. /\ v1'[q] \in Flat!RequestRecord /\ v1' = [v1 EXCEPT ![q] = v1'[q]]
        /\ v1'[q].pc = "set" /\ v1'[q].run = v7.run /\ v1'[q].nonce = "none"
        /\ v1'[q].report = 0 /\ v1'[q].answer = v1[q].answer
    BY <1>0, <1>1, <1>2 DEF Flat!Begin, Flat!RequestRecord
  <2>2. v1'[q].pc \in Flat!EarlySteps /\ v1[q].pc \in Flat!EarlySteps
    BY <2>1, <1>1 DEF Flat!EarlySteps
  <2>3. FlatMoves(q)
    BY <1>0, <1>1, <2>1, <2>2 DEF FlatMoves
  <2> QED BY <2>3, FlatMove
<1>3. CASE ~Flat!Active
  <2>1. /\ v1'[q] \in Flat!RequestRecord /\ v1' = [v1 EXCEPT ![q] = v1'[q]]
        /\ v1'[q].pc = "done" /\ v1'[q].run = v1[q].run /\ v1'[q].nonce = "none"
        /\ v1'[q].report = 0
    BY <1>0, <1>1, <1>3 DEF Flat!Begin, Flat!Answer, Flat!RequestRecord
  <2>2. v1'[q].pc \notin Flat!EarlySteps /\ v1[q].pc \in Flat!EarlySteps
    BY <2>1, <1>1 DEF Flat!EarlySteps
  <2>3. FlatMoves(q)
    BY <1>0, <1>1, <2>1, <2>2 DEF FlatMoves
  <2> QED BY <2>3, FlatMove
<1> QED BY <1>2, <1>3

\* The key is free and the nonce of q is born, or another request holds it.
LEMMA FlatCoalesce ==
    ASSUME Flat!HonestStops, NEW q \in Flat!Requests, Flat!Coalesce(q)
    PROVE  Flat!HonestStops'
<1>0. /\ v1 \in [Flat!Requests -> Flat!RequestRecord] /\ v1[q] \in Flat!RequestRecord
      /\ v7.run \in Nat /\ v9 \in [Flat!Requests -> Nat]
  BY FlatFields
<1>1. /\ v1[q].pc = "set" /\ v1[q].nonce = "none" /\ v1[q].report = 0
      /\ (q \in Stops => v1[q].answer = "none")
      /\ (q \in Stops => v1[q].run <= v7.run)
      /\ v3' = v3 /\ v4' = v4 /\ v5' = v5 /\ v6' = v6 /\ v7' = v7
  BY DEF Flat!HonestStops, Flat!Coalesce, Flat!At, Flat!Unborn, Flat!EarlySteps, Flat!NoncesAreFresh,
         Flat!ReportsAreLater, Flat!StopsSeeTheEnd, Flat!None, Flat!NoReport
<1>2. CASE v2 = "none"
  <2>1. /\ v1'[q] \in Flat!RequestRecord /\ v1' = [v1 EXCEPT ![q] = v1'[q]]
        /\ v1'[q].pc = "publish" /\ v1'[q].run = v1[q].run /\ v1'[q].nonce = q
        /\ v1'[q].report = 0 /\ v1'[q].answer = v1[q].answer
    BY <1>0, <1>1, <1>2 DEF Flat!Coalesce, Flat!None, Flat!RequestRecord
  <2>2. v1'[q].pc \notin Flat!EarlySteps /\ v1[q].pc \in Flat!EarlySteps
    BY <2>1, <1>1 DEF Flat!EarlySteps
  <2>3. v2' = q /\ v9' = [v9 EXCEPT ![q] = v7.run] /\ q # "none"
    BY <1>2, FlatAssumption DEF Flat!Coalesce, Flat!None, Flat!Requests
  <2>4. FlatMoves(q)
    BY <1>0, <1>1, <2>1, <2>2, <2>3 DEF FlatMoves
  <2> QED BY <2>4, FlatMove
<1>3. CASE v2 # "none"
  <2>1. /\ v1'[q] \in Flat!RequestRecord /\ v1' = [v1 EXCEPT ![q] = v1'[q]]
        /\ v1'[q].pc = "get" /\ v1'[q].run = v1[q].run /\ v1'[q].nonce = "none"
        /\ v1'[q].report = 0 /\ v1'[q].answer = v1[q].answer
    BY <1>0, <1>1, <1>3 DEF Flat!Coalesce, Flat!Goto, Flat!None, Flat!RequestRecord
  <2>2. v1'[q].pc \in Flat!EarlySteps /\ v1[q].pc \in Flat!EarlySteps /\ v2' = v2 /\ v9' = v9
    BY <2>1, <1>1, <1>3 DEF Flat!EarlySteps, Flat!Coalesce, Flat!None
  <2>3. FlatMoves(q)
    BY <1>0, <1>1, <2>1, <2>2 DEF FlatMoves
  <2> QED BY <2>3, FlatMove
<1> QED BY <1>2, <1>3

\* A loser joins the holder's nonce, which is born.
LEMMA FlatJoin ==
    ASSUME Flat!HonestStops, NEW q \in Flat!Requests, Flat!Join(q)
    PROVE  Flat!HonestStops'
<1>0. /\ v1 \in [Flat!Requests -> Flat!RequestRecord] /\ v1[q] \in Flat!RequestRecord
      /\ v7.run \in Nat /\ v2 \in Flat!Requests \cup {"none"}
  BY FlatFields
<1>1. /\ v1[q].pc = "get" /\ v1[q].nonce = "none" /\ v1[q].report = 0
      /\ (q \in Stops => v1[q].answer = "none")
      /\ (q \in Stops => v1[q].run <= v7.run)
      /\ v2 # "none" => v1[v2].pc \notin Flat!EarlySteps
      /\ v2' = v2 /\ v3' = v3 /\ v4' = v4 /\ v5' = v5 /\ v6' = v6 /\ v7' = v7 /\ v9' = v9
  BY DEF Flat!HonestStops, Flat!Join, Flat!At, Flat!Unborn, Flat!EarlySteps, Flat!NoncesAreFresh,
         Flat!NoncesAreBorn, Flat!ReportsAreLater, Flat!StopsSeeTheEnd, Flat!None, Flat!NoReport
<1>2. CASE v2 = "none"
  <2>1. /\ v1'[q] \in Flat!RequestRecord /\ v1' = [v1 EXCEPT ![q] = v1'[q]]
        /\ v1'[q].pc = "set" /\ v1'[q].run = v1[q].run /\ v1'[q].nonce = "none"
        /\ v1'[q].report = 0 /\ v1'[q].answer = v1[q].answer
    BY <1>0, <1>1, <1>2 DEF Flat!Join, Flat!None, Flat!RequestRecord
  <2>2. v1'[q].pc \in Flat!EarlySteps /\ v1[q].pc \in Flat!EarlySteps
    BY <2>1, <1>1 DEF Flat!EarlySteps
  <2>3. FlatMoves(q)
    BY <1>0, <1>1, <2>1, <2>2 DEF FlatMoves
  <2> QED BY <2>3, FlatMove
<1>3. CASE v2 # "none"
  <2>1. /\ v1'[q] \in Flat!RequestRecord /\ v1' = [v1 EXCEPT ![q] = v1'[q]]
        /\ v1'[q].pc = "poll" /\ v1'[q].run = v1[q].run /\ v1'[q].nonce = v2
        /\ v1'[q].report = 0 /\ v1'[q].answer = v1[q].answer
    BY <1>0, <1>1, <1>3 DEF Flat!Join, Flat!None, Flat!RequestRecord
  <2>2. v1'[q].pc \notin Flat!EarlySteps /\ v1[q].pc \in Flat!EarlySteps
    BY <2>1, <1>1 DEF Flat!EarlySteps
  <2>3. FlatMoves(q)
    BY <1>0, <1>1, <1>3, <2>1, <2>2 DEF FlatMoves
  <2> QED BY <2>3, FlatMove
<1> QED BY <1>2, <1>3

LEMMA FlatPublish ==
    ASSUME Flat!HonestStops, NEW q \in Flat!Requests, Flat!Publish(q)
    PROVE  Flat!HonestStops'
<1>0. /\ v1 \in [Flat!Requests -> Flat!RequestRecord] /\ v1[q] \in Flat!RequestRecord
      /\ v7.run \in Nat /\ v6 \in [Flat!Requests -> Nat] /\ v9 \in [Flat!Requests -> Nat]
      /\ v1[q].run \in Nat /\ v1[q].nonce \in Flat!Requests \cup {"none"}
  BY FlatFields
<1>1. /\ v1[q].pc = "publish" /\ v1[q].pc \notin Flat!EarlySteps
      /\ v1[v1[q].nonce].pc \notin Flat!EarlySteps
      /\ v1[q].nonce # "none"
      /\ v1[q].report # 0 => v1[q].nonce # "none" /\ v1[q].report >= v9[v1[q].nonce]
      /\ v4' = v4 /\ v5' = v5 /\ v6' = v6 /\ v7' = v7
      /\ \A n \in Flat!Requests : v6[n] # 0 => v6[n] >= v9[n]
  BY DEF Flat!HonestStops, Flat!Publish, Flat!At, Flat!Unborn, Flat!EarlySteps, Flat!NoncesAreBorn,
         Flat!ReportsAreLater, Flat!None, Flat!NoReport
<1>2. /\ v1'[q] \in Flat!RequestRecord /\ v1' = [v1 EXCEPT ![q] = v1'[q]]
      /\ v1'[q].pc \in {"poll", "done"} /\ v1'[q].run = v1[q].run /\ v1'[q].nonce = v1[q].nonce
      /\ v1'[q].report = v1[q].report /\ v1'[q].ended = v1[q].ended
      /\ v1'[q].answer = IF v1'[q].pc = "poll" THEN v1[q].answer ELSE "error"
  BY <1>0 DEF Flat!Publish, Flat!Goto, Flat!Answer, Flat!RequestRecord
<1>3. v2' \in {v2, "none"} /\ (v3' = v3 \/ v3' = Append(v3, q)) /\ v9' = v9
  BY DEF Flat!Publish, Flat!None
<1>4. v1'[q].pc \notin Flat!EarlySteps
  BY <1>2 DEF Flat!EarlySteps
<1>5. q \in Stops => /\ v1[q].run <= v7.run /\ v1[q].answer = "none"
                     /\ v1[q].pc \in {"free", "answer"} => v1[q].ended >= v1[q].run
  BY <1>1 DEF Flat!HonestStops, Flat!StopsSeeTheEnd, Flat!None
<1>6. FlatMoves(q)
  BY <1>0, <1>1, <1>2, <1>3, <1>4, <1>5 DEF FlatMoves
<1> QED BY <1>6, FlatMove

LEMMA FlatPollReport ==
    ASSUME Flat!HonestStops, NEW q \in Flat!Requests, Flat!PollReport(q)
    PROVE  Flat!HonestStops'
<1>0. /\ v1 \in [Flat!Requests -> Flat!RequestRecord] /\ v1[q] \in Flat!RequestRecord
      /\ v7.run \in Nat /\ v6 \in [Flat!Requests -> Nat] /\ v9 \in [Flat!Requests -> Nat]
      /\ v1[q].run \in Nat /\ v1[q].nonce \in Flat!Requests \cup {"none"}
  BY FlatFields
<1>1. /\ v1[q].pc = "poll" /\ v1[q].pc \notin Flat!EarlySteps
      /\ v1[v1[q].nonce].pc \notin Flat!EarlySteps
      /\ v1[q].nonce # "none"
      /\ v1[q].report # 0 => v1[q].nonce # "none" /\ v1[q].report >= v9[v1[q].nonce]
      /\ v4' = v4 /\ v5' = v5 /\ v6' = v6 /\ v7' = v7
      /\ \A n \in Flat!Requests : v6[n] # 0 => v6[n] >= v9[n]
  BY DEF Flat!HonestStops, Flat!PollReport, Flat!At, Flat!Unborn, Flat!EarlySteps, Flat!NoncesAreBorn,
         Flat!ReportsAreLater, Flat!None, Flat!NoReport
<1>2. /\ v1'[q] \in Flat!RequestRecord /\ v1' = [v1 EXCEPT ![q] = v1'[q]]
      /\ v1'[q].pc \in {"row", "done"} /\ v1'[q].run = v1[q].run /\ v1'[q].nonce = v1[q].nonce
      /\ v1'[q].report = v6[v1[q].nonce] /\ v1'[q].ended = v1[q].ended
      /\ q \in Stops => v1'[q].answer = v1[q].answer /\ v1'[q].pc = "row"
  BY <1>0, <1>1 DEF Flat!PollReport, Flat!Goto, Flat!Answer, Flat!NoReport, Flat!RequestRecord
<1>3. v2' \in {v2, "none"} /\ v3' = v3 /\ v9' = v9
  BY DEF Flat!PollReport, Flat!None
<1>4. v1'[q].pc \notin Flat!EarlySteps
  BY <1>2 DEF Flat!EarlySteps
<1>5. q \in Stops => /\ v1[q].run <= v7.run /\ v1[q].answer = "none"
                     /\ v1[q].pc \in {"free", "answer"} => v1[q].ended >= v1[q].run
  BY <1>1 DEF Flat!HonestStops, Flat!StopsSeeTheEnd, Flat!None
<1>6. FlatMoves(q)
  BY <1>0, <1>1, <1>2, <1>3, <1>4, <1>5 DEF FlatMoves
<1> QED BY <1>6, FlatMove

LEMMA FlatPollRow ==
    ASSUME Flat!HonestStops, NEW q \in Flat!Requests, Flat!PollRow(q)
    PROVE  Flat!HonestStops'
<1>0. /\ v1 \in [Flat!Requests -> Flat!RequestRecord] /\ v1[q] \in Flat!RequestRecord
      /\ v7.run \in Nat /\ v6 \in [Flat!Requests -> Nat] /\ v9 \in [Flat!Requests -> Nat]
      /\ v1[q].run \in Nat /\ v1[q].nonce \in Flat!Requests \cup {"none"}
  BY FlatFields
<1>1. /\ v1[q].pc = "row" /\ v1[q].pc \notin Flat!EarlySteps
      /\ v1[v1[q].nonce].pc \notin Flat!EarlySteps
      /\ v1[q].nonce # "none"
      /\ v1[q].report # 0 => v1[q].nonce # "none" /\ v1[q].report >= v9[v1[q].nonce]
      /\ v4' = v4 /\ v5' = v5 /\ v6' = v6 /\ v7' = v7
      /\ \A n \in Flat!Requests : v6[n] # 0 => v6[n] >= v9[n]
  BY DEF Flat!HonestStops, Flat!PollRow, Flat!At, Flat!Unborn, Flat!EarlySteps, Flat!NoncesAreBorn,
         Flat!ReportsAreLater, Flat!None, Flat!NoReport
<1>2. /\ v1'[q] \in Flat!RequestRecord /\ v1' = [v1 EXCEPT ![q] = v1'[q]]
      /\ v1'[q].pc \in {"free", "done"} /\ v1'[q].run = v1[q].run /\ v1'[q].nonce = v1[q].nonce
      /\ v1'[q].report = v1[q].report
      /\ v1'[q].pc = "free" => v1'[q].ended = v7.run /\ v1'[q].answer = v1[q].answer
      /\ v1'[q].pc = "done" => v1'[q].answer = "timeout"
  BY <1>0, <1>1 DEF Flat!PollRow, Flat!RowIsTerminal, Flat!Answer, Flat!RequestRecord
<1>3. v2' = v2 /\ v3' = v3 /\ v9' = v9
  BY DEF Flat!PollRow
<1>4. v1'[q].pc \notin Flat!EarlySteps
  BY <1>2 DEF Flat!EarlySteps
<1>5. q \in Stops => /\ v1[q].run <= v7.run /\ v1[q].answer = "none"
                     /\ v1[q].pc \in {"free", "answer"} => v1[q].ended >= v1[q].run
  BY <1>1 DEF Flat!HonestStops, Flat!StopsSeeTheEnd, Flat!None
<1>6. FlatMoves(q)
  BY <1>0, <1>1, <1>2, <1>3, <1>4, <1>5 DEF FlatMoves
<1> QED BY <1>6, FlatMove

LEMMA FlatFree ==
    ASSUME Flat!HonestStops, NEW q \in Flat!Requests, Flat!Free(q)
    PROVE  Flat!HonestStops'
<1>0. /\ v1 \in [Flat!Requests -> Flat!RequestRecord] /\ v1[q] \in Flat!RequestRecord
      /\ v7.run \in Nat /\ v6 \in [Flat!Requests -> Nat] /\ v9 \in [Flat!Requests -> Nat]
      /\ v1[q].run \in Nat /\ v1[q].nonce \in Flat!Requests \cup {"none"}
  BY FlatFields
<1>1. /\ v1[q].pc = "free" /\ v1[q].pc \notin Flat!EarlySteps
      /\ v1[v1[q].nonce].pc \notin Flat!EarlySteps
      /\ v1[q].nonce # "none"
      /\ v1[q].report # 0 => v1[q].nonce # "none" /\ v1[q].report >= v9[v1[q].nonce]
      /\ v4' = v4 /\ v5' = v5 /\ v6' = v6 /\ v7' = v7
      /\ \A n \in Flat!Requests : v6[n] # 0 => v6[n] >= v9[n]
  BY DEF Flat!HonestStops, Flat!Free, Flat!At, Flat!Unborn, Flat!EarlySteps, Flat!NoncesAreBorn,
         Flat!ReportsAreLater, Flat!None, Flat!NoReport
<1>2. /\ v1'[q] \in Flat!RequestRecord /\ v1' = [v1 EXCEPT ![q] = v1'[q]]
      /\ v1'[q].pc = "answer" /\ v1'[q].run = v1[q].run /\ v1'[q].nonce = v1[q].nonce
      /\ v1'[q].report = v1[q].report /\ v1'[q].ended = v1[q].ended
      /\ v1'[q].answer = v1[q].answer
  BY <1>0, <1>1 DEF Flat!Free, Flat!Goto, Flat!RequestRecord
<1>3. v2' = "none" /\ v3' = v3 /\ v9' = v9
  BY DEF Flat!Free, Flat!None
<1>4. v1'[q].pc \notin Flat!EarlySteps
  BY <1>2 DEF Flat!EarlySteps
<1>5. q \in Stops => /\ v1[q].run <= v7.run /\ v1[q].answer = "none"
                     /\ v1[q].pc \in {"free", "answer"} => v1[q].ended >= v1[q].run
  BY <1>1 DEF Flat!HonestStops, Flat!StopsSeeTheEnd, Flat!None
<1>6. FlatMoves(q)
  BY <1>0, <1>1, <1>2, <1>3, <1>4, <1>5 DEF FlatMoves
<1> QED BY <1>6, FlatMove

LEMMA FlatFinish ==
    ASSUME Flat!HonestStops, NEW q \in Flat!Requests, Flat!Finish(q)
    PROVE  Flat!HonestStops'
<1>0. /\ v1 \in [Flat!Requests -> Flat!RequestRecord] /\ v1[q] \in Flat!RequestRecord
      /\ v7.run \in Nat /\ v6 \in [Flat!Requests -> Nat] /\ v9 \in [Flat!Requests -> Nat]
      /\ v1[q].run \in Nat /\ v1[q].nonce \in Flat!Requests \cup {"none"}
  BY FlatFields
<1>1. /\ v1[q].pc = "answer" /\ v1[q].pc \notin Flat!EarlySteps
      /\ v1[v1[q].nonce].pc \notin Flat!EarlySteps
      /\ v1[q].nonce # "none"
      /\ v1[q].report # 0 => v1[q].nonce # "none" /\ v1[q].report >= v9[v1[q].nonce]
      /\ v4' = v4 /\ v5' = v5 /\ v6' = v6 /\ v7' = v7
      /\ \A n \in Flat!Requests : v6[n] # 0 => v6[n] >= v9[n]
  BY DEF Flat!HonestStops, Flat!Finish, Flat!At, Flat!Unborn, Flat!EarlySteps, Flat!NoncesAreBorn,
         Flat!ReportsAreLater, Flat!None, Flat!NoReport
<1>2. /\ v1'[q] \in Flat!RequestRecord /\ v1' = [v1 EXCEPT ![q] = v1'[q]]
      /\ v1'[q].pc = "done" /\ v1'[q].run = v1[q].run /\ v1'[q].nonce = v1[q].nonce
      /\ v1'[q].report = v1[q].report /\ v1'[q].ended = v1[q].ended
      /\ v1'[q].answer = "stopped" => v1'[q].report # 0
  BY <1>0, <1>1 DEF Flat!Finish, Flat!Answer, Flat!NoReport, Flat!RequestRecord
<1>3. v2' = v2 /\ v3' = v3 /\ v9' = v9
  BY DEF Flat!Finish
<1>4. v1'[q].pc \notin Flat!EarlySteps
  BY <1>2 DEF Flat!EarlySteps
<1>5. q \in Stops => /\ v1[q].run <= v7.run /\ v1[q].answer = "none"
                     /\ v1[q].pc \in {"free", "answer"} => v1[q].ended >= v1[q].run
  BY <1>1 DEF Flat!HonestStops, Flat!StopsSeeTheEnd, Flat!None
<1>6. FlatMoves(q)
  BY <1>0, <1>1, <1>2, <1>3, <1>4, <1>5 DEF FlatMoves
<1> QED BY <1>6, FlatMove

\* The steps of the supervisor and the child: they move commands, tickets and reports.
LEMMA FlatSupervisor ==
    ASSUME Flat!HonestStops,
           Flat!ExpireInflight \/ Flat!PushTicket \/ Flat!Signal \/ Flat!SupervisorCrash
           \/ Flat!ExpireTickets \/ Flat!Exit \/ Flat!NodeCrash \/ Flat!Restart
    PROVE  Flat!HonestStops'
<1> USE DEF Flat!HonestStops, Flat!None, Flat!NoReport
<1>1. /\ v3 \in Seq(Flat!Requests) /\ v5 \in Seq(Flat!Requests) /\ v4 \in Flat!Requests \cup {"none"}
      /\ v4 # "none" => v3 # <<>>
  BY DEF Flat!TypeOK, Flat!RequestsAreTyped
<1>2. /\ v1' = v1 /\ v6' = v6 /\ v9' = v9 /\ v2' \in {v2, "none"}
      /\ v3' = v3 \/ (v3 # <<>> /\ v3' = Tail(v3) /\ v4' = "none")
      /\ v5' = v5 \/ v5' = <<>> \/ (v3 # <<>> /\ v5' = Append(v5, Head(v3)))
      /\ v4' \in {v4, "none"} \/ (v3 # <<>> /\ v3' = v3 /\ v4' = Head(v3))
  BY <1>1 DEF Flat!ExpireInflight, Flat!PushTicket, Flat!Signal, Flat!SupervisorCrash, Flat!ExpireTickets,
     Flat!Exit, Flat!NodeCrash, Flat!Restart, Flat!Fault
<1>3. v7' \in [run : 1 .. MaxRuns, pc : {"running", "stopping", "down"}] /\ v7'.run >= v7.run
  <2>1. v7 \in [run : 1 .. MaxRuns, pc : {"running", "stopping", "down"}] /\ v7.run \in Nat
    BY BoundsAssumption DEF Flat!TypeOK
  <2>2. CASE v7' = v7
    BY <2>1, <2>2
  <2>3. CASE Flat!Signal \/ Flat!Exit \/ Flat!NodeCrash
    BY <2>1, <2>3 DEF Flat!Signal, Flat!Exit, Flat!NodeCrash
  <2>4. CASE Flat!Restart
    BY <2>1, <2>4, BoundsAssumption DEF Flat!Restart
  <2> QED
    BY <2>2, <2>3, <2>4 DEF Flat!ExpireInflight, Flat!PushTicket, Flat!SupervisorCrash,
       Flat!ExpireTickets
<1>4. /\ v3' \in Seq(Flat!Requests) /\ v5' \in Seq(Flat!Requests)
      /\ \A q \in Flat!Requests : Flat!Queued(q)' => Flat!Queued(q)
  <2>1. v3' \in Seq(Flat!Requests) /\ \A i \in DOMAIN v3' : \E j \in DOMAIN v3 : v3[j] = v3'[i]
    BY <1>1, <1>2, TailElements, SMTT(30)
  <2>2. /\ v5' \in Seq(Flat!Requests)
        /\ \A i \in DOMAIN v5' : \/ \E j \in DOMAIN v5 : v5[j] = v5'[i]
                                 \/ \E j \in DOMAIN v3 : v3[j] = v5'[i]
    <3>0. CASE v5' = v5
      BY <3>0, <1>1
    <3>1. CASE v5' = <<>>
      BY <3>1
    <3>2. CASE v3 # <<>> /\ v5' = Append(v5, Head(v3))
      <4>1. Head(v3) \in Flat!Requests /\ Head(v3) = v3[1] /\ 1 \in DOMAIN v3
        BY <1>1, <3>2, TailElements
      <4> QED BY <1>1, <3>2, <4>1, AppendElements
    <3> QED BY <3>0, <3>1, <3>2, <1>2
  <2> QED BY <2>1, <2>2 DEF Flat!Queued
<1>5. v4' \in Flat!Requests \cup {"none"} /\ (v4' # "none" => v3' # <<>>)
  BY <1>1, <1>2, TailElements
<1>6. Flat!TypeOK' /\ Flat!RequestsAreTyped'
  BY <1>2, <1>3, <1>4, <1>5 DEF Flat!TypeOK, Flat!RequestsAreTyped
<1>7. Flat!NoncesAreFresh' /\ Flat!NoncesAreBorn'
  BY <1>2, <1>4 DEF Flat!NoncesAreFresh, Flat!NoncesAreBorn, Flat!Unborn
<1>8. v7.run \in Nat /\ v7'.run \in Nat
  BY <1>3, BoundsAssumption DEF Flat!TypeOK
<1>9. Flat!ReportsAreLater'
  BY <1>2, <1>3, <1>8 DEF Flat!ReportsAreLater, Flat!RequestsAreTyped
<1>10. Flat!StopsSeeTheEnd'
  <2>1. \A q \in Stops : v1[q].run \in Nat
    BY FlatFields DEF Flat!Requests
  <2> QED BY <1>2, <1>3, <1>8, <2>1 DEF Flat!StopsSeeTheEnd
<1> QED BY <1>6, <1>7, <1>9, <1>10

\* A report is written for a nonce that is queued, hence born, by a run not older than it.
LEMMA FlatDrain ==
    ASSUME Flat!HonestStops, Flat!Drain
    PROVE  Flat!HonestStops'
<1> USE DEF Flat!HonestStops, Flat!None, Flat!NoReport
<1> DEFINE h == Head(v5)
<1>1. /\ v5 \in Seq(Flat!Requests) /\ v5 # <<>> /\ v5' = Tail(v5)
      /\ v6' = [n \in Flat!Requests |-> IF n = h THEN v7.run ELSE v6[n]]
      /\ v1' = v1 /\ v2' = v2 /\ v3' = v3 /\ v4' = v4 /\ v7' = v7 /\ v9' = v9
      /\ v7.run \in Nat /\ v6 \in [Flat!Requests -> Nat]
  BY BoundsAssumption DEF Flat!Drain, Flat!ReportsTo, Flat!TypeOK, Flat!RequestsAreTyped
<1>2. /\ v5' \in Seq(Flat!Requests) /\ h \in Flat!Requests /\ h = v5[1] /\ 1 \in DOMAIN v5
      /\ \A i \in DOMAIN v5' : \E j \in DOMAIN v5 : v5[j] = v5'[i]
  BY <1>1, TailElements
<1> HIDE DEF h
<1>3. Flat!Queued(h) /\ \A q \in Flat!Requests : Flat!Queued(q)' => Flat!Queued(q)
  BY <1>1, <1>2 DEF Flat!Queued
<1>4. Flat!TypeOK' /\ Flat!RequestsAreTyped'
  BY <1>1, <1>2 DEF Flat!TypeOK, Flat!RequestsAreTyped
<1>5. Flat!NoncesAreFresh' /\ Flat!NoncesAreBorn'
  BY <1>1, <1>3 DEF Flat!NoncesAreFresh, Flat!NoncesAreBorn, Flat!Unborn
<1>6. Flat!ReportsAreLater'
  BY <1>1, <1>2 DEF Flat!ReportsAreLater, Flat!RequestsAreTyped
<1>7. Flat!StopsSeeTheEnd'
  BY <1>1 DEF Flat!StopsSeeTheEnd
<1> QED BY <1>4, <1>5, <1>6, <1>7

LEMMA FlatInvariant == Spec => [](part = "Flat" => Flat!HonestStops)
<1> DEFINE Inv == part = "Flat" => Flat!HonestStops
<1>1. Init => Inv
  BY FlatStart DEF Init
<1>2. Inv /\ [Next]_pool => Inv'
  <2> SUFFICES ASSUME Inv, [Next]_pool, part' = "Flat" PROVE Flat!HonestStops'
    OBVIOUS
  <2>1. CASE UNCHANGED pool
    BY <2>1 DEF pool, Rest4, Rest5, Rest6, Rest7, Rest8, Rest9, Rest10, Flat!HonestStops,
       Flat!TypeOK, Flat!RequestsAreTyped, Flat!NoncesAreFresh, Flat!NoncesAreBorn,
       Flat!ReportsAreLater, Flat!StopsSeeTheEnd, Flat!Unborn, Flat!Queued
  <2>2. CASE part = "Flat" /\ Flat!Next
    <3>1. CASE \E q \in Flat!Requests : Flat!Request(q)
      BY <2>2, <3>1, FlatBegin, FlatCoalesce, FlatJoin, FlatPublish, FlatPollReport, FlatPollRow,
         FlatFree, FlatFinish DEF Flat!Request
    <3> QED BY <2>2, <3>1, FlatSupervisor, FlatDrain DEF Flat!Next
  <2> QED BY <2>1, <2>2 DEF Next
<1> QED BY <1>1, <1>2, PTL DEF Spec

\* Over lost publishes, redeliveries, crashes of the node and new runs of it, a /stop that
\* found an active node answers "stopped" only once that node or a later one has ended, and
\* with a report written after the birth of its nonce.
THEOREM StopAnswersAreHonest == Spec => []StopAnswerIsHonest
<1> DEFINE Inv == part = "Flat" => Flat!HonestStops
<1>1. Inv => StopAnswerIsHonest
  <2>1. ASSUME Flat!HonestStops PROVE Flat!StopAnswerIsHonest
    BY <2>1 DEF Flat!HonestStops, Flat!StopsSeeTheEnd, Flat!ReportsAreLater, Flat!StopAnswerIsHonest,
       Flat!Requests
  <2> QED BY <2>1 DEF StopAnswerIsHonest
<1> QED BY <1>1, FlatInvariant, PTL

-----------------------------------------------------------------------------
(* DataFreshness.  v1: now, v2: phase, v3: last, v4: own, v5: shared,         *)
(* v6: started, v7: silent.                                                  *)

\* A set of naturals has a least member.
LEMMA LeastNatural ==
    ASSUME NEW T \in SUBSET Nat, T # {}
    PROVE  \E m \in T : \A n \in T : m <= n
<1> DEFINE R == OpToRel(<, Nat)
<1>1. IsWellFoundedOn(R, Nat)
  BY NatLessThanWellFounded
<1>2. \A x, y \in Nat : <<y, x>> \in R <=> y < x
  BY DEF OpToRel
<1> HIDE DEF R
<1>3. PICK m \in T : \A n \in T : ~(<<n, m>> \in R)
  BY <1>1, WFMin
<1>4. ASSUME NEW n \in T PROVE m <= n
  <2>1. n \in Nat /\ m \in Nat /\ ~(n < m)
    BY <1>2, <1>3
  <2> QED BY <2>1
<1> QED BY <1>4

\* A set of integers with an upper bound has a greatest member.
LEMMA GreatestInteger ==
    ASSUME NEW T \in SUBSET Int, T # {}, NEW b \in Int, \A x \in T : x <= b
    PROVE  \E m \in T : \A n \in T : m >= n
<1> DEFINE D == {b - x : x \in T}
<1>1. D \in SUBSET Nat /\ D # {}
  <2>1. \A x \in T : b - x \in Nat
    OBVIOUS
  <2>2. \E x \in T : b - x \in D
    OBVIOUS
  <2> QED BY <2>1, <2>2
<1>2. PICK d \in D : \A e \in D : d <= e
  BY <1>1, LeastNatural
<1>3. PICK m \in T : d = b - m
  OBVIOUS
<1>4. \A n \in T : b - m <= b - n
  BY <1>2, <1>3
<1> QED BY <1>4

LEMMA FreshMin ==
    ASSUME NEW T \in SUBSET Nat, T # {}
    PROVE  Fresh!Min(T) \in T /\ \A n \in T : Fresh!Min(T) <= n
BY LeastNatural DEF Fresh!Min

LEMMA FreshMax ==
    ASSUME NEW T \in SUBSET Int, T # {}, NEW b \in Int, \A x \in T : x <= b
    PROVE  Fresh!Max(T) \in T /\ \A n \in T : Fresh!Max(T) >= n
BY GreatestInteger DEF Fresh!Max

LEMMA FreshMaxOfTwo ==
    ASSUME NEW a \in Int, NEW b \in Int
    PROVE  Fresh!Max({a, b}) \in Int /\ Fresh!Max({a, b}) = IF a >= b THEN a ELSE b
<1>1. \E x \in {a, b} : \A y \in {a, b} : x >= y
  OBVIOUS
<1>2. Fresh!Max({a, b}) \in {a, b} /\ \A y \in {a, b} : Fresh!Max({a, b}) >= y
  BY <1>1 DEF Fresh!Max
<1> QED BY <1>2

LEMMA FreshMaxOfThree ==
    ASSUME NEW a \in Int, NEW b \in Int, NEW c \in Int
    PROVE  /\ Fresh!Max({a, b, c}) \in {a, b, c}
           /\ Fresh!Max({a, b, c}) >= a /\ Fresh!Max({a, b, c}) >= b /\ Fresh!Max({a, b, c}) >= c
<1>1. \E x \in {a, b, c} : \A y \in {a, b, c} : x >= y
  OBVIOUS
<1>2. /\ Fresh!Max({a, b, c}) \in {a, b, c}
      /\ \A y \in {a, b, c} : Fresh!Max({a, b, c}) >= y
  BY <1>1 DEF Fresh!Max
<1> QED BY <1>2

\* What Since, in any phase, comes to.
LEMMA FreshSince ==
    ASSUME NEW t \in Int, NEW o \in Int
    PROVE  LET m == Fresh!Max({t, o, 0})
           IN  m \in {t, o, 0} /\ m \in Int /\ m >= t /\ m >= o /\ m >= 0
<1>1. 0 \in Int
  OBVIOUS
<1> QED BY <1>1, FreshMaxOfThree

LEMMA FreshTypes ==
    ASSUME Fresh!ExactStaleness
    PROVE  /\ v1 \in Nat /\ v2.open \in Nat /\ v2.open <= v1 /\ v2.is \in DOMAIN GraceOf
           /\ Fresh!Grace \in Nat /\ Fresh!Never = -1
           /\ \A f \in Watched : v3[f] \in Int /\ -1 <= v3[f] /\ v3[f] <= v1 /\ Interval[f] \in Nat
           /\ v3 \in [Watched -> -1 .. v1] /\ v4 \in [Watched -> -1 .. v1] /\ v5 \in [Watched -> -1 .. v1]
           /\ v6 \in Int /\ -1 <= v6 /\ v6 <= v1
BY FreshAssumption DEF Fresh!ExactStaleness, Fresh!TypeOK, Fresh!Grace, Fresh!Never

LEMMA FreshStart == Fresh!Init => Fresh!ExactStaleness
<1> SUFFICES ASSUME Fresh!Init PROVE Fresh!ExactStaleness
  OBVIOUS
<1>1. v1 = 0 /\ v2.open = 0 /\ v2.is \in DOMAIN GraceOf /\ v3 = [f \in Watched |-> -1]
      /\ v4 = v3 /\ v5 = v3 /\ v6 = -1 /\ v7 = "none"
  BY DEF Fresh!Init, Fresh!Empty, Fresh!Never
<1>2. Fresh!TypeOK
  BY <1>1, FreshAssumption DEF Fresh!TypeOK, Fresh!Never
<1>3. Fresh!RegistryFollows
  BY <1>1 DEF Fresh!RegistryFollows, Fresh!Never, Fresh!Empty
<1>4. Fresh!NoBarIsLate
  <2>1. Fresh!Grace \in Nat
    BY <1>1, FreshAssumption DEF Fresh!Grace
  <2>2. ASSUME NEW f \in Watched PROVE v1 <= Fresh!Since(v3[f]) + Interval[f] + Fresh!Grace
    <3>1. Fresh!Since(v3[f]) \in Int /\ Fresh!Since(v3[f]) >= 0
      <4>1. v3[f] \in Int /\ v2.open \in Int
        BY <1>1
      <4> QED BY <4>1, FreshSince DEF Fresh!Since
    <3> QED BY <1>1, <2>1, <3>1, FreshAssumption
  <2> QED BY <2>2 DEF Fresh!NoBarIsLate
<1> QED BY <1>1, <1>2, <1>3, <1>4 DEF Fresh!ExactStaleness

LEMMA FreshRecord ==
    ASSUME NEW reg \in [Watched -> -1 .. v1], NEW f \in Watched, v1 \in Nat
    PROVE  Fresh!record(reg, f, v1) = [reg EXCEPT ![f] = v1]
<1>1. Fresh!Max({reg[f], v1}) = v1
  BY FreshMaxOfTwo
<1> QED BY <1>1 DEF Fresh!record

LEMMA FreshBar ==
    ASSUME Fresh!ExactStaleness, NEW f \in Watched, Fresh!on_bar(f)
    PROVE  Fresh!ExactStaleness'
<1> USE FreshTypes
<1>1. /\ v3' = [v3 EXCEPT ![f] = v1] /\ v1' = v1 /\ v2' = v2 /\ v6' = v6 /\ v7' = v7
      /\ v3' \in [Watched -> -1 .. v1]
  BY DEF Fresh!on_bar
<1>2. IF v6 = -1 THEN v4' = [v4 EXCEPT ![f] = v1] /\ v5' = v5
                 ELSE v5' = [v5 EXCEPT ![f] = v1] /\ v4' = v4
  BY FreshRecord DEF Fresh!on_bar, Fresh!Never
<1>3. Fresh!TypeOK'
  BY <1>1, <1>2 DEF Fresh!TypeOK, Fresh!ExactStaleness, Fresh!Never
<1>4. Fresh!RegistryFollows'
  BY <1>1, <1>2 DEF Fresh!RegistryFollows, Fresh!ExactStaleness, Fresh!Never, Fresh!Empty
<1>5. Fresh!NoBarIsLate'
  <2> SUFFICES ASSUME Fresh!Open, NEW g \in Watched \ {v7}
               PROVE  v1 <= Fresh!Since(v3[g])' + Interval[g] + Fresh!Grace
    BY <1>1 DEF Fresh!NoBarIsLate, Fresh!Open, Fresh!Grace
  <2>1. CASE g = f
    <3>1. Fresh!Since(v3[g])' \in Int /\ Fresh!Since(v3[g])' >= v1
      <4>1. v3'[g] = v1 /\ v1 \in Int /\ v2.open \in Int
        BY <1>1, <2>1
      <4>2. Fresh!Since(v3[g])' = Fresh!Max({v3'[g], v2.open, 0})
        BY <1>1 DEF Fresh!Since
      <4> QED BY <4>1, <4>2, FreshSince
    <3> QED BY <3>1
  <2>2. CASE g # f
    BY <1>1, <2>2 DEF Fresh!NoBarIsLate, Fresh!ExactStaleness, Fresh!Since
  <2> QED BY <2>1, <2>2
<1> QED BY <1>1, <1>3, <1>4, <1>5 DEF Fresh!ExactStaleness

\* The hand-over loses no bar.
LEMMA FreshHandOver ==
    ASSUME Fresh!ExactStaleness, Fresh!set_registry
    PROVE  Fresh!ExactStaleness'
<1> USE FreshTypes
<1>1. \A f \in Watched : Fresh!record(Fresh!Empty, f, v4[f])[f] = v4[f]
  <2> SUFFICES ASSUME NEW f \in Watched PROVE Fresh!record(Fresh!Empty, f, v4[f])[f] = v4[f]
    OBVIOUS
  <2>1. v4[f] \in Int /\ v4[f] >= -1
    OBVIOUS
  <2>2. Fresh!Max({-1, v4[f]}) = v4[f]
    BY <2>1, FreshMaxOfTwo
  <2> QED BY <2>2 DEF Fresh!record, Fresh!Empty, Fresh!Never
<1>2. v4 = v3 /\ v5' = v4 /\ v1' = v1 /\ v2' = v2 /\ v3' = v3 /\ v4' = v4 /\ v7' = v7 /\ v6' = v1
  BY <1>1 DEF Fresh!set_registry, Fresh!Replayed, Fresh!RegistryFollows, Fresh!ExactStaleness, Fresh!Never
<1> QED
  BY <1>2 DEF Fresh!ExactStaleness, Fresh!TypeOK, Fresh!RegistryFollows, Fresh!NoBarIsLate,
     Fresh!Never, Fresh!Open, Fresh!Grace, Fresh!Since

\* The clock and the market.
LEMMA FreshMarket ==
    ASSUME Fresh!ExactStaleness,
           \/ Fresh!Tick \/ \E f \in Watched : Fresh!FeedGoesSilent(f)
           \/ \E p \in DOMAIN GraceOf : Fresh!PhaseChange(p)
    PROVE  Fresh!ExactStaleness'
<1> USE FreshTypes
<1>1. CASE Fresh!Tick
  <2>1. /\ v1' = v1 + 1 /\ v1' <= Horizon /\ v2' = v2 /\ v3' = v3 /\ v4' = v4 /\ v5' = v5 /\ v6' = v6
        /\ v7' = v7
    BY <1>1, FreshAssumption DEF Fresh!Tick
  <2>2. Fresh!TypeOK'
    BY <2>1, FreshAssumption DEF Fresh!ExactStaleness, Fresh!TypeOK, Fresh!Never
  <2>3. Fresh!RegistryFollows'
    BY <2>1 DEF Fresh!ExactStaleness, Fresh!RegistryFollows, Fresh!Empty, Fresh!Never
  <2>4. Fresh!NoBarIsLate'
    <3> SUFFICES ASSUME Fresh!Open, NEW f \in Watched \ {v7}
                 PROVE  v1 + 1 <= Fresh!Since(v3[f]) + Interval[f] + Fresh!Grace
      BY <2>1 DEF Fresh!NoBarIsLate, Fresh!Open, Fresh!Grace, Fresh!Since
    <3>1. v1 < Fresh!Since(v3[f]) + Interval[f] + Fresh!Grace
      BY <1>1 DEF Fresh!Tick
    <3>2. Fresh!Since(v3[f]) \in Int
      <4>1. v3[f] \in Int /\ v2.open \in Int
        OBVIOUS
      <4> QED BY <4>1, FreshSince DEF Fresh!Since
    <3> QED BY <3>1, <3>2
  <2> QED BY <2>1, <2>2, <2>3, <2>4 DEF Fresh!ExactStaleness
<1>2. CASE \E f \in Watched : Fresh!FeedGoesSilent(f)
  <2>1. /\ v1' = v1 /\ v2' = v2 /\ v3' = v3 /\ v4' = v4 /\ v5' = v5 /\ v6' = v6
        /\ v7 = "none" /\ v7' \in Watched
    BY <1>2 DEF Fresh!FeedGoesSilent
  <2>2. Fresh!TypeOK' /\ Fresh!RegistryFollows'
    BY <2>1 DEF Fresh!ExactStaleness, Fresh!TypeOK, Fresh!RegistryFollows, Fresh!Empty, Fresh!Never
  <2>3. Fresh!NoBarIsLate'
    BY <2>1, FreshAssumption DEF Fresh!ExactStaleness, Fresh!NoBarIsLate, Fresh!Open, Fresh!Grace, Fresh!Since
  <2> QED BY <2>1, <2>2, <2>3 DEF Fresh!ExactStaleness
<1>3. ASSUME NEW p \in DOMAIN GraceOf, Fresh!PhaseChange(p) PROVE Fresh!ExactStaleness'
  <2>1. /\ v2'.is = p /\ v2'.open \in {0, v1} /\ (GraceOf[p] # 0 => v2'.open = v1)
        /\ v1' = v1 /\ v3' = v3 /\ v4' = v4 /\ v5' = v5 /\ v6' = v6 /\ v7' = v7
    BY <1>3 DEF Fresh!PhaseChange, Fresh!resolve_session_phase, Fresh!Closed
  <2>2. Fresh!TypeOK' /\ Fresh!RegistryFollows'
    BY <2>1 DEF Fresh!ExactStaleness, Fresh!TypeOK, Fresh!RegistryFollows, Fresh!Empty, Fresh!Never
  <2>3. Fresh!NoBarIsLate'
    <3> SUFFICES ASSUME GraceOf[p] # 0, NEW f \in Watched \ {v7}
                 PROVE  v1 <= Fresh!Since(v3[f])' + Interval[f] + GraceOf[p]
      BY <2>1 DEF Fresh!NoBarIsLate, Fresh!Open, Fresh!Grace
    <3>1. Fresh!Since(v3[f])' \in Int /\ Fresh!Since(v3[f])' >= v1
      <4>1. v3[f] \in Int /\ v1 \in Int /\ v2'.open = v1
        BY <2>1
      <4>2. Fresh!Since(v3[f])' = Fresh!Max({v3[f], v2'.open, 0})
        BY <2>1 DEF Fresh!Since
      <4> QED BY <4>1, <4>2, FreshSince
    <3> QED BY <3>1, FreshAssumption
  <2> QED BY <2>1, <2>2, <2>3 DEF Fresh!ExactStaleness
<1> QED BY <1>1, <1>2, <1>3

\* While every feed keeps its cadence evaluate() finds no feed stale ...
LEMMA FreshFeeds ==
    ASSUME Fresh!ExactStaleness, v6 # -1, v7 = "none", Fresh!Open, NEW f \in Watched
    PROVE  ~(IF v5[f] = -1 THEN Fresh!AbsentStale(f) ELSE Fresh!SeenStale(f))
<1> USE FreshTypes
<1>1. /\ v5[f] = v3[f] /\ v1 <= Fresh!Since(v3[f]) + Interval[f] + Fresh!Grace
      /\ v6 \in Nat /\ StartupGrace \in Nat
  BY FreshAssumption DEF Fresh!ExactStaleness, Fresh!RegistryFollows, Fresh!NoBarIsLate, Fresh!Never
<1>2. Fresh!Since(v3[f]) \in {v3[f], v2.open, 0}
  <2>1. v3[f] \in Int /\ v2.open \in Int
    OBVIOUS
  <2> QED BY <2>1, FreshSince DEF Fresh!Since
<1>3. CASE v5[f] = -1
  <2> DEFINE m == Fresh!Max({v6, v2.open})
             g == Fresh!Max({StartupGrace, Interval[f] + Fresh!Grace})
  <2>1. m \in Int /\ m >= v6 /\ m >= v2.open
    BY <1>1, FreshMaxOfTwo
  <2>2. g \in Int /\ g >= Interval[f] + Fresh!Grace
    BY <1>1, FreshMaxOfTwo
  <2> HIDE DEF m, g
  <2>3. ~(v1 - m > g)
    BY <1>1, <1>2, <1>3, <2>1, <2>2
  <2> QED BY <1>3, <2>3 DEF Fresh!AbsentStale, m, g
<1>4. CASE v5[f] # -1
  <2> DEFINE m == Fresh!Max({v5[f], v2.open})
  <2>1. m \in Int /\ m >= v5[f] /\ m >= v2.open
    BY <1>1, FreshMaxOfTwo
  <2> HIDE DEF m
  <2>2. ~(v1 - m > Interval[f] + Fresh!Grace)
    BY <1>1, <1>2, <1>4, <2>1
  <2> QED BY <1>4, <2>2 DEF Fresh!SeenStale, m
<1> QED BY <1>3, <1>4

\* ... nor the dataset, whose budget is that of its fastest feed.
LEMMA FreshDataset ==
    ASSUME Fresh!ExactStaleness, v6 # -1, v7 = "none", Fresh!Open
    PROVE  ~Fresh!DatasetStale
<1> USE FreshTypes
<1> DEFINE seen   == {f \in Watched : v5[f] # -1}
           at(f)  == Fresh!Max({v5[f], v2.open})
           newest == Fresh!Max({at(f) : f \in seen})
           budget == Fresh!Min({Interval[f] : f \in Watched})
<1> SUFFICES ASSUME seen # {} PROVE ~(v1 - newest > budget + Fresh!Grace)
  BY DEF Fresh!DatasetStale, Fresh!Never
<1>1. v5 = v3 /\ \A f \in Watched : v1 <= Fresh!Since(v3[f]) + Interval[f] + Fresh!Grace
  BY FreshAssumption DEF Fresh!ExactStaleness, Fresh!RegistryFollows, Fresh!NoBarIsLate, Fresh!Never
<1>2. \A f \in Watched : at(f) \in Int /\ at(f) >= v5[f] /\ at(f) >= v2.open /\ at(f) <= v1
  BY <1>1, FreshMaxOfTwo
<1> HIDE DEF at
<1>3. newest \in Int /\ \A f \in seen : newest >= at(f)
  <2>1. {at(f) : f \in seen} \in SUBSET Int /\ {at(f) : f \in seen} # {}
    BY <1>2
  <2>2. \A x \in {at(f) : f \in seen} : x <= v1
    BY <1>2
  <2>3. /\ newest \in {at(f) : f \in seen}
        /\ \A x \in {at(f) : f \in seen} : newest >= x
    <3> DEFINE T == {at(f) : f \in seen}
    <3>1. T \in SUBSET Int /\ T # {} /\ v1 \in Int /\ \A x \in T : x <= v1
      BY <2>1, <2>2
    <3> HIDE DEF T
    <3>2. Fresh!Max(T) \in T /\ \A x \in T : Fresh!Max(T) >= x
      BY <3>1, FreshMax
    <3> QED BY <3>2 DEF T
  <2> QED BY <2>1, <2>3
<1>4. PICK g \in Watched : budget = Interval[g]
  <2>1. {Interval[f] : f \in Watched} \in SUBSET Nat /\ {Interval[f] : f \in Watched} # {}
    OBVIOUS
  <2>2. budget \in {Interval[f] : f \in Watched}
    BY <2>1, FreshMin
  <2> QED BY <2>2
<1> HIDE DEF newest, budget
<1>5. Fresh!Since(v3[g]) \in {v3[g], v2.open, 0}
  <2>1. v3[g] \in Int /\ v2.open \in Int
    OBVIOUS
  <2> QED BY <2>1, FreshSince DEF Fresh!Since
<1>6. PICK f \in seen : TRUE
  OBVIOUS
<1>7. newest >= v2.open
  BY <1>2, <1>3, <1>6
<1>8. v3[g] # -1 => newest >= v3[g]
  BY <1>1, <1>2, <1>3
<1> QED BY <1>1, <1>3, <1>4, <1>5, <1>7, <1>8

LEMMA FreshSilence ==
    ASSUME Fresh!ExactStaleness
    PROVE  Fresh!SilenceIsFound
<1> USE FreshTypes
<1> DEFINE f == v7
           m == Fresh!Max({v3[f], v2.open, v6})
           g == Fresh!Max({StartupGrace, Interval[f] + Fresh!Grace})
<1> SUFFICES ASSUME f # "none", v6 # -1, Fresh!Open, v1 - m > g
             PROVE  f \in Fresh!evaluate
  BY DEF Fresh!SilenceIsFound, Fresh!Never
<1>1. f \in Watched /\ v5[f] = v3[f] /\ StartupGrace \in Nat /\ v3[f] \in Int
  BY FreshAssumption DEF Fresh!ExactStaleness, Fresh!RegistryFollows, Fresh!Never
<1>2. m \in Int /\ m >= v3[f] /\ m >= v2.open /\ m >= v6
  <2>1. v3[f] \in Int /\ v2.open \in Int /\ v6 \in Int
    BY <1>1
  <2> QED BY <2>1, FreshMaxOfThree, ZenonT(60)
<1>3. g \in Int /\ g >= Interval[f] + Fresh!Grace
  <2>1. Interval[f] + Fresh!Grace \in Int /\ StartupGrace \in Int
    BY <1>1
  <2> QED BY <2>1, FreshMaxOfTwo
<1> HIDE DEF m
<1>4. CASE v5[f] = -1
  <2>1. Fresh!Max({v6, v2.open}) \in Int /\ Fresh!Max({v6, v2.open}) <= m
    BY <1>2, FreshMaxOfTwo
  <2>2. Fresh!AbsentStale(f)
    BY <1>2, <1>3, <2>1 DEF Fresh!AbsentStale
  <2> QED BY <1>1, <1>4, <2>2 DEF Fresh!evaluate, Fresh!Never
<1>5. CASE v5[f] # -1
  <2> HIDE DEF g
  <2>1. Fresh!Max({v5[f], v2.open}) \in Int /\ Fresh!Max({v5[f], v2.open}) <= m
    BY <1>1, <1>2, FreshMaxOfTwo
  <2>2. Fresh!SeenStale(f)
    BY <1>1, <1>2, <1>3, <2>1 DEF Fresh!SeenStale
  <2> QED BY <1>1, <1>5, <2>2 DEF Fresh!evaluate, Fresh!Never
<1> QED BY <1>4, <1>5

LEMMA FreshInvariant == Spec => [](part = "Fresh" => Fresh!ExactStaleness)
<1> DEFINE Inv == part = "Fresh" => Fresh!ExactStaleness
<1>1. Init => Inv
  BY FreshStart DEF Init
<1>2. Inv /\ [Next]_pool => Inv'
  <2> SUFFICES ASSUME Inv, [Next]_pool, part' = "Fresh" PROVE Fresh!ExactStaleness'
    OBVIOUS
  <2>1. CASE UNCHANGED pool
    BY <2>1 DEF pool, Rest4, Rest5, Rest6, Rest7, Fresh!ExactStaleness, Fresh!TypeOK,
       Fresh!RegistryFollows, Fresh!NoBarIsLate, Fresh!Open, Fresh!Grace, Fresh!Since, Fresh!Empty
  <2>2. CASE part = "Fresh" /\ Fresh!Next
    BY <2>2, FreshBar, FreshHandOver, FreshMarket DEF Fresh!Next
  <2> QED BY <2>1, <2>2 DEF Next
<1> QED BY <1>1, <1>2, PTL DEF Spec

\* Whatever the order of bars, phases, subscription and hand-over: feeds that keep their
\* cadence never halt the fleet, and a silent feed is found once its budget is over.
THEOREM StalenessIsJudgedRight == Spec => []StalenessIsExact
<1> DEFINE Inv == part = "Fresh" => Fresh!ExactStaleness
<1>1. Inv => StalenessIsExact
  <2>1. ASSUME Fresh!ExactStaleness PROVE Fresh!NoFalseHalt
    BY <2>1, FreshFeeds, FreshDataset DEF Fresh!NoFalseHalt, Fresh!evaluate, Fresh!Never
  <2> QED BY <2>1, FreshSilence DEF StalenessIsExact
<1> QED BY <1>1, FreshInvariant, PTL

-----------------------------------------------------------------------------
(* FleetAlerts.  v1: key, v2: ran, v3: sup, v4: due, v5: consumers, v6: dep, *)
(* v7: last, v8: queue, v9: seen, v10: paged, v11: unsent, v12: owed,        *)
(* v13: used.                                                                *)

LEMMA AlertsKeys ==
    /\ <<"spof", "router">> \in Alerts!Keys /\ \A d \in Consumed : <<"flat", d>> \in Alerts!Keys
    /\ \A d \in Consumed : <<"flat", d>> # <<"spof", "router">>
    /\ \A k \in Alerts!Keys : k[1] = "flat" => \E d \in Consumed : k = <<"flat", d>>
    /\ \A d, e \in Consumed : <<"flat", d>> = <<"flat", e>> => d = e
<1>1. <<"spof", "router">> \in Alerts!Keys /\ \A d \in Consumed : <<"flat", d>> \in Alerts!Keys
  BY DEF Alerts!Keys
<1>2. ASSUME NEW k \in Alerts!Keys, k[1] = "flat" PROVE \E d \in Consumed : k = <<"flat", d>>
  <2>1. CASE k = <<"spof", "router">>
    BY <1>2, <2>1
  <2>2. CASE k \in {"flat"} \X Consumed
    BY <2>2
  <2>3. CASE k \in {"consumer"} \X Accounts
    BY <1>2, <2>3
  <2> QED BY <2>1, <2>2, <2>3 DEF Alerts!Keys
<1> QED BY <1>1, <1>2

LEMMA AlertsFacts ==
    ASSUME Alerts!FaithfulAlerts
    PROVE  /\ v1 \in Int /\ v2 \in BOOLEAN /\ v12 \in BOOLEAN /\ v3 \in Alerts!SupType
           /\ v3.up \in BOOLEAN /\ v3.done \in BOOLEAN
           /\ v6 \in [Consumed -> Alerts!DepType] /\ v9 \subseteq Consumed
           /\ v7 \in [Alerts!Keys -> Nat \cup {Alerts!None}] /\ v10 \in [Consumed -> Nat \cup {Alerts!None}]
           /\ \A d \in Consumed : v7[<<"flat", d>>] \in Nat \cup {Alerts!None}
           /\ Alerts!None = -1
           /\ Spof \in Nat /\ Ttl \in Nat /\ StaleAfter \in Nat /\ Cooldown \in Nat
<1>1. /\ v1 \in Int /\ v2 \in BOOLEAN /\ v12 \in BOOLEAN /\ v3 \in Alerts!SupType
      /\ v6 \in [Consumed -> Alerts!DepType] /\ v9 \subseteq Consumed
      /\ v7 \in [Alerts!Keys -> Nat \cup {Alerts!None}] /\ v10 \in [Consumed -> Nat \cup {Alerts!None}]
  BY DEF Alerts!FaithfulAlerts, Alerts!AlertsAreTyped
<1>2. v3.up \in BOOLEAN /\ v3.done \in BOOLEAN
  BY <1>1 DEF Alerts!SupType
<1>3. \A d \in Consumed : v7[<<"flat", d>>] \in Nat \cup {Alerts!None}
  BY <1>1, AlertsKeys
<1>4. Alerts!None = -1
  BY DEF Alerts!None
<1> QED BY <1>1, <1>2, <1>3, <1>4, AlertsAssumption

LEMMA AlertsStart == Alerts!Init => Alerts!FaithfulAlerts
<1> SUFFICES ASSUME Alerts!Init PROVE Alerts!FaithfulAlerts
  OBVIOUS
<1>1. /\ v1 = Alerts!None /\ v2 = FALSE /\ v3 = Alerts!Down /\ v12 = FALSE /\ v9 = {}
      /\ v6 = [d \in Consumed |-> [status |-> "none", age |-> Alerts!None]]
      /\ v7 = [k \in Alerts!Keys |-> Alerts!None] /\ v10 = [d \in Consumed |-> Alerts!None]
  BY DEF Alerts!Init
<1>2. Alerts!Down \in Alerts!SupType /\ ~Alerts!Down.up /\ Alerts!Down.alr = "off" /\ Alerts!None \in Int
  BY DEF Alerts!Down, Alerts!SupType, Alerts!None
<1>3. [status |-> "none", age |-> Alerts!None] \in Alerts!DepType
  BY <1>2 DEF Alerts!DepType
<1>4. Alerts!AlertsAreTyped
  BY <1>1, <1>2, <1>3 DEF Alerts!AlertsAreTyped
<1>5. Alerts!DownIsForgetful /\ Alerts!OutageIsOwed /\ Alerts!PassPages
  BY <1>1, <1>2 DEF Alerts!DownIsForgetful, Alerts!OutageIsOwed, Alerts!PassPages
<1>6. \A d \in Consumed : v7[<<"flat", d>>] = Alerts!None
  BY <1>1, AlertsKeys
<1>7. \A d \in Consumed : Alerts!Remembered(d)
  BY <1>6 DEF Alerts!Remembered
<1> QED BY <1>4, <1>5, <1>7 DEF Alerts!FaithfulAlerts

\* Steps that send nothing keep what has been paged; a pass that ends has nothing left to send.
LEMMA AlertsPages ==
    ASSUME Alerts!FaithfulAlerts, UNCHANGED <<v7, v8, v9, v10>>,
           v3'.alr = "sending" => v3.alr = "sending",
           v3.alr = "sending" => v3'.alr = "sending" \/ v8 = {}
    PROVE  Alerts!PassPages' /\ \A d \in Consumed : Alerts!Remembered(d)'
<1>1. Alerts!PassPages /\ \A d \in Consumed : Alerts!Remembered(d)
  BY DEF Alerts!FaithfulAlerts
<1>2. Alerts!PassPages'
  BY <1>1 DEF Alerts!PassPages, Alerts!None
<1>3. ASSUME NEW d \in Consumed PROVE Alerts!Remembered(d)'
  BY <1>1 DEF Alerts!Remembered, Alerts!None
<1> QED BY <1>2, <1>3

\* _router_heartbeat_loop: before the first pass has judged the key, it is not stamped.
LEMMA AlertsHeartbeat ==
    ASSUME Alerts!FaithfulAlerts,
           \/ Alerts!ProbePrior \/ Alerts!ProbeFails \/ Alerts!PublishAfterEval \/ Alerts!WaitTimesOut
           \/ Alerts!Publish \/ Alerts!PublishFails
    PROVE  Alerts!FaithfulAlerts'
<1>1. UNCHANGED <<v6, v7, v8, v9, v10, v12>>
  BY DEF Alerts!ProbePrior, Alerts!ProbeFails, Alerts!PublishAfterEval, Alerts!WaitTimesOut,
     Alerts!Publish, Alerts!PublishFails, Alerts!paging
<1>2. (v1' = v1 /\ v2' = v2) \/ (v1' = 0 /\ v2' = TRUE)
  BY DEF Alerts!ProbePrior, Alerts!ProbeFails, Alerts!PublishAfterEval, Alerts!WaitTimesOut,
     Alerts!Publish, Alerts!PublishFails, Alerts!FirstPass, Alerts!Stamp
<1>3. \/ v3' = v3
      \/ v3' = [v3 EXCEPT !.allowed = TRUE, !.pub = "await"]
      \/ v3' = [v3 EXCEPT !.allowed = TRUE, !.pub = "loop"]
      \/ v3' = [v3 EXCEPT !.pub = "loop"]
  BY DEF Alerts!ProbePrior, Alerts!ProbeFails, Alerts!PublishAfterEval, Alerts!WaitTimesOut,
     Alerts!Publish, Alerts!PublishFails, Alerts!FirstPass
<1>4. v3' \in Alerts!SupType /\ v3'.up = v3.up /\ v3'.alr = v3.alr /\ v3'.done = v3.done
  BY <1>3, AlertsFacts DEF Alerts!SupType
<1>5. v3.pub # "off"
  BY DEF Alerts!ProbePrior, Alerts!ProbeFails, Alerts!PublishAfterEval, Alerts!WaitTimesOut,
     Alerts!Publish, Alerts!PublishFails
<1>6. v3.up
  <2>1. Alerts!Down.pub = "off"
    BY DEF Alerts!Down
  <2> QED BY <1>5, <2>1 DEF Alerts!FaithfulAlerts, Alerts!DownIsForgetful
<1>7. Alerts!AlertsAreTyped'
  <2>1. v1' \in Int
    BY <1>2, AlertsFacts
  <2>2. v2' \in BOOLEAN
    BY <1>2, AlertsFacts, Zenon
  <2> QED BY <1>1, <1>4, <2>1, <2>2, AlertsFacts
          DEF Alerts!AlertsAreTyped, Alerts!SupType, Alerts!DepType, Alerts!None, Alerts!Keys
<1>8. Alerts!DownIsForgetful'
  BY <1>4, <1>6 DEF Alerts!DownIsForgetful
<1>9. ASSUME v12, v3.up PROVE v1' = v1 /\ v3'.pub \in {"probe", "await"}
  <2>1. /\ v3.pub \in {"probe", "await"} /\ v3.alr = "held" /\ ~v3.done
        /\ Alerts!StaleKey /\ Alerts!has_prior_operation_evidence
    BY <1>9 DEF Alerts!FaithfulAlerts, Alerts!OutageIsOwed
  <2>2. Alerts!OutageGap
    BY <2>1 DEF Alerts!OutageGap, Alerts!StaleKey
  <2>3. CASE Alerts!ProbePrior \/ Alerts!ProbeFails
    <3>1. Alerts!FirstPass(TRUE) \/ Alerts!FirstPass(Alerts!OutageGap)
      BY <2>3 DEF Alerts!ProbePrior, Alerts!ProbeFails
    <3>2. v1' = v1 /\ v3' = [v3 EXCEPT !.allowed = TRUE, !.pub = "await"]
      BY <2>2, <3>1 DEF Alerts!FirstPass
    <3> QED BY <3>2, AlertsFacts DEF Alerts!SupType
  <2>4. CASE Alerts!PublishAfterEval \/ Alerts!WaitTimesOut \/ Alerts!Publish \/ Alerts!PublishFails
    BY <2>1, <2>4 DEF Alerts!PublishAfterEval, Alerts!WaitTimesOut, Alerts!Publish, Alerts!PublishFails
  <2> QED BY <2>3, <2>4
<1>10. Alerts!OutageIsOwed'
  BY <1>1, <1>4, <1>6, <1>9 DEF Alerts!FaithfulAlerts, Alerts!OutageIsOwed, Alerts!StaleKey,
     Alerts!has_prior_operation_evidence, Alerts!None
<1> QED BY <1>1, <1>4, <1>7, <1>8, <1>10, AlertsPages DEF Alerts!FaithfulAlerts

\* Starting, failing and registering: no deployment becomes one that never was.
LEMMA AlertsFleet ==
    ASSUME Alerts!FaithfulAlerts,
           Alerts!Refresh \/ \E d \in Consumed : Alerts!DeploymentMoves(d) \/ Alerts!NeverReported(d)
    PROVE  Alerts!FaithfulAlerts'
<1>1. UNCHANGED <<v1, v2, v3, v7, v8, v9, v10, v12>>
  BY DEF Alerts!Refresh, Alerts!DeploymentMoves, Alerts!NeverReported, Alerts!paging
<1>2. /\ v6' \in [Consumed -> Alerts!DepType]
      /\ \A d \in Consumed : v6[d].status # "none" => v6'[d].status # "none"
  <2>1. CASE Alerts!Refresh
    BY <2>1, AlertsFacts DEF Alerts!Refresh
  <2>2. ASSUME NEW d \in Consumed, Alerts!DeploymentMoves(d) \/ Alerts!NeverReported(d)
        PROVE  \E r \in Alerts!DepType : v6' = [v6 EXCEPT ![d] = r] /\ r.status # "none"
    <3>1. CASE Alerts!NeverReported(d)
      <4>1. [status |-> "failed", age |-> Alerts!None] \in Alerts!DepType
        BY DEF Alerts!DepType, Alerts!None
      <4> QED BY <3>1, <4>1 DEF Alerts!NeverReported
    <3>2. CASE Alerts!DeploymentMoves(d)
      <4>1. v6[d].status \in {"none", "active", "failed"}
        BY AlertsFacts DEF Alerts!DepType
      <4>2. PICK s \in {"active", "failed"}, a \in {0, Alerts!None} :
              v6' = [v6 EXCEPT ![d] = [status |-> s, age |-> a]]
        BY <3>2, <4>1 DEF Alerts!DeploymentMoves
      <4>3. [status |-> s, age |-> a] \in Alerts!DepType
        BY DEF Alerts!DepType, Alerts!None
      <4> QED BY <4>2, <4>3
    <3> QED BY <2>2, <3>1, <3>2
  <2> QED BY <2>1, <2>2, AlertsFacts
<1>3. Alerts!AlertsAreTyped'
  BY <1>1, <1>2, AlertsFacts
     DEF Alerts!AlertsAreTyped, Alerts!SupType, Alerts!DepType, Alerts!None, Alerts!Keys
<1>4. Alerts!DownIsForgetful' /\ Alerts!OutageIsOwed'
  BY <1>1, <1>2 DEF Alerts!FaithfulAlerts, Alerts!DownIsForgetful, Alerts!OutageIsOwed, Alerts!StaleKey,
     Alerts!has_prior_operation_evidence, Alerts!None, Alerts!Down, Alerts!Keys
<1> QED BY <1>1, <1>3, <1>4, AlertsPages DEF Alerts!FaithfulAlerts

LEMMA AlertsCrash == ASSUME Alerts!FaithfulAlerts, Alerts!Crash PROVE Alerts!FaithfulAlerts'
<1>1. /\ v3' = Alerts!Down /\ v7' = [k \in Alerts!Keys |-> Alerts!None] /\ v9' = {}
      /\ v10' = [d \in Consumed |-> Alerts!None] /\ UNCHANGED <<v1, v2, v6, v12>>
  BY DEF Alerts!Crash
<1>2. Alerts!Down \in Alerts!SupType /\ ~Alerts!Down.up /\ Alerts!Down.alr = "off"
  BY DEF Alerts!Down, Alerts!SupType
<1>3. Alerts!AlertsAreTyped'
  BY <1>1, <1>2, AlertsFacts
     DEF Alerts!AlertsAreTyped, Alerts!SupType, Alerts!DepType, Alerts!None, Alerts!Keys
<1>4. Alerts!DownIsForgetful' /\ Alerts!OutageIsOwed' /\ Alerts!PassPages'
  BY <1>1, <1>2 DEF Alerts!DownIsForgetful, Alerts!OutageIsOwed, Alerts!PassPages, Alerts!Down, Alerts!Keys,
     Alerts!None
<1>5. \A d \in Consumed : v7'[<<"flat", d>>] = Alerts!None
  BY <1>1, AlertsKeys
<1>6. \A d \in Consumed : Alerts!Remembered(d)'
  BY <1>5 DEF Alerts!Remembered, Alerts!None
<1> QED BY <1>3, <1>4, <1>6 DEF Alerts!FaithfulAlerts

\* A supervisor that comes back owes the outage, and has neither published nor evaluated.
LEMMA AlertsBoot ==
    ASSUME Alerts!FaithfulAlerts, Alerts!Boot \/ Alerts!BootBlind PROVE Alerts!FaithfulAlerts'
<1>1. /\ ~v3.up /\ UNCHANGED <<v1, v2, v6, v7, v8, v9, v10>>
      /\ v3' = [up |-> TRUE, pub |-> "probe", alr |-> "held", allowed |-> FALSE, done |-> FALSE]
      /\ v12' = (v2 /\ Alerts!StaleKey /\ Alerts!has_prior_operation_evidence)
  BY DEF Alerts!Boot, Alerts!BootBlind
<1>2. v3' \in Alerts!SupType /\ v3'.up /\ v3'.pub = "probe" /\ v3'.alr = "held" /\ ~v3'.done
  BY <1>1 DEF Alerts!SupType
<1>3. v12' \in BOOLEAN /\ (v12' => Alerts!StaleKey /\ Alerts!has_prior_operation_evidence)
  BY <1>1, Zenon
<1>4. v3.alr = "off" /\ v7[<<"spof", "router">>] = Alerts!None
  BY <1>1, AlertsKeys DEF Alerts!FaithfulAlerts, Alerts!DownIsForgetful, Alerts!Down
<1>5. Alerts!AlertsAreTyped'
  BY <1>1, <1>2, <1>3, AlertsFacts
     DEF Alerts!AlertsAreTyped, Alerts!SupType, Alerts!DepType, Alerts!None, Alerts!Keys
<1>6. Alerts!DownIsForgetful'
  BY <1>2 DEF Alerts!DownIsForgetful
<1>7. Alerts!OutageIsOwed'
  BY <1>1, <1>2, <1>3, <1>4 DEF Alerts!OutageIsOwed, Alerts!StaleKey, Alerts!has_prior_operation_evidence, Alerts!None
<1>8. Alerts!PassPages' /\ \A d \in Consumed : Alerts!Remembered(d)'
  BY <1>1, <1>2, <1>4, AlertsPages
<1> QED BY <1>5, <1>6, <1>7, <1>8 DEF Alerts!FaithfulAlerts

\* A round passes only while nothing is being sent: pages and the deduper's memory age together.
LEMMA AlertsElapse == ASSUME Alerts!FaithfulAlerts, Alerts!Elapse PROVE Alerts!FaithfulAlerts'
<1>1. /\ v3.pub \in {"loop", "off"} /\ v3.alr \in {"loop", "off"} /\ UNCHANGED <<v2, v3, v8, v9, v12>>
      /\ v1' = IF v1 = Alerts!None \/ v1 + 1 >= Ttl THEN Alerts!None ELSE v1 + 1
      /\ v6' = [d \in Consumed |-> [v6[d] EXCEPT !.age = Alerts!Older(v6[d].age, StaleAfter + 1)]]
      /\ v7' = [k \in Alerts!Keys |-> Alerts!Older(v7[k], Cooldown)]
      /\ v10' = [d \in Consumed |-> Alerts!Older(v10[d], Cooldown + 1)]
  BY DEF Alerts!Elapse
<1>2. \A a \in Int, m \in Nat : Alerts!Older(a, m) \in Int
  BY DEF Alerts!Older, Alerts!None
<1>3. \A a \in Nat \cup {Alerts!None}, m \in Nat :
        /\ Alerts!Older(a, m) \in Nat \cup {Alerts!None} /\ (a = Alerts!None <=> Alerts!Older(a, m) = Alerts!None)
        /\ a # Alerts!None => Alerts!Older(a, m) = IF a >= m THEN m ELSE a + 1
  BY DEF Alerts!Older, Alerts!None
<1>4. v6' \in [Consumed -> Alerts!DepType]
  <2> SUFFICES ASSUME NEW d \in Consumed
               PROVE  [v6[d] EXCEPT !.age = Alerts!Older(v6[d].age, StaleAfter + 1)] \in Alerts!DepType
    BY <1>1
  <2> DEFINE r == v6[d]
  <2>1. r \in Alerts!DepType
    BY AlertsFacts
  <2> HIDE DEF r
  <2>2. r.age \in Int
    BY <2>1 DEF Alerts!DepType
  <2>3. Alerts!Older(r.age, StaleAfter + 1) \in Int
    <3>1. StaleAfter + 1 \in Nat
      BY AlertsFacts
    <3> QED BY <1>2, <2>2, <3>1
  <2>4. [r EXCEPT !.age = Alerts!Older(r.age, StaleAfter + 1)] \in Alerts!DepType
    BY <2>1, <2>3 DEF Alerts!DepType
  <2> QED BY <2>4 DEF r
<1>5. v1' \in Int
  BY <1>1, AlertsFacts
<1>6. v7' \in [Alerts!Keys -> Nat \cup {Alerts!None}] /\ v10' \in [Consumed -> Nat \cup {Alerts!None}]
  <2>1. \A k \in Alerts!Keys : Alerts!Older(v7[k], Cooldown) \in Nat \cup {Alerts!None}
    BY <1>3, AlertsFacts
  <2>2. Cooldown + 1 \in Nat
    BY AlertsFacts
  <2>3. \A d \in Consumed : Alerts!Older(v10[d], Cooldown + 1) \in Nat \cup {Alerts!None}
    <3> SUFFICES ASSUME NEW d \in Consumed PROVE Alerts!Older(v10[d], Cooldown + 1) \in Nat \cup {Alerts!None}
      OBVIOUS
    <3>1. v10[d] \in Nat \cup {Alerts!None}
      BY AlertsFacts
    <3> QED BY <1>3, <2>2, <3>1
  <2> QED BY <1>1, <2>1, <2>3
<1>7. Alerts!AlertsAreTyped'
  BY <1>1, <1>4, <1>5, <1>6, AlertsFacts
     DEF Alerts!AlertsAreTyped, Alerts!SupType, Alerts!DepType, Alerts!None, Alerts!Keys
<1>8. Alerts!DownIsForgetful'
  <2>1. ASSUME ~v3.up, NEW k \in Alerts!Keys PROVE v7'[k] = Alerts!None
    <3>1. v7[k] = Alerts!None
      BY <2>1 DEF Alerts!FaithfulAlerts, Alerts!DownIsForgetful
    <3> QED BY <1>1, <3>1 DEF Alerts!Older
  <2> QED BY <1>1, <2>1 DEF Alerts!FaithfulAlerts, Alerts!DownIsForgetful, Alerts!Down, Alerts!Keys, Alerts!None
<1>9. Alerts!OutageIsOwed'
  BY <1>1 DEF Alerts!FaithfulAlerts, Alerts!OutageIsOwed
<1>10. Alerts!PassPages'
  BY <1>1 DEF Alerts!PassPages
<1>11. ASSUME NEW d \in Consumed PROVE Alerts!Remembered(d)'
  <2> DEFINE k == <<"flat", d>>
  <2>1. Alerts!Remembered(d) /\ k \in Alerts!Keys
    BY AlertsKeys DEF Alerts!FaithfulAlerts
  <2>2. v7'[k] = Alerts!Older(v7[k], Cooldown) /\ v10'[d] = Alerts!Older(v10[d], Cooldown + 1)
    BY <1>1, <2>1
  <2>3. v7[k] \in Nat \cup {Alerts!None} /\ v10[d] \in Nat \cup {Alerts!None}
    BY <2>1, AlertsFacts
  <2>4. v7[k] # Alerts!None => v10[d] # Alerts!None /\ (v7[k] < Cooldown => v10[d] <= v7[k])
    BY <1>1, <2>1 DEF Alerts!Remembered
  <2> HIDE DEF k
  <2>5. v7'[k] # Alerts!None => v10'[d] # Alerts!None /\ (v7'[k] < Cooldown => v10'[d] <= v7'[k])
    BY <2>2, <2>3, <2>4, AlertsFacts DEF Alerts!Older
  <2> QED BY <2>5 DEF Alerts!Remembered, k, Alerts!None
<1> QED BY <1>7, <1>8, <1>9, <1>10, <1>11 DEF Alerts!FaithfulAlerts

\* The deduper's keys are the alerts themselves: a pass queues what is new or past its cooldown.
LEMMA AlertsFiltered ==
    ASSUME NEW D \in SUBSET Alerts!Keys
    PROVE  /\ Alerts!OnePerKey(Alerts!ToSend(D)) = {k \in D : v7[k] = Alerts!None \/ v7[k] >= Cooldown}
           /\ Alerts!Recorded(D) = [k \in Alerts!Keys |->
                IF k \notin D THEN Alerts!None
                ELSE IF v7[k] = Alerts!None \/ v7[k] >= Cooldown THEN 0 ELSE v7[k]]
<1>1. Alerts!ToSend(D) = {k \in D : v7[k] = Alerts!None \/ v7[k] >= Cooldown}
  BY DEF Alerts!ToSend, Alerts!dedupe_key
<1>2. Alerts!OnePerKey(Alerts!ToSend(D)) = Alerts!ToSend(D)
  BY DEF Alerts!OnePerKey, Alerts!dedupe_key
<1>3. {Alerts!dedupe_key(k) : k \in D} = D /\ {Alerts!dedupe_key(k) : k \in Alerts!ToSend(D)} = Alerts!ToSend(D)
  BY DEF Alerts!dedupe_key
<1>4. Alerts!Recorded(D) = [k \in Alerts!Keys |->
        IF k \notin D THEN Alerts!None ELSE IF k \in Alerts!ToSend(D) THEN 0 ELSE v7[k]]
  BY <1>3 DEF Alerts!Recorded
<1> QED BY <1>1, <1>2, <1>4

LEMMA AlertsEvaluate ==
    ASSUME Alerts!FaithfulAlerts, NEW degraded \in BOOLEAN, Alerts!Evaluate(degraded)
    PROVE  Alerts!FaithfulAlerts'
<1> DEFINE D == Alerts!detect_fleet_alerts(degraded)
           spof == <<"spof", "router">>
<1>1. /\ Alerts!MayEvaluate /\ v8' = Alerts!OnePerKey(Alerts!ToSend(D)) /\ v7' = Alerts!Recorded(D)
      /\ v9' = {d \in Consumed : <<"flat", d>> \in D}
      /\ v10' = [d \in Consumed |-> IF d \in v9' THEN v10[d] ELSE Alerts!None]
      /\ v3' = [v3 EXCEPT !.alr = "sending"] /\ UNCHANGED <<v1, v2, v6>>
      /\ v12' = (v12 /\ spof \notin v8')
  BY DEF Alerts!Evaluate
<1>2. D \subseteq Alerts!Keys /\ (Alerts!StaleKey => spof \in D)
  BY AlertsKeys DEF Alerts!detect_fleet_alerts
<1> HIDE DEF D
<1>3. /\ v8' = {k \in D : v7[k] = Alerts!None \/ v7[k] >= Cooldown}
      /\ v7' = [k \in Alerts!Keys |-> IF k \notin D THEN Alerts!None
                  ELSE IF v7[k] = Alerts!None \/ v7[k] >= Cooldown THEN 0 ELSE v7[k]]
  BY <1>1, <1>2, AlertsFiltered
<1>4. v3' \in Alerts!SupType /\ v3'.alr = "sending" /\ v3'.up = v3.up /\ v3.alr # "sending"
  BY <1>1, AlertsFacts DEF Alerts!SupType, Alerts!MayEvaluate
<1>5. v3.up
  BY <1>1 DEF Alerts!FaithfulAlerts, Alerts!DownIsForgetful, Alerts!Down, Alerts!MayEvaluate
<1>6. v12' \in BOOLEAN /\ (v12' => v12 /\ spof \notin v8')
  BY <1>1, AlertsFacts, Zenon
<1>7. ~v12'
  <2>1. SUFFICES ASSUME v12 PROVE spof \in v8'
    BY <1>6
  <2>2. Alerts!StaleKey /\ v7[spof] = Alerts!None
    BY <1>5, <2>1 DEF Alerts!FaithfulAlerts, Alerts!OutageIsOwed
  <2> QED BY <1>2, <1>3, <2>2
<1>8. Alerts!AlertsAreTyped'
  <2>1. v7' \in [Alerts!Keys -> Nat \cup {Alerts!None}] /\ v10' \in [Consumed -> Nat \cup {Alerts!None}]
    BY <1>1, <1>3, AlertsFacts
  <2>2. v9' \subseteq Consumed
    BY <1>1
  <2> QED BY <1>1, <1>4, <1>6, <2>1, <2>2, AlertsFacts
          DEF Alerts!AlertsAreTyped, Alerts!SupType, Alerts!DepType, Alerts!None, Alerts!Keys
<1>9. Alerts!DownIsForgetful' /\ Alerts!OutageIsOwed'
  BY <1>4, <1>5, <1>7 DEF Alerts!DownIsForgetful, Alerts!OutageIsOwed
<1>10. ASSUME NEW d \in Consumed
       PROVE  /\ <<"flat", d>> \in D /\ <<"flat", d>> \notin v8' =>
                   /\ v7'[<<"flat", d>>] = v7[<<"flat", d>>] /\ v10'[d] = v10[d] /\ v10[d] # Alerts!None
                   /\ v7[<<"flat", d>>] < Cooldown /\ v10[d] <= v7[<<"flat", d>>]
              /\ <<"flat", d>> \notin D => v7'[<<"flat", d>>] = Alerts!None
  <2> DEFINE k == <<"flat", d>>
  <2>1. Alerts!Remembered(d) /\ k \in Alerts!Keys
    BY AlertsKeys DEF Alerts!FaithfulAlerts
  <2>2. v7[k] # Alerts!None => v10[d] # Alerts!None /\ (v7[k] < Cooldown => v10[d] <= v7[k])
    BY <1>4, <2>1 DEF Alerts!Remembered
  <2>3. v7[k] \in Nat \cup {Alerts!None}
    BY <2>1, AlertsFacts
  <2>4. k \in D => v10'[d] = v10[d]
    BY <1>1
  <2> HIDE DEF k
  <2>5. k \notin D => v7'[k] = Alerts!None
    BY <1>3, <2>1
  <2>6. k \in D /\ k \notin v8' => v7[k] # Alerts!None /\ v7[k] < Cooldown /\ v7'[k] = v7[k]
    BY <1>3, <2>1, <2>3, AlertsFacts
  <2> QED BY <2>2, <2>4, <2>5, <2>6 DEF k
<1>11. Alerts!PassPages'
  <2> SUFFICES ASSUME NEW d \in v9', <<"flat", d>> \notin v8'
               PROVE  v10'[d] # Alerts!None /\ v10'[d] <= Cooldown
    BY DEF Alerts!PassPages, Alerts!None
  <2>1. d \in Consumed /\ <<"flat", d>> \in D
    BY <1>1
  <2>2. v10[d] \in Nat \cup {Alerts!None} /\ v7[<<"flat", d>>] \in Nat \cup {Alerts!None}
    BY <2>1, AlertsFacts
  <2> QED BY <1>10, <2>1, <2>2, AlertsFacts
<1>12. ASSUME NEW d \in Consumed PROVE Alerts!Remembered(d)'
  <2>1. CASE <<"flat", d>> \in v8'
    BY <1>4, <2>1 DEF Alerts!Remembered
  <2>2. CASE <<"flat", d>> \notin v8'
    BY <1>10, <2>2 DEF Alerts!Remembered, Alerts!None
  <2> QED BY <2>1, <2>2
<1> QED BY <1>8, <1>9, <1>11, <1>12 DEF Alerts!FaithfulAlerts

LEMMA AlertsPassEnds ==
    ASSUME Alerts!FaithfulAlerts, Alerts!EvaluationFails \/ Alerts!EndPass PROVE Alerts!FaithfulAlerts'
<1>1. /\ v3' = [v3 EXCEPT !.alr = "loop", !.done = TRUE] /\ UNCHANGED <<v1, v2, v6, v7, v8, v9, v10>>
      /\ v12' = FALSE \/ (v12' = v12 /\ v3.alr = "sending")
      /\ v3.alr = "sending" => v8 = {}
      /\ v3.alr # "off"
  BY DEF Alerts!EvaluationFails, Alerts!EndPass, Alerts!MayEvaluate, Alerts!paging
<1>2. v3' \in Alerts!SupType /\ v3'.alr = "loop" /\ v3'.up = v3.up
  BY <1>1, AlertsFacts DEF Alerts!SupType
<1>3. v3.up
  BY <1>1 DEF Alerts!FaithfulAlerts, Alerts!DownIsForgetful, Alerts!Down
<1>4. ~v12'
  BY <1>1, <1>3 DEF Alerts!FaithfulAlerts, Alerts!OutageIsOwed
<1>5. v12' \in BOOLEAN
  BY <1>1, AlertsFacts, Zenon
<1>6. Alerts!AlertsAreTyped'
  BY <1>1, <1>2, <1>5, AlertsFacts
     DEF Alerts!AlertsAreTyped, Alerts!SupType, Alerts!DepType, Alerts!None, Alerts!Keys
<1>7. Alerts!DownIsForgetful' /\ Alerts!OutageIsOwed'
  BY <1>2, <1>3, <1>4 DEF Alerts!DownIsForgetful, Alerts!OutageIsOwed
<1>8. Alerts!PassPages' /\ \A d \in Consumed : Alerts!Remembered(d)'
  BY <1>1, <1>2, AlertsPages
<1> QED BY <1>6, <1>7, <1>8 DEF Alerts!FaithfulAlerts

\* What leaves the queue has been paged just now.
LEMMA AlertsSend ==
    ASSUME Alerts!FaithfulAlerts, NEW k \in Alerts!Keys, Alerts!SendAlert(k) \/ Alerts!MailFails(k)
    PROVE  Alerts!FaithfulAlerts'
<1>1. /\ v3.alr = "sending" /\ v8' = v8 \ {k} /\ UNCHANGED <<v1, v2, v3, v6, v7, v9, v12>>
      /\ v10' = IF k[1] = "flat" THEN [v10 EXCEPT ![k[2]] = 0] ELSE v10
  BY DEF Alerts!SendAlert, Alerts!MailFails, Alerts!Sent, Alerts!state
<1>2. /\ v10' \in [Consumed -> Nat \cup {Alerts!None}]
      /\ \A d \in Consumed : (<<"flat", d>> = k /\ v10'[d] = 0) \/ (<<"flat", d>> # k /\ v10'[d] = v10[d])
  <2>1. CASE k[1] = "flat"
    <3>1. PICK d \in Consumed : k = <<"flat", d>>
      BY <2>1, AlertsKeys
    <3>2. v10' = [v10 EXCEPT ![d] = 0]
      BY <1>1, <2>1, <3>1
    <3>3. \A e \in Consumed : <<"flat", e>> = k <=> e = d
      BY <3>1
    <3> QED BY <3>2, <3>3, AlertsFacts
  <2>2. CASE k[1] # "flat"
    BY <1>1, <2>2, AlertsFacts
  <2> QED BY <2>1, <2>2
<1>3. Alerts!AlertsAreTyped'
  BY <1>1, <1>2, AlertsFacts
     DEF Alerts!AlertsAreTyped, Alerts!SupType, Alerts!DepType, Alerts!None, Alerts!Keys
<1>4. Alerts!DownIsForgetful' /\ Alerts!OutageIsOwed'
  BY <1>1 DEF Alerts!FaithfulAlerts, Alerts!DownIsForgetful, Alerts!OutageIsOwed, Alerts!StaleKey,
     Alerts!has_prior_operation_evidence, Alerts!None, Alerts!Down, Alerts!Keys
<1>5. Alerts!PassPages'
  <2> SUFFICES ASSUME NEW d \in v9, <<"flat", d>> \notin v8'
               PROVE  v10'[d] # Alerts!None /\ v10'[d] <= Cooldown
    BY <1>1 DEF Alerts!PassPages, Alerts!None
  <2>1. d \in Consumed
    BY AlertsFacts
  <2>2. CASE <<"flat", d>> = k
    BY <1>2, <2>1, <2>2, AlertsFacts
  <2>3. CASE <<"flat", d>> # k
    BY <1>1, <1>2, <2>1, <2>3 DEF Alerts!FaithfulAlerts, Alerts!PassPages
  <2> QED BY <2>2, <2>3
<1>6. ASSUME NEW d \in Consumed PROVE Alerts!Remembered(d)'
  <2>1. CASE <<"flat", d>> = k
    BY <1>1, <1>2, <2>1, AlertsFacts DEF Alerts!Remembered
  <2>2. CASE <<"flat", d>> # k
    <3>1. Alerts!Remembered(d)
      BY DEF Alerts!FaithfulAlerts
    <3> QED BY <1>1, <1>2, <2>2, <3>1 DEF Alerts!Remembered, Alerts!None
  <2> QED BY <2>1, <2>2
<1> QED BY <1>3, <1>4, <1>5, <1>6 DEF Alerts!FaithfulAlerts

LEMMA AlertsInvariant == Spec => [](part = "Alerts" => Alerts!FaithfulAlerts)
<1> DEFINE Inv == part = "Alerts" => Alerts!FaithfulAlerts
<1>1. Init => Inv
  BY AlertsStart DEF Init
<1>2. Inv /\ [Next]_pool => Inv'
  <2> SUFFICES ASSUME Inv, [Next]_pool, part' = "Alerts" PROVE Alerts!FaithfulAlerts'
    OBVIOUS
  <2>1. CASE UNCHANGED pool
    BY <2>1 DEF pool, Rest4, Rest5, Rest6, Rest7, Rest8, Rest9, Rest10, Rest11, Rest12, Rest13,
       Alerts!FaithfulAlerts, Alerts!AlertsAreTyped, Alerts!DownIsForgetful, Alerts!OutageIsOwed, Alerts!PassPages,
       Alerts!Remembered, Alerts!StaleKey, Alerts!has_prior_operation_evidence, Alerts!None, Alerts!Down,
       Alerts!Keys, Alerts!SupType, Alerts!DepType
  <2>2. CASE part = "Alerts" /\ Alerts!Next
    BY <2>2, AlertsHeartbeat, AlertsFleet, AlertsCrash, AlertsBoot, AlertsElapse, AlertsEvaluate, AlertsPassEnds,
       AlertsSend DEF Alerts!Next, Alerts!Snapshot, Alerts!SnapshotDegraded
  <2> QED BY <2>1, <2>2 DEF Next
<1> QED BY <1>1, <1>2, PTL DEF Spec

\* Any deployments, accounts, thresholds, faults and crashes: while the alert for an outage is
\* owed, the restarted supervisor has not stamped its heartbeat over it, and a pass ends only
\* when every deployment it found flat and unmonitored has been paged within the cooldown.
THEOREM AlertsAreAlwaysSent == Spec => []AlertsAreSent
<1> DEFINE Inv == part = "Alerts" => Alerts!FaithfulAlerts
<1>1. Inv => AlertsAreSent
  <2>1. ASSUME Alerts!FaithfulAlerts PROVE Alerts!OutageIsReported
    BY <2>1 DEF Alerts!FaithfulAlerts, Alerts!OutageIsOwed, Alerts!OutageIsReported
  <2>2. ASSUME Alerts!FaithfulAlerts PROVE Alerts!FlatIsPaged
    BY <2>2 DEF Alerts!FaithfulAlerts, Alerts!PassPages, Alerts!FlatIsPaged
  <2> QED BY <2>1, <2>2 DEF AlertsAreSent
<1> QED BY <1>1, AlertsInvariant, PTL

-----------------------------------------------------------------------------
(* Projection.  v1: stream, v2: cache, v3: last, v4: pel, v5: acked, v6: dlq, *)
(* v7: onState, v8: onEvents, v9: up, v10: knows, v11: todo, v12: at,         *)
(* v13: inbox, v14: view, v15: hydrated, v16: on, v17: subscribed, v18: due,  *)
(* v19: faults.                                                               *)

LEMMA ProjectFacts ==
    ASSUME Project!Followed
    PROVE  /\ v1 \in Seq(Project!Entry)
           /\ Len(v1) \in Nat /\ Len(v1) <= MaxEvents /\ v3 \in Nat /\ v3 <= Len(v1)
           /\ v2 \in [Projected -> Nat] /\ v4 \in [1 .. MaxEvents -> Nat]
           /\ v11 \in [Workers -> Seq(1 .. v3)] /\ v13 \in [Project!Listeners -> Seq(1 .. Len(v1))]
           /\ v14 \in [Project!Listeners -> [Projected -> Nat]]
           /\ v18 \in [Project!Listeners -> [Projected -> Nat]]
           /\ v9 \subseteq Workers /\ v17 \in BOOLEAN
           /\ v12 \in [Workers -> {"dispatch", "state", "events", "ack", "dlq"}]
           /\ Workers \subseteq Project!Listeners /\ Client \in Project!Listeners /\ MaxEvents \in Nat
BY ProjectAssumption DEF Project!Followed, Project!EntriesExist, Project!ListenersAreTyped, Project!Ids,
   Project!Listeners

LEMMA ProjectStart == Project!Init => Project!Followed
<1> SUFFICES ASSUME Project!Init PROVE Project!Followed
  OBVIOUS
<1> USE ProjectAssumption DEF Project!Init
<1>1. Project!EntriesExist /\ Project!ListenersAreTyped
  <2>1. Len(v1) = 0 /\ v3 = 0
    OBVIOUS
  <2>2. v11 \in [Workers -> Seq(1 .. v3)]
    OBVIOUS
  <2>3. v13 \in [Project!Listeners -> Seq(1 .. Len(v1))]
    OBVIOUS
  <2>4. Project!EntriesExist
    BY <2>1, <2>2, <2>3 DEF Project!EntriesExist, Project!Ids, Project!Blank
  <2>5. Project!ListenersAreTyped
    BY DEF Project!ListenersAreTyped, Project!Blank
  <2> QED BY <2>4, <2>5
<1>2. Project!NoEventLost /\ Project!OffIsDeaf /\ \A w \in Workers : Project!AckIsLast(w)
  BY DEF Project!Init, Project!NoEventLost, Project!OffIsDeaf, Project!AckIsLast, Project!Listeners
<1>3. \A l \in Project!Listeners, i \in Projected : Project!Owed(l, i)
  BY DEF Project!Init, Project!Owed, Project!Blank
<1> QED BY <1>1, <1>2, <1>3 DEF Project!Followed

\* A listener whose queue does not change: a view that shows what is owed stays.
LEMMA ProjectOwedStays ==
    ASSUME Project!Followed, NEW l \in Project!Listeners, NEW i \in Projected,
           \A e \in 1 .. Len(v1) : v1'[e] = v1[e],
           v13'[l] = v13[l], v18'[l] = v18[l],
           (l \in Workers => l \in v15) => /\ v14'[l][i] = v14[l][i]
                                           /\ l \in Workers => l \in v15'
    PROVE  Project!Owed(l, i)'
<1>1. v13[l] \in Seq(1 .. Len(v1))
  BY ProjectFacts
<1>2. \A n \in DOMAIN v13[l] : v1'[v13[l][n]] = v1[v13[l][n]]
  BY <1>1, SMTT(30)
<1>3. Project!Owed(l, i)
  BY DEF Project!Followed
<1>4. ASSUME NEW n, Project!Quiet(l, i, n) PROVE Project!Quiet(l, i, n)'
  BY <1>2, <1>4 DEF Project!Quiet
<1>5. Project!Shown(l, i) => Project!Shown(l, i)'
  BY <1>4 DEF Project!Shown
<1>6. Project!Queued(l, i) => Project!Queued(l, i)'
  BY <1>2, <1>4 DEF Project!Queued
<1> QED BY <1>3, <1>5, <1>6 DEF Project!Owed

\* PUBLISH: what is owed is now the last entry of the queue.
LEMMA ProjectOwedSent ==
    ASSUME Project!Followed, NEW l \in Project!Listeners, NEW i \in Projected, NEW e \in 1 .. Len(v1),
           v1' = v1, v13'[l] = Append(v13[l], e), v18'[l] = [v18[l] EXCEPT ![v1[e].inst] = e],
           v14' = v14, v15' = v15
    PROVE  Project!Owed(l, i)'
<1>1. v13[l] \in Seq(1 .. Len(v1)) /\ v18[l] \in [Projected -> Nat]
  BY ProjectFacts
<1>2. /\ Len(v13[l]) \in Nat /\ DOMAIN v13[l] = 1 .. Len(v13[l])
      /\ DOMAIN v13'[l] = 1 .. Len(v13[l]) + 1
      /\ \A n \in 1 .. Len(v13[l]) : v13'[l][n] = v13[l][n]
      /\ v13'[l][Len(v13[l]) + 1] = e
  BY <1>1
<1>3. CASE i = v1[e].inst
  <2>1. v18'[l][i] = e
    BY <1>1, <1>3
  <2>2. PICK n \in DOMAIN v13'[l] : v13'[l][n] = e /\ \A m \in DOMAIN v13'[l] : ~(m > n)
    <3>1. Len(v13[l]) + 1 \in DOMAIN v13'[l] /\ \A m \in DOMAIN v13'[l] : ~(m > Len(v13[l]) + 1)
      BY <1>2
    <3> QED BY <1>2, <3>1
  <2>4. Project!Quiet(l, i, n)'
    BY <2>2 DEF Project!Quiet
  <2>5. Project!Queued(l, i)'
    BY <1>3, <2>1, <2>2, <2>4 DEF Project!Queued
  <2> QED BY <2>5 DEF Project!Owed
<1>4. CASE i # v1[e].inst
  <2>1. v18'[l][i] = v18[l][i]
    BY <1>1, <1>4
  <2>2. ASSUME NEW n, Project!Quiet(l, i, n) PROVE Project!Quiet(l, i, n)'
    BY <1>2, <1>4, <2>2 DEF Project!Quiet
  <2>3. Project!Owed(l, i)
    BY DEF Project!Followed
  <2>4. Project!Shown(l, i) => Project!Shown(l, i)'
    BY <2>1, <2>2 DEF Project!Shown
  <2>5. Project!Queued(l, i) => Project!Queued(l, i)'
    BY <1>2, <2>1, <2>2 DEF Project!Queued
  <2> QED BY <2>1, <2>3, <2>4, <2>5 DEF Project!Owed
<1> QED BY <1>3, <1>4

\* A listener takes the first entry of its queue: it shows it, and if it is the one that is
\* owed nothing behind it replaces it.
LEMMA ProjectOwedTaken ==
    ASSUME Project!Followed, NEW l \in Project!Listeners, NEW i \in Projected,
           v13[l] # <<>>, v1' = v1, v13'[l] = Tail(v13[l]), v18' = v18,
           v14'[l] = [v14[l] EXCEPT ![v1[Head(v13[l])].inst] = Head(v13[l])],
           l \in Workers => l \in v15'
    PROVE  Project!Owed(l, i)'
<1>1. v13[l] \in Seq(1 .. Len(v1)) /\ v14[l] \in [Projected -> Nat]
  BY ProjectFacts
<1>2. /\ Len(v13[l]) \in Nat \ {0} /\ DOMAIN v13[l] = 1 .. Len(v13[l]) /\ Head(v13[l]) = v13[l][1]
      /\ DOMAIN v13'[l] = 1 .. Len(v13[l]) - 1
      /\ \A n \in 1 .. Len(v13[l]) - 1 : v13'[l][n] = v13[l][n + 1]
  BY <1>1
<1>3. ASSUME NEW n \in Nat, Project!Quiet(l, i, n + 1) PROVE Project!Quiet(l, i, n)'
  <2> SUFFICES ASSUME NEW m \in DOMAIN v13'[l], m > n PROVE v1[v13'[l][m]].inst # i
    BY DEF Project!Quiet
  <2>1. m + 1 \in DOMAIN v13[l] /\ m + 1 > n + 1 /\ v13'[l][m] = v13[l][m + 1]
    BY <1>2
  <2> QED BY <1>3, <2>1 DEF Project!Quiet
<1>4. ASSUME Project!Shown(l, i), v18[l][i] # 0 PROVE Project!Shown(l, i)'
  <2>1. v1[v13[l][1]].inst # i
    BY <1>2, <1>4 DEF Project!Shown, Project!Quiet
  <2>2. v14'[l][i] = v14[l][i]
    BY <1>1, <1>2, <2>1
  <2>3. Project!Quiet(l, i, 1)
    BY <1>2, <1>4 DEF Project!Shown, Project!Quiet
  <2>4. Project!Quiet(l, i, 0)'
    BY <1>3, <2>3
  <2> QED BY <1>4, <2>2, <2>4 DEF Project!Shown
<1>5. ASSUME NEW n \in DOMAIN v13[l], v13[l][n] = v18[l][i], v1[v13[l][n]].inst = i, Project!Quiet(l, i, n)
      PROVE  Project!Shown(l, i)' \/ Project!Queued(l, i)'
  <2>1. CASE n = 1
    <3>1. v14'[l][i] = v18'[l][i]
      BY <1>1, <1>2, <1>5, <2>1
    <3>2. Project!Quiet(l, i, 0)'
      BY <1>3, <1>5, <2>1
    <3> QED BY <3>1, <3>2 DEF Project!Shown
  <2>2. CASE n # 1
    <3>1. PICK m \in DOMAIN v13'[l] : m \in Nat /\ n = m + 1 /\ v13'[l][m] = v13[l][n]
      <4>1. n - 1 \in DOMAIN v13'[l] /\ n - 1 \in Nat /\ n = (n - 1) + 1
        BY <1>2, <2>2
      <4>2. v13'[l][n - 1] = v13[l][n]
        BY <1>2, <4>1
      <4> QED BY <4>1, <4>2
    <3>2. Project!Quiet(l, i, m)'
      BY <1>3, <1>5, <3>1
    <3> QED BY <1>5, <3>1, <3>2 DEF Project!Queued
  <2> QED BY <2>1, <2>2
<1>6. Project!Owed(l, i)
  BY DEF Project!Followed
<1> QED BY <1>4, <1>5, <1>6 DEF Project!Owed, Project!Queued

\* The steps of the node and of the consumers leave the listeners alone ...
LEMMA ProjectListenersStay ==
    ASSUME Project!Followed, \A e \in 1 .. Len(v1) : v1'[e] = v1[e],
           UNCHANGED <<v13, v14, v15, v16, v17, v18>>
    PROVE  Project!OffIsDeaf' /\ \A l \in Project!Listeners, i \in Projected : Project!Owed(l, i)'
<1>1. Project!OffIsDeaf'
  BY DEF Project!Followed, Project!OffIsDeaf, Project!Blank
<1>2. \A l \in Project!Listeners, i \in Projected : Project!Owed(l, i)'
  BY ProjectOwedStays
<1> QED BY <1>1, <1>2

\* ... and those of the listeners leave the consumers alone.
LEMMA ProjectQueueStays ==
    ASSUME Project!Followed, UNCHANGED <<v1, v2, v3, v4, v6, v7, v8, v11, v12>>
    PROVE  Project!NoEventLost' /\ \A w \in Workers : Project!AckIsLast(w)'
BY DEF Project!Followed, Project!NoEventLost, Project!AckIsLast, Project!Settled, Project!First

LEMMA ProjectEvent ==
    ASSUME Project!Followed, NEW i \in Projected, NEW k \in {"other", "poison"},
           Project!NodeEvent(i) \/ Project!OtherEvent(k, i)
    PROVE  Project!Followed'
<1>1. /\ Len(v1) < MaxEvents /\ v2' \in [Projected -> Nat]
      /\ \E r \in Project!Entry : v1' = Append(v1, r)
      /\ UNCHANGED <<v3, v4, v5, v6, v7, v8, v9, v10, v11, v12, v13, v14, v15, v16, v17, v18>>
  <2>1. /\ Len(v1) < MaxEvents /\ v2' \in {v2, [v2 EXCEPT ![i] = Len(v1) + 1]}
        /\ \E t \in {"position", "other", "poison"} : v1' = Append(v1, [is |-> t, inst |-> i])
        /\ UNCHANGED <<v3, v4, v5, v6, v7, v8, v9, v10, v11, v12, v13, v14, v15, v16, v17, v18>>
    BY DEF Project!NodeEvent, Project!OtherEvent, Project!consumer, Project!fanout, Project!state
  <2>2. \A t \in {"position", "other", "poison"} : [is |-> t, inst |-> i] \in Project!Entry
    BY DEF Project!Entry
  <2>3. Len(v1) + 1 \in Nat
    BY ProjectFacts
  <2>4. v2' \in [Projected -> Nat]
    BY <2>1, <2>3, ProjectFacts
  <2> QED BY <2>1, <2>2, <2>4
<1>2. /\ v1' \in Seq(Project!Entry)
      /\ Len(v1') = Len(v1) + 1 /\ \A e \in 1 .. Len(v1) : v1'[e] = v1[e]
  BY <1>1, ProjectFacts
<1>3. Project!EntriesExist'
  <2>1. v13' \in [Project!Listeners -> Seq(1 .. Len(v1'))]
    BY <1>1, <1>2, ProjectFacts
  <2>2. \A e \in 1 .. MaxEvents : v4[e] > 0 => e <= v3
    BY DEF Project!Followed, Project!EntriesExist, Project!Ids
  <2>3. Len(v1') <= MaxEvents /\ v3 \in 0 .. Len(v1')
    BY <1>1, <1>2, ProjectFacts
  <2> QED BY <1>1, <1>2, <2>1, <2>2, <2>3, ProjectFacts
          DEF Project!EntriesExist, Project!Ids, Project!Listeners, Project!Entry
<1>4. Project!ListenersAreTyped'
  BY <1>1 DEF Project!Followed, Project!ListenersAreTyped, Project!Listeners
<1>5. Project!NoEventLost'
  BY <1>1, <1>2, ProjectFacts DEF Project!Followed, Project!NoEventLost
<1>6. ASSUME NEW w \in Workers PROVE Project!AckIsLast(w)'
  <2>1. v11[w] # <<>> => Head(v11[w]) \in 1 .. Len(v1)
    BY ProjectFacts
  <2> QED BY <1>1, <1>2, <2>1 DEF Project!Followed, Project!AckIsLast, Project!Settled, Project!First
<1> QED BY <1>1, <1>2, <1>3, <1>4, <1>5, <1>6, ProjectListenersStay DEF Project!Followed

LEMMA SeqIsUnion == \A S : Seq(S) = UNION {[1 .. n -> S] : n \in Nat}
OBVIOUS

\* XREADGROUP: the new entries are pending, and the reader starts with the first.
LEMMA ProjectRead ==
    ASSUME Project!Followed, NEW w \in Workers, Project!ReadOnce(w)
    PROVE  Project!Followed'
<1>1. /\ v3 < Len(v1) /\ v3' = Len(v1)
      /\ v11' = [v11 EXCEPT ![w] = [n \in 1 .. Len(v1) - v3 |-> v3 + n]]
      /\ v12' = [v12 EXCEPT ![w] = "dispatch"]
      /\ v4' = [e \in 1 .. MaxEvents |-> IF e > v3 /\ e <= Len(v1) THEN 1 ELSE v4[e]]
      /\ UNCHANGED <<v1, v2, v5, v6, v7, v8, v9, v10, v13, v14, v15, v16, v17, v18>>
  BY DEF Project!ReadOnce, Project!Ids, Project!fanout, Project!state
<1>2. Project!EntriesExist'
  <2>1. [n \in 1 .. Len(v1) - v3 |-> v3 + n] \in Seq(1 .. v3')
    <3>1. PICK k \in Nat : k = Len(v1) - v3
      BY <1>1, ProjectFacts
    <3>2. \A n \in 1 .. k : v3 + n \in 1 .. v3'
      BY <1>1, <3>1, ProjectFacts
    <3>3. [n \in 1 .. k |-> v3 + n] \in [1 .. k -> 1 .. v3']
      BY <3>2
    <3>4. [n \in 1 .. k |-> v3 + n] \in Seq(1 .. v3')
      BY <3>3, SeqIsUnion
    <3> QED BY <3>1, <3>4
  <2>2. \A u \in Workers : v11[u] \in Seq(1 .. v3')
    BY <1>1, ProjectFacts
  <2>3. v11' \in [Workers -> Seq(1 .. v3')]
    BY <1>1, <2>1, <2>2, ProjectFacts
  <2>4. v4' \in [1 .. MaxEvents -> Nat] /\ \A e \in 1 .. MaxEvents : v4'[e] > 0 => e <= v3'
    BY <1>1, ProjectFacts DEF Project!Followed, Project!EntriesExist, Project!Ids
  <2> QED BY <1>1, <2>3, <2>4, ProjectFacts DEF Project!EntriesExist, Project!Ids, Project!Listeners
<1>3. Project!ListenersAreTyped'
  BY <1>1, ProjectFacts DEF Project!ListenersAreTyped, Project!Listeners
<1>4. Project!NoEventLost'
  BY <1>1, ProjectFacts DEF Project!Followed, Project!NoEventLost
<1>5. \A u \in Workers : Project!AckIsLast(u)'
  BY <1>1, ProjectFacts DEF Project!Followed, Project!AckIsLast, Project!Settled, Project!First
<1> QED BY <1>1, <1>2, <1>3, <1>4, <1>5, ProjectListenersStay DEF Project!Followed

\* XAUTOCLAIM: the entry stays pending.
LEMMA ProjectRecover ==
    ASSUME Project!Followed, NEW w \in Workers, Project!Recover(w)
    PROVE  Project!Followed'
<1>1. PICK e \in 1 .. MaxEvents, k \in {"dlq", "dispatch"} :
          /\ v4[e] > 0 /\ v4' = [v4 EXCEPT ![e] = IF @ = MaxAttempts THEN @ ELSE @ + 1]
          /\ v11' = [v11 EXCEPT ![w] = <<e>>] /\ v12' = [v12 EXCEPT ![w] = k]
          /\ UNCHANGED <<v1, v2, v3, v5, v6, v7, v8, v9, v10, v13, v14, v15, v16, v17, v18>>
  <2>1. PICK e \in Project!Ids :
          /\ v4[e] > 0 /\ v4' = [v4 EXCEPT ![e] = IF @ = MaxAttempts THEN @ ELSE @ + 1]
          /\ v11' = [v11 EXCEPT ![w] = <<e>>]
          /\ \/ v12' = [v12 EXCEPT ![w] = IF v4'[e] >= MaxAttempts THEN "dlq" ELSE "dispatch"]
             \/ v12' = [v12 EXCEPT ![w] = "dispatch"]
    BY DEF Project!Recover
  <2>2. UNCHANGED <<v1, v2, v3, v5, v6, v7, v8, v9, v10, v13, v14, v15, v16, v17, v18>>
    BY DEF Project!Recover, Project!fanout, Project!state
  <2>3. \E k \in {"dlq", "dispatch"} : v12' = [v12 EXCEPT ![w] = k]
    BY <2>1
  <2> QED BY <2>1, <2>2, <2>3 DEF Project!Ids
<1>2. e \in 1 .. v3
  BY <1>1, ProjectFacts DEF Project!Followed, Project!EntriesExist, Project!Ids
<1>3. /\ v4' \in [1 .. MaxEvents -> Nat] /\ \A d \in 1 .. MaxEvents : v4'[d] > 0 <=> v4[d] > 0
      /\ v11' \in [Workers -> Seq(1 .. v3)]
  <2>1. <<e>> \in Seq(1 .. v3)
    BY <1>2
  <2>2. v11' \in [Workers -> Seq(1 .. v3)]
    BY <1>1, <2>1, ProjectFacts
  <2>3. v4[e] \in Nat
    BY ProjectFacts
  <2>4. v4[e] + 1 \in Nat /\ v4[e] + 1 > 0
    BY <2>3
  <2>5. v4' \in [1 .. MaxEvents -> Nat] /\ \A d \in 1 .. MaxEvents : v4'[d] > 0 <=> v4[d] > 0
    BY <1>1, <2>3, <2>4, ProjectFacts
  <2> QED BY <2>2, <2>5
<1>4. Project!EntriesExist'
  BY <1>1, <1>3, ProjectFacts DEF Project!Followed, Project!EntriesExist, Project!Ids, Project!Listeners
<1>5. Project!ListenersAreTyped'
  BY <1>1, ProjectFacts DEF Project!ListenersAreTyped, Project!Listeners
<1>6. Project!NoEventLost'
  BY <1>1, <1>3, ProjectFacts DEF Project!Followed, Project!NoEventLost
<1>7. \A u \in Workers : Project!AckIsLast(u)'
  BY <1>1, ProjectFacts DEF Project!Followed, Project!AckIsLast, Project!Settled, Project!First
<1> QED BY <1>1, <1>4, <1>5, <1>6, <1>7, ProjectListenersStay DEF Project!Followed

\* A consumer goes on with its entry, or to the next one: what was settled stays settled, and
\* only a settled entry leaves the pending list.
LEMMA ProjectGoesOn ==
    ASSUME Project!Followed, NEW w \in Workers, v11[w] # <<>>,
           NEW k \in {"dispatch", "state", "events", "ack", "dlq"},
           v12' = [v12 EXCEPT ![w] = k],
           v11' = v11 \/ v11' = [v11 EXCEPT ![w] = Tail(@)],
           UNCHANGED <<v1, v2, v3>>, v6 \subseteq v6', v7 \subseteq v7', v8 \subseteq v8',
           v4' = v4 \/ (Project!Settled(Head(v11[w])) /\ v4' = [v4 EXCEPT ![Head(v11[w])] = 0]),
           Project!AckIsLast(w)'
    PROVE  /\ v11' \in [Workers -> Seq(1 .. v3')] /\ v12' \in [Workers -> {"dispatch", "state", "events", "ack", "dlq"}]
           /\ v4' \in [1 .. MaxEvents -> Nat] /\ \A e \in 1 .. MaxEvents : v4'[e] > 0 => e <= v3'
           /\ Project!NoEventLost' /\ \A u \in Workers : Project!AckIsLast(u)'
<1>1. /\ v11[w] \in Seq(1 .. v3) /\ Tail(v11[w]) \in Seq(1 .. v3) /\ Head(v11[w]) \in 1 .. v3
  BY ProjectFacts
<1>2. v11' \in [Workers -> Seq(1 .. v3')]
  BY <1>1, ProjectFacts
<1>3. v12' \in [Workers -> {"dispatch", "state", "events", "ack", "dlq"}]
  BY ProjectFacts
<1>4. /\ v4' \in [1 .. MaxEvents -> Nat]
      /\ \A e \in 1 .. MaxEvents : v4'[e] = v4[e]
                                   \/ (e = Head(v11[w]) /\ v4'[e] = 0 /\ Project!Settled(e))
  <2>1. CASE v4' = v4
    BY <2>1, ProjectFacts
  <2>2. CASE Project!Settled(Head(v11[w])) /\ v4' = [v4 EXCEPT ![Head(v11[w])] = 0]
    BY <2>2, ProjectFacts
  <2> QED BY <2>1, <2>2
<1>5. ASSUME NEW e \in 1 .. MaxEvents, v4'[e] > 0 PROVE e <= v3'
  BY <1>4, <1>5 DEF Project!Followed, Project!EntriesExist, Project!Ids
<1>6. Project!NoEventLost'
  <2> SUFFICES ASSUME NEW e \in 1 .. v3, v1[e].is = "position", ~(v4'[e] > 0)
               PROVE  (e \in v7' /\ e \in v8') \/ e \in v6'
    BY DEF Project!NoEventLost
  <2>1. e \in 1 .. MaxEvents
    BY ProjectFacts
  <2>2. ~(v4[e] > 0) \/ Project!Settled(e)
    BY <1>4, <2>1
  <2>3. (e \in v7 /\ e \in v8) \/ e \in v6
    BY <2>2 DEF Project!Followed, Project!NoEventLost, Project!Settled
  <2> QED BY <2>3
<1>7. ASSUME NEW u \in Workers PROVE Project!AckIsLast(u)'
  <2>1. CASE u = w
    BY <2>1
  <2>2. CASE u # w
    <3>1. v11'[u] = v11[u] /\ v12'[u] = v12[u]
      BY <2>2, ProjectFacts
    <3>2. Project!AckIsLast(u)
      BY DEF Project!Followed
    <3> QED BY <3>1, <3>2 DEF Project!AckIsLast, Project!Settled, Project!First
  <2> QED BY <2>1, <2>2
<1> QED BY <1>2, <1>3, <1>4, <1>5, <1>6, <1>7

\* Steps of a consumer that publish nothing.
LEMMA ProjectConsumes ==
    ASSUME Project!Followed, NEW w \in Workers,
           Project!Dispatch(w) \/ Project!PublishFails(w) \/ Project!Ack(w) \/ Project!MoveToDlq(w)
    PROVE  Project!Followed'
<1>1. /\ v11[w] # <<>> /\ v6 \subseteq v6'
      /\ UNCHANGED <<v1, v2, v3, v7, v8, v9, v10, v13, v14, v15, v16, v17, v18>>
  BY DEF Project!Dispatch, Project!Translate, Project!PublishFails, Project!Ack, Project!MoveToDlq,
     Project!Goto, Project!NextEntry, Project!queue, Project!fanout, Project!state
<1>2. PICK k \in {"dispatch", "state", "events", "ack", "dlq"} :
          /\ v12' = [v12 EXCEPT ![w] = k]
          /\ v11' = v11 \/ v11' = [v11 EXCEPT ![w] = Tail(@)]
          /\ k # "events" /\ (k = "ack" => v11' = v11 /\ (v1[Head(v11[w])].is = "other" \/ Head(v11[w]) \in v6'))
  BY DEF Project!Dispatch, Project!Translate, Project!PublishFails, Project!Ack, Project!MoveToDlq,
     Project!Goto, Project!NextEntry, Project!First
<1>3. v4' = v4 \/ (Project!Settled(Head(v11[w])) /\ v4' = [v4 EXCEPT ![Head(v11[w])] = 0])
  BY DEF Project!Dispatch, Project!Translate, Project!PublishFails, Project!Ack, Project!MoveToDlq,
     Project!First, Project!queue, Project!Followed, Project!AckIsLast
<1>4. v12'[w] = k
  BY <1>2, ProjectFacts
<1>5. Project!AckIsLast(w)'
  BY <1>1, <1>2, <1>4 DEF Project!AckIsLast, Project!Settled, Project!First
<1>6. /\ v11' \in [Workers -> Seq(1 .. v3')] /\ v12' \in [Workers -> {"dispatch", "state", "events", "ack", "dlq"}]
      /\ v4' \in [1 .. MaxEvents -> Nat] /\ \A e \in 1 .. MaxEvents : v4'[e] > 0 => e <= v3'
      /\ Project!NoEventLost' /\ \A u \in Workers : Project!AckIsLast(u)'
  BY <1>1, <1>2, <1>3, <1>5, ProjectGoesOn
<1>7. Project!EntriesExist' /\ Project!ListenersAreTyped'
  <2>1. Project!EntriesExist'
    BY <1>1, <1>6, ProjectFacts, SMTT(30) DEF Project!EntriesExist, Project!Ids, Project!Listeners, Project!Entry
  <2>2. Project!ListenersAreTyped'
    BY <1>1, <1>6, ProjectFacts DEF Project!ListenersAreTyped, Project!Listeners
  <2> QED BY <2>1, <2>2
<1> QED BY <1>1, <1>6, <1>7, ProjectListenersStay DEF Project!Followed

\* PUBLISH to the listeners that are subscribed.
LEMMA ProjectSends ==
    ASSUME Project!Followed, NEW e \in 1 .. Len(v1), NEW to \in SUBSET Project!Listeners,
           Client \in to => v16 # "off",
           Project!Send(e, to), UNCHANGED <<v1, v14, v15, v16, v17>>
    PROVE  /\ v13' \in [Project!Listeners -> Seq(1 .. Len(v1))]
           /\ v18' \in [Project!Listeners -> [Projected -> Nat]]
           /\ Project!OffIsDeaf' /\ \A l \in Project!Listeners, i \in Projected : Project!Owed(l, i)'
<1>1. /\ v13' = [l \in Project!Listeners |-> IF l \in to THEN Append(v13[l], e) ELSE v13[l]]
      /\ v18' = [l \in Project!Listeners |-> IF l \in to THEN [v18[l] EXCEPT ![v1[e].inst] = e] ELSE v18[l]]
  BY DEF Project!Send
<1>2. ASSUME NEW l \in Project!Listeners
      PROVE  Append(v13[l], e) \in Seq(1 .. Len(v1)) /\ [v18[l] EXCEPT ![v1[e].inst] = e] \in [Projected -> Nat]
  <2>1. v13[l] \in Seq(1 .. Len(v1)) /\ v18[l] \in [Projected -> Nat] /\ e \in Nat
    BY ProjectFacts
  <2>2. Append(v13[l], e) \in Seq(1 .. Len(v1))
    BY <2>1
  <2>3. [v18[l] EXCEPT ![v1[e].inst] = e] \in [Projected -> Nat]
    BY <2>1
  <2> QED BY <2>2, <2>3
<1>3. v13' \in [Project!Listeners -> Seq(1 .. Len(v1))] /\ v18' \in [Project!Listeners -> [Projected -> Nat]]
  BY <1>1, <1>2, ProjectFacts
<1>4. Project!OffIsDeaf'
  BY <1>1, ProjectFacts DEF Project!Followed, Project!OffIsDeaf, Project!Blank
<1>5. ASSUME NEW l \in Project!Listeners, NEW i \in Projected PROVE Project!Owed(l, i)'
  <2>1. CASE l \in to
    BY <1>1, <2>1, ProjectOwedSent
  <2>2. CASE l \notin to
    BY <1>1, <2>2, ProjectOwedStays
  <2> QED BY <2>1, <2>2
<1> QED BY <1>3, <1>4, <1>5

LEMMA ProjectPublishes ==
    ASSUME Project!Followed, NEW w \in Workers, Project!PublishState(w) \/ Project!PublishEvents(w)
    PROVE  Project!Followed'
<1>1. /\ v11[w] # <<>> /\ v11' = v11 /\ v7 \subseteq v7' /\ v8 \subseteq v8'
      /\ UNCHANGED <<v1, v2, v3, v4, v5, v6, v9, v10, v14, v15, v16, v17>>
  BY DEF Project!PublishState, Project!PublishEvents, Project!Goto, Project!queue, Project!state
<1>2. PICK k \in {"events", "ack"} :
          /\ v12' = [v12 EXCEPT ![w] = k]
          /\ k = "events" => Head(v11[w]) \in v7'
          /\ k = "ack" => v12[w] = "events" /\ Head(v11[w]) \in v8'
  BY DEF Project!PublishState, Project!PublishEvents, Project!Goto, Project!First
<1>3. Head(v11[w]) \in 1 .. Len(v1)
  BY <1>1, ProjectFacts
<1>4. v12'[w] = k
  BY <1>2, ProjectFacts
<1>5. Project!AckIsLast(w)'
  BY <1>1, <1>2, <1>4 DEF Project!Followed, Project!AckIsLast, Project!Settled, Project!First
<1>6. /\ v11' \in [Workers -> Seq(1 .. v3')] /\ v12' \in [Workers -> {"dispatch", "state", "events", "ack", "dlq"}]
      /\ v4' \in [1 .. MaxEvents -> Nat] /\ \A e \in 1 .. MaxEvents : v4'[e] > 0 => e <= v3'
      /\ Project!NoEventLost' /\ \A u \in Workers : Project!AckIsLast(u)'
  BY <1>1, <1>2, <1>5, ProjectGoesOn
<1>7. \E to \in SUBSET Project!Listeners : (Client \in to => v16 # "off") /\ Project!Send(Head(v11[w]), to)
  <2>1. CASE Project!PublishState(w)
    <3>1. v9 \in SUBSET Project!Listeners /\ Client \notin v9
      BY ProjectFacts, ProjectAssumption
    <3> QED BY <2>1, <3>1 DEF Project!PublishState, Project!First
  <2>2. CASE Project!PublishEvents(w) /\ v17
    <3>1. {Client} \in SUBSET Project!Listeners /\ v16 # "off"
      BY <2>2, ProjectFacts DEF Project!Followed, Project!OffIsDeaf
    <3>2. Project!Send(Head(v11[w]), {Client})
      BY <2>2 DEF Project!PublishEvents, Project!First
    <3> QED BY <3>1, <3>2
  <2>3. CASE Project!PublishEvents(w) /\ ~v17
    <3>1. Project!Send(Head(v11[w]), {})
      BY <2>3 DEF Project!PublishEvents, Project!First
    <3> QED BY <3>1
  <2> QED BY <2>1, <2>2, <2>3
<1>8. /\ v13' \in [Project!Listeners -> Seq(1 .. Len(v1))]
      /\ v18' \in [Project!Listeners -> [Projected -> Nat]]
      /\ Project!OffIsDeaf' /\ \A l \in Project!Listeners, i \in Projected : Project!Owed(l, i)'
  BY <1>1, <1>3, <1>7, ProjectSends
<1>9. Project!EntriesExist' /\ Project!ListenersAreTyped'
  <2>1. Project!EntriesExist'
    <3>1. v13' \in [Project!Listeners -> Seq(1 .. Len(v1'))]
      BY <1>1, <1>8
    <3> QED BY <1>1, <1>6, <3>1, ProjectFacts, SMTT(30) DEF Project!EntriesExist, Project!Ids, Project!Listeners, Project!Entry
  <2>2. Project!ListenersAreTyped'
    BY <1>1, <1>6, <1>8, ProjectFacts DEF Project!ListenersAreTyped, Project!Listeners
  <2> QED BY <2>1, <2>2
<1> QED BY <1>6, <1>8, <1>9 DEF Project!Followed

\* StateApplier, and the client's forwarder.
LEMMA ProjectTakes ==
    ASSUME Project!Followed, Project!Forward \/ \E w \in Workers : Project!Apply(w)
    PROVE  Project!Followed'
<1>1. PICK l \in Project!Listeners :
          /\ v13[l] # <<>> /\ v13' = [v13 EXCEPT ![l] = Tail(@)]
          /\ v14' = [v14 EXCEPT ![l][v1[Head(v13[l])].inst] = Head(v13[l])]
          /\ v15 \subseteq v15' /\ (l \in Workers => l \in v15')
  <2>1. CASE \E w \in Workers : Project!Apply(w)
    BY <2>1, ProjectFacts DEF Project!Apply
  <2>2. CASE Project!Forward
    BY <2>2, ProjectFacts, ProjectAssumption DEF Project!Forward
  <2> QED BY <2>1, <2>2
<1>2. UNCHANGED <<v1, v2, v3, v4, v5, v6, v7, v8, v9, v10, v11, v12, v16, v17, v18>>
  BY DEF Project!Apply, Project!Forward, Project!queue, Project!consumer
<1>3. /\ v13[l] \in Seq(1 .. Len(v1)) /\ Tail(v13[l]) \in Seq(1 .. Len(v1)) /\ Head(v13[l]) \in Nat
      /\ v14[l] \in [Projected -> Nat]
  BY <1>1, ProjectFacts
<1>4. /\ v14'[l] = [v14[l] EXCEPT ![v1[Head(v13[l])].inst] = Head(v13[l])] /\ v14'[l] \in [Projected -> Nat]
      /\ \A k \in Project!Listeners : k # l => v14'[k] = v14[k] /\ v13'[k] = v13[k]
      /\ v13'[l] = Tail(v13[l])
  BY <1>1, <1>3, ProjectFacts
<1>5. v14' \in [Project!Listeners -> [Projected -> Nat]]
  BY <1>1, <1>3, ProjectFacts
<1>6. v13' \in [Project!Listeners -> Seq(1 .. Len(v1))]
  BY <1>1, <1>3, ProjectFacts
<1>7. ASSUME NEW k \in Project!Listeners, NEW i \in Projected PROVE Project!Owed(k, i)'
  <2>1. CASE k = l
    BY <1>1, <1>2, <1>4, <2>1, ProjectOwedTaken
  <2>2. CASE k # l
    BY <1>1, <1>2, <1>4, <2>2, ProjectOwedStays
  <2> QED BY <2>1, <2>2
<1>8. Project!OffIsDeaf'
  BY <1>2 DEF Project!Followed, Project!OffIsDeaf, Project!Blank
<1>9. Project!EntriesExist'
  BY <1>2, <1>6 DEF Project!Followed, Project!EntriesExist, Project!Ids, Project!Listeners, Project!Entry
<1>10. Project!ListenersAreTyped'
  BY <1>2, <1>5 DEF Project!Followed, Project!ListenersAreTyped, Project!Listeners
<1> QED BY <1>2, <1>7, <1>8, <1>9, <1>10, ProjectQueueStays DEF Project!Followed

\* A query, and the first snapshot of a client: a hydrated worker answers from its own state,
\* and a client that connects is owed nothing yet.
LEMMA ProjectReads ==
    ASSUME Project!Followed, NEW w \in Workers, Project!Query(w) \/ Project!Snapshot(w)
    PROVE  Project!Followed'
<1>1. Project!Queried(w) \in [Projected -> Nat]
  BY ProjectFacts DEF Project!Queried, Project!ColdRead
<1>2. /\ v15' = v15 \cup {w}
      /\ UNCHANGED <<v1, v2, v3, v4, v5, v6, v7, v8, v9, v10, v11, v12, v13, v17, v18>>
  BY DEF Project!Query, Project!Snapshot, Project!queue, Project!consumer, Project!fanout
<1>3. /\ v14' \in [Project!Listeners -> [Projected -> Nat]] /\ v14'[w] = Project!Queried(w)
      /\ \A l \in Project!Listeners : l # w /\ (l # Client \/ v16 # "off") => v14'[l] = v14[l]
  <2>1. CASE Project!Query(w)
    BY <1>1, <2>1, ProjectFacts DEF Project!Query
  <2>2. CASE Project!Snapshot(w)
    BY <1>1, <2>2, ProjectFacts, ProjectAssumption DEF Project!Snapshot
  <2> QED BY <2>1, <2>2
<1>4. Project!OffIsDeaf'
  <2>1. v16' = "off" => v16 = "off"
    BY DEF Project!Query, Project!Snapshot
  <2> QED BY <1>2, <2>1 DEF Project!Followed, Project!OffIsDeaf, Project!Blank
<1>5. ASSUME NEW l \in Project!Listeners, NEW i \in Projected PROVE Project!Owed(l, i)'
  <2>1. CASE l = w
    <3>1. w \in v15 => v14'[w] = v14[w]
      BY <1>3 DEF Project!Queried
    <3> QED BY <1>2, <2>1, <3>1, ProjectOwedStays
  <2>2. CASE l # w /\ (l # Client \/ v16 # "off")
    BY <1>2, <1>3, <2>2, ProjectOwedStays
  <2>3. CASE l = Client /\ v16 = "off"
    <3>1. v18'[l][i] = 0
      BY <1>2, <2>3 DEF Project!Followed, Project!OffIsDeaf, Project!Blank
    <3> QED BY <3>1 DEF Project!Owed
  <2> QED BY <2>1, <2>2, <2>3
<1>6. Project!EntriesExist'
  BY <1>2 DEF Project!Followed, Project!EntriesExist, Project!Ids, Project!Listeners, Project!Entry
<1>7. Project!ListenersAreTyped'
  BY <1>2, <1>3 DEF Project!Followed, Project!ListenersAreTyped, Project!Listeners
<1> QED BY <1>2, <1>4, <1>5, <1>6, <1>7, ProjectQueueStays DEF Project!Followed

LEMMA ProjectConnection ==
    ASSUME Project!Followed, Project!Subscribe \/ Project!Disconnect
    PROVE  Project!Followed'
<1>1. UNCHANGED <<v1, v2, v3, v4, v5, v6, v7, v8, v9, v10, v11, v12, v14, v15>>
  BY DEF Project!Subscribe, Project!Disconnect, Project!queue, Project!consumer, Project!fanout
<1>2. CASE Project!Subscribe
  <2>1. v16 # "off" /\ v17' = TRUE /\ UNCHANGED <<v13, v16, v18>>
    BY <1>2 DEF Project!Subscribe, Project!fanout
  <2>2. Project!EntriesExist'
    BY <1>1, <2>1 DEF Project!Followed, Project!EntriesExist, Project!Ids, Project!Listeners, Project!Entry
  <2>3. Project!ListenersAreTyped' /\ Project!OffIsDeaf'
    BY <1>1, <2>1 DEF Project!Followed, Project!ListenersAreTyped, Project!OffIsDeaf, Project!Listeners
  <2>4. \A l \in Project!Listeners, i \in Projected : Project!Owed(l, i)'
    BY <1>1, <2>1, ProjectOwedStays
  <2> QED BY <1>1, <2>2, <2>3, <2>4, ProjectQueueStays DEF Project!Followed
<1>3. CASE Project!Disconnect
  <2>1. /\ v17' = FALSE /\ v13' = [v13 EXCEPT ![Client] = <<>>]
        /\ v18' = [v18 EXCEPT ![Client] = [i \in Projected |-> 0]]
    BY <1>3 DEF Project!Disconnect, Project!Blank
  <2>2. v13' \in [Project!Listeners -> Seq(1 .. Len(v1))] /\ v18' \in [Project!Listeners -> [Projected -> Nat]]
    BY <2>1, ProjectFacts
  <2>3. Project!EntriesExist'
    BY <1>1, <2>2 DEF Project!Followed, Project!EntriesExist, Project!Ids, Project!Listeners, Project!Entry
  <2>4. Project!ListenersAreTyped'
    BY <1>1, <2>1, <2>2 DEF Project!Followed, Project!ListenersAreTyped, Project!Listeners
  <2>5. Project!OffIsDeaf'
    BY <2>1, ProjectFacts DEF Project!OffIsDeaf, Project!Blank
  <2>6. ASSUME NEW l \in Project!Listeners, NEW i \in Projected PROVE Project!Owed(l, i)'
    <3>1. CASE l = Client
      BY <2>1, <3>1, ProjectFacts DEF Project!Owed
    <3>2. CASE l # Client
      <4>1. v13'[l] = v13[l] /\ v18'[l] = v18[l]
        BY <2>1, <3>2, ProjectFacts
      <4> QED BY <1>1, <4>1, ProjectOwedStays
    <3> QED BY <3>1, <3>2
  <2> QED BY <1>1, <2>3, <2>4, <2>5, <2>6, ProjectQueueStays DEF Project!Followed
<1> QED BY <1>2, <1>3

\* A worker that dies leaves its entries pending, and takes its client with it.
LEMMA ProjectDies ==
    ASSUME Project!Followed, NEW w \in Workers, Project!Dies(w)
    PROVE  Project!Followed'
<1>1. /\ UNCHANGED <<v1, v2, v3, v4, v5, v6, v7, v8>> /\ v9' = v9 \ {w} /\ v15' = v15 \ {w}
      /\ v11' = [v11 EXCEPT ![w] = <<>>] /\ v12' = [v12 EXCEPT ![w] = "dispatch"]
      /\ v14' = [v14 EXCEPT ![w] = [i \in Projected |-> 0]]
  BY DEF Project!Dies, Project!queue, Project!Blank
<1>2. PICK gone : /\ gone = IF v16 = w THEN {w, Client} ELSE {w}
                  /\ v13' = [l \in Project!Listeners |-> IF l \in gone THEN <<>> ELSE v13[l]]
                  /\ v18' = [l \in Project!Listeners |-> IF l \in gone THEN [i \in Projected |-> 0] ELSE v18[l]]
  BY DEF Project!Dies, Project!Blank
<1>3. /\ v16' = IF v16 = w THEN "off" ELSE v16
      /\ v17' = (v17 /\ v16 # w)
  BY DEF Project!Dies
<1>4. v17' \in BOOLEAN
  BY <1>3, Zenon
<1>5. v11' \in [Workers -> Seq(1 .. v3')] /\ v14' \in [Project!Listeners -> [Projected -> Nat]]
  BY <1>1, ProjectFacts
<1>6. v13' \in [Project!Listeners -> Seq(1 .. Len(v1'))] /\ v18' \in [Project!Listeners -> [Projected -> Nat]]
  <2>1. v18' \in [Project!Listeners -> [Projected -> Nat]]
    BY <1>2, ProjectFacts
  <2>2. <<>> \in Seq(1 .. Len(v1)) /\ \A l \in Project!Listeners : v13[l] \in Seq(1 .. Len(v1))
    BY ProjectFacts
  <2>3. v13' \in [Project!Listeners -> Seq(1 .. Len(v1))]
    BY <1>2, <2>2
  <2> QED BY <1>1, <2>1, <2>3
<1>7. Project!EntriesExist'
  BY <1>1, <1>5, <1>6 DEF Project!Followed, Project!EntriesExist, Project!Ids, Project!Listeners, Project!Entry
<1>8. Project!ListenersAreTyped'
  BY <1>1, <1>4, <1>5, <1>6 DEF Project!Followed, Project!ListenersAreTyped, Project!Listeners
<1>9. Project!NoEventLost'
  BY <1>1 DEF Project!Followed, Project!NoEventLost
<1>10. ASSUME NEW u \in Workers PROVE Project!AckIsLast(u)'
  <2>1. CASE u = w
    BY <1>1, <2>1, ProjectFacts DEF Project!AckIsLast
  <2>2. CASE u # w
    BY <1>1, <2>2, ProjectFacts DEF Project!Followed, Project!AckIsLast, Project!Settled, Project!First
  <2> QED BY <2>1, <2>2
<1>11. Project!OffIsDeaf'
  <2>1. CASE v16 = w
    <3>1. ~v17'
      BY <1>3, <2>1
    <3>2. v18'[Client] = [i \in Projected |-> 0]
      BY <1>2, <2>1, ProjectFacts
    <3> QED BY <3>1, <3>2 DEF Project!OffIsDeaf, Project!Blank
  <2>2. CASE v16 # w
    <3>1. v18'[Client] = v18[Client] /\ v16' = v16
      BY <1>2, <1>3, <2>2, ProjectFacts, ProjectAssumption
    <3>2. v17' => v17
      BY <1>3
    <3> QED BY <3>1, <3>2 DEF Project!Followed, Project!OffIsDeaf, Project!Blank
  <2> QED BY <2>1, <2>2
<1>12. ASSUME NEW l \in Project!Listeners, NEW i \in Projected PROVE Project!Owed(l, i)'
  <2>1. CASE l \in gone
    BY <1>2, <2>1 DEF Project!Owed
  <2>2. CASE l \notin gone
    <3>1. l # w /\ v13'[l] = v13[l] /\ v18'[l] = v18[l]
      BY <1>2, <2>2
    <3>2. v14'[l] = v14[l] /\ (l \in v15 => l \in v15')
      BY <1>1, <3>1, ProjectFacts
    <3> QED BY <1>1, <3>1, <3>2, ProjectOwedStays
  <2> QED BY <2>1, <2>2
<1> QED BY <1>7, <1>8, <1>9, <1>10, <1>11, <1>12 DEF Project!Followed

LEMMA ProjectStarts ==
    ASSUME Project!Followed, NEW w \in Workers, Project!Boots(w) \/ Project!Register(w)
    PROVE  Project!Followed'
<1>1. /\ UNCHANGED <<v1, v2, v3, v4, v5, v6, v7, v8, v11, v12, v13, v14, v15, v16, v17, v18>>
      /\ v9' \subseteq Workers
  BY ProjectFacts DEF Project!Boots, Project!Register, Project!queue, Project!fanout, Project!state
<1>2. Project!EntriesExist'
  BY <1>1 DEF Project!Followed, Project!EntriesExist, Project!Ids, Project!Listeners, Project!Entry
<1>3. Project!ListenersAreTyped'
  BY <1>1 DEF Project!Followed, Project!ListenersAreTyped, Project!Listeners
<1> QED BY <1>1, <1>2, <1>3, ProjectListenersStay, ProjectQueueStays DEF Project!Followed

LEMMA ProjectInvariant == Spec => [](part = "Project" => Project!Followed)
<1> DEFINE Inv == part = "Project" => Project!Followed
<1>1. Init => Inv
  BY ProjectStart DEF Init
<1>2. Inv /\ [Next]_pool => Inv'
  <2> SUFFICES ASSUME Inv, [Next]_pool, part' = "Project" PROVE Project!Followed'
    OBVIOUS
  <2>1. CASE UNCHANGED pool
    <3>1. part = "Project" /\ UNCHANGED <<v1, v2, v3, v4, v5, v6, v7, v8, v9, v10, v11, v12, v13, v14, v15, v16, v17, v18>>
      BY <2>1 DEF pool, Rest4, Rest5, Rest6, Rest7, Rest8, Rest9, Rest10, Rest11, Rest12, Rest13, Rest14, Rest15,
         Rest16, Rest17, Rest18, Rest19
    <3>2. Project!EntriesExist'
      BY <3>1 DEF Project!Followed, Project!EntriesExist, Project!Ids, Project!Listeners, Project!Entry
    <3>3. Project!ListenersAreTyped'
      BY <3>1 DEF Project!Followed, Project!ListenersAreTyped, Project!Listeners
    <3> QED BY <3>1, <3>2, <3>3, ProjectListenersStay, ProjectQueueStays DEF Project!Followed
  <2>2. CASE Next
    <3>1. part = "Project" /\ Project!Next /\ Project!Followed
      BY <2>2 DEF Next
    <3>2. CASE \E i \in Projected : Project!NodeEvent(i) \/ \E k \in {"other", "poison"} : Project!OtherEvent(k, i)
      BY <3>1, <3>2, ProjectEvent
    <3>3. CASE \E w \in Workers :
                 \/ Project!ReadOnce(w) \/ Project!Recover(w) \/ Project!Dispatch(w)
                 \/ Project!PublishState(w) \/ Project!PublishEvents(w)
                 \/ Project!PublishFails(w) \/ Project!Ack(w) \/ Project!MoveToDlq(w)
                 \/ Project!Apply(w) \/ Project!Query(w)
                 \/ Project!Dies(w) \/ Project!Boots(w) \/ Project!Register(w) \/ Project!Snapshot(w)
      BY <3>1, <3>3, ProjectRead, ProjectRecover, ProjectConsumes, ProjectPublishes, ProjectTakes,
         ProjectReads, ProjectDies, ProjectStarts
    <3>4. CASE Project!Subscribe \/ Project!Forward \/ Project!Disconnect
      BY <3>1, <3>4, ProjectConnection, ProjectTakes
    <3> QED BY <3>1, <3>2, <3>3, <3>4 DEF Project!Next
  <2> QED BY <2>1, <2>2
<1> QED BY <1>1, <1>2, PTL DEF Spec

\* Any workers, instruments, streams, failing publications and deaths: a position event that the
\* group has read is pending, published on both channels or in the DLQ, and a listener that has
\* taken what was queued for it shows the last version published since it subscribed.
THEOREM ProjectionAlwaysFollows == Spec => []ProjectionFollows
<1> DEFINE Inv == part = "Project" => Project!Followed
<1>1. Inv => ProjectionFollows
  <2> SUFFICES ASSUME Project!Followed PROVE Project!NoEventLost /\ Project!ListenersFollow
    BY DEF ProjectionFollows
  <2>1. ASSUME NEW l \in Project!Listeners, v13[l] = <<>>, NEW i \in Projected, v18[l][i] # 0
        PROVE  v14[l][i] = v18[l][i]
    <3>1. ~Project!Queued(l, i)
      BY <2>1 DEF Project!Queued
    <3> QED BY <2>1, <3>1 DEF Project!Followed, Project!Owed, Project!Shown
  <2> QED BY <2>1 DEF Project!Followed, Project!ListenersFollow
<1> QED BY <1>1, ProjectInvariant, PTL

-----------------------------------------------------------------------------
(* StaleHalt.  v1: fleet, v2: manifest, v3: verdict, v4: marker, v5: row,     *)
(* v6: pc, v7: run, v8: universe, v9: feed, v10: shutdown, v11: mon,          *)
(* v12: snap, v13: halt_fired, v14: on_halt_fired, v15: resume, v16: used.    *)

LEMMA HaltsFacts ==
    ASSUME Halts!TrustedHalts
    PROVE  /\ v2 \in [Halted -> Halts!Manifests] /\ v3 \in [Halted -> [UNION Universes -> Halts!Verdict]]
           /\ v4 \in [Halted -> Nat] /\ v7 \in [Halted -> Nat]
           /\ v5 \in [Halted -> {"starting", "running", "terminal"}] /\ v6 \in [Halted -> Halts!Steps]
           /\ v8 \in [Halted -> SUBSET UNION Universes]
           /\ v9 \in [Halted -> [UNION Universes -> Halts!Judged]]
           /\ v12 \in [Halted -> [UNION Universes -> Halts!Judged]]
           /\ v11 \in [Halted -> {"idle", "fire", "onHalt", "publish", "published"}]
           /\ v15 \in Halts!Resume
BY DEF Halts!TrustedHalts, Halts!HaltsAreTyped

\* The invariant of a deployment from the values of its variables alone.
LEMMA HaltsOthersStay ==
    ASSUME Halts!TrustedHalts, NEW e \in Halted,
           v2'[e] = v2[e], v3'[e] = v3[e], v4'[e] = v4[e], v5'[e] = v5[e], v6'[e] = v6[e], v7'[e] = v7[e],
           v8'[e] = v8[e], v9'[e] = v9[e], v11'[e] = v11[e], v12'[e] = v12[e]
    PROVE  Halts!RunIsSound(e)'
<1>1. Halts!RunIsSound(e)
  BY DEF Halts!TrustedHalts
<1> QED BY <1>1 DEF Halts!RunIsSound, Halts!MarkerIsOurs, Halts!ManifestIsOurs, Halts!VerdictsAreOurs,
       Halts!WarmIsObserved, Halts!MonitorRests, Halts!NotPromoted, Halts!None, Halts!Absent

\* Types that do not name a variable.
LEMMA HaltsTypes ==
    /\ Halts!Absent \in Halts!Verdict /\ Halts!Absent.run = 0 /\ Halts!Absent.is = "absent"
    /\ Halts!None \in Halts!Manifests /\ \A u \in SUBSET UNION Universes : u \in Halts!Manifests
    /\ \A u \in Universes : u \in SUBSET UNION Universes
    /\ \A j \in Halts!Judged : \A n \in Nat : /\ [is |-> j, run |-> n] \in Halts!Verdict
                                              /\ [is |-> j, run |-> n].run = n /\ [is |-> j, run |-> n].is = j
    /\ Halts!Idle \in Halts!Resume /\ Halts!Idle.load = {}
<1>1. /\ Halts!Absent \in Halts!Verdict /\ Halts!Absent.run = 0 /\ Halts!Absent.is = "absent"
      /\ \A u \in Universes : u \in SUBSET UNION Universes
  BY DEF Halts!Absent, Halts!Verdict
<1>2. Halts!None \in Halts!Manifests /\ \A u \in SUBSET UNION Universes : u \in Halts!Manifests
  BY DEF Halts!Manifests
<1>3. ASSUME NEW j \in Halts!Judged, NEW n \in Nat PROVE [is |-> j, run |-> n] \in Halts!Verdict
  BY DEF Halts!Verdict
<1>4. Halts!Idle \in Halts!Resume /\ Halts!Idle.load = {}
  BY <1>2 DEF Halts!Idle, Halts!Resume
<1> QED BY <1>1, <1>2, <1>3, <1>4

LEMMA HaltsStart == Halts!Init => Halts!TrustedHalts
<1> SUFFICES ASSUME Halts!Init PROVE Halts!TrustedHalts
  OBVIOUS
<1>1. /\ v2 = [d \in Halted |-> Halts!None] /\ v3 = [d \in Halted |-> [f \in UNION Universes |-> Halts!Absent]]
      /\ v4 = [d \in Halted |-> 0] /\ v7 = [d \in Halted |-> 0]
      /\ v5 = [d \in Halted |-> "terminal"] /\ v6 = [d \in Halted |-> "off"] /\ v8 = [d \in Halted |-> {}]
      /\ v9 = [d \in Halted |-> [f \in UNION Universes |-> "pending"]]
      /\ v12 = [d \in Halted |-> [f \in UNION Universes |-> "pending"]]
      /\ v11 = [d \in Halted |-> "idle"] /\ v15 = Halts!Idle
  BY DEF Halts!Init
<1>2. Halts!HaltsAreTyped
  <2>1. "pending" \in Halts!Judged /\ "off" \in Halts!Steps
    BY DEF Halts!Judged, Halts!Steps
  <2> QED BY <1>1, <2>1, HaltsTypes DEF Halts!HaltsAreTyped
<1>3. Halts!ProbedIsPinned
  BY <1>1, HaltsTypes DEF Halts!ProbedIsPinned
<1>4. \A d \in Halted : Halts!RunIsSound(d)
  BY <1>1, HaltsTypes DEF Halts!RunIsSound, Halts!MarkerIsOurs, Halts!ManifestIsOurs, Halts!VerdictsAreOurs,
     Halts!WarmIsObserved, Halts!MonitorRests, Halts!NotPromoted
<1> QED BY <1>2, <1>3, <1>4 DEF Halts!TrustedHalts

\* A bar arrives, or a feed falls silent: both are observations.
LEMMA HaltsFeed ==
    ASSUME Halts!TrustedHalts, NEW d \in Halted, NEW f \in UNION Universes,
           Halts!FeedArrives(d, f) \/ Halts!FeedStalls(d, f)
    PROVE  Halts!TrustedHalts'
<1>1. /\ UNCHANGED <<v2, v3, v4, v5, v6, v7, v8, v11, v12, v15>>
      /\ \E j \in {"warm", "stale"} : v9' = [v9 EXCEPT ![d][f] = j]
  BY DEF Halts!FeedArrives, Halts!FeedStalls, Halts!redis, Halts!loop, Halts!monitor
<1>2. /\ v9' \in [Halted -> [UNION Universes -> Halts!Judged]]
      /\ \A e \in Halted, g \in UNION Universes : v9[e][g] # "pending" => v9'[e][g] # "pending"
  <2>1. PICK j \in {"warm", "stale"} : v9' = [v9 EXCEPT ![d][f] = j]
    BY <1>1
  <2>2. v9[d] \in [UNION Universes -> Halts!Judged] /\ j \in Halts!Judged
    BY HaltsFacts DEF Halts!Judged
  <2>3. v9' = [v9 EXCEPT ![d] = [v9[d] EXCEPT ![f] = j]]
    BY <2>1
  <2>4. [v9[d] EXCEPT ![f] = j] \in [UNION Universes -> Halts!Judged]
    BY <2>2
  <2>5. v9' \in [Halted -> [UNION Universes -> Halts!Judged]]
    BY <2>3, <2>4, HaltsFacts
  <2>6. ASSUME NEW e \in Halted, NEW g \in UNION Universes, v9[e][g] # "pending" PROVE v9'[e][g] # "pending"
    <3>1. CASE e = d
      BY <2>2, <2>3, <2>6, <3>1, HaltsFacts
    <3>2. CASE e # d
      BY <2>3, <2>6, <3>2, HaltsFacts
    <3> QED BY <3>1, <3>2
  <2> QED BY <2>5, <2>6
<1>3. Halts!HaltsAreTyped'
  BY <1>1, <1>2 DEF Halts!TrustedHalts, Halts!HaltsAreTyped, Halts!Manifests, Halts!None, Halts!Verdict,
     Halts!Judged, Halts!Steps, Halts!Resume
<1>4. Halts!ProbedIsPinned'
  BY <1>1 DEF Halts!TrustedHalts, Halts!ProbedIsPinned, Halts!None
<1>5. ASSUME NEW e \in Halted PROVE Halts!RunIsSound(e)'
  <2>1. Halts!RunIsSound(e)
    BY DEF Halts!TrustedHalts
  <2>2. Halts!WarmIsObserved(e)'
    BY <1>1, <1>2, <2>1 DEF Halts!RunIsSound, Halts!WarmIsObserved
  <2> QED BY <1>1, <2>1, <2>2 DEF Halts!RunIsSound, Halts!MarkerIsOurs, Halts!ManifestIsOurs,
         Halts!VerdictsAreOurs, Halts!MonitorRests, Halts!NotPromoted, Halts!None, Halts!Absent
<1> QED BY <1>3, <1>4, <1>5 DEF Halts!TrustedHalts

\* A new run: what the verdict keys still hold is an earlier run's.
LEMMA HaltsSpawn ==
    ASSUME Halts!TrustedHalts, NEW d \in Halted, Halts!Spawn(d)
    PROVE  Halts!TrustedHalts'
<1>1. PICK u \in Universes :
      /\ v6[d] = "off" /\ UNCHANGED <<v2, v3, v4, v11, v12, v15>>
      /\ v6' = [v6 EXCEPT ![d] = "clear"] /\ v7' = [v7 EXCEPT ![d] = v7[d] + 1]
      /\ v5' = [v5 EXCEPT ![d] = "starting"] /\ v8' = [v8 EXCEPT ![d] = u]
      /\ v9' = [v9 EXCEPT ![d] = [f \in UNION Universes |-> "pending"]]
  BY DEF Halts!Spawn, Halts!Goto, Halts!redis
<1>2. /\ v6' \in [Halted -> Halts!Steps] /\ v7' \in [Halted -> Nat]
      /\ v5' \in [Halted -> {"starting", "running", "terminal"}]
      /\ v8' \in [Halted -> SUBSET UNION Universes] /\ v9' \in [Halted -> [UNION Universes -> Halts!Judged]]
  <2>1. "clear" \in Halts!Steps /\ "pending" \in Halts!Judged
    BY DEF Halts!Steps, Halts!Judged
  <2>2. v7[d] + 1 \in Nat
    BY HaltsFacts
  <2> QED BY <1>1, <2>1, <2>2, HaltsFacts, HaltsTypes
<1>3. Halts!HaltsAreTyped'
  BY <1>1, <1>2 DEF Halts!TrustedHalts, Halts!HaltsAreTyped, Halts!Manifests, Halts!None, Halts!Verdict,
     Halts!Judged, Halts!Steps, Halts!Resume
<1>4. Halts!ProbedIsPinned'
  BY <1>1 DEF Halts!TrustedHalts, Halts!ProbedIsPinned, Halts!None
<1>5. Halts!RunIsSound(d)'
  <2>1. v6'[d] = "clear" /\ v7'[d] = v7[d] + 1 /\ v5'[d] = "starting" /\ v11'[d] = "idle"
    BY <1>1, HaltsFacts DEF Halts!TrustedHalts, Halts!RunIsSound, Halts!MonitorRests
  <2>2. ASSUME NEW f \in UNION Universes PROVE v3[d][f].run <= v7[d] /\ v3[d][f].run \in Nat /\ v7[d] \in Nat
    BY HaltsFacts DEF Halts!TrustedHalts, Halts!RunIsSound, Halts!WarmIsObserved, Halts!Verdict
  <2>3. \A f \in UNION Universes : v3[d][f].run <= v7'[d] /\ v3[d][f].run # v7'[d]
    BY <2>1, <2>2
  <2>4. Halts!WarmIsObserved(d)'
    BY <1>1, <2>1, <2>3 DEF Halts!WarmIsObserved
  <2> QED BY <2>1, <2>4 DEF Halts!RunIsSound, Halts!MarkerIsOurs, Halts!ManifestIsOurs,
         Halts!VerdictsAreOurs, Halts!MonitorRests, Halts!NotPromoted
<1>6. \A e \in Halted : e # d => Halts!RunIsSound(e)'
  BY <1>1, HaltsFacts, HaltsOthersStay
<1> QED BY <1>3, <1>4, <1>5, <1>6 DEF Halts!TrustedHalts

\* A step of the run loop, or one that ends it, which publishes nothing.
LEMMA HaltsLoop ==
    ASSUME Halts!TrustedHalts, NEW d \in Halted, UNCHANGED <<v2, v3, v7, v8, v9, v12, v15>>,
           v4' \in [Halted -> Nat], v5' \in [Halted -> {"starting", "running", "terminal"}],
           v6' \in [Halted -> Halts!Steps],
           v11' \in [Halted -> {"idle", "fire", "onHalt", "publish", "published"}],
           \A e \in Halted : e # d => v4'[e] = v4[e] /\ v5'[e] = v5[e] /\ v6'[e] = v6[e] /\ v11'[e] = v11[e],
           v11'[d] = "idle" \/ v11'[d] = v11[d],
           v6'[d] \in {"off", "clear", "build", "manifest", "terminal"} => v11'[d] = "idle",
           v6'[d] \in {"build", "manifest", "start", "check", "mark"} => v4'[d] = 0,
           v6'[d] = "run" => v4'[d] \in {0, v7[d]},
           v6'[d] \in {"start", "check", "mark", "run"} => v6[d] \in {"start", "check", "mark", "run"},
           v6'[d] \in {"check", "mark", "run"} => v6[d] \in {"check", "mark", "run"} \/ v11[d] = "published",
           v6'[d] \in {"clear", "build", "manifest", "start", "check"} => v5'[d] # "running"
    PROVE  Halts!TrustedHalts'
<1>1. Halts!HaltsAreTyped'
  BY HaltsFacts DEF Halts!HaltsAreTyped, Halts!Manifests, Halts!None, Halts!Verdict,
     Halts!Judged, Halts!Steps, Halts!Resume
<1>2. Halts!ProbedIsPinned'
  BY DEF Halts!TrustedHalts, Halts!ProbedIsPinned, Halts!None
<1>3. Halts!RunIsSound(d)'
  <2>1. Halts!ManifestIsOurs(d) /\ Halts!VerdictsAreOurs(d) /\ Halts!WarmIsObserved(d)
    BY DEF Halts!TrustedHalts, Halts!RunIsSound
  <2>2. Halts!MarkerIsOurs(d)' /\ Halts!MonitorRests(d)' /\ Halts!NotPromoted(d)'
    BY DEF Halts!MarkerIsOurs, Halts!MonitorRests, Halts!NotPromoted
  <2>3. Halts!ManifestIsOurs(d)'
    BY <2>1 DEF Halts!ManifestIsOurs, Halts!None
  <2>4. Halts!VerdictsAreOurs(d)'
    BY <2>1 DEF Halts!VerdictsAreOurs, Halts!Absent
  <2>5. Halts!WarmIsObserved(d)'
    BY <2>1 DEF Halts!WarmIsObserved
  <2> QED BY <2>2, <2>3, <2>4, <2>5 DEF Halts!RunIsSound
<1>4. \A e \in Halted : e # d => Halts!RunIsSound(e)'
  BY HaltsOthersStay
<1> QED BY <1>1, <1>2, <1>3, <1>4 DEF Halts!TrustedHalts

\* The steps up to _mark_running, and the ends of the run.
LEMMA HaltsLoopSteps ==
    ASSUME Halts!TrustedHalts, NEW d \in Halted,
           \/ Halts!ClearMarker(d) \/ Halts!Build(d) \/ Halts!StartReturns(d) \/ Halts!MarkRunning(d)
           \/ Halts!MarkReconciled(d) \/ Halts!NodeStopped(d) \/ Halts!MarkTerminal(d)
           \/ Halts!RunLoopRaises(d) \/ Halts!Crash(d) \/ Halts!Reaped(d)
    PROVE  Halts!TrustedHalts'
<1>0. /\ Halts!MarkerIsOurs(d) /\ Halts!MonitorRests(d) /\ Halts!NotPromoted(d)
      /\ {"off", "build", "check", "mark", "run", "teardown", "manifest", "terminal"} \subseteq Halts!Steps
  BY DEF Halts!TrustedHalts, Halts!RunIsSound, Halts!Steps
<1> USE DEF Halts!Goto, Halts!Mon, Halts!redis, Halts!loop, Halts!monitor
<1>1. CASE Halts!ClearMarker(d)
  <2>1. /\ v6[d] = "clear" /\ v4' = [v4 EXCEPT ![d] = 0] /\ v6' = [v6 EXCEPT ![d] = "build"]
        /\ UNCHANGED <<v2, v3, v5, v7, v8, v9, v11, v12, v15>>
    BY <1>1 DEF Halts!ClearMarker
  <2> QED BY <1>0, <2>1, HaltsFacts, HaltsLoop DEF Halts!MonitorRests, Halts!NotPromoted
<1>2. CASE Halts!Build(d)
  <2>1. /\ v6[d] = "build" /\ UNCHANGED <<v2, v3, v4, v5, v7, v8, v9, v11, v12, v15>>
        /\ v6' = [v6 EXCEPT ![d] = "teardown"] \/ v6' = [v6 EXCEPT ![d] = "manifest"]
    BY <1>2 DEF Halts!Build
  <2>2. v4[d] = 0 /\ v11[d] = "idle" /\ v5[d] # "running"
    BY <1>0, <2>1 DEF Halts!MarkerIsOurs, Halts!MonitorRests, Halts!NotPromoted
  <2>3. v6' \in [Halted -> Halts!Steps] /\ v6'[d] \in {"teardown", "manifest"} /\ \A e \in Halted : e # d => v6'[e] = v6[e]
    BY <1>0, <2>1, HaltsFacts
  <2> QED BY <2>1, <2>2, <2>3, HaltsFacts, HaltsLoop
<1>3. CASE Halts!StartReturns(d)
  <2>1. /\ v6[d] = "start" /\ v11[d] = "published" /\ UNCHANGED <<v2, v3, v4, v5, v7, v8, v9, v12, v15>>
        /\ v6' = [v6 EXCEPT ![d] = "check"] /\ v11' = [v11 EXCEPT ![d] = "idle"]
    BY <1>3 DEF Halts!StartReturns
  <2> QED BY <1>0, <2>1, HaltsFacts, HaltsLoop DEF Halts!MarkerIsOurs, Halts!NotPromoted
<1>4. CASE Halts!MarkRunning(d)
  <2>1. /\ v6[d] = "check" /\ UNCHANGED <<v2, v3, v4, v7, v8, v9, v11, v12, v15>>
        /\ \/ v6' = [v6 EXCEPT ![d] = "teardown"] /\ v5' = v5
           \/ v6' = [v6 EXCEPT ![d] = "mark"] /\ v5' = [v5 EXCEPT ![d] = "running"]
           \/ v6' = [v6 EXCEPT ![d] = "run"] /\ v5' = v5
    BY <1>4 DEF Halts!MarkRunning
  <2>2. v4[d] = 0
    BY <1>0, <2>1 DEF Halts!MarkerIsOurs
  <2>3. /\ v6' \in [Halted -> Halts!Steps] /\ v6'[d] \in {"teardown", "mark", "run"}
        /\ v5' \in [Halted -> {"starting", "running", "terminal"}]
        /\ \A e \in Halted : e # d => v6'[e] = v6[e] /\ v5'[e] = v5[e]
    <3>1. \E p \in {"teardown", "mark", "run"} : v6' = [v6 EXCEPT ![d] = p]
      BY <2>1
    <3>2. v6' \in [Halted -> Halts!Steps] /\ v6'[d] \in {"teardown", "mark", "run"}
      BY <1>0, <3>1, HaltsFacts
    <3>3. v5' \in [Halted -> {"starting", "running", "terminal"}] /\ \A e \in Halted : e # d => v5'[e] = v5[e]
      BY <2>1, HaltsFacts
    <3>4. \A e \in Halted : e # d => v6'[e] = v6[e]
      BY <3>1, HaltsFacts
    <3> QED BY <3>2, <3>3, <3>4
  <2> QED BY <2>1, <2>2, <2>3, HaltsFacts, HaltsLoop
<1>5. CASE Halts!MarkReconciled(d)
  <2>1. /\ v6[d] = "mark" /\ v4' = [v4 EXCEPT ![d] = v7[d]] /\ v6' = [v6 EXCEPT ![d] = "run"]
        /\ UNCHANGED <<v2, v3, v5, v7, v8, v9, v11, v12, v15>>
    BY <1>5 DEF Halts!MarkReconciled
  <2> QED BY <1>0, <2>1, HaltsFacts, HaltsLoop
<1>6. CASE Halts!NodeStopped(d) \/ Halts!RunLoopRaises(d)
  <2>1. /\ v6[d] # "off" /\ v6' = [v6 EXCEPT ![d] = "teardown"]
        /\ UNCHANGED <<v2, v3, v4, v5, v7, v8, v9, v11, v12, v15>>
    BY <1>6 DEF Halts!NodeStopped, Halts!RunLoopRaises
  <2> QED BY <1>0, <2>1, HaltsFacts, HaltsLoop
<1>7. CASE Halts!MarkTerminal(d)
  <2>1. /\ v6[d] = "terminal" /\ v6' = [v6 EXCEPT ![d] = "off"] /\ v5' = [v5 EXCEPT ![d] = "terminal"]
        /\ UNCHANGED <<v2, v3, v4, v7, v8, v9, v11, v12, v15>>
    BY <1>7 DEF Halts!MarkTerminal
  <2> QED BY <1>0, <2>1, HaltsFacts, HaltsLoop DEF Halts!MonitorRests
<1>8. CASE Halts!Crash(d)
  <2>1. /\ v6' = [v6 EXCEPT ![d] = "off"] /\ v11' = [v11 EXCEPT ![d] = "idle"]
        /\ UNCHANGED <<v2, v3, v4, v5, v7, v8, v9, v12, v15>>
    BY <1>8 DEF Halts!Crash
  <2> QED BY <1>0, <2>1, HaltsFacts, HaltsLoop
<1>9. CASE Halts!Reaped(d)
  <2>1. /\ v6[d] = "off" /\ v5' = [v5 EXCEPT ![d] = "terminal"]
        /\ UNCHANGED <<v2, v3, v4, v6, v7, v8, v9, v11, v12, v15>>
    BY <1>9 DEF Halts!Reaped
  <2> QED BY <1>0, <2>1, HaltsFacts, HaltsLoop DEF Halts!MonitorRests
<1> QED BY <1>1, <1>2, <1>3, <1>4, <1>5, <1>6, <1>7, <1>8, <1>9

LEMMA HaltsManifest ==
    ASSUME Halts!TrustedHalts, NEW d \in Halted, Halts!PublishManifest(d)
    PROVE  Halts!TrustedHalts'
<1>1. /\ v6[d] = "manifest" /\ v2' = [v2 EXCEPT ![d] = v8[d]] /\ v6' = [v6 EXCEPT ![d] = "start"]
      /\ UNCHANGED <<v3, v4, v5, v7, v8, v9, v11, v12, v15>>
  BY DEF Halts!PublishManifest, Halts!Goto, Halts!monitor
<1>2. v2' \in [Halted -> Halts!Manifests] /\ v6' \in [Halted -> Halts!Steps]
  <2>1. v8[d] \in Halts!Manifests /\ "start" \in Halts!Steps
    BY HaltsFacts, HaltsTypes DEF Halts!Steps
  <2> QED BY <1>1, <2>1, HaltsFacts
<1>3. Halts!HaltsAreTyped'
  BY <1>1, <1>2, HaltsFacts DEF Halts!HaltsAreTyped, Halts!Manifests, Halts!None, Halts!Verdict,
     Halts!Judged, Halts!Steps, Halts!Resume
<1>4. Halts!ProbedIsPinned'
  BY <1>1 DEF Halts!TrustedHalts, Halts!ProbedIsPinned, Halts!None
<1>5. Halts!RunIsSound(d)'
  <2>1. /\ v6'[d] = "start" /\ v4[d] = 0 /\ v11[d] = "idle" /\ v5[d] # "running" /\ v2'[d] = v8[d]
        /\ Halts!WarmIsObserved(d)
    BY <1>1, HaltsFacts DEF Halts!TrustedHalts, Halts!RunIsSound, Halts!MarkerIsOurs, Halts!MonitorRests,
       Halts!NotPromoted
  <2>2. Halts!WarmIsObserved(d)'
    BY <1>1, <2>1 DEF Halts!WarmIsObserved
  <2> QED BY <1>1, <2>1, <2>2 DEF Halts!RunIsSound, Halts!MarkerIsOurs, Halts!ManifestIsOurs,
         Halts!VerdictsAreOurs, Halts!MonitorRests, Halts!NotPromoted
<1>6. \A e \in Halted : e # d => Halts!RunIsSound(e)'
  BY <1>1, HaltsFacts, HaltsOthersStay
<1> QED BY <1>3, <1>4, <1>5, <1>6 DEF Halts!TrustedHalts

\* Keys that go away: a missing verdict is nobody's word.
LEMMA HaltsKeysGo ==
    ASSUME Halts!TrustedHalts, NEW d \in Halted, UNCHANGED <<v4, v5, v7, v8, v9, v12, v15>>,
           v2' = v2 \/ v2' = [v2 EXCEPT ![d] = Halts!None],
           v3' \in [Halted -> [UNION Universes -> Halts!Verdict]],
           \A f \in UNION Universes : v3'[d][f] = v3[d][f] \/ v3'[d][f] = Halts!Absent,
           \A e \in Halted : e # d => v3'[e] = v3[e],
           \/ v6' = v6 /\ v11' = v11
           \/ v6' = [v6 EXCEPT ![d] = "terminal"] /\ v11' = [v11 EXCEPT ![d] = "idle"]
    PROVE  Halts!TrustedHalts'
<1>1. /\ v2' \in [Halted -> Halts!Manifests] /\ v2'[d] \in {v2[d], Halts!None}
      /\ \A e \in Halted : e # d => v2'[e] = v2[e]
  BY HaltsFacts, HaltsTypes, SMTT(30)
<1>2. /\ v6' \in [Halted -> Halts!Steps] /\ v11' \in [Halted -> {"idle", "fire", "onHalt", "publish", "published"}]
      /\ (v6'[d] = v6[d] /\ v11'[d] = v11[d]) \/ (v6'[d] = "terminal" /\ v11'[d] = "idle")
      /\ \A e \in Halted : e # d => v6'[e] = v6[e] /\ v11'[e] = v11[e]
  <2>1. "terminal" \in Halts!Steps
    BY DEF Halts!Steps
  <2>2. CASE v6' = v6 /\ v11' = v11
    BY <2>2, HaltsFacts
  <2>3. CASE v6' = [v6 EXCEPT ![d] = "terminal"] /\ v11' = [v11 EXCEPT ![d] = "idle"]
    BY <2>1, <2>3, HaltsFacts
  <2> QED BY <2>2, <2>3
<1>3. Halts!HaltsAreTyped'
  BY <1>1, <1>2, HaltsFacts DEF Halts!HaltsAreTyped, Halts!Manifests, Halts!None, Halts!Verdict,
     Halts!Judged, Halts!Steps, Halts!Resume
<1>4. Halts!ProbedIsPinned'
  BY DEF Halts!TrustedHalts, Halts!ProbedIsPinned, Halts!None
<1>5. Halts!RunIsSound(d)'
  <2>1. /\ Halts!MarkerIsOurs(d) /\ Halts!ManifestIsOurs(d) /\ Halts!VerdictsAreOurs(d)
        /\ Halts!WarmIsObserved(d) /\ Halts!MonitorRests(d) /\ Halts!NotPromoted(d)
    BY DEF Halts!TrustedHalts, Halts!RunIsSound
  <2>2. Halts!MarkerIsOurs(d)' /\ Halts!MonitorRests(d)' /\ Halts!NotPromoted(d)'
    BY <1>2, <2>1 DEF Halts!MarkerIsOurs, Halts!MonitorRests, Halts!NotPromoted
  <2>3. Halts!ManifestIsOurs(d)'
    BY <1>1, <1>2, <2>1 DEF Halts!ManifestIsOurs, Halts!None
  <2>4. Halts!VerdictsAreOurs(d)'
    <3> SUFFICES ASSUME v6'[d] \in {"check", "mark", "run"} \/ v11'[d] = "published", NEW f \in v8[d]
                 PROVE  v3'[d][f] = Halts!Absent \/ v3'[d][f].run = v7[d]
      BY DEF Halts!VerdictsAreOurs, Halts!Absent
    <3>1. f \in UNION Universes
      BY HaltsFacts
    <3>2. v3[d][f] = Halts!Absent \/ v3[d][f].run = v7[d]
      BY <1>2, <2>1 DEF Halts!VerdictsAreOurs
    <3> QED BY <3>1, <3>2
  <2>5. Halts!WarmIsObserved(d)'
    <3>1. 0 <= v7[d]
      BY HaltsFacts
    <3>2. v11'[d] \in {"fire", "onHalt", "publish"} => v11'[d] = v11[d]
      BY <1>2
    <3> SUFFICES ASSUME NEW f \in UNION Universes
                 PROVE  /\ v3'[d][f].run <= v7[d]
                        /\ v3'[d][f].run = v7[d] /\ v3'[d][f].is = "warm" => v9[d][f] # "pending"
                        /\ v11'[d] \in {"fire", "onHalt", "publish"} /\ v12[d][f] = "warm" => v9[d][f] # "pending"
      BY DEF Halts!WarmIsObserved
    <3>3. /\ v3[d][f].run <= v7[d]
          /\ v3[d][f].run = v7[d] /\ v3[d][f].is = "warm" => v9[d][f] # "pending"
          /\ v11[d] \in {"fire", "onHalt", "publish"} /\ v12[d][f] = "warm" => v9[d][f] # "pending"
      BY <2>1 DEF Halts!WarmIsObserved
    <3> QED BY <3>1, <3>2, <3>3, HaltsTypes
  <2> QED BY <2>2, <2>3, <2>4, <2>5 DEF Halts!RunIsSound
<1>6. \A e \in Halted : e # d => Halts!RunIsSound(e)'
  BY <1>1, <1>2, HaltsOthersStay
<1> QED BY <1>3, <1>4, <1>5, <1>6 DEF Halts!TrustedHalts

LEMMA HaltsKeySteps ==
    ASSUME Halts!TrustedHalts, NEW d \in Halted, Halts!StopMonitor(d) \/ Halts!Expires(d)
    PROVE  Halts!TrustedHalts'
<1>1. UNCHANGED <<v4, v5, v7, v8, v9, v12, v15>>
  BY DEF Halts!StopMonitor, Halts!Expires, Halts!loop, Halts!monitor
<1>2. v3[d] \in [UNION Universes -> Halts!Verdict]
  BY HaltsFacts
<1>3. CASE Halts!StopMonitor(d)
  <2>1. /\ v2' = v2 /\ v6' = [v6 EXCEPT ![d] = "terminal"] /\ v11' = [v11 EXCEPT ![d] = "idle"]
        /\ \/ v3' = v3
           \/ v3' = [v3 EXCEPT ![d] = [f \in UNION Universes |-> IF f \in v8[d] THEN Halts!Absent ELSE v3[d][f]]]
    BY <1>3 DEF Halts!StopMonitor, Halts!Goto, Halts!Mon
  <2>2. [f \in UNION Universes |-> IF f \in v8[d] THEN Halts!Absent ELSE v3[d][f]] \in [UNION Universes -> Halts!Verdict]
    BY <1>2, HaltsTypes
  <2>3. /\ v3' \in [Halted -> [UNION Universes -> Halts!Verdict]]
        /\ \A f \in UNION Universes : v3'[d][f] = v3[d][f] \/ v3'[d][f] = Halts!Absent
        /\ \A e \in Halted : e # d => v3'[e] = v3[e]
    <3>1. CASE v3' = v3
      BY <3>1, HaltsFacts
    <3>2. CASE v3' = [v3 EXCEPT ![d] = [f \in UNION Universes |-> IF f \in v8[d] THEN Halts!Absent ELSE v3[d][f]]]
      BY <2>2, <3>2, HaltsFacts
    <3> QED BY <2>1, <3>1, <3>2
  <2> QED BY <1>1, <2>1, <2>3, HaltsKeysGo
<1>4. CASE Halts!Expires(d)
  <2>1. /\ v6' = v6 /\ v11' = v11
        /\ \/ v2' = [v2 EXCEPT ![d] = Halts!None] /\ v3' = v3
           \/ v2' = v2 /\ \E f \in UNION Universes : v3' = [v3 EXCEPT ![d][f] = Halts!Absent]
    BY <1>4 DEF Halts!Expires, Halts!loop, Halts!monitor
  <2>2. CASE v3' = v3
    BY <1>1, <2>1, <2>2, HaltsFacts, HaltsKeysGo
  <2>3. CASE v2' = v2 /\ \E f \in UNION Universes : v3' = [v3 EXCEPT ![d][f] = Halts!Absent]
    <3>1. PICK f \in UNION Universes : v3' = [v3 EXCEPT ![d] = [v3[d] EXCEPT ![f] = Halts!Absent]]
      BY <2>3
    <3>2. [v3[d] EXCEPT ![f] = Halts!Absent] \in [UNION Universes -> Halts!Verdict]
      BY <1>2, HaltsTypes
    <3>3. /\ v3' \in [Halted -> [UNION Universes -> Halts!Verdict]]
          /\ \A g \in UNION Universes : v3'[d][g] = v3[d][g] \/ v3'[d][g] = Halts!Absent
          /\ \A e \in Halted : e # d => v3'[e] = v3[e]
      BY <1>2, <3>1, <3>2, HaltsFacts
    <3> QED BY <1>1, <2>1, <2>3, <3>3, HaltsKeysGo
  <2> QED BY <2>1, <2>2, <2>3
<1> QED BY <1>3, <1>4

\* The tick up to the publication: the snapshot is of this run.
LEMMA HaltsTick ==
    ASSUME Halts!TrustedHalts, NEW d \in Halted, Halts!Evaluate(d) \/ Halts!FireHalt(d) \/ Halts!OnHalt(d)
    PROVE  Halts!TrustedHalts'
<1>1. UNCHANGED <<v2, v3, v4, v5, v6, v7, v8, v9, v15>>
  BY DEF Halts!Evaluate, Halts!FireHalt, Halts!OnHalt, Halts!redis, Halts!loop
<1>2. PICK m \in {"fire", "onHalt", "publish"} :
      /\ v11' = [v11 EXCEPT ![d] = m]
      /\ \/ v12' = [v12 EXCEPT ![d] = v9[d]] /\ v6[d] \in {"start", "check", "mark", "run"}
         \/ v12' = v12 /\ v11[d] \in {"fire", "onHalt"}
  <2>1. CASE Halts!Evaluate(d)
    BY <2>1 DEF Halts!Evaluate, Halts!Mon, Halts!Ticking
  <2>2. CASE Halts!FireHalt(d) \/ Halts!OnHalt(d)
    BY <2>2 DEF Halts!FireHalt, Halts!OnHalt, Halts!Mon
  <2> QED BY <2>1, <2>2
<1>3. /\ v11' \in [Halted -> {"idle", "fire", "onHalt", "publish", "published"}] /\ v11'[d] = m
      /\ \A e \in Halted : e # d => v11'[e] = v11[e]
  BY <1>2, HaltsFacts
<1>4. /\ v12' \in [Halted -> [UNION Universes -> Halts!Judged]]
      /\ \A e \in Halted : e # d => v12'[e] = v12[e]
      /\ v12'[d] = v9[d] \/ (v12'[d] = v12[d] /\ v11[d] \in {"fire", "onHalt"})
  BY <1>2, HaltsFacts
<1>5. Halts!HaltsAreTyped'
  BY <1>1, <1>3, <1>4, HaltsFacts DEF Halts!HaltsAreTyped, Halts!Manifests, Halts!None, Halts!Verdict,
     Halts!Judged, Halts!Steps, Halts!Resume
<1>6. Halts!ProbedIsPinned'
  BY <1>1 DEF Halts!TrustedHalts, Halts!ProbedIsPinned, Halts!None
<1>7. Halts!RunIsSound(d)'
  <2>1. /\ Halts!MarkerIsOurs(d) /\ Halts!ManifestIsOurs(d) /\ Halts!VerdictsAreOurs(d)
        /\ Halts!WarmIsObserved(d) /\ Halts!MonitorRests(d) /\ Halts!NotPromoted(d)
    BY DEF Halts!TrustedHalts, Halts!RunIsSound
  <2>2. v6[d] \notin {"off", "clear", "build", "manifest", "terminal"}
    BY <1>2, <2>1 DEF Halts!MonitorRests
  <2>3. Halts!MarkerIsOurs(d)' /\ Halts!ManifestIsOurs(d)' /\ Halts!MonitorRests(d)' /\ Halts!NotPromoted(d)'
    BY <1>1, <2>1, <2>2 DEF Halts!MarkerIsOurs, Halts!ManifestIsOurs, Halts!MonitorRests, Halts!NotPromoted,
       Halts!None
  <2>4. Halts!VerdictsAreOurs(d)'
    BY <1>1, <1>3, <2>1 DEF Halts!VerdictsAreOurs, Halts!Absent
  <2>5. Halts!WarmIsObserved(d)'
    BY <1>1, <1>4, <2>1 DEF Halts!WarmIsObserved
  <2> QED BY <2>3, <2>4, <2>5 DEF Halts!RunIsSound
<1>8. \A e \in Halted : e # d => Halts!RunIsSound(e)'
  BY <1>1, <1>3, <1>4, HaltsOthersStay
<1> QED BY <1>5, <1>6, <1>7, <1>8 DEF Halts!TrustedHalts

\* The publication: every verdict of the required feeds is now this run's.
LEMMA HaltsPublish ==
    ASSUME Halts!TrustedHalts, NEW d \in Halted, Halts!Publish(d)
    PROVE  Halts!TrustedHalts'
<1>1. /\ v11[d] = "publish" /\ UNCHANGED <<v4, v5, v6, v7, v8, v9, v12, v15>>
      /\ v11' = [v11 EXCEPT ![d] = IF v6[d] = "start" THEN "published" ELSE "idle"]
  BY DEF Halts!Publish, Halts!Mon, Halts!loop
<1>2. /\ v11' \in [Halted -> {"idle", "fire", "onHalt", "publish", "published"}]
      /\ v11'[d] = IF v6[d] = "start" THEN "published" ELSE "idle"
      /\ \A e \in Halted : e # d => v11'[e] = v11[e]
  BY <1>1, HaltsFacts
<1>3. /\ v3[d] \in [UNION Universes -> Halts!Verdict] /\ v12[d] \in [UNION Universes -> Halts!Judged]
      /\ v7[d] \in Nat /\ v8[d] \in Halts!Manifests /\ v2[d] \in Halts!Manifests
  BY HaltsFacts, HaltsTypes
<1>4. /\ Halts!MarkerIsOurs(d) /\ Halts!ManifestIsOurs(d) /\ Halts!VerdictsAreOurs(d)
      /\ Halts!WarmIsObserved(d) /\ Halts!MonitorRests(d) /\ Halts!NotPromoted(d)
  BY DEF Halts!TrustedHalts, Halts!RunIsSound
<1>5. CASE UNCHANGED <<v2, v3>> /\ v6[d] # "start"
  <2>1. Halts!HaltsAreTyped'
    BY <1>1, <1>2, <1>5, HaltsFacts DEF Halts!HaltsAreTyped, Halts!Manifests, Halts!None, Halts!Verdict,
       Halts!Judged, Halts!Steps, Halts!Resume
  <2>2. Halts!ProbedIsPinned'
    BY <1>1 DEF Halts!TrustedHalts, Halts!ProbedIsPinned, Halts!None
  <2>3. Halts!RunIsSound(d)'
    BY <1>1, <1>2, <1>4, <1>5 DEF Halts!RunIsSound, Halts!MarkerIsOurs, Halts!ManifestIsOurs,
       Halts!VerdictsAreOurs, Halts!WarmIsObserved, Halts!MonitorRests, Halts!NotPromoted, Halts!None, Halts!Absent
  <2>4. \A e \in Halted : e # d => Halts!RunIsSound(e)'
    BY <1>1, <1>2, <1>5, HaltsOthersStay
  <2> QED BY <2>1, <2>2, <2>3, <2>4 DEF Halts!TrustedHalts
<1>6. CASE /\ v3' = [v3 EXCEPT ![d] = [f \in UNION Universes |->
                       IF f \in v8[d] THEN [is |-> v12[d][f], run |-> v7[d]] ELSE v3[d][f]]]
           /\ v2' = [v2 EXCEPT ![d] = IF v6[d] = "start" THEN v2[d] ELSE v8[d]]
  <2>1. [f \in UNION Universes |-> IF f \in v8[d] THEN [is |-> v12[d][f], run |-> v7[d]] ELSE v3[d][f]]
          \in [UNION Universes -> Halts!Verdict]
    BY <1>3, HaltsTypes
  <2>2. /\ v3' \in [Halted -> [UNION Universes -> Halts!Verdict]] /\ \A e \in Halted : e # d => v3'[e] = v3[e]
        /\ v3'[d] = [f \in UNION Universes |->
                       IF f \in v8[d] THEN [is |-> v12[d][f], run |-> v7[d]] ELSE v3[d][f]]
    BY <1>6, <2>1, HaltsFacts
  <2>3. /\ v2' \in [Halted -> Halts!Manifests] /\ \A e \in Halted : e # d => v2'[e] = v2[e]
        /\ v2'[d] = IF v6[d] = "start" THEN v2[d] ELSE v8[d]
    BY <1>3, <1>6, HaltsFacts
  <2>4. Halts!HaltsAreTyped'
    BY <1>1, <1>2, <2>2, <2>3, HaltsFacts DEF Halts!HaltsAreTyped, Halts!Manifests, Halts!None, Halts!Verdict,
       Halts!Judged, Halts!Steps, Halts!Resume
  <2>5. Halts!ProbedIsPinned'
    BY <1>1 DEF Halts!TrustedHalts, Halts!ProbedIsPinned, Halts!None
  <2>6. Halts!MarkerIsOurs(d)' /\ Halts!MonitorRests(d)' /\ Halts!NotPromoted(d)'
    BY <1>1, <1>2, <1>4 DEF Halts!MarkerIsOurs, Halts!MonitorRests, Halts!NotPromoted
  <2>7. Halts!ManifestIsOurs(d)'
    BY <1>1, <1>4, <2>3 DEF Halts!ManifestIsOurs, Halts!None
  <2>8. \A f \in UNION Universes :
          \/ f \in v8[d] /\ v3'[d][f].run = v7[d] /\ v3'[d][f].is = v12[d][f]
          \/ f \notin v8[d] /\ v3'[d][f] = v3[d][f]
    BY <1>3, <2>2
  <2>9. Halts!VerdictsAreOurs(d)'
    <3>1. \A f \in v8[d] : v3'[d][f].run = v7[d]
      BY <2>8, HaltsFacts
    <3> QED BY <1>1, <3>1 DEF Halts!VerdictsAreOurs
  <2>10. Halts!WarmIsObserved(d)'
    <3> SUFFICES ASSUME NEW f \in UNION Universes
                 PROVE  /\ v3'[d][f].run <= v7[d]
                        /\ v3'[d][f].run = v7[d] /\ v3'[d][f].is = "warm" => v9[d][f] # "pending"
      BY <1>1, <1>2 DEF Halts!WarmIsObserved
    <3>1. /\ v3[d][f].run <= v7[d]
          /\ v3[d][f].run = v7[d] /\ v3[d][f].is = "warm" => v9[d][f] # "pending"
          /\ v12[d][f] = "warm" => v9[d][f] # "pending"
      BY <1>1, <1>4 DEF Halts!WarmIsObserved
    <3> QED BY <1>3, <2>8, <3>1
  <2>11. \A e \in Halted : e # d => Halts!RunIsSound(e)'
    BY <1>1, <1>2, <2>2, <2>3, HaltsOthersStay
  <2> QED BY <2>4, <2>5, <2>6, <2>7, <2>9, <2>10, <2>11 DEF Halts!TrustedHalts, Halts!RunIsSound
<1> QED BY <1>5, <1>6 DEF Halts!Publish, Halts!VerdictOf

\* Steps that leave the runs and the keys alone.
LEMMA HaltsRunsStay ==
    ASSUME Halts!TrustedHalts, UNCHANGED <<v2, v3, v4, v5, v6, v7, v8, v9, v11, v12>>,
           v15' \in Halts!Resume, \A d \in v15'.load \ v15'.todo : v15'.pin[d] # Halts!None
    PROVE  Halts!TrustedHalts'
<1>1. Halts!HaltsAreTyped'
  BY HaltsFacts DEF Halts!HaltsAreTyped, Halts!Manifests, Halts!None, Halts!Verdict,
     Halts!Judged, Halts!Steps, Halts!Resume
<1>2. Halts!ProbedIsPinned'
  BY DEF Halts!ProbedIsPinned, Halts!None
<1>3. \A e \in Halted : Halts!RunIsSound(e)'
  BY HaltsOthersStay
<1> QED BY <1>1, <1>2, <1>3 DEF Halts!TrustedHalts

LEMMA HaltsOperators ==
    ASSUME Halts!TrustedHalts,
           \/ Halts!KillAll \/ Halts!ResumeLoads \/ Halts!ResumeClears
           \/ \E d \in Halted : Halts!SigTerm(d) \/ Halts!ResumeProbes(d)
    PROVE  Halts!TrustedHalts'
<1>1. UNCHANGED <<v2, v3, v4, v5, v6, v7, v8, v9, v11, v12>>
  BY DEF Halts!KillAll, Halts!ResumeLoads, Halts!ResumeClears, Halts!SigTerm, Halts!ResumeProbes,
     Halts!redis, Halts!loop, Halts!monitor
<1>2. /\ v15 \in Halts!Resume /\ \A d \in v15.load \ v15.todo : v15.pin[d] # Halts!None
      /\ v2 \in [Halted -> Halts!Manifests]
  BY HaltsFacts DEF Halts!TrustedHalts, Halts!ProbedIsPinned
<1>3. CASE v15' = v15
  BY <1>1, <1>2, <1>3, HaltsRunsStay
<1>4. CASE v15' = Halts!Idle
  BY <1>1, <1>4, HaltsTypes, HaltsRunsStay
<1>5. CASE Halts!ResumeLoads
  <2>1. PICK load \in SUBSET Halted : v15' = [v15 EXCEPT !.at = "probe", !.load = load, !.todo = load]
    BY <1>5 DEF Halts!ResumeLoads
  <2>2. v15' \in Halts!Resume /\ v15'.load = load /\ v15'.todo = load
    BY <1>2, <2>1 DEF Halts!Resume
  <2> QED BY <1>1, <2>2, HaltsRunsStay
<1>6. CASE \E d \in Halted : v2[d] # Halts!None /\ v15' = [v15 EXCEPT !.todo = @ \ {d}, !.pin[d] = v2[d]]
  <2>1. PICK d \in Halted : v2[d] # Halts!None /\ v15' = [v15 EXCEPT !.todo = @ \ {d}, !.pin[d] = v2[d]]
    BY <1>6
  <2>2. v15.pin \in [Halted -> Halts!Manifests] /\ v15.load \subseteq Halted /\ v15.todo \subseteq Halted
    BY <1>2 DEF Halts!Resume
  <2>3. [v15.pin EXCEPT ![d] = v2[d]] \in [Halted -> Halts!Manifests] /\ v15.todo \ {d} \subseteq Halted
    BY <1>2, <2>2
  <2>4. /\ v15' \in Halts!Resume /\ v15'.load = v15.load /\ v15'.todo = v15.todo \ {d}
        /\ v15'.pin = [v15.pin EXCEPT ![d] = v2[d]]
    BY <1>2, <2>1, <2>3 DEF Halts!Resume
  <2>5. \A e \in v15'.load \ v15'.todo : v15'.pin[e] # Halts!None
    BY <1>2, <2>1, <2>2, <2>4
  <2> QED BY <1>1, <2>4, <2>5, HaltsRunsStay
<1> QED
  <2>1. CASE Halts!KillAll \/ \E d \in Halted : Halts!SigTerm(d)
    BY <1>3, <2>1 DEF Halts!KillAll, Halts!SigTerm
  <2>2. CASE Halts!ResumeClears
    BY <1>4, <2>2 DEF Halts!ResumeClears
  <2>3. CASE \E d \in Halted : Halts!ResumeProbes(d)
    BY <1>4, <1>6, <2>3 DEF Halts!ResumeProbes
  <2> QED BY <1>5, <2>1, <2>2, <2>3

LEMMA HaltsNext ==
    ASSUME Halts!TrustedHalts, Halts!Next
    PROVE  Halts!TrustedHalts'
<1>1. ASSUME NEW d \in Halted, Halts!RunLoop(d) PROVE Halts!TrustedHalts'
  BY <1>1, HaltsLoopSteps, HaltsManifest, HaltsKeySteps DEF Halts!RunLoop
<1>2. ASSUME NEW d \in Halted, Halts!MonitorStep(d) PROVE Halts!TrustedHalts'
  BY <1>2, HaltsTick, HaltsPublish DEF Halts!MonitorStep
<1>3. ASSUME NEW d \in Halted,
             \/ Halts!ResumeProbes(d) \/ Halts!Spawn(d) \/ Halts!SigTerm(d) \/ Halts!RunLoopRaises(d)
             \/ Halts!Crash(d) \/ Halts!Reaped(d) \/ Halts!Expires(d)
      PROVE  Halts!TrustedHalts'
  BY <1>3, HaltsOperators, HaltsSpawn, HaltsLoopSteps, HaltsKeySteps
<1>4. ASSUME NEW d \in Halted, NEW f \in UNION Universes, Halts!FeedArrives(d, f) \/ Halts!FeedStalls(d, f)
      PROVE  Halts!TrustedHalts'
  BY <1>4, HaltsFeed
<1>5. ASSUME Halts!KillAll \/ Halts!ResumeLoads \/ Halts!ResumeClears PROVE Halts!TrustedHalts'
  BY <1>5, HaltsOperators
<1> QED BY <1>1, <1>2, <1>3, <1>4, <1>5 DEF Halts!Next

\* Only /resume clears the latch, and what it has re-checked is this run's.
LEMMA HaltsClearedByThisRun ==
    ASSUME Halts!TrustedHalts, Halts!Next
    PROVE  Halts!ResumeTrustsThisRun
<1> SUFFICES ASSUME NEW d \in v15.load, v1, ~v1', Halts!Up(d)
             PROVE  /\ v4[d] = v7[d]
                    /\ \A f \in v8[d] : v3[d][f] = [is |-> "warm", run |-> v7[d]] /\ v9[d][f] # "pending"
  BY DEF Halts!ResumeTrustsThisRun
<1>1. Halts!ResumeClears
  BY ZenonT(60) DEF Halts!Next, Halts!RunLoop, Halts!MonitorStep, Halts!ClearMarker, Halts!Build, Halts!PublishManifest,
     Halts!StartReturns, Halts!MarkRunning, Halts!MarkReconciled, Halts!NodeStopped, Halts!StopMonitor,
     Halts!MarkTerminal, Halts!Evaluate, Halts!FireHalt, Halts!OnHalt, Halts!Publish, Halts!ResumeProbes,
     Halts!Spawn, Halts!SigTerm, Halts!RunLoopRaises, Halts!Crash, Halts!Reaped, Halts!Expires,
     Halts!FeedArrives, Halts!FeedStalls, Halts!KillAll, Halts!ResumeLoads
<1>2. v15.todo = {} /\ Halts!StillPasses(d)
  BY <1>1 DEF Halts!ResumeClears
<1>3. d \in Halted /\ v15.pin[d] # Halts!None
  BY <1>2, HaltsFacts DEF Halts!TrustedHalts, Halts!ProbedIsPinned, Halts!Resume
<1>4. v2[d] = v15.pin[d] /\ v4[d] # 0 /\ \A f \in v2[d] : v3[d][f].is = "warm"
  BY <1>2 DEF Halts!StillPasses, Halts!Passes
<1>5. Halts!MarkerIsOurs(d) /\ Halts!ManifestIsOurs(d) /\ Halts!VerdictsAreOurs(d) /\ Halts!WarmIsObserved(d)
  BY <1>3 DEF Halts!TrustedHalts, Halts!RunIsSound
<1>6. v6[d] = "run" /\ v4[d] = v7[d]
  BY <1>4, <1>5 DEF Halts!MarkerIsOurs, Halts!Up
<1>7. v2[d] = v8[d]
  BY <1>3, <1>4, <1>5, <1>6 DEF Halts!ManifestIsOurs
<1>8. ASSUME NEW f \in v8[d] PROVE v3[d][f] = [is |-> "warm", run |-> v7[d]] /\ v9[d][f] # "pending"
  <2>1. f \in UNION Universes /\ v3[d][f] \in Halts!Verdict
    BY <1>3, HaltsFacts
  <2>2. v3[d][f].is = "warm"
    BY <1>4, <1>7
  <2>3. v3[d][f].run = v7[d]
    BY <1>5, <1>6, <2>2, HaltsTypes DEF Halts!VerdictsAreOurs
  <2>4. v9[d][f] # "pending"
    BY <1>5, <2>1, <2>2, <2>3 DEF Halts!WarmIsObserved
  <2> QED BY <2>1, <2>2, <2>3, <2>4 DEF Halts!Verdict
<1> QED BY <1>6, <1>8

\* A node that was shut down while it started leaves the checkpoint for its teardown.
LEMMA HaltsNotPromoted ==
    ASSUME Halts!TrustedHalts, Halts!Next
    PROVE  Halts!HaltedAtStartIsNotPromoted
<1> SUFFICES ASSUME NEW d \in Halted, v6[d] = "check", v10[d], v6'[d] # v6[d]
             PROVE  v5'[d] # "running" /\ v6'[d] # "mark"
  BY DEF Halts!HaltedAtStartIsNotPromoted
<1>1. v5[d] # "running" /\ v6 \in [Halted -> Halts!Steps]
  BY HaltsFacts DEF Halts!TrustedHalts, Halts!RunIsSound, Halts!NotPromoted
<1>2. ASSUME NEW e \in Halted, NEW p, v6' = [v6 EXCEPT ![e] = p] PROVE e = d
  BY <1>1, <1>2
<1>3. ASSUME NEW e \in Halted, Halts!RunLoop(e)
      PROVE  v5'[d] # "running" /\ v6'[d] # "mark"
  <2>1. e = d
    BY <1>2, <1>3 DEF Halts!RunLoop, Halts!ClearMarker, Halts!Build, Halts!PublishManifest, Halts!StartReturns,
       Halts!MarkRunning, Halts!MarkReconciled, Halts!NodeStopped, Halts!StopMonitor, Halts!MarkTerminal, Halts!Goto
  <2>2. Halts!MarkRunning(d)
    BY <1>3, <2>1 DEF Halts!RunLoop, Halts!ClearMarker, Halts!Build, Halts!PublishManifest, Halts!StartReturns,
       Halts!MarkReconciled, Halts!NodeStopped, Halts!StopMonitor, Halts!MarkTerminal
  <2> QED BY <1>1, <2>2 DEF Halts!MarkRunning, Halts!Goto
<1>4. ASSUME NEW e \in Halted, Halts!Spawn(e) \/ Halts!RunLoopRaises(e) \/ Halts!Crash(e)
      PROVE  v5'[d] # "running" /\ v6'[d] # "mark"
  <2>1. e = d
    BY <1>2, <1>4 DEF Halts!Spawn, Halts!RunLoopRaises, Halts!Crash, Halts!Goto
  <2>2. Halts!Crash(d)
    BY <1>4, <2>1 DEF Halts!Spawn, Halts!RunLoopRaises
  <2> QED BY <1>1, <2>2 DEF Halts!Crash, Halts!Goto
<1>5. ASSUME NEW e \in Halted,
             Halts!MonitorStep(e) \/ Halts!ResumeProbes(e) \/ Halts!SigTerm(e) \/ Halts!Reaped(e) \/ Halts!Expires(e)
      PROVE  FALSE
  BY <1>5 DEF Halts!MonitorStep, Halts!Evaluate, Halts!FireHalt, Halts!OnHalt, Halts!Publish, Halts!ResumeProbes,
     Halts!SigTerm, Halts!Reaped, Halts!Expires, Halts!loop
<1>6. ASSUME NEW e \in Halted, NEW f \in UNION Universes, Halts!FeedArrives(e, f) \/ Halts!FeedStalls(e, f)
      PROVE  FALSE
  BY <1>6 DEF Halts!FeedArrives, Halts!FeedStalls, Halts!loop
<1>7. ASSUME Halts!KillAll \/ Halts!ResumeLoads \/ Halts!ResumeClears PROVE FALSE
  BY <1>7 DEF Halts!KillAll, Halts!ResumeLoads, Halts!ResumeClears, Halts!loop
<1> QED BY <1>3, <1>4, <1>5, <1>6, <1>7 DEF Halts!Next

LEMMA HaltsInvariant == Spec => [](part = "Halts" => Halts!TrustedHalts)
<1> DEFINE Inv == part = "Halts" => Halts!TrustedHalts
<1>1. Init => Inv
  BY HaltsStart DEF Init
<1>2. Inv /\ [Next]_pool => Inv'
  <2> SUFFICES ASSUME Inv, [Next]_pool, part' = "Halts" PROVE Halts!TrustedHalts'
    OBVIOUS
  <2>1. CASE UNCHANGED pool
    <3>1. part = "Halts" /\ UNCHANGED <<v2, v3, v4, v5, v6, v7, v8, v9, v11, v12, v15>>
      BY <2>1 DEF pool, Rest4, Rest5, Rest6, Rest7, Rest8, Rest9, Rest10, Rest11, Rest12, Rest13, Rest14, Rest15
    <3>2. v15' \in Halts!Resume /\ \A d \in v15'.load \ v15'.todo : v15'.pin[d] # Halts!None
      BY <3>1, HaltsFacts DEF Halts!TrustedHalts, Halts!ProbedIsPinned
    <3> QED BY <3>1, <3>2, HaltsRunsStay
  <2>2. CASE Next
    BY <2>2, HaltsNext DEF Next
  <2> QED BY <2>1, <2>2
<1> QED BY <1>1, <1>2, PTL DEF Spec

\* Any deployments, feeds, universes, runs, faults and crashes: a /resume clears the latch only on
\* the marker, the manifest and the warm verdicts of the present run of every node that is up, and
\* a node that its monitor shut down while it started is not promoted.
THEOREM ResumeAlwaysTrustsThisRun == Spec => ResumeTrustsThisRun
<1> DEFINE Inv == part = "Halts" => Halts!TrustedHalts
           Act == part = "Halts" => Halts!ResumeTrustsThisRun /\ Halts!HaltedAtStartIsNotPromoted
<1>1. Inv /\ [Next]_pool => [Act]_pool
  BY HaltsClearedByThisRun, HaltsNotPromoted DEF Next
<1> QED BY <1>1, HaltsInvariant, PTL DEF Spec, ResumeTrustsThisRun
-----------------------------------------------------------------------------
(* LockOrder.  v1: tx, v2: holder, v3: starting, v4: begun.                  *)

Increases(f, n) == \A i, j \in 1..n : i < j => f[i] < f[j]

LEMMA SortedOfSize ==
    ASSUME NEW n \in Nat
    PROVE  \A S \in SUBSET Nat : IsFiniteSet(S) /\ Cardinality(S) = n
              => \E f \in [1..n -> S] : Increases(f, n)
<1> DEFINE Good(k) == \A S \in SUBSET Nat : IsFiniteSet(S) /\ Cardinality(S) = k
                                              => \E f \in [1..k -> S] : Increases(f, k)
           Bad == {k \in Nat : ~Good(k)}
<1>1. Good(0)
  <2> SUFFICES ASSUME NEW S \in SUBSET Nat PROVE \E f \in [1..0 -> S] : Increases(f, 0)
    OBVIOUS
  <2>1. [i \in 1..0 |-> i] \in [1..0 -> S]
    OBVIOUS
  <2> QED BY <2>1 DEF Increases
<1>2. ASSUME NEW k \in Nat, Good(k) PROVE Good(k + 1)
  <2> SUFFICES ASSUME NEW S \in SUBSET Nat, IsFiniteSet(S), Cardinality(S) = k + 1
               PROVE  \E f \in [1..(k + 1) -> S] : Increases(f, k + 1)
    OBVIOUS
  <2>1. S # {}
    BY FS_EmptySet
  <2>2. PICK m \in S : \A x \in S : m <= x
    BY <2>1, LeastNatural
  <2>3. IsFiniteSet(S \ {m}) /\ Cardinality(S \ {m}) = k
    BY FS_RemoveElement
  <2>4. PICK g \in [1..k -> S \ {m}] : Increases(g, k)
    BY <1>2, <2>3
  <2> DEFINE f == [i \in 1..(k + 1) |-> IF i = 1 THEN m ELSE g[i - 1]]
  <2>5. \A i \in 1..(k + 1) : i # 1 => i - 1 \in 1..k /\ g[i - 1] \in S /\ g[i - 1] # m
    BY <2>4
  <2>6. f \in [1..(k + 1) -> S]
    BY <2>5
  <2>7. Increases(f, k + 1)
    <3> SUFFICES ASSUME NEW i \in 1..(k + 1), NEW j \in 1..(k + 1), i < j PROVE f[i] < f[j]
      BY DEF Increases
    <3>1. j # 1 /\ f[j] = g[j - 1]
      OBVIOUS
    <3>2. CASE i = 1
      <4>1. g[j - 1] \in S /\ g[j - 1] # m
        BY <2>5, <3>1
      <4>2. m <= g[j - 1] /\ m \in Nat /\ g[j - 1] \in Nat
        BY <2>2, <4>1
      <4>3. f[i] = m
        BY <3>2
      <4> QED BY <3>1, <4>1, <4>2, <4>3
    <3>3. CASE i # 1
      <4>1. i - 1 \in 1..k /\ j - 1 \in 1..k /\ i - 1 < j - 1
        BY <3>1, <3>3
      <4> QED BY <2>4, <3>1, <3>3, <4>1 DEF Increases
    <3> QED BY <3>2, <3>3
  <2> QED BY <2>6, <2>7
<1> HIDE DEF Good
<1>3. Bad = {}
  <2> SUFFICES ASSUME Bad # {} PROVE FALSE
    OBVIOUS
  <2>1. PICK m \in Bad : \A k \in Bad : m <= k
    BY LeastNatural
  <2>2. m # 0
    BY <1>1, <2>1
  <2>3. m - 1 \in Nat /\ m - 1 \notin Bad
    BY <2>1, <2>2
  <2> QED BY <1>2, <2>1, <2>3
<1> QED BY <1>3 DEF Good

LEMMA LockCounts ==
    \A S : Locks!Cardinality(S) = Cardinality(S)
  BY Zenon DEF Locks!Cardinality, Cardinality

\* Every set of deployments has its ascending enumeration.
LEMMA SweepOrder ==
    ASSUME NEW S \in SUBSET Deps
    PROVE  /\ IsFiniteSet(S) /\ Cardinality(S) \in Nat
           /\ Locks!ById(S) \in [1..Cardinality(S) -> S]
           /\ Increases(Locks!ById(S), Cardinality(S))
           /\ \A d \in S : \E i \in 1..Cardinality(S) : Locks!ById(S)[i] = d
<1> DEFINE n == Cardinality(S)
           f == Locks!ById(S)
<1>1. S \in SUBSET Nat /\ IsFiniteSet(S) /\ n \in Nat
  BY LockAssumption, FS_Subset, FS_CardinalityType
<1>2. f \in [1..n -> S] /\ Increases(f, n)
  <2>1. f = CHOOSE g \in [1..n -> S] : \A i, j \in 1..n : i < j => g[i] < g[j]
    BY LockCounts DEF Locks!ById
  <2>2. \E g \in [1..n -> S] : Increases(g, n)
    BY <1>1, SortedOfSize
  <2> QED BY <2>1, <2>2 DEF Increases
<1>3. f \in Injection(1..n, S)
  <2>1. \A i, j \in 1..n : f[i] = f[j] => i = j
    <3> SUFFICES ASSUME NEW i \in 1..n, NEW j \in 1..n, f[i] = f[j], i # j PROVE FALSE
      OBVIOUS
    <3> HIDE DEF f, n
    <3>1. f[i] \in S /\ f[j] \in S
      BY <1>2
    <3>2. f[i] \in Nat /\ f[j] \in Nat
      BY <1>1, <3>1
    <3>3. i < j \/ j < i
      BY <1>1
    <3> QED BY <1>2, <3>2, <3>3 DEF Increases
  <2> QED BY <1>2, <2>1 DEF Injection, IsInjective
<1>4. Cardinality(1..n) = n
  BY <1>1, FS_Interval
<1>5. f \in Surjection(1..n, S)
  BY <1>1, <1>3, <1>4, FS_Injection
<1> QED BY <1>1, <1>2, <1>5 DEF Surjection

LEMMA LastDeployment == \E last \in Nat : \A d \in Deps : d \in Nat /\ d <= last
<1> DEFINE n == Cardinality(Deps)
           f == Locks!ById(Deps)
<1>1. /\ n \in Nat /\ f \in [1..n -> Deps] /\ Increases(f, n)
      /\ \A d \in Deps : \E i \in 1..n : f[i] = d
  BY SweepOrder
<1> HIDE DEF f, n
<1>2. CASE n = 0
  BY <1>1, <1>2
<1>3. CASE n # 0
  <2>1. n \in 1..n /\ f[n] \in Deps /\ f[n] \in Nat
    <3>1. n \in 1..n
      BY <1>1, <1>3
    <3>2. f[n] \in Deps
      BY <1>1, <3>1
    <3> QED BY <3>1, <3>2, LockAssumption
  <2>2. ASSUME NEW d \in Deps PROVE d \in Nat /\ d <= f[n]
    <3>1. PICK i \in 1..n : f[i] = d
      BY <1>1
    <3>2. d \in Nat /\ (i = n \/ i < n)
      BY <1>1, LockAssumption
    <3> QED BY <1>1, <2>1, <3>1, <3>2 DEF Increases
  <2> QED BY <2>1, <2>2
<1> QED BY <1>2, <1>3

\* What the levels rest on: no deployment is beyond last, and the requests agree.
Ranked(last, after) ==
    /\ last \in Nat /\ \A d \in Deps : d \in Nat /\ d <= last
    /\ Locks!LinkOrdersAgree(after)

LEMMA LockNames ==
    /\ \A d : /\ Locks!Dep(d) = <<"deployment", d>> /\ Locks!Node(d) = <<"node", d>>
              /\ Locks!Adv(d) = <<"advisory", d>> /\ Locks!Cand(d) = <<"candidate", d>>
    /\ Locks!Rev = <<"revision", 0>> /\ Locks!Acct = <<"account", 0>>
    /\ \A d \in Deps : /\ Locks!Dep(d) \in Locks!Locks /\ Locks!Node(d) \in Locks!Locks
                       /\ Locks!Adv(Gateway[d]) \in Locks!Locks
    /\ \A c \in Locks!Candidates : Locks!Cand(c) \in Locks!Locks
    /\ Locks!Rev \in Locks!Locks /\ Locks!Acct \in Locks!Locks
  BY DEF Locks!Dep, Locks!Node, Locks!Adv, Locks!Cand, Locks!Rev, Locks!Acct, Locks!Locks,
     Locks!Candidates

LEMMA LockLevels ==
    ASSUME NEW last, NEW after, Ranked(last, after)
    PROVE  /\ \A d : Locks!Level(Locks!Node(d), last, after) = 0
           /\ \A d : Locks!Level(Locks!Dep(d), last, after) = 1 + last - d
           /\ \A g : Locks!Level(Locks!Adv(g), last, after) = last + 2
           /\ \A c : Locks!Level(Locks!Cand(c), last, after) = after[c]
           /\ Locks!Level(Locks!Acct, last, after) = last + 2
           /\ Locks!Level(Locks!Rev, last, after) = last + 3
           /\ \A l \in Locks!Locks : Locks!Level(l, last, after) \in Nat
<1>1. /\ \A d : Locks!Level(Locks!Node(d), last, after) = 0
      /\ \A d : Locks!Level(Locks!Dep(d), last, after) = 1 + last - d
      /\ \A g : Locks!Level(Locks!Adv(g), last, after) = last + 2
      /\ \A c : Locks!Level(Locks!Cand(c), last, after) = after[c]
      /\ Locks!Level(Locks!Acct, last, after) = last + 2
      /\ Locks!Level(Locks!Rev, last, after) = last + 3
  BY DEF Locks!Level, Locks!Dep, Locks!Node, Locks!Adv, Locks!Cand, Locks!Rev, Locks!Acct
<1>2. \A c \in Locks!Candidates : after[c] \in Nat
  BY DEF Ranked, Locks!LinkOrdersAgree
<1>3. \A d \in Deps : 1 + last - d \in Nat
  BY DEF Ranked
<1>4. last + 2 \in Nat /\ last + 3 \in Nat
  BY DEF Ranked
<1>5. ASSUME NEW l \in Locks!Locks PROVE Locks!Level(l, last, after) \in Nat
  <2>1. \/ \E d \in Deps : l = Locks!Adv(Gateway[d]) \/ l = Locks!Dep(d) \/ l = Locks!Node(d)
        \/ l = Locks!Rev \/ l = Locks!Acct
        \/ \E c \in Locks!Candidates : l = Locks!Cand(c)
    BY DEF Locks!Locks, Locks!Candidates
  <2> QED BY <1>1, <1>2, <1>3, <1>4, <2>1
<1> QED BY <1>1, <1>5

\* A transaction may begin with these locks.
Fit(path, deps, todo, last, after) ==
    /\ todo \in Seq(SUBSET Locks!Locks)
    /\ \A k \in DOMAIN todo :
         /\ todo[k] # {}
         /\ \/ \E l \in Locks!Locks : todo[k] = {l}
            \/ path = "sweep" /\ todo[k] = {Locks!Node(d) : d \in deps}
    /\ \A i, j \in DOMAIN todo : i < j =>
         \A x \in todo[i], y \in todo[j] : Locks!Level(x, last, after) > Locks!Level(y, last, after)
    /\ path = "sweep" => \A d \in deps : \E k \in DOMAIN todo : todo[k] = {Locks!Dep(d)}
    /\ path = "phaseA" => \A d \in deps : \E k \in DOMAIN todo : todo[k] = {Locks!Adv(Gateway[d])}

LEMMA OneLock ==
    ASSUME NEW last, NEW after, NEW l \in Locks!Locks, NEW path, NEW deps, path \notin {"sweep", "phaseA"}
    PROVE  Fit(path, deps, <<{l}>>, last, after)
  BY DEF Fit

LEMMA TwoLocks ==
    ASSUME NEW last, NEW after, NEW l \in Locks!Locks, NEW m \in Locks!Locks, NEW path, NEW deps,
           path # "sweep", Locks!Level(l, last, after) > Locks!Level(m, last, after),
           path = "phaseA" => \A d \in deps : l = Locks!Adv(Gateway[d])
    PROVE  Fit(path, deps, <<{l}, {m}>>, last, after)
<1> DEFINE todo == <<{l}, {m}>>
<1>1. todo \in Seq(SUBSET Locks!Locks) /\ DOMAIN todo = 1..2 /\ todo[1] = {l} /\ todo[2] = {m}
  OBVIOUS
<1> HIDE DEF todo
<1>2. \A i, j \in 1..2 : i < j => i = 1 /\ j = 2
  OBVIOUS
<1>3. \A k \in DOMAIN todo : todo[k] # {} /\ \E n \in Locks!Locks : todo[k] = {n}
  BY <1>1
<1>4. \A i, j \in DOMAIN todo : i < j =>
         \A x \in todo[i], y \in todo[j] : Locks!Level(x, last, after) > Locks!Level(y, last, after)
  BY <1>1, <1>2
<1>5. path = "phaseA" => \A d \in deps : todo[1] = {Locks!Adv(Gateway[d])} /\ 1 \in DOMAIN todo
  BY <1>1
<1>6. Fit(path, deps, todo, last, after)
  BY <1>1, <1>3, <1>4, <1>5 DEF Fit
<1> QED BY <1>6 DEF todo

LEMMA StartFits ==
    ASSUME NEW last, NEW after, Ranked(last, after), NEW d \in Deps
    PROVE  Fit("start", {d}, Locks!StartLocks(d), last, after)
<1> DEFINE todo == Locks!StartLocks(d)
<1>1. /\ todo \in Seq(SUBSET Locks!Locks) /\ DOMAIN todo = 1..3
      /\ todo[1] = {Locks!Rev} /\ todo[2] = {Locks!Acct} /\ todo[3] = {Locks!Dep(d)}
  BY LockNames DEF Locks!StartLocks
<1>2. /\ Locks!Level(Locks!Rev, last, after) = last + 3 /\ Locks!Level(Locks!Acct, last, after) = last + 2
      /\ Locks!Level(Locks!Dep(d), last, after) = 1 + last - d /\ d \in Nat /\ last \in Nat
  BY LockLevels DEF Ranked
<1> HIDE DEF todo
<1>3. \A i, j \in 1..3 : i < j => (i = 1 /\ j = 2) \/ (i = 1 /\ j = 3) \/ (i = 2 /\ j = 3)
  OBVIOUS
<1>4. ASSUME NEW k \in DOMAIN todo PROVE todo[k] # {} /\ \E n \in Locks!Locks : todo[k] = {n}
  <2>1. k = 1 \/ k = 2 \/ k = 3
    BY <1>1, <1>4
  <2>2. Locks!Rev \in Locks!Locks /\ Locks!Acct \in Locks!Locks /\ Locks!Dep(d) \in Locks!Locks
    BY LockNames
  <2> QED BY <1>1, <2>1, <2>2
<1>5. \A i, j \in DOMAIN todo : i < j =>
         \A x \in todo[i], y \in todo[j] : Locks!Level(x, last, after) > Locks!Level(y, last, after)
  BY <1>1, <1>2, <1>3
<1> QED BY <1>1, <1>4, <1>5 DEF Fit, todo

LEMMA LinkFits ==
    ASSUME NEW last, NEW after, Ranked(last, after), NEW o \in LinkOrders
    PROVE  Fit("link", {}, Locks!LinkLocks(o), last, after)
<1> DEFINE todo == Locks!LinkLocks(o)
<1>1. o \in Seq({o[i] : i \in DOMAIN o}) /\ DOMAIN o = 1..Len(o) /\ Len(o) \in Nat
  BY LockAssumption
<1>2. \A i \in DOMAIN o : o[i] \in Locks!Candidates
  BY DEF Locks!Candidates, Locks!Range
<1>3. DOMAIN todo = DOMAIN o /\ \A i \in DOMAIN o : todo[i] = {Locks!Cand(o[i])}
  BY <1>1 DEF Locks!LinkLocks
<1>4. \A i \in DOMAIN o : {Locks!Cand(o[i])} \in SUBSET Locks!Locks
  BY <1>2, LockNames
<1>5. todo \in Seq(SUBSET Locks!Locks)
  <2>1. todo \in [1..Len(o) -> SUBSET Locks!Locks]
    BY <1>1, <1>4 DEF Locks!LinkLocks
  <2> QED BY <1>1, <2>1
<1> HIDE DEF todo
<1>6. ASSUME NEW k \in DOMAIN todo PROVE todo[k] # {} /\ \E n \in Locks!Locks : todo[k] = {n}
  <2>1. k \in DOMAIN o /\ todo[k] = {Locks!Cand(o[k])}
    BY <1>3
  <2>2. Locks!Cand(o[k]) \in Locks!Locks
    BY <1>2, <2>1, LockNames
  <2> QED BY <2>1, <2>2
<1>7. ASSUME NEW i \in DOMAIN todo, NEW j \in DOMAIN todo, i < j, NEW x \in todo[i], NEW y \in todo[j]
      PROVE  Locks!Level(x, last, after) > Locks!Level(y, last, after)
  <2>1. x = Locks!Cand(o[i]) /\ y = Locks!Cand(o[j])
    BY <1>3, <1>7
  <2>2. after[o[i]] > after[o[j]]
    BY <1>3, <1>7 DEF Ranked, Locks!LinkOrdersAgree
  <2> QED BY <2>1, <2>2, LockLevels
<1> QED BY <1>5, <1>6, <1>7 DEF Fit, todo

LEMMA SweepFits ==
    ASSUME NEW last, NEW after, Ranked(last, after), NEW S \in SUBSET Deps, S # {}
    PROVE  Fit("sweep", S, Locks!SweepLocks(S), last, after)
<1> DEFINE n == Cardinality(S)
           f == Locks!ById(S)
           nodes == {Locks!Node(d) : d \in S}
           todo == Locks!SweepLocks(S)
<1>1. /\ n \in Nat /\ f \in [1..n -> S] /\ Increases(f, n)
      /\ \A d \in S : \E i \in 1..n : f[i] = d
  BY SweepOrder
<1> DEFINE first == [i \in 1..n |-> {Locks!Dep(f[i])}]
<1>2. todo = first \o <<nodes>>
  BY LockCounts DEF Locks!SweepLocks, Locks!DepsById
<1>3. nodes \in SUBSET Locks!Locks /\ nodes # {}
  BY LockNames
<1> HIDE DEF f, n, nodes, todo
<1>4. first \in Seq(SUBSET Locks!Locks) /\ Len(first) = n
  <2>1. \A i \in 1..n : {Locks!Dep(f[i])} \in SUBSET Locks!Locks
    BY <1>1, LockNames
  <2>2. first \in [1..n -> SUBSET Locks!Locks]
    BY <2>1
  <2> QED BY <1>1, <2>2
<1>5. /\ todo \in Seq(SUBSET Locks!Locks) /\ DOMAIN todo = 1..(n + 1) /\ todo[n + 1] = nodes
      /\ \A i \in 1..n : todo[i] = {Locks!Dep(f[i])}
  BY <1>1, <1>2, <1>3, <1>4
<1> HIDE DEF first
<1>6. \A i \in 1..(n + 1) : i \in 1..n \/ i = n + 1
  BY <1>1
<1>7. \A k \in DOMAIN todo : /\ todo[k] # {}
                             /\ (\E l \in Locks!Locks : todo[k] = {l}) \/ todo[k] = nodes
  <2> SUFFICES ASSUME NEW k \in 1..(n + 1)
               PROVE  todo[k] # {} /\ ((\E l \in Locks!Locks : todo[k] = {l}) \/ todo[k] = nodes)
    BY <1>5
  <2>1. CASE k \in 1..n
    <3>1. Locks!Dep(f[k]) \in Locks!Locks
      BY <1>1, <2>1, LockNames
    <3> QED BY <1>5, <2>1, <3>1
  <2>2. CASE k = n + 1
    BY <1>3, <1>5, <2>2
  <2> QED BY <1>6, <2>1, <2>2
<1>8. ASSUME NEW i \in DOMAIN todo, NEW j \in DOMAIN todo, i < j, NEW x \in todo[i], NEW y \in todo[j]
      PROVE  Locks!Level(x, last, after) > Locks!Level(y, last, after)
  <2>1. i \in 1..n
    BY <1>1, <1>5, <1>8
  <2>2. x = Locks!Dep(f[i]) /\ f[i] \in Deps
    BY <1>1, <1>5, <1>8, <2>1
  <2>3. f[i] \in Nat /\ f[i] <= last /\ last \in Nat
    BY <2>2 DEF Ranked
  <2>4. CASE j \in 1..n
    <3>1. y = Locks!Dep(f[j]) /\ f[j] \in Deps /\ f[i] < f[j]
      BY <1>1, <1>5, <1>8, <2>1, <2>4 DEF Increases
    <3>2. f[j] \in Nat
      BY <3>1 DEF Ranked
    <3> QED BY <2>2, <2>3, <3>1, <3>2, LockLevels
  <2>5. CASE j = n + 1
    <3>1. Locks!Level(y, last, after) = 0
      BY <1>5, <1>8, <2>5, LockLevels DEF nodes
    <3> QED BY <2>2, <2>3, <3>1, LockLevels
  <2> QED BY <1>5, <1>6, <2>4, <2>5
<1>9. \A d \in S : \E k \in DOMAIN todo : todo[k] = {Locks!Dep(d)}
  <2> SUFFICES ASSUME NEW d \in S PROVE \E k \in DOMAIN todo : todo[k] = {Locks!Dep(d)}
    OBVIOUS
  <2>1. PICK i \in 1..n : f[i] = d
    BY <1>1
  <2> QED BY <1>1, <1>5, <2>1
<1>10. Fit("sweep", S, todo, last, after)
  BY <1>5, <1>7, <1>8, <1>9 DEF Fit, nodes
<1> QED BY <1>10 DEF todo

TxType == [path : Locks!Paths, deps : SUBSET Deps, todo : Seq(SUBSET Locks!Locks), ok : BOOLEAN]

LEMMA TxTyped ==
    ASSUME NEW last, NEW after, Locks!SoundLocks(last, after), NEW t \in Txns
    PROVE  /\ v1 \in [Txns -> TxType] /\ v1[t] \in TxType /\ Locks!TxIsSound(t, last, after)
           /\ v1[t].todo \in Seq(SUBSET Locks!Locks) /\ v1[t].deps \in SUBSET Deps
  BY DEF Locks!SoundLocks, TxType

\* Another transaction is left alone by a step that changes none of its locks.
LEMMA OtherTx ==
    ASSUME NEW last, NEW after, NEW u \in Txns, Locks!TxIsSound(u, last, after), v1'[u] = v1[u],
           \A l : (l \in Locks!Held /\ v2[l] = u) <=> (l \in Locks!Held' /\ v2'[l] = u),
           Locks!GuardHolds(u)'
    PROVE  Locks!TxIsSound(u, last, after)'
<1>1. Locks!Own(u)' = Locks!Own(u)
  BY DEF Locks!Own
<1>2. Locks!Wants(u)' = Locks!Wants(u)
  BY DEF Locks!Wants
<1>3. Locks!StepsAreSmall(u)' /\ Locks!Descends(u, last, after)' /\ Locks!FirmIsHeld(u)'
  <2>1. Locks!StepsAreSmall(u)'
    BY DEF Locks!TxIsSound, Locks!StepsAreSmall
  <2>2. Locks!Descends(u, last, after)'
    BY <1>1 DEF Locks!TxIsSound, Locks!Descends
  <2>3. Locks!Firm(u)' = Locks!Firm(u)
    BY DEF Locks!Firm
  <2>4. Locks!FirmIsHeld(u)'
    BY <1>1, <2>3 DEF Locks!TxIsSound, Locks!FirmIsHeld
  <2> QED BY <2>1, <2>2, <2>4
<1>4. (v1[u].path = Locks!None => v1[u].todo = <<>> /\ Locks!Own(u) = {})' /\ (v1[u].todo # <<>> => Locks!Wants(u) # {})'
  BY <1>1, <1>2 DEF Locks!TxIsSound, Locks!None
<1>5. (v1[u].path = "phaseA" => \E d \in Deps : v1[u].deps = {d})'
  BY DEF Locks!TxIsSound
<1> QED BY <1>3, <1>4, <1>5 DEF Locks!TxIsSound

LEMMA OpenIsSound ==
    ASSUME NEW last, NEW after, Locks!SoundLocks(last, after), NEW t \in Txns,
           NEW path \in Locks!Paths, NEW deps \in SUBSET Deps, NEW todo, Fit(path, deps, todo, last, after),
           path = "phaseA" => \E d \in Deps : deps = {d},
           path # "none", Locks!Open(t, path, deps, todo)
    PROVE  Locks!SoundLocks(last, after)'
<1> DEFINE r == [path |-> path, deps |-> deps, todo |-> todo, ok |-> FALSE]
<1>1. v1[t] = Locks!Closed /\ v4 < MaxTxns /\ v4' = v4 + 1 /\ v1' = [v1 EXCEPT ![t] = r]
      /\ v2' = v2 /\ v3' = v3
  BY DEF Locks!Open
<1>2. r \in TxType /\ r.path = path /\ r.deps = deps /\ r.todo = todo /\ r.ok = FALSE
  BY DEF Fit, TxType
<1> HIDE DEF r
<1>3. v1 \in [Txns -> TxType] /\ Locks!TypeOK /\ Locks!OneStartPerGateway
  BY TxTyped DEF Locks!SoundLocks
<1>4. v1' \in [Txns -> TxType] /\ v1'[t] = r /\ \A u \in Txns : u # t => v1'[u] = v1[u]
  BY <1>1, <1>2, <1>3
<1>5. Locks!TypeOK' /\ Locks!OneStartPerGateway'
  <2>1. v4' \in 0..MaxTxns
    BY <1>1, <1>3, LockAssumption DEF Locks!TypeOK
  <2> QED BY <1>1, <1>3, <2>1 DEF Locks!TypeOK, Locks!Held, Locks!OneStartPerGateway
<1>6. Locks!Held' = Locks!Held /\ Locks!Own(t)' = {}
  BY <1>1, TxTyped DEF Locks!TxIsSound, Locks!Held, Locks!Own, Locks!Closed
<1>7. ASSUME NEW u \in Txns, u # t PROVE Locks!TxIsSound(u, last, after)'
  <2>1. Locks!GuardHolds(u)'
    BY <1>1, <1>4, <1>7, TxTyped DEF Locks!TxIsSound, Locks!GuardHolds
  <2>2. v1'[u] = v1[u] /\ Locks!TxIsSound(u, last, after)
    BY <1>4, <1>7, TxTyped
  <2>3. \A l : (l \in Locks!Held /\ v2[l] = u) <=> (l \in Locks!Held' /\ v2'[l] = u)
    BY <1>1, <1>6
  <2> QED BY <2>1, <2>2, <2>3, OtherTx
<1>8. Locks!TxIsSound(t, last, after)'
  <2>1. Locks!StepsAreSmall(t)'
    <3>1. \A k \in DOMAIN todo : todo[k] \subseteq Locks!Locks
      BY DEF Fit
    <3> QED BY <1>2, <1>4, <3>1 DEF Locks!StepsAreSmall, Fit
  <2>2. Locks!Descends(t, last, after)'
    BY <1>2, <1>4, <1>6 DEF Locks!Descends, Fit
  <2>3. Locks!FirmIsHeld(t)'
    <3> SUFFICES ASSUME NEW l \in Locks!Firm(t)' PROVE \E k \in DOMAIN todo : todo[k] = {l}
      BY <1>2, <1>4 DEF Locks!FirmIsHeld
    <3>1. \/ path = "sweep" /\ \E d \in deps : l = Locks!Dep(d)
          \/ path = "phaseA" /\ \E d \in deps : l = Locks!Adv(Gateway[d])
      BY <1>2, <1>4 DEF Locks!Firm
    <3> QED BY <3>1 DEF Fit
  <2>4. Locks!GuardHolds(t)'
    BY <1>2, <1>4 DEF Locks!GuardHolds
  <2>5. (v1[t].todo # <<>> => Locks!Wants(t) # {})'
    <3> SUFFICES ASSUME todo # <<>> PROVE Locks!Wants(t)' # {}
      BY <1>2, <1>4
    <3>1. todo \in Seq(SUBSET Locks!Locks) /\ 1 \in DOMAIN todo /\ Head(todo) = todo[1]
      BY DEF Fit
    <3>2. todo[1] # {}
      BY <3>1 DEF Fit
    <3>3. \A l : ~(l \in Locks!Held' /\ v2'[l] = t)
      BY <1>6 DEF Locks!Own
    <3>4. Locks!Wants(t)' = {l \in Head(todo) : l \notin Locks!Held' \/ v2'[l] # t}
      BY <1>2, <1>4 DEF Locks!Wants
    <3> QED BY <3>1, <3>2, <3>3, <3>4
  <2> QED BY <1>2, <1>4, <1>6, <2>1, <2>2, <2>3, <2>4, <2>5 DEF Locks!TxIsSound, Locks!None
<1> QED BY <1>4, <1>5, <1>7, <1>8 DEF Locks!SoundLocks, TxType

LEMMA DepLevel ==
    ASSUME NEW last, NEW after, Ranked(last, after), NEW d \in Deps
    PROVE  /\ d \in Nat /\ last \in Nat /\ d <= last
           /\ Locks!Level(Locks!Dep(d), last, after) \in Nat
           /\ Locks!Level(Locks!Dep(d), last, after) > 0
           /\ Locks!Level(Locks!Dep(d), last, after) < last + 2
<1>1. Locks!Level(Locks!Dep(d), last, after) = 1 + last - d
  BY LockLevels
<1>2. d \in Nat /\ last \in Nat /\ d <= last
  BY DEF Ranked
<1> QED BY <1>1, <1>2

LEMMA BeginIsSound ==
    ASSUME NEW last, NEW after, Ranked(last, after), Locks!SoundLocks(last, after), NEW t \in Txns,
           Locks!Begin(t)
    PROVE  Locks!SoundLocks(last, after)'
<1>1. ASSUME NEW d \in Deps, Locks!Open(t, "phaseA", {d}, Locks!PhaseALocks(d))
      PROVE  Locks!SoundLocks(last, after)'
  <2>1. Locks!Level(Locks!Adv(Gateway[d]), last, after) > Locks!Level(Locks!Dep(d), last, after)
    BY DepLevel, LockLevels
  <2>2. Fit("phaseA", {d}, Locks!PhaseALocks(d), last, after)
    BY <2>1, LockNames, TwoLocks DEF Locks!PhaseALocks
  <2> QED BY <1>1, <2>2, OpenIsSound DEF Locks!Paths
<1>2. ASSUME NEW d \in Deps, Locks!Open(t, "both", {d}, Locks!BothRowLocks(d))
      PROVE  Locks!SoundLocks(last, after)'
  <2>1. Locks!Level(Locks!Dep(d), last, after) > Locks!Level(Locks!Node(d), last, after)
    BY DepLevel, LockLevels
  <2>2. Fit("both", {d}, Locks!BothRowLocks(d), last, after)
    BY <2>1, LockNames, TwoLocks DEF Locks!BothRowLocks
  <2> QED BY <1>2, <2>2, OpenIsSound DEF Locks!Paths
<1>3. ASSUME NEW d \in Deps, Locks!Open(t, "node", {d}, Locks!NodeOnlyLocks(d))
      PROVE  Locks!SoundLocks(last, after)'
  <2>1. Fit("node", {d}, Locks!NodeOnlyLocks(d), last, after)
    BY LockNames, OneLock DEF Locks!NodeOnlyLocks
  <2> QED BY <1>3, <2>1, OpenIsSound DEF Locks!Paths
<1>4. ASSUME NEW d \in Deps, Locks!Open(t, "start", {d}, Locks!StartLocks(d))
      PROVE  Locks!SoundLocks(last, after)'
  BY <1>4, StartFits, OpenIsSound DEF Locks!Paths
<1>5. ASSUME NEW S \in (SUBSET Deps) \ {{}}, Locks!Open(t, "sweep", S, Locks!SweepLocks(S))
      PROVE  Locks!SoundLocks(last, after)'
  <2>1. S \in SUBSET Deps /\ S # {}
    OBVIOUS
  <2>2. Fit("sweep", S, Locks!SweepLocks(S), last, after)
    BY <2>1, SweepFits
  <2> QED BY <1>5, <2>1, <2>2, OpenIsSound DEF Locks!Paths
<1>6. ASSUME Locks!Open(t, "account", {}, Locks!AccountLocks)
      PROVE  Locks!SoundLocks(last, after)'
  <2>1. Fit("account", {}, Locks!AccountLocks, last, after)
    BY LockNames, OneLock DEF Locks!AccountLocks
  <2> QED BY <1>6, <2>1, OpenIsSound DEF Locks!Paths
<1>7. ASSUME NEW o \in LinkOrders, Locks!Open(t, "link", {}, Locks!LinkLocks(o))
      PROVE  Locks!SoundLocks(last, after)'
  BY <1>7, LinkFits, OpenIsSound DEF Locks!Paths
<1> QED BY <1>1, <1>2, <1>3, <1>4, <1>5, <1>6, <1>7 DEF Locks!Begin

LEMMA AcquireIsSound ==
    ASSUME NEW last, NEW after, Ranked(last, after), Locks!SoundLocks(last, after), NEW t \in Txns,
           Locks!Acquire(t)
    PROVE  Locks!SoundLocks(last, after)'
<1>1. PICK l \in Locks!Wants(t) \ Locks!Held :
        /\ v2' = [k \in Locks!Held \cup {l} |-> IF k = l THEN t ELSE v2[k]]
        /\ v1' = [v1 EXCEPT ![t].todo = IF Locks!Wants(t) = {l} THEN Tail(@) ELSE @]
        /\ v3' = v3 /\ v4' = v4
  BY DEF Locks!Acquire
<1> PICK todo : todo = v1[t].todo
  OBVIOUS
<1> DEFINE rest == IF Locks!Wants(t) = {l} THEN Tail(todo) ELSE todo
           r == [v1[t] EXCEPT !.todo = rest]
<1>2. /\ v1 \in [Txns -> TxType] /\ v1[t] \in TxType /\ Locks!TxIsSound(t, last, after)
      /\ todo \in Seq(SUBSET Locks!Locks) /\ v1[t].deps \in SUBSET Deps
  BY TxTyped
<1>3. todo # <<>> /\ l \in Head(todo) /\ l \notin Locks!Held
  BY <1>1 DEF Locks!Wants
<1>4. /\ 1 \in DOMAIN todo /\ Head(todo) = todo[1] /\ Tail(todo) \in Seq(SUBSET Locks!Locks)
      /\ Len(todo) \in Nat /\ Len(todo) >= 1 /\ DOMAIN todo = 1..Len(todo)
      /\ DOMAIN Tail(todo) = 1..(Len(todo) - 1)
      /\ \A j \in 1..(Len(todo) - 1) : j + 1 \in DOMAIN todo /\ Tail(todo)[j] = todo[j + 1]
  BY <1>2, <1>3
<1>5. l \in Locks!Locks /\ Locks!Level(l, last, after) \in Nat
  <2>1. todo[1] \subseteq Locks!Locks
    BY <1>2, <1>4 DEF Locks!TxIsSound, Locks!StepsAreSmall
  <2> QED BY <1>3, <1>4, <2>1, LockLevels
<1>6. /\ r \in TxType /\ r.todo = rest /\ r.path = v1[t].path /\ r.deps = v1[t].deps /\ r.ok = v1[t].ok
      /\ v1' = [v1 EXCEPT ![t] = r]
  BY <1>1, <1>2, <1>4 DEF TxType
<1> HIDE DEF r
<1>7. v1' \in [Txns -> TxType] /\ v1'[t] = r /\ \A u \in Txns : u # t => v1'[u] = v1[u]
  BY <1>2, <1>6
<1>8. Locks!Held' = Locks!Held \cup {l} /\ v2'[l] = t /\ \A k \in Locks!Held : v2'[k] = v2[k]
  BY <1>1, <1>3 DEF Locks!Held
<1>9. Locks!Own(t)' = Locks!Own(t) \cup {l}
  BY <1>3, <1>8 DEF Locks!Own
<1>10. Locks!TypeOK' /\ Locks!OneStartPerGateway'
  <2>1. Locks!TypeOK /\ Locks!OneStartPerGateway
    BY DEF Locks!SoundLocks
  <2> QED BY <1>1, <1>5, <1>8, <2>1 DEF Locks!TypeOK, Locks!OneStartPerGateway
<1>11. ASSUME NEW u \in Txns, u # t PROVE Locks!TxIsSound(u, last, after)'
  <2>1. v1'[u] = v1[u] /\ Locks!TxIsSound(u, last, after)
    BY <1>7, <1>11, TxTyped
  <2>2. Locks!GuardHolds(u)'
    BY <1>1, <2>1 DEF Locks!TxIsSound, Locks!GuardHolds
  <2>3. \A k : (k \in Locks!Held /\ v2[k] = u) <=> (k \in Locks!Held' /\ v2'[k] = u)
    BY <1>3, <1>8, <1>11
  <2> QED BY <2>1, <2>2, <2>3, OtherTx
<1> DEFINE lev(x) == Locks!Level(x, last, after)
<1>12. /\ \A i, j \in DOMAIN todo : i < j => \A x \in todo[i], y \in todo[j] : lev(x) > lev(y)
       /\ \A k \in Locks!Own(t), j \in DOMAIN todo : \A y \in todo[j] :
             lev(k) > lev(y) \/ (j = 1 /\ k \in todo[1])
  BY <1>2 DEF Locks!TxIsSound, Locks!Descends
<1>13. Locks!GuardHolds(t)'
  BY <1>1, <1>2, <1>3, <1>6, <1>7 DEF Locks!TxIsSound, Locks!GuardHolds
<1>14. Locks!Firm(t)' = Locks!Firm(t)
  BY <1>6, <1>7 DEF Locks!Firm
<1>17. (v1[t].path # Locks!None)'
  BY <1>2, <1>3, <1>6, <1>7 DEF Locks!TxIsSound, Locks!None
<1>18. v1'[t].todo = rest /\ v1'[t].path = v1[t].path /\ v1'[t].deps = v1[t].deps
  BY <1>6, <1>7
<1>15. ASSUME Locks!Wants(t) = {l} PROVE Locks!TxIsSound(t, last, after)'
  <2> PICK q : q = Tail(todo)
    OBVIOUS
  <2>0. Len(todo) - 1 \in Nat
    BY <1>4
  <2> PICK n \in Nat : n = Len(todo) - 1
    BY <2>0
  <2>1. /\ v1'[t].todo = q /\ DOMAIN q = 1..n
        /\ \A j \in 1..n : j + 1 \in DOMAIN todo /\ q[j] = todo[j + 1]
    BY <1>4, <1>15, <1>18
  <2>9. Locks!Wants(t)' = IF q = <<>> THEN {} ELSE {k \in Head(q) : k \notin Locks!Held' \/ v2'[k] # t}
    BY <2>1 DEF Locks!Wants
  <2> HIDE DEF rest, lev
  <2>2. Locks!StepsAreSmall(t)'
    <3> SUFFICES ASSUME NEW j \in 1..n
                 PROVE  /\ q[j] # {} /\ q[j] \subseteq Locks!Locks
                        /\ \/ \E k \in Locks!Locks : q[j] = {k}
                           \/ v1[t].path = "sweep" /\ q[j] = {Locks!Node(d) : d \in v1[t].deps}
      BY <1>18, <2>1, ZenonT(60) DEF Locks!StepsAreSmall
    <3>1. j + 1 \in DOMAIN todo /\ q[j] = todo[j + 1]
      BY <2>1
    <3> QED BY <1>2, <3>1 DEF Locks!TxIsSound, Locks!StepsAreSmall
  <2>3. \A k \in Locks!Own(t) \cup {l}, j \in 1..n : \A y \in todo[j + 1] : lev(k) > lev(y)
    <3> SUFFICES ASSUME NEW k \in Locks!Own(t) \cup {l}, NEW j \in 1..n, NEW y \in todo[j + 1]
                 PROVE  lev(k) > lev(y)
      OBVIOUS
    <3>1. j + 1 \in DOMAIN todo /\ j + 1 # 1 /\ 1 < j + 1
      BY <2>1
    <3> QED BY <1>3, <1>4, <1>12, <3>1
  <2>4. \A i, j \in 1..n : i < j => \A x \in todo[i + 1], y \in todo[j + 1] : lev(x) > lev(y)
    <3> SUFFICES ASSUME NEW i \in 1..n, NEW j \in 1..n, i < j
                 PROVE  \A x \in todo[i + 1], y \in todo[j + 1] : lev(x) > lev(y)
      OBVIOUS
    <3>1. i + 1 \in DOMAIN todo /\ j + 1 \in DOMAIN todo /\ i + 1 < j + 1
      BY <2>1
    <3> QED BY <1>12, <3>1
  <2>5. Locks!Descends(t, last, after)'
    <3>0. \A i, j \in 1..n : i < j => \A x \in q[i], y \in q[j] : lev(x) > lev(y)
      BY <2>1, <2>4
    <3>1. (\A i, j \in DOMAIN v1[t].todo : i < j =>
             \A x \in v1[t].todo[i], y \in v1[t].todo[j] : lev(x) > lev(y))'
      BY <2>1, <3>0
    <3>2. (\A k \in Locks!Own(t), j \in DOMAIN v1[t].todo : \A y \in v1[t].todo[j] : lev(k) > lev(y))'
      BY <1>9, <2>1, <2>3
    <3> QED BY <3>1, <3>2 DEF Locks!Descends, lev
  <2>6. Locks!FirmIsHeld(t)'
    <3>0. ASSUME \A k \in Locks!Firm(t) : k \in Locks!Own(t) \cup {l} \/ \E j \in 1..n : todo[j + 1] = {k}
          PROVE  Locks!FirmIsHeld(t)'
      <4>1. ASSUME NEW k \in Locks!Firm(t)'
            PROVE  k \in Locks!Own(t)' \/ \E j \in DOMAIN v1'[t].todo : v1'[t].todo[j] = {k}
        <5>1. k \in Locks!Own(t) \cup {l} \/ \E j \in 1..n : todo[j + 1] = {k}
          BY <1>14, <3>0
        <5>2. ASSUME NEW j \in 1..n, todo[j + 1] = {k} PROVE j \in DOMAIN v1'[t].todo /\ v1'[t].todo[j] = {k}
          BY <2>1, <5>2
        <5> QED BY <1>9, <5>1, <5>2
      <4> QED BY <4>1 DEF Locks!FirmIsHeld
    <3> SUFFICES ASSUME NEW k \in Locks!Firm(t)
                 PROVE  k \in Locks!Own(t) \cup {l} \/ \E j \in 1..n : todo[j + 1] = {k}
      BY <3>0
    <3>1. k \in Locks!Own(t) \/ \E j \in DOMAIN todo : todo[j] = {k}
      BY <1>2 DEF Locks!TxIsSound, Locks!FirmIsHeld
    <3>2. CASE k \in Locks!Own(t)
      BY <3>2
    <3>3. ASSUME NEW j \in DOMAIN todo, todo[j] = {k}
          PROVE  k \in Locks!Own(t) \cup {l} \/ \E i \in 1..n : todo[i + 1] = {k}
      <4>1. CASE j = 1
        BY <1>3, <1>4, <3>3, <4>1
      <4>2. CASE j # 1
        <5>1. j - 1 \in 1..n /\ (j - 1) + 1 = j
          BY <1>4, <4>2
        <5> QED BY <3>3, <5>1
      <4> QED BY <4>1, <4>2
    <3> QED BY <3>1, <3>2, <3>3
  <2>7. (v1[t].todo # <<>> => Locks!Wants(t) # {})'
    <3> SUFFICES ASSUME q # <<>> PROVE Locks!Wants(t)' # {}
      BY <2>1
    <3>1. 1 \in 1..n /\ Head(q) = todo[2] /\ 2 \in DOMAIN todo
      <4>1. q \in Seq(SUBSET Locks!Locks) /\ Head(q) = q[1] /\ 1 \in DOMAIN q
        BY <1>4
      <4> QED BY <2>1, <4>1
    <3>2. todo[2] # {}
      BY <1>2, <3>1 DEF Locks!TxIsSound, Locks!StepsAreSmall
    <3>3. PICK y \in todo[2] : TRUE
      BY <3>2
    <3>4. y \in Locks!Locks
      BY <1>2, <3>1, <3>3 DEF Locks!TxIsSound, Locks!StepsAreSmall
    <3>5. lev(y) \in Nat
      BY <3>4, LockLevels DEF lev
    <3>6. ASSUME NEW k \in Locks!Own(t) \cup {l} PROVE lev(k) > lev(y)
      <4>1. y \in todo[1 + 1]
        BY <3>3
      <4> QED BY <2>3, <3>1, <4>1
    <3>7. y \notin Locks!Own(t)'
      BY <1>9, <3>5, <3>6
    <3>8. y \notin Locks!Held' \/ v2'[y] # t
      BY <3>7 DEF Locks!Own
    <3> QED BY <2>9, <3>1, <3>3, <3>8
  <2> QED BY <1>2, <1>6, <1>7, <1>13, <1>17, <2>2, <2>5, <2>6, <2>7 DEF Locks!TxIsSound
<1>16. ASSUME Locks!Wants(t) # {l} PROVE Locks!TxIsSound(t, last, after)'
  <2>1. rest = todo
    BY <1>16
  <2> HIDE DEF rest, lev
  <2>2. Locks!StepsAreSmall(t)'
    BY <1>2, <1>6, <1>7, <2>1 DEF Locks!TxIsSound, Locks!StepsAreSmall
  <2>3. \A k \in Locks!Own(t) \cup {l}, j \in DOMAIN todo : \A y \in todo[j] :
           lev(k) > lev(y) \/ (j = 1 /\ k \in todo[1])
    <3> SUFFICES ASSUME NEW j \in DOMAIN todo, NEW y \in todo[j]
                 PROVE  lev(l) > lev(y) \/ (j = 1 /\ l \in todo[1])
      BY <1>12
    <3>1. j = 1 \/ 1 < j
      BY <1>4
    <3> QED BY <1>3, <1>4, <1>12, <3>1
  <2>4. Locks!Descends(t, last, after)'
    BY <1>6, <1>7, <1>9, <1>12, <2>1, <2>3 DEF Locks!Descends, lev
  <2>5. Locks!FirmIsHeld(t)'
    BY <1>2, <1>9, <1>14, <1>18, <2>1 DEF Locks!TxIsSound, Locks!FirmIsHeld
  <2>6. Locks!Wants(t)' = Locks!Wants(t) \ {l}
    BY <1>3, <1>6, <1>7, <1>8, <2>1 DEF Locks!Wants
  <2>7. Locks!Wants(t)' # {}
    BY <1>1, <1>16, <2>6
  <2> QED BY <1>2, <1>6, <1>7, <1>13, <1>17, <2>2, <2>4, <2>5, <2>7 DEF Locks!TxIsSound
<1> QED BY <1>7, <1>10, <1>11, <1>15, <1>16 DEF Locks!SoundLocks, TxType

LEMMA GuardIsSound ==
    ASSUME NEW last, NEW after, Locks!SoundLocks(last, after), NEW t \in Txns, Locks!Guard(t)
    PROVE  Locks!SoundLocks(last, after)'
<1> PICK r : r = [v1[t] EXCEPT !.ok = TRUE]
  OBVIOUS
<1>1. v1[t].path = "phaseA" /\ v1[t].todo = <<>> /\ v1' = [v1 EXCEPT ![t] = r] /\ v2' = v2 /\ v3' = v3 /\ v4' = v4
  BY DEF Locks!Guard
<1>2. /\ v1 \in [Txns -> TxType] /\ v1[t] \in TxType /\ Locks!TxIsSound(t, last, after)
      /\ Locks!TypeOK /\ Locks!OneStartPerGateway
  BY TxTyped DEF Locks!SoundLocks
<1>3. /\ r \in TxType /\ r.path = v1[t].path /\ r.deps = v1[t].deps /\ r.todo = v1[t].todo
  BY <1>2 DEF TxType
<1>4. /\ v1' \in [Txns -> TxType] /\ v1'[t] = r /\ \A u \in Txns : u # t => v1'[u] = v1[u]
      /\ Locks!Held' = Locks!Held
  BY <1>1, <1>2, <1>3 DEF Locks!Held
<1>5. PICK d \in Deps : v1[t].deps = {d}
  BY <1>1, <1>2 DEF Locks!TxIsSound
<1>6. \A e \in v3 : Gateway[e] # Gateway[d]
  <2>1. (CHOOSE e \in v1[t].deps : TRUE) = d
    BY <1>5
  <2> QED BY <2>1 DEF Locks!Guard
<1>7. Locks!TypeOK' /\ Locks!OneStartPerGateway'
  BY <1>1, <1>2, <1>4 DEF Locks!TypeOK, Locks!OneStartPerGateway
<1>8. ASSUME NEW u \in Txns, u # t PROVE Locks!TxIsSound(u, last, after)'
  <2>1. v1'[u] = v1[u] /\ Locks!TxIsSound(u, last, after)
    BY <1>4, <1>8, TxTyped
  <2>2. Locks!GuardHolds(u)'
    BY <1>1, <2>1 DEF Locks!TxIsSound, Locks!GuardHolds
  <2> QED BY <1>1, <1>4, <2>1, <2>2, OtherTx
<1>9. Locks!TxIsSound(t, last, after)'
  <2>1. Locks!Own(t)' = Locks!Own(t) /\ Locks!Firm(t)' = Locks!Firm(t)
    BY <1>1, <1>3, <1>4 DEF Locks!Own, Locks!Firm
  <2>2. Locks!StepsAreSmall(t)' /\ Locks!Descends(t, last, after)'
    BY <1>1, <1>3, <1>4 DEF Locks!StepsAreSmall, Locks!Descends
  <2>3. Locks!FirmIsHeld(t)'
    <3>1. Locks!FirmIsHeld(t) /\ v1'[t].todo = v1[t].todo
      BY <1>2, <1>3, <1>4 DEF Locks!TxIsSound
    <3> QED BY <2>1, <3>1 DEF Locks!FirmIsHeld
  <2>4. Locks!GuardHolds(t)'
    BY <1>1, <1>3, <1>4, <1>5, <1>6 DEF Locks!GuardHolds
  <2> QED BY <1>1, <1>3, <1>4, <1>5, <2>2, <2>3, <2>4 DEF Locks!TxIsSound, Locks!None
<1> QED BY <1>4, <1>7, <1>8, <1>9 DEF Locks!SoundLocks, TxType

\* The transaction of phase A holds its gateway's advisory lock once nothing is to come.
LEMMA GatewayIsHeld ==
    ASSUME NEW last, NEW after, Locks!SoundLocks(last, after), NEW t \in Txns, NEW d \in v1[t].deps,
           v1[t].path = "phaseA", v1[t].todo = <<>>
    PROVE  Locks!Adv(Gateway[d]) \in Locks!Held /\ v2[Locks!Adv(Gateway[d])] = t
<1>1. Locks!FirmIsHeld(t)
  BY TxTyped DEF Locks!TxIsSound
<1>2. Locks!Adv(Gateway[d]) \in Locks!Firm(t)
  BY DEF Locks!Firm
<1>3. \A k : k \notin DOMAIN v1[t].todo
  OBVIOUS
<1>4. Locks!Adv(Gateway[d]) \in Locks!Own(t)
  BY <1>1, <1>2, <1>3 DEF Locks!FirmIsHeld
<1> QED BY <1>4 DEF Locks!Own

LEMMA CommitIsSound ==
    ASSUME NEW last, NEW after, Locks!SoundLocks(last, after), NEW t \in Txns, Locks!Commit(t)
    PROVE  Locks!SoundLocks(last, after)'
<1>1. /\ v1[t].todo = <<>> /\ v1' = [v1 EXCEPT ![t] = Locks!Closed] /\ v4' = v4
      /\ v2' = [k \in {l \in Locks!Held : v2[l] # t} |-> v2[k]]
  BY DEF Locks!Commit
<1>2. /\ v1 \in [Txns -> TxType] /\ v1[t] \in TxType /\ Locks!TxIsSound(t, last, after)
      /\ v1[t].deps \in SUBSET Deps /\ Locks!TypeOK /\ Locks!OneStartPerGateway
  BY TxTyped DEF Locks!SoundLocks
<1>3. Locks!Closed \in TxType
  BY DEF TxType, Locks!Closed, Locks!Paths, Locks!None
<1>4. v1' \in [Txns -> TxType] /\ v1'[t] = Locks!Closed /\ \A u \in Txns : u # t => v1'[u] = v1[u]
  BY <1>1, <1>2, <1>3
<1>5. Locks!Held' = {l \in Locks!Held : v2[l] # t} /\ \A l \in Locks!Held' : v2'[l] = v2[l]
  BY <1>1 DEF Locks!Held
<1>6. v3' \subseteq v3 \/ (v1[t].path = "phaseA" /\ v1[t].ok /\ v3' = v3 \cup v1[t].deps)
  BY DEF Locks!Commit
<1>7. \A d \in v1[t].deps, e \in v3 : v1[t].path = "phaseA" /\ v1[t].ok => Gateway[e] # Gateway[d]
  BY <1>2 DEF Locks!TxIsSound, Locks!GuardHolds
<1>8. v1[t].path = "phaseA" => \E d \in Deps : v1[t].deps = {d}
  BY <1>2 DEF Locks!TxIsSound
<1>9. Locks!OneStartPerGateway'
  BY <1>2, <1>6, <1>7, <1>8 DEF Locks!OneStartPerGateway
<1>10. Locks!TypeOK'
  <2>1. v3' \subseteq Deps
    BY <1>2, <1>6 DEF Locks!TypeOK
  <2> QED BY <1>1, <1>2, <1>5, <2>1 DEF Locks!TypeOK
<1>11. ASSUME NEW u \in Txns, u # t PROVE Locks!TxIsSound(u, last, after)'
  <2>1. v1'[u] = v1[u] /\ Locks!TxIsSound(u, last, after)
    BY <1>4, <1>11, TxTyped
  <2>2. Locks!GuardHolds(u)'
    <3> SUFFICES ASSUME v1[u].ok
                 PROVE  /\ v1[u].path = "phaseA" /\ v1[u].todo = <<>>
                        /\ \A d \in v1[u].deps, e \in v3' : Gateway[e] # Gateway[d]
      BY <2>1 DEF Locks!GuardHolds
    <3>1. /\ v1[u].path = "phaseA" /\ v1[u].todo = <<>>
          /\ \A d \in v1[u].deps, e \in v3 : Gateway[e] # Gateway[d]
      BY <2>1 DEF Locks!TxIsSound, Locks!GuardHolds
    <3>2. ASSUME NEW d \in v1[u].deps, NEW e \in v1[t].deps, v1[t].path = "phaseA", Gateway[e] = Gateway[d]
          PROVE  FALSE
      BY <1>1, <1>11, <3>1, <3>2, GatewayIsHeld
    <3> QED BY <1>6, <3>1, <3>2
  <2>3. \A l : (l \in Locks!Held /\ v2[l] = u) <=> (l \in Locks!Held' /\ v2'[l] = u)
    BY <1>5, <1>11
  <2> QED BY <2>1, <2>2, <2>3, OtherTx
<1>12. Locks!TxIsSound(t, last, after)'
  <2>1. v1'[t].todo = <<>> /\ v1'[t].path = "none" /\ v1'[t].deps = {} /\ v1'[t].ok = FALSE
    BY <1>4 DEF Locks!Closed, Locks!None
  <2>2. Locks!Own(t)' = {}
    BY <1>5 DEF Locks!Own
  <2>3. Locks!StepsAreSmall(t)' /\ Locks!Descends(t, last, after)'
    BY <2>1 DEF Locks!StepsAreSmall, Locks!Descends
  <2>4. Locks!FirmIsHeld(t)' /\ Locks!GuardHolds(t)'
    BY <2>1 DEF Locks!FirmIsHeld, Locks!Firm, Locks!GuardHolds
  <2> QED BY <2>1, <2>2, <2>3, <2>4 DEF Locks!TxIsSound
<1> QED BY <1>4, <1>9, <1>10, <1>11, <1>12 DEF Locks!SoundLocks, TxType

LEMMA LocksStart ==
    ASSUME NEW last, NEW after, Locks!Init PROVE Locks!SoundLocks(last, after)
<1>1. v1 = [t \in Txns |-> Locks!Closed] /\ v2 = <<>> /\ v3 = {} /\ v4 = 0
  BY DEF Locks!Init
<1>2. Locks!Closed \in TxType
  BY DEF TxType, Locks!Closed, Locks!Paths, Locks!None
<1>3. Locks!Held = {}
  BY <1>1 DEF Locks!Held
<1>4. Locks!TypeOK /\ Locks!OneStartPerGateway
  BY <1>1, <1>3, LockAssumption DEF Locks!TypeOK, Locks!OneStartPerGateway
<1>5. ASSUME NEW t \in Txns PROVE Locks!TxIsSound(t, last, after)
  <2>1. v1[t].todo = <<>> /\ v1[t].path = "none" /\ v1[t].deps = {} /\ v1[t].ok = FALSE
    BY <1>1 DEF Locks!Closed, Locks!None
  <2>2. Locks!Own(t) = {}
    BY <1>3 DEF Locks!Own
  <2>3. Locks!StepsAreSmall(t) /\ Locks!Descends(t, last, after)
    BY <2>1 DEF Locks!StepsAreSmall, Locks!Descends
  <2>4. Locks!FirmIsHeld(t) /\ Locks!GuardHolds(t)
    BY <2>1 DEF Locks!FirmIsHeld, Locks!Firm, Locks!GuardHolds
  <2> QED BY <2>1, <2>2, <2>3, <2>4 DEF Locks!TxIsSound
<1> QED BY <1>1, <1>2, <1>4, <1>5 DEF Locks!SoundLocks, TxType

LEMMA LocksStutter ==
    ASSUME NEW last, NEW after, Locks!SoundLocks(last, after), UNCHANGED <<v1, v2, v3, v4>>
    PROVE  Locks!SoundLocks(last, after)'
<1>1. Locks!TypeOK' /\ Locks!OneStartPerGateway' /\ Locks!Held' = Locks!Held
  BY DEF Locks!SoundLocks, Locks!TypeOK, Locks!OneStartPerGateway, Locks!Held
<1>2. ASSUME NEW u \in Txns PROVE Locks!TxIsSound(u, last, after)'
  <2>1. Locks!TxIsSound(u, last, after)
    BY TxTyped
  <2>2. Locks!GuardHolds(u)'
    BY <2>1 DEF Locks!TxIsSound, Locks!GuardHolds
  <2> QED BY <1>1, <2>1, <2>2, OtherTx
<1> QED BY <1>1, <1>2 DEF Locks!SoundLocks

LEMMA LocksStep ==
    ASSUME NEW last, NEW after, Ranked(last, after), Locks!SoundLocks(last, after), Locks!Next
    PROVE  Locks!SoundLocks(last, after)'
  BY BeginIsSound, AcquireIsSound, GuardIsSound, CommitIsSound DEF Locks!Next

\* Who waits for a lock no lower than one it holds is a sweep among its nodes, with all of
\* their deployments locked.
LEMMA WaitsAmongNodes ==
    ASSUME NEW last, NEW after, Ranked(last, after), Locks!SoundLocks(last, after), NEW u \in Txns,
           NEW l \in Locks!Own(u), NEW k \in Locks!Wants(u),
           ~(Locks!Level(l, last, after) > Locks!Level(k, last, after))
    PROVE  \E e, f \in v1[u].deps : /\ l = Locks!Node(e) /\ k = Locks!Node(f)
                                    /\ Locks!Dep(e) \in Locks!Own(u) /\ Locks!Dep(f) \in Locks!Own(u)
<1> PICK todo : todo = v1[u].todo
  OBVIOUS
<1> DEFINE lev(x) == Locks!Level(x, last, after)
<1>1. Locks!TxIsSound(u, last, after) /\ todo \in Seq(SUBSET Locks!Locks) /\ v1[u].deps \in SUBSET Deps
  BY TxTyped
<1>2. todo # <<>> /\ k \in Head(todo) /\ (k \notin Locks!Held \/ v2[k] # u)
  BY DEF Locks!Wants
<1>3. 1 \in DOMAIN todo /\ Head(todo) = todo[1] /\ \A j \in DOMAIN todo : j = 1 \/ 1 < j
  BY <1>1, <1>2
<1>4. /\ \A i, j \in DOMAIN todo : i < j => \A x \in todo[i], y \in todo[j] : lev(x) > lev(y)
      /\ \A m \in Locks!Own(u), j \in DOMAIN todo : \A y \in todo[j] : lev(m) > lev(y) \/ (j = 1 /\ m \in todo[1])
  BY <1>1 DEF Locks!TxIsSound, Locks!Descends
<1>5. l \in todo[1] /\ k \in todo[1] /\ l # k
  <2>1. l \in todo[1] /\ k \in todo[1]
    BY <1>2, <1>3, <1>4
  <2>2. l # k
    BY <1>2 DEF Locks!Own
  <2> QED BY <2>1, <2>2
<1>6. v1[u].path = "sweep" /\ todo[1] = {Locks!Node(d) : d \in v1[u].deps}
  BY <1>1, <1>3, <1>5 DEF Locks!TxIsSound, Locks!StepsAreSmall
<1>7. PICK e, f \in v1[u].deps : l = Locks!Node(e) /\ k = Locks!Node(f)
  BY <1>5, <1>6
<1>8. ASSUME NEW d \in v1[u].deps PROVE Locks!Dep(d) \in Locks!Own(u)
  <2>1. Locks!Dep(d) \in Locks!Firm(u)
    BY <1>6 DEF Locks!Firm
  <2>2. Locks!Dep(d) \in Locks!Own(u) \/ \E j \in DOMAIN todo : todo[j] = {Locks!Dep(d)}
    BY <1>1, <2>1 DEF Locks!TxIsSound, Locks!FirmIsHeld
  <2>3. lev(l) = 0 /\ lev(Locks!Dep(d)) \in Nat /\ lev(Locks!Dep(d)) > 0
    BY <1>1, <1>7, LockLevels, DepLevel
  <2>4. ASSUME NEW j \in DOMAIN todo, todo[j] = {Locks!Dep(d)} PROVE FALSE
    <3> HIDE DEF lev
    <3>1. CASE j = 1
      <4>1. l = Locks!Dep(d)
        BY <1>5, <2>4, <3>1
      <4> QED BY <2>3, <4>1
    <3>2. CASE 1 < j
      <4>1. lev(l) > lev(Locks!Dep(d))
        BY <1>3, <1>4, <1>5, <2>4, <3>2
      <4> QED BY <2>3, <4>1
    <3> QED BY <1>3, <3>1, <3>2
  <2> QED BY <2>2, <2>4
<1> QED BY <1>7, <1>8

\* The lowest lock that is waited for belongs to a sweep among its nodes, which waits for a
\* node whose holder is one too: but only one of them can hold that node's deployment.
LEMMA NobodyWaitsInACircle ==
    ASSUME NEW last, NEW after, Ranked(last, after), Locks!SoundLocks(last, after)
    PROVE  Locks!NoWaitCycle
<1> SUFFICES ASSUME NEW S \in (SUBSET Txns) \ {{}},
                    \A t \in S : /\ v1[t] # Locks!Closed /\ v1[t].todo # <<>>
                                 /\ \A l \in Locks!Wants(t) : l \in Locks!Held /\ v2[l] \in S
             PROVE  FALSE
  BY DEF Locks!NoWaitCycle
<1> DEFINE lev(x) == Locks!Level(x, last, after)
           wanted == UNION {Locks!Wants(t) : t \in S}
           levels == {lev(x) : x \in wanted}
<1>1. \A t \in S : t \in Txns /\ Locks!TxIsSound(t, last, after) /\ v1[t].todo \in Seq(SUBSET Locks!Locks)
  BY TxTyped
<1>2. \A t \in S : Locks!Wants(t) # {} /\ Locks!Wants(t) \subseteq Locks!Locks
  <2> SUFFICES ASSUME NEW t \in S PROVE Locks!Wants(t) # {} /\ Locks!Wants(t) \subseteq Locks!Locks
    OBVIOUS
  <2>1. Locks!Wants(t) # {}
    BY <1>1 DEF Locks!TxIsSound
  <2>2. Head(v1[t].todo) \in SUBSET Locks!Locks
    <3> PICK todo : todo = v1[t].todo
      OBVIOUS
    <3> QED BY <1>1
  <2> QED BY <2>1, <2>2 DEF Locks!Wants
<1>3. levels \in SUBSET Nat /\ levels # {}
  BY <1>2, LockLevels
<1>4. PICK m \in levels : \A n \in levels : m <= n
  BY <1>3, LeastNatural
<1>5. PICK t \in S : \E x \in Locks!Wants(t) : m = lev(x)
  BY <1>4
<1> PICK l \in Locks!Wants(t) : m = lev(l)
  BY <1>5
<1> HIDE DEF lev
<1>6. l \in Locks!Held /\ v2[l] \in S
  OBVIOUS
<1> DEFINE u == v2[l]
<1>7. PICK k \in Locks!Wants(u) : TRUE
  BY <1>2, <1>6
<1>8. ~(lev(l) > lev(k))
  <2>1. lev(k) \in levels
    BY <1>6, <1>7
  <2> QED BY <1>3, <1>4, <2>1
<1>9. l \in Locks!Own(u) /\ u \in Txns
  BY <1>1, <1>6 DEF Locks!Own
<1>10. PICK f \in v1[u].deps : k = Locks!Node(f) /\ Locks!Dep(f) \in Locks!Own(u)
  BY <1>7, <1>8, <1>9, WaitsAmongNodes DEF lev
<1>11. k \in Locks!Held /\ v2[k] \in S /\ v2[k] # u
  BY <1>6, <1>7 DEF Locks!Wants
<1> DEFINE w == v2[k]
<1>12. PICK j \in Locks!Wants(w) : TRUE
  BY <1>2, <1>11
<1>13. ~(lev(k) > lev(j))
  <2>1. lev(k) = 0
    BY <1>10, LockLevels DEF lev
  <2>2. lev(j) \in Nat
    BY <1>2, <1>11, <1>12, LockLevels DEF lev
  <2> QED BY <2>1, <2>2
<1>14. k \in Locks!Own(w) /\ w \in Txns
  BY <1>1, <1>11 DEF Locks!Own
<1>15. PICK e \in v1[w].deps : k = Locks!Node(e) /\ Locks!Dep(e) \in Locks!Own(w)
  BY <1>12, <1>13, <1>14, WaitsAmongNodes DEF lev
<1>16. e = f
  BY <1>10, <1>15 DEF Locks!Node
<1> QED BY <1>10, <1>11, <1>15, <1>16 DEF Locks!Own

\* Any transactions, deployments, gateways and requests that lock their members' candidates in
\* one order: two deployments never start on one gateway, and nobody waits in a circle. That
\* the requests agree is not the code's doing: it locks the members by their order_index.
THEOREM LocksStaySound ==
    ASSUME NEW after, Locks!LinkOrdersAgree(after)
    PROVE  Spec => []LocksAreSound
<1>1. PICK last : Ranked(last, after)
  BY LastDeployment DEF Ranked
<1> DEFINE Inv == part = "Locks" => Locks!SoundLocks(last, after)
<1>2. Init => Inv
  BY LocksStart DEF Init
<1>3. Inv /\ [Next]_pool => Inv'
  <2> SUFFICES ASSUME Inv, [Next]_pool, part' = "Locks" PROVE Locks!SoundLocks(last, after)'
    OBVIOUS
  <2>1. CASE UNCHANGED pool
    <3>1. part = "Locks" /\ UNCHANGED <<v1, v2, v3, v4>>
      BY <2>1 DEF pool, Rest4
    <3> QED BY <3>1, LocksStutter
  <2>2. CASE Next
    BY <1>1, <2>2, LocksStep DEF Next
  <2> QED BY <2>1, <2>2
<1>4. Inv => LocksAreSound
  <2> SUFFICES ASSUME part = "Locks", Locks!SoundLocks(last, after) PROVE Locks!OneStartPerGateway /\ Locks!NoWaitCycle
    BY DEF LocksAreSound
  <2>1. Locks!OneStartPerGateway
    BY DEF Locks!SoundLocks
  <2> QED BY <1>1, <2>1, NobodyWaitsInACircle
<1> QED BY <1>2, <1>3, <1>4, PTL DEF Spec
-----------------------------------------------------------------------------
(* The types of the parts. What the invariants above have not bounded yet.   *)

HaltsBounds ==
    /\ v1 \in BOOLEAN
    /\ \A d \in Halted : /\ v2[d] \in Universes \cup {Halts!None}
                         /\ v4[d] <= MaxRuns /\ v7[d] <= MaxRuns
                         /\ v6[d] # "off" => v8[d] \in Universes

LEMMA HaltsBoundsStay ==
    ASSUME Halts!TrustedHalts, HaltsBounds, Halts!Next
    PROVE  HaltsBounds'
<1> USE DEF HaltsBounds, Halts!redis, Halts!loop, Halts!monitor, Halts!Goto, Halts!Mon
<1>1. /\ v2 \in [Halted -> Halts!Manifests] /\ v4 \in [Halted -> Nat] /\ v7 \in [Halted -> Nat]
      /\ v6 \in [Halted -> Halts!Steps] /\ v8 \in [Halted -> SUBSET UNION Universes]
      /\ MaxRuns \in Nat
  BY HaltsFacts, BoundsAssumption
<1>2. ASSUME UNCHANGED <<v2, v4, v7, v8>>, v1' \in BOOLEAN, \A d \in Halted : v6'[d] # "off" => v6[d] # "off"
      PROVE  HaltsBounds'
  BY <1>2
<1>3. ASSUME NEW d \in Halted, NEW s, v6' = [v6 EXCEPT ![d] = s], v6[d] # "off"
      PROVE  \A e \in Halted : v6'[e] # "off" => v6[e] # "off"
  BY <1>1, <1>3
<1>4. ASSUME NEW d \in Halted, Halts!RunLoop(d) PROVE HaltsBounds'
  <2>1. CASE Halts!ClearMarker(d)
    BY <1>1, <2>1 DEF Halts!ClearMarker
  <2>2. CASE Halts!PublishManifest(d)
    BY <1>1, <2>2 DEF Halts!PublishManifest
  <2>3. CASE Halts!MarkReconciled(d)
    BY <1>1, <2>3 DEF Halts!MarkReconciled
  <2>4. CASE Halts!Build(d) \/ Halts!StartReturns(d) \/ Halts!NodeStopped(d)
    BY <1>2, <1>3, <2>4 DEF Halts!Build, Halts!StartReturns, Halts!NodeStopped
  <2>5. CASE Halts!MarkRunning(d) \/ Halts!StopMonitor(d) \/ Halts!MarkTerminal(d)
    BY <1>2, <1>3, <2>5 DEF Halts!MarkRunning, Halts!StopMonitor, Halts!MarkTerminal
  <2> QED BY <1>4, <2>1, <2>2, <2>3, <2>4, <2>5 DEF Halts!RunLoop
<1>5. ASSUME NEW d \in Halted, Halts!MonitorStep(d) PROVE HaltsBounds'
  <2>1. CASE Halts!Publish(d)
    <3>1. v11[d] # "idle" => v6[d] # "off"
      BY DEF Halts!TrustedHalts, Halts!RunIsSound, Halts!MonitorRests
    <3>2. v8[d] \in Universes
      BY <2>1, <3>1 DEF Halts!Publish
    <3>3. v2' = v2 \/ v2' = [v2 EXCEPT ![d] = IF v6[d] = "start" THEN @ ELSE v8[d]]
      BY <2>1 DEF Halts!Publish
    <3>4. UNCHANGED <<v1, v4, v6, v7, v8>>
      BY <2>1 DEF Halts!Publish
    <3> QED BY <1>1, <3>2, <3>3, <3>4
  <2>2. CASE Halts!Evaluate(d) \/ Halts!OnHalt(d)
    BY <1>2, <2>2 DEF Halts!Evaluate, Halts!OnHalt
  <2>3. CASE Halts!FireHalt(d)
    BY <1>2, <2>3 DEF Halts!FireHalt
  <2> QED BY <1>5, <2>1, <2>2, <2>3 DEF Halts!MonitorStep
<1>6. ASSUME NEW d \in Halted, Halts!Spawn(d) PROVE HaltsBounds'
  <2>1. PICK u \in Universes : v8' = [v8 EXCEPT ![d] = u]
    BY <1>6 DEF Halts!Spawn
  <2>2. UNCHANGED <<v1, v2, v4>> /\ v7' = [v7 EXCEPT ![d] = @ + 1] /\ v7[d] < MaxRuns /\ v6' = [v6 EXCEPT ![d] = "clear"]
    BY <1>6 DEF Halts!Spawn
  <2> QED BY <1>1, <2>1, <2>2
<1>7. ASSUME NEW d \in Halted, Halts!Expires(d) PROVE HaltsBounds'
  <2>1. v2' = v2 \/ v2' = [v2 EXCEPT ![d] = Halts!None]
    BY <1>7 DEF Halts!Expires
  <2>2. UNCHANGED <<v1, v4, v6, v7, v8>>
    BY <1>7 DEF Halts!Expires
  <2> QED BY <1>1, <2>1, <2>2
<1>8. ASSUME NEW d \in Halted,
             \/ Halts!ResumeProbes(d) \/ Halts!SigTerm(d) \/ Halts!Reaped(d)
             \/ Halts!RunLoopRaises(d) \/ Halts!Crash(d)
      PROVE  HaltsBounds'
  <2>1. CASE Halts!ResumeProbes(d) \/ Halts!SigTerm(d) \/ Halts!Reaped(d)
    BY <1>2, <2>1 DEF Halts!ResumeProbes, Halts!SigTerm, Halts!Reaped
  <2>2. CASE Halts!RunLoopRaises(d) \/ Halts!Crash(d)
    BY <1>2, <1>3, <2>2 DEF Halts!RunLoopRaises, Halts!Crash
  <2> QED BY <1>8, <2>1, <2>2
<1>9. ASSUME NEW d \in Halted, NEW f \in UNION Universes, Halts!FeedArrives(d, f) \/ Halts!FeedStalls(d, f)
      PROVE  HaltsBounds'
  BY <1>2, <1>9 DEF Halts!FeedArrives, Halts!FeedStalls
<1>10. ASSUME Halts!KillAll \/ Halts!ResumeLoads \/ Halts!ResumeClears PROVE HaltsBounds'
  <2>1. v1' \in BOOLEAN /\ UNCHANGED <<v2, v4, v6, v7, v8>>
    BY <1>10 DEF Halts!KillAll, Halts!ResumeLoads, Halts!ResumeClears
  <2> QED BY <1>2, <2>1
<1> QED BY <1>4, <1>5, <1>6, <1>7, <1>8, <1>9, <1>10 DEF Halts!Next

LEMMA HaltsAreTyped ==
    ASSUME Halts!TrustedHalts, HaltsBounds PROVE Halts!TypeOK
<1>1. v1 \in BOOLEAN
  BY DEF HaltsBounds
<1> SUFFICES ASSUME NEW d \in Halted
             PROVE  /\ v2[d] \in Universes \cup {Halts!None}
                    /\ v3[d] \in [UNION Universes -> [is : {"absent", "pending", "warm", "stale"}, run : 0 .. MaxRuns]]
                    /\ v4[d] \in 0 .. MaxRuns /\ v7[d] \in 0 .. MaxRuns
                    /\ v5[d] \in {"starting", "running", "terminal"}
                    /\ v6[d] \in {"off", "clear", "build", "manifest", "start", "check", "mark", "run",
                                  "teardown", "terminal"}
                    /\ v11[d] \in {"idle", "fire", "onHalt", "publish", "published"}
                    /\ v11[d] # "idle" => v6[d] \in {"start", "check", "mark", "run", "teardown"}
  BY <1>1 DEF Halts!TypeOK
<1>2. v4[d] \in 0 .. MaxRuns /\ v7[d] \in 0 .. MaxRuns /\ v7[d] \in Nat /\ v7[d] <= MaxRuns /\ MaxRuns \in Nat
  BY HaltsFacts, BoundsAssumption DEF HaltsBounds
<1>3. v2[d] \in Universes \cup {Halts!None}
  BY DEF HaltsBounds
<1>4. v3[d] \in [UNION Universes -> [is : {"absent", "pending", "warm", "stale"}, run : 0 .. MaxRuns]]
  <2>1. v3[d] \in [UNION Universes -> Halts!Verdict]
    BY HaltsFacts
  <2>2. ASSUME NEW f \in UNION Universes
        PROVE  v3[d][f] \in [is : {"absent", "pending", "warm", "stale"}, run : 0 .. MaxRuns]
    <3>1. v3[d][f] \in [is : {"absent"} \cup {"pending", "warm", "stale"}, run : Nat]
      BY <2>1 DEF Halts!Verdict, Halts!Judged
    <3>2. v3[d][f].run <= v7[d]
      BY DEF Halts!TrustedHalts, Halts!RunIsSound, Halts!WarmIsObserved
    <3>3. v3[d][f].run \in 0 .. MaxRuns
      BY <1>2, <3>1, <3>2
    <3> QED BY <3>1, <3>3
  <2> QED BY <2>1, <2>2
<1>5. /\ v5[d] \in {"starting", "running", "terminal"} /\ v6[d] \in Halts!Steps
      /\ v11[d] \in {"idle", "fire", "onHalt", "publish", "published"}
  BY HaltsFacts
<1>6. v11[d] # "idle" => v6[d] \in {"start", "check", "mark", "run", "teardown"}
  BY <1>5 DEF Halts!TrustedHalts, Halts!RunIsSound, Halts!MonitorRests, Halts!Steps
<1> QED BY <1>2, <1>3, <1>4, <1>5, <1>6 DEF Halts!Steps

AlertsBounds ==
    /\ v1 \in -1..(Ttl - 1) /\ v4 \subseteq {"publish", "evaluate"} /\ v5 \subseteq Accounts
    /\ v8 \subseteq Alerts!Keys /\ v11 \subseteq Alerts!Keys
    /\ \A k \in Alerts!Keys : v7[k] <= Cooldown
    /\ \A d \in Consumed : v10[d] <= Cooldown + 1

LEMMA AlertsBoundsStay ==
    ASSUME Alerts!FaithfulAlerts, AlertsBounds, Alerts!Next
    PROVE  AlertsBounds'
<1> USE DEF AlertsBounds, Alerts!state, Alerts!paging
<1>1. /\ Ttl \in Nat \ {0} /\ Cooldown \in Nat /\ Alerts!None = -1
      /\ v1 \in Int /\ v7 \in [Alerts!Keys -> Nat \cup {-1}] /\ v10 \in [Consumed -> Nat \cup {-1}]
  BY AlertsFacts, AlertsAssumption
<1>2. 0 \in -1..(Ttl - 1) /\ -1 \in -1..(Ttl - 1)
  BY <1>1
<1>3. Alerts!ActiveAccounts \subseteq Accounts
  BY AlertsAssumption DEF Alerts!ActiveAccounts
<1>4. CASE Alerts!Elapse
  <2>1. v1' \in -1..(Ttl - 1)
    BY <1>1, <1>4 DEF Alerts!Elapse
  <2>2. ASSUME NEW a \in Nat \cup {-1}, NEW n \in Nat, a <= n PROVE Alerts!Older(a, n) <= n
    BY <1>1, <2>2 DEF Alerts!Older
  <2>3. \A k \in Alerts!Keys : v7'[k] <= Cooldown
    BY <1>1, <1>4, <2>2 DEF Alerts!Elapse
  <2>4. \A d \in Consumed : v10'[d] <= Cooldown + 1
    BY <1>1, <1>4, <2>2 DEF Alerts!Elapse
  <2>5. v4' \subseteq {"publish", "evaluate"} /\ UNCHANGED <<v5, v8, v11>>
    BY <1>4 DEF Alerts!Elapse
  <2> QED BY <2>1, <2>3, <2>4, <2>5
<1>5. CASE Alerts!Crash
  BY <1>1, <1>5 DEF Alerts!Crash
<1>6. CASE Alerts!Boot \/ Alerts!BootBlind \/ Alerts!Refresh
  BY <1>3, <1>6 DEF Alerts!Boot, Alerts!BootBlind, Alerts!Refresh
<1>7. CASE Alerts!ProbePrior \/ Alerts!ProbeFails
  BY <1>2, <1>7 DEF Alerts!ProbePrior, Alerts!ProbeFails, Alerts!FirstPass, Alerts!Stamp
<1>8. CASE Alerts!PublishAfterEval \/ Alerts!WaitTimesOut \/ Alerts!Publish \/ Alerts!PublishFails
  BY <1>2, <1>8 DEF Alerts!PublishAfterEval, Alerts!WaitTimesOut, Alerts!Publish, Alerts!PublishFails, Alerts!Stamp
<1>9. ASSUME NEW degraded \in BOOLEAN, Alerts!Evaluate(degraded) PROVE AlertsBounds'
  <2>1. PICK D : D = Alerts!detect_fleet_alerts(degraded)
    OBVIOUS
  <2>2. D \subseteq Alerts!Keys
    BY <2>1 DEF Alerts!detect_fleet_alerts
  <2>3. v8' = Alerts!OnePerKey(Alerts!ToSend(D)) /\ v7' = Alerts!Recorded(D)
    BY <1>9, <2>1 DEF Alerts!Evaluate
  <2>4. v8' \subseteq Alerts!Keys
    BY <2>2, <2>3 DEF Alerts!OnePerKey, Alerts!ToSend
  <2>5. \A k \in Alerts!Keys : v7'[k] <= Cooldown
    BY <1>1, <2>3 DEF Alerts!Recorded
  <2>6. \A d \in Consumed : v10'[d] <= Cooldown + 1
    <3>1. v10' = [d \in Consumed |-> IF d \in v9' THEN v10[d] ELSE Alerts!None]
      BY <1>9 DEF Alerts!Evaluate
    <3> QED BY <1>1, <3>1
  <2>7. v11' \subseteq v11 /\ v4' \subseteq v4 /\ UNCHANGED <<v1, v5>>
    BY <1>9 DEF Alerts!Evaluate
  <2> QED BY <2>4, <2>5, <2>6, <2>7
<1>10. CASE Alerts!Snapshot \/ Alerts!SnapshotDegraded
  BY <1>9, <1>10 DEF Alerts!Snapshot, Alerts!SnapshotDegraded
<1>11. CASE Alerts!EvaluationFails \/ Alerts!EndPass
  BY <1>11 DEF Alerts!EvaluationFails, Alerts!EndPass
<1>12. ASSUME NEW d \in Consumed, Alerts!DeploymentMoves(d) \/ Alerts!NeverReported(d) PROVE AlertsBounds'
  BY <1>12 DEF Alerts!DeploymentMoves, Alerts!NeverReported
<1>13. ASSUME NEW k \in Alerts!Keys, Alerts!SendAlert(k) \/ Alerts!MailFails(k) PROVE AlertsBounds'
  <2>1. v8' \subseteq v8 /\ v11' \subseteq v11 \cup {k} /\ UNCHANGED <<v1, v4, v5, v7>> /\ Alerts!Sent(k)
    BY <1>13 DEF Alerts!SendAlert, Alerts!MailFails
  <2>2. \A d \in Consumed : v10'[d] <= Cooldown + 1
    <3>1. v10' = v10 \/ v10' = [v10 EXCEPT ![k[2]] = 0]
      BY <2>1 DEF Alerts!Sent
    <3> QED BY <1>1, <3>1
  <2> QED BY <2>1, <2>2
<1> QED BY <1>4, <1>5, <1>6, <1>7, <1>8, <1>10, <1>11, <1>12, <1>13 DEF Alerts!Next

LEMMA AlertsTypes ==
    ASSUME Alerts!FaithfulAlerts, AlertsBounds PROVE Alerts!TypeOK
<1>1. /\ v7 \in [Alerts!Keys -> Nat \cup {-1}] /\ v10 \in [Consumed -> Nat \cup {-1}] /\ Cooldown \in Nat
      /\ v2 \in BOOLEAN /\ v12 \in BOOLEAN /\ v9 \subseteq Consumed
  BY AlertsFacts
<1>2. v7 \in [Alerts!Keys -> -1..Cooldown]
  BY <1>1 DEF AlertsBounds
<1>3. v10 \in [Consumed -> -1..(Cooldown + 1)]
  BY <1>1 DEF AlertsBounds
<1>4. v3.pub \in {"off", "probe", "await", "loop"} /\ v3.alr \in {"off", "held", "sending", "loop"}
  BY AlertsFacts DEF Alerts!SupType
<1>5. \A d \in Consumed : v6[d].status \in {"none", "active", "failed"}
  BY AlertsFacts DEF Alerts!DepType
<1> QED BY <1>1, <1>2, <1>3, <1>4, <1>5 DEF Alerts!TypeOK, AlertsBounds

ProjectBounds ==
    /\ \A e \in 1 .. MaxEvents : v4[e] <= MaxAttempts
    /\ v5 \cup v6 \cup v7 \cup v8 \subseteq 1 .. MaxEvents
    /\ v10 \subseteq v9 /\ v15 \subseteq Workers
    /\ \A i \in Projected : v2[i] <= MaxEvents
    /\ \A l \in Project!Listeners : \A i \in Projected : v14[l][i] <= MaxEvents
    /\ v16 \in Workers \cup {"off"}

LEMMA ProjectBoundsStay ==
    ASSUME Project!Followed, ProjectBounds, Project!Next
    PROVE  ProjectBounds'
<1> USE DEF ProjectBounds, Project!queue, Project!consumer, Project!fanout, Project!state, Project!Goto,
            Project!NextEntry
<1>1. /\ v1 \in Seq(Project!Entry) /\ Len(v1) \in Nat /\ Len(v1) <= MaxEvents /\ v3 \in Nat /\ v3 <= Len(v1)
      /\ v2 \in [Projected -> Nat] /\ v4 \in [1 .. MaxEvents -> Nat]
      /\ v11 \in [Workers -> Seq(1 .. v3)] /\ v13 \in [Project!Listeners -> Seq(1 .. Len(v1))]
      /\ v14 \in [Project!Listeners -> [Projected -> Nat]] /\ v9 \subseteq Workers
      /\ Workers \subseteq Project!Listeners /\ Client \in Project!Listeners
      /\ MaxEvents \in Nat /\ MaxAttempts \in Nat \ {0}
  BY ProjectFacts, ProjectAssumption
<1>2. ASSUME NEW w \in Workers, v11[w] # <<>> PROVE Project!First(w) \in 1 .. MaxEvents
  <2>1. Head(v11[w]) \in 1 .. v3
    BY <1>1, <1>2, SMTT(30)
  <2> QED BY <1>1, <2>1 DEF Project!First
<1>3. ASSUME NEW l \in Project!Listeners, v13[l] # <<>>,
             v14' = [v14 EXCEPT ![l][v1[Head(v13[l])].inst] = Head(v13[l])]
      PROVE  \A m \in Project!Listeners : \A i \in Projected : v14'[m][i] <= MaxEvents
  <2>1. PICK e : e = Head(v13[l])
    OBVIOUS
  <2>2. e \in 1 .. Len(v1)
    BY <1>1, <1>3, <2>1
  <2>3. e \in Nat /\ e <= MaxEvents
    BY <1>1, <2>2
  <2>4. v14' = [v14 EXCEPT ![l][v1[e].inst] = e]
    BY <1>3, <2>1
  <2> QED BY <1>1, <2>3, <2>4
<1>4. ASSUME NEW i \in Projected, Project!NodeEvent(i) PROVE ProjectBounds'
  <2>1. v2' = [v2 EXCEPT ![i] = Len(v1) + 1] /\ Len(v1) + 1 <= MaxEvents
    BY <1>1, <1>4 DEF Project!NodeEvent
  <2> QED BY <1>1, <1>4, <2>1 DEF Project!NodeEvent
<1>5. ASSUME NEW k, NEW i \in Projected, Project!OtherEvent(k, i) PROVE ProjectBounds'
  BY <1>5 DEF Project!OtherEvent
<1>6. ASSUME NEW w \in Workers, Project!ReadOnce(w) PROVE ProjectBounds'
  <2>1. v4' = [e \in 1 .. MaxEvents |-> IF e > v3 /\ e <= Len(v1) THEN 1 ELSE v4[e]]
    BY <1>6 DEF Project!ReadOnce, Project!Ids
  <2>2. \A e \in 1 .. MaxEvents : v4'[e] <= MaxAttempts
    BY <1>1, <2>1
  <2>3. UNCHANGED <<v2, v5, v6, v7, v8, v9, v10, v14, v15, v16>>
    BY <1>6 DEF Project!ReadOnce
  <2> QED BY <2>2, <2>3
<1>7. ASSUME NEW w \in Workers, Project!Recover(w) PROVE ProjectBounds'
  <2>1. PICK e \in 1 .. MaxEvents : v4' = [v4 EXCEPT ![e] = IF @ = MaxAttempts THEN @ ELSE @ + 1]
    BY <1>7 DEF Project!Recover, Project!Ids
  <2>2. \A x \in 1 .. MaxEvents : v4'[x] <= MaxAttempts
    BY <1>1, <2>1
  <2>3. UNCHANGED <<v2, v5, v6, v7, v8, v9, v10, v14, v15, v16>>
    BY <1>7 DEF Project!Recover
  <2> QED BY <2>2, <2>3
<1>8. ASSUME NEW w \in Workers, Project!Dispatch(w) PROVE ProjectBounds'
  BY <1>8 DEF Project!Dispatch, Project!Translate
<1>9. ASSUME NEW w \in Workers, Project!PublishState(w) \/ Project!PublishEvents(w) PROVE ProjectBounds'
  <2>1. Project!First(w) \in 1 .. MaxEvents
    BY <1>2, <1>9 DEF Project!PublishState, Project!PublishEvents
  <2>2. /\ v7' \subseteq v7 \cup {Project!First(w)} /\ v8' \subseteq v8 \cup {Project!First(w)}
        /\ UNCHANGED <<v2, v4, v5, v6, v9, v10, v14, v15, v16>>
    BY <1>9 DEF Project!PublishState, Project!PublishEvents
  <2> QED BY <2>1, <2>2
<1>10. ASSUME NEW w \in Workers, Project!PublishFails(w) PROVE ProjectBounds'
  BY <1>10 DEF Project!PublishFails
<1>11. ASSUME NEW w \in Workers, Project!Ack(w) PROVE ProjectBounds'
  <2>1. PICK e \in 1 .. MaxEvents : e = Project!First(w)
    BY <1>2, <1>11 DEF Project!Ack
  <2>2. v4' = v4 \/ v4' = [v4 EXCEPT ![e] = 0]
    BY <1>11, <2>1 DEF Project!Ack
  <2>3. \A x \in 1 .. MaxEvents : v4'[x] <= MaxAttempts
    <3>1. \A x \in 1 .. MaxEvents : v4'[x] = v4[x] \/ v4'[x] = 0
      BY <1>1, <2>2
    <3>2. \A x \in 1 .. MaxEvents : v4[x] <= MaxAttempts
      OBVIOUS
    <3>3. 0 <= MaxAttempts
      BY <1>1
    <3> HIDE DEF ProjectBounds
    <3> QED BY <3>1, <3>2, <3>3
  <2>4. v5' \subseteq v5 \cup {Project!First(w)} /\ UNCHANGED <<v2, v6, v7, v8, v9, v10, v14, v15, v16>>
    BY <1>11 DEF Project!Ack
  <2> QED BY <2>1, <2>3, <2>4
<1>12. ASSUME NEW w \in Workers, Project!MoveToDlq(w) PROVE ProjectBounds'
  <2>1. Project!First(w) \in 1 .. MaxEvents
    BY <1>2, <1>12 DEF Project!MoveToDlq
  <2>2. v6' \subseteq v6 \cup {Project!First(w)} /\ UNCHANGED <<v2, v4, v5, v7, v8, v9, v10, v14, v15, v16>>
    BY <1>12 DEF Project!MoveToDlq
  <2> QED BY <2>1, <2>2
<1>13. ASSUME NEW w \in Workers, Project!Apply(w) PROVE ProjectBounds'
  <2>1. /\ v13[w] # <<>> /\ v14' = [v14 EXCEPT ![w][v1[Head(v13[w])].inst] = Head(v13[w])]
        /\ v15' = v15 \cup {w} /\ UNCHANGED <<v2, v4, v5, v6, v7, v8, v9, v10, v16>>
    BY <1>13 DEF Project!Apply
  <2>2. \A m \in Project!Listeners : \A i \in Projected : v14'[m][i] <= MaxEvents
    BY <1>1, <1>3, <2>1
  <2> QED BY <2>1, <2>2
<1>14. ASSUME NEW w \in Workers
       PROVE  Project!Queried(w) \in [Projected -> Nat] /\ \A i \in Projected : Project!Queried(w)[i] <= MaxEvents
  BY <1>1 DEF Project!Queried, Project!ColdRead
<1>15. ASSUME NEW w \in Workers, Project!Query(w) \/ Project!Snapshot(w) PROVE ProjectBounds'
  <2>1. PICK q : q = Project!Queried(w)
    OBVIOUS
  <2>2. v14' = [v14 EXCEPT ![w] = q] \/ v14' = [v14 EXCEPT ![w] = q, ![Client] = q]
    BY <1>15, <2>1 DEF Project!Query, Project!Snapshot
  <2>3. \A l \in Project!Listeners : v14'[l] = v14[l] \/ v14'[l] = q
    BY <1>1, <2>2
  <2>4. \A l \in Project!Listeners : \A i \in Projected : v14'[l][i] <= MaxEvents
    BY <1>14, <2>1, <2>3
  <2>5. v15' = v15 \cup {w} /\ v16' \in {v16, w} /\ UNCHANGED <<v2, v4, v5, v6, v7, v8, v9, v10>>
    BY <1>15 DEF Project!Query, Project!Snapshot
  <2> QED BY <2>4, <2>5
<1>16. ASSUME NEW w \in Workers, Project!Dies(w) PROVE ProjectBounds'
  <2>1. /\ v9' = v9 \ {w} /\ v10' = v10 \ {w} /\ v15' \subseteq v15 /\ v16' \in {v16, "off"}
        /\ v14' = [v14 EXCEPT ![w] = Project!Blank] /\ UNCHANGED <<v2, v4, v5, v6, v7, v8>>
    BY <1>16 DEF Project!Dies
  <2>2. \A l \in Project!Listeners : \A i \in Projected : v14'[l][i] <= MaxEvents
    BY <1>1, <2>1 DEF Project!Blank
  <2> QED BY <2>1, <2>2
<1>17. ASSUME NEW w \in Workers, Project!Boots(w) \/ Project!Register(w) PROVE ProjectBounds'
  BY <1>17 DEF Project!Boots, Project!Register
<1>18. CASE Project!Subscribe
  BY <1>18 DEF Project!Subscribe
<1>19. CASE Project!Forward
  <2>1. /\ v13[Client] # <<>> /\ v14' = [v14 EXCEPT ![Client][v1[Head(v13[Client])].inst] = Head(v13[Client])]
        /\ UNCHANGED <<v2, v4, v5, v6, v7, v8, v9, v10, v15, v16>>
    BY <1>19 DEF Project!Forward
  <2>2. \A m \in Project!Listeners : \A i \in Projected : v14'[m][i] <= MaxEvents
    BY <1>1, <1>3, <2>1
  <2> QED BY <2>1, <2>2
<1>20. CASE Project!Disconnect
  BY <1>20 DEF Project!Disconnect
<1> QED BY <1>4, <1>5, <1>6, <1>7, <1>8, <1>9, <1>10, <1>11, <1>12, <1>13, <1>15, <1>16, <1>17, <1>18, <1>19, <1>20
        DEF Project!Next

LEMMA ProjectTypes ==
    ASSUME Project!Followed, ProjectBounds PROVE Project!TypeOK
<1>1. /\ Len(v1) \in Nat /\ Len(v1) <= MaxEvents /\ v3 \in Nat /\ v3 <= Len(v1) /\ v4 \in [1 .. MaxEvents -> Nat]
      /\ v14 \in [Project!Listeners -> [Projected -> Nat]] /\ v9 \subseteq Workers /\ v17 \in BOOLEAN
      /\ v12 \in [Workers -> {"dispatch", "state", "events", "ack", "dlq"}]
      /\ MaxEvents \in Nat /\ MaxAttempts \in Nat
  BY ProjectFacts, ProjectAssumption
<1>2. v4 \in [1 .. MaxEvents -> 0 .. MaxAttempts] /\ v3 \in 0 .. Len(v1)
  BY <1>1 DEF ProjectBounds
<1>3. v14 \in [Project!Listeners -> [Projected -> 0 .. MaxEvents]]
  <2>1. \A l \in Project!Listeners : v14[l] \in [Projected -> 0 .. MaxEvents]
    BY <1>1 DEF ProjectBounds
  <2> QED BY <1>1, <2>1
<1> QED BY <1>1, <1>2, <1>3 DEF Project!TypeOK, Project!Ids, ProjectBounds

\* The locks of every path are locks that there are, whatever the order of the candidates.
LocksBounds == Locks!TypeOK /\ v1 \in [Txns -> TxType]

LEMMA LinkIsTyped ==
    ASSUME NEW o \in LinkOrders PROVE Locks!LinkLocks(o) \in Seq(SUBSET Locks!Locks)
<1>1. o \in Seq({o[i] : i \in DOMAIN o}) /\ DOMAIN o = 1..Len(o) /\ Len(o) \in Nat
  BY LockAssumption
<1>2. \A i \in DOMAIN o : {Locks!Cand(o[i])} \in SUBSET Locks!Locks
  BY LockNames DEF Locks!Candidates, Locks!Range
<1>3. Locks!LinkLocks(o) \in [1..Len(o) -> SUBSET Locks!Locks]
  BY <1>1, <1>2 DEF Locks!LinkLocks
<1> QED BY <1>1, <1>3

LEMMA SweepIsTyped ==
    ASSUME NEW S \in SUBSET Deps PROVE Locks!SweepLocks(S) \in Seq(SUBSET Locks!Locks)
<1> DEFINE n == Cardinality(S)
           f == Locks!ById(S)
           nodes == {Locks!Node(d) : d \in S}
<1>1. n \in Nat /\ f \in [1..n -> S]
  BY SweepOrder
<1> DEFINE first == [i \in 1..n |-> {Locks!Dep(f[i])}]
<1>2. Locks!SweepLocks(S) = first \o <<nodes>>
  BY LockCounts DEF Locks!SweepLocks, Locks!DepsById
<1>3. nodes \in SUBSET Locks!Locks
  BY LockNames
<1> HIDE DEF f, n, nodes
<1>4. \A i \in 1..n : {Locks!Dep(f[i])} \in SUBSET Locks!Locks
  BY <1>1, LockNames
<1>5. first \in [1..n -> SUBSET Locks!Locks]
  BY <1>4
<1>6. first \in Seq(SUBSET Locks!Locks) /\ <<nodes>> \in Seq(SUBSET Locks!Locks)
  BY <1>1, <1>3, <1>5
<1> HIDE DEF first
<1> QED BY <1>2, <1>6

LEMMA LocksBoundsStay ==
    ASSUME LocksBounds, Locks!Next
    PROVE  LocksBounds'
<1>1. PICK t \in Txns : Locks!Begin(t) \/ Locks!Acquire(t) \/ Locks!Guard(t) \/ Locks!Commit(t)
  BY DEF Locks!Next
<1>2. /\ v1 \in [Txns -> TxType] /\ v1[t] \in TxType /\ v1[t].todo \in Seq(SUBSET Locks!Locks)
      /\ v1[t].deps \in SUBSET Deps /\ v3 \subseteq Deps /\ v4 \in 0..MaxTxns /\ MaxTxns \in Nat
      /\ Locks!Held \subseteq Locks!Locks /\ \A l \in Locks!Held : v2[l] \in Txns
  BY LockAssumption DEF LocksBounds, Locks!TypeOK, TxType
<1>3. ASSUME NEW x \in TxType, v1' = [v1 EXCEPT ![t] = x], UNCHANGED <<v2, v3>>, v4' \in 0..MaxTxns
      PROVE  LocksBounds'
  <2>1. Locks!Held' = Locks!Held
    BY <1>3 DEF Locks!Held
  <2> QED BY <1>2, <1>3, <2>1 DEF LocksBounds, Locks!TypeOK
<1>4. ASSUME NEW path \in Locks!Paths, NEW deps \in SUBSET Deps, NEW todo \in Seq(SUBSET Locks!Locks),
             Locks!Open(t, path, deps, todo)
      PROVE  LocksBounds'
  <2>1. [path |-> path, deps |-> deps, todo |-> todo, ok |-> FALSE] \in TxType
    BY DEF TxType
  <2>2. v4' \in 0..MaxTxns
    BY <1>2, <1>4 DEF Locks!Open
  <2> QED BY <1>3, <1>4, <2>1, <2>2 DEF Locks!Open
<1>5. CASE Locks!Begin(t)
  <2> USE DEF Locks!Paths
  <2>1. ASSUME NEW d \in Deps
        PROVE  /\ Locks!PhaseALocks(d) \in Seq(SUBSET Locks!Locks) /\ Locks!BothRowLocks(d) \in Seq(SUBSET Locks!Locks)
               /\ Locks!NodeOnlyLocks(d) \in Seq(SUBSET Locks!Locks) /\ Locks!StartLocks(d) \in Seq(SUBSET Locks!Locks)
    BY LockNames DEF Locks!PhaseALocks, Locks!BothRowLocks, Locks!NodeOnlyLocks, Locks!StartLocks
  <2>2. CASE \E d \in Deps : \/ Locks!Open(t, "phaseA", {d}, Locks!PhaseALocks(d))
                             \/ Locks!Open(t, "both", {d}, Locks!BothRowLocks(d))
                             \/ Locks!Open(t, "node", {d}, Locks!NodeOnlyLocks(d))
                             \/ Locks!Open(t, "start", {d}, Locks!StartLocks(d))
    BY <1>4, <2>1, <2>2
  <2>3. CASE \E S \in (SUBSET Deps) \ {{}} : Locks!Open(t, "sweep", S, Locks!SweepLocks(S))
    BY <1>4, <2>3, SweepIsTyped
  <2>4. CASE Locks!Open(t, "account", {}, Locks!AccountLocks)
    <3>1. Locks!AccountLocks \in Seq(SUBSET Locks!Locks)
      BY LockNames DEF Locks!AccountLocks
    <3> QED BY <1>4, <2>4, <3>1
  <2>5. CASE \E o \in LinkOrders : Locks!Open(t, "link", {}, Locks!LinkLocks(o))
    BY <1>4, <2>5, LinkIsTyped
  <2> QED BY <1>5, <2>2, <2>3, <2>4, <2>5 DEF Locks!Begin
<1>6. CASE Locks!Acquire(t)
  <2>1. PICK l \in Locks!Wants(t) \ Locks!Held :
          /\ v2' = [k \in Locks!Held \cup {l} |-> IF k = l THEN t ELSE v2[k]]
          /\ v1' = [v1 EXCEPT ![t].todo = IF Locks!Wants(t) = {l} THEN Tail(@) ELSE @]
          /\ UNCHANGED <<v3, v4>>
    BY <1>6 DEF Locks!Acquire
  <2>2. v1[t].todo # <<>> /\ l \in Head(v1[t].todo)
    BY <2>1 DEF Locks!Wants
  <2>3. l \in Locks!Locks
    BY <1>2, <2>2
  <2>4. Locks!Held' = Locks!Held \cup {l}
    BY <2>1 DEF Locks!Held
  <2>5. Locks!Held' \subseteq Locks!Locks /\ \A k \in Locks!Held' : v2'[k] \in Txns
    BY <1>2, <2>1, <2>3, <2>4
  <2>6. PICK todo \in Seq(SUBSET Locks!Locks) : v1' = [v1 EXCEPT ![t].todo = todo]
    <3>1. Tail(v1[t].todo) \in Seq(SUBSET Locks!Locks)
      BY <1>2, <2>2
    <3>2. v1' = [v1 EXCEPT ![t].todo = Tail(v1[t].todo)] \/ v1' = [v1 EXCEPT ![t].todo = v1[t].todo]
      BY <2>1
    <3> QED BY <1>2, <3>1, <3>2
  <2>7. [v1[t] EXCEPT !.todo = todo] \in TxType
    BY <1>2, <2>6 DEF TxType
  <2>8. v1' \in [Txns -> TxType]
    BY <1>2, <2>6, <2>7
  <2> QED BY <1>2, <2>1, <2>5, <2>8 DEF LocksBounds, Locks!TypeOK
<1>7. CASE Locks!Guard(t)
  <2>1. v1' = [v1 EXCEPT ![t] = [v1[t] EXCEPT !.ok = TRUE]] /\ UNCHANGED <<v2, v3, v4>>
    BY <1>7 DEF Locks!Guard
  <2>2. [v1[t] EXCEPT !.ok = TRUE] \in TxType
    BY <1>2 DEF TxType
  <2> QED BY <1>2, <1>3, <2>1, <2>2
<1>8. CASE Locks!Commit(t)
  <2>1. /\ v1' = [v1 EXCEPT ![t] = Locks!Closed] /\ v4' = v4 /\ v3' \subseteq v3 \cup v1[t].deps
        /\ v2' = [k \in {l \in Locks!Held : v2[l] # t} |-> v2[k]]
    BY <1>8 DEF Locks!Commit
  <2>2. Locks!Closed \in TxType
    BY DEF TxType, Locks!Closed, Locks!Paths, Locks!None
  <2>3. v1' \in [Txns -> TxType]
    BY <1>2, <2>1, <2>2
  <2>4. Locks!Held' = {l \in Locks!Held : v2[l] # t}
    BY <2>1 DEF Locks!Held
  <2>5. Locks!Held' \subseteq Locks!Locks /\ \A l \in Locks!Held' : v2'[l] \in Txns
    BY <1>2, <2>1, <2>4
  <2> QED BY <1>2, <2>1, <2>3, <2>5 DEF LocksBounds, Locks!TypeOK
<1> QED BY <1>1, <1>5, <1>6, <1>7, <1>8

Parts == {"Gate", "Halts", "Audit", "Fresh", "Flat", "Locks", "Project", "Alerts", "Routing"}

\* What the invariants of the parts have not bounded.
Bounds ==
    /\ part \in Parts
    /\ part = "Halts" => HaltsBounds
    /\ part = "Locks" => LocksBounds
    /\ part = "Project" => ProjectBounds
    /\ part = "Alerts" => AlertsBounds

LEMMA BoundsStart == ASSUME Init PROVE Bounds
<1>1. part \in Parts
  BY DEF Init, Parts
<1>2. part = "Halts" => HaltsBounds
  <2> SUFFICES ASSUME part = "Halts" PROVE HaltsBounds
    OBVIOUS
  <2>1. /\ v1 = FALSE /\ v2 = [d \in Halted |-> Halts!None] /\ v4 = [d \in Halted |-> 0]
        /\ v6 = [d \in Halted |-> "off"] /\ v7 = [d \in Halted |-> 0]
    BY DEF Init, Halts!Init
  <2>2. 0 <= MaxRuns
    BY BoundsAssumption
  <2> QED BY <2>1, <2>2 DEF HaltsBounds
<1>3. part = "Locks" => LocksBounds
  <2>1. Locks!Closed \in TxType
    BY DEF TxType, Locks!Closed, Locks!Paths, Locks!None
  <2> QED BY <2>1, LockAssumption DEF Init, Locks!Init, LocksBounds, Locks!TypeOK, Locks!Held
<1>4. part = "Project" => ProjectBounds
  BY ProjectAssumption DEF Init, Project!Init, Project!Ids, Project!Blank, ProjectBounds
<1>5. part = "Alerts" => AlertsBounds
  BY AlertsAssumption DEF Init, Alerts!Init, Alerts!None, AlertsBounds
<1> QED BY <1>1, <1>2, <1>3, <1>4, <1>5 DEF Bounds

LEMMA BoundsStutter == ASSUME Bounds, UNCHANGED pool PROVE Bounds'
<1>1. UNCHANGED <<part, v1, v2, v3, v4, v5, v6, v7, v8, v9, v10, v11, v14, v15, v16>>
  BY DEF pool, Rest4, Rest5, Rest6, Rest7, Rest8, Rest9, Rest10, Rest11, Rest12, Rest13, Rest14, Rest15, Rest16
<1>2. (part = "Halts" => HaltsBounds)' /\ (part = "Alerts" => AlertsBounds)'
  BY <1>1 DEF Bounds, HaltsBounds, AlertsBounds
<1>3. (part = "Locks" => LocksBounds)' /\ (part = "Project" => ProjectBounds)'
  BY <1>1 DEF Bounds, LocksBounds, Locks!TypeOK, Locks!Held, ProjectBounds
<1> QED BY <1>1, <1>2, <1>3 DEF Bounds

LEMMA BoundsStep ==
    ASSUME Bounds, Next, part = "Halts" => Halts!TrustedHalts, part = "Project" => Project!Followed,
           part = "Alerts" => Alerts!FaithfulAlerts
    PROVE  Bounds'
<1>1. part' = part
  BY DEF Next
<1>2. part = "Halts" => HaltsBounds'
  BY HaltsBoundsStay DEF Next, Bounds
<1>3. part = "Locks" => LocksBounds'
  BY LocksBoundsStay DEF Next, Bounds
<1>4. part = "Project" => ProjectBounds'
  BY ProjectBoundsStay DEF Next, Bounds
<1>5. part = "Alerts" => AlertsBounds'
  BY AlertsBoundsStay DEF Next, Bounds
<1> QED BY <1>1, <1>2, <1>3, <1>4, <1>5 DEF Bounds

\* Every component of a node keeps its state within its type, over any numbers of deployments,
\* requests, transactions, workers, feeds and accounts: no run number passes the bound on the
\* runs, no delivery count the limit from which an entry goes to the DLQ, and no age the
\* threshold it is compared with.
THEOREM NodesStayTyped == Spec => []TypeOK
<1> DEFINE Sound ==
             /\ part = "Gate" => Gate!SafeGate
             /\ part = "Halts" => Halts!TrustedHalts
             /\ part = "Audit" => Audit!AuditTrail
             /\ part = "Fresh" => Fresh!ExactStaleness
             /\ part = "Flat" => Flat!HonestStops
             /\ part = "Project" => Project!Followed
             /\ part = "Alerts" => Alerts!FaithfulAlerts
             /\ part = "Routing" => Routing!RightRouting
<1>1. Spec => []Sound
  BY GateInvariant, HaltsInvariant, AuditInvariant, FreshInvariant, FlatInvariant, ProjectInvariant,
     AlertsInvariant, RoutingInvariant, PTL
<1>2. Init => Bounds
  BY BoundsStart
<1>3. Sound /\ Bounds /\ [Next]_pool => Bounds'
  BY BoundsStep, BoundsStutter
<1>4. ASSUME Sound, Bounds PROVE TypeOK
  <2>1. part = "Gate" => Gate!TypeOK
    BY <1>4 DEF Gate!SafeGate
  <2>2. part = "Halts" => Halts!TypeOK
    BY <1>4, HaltsAreTyped DEF Bounds
  <2>3. part = "Audit" => Audit!TypeOK
    BY <1>4 DEF Audit!AuditTrail
  <2>4. part = "Fresh" => Fresh!TypeOK
    BY <1>4 DEF Fresh!ExactStaleness
  <2>5. part = "Flat" => Flat!TypeOK
    BY <1>4 DEF Flat!HonestStops
  <2>6. part = "Locks" => Locks!TypeOK
    BY <1>4 DEF Bounds, LocksBounds
  <2>7. part = "Project" => Project!TypeOK
    BY <1>4, ProjectTypes DEF Bounds
  <2>8. part = "Alerts" => Alerts!TypeOK
    BY <1>4, AlertsTypes DEF Bounds
  <2>9. part = "Routing" => Routing!TypeOK
    BY <1>4 DEF Routing!RightRouting
  <2>10. part \in Parts
    BY <1>4 DEF Bounds
  <2> QED BY <2>1, <2>2, <2>3, <2>4, <2>5, <2>6, <2>7, <2>8, <2>9, <2>10 DEF TypeOK, Parts
<1> HIDE DEF Sound
<1> QED BY <1>1, <1>2, <1>3, <1>4, PTL DEF Spec
=============================================================================
