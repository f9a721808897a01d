----------------------------- MODULE OrderAudit -----------------------------
(***************************************************************************)
(* The audit trail of one order that closes a position: the handlers of     *)
(* events.order.* and events.position.* in a trading subprocess, which hand *)
(* every event to a task of its own, and OrderAuditWriter, which writes the  *)
(* order_attempt_audits row and the Trade rows. Tasks run in any order, a    *)
(* failing one is logged and forgotten, a crash loses all of them, and the   *)
(* reconciliation of the next process replays the fills the venue reports.   *)
(***************************************************************************)
EXTENDS Integers, FiniteSets

CONSTANTS
    Trades,         \* the venue's trade ids, one per (partial) fill
    MaxRuns,        \* bound on the processes
    MaxFaults       \* bound on failing transactions

VARIABLES
    order,          \* the engine's state of the order
    fills,          \* the trades the venue has executed
    seen,           \* the trades this process has had an OrderFilled of
    tasks,          \* the tasks: [ev, trade, at, run]
    audit,          \* status of the order_attempt_audits row, or "none"
    trades,         \* number of Trade rows of each trade id
    pnl,            \* the Trade rows with a realized P&L
    counted,        \* how often ORDERS_FILLED counted each trade
    outcome,        \* what became of the update_trade_pnl calls
    run, faults

vars == <<order, fills, seen, tasks, audit, trades, pnl, counted, outcome, run, faults>>

NoTrade   == "-"
Row       == [ev : {"submitted", "accepted", "canceled", "rejected", "denied", "closed"},
              trade : {NoTrade}, at : {"begin"}, run : 1 .. MaxRuns]
             \cup [ev : {"filled"}, trade : Trades, at : {"begin", "audit"}, run : 1 .. MaxRuns]
Task(ev, t) == [ev |-> ev, trade |-> t, at |-> "begin", run |-> run]
Recorded  == {t \in Trades : trades[t] > 0}

-----------------------------------------------------------------------------
(* The engine and the venue.                                                *)

\* _on_order_event_sync: one task per event, and the engine goes on.
Emit(ev, from, to) ==
    /\ order \in from /\ order' = to
    /\ tasks' = tasks \cup {Task(ev, NoTrade)}
    /\ UNCHANGED <<fills, seen, audit, trades, pnl, counted, outcome, run, faults>>

OrderSubmitted == Emit("submitted", {"new"}, "submitted")
OrderAccepted  == Emit("accepted", {"submitted"}, "accepted")
OrderRejected  == Emit("rejected", {"submitted"}, "rejected")
OrderCanceled  == Emit("canceled", {"accepted"}, "canceled")

\* The risk gate denies the order before it leaves (RiskAwareStrategy._record_denial).
OrderDenied    == Emit("denied", {"new"}, "denied")

\* A fill; the last one closes the position, which is an event of its own.
OrderFilled(t) ==
    /\ order = "accepted" /\ t \notin fills
    /\ fills' = fills \cup {t} /\ seen' = seen \cup {t}
    /\ IF fills' = Trades
       THEN order' = "filled" /\ tasks' = tasks \cup {Task("filled", t), Task("closed", NoTrade)}
       ELSE order' = order /\ tasks' = tasks \cup {Task("filled", t)}
    /\ UNCHANGED <<audit, trades, pnl, counted, outcome, run, faults>>

\* The process dies with its tasks; the next one reconciles with the venue.
Restart ==
    /\ run < MaxRuns /\ run' = run + 1 /\ order # "new"
    /\ tasks' = {} /\ seen' = {}
    /\ UNCHANGED <<order, fills, audit, trades, pnl, counted, outcome, faults>>

Replay(t) ==
    /\ run > 1 /\ t \in fills \ seen
    /\ seen' = seen \cup {t} /\ tasks' = tasks \cup {Task("filled", t)}
    /\ UNCHANGED <<order, fills, audit, trades, pnl, counted, outcome, run, faults>>

-----------------------------------------------------------------------------
(* The writer: one transaction per step.                                    *)

\* The status a writer call leaves: write_submitted inserts (a second insert is a
\* unique violation), write_denied inserts or updates, the others update.
AuditAfter(ev) ==
    CASE ev = "submitted" -> IF audit = "none" THEN "submitted" ELSE audit
      [] ev = "denied"    -> "denied"
      [] OTHER            -> IF audit = "none" THEN "none" ELSE ev

WriteStatus(k) ==
    /\ k \in tasks /\ k.ev \notin {"filled", "closed"}
    /\ audit' = AuditAfter(k.ev) /\ tasks' = tasks \ {k}
    /\ UNCHANGED <<order, fills, seen, trades, pnl, counted, outcome, run, faults>>

\* Mutant: the insert without its ON CONFLICT clause and unique index.
InsertAlways(t) == [persisted |-> TRUE, rows |-> [trades EXCEPT ![t] = @ + 1]]

\* write_trade_fill: INSERT ... ON CONFLICT DO NOTHING RETURNING id.
write_trade_fill(t) == [persisted |-> trades[t] = 0,
                        rows      |-> [trades EXCEPT ![t] = IF @ = 0 THEN 1 ELSE @]]

WriteFill(k) ==
    /\ k \in tasks /\ k.ev = "filled" /\ k.at = "begin"
    /\ LET w == write_trade_fill(k.trade)
       IN  /\ trades' = w.rows
           /\ tasks' = (tasks \ {k}) \cup (IF w.persisted THEN {[k EXCEPT !.at = "audit"]} ELSE {})
    /\ UNCHANGED <<order, fills, seen, audit, pnl, counted, outcome, run, faults>>

\* update_filled and, whatever it found, the metric.
UpdateFilled(k) ==
    /\ k \in tasks /\ k.ev = "filled" /\ k.at = "audit"
    /\ audit' = AuditAfter("filled")
    /\ counted' = [counted EXCEPT ![k.trade] = @ + 1]
    /\ tasks' = tasks \ {k}
    /\ UNCHANGED <<order, fills, seen, trades, pnl, outcome, run, faults>>

\* update_trade_pnl: UPDATE ... WHERE client_order_id = closing_order_id RETURNING id,
\* read with scalar_one_or_none, which raises on a second row and rolls back.
WritePnl(k) ==
    /\ k \in tasks /\ k.ev = "closed" /\ tasks' = tasks \ {k}
    /\ LET n == Cardinality(Recorded)
       IN  /\ pnl' = IF n = 1 THEN Recorded ELSE pnl
           /\ outcome' = IF n = 0 THEN "no row" ELSE IF n = 1 THEN "written" ELSE "rolled back"
    /\ UNCHANGED <<order, fills, seen, audit, trades, counted, run, faults>>

\* A transaction fails: the handler's except prints it and the task ends.
WriteFails(k) ==
    /\ k \in tasks /\ faults < MaxFaults /\ faults' = faults + 1
    /\ tasks' = tasks \ {k}
    /\ UNCHANGED <<order, fills, seen, audit, trades, pnl, counted, outcome, run>>

-----------------------------------------------------------------------------
Init ==
    /\ order = "new" /\ fills = {} /\ seen = {} /\ tasks = {}
    /\ audit = "none" /\ trades = [t \in Trades |-> 0] /\ pnl = {}
    /\ counted = [t \in Trades |-> 0] /\ outcome = "none"
    /\ run = 1 /\ faults = 0

Next ==
    \/ OrderSubmitted \/ OrderAccepted \/ OrderRejected \/ OrderCanceled \/ OrderDenied
    \/ \E t \in Trades : OrderFilled(t) \/ Replay(t)
    \/ Restart
    \/ \E k \in tasks : WriteStatus(k) \/ WriteFill(k) \/ UpdateFilled(k) \/ WritePnl(k) \/ WriteFails(k)

Spec == Init /\ [][Next]_vars

-----------------------------------------------------------------------------
TypeOK ==
    /\ order \in {"new", "submitted", "accepted", "rejected", "canceled", "denied", "filled"}
    /\ seen \subseteq fills /\ fills \subseteq Trades /\ tasks \subseteq Row
    /\ audit \in {"none", "submitted", "accepted", "rejected", "canceled", "denied", "filled"}
    /\ pnl \subseteq Recorded

\* A fill is recorded and counted once, over crashes, replays by the reconciliation
\* and tasks in any order: no trade id has two Trade rows, none is counted by
\* ORDERS_FILLED twice, only a recorded one is counted, and once the tasks of every
\* fill the process knows are through, without a database error, all are recorded.
\* (The partial unique index, and the metric behind write_trade_fill's answer.)
FillRecordedOnce ==
    /\ \A t \in Trades : /\ trades[t] <= 1
                         /\ counted[t] <= trades[t]
                         /\ trades[t] > 0 => t \in fills
    /\ faults = 0 /\ tasks = {} /\ seen = fills => Recorded = fills

\* Why FillRecordedOnce holds, as an inductive invariant. A task past its insert stands
\* for a row that only it will count, and there is one such task per row.
BooksAreTyped ==
    /\ trades \in [Trades -> 0 .. 1] /\ counted \in [Trades -> 0 .. 1]
    /\ run \in 1 .. MaxRuns /\ faults \in Nat

FillTasks(t, at) == {k \in tasks : k.ev = "filled" /\ k.trade = t /\ k.at = at}

TaskIsOfSeenFill == \A k \in tasks : k.ev = "filled" => k.trade \in seen

UncountedRow ==
    \A t \in Trades : \A k \in FillTasks(t, "audit") :
        /\ trades[t] = 1 /\ counted[t] = 0
        /\ \A l \in FillTasks(t, "audit") : l = k

RowsAreOfFills ==
    \A t \in Trades : counted[t] <= trades[t] /\ (trades[t] > 0 => t \in fills)

SeenIsUnderWay ==
    faults = 0 => \A t \in seen : trades[t] = 1 \/ FillTasks(t, "begin") # {}

AuditTrail == TypeOK /\ BooksAreTyped /\ TaskIsOfSeenFill /\ UncountedRow /\ RowsAreOfFills
                /\ SeenIsUnderWay

\* The docstring of update_trade_pnl: it updates "the most recent fill for that order"
\* and answers False only "when no match was found". So when the Trade rows are there
\* the P&L of the position is written. Does not hold: an order with two fills has two.
PnlIsWritten == outcome # "rolled back"
=============================================================================
