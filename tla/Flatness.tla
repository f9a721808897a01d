------------------------------ MODULE Flatness ------------------------------
(***************************************************************************)
(* Flatness reports of one deployment. /stop and /kill-all coalesce on the   *)
(* key inflight_stop, whose first holder publishes STOP_AND_REPORT_FLATNESS  *)
(* with its nonce; the supervisor pushes a ticket and signals the child; the *)
(* child drains the tickets as it shuts down and writes stop_report:{nonce}, *)
(* which the requests poll for; /stop then waits for a terminal row.         *)
(* A request's nonce is its own name.                                        *)
(***************************************************************************)
EXTENDS Integers, Sequences

CONSTANTS
    Stops,          \* the /stop requests
    Kills,          \* the /kill-all requests
    MaxRuns,        \* bound on the node's runs
    MaxFaults       \* bound on failed publishes, crashes of the node and redeliveries

VARIABLES
    req,            \* the requests: [pc, nonce, run, report, answer, ended]
    inflight,       \* inflight_stop: a nonce or none
    bus,            \* published commands: a sequence of nonces
    handled,        \* the command whose ticket is pushed and whose stop() is due, or none
    pending,        \* flatness_pending: a sequence of nonces
    report,         \* stop_report of each nonce: the run that wrote it, or NoReport
    node,           \* the child: [run, pc]
    unknown,        \* the key stop_unknown exists
    born,           \* the run that was active when a nonce was created (history)
    faults

vars == <<req, inflight, bus, handled, pending, report, node, unknown, born, faults>>

Requests == Stops \cup Kills
None     == "none"
NoReport == 0

At(q, pc)    == req[q].pc = pc
Goto(q, pc)  == req' = [req EXCEPT ![q].pc = pc]
Answer(q, x) == req' = [req EXCEPT ![q].pc = "done", ![q].answer = x]
Active       == node.pc # "down"
Fault        == faults < MaxFaults /\ faults' = faults + 1

-----------------------------------------------------------------------------
(* The requests.                                                             *)

\* Without an active row /stop answers at once, with the unknown of an earlier stop if
\* there is one; /kill-all has nothing to publish.
Begin(q) ==
    /\ At(q, "begin")
    /\ IF Active THEN req' = [req EXCEPT ![q].pc = "set", ![q].run = node.run]
       ELSE Answer(q, IF q \in Kills THEN "nothing" ELSE IF unknown THEN "unknown" ELSE "stopped")
    /\ UNCHANGED <<inflight, bus, handled, pending, report, node, unknown, born, faults>>

\* SET NX of inflight_stop; a loser reads the holder's nonce, and tries again if it is gone.
Coalesce(q) ==
    /\ At(q, "set")
    /\ IF inflight = None
       THEN /\ inflight' = q /\ born' = [born EXCEPT ![q] = node.run]
            /\ req' = [req EXCEPT ![q].pc = "publish", ![q].nonce = q]
       ELSE Goto(q, "get") /\ UNCHANGED <<inflight, born>>
    /\ UNCHANGED <<bus, handled, pending, report, node, unknown, faults>>

Join(q) ==
    /\ At(q, "get")
    /\ req' = IF inflight = None THEN [req EXCEPT ![q].pc = "set"]
              ELSE [req EXCEPT ![q].pc = "poll", ![q].nonce = inflight]
    /\ UNCHANGED <<inflight, bus, handled, pending, report, node, unknown, born, faults>>

Publish(q) ==
    /\ At(q, "publish")
    /\ \/ bus' = Append(bus, q) /\ Goto(q, "poll") /\ UNCHANGED <<inflight, faults>>
       \/ Fault /\ inflight' = None /\ Answer(q, "error") /\ UNCHANGED bus
    /\ UNCHANGED <<handled, pending, report, node, unknown, born>>

\* poll_stop_report: the report, or none at the deadline. /kill-all answers with it, and
\* frees the key if there is one; /stop waits for the row.
PollReport(q) ==
    /\ At(q, "poll")
    /\ LET r == report[req[q].nonce]
       IN IF q \in Stops
          THEN req' = [req EXCEPT ![q].pc = "row", ![q].report = r] /\ UNCHANGED inflight
          ELSE /\ req' = [req EXCEPT ![q].pc = "done", ![q].report = r,
                                     ![q].answer = IF r = NoReport THEN "unknown" ELSE "stopped"]
               /\ inflight' = IF r = NoReport THEN inflight ELSE None
    /\ UNCHANGED <<bus, handled, pending, report, node, unknown, born, faults>>

\* Mutant: a report alone is taken for the end of the node.
RowOrReport(q) == ~Active \/ req[q].report # NoReport
\* _poll_for_terminal sees the latest row.
RowIsTerminal(q) == ~Active

PollRow(q) ==
    /\ At(q, "row")
    /\ IF RowIsTerminal(q)
       THEN req' = [req EXCEPT ![q].pc = "free", ![q].ended = IF Active THEN 0 ELSE node.run]
       ELSE Answer(q, "timeout")
    /\ UNCHANGED <<inflight, bus, handled, pending, report, node, unknown, born, faults>>

\* The deployment is stopped: free the key, whoever holds it now ...
Free(q) ==
    /\ At(q, "free") /\ inflight' = None /\ Goto(q, "answer")
    /\ UNCHANGED <<bus, handled, pending, report, node, unknown, born, faults>>

\* ... and answer, remembering that the broker's positions were never confirmed.
Finish(q) ==
    /\ At(q, "answer")
    /\ unknown' = (unknown \/ req[q].report = NoReport)
    /\ Answer(q, IF req[q].report = NoReport THEN "unknown" ELSE "stopped")
    /\ UNCHANGED <<inflight, bus, handled, pending, report, node, born, faults>>

\* _INFLIGHT_TTL_S is over, which is later than the holder's poll.
ExpireInflight ==
    /\ inflight # None /\ ~At(inflight, "publish") /\ ~At(inflight, "poll")
    /\ inflight' = None
    /\ UNCHANGED <<req, bus, handled, pending, report, node, unknown, born, faults>>

-----------------------------------------------------------------------------
(* The supervisor and the child.                                             *)

\* push_flatness_request, then stop(): SIGTERM if there is an active row.
PushTicket ==
    /\ bus # <<>> /\ handled = None
    /\ handled' = Head(bus) /\ pending' = Append(pending, Head(bus))
    /\ UNCHANGED <<req, inflight, bus, report, node, unknown, born, faults>>

Signal ==
    /\ handled # None /\ handled' = None /\ bus' = Tail(bus)
    /\ node' = [node EXCEPT !.pc = IF Active THEN "stopping" ELSE "down"]
    /\ UNCHANGED <<req, inflight, pending, report, unknown, born, faults>>

\* The supervisor dies between the two: the command is redelivered, with a second ticket.
SupervisorCrash ==
    /\ handled # None /\ Fault /\ handled' = None
    /\ UNCHANGED <<req, inflight, bus, pending, report, node, unknown, born>>

\* The tickets are gone 120 s after the last push.
ExpireTickets ==
    /\ pending # <<>> /\ ~Active /\ pending' = <<>>
    /\ UNCHANGED <<req, inflight, bus, handled, report, node, unknown, born, faults>>

\* Mutant: one report, whatever ticket asked for it.
ReportAnyNonce(n) == Requests
\* _drain_and_report_flatness: the report of a ticket goes to its nonce.
ReportsTo(n) == {n}

\* Which positions it lists (all of them open, or unreadable: not flat) is left out.
Drain ==
    /\ node.pc = "stopping" /\ pending # <<>> /\ pending' = Tail(pending)
    /\ report' = [n \in Requests |-> IF n \in ReportsTo(Head(pending))
                                     THEN node.run ELSE report[n]]
    /\ UNCHANGED <<req, inflight, bus, handled, node, unknown, born, faults>>

Exit ==
    /\ node.pc = "stopping" /\ pending = <<>> /\ node' = [node EXCEPT !.pc = "down"]
    /\ UNCHANGED <<req, inflight, bus, handled, pending, report, unknown, born, faults>>

NodeCrash ==
    /\ Active /\ Fault /\ node' = [node EXCEPT !.pc = "down"]
    /\ UNCHANGED <<req, inflight, bus, handled, pending, report, unknown, born>>

\* An operator starts the deployment again; /resume drops the unknown marker first.
Restart ==
    /\ ~Active /\ node.run < MaxRuns
    /\ node' = [run |-> node.run + 1, pc |-> "running"]
    /\ unknown' \in {unknown, FALSE}
    /\ UNCHANGED <<req, inflight, bus, handled, pending, report, born, faults>>

-----------------------------------------------------------------------------
Init ==
    /\ req = [q \in Requests |-> [pc |-> "begin", nonce |-> None, run |-> 0, report |-> NoReport,
                                  answer |-> None, ended |-> 0]]
    /\ inflight = None /\ bus = <<>> /\ handled = None /\ pending = <<>>
    /\ report = [q \in Requests |-> NoReport]
    /\ node = [run |-> 1, pc |-> "running"]
    /\ unknown = FALSE /\ born = [q \in Requests |-> 0] /\ faults = 0

Request(q) == Begin(q) \/ Coalesce(q) \/ Join(q) \/ Publish(q) \/ PollReport(q)
                \/ PollRow(q) \/ Free(q) \/ Finish(q)
Next == (\E q \in Requests : Request(q)) \/ ExpireInflight \/ PushTicket \/ Signal
          \/ SupervisorCrash \/ ExpireTickets \/ Drain \/ Exit \/ NodeCrash \/ Restart

Spec == Init /\ [][Next]_vars

-----------------------------------------------------------------------------
TypeOK ==
    /\ inflight \in Requests \cup {None} /\ handled \in Requests \cup {None}
    /\ bus \in Seq(Requests) /\ pending \in Seq(Requests)
    /\ node \in [run : 1..MaxRuns, pc : {"running", "stopping", "down"}]
    /\ \A q \in Requests : req[q].nonce \in Requests \cup {None}

\* What a /stop that found an active node answers: "stopped" only once that node, or a later
\* one, has ended, and with the report of a run that is not older than the nonce's own
\* request. A lost publish, a crash or a late report ends in "unknown", a timeout or an error.
StopAnswerIsHonest ==
    \A q \in Stops : req[q].answer = "stopped" /\ req[q].run > 0 =>
        /\ req[q].ended >= req[q].run
        /\ req[q].report >= born[req[q].nonce]

\* Why it holds, as an inductive invariant: until a request holds the key its nonce is in
\* no queue and has no report, so every report of a nonce is written after its birth; and
\* a /stop that goes on after the row poll has seen the end of a run it found, or a later.
RequestRecord ==
    [pc : {"begin", "set", "get", "publish", "poll", "row", "free", "answer", "done"},
     nonce : Requests \cup {None}, run : Nat, report : Nat, ended : Nat,
     answer : {None, "nothing", "unknown", "stopped", "error", "timeout"}]

RequestsAreTyped ==
    /\ req \in [Requests -> RequestRecord]
    /\ report \in [Requests -> Nat] /\ born \in [Requests -> Nat]
    /\ handled # None => bus # <<>>

EarlySteps == {"begin", "set", "get"}
Unborn(q) == req[q].pc \in EarlySteps
Queued(q) == (\E i \in DOMAIN bus : bus[i] = q) \/ (\E i \in DOMAIN pending : pending[i] = q)

NoncesAreFresh ==
    \A q \in Requests : Unborn(q) =>
        ~Queued(q) /\ report[q] = NoReport /\ req[q].nonce = None

NoncesAreBorn ==
    /\ inflight # None => ~Unborn(inflight)
    /\ \A q \in Requests : /\ req[q].nonce # None => ~Unborn(req[q].nonce)
                           /\ req[q].pc \in {"publish", "poll", "row", "free", "answer"} =>
                                req[q].nonce # None

ReportsAreLater ==
    \A q \in Requests :
        /\ born[q] <= node.run /\ (report[q] # NoReport => report[q] >= born[q])
        /\ req[q].report # NoReport => req[q].nonce # None /\ req[q].report >= born[req[q].nonce]

StopsSeeTheEnd ==
    \A q \in Stops :
        /\ req[q].run <= node.run /\ (req[q].pc = "begin" => req[q].run = 0)
        /\ req[q].pc # "done" => req[q].answer = None
        /\ req[q].pc \in {"free", "answer"} => req[q].ended >= req[q].run
        /\ req[q].answer = "stopped" /\ req[q].run > 0 =>
             req[q].ended >= req[q].run /\ req[q].report # NoReport

HonestStops == TypeOK /\ RequestsAreTyped /\ NoncesAreFresh /\ NoncesAreBorn /\ ReportsAreLater
                 /\ StopsSeeTheEnd

\* Does not hold: a request that joins a nonce left over from an earlier run (by a
\* /kill-all that gave up on the report) can answer with that run's report.
ReportIsOfLastRun ==
    \A q \in Stops : req[q].answer = "stopped" /\ req[q].run > 0 => req[q].report >= req[q].run
=============================================================================
