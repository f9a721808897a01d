----------------------------- MODULE FleetAlerts -----------------------------
(***************************************************************************)
(* The supervisor's watch over itself and its fleet (services/             *)
(* fleet_alerts.py, the heartbeat, alert and account-refresh loops of      *)
(* live_supervisor/main.py and the snapshot provider of __main__.py): the  *)
(* router heartbeat in Redis, the boot handshake by which a restarted      *)
(* supervisor reports the outage before its own heartbeat hides it, and    *)
(* the deduper that pages a persisting condition once per cooldown.        *)
(*                                                                         *)
(* Time is counted in rounds: in every round a running supervisor          *)
(* publishes its heartbeat and evaluates the alerts, in either order.      *)
(* Times are ages that stop growing at the threshold they are compared to. *)
(***************************************************************************)
EXTENDS Integers, FiniteSets

CONSTANTS Accounts, Deployments,
          AccountOf,   \* the account of each deployment
          Static,      \* the accounts GATEWAY_CONFIG names
          Spof,        \* ROUTER_HEARTBEAT_SPOF_THRESHOLD_S, in rounds
          Ttl,         \* ROUTER_HEARTBEAT_TTL_S
          Stale,       \* STALE_DEPLOYMENT_HEARTBEAT_THRESHOLD_S
          Cooldown,    \* FLEET_ALERT_COOLDOWN_S
          MaxFaults, MaxCrashes

VARIABLES key,        \* the router heartbeat key: its age, or None when absent
          ran,        \* a supervisor has published a heartbeat before
          sup,        \* [up, pub, alr, allowed, done]: the two loops' places and
                      \* the two events of the boot handshake
          due,        \* what this round still owes: "publish", "evaluate"
          consumers,  \* accounts with a running command consumer
          dep,        \* live_deployments: [status, age] of the last heartbeat
          last,       \* FleetAlertDeduper._last_sent, as ages
          queue,      \* the alerts the running evaluation still has to send
          seen,       \* deployments the last snapshot found flat and unmonitored
          paged,      \* age of the last page for each of them
          unsent,     \* alerts whose last mail failed
          owed,       \* an outage the operator has not been told of
          used        \* [faults, crashes]

state == <<key, ran, sup, due, consumers, dep>>
paging == <<last, queue, seen, paged, unsent, owed>>
vars == <<state, paging, used>>

None == -1
Keys == {<<"spof", "router">>} \cup ({"flat"} \X Deployments) \cup ({"consumer"} \X Accounts)
Down == [up |-> FALSE, pub |-> "off", alr |-> "off", allowed |-> FALSE, done |-> FALSE]

Fault == used.faults < MaxFaults /\ used' = [used EXCEPT !.faults = @ + 1]
Older(age, limit) == IF age = None THEN None ELSE IF age >= limit THEN limit ELSE age + 1

ActiveAccounts == {AccountOf[d] : d \in {x \in Deployments : dep[x].status = "active"}}

\* Does the key show an outage?  Absent counts as maximally stale.
StaleKey == key = None \/ key > Spof

-----------------------------------------------------------------------------
(* The fleet and the clock. *)

\* A deployment starts, fails (with or without a heartbeat on record) or stops.
DeploymentMoves(d) ==
    /\ dep' = [dep EXCEPT ![d] =
                 [status |-> CASE @.status = "none"   -> "active"
                               [] @.status = "active" -> "failed"
                               [] @.status = "failed" -> "active",
                  age    |-> IF @.status = "active" THEN 0 ELSE None]]
    /\ UNCHANGED <<key, ran, sup, due, consumers, paging, used>>

\* A node that dies before its first heartbeat leaves no row to read an age from.
NeverReported(d) ==
    /\ dep[d].status = "active"
    /\ dep' = [dep EXCEPT ![d] = [status |-> "failed", age |-> None]]
    /\ UNCHANGED <<key, ran, sup, due, consumers, paging, used>>

Elapse ==
    /\ due = {} /\ sup.pub \in {"loop", "off"} /\ sup.alr \in {"loop", "off"}
    /\ key' = IF key = None \/ key + 1 >= Ttl THEN None ELSE key + 1
    /\ dep' = [d \in Deployments |-> [dep[d] EXCEPT !.age = Older(@, Stale + 1)]]
    /\ last' = [k \in Keys |-> Older(last[k], Cooldown)]
    /\ paged' = [d \in Deployments |-> Older(paged[d], Cooldown + 1)]
    /\ due' = IF sup.up THEN {"publish", "evaluate"} ELSE {}
    /\ UNCHANGED <<ran, sup, consumers, queue, seen, unsent, owed, used>>

Crash ==
    /\ sup.up /\ used.crashes < MaxCrashes
    /\ used' = [used EXCEPT !.crashes = @ + 1]
    /\ sup' = Down /\ due' = {} /\ consumers' = {}
    /\ last' = [k \in Keys |-> None] /\ queue' = {} /\ unsent' = {}
    /\ seen' = {} /\ paged' = [d \in Deployments |-> None]
    /\ UNCHANGED <<key, ran, dep, owed>>

-----------------------------------------------------------------------------
(* Start-up and the account refresher. *)

has_prior_operation_evidence == \E d \in Deployments : dep[d].status # "none"

\* _async_main and run_forever: a consumer for every configured account and
\* for those of active deployments; then the loops are started.
Boot ==
    /\ ~sup.up
    /\ sup' = [up |-> TRUE, pub |-> "probe", alr |-> "held", allowed |-> FALSE, done |-> FALSE]
    /\ consumers' = Static \cup ActiveAccounts
    /\ owed' = (ran /\ StaleKey /\ has_prior_operation_evidence)
    /\ UNCHANGED <<key, ran, due, dep, last, queue, seen, paged, unsent, used>>

\* The scan of active deployments is best-effort.
BootBlind ==
    /\ ~sup.up /\ ActiveAccounts # {}
    /\ Fault
    /\ sup' = [up |-> TRUE, pub |-> "probe", alr |-> "held", allowed |-> FALSE, done |-> FALSE]
    /\ consumers' = Static
    /\ owed' = (ran /\ StaleKey /\ has_prior_operation_evidence)
    /\ UNCHANGED <<key, ran, due, dep, last, queue, seen, paged, unsent>>

\* _account_consumer_supervisor_loop: consumers are added, never removed.
Refresh ==
    /\ sup.up /\ ~ActiveAccounts \subseteq consumers
    /\ consumers' = consumers \cup ActiveAccounts
    /\ UNCHANGED <<key, ran, sup, due, dep, paging, used>>

-----------------------------------------------------------------------------
(* _router_heartbeat_loop *)

Stamp == key' = 0 /\ ran' = TRUE

\* Mutant: the first pass publishes like every other pass.
PublishAtOnce(outage) ==
    /\ Stamp
    /\ sup' = [sup EXCEPT !.allowed = TRUE, !.pub = "loop"]

\* After an outage the alert loop goes first; otherwise the heartbeat does.
FirstPass(outage) ==
    IF outage
    THEN /\ sup' = [sup EXCEPT !.allowed = TRUE, !.pub = "await"]
         /\ UNCHANGED <<key, ran>>
    ELSE /\ Stamp
         /\ sup' = [sup EXCEPT !.allowed = TRUE, !.pub = "loop"]

\* Mutant: an absent key is a first boot.
AgeOnly == key # None /\ key > Spof

\* A key that expired is told from one that never was by the database.
OutageGap == IF key = None THEN has_prior_operation_evidence ELSE key > Spof

ProbePrior ==
    /\ sup.pub = "probe"
    /\ FirstPass(OutageGap)
    /\ UNCHANGED <<due, consumers, dep, paging, used>>

\* Neither the key nor the database can be read: fail toward an outage.
ProbeFails ==
    /\ sup.pub = "probe"
    /\ Fault
    /\ FirstPass(TRUE)
    /\ UNCHANGED <<due, consumers, dep, paging>>

PublishAfterEval ==
    /\ sup.pub = "await" /\ sup.done
    /\ Stamp
    /\ sup' = [sup EXCEPT !.pub = "loop"]
    /\ UNCHANGED <<due, consumers, dep, paging, used>>

\* The wait is bounded: slow mail does not hold the heartbeat back.  By then
\* the evaluation has read the key, which is the first thing it does.
WaitTimesOut ==
    /\ sup.pub = "await" /\ sup.alr = "sending" /\ ~sup.done
    /\ Fault
    /\ Stamp
    /\ sup' = [sup EXCEPT !.pub = "loop"]
    /\ UNCHANGED <<due, consumers, dep, paging>>

Publish ==
    /\ sup.pub = "loop" /\ "publish" \in due
    /\ Stamp
    /\ due' = due \ {"publish"}
    /\ UNCHANGED <<sup, consumers, dep, paging, used>>

PublishFails ==
    /\ sup.pub = "loop" /\ "publish" \in due
    /\ Fault
    /\ due' = due \ {"publish"}
    /\ UNCHANGED <<key, ran, sup, consumers, dep, paging>>

-----------------------------------------------------------------------------
(* _fleet_alert_loop *)

_flat_and_unmonitored_alert(d) ==
    dep[d].status = "failed" /\ (dep[d].age = None \/ dep[d].age > Stale)

\* detect_fleet_alerts over the snapshot; a failing database leaves a snapshot
\* with the heartbeat's age and no deployments.
detect_fleet_alerts(degraded) ==
    {k \in Keys :
        \/ k[1] = "spof" /\ StaleKey
        \/ k[1] = "flat" /\ ~degraded /\ _flat_and_unmonitored_alert(k[2])
        \/ k[1] = "consumer" /\ ~degraded /\ k[2] \in ActiveAccounts \ consumers}

\* Mutant: one condition per account.
PerAccount(k) ==
    IF k[1] = "flat"
    THEN CHOOSE x \in {"flat"} \X {d \in Deployments : AccountOf[d] = AccountOf[k[2]]} : TRUE
    ELSE k

dedupe_key(k) == k

\* The alerts a pass sends: new ones, and reminders past the cooldown.
ToSend(detected) ==
    {k \in detected : last[dedupe_key(k)] = None \/ last[dedupe_key(k)] >= Cooldown}

\* filter_and_record: what is sent is stamped, what is gone is forgotten.
Recorded(detected) ==
    LET present == {dedupe_key(k) : k \in detected}
        sent == {dedupe_key(k) : k \in ToSend(detected)}
    IN  [k \in Keys |-> IF k \notin present THEN None ELSE IF k \in sent THEN 0 ELSE last[k]]

\* Under a key two alerts share, only one of a pass is sent.
OnePerKey(alerts) ==
    {k \in alerts : \A j \in alerts :
        dedupe_key(j) = dedupe_key(k) => j = k \/ k = dedupe_key(k)}

MayEvaluate ==
    \/ sup.alr = "held" /\ sup.allowed
    \/ sup.alr = "loop" /\ "evaluate" \in due

Evaluate(degraded) ==
    LET detected == detect_fleet_alerts(degraded)
    IN  /\ MayEvaluate
        /\ queue' = OnePerKey(ToSend(detected))
        /\ last' = Recorded(detected)
        /\ seen' = {d \in Deployments : <<"flat", d>> \in detected}
        /\ paged' = [d \in Deployments |-> IF d \in seen' THEN paged[d] ELSE None]
        /\ unsent' = unsent \cap detected
        /\ owed' = (owed /\ <<"spof", "router">> \notin queue')
        /\ sup' = [sup EXCEPT !.alr = "sending"]
        /\ due' = due \ {"evaluate"}
        /\ UNCHANGED <<key, ran, consumers, dep>>

Snapshot == Evaluate(FALSE) /\ UNCHANGED used

SnapshotDegraded == Evaluate(TRUE) /\ Fault

\* The heartbeat cannot be read: the pass is given up, and the first pass still
\* releases the publisher.  The outage is then not reported.
EvaluationFails ==
    /\ MayEvaluate
    /\ Fault
    /\ sup' = [sup EXCEPT !.alr = "loop", !.done = TRUE]
    /\ due' = due \ {"evaluate"}
    /\ owed' = FALSE
    /\ UNCHANGED <<key, ran, consumers, dep, last, queue, seen, paged, unsent>>

Sent(k) == paged' = IF k[1] = "flat" THEN [paged EXCEPT ![k[2]] = 0] ELSE paged

\* AlertService.send_alert: the alert is recorded in the history and mailed.
SendAlert(k) ==
    /\ sup.alr = "sending" /\ k \in queue
    /\ queue' = queue \ {k} /\ unsent' = unsent \ {k}
    /\ Sent(k)
    /\ UNCHANGED <<state, last, seen, owed, used>>

\* A failing mail server is swallowed; only the history has the alert.
MailFails(k) ==
    /\ sup.alr = "sending" /\ k \in queue
    /\ Fault
    /\ queue' = queue \ {k} /\ unsent' = unsent \cup {k}
    /\ Sent(k)
    /\ UNCHANGED <<state, last, seen, owed>>

EndPass ==
    /\ sup.alr = "sending" /\ queue = {}
    /\ sup' = [sup EXCEPT !.alr = "loop", !.done = TRUE]
    /\ UNCHANGED <<key, ran, due, consumers, dep, paging, used>>

-----------------------------------------------------------------------------
Init ==
    /\ key = None /\ ran = FALSE /\ sup = Down /\ due = {} /\ consumers = {}
    /\ dep = [d \in Deployments |-> [status |-> "none", age |-> None]]
    /\ last = [k \in Keys |-> None] /\ queue = {} /\ seen = {}
    /\ paged = [d \in Deployments |-> None] /\ unsent = {} /\ owed = FALSE
    /\ used = [faults |-> 0, crashes |-> 0]

Next ==
    \/ Elapse \/ Crash \/ Boot \/ BootBlind \/ Refresh
    \/ ProbePrior \/ ProbeFails \/ PublishAfterEval \/ WaitTimesOut \/ Publish \/ PublishFails
    \/ Snapshot \/ SnapshotDegraded \/ EvaluationFails \/ EndPass
    \/ \E d \in Deployments : DeploymentMoves(d) \/ NeverReported(d)
    \/ \E k \in Keys : SendAlert(k) \/ MailFails(k)

Spec == Init /\ [][Next]_vars

-----------------------------------------------------------------------------
TypeOK ==
    /\ key \in -1..(Ttl - 1) /\ ran \in BOOLEAN /\ owed \in BOOLEAN
    /\ sup.pub \in {"off", "probe", "await", "loop"}
    /\ sup.alr \in {"off", "held", "sending", "loop"}
    /\ due \subseteq {"publish", "evaluate"} /\ consumers \subseteq Accounts
    /\ \A d \in Deployments : dep[d].status \in {"none", "active", "failed"}
    /\ last \in [Keys -> -1..Cooldown] /\ queue \subseteq Keys /\ unsent \subseteq Keys
    /\ paged \in [Deployments -> -1..(Cooldown + 1)] /\ seen \subseteq Deployments

\* A restarted supervisor never hides its own outage: while the alert for it is
\* still owed, the key has not been stamped afresh.
OutageIsReported == owed /\ sup.up => StaleKey

\* Every deployment a pass found flat and unmonitored has been paged within
\* the cooldown when the pass ends, also when another one of its account was.
FlatIsPaged ==
    sup.alr = "sending" /\ queue = {} =>
        \A d \in seen : paged[d] # None /\ paged[d] <= Cooldown

\* Does not hold (fleet_alerts.py, evaluate_and_alert_fleet: "a transient SMTP
\* outage cannot suppress a later alert on the next pass"): a condition that is
\* still there and whose mail failed is sent again by the next pass.
MailIsRetried ==
    [][sup.alr # "sending" /\ sup'.alr = "sending" => unsent' \subseteq queue']_vars

-----------------------------------------------------------------------------
(* Why the alerts are sent.                                                 *)

SupType ==
    [up : BOOLEAN, pub : {"off", "probe", "await", "loop"}, alr : {"off", "held", "sending", "loop"},
     allowed : BOOLEAN, done : BOOLEAN]
DepType == [status : {"none", "active", "failed"}, age : Int]

AlertsAreTyped ==
    /\ key \in Int /\ ran \in BOOLEAN /\ owed \in BOOLEAN /\ sup \in SupType
    /\ dep \in [Deployments -> DepType] /\ seen \subseteq Deployments
    /\ last \in [Keys -> Nat \cup {None}] /\ paged \in [Deployments -> Nat \cup {None}]

\* A supervisor that is down remembers no alert.
DownIsForgetful == ~sup.up => sup = Down /\ \A k \in Keys : last[k] = None

\* While an outage is owed neither loop has made its first pass, and the database still
\* tells the outage from a first boot.
OutageIsOwed ==
    owed /\ sup.up =>
        /\ sup.pub \in {"probe", "await"} /\ sup.alr = "held" /\ ~sup.done
        /\ StaleKey /\ has_prior_operation_evidence /\ last[<<"spof", "router">>] = None

\* What the deduper remembers of a deployment is still to be sent, or the deployment's last
\* page is no older, as long as the deduper would hold another one back.
Remembered(d) ==
    LET k == <<"flat", d>> IN
    last[k] # None =>
        \/ sup.alr = "sending" /\ k \in queue
        \/ paged[d] # None /\ (last[k] < Cooldown => paged[d] <= last[k])

\* The pass that runs has paged what it found, or is about to.
PassPages ==
    sup.alr = "sending" => \A d \in seen : <<"flat", d>> \in queue \/ (paged[d] # None /\ paged[d] <= Cooldown)

\* The inductive invariant.
FaithfulAlerts ==
    /\ AlertsAreTyped /\ DownIsForgetful /\ OutageIsOwed /\ PassPages
    /\ \A d \in Deployments : Remembered(d)
=============================================================================
