---------------------------- MODULE MCFleetRouter ----------------------------
\* The instances of FleetRouter that TLC checks.
EXTENDS FleetRouter

\* Only the operators' requests: nothing is restarted, and no node is wedged.
OperatorsOnly == \A a \in Actors \ {"consumer"} : task[a].at = "idle"

\* The operator's /stop comes after the supervisor went down for the first time.
StopAfterCrash == used.stops > 0 => used.crashes > 0
=============================================================================
