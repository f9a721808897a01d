---------------------------- MODULE CommandQueue ----------------------------
(***************************************************************************)
(* What the live command bus promises the FleetRouter: an account's         *)
(* commands are first delivered in the order they were published, each one  *)
(* stays with the consumers until it is settled, and it is settled once, by *)
(* an ACK or in the dead-letter stream. LiveCommandBus implements it.       *)
(***************************************************************************)
EXTENDS Integers

CONSTANT Commands    \* the commands, numbered in the order of their publication

VARIABLE state       \* where each command is

Waiting == {i \in Commands : state[i] = "queued"}

Init == state = [i \in Commands |-> "none"]

Publish(i) ==
    /\ state[i] = "none" /\ \A j \in Commands : j < i => state[j] # "none"
    /\ state' = [state EXCEPT ![i] = "queued"]

\* A batch of the oldest commands that nobody has seen.
Deliver(batch) ==
    /\ batch # {} /\ batch \subseteq Waiting
    /\ \A i \in batch, j \in Waiting \ batch : i < j
    /\ state' = [i \in Commands |-> IF i \in batch THEN "pending" ELSE state[i]]

Settle(i) ==
    /\ state[i] = "pending"
    /\ \E fate \in {"acked", "dead"} : state' = [state EXCEPT ![i] = fate]

Next == \/ \E i \in Commands : Publish(i)
        \/ \E batch \in SUBSET Commands : Deliver(batch)
        \/ \E i \in Commands : Settle(i)

Spec == Init /\ [][Next]_state
=============================================================================
