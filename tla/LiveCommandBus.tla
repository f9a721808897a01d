--------------------------- MODULE LiveCommandBus ---------------------------
(***************************************************************************)
(* The Redis stream that carries one account's commands from the API to    *)
(* the supervisor (services/live_command_bus.py), and the consume loop      *)
(* around it (_consume_account_forever of live_supervisor/main.py).         *)
(*                                                                         *)
(* A step is one Redis call. Entry ids are positions in the stream, and an  *)
(* entry is pending exactly when its times_delivered is not 0. Time is      *)
(* abstracted to "idle for min_idle_ms" and to whether the recovery         *)
(* interval has elapsed when the loop looks at the clock.                   *)
(***************************************************************************)
EXTENDS Integers, Sequences, FiniteSets

CONSTANTS
    Consumers,     \* the consumers of the group: supervisors that overlap
    MaxCommands,   \* bound on the commands published
    MaxDelivery,   \* MAX_DELIVERY_ATTEMPTS
    ReadCount,     \* XREADGROUP's COUNT
    ClaimCount,    \* XAUTOCLAIM's COUNT
    MaxCrashes,    \* bound on crashes of a consume loop or its supervisor
    Malformed      \* may a command of unknown type be published?

ASSUME BusAssumption ==
    /\ MaxCommands \in Nat /\ MaxCrashes \in Nat /\ Malformed \in BOOLEAN
    /\ MaxDelivery \in Nat \ {0} /\ ReadCount \in Nat \ {0} /\ ClaimCount \in Nat \ {0}

\* A delivery may be retried, and somebody consumes: what BoundedAttempts needs.
ASSUME RetryAssumption ==
    /\ MaxDelivery > 1
    /\ IsFiniteSet(Consumers) /\ Consumers # {}

VARIABLES
    kinds,     \* the stream: the kind of each entry, "good" or "malformed"
    group,     \* the group's last-delivered-id; NoGroup before it is created
    times,     \* times_delivered of each pending entry, 0 if it is not pending
    idle,      \* the pending entries that are idle for min_idle_ms
    dlq,       \* how many copies of each entry the dead-letter stream holds
    acked,     \* the entries that an ACK took off the pending list
    handled,   \* how often a handler was called with each entry
    pub,       \* has the publisher ensured the group for its next XADD?
    at,        \* where each consume loop is
    hand,      \* the entry a loop is working on
    batch,     \* the entries it has in memory after that one, taken in order
    cursor,    \* XAUTOCLAIM's cursor: 0 at the end of the pending list
    crashes

redis == <<kinds, group, times, idle, dlq, acked>>
loops == <<at, hand, batch, cursor>>
vars  == <<redis, handled, pub, loops, crashes>>

Ids     == 1 .. MaxCommands
NoGroup == -1
Pending == {i \in Ids : times[i] > 0}

\* The steps at which the entry in hand is in a handler, or being disposed of.
\* A loop reaches them from a sweep or from a read and returns there.
SweepSteps == {"claimed", "sweepHandle", "sweepAck", "dlqAdd", "dlqAck"}
ReadSteps  == {"fresh", "readHandle", "readAck"}
BusySteps  == (SweepSteps \cup ReadSteps) \ {"claimed", "fresh"}
LoopSteps  == {"start", "sweep", "top", "read"} \cup SweepSteps \cup ReadSteps

\* The first k of a set of ids, and its first one.
Page(S, k) == {i \in S : Cardinality({j \in S : j < i}) < k}
IsFirst(i, S) == i \in S /\ \A j \in S : i <= j

-----------------------------------------------------------------------------
(* Publishing.                                                             *)

\* Mutant: an existing group is created anew.
EnsureGroupAgain == group' = Len(kinds)

\* XGROUP CREATE ... $ MKSTREAM: a new group starts behind the last entry;
\* BUSYGROUP is swallowed.
ensure_group == group' = IF group = NoGroup THEN Len(kinds) ELSE group

\* _publish ensures the group first ...
PublishEnsure ==
    /\ ~pub /\ Len(kinds) < MaxCommands
    /\ ensure_group /\ pub' = TRUE
    /\ UNCHANGED <<kinds, times, idle, dlq, acked, handled, loops, crashes>>

\* ... and then adds the entry.
Publish ==
    /\ pub /\ pub' = FALSE
    /\ \E kind \in {"good"} \cup (IF Malformed THEN {"malformed"} ELSE {}) :
         kinds' = Append(kinds, kind)
    /\ UNCHANGED <<group, times, idle, dlq, acked, handled, loops, crashes>>

-----------------------------------------------------------------------------
(* The consume loop.                                                       *)

Goto(c, step) == at' = [at EXCEPT ![c] = step]

\* After an entry the loop goes on with the batch.
Return(c) == Goto(c, IF at[c] \in SweepSteps THEN "claimed" ELSE "fresh")

\* An exception: the batch is dropped and consume() is called again.
Restart(c) ==
    /\ Goto(c, "start") /\ batch' = [batch EXCEPT ![c] = {}]
    /\ cursor' = [cursor EXCEPT ![c] = 0]

ConsumeStart(c) ==
    /\ at[c] = "start" /\ ensure_group /\ Goto(c, "sweep")
    /\ UNCHANGED <<kinds, times, idle, dlq, acked, handled, pub, hand, batch, cursor, crashes>>

\* Mutant: one past the last claimed entry.
CursorPastPage(page, next) ==
    IF page = {} THEN next = 0 ELSE \A j \in page : j < next

\* Where XAUTOCLAIM goes on after a page: the next pending entry, if any.
NextCursor(page, next) ==
    LET after == {i \in Pending : \A j \in page : j < i}
    IN  IF Cardinality(page) < ClaimCount \/ after = {} THEN next = 0
        ELSE IsFirst(next, after)

\* XAUTOCLAIM counts a delivery of every entry of the page at once.
XAutoClaim(c) ==
    /\ at[c] = "sweep"
    /\ LET page == Page({i \in idle : i >= cursor[c]}, ClaimCount)
       IN  /\ times' = [i \in Ids |-> IF i \in page THEN times[i] + 1 ELSE times[i]]
           /\ idle' = idle \ page
           /\ batch' = [batch EXCEPT ![c] = page]
           /\ \E next \in 0 .. MaxCommands + 1 :
                NextCursor(page, next) /\ cursor' = [cursor EXCEPT ![c] = next]
    /\ Goto(c, "claimed")
    /\ UNCHANGED <<kinds, group, dlq, acked, handled, pub, hand, crashes>>

\* Mutant: one delivery too many.
ExhaustedLate(i) == times[i] > MaxDelivery

\* The ceiling _recover_pending compares the count with (gone: taken as 1).
Exhausted(i) == times[i] >= MaxDelivery

\* The next entry of the batch is taken in hand.
Take(c, i) ==
    /\ IsFirst(i, batch[c])
    /\ hand' = [hand EXCEPT ![c] = i]
    /\ batch' = [batch EXCEPT ![c] = @ \ {i}]

\* from_redis raises on an unknown type; otherwise the handler gets the command.
Yield(c, i, step) ==
    IF kinds[i] = "malformed"
    THEN Restart(c) /\ UNCHANGED <<hand, handled>>
    ELSE /\ Take(c, i) /\ Goto(c, step) /\ UNCHANGED cursor
         /\ handled' = [handled EXCEPT ![i] = @ + 1]

\* The claimed entries; after the last one the next page, or the loop.
RecoverPending(c) ==
    /\ at[c] = "claimed"
    /\ \/ /\ batch[c] = {} /\ Goto(c, IF cursor[c] = 0 THEN "read" ELSE "sweep")
          /\ UNCHANGED <<hand, batch, cursor, handled>>
       \/ \E i \in batch[c] :
            /\ IsFirst(i, batch[c])
            /\ IF Exhausted(i)
               THEN Take(c, i) /\ Goto(c, "dlqAdd") /\ UNCHANGED <<cursor, handled>>
               ELSE Yield(c, i, "sweepHandle")
    /\ UNCHANGED <<redis, pub, crashes>>

\* Mutant: the pending list is only swept when consume() starts.
LoopTopWithoutSweep(c) ==
    /\ at[c] = "top" /\ Goto(c, "read")
    /\ UNCHANGED <<redis, handled, pub, hand, batch, cursor, crashes>>

\* The top of the loop: another sweep when the interval has elapsed.
LoopTop(c) ==
    /\ at[c] = "top" /\ \E step \in {"sweep", "read"} : Goto(c, step)
    /\ UNCHANGED <<redis, handled, pub, hand, batch, cursor, crashes>>

\* XREADGROUP: the entries behind last-delivered-id, or none within BLOCK.
XReadGroup(c) ==
    /\ at[c] = "read"
    /\ LET last == IF group + ReadCount < Len(kinds) THEN group + ReadCount ELSE Len(kinds)
           page == group + 1 .. last
       IN  /\ times' = [i \in Ids |-> IF i \in page THEN 1 ELSE times[i]]
           /\ group' = last
           /\ batch' = [batch EXCEPT ![c] = page]
           /\ Goto(c, IF page = {} THEN "top" ELSE "fresh")
    /\ UNCHANGED <<kinds, idle, dlq, acked, handled, pub, hand, cursor, crashes>>

FreshEntry(c) ==
    /\ at[c] = "fresh"
    /\ \/ /\ batch[c] = {} /\ Goto(c, "top")
          /\ UNCHANGED <<hand, batch, cursor, handled>>
       \/ \E i \in batch[c] : IsFirst(i, batch[c]) /\ Yield(c, i, "readHandle")
    /\ UNCHANGED <<redis, pub, crashes>>

\* The handler returns True, or it returns False or raises: no ACK.
HandlerReturns(c) ==
    /\ at[c] \in {"sweepHandle", "readHandle"}
    /\ \/ Goto(c, IF at[c] = "sweepHandle" THEN "sweepAck" ELSE "readAck")
       \/ Return(c)
    /\ UNCHANGED <<redis, handled, pub, hand, batch, cursor, crashes>>

\* XACK, without effect on an entry that is no longer pending.
XAck(i) ==
    /\ times' = [times EXCEPT ![i] = 0]
    /\ idle' = idle \ {i}

ack(c) ==
    /\ at[c] \in {"sweepAck", "readAck"}
    /\ XAck(hand[c])
    /\ acked' = IF times[hand[c]] > 0 THEN acked \cup {hand[c]} ELSE acked
    /\ Return(c)
    /\ UNCHANGED <<kinds, group, dlq, handled, pub, hand, batch, cursor, crashes>>

\* Mutant: the XACK on the primary comes before the XADD, and a crash follows it.
DlqAckFirst(c) ==
    /\ at[c] = "dlqAdd"
    /\ XAck(hand[c]) /\ Goto(c, "dlqAck")
    /\ UNCHANGED <<kinds, group, dlq, acked, handled, pub, hand, batch, cursor, crashes>>

\* _move_to_dlq: XADD to the dead-letter stream ...
DlqAdd(c) ==
    /\ at[c] = "dlqAdd"
    /\ dlq' = [dlq EXCEPT ![hand[c]] = @ + 1]
    /\ Goto(c, "dlqAck")
    /\ UNCHANGED <<kinds, group, times, idle, acked, handled, pub, hand, batch, cursor, crashes>>

\* ... then XACK on the primary.
DlqAck(c) ==
    /\ at[c] = "dlqAck"
    /\ XAck(hand[c]) /\ Return(c)
    /\ UNCHANGED <<kinds, group, dlq, acked, handled, pub, hand, batch, cursor, crashes>>

\* A Redis error, the death of the supervisor or its shutdown, at any point.
ConsumerCrashes(c) ==
    /\ at[c] # "start" /\ crashes < MaxCrashes
    /\ Restart(c) /\ crashes' = crashes + 1
    /\ UNCHANGED <<redis, handled, pub, hand>>

\* Time passes over a pending entry.
Idles(i) ==
    /\ times[i] > 0 /\ i \notin idle
    /\ idle' = idle \cup {i}
    /\ UNCHANGED <<kinds, group, times, dlq, acked, handled, pub, loops, crashes>>

-----------------------------------------------------------------------------
Init ==
    /\ kinds = <<>> /\ group = NoGroup
    /\ times = [i \in Ids |-> 0] /\ idle = {}
    /\ dlq = [i \in Ids |-> 0] /\ acked = {}
    /\ handled = [i \in Ids |-> 0] /\ pub = FALSE
    /\ at = [c \in Consumers |-> "start"]
    /\ hand = [c \in Consumers |-> 0]
    /\ batch = [c \in Consumers |-> {}]
    /\ cursor = [c \in Consumers |-> 0]
    /\ crashes = 0

Consume(c) ==
    \/ ConsumeStart(c) \/ XAutoClaim(c) \/ RecoverPending(c) \/ LoopTop(c)
    \/ XReadGroup(c) \/ FreshEntry(c) \/ HandlerReturns(c) \/ ack(c)
    \/ DlqAdd(c) \/ DlqAck(c)

Next == \/ PublishEnsure \/ Publish
        \/ \E c \in Consumers : Consume(c) \/ ConsumerCrashes(c)
        \/ \E i \in Ids : Idles(i)

Spec == Init /\ [][Next]_vars

\* A consume loop goes on, its handlers return, the recovery interval elapses
\* again and again, and time passes.
Fairness ==
    /\ \A c \in Consumers : /\ WF_vars(Consume(c))
                            /\ SF_vars(at[c] = "top" /\ Goto(c, "sweep") /\ LoopTop(c))
    /\ \A i \in Ids : WF_vars(Idles(i))

FairSpec == Spec /\ Fairness

-----------------------------------------------------------------------------
TypeOK ==
    /\ kinds \in Seq({"good", "malformed"}) /\ Len(kinds) <= MaxCommands
    /\ group \in {NoGroup} \cup (0 .. MaxCommands)
    /\ times \in [Ids -> Nat] /\ idle \subseteq Pending
    /\ dlq \in [Ids -> Nat] /\ acked \subseteq Ids
    /\ handled \in [Ids -> Nat] /\ pub \in BOOLEAN
    /\ at \in [Consumers -> LoopSteps]
    /\ hand \in [Consumers -> 0 .. MaxCommands]
    /\ \A c \in Consumers : at[c] \in BusySteps => hand[c] \in Ids
    /\ batch \in [Consumers -> SUBSET Ids]
    /\ cursor \in [Consumers -> 0 .. MaxCommands]
    /\ crashes \in Nat

\* A published command is never lost: it is waiting for its first delivery,
\* pending, ACKed or in the dead-letter stream, at every moment, whoever crashes
\* and however publishing races the first consumer. (ensure_group before XADD;
\* XADD to the DLQ before the XACK.)
NothingLost ==
    \A i \in 1 .. Len(kinds) : \/ group # NoGroup /\ i > group
                               \/ times[i] > 0
                               \/ i \in acked
                               \/ dlq[i] > 0

\* What makes it inductive: where the group stands, and that an entry taken off
\* the pending list by the dead-lettering has its copy.
Behind ==
    /\ group <= Len(kinds)
    /\ pub => group # NoGroup /\ Len(kinds) < MaxCommands
    /\ Len(kinds) > 0 => group # NoGroup
    /\ \A c \in Consumers : at[c] # "start" => group # NoGroup
    /\ \A i \in Ids : times[i] > 0 => i <= group
    /\ \A c \in Consumers : at[c] = "dlqAck" => dlq[hand[c]] > 0

\* A command that always fails is not retried for ever: its handler is called for
\* fewer deliveries than the ceiling, but for one more per peer that claimed it
\* just before an ACK. (The delivery count is Redis's, not the consumer's.)
BoundedAttempts ==
    \A i \in Ids : handled[i] <= MaxDelivery - 2 + Cardinality(Consumers)

\* Who holds an entry in memory for a handler, and who of them has it from a read:
\* a read does not look at the delivery count.
Holders(i) == {c \in Consumers : i \in batch[c]}
Readers(i) == {c \in Holders(i) : at[c] \in ReadSteps}

\* What makes it inductive: every call of a handler, made or still in some loop's
\* memory, has its delivery counted while the entry is pending, and once it was
\* ACKed each peer has it at most once more.
Counted(i) ==
    IF times[i] > 0
    THEN /\ handled[i] + Cardinality(Holders(i)) <= times[i]
         /\ handled[i] + Cardinality(Readers(i)) <= MaxDelivery - 1
    ELSE handled[i] + Cardinality(Holders(i)) <= MaxDelivery - 2 + Cardinality(Consumers)

Deliveries ==
    /\ \A c \in Consumers : at[c] \in {"start", "sweep", "top", "read"} => batch[c] = {}
    /\ \A c \in Consumers : at[c] \in BusySteps => hand[c] \notin batch[c]
    /\ \A i \in Ids : i > group => handled[i] = 0 /\ Holders(i) = {}
    /\ \A i \in Ids : Counted(i)

\* Every published command is eventually settled, by an ACK or in the dead-letter
\* stream, malformed or not and although loops crash: consume() sweeps the pending
\* list at its start and again and again.
Settled(i) == times[i] = 0 /\ (i \in acked \/ dlq[i] > 0)
EverythingSettles == \A i \in Ids : i <= Len(kinds) ~> Settled(i)

\* MAX_DELIVERY_ATTEMPTS' comment: what is dead-lettered is a poison message, which
\* a handler has failed on; a command is not given up before it was tried. Does not
\* hold: a malformed command ends the page that claimed it, untried ones included.
DeadLettersWereTried ==
    \A i \in 1 .. Len(kinds) : kinds[i] = "good" /\ dlq[i] > 0 => handled[i] > 0

\* Where a command is, in the terms of the abstract queue.
Place(i) ==
    IF i > Len(kinds) THEN "none"
    ELSE IF group # NoGroup /\ i > group THEN "queued"
    ELSE IF times[i] > 0 THEN "pending"
    ELSE IF i \in acked THEN "acked"
    ELSE IF dlq[i] > 0 THEN "dead" ELSE "lost"

Places == [i \in Ids |-> Place(i)]

Queue == INSTANCE CommandQueue WITH Commands <- Ids, state <- Places

\* The bus implements the abstract queue that the FleetRouter is written against:
\* first deliveries in publication order, and one settlement for each command.
BusImplementsQueue == Queue!Spec
=============================================================================
