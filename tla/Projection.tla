----------------------------- MODULE Projection -----------------------------
(***************************************************************************)
(* How the events of one live deployment reach the positions that the API   *)
(* serves and the websocket clients: the node's message-bus stream, the     *)
(* ProjectionConsumer of each uvicorn worker (one consumer group, PEL        *)
(* recovery, DLQ), the dual pub/sub fan-out, each worker's StateApplier and  *)
(* ProjectionState with the cold read of PositionReader, and one client of   *)
(* live_stream.                                                             *)
(*                                                                         *)
(* An event is a version of one instrument's position. Accounts follow the  *)
(* same path with a flag of their own. Idle times are left out: an entry of  *)
(* another consumer may be claimed as soon as that consumer does not hold it.*)
(***************************************************************************)
EXTENDS Integers, Sequences, FiniteSets

CONSTANTS
    Workers, Instruments,
    Client,         \* the websocket client
    MaxEvents,      \* bound on the length of the stream
    MaxAttempts,    \* DEFAULT_MAX_DELIVERY_ATTEMPTS
    MaxFaults       \* bound on failing Redis calls, on dying workers, on reconnects

VARIABLES
    stream,         \* the entries: [is, inst]; an entry's id is its version
    cache,          \* the node's own cache in Redis: the version of each position
    last,           \* the group's last-delivered id
    pel,            \* deliveries of each pending entry, 0 when it is not pending
    acked, dlq,
    onState, onEvents,  \* the ids published on the state and the events channel
    up, knows,      \* the workers that are up, and those whose registry has the stream
    todo,           \* the entries each worker's consumer is going through
    at,             \* where it is in the first of them
    inbox,          \* what pub/sub has queued for each listener
    view,           \* the positions of each listener, 0 for an absent instrument
    hydrated,       \* workers whose _positions has the deployment
    on,             \* the worker the client is connected to, or "off"
    subscribed,     \* has its handler subscribed to the events channel?
    due,            \* for each listener, the last version published since it subscribed
    faults

queue    == <<stream, cache, last, pel, acked, dlq>>
consumer == <<up, knows, todo, at>>
fanout   == <<onState, onEvents, inbox, due>>
state    == <<view, hydrated, on, subscribed>>
vars     == <<queue, consumer, fanout, state, faults>>

Listeners == Workers \cup {Client}
Ids       == 1 .. MaxEvents
Blank     == [i \in Instruments |-> 0]
Fault     == faults < MaxFaults /\ faults' = faults + 1
First(w)  == Head(todo[w])

-----------------------------------------------------------------------------
(* The node: it updates its cache, and its bus writes the event. An entry   *)
(* may be of a topic without a translation, or one that translate() refuses.*)

NodeEvent(i) ==
    /\ Len(stream) < MaxEvents
    /\ stream' = Append(stream, [is |-> "position", inst |-> i])
    /\ cache' = [cache EXCEPT ![i] = Len(stream) + 1]
    /\ UNCHANGED <<last, pel, acked, dlq, consumer, fanout, state, faults>>

OtherEvent(kind, i) ==
    /\ Len(stream) < MaxEvents
    /\ stream' = Append(stream, [is |-> kind, inst |-> i])
    /\ UNCHANGED <<cache, last, pel, acked, dlq, consumer, fanout, state, faults>>

-----------------------------------------------------------------------------
(* The consumer.                                                           *)

\* _read_once: XREADGROUP hands the new entries to one consumer of the group.
ReadOnce(w) ==
    /\ w \in knows /\ todo[w] = <<>> /\ last < Len(stream)
    /\ todo' = [todo EXCEPT ![w] = [n \in 1 .. Len(stream) - last |-> last + n]]
    /\ at' = [at EXCEPT ![w] = "dispatch"]
    /\ pel' = [e \in Ids |-> IF e > last /\ e <= Len(stream) THEN 1 ELSE pel[e]]
    /\ last' = Len(stream)
    /\ UNCHANGED <<stream, cache, acked, dlq, up, knows, fanout, state, faults>>

\* _recover_pending_for_stream: XAUTOCLAIM, and the DLQ from the delivery limit on;
\* an entry whose count cannot be read is dispatched.
Recover(w) ==
    /\ w \in knows /\ todo[w] = <<>>
    /\ \E e \in Ids :
         /\ pel[e] > 0 /\ \A v \in Workers : \A n \in DOMAIN todo[v] : todo[v][n] # e
         /\ pel' = [pel EXCEPT ![e] = IF @ = MaxAttempts THEN @ ELSE @ + 1]
         /\ todo' = [todo EXCEPT ![w] = <<e>>]
         /\ \/ /\ at' = [at EXCEPT ![w] = IF pel'[e] >= MaxAttempts THEN "dlq" ELSE "dispatch"]
               /\ UNCHANGED faults
            \/ at' = [at EXCEPT ![w] = "dispatch"] /\ Fault
    /\ UNCHANGED <<stream, cache, last, acked, dlq, up, knows, fanout, state>>

Goto(w, step) == at' = [at EXCEPT ![w] = step] /\ UNCHANGED todo

NextEntry(w) == /\ todo' = [todo EXCEPT ![w] = Tail(@)]
                /\ at' = [at EXCEPT ![w] = "dispatch"]

\* Mutant: the entry is acknowledged as soon as it is translated.
AckFirst(w) ==
    /\ acked' = acked \cup {First(w)} /\ pel' = [pel EXCEPT ![First(w)] = 0]
    /\ Goto(w, "state") /\ UNCHANGED dlq

\* _dispatch_entry, to the publisher: what has no translation is acknowledged, what
\* cannot be translated stays pending.
Translate(w) ==
    /\ CASE stream[First(w)].is = "position" -> Goto(w, "state")
         [] stream[First(w)].is = "other"    -> Goto(w, "ack")
         [] OTHER                            -> NextEntry(w)
    /\ UNCHANGED <<acked, pel, dlq>>

Dispatch(w) ==
    /\ todo[w] # <<>> /\ at[w] = "dispatch" /\ Translate(w)
    /\ UNCHANGED <<stream, cache, last, up, knows, fanout, state, faults>>

\* PUBLISH reaches whoever is subscribed at that moment.
Send(e, to) ==
    /\ inbox' = [l \in Listeners |-> IF l \in to THEN Append(inbox[l], e) ELSE inbox[l]]
    /\ due' = [l \in Listeners |-> IF l \in to THEN [due[l] EXCEPT ![stream[e].inst] = e]
                                   ELSE due[l]]

\* Mutant: the publishing worker updates its own state only.
PublishOwn(w) ==
    /\ todo[w] # <<>> /\ at[w] = "state"
    /\ onState' = onState \cup {First(w)} /\ Goto(w, "events")
    /\ inbox' = [inbox EXCEPT ![w] = Append(@, First(w))]
    /\ due' = [l \in Listeners |-> IF l \in up THEN [due[l] EXCEPT ![stream[First(w)].inst] = First(w)]
                                   ELSE due[l]]
    /\ UNCHANGED <<queue, up, knows, onEvents, state, faults>>

\* DualPublisher.publish: the state channel, then the events channel.
PublishState(w) ==
    /\ todo[w] # <<>> /\ at[w] = "state"
    /\ onState' = onState \cup {First(w)} /\ Send(First(w), up)
    /\ Goto(w, "events")
    /\ UNCHANGED <<queue, up, knows, onEvents, state, faults>>

PublishEvents(w) ==
    /\ todo[w] # <<>> /\ at[w] = "events"
    /\ onEvents' = onEvents \cup {First(w)}
    /\ Send(First(w), IF subscribed THEN {Client} ELSE {})
    /\ Goto(w, "ack")
    /\ UNCHANGED <<queue, up, knows, onState, state, faults>>

\* A publication fails: the entry stays pending.
PublishFails(w) ==
    /\ todo[w] # <<>> /\ at[w] \in {"state", "events"} /\ Fault
    /\ NextEntry(w)
    /\ UNCHANGED <<queue, up, knows, fanout, state>>

\* XACK; its failure is logged.
Ack(w) ==
    /\ todo[w] # <<>> /\ at[w] = "ack" /\ NextEntry(w)
    /\ \/ /\ acked' = acked \cup {First(w)} /\ pel' = [pel EXCEPT ![First(w)] = 0]
          /\ UNCHANGED faults
       \/ Fault /\ UNCHANGED <<acked, pel>>
    /\ UNCHANGED <<stream, cache, last, dlq, up, knows, fanout, state>>

\* _move_to_dlq: the copy first, then the XACK; without the copy there is no XACK.
MoveToDlq(w) ==
    /\ todo[w] # <<>> /\ at[w] = "dlq"
    /\ \/ dlq' = dlq \cup {First(w)} /\ Goto(w, "ack") /\ UNCHANGED faults
       \/ NextEntry(w) /\ Fault /\ UNCHANGED dlq
    /\ UNCHANGED <<stream, cache, last, pel, acked, up, knows, fanout, state>>

-----------------------------------------------------------------------------
(* The worker's state.                                                     *)

\* StateApplier: apply() replaces the instrument's snapshot, and a first one marks the
\* deployment as hydrated.
Apply(w) ==
    /\ w \in up /\ inbox[w] # <<>>
    /\ LET e == Head(inbox[w]) IN view' = [view EXCEPT ![w][stream[e].inst] = e]
    /\ hydrated' = hydrated \cup {w}
    /\ inbox' = [inbox EXCEPT ![w] = Tail(@)]
    /\ UNCHANGED <<queue, consumer, onState, onEvents, due, on, subscribed, faults>>

\* _read_via_ephemeral_cache_positions: a Cache built for the read loads what the node
\* has written to Redis.
ColdRead == cache

\* What get_open_positions answers: a worker whose positions are not hydrated reads the
\* cache, synchronously, and hydrates its state with it.
Queried(w) == IF w \in hydrated THEN view[w] ELSE ColdRead

Query(w) ==
    /\ w \in up
    /\ view' = [view EXCEPT ![w] = Queried(w)] /\ hydrated' = hydrated \cup {w}
    /\ UNCHANGED <<queue, consumer, fanout, on, subscribed, faults>>

\* The worker dies, and with it its state and subscriptions.
Dies(w) ==
    /\ w \in up /\ Fault
    /\ up' = up \ {w} /\ knows' = knows \ {w} /\ hydrated' = hydrated \ {w}
    /\ todo' = [todo EXCEPT ![w] = <<>>] /\ at' = [at EXCEPT ![w] = "dispatch"]
    /\ LET gone == IF on = w THEN {w, Client} ELSE {w}
       IN  /\ inbox' = [l \in Listeners |-> IF l \in gone THEN <<>> ELSE inbox[l]]
           /\ due' = [l \in Listeners |-> IF l \in gone THEN Blank ELSE due[l]]
    /\ on' = (IF on = w THEN "off" ELSE on) /\ subscribed' = (subscribed /\ on # w)
    /\ view' = [view EXCEPT ![w] = Blank]
    /\ UNCHANGED <<queue, onState, onEvents>>

\* It boots with the streams of the active deployments; if that query fails it reads
\* none until a start request registers one.
Boots(w) ==
    /\ w \notin up /\ up' = up \cup {w}
    /\ knows' \in {knows, knows \cup {w}}
    /\ UNCHANGED <<queue, todo, at, fanout, state, faults>>

Register(w) ==
    /\ w \in up \ knows /\ knows' = knows \cup {w}
    /\ UNCHANGED <<queue, up, todo, at, fanout, state, faults>>

-----------------------------------------------------------------------------
(* live_stream.                                                            *)

\* _send_initial_snapshot: the worker's positions, cold or hot ...
Snapshot(w) ==
    /\ on = "off" /\ w \in up /\ on' = w
    /\ view' = [view EXCEPT ![w] = Queried(w), ![Client] = Queried(w)]
    /\ hydrated' = hydrated \cup {w}
    /\ UNCHANGED <<queue, consumer, fanout, subscribed, faults>>

\* ... only then the subscription to the events channel ...
Subscribe ==
    /\ on # "off" /\ ~subscribed /\ subscribed' = TRUE
    /\ UNCHANGED <<queue, consumer, fanout, view, hydrated, on, faults>>

\* ... whose payloads are forwarded as they are.
Forward ==
    /\ inbox[Client] # <<>>
    /\ LET e == Head(inbox[Client]) IN view' = [view EXCEPT ![Client][stream[e].inst] = e]
    /\ inbox' = [inbox EXCEPT ![Client] = Tail(@)]
    /\ UNCHANGED <<queue, consumer, onState, onEvents, due, hydrated, on, subscribed, faults>>

\* The client goes away, or the snapshot cannot be sent.
Disconnect ==
    /\ on # "off" /\ Fault /\ on' = "off" /\ subscribed' = FALSE
    /\ inbox' = [inbox EXCEPT ![Client] = <<>>] /\ due' = [due EXCEPT ![Client] = Blank]
    /\ UNCHANGED <<queue, consumer, onState, onEvents, view, hydrated>>

-----------------------------------------------------------------------------
Init ==
    /\ stream = <<>> /\ cache = Blank /\ last = 0
    /\ pel = [e \in Ids |-> 0] /\ acked = {} /\ dlq = {}
    /\ onState = {} /\ onEvents = {}
    /\ up = Workers /\ knows = Workers /\ todo = [w \in Workers |-> <<>>] /\ at = [w \in Workers |-> "dispatch"]
    /\ inbox = [l \in Listeners |-> <<>>] /\ view = [l \in Listeners |-> Blank]
    /\ due = [l \in Listeners |-> Blank]
    /\ hydrated = {} /\ on = "off" /\ subscribed = FALSE /\ faults = 0

Next ==
    \/ \E i \in Instruments : NodeEvent(i) \/ \E k \in {"other", "poison"} : OtherEvent(k, i)
    \/ \E w \in Workers :
         \/ ReadOnce(w) \/ Recover(w) \/ Dispatch(w) \/ PublishState(w) \/ PublishEvents(w)
         \/ PublishFails(w) \/ Ack(w) \/ MoveToDlq(w) \/ Apply(w) \/ Query(w)
         \/ Dies(w) \/ Boots(w) \/ Register(w) \/ Snapshot(w)
    \/ Subscribe \/ Forward \/ Disconnect

Spec == Init /\ [][Next]_vars

-----------------------------------------------------------------------------
TypeOK ==
    /\ Len(stream) <= MaxEvents /\ last \in 0 .. Len(stream)
    /\ pel \in [Ids -> 0 .. MaxAttempts] /\ acked \cup dlq \cup onState \cup onEvents \subseteq Ids
    /\ up \subseteq Workers /\ knows \subseteq up /\ hydrated \subseteq Workers
    /\ at \in [Workers -> {"dispatch", "state", "events", "ack", "dlq"}]
    /\ view \in [Listeners -> [Instruments -> 0 .. MaxEvents]]
    /\ on \in Workers \cup {"off"} /\ subscribed \in BOOLEAN

\* At-least-once: whatever fails or dies between the read and the XACK, a position
\* event that the group has read is pending, or was published on both channels, or is
\* in the DLQ. (_dispatch_entry and DualPublisher: the XACK comes after both publishes;
\* _move_to_dlq.)
NoEventLost ==
    \A e \in 1 .. last : stream[e].is = "position"
        => \/ pel[e] > 0
           \/ e \in onState /\ e \in onEvents
           \/ e \in dlq

\* Every worker and the client, once they have taken what pub/sub queued for them, show
\* the last version published since they subscribed, whichever worker's consumer
\* published it and whether or not a query hydrated the state in between.
ListenersFollow ==
    \A l \in Listeners : inbox[l] = <<>> =>
        \A i \in Instruments : due[l][i] # 0 => view[l][i] = due[l][i]

\* The inductive invariant behind both: nothing refers to an entry that is not there ...
Entry == [is : {"position", "other", "poison"}, inst : Instruments]

EntriesExist ==
    /\ stream \in Seq(Entry)
    /\ Len(stream) <= MaxEvents /\ last \in 0 .. Len(stream)
    /\ cache \in [Instruments -> Nat] /\ pel \in [Ids -> Nat]
    /\ todo \in [Workers -> Seq(1 .. last)] /\ inbox \in [Listeners -> Seq(1 .. Len(stream))]
    /\ \A e \in Ids : pel[e] > 0 => e <= last

ListenersAreTyped ==
    /\ view \in [Listeners -> [Instruments -> Nat]] /\ due \in [Listeners -> [Instruments -> Nat]]
    /\ up \subseteq Workers /\ at \in [Workers -> {"dispatch", "state", "events", "ack", "dlq"}]
    /\ subscribed \in BOOLEAN

\* ... an entry about to be acknowledged is settled ...
Settled(e) == stream[e].is = "position" => (e \in onState /\ e \in onEvents) \/ e \in dlq

AckIsLast(w) ==
    todo[w] # <<>> => /\ at[w] = "events" => First(w) \in onState
                      /\ at[w] = "ack" => Settled(First(w))

\* ... a client that is not connected is owed nothing ...
OffIsDeaf == on = "off" => ~subscribed /\ due[Client] = Blank

\* ... and what a listener is owed is what it shows, with nothing queued that would
\* replace it, or the last of the instrument's entries in its queue.
Quiet(l, i, n) == \A m \in DOMAIN inbox[l] : m > n => stream[inbox[l][m]].inst # i

Shown(l, i)  == view[l][i] = due[l][i] /\ (l \in Workers => l \in hydrated) /\ Quiet(l, i, 0)
Queued(l, i) == \E n \in DOMAIN inbox[l] : /\ inbox[l][n] = due[l][i] /\ stream[inbox[l][n]].inst = i
                                          /\ Quiet(l, i, n)

Owed(l, i) == due[l][i] # 0 => Shown(l, i) \/ Queued(l, i)

Followed ==
    /\ EntriesExist /\ ListenersAreTyped /\ NoEventLost /\ OffIsDeaf
    /\ \A w \in Workers : AckIsLast(w)
    /\ \A l \in Listeners, i \in Instruments : Owed(l, i)

\* Does not hold. The comment of StateApplier ("the pub/sub fanout is what makes the
\* in-memory state consistent across workers"): a worker that one instrument's event
\* has hydrated never reads the others, and a recovered entry is applied over a newer
\* one.
WorkersAgree ==
    \A v, w \in hydrated :
        last = Len(stream) /\ pel = [e \in Ids |-> 0] /\ inbox[v] = <<>> /\ inbox[w] = <<>>
            => view[v] = view[w]
=============================================================================
