------------------------ MODULE LiveCommandBusProofs ------------------------
(***************************************************************************)
(* For every set of consumers, every delivery ceiling and every batch size, *)
(* the command bus loses no command, implements CommandQueue and bounds the *)
(* calls of a handler.                                                      *)
(*                                                                         *)
(* NothingLost is not inductive alone: Behind adds that the group exists     *)
(* once anything was published (the producer's ensure_group), that only      *)
(* entries behind last-delivered-id are pending, and that the entry about to *)
(* be XACKed by _move_to_dlq has its copy.                                   *)
(***************************************************************************)
EXTENDS LiveCommandBus, FiniteSetTheorems, TLAPS

\* The initial, empty stream satisfies the invariant.
LEMMA BusInit == Init => TypeOK /\ NothingLost /\ Behind
<1> SUFFICES ASSUME Init PROVE TypeOK /\ NothingLost /\ Behind
  OBVIOUS
<1> USE BusAssumption DEF Init
<1>1. kinds \in Seq({"good", "malformed"}) /\ Len(kinds) = 0
  OBVIOUS
<1>2. TypeOK
  <2>1. at \in [Consumers -> LoopSteps] /\ \A c \in Consumers : at[c] \notin BusySteps
    BY DEF LoopSteps, BusySteps, SweepSteps, ReadSteps
  <2>2. /\ group \in {NoGroup} \cup (0 .. MaxCommands)
        /\ times \in [Ids -> Nat] /\ dlq \in [Ids -> Nat] /\ handled \in [Ids -> Nat]
        /\ idle \subseteq Pending /\ acked \subseteq Ids /\ pub \in BOOLEAN /\ crashes \in Nat
    OBVIOUS
  <2>3. /\ hand \in [Consumers -> 0 .. MaxCommands] /\ batch \in [Consumers -> SUBSET Ids]
        /\ cursor \in [Consumers -> 0 .. MaxCommands]
    OBVIOUS
  <2> QED
    BY <1>1, <2>1, <2>2, <2>3 DEF TypeOK
<1>3. NothingLost
  BY <1>1 DEF NothingLost
<1>4. Behind
  BY <1>1 DEF Behind, NoGroup, Ids
<1> QED
  BY <1>2, <1>3, <1>4

\* The steps a loop may be sent to are steps.
LEMMA StepNames ==
    /\ LoopSteps = {"start", "sweep", "top", "read", "claimed", "sweepHandle", "sweepAck",
                    "dlqAdd", "dlqAck", "fresh", "readHandle", "readAck"}
    /\ BusySteps = {"sweepHandle", "sweepAck", "dlqAdd", "dlqAck", "readHandle", "readAck"}
  BY DEF LoopSteps, BusySteps, SweepSteps, ReadSteps

\* What a loop does with its batch: nothing is left, the next entry is taken in
\* hand, or a malformed one raises.
LEMMA BatchCases ==
    ASSUME TypeOK, NEW c \in Consumers, RecoverPending(c) \/ FreshEntry(c)
    PROVE  \/ /\ \E s \in {"read", "sweep", "top"} : at' = [at EXCEPT ![c] = s]
              /\ UNCHANGED <<hand, batch, cursor, handled>>
           \/ \E i \in Ids :
                /\ \E s \in {"dlqAdd", "sweepHandle", "readHandle"} : at' = [at EXCEPT ![c] = s]
                /\ hand' = [hand EXCEPT ![c] = i] /\ batch' = [batch EXCEPT ![c] = @ \ {i}]
                /\ handled' = handled \/ handled' = [handled EXCEPT ![i] = @ + 1]
                /\ UNCHANGED cursor
           \/ Restart(c) /\ UNCHANGED <<hand, handled>>
<1>1. batch[c] \subseteq Ids
  BY DEF TypeOK
<1>2. CASE RecoverPending(c)
  <2>1. CASE \E i \in batch[c] : Exhausted(i) /\ Take(c, i) /\ Goto(c, "dlqAdd") /\ UNCHANGED <<cursor, handled>>
    BY <1>1, <2>1 DEF Take, Goto
  <2>2. CASE \E i \in batch[c] : Yield(c, i, "sweepHandle")
    BY <1>1, <2>2 DEF Yield, Take, Goto
  <2>3. CASE Goto(c, IF cursor[c] = 0 THEN "read" ELSE "sweep") /\ UNCHANGED <<hand, batch, cursor, handled>>
    BY <2>3 DEF Goto
  <2> QED
    BY <1>2, <2>1, <2>2, <2>3 DEF RecoverPending
<1>3. CASE FreshEntry(c)
  <2>1. CASE \E i \in batch[c] : Yield(c, i, "readHandle")
    BY <1>1, <2>1 DEF Yield, Take, Goto
  <2>2. CASE Goto(c, "top") /\ UNCHANGED <<hand, batch, cursor, handled>>
    BY <2>2 DEF Goto
  <2> QED
    BY <1>3, <2>1, <2>2 DEF FreshEntry
<1> QED
  BY <1>2, <1>3

\* XREADGROUP delivers the entries from the group's position up to a new one.
LEMMA ReadCases ==
    ASSUME TypeOK, Behind, NEW c \in Consumers, XReadGroup(c)
    PROVE  /\ group \in 0 .. Len(kinds) /\ Len(kinds) \in 0 .. MaxCommands
           /\ \E last \in group .. Len(kinds) :
                /\ times' = [i \in Ids |-> IF i \in group + 1 .. last THEN 1 ELSE times[i]]
                /\ group' = last /\ batch' = [batch EXCEPT ![c] = group + 1 .. last]
                /\ at' = [at EXCEPT ![c] = IF group + 1 .. last = {} THEN "top" ELSE "fresh"]
<1>1. group \in 0 .. Len(kinds) /\ Len(kinds) \in 0 .. MaxCommands
  BY BusAssumption DEF XReadGroup, Behind, NoGroup, TypeOK
<1> DEFINE last == IF group + ReadCount < Len(kinds) THEN group + ReadCount ELSE Len(kinds)
<1>2. last \in group .. Len(kinds)
  BY <1>1, BusAssumption
<1>3. /\ times' = [i \in Ids |-> IF i \in group + 1 .. last THEN 1 ELSE times[i]]
      /\ group' = last /\ batch' = [batch EXCEPT ![c] = group + 1 .. last]
      /\ at' = [at EXCEPT ![c] = IF group + 1 .. last = {} THEN "top" ELSE "fresh"]
  BY DEF XReadGroup, Goto
<1> HIDE DEF last
<1> QED
  BY <1>1, <1>2, <1>3

\* Every step of a consume loop keeps the types.
LEMMA ConsumeType == ASSUME TypeOK, Behind, NEW c \in Consumers, Consume(c) \/ ConsumerCrashes(c)
                     PROVE  TypeOK'
<1> USE BusAssumption, StepNames DEF TypeOK, redis, loops, Goto
<1>1. CASE ConsumeStart(c)
  <2>1. group' \in {NoGroup} \cup (0 .. MaxCommands)
    BY <1>1 DEF ConsumeStart, ensure_group
  <2>2. at' = [at EXCEPT ![c] = "sweep"] /\ UNCHANGED <<kinds, times, idle, dlq, acked, handled, pub, hand, batch, cursor, crashes>>
    BY <1>1 DEF ConsumeStart
  <2> QED
    BY <2>1, <2>2 DEF Pending
<1>2. CASE XAutoClaim(c)
  <2> DEFINE page == Page({i \in idle : i >= cursor[c]}, ClaimCount)
  <2>1. page \subseteq idle /\ page \subseteq Ids
    BY DEF Page, Pending
  <2>2. PICK next \in 0 .. MaxCommands + 1 :
           NextCursor(page, next) /\ cursor' = [cursor EXCEPT ![c] = next]
    BY <1>2 DEF XAutoClaim
  <2>3. next \in 0 .. MaxCommands
    BY <2>2 DEF NextCursor, IsFirst, Pending, Ids
  <2>4. cursor' \in [Consumers -> 0 .. MaxCommands]
    BY <2>2, <2>3
  <2>5. /\ times' = [i \in Ids |-> IF i \in page THEN times[i] + 1 ELSE times[i]]
        /\ idle' = idle \ page /\ batch' = [batch EXCEPT ![c] = page]
        /\ at' = [at EXCEPT ![c] = "claimed"]
        /\ UNCHANGED <<kinds, group, dlq, acked, handled, pub, hand, crashes>>
    BY <1>2 DEF XAutoClaim
  <2> HIDE DEF page
  <2>6. times' \in [Ids -> Nat] /\ idle' \subseteq Pending'
    BY <2>5 DEF Pending
  <2>7. batch' \in [Consumers -> SUBSET Ids] /\ at' \in [Consumers -> LoopSteps]
    BY <2>1, <2>5
  <2>8. \A d \in Consumers : at'[d] \in BusySteps => hand'[d] \in Ids
    BY <2>5
  <2> QED
    BY <2>4, <2>5, <2>6, <2>7, <2>8
<1>3. CASE RecoverPending(c) \/ FreshEntry(c)
  <2>1. UNCHANGED <<redis, pub, crashes>>
    BY <1>3 DEF RecoverPending, FreshEntry
  <2>2. CASE Restart(c) /\ UNCHANGED <<hand, handled>>
    BY <2>1, <2>2 DEF Restart, Pending
  <2>3. ASSUME NEW t \in {"read", "sweep", "top"}, at' = [at EXCEPT ![c] = t],
               UNCHANGED <<hand, batch, cursor, handled>>
        PROVE  TypeOK'
    BY <2>1, <2>3 DEF Pending
  <2>4. ASSUME NEW i \in Ids, NEW t \in {"dlqAdd", "sweepHandle", "readHandle"},
               at' = [at EXCEPT ![c] = t],
               hand' = [hand EXCEPT ![c] = i], batch' = [batch EXCEPT ![c] = @ \ {i}],
               handled' = handled \/ handled' = [handled EXCEPT ![i] = @ + 1],
               UNCHANGED cursor
        PROVE  TypeOK'
    <3>1. hand' \in [Consumers -> 0 .. MaxCommands] /\ batch' \in [Consumers -> SUBSET Ids]
      BY <2>4 DEF Ids
    <3>2. handled' \in [Ids -> Nat]
      <4>1. [handled EXCEPT ![i] = @ + 1] \in [Ids -> Nat]
        OBVIOUS
      <4> QED
        BY <2>4, <4>1
    <3>3. at' \in [Consumers -> LoopSteps]
      BY <2>4
    <3>4. \A d \in Consumers : at'[d] \in BusySteps => hand'[d] \in Ids
      BY <2>4
    <3> QED
      BY <2>1, <2>4, <3>1, <3>2, <3>3, <3>4 DEF Pending
  <2> QED
    BY <1>3, <2>2, <2>3, <2>4, BatchCases
<1>4. CASE LoopTop(c)
  BY <1>4 DEF LoopTop, Pending
<1>5. CASE XReadGroup(c)
  <2>1. group \in 0 .. Len(kinds) /\ Len(kinds) \in 0 .. MaxCommands
    BY <1>5, ReadCases
  <2>2. PICK last \in group .. Len(kinds) :
           /\ times' = [i \in Ids |-> IF i \in group + 1 .. last THEN 1 ELSE times[i]]
           /\ group' = last /\ batch' = [batch EXCEPT ![c] = group + 1 .. last]
           /\ at' = [at EXCEPT ![c] = IF group + 1 .. last = {} THEN "top" ELSE "fresh"]
    BY <1>5, ReadCases
  <2>3. group + 1 .. last \subseteq Ids /\ last \in 0 .. MaxCommands
    BY <2>1 DEF Ids
  <2>4. UNCHANGED <<kinds, idle, dlq, acked, handled, pub, hand, cursor, crashes>>
    BY <1>5 DEF XReadGroup
  <2>5. times' \in [Ids -> Nat] /\ idle' \subseteq Pending'
    BY <2>2, <2>4 DEF Pending
  <2>6. at' \in [Consumers -> LoopSteps] /\ batch' \in [Consumers -> SUBSET Ids]
    BY <2>2, <2>3
  <2>7. \A d \in Consumers : at'[d] \in BusySteps => hand'[d] \in Ids
    BY <2>2, <2>4
  <2> QED
    BY <2>2, <2>3, <2>4, <2>5, <2>6, <2>7
<1>6. CASE HandlerReturns(c)
  BY <1>6 DEF HandlerReturns, Return, Pending, SweepSteps
<1>7. CASE ack(c)
  <2>1. hand[c] \in Ids
    BY <1>7 DEF ack
  <2> QED
    BY <1>7, <2>1 DEF ack, XAck, Return, Pending, SweepSteps
<1>8. CASE DlqAdd(c)
  <2>1. hand[c] \in Ids
    BY <1>8 DEF DlqAdd
  <2> QED
    BY <1>8, <2>1 DEF DlqAdd, Pending
<1>9. CASE DlqAck(c)
  <2>1. hand[c] \in Ids
    BY <1>9 DEF DlqAck
  <2> QED
    BY <1>9, <2>1 DEF DlqAck, XAck, Return, Pending, SweepSteps
<1>10. CASE ConsumerCrashes(c)
  BY <1>10 DEF ConsumerCrashes, Restart, Pending
<1> QED
  BY <1>1, <1>2, <1>3, <1>4, <1>5, <1>6, <1>7, <1>8, <1>9, <1>10 DEF Consume

\* So do publishing and the passing of time.
LEMMA OtherType == ASSUME TypeOK, Behind,
                          \/ PublishEnsure \/ Publish
                          \/ \E i \in Ids : Idles(i)
                          \/ UNCHANGED vars
                   PROVE  TypeOK'
<1> USE BusAssumption DEF TypeOK, redis, loops
<1>1. CASE PublishEnsure
  BY <1>1 DEF PublishEnsure, ensure_group, Pending
<1>2. CASE Publish
  <2>1. PICK kind \in {"good", "malformed"} : kinds' = Append(kinds, kind)
    BY <1>2 DEF Publish
  <2>2. Len(kinds) < MaxCommands
    BY <1>2 DEF Publish, Behind
  <2>3. kinds' \in Seq({"good", "malformed"}) /\ Len(kinds') <= MaxCommands
    BY <2>1, <2>2
  <2> QED
    BY <1>2, <2>3 DEF Publish, Pending
<1>3. ASSUME NEW i \in Ids, Idles(i) PROVE TypeOK'
  BY <1>3 DEF Idles, Pending
<1>4. CASE UNCHANGED vars
  BY <1>4 DEF vars, Pending
<1> QED
  BY <1>1, <1>2, <1>3, <1>4

\* Every step of a consume loop keeps the group where it should be and loses no
\* command: a loop moves an entry from waiting to pending, takes a pending one off
\* the list with its ACK recorded, or with its copy already dead-lettered.
LEMMA ConsumeKeeps ==
    ASSUME TypeOK, NothingLost, Behind, NEW c \in Consumers, Consume(c) \/ ConsumerCrashes(c)
    PROVE  NothingLost' /\ Behind'
<1> USE StepNames DEF redis, loops, Goto
<1>0. Len(kinds) \in Nat /\ group \in Int /\ NoGroup = -1 /\ at \in [Consumers -> LoopSteps]
  BY DEF TypeOK, NoGroup
<1>1. CASE ConsumeStart(c)
  <2>1. /\ at' = [at EXCEPT ![c] = "sweep"] /\ group' # NoGroup
        /\ group' = IF group = NoGroup THEN Len(kinds) ELSE group
        /\ UNCHANGED <<kinds, times, dlq, acked, pub, hand>>
    BY <1>0, <1>1 DEF ConsumeStart, ensure_group
  <2>2. group = NoGroup => Len(kinds) = 0
    BY <1>0 DEF Behind
  <2>3. NothingLost'
    BY <1>0, <2>1, <2>2 DEF NothingLost
  <2>4. Behind'
    BY <1>0, <2>1, <2>2 DEF Behind, TypeOK, Ids
  <2> QED
    BY <2>3, <2>4
<1>2. CASE XAutoClaim(c)
  <2> DEFINE page == Page({i \in idle : i >= cursor[c]}, ClaimCount)
  <2>1. page \subseteq Pending
    BY DEF Page, TypeOK
  <2>2. /\ times' = [i \in Ids |-> IF i \in page THEN times[i] + 1 ELSE times[i]]
        /\ at' = [at EXCEPT ![c] = "claimed"]
        /\ UNCHANGED <<kinds, group, dlq, acked, pub, hand>>
    BY <1>2 DEF XAutoClaim
  <2> HIDE DEF page
  <2>3. \A i \in Ids : times'[i] > 0 <=> times[i] > 0
    BY <2>1, <2>2 DEF TypeOK, Pending
  <2>3a. at' = [at EXCEPT ![c] = "claimed"] /\ UNCHANGED <<kinds, group, dlq, acked, pub, hand>>
    BY <2>2
  <2>3b. at[c] # "start" /\ 1 .. Len(kinds) \subseteq Ids
    BY <1>0, <1>2, BusAssumption DEF XAutoClaim, TypeOK, Ids
  <2>4. NothingLost'
    BY <1>0, <2>3, <2>3a, <2>3b DEF NothingLost
  <2>5. Behind'
    BY <1>0, <2>3, <2>3a, <2>3b DEF Behind
  <2> QED
    BY <2>4, <2>5
<1>3. CASE RecoverPending(c) \/ FreshEntry(c)
  <2>1. UNCHANGED <<kinds, group, times, dlq, acked, pub>> /\ at[c] # "start"
    BY <1>3 DEF RecoverPending, FreshEntry
  <2>2. /\ at' \in [Consumers -> LoopSteps]
        /\ \A d \in Consumers : d # c => at'[d] = at[d] /\ hand'[d] = hand[d]
        /\ at'[c] # "dlqAck"
    <3>1. \A t : at' = [at EXCEPT ![c] = t] => at'[c] = t /\ \A d \in Consumers \ {c} : at'[d] = at[d]
      BY <1>0
    <3>2. \A i : hand' = [hand EXCEPT ![c] = i] => \A d \in Consumers \ {c} : hand'[d] = hand[d]
      BY DEF TypeOK
    <3>3. at' \in [Consumers -> LoopSteps]
      BY <1>3, ConsumeType DEF TypeOK, Consume
    <3> QED
      BY <1>3, <3>1, <3>2, <3>3, BatchCases DEF Restart
  <2>3. NothingLost'
    BY <2>1 DEF NothingLost
  <2>4. Behind'
    BY <1>0, <2>1, <2>2 DEF Behind
  <2> QED
    BY <2>3, <2>4
<1>4. CASE LoopTop(c) \/ HandlerReturns(c) \/ ConsumerCrashes(c)
  <2>1. UNCHANGED <<kinds, group, times, dlq, acked, pub, hand>> /\ at[c] # "start"
    BY <1>4 DEF LoopTop, HandlerReturns, ConsumerCrashes
  <2>2. \E t \in LoopSteps : t # "dlqAck" /\ at' = [at EXCEPT ![c] = t]
    BY <1>4 DEF LoopTop, HandlerReturns, ConsumerCrashes, Return, Restart
  <2>3. NothingLost'
    BY <2>1 DEF NothingLost
  <2>4. Behind'
    BY <1>0, <2>1, <2>2 DEF Behind
  <2> QED
    BY <2>3, <2>4
<1>5. CASE XReadGroup(c)
  <2>1. group \in 0 .. Len(kinds) /\ Len(kinds) \in 0 .. MaxCommands
    BY <1>5, ReadCases
  <2>2. PICK last \in group .. Len(kinds) :
           /\ times' = [i \in Ids |-> IF i \in group + 1 .. last THEN 1 ELSE times[i]]
           /\ group' = last
           /\ at' = [at EXCEPT ![c] = IF group + 1 .. last = {} THEN "top" ELSE "fresh"]
    BY <1>5, ReadCases
  <2>3. UNCHANGED <<kinds, dlq, acked, pub, hand>>
    BY <1>5 DEF XReadGroup
  <2>4. NothingLost'
    <3> SUFFICES ASSUME NEW i \in 1 .. Len(kinds)
                 PROVE  i > last \/ times'[i] > 0 \/ i \in acked \/ dlq[i] > 0
      BY <1>0, <2>1, <2>2, <2>3 DEF NothingLost
    <3>1. i \in Ids
      BY <2>1, BusAssumption DEF Ids
    <3>2. CASE i > group
      BY <2>1, <2>2, <3>1, <3>2
    <3>3. CASE ~(i > group)
      BY <2>1, <2>2, <3>1, <3>3 DEF NothingLost
    <3> QED
      BY <3>2, <3>3
  <2>5. \A i \in Ids : times'[i] > 0 => i <= group'
    BY <2>1, <2>2 DEF Behind, Ids
  <2>6. Behind'
    BY <1>0, <2>1, <2>2, <2>3, <2>5 DEF Behind
  <2> QED
    BY <2>4, <2>6
<1>6. CASE ack(c)
  <2>1. /\ hand[c] \in Ids
        /\ times' = [times EXCEPT ![hand[c]] = 0]
        /\ acked' = IF times[hand[c]] > 0 THEN acked \cup {hand[c]} ELSE acked
        /\ UNCHANGED <<kinds, group, dlq, pub, hand>> /\ at[c] # "start"
    BY <1>6 DEF ack, XAck, TypeOK
  <2>2. \E t \in LoopSteps : t # "dlqAck" /\ at' = [at EXCEPT ![c] = t]
    BY <1>6 DEF ack, Return
  <2>3. NothingLost'
    BY <1>0, <2>1 DEF NothingLost, TypeOK, Ids
  <2>4. \A i \in Ids : times'[i] > 0 => times[i] > 0
    BY <2>1 DEF TypeOK
  <2>5. Behind'
    BY <1>0, <2>1, <2>2, <2>4 DEF Behind
  <2> QED
    BY <2>3, <2>5
<1>7. CASE DlqAdd(c)
  <2>1. /\ hand[c] \in Ids
        /\ dlq' = [dlq EXCEPT ![hand[c]] = @ + 1]
        /\ at' = [at EXCEPT ![c] = "dlqAck"]
        /\ UNCHANGED <<kinds, group, times, acked, pub, hand>> /\ at[c] # "start"
    BY <1>7 DEF DlqAdd, TypeOK
  <2>2. dlq'[hand[c]] > 0 /\ \A i \in Ids : dlq[i] > 0 => dlq'[i] > 0
    BY <2>1 DEF TypeOK
  <2>3. NothingLost'
    BY <1>0, <2>1, <2>2 DEF NothingLost, TypeOK, Ids
  <2>4. \A d \in Consumers : at[d] = "dlqAck" => hand[d] \in Ids
    BY DEF TypeOK
  <2>5. Behind'
    BY <1>0, <2>1, <2>2, <2>4 DEF Behind
  <2> QED
    BY <2>3, <2>5
<1>8. CASE DlqAck(c)
  <2>1. /\ hand[c] \in Ids /\ dlq[hand[c]] > 0
        /\ times' = [times EXCEPT ![hand[c]] = 0]
        /\ UNCHANGED <<kinds, group, dlq, acked, pub, hand>> /\ at[c] # "start"
    BY <1>8 DEF DlqAck, XAck, TypeOK, Behind
  <2>2. \E t \in LoopSteps : t # "dlqAck" /\ at' = [at EXCEPT ![c] = t]
    BY <1>8 DEF DlqAck, Return
  <2>3. NothingLost'
    BY <1>0, <2>1 DEF NothingLost, TypeOK, Ids
  <2>4. \A i \in Ids : times'[i] > 0 => times[i] > 0
    BY <2>1 DEF TypeOK
  <2>5. Behind'
    BY <1>0, <2>1, <2>2, <2>4 DEF Behind
  <2> QED
    BY <2>3, <2>5
<1> QED
  BY <1>1, <1>2, <1>3, <1>4, <1>5, <1>6, <1>7, <1>8 DEF Consume

\* So do publishing, which ensures the group before it adds an entry, and time.
LEMMA OtherKeeps ==
    ASSUME TypeOK, NothingLost, Behind,
           \/ PublishEnsure \/ Publish
           \/ \E i \in Ids : Idles(i)
           \/ UNCHANGED vars
    PROVE  NothingLost' /\ Behind'
<1> USE DEF redis, loops
<1>0. Len(kinds) \in Nat /\ group \in Int /\ NoGroup = -1
  BY DEF TypeOK, NoGroup
<1>1. CASE PublishEnsure
  <2>1. /\ Len(kinds) < MaxCommands /\ group' # NoGroup
        /\ group' = IF group = NoGroup THEN Len(kinds) ELSE group
        /\ UNCHANGED <<kinds, times, dlq, acked, at, hand>>
    BY <1>0, <1>1 DEF PublishEnsure, ensure_group
  <2>2. group = NoGroup => Len(kinds) = 0
    BY <1>0 DEF Behind
  <2>3. NothingLost'
    BY <1>0, <2>1, <2>2 DEF NothingLost
  <2>4. Behind'
    BY <1>0, <2>1, <2>2 DEF Behind, TypeOK, Ids
  <2> QED
    BY <2>3, <2>4
<1>2. CASE Publish
  <2>1. PICK kind \in {"good", "malformed"} : kinds' = Append(kinds, kind)
    BY <1>2 DEF Publish
  <2>2. Len(kinds') = Len(kinds) + 1
    BY <2>1 DEF TypeOK
  <2>3. /\ group # NoGroup /\ pub' = FALSE
        /\ UNCHANGED <<group, times, dlq, acked, at, hand>>
    BY <1>2 DEF Publish, Behind
  <2>4. NothingLost'
    BY <1>0, <2>2, <2>3 DEF NothingLost, Behind
  <2>5. Behind'
    BY <1>0, <2>2, <2>3 DEF Behind
  <2> QED
    BY <2>4, <2>5
<1>3. CASE (\E i \in Ids : Idles(i)) \/ UNCHANGED vars
  BY <1>3 DEF Idles, vars, NothingLost, Behind
<1> QED
  BY <1>1, <1>2, <1>3

\* The inductive invariant of the bus.
LEMMA BusInvariant == Spec => [](TypeOK /\ NothingLost /\ Behind)
<1>1. TypeOK /\ NothingLost /\ Behind /\ [Next]_vars => (TypeOK /\ NothingLost /\ Behind)'
  <2> SUFFICES ASSUME TypeOK, NothingLost, Behind, [Next]_vars
               PROVE  (TypeOK /\ NothingLost /\ Behind)'
    OBVIOUS
  <2>1. CASE \E c \in Consumers : Consume(c) \/ ConsumerCrashes(c)
    BY <2>1, ConsumeType, ConsumeKeeps
  <2>2. CASE PublishEnsure \/ Publish \/ (\E i \in Ids : Idles(i)) \/ UNCHANGED vars
    BY <2>2, OtherType, OtherKeeps
  <2> QED
    BY <2>1, <2>2 DEF Next
<1> QED
  BY <1>1, BusInit, PTL DEF Spec

\* Every step of a publisher and of the consume loops, crashes included, keeps the
\* stream, its pending list and the loops well formed: an entry in hand is an entry
\* of the stream, and only pending ones wait to be claimed.
THEOREM BusTypeCorrect == Spec => []TypeOK
<1>1. TypeOK /\ NothingLost /\ Behind => TypeOK
  OBVIOUS
<1> QED
  BY <1>1, BusInvariant, PTL

\* Whatever the number of consumers, crashes, malformed commands and the batch
\* sizes, a published command is waiting, pending, ACKed or dead-lettered.
THEOREM NoCommandIsLost == Spec => []NothingLost
<1>1. TypeOK /\ NothingLost /\ Behind => NothingLost
  OBVIOUS
<1> QED
  BY <1>1, BusInvariant, PTL

-----------------------------------------------------------------------------
\* A step that moves no command between places is a stutter of the queue.
LEMMA SamePlaces == (\A i \in Ids : Place(i)' = Place(i)) => UNCHANGED Places
  BY DEF Places

\* Taking an entry off the pending list settles it, once.
LEMMA SettleStep ==
    ASSUME TypeOK, NothingLost, Behind, NEW h \in Ids,
           times' = [times EXCEPT ![h] = 0],
           UNCHANGED <<kinds, group>>,
           \/ /\ acked' = IF times[h] > 0 THEN acked \cup {h} ELSE acked
              /\ dlq' = dlq
           \/ acked' = acked /\ dlq' = dlq /\ dlq[h] > 0
    PROVE  [Queue!Next]_Places
<1>0. Len(kinds) \in Nat /\ group \in Int /\ NoGroup = -1
  BY DEF TypeOK, NoGroup
<1>1. CASE times[h] = 0
  <2>1. times' = times
    BY <1>1 DEF TypeOK
  <2>2. acked' = acked /\ dlq' = dlq
    BY <1>1
  <2> QED
    BY <2>1, <2>2, SamePlaces DEF Place
<1>2. CASE times[h] > 0
  <2>0. h \in Int /\ h <= group /\ h <= Len(kinds)
    BY <1>0, <1>2, BusAssumption DEF Behind, Ids
  <2>1. Place(h) = "pending"
    BY <1>0, <1>2, <2>0 DEF Place
  <2>2. Place(h)' \in {"acked", "dead"}
    <3>1. times'[h] = 0 /\ (h \in acked' \/ dlq'[h] > 0)
      BY <1>2 DEF TypeOK
    <3> QED
      BY <1>0, <2>0, <3>1 DEF Place
  <2>3. \A i \in Ids : i # h => Place(i)' = Place(i)
    BY <1>2 DEF Place, TypeOK
  <2>4. Places' = [Places EXCEPT ![h] = Place(h)']
    BY <2>3 DEF Places
  <2>5. Places[h] = "pending"
    BY <2>1 DEF Places
  <2>6. Queue!Settle(h)
    BY <2>2, <2>4, <2>5 DEF Queue!Settle
  <2> QED
    BY <2>6 DEF Queue!Next
<1> QED
  BY <1>1, <1>2 DEF TypeOK

\* Every step of a consume loop is a step of the queue: XREADGROUP delivers, the
\* two XACKs settle, and the rest moves no command.
LEMMA ConsumeRefines ==
    ASSUME TypeOK, NothingLost, Behind, NEW c \in Consumers, Consume(c) \/ ConsumerCrashes(c)
    PROVE  [Queue!Next]_Places
<1> USE DEF redis, loops
<1>0. Len(kinds) \in Nat /\ group \in Int /\ NoGroup = -1
  BY DEF TypeOK, NoGroup
<1>1. CASE ConsumeStart(c)
  <2>1. /\ group' = IF group = NoGroup THEN Len(kinds) ELSE group
        /\ UNCHANGED <<kinds, times, dlq, acked>>
    BY <1>1 DEF ConsumeStart, ensure_group
  <2>2. group = NoGroup => Len(kinds) = 0
    BY <1>0 DEF Behind
  <2>3. \A i \in Ids : Place(i)' = Place(i)
    BY <1>0, <2>1, <2>2 DEF Place, Ids
  <2> QED
    BY <2>3, SamePlaces
<1>2. CASE XAutoClaim(c)
  <2> DEFINE page == Page({i \in idle : i >= cursor[c]}, ClaimCount)
  <2>1. page \subseteq Pending
    BY DEF Page, TypeOK
  <2>2. /\ times' = [i \in Ids |-> IF i \in page THEN times[i] + 1 ELSE times[i]]
        /\ UNCHANGED <<kinds, group, dlq, acked>>
    BY <1>2 DEF XAutoClaim
  <2> HIDE DEF page
  <2>3. \A i \in Ids : times'[i] > 0 <=> times[i] > 0
    BY <2>1, <2>2 DEF TypeOK, Pending
  <2>4. UNCHANGED <<kinds, group, dlq, acked>>
    BY <2>2
  <2>5. \A i \in Ids : Place(i)' = Place(i)
    BY <2>3, <2>4 DEF Place
  <2> QED
    BY <2>5, SamePlaces
<1>3. CASE RecoverPending(c) \/ FreshEntry(c) \/ LoopTop(c) \/ HandlerReturns(c) \/ ConsumerCrashes(c)
  <2>1. UNCHANGED <<kinds, group, times, dlq, acked>>
    BY <1>3 DEF RecoverPending, FreshEntry, LoopTop, HandlerReturns, ConsumerCrashes
  <2> QED
    BY <2>1, SamePlaces DEF Place
<1>4. CASE XReadGroup(c)
  <2>1. group \in 0 .. Len(kinds) /\ Len(kinds) \in 0 .. MaxCommands
    BY <1>4, ReadCases
  <2>2. PICK last \in group .. Len(kinds) :
           /\ times' = [i \in Ids |-> IF i \in group + 1 .. last THEN 1 ELSE times[i]]
           /\ group' = last
    BY <1>4, ReadCases
  <2>3. UNCHANGED <<kinds, dlq, acked>>
    BY <1>4 DEF XReadGroup
  <2> DEFINE page == group + 1 .. last
  <2>4. page \subseteq Ids
    BY <2>1, BusAssumption DEF Ids
  <2>5. \A i \in Ids : Place(i)' = IF i \in page THEN "pending" ELSE Place(i)
    BY <1>0, <2>1, <2>2, <2>3 DEF Place, Ids
  <2>6. \A i \in page : Place(i) = "queued"
    BY <1>0, <2>1 DEF Place
  <2>7. \A j \in Ids \ page : Place(j) = "queued" => j > last
    BY <1>0, <2>1 DEF Place, Ids
  <2>8. CASE page = {}
    BY <2>5, <2>8, SamePlaces
  <2>9. CASE page # {}
    <3>1. page \subseteq Queue!Waiting
      BY <2>4, <2>6 DEF Queue!Waiting, Places
    <3>2. \A i \in page, j \in Queue!Waiting \ page : i < j
      BY <2>1, <2>7 DEF Queue!Waiting, Places, Ids
    <3>3. Places' = [i \in Ids |-> IF i \in page THEN "pending" ELSE Places[i]]
      BY <2>5 DEF Places
    <3>4. Queue!Deliver(page)
      BY <2>9, <3>1, <3>2, <3>3 DEF Queue!Deliver
    <3> QED
      BY <2>4, <3>4 DEF Queue!Next
  <2> QED
    BY <2>8, <2>9
<1>5. CASE ack(c)
  <2>1. hand[c] \in Ids
    BY <1>5, StepNames DEF ack, TypeOK
  <2> QED
    BY <1>5, <2>1, SettleStep DEF ack, XAck
<1>6. CASE DlqAdd(c)
  <2>1. /\ hand[c] \in Ids /\ dlq' = [dlq EXCEPT ![hand[c]] = @ + 1]
        /\ UNCHANGED <<kinds, group, times, acked>>
    BY <1>6, StepNames DEF DlqAdd, TypeOK
  <2>2. \A i \in Ids : dlq[i] > 0 => dlq'[i] > 0
    BY <2>1 DEF TypeOK
  <2>3. \A i \in Ids : i <= Len(kinds) => i \in 1 .. Len(kinds)
    BY <1>0 DEF Ids
  <2>4. \A i \in Ids : Place(i) # "lost"
    BY <1>0, <2>3 DEF Place, NothingLost, Ids
  <2>5. \A i \in Ids : Place(i)' = Place(i)
    BY <2>1, <2>2, <2>4 DEF Place
  <2> QED
    BY <2>5, SamePlaces
<1>7. CASE DlqAck(c)
  <2>1. hand[c] \in Ids /\ dlq[hand[c]] > 0
    BY <1>7, StepNames DEF DlqAck, TypeOK, Behind
  <2> QED
    BY <1>7, <2>1, SettleStep DEF DlqAck, XAck
<1> QED
  BY <1>1, <1>2, <1>3, <1>4, <1>5, <1>6, <1>7 DEF Consume

\* Publishing adds one command at the end of the queue; time moves none.
LEMMA OtherRefines ==
    ASSUME TypeOK, NothingLost, Behind,
           \/ PublishEnsure \/ Publish
           \/ \E i \in Ids : Idles(i)
           \/ UNCHANGED vars
    PROVE  [Queue!Next]_Places
<1> USE DEF redis, loops
<1>0. Len(kinds) \in Nat /\ group \in Int /\ NoGroup = -1
  BY DEF TypeOK, NoGroup
<1>1. CASE PublishEnsure
  <2>1. /\ group' = IF group = NoGroup THEN Len(kinds) ELSE group
        /\ UNCHANGED <<kinds, times, dlq, acked>>
    BY <1>1 DEF PublishEnsure, ensure_group
  <2>2. group = NoGroup => Len(kinds) = 0
    BY <1>0 DEF Behind
  <2>3. \A i \in Ids : Place(i)' = Place(i)
    BY <1>0, <2>1, <2>2 DEF Place, Ids
  <2> QED
    BY <2>3, SamePlaces
<1>2. CASE Publish
  <2> DEFINE new == Len(kinds) + 1
  <2>1. PICK kind \in {"good", "malformed"} : kinds' = Append(kinds, kind)
    BY <1>2 DEF Publish
  <2>2. Len(kinds') = new
    BY <2>1 DEF TypeOK
  <2>3. /\ group # NoGroup /\ Len(kinds) < MaxCommands /\ group <= Len(kinds)
        /\ UNCHANGED <<group, times, dlq, acked>>
    BY <1>2 DEF Publish, Behind
  <2>4. new \in Ids
    BY <1>0, <2>3, BusAssumption DEF Ids
  <2>5. \A i \in Ids : i = new => Place(i) = "none" /\ Place(i)' = "queued"
    BY <1>0, <2>2, <2>3 DEF Place
  <2>6. \A i \in Ids : i # new => Place(i)' = Place(i)
    BY <1>0, <2>2, <2>3 DEF Place, Ids
  <2>7. \A j \in Ids : j < new => Place(j) # "none"
    BY <1>0 DEF Place, Ids
  <2>8. Places' = [Places EXCEPT ![new] = "queued"]
    <3>1. Places' = [i \in Ids |-> IF i = new THEN "queued" ELSE Place(i)]
      BY <2>5, <2>6 DEF Places
    <3> QED
      BY <2>4, <3>1 DEF Places
  <2>9. Queue!Publish(new)
    BY <2>4, <2>5, <2>7, <2>8 DEF Queue!Publish, Places
  <2> QED
    BY <2>4, <2>9 DEF Queue!Next
<1>3. CASE (\E i \in Ids : Idles(i)) \/ UNCHANGED vars
  <2>1. UNCHANGED <<kinds, group, times, dlq, acked>>
    BY <1>3 DEF Idles, vars
  <2> QED
    BY <2>1, SamePlaces DEF Place
<1> QED
  BY <1>1, <1>2, <1>3

\* For every set of consumers the bus implements the abstract command queue.
THEOREM BusRefinesQueue == Spec => BusImplementsQueue
<1>1. Init => Queue!Init
  <2> SUFFICES ASSUME Init PROVE Places = [i \in Ids |-> "none"]
    BY DEF Queue!Init
  <2>1. \A i \in Ids : Place(i) = "none"
    BY DEF Init, Place, Ids
  <2> QED
    BY <2>1 DEF Places
<1>2. TypeOK /\ NothingLost /\ Behind /\ [Next]_vars => [Queue!Next]_Places
  <2> SUFFICES ASSUME TypeOK, NothingLost, Behind, [Next]_vars
               PROVE  [Queue!Next]_Places
    OBVIOUS
  <2>1. CASE \E c \in Consumers : Consume(c) \/ ConsumerCrashes(c)
    BY <2>1, ConsumeRefines
  <2>2. CASE PublishEnsure \/ Publish \/ (\E i \in Ids : Idles(i)) \/ UNCHANGED vars
    BY <2>2, OtherRefines
  <2> QED
    BY <2>1, <2>2 DEF Next
<1> QED
  BY <1>1, <1>2, BusInvariant, PTL DEF Spec, BusImplementsQueue, Queue!Spec

-----------------------------------------------------------------------------
(* The delivery ceiling. Deliveries is inductive: it counts, beside the calls  *)
(* made, the ones that loops still have in memory.                           *)

\* Counting sets of consumers: a part is no larger than the whole ...
LEMMA CountPart ==
    ASSUME NEW S, NEW T, S \subseteq Consumers, T \subseteq S
    PROVE  /\ Cardinality(T) \in Nat /\ Cardinality(S) \in Nat /\ Cardinality(Consumers) \in Nat
           /\ Cardinality(T) <= Cardinality(S) /\ Cardinality(S) <= Cardinality(Consumers)
<1>1. IsFiniteSet(Consumers) /\ IsFiniteSet(S) /\ Cardinality(S) <= Cardinality(Consumers)
  BY RetryAssumption, FS_Subset
<1>2. IsFiniteSet(T) /\ Cardinality(T) <= Cardinality(S)
  BY <1>1, FS_Subset
<1> QED
  BY <1>1, <1>2, FS_CardinalityType

\* ... smaller by one at least without one of its members ...
LEMMA CountLess ==
    ASSUME NEW S, NEW T, NEW c, S \subseteq Consumers, c \in S, T \subseteq S \ {c}
    PROVE  /\ Cardinality(T) \in Nat /\ Cardinality(S) \in Nat
           /\ Cardinality(T) + 1 <= Cardinality(S)
<1>1. IsFiniteSet(S) /\ Cardinality(S) \in Nat
  BY RetryAssumption, FS_Subset, FS_CardinalityType
<1>2. IsFiniteSet(S \ {c}) /\ Cardinality(S \ {c}) = Cardinality(S) - 1
  BY <1>1, FS_RemoveElement
<1>3. Cardinality(S \ {c}) \in Nat /\ Cardinality(T) \in Nat /\ Cardinality(T) <= Cardinality(S \ {c})
  BY CountPart
<1> QED
  BY <1>1, <1>2, <1>3

\* ... and larger by one at most with one more.
LEMMA CountMore ==
    ASSUME NEW S, NEW T, NEW c \in Consumers, S \subseteq Consumers, T \subseteq S \cup {c}
    PROVE  /\ Cardinality(T) \in Nat /\ Cardinality(S) \in Nat
           /\ Cardinality(T) <= Cardinality(S) + 1
<1>1. IsFiniteSet(S) /\ Cardinality(S) \in Nat
  BY RetryAssumption, FS_Subset, FS_CardinalityType
<1>2. IsFiniteSet(S \cup {c}) /\ Cardinality(S \cup {c}) <= Cardinality(S) + 1
  BY <1>1, FS_AddElement
<1>3. Cardinality(S \cup {c}) \in Nat /\ Cardinality(T) \in Nat /\ Cardinality(T) <= Cardinality(S \cup {c})
  BY CountPart
<1> QED
  BY <1>1, <1>2, <1>3

\* A step that hands out no entry and calls no handler keeps the counts.
LEMMA QuietCount ==
    ASSUME TypeOK, NEW i \in Ids, Counted(i), times'[i] = times[i], handled'[i] = handled[i],
           Holders(i)' \subseteq Holders(i), Readers(i)' \subseteq Readers(i)
    PROVE  Counted(i)'
<1>1. Holders(i) \subseteq Consumers /\ Readers(i) \subseteq Consumers
  BY DEF Holders, Readers
<1>2. /\ Cardinality(Holders(i)') \in Nat /\ Cardinality(Holders(i)) \in Nat
      /\ Cardinality(Holders(i)') <= Cardinality(Holders(i)) /\ Cardinality(Consumers) \in Nat
  BY <1>1, CountPart
<1>3. /\ Cardinality(Readers(i)') \in Nat /\ Cardinality(Readers(i)) \in Nat
      /\ Cardinality(Readers(i)') <= Cardinality(Readers(i))
  BY <1>1, CountPart
<1>4. times[i] \in Nat /\ handled[i] \in Nat /\ MaxDelivery \in Nat
  BY BusAssumption DEF TypeOK
<1> QED
  BY <1>2, <1>3, <1>4 DEF Counted

\* Nothing was delivered in the initial state.
LEMMA DeliveriesInit == Init => Deliveries
<1> SUFFICES ASSUME Init PROVE Deliveries
  OBVIOUS
<1>1. \A i \in Ids : Holders(i) = {} /\ handled[i] = 0 /\ times[i] = 0
  BY DEF Init, Holders
<1>2. Cardinality({}) = 0 /\ Cardinality(Consumers) \in Nat /\ MaxDelivery \in Nat /\ MaxDelivery > 1
  BY BusAssumption, RetryAssumption, FS_EmptySet, FS_CardinalityType
<1>3. \A i \in Ids : Counted(i)
  BY <1>1, <1>2 DEF Counted
<1> QED
  BY <1>1, <1>3, StepNames DEF Init, Deliveries

\* A loop's step moves nobody else's loop.
LEMMA OwnLoop ==
    ASSUME TypeOK, NEW c \in Consumers, Consume(c) \/ ConsumerCrashes(c)
    PROVE  \A d \in Consumers \ {c} : /\ at'[d] = at[d] /\ hand'[d] = hand[d]
                                      /\ batch'[d] = batch[d]
<1> USE DEF TypeOK, Goto, loops
<1>1. CASE ConsumeStart(c)
  BY <1>1 DEF ConsumeStart
<1>2. CASE XAutoClaim(c)
  BY <1>2 DEF XAutoClaim
<1>3. CASE RecoverPending(c) \/ FreshEntry(c)
  <2>1. \A t : at' = [at EXCEPT ![c] = t] => \A d \in Consumers \ {c} : at'[d] = at[d]
    OBVIOUS
  <2>2. \A i : hand' = [hand EXCEPT ![c] = i] => \A d \in Consumers \ {c} : hand'[d] = hand[d]
    OBVIOUS
  <2>3. \A b : batch' = [batch EXCEPT ![c] = b] => \A d \in Consumers \ {c} : batch'[d] = batch[d]
    OBVIOUS
  <2> QED
    BY <1>3, <2>1, <2>2, <2>3, BatchCases DEF Restart
<1>4. CASE LoopTop(c)
  BY <1>4 DEF LoopTop
<1>5. CASE XReadGroup(c)
  BY <1>5 DEF XReadGroup
<1>6. CASE HandlerReturns(c)
  BY <1>6 DEF HandlerReturns, Return
<1>7. CASE ack(c)
  BY <1>7 DEF ack, Return
<1>8. CASE DlqAdd(c) \/ DlqAck(c)
  BY <1>8 DEF DlqAdd, DlqAck, Return
<1>9. CASE ConsumerCrashes(c)
  BY <1>9 DEF ConsumerCrashes, Restart
<1> QED
  BY <1>1, <1>2, <1>3, <1>4, <1>5, <1>6, <1>7, <1>8, <1>9 DEF Consume

\* A loop that keeps its batch or drops it, and calls no handler, keeps Deliveries.
LEMMA QuietLoop ==
    ASSUME TypeOK, Behind, Deliveries, NEW c \in Consumers,
           \A d \in Consumers \ {c} : at'[d] = at[d] /\ hand'[d] = hand[d] /\ batch'[d] = batch[d],
           batch'[c] \subseteq batch[c], at'[c] \in ReadSteps => at[c] \in ReadSteps \/ batch'[c] = {},
           at'[c] \in {"start", "sweep", "top", "read"} => batch'[c] = {},
           at'[c] \in BusySteps => hand'[c] \notin batch'[c],
           UNCHANGED <<times, handled>>,
           \A i \in Ids : i > group' => i > group
    PROVE  Deliveries'
<1>1. \A i \in Ids : Holders(i)' \subseteq Holders(i) /\ Readers(i)' \subseteq Readers(i)
  BY DEF Holders, Readers
<1>2. \A i \in Ids : Counted(i)'
  BY <1>1, QuietCount DEF Deliveries
<1>3. \A i \in Ids : i > group' => handled'[i] = 0 /\ Holders(i)' = {}
  BY <1>1 DEF Deliveries
<1> QED
  BY <1>2, <1>3 DEF Deliveries

\* A loop takes the next entry of its batch in hand: out of a sweep only below the
\* ceiling, out of a read whatever its count.
LEMMA TakeCounts ==
    ASSUME TypeOK, Deliveries, NEW c \in Consumers, NEW i \in batch[c],
           at[c] \in {"claimed", "fresh"},
           at[c] = "claimed" => ~Exhausted(i) \/ handled' = handled,
           batch' = [batch EXCEPT ![c] = @ \ {i}],
           hand' = [hand EXCEPT ![c] = i],
           \E t \in {"dlqAdd", "sweepHandle", "readHandle"} :
              /\ at' = [at EXCEPT ![c] = t]
              /\ t = "readHandle" <=> at[c] = "fresh",
           handled' = handled \/ handled' = [handled EXCEPT ![i] = @ + 1],
           UNCHANGED <<times, group>>
    PROVE  Deliveries'
<1> USE StepNames DEF TypeOK
<1>1. i \in Ids
  OBVIOUS
<1>2. ASSUME NEW j \in Ids \ {i} PROVE Counted(j)' /\ Holders(j)' \subseteq Holders(j)
  <2>1. Holders(j)' \subseteq Holders(j) /\ Readers(j)' \subseteq Readers(j)
    BY DEF Holders, Readers, ReadSteps
  <2>2. handled'[j] = handled[j]
    OBVIOUS
  <2> QED
    BY <2>1, <2>2, QuietCount DEF Deliveries
<1>3. /\ c \in Holders(i) /\ Holders(i) \subseteq Consumers /\ Readers(i) \subseteq Consumers
      /\ Holders(i)' \subseteq Holders(i) \ {c} /\ Readers(i)' \subseteq Readers(i) \ {c}
      /\ c \in Readers(i) <=> at[c] = "fresh"
      /\ at[c] = "claimed" => Readers(i) \subseteq Holders(i) \ {c} /\ Readers(i)' \subseteq Readers(i)
  BY DEF Holders, Readers, ReadSteps
<1>4. /\ Cardinality(Holders(i)') \in Nat /\ Cardinality(Holders(i)) \in Nat
      /\ Cardinality(Holders(i)') + 1 <= Cardinality(Holders(i))
  BY <1>3, CountLess
<1>5. /\ Cardinality(Readers(i)') \in Nat /\ Cardinality(Readers(i)) \in Nat
      /\ Cardinality(Readers(i)') <= Cardinality(Readers(i)) /\ Cardinality(Consumers) \in Nat
  <2>1. Readers(i)' \subseteq Readers(i)
    BY <1>3
  <2> QED
    BY <1>3, <2>1, CountPart
<1>6. at[c] = "fresh" => Cardinality(Readers(i)') + 1 <= Cardinality(Readers(i))
  BY <1>3, CountLess
<1>7. at[c] = "claimed" => Cardinality(Readers(i)) + 1 <= Cardinality(Holders(i))
  BY <1>3, CountLess
<1>8. times[i] \in Nat /\ handled[i] \in Nat /\ MaxDelivery \in Nat
  BY <1>1, BusAssumption
<1>9. handled'[i] = handled[i] \/ handled'[i] = handled[i] + 1
  BY <1>1
<1>10. Counted(i)'
  <2>1. Counted(i) /\ times'[i] = times[i]
    BY <1>1 DEF Deliveries
  <2> HIDE DEF TypeOK
  <2>2. CASE at[c] = "fresh"
    BY <1>4, <1>5, <1>6, <1>8, <1>9, <2>1, <2>2 DEF Counted
  <2>3. CASE at[c] = "claimed"
    BY <1>4, <1>5, <1>7, <1>8, <1>9, <2>1, <2>3 DEF Counted, Exhausted
  <2> QED
    BY <2>2, <2>3
<1>11. \A j \in Ids : j > group' => handled'[j] = 0 /\ Holders(j)' = {}
  <2>1. ~(i > group)
    BY <1>1, <1>3 DEF Deliveries
  <2> QED
    BY <1>2, <2>1 DEF Deliveries
<1>12. \A d \in Consumers : at'[d] \in {"start", "sweep", "top", "read"} => batch'[d] = {}
  BY DEF Deliveries
<1>13. \A d \in Consumers : at'[d] \in BusySteps => hand'[d] \notin batch'[d]
  BY DEF Deliveries
<1> QED
  BY <1>2, <1>10, <1>11, <1>12, <1>13 DEF Deliveries

\* The entry in hand leaves the pending list, by an ACK or dead-lettered: then the
\* calls were below the ceiling and the loop itself does not have it again.
LEMMA AckCounts ==
    ASSUME TypeOK, Deliveries, NEW c \in Consumers, at[c] \in BusySteps,
           times' = [times EXCEPT ![hand[c]] = 0],
           UNCHANGED <<handled, batch, hand, group>>, Return(c)
    PROVE  Deliveries'
<1> USE StepNames DEF TypeOK
<1>0. PICK i \in Ids : i = hand[c]
  OBVIOUS
<1>1. c \notin Holders(i)
  BY <1>0 DEF Deliveries, Holders
<1>2. /\ at' = [at EXCEPT ![c] = IF at[c] \in SweepSteps THEN "claimed" ELSE "fresh"]
      /\ at[c] \notin SweepSteps => at[c] \in ReadSteps
  BY DEF Return, Goto, SweepSteps, ReadSteps
<1>3. \A j \in Ids : Holders(j)' = Holders(j) /\ Readers(j)' \subseteq Readers(j)
  BY <1>2 DEF Holders, Readers, ReadSteps
<1>4. \A j \in Ids \ {i} : Counted(j)'
  BY <1>0, <1>3, QuietCount DEF Deliveries
<1>5. Counted(i)'
  <2>1. Holders(i) \subseteq Consumers \ {c} /\ Readers(i) \subseteq Holders(i)
    BY <1>1 DEF Holders, Readers
  <2>2. /\ Cardinality(Holders(i)) \in Nat /\ Cardinality(Consumers) \in Nat
        /\ Cardinality(Holders(i)) + 1 <= Cardinality(Consumers)
    BY <2>1, CountLess
  <2>3. Cardinality(Readers(i)) \in Nat
    BY <2>1, CountPart
  <2>4. Counted(i) /\ times'[i] = 0 /\ handled'[i] = handled[i] /\ Holders(i)' = Holders(i)
    BY <1>0, <1>3 DEF Deliveries
  <2>5. times[i] \in Nat /\ handled[i] \in Nat /\ MaxDelivery \in Nat
    BY BusAssumption
  <2> HIDE DEF TypeOK
  <2> QED
    BY <2>2, <2>3, <2>4, <2>5 DEF Counted
<1>6. \A d \in Consumers : /\ at'[d] \in {"start", "sweep", "top", "read"} => batch'[d] = {}
                           /\ at'[d] \in BusySteps => hand'[d] \notin batch'[d]
  BY <1>2 DEF Deliveries
<1> QED
  BY <1>3, <1>4, <1>5, <1>6 DEF Deliveries

\* XAUTOCLAIM counts the delivery of each entry of the page that it hands out.
LEMMA ClaimCounts ==
    ASSUME TypeOK, Behind, Deliveries, NEW c \in Consumers, XAutoClaim(c)
    PROVE  Deliveries'
<1> USE StepNames DEF TypeOK
<1> DEFINE page == Page({i \in idle : i >= cursor[c]}, ClaimCount)
<1>1. page \subseteq Pending
  BY DEF Page
<1>2. /\ at[c] = "sweep" /\ batch[c] = {}
      /\ times' = [i \in Ids |-> IF i \in page THEN times[i] + 1 ELSE times[i]]
      /\ batch' = [batch EXCEPT ![c] = page] /\ at' = [at EXCEPT ![c] = "claimed"]
      /\ UNCHANGED <<group, handled, hand>>
  BY DEF XAutoClaim, Goto, Deliveries
<1> HIDE DEF page
<1>3. \A i \in Ids : /\ Holders(i)' \subseteq Holders(i) \cup (IF i \in page THEN {c} ELSE {})
                     /\ Readers(i)' \subseteq Readers(i)
  BY <1>2 DEF Holders, Readers, ReadSteps
<1>4. ASSUME NEW i \in Ids PROVE Counted(i)'
  <2>1. CASE i \notin page
    BY <1>2, <1>3, <2>1, QuietCount DEF Deliveries
  <2>2. CASE i \in page
    <3>1. Holders(i) \subseteq Consumers /\ Readers(i) \subseteq Consumers
      BY DEF Holders, Readers
    <3>2. /\ Cardinality(Holders(i)') \in Nat /\ Cardinality(Holders(i)) \in Nat
          /\ Cardinality(Holders(i)') <= Cardinality(Holders(i)) + 1
      BY <1>3, <2>2, <3>1, CountMore
    <3>3. /\ Cardinality(Readers(i)') \in Nat /\ Cardinality(Readers(i)) \in Nat
          /\ Cardinality(Readers(i)') <= Cardinality(Readers(i))
      BY <1>3, <3>1, CountPart
    <3>4. /\ Counted(i) /\ times[i] > 0 /\ times'[i] = times[i] + 1 /\ handled'[i] = handled[i]
          /\ times[i] \in Nat /\ handled[i] \in Nat /\ MaxDelivery \in Nat
      BY <1>1, <1>2, <2>2, BusAssumption DEF Deliveries, Pending
    <3> QED
      BY <3>2, <3>3, <3>4, SMTT(30) DEF Counted
  <2> QED
    BY <2>1, <2>2
<1>5. \A i \in Ids : i > group' => handled'[i] = 0 /\ Holders(i)' = {}
  <2>1. \A i \in Ids : i > group => i \notin page
    <3>1. group \in Int /\ Ids \subseteq Int
      BY BusAssumption DEF NoGroup, Ids
    <3>2. \A i \in Pending : i \in Ids /\ i <= group
      BY DEF Pending, Behind
    <3> QED
      BY <1>1, <3>1, <3>2
  <2> QED
    BY <1>2, <1>3, <2>1 DEF Deliveries
<1>6. \A d \in Consumers : /\ at'[d] \in {"start", "sweep", "top", "read"} => batch'[d] = {}
                           /\ at'[d] \in BusySteps => hand'[d] \notin batch'[d]
  BY <1>2 DEF Deliveries
<1> QED
  BY <1>4, <1>5, <1>6 DEF Deliveries

\* XREADGROUP hands out entries that nobody had before, with a count of one.
LEMMA ReadCounts ==
    ASSUME TypeOK, Behind, Deliveries, NEW c \in Consumers, XReadGroup(c)
    PROVE  Deliveries'
<1> USE StepNames DEF TypeOK
<1>1. group \in 0 .. Len(kinds) /\ Len(kinds) \in 0 .. MaxCommands
  BY ReadCases
<1>2. PICK last \in group .. Len(kinds) :
         /\ times' = [i \in Ids |-> IF i \in group + 1 .. last THEN 1 ELSE times[i]]
         /\ group' = last /\ batch' = [batch EXCEPT ![c] = group + 1 .. last]
         /\ at' = [at EXCEPT ![c] = IF group + 1 .. last = {} THEN "top" ELSE "fresh"]
  BY ReadCases
<1>3. at[c] = "read" /\ batch[c] = {} /\ UNCHANGED <<handled, hand>>
  BY DEF XReadGroup, Deliveries
<1> DEFINE page == group + 1 .. last
<1>4. \A i \in Ids : i \in page <=> i > group /\ ~(i > last)
  BY <1>1 DEF Ids
<1> HIDE DEF page
<1>5. \A i \in Ids : /\ Holders(i)' \subseteq Holders(i) \cup (IF i \in page THEN {c} ELSE {})
                     /\ i \notin page => Readers(i)' \subseteq Readers(i)
                     /\ Readers(i)' \subseteq Holders(i)'
  BY <1>2, <1>3 DEF Holders, Readers, ReadSteps, page
<1>6. ASSUME NEW i \in Ids PROVE Counted(i)'
  <2>1. CASE i \notin page
    BY <1>2, <1>3, <1>5, <2>1, QuietCount DEF Deliveries, page
  <2>2. CASE i \in page
    <3>1. Holders(i) = {} /\ handled'[i] = 0 /\ times'[i] = 1
      BY <1>2, <1>3, <1>4, <2>2 DEF Deliveries, page
    <3>2. Cardinality(Holders(i)') \in Nat /\ Cardinality(Holders(i)') <= 1
      <4>1. {} \subseteq Consumers /\ Holders(i)' \subseteq {} \cup {c} /\ Cardinality({}) = 0
        BY <1>5, <2>2, <3>1, FS_EmptySet
      <4>2. Cardinality(Holders(i)') \in Nat /\ Cardinality(Holders(i)') <= Cardinality({}) + 1
        BY <1>5, <2>2, <3>1, CountMore
      <4> QED
        BY <4>1, <4>2
    <3>3. /\ Cardinality(Readers(i)') \in Nat
          /\ Cardinality(Readers(i)') <= Cardinality(Holders(i)')
      <4>1. Holders(i)' \subseteq Consumers
        BY DEF Holders
      <4> QED
        BY <1>5, <4>1, CountPart
    <3>4. MaxDelivery \in Nat /\ MaxDelivery > 1
      BY BusAssumption, RetryAssumption
    <3> QED
      BY <3>1, <3>2, <3>3, <3>4 DEF Counted
  <2> QED
    BY <2>1, <2>2
<1>7. \A i \in Ids : i > group' => handled'[i] = 0 /\ Holders(i)' = {}
  <2>1. \A i \in Ids : i > group' => i > group /\ i \notin page
    BY <1>1, <1>2, <1>4 DEF Ids
  <2> QED
    BY <1>3, <1>5, <2>1 DEF Deliveries
<1>8. \A d \in Consumers : /\ at'[d] \in {"start", "sweep", "top", "read"} => batch'[d] = {}
                           /\ at'[d] \in BusySteps => hand'[d] \notin batch'[d]
  BY <1>2, <1>3 DEF Deliveries
<1> QED
  BY <1>6, <1>7, <1>8 DEF Deliveries

\* Every step of a consume loop keeps Deliveries.
LEMMA ConsumeCounts ==
    ASSUME TypeOK, Behind, Deliveries, NEW c \in Consumers, Consume(c) \/ ConsumerCrashes(c)
    PROVE  Deliveries'
<1> USE StepNames DEF redis, Goto
<1>0. /\ at \in [Consumers -> LoopSteps] /\ batch \in [Consumers -> SUBSET Ids]
      /\ \A d \in Consumers \ {c} : /\ at'[d] = at[d] /\ hand'[d] = hand[d]
                                    /\ batch'[d] = batch[d]
  BY OwnLoop DEF TypeOK
<1>1. CASE ConsumeStart(c)
  <2>1. /\ at[c] = "start" /\ at'[c] = "sweep" /\ UNCHANGED <<times, handled, batch>>
        /\ group' = IF group = NoGroup THEN Len(kinds) ELSE group
    BY <1>0, <1>1 DEF ConsumeStart, ensure_group
  <2>2. \A i \in Ids : i > group' => i > group
    BY <2>1, BusAssumption DEF Ids, NoGroup, TypeOK
  <2>3. batch'[c] = {}
    BY <2>1 DEF Deliveries
  <2> QED
    BY <1>0, <2>1, <2>2, <2>3, QuietLoop DEF ReadSteps
<1>2. CASE XAutoClaim(c)
  BY <1>2, ClaimCounts
<1>3. CASE RecoverPending(c) \/ FreshEntry(c)
  <2>1. UNCHANGED <<times, group>> /\ at[c] \in {"claimed", "fresh"}
    BY <1>3 DEF RecoverPending, FreshEntry
  <2>2. CASE Restart(c) /\ UNCHANGED <<hand, handled>>
    <3>1. at'[c] = "start" /\ batch'[c] = {}
      BY <1>0, <2>2 DEF Restart
    <3> QED
      BY <1>0, <2>1, <2>2, <3>1, QuietLoop DEF ReadSteps
  <2>3. CASE /\ batch[c] = {} /\ \E t \in {"read", "sweep", "top"} : at' = [at EXCEPT ![c] = t]
             /\ UNCHANGED <<hand, batch, handled>>
    <3>1. at'[c] \in {"read", "sweep", "top"} /\ batch'[c] = {}
      BY <1>0, <2>3
    <3> QED
      BY <1>0, <2>1, <2>3, <3>1, QuietLoop DEF ReadSteps
  <2>4. CASE \E i \in batch[c] :
                /\ at[c] = "claimed" => ~Exhausted(i) \/ handled' = handled
                /\ batch' = [batch EXCEPT ![c] = @ \ {i}] /\ hand' = [hand EXCEPT ![c] = i]
                /\ \E t \in {"dlqAdd", "sweepHandle", "readHandle"} :
                      /\ at' = [at EXCEPT ![c] = t]
                      /\ t = "readHandle" <=> at[c] = "fresh"
                /\ handled' = handled \/ handled' = [handled EXCEPT ![i] = @ + 1]
    BY <2>1, <2>4, TakeCounts
  <2>5. CASE RecoverPending(c)
    <3>1. CASE batch[c] = {} /\ Goto(c, IF cursor[c] = 0 THEN "read" ELSE "sweep")
               /\ UNCHANGED <<hand, batch, cursor, handled>>
      BY <2>3, <3>1
    <3>2. ASSUME NEW i \in batch[c], Exhausted(i), Take(c, i), Goto(c, "dlqAdd"),
                 UNCHANGED <<cursor, handled>>
          PROVE  Deliveries'
      BY <2>4, <2>5, <3>2 DEF Take, RecoverPending
    <3>3. ASSUME NEW i \in batch[c], ~Exhausted(i), Yield(c, i, "sweepHandle")
          PROVE  Deliveries'
      BY <2>2, <2>4, <2>5, <3>3 DEF Take, Yield, RecoverPending
    <3> QED
      BY <2>5, <3>1, <3>2, <3>3 DEF RecoverPending
  <2>6. CASE FreshEntry(c)
    <3>1. CASE batch[c] = {} /\ Goto(c, "top") /\ UNCHANGED <<hand, batch, cursor, handled>>
      BY <2>3, <3>1
    <3>2. ASSUME NEW i \in batch[c], Yield(c, i, "readHandle") PROVE Deliveries'
      BY <2>2, <2>4, <2>6, <3>2 DEF Take, Yield, FreshEntry
    <3> QED
      BY <2>6, <3>1, <3>2 DEF FreshEntry
  <2> QED
    BY <1>3, <2>5, <2>6
<1>4. CASE LoopTop(c)
  <2>1. /\ at[c] = "top" /\ at'[c] \in {"sweep", "read"}
        /\ UNCHANGED <<times, group, handled, batch>>
    BY <1>0, <1>4 DEF LoopTop
  <2>2. batch'[c] = {}
    BY <2>1 DEF Deliveries
  <2> QED
    BY <1>0, <2>1, <2>2, QuietLoop DEF ReadSteps
<1>5. CASE XReadGroup(c)
  BY <1>5, ReadCounts
<1>6. CASE HandlerReturns(c)
  <2>1. /\ at[c] \in {"sweepHandle", "readHandle"}
        /\ at'[c] \in (IF at[c] = "sweepHandle" THEN {"sweepAck", "claimed"} ELSE {"readAck", "fresh"})
        /\ UNCHANGED <<times, group, handled, batch, hand>>
    BY <1>0, <1>6 DEF HandlerReturns, Return, SweepSteps
  <2>2. hand'[c] \notin batch'[c]
    BY <2>1 DEF Deliveries
  <2> QED
    BY <1>0, <2>1, <2>2, QuietLoop DEF ReadSteps
<1>7. CASE ack(c)
  BY <1>7, AckCounts DEF ack, XAck
<1>8. CASE DlqAdd(c)
  <2>1. at[c] = "dlqAdd" /\ at'[c] = "dlqAck" /\ UNCHANGED <<times, group, handled, batch, hand>>
    BY <1>0, <1>8 DEF DlqAdd
  <2>2. hand'[c] \notin batch'[c]
    BY <2>1 DEF Deliveries
  <2> QED
    BY <1>0, <2>1, <2>2, QuietLoop DEF ReadSteps
<1>9. CASE DlqAck(c)
  BY <1>9, AckCounts DEF DlqAck, XAck
<1>10. CASE ConsumerCrashes(c)
  <2>1. at'[c] = "start" /\ batch'[c] = {} /\ UNCHANGED <<times, group, handled>>
    BY <1>0, <1>10 DEF ConsumerCrashes, Restart
  <2> QED
    BY <1>0, <2>1, QuietLoop DEF ReadSteps
<1> QED
  BY <1>1, <1>2, <1>3, <1>4, <1>5, <1>6, <1>7, <1>8, <1>9, <1>10 DEF Consume

\* So do publishing and time, which touch no loop.
LEMMA OtherCounts ==
    ASSUME TypeOK, Behind, Deliveries,
           \/ PublishEnsure \/ Publish
           \/ \E i \in Ids : Idles(i)
           \/ UNCHANGED vars
    PROVE  Deliveries'
<1>1. UNCHANGED <<times, handled, at, hand, batch>>
  BY DEF PublishEnsure, Publish, Idles, vars, redis, loops
<1>2. \A i \in Ids : i > group' => i > group
  BY BusAssumption DEF PublishEnsure, Publish, Idles, vars, redis, ensure_group, NoGroup, Ids, TypeOK
<1>3. \A i \in Ids : Holders(i)' = Holders(i) /\ Readers(i)' = Readers(i)
  BY <1>1 DEF Holders, Readers
<1>4. \A i \in Ids : Counted(i)'
  BY <1>1, <1>3, QuietCount DEF Deliveries
<1> QED
  BY <1>1, <1>2, <1>3, <1>4 DEF Deliveries

\* For every finite set of consumers and every ceiling above one delivery, a handler
\* is called with a command fewer times than the ceiling, plus once per peer.
THEOREM AttemptsAreBounded == Spec => []BoundedAttempts
<1>1. TypeOK /\ Behind /\ Deliveries /\ [Next]_vars => Deliveries'
  <2> SUFFICES ASSUME TypeOK, Behind, Deliveries, [Next]_vars PROVE Deliveries'
    OBVIOUS
  <2>1. CASE \E c \in Consumers : Consume(c) \/ ConsumerCrashes(c)
    BY <2>1, ConsumeCounts
  <2>2. CASE PublishEnsure \/ Publish \/ (\E i \in Ids : Idles(i)) \/ UNCHANGED vars
    BY <2>2, OtherCounts
  <2> QED
    BY <2>1, <2>2 DEF Next
<1>2. TypeOK /\ Deliveries => BoundedAttempts
  <2> SUFFICES ASSUME TypeOK, Deliveries, NEW i \in Ids
               PROVE  handled[i] <= MaxDelivery - 2 + Cardinality(Consumers)
    BY DEF BoundedAttempts
  <2>1. Holders(i) \subseteq Consumers /\ Readers(i) \subseteq Holders(i)
    BY DEF Holders, Readers
  <2>2. /\ Cardinality(Holders(i)) \in Nat /\ Cardinality(Readers(i)) \in Nat
        /\ Cardinality(Consumers) \in Nat
    BY <2>1, CountPart
  <2>3. Cardinality(Consumers) # 0
    BY RetryAssumption, FS_EmptySet
  <2>4. handled[i] \in Nat /\ MaxDelivery \in Nat /\ Counted(i)
    BY BusAssumption DEF TypeOK, Deliveries
  <2> QED
    BY <2>2, <2>3, <2>4 DEF Counted
<1> QED
  BY <1>1, <1>2, DeliveriesInit, BusInvariant, PTL DEF Spec
=============================================================================
