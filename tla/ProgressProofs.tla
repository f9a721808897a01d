--------------------------- MODULE ProgressProofs ---------------------------
(***************************************************************************)
(* The safety of two parts that must make progress, for every value of the  *)
(* constants: the Idempotency-Key of a start request and the cap on the     *)
(* gateway's restarts.                                                      *)
(*                                                                         *)
(* A key holds no owner, so that two requests are never at work rests on    *)
(* what the requests do: while no reservation was outlived and none was     *)
(* released twice, the key of a request at work is its own (KeyIsSound).    *)
(*                                                                         *)
(* decide() counts the restarts before an escalation and forgets them after *)
(* it, so that the recreates of a window stay within the cap rests on the   *)
(* cooldown: it is no shorter than the window (CapIsKept).                  *)
(***************************************************************************)
EXTENDS Progress, FiniteSetTheorems, TLAPS

LEMMA KeysCount == \A S : Keys!Cardinality(S) = Cardinality(S)
  BY Zenon DEF Keys!Cardinality, Cardinality

(* IdempotencyStore.  v1: key, v2: att, v3: used.                           *)

LEMMA KeyStart == ASSUME Keys!Init PROVE Keys!KeyIsSound
<1>1. PICK b \in [Attempts -> Bodies] :
        v2 = [a \in Attempts |-> [pc |-> "set", body |-> b[a], answer |-> "none"]]
  BY DEF Keys!Init
<1>2. v1 = Keys!Missing /\ v3 = [slow |-> 0, crashes |-> 0, rejected |-> 0]
  BY DEF Keys!Init
<1>3. Keys!RequestsAreTyped
  BY <1>1, <1>2 DEF Keys!RequestsAreTyped, Keys!Answers
<1>4. v1 \in Keys!Keys
  BY <1>2 DEF Keys!Keys
<1>5. Keys!AnswersAreOfTheBody
  BY <1>1, KeyAssumption DEF Keys!AnswersAreOfTheBody
<1>6. Keys!WorkHoldsTheKey
  BY <1>1 DEF Keys!WorkHoldsTheKey
<1> QED BY <1>3, <1>4, <1>5, <1>6 DEF Keys!KeyIsSound

\* What Keys says of a key, by its state.
LEMMA KeyStates ==
    ASSUME v1 \in Keys!Keys
    PROVE  \/ v1 = Keys!Missing /\ v1.state = "missing"
           \/ /\ v1.state = "pending" /\ v1.owner \in Attempts
              /\ v1 = [state |-> "pending", body |-> v2[v1.owner].body, owner |-> v1.owner, by |-> Keys!Nobody]
           \/ /\ v1.state = "completed" /\ v1.by \in Attempts
              /\ v1 = [state |-> "completed", body |-> v2[v1.by].body, owner |-> Keys!Nobody, by |-> v1.by]
  BY DEF Keys!Keys, Keys!Missing

LEMMA KeysKept ==
    ASSUME Keys!RequestsAreTyped, v1 \in Keys!Keys, Keys!RequestsAreTyped',
           \A a \in Attempts : v2'[a].body = v2[a].body,
           \/ v1' \in {v1, Keys!Missing}
           \/ \E a \in Attempts :
                v1' \in {[state |-> "pending", body |-> v2[a].body, owner |-> a, by |-> Keys!Nobody],
                         [state |-> "completed", body |-> v2[a].body, owner |-> Keys!Nobody, by |-> a]}
    PROVE  (v1 \in Keys!Keys)'
  BY DEF Keys!Keys

LEMMA KeySetNx ==
    ASSUME Keys!KeyIsSound, NEW a \in Attempts, Keys!SetNx(a)
    PROVE  Keys!KeyIsSound'
<1>1. PICK pc \in {"work", "get", "getAgain"} :
        /\ v2' = [v2 EXCEPT ![a].pc = pc]
        /\ \/ pc = "work" /\ v1 = Keys!Missing /\ v1' = Keys!Pending(a)
           \/ pc # "work" /\ v1' = v1
  BY DEF Keys!SetNx, Keys!Goto
<1>2. v3' = v3 /\ v2[a].pc \in {"set", "setAgain"}
  BY DEF Keys!SetNx, Keys!At
<1>3. Keys!RequestsAreTyped'
  BY <1>1, <1>2 DEF Keys!KeyIsSound, Keys!RequestsAreTyped
<1>4. \A c \in Attempts : v2'[c].body = v2[c].body /\ v2'[c].answer = v2[c].answer
  BY <1>1 DEF Keys!KeyIsSound, Keys!RequestsAreTyped
<1>5. (v1 \in Keys!Keys)'
  BY <1>1, <1>3, <1>4, KeysKept DEF Keys!KeyIsSound, Keys!Pending
<1>6. Keys!AnswersAreOfTheBody'
  BY <1>4 DEF Keys!KeyIsSound, Keys!AnswersAreOfTheBody
<1>7. Keys!WorkHoldsTheKey'
  <2>1. CASE v1' = v1 /\ pc # "work"
    BY <1>1, <1>2, <2>1 DEF Keys!KeyIsSound, Keys!RequestsAreTyped, Keys!WorkHoldsTheKey
  <2>2. CASE pc = "work" /\ v1 = Keys!Missing /\ v1' = Keys!Pending(a)
    BY <1>1, <1>2, <2>2 DEF Keys!KeyIsSound, Keys!RequestsAreTyped, Keys!WorkHoldsTheKey, Keys!Pending,
       Keys!Missing
  <2> QED BY <1>1, <2>1, <2>2
<1> QED BY <1>3, <1>5, <1>6, <1>7 DEF Keys!KeyIsSound

\* A request is answered from the key it found.
LEMMA KeyAnswer ==
    ASSUME Keys!KeyIsSound, NEW a \in Attempts, NEW x, v1' = v1, v3' = v3,
           v2' = [v2 EXCEPT ![a].pc = "done", ![a].answer = x],
           x \in {"inFlight", "mismatch"} \/ (x \in Attempts /\ v2[x].body = v2[a].body)
    PROVE  Keys!KeyIsSound'
<1>1. Keys!RequestsAreTyped'
  BY ZenonT(60) DEF Keys!KeyIsSound, Keys!RequestsAreTyped, Keys!Answers
<1>2. /\ \A c \in Attempts : v2'[c].body = v2[c].body /\ (c # a => v2'[c] = v2[c])
      /\ v2'[a].answer = x /\ v2'[a].pc = "done"
  BY DEF Keys!KeyIsSound, Keys!RequestsAreTyped
<1>3. (v1 \in Keys!Keys)'
  BY <1>1, <1>2, KeysKept DEF Keys!KeyIsSound
<1>4. Keys!AnswersAreOfTheBody'
  <2> SUFFICES ASSUME NEW c \in Attempts, v2'[c].answer \in Attempts
               PROVE  v2'[v2'[c].answer].body = v2'[c].body
    BY DEF Keys!AnswersAreOfTheBody
  <2>1. CASE c = a
    <3>1. x \in Attempts /\ v2[x].body = v2[a].body
      BY <1>2, <2>1, KeyAssumption
    <3> QED BY <1>2, <2>1, <3>1
  <2>2. CASE c # a
    <3>1. v2'[c] = v2[c] /\ v2'[c].answer = v2[c].answer
      BY <1>2, <2>2
    <3>2. v2[v2[c].answer].body = v2[c].body
      BY <3>1 DEF Keys!KeyIsSound, Keys!AnswersAreOfTheBody
    <3>3. v2'[v2[c].answer].body = v2[v2[c].answer].body
      BY <1>2, <3>1
    <3> QED BY <3>1, <3>2, <3>3
  <2> QED BY <2>1, <2>2
<1>5. Keys!WorkHoldsTheKey'
  BY <1>2 DEF Keys!KeyIsSound, Keys!RequestsAreTyped, Keys!WorkHoldsTheKey
<1> QED BY <1>1, <1>3, <1>4, <1>5 DEF Keys!KeyIsSound

LEMMA KeyGet ==
    ASSUME Keys!KeyIsSound, NEW a \in Attempts, Keys!Get(a)
    PROVE  Keys!KeyIsSound'
<1>1. v1' = v1 /\ v3' = v3 /\ v2[a].pc \in {"get", "getAgain"}
  BY DEF Keys!Get, Keys!At
<1>2. CASE v1 # Keys!Missing
  <2>1. v2' = [v2 EXCEPT ![a].pc = "done", ![a].answer = Keys!Served(a)]
    BY <1>2 DEF Keys!Get, Keys!Answer
  <2>2. \/ Keys!Served(a) \in {"inFlight", "mismatch"}
        \/ Keys!Served(a) \in Attempts /\ v2[Keys!Served(a)].body = v2[a].body
    BY <1>2, KeyStates DEF Keys!Served, Keys!KeyIsSound
  <2> QED BY <1>1, <2>1, <2>2, KeyAnswer
<1>3. CASE v1 = Keys!Missing /\ ~Keys!At(a, "get")
  <2>1. v2' = [v2 EXCEPT ![a].pc = "done", ![a].answer = "inFlight"]
    BY <1>3 DEF Keys!Get, Keys!Answer
  <2> QED BY <1>1, <2>1, KeyAnswer
<1>4. CASE v1 = Keys!Missing /\ Keys!At(a, "get")
  <2>1. v2' = [v2 EXCEPT ![a].pc = "setAgain"]
    BY <1>4 DEF Keys!Get, Keys!Goto
  <2>2. Keys!RequestsAreTyped'
    BY <1>1, <2>1 DEF Keys!KeyIsSound, Keys!RequestsAreTyped
  <2>3. \A c \in Attempts : v2'[c].body = v2[c].body /\ v2'[c].answer = v2[c].answer
    BY <2>1 DEF Keys!KeyIsSound, Keys!RequestsAreTyped
  <2>4. (v1 \in Keys!Keys)'
    BY <1>1, <2>2, <2>3, KeysKept DEF Keys!KeyIsSound
  <2>5. Keys!AnswersAreOfTheBody'
    BY <2>3 DEF Keys!KeyIsSound, Keys!AnswersAreOfTheBody
  <2>6. Keys!WorkHoldsTheKey'
    BY <1>1, <2>1 DEF Keys!KeyIsSound, Keys!RequestsAreTyped, Keys!WorkHoldsTheKey
  <2> QED BY <2>2, <2>4, <2>5, <2>6 DEF Keys!KeyIsSound
<1> QED BY <1>2, <1>3, <1>4

\* A request at work, or one that was refused, ends: it commits its outcome, releases the
\* key or dies.
LEMMA KeyEnds ==
    ASSUME Keys!KeyIsSound, NEW a \in Attempts,
           Keys!Commit(a) \/ Keys!Release(a) \/ Keys!ReleaseAgain(a) \/ Keys!Crash(a)
    PROVE  Keys!KeyIsSound'
<1>1. PICK x \in {a, "retry", "refused", "lost"} :
        /\ v2' = [v2 EXCEPT ![a].pc = "done", ![a].answer = x]
        /\ \/ v1' = [state |-> "completed", body |-> v2[a].body, owner |-> Keys!Nobody, by |-> a]
           \/ v1' = Keys!Missing
           \/ v1' = v1
  BY DEF Keys!Commit, Keys!Release, Keys!ReleaseAgain, Keys!Crash, Keys!Answer
<1>2. v2[a].pc \in {"work", "raised"}
  BY DEF Keys!Commit, Keys!Release, Keys!ReleaseAgain, Keys!Crash, Keys!At
<1>3. /\ v3' \in [slow : Nat, crashes : Nat, rejected : Nat]
      /\ v3'.slow = v3.slow /\ v3'.rejected = v3.rejected
  BY DEF Keys!Commit, Keys!Release, Keys!ReleaseAgain, Keys!Crash, Keys!KeyIsSound, Keys!RequestsAreTyped
<1>4. Keys!RequestsAreTyped'
  <2>1. x \in Attempts \cup Keys!Answers
    BY DEF Keys!Answers
  <2>2. v2' \in [Attempts -> [pc : {"set", "get", "setAgain", "getAgain", "work", "raised", "done"},
                             body : Bodies, answer : Attempts \cup Keys!Answers]]
    BY <1>1, <2>1 DEF Keys!KeyIsSound, Keys!RequestsAreTyped
  <2> QED BY <1>3, <2>2 DEF Keys!RequestsAreTyped
<1>5. /\ \A c \in Attempts : v2'[c].body = v2[c].body /\ (c # a => v2'[c] = v2[c])
      /\ v2'[a].answer = x /\ v2'[a].pc = "done"
  BY <1>1 DEF Keys!KeyIsSound, Keys!RequestsAreTyped
<1>6. (v1 \in Keys!Keys)'
  BY <1>1, <1>4, <1>5, KeysKept DEF Keys!KeyIsSound
<1>7. Keys!AnswersAreOfTheBody'
  BY <1>5, KeyAssumption DEF Keys!KeyIsSound, Keys!AnswersAreOfTheBody
<1>8. Keys!WorkHoldsTheKey'
  <2> SUFFICES ASSUME v3.slow = 0, v3.rejected = 0, NEW c \in Attempts
               PROVE  /\ v2'[c].pc # "raised" /\ v2'[c].pc # "work"
    BY <1>3 DEF Keys!WorkHoldsTheKey
  <2>1. v2[a].pc = "work" /\ v1.owner = a
    BY <1>2 DEF Keys!KeyIsSound, Keys!WorkHoldsTheKey
  <2> QED BY <1>5, <2>1 DEF Keys!KeyIsSound, Keys!WorkHoldsTheKey
<1> QED BY <1>4, <1>6, <1>7, <1>8 DEF Keys!KeyIsSound

LEMMA KeyRefuse ==
    ASSUME Keys!KeyIsSound, NEW a \in Attempts, Keys!Refuse(a)
    PROVE  Keys!KeyIsSound'
<1>1. v1' = Keys!Missing /\ v2' = [v2 EXCEPT ![a].pc = "raised"]
  BY DEF Keys!Refuse, Keys!Goto
<1>2. /\ v3' \in [slow : Nat, crashes : Nat, rejected : Nat]
      /\ v3'.rejected # 0
  BY DEF Keys!Refuse, Keys!KeyIsSound, Keys!RequestsAreTyped
<1>3. Keys!RequestsAreTyped'
  BY <1>1, <1>2 DEF Keys!KeyIsSound, Keys!RequestsAreTyped
<1>4. \A c \in Attempts : v2'[c].body = v2[c].body /\ v2'[c].answer = v2[c].answer
  BY <1>1 DEF Keys!KeyIsSound, Keys!RequestsAreTyped
<1>5. (v1 \in Keys!Keys)'
  BY <1>1, <1>3, <1>4, KeysKept DEF Keys!KeyIsSound
<1>6. Keys!AnswersAreOfTheBody'
  BY <1>4 DEF Keys!KeyIsSound, Keys!AnswersAreOfTheBody
<1>7. Keys!WorkHoldsTheKey'
  BY <1>2 DEF Keys!WorkHoldsTheKey
<1> QED BY <1>3, <1>5, <1>6, <1>7 DEF Keys!KeyIsSound

LEMMA KeyExpire ==
    ASSUME Keys!KeyIsSound, Keys!Expire
    PROVE  Keys!KeyIsSound'
<1>1. v1' = Keys!Missing /\ v2' = v2 /\ v1.state = "pending"
  BY DEF Keys!Expire, Keys!Expires
<1>2. \/ v3' = v3 /\ v2[v1.owner].pc = "done"
      \/ v3' = [v3 EXCEPT !.slow = @ + 1]
  BY DEF Keys!Expire, Keys!Expires, Keys!At
<1>3. Keys!RequestsAreTyped'
  BY <1>1, <1>2 DEF Keys!KeyIsSound, Keys!RequestsAreTyped
<1>4. (v1 \in Keys!Keys)'
  BY <1>1, <1>3, KeysKept DEF Keys!KeyIsSound
<1>5. Keys!AnswersAreOfTheBody'
  BY <1>1 DEF Keys!KeyIsSound, Keys!AnswersAreOfTheBody
<1>6. Keys!WorkHoldsTheKey'
  <2>1. CASE v3' = v3 /\ v2[v1.owner].pc = "done"
    BY <1>1, <2>1 DEF Keys!KeyIsSound, Keys!WorkHoldsTheKey
  <2>2. CASE v3' = [v3 EXCEPT !.slow = @ + 1]
    <3>1. v3'.slow # 0
      BY <2>2 DEF Keys!KeyIsSound, Keys!RequestsAreTyped
    <3> QED BY <3>1 DEF Keys!WorkHoldsTheKey
  <2> QED BY <1>2, <2>1, <2>2
<1> QED BY <1>3, <1>4, <1>5, <1>6 DEF Keys!KeyIsSound

LEMMA KeyStep ==
    ASSUME Keys!KeyIsSound, [Keys!Next]_(Keys!vars)
    PROVE  Keys!KeyIsSound'
<1>1. CASE UNCHANGED Keys!vars
  BY <1>1 DEF Keys!vars, Keys!KeyIsSound, Keys!RequestsAreTyped, Keys!Keys, Keys!AnswersAreOfTheBody,
     Keys!WorkHoldsTheKey
<1>2. CASE Keys!Expire
  BY <1>2, KeyExpire
<1>3. ASSUME NEW a \in Attempts, Keys!Request(a) \/ Keys!Crash(a)
      PROVE  Keys!KeyIsSound'
  BY <1>3, KeySetNx, KeyGet, KeyEnds, KeyRefuse DEF Keys!Request
<1> QED BY <1>1, <1>2, <1>3 DEF Keys!Next

\* For any number of requests with the key, retries, crashes and expiries: a cached answer
\* is the outcome of a request with the same body, and no two requests are at work unless
\* a reservation was outlived or a refusal released the key twice.
THEOREM KeysServeOneRequest == Spec => [](part = "Keys" => Keys!OneRequestPerKey)
<1> DEFINE Inv == part = "Keys" => Keys!KeyIsSound
<1>1. Init => Inv
  BY KeyStart DEF Init
<1>2. Inv /\ [Next]_pool => Inv'
  <2> SUFFICES ASSUME Inv, [Next]_pool, part' = "Keys" PROVE Keys!KeyIsSound'
    OBVIOUS
  <2>1. part = "Keys" /\ [Keys!Next]_(Keys!vars)
    BY DEF Next, pool, Rest4, Keys!vars
  <2> QED BY <2>1, KeyStep
<1>3. Keys!KeyIsSound => Keys!OneRequestPerKey
  <2> SUFFICES ASSUME Keys!KeyIsSound PROVE Keys!OneRequestPerKey
    OBVIOUS
  <2>0. Keys!AnswersAreOfTheBody
    BY DEF Keys!KeyIsSound
  <2> SUFFICES v3.slow = 0 /\ v3.rejected = 0 => Cardinality(Keys!Working) <= 1
    BY <2>0, KeysCount DEF Keys!OneRequestPerKey, Keys!AnswersAreOfTheBody
  <2> SUFFICES ASSUME v3.slow = 0, v3.rejected = 0 PROVE Cardinality(Keys!Working) <= 1
    OBVIOUS
  <2>1. \A a \in Keys!Working : a = v1.owner
    BY DEF Keys!KeyIsSound, Keys!WorkHoldsTheKey, Keys!Working, Keys!At
  <2>2. Keys!Working \in SUBSET {v1.owner}
    BY <2>1
  <2>3. IsFiniteSet({v1.owner}) /\ Cardinality({v1.owner}) = 1
    BY FS_Singleton
  <2>4. Cardinality(Keys!Working) <= Cardinality({v1.owner})
    BY <2>2, <2>3, FS_Subset
  <2> QED BY <2>3, <2>4
<1>4. Inv => (part = "Keys" => Keys!OneRequestPerKey)
  BY <1>3
<1> QED BY <1>1, <1>2, <1>4, PTL DEF Spec

-----------------------------------------------------------------------------
(* GatewayWatchdog.  v1: gw, v4: st, v5: tick, v7: issued.                  *)

LEMMA WatchCounts == \A S : Watch!Cardinality(S) = Cardinality(S)
  BY Zenon DEF Watch!Cardinality, Cardinality

\* Sets of ages are finite, and a period makes no more of them.
LEMMA AgesAreFinite ==
    ASSUME NEW S \in SUBSET (0 .. (Window - 1))
    PROVE  IsFiniteSet(S) /\ Cardinality(S) \in Nat
<1>1. IsFiniteSet(0 .. (Window - 1))
  BY WatchAssumption, FS_Interval
<1> QED BY <1>1, FS_Subset, FS_CardinalityType

LEMMA AgesGrow ==
    ASSUME NEW S \in SUBSET (0 .. (Window - 1)), NEW T,
           T = {a + 1 : a \in {b \in S : b + 1 < Window}}
    PROVE  T \in SUBSET (0 .. (Window - 1)) /\ Cardinality(T) <= Cardinality(S)
<1>1. T \in SUBSET (0 .. (Window - 1))
  BY WatchAssumption
<1>2. [x \in T |-> x - 1] \in Injection(T, S)
  BY DEF Injection, IsInjective
<1> QED BY <1>1, <1>2, AgesAreFinite, FS_Injection

LEMMA WatchStart == ASSUME Watch!Init PROVE Watch!CapIsKept
<1>1. v4 = Watch!Fresh /\ v5 = Watch!NoTick /\ v7 = {} /\ v1 \in {"healthy", "stopped"}
  BY DEF Watch!Init
<1>2. Watch!WatchIsTyped
  BY <1>1 DEF Watch!WatchIsTyped, Watch!Fresh, Watch!NoTick, Watch!None
<1>3. ~v4.escalated /\ v4.restarts = {} /\ v5.at = "idle"
  BY <1>1 DEF Watch!Fresh, Watch!NoTick
<1>4. Watch!Cardinality({}) <= Cap
  BY WatchAssumption, WatchCounts, FS_EmptySet
<1> QED BY <1>1, <1>2, <1>3, <1>4 DEF Watch!CapIsKept, Watch!CountedBefore, Watch!QuietAfter, Watch!SingleRetry,
     Watch!AboutToRecreate

\* A step that leaves the counters and the recreates alone, and does not decide.
LEMMA WatchIdles ==
    ASSUME Watch!CapIsKept, v4' = v4, v7' = v7, Watch!WatchIsTyped',
           Watch!AboutToRecreate' => Watch!AboutToRecreate
    PROVE  Watch!CapIsKept'
<1>1. Watch!CountedBefore'
  BY DEF Watch!CapIsKept, Watch!CountedBefore
<1>2. Watch!QuietAfter'
  BY DEF Watch!CapIsKept, Watch!QuietAfter
<1>3. Watch!SingleRetry'
  BY DEF Watch!CapIsKept, Watch!SingleRetry
<1> QED BY <1>1, <1>2, <1>3 DEF Watch!CapIsKept

\* The counters start anew, and so do the recreates.
LEMMA WatchFresh ==
    ASSUME v4' = Watch!Fresh, v7' = {}, Watch!WatchIsTyped', ~Watch!AboutToRecreate'
    PROVE  Watch!CapIsKept'
<1>1. ~v4'.escalated /\ v4'.restarts = {}
  BY DEF Watch!Fresh
<1>2. Watch!Cardinality({}) <= Cap
  BY WatchAssumption, WatchCounts, FS_EmptySet
<1>3. Watch!CountedBefore'
  BY <1>1, <1>2 DEF Watch!CountedBefore
<1>4. Watch!QuietAfter' /\ Watch!SingleRetry'
  BY <1>1 DEF Watch!QuietAfter, Watch!SingleRetry
<1> QED BY <1>3, <1>4 DEF Watch!CapIsKept

LEMMA WatchElapse ==
    ASSUME Watch!CapIsKept, Watch!Elapse
    PROVE  Watch!CapIsKept'
<1> DEFINE Aged(S) == {a + 1 : a \in {b \in S : b + 1 < Window}}
<1>1. /\ v5' = v5 /\ v5.at = "idle" /\ v1' = v1 /\ v7' = Aged(v7)
      /\ v4' = [v4 EXCEPT !.down = IF @ = Watch!None THEN Watch!None ELSE Watch!Older(@, Grace),
                          !.restarts = Aged(@),
                          !.cool = IF @ = Watch!None \/ @ = 0 THEN @ ELSE @ - 1,
                          !.said = Watch!Older(@, Throttle)]
  BY DEF Watch!Elapse
<1>2. v4.restarts \in SUBSET (0 .. (Window - 1)) /\ v7 \in SUBSET (0 .. (Window - 1))
  BY DEF Watch!CapIsKept, Watch!WatchIsTyped
<1>3. /\ v7' \in SUBSET (0 .. (Window - 1)) /\ Cardinality(v7') <= Cardinality(v7)
      /\ Aged(v4.restarts) \in SUBSET (0 .. (Window - 1))
      /\ Cardinality(Aged(v4.restarts)) <= Cardinality(v4.restarts)
  BY <1>1, <1>2, AgesGrow
<1>4. /\ v4'.restarts = Aged(v4.restarts) /\ v4'.escalated = v4.escalated /\ v4'.retried = v4.retried
      /\ v4'.cool = IF v4.cool = Watch!None \/ v4.cool = 0 THEN v4.cool ELSE v4.cool - 1
  BY <1>1 DEF Watch!CapIsKept, Watch!WatchIsTyped
<1>5. Watch!WatchIsTyped'
  <2>1. PICK d \in Int, c \in Int, n \in Nat :
          v4' = [v4 EXCEPT !.down = d, !.restarts = Aged(@), !.cool = c, !.said = n]
    <3>1. /\ v4.down \in Int /\ v4.cool \in Int /\ v4.said \in Nat
      BY DEF Watch!CapIsKept, Watch!WatchIsTyped
    <3>2. (IF v4.down = Watch!None THEN Watch!None ELSE Watch!Older(v4.down, Grace)) \in Int
      BY <3>1 DEF Watch!Older, Watch!None
    <3>3. (IF v4.cool = Watch!None \/ v4.cool = 0 THEN v4.cool ELSE v4.cool - 1) \in Int
      BY <3>1
    <3>4. Watch!Older(v4.said, Throttle) \in Nat
      BY <3>1 DEF Watch!Older
    <3> QED BY <1>1, <3>2, <3>3, <3>4
  <2> QED BY <1>1, <1>3, <2>1, ZenonT(60) DEF Watch!CapIsKept, Watch!WatchIsTyped
<1>6. ~Watch!AboutToRecreate'
  BY <1>1 DEF Watch!AboutToRecreate
<1>7. /\ Cardinality(v7) \in Nat /\ Cardinality(v7') \in Nat
      /\ Cardinality(v4.restarts) \in Nat /\ Cardinality(v4'.restarts) \in Nat
  BY <1>2, <1>3, <1>4, AgesAreFinite
<1>8. Watch!CountedBefore'
  <2> SUFFICES ASSUME ~v4.escalated
               PROVE  v7' \subseteq v4'.restarts /\ Cardinality(v4'.restarts) <= Cap
    BY <1>4, <1>6, WatchCounts DEF Watch!CountedBefore
  <2>1. v7 \subseteq v4.restarts /\ Cardinality(v4.restarts) <= Cap
    BY WatchCounts DEF Watch!CapIsKept, Watch!CountedBefore
  <2>2. v7' \subseteq v4'.restarts
    BY <1>1, <1>4, <2>1
  <2>3. Cardinality(v4'.restarts) <= Cap
    BY <1>3, <1>4, <1>7, <2>1, WatchAssumption
  <2> QED BY <2>2, <2>3
<1>9. Watch!QuietAfter'
  <2> SUFFICES ASSUME v4.escalated, ~v4.retried
               PROVE  /\ Cardinality(v7') <= Cap
                      /\ v4'.cool \in 0 .. Cooldown /\ \A a \in v7' : a + v4'.cool >= Cooldown
    BY <1>4, <1>6, WatchCounts DEF Watch!QuietAfter
  <2>1. /\ Cardinality(v7) <= Cap
        /\ v4.cool \in 0 .. Cooldown /\ \A a \in v7 : a + v4.cool >= Cooldown
    BY WatchCounts DEF Watch!CapIsKept, Watch!QuietAfter
  <2>2. Cardinality(v7') <= Cap
    BY <1>3, <1>7, <2>1, WatchAssumption
  <2>3. v4'.cool = IF v4.cool = 0 THEN 0 ELSE v4.cool - 1
    BY <1>4, <2>1, WatchAssumption DEF Watch!None
  <2>4. v4'.cool \in 0 .. Cooldown
    BY <2>1, <2>3, WatchAssumption
  <2>5. \A a \in v7' : a + v4'.cool >= Cooldown
    BY <1>1, <1>2, <2>1, <2>3, WatchAssumption
  <2> QED BY <2>2, <2>4, <2>5
<1>10. Watch!SingleRetry'
  <2> SUFFICES ASSUME v4.escalated, v4.retried PROVE Cardinality(v7') <= Cap
    BY <1>4, <1>6, WatchCounts DEF Watch!SingleRetry
  <2>1. Cardinality(v7) <= Cap
    BY WatchCounts DEF Watch!CapIsKept, Watch!SingleRetry
  <2> QED BY <1>3, <1>7, <2>1, WatchAssumption
<1> QED BY <1>5, <1>8, <1>9, <1>10 DEF Watch!CapIsKept

\* What decide() comes to, as far as the cap is concerned: the counters start anew, stay,
\* are cleared by an escalation after a retry, record a retry, begin a cooldown or count
\* a restart.
Noted(d, r, n) == [v4 EXCEPT !.down = d, !.reason = r, !.said = n]
Decides(action, state) == Watch!decide.action = action /\ Watch!decide.state = state
Decided(d, r, n) ==
    \/ v5.connected /\ \E x \in {"recovered", "none"} : Decides(x, Watch!Fresh)
    \/ \E x \in {"none", "alert_only"} : Decides(x, Noted(d, r, n))
    \/ /\ v4.escalated /\ v4.retried
       /\ Decides("escalate", [Noted(d, r, n) EXCEPT !.restarts = {}, !.cool = Cooldown,
                                                     !.escalated = TRUE, !.retried = FALSE])
    \/ /\ v4.escalated /\ ~v4.retried /\ v4.cool \in {Watch!None, 0}
       /\ Decides("restart", [Noted(d, r, n) EXCEPT !.retried = TRUE])
    \/ /\ ~v4.escalated
       /\ Decides("escalate", [Noted(d, r, n) EXCEPT !.cool = Cooldown, !.escalated = TRUE,
                                                     !.retried = FALSE])
    \/ /\ ~v4.escalated /\ Cardinality(v4.restarts) < Cap
       /\ Decides("restart", [Noted(d, r, n) EXCEPT !.restarts = @ \cup {0}])

LEMMA WatchDecision ==
    ASSUME Watch!WatchIsTyped, v5.at = "decide"
    PROVE  \E d \in Int, r \in {"none", "live-active", "live-status-unknown"}, n \in Nat : Decided(d, r, n)
<1> DEFINE base == [v4 EXCEPT !.down = IF @ = Watch!None THEN 0 ELSE @]
           d0 == base.down
<1>1. /\ v4.down \in Int /\ v4.reason \in {"none", "live-active", "live-status-unknown"} /\ v4.said \in Nat
      /\ v5.connected \in BOOLEAN /\ v4.escalated \in BOOLEAN /\ v4.retried \in BOOLEAN
      /\ v4.restarts \in SUBSET (0 .. (Window - 1)) /\ v4.cool \in Int
      /\ v5.active \in {"yes", "no", "unknown"}
  BY DEF Watch!WatchIsTyped
<1>2. /\ d0 \in Int /\ base = Noted(d0, v4.reason, v4.said)
      /\ base.restarts = v4.restarts
      /\ v4 = Noted(v4.down, v4.reason, v4.said)
  <2>1. d0 = IF v4.down = Watch!None THEN 0 ELSE v4.down
    BY DEF Watch!WatchIsTyped
  <2>2. base = [v4 EXCEPT !.down = d0]
    BY <2>1
  <2> HIDE DEF base, d0
  <2>3. d0 \in Int
    BY <1>1, <2>1
  <2>4. base = Noted(d0, v4.reason, v4.said)
    BY <2>2 DEF Watch!WatchIsTyped, Noted
  <2>5. base.restarts = v4.restarts
    BY <2>2 DEF Watch!WatchIsTyped
  <2>6. v4 = Noted(v4.down, v4.reason, v4.said)
    BY DEF Watch!WatchIsTyped, Noted
  <2> QED BY <2>3, <2>4, <2>5, <2>6
<1>3. Watch!None \in Int
  BY DEF Watch!None
<1>4. Cardinality(v4.restarts) \in Nat
  BY <1>1, AgesAreFinite
<1> HIDE DEF base, d0
<1>10. CASE ~Watch!_is_down /\ Watch!_is_confirmed_healthy
  <2>1. v5.connected
    BY <1>10 DEF Watch!_is_confirmed_healthy
  <2>2. Watch!decide = Watch!Decision(IF v4.escalated THEN "recovered" ELSE "none", Watch!Fresh)
    BY <1>10 DEF Watch!decide
  <2>3. Watch!decide.state = Watch!Fresh /\ Watch!decide.action \in {"recovered", "none"}
    BY <2>2 DEF Watch!Decision
  <2>9. Decided(v4.down, v4.reason, v4.said)
    BY <1>1, <2>1, <2>3 DEF Decided, Decides
  <2> QED BY <1>1, <1>2, <1>3, <2>9
<1>11. CASE ~Watch!_is_down /\ ~Watch!_is_confirmed_healthy
  <2>1. Watch!decide = Watch!Decision("none", v4)
    BY <1>11 DEF Watch!decide
  <2>2. Watch!decide.state = v4 /\ Watch!decide.action = "none"
    BY <2>1 DEF Watch!Decision
  <2>9. Decided(v4.down, v4.reason, v4.said)
    BY <1>1, <1>2, <2>2 DEF Decided, Decides
  <2> QED BY <1>1, <1>2, <1>3, <2>9
<1>12. CASE Watch!_is_down /\ d0 < Grace
  <2>1. Watch!decide = Watch!Decision("none", base)
    BY <1>12 DEF Watch!decide, base, d0
  <2>2. Watch!decide.state = base /\ Watch!decide.action = "none"
    BY <2>1 DEF Watch!Decision
  <2>9. Decided(d0, v4.reason, v4.said)
    BY <1>1, <1>2, <2>2 DEF Decided, Decides
  <2> QED BY <1>1, <1>2, <1>3, <2>9
<1>13. CASE Watch!_is_down /\ ~(d0 < Grace) /\ v4.cool # Watch!None /\ v4.cool # 0
  <2>0. d0 >= Grace
    BY <1>2, <1>13, WatchAssumption
  <2>1. Watch!decide = Watch!Decision("none", base)
    BY <1>13, <2>0 DEF Watch!decide, base, d0
  <2>2. Watch!decide.state = base /\ Watch!decide.action = "none"
    BY <2>1 DEF Watch!Decision
  <2>9. Decided(d0, v4.reason, v4.said)
    BY <1>1, <1>2, <2>2 DEF Decided, Decides
  <2> QED BY <1>1, <1>2, <1>3, <2>9
<1>14. CASE Watch!_is_down /\ ~(d0 < Grace) /\ v4.cool \in {Watch!None, 0}
  <2> DEFINE late ==
        CASE v5.active = "yes"     -> Watch!AlertOnly(base, "live-active")
          [] v5.active = "unknown" -> Watch!AlertOnly(base, "live-status-unknown")
          [] v5.active = "no" /\ v4.escalated ->
               IF v4.retried
               THEN Watch!ReEscalate(base)
               ELSE Watch!Decision("restart", [base EXCEPT !.retried = TRUE, !.down = Watch!None])
          [] OTHER -> Watch!RestartOrEscalate(base)
  <2>1. Watch!decide = late
    BY <1>14 DEF Watch!decide, base, d0
  <2>2. CASE v5.active \in {"yes", "unknown"}
    <3>1. PICK r \in {"live-active", "live-status-unknown"} : Watch!decide = Watch!AlertOnly(base, r)
      BY <2>1, <2>2
    <3>2. /\ Watch!decide.action = "alert_only"
          /\ Watch!decide.state \in {base, [base EXCEPT !.reason = r, !.said = 0]}
      BY <3>1 DEF Watch!AlertOnly, Watch!Decision
    <3>3. [base EXCEPT !.reason = r, !.said = 0] = Noted(d0, r, 0)
      BY <1>2 DEF Watch!WatchIsTyped, Noted
    <3>9. Decided(d0, r, 0) \/ Decided(d0, v4.reason, v4.said)
      BY <1>2, <3>2, <3>3 DEF Decided, Decides
    <3> QED BY <1>1, <1>2, <3>9
  <2>3. CASE v5.active = "no" /\ v4.escalated /\ v4.retried
    <3>1. Watch!decide = Watch!ReEscalate(base)
      BY <2>1, <2>3
    <3>2. /\ Watch!decide.action = "escalate"
          /\ Watch!decide.state = [base EXCEPT !.restarts = {}, !.cool = Cooldown, !.escalated = TRUE,
                                               !.retried = FALSE]
      BY <3>1 DEF Watch!ReEscalate, Watch!Decision
    <3>9. Decided(d0, v4.reason, v4.said)
      BY <1>1, <1>2, <2>3, <3>2 DEF Decided, Decides
    <3> QED BY <1>1, <1>2, <1>3, <3>9
  <2>4. CASE v5.active = "no" /\ v4.escalated /\ ~v4.retried
    <3>1. Watch!decide = Watch!Decision("restart", [base EXCEPT !.retried = TRUE, !.down = Watch!None])
      BY <2>1, <2>4
    <3>2. /\ Watch!decide.action = "restart"
          /\ Watch!decide.state = [base EXCEPT !.retried = TRUE, !.down = Watch!None]
      BY <3>1 DEF Watch!Decision
    <3>3. [base EXCEPT !.retried = TRUE, !.down = Watch!None]
            = [Noted(Watch!None, v4.reason, v4.said) EXCEPT !.retried = TRUE]
      BY <1>2 DEF Watch!WatchIsTyped, Noted
    <3>9. Decided(Watch!None, v4.reason, v4.said)
      BY <1>1, <1>3, <1>14, <2>4, <3>2, <3>3 DEF Decided, Decides
    <3> QED BY <1>1, <1>2, <1>3, <3>9
  <2>5. CASE v5.active = "no" /\ ~v4.escalated
    <3>1. Watch!decide = Watch!RestartOrEscalate(base)
      BY <2>1, <2>5
    <3>2. CASE Cardinality(v4.restarts) >= Cap
      <4>1. /\ Watch!decide.action = "escalate"
            /\ Watch!decide.state = [base EXCEPT !.cool = Cooldown, !.escalated = TRUE, !.retried = FALSE]
        BY <1>2, <3>1, <3>2, WatchCounts DEF Watch!RestartOrEscalate, Watch!Decision
      <4>9. Decided(d0, v4.reason, v4.said)
        BY <1>1, <1>2, <2>5, <4>1 DEF Decided, Decides
      <4> QED BY <1>1, <1>2, <1>3, <4>9
    <3>3. CASE ~(Cardinality(v4.restarts) >= Cap)
      <4>1. /\ Watch!decide.action = "restart"
            /\ Watch!decide.state = [base EXCEPT !.restarts = @ \cup {0}, !.down = Watch!None]
        BY <1>2, <3>1, <3>3, WatchCounts DEF Watch!RestartOrEscalate, Watch!Decision
      <4>2. [base EXCEPT !.restarts = @ \cup {0}, !.down = Watch!None]
              = [Noted(Watch!None, v4.reason, v4.said) EXCEPT !.restarts = @ \cup {0}]
        BY <1>2 DEF Watch!WatchIsTyped, Noted
      <4>3. Cardinality(v4.restarts) < Cap
        BY <1>4, <3>3, WatchAssumption
      <4>9. Decided(Watch!None, v4.reason, v4.said)
        BY <1>1, <1>3, <2>5, <4>1, <4>2, <4>3 DEF Decided, Decides
      <4> QED BY <1>1, <1>2, <1>3, <4>9
    <3> QED BY <3>2, <3>3
  <2> QED BY <1>1, <2>2, <2>3, <2>4, <2>5
<1> QED BY <1>1, <1>10, <1>11, <1>12, <1>13, <1>14

LEMMA WatchDecides ==
    ASSUME Watch!CapIsKept, Watch!Decide
    PROVE  Watch!CapIsKept'
<1>1. /\ v5.at = "decide" /\ v1' = v1 /\ v4' = Watch!decide.state
      /\ v5' = [v5 EXCEPT !.at = "act", !.act = Watch!decide.action]
      /\ v7' = IF v5.connected THEN {} ELSE v7
  BY DEF Watch!Decide
<1>2. PICK d \in Int, r \in {"none", "live-active", "live-status-unknown"}, n \in Nat : Decided(d, r, n)
  BY <1>1, WatchDecision DEF Watch!CapIsKept
<1>3. PICK s : s = Noted(d, r, n)
  OBVIOUS
<1>4. /\ s \in [down : Int, restarts : SUBSET (0 .. (Window - 1)), cool : Int, escalated : BOOLEAN,
                retried : BOOLEAN, reason : {"none", "live-active", "live-status-unknown"}, said : Nat]
      /\ s.restarts = v4.restarts /\ s.cool = v4.cool
      /\ s.escalated = v4.escalated /\ s.retried = v4.retried
  BY <1>3 DEF Watch!CapIsKept, Watch!WatchIsTyped, Noted
<1>5. /\ v5'.at = "act" /\ v5'.act = Watch!decide.action /\ v7' \subseteq v7
      /\ v7 \in SUBSET (0 .. (Window - 1))
      /\ v4.restarts \in SUBSET (0 .. (Window - 1))
  BY <1>1 DEF Watch!CapIsKept, Watch!WatchIsTyped
<1>6. /\ Cardinality(v7') <= Cardinality(v7) /\ Cardinality(v7') \in Nat /\ Cardinality(v7) \in Nat
      /\ IsFiniteSet(v4.restarts) /\ Cardinality(v4.restarts) \in Nat
      /\ Cardinality({}) = 0
  BY <1>5, AgesAreFinite, FS_Subset, FS_EmptySet
<1>7. ASSUME v4' \in [down : Int, restarts : SUBSET (0 .. (Window - 1)), cool : Int, escalated : BOOLEAN,
                      retried : BOOLEAN, reason : {"none", "live-active", "live-status-unknown"},
                      said : Nat],
             Watch!decide.action \in {"none", "recovered", "alert_only", "escalate", "restart"}
      PROVE  Watch!WatchIsTyped'
  BY <1>1, <1>5, <1>7 DEF Watch!CapIsKept, Watch!WatchIsTyped
<1>8. ASSUME ~v4.escalated
      PROVE  v7' \subseteq v4.restarts /\ Cardinality(v4.restarts) <= Cap /\ Cardinality(v7') <= Cap
  <2>1. v7' \subseteq v4.restarts /\ Cardinality(v4.restarts) <= Cap
    BY <1>5, <1>8, WatchCounts DEF Watch!CapIsKept, Watch!CountedBefore
  <2>2. Cardinality(v7') <= Cardinality(v4.restarts)
    BY <1>6, <2>1, FS_Subset
  <2> QED BY <1>6, <2>1, <2>2, WatchAssumption
<1>9. v4.escalated => Cardinality(v7') <= Cap
  <2>1. v4.escalated => Cardinality(v7) <= Cap
    BY WatchCounts DEF Watch!CapIsKept, Watch!QuietAfter, Watch!SingleRetry
  <2> QED BY <1>6, <2>1, WatchAssumption
<1>10. \A a \in v7' : a \in Nat /\ a < Window
  BY <1>5, WatchAssumption
<1>11. CASE v5.connected /\ \E x \in {"recovered", "none"} : Decides(x, Watch!Fresh)
  <2>1. v4' = Watch!Fresh /\ v7' = {} /\ Watch!decide.action \in {"recovered", "none"}
    BY <1>1, <1>11 DEF Decides
  <2>2. Watch!WatchIsTyped'
    BY <1>7, <2>1 DEF Watch!Fresh, Watch!None
  <2>3. ~Watch!AboutToRecreate'
    BY <1>5, <2>1 DEF Watch!AboutToRecreate
  <2> QED BY <2>1, <2>2, <2>3, WatchFresh
<1>12. CASE \E x \in {"none", "alert_only"} : Decides(x, s)
  <2>1. v4' = s /\ Watch!decide.action \in {"none", "alert_only"}
    BY <1>1, <1>12 DEF Decides
  <2>2. Watch!WatchIsTyped'
    BY <1>4, <1>7, <2>1
  <2>3. ~Watch!AboutToRecreate'
    BY <1>5, <2>1 DEF Watch!AboutToRecreate
  <2>4. Watch!CountedBefore'
    BY <1>4, <1>8, <2>1, <2>3, WatchCounts DEF Watch!CountedBefore
  <2>5. Watch!QuietAfter'
    BY <1>4, <1>5, <1>9, <2>1, <2>3, WatchCounts DEF Watch!CapIsKept, Watch!QuietAfter
  <2>6. Watch!SingleRetry'
    BY <1>4, <1>9, <2>1, <2>3, WatchCounts DEF Watch!SingleRetry
  <2> QED BY <2>2, <2>4, <2>5, <2>6 DEF Watch!CapIsKept
<1>13. CASE \E x \in {s, [s EXCEPT !.restarts = {}]} :
              Decides("escalate", [x EXCEPT !.cool = Cooldown, !.escalated = TRUE, !.retried = FALSE])
  <2>1. PICK x \in {s, [s EXCEPT !.restarts = {}]} :
          v4' = [x EXCEPT !.cool = Cooldown, !.escalated = TRUE, !.retried = FALSE]
    BY <1>1, <1>13 DEF Decides
  <2>2. Watch!decide.action = "escalate"
    BY <1>13 DEF Decides
  <2>3. x \in [down : Int, restarts : SUBSET (0 .. (Window - 1)), cool : Int, escalated : BOOLEAN,
               retried : BOOLEAN, reason : {"none", "live-active", "live-status-unknown"}, said : Nat]
    BY <1>4
  <2>4. Watch!WatchIsTyped'
    <3>1. Cooldown \in Int
      BY WatchAssumption
    <3>2. v4' \in [down : Int, restarts : SUBSET (0 .. (Window - 1)), cool : Int, escalated : BOOLEAN,
                   retried : BOOLEAN, reason : {"none", "live-active", "live-status-unknown"}, said : Nat]
      BY <2>1, <2>3, <3>1
    <3> QED BY <1>7, <2>2, <3>2
  <2>5. ~Watch!AboutToRecreate'
    BY <1>5, <2>2 DEF Watch!AboutToRecreate
  <2>6. v4'.escalated /\ ~v4'.retried /\ v4'.cool = Cooldown
    BY <2>1, <2>3
  <2>7. Watch!QuietAfter'
    <3>1. Cardinality(v7') <= Cap
      BY <1>4, <1>8, <1>9
    <3>2. v4'.cool \in 0 .. Cooldown /\ \A a \in v7' : a + v4'.cool >= Cooldown
      BY <1>10, <2>6, WatchAssumption
    <3> QED BY <2>5, <3>1, <3>2, WatchCounts DEF Watch!QuietAfter
  <2> QED BY <2>4, <2>6, <2>7 DEF Watch!CapIsKept, Watch!CountedBefore, Watch!SingleRetry
<1>14. CASE /\ v4.escalated /\ ~v4.retried /\ v4.cool \in {Watch!None, 0}
            /\ Decides("restart", [s EXCEPT !.retried = TRUE])
  <2>1. v4' = [s EXCEPT !.retried = TRUE] /\ Watch!decide.action = "restart"
    BY <1>1, <1>14 DEF Decides
  <2>2. Watch!WatchIsTyped'
    BY <1>4, <1>7, <2>1
  <2>3. v4.cool \in 0 .. Cooldown /\ \A a \in v7 : a + v4.cool >= Cooldown
    BY <1>14 DEF Watch!CapIsKept, Watch!QuietAfter
  <2>4. v4.cool = 0
    BY <1>14, <2>3, WatchAssumption DEF Watch!None
  <2>5. v7' = {}
    BY <1>5, <1>10, <2>3, <2>4, WatchAssumption
  <2>6. v4'.escalated /\ v4'.retried
    BY <1>4, <1>14, <2>1
  <2>7. Watch!SingleRetry'
    BY <1>6, <2>5, WatchAssumption, WatchCounts DEF Watch!SingleRetry
  <2> QED BY <2>2, <2>6, <2>7 DEF Watch!CapIsKept, Watch!CountedBefore, Watch!QuietAfter
<1>15. CASE /\ ~v4.escalated /\ Cardinality(v4.restarts) < Cap
            /\ Decides("restart", [s EXCEPT !.restarts = @ \cup {0}])
  <2>1. v4' = [s EXCEPT !.restarts = v4.restarts \cup {0}] /\ Watch!decide.action = "restart"
    BY <1>1, <1>4, <1>15 DEF Decides
  <2>2. v4.restarts \cup {0} \in SUBSET (0 .. (Window - 1))
    BY <1>5, WatchAssumption
  <2>3. Watch!WatchIsTyped'
    BY <1>4, <1>7, <2>1, <2>2
  <2>4. ~v4'.escalated /\ v4'.restarts = v4.restarts \cup {0}
    BY <1>4, <1>15, <2>1
  <2>5. Cardinality(v4.restarts \cup {0}) <= Cap
    <3>1. \/ Cardinality(v4.restarts \cup {0}) = Cardinality(v4.restarts)
          \/ Cardinality(v4.restarts \cup {0}) = Cardinality(v4.restarts) + 1
      BY <1>6, FS_AddElement
    <3> QED BY <1>6, <1>15, <3>1, WatchAssumption
  <2>6. Watch!CountedBefore'
    BY <1>8, <1>15, <2>4, <2>5, WatchCounts DEF Watch!CountedBefore
  <2> QED BY <2>3, <2>4, <2>6 DEF Watch!CapIsKept, Watch!QuietAfter, Watch!SingleRetry
<1> QED BY <1>2, <1>3, <1>11, <1>12, <1>13, <1>14, <1>15 DEF Decided

LEMMA WatchRecreates ==
    ASSUME Watch!CapIsKept, Watch!Recreate
    PROVE  Watch!CapIsKept'
<1>1. v5' = Watch!NoTick /\ v4' = v4 /\ v7' = v7 \cup {0} /\ v1' = "starting" /\ Watch!AboutToRecreate
  BY DEF Watch!Recreate, Watch!AboutToRecreate
<1>2. Watch!WatchIsTyped'
  BY <1>1, WatchAssumption DEF Watch!CapIsKept, Watch!WatchIsTyped, Watch!NoTick
<1>3. ~Watch!AboutToRecreate'
  BY <1>1 DEF Watch!NoTick, Watch!AboutToRecreate
<1>4. Watch!CountedBefore'
  BY <1>1, <1>3 DEF Watch!CapIsKept, Watch!CountedBefore
<1>5. Watch!QuietAfter'
  BY <1>1 DEF Watch!CapIsKept, Watch!QuietAfter
<1>6. Watch!SingleRetry'
  <2> SUFFICES ASSUME v4.escalated, v4.retried PROVE Cardinality(v7') <= Cap
    BY <1>1, <1>3, WatchCounts DEF Watch!SingleRetry
  <2>1. v7' = {0}
    BY <1>1 DEF Watch!CapIsKept, Watch!SingleRetry
  <2>2. Cardinality({0}) = 1
    BY FS_Singleton
  <2> QED BY <2>1, <2>2, WatchAssumption
<1> QED BY <1>2, <1>4, <1>5, <1>6 DEF Watch!CapIsKept

LEMMA WatchStep ==
    ASSUME Watch!CapIsKept, [Watch!Next]_(Watch!vars)
    PROVE  Watch!CapIsKept'
<1> USE DEF Watch!Fault
<1>1. Watch!WatchIsTyped
  BY DEF Watch!CapIsKept
<1>2. CASE UNCHANGED Watch!vars
  <2>1. Watch!WatchIsTyped'
    BY <1>1, <1>2 DEF Watch!vars, Watch!WatchIsTyped
  <2> QED BY <1>2, <2>1, WatchIdles DEF Watch!vars, Watch!AboutToRecreate
<1>3. CASE Watch!GatewayMoves \/ Watch!RestartedByOthers
  <2>1. v4' = v4 /\ v5' = v5 /\ v7' = v7 /\ v1' \in {"stopped", "starting", "unhealthy", "healthy"}
    BY <1>1, <1>3 DEF Watch!GatewayMoves, Watch!RestartedByOthers, Watch!WatchIsTyped
  <2>2. Watch!WatchIsTyped'
    BY <1>1, <2>1 DEF Watch!WatchIsTyped
  <2> QED BY <2>1, <2>2, WatchIdles DEF Watch!AboutToRecreate
<1>4. CASE Watch!ProbeRuns \/ Watch!DeploymentChanges
  <2>1. v4' = v4 /\ v5' = v5 /\ v7' = v7 /\ v1' = v1
    BY <1>4 DEF Watch!ProbeRuns, Watch!DeploymentChanges
  <2>2. Watch!WatchIsTyped'
    BY <1>1, <2>1 DEF Watch!WatchIsTyped
  <2> QED BY <2>1, <2>2, WatchIdles DEF Watch!AboutToRecreate
<1>5. CASE Watch!Elapse
  BY <1>5, WatchElapse
<1>6. CASE Watch!Inspect
  <2>1. /\ v4' = v4 /\ v7' = v7 /\ v1' = v1 /\ v5' = [Watch!NoTick EXCEPT !.at = "probe", !.seen = v1]
    BY <1>6 DEF Watch!Inspect
  <2>2. Watch!WatchIsTyped' /\ v5'.at = "probe"
    BY <1>1, <2>1 DEF Watch!WatchIsTyped, Watch!NoTick
  <2> QED BY <2>1, <2>2, WatchIdles DEF Watch!AboutToRecreate
<1>7. CASE Watch!Probe \/ Watch!ProbeUnreachable
  <2>1. v4' = v4 /\ v7' = v7 /\ v1' = v1
    BY <1>7 DEF Watch!Probe, Watch!ProbeUnreachable
  <2>2. PICK c \in BOOLEAN, h \in {"unknown", "starting", "healthy", "unhealthy"} :
          v5' = [v5 EXCEPT !.at = "count", !.connected = c, !.health = h]
    BY <1>7 DEF Watch!Probe, Watch!ProbeUnreachable
  <2>3. Watch!WatchIsTyped' /\ v5'.at = "count"
    <3>1. /\ v5'.at = "count"
          /\ v5' \in [at : {"idle", "probe", "count", "decide", "act"},
                      seen : {"stopped", "starting", "unhealthy", "healthy"}, connected : BOOLEAN,
                      health : {"unknown", "starting", "healthy", "unhealthy"},
                      active : {"none", "yes", "no", "unknown"},
                      act : {"none", "recovered", "alert_only", "escalate", "restart"}]
      BY <1>1, <2>2 DEF Watch!WatchIsTyped
    <3> QED BY <1>1, <2>1, <3>1 DEF Watch!WatchIsTyped
  <2> QED BY <2>1, <2>3, WatchIdles DEF Watch!AboutToRecreate
<1>8. CASE Watch!CountActive \/ Watch!CountFails
  <2>1. v4' = v4 /\ v7' = v7 /\ v1' = v1
    BY <1>8 DEF Watch!CountActive, Watch!CountFails
  <2>2. \E x \in {"yes", "no", "unknown"} : v5' = [v5 EXCEPT !.at = "decide", !.active = x]
    BY <1>8 DEF Watch!CountActive, Watch!CountFails
  <2>3. Watch!WatchIsTyped' /\ v5'.at = "decide"
    BY <1>1, <2>1, <2>2, ZenonT(60) DEF Watch!WatchIsTyped
  <2> QED BY <2>1, <2>3, WatchIdles DEF Watch!AboutToRecreate
<1>9. CASE Watch!Decide
  BY <1>9, WatchDecides
<1>10. CASE Watch!Recreate
  BY <1>10, WatchRecreates
<1>11. CASE Watch!ProbeRefused \/ Watch!TickFails \/ Watch!NoHostAction
  <2>1. v4' = v4 /\ v7' = v7 /\ v1' = v1 /\ v5' = Watch!NoTick
    BY <1>11 DEF Watch!ProbeRefused, Watch!TickFails, Watch!NoHostAction
  <2>2. Watch!WatchIsTyped' /\ v5'.at = "idle"
    BY <1>1, <2>1 DEF Watch!WatchIsTyped, Watch!NoTick
  <2> QED BY <2>1, <2>2, WatchIdles DEF Watch!AboutToRecreate
<1>12. CASE Watch!Reset
  <2>1. v4' = Watch!Fresh /\ v7' = {} /\ v1' = v1 /\ v5' = v5 /\ v5.at = "idle"
    BY <1>12 DEF Watch!Reset
  <2>2. Watch!WatchIsTyped'
    BY <1>1, <2>1 DEF Watch!WatchIsTyped, Watch!Fresh, Watch!None
  <2> QED BY <2>1, <2>2, WatchFresh DEF Watch!AboutToRecreate
<1> QED BY <1>2, <1>3, <1>4, <1>5, <1>6, <1>7, <1>8, <1>9, <1>10, <1>11, <1>12
     DEF Watch!Next, Watch!TickStep

\* For every cap, window, grace and throttle, and a cooldown no shorter than the window:
\* over failed ticks, escalations, retries and operators, a gateway that has not proved
\* healthy is recreated at most Cap times within a window.
THEOREM RestartsStayCapped == Spec => [](part = "Watch" => Watch!NoRestartStorm)
<1> DEFINE Inv == part = "Watch" => Watch!CapIsKept
<1>1. Init => Inv
  BY WatchStart DEF Init
<1>2. Inv /\ [Next]_pool => Inv'
  <2> SUFFICES ASSUME Inv, [Next]_pool, part' = "Watch" PROVE Watch!CapIsKept'
    OBVIOUS
  <2>1. part = "Watch" /\ [Watch!Next]_(Watch!vars)
    BY DEF Next, pool, Rest4, Rest5, Rest6, Rest7, Rest8, Rest9, Rest10, Watch!vars
  <2> QED BY <2>1, WatchStep
<1>3. Watch!CapIsKept => Watch!NoRestartStorm
  <2> SUFFICES ASSUME Watch!CapIsKept PROVE Cardinality(v7) <= Cap
    BY WatchCounts DEF Watch!NoRestartStorm
  <2>1. CASE v4.escalated
    BY <2>1, WatchCounts DEF Watch!CapIsKept, Watch!QuietAfter, Watch!SingleRetry
  <2>2. CASE ~v4.escalated
    <3>1. v7 \subseteq v4.restarts /\ Cardinality(v4.restarts) <= Cap
      BY <2>2, WatchCounts DEF Watch!CapIsKept, Watch!CountedBefore
    <3>2. v4.restarts \in SUBSET (0 .. (Window - 1)) /\ v7 \in SUBSET (0 .. (Window - 1))
      BY DEF Watch!CapIsKept, Watch!WatchIsTyped
    <3>3. /\ IsFiniteSet(v4.restarts) /\ Cardinality(v4.restarts) \in Nat /\ Cardinality(v7) \in Nat
          /\ Cardinality(v7) <= Cardinality(v4.restarts)
      BY <3>1, <3>2, AgesAreFinite, FS_Subset
    <3> QED BY <3>1, <3>3, WatchAssumption
  <2> QED BY <2>1, <2>2
<1>4. Inv => (part = "Watch" => Watch!NoRestartStorm)
  BY <1>3
<1> QED BY <1>1, <1>2, <1>4, PTL DEF Spec
=============================================================================
