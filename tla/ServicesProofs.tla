--------------------------- MODULE ServicesProofs ---------------------------
(***************************************************************************)
(* Proofs about the services of the API and of the workers, for every      *)
(* value of the constants: onboarding, deployment admission, broker        *)
(* accounts, the job queues and portfolio runs. A behaviour of Services is *)
(* one of a single part, so an invariant of a part says nothing of the     *)
(* behaviours of the others. The variables of a part are v1, v2, ... in    *)
(* the order of its declaration.                                           *)
(***************************************************************************)
EXTENDS Services, FiniteSetTheorems, SequenceTheorems, TLAPS

-----------------------------------------------------------------------------
(* Onboarding.  v1: row, v2: job, v3: pc, v4: used.                          *)

LEMMA OnboardStart == Onboard!Init => Onboard!Carried
<1> SUFFICES ASSUME Onboard!Init PROVE Onboard!Carried
  OBVIOUS
<1>1. Onboard!RunsAreTyped
  <2>1. Onboard!NoRow \in Onboard!RunType /\ Onboard!NoJob \in Onboard!JobType
    BY OnboardAssumption
       DEF Onboard!RunType, Onboard!JobType, Onboard!NoRow, Onboard!NoJob, Onboard!JobOf, Onboard!None
  <2> QED BY <2>1 DEF Onboard!Init, Onboard!RunsAreTyped, Onboard!PCs
<1>2. ASSUME NEW d \in Onboard!Digests PROVE Onboard!RunIsCarried(d)
  BY OnboardAssumption
     DEF Onboard!Init, Onboard!RunIsCarried, Onboard!RowIsAccepted, Onboard!InsertIsCovered,
         Onboard!PendingIsQueued, Onboard!WorkIsInProgress, Onboard!AllSucceeded, Onboard!NoRow,
         Onboard!NoJob, Onboard!JobOf, Onboard!None, Onboard!Callers
<1> QED BY <1>1, <1>2 DEF Onboard!Carried

\* A step is about one digest: it sets the row and the job of that one, brings no caller of
\* the other one to its insert, takes no caller out of "accepted" and forgets no fault.
OnboardMoves(d) ==
    /\ v1' = [v1 EXCEPT ![d] = v1'[d]] /\ v1'[d] \in Onboard!RunType
    /\ v2' = [v2 EXCEPT ![d] = v2'[d]] /\ v2'[d] \in Onboard!JobType
    /\ v3' \in [Onboard!Callers -> Onboard!PCs]
    /\ \A r \in Onboard!Callers : v3[r] = "accepted" => v3'[r] = "accepted"
    /\ \A r \in Onboard!Callers : v3'[r] = "insert" => v3[r] = "insert" \/ Onboard!DigestOf(r) = d
    /\ v4' \in [commit : Nat, kill : Nat, crash : Nat] /\ v4'.crash >= v4.crash /\ v4'.kill >= v4.kill

\* Then the run of the other digest stays carried.
LEMMA OnboardCarries ==
    ASSUME Onboard!Carried, NEW d \in Onboard!Digests, OnboardMoves(d), Onboard!RunIsCarried(d)'
    PROVE  Onboard!Carried'
<1>1. Onboard!RunsAreTyped'
  BY DEF Onboard!Carried, Onboard!RunsAreTyped, OnboardMoves
<1>2. ASSUME NEW e \in Onboard!Digests \ {d} PROVE Onboard!RunIsCarried(e)'
  <2>1. Onboard!RunIsCarried(e) /\ v1'[e] = v1[e] /\ v2'[e] = v2[e]
    BY DEF Onboard!Carried, Onboard!RunsAreTyped, OnboardMoves
  <2>2. Onboard!RowIsAccepted(e)' /\ Onboard!InsertIsCovered(e)' /\ Onboard!PendingIsQueued(e)'
    BY <2>1 DEF OnboardMoves, Onboard!RunIsCarried, Onboard!RowIsAccepted, Onboard!InsertIsCovered,
       Onboard!PendingIsQueued
  <2>3. Onboard!WorkIsInProgress(e)' /\ Onboard!AllSucceeded(e)'
    BY <2>1 DEF OnboardMoves, Onboard!RunIsCarried, Onboard!WorkIsInProgress, Onboard!AllSucceeded,
       Onboard!Carried, Onboard!RunsAreTyped
  <2> QED BY <2>2, <2>3 DEF Onboard!RunIsCarried
<1> QED BY <1>1, <1>2 DEF Onboard!Carried

\* What the invariant says of one digest.
LEMMA OnboardFacts ==
    ASSUME Onboard!Carried, NEW d \in Onboard!Digests
    PROVE  /\ Onboard!RowIsAccepted(d) /\ Onboard!InsertIsCovered(d) /\ Onboard!PendingIsQueued(d)
           /\ Onboard!WorkIsInProgress(d) /\ Onboard!AllSucceeded(d)
           /\ v1 \in [Onboard!Digests -> Onboard!RunType] /\ v1[d] \in Onboard!RunType
           /\ v2 \in [Onboard!Digests -> Onboard!JobType] /\ v2[d] \in Onboard!JobType
           /\ v1[d].status \in {"none", "pending", "in_progress", "completed", "with_failures", "failed"}
           /\ v1[d].id \in Onboard!Callers \cup {"none"} /\ v2[d].id \in Onboard!Callers \cup {"none"}
           /\ v1[d].sym \in [Symbols -> {"none", "not_started", "in_progress", "succeeded", "failed"}]
           /\ v2[d].tries \in 0 .. MaxTries /\ v2[d].left \in SUBSET Symbols
           /\ v2[d].state \in {"none", "queued", "running", "result"}
           /\ v3 \in [Onboard!Callers -> Onboard!PCs] /\ v4 \in [commit : Nat, kill : Nat, crash : Nat]
           /\ v4.crash \in Nat /\ v4.kill \in Nat
           /\ v1 = [v1 EXCEPT ![d] = v1[d]] /\ v2 = [v2 EXCEPT ![d] = v2[d]]
<1>1. /\ v1 \in [Onboard!Digests -> Onboard!RunType] /\ v1[d] \in Onboard!RunType
      /\ v2 \in [Onboard!Digests -> Onboard!JobType] /\ v2[d] \in Onboard!JobType
      /\ v3 \in [Onboard!Callers -> Onboard!PCs] /\ v4 \in [commit : Nat, kill : Nat, crash : Nat]
  BY DEF Onboard!Carried, Onboard!RunsAreTyped
<1> QED BY <1>1 DEF Onboard!Carried, Onboard!RunIsCarried, Onboard!RunType, Onboard!JobType, Onboard!None

LEMMA OnboardDigest == \A r \in Onboard!Callers : Onboard!DigestOf(r) \in Onboard!Digests
BY DEF Onboard!DigestOf, Onboard!Digests

\* The steps of a caller that leave rows and jobs alone.
LEMMA OnboardAnswers ==
    ASSUME Onboard!Carried, NEW r \in Onboard!Callers,
           Onboard!Onboard(r) \/ Onboard!Repair(r) \/ Onboard!Reselect(r) \/ Onboard!ApiDies(r)
    PROVE  Onboard!Carried'
<1> DEFINE d == Onboard!DigestOf(r)
<1>1. /\ v1' = v1 /\ v2' = v2 /\ v3[r] # "accepted" /\ d \in Onboard!Digests
      /\ v3' \in [Onboard!Callers -> Onboard!PCs] /\ v3'[r] # "insert"
      /\ \A q \in Onboard!Callers \ {r} : v3'[q] = v3[q]
  <2>1. v3 \in [Onboard!Callers -> Onboard!PCs]
    BY DEF Onboard!Carried, Onboard!RunsAreTyped
  <2>2. CASE Onboard!Onboard(r)
    BY <2>1, <2>2, OnboardDigest DEF Onboard!Onboard, Onboard!Goto, Onboard!PCs
  <2>3. CASE Onboard!Repair(r)
    BY <2>1, <2>3, OnboardDigest DEF Onboard!Repair, Onboard!Goto, Onboard!PCs
  <2>4. CASE Onboard!Reselect(r) \/ Onboard!ApiDies(r)
    BY <2>1, <2>4, OnboardDigest DEF Onboard!Reselect, Onboard!ApiDies, Onboard!Goto, Onboard!PCs
  <2> QED BY <2>2, <2>3, <2>4
<1>2. v4' \in [commit : Nat, kill : Nat, crash : Nat] /\ v4'.crash = v4.crash /\ v4'.kill = v4.kill
  BY DEF Onboard!Onboard, Onboard!Repair, Onboard!Reselect, Onboard!ApiDies, Onboard!Fault,
     Onboard!Carried, Onboard!RunsAreTyped
<1> HIDE DEF d
<1>3. OnboardMoves(d)
  BY <1>1, <1>2, OnboardFacts DEF OnboardMoves
<1>4. Onboard!RunIsCarried(d)'
  BY <1>1, <1>2, OnboardFacts
     DEF Onboard!RunIsCarried, Onboard!RowIsAccepted, Onboard!InsertIsCovered,
         Onboard!PendingIsQueued, Onboard!WorkIsInProgress, Onboard!AllSucceeded
<1> QED BY <1>1, <1>3, <1>4, OnboardCarries

\* A job is enqueued only where there is none, and so behind no pending row.
LEMMA OnboardEnqueue ==
    ASSUME Onboard!Carried, NEW r \in Onboard!Callers, Onboard!Enqueue(r)
    PROVE  Onboard!Carried'
<1> DEFINE d == Onboard!DigestOf(r)
           j == Onboard!JobOf(r, "queued")
<1>1. d \in Onboard!Digests /\ v1' = v1 /\ v4' = v4 /\ v3[r] = "enqueue"
  BY OnboardDigest DEF Onboard!Enqueue
<1>2. \/ v2' = v2 /\ \E p \in Onboard!PCs \ {"insert"} : v3' = [v3 EXCEPT ![r] = p]
      \/ v2[d].state = "none" /\ v3' = [v3 EXCEPT ![r] = "insert"] /\ v2' = [v2 EXCEPT ![d] = j]
  BY DEF Onboard!Enqueue, Onboard!Goto, Onboard!NoJob, Onboard!JobOf, Onboard!None, Onboard!PCs
<1>3. j \in Onboard!JobType /\ j.id = r /\ j.state = "queued" /\ j.tries = 0
  BY OnboardAssumption DEF Onboard!JobType, Onboard!JobOf
<1> HIDE DEF d, j
<1>4. OnboardMoves(d)
  BY <1>1, <1>2, <1>3, OnboardFacts DEF OnboardMoves, Onboard!PCs, d
<1>5. Onboard!RunIsCarried(d)'
  <2>1. /\ \/ v2'[d] = v2[d] /\ v3'[r] # "insert"
           \/ v2'[d] = j /\ v2[d].state = "none" /\ v3'[r] = "insert"
        /\ \A q \in Onboard!Callers \ {r} : v3'[q] = v3[q]
    BY <1>1, <1>2, <1>3, OnboardFacts
  <2> QED
    BY <1>1, <1>3, <2>1, OnboardFacts
     DEF Onboard!RunIsCarried, Onboard!RowIsAccepted, Onboard!InsertIsCovered,
         Onboard!PendingIsQueued, Onboard!WorkIsInProgress, Onboard!AllSucceeded
<1> QED BY <1>1, <1>4, <1>5, OnboardCarries

LEMMA OnboardInsert ==
    ASSUME Onboard!Carried, NEW r \in Onboard!Callers, Onboard!Insert(r)
    PROVE  Onboard!Carried'
<1> DEFINE d == Onboard!DigestOf(r)
           w == [status |-> "pending", id |-> r, sym |-> Onboard!NewStates(r)]
<1>1. d \in Onboard!Digests /\ v2' = v2 /\ v4' = v4 /\ v3[r] = "insert"
  BY OnboardDigest DEF Onboard!Insert
<1>2. v3' = [v3 EXCEPT ![r] = "accepted"] /\ v1' = [v1 EXCEPT ![d] = w]
  BY DEF Onboard!Insert, Onboard!Goto
<1>3. w \in Onboard!RunType /\ w.id = r /\ w.status = "pending"
  BY DEF Onboard!RunType, Onboard!NewStates, Onboard!None
<1>4. v2[d].id = r /\ v2[d].state = "queued" /\ v2[d].tries <= 1
  BY <1>1, OnboardFacts DEF Onboard!InsertIsCovered
<1> HIDE DEF d, w
<1>5. /\ v1'[d] = w /\ v3'[r] = "accepted" /\ v3' \in [Onboard!Callers -> Onboard!PCs]
      /\ \A q \in Onboard!Callers \ {r} : v3'[q] = v3[q]
  BY <1>1, <1>2, <1>3, OnboardFacts DEF Onboard!PCs
<1>6. OnboardMoves(d)
  <2>1. v2' = [v2 EXCEPT ![d] = v2'[d]] /\ v2'[d] \in Onboard!JobType
    BY <1>1, OnboardFacts
  <2>2. v4 \in [commit : Nat, kill : Nat, crash : Nat] /\ v4.crash \in Nat /\ v4.kill \in Nat
    BY <1>1, OnboardFacts
  <2>3. v1' = [v1 EXCEPT ![d] = v1'[d]]
    BY <1>2, <1>5, Zenon
  <2> QED BY <1>1, <1>3, <1>5, <2>1, <2>2, <2>3 DEF OnboardMoves
<1>7. Onboard!RunIsCarried(d)'
    BY <1>1, <1>3, <1>4, <1>5, OnboardFacts
     DEF Onboard!RunIsCarried, Onboard!RowIsAccepted, Onboard!InsertIsCovered,
         Onboard!PendingIsQueued, Onboard!WorkIsInProgress, Onboard!AllSucceeded
<1> QED BY <1>1, <1>6, <1>7, OnboardCarries

\* The abort of a job touches no row's job: its caller's row was never inserted.
LEMMA OnboardInsertFails ==
    ASSUME Onboard!Carried, NEW r \in Onboard!Callers, Onboard!InsertFails(r)
    PROVE  Onboard!Carried'
<1> DEFINE d == Onboard!DigestOf(r)
<1>1. /\ d \in Onboard!Digests /\ v1' = v1 /\ v3[r] = "insert"
      /\ v3' = [v3 EXCEPT ![r] = "error"]
      /\ v2' = v2 \/ v2' = [v2 EXCEPT ![d] = Onboard!NoJob]
  BY OnboardDigest DEF Onboard!InsertFails, Onboard!Goto
<1>2. v4' \in [commit : Nat, kill : Nat, crash : Nat] /\ v4'.crash = v4.crash /\ v4'.kill = v4.kill
  BY DEF Onboard!InsertFails, Onboard!Fault, Onboard!Carried, Onboard!RunsAreTyped
<1>3. Onboard!NoJob \in Onboard!JobType /\ Onboard!NoJob.state = "none"
  BY OnboardAssumption DEF Onboard!JobType, Onboard!NoJob, Onboard!JobOf, Onboard!None
<1>4. v2[d].id = r /\ v2[d].state = "queued"
  BY <1>1, OnboardFacts DEF Onboard!InsertIsCovered
<1> HIDE DEF d
<1>5. OnboardMoves(d)
  BY <1>1, <1>2, <1>3, OnboardFacts DEF OnboardMoves, Onboard!PCs
<1>6. Onboard!RunIsCarried(d)'
  <2>1. v2'[d] = v2[d] \/ v2'[d] = Onboard!NoJob
    BY <1>1, OnboardFacts
  <2>2. /\ v1[d].id # r /\ \A q \in Onboard!Callers \ {r} : v3'[q] = v3[q]
        /\ \A q \in Onboard!Callers : Onboard!DigestOf(q) = d => v3'[q] # "insert"
    BY <1>1, <1>4, OnboardFacts DEF Onboard!RowIsAccepted, Onboard!InsertIsCovered
  <2> QED
    BY <1>1, <1>2, <1>3, <1>4, <2>1, <2>2, OnboardFacts
     DEF Onboard!RunIsCarried, Onboard!RowIsAccepted, Onboard!InsertIsCovered,
         Onboard!PendingIsQueued, Onboard!WorkIsInProgress, Onboard!AllSucceeded
<1> QED BY <1>1, <1>5, <1>6, OnboardCarries

\* The worker takes a job: no row yet, its row, or no try left.
LEMMA OnboardTake ==
    ASSUME Onboard!Carried, NEW d \in Onboard!Digests, Onboard!Take(d)
    PROVE  Onboard!Carried'
<1>1. v3' = v3 /\ v4' = v4 /\ v2[d].state = "queued"
  BY DEF Onboard!Take
<1>2. CASE /\ v2[d].tries < MaxTries /\ v1[d].id # v2[d].id
           /\ v2[d].tries > 0 => v3[v2[d].id] # "insert"
           /\ Onboard!Missing(d) /\ v1' = v1
  <2> DEFINE j == [v2[d] EXCEPT !.tries = @ + 1]
  <2>1. /\ v2' = [v2 EXCEPT ![d] = j] /\ j \in Onboard!JobType
        /\ j.id = v2[d].id /\ j.state = "queued" /\ j.tries = v2[d].tries + 1
    BY <1>1, <1>2, OnboardFacts, OnboardAssumption DEF Onboard!Missing, Onboard!JobType
  <2> HIDE DEF j
  <2> v2'[d] = j
    BY <2>1, OnboardFacts
  <2>2. OnboardMoves(d)
    BY <1>1, <1>2, <2>1, OnboardFacts DEF OnboardMoves
  <2>3. Onboard!RunIsCarried(d)'
    BY <1>1, <1>2, <2>1, <2>2, OnboardFacts
     DEF Onboard!RunIsCarried, Onboard!RowIsAccepted, Onboard!InsertIsCovered,
         Onboard!PendingIsQueued, Onboard!WorkIsInProgress, Onboard!AllSucceeded
  <2> QED BY <2>2, <2>3, OnboardCarries
<1>3. CASE /\ v2[d].tries < MaxTries /\ v1[d].id = v2[d].id
           /\ v1' = [v1 EXCEPT ![d].status = "in_progress"]
           /\ v2' = [v2 EXCEPT ![d] = [v2[d] EXCEPT !.state = "running", !.tries = @ + 1,
                                                    !.left = Onboard!Asked(d)]]
  <2> DEFINE t == v2[d].tries + 1
             w == [v1[d] EXCEPT !.status = "in_progress"]
             j == [v2[d] EXCEPT !.state = "running", !.tries = t, !.left = Onboard!Asked(d)]
             k == [v2[d] EXCEPT !.state = "running", !.tries = @ + 1, !.left = Onboard!Asked(d)]
  <2>1. v1' = [v1 EXCEPT ![d] = w] /\ v2' = [v2 EXCEPT ![d] = j]
    <3>1. v1' = [v1 EXCEPT ![d] = w]
      BY <1>3
    <3>2. v2' = [v2 EXCEPT ![d] = k]
      BY <1>3
    <3>3. k = j
      OBVIOUS
    <3> HIDE DEF k, j
    <3> QED BY <3>1, <3>2, <3>3
  <2>2. w \in Onboard!RunType /\ w.status = "in_progress" /\ w.id = v1[d].id
    BY OnboardFacts DEF Onboard!RunType, Onboard!None
  <2>3. t \in 0 .. MaxTries /\ Onboard!Asked(d) \in SUBSET Symbols
    BY <1>3, OnboardFacts, OnboardAssumption DEF Onboard!Asked
  <2> HIDE DEF t
  <2>4. j \in Onboard!JobType /\ j.state = "running" /\ j.id = v2[d].id
    BY <2>3, OnboardFacts, ZenonT(60) DEF Onboard!JobType
  <2> HIDE DEF j, w
  <2>5. v2'[d] = j /\ v1'[d] = w
    BY <2>1, OnboardFacts
  <2>6. OnboardMoves(d)
    <3>1. v4 \in [commit : Nat, kill : Nat, crash : Nat] /\ v4.crash \in Nat /\ v4.kill \in Nat
      BY OnboardFacts
    <3>2. v3 \in [Onboard!Callers -> Onboard!PCs]
      BY OnboardFacts
    <3>3. v1' = [v1 EXCEPT ![d] = v1'[d]] /\ v2' = [v2 EXCEPT ![d] = v2'[d]]
      BY <2>1, <2>5, Zenon
    <3> QED BY <1>1, <2>2, <2>4, <2>5, <3>1, <3>2, <3>3 DEF OnboardMoves
  <2>7. Onboard!RunIsCarried(d)'
    BY <1>1, <1>3, <2>2, <2>4, <2>5, OnboardFacts
     DEF Onboard!RunIsCarried, Onboard!RowIsAccepted, Onboard!InsertIsCovered,
         Onboard!PendingIsQueued, Onboard!WorkIsInProgress, Onboard!AllSucceeded
  <2> QED BY <2>6, <2>7, OnboardCarries
<1>4. CASE v2[d].tries = MaxTries /\ Onboard!Ends(d) /\ v1' = v1
  <2> DEFINE j == Onboard!JobOf(v2[d].id, "result")
  <2>1. v2' = [v2 EXCEPT ![d] = j] /\ j \in Onboard!JobType /\ j.state = "result" /\ j.id = v2[d].id
    BY <1>4, OnboardFacts, OnboardAssumption
       DEF Onboard!Ends, Onboard!JobType, Onboard!NoJob, Onboard!JobOf, Onboard!None
  <2> HIDE DEF j
  <2> v2'[d] = j
    BY <2>1, OnboardFacts
  <2>2. OnboardMoves(d)
    BY <1>1, <1>4, <2>1, OnboardFacts DEF OnboardMoves
  <2>3. Onboard!RunIsCarried(d)'
    BY <1>1, <1>4, <2>1, <2>2, OnboardFacts, OnboardAssumption
     DEF Onboard!RunIsCarried, Onboard!RowIsAccepted, Onboard!InsertIsCovered,
         Onboard!PendingIsQueued, Onboard!WorkIsInProgress, Onboard!AllSucceeded
  <2> QED BY <2>2, <2>3, OnboardCarries
<1> QED BY <1>2, <1>3, <1>4 DEF Onboard!Take

\* The symbols of a run that is in progress.
LEMMA OnboardSymbol ==
    ASSUME Onboard!Carried, NEW d \in Onboard!Digests, NEW s \in Symbols,
           Onboard!StartSymbol(d, s) \/ Onboard!FinishSymbol(d, s)
    PROVE  Onboard!Carried'
<1>1. /\ v3' = v3 /\ v4' = v4 /\ v2[d].state = "running"
      /\ v2' = v2 \/ v2' = [v2 EXCEPT ![d].left = @ \ {s}]
  BY DEF Onboard!StartSymbol, Onboard!FinishSymbol
<1>2. PICK o \in {"in_progress", "succeeded", "failed"} : v1' = [v1 EXCEPT ![d].sym[s] = o]
  BY DEF Onboard!StartSymbol, Onboard!FinishSymbol
<1> DEFINE w == [v1[d] EXCEPT !.sym[s] = o]
           j == [v2[d] EXCEPT !.left = @ \ {s}]
<1>3. /\ v1' = [v1 EXCEPT ![d] = w]
      /\ v2' = v2 \/ v2' = [v2 EXCEPT ![d] = j]
      /\ j \in Onboard!JobType /\ j.state = v2[d].state /\ j.id = v2[d].id /\ j.tries = v2[d].tries
  BY <1>1, <1>2, OnboardFacts DEF Onboard!JobType
<1>4. w \in Onboard!RunType /\ w.status = v1[d].status /\ w.id = v1[d].id
  <2>1. [v1[d].sym EXCEPT ![s] = o] \in [Symbols -> {"none", "not_started", "in_progress", "succeeded", "failed"}]
    BY OnboardFacts
  <2> QED BY <2>1, OnboardFacts, ZenonT(60) DEF Onboard!RunType, Onboard!None
<1> HIDE DEF w, j
<1>a. v1'[d] = w /\ v2'[d] \in {j, v2[d]} /\ v2'[d] \in Onboard!JobType
  <2>1. v1 \in [Onboard!Digests -> Onboard!RunType] /\ v2 \in [Onboard!Digests -> Onboard!JobType]
    BY OnboardFacts
  <2> QED BY <1>3, <2>1
<1>5. OnboardMoves(d)
  <2>1. v2' = [v2 EXCEPT ![d] = v2'[d]]
    <3>1. CASE v2' = v2
      BY <3>1, OnboardFacts
    <3>2. CASE v2' = [v2 EXCEPT ![d] = j]
      BY <3>2, OnboardFacts
    <3> QED BY <1>3, <3>1, <3>2
  <2>2. v4 \in [commit : Nat, kill : Nat, crash : Nat] /\ v4.crash \in Nat /\ v4.kill \in Nat
    BY OnboardFacts
  <2>3. v3 \in [Onboard!Callers -> Onboard!PCs]
    BY OnboardFacts
  <2>4. v1' = [v1 EXCEPT ![d] = v1'[d]]
    BY <1>3, <1>a, Zenon
  <2> QED BY <1>1, <1>4, <1>a, <2>1, <2>2, <2>3, <2>4 DEF OnboardMoves
<1>6. Onboard!RunIsCarried(d)'
  BY <1>1, <1>3, <1>4, <1>a, OnboardFacts
     DEF Onboard!RunIsCarried, Onboard!RowIsAccepted, Onboard!InsertIsCovered,
         Onboard!PendingIsQueued, Onboard!WorkIsInProgress, Onboard!AllSucceeded
<1> QED BY <1>5, <1>6, OnboardCarries

\* The end of a job, by itself, by an exception or by a kill.
LEMMA OnboardEnds ==
    ASSUME Onboard!Carried, NEW d \in Onboard!Digests,
           Onboard!Finish(d) \/ Onboard!Crashes(d) \/ Onboard!Killed(d) \/ Onboard!ExpireResult(d)
    PROVE  Onboard!Carried'
<1> DEFINE ended == Onboard!JobOf(v2[d].id, "result")
           again == [v2[d] EXCEPT !.state = "queued", !.left = {}]
<1>1. /\ ended \in Onboard!JobType /\ again \in Onboard!JobType /\ Onboard!NoJob \in Onboard!JobType
      /\ ended.state = "result" /\ again.state = "queued" /\ Onboard!NoJob.state = "none"
  <2>1. again \in Onboard!JobType /\ again.state = "queued"
    BY OnboardFacts, ZenonT(60) DEF Onboard!JobType
  <2> QED
    BY <2>1, OnboardFacts, OnboardAssumption
       DEF Onboard!JobType, Onboard!NoJob, Onboard!JobOf, Onboard!None
<1>2. /\ v3' = v3 /\ v2[d].state \in {"running", "result"}
      /\ v2' = [v2 EXCEPT ![d] = again] \/ v2' = [v2 EXCEPT ![d] = ended]
         \/ v2' = [v2 EXCEPT ![d] = Onboard!NoJob]
  BY <1>1, OnboardFacts DEF Onboard!Finish, Onboard!Crashes, Onboard!Killed, Onboard!ExpireResult,
     Onboard!Ends, Onboard!Requeued
<1> HIDE DEF ended, again
<1>3. v2'[d] \in {ended, again, Onboard!NoJob} /\ v2' = [v2 EXCEPT ![d] = v2'[d]]
  BY <1>2, OnboardFacts
<1>4. /\ v1' = [v1 EXCEPT ![d] = v1'[d]] /\ v1'[d] \in Onboard!RunType
      /\ v1'[d].id = v1[d].id /\ v1'[d].sym = v1[d].sym
      /\ Onboard!Finish(d) => v1'[d].status = Onboard!_compute_terminal_status(d)
      /\ Onboard!Crashes(d) \/ Onboard!Killed(d) => v1'[d].status \in {"failed", v1[d].status}
      /\ Onboard!ExpireResult(d) => v1'[d] = v1[d]
  <2>1. v1' = v1 \/ \E st \in {"completed", "with_failures", "failed", v1[d].status} :
                        v1' = [v1 EXCEPT ![d] = [v1[d] EXCEPT !.status = st]]
    BY OnboardFacts DEF Onboard!Finish, Onboard!Crashes, Onboard!Killed, Onboard!ExpireResult,
       Onboard!_compute_terminal_status
  <2>2. \A st \in {"completed", "with_failures", "failed", v1[d].status} :
          /\ [v1[d] EXCEPT !.status = st] \in Onboard!RunType
          /\ [v1[d] EXCEPT !.status = st].id = v1[d].id /\ [v1[d] EXCEPT !.status = st].sym = v1[d].sym
          /\ [v1[d] EXCEPT !.status = st].status = st
    BY OnboardFacts DEF Onboard!RunType
  <2>3. /\ v1' = [v1 EXCEPT ![d] = v1'[d]] /\ v1'[d] \in Onboard!RunType
        /\ v1'[d].id = v1[d].id /\ v1'[d].sym = v1[d].sym
    BY <2>1, <2>2, OnboardFacts, ZenonT(60)
  <2>4. Onboard!Finish(d) => v1'[d].status = Onboard!_compute_terminal_status(d)
    BY OnboardFacts DEF Onboard!Finish, Onboard!RunType
  <2>5. Onboard!Crashes(d) => v1'[d].status \in {"failed", v1[d].status}
    BY OnboardFacts DEF Onboard!Crashes, Onboard!RunType
  <2>6. Onboard!Killed(d) \/ Onboard!ExpireResult(d) => v1' = v1
    BY DEF Onboard!Killed, Onboard!ExpireResult
  <2> QED BY <2>3, <2>4, <2>5, <2>6
<1>5. /\ v4' \in [commit : Nat, kill : Nat, crash : Nat] /\ v4'.crash >= v4.crash /\ v4'.kill >= v4.kill
      /\ Onboard!Crashes(d) \/ Onboard!Killed(d) => v4'.crash + v4'.kill > 0
  <2>1. v4 \in [commit : Nat, kill : Nat, crash : Nat]
    BY OnboardFacts
  <2>2. CASE Onboard!Finish(d) \/ Onboard!ExpireResult(d)
    <3>1. \/ v4' = v4 /\ ~Onboard!Crashes(d) /\ ~Onboard!Killed(d)
          \/ v4' = [v4 EXCEPT !["crash"] = @ + 1]
          \/ v4' = [v4 EXCEPT !["kill"] = @ + 1]
      BY <2>2 DEF Onboard!Finish, Onboard!ExpireResult, Onboard!Crashes, Onboard!Killed, Onboard!Fault
    <3> QED BY <2>1, <3>1
  <2>3. CASE Onboard!Crashes(d)
    BY <2>1, <2>3 DEF Onboard!Crashes, Onboard!Fault
  <2>4. CASE Onboard!Killed(d)
    BY <2>1, <2>4 DEF Onboard!Killed, Onboard!Fault
  <2> QED BY <2>2, <2>3, <2>4
<1>6. OnboardMoves(d)
  BY <1>1, <1>2, <1>3, <1>4, <1>5, OnboardFacts DEF OnboardMoves
<1>7. /\ Onboard!RowIsAccepted(d)' /\ Onboard!InsertIsCovered(d)'
      /\ v2[d].state = "running" => v1[d].status = "in_progress"
  BY <1>2, <1>4, OnboardFacts DEF Onboard!RowIsAccepted, Onboard!InsertIsCovered,
     Onboard!WorkIsInProgress
<1>8. Onboard!PendingIsQueued(d)' /\ Onboard!WorkIsInProgress(d)' /\ Onboard!AllSucceeded(d)'
  <2>1. CASE Onboard!Finish(d)
    BY <2>1, <1>1, <1>3, <1>4, OnboardFacts
       DEF Onboard!_compute_terminal_status, Onboard!Asked, Onboard!None, Onboard!PendingIsQueued,
           Onboard!WorkIsInProgress, Onboard!AllSucceeded
  <2>2. CASE Onboard!Crashes(d) \/ Onboard!Killed(d)
    <3>1. v2[d].state = "running"
      BY <2>2 DEF Onboard!Crashes, Onboard!Killed
    <3> QED
      BY <2>2, <3>1, <1>1, <1>3, <1>4, <1>5, <1>7
         DEF Onboard!PendingIsQueued, Onboard!WorkIsInProgress, Onboard!AllSucceeded
  <2>3. CASE Onboard!ExpireResult(d)
    <3>1. v1'[d] = v1[d] /\ v4' = v4 /\ v2[d].state = "result"
      BY <2>3, <1>4 DEF Onboard!ExpireResult
    <3> QED
      BY <3>1, <1>1, <1>3, OnboardFacts DEF Onboard!PendingIsQueued, Onboard!WorkIsInProgress,
         Onboard!AllSucceeded
  <2> QED BY <2>1, <2>2, <2>3
<1> QED BY <1>6, <1>7, <1>8, OnboardCarries DEF Onboard!RunIsCarried

LEMMA OnboardStep ==
    ASSUME Onboard!Carried, [Onboard!Next]_(Onboard!vars)
    PROVE  Onboard!Carried'
<1>1. CASE UNCHANGED Onboard!vars
  BY <1>1 DEF Onboard!vars, Onboard!Carried, Onboard!RunsAreTyped, Onboard!RunIsCarried,
     Onboard!RowIsAccepted, Onboard!InsertIsCovered, Onboard!PendingIsQueued,
     Onboard!WorkIsInProgress, Onboard!AllSucceeded
<1> QED
  BY <1>1, OnboardAnswers, OnboardEnqueue, OnboardInsert, OnboardInsertFails, OnboardTake,
     OnboardSymbol, OnboardEnds
     DEF Onboard!Next, Onboard!Worker

\* A run that was answered as accepted has its job, although the job is enqueued before the
\* row exists, and COMPLETED means that every symbol succeeded: for any number of callers,
\* symbols, faults and tries, of which there are at least two.
THEOREM OnboardingRunsEnd == Spec => []OnboardingEnds
<1> DEFINE Inv == part = "Onboard" => Onboard!Carried
<1>1. Init => Inv
  BY OnboardStart DEF Init
<1>2. Inv /\ [Next]_pool => Inv'
  <2> SUFFICES ASSUME Inv, [Next]_pool, part' = "Onboard" PROVE Onboard!Carried'
    OBVIOUS
  <2>1. part = "Onboard" /\ [Onboard!Next]_(Onboard!vars)
    BY DEF Next, pool, Rest4, Rest5, Onboard!vars
  <2> QED BY <2>1, OnboardStep
<1>3. Inv => OnboardingEnds
  <2> SUFFICES ASSUME Onboard!Carried
               PROVE  Onboard!AcceptedRunHasJob /\ Onboard!CompletedMeansAll
    BY DEF OnboardingEnds
  <2>1. Onboard!AcceptedRunHasJob
    BY OnboardFacts DEF Onboard!PendingIsQueued, Onboard!WorkIsInProgress, Onboard!AcceptedRunHasJob
  <2>2. Onboard!CompletedMeansAll
    BY OnboardFacts DEF Onboard!AllSucceeded, Onboard!CompletedMeansAll, Onboard!Asked, Onboard!None
  <2> QED BY <2>1, <2>2
<1> QED BY <1>1, <1>2, <1>3, PTL DEF Spec

-----------------------------------------------------------------------------
(* DeployAdmission.  v1: account, v2: dep, v3: cand, v4: node, v5: req,      *)
(* v6: edit, v7: revLock, v8: acctLock, v9: used.                            *)

LEMMA AdmitStart == Admit!Init => Admit!SoundAdmission
<1> SUFFICES ASSUME Admit!Init PROVE Admit!SoundAdmission
  OBVIOUS
<1>1. /\ Admit!NoDep \in Admit!DepType /\ Admit!NoDep.status = "none"
      /\ [status |-> "active", version |-> 1] \in Admit!AccountType
      /\ [stage |-> "discovery", dep |-> Admit!NoId] \in Admit!CandType
      /\ \A s \in {"paper_review", "live_candidate"} : [stage |-> s, dep |-> Admit!NoId] \in Admit!CandType
  BY DEF Admit!NoDep, Admit!DepType, Admit!AccountType, Admit!CandType, Admit!Stages
<1>2. v1 \in [Accounts -> Admit!AccountType] /\ v2 \in [Admit!Identities -> Admit!DepType]
  BY <1>1 DEF Admit!Init
<1>3. v3 \in [Linkable -> Admit!CandType] /\ v4 = {} /\ v8 \in [Accounts -> Starts \cup {Admit!Free}]
  BY <1>1 DEF Admit!Init
<1>4. v5 \in [Starts -> Admit!RequestType] /\ \A r \in Starts : v5[r].pc = "resolve"
  <2>1. PICK id \in [Starts -> Admit!Identities], c \in Linkable :
          v5 = [r \in Starts |-> [pc |-> "resolve", id |-> id[r], cand |-> c,
                                  copy |-> [stage |-> "discovery", dep |-> Admit!NoId], version |-> 0]]
    BY DEF Admit!Init
  <2>2. ASSUME NEW r \in Starts
        PROVE  [pc |-> "resolve", id |-> id[r], cand |-> c,
                copy |-> [stage |-> "discovery", dep |-> Admit!NoId], version |-> 0] \in Admit!RequestType
    BY <1>1 DEF Admit!RequestType
  <2> QED BY <2>1, <2>2
<1>5. Admit!RowsAreTyped
  BY <1>2, <1>3, <1>4 DEF Admit!RowsAreTyped
<1>6. \A i \in Admit!Identities : v2[i] = Admit!NoDep
  BY DEF Admit!Init
<1> QED
  BY <1>3, <1>4, <1>5, <1>6
     DEF Admit!SoundAdmission, Admit!RowsAreWritten, Admit!RevisionIsHeld, Admit!AcceptanceStands,
         Admit!OneDeploymentPerAccount

\* A step that takes no lock and writes no first row: it brings no request between the locks
\* and the commit, and leaves the accounts alone whose row is locked.
AdmitMoves ==
    /\ \A r \in Starts :
         /\ v5'[r].id = v5[r].id
         /\ v5'[r].pc \in {"account", "upsert"} => v5'[r].pc = v5[r].pc /\ v5'[r].version = v5[r].version
         /\ v5'[r].pc \in {"check", "link", "publish"} => v5[r].pc \in {"check", "link", "publish"}
    /\ v7' = v7
    /\ \A i \in Admit!Identities :
         /\ v2'[i].status = "none" => v2'[i] = Admit!NoDep
         /\ v2'[i] = Admit!NoDep <=> v2[i] = Admit!NoDep
    /\ \A i \in v4' : i \in v4 \/ v2[i] # Admit!NoDep
    /\ \A a \in Accounts : v8[a] # Admit!Free => v8'[a] = v8[a] /\ v1'[a] = v1[a]

LEMMA AdmitQuiet ==
    ASSUME Admit!SoundAdmission, Admit!RowsAreTyped', AdmitMoves
    PROVE  Admit!SoundAdmission'
<1>1. \A r \in Starts : v5[r] \in Admit!RequestType /\ v5[r].id \in Admit!Identities
                        /\ v5[r].id.acct \in Accounts
  BY DEF Admit!SoundAdmission, Admit!RowsAreTyped, Admit!RequestType, Admit!Identities
<1>2. Admit!NoDep.status = "none" /\ \A i \in Admit!Identities : v2[i].status = "none" <=> v2[i] = Admit!NoDep
  BY DEF Admit!NoDep, Admit!SoundAdmission, Admit!RowsAreWritten
<1>3. Admit!RowsAreWritten'
  BY <1>1, <1>2 DEF AdmitMoves, Admit!SoundAdmission, Admit!RowsAreTyped, Admit!RowsAreWritten
<1>4. Admit!RevisionIsHeld'
  BY DEF AdmitMoves, Admit!SoundAdmission, Admit!RevisionIsHeld
<1>5. Admit!OneDeploymentPerAccount'
  BY DEF AdmitMoves, Admit!SoundAdmission, Admit!OneDeploymentPerAccount
<1>6. ASSUME NEW r \in Starts, v5'[r].pc = "upsert"
      PROVE  v8'[v5'[r].id.acct] = r /\ Admit!Accepts(r)'
  <2>1. v5[r].pc = "upsert" /\ v5'[r].version = v5[r].version /\ v5'[r].id = v5[r].id
    BY <1>6 DEF AdmitMoves
  <2>2. v8[v5[r].id.acct] = r /\ Admit!Accepts(r) /\ r # Admit!Free
    BY <2>1, AdmitAssumption DEF Admit!SoundAdmission, Admit!AcceptanceStands, Admit!Free
  <2>3. v8'[v5[r].id.acct] = r /\ v1'[v5[r].id.acct] = v1[v5[r].id.acct]
    BY <1>1, <2>2 DEF AdmitMoves
  <2>4. Admit!Collides(v5[r].id)' <=> Admit!Collides(v5[r].id)
    BY <2>1 DEF AdmitMoves, Admit!Collides
  <2> QED BY <2>1, <2>2, <2>3, <2>4 DEF Admit!Accepts
<1> QED BY <1>3, <1>4, <1>5, <1>6 DEF Admit!SoundAdmission, Admit!AcceptanceStands

\* What the invariant says of one request.
LEMMA AdmitFacts ==
    ASSUME Admit!SoundAdmission, NEW r \in Starts
    PROVE  /\ v1 \in [Accounts -> Admit!AccountType] /\ v2 \in [Admit!Identities -> Admit!DepType]
           /\ v3 \in [Linkable -> Admit!CandType] /\ v4 \subseteq Admit!Identities
           /\ v5 \in [Starts -> Admit!RequestType] /\ v8 \in [Accounts -> Starts \cup {Admit!Free}]
           /\ v5[r] \in Admit!RequestType /\ v5[r].id \in Admit!Identities /\ v5[r].id.acct \in Accounts
           /\ v5[r].version \in Nat
BY DEF Admit!SoundAdmission, Admit!RowsAreTyped, Admit!RequestType, Admit!Identities

\* A step of one request that leaves accounts, deployments, nodes and locks alone.
LEMMA AdmitRequests ==
    ASSUME Admit!SoundAdmission, NEW r \in Starts,
           Admit!Resolve(r) \/ Admit!Preflight(r) \/ Admit!ValidateCredentials(r) \/ Admit!LinkCandidate(r)
    PROVE  Admit!SoundAdmission'
<1>1. v1' = v1 /\ v2' = v2 /\ v4' = v4 /\ v7' = v7 /\ v8' = v8
  BY DEF Admit!Resolve, Admit!Preflight, Admit!ValidateCredentials, Admit!LinkCandidate
<1>2. /\ v5' = [v5 EXCEPT ![r] = v5'[r]] /\ v5'[r] \in Admit!RequestType /\ v5'[r].id = v5[r].id
      /\ v5'[r].pc \notin {"account", "upsert"}
      /\ v5'[r].pc \in {"check", "link", "publish"} => v5[r].pc = "link"
  <2>1. CASE Admit!Resolve(r)
    <3>1. CASE \E p \in {"done"} : v5' = [v5 EXCEPT ![r].pc = p]
      BY <3>1, AdmitFacts, ZenonT(60) DEF Admit!RequestType
    <3>2. CASE \E c \in Linkable :
                 v5' = [v5 EXCEPT ![r].pc = "preflight", ![r].cand = c, ![r].copy = v3[c]]
      <4>1. PICK c \in Linkable :
              v5' = [v5 EXCEPT ![r].pc = "preflight", ![r].cand = c, ![r].copy = v3[c]]
        BY <3>2
      <4>2. v3[c] \in Admit!CandType
        BY AdmitFacts
      <4> QED BY <4>1, <4>2, AdmitFacts DEF Admit!RequestType
    <3> QED BY <2>1, <3>1, <3>2 DEF Admit!Resolve, Admit!Finish, Admit!Goto
  <2>2. CASE Admit!Preflight(r)
    BY <2>2, AdmitFacts DEF Admit!Preflight, Admit!Finish, Admit!Goto, Admit!RequestType
  <2>3. CASE Admit!ValidateCredentials(r)
    <3>1. v1[v5[r].id.acct].version \in Nat
      BY AdmitFacts DEF Admit!AccountType
    <3>2. CASE v5' = [v5 EXCEPT ![r].pc = "revision", ![r].version = v1[v5[r].id.acct].version]
      BY <3>1, <3>2, AdmitFacts DEF Admit!RequestType
    <3>3. CASE v5' = [v5 EXCEPT ![r].pc = "done"]
      BY <3>3, AdmitFacts DEF Admit!RequestType
    <3> QED BY <2>3, <3>2, <3>3 DEF Admit!ValidateCredentials, Admit!Finish, Admit!Goto
  <2>4. CASE Admit!LinkCandidate(r)
    BY <2>4, AdmitFacts DEF Admit!LinkCandidate, Admit!Goto, Admit!At, Admit!RequestType
  <2> QED BY <2>1, <2>2, <2>3, <2>4
<1>3. v3' \in [Linkable -> Admit!CandType]
  <2>1. CASE v3' = v3
    BY <2>1, AdmitFacts
  <2>2. CASE Admit!LinkCandidate(r)
    <3>1. PICK x : x \in Admit!CandType /\ v3' = [v3 EXCEPT ![v5[r].cand] = x]
      <4>1. v5[r].cand \in Linkable /\ v3[v5[r].cand] \in Admit!CandType /\ v5[r].id \in Admit!Identities
        BY AdmitFacts DEF Admit!RequestType
      <4> QED BY <2>2, <4>1 DEF Admit!LinkCandidate, Admit!CandType, Admit!Stages
    <3> QED BY <3>1, AdmitFacts
  <2> QED BY <2>1, <2>2 DEF Admit!Resolve, Admit!Preflight, Admit!ValidateCredentials
<1>4. Admit!RowsAreTyped'
  BY <1>1, <1>2, <1>3 DEF Admit!SoundAdmission, Admit!RowsAreTyped
<1>5. AdmitMoves
  BY <1>1, <1>2, AdmitFacts DEF AdmitMoves, Admit!SoundAdmission, Admit!RowsAreWritten
<1> QED BY <1>4, <1>5, AdmitQuiet

\* The status of a row that was written before.
LEMMA AdmitStatus ==
    ASSUME Admit!SoundAdmission,
           \/ \E r \in Starts : Admit!CheckActive(r) \/ Admit!StartFails(r) \/ Admit!Publish(r)
           \/ \E i \in Admit!Identities : Admit!Stop(i)
    PROVE  Admit!SoundAdmission'
<1>1. /\ v1' = v1 /\ v3' = v3 /\ v7' = v7 /\ v8' = v8
  BY DEF Admit!CheckActive, Admit!StartFails, Admit!Publish, Admit!Stop
<1>2. ASSUME NEW r \in Starts, Admit!CheckActive(r) \/ Admit!StartFails(r) \/ Admit!Publish(r)
      PROVE  /\ v5' = [v5 EXCEPT ![r] = v5'[r]] /\ v5'[r] \in Admit!RequestType /\ v5'[r].id = v5[r].id
             /\ v5'[r].pc \in {"link", "done"} /\ v5[r].pc \in {"check", "link", "publish"}
  <2>1. PICK p \in {"link", "done"} : v5' = [v5 EXCEPT ![r].pc = p]
    BY <1>2 DEF Admit!CheckActive, Admit!StartFails, Admit!Publish, Admit!Finish, Admit!Goto
  <2>2. v5[r].pc \in {"check", "link", "publish"}
    BY <1>2 DEF Admit!CheckActive, Admit!StartFails, Admit!Publish, Admit!At
  <2> QED BY <2>1, <2>2, AdmitFacts DEF Admit!RequestType
<1>3. /\ v5' \in [Starts -> Admit!RequestType]
      /\ \A r \in Starts : /\ v5'[r].id = v5[r].id
                           /\ v5'[r].pc \in {"account", "upsert"} => v5'[r] = v5[r]
                           /\ v5'[r].pc \in {"check", "link", "publish"}
                                => v5[r].pc \in {"check", "link", "publish"}
  <2>1. v5 \in [Starts -> Admit!RequestType]
    BY DEF Admit!SoundAdmission, Admit!RowsAreTyped
  <2>2. CASE \E r \in Starts : Admit!CheckActive(r) \/ Admit!StartFails(r) \/ Admit!Publish(r)
    BY <2>1, <2>2, <1>2
  <2>3. CASE \E i \in Admit!Identities : Admit!Stop(i)
    BY <2>1, <2>3 DEF Admit!Stop
  <2> QED BY <2>2, <2>3
<1>4. /\ v2' = v2 \/ \E i \in Admit!Identities : \E st \in {"failed", "stopped", "running"} :
                       v2[i].status # "none" /\ v2' = [v2 EXCEPT ![i].status = st]
      /\ v4' \subseteq Admit!Identities
      /\ \A i \in v4' : i \in v4 \/ v2[i].status # "none"
  <2>1. ASSUME NEW r \in Starts, Admit!CheckActive(r) \/ Admit!StartFails(r) \/ Admit!Publish(r)
        PROVE  <1>4!1 /\ <1>4!2 /\ <1>4!3
    <3>1. v5[r].id \in Admit!Identities /\ v2[v5[r].id].status # "none" /\ v4 \subseteq Admit!Identities
      BY <2>1, <1>2, AdmitFacts DEF Admit!SoundAdmission, Admit!RowsAreWritten
    <3> QED BY <2>1, <3>1 DEF Admit!CheckActive, Admit!StartFails, Admit!Publish
  <2>2. ASSUME NEW i \in Admit!Identities, Admit!Stop(i) PROVE <1>4!1 /\ <1>4!2 /\ <1>4!3
    BY <2>2 DEF Admit!Stop, Admit!SoundAdmission, Admit!RowsAreWritten, Admit!RowsAreTyped
  <2> QED BY <2>1, <2>2
<1>5. /\ v2' \in [Admit!Identities -> Admit!DepType]
      /\ \A i \in Admit!Identities : v2'[i] = v2[i] \/ (v2'[i].status # "none" /\ v2[i].status # "none")
  <2>1. v2 \in [Admit!Identities -> Admit!DepType]
    BY DEF Admit!SoundAdmission, Admit!RowsAreTyped
  <2>2. CASE v2' = v2
    BY <2>1, <2>2
  <2>3. ASSUME NEW i \in Admit!Identities, NEW st \in {"failed", "stopped", "running"},
               v2[i].status # "none", v2' = [v2 EXCEPT ![i].status = st]
        PROVE  <1>5!1 /\ <1>5!2
    <3>1. [v2[i] EXCEPT !.status = st] \in Admit!DepType /\ [v2[i] EXCEPT !.status = st].status # "none"
      BY <2>1 DEF Admit!DepType, Admit!Active
    <3> QED BY <2>1, <2>3, <3>1
  <2> QED BY <1>4, <2>2, <2>3
<1>6. Admit!RowsAreTyped'
  BY <1>1, <1>3, <1>4, <1>5 DEF Admit!SoundAdmission, Admit!RowsAreTyped
<1>7. AdmitMoves
  <2>1. Admit!NoDep.status = "none"
    BY DEF Admit!NoDep
  <2>2. \A i \in Admit!Identities : v2[i].status = "none" => v2[i] = Admit!NoDep
    BY DEF Admit!SoundAdmission, Admit!RowsAreWritten
  <2>3. \A i \in v4' : i \in v4 \/ v2[i] # Admit!NoDep
    BY <1>4, <2>1
  <2>4. \A i \in Admit!Identities :
          /\ v2'[i].status = "none" => v2'[i] = Admit!NoDep
          /\ v2'[i] = Admit!NoDep <=> v2[i] = Admit!NoDep
    BY <1>5, <2>1, <2>2
  <2>5. \A r \in Starts :
          /\ v5'[r].id = v5[r].id
          /\ v5'[r].pc \in {"account", "upsert"} => v5'[r].pc = v5[r].pc /\ v5'[r].version = v5[r].version
          /\ v5'[r].pc \in {"check", "link", "publish"} => v5[r].pc \in {"check", "link", "publish"}
    BY <1>3
  <2>6. \A a \in Accounts : v8[a] # Admit!Free => v8'[a] = v8[a] /\ v1'[a] = v1[a]
    BY <1>1
  <2> QED BY <1>1, <2>3, <2>4, <2>5, <2>6 DEF AdmitMoves
<1> QED BY <1>6, <1>7, AdmitQuiet

\* Archiving and rotation wait for the account's lock.
LEMMA AdmitAccounts ==
    ASSUME Admit!SoundAdmission, NEW a \in Accounts, Admit!archive(a) \/ Admit!rotate(a)
    PROVE  Admit!SoundAdmission'
<1>1. /\ v2' = v2 /\ v3' = v3 /\ v4' = v4 /\ v5' = v5 /\ v7' = v7 /\ v8' = v8 /\ v8[a] = Admit!Free
      /\ \/ v1' = [v1 EXCEPT ![a].status = "archived"]
         \/ v1' = [v1 EXCEPT ![a].version = @ + 1]
  BY DEF Admit!archive, Admit!rotate
<1>2. v1' \in [Accounts -> Admit!AccountType] /\ \A b \in Accounts \ {a} : v1'[b] = v1[b]
  <2>1. v1 \in [Accounts -> Admit!AccountType] /\ v1[a] \in Admit!AccountType
    BY DEF Admit!SoundAdmission, Admit!RowsAreTyped
  <2>2. /\ [v1[a] EXCEPT !.status = "archived"] \in Admit!AccountType
        /\ [v1[a] EXCEPT !.version = @ + 1] \in Admit!AccountType
    BY <2>1 DEF Admit!AccountType
  <2> QED BY <1>1, <2>1, <2>2
<1>3. Admit!RowsAreTyped'
  BY <1>1, <1>2 DEF Admit!SoundAdmission, Admit!RowsAreTyped
<1>4. AdmitMoves
  BY <1>1, <1>2 DEF AdmitMoves, Admit!SoundAdmission, Admit!RowsAreWritten
<1> QED BY <1>3, <1>4, AdmitQuiet

\* The stage changes, which take no lock, write candidates only.
LEMMA AdmitStages ==
    ASSUME Admit!SoundAdmission, NEW e \in Editors,
           \/ \E c \in Linkable : Admit!ReadStage(e, c)
           \/ \E s \in Admit!Stages : Admit!WriteStage(e, s)
    PROVE  Admit!SoundAdmission'
<1>1. /\ v1' = v1 /\ v2' = v2 /\ v4' = v4 /\ v5' = v5 /\ v7' = v7 /\ v8' = v8
      /\ v3' = v3 \/ \E s \in Admit!Stages : v3' = [v3 EXCEPT ![v6[e].cand].stage = s]
  BY DEF Admit!ReadStage, Admit!WriteStage
<1>2. v3' \in [Linkable -> Admit!CandType]
  <2>1. v3 \in [Linkable -> Admit!CandType]
    BY DEF Admit!SoundAdmission, Admit!RowsAreTyped
  <2>2. ASSUME NEW s \in Admit!Stages, v3' = [v3 EXCEPT ![v6[e].cand].stage = s]
        PROVE  v3' \in [Linkable -> Admit!CandType]
    <3>1. \A x \in Admit!CandType : [x EXCEPT !.stage = s] \in Admit!CandType
      BY DEF Admit!CandType
    <3> QED BY <2>1, <2>2, <3>1
  <2> QED BY <1>1, <2>1, <2>2
<1>3. Admit!RowsAreTyped'
  BY <1>1, <1>2 DEF Admit!SoundAdmission, Admit!RowsAreTyped
<1>4. AdmitMoves
  BY <1>1 DEF AdmitMoves, Admit!SoundAdmission, Admit!RowsAreWritten
<1> QED BY <1>3, <1>4, AdmitQuiet

\* Only one request is between the locks and the commit.
LEMMA AdmitAlone ==
    ASSUME Admit!SoundAdmission, NEW r \in Starts, v7 \in {r, Admit!Free}
    PROVE  \A q \in Starts \ {r} : v5[q].pc \notin {"account", "upsert"}
BY AdmitAssumption DEF Admit!SoundAdmission, Admit!RevisionIsHeld, Admit!Free

LEMMA AdmitLockRevision ==
    ASSUME Admit!SoundAdmission, NEW r \in Starts, Admit!LockRevision(r)
    PROVE  Admit!SoundAdmission'
<1>1. /\ v1' = v1 /\ v2' = v2 /\ v3' = v3 /\ v4' = v4 /\ v8' = v8 /\ v7 = Admit!Free /\ v7' = r
      /\ v5' = [v5 EXCEPT ![r].pc = "account"]
  BY DEF Admit!LockRevision, Admit!Goto
<1>2. /\ v5' \in [Starts -> Admit!RequestType] /\ v5'[r].pc = "account"
      /\ \A q \in Starts \ {r} : v5'[q] = v5[q]
  BY <1>1, AdmitFacts DEF Admit!RequestType
<1>3. Admit!RowsAreTyped'
  BY <1>1, <1>2 DEF Admit!SoundAdmission, Admit!RowsAreTyped
<1>4. Admit!RowsAreWritten' /\ Admit!RevisionIsHeld' /\ Admit!AcceptanceStands'
  BY <1>1, <1>2, AdmitAlone
     DEF Admit!SoundAdmission, Admit!RowsAreWritten, Admit!RevisionIsHeld, Admit!AcceptanceStands
<1> QED BY <1>1, <1>3, <1>4 DEF Admit!SoundAdmission, Admit!OneDeploymentPerAccount

\* The account is looked at under both locks.
LEMMA AdmitLockAccount ==
    ASSUME Admit!SoundAdmission, NEW r \in Starts, Admit!LockAccount(r)
    PROVE  Admit!SoundAdmission'
<1>1. /\ v1' = v1 /\ v2' = v2 /\ v3' = v3 /\ v4' = v4 /\ v5[r].pc = "account" /\ v7 = r
  BY DEF Admit!LockAccount, Admit!At, Admit!SoundAdmission, Admit!RevisionIsHeld
<1>2. CASE Admit!Accepts(r)
  <2>1. v8' = [v8 EXCEPT ![v5[r].id.acct] = r] /\ v5' = [v5 EXCEPT ![r].pc = "upsert"] /\ v7' = v7
    BY <1>2 DEF Admit!LockAccount, Admit!Goto
  <2>2. /\ v5' \in [Starts -> Admit!RequestType] /\ v5'[r].pc = "upsert" /\ v5'[r].id = v5[r].id
        /\ v5'[r].version = v5[r].version /\ \A q \in Starts \ {r} : v5'[q] = v5[q]
    BY <2>1, AdmitFacts DEF Admit!RequestType
  <2>3. v8' \in [Accounts -> Starts \cup {Admit!Free}] /\ v8'[v5[r].id.acct] = r
    BY <2>1, AdmitFacts
  <2>4. Admit!RowsAreTyped'
    BY <1>1, <2>2, <2>3 DEF Admit!SoundAdmission, Admit!RowsAreTyped
  <2>5. Admit!Accepts(r)'
    BY <1>1, <1>2, <2>2 DEF Admit!Accepts, Admit!Collides
  <2>6. Admit!RowsAreWritten' /\ Admit!RevisionIsHeld' /\ Admit!AcceptanceStands'
    BY <1>1, <2>1, <2>2, <2>3, <2>5, AdmitAlone
       DEF Admit!SoundAdmission, Admit!RowsAreWritten, Admit!RevisionIsHeld, Admit!AcceptanceStands
  <2> QED BY <1>1, <2>4, <2>6 DEF Admit!SoundAdmission, Admit!OneDeploymentPerAccount
<1>3. CASE ~Admit!Accepts(r)
  <2>1. v8' = v8 /\ v5' = [v5 EXCEPT ![r].pc = "done"]
    BY <1>3 DEF Admit!LockAccount, Admit!Rejected, Admit!Finish, Admit!Goto
  <2>2. /\ v5' \in [Starts -> Admit!RequestType] /\ v5'[r].pc = "done"
        /\ \A q \in Starts \ {r} : v5'[q] = v5[q]
    BY <2>1, AdmitFacts DEF Admit!RequestType
  <2>3. Admit!RowsAreTyped'
    BY <1>1, <2>1, <2>2 DEF Admit!SoundAdmission, Admit!RowsAreTyped
  <2>4. Admit!RowsAreWritten' /\ Admit!RevisionIsHeld' /\ Admit!AcceptanceStands'
    BY <1>1, <2>2, AdmitAlone
       DEF Admit!SoundAdmission, Admit!RowsAreWritten, Admit!RevisionIsHeld, Admit!AcceptanceStands
  <2> QED BY <1>1, <2>3, <2>4 DEF Admit!SoundAdmission, Admit!OneDeploymentPerAccount
<1> QED BY <1>2, <1>3

\* What the commit of the start writes.
LEMMA AdmitUpsertWrites ==
    ASSUME Admit!SoundAdmission, NEW r \in Starts, Admit!Upsert(r)
    PROVE  /\ v1' = v1 /\ v3' = v3 /\ v4' = v4 /\ v7' = Admit!Free /\ v5[r].pc = "upsert"
           /\ v7 = r /\ Admit!Accepts(r)
           /\ v8' \in [Accounts -> Starts \cup {Admit!Free}]
           /\ v5' \in [Starts -> Admit!RequestType] /\ v5'[r].pc = "check" /\ v5'[r].id = v5[r].id
           /\ \A q \in Starts \ {r} : v5'[q] = v5[q]
           /\ v2' \in [Admit!Identities -> Admit!DepType]
           /\ \A i \in Admit!Identities \ {v5[r].id} : v2'[i] = v2[i]
           /\ v2'[v5[r].id].status \in Admit!Active /\ v2'[v5[r].id].validated = v5[r].version
<1>1. /\ v1' = v1 /\ v3' = v3 /\ v4' = v4 /\ v7' = Admit!Free /\ v5[r].pc = "upsert"
      /\ v8' = [v8 EXCEPT ![v5[r].id.acct] = Admit!Free]
      /\ v5' = [v5 EXCEPT ![r].pc = "check"]
      /\ v2' = [v2 EXCEPT ![v5[r].id] =
                  [status |-> IF v2[v5[r].id].status \in Admit!Active THEN v2[v5[r].id].status ELSE "starting",
                   validated |-> v5[r].version]]
  BY DEF Admit!Upsert, Admit!Goto, Admit!At
<1>2. v7 = r /\ Admit!Accepts(r)
  BY <1>1 DEF Admit!SoundAdmission, Admit!RevisionIsHeld, Admit!AcceptanceStands
<1>3. /\ v5' \in [Starts -> Admit!RequestType] /\ v5'[r].pc = "check" /\ v5'[r].id = v5[r].id
      /\ \A q \in Starts \ {r} : v5'[q] = v5[q]
  BY <1>1, AdmitFacts DEF Admit!RequestType
<1>4. v8' \in [Accounts -> Starts \cup {Admit!Free}]
  BY <1>1, AdmitFacts
<1>5. \A st \in Admit!Active : [status |-> st, validated |-> v5[r].version] \in Admit!DepType
  BY AdmitFacts DEF Admit!DepType, Admit!Active
<1>6. /\ v2' \in [Admit!Identities -> Admit!DepType]
      /\ \A i \in Admit!Identities \ {v5[r].id} : v2'[i] = v2[i]
      /\ v2'[v5[r].id].status \in Admit!Active /\ v2'[v5[r].id].validated = v5[r].version
  <2>1. PICK st \in Admit!Active :
          v2' = [v2 EXCEPT ![v5[r].id] = [status |-> st, validated |-> v5[r].version]]
    BY <1>1 DEF Admit!Active
  <2> QED BY <1>5, <2>1, AdmitFacts
<1> QED BY <1>1, <1>2, <1>3, <1>4, <1>6

LEMMA AdmitUpsert ==
    ASSUME Admit!SoundAdmission, NEW r \in Starts, Admit!Upsert(r)
    PROVE  Admit!SoundAdmission'
<1>1. Admit!RowsAreTyped'
  BY AdmitUpsertWrites DEF Admit!SoundAdmission, Admit!RowsAreTyped
<1>2. Admit!RevisionIsHeld' /\ Admit!AcceptanceStands'
  BY AdmitUpsertWrites, AdmitAlone DEF Admit!RevisionIsHeld, Admit!AcceptanceStands
<1>3. Admit!RowsAreWritten'
  BY AdmitUpsertWrites, AdmitFacts DEF Admit!SoundAdmission, Admit!RowsAreWritten, Admit!Active
<1>4. Admit!OneDeploymentPerAccount'
  <2>1. ~Admit!Collides(v5[r].id) /\ v5[r].id \in Admit!Identities
    BY AdmitUpsertWrites, AdmitFacts DEF Admit!Accepts
  <2>2. \A i \in Admit!Identities : i.acct = v5[r].id.acct /\ v2'[i] # Admit!NoDep => i = v5[r].id
    BY <2>1, AdmitUpsertWrites DEF Admit!Collides
  <2> QED
    BY <2>1, <2>2, AdmitUpsertWrites DEF Admit!SoundAdmission, Admit!OneDeploymentPerAccount
<1> QED BY <1>1, <1>2, <1>3, <1>4 DEF Admit!SoundAdmission

LEMMA AdmitStep ==
    ASSUME Admit!SoundAdmission, [Admit!Next]_(Admit!vars)
    PROVE  Admit!SoundAdmission'
<1>1. CASE UNCHANGED Admit!vars
  <2>1. Admit!RowsAreTyped'
    BY <1>1 DEF Admit!vars, Admit!SoundAdmission, Admit!RowsAreTyped
  <2>2. AdmitMoves
    BY <1>1 DEF Admit!vars, AdmitMoves, Admit!SoundAdmission, Admit!RowsAreWritten
  <2> QED BY <2>1, <2>2, AdmitQuiet
<1>2. CASE Admit!Next
  BY <1>2, AdmitRequests, AdmitStatus, AdmitAccounts, AdmitStages, AdmitLockRevision,
     AdmitLockAccount, AdmitUpsert
     DEF Admit!Next
<1> QED BY <1>1, <1>2

\* The action properties: only the commit of a start stamps a row or brings it to
\* "starting", and only archive takes an account out of "active".
LEMMA AdmitActions ==
    ASSUME Admit!SoundAdmission, [Admit!Next]_(Admit!vars)
    PROVE  Admit!StartOrArchive /\ Admit!StampIsCurrent
<1>1. ASSUME NEW r \in Starts, Admit!Upsert(r)
      PROVE  Admit!StartOrArchive /\ Admit!StampIsCurrent
  BY <1>1, AdmitUpsertWrites DEF Admit!StartOrArchive, Admit!StampIsCurrent, Admit!Accepts
<1>2. ASSUME v2' = v2, v1' = v1
      PROVE  Admit!StartOrArchive /\ Admit!StampIsCurrent
  BY <1>2 DEF Admit!StartOrArchive, Admit!StampIsCurrent
<1>3. ASSUME NEW i \in Admit!Identities, NEW st \in {"failed", "stopped", "running"},
             v2' = [v2 EXCEPT ![i].status = st], v1' = v1
      PROVE  Admit!StartOrArchive /\ Admit!StampIsCurrent
  <2>1. v2 \in [Admit!Identities -> Admit!DepType] /\ v2[i] \in Admit!DepType
    BY DEF Admit!SoundAdmission, Admit!RowsAreTyped
  <2>2. [v2[i] EXCEPT !.status = st].validated = v2[i].validated /\ [v2[i] EXCEPT !.status = st].status = st
    BY <2>1 DEF Admit!DepType
  <2>3. v2'[i].validated = v2[i].validated /\ v2'[i].status = st
        /\ \A j \in Admit!Identities \ {i} : v2'[j] = v2[j]
    BY <1>3, <2>1, <2>2
  <2> QED BY <1>3, <2>3 DEF Admit!StartOrArchive, Admit!StampIsCurrent
<1>4. ASSUME NEW a \in Accounts, Admit!archive(a) \/ Admit!rotate(a)
      PROVE  Admit!StartOrArchive /\ Admit!StampIsCurrent
  <2>1. v1 \in [Accounts -> Admit!AccountType] /\ v1[a] \in Admit!AccountType
    BY DEF Admit!SoundAdmission, Admit!RowsAreTyped
  <2>2. v2' = v2 /\ v1[a].status = "active"
    BY <1>4 DEF Admit!archive, Admit!rotate
  <2>3. \A i \in Admit!Identities : i.acct \in Accounts
    BY DEF Admit!Identities
  <2>4. CASE Admit!archive(a)
    <3>1. /\ \A b \in Accounts \ {a} : v1'[b] = v1[b]
          /\ \A i \in Admit!Identities : i.acct = a => v2[i].status \notin Admit!Active
      BY <2>1, <2>4 DEF Admit!archive
    <3> QED BY <2>2, <2>3, <3>1 DEF Admit!StartOrArchive, Admit!StampIsCurrent
  <2>5. CASE Admit!rotate(a)
    <3>1. (\A b \in Accounts \ {a} : v1'[b] = v1[b]) /\ v1'[a].status = "active"
      BY <2>1, <2>2, <2>5 DEF Admit!rotate, Admit!AccountType
    <3> QED BY <2>2, <2>3, <3>1 DEF Admit!StartOrArchive, Admit!StampIsCurrent
  <2> QED BY <1>4, <2>4, <2>5
<1>5. CASE UNCHANGED Admit!vars
  BY <1>2, <1>5 DEF Admit!vars
<1>6. ASSUME NEW r \in Starts,
             \/ Admit!Resolve(r) \/ Admit!Preflight(r) \/ Admit!ValidateCredentials(r)
             \/ Admit!LinkCandidate(r) \/ Admit!LockRevision(r) \/ Admit!LockAccount(r)
      PROVE  Admit!StartOrArchive /\ Admit!StampIsCurrent
  BY <1>2, <1>6 DEF Admit!Resolve, Admit!Preflight, Admit!ValidateCredentials,
     Admit!LinkCandidate, Admit!LockRevision, Admit!LockAccount
<1>7. ASSUME NEW r \in Starts, Admit!CheckActive(r) \/ Admit!StartFails(r) \/ Admit!Publish(r)
      PROVE  Admit!StartOrArchive /\ Admit!StampIsCurrent
  BY <1>2, <1>3, <1>7, AdmitFacts DEF Admit!CheckActive, Admit!StartFails, Admit!Publish
<1>8. ASSUME NEW i \in Admit!Identities, Admit!Stop(i)
      PROVE  Admit!StartOrArchive /\ Admit!StampIsCurrent
  BY <1>3, <1>8 DEF Admit!Stop
<1>9. ASSUME NEW e \in Editors,
             \/ \E c \in Linkable : Admit!ReadStage(e, c)
             \/ \E s \in Admit!Stages : Admit!WriteStage(e, s)
      PROVE  Admit!StartOrArchive /\ Admit!StampIsCurrent
  BY <1>2, <1>9 DEF Admit!ReadStage, Admit!WriteStage
<1> QED BY <1>1, <1>4, <1>5, <1>6, <1>7, <1>8, <1>9 DEF Admit!Next

\* Any number of starts, archivings, rotations and stage changes: a start commits only on an
\* account that is active then, stamps only its current credentials, never meets another
\* identity's deployment, and no account is archived under an active deployment.
THEOREM AdmissionIsSound == Spec => AdmissionHolds
<1> DEFINE Inv == part = "Admit" => Admit!SoundAdmission
           Safe == part = "Admit" => Admit!OneDeploymentPerAccount
           Acts == part = "Admit" => Admit!StartOrArchive /\ Admit!StampIsCurrent
<1>1. Init => Inv
  BY AdmitStart DEF Init
<1>2. ASSUME [Next]_pool, part' = "Admit" PROVE part = "Admit" /\ [Admit!Next]_(Admit!vars)
  BY <1>2 DEF Next, pool, Rest4, Rest5, Rest6, Rest7, Rest8, Rest9, Rest10, Admit!vars
<1>3. Inv /\ [Next]_pool => Inv'
  BY <1>2, AdmitStep
<1>4. Inv => Safe
  BY DEF Admit!SoundAdmission
<1>5. Inv /\ [Next]_pool => [Acts]_pool
  <2>1. ASSUME [Next]_pool PROVE part' = part
    BY <2>1 DEF Next, pool
  <2> QED BY <1>2, <2>1, AdmitActions
<1> QED BY <1>1, <1>3, <1>4, <1>5, PTL DEF Spec, AdmissionHolds

-----------------------------------------------------------------------------
(* BrokerAccounts.  v1: row, v2: secrets, v3: creator, v4: operator,         *)
(* v5: lock, v6: Slots, v7: versions, v8: faults.                            *)

\* The part's own copies of the operators on finite sets are those of FiniteSets.
LEMMA BrokerCounts == \A S : /\ Broker!Cardinality(S) = Cardinality(S)
                             /\ Broker!IsFiniteSet(S) <=> IsFiniteSet(S)
<1>1. \A S : Broker!Cardinality(S) = Cardinality(S)
  BY Zenon DEF Broker!Cardinality, Cardinality
<1>2. \A S : Broker!IsFiniteSet(S) <=> IsFiniteSet(S)
  BY Zenon DEF Broker!IsFiniteSet, IsFiniteSet
<1> QED BY <1>1, <1>2

LEMMA BrokerFacts ==
    ASSUME Broker!SoundAccounts
    PROVE  /\ Broker!Ids = Creators \cup {Legacy} /\ Legacy \in Broker!Ids
           /\ v1 \in [Broker!Ids -> Broker!RowType] /\ v3 \in [Creators -> Broker!CreatorType]
           /\ v4 \in [Operators -> Broker!OperatorType]
           /\ v5 \in [Broker!Ids -> Operators \cup {"free"}]
           /\ v2 \subseteq (Creators \cup Operators) \X Nat /\ v7 \in Nat /\ v8 \in Nat /\ IsFiniteSet(v6)
           /\ \A i \in Broker!Ids : v1[i] \in Broker!RowType
           /\ \A k \in Creators : v3[k] \in Broker!CreatorType /\ v3[k].version \in Nat
           /\ \A o \in Operators : v4[o] \in Broker!OperatorType /\ v4[o].acct \in Broker!Ids
<1>1. /\ v1 \in [Broker!Ids -> Broker!RowType] /\ v3 \in [Creators -> Broker!CreatorType]
      /\ v4 \in [Operators -> Broker!OperatorType]
      /\ v5 \in [Broker!Ids -> Operators \cup {"free"}]
      /\ v2 \subseteq (Creators \cup Operators) \X Nat /\ v7 \in Nat /\ v8 \in Nat /\ IsFiniteSet(v6)
  BY BrokerCounts DEF Broker!SoundAccounts, Broker!RecordsAreTyped
<1>2. Broker!Ids = Creators \cup {Legacy} /\ Legacy \in Broker!Ids
  BY DEF Broker!Ids
<1>3. /\ \A c \in Broker!CreatorType : c.version \in Nat
      /\ \A c \in Broker!OperatorType : c.acct \in Broker!Ids
  BY DEF Broker!CreatorType, Broker!OperatorType
<1>4. /\ \A i \in Broker!Ids : v1[i] \in Broker!RowType
      /\ \A k \in Creators : v3[k] \in Broker!CreatorType
      /\ \A o \in Operators : v4[o] \in Broker!OperatorType
  BY <1>1
<1> QED BY <1>1, <1>2, <1>3, <1>4

LEMMA BrokerStart == Broker!Init => Broker!SoundAccounts
<1> SUFFICES ASSUME Broker!Init PROVE Broker!SoundAccounts
  OBVIOUS
<1>1. PICK ib \in IbAccounts, s \in v6 :
        v1 = [i \in Broker!Ids |-> IF i = Legacy
                THEN [status |-> "active", ib |-> ib, slot |-> s, ref |-> "env", version |-> 0]
                ELSE Broker!NoRow]
  <2>1. (CHOOSE ib \in IbAccounts : TRUE) \in IbAccounts /\ (CHOOSE s \in v6 : TRUE) \in v6
    BY BrokerAssumption DEF Broker!Init
  <2> QED BY <2>1 DEF Broker!Init, Broker!EnvRef
<1> DEFINE legacy == [status |-> "active", ib |-> ib, slot |-> s, ref |-> "env", version |-> 0]
<1>2. Broker!NoRow \in Broker!RowType /\ legacy \in Broker!RowType /\ Broker!NoRow.status = "none"
  BY DEF Broker!NoRow, Broker!RowType, Broker!Refs, Broker!EnvRef
<1>3. /\ v1[Legacy] = legacy /\ \A k \in Creators : v1[k] = Broker!NoRow
      /\ v1 \in [Broker!Ids -> Broker!RowType]
  BY <1>1, <1>2, BrokerAssumption DEF Broker!Ids
<1>4. v3 \in [Creators -> Broker!CreatorType] /\ \A k \in Creators : v3[k].pc = "idle"
  <2>1. [pc |-> "idle", ib |-> "-", slot |-> "-", tried |-> 0, version |-> 0] \in Broker!CreatorType
    BY DEF Broker!CreatorType
  <2> QED BY <2>1 DEF Broker!Init
<1>5. v4 \in [Operators -> Broker!OperatorType] /\ \A o \in Operators : v4[o].pc = "idle"
  <2>1. [pc |-> "idle", acct |-> Legacy, seen |-> Broker!NoRow, ref |-> "-"] \in Broker!OperatorType
    BY <1>2 DEF Broker!OperatorType, Broker!Refs, Broker!Ids
  <2> QED BY <2>1 DEF Broker!Init
<1>6. Broker!RecordsAreTyped
  <2>1. v2 \subseteq (Creators \cup Operators) \X Nat /\ v7 \in Nat /\ v8 \in Nat /\ IsFiniteSet(v6)
    BY BrokerAssumption DEF Broker!Init
  <2>2. v5 \in [Broker!Ids -> Operators \cup {"free"}]
    BY DEF Broker!Init
  <2> QED BY <1>3, <1>4, <1>5, <2>1, <2>2, BrokerCounts DEF Broker!RecordsAreTyped
<1>7. Broker!RefsAreOwn
  BY <1>2, <1>3, BrokerAssumption DEF Broker!RefsAreOwn, Broker!EnvRef
<1>8. Broker!PinnedIsStored
  BY <1>2, <1>3 DEF Broker!PinnedIsStored, Broker!Live, Broker!Ids, Broker!EnvRef
<1>9. Broker!SecretsAreOwed /\ Broker!TriesAreCounted
  BY <1>4 DEF Broker!Init, Broker!SecretsAreOwed, Broker!TriesAreCounted, Broker!CreatorHasTried
<1>10. \A k \in Creators : Broker!CreatorIsInStep(k)
  BY <1>3, <1>4 DEF Broker!CreatorIsInStep
<1>11. \A o \in Operators : Broker!OperatorIsInStep(o)
  BY <1>5 DEF Broker!OperatorIsInStep
<1> QED BY <1>6, <1>7, <1>8, <1>9, <1>10, <1>11 DEF Broker!SoundAccounts

\* Live rows stay, with their slot and their account, as long as nothing is archived.
BrokerGrows ==
    /\ v6' = v6 /\ (v8' = 0 => v8 = 0)
    /\ (\A i \in Broker!Ids : v1'[i].status # "archived")
         => \A i \in Broker!Ids : /\ v1[i].status # "archived"
                                  /\ v1[i].status = "active" => /\ v1'[i].status = "active"
                                                                /\ v1'[i].slot = v1[i].slot
                                                                /\ v1'[i].ib = v1[i].ib

LEMMA BrokerTaken ==
    ASSUME Broker!SoundAccounts, BrokerGrows, \A i \in Broker!Ids : v1'[i].status # "archived"
    PROVE  /\ Broker!Taken \subseteq Broker!Taken' /\ IsFiniteSet(Broker!Taken) /\ IsFiniteSet(Broker!Taken')
           /\ Cardinality(Broker!Taken) <= Cardinality(Broker!Taken')
           /\ Cardinality(Broker!Taken) \in Nat /\ Cardinality(Broker!Taken') \in Nat
           /\ \A s : /\ Cardinality(Broker!Taken \ {s}) <= Cardinality(Broker!Taken' \ {s})
                     /\ Cardinality(Broker!Taken \ {s}) \in Nat /\ Cardinality(Broker!Taken' \ {s}) \in Nat
<1>1. Broker!Taken \subseteq Broker!Taken' /\ Broker!Taken' \subseteq v6 /\ Broker!Taken \subseteq v6
  BY DEF BrokerGrows, Broker!Taken, Broker!Live
<1>2. IsFiniteSet(v6) /\ IsFiniteSet(Broker!Taken')
  BY <1>1, BrokerFacts, FS_Subset
<1>3. \A S, T : S \subseteq T /\ T \subseteq v6
                  => Cardinality(S) <= Cardinality(T) /\ Cardinality(S) \in Nat /\ Cardinality(T) \in Nat
  <2> SUFFICES ASSUME NEW S, NEW T, S \subseteq T, T \subseteq v6
               PROVE  Cardinality(S) <= Cardinality(T) /\ Cardinality(S) \in Nat /\ Cardinality(T) \in Nat
    OBVIOUS
  <2>1. IsFiniteSet(T) /\ IsFiniteSet(S) /\ Cardinality(S) <= Cardinality(T)
    BY <1>2, FS_Subset
  <2> QED BY <2>1, FS_CardinalityType
<1>4. \A s : Broker!Taken \ {s} \subseteq Broker!Taken' \ {s} /\ Broker!Taken' \ {s} \subseteq v6
  BY <1>1
<1>5. IsFiniteSet(Broker!Taken)
  BY <1>1, <1>2, FS_Subset
<1>6. /\ Cardinality(Broker!Taken) <= Cardinality(Broker!Taken')
      /\ Cardinality(Broker!Taken) \in Nat /\ Cardinality(Broker!Taken') \in Nat
  BY <1>1, <1>3
<1>7. ASSUME NEW s PROVE /\ Cardinality(Broker!Taken \ {s}) <= Cardinality(Broker!Taken' \ {s})
                         /\ Cardinality(Broker!Taken \ {s}) \in Nat /\ Cardinality(Broker!Taken' \ {s}) \in Nat
  BY <1>3, <1>4
<1> QED BY <1>1, <1>2, <1>5, <1>6, <1>7

LEMMA BrokerTries ==
    ASSUME Broker!SoundAccounts, BrokerGrows, \A i \in Broker!Ids : v1'[i].status # "archived",
           NEW k \in Creators, v3'[k] = v3[k], v1'[k] = Broker!NoRow => v1[k] = Broker!NoRow
    PROVE  Broker!CreatorHasTried(k)'
<1>1. Broker!CreatorHasTried(k)
  BY DEF BrokerGrows, Broker!SoundAccounts, Broker!TriesAreCounted
<1>2. v3[k].tried \in Nat
  BY BrokerFacts DEF Broker!CreatorType
<1>3. ASSUME v3[k].pc = "slot" PROVE v3[k].tried <= Cardinality(Broker!Taken')
  <2>1. v3[k].tried <= Cardinality(Broker!Taken)
    BY <1>1, <1>3, BrokerCounts DEF Broker!CreatorHasTried
  <2>2. /\ Cardinality(Broker!Taken) \in Nat /\ Cardinality(Broker!Taken') \in Nat
        /\ Cardinality(Broker!Taken) <= Cardinality(Broker!Taken')
    BY BrokerTaken
  <2> QED BY <1>2, <2>1, <2>2
<1>4. ASSUME v3[k].pc = "insert"
      PROVE  v3[k].slot \in v6 /\ v3[k].tried <= 1 + Cardinality(Broker!Taken' \ {v3[k].slot})
  <2> DEFINE s == v3[k].slot
  <2>1. s \in v6 /\ v3[k].tried <= 1 + Cardinality(Broker!Taken \ {s})
    BY <1>1, <1>4, BrokerCounts DEF Broker!CreatorHasTried
  <2>2. /\ Cardinality(Broker!Taken \ {s}) \in Nat /\ Cardinality(Broker!Taken' \ {s}) \in Nat
        /\ Cardinality(Broker!Taken \ {s}) <= Cardinality(Broker!Taken' \ {s})
    BY BrokerTaken
  <2> QED BY <1>2, <2>1, <2>2
<1>5. ASSUME v3[k].pc \in {"cleanup", "done"}, v1'[k] = Broker!NoRow, v8' = 0
      PROVE  v6 \subseteq Broker!Taken' \/ \E i \in Broker!Live' : v1'[i].ib = v3[k].ib
  <2>1. v6 \subseteq Broker!Taken \/ \E i \in Broker!Live : v1[i].ib = v3[k].ib
    BY <1>1, <1>5 DEF Broker!CreatorHasTried, BrokerGrows
  <2> QED BY <2>1, BrokerTaken DEF BrokerGrows, Broker!Live
<1>6. v6' = v6 /\ Broker!NoRow' = Broker!NoRow
  BY DEF BrokerGrows, Broker!NoRow
<1> QED BY <1>3, <1>4, <1>5, <1>6, BrokerCounts DEF Broker!CreatorHasTried

\* What a step of a creator may do: its own row, not yet live, its own secrets.
BrokerCreates(k) ==
    /\ v1' = [v1 EXCEPT ![k] = v1'[k]] /\ v1'[k] \in Broker!RowType
    /\ v1[k].status \in {"none", "inserted"} /\ v1'[k].status # "archived"
    /\ v1'[k].status # "none" => v1'[k].ref = k
    /\ v1'[k].status = "active" => <<k, v1'[k].version>> \in v2'
    /\ v2' \subseteq (Creators \cup Operators) \X Nat
    /\ \A s \in (Creators \cup Operators) \X Nat : s[1] # k => (s \in v2 <=> s \in v2')
    /\ v3' = [v3 EXCEPT ![k] = v3'[k]] /\ v3'[k] \in Broker!CreatorType
    /\ v4' = v4 /\ v5' = v5 /\ v6' = v6 /\ v7' \in Nat /\ v8' \in Nat /\ (v8' = 0 => v8 = 0)
    /\ v8' = 0 => \A s \in v2' : s[1] = k => \/ v3'[k].pc \in {"slot", "insert", "commit", "cleanup"}
                                             \/ v1'[k].status = "active"

LEMMA BrokerCreator ==
    ASSUME Broker!SoundAccounts, NEW k \in Creators, BrokerCreates(k), Broker!CreatorIsInStep(k)',
           (\A i \in Broker!Ids : v1'[i].status # "archived") => Broker!CreatorHasTried(k)'
    PROVE  Broker!SoundAccounts'
<1>1. /\ k \in Broker!Ids /\ k # Legacy /\ k \notin Operators /\ k # "env"
      /\ \A i \in Broker!Ids \ {k} : v1'[i] = v1[i]
      /\ \A j \in Creators \ {k} : v3'[j] = v3[j]
      /\ Broker!NoRow' = Broker!NoRow /\ Broker!Ids' = Broker!Ids
  BY BrokerFacts, BrokerAssumption DEF BrokerCreates, Broker!NoRow, Broker!Ids
<1>2. Broker!RecordsAreTyped'
  <2>1. v1' \in [Broker!Ids -> Broker!RowType'] /\ v3' \in [Creators -> Broker!CreatorType']
        /\ v4' \in [Operators -> Broker!OperatorType']
    BY BrokerFacts, SMTT(30) DEF BrokerCreates, Broker!RowType, Broker!CreatorType, Broker!OperatorType
  <2> QED BY <1>1, <2>1, BrokerFacts, BrokerCounts DEF BrokerCreates, Broker!RecordsAreTyped
<1>3. Broker!RefsAreOwn'
  BY <1>1, BrokerFacts DEF BrokerCreates, Broker!SoundAccounts, Broker!RefsAreOwn, Broker!EnvRef
<1>4. \A i \in Broker!Ids \ {k} : v1[i].status # "none" => v1[i].ref # k
  BY <1>1, BrokerFacts DEF Broker!SoundAccounts, Broker!RefsAreOwn, Broker!EnvRef
<1>5. Broker!PinnedIsStored'
  <2> SUFFICES ASSUME NEW i \in Broker!Ids, v1'[i].status = "active", v1'[i].ref # "env"
               PROVE  <<v1'[i].ref, v1'[i].version>> \in v2'
    BY <1>1 DEF Broker!PinnedIsStored, Broker!Live, Broker!EnvRef
  <2>1. CASE i = k
    BY <2>1 DEF BrokerCreates
  <2>2. CASE i # k
    <3>1. <<v1[i].ref, v1[i].version>> \in v2 /\ v1[i].ref # k
      BY <1>1, <1>4, <2>2 DEF Broker!SoundAccounts, Broker!PinnedIsStored, Broker!Live, Broker!EnvRef
    <3>2. <<v1[i].ref, v1[i].version>> \in (Creators \cup Operators) \X Nat
      BY <3>1, BrokerFacts
    <3> QED BY <1>1, <2>2, <3>1, <3>2 DEF BrokerCreates
  <2> QED BY <2>1, <2>2
<1>6. Broker!SecretsAreOwed'
  <2> SUFFICES ASSUME v8' = 0, NEW s \in v2' PROVE Broker!Owed(s[1])'
    BY DEF Broker!SecretsAreOwed
  <2>1. CASE s[1] = k
    BY <1>1, <2>1 DEF BrokerCreates, Broker!Owed, Broker!Live
  <2>2. CASE s[1] # k
    <3>1. s \in v2 /\ v8 = 0
      BY <2>2 DEF BrokerCreates
    <3>2. Broker!Owed(s[1])
      BY <3>1 DEF Broker!SoundAccounts, Broker!SecretsAreOwed
    <3>3. \A i \in Broker!Live : i \in Broker!Live' /\ v1'[i] = v1[i]
      BY <1>1 DEF BrokerCreates, Broker!Live
    <3> QED BY <1>1, <2>2, <3>2, <3>3 DEF BrokerCreates, Broker!Owed
  <2> QED BY <2>1, <2>2
<1>7. Broker!TriesAreCounted'
  <2> SUFFICES ASSUME \A i \in Broker!Ids : v1'[i].status # "archived", NEW j \in Creators
               PROVE  Broker!CreatorHasTried(j)'
    BY <1>1 DEF Broker!TriesAreCounted
  <2>1. BrokerGrows
    BY <1>1 DEF BrokerCreates, BrokerGrows
  <2>2. CASE j # k
    <3>1. v1'[j] = v1[j] /\ v3'[j] = v3[j]
      BY <1>1, <2>2, BrokerFacts
    <3> QED BY <2>1, <3>1, BrokerTries
  <2> QED BY <2>2
<1>8. ASSUME NEW j \in Creators PROVE Broker!CreatorIsInStep(j)'
  <2>1. CASE j # k
    <3>1. Broker!CreatorIsInStep(j) /\ v1'[j] = v1[j] /\ v3'[j] = v3[j] /\ v3[j].version \in Nat
      BY <1>1, <2>1, BrokerFacts DEF Broker!SoundAccounts
    <3>2. <<j, v3[j].version>> \in v2 => <<j, v3[j].version>> \in v2'
      BY <2>1, <3>1 DEF BrokerCreates
    <3> QED BY <1>1, <3>1, <3>2 DEF Broker!CreatorIsInStep
  <2> QED BY <2>1
<1>9. ASSUME NEW o \in Operators PROVE Broker!OperatorIsInStep(o)'
  <2> DEFINE i == v4[o].acct
  <2>1. Broker!OperatorIsInStep(o) /\ i \in Broker!Ids
    BY BrokerFacts DEF Broker!SoundAccounts
  <2>2. /\ v4[o].pc \in {"put", "mark", "commit", "delete"}
             => v1'[i] = v1[i] /\ v1[i].ref # k /\ v4[o].seen.ref = v1[i].ref
        /\ v4[o].pc \in {"rotate", "archive"} => v1'[i] = v1[i]
    BY <1>1, <1>4, <2>1 DEF BrokerCreates, Broker!OperatorIsInStep
  <2>3. v4[o].pc = "commit" => v4[o].ref # k /\ <<v4[o].ref, v4[o].seen.version>> \in v2'
    <3> SUFFICES ASSUME v4[o].pc = "commit" PROVE v4[o].ref # k /\ <<v4[o].ref, v4[o].seen.version>> \in v2'
      OBVIOUS
    <3>1. <<v4[o].ref, v4[o].seen.version>> \in v2 /\ v4[o].ref \in {o, v4[o].seen.ref}
      BY <2>1 DEF Broker!OperatorIsInStep, Broker!RefOf
    <3>2. <<v4[o].ref, v4[o].seen.version>> \in (Creators \cup Operators) \X Nat /\ v4[o].ref # k
      BY <1>1, <2>2, <3>1, BrokerFacts
    <3> QED BY <3>1, <3>2 DEF BrokerCreates
  <2> QED BY <2>1, <2>2, <2>3 DEF BrokerCreates, Broker!OperatorIsInStep, Broker!RefOf, Broker!EnvRef
<1> QED BY <1>2, <1>3, <1>5, <1>6, <1>7, <1>8, <1>9 DEF Broker!SoundAccounts

\* A record with one field replaced.
LEMMA BrokerGoto ==
    ASSUME Broker!SoundAccounts, NEW k \in Creators,
           NEW p \in {"idle", "slot", "insert", "commit", "cleanup", "done"}, v3' = [v3 EXCEPT ![k].pc = p]
    PROVE  /\ v3' = [v3 EXCEPT ![k] = v3'[k]] /\ v3'[k] \in Broker!CreatorType /\ v3'[k].pc = p
           /\ v3'[k].ib = v3[k].ib /\ v3'[k].slot = v3[k].slot /\ v3'[k].tried = v3[k].tried
           /\ v3'[k].version = v3[k].version
<1> DEFINE c == [v3[k] EXCEPT !.pc = p]
<1>1. /\ c \in Broker!CreatorType /\ c.pc = p /\ c.ib = v3[k].ib /\ c.slot = v3[k].slot
      /\ c.tried = v3[k].tried /\ c.version = v3[k].version
  BY BrokerFacts DEF Broker!CreatorType
<1>2. v3'[k] = c /\ v3' = [v3 EXCEPT ![k] = v3'[k]]
  BY BrokerFacts
<1> QED BY <1>1, <1>2

LEMMA BrokerNoRow ==
    /\ Broker!NoRow' = Broker!NoRow /\ Broker!NoRow \in Broker!RowType
    /\ Broker!NoRow.status = "none"
BY DEF Broker!NoRow, Broker!RowType, Broker!Refs

LEMMA BrokerCreate ==
    ASSUME Broker!SoundAccounts, NEW k \in Creators, NEW ib \in IbAccounts, Broker!create(k, ib), v6' = v6
    PROVE  Broker!SoundAccounts'
<1> DEFINE c == [pc |-> "slot", ib |-> ib, slot |-> "-", tried |-> 0, version |-> v7 + 1]
<1>1. /\ v1' = v1 /\ v2' = v2 \cup {<<k, v7 + 1>>} /\ v3' = [v3 EXCEPT ![k] = c] /\ v7' = v7 + 1
      /\ v4' = v4 /\ v5' = v5 /\ v8' = v8 /\ v3[k].pc = "idle"
  BY DEF Broker!create, Broker!Version
<1>2. c \in Broker!CreatorType /\ v3'[k] = c
  BY <1>1, BrokerFacts DEF Broker!CreatorType
<1>3. v1[k] = Broker!NoRow /\ k \in Broker!Ids
  BY <1>1, BrokerFacts DEF Broker!SoundAccounts, Broker!CreatorIsInStep
<1>4. BrokerCreates(k)
  BY <1>1, <1>2, <1>3, BrokerFacts, BrokerNoRow DEF BrokerCreates
<1>5. Broker!CreatorIsInStep(k)'
  BY <1>1, <1>2, <1>3, BrokerNoRow DEF Broker!CreatorIsInStep
<1>6. ASSUME \A i \in Broker!Ids : v1'[i].status # "archived" PROVE Broker!CreatorHasTried(k)'
  <2>1. BrokerGrows
    BY <1>1, <1>6 DEF BrokerGrows
  <2>2. Cardinality(Broker!Taken') \in Nat
    BY <1>6, <2>1, BrokerTaken
  <2> QED BY <1>2, <2>2, BrokerCounts DEF Broker!CreatorHasTried
<1> QED BY <1>4, <1>5, <1>6, BrokerCreator

LEMMA BrokerFreeSlot ==
    ASSUME Broker!SoundAccounts, NEW k \in Creators, Broker!FreeSlot(k), v6' = v6
    PROVE  Broker!SoundAccounts'
<1> DEFINE free == v6 \ {v1[i].slot : i \in Broker!Live}
           full == free = {} \/ v3[k].tried > Cardinality(v6)
           t    == v3[k].tried + 1
           c(s) == [v3[k] EXCEPT !.pc = "insert", !.slot = s, !.tried = t]
<1>1. /\ v1' = v1 /\ v2' = v2 /\ v4' = v4 /\ v5' = v5 /\ v7' = v7 /\ v8' = v8 /\ v3[k].pc = "slot"
      /\ \/ full /\ v3' = [v3 EXCEPT ![k].pc = "cleanup"]
         \/ \E s \in free : v3' = [v3 EXCEPT ![k] = c(s)]
  BY BrokerFacts, BrokerCounts DEF Broker!FreeSlot
<1>2. /\ v1[k] = Broker!NoRow /\ k \in Broker!Ids /\ <<k, v3[k].version>> \in v2
      /\ v3[k].tried \in Nat /\ v3[k] \in Broker!CreatorType
  BY <1>1, BrokerFacts DEF Broker!SoundAccounts, Broker!CreatorIsInStep, Broker!CreatorType
<1>3. /\ v3' = [v3 EXCEPT ![k] = v3'[k]] /\ v3'[k] \in Broker!CreatorType /\ v3'[k].version = v3[k].version
      /\ \/ full /\ v3'[k].pc = "cleanup"
         \/ \E s \in free : v3'[k].pc = "insert" /\ v3'[k].slot = s /\ v3'[k].tried = v3[k].tried + 1
  <2>1. CASE full /\ v3' = [v3 EXCEPT ![k].pc = "cleanup"]
    BY <2>1, BrokerGoto
  <2>2. ASSUME NEW s \in free, v3' = [v3 EXCEPT ![k] = c(s)] PROVE <1>3
    <3>0. t \in Nat /\ s \in v6
      BY <1>2, <2>2
    <3> HIDE DEF t, free
    <3>1. c(s) \in Broker!CreatorType /\ c(s).pc = "insert" /\ c(s).slot = s /\ c(s).tried = t
          /\ c(s).version = v3[k].version
      BY <1>2, <3>0 DEF Broker!CreatorType
    <3>2. v3'[k] = c(s) /\ v3' = [v3 EXCEPT ![k] = v3'[k]]
      BY <2>2, BrokerFacts DEF t
    <3> QED BY <2>2, <3>1, <3>2 DEF t
  <2> QED BY <1>1, <2>1, <2>2
<1>4. BrokerCreates(k)
  BY <1>1, <1>2, <1>3, BrokerFacts, BrokerNoRow DEF BrokerCreates
<1>5. Broker!CreatorIsInStep(k)'
  BY <1>1, <1>2, <1>3, BrokerNoRow DEF Broker!CreatorIsInStep
<1>6. ASSUME \A i \in Broker!Ids : v1'[i].status # "archived" PROVE Broker!CreatorHasTried(k)'
  <2>1. BrokerGrows
    BY <1>1, <1>6 DEF BrokerGrows
  <2>2. v3[k].tried <= Cardinality(Broker!Taken)
    BY <1>1, <1>6, BrokerCounts DEF Broker!SoundAccounts, Broker!TriesAreCounted, Broker!CreatorHasTried
  <2>3. /\ Broker!Taken' = Broker!Taken /\ Broker!Taken \subseteq v6 /\ v6 \ Broker!Taken = free
        /\ Broker!Live' = Broker!Live
    BY <1>1, ZenonT(60) DEF Broker!Taken, Broker!Live
  <2>4. Cardinality(Broker!Taken) \in Nat /\ Cardinality(v6) \in Nat /\ Cardinality(Broker!Taken) <= Cardinality(v6)
    BY <2>3, BrokerFacts, FS_Subset, FS_CardinalityType
  <2>5. CASE full /\ v3'[k].pc = "cleanup"
    <3>1. free = {}
      BY <1>2, <2>2, <2>4, <2>5
    <3> QED BY <2>3, <2>5, <3>1, BrokerCounts DEF Broker!CreatorHasTried
  <2>6. ASSUME NEW s \in free, v3'[k].pc = "insert", v3'[k].slot = s, v3'[k].tried = v3[k].tried + 1
        PROVE  Broker!CreatorHasTried(k)'
    <3>1. Broker!Taken \ {s} = Broker!Taken /\ s \in v6
      BY <2>3
    <3>2. Cardinality(Broker!Taken \ {s}) = Cardinality(Broker!Taken)
      BY <3>1
    <3>3. v3'[k].tried <= 1 + Cardinality(Broker!Taken \ {s})
      BY <1>2, <2>2, <2>4, <2>6, <3>2
    <3> QED BY <2>3, <2>6, <3>1, <3>3, BrokerCounts DEF Broker!CreatorHasTried
  <2> QED BY <1>3, <2>5, <2>6
<1> QED BY <1>4, <1>5, <1>6, BrokerCreator

LEMMA BrokerInsert ==
    ASSUME Broker!SoundAccounts, NEW k \in Creators, Broker!Insert(k), v6' = v6
    PROVE  Broker!SoundAccounts'
<1> DEFINE out == Broker!InsertOutcome(k)
           new == [status |-> "inserted", ib |-> v3[k].ib, slot |-> v3[k].slot, ref |-> k,
                   version |-> v3[k].version]
<1>1. /\ v2' = v2 /\ v4' = v4 /\ v5' = v5 /\ v7' = v7 /\ v8' = v8 /\ v3[k].pc = "insert"
      /\ v3' = [v3 EXCEPT ![k].pc = out]
      /\ v1' = IF out # "commit" THEN v1 ELSE [v1 EXCEPT ![k] = new]
  BY DEF Broker!Insert
<1>2. /\ v1[k] = Broker!NoRow /\ k \in Broker!Ids /\ <<k, v3[k].version>> \in v2 /\ v3[k] \in Broker!CreatorType
      /\ v3[k].tried \in Nat /\ v3[k].version \in Nat
  BY <1>1, BrokerFacts DEF Broker!SoundAccounts, Broker!CreatorIsInStep, Broker!CreatorType
<1>3. /\ out \in {"cleanup", "slot", "commit"}
      /\ out = "cleanup" => \E i \in Broker!Live : v1[i].ib = v3[k].ib
      /\ out = "slot" => \E i \in Broker!Live : v1[i].slot = v3[k].slot
  BY DEF Broker!InsertOutcome
<1>4. /\ v3' = [v3 EXCEPT ![k] = v3'[k]] /\ v3'[k] \in Broker!CreatorType /\ v3'[k].pc = out
      /\ v3'[k].ib = v3[k].ib /\ v3'[k].tried = v3[k].tried /\ v3'[k].version = v3[k].version
  <2> HIDE DEF out
  <2> QED BY <1>1, <1>3, BrokerGoto
<1>5. /\ v1' = [v1 EXCEPT ![k] = v1'[k]] /\ v1'[k] \in Broker!RowType /\ v1'[k].status \in {"none", "inserted"}
      /\ out # "commit" => v1' = v1
      /\ out = "commit" => v1'[k] = new
      /\ \A i \in Broker!Ids \ {k} : v1'[i] = v1[i]
  <2>1. new \in Broker!RowType /\ new.status = "inserted"
    BY <1>2 DEF Broker!RowType, Broker!CreatorType, Broker!Refs
  <2> HIDE DEF new, out
  <2>2. CASE out = "commit"
    BY <1>1, <1>2, <2>1, <2>2, BrokerFacts
  <2>3. CASE out # "commit"
    BY <1>1, <1>2, <2>3, BrokerFacts, BrokerNoRow
  <2> QED BY <2>2, <2>3
<1> HIDE DEF out
<1>6. v1'[k].status # "none" => v1'[k].ref = k
  BY <1>2, <1>5, BrokerNoRow
<1>7. BrokerCreates(k)
  BY <1>1, <1>2, <1>3, <1>4, <1>5, <1>6, BrokerFacts, BrokerNoRow DEF BrokerCreates
<1>8. Broker!CreatorIsInStep(k)'
  BY <1>1, <1>2, <1>3, <1>4, <1>5, BrokerNoRow DEF Broker!CreatorIsInStep
<1>9. ASSUME \A i \in Broker!Ids : v1'[i].status # "archived" PROVE Broker!CreatorHasTried(k)'
  <2>1. BrokerGrows
    BY <1>1, <1>2, <1>5, <1>9, BrokerNoRow DEF BrokerGrows
  <2>2. v3[k].slot \in v6 /\ v3[k].tried <= 1 + Cardinality(Broker!Taken \ {v3[k].slot})
    BY <1>1, <1>9, <2>1, BrokerCounts
       DEF BrokerGrows, Broker!SoundAccounts, Broker!TriesAreCounted, Broker!CreatorHasTried
  <2>3. CASE out = "slot"
    <3>1. v3[k].slot \in Broker!Taken
      BY <1>3, <2>2, <2>3 DEF Broker!Taken
    <3>2. /\ Cardinality(Broker!Taken \ {v3[k].slot}) = Cardinality(Broker!Taken) - 1
          /\ Cardinality(Broker!Taken) \in Nat /\ Cardinality(Broker!Taken') \in Nat
          /\ Cardinality(Broker!Taken) <= Cardinality(Broker!Taken')
      BY <1>9, <2>1, <3>1, BrokerTaken, FS_RemoveElement
    <3>3. v3[k].tried <= Cardinality(Broker!Taken')
      BY <1>2, <2>2, <3>2
    <3> QED BY <1>4, <2>3, <3>3, BrokerCounts DEF Broker!CreatorHasTried
  <2>4. CASE out = "cleanup"
    <3>1. \E i \in Broker!Live' : v1'[i].ib = v3'[k].ib
      BY <1>3, <1>4, <1>5, <2>4 DEF Broker!Live
    <3> QED BY <1>4, <2>4, <3>1 DEF Broker!CreatorHasTried
  <2>5. CASE out = "commit"
    BY <1>4, <2>5 DEF Broker!CreatorHasTried
  <2> QED BY <1>3, <2>3, <2>4, <2>5
<1> QED BY <1>7, <1>8, <1>9, BrokerCreator

LEMMA BrokerCommitCreate ==
    ASSUME Broker!SoundAccounts, NEW k \in Creators, Broker!CommitCreate(k), v6' = v6
    PROVE  Broker!SoundAccounts'
<1> DEFINE new == [v1[k] EXCEPT !.status = "active"]
<1>1. /\ v2' = v2 /\ v4' = v4 /\ v5' = v5 /\ v7' = v7 /\ v3[k].pc = "commit"
      /\ \/ v1' = [v1 EXCEPT ![k].status = "active"] /\ v3' = [v3 EXCEPT ![k].pc = "done"] /\ v8' = v8
         \/ v1' = [v1 EXCEPT ![k] = Broker!NoRow] /\ v3' = [v3 EXCEPT ![k].pc = "cleanup"] /\ v8' = v8 + 1
  BY DEF Broker!CommitCreate, Broker!Fault
<1>2. /\ k \in Broker!Ids /\ <<k, v3[k].version>> \in v2 /\ v1[k] \in Broker!RowType
      /\ v1[k].status = "inserted" /\ v1[k].version = v3[k].version /\ v1[k].ref = k
  BY <1>1, BrokerFacts DEF Broker!SoundAccounts, Broker!CreatorIsInStep, Broker!RefsAreOwn
<1>3. new \in Broker!RowType /\ new.status = "active" /\ new.ref = k /\ new.version = v3[k].version
  BY <1>2 DEF Broker!RowType
<1>4. /\ v3' = [v3 EXCEPT ![k] = v3'[k]] /\ v3'[k] \in Broker!CreatorType /\ v3'[k].version = v3[k].version
      /\ v1' = [v1 EXCEPT ![k] = v1'[k]] /\ \A i \in Broker!Ids \ {k} : v1'[i] = v1[i]
      /\ \/ v1'[k] = new /\ v3'[k].pc = "done" /\ v8' = v8
         \/ v1'[k] = Broker!NoRow /\ v3'[k].pc = "cleanup" /\ v8' = v8 + 1
  <2>1. CASE v1' = [v1 EXCEPT ![k].status = "active"] /\ v3' = [v3 EXCEPT ![k].pc = "done"] /\ v8' = v8
    BY <1>2, <2>1, BrokerFacts, BrokerGoto
  <2>2. CASE v1' = [v1 EXCEPT ![k] = Broker!NoRow] /\ v3' = [v3 EXCEPT ![k].pc = "cleanup"] /\ v8' = v8 + 1
    BY <1>2, <2>2, BrokerFacts, BrokerGoto
  <2> QED BY <1>1, <2>1, <2>2
<1> HIDE DEF new
<1>5. BrokerCreates(k)
  BY <1>1, <1>2, <1>3, <1>4, BrokerFacts, BrokerNoRow DEF BrokerCreates
<1>6. Broker!CreatorIsInStep(k)'
  BY <1>1, <1>2, <1>3, <1>4, BrokerNoRow DEF Broker!CreatorIsInStep
<1>7. Broker!CreatorHasTried(k)'
  BY <1>3, <1>4, BrokerFacts, BrokerNoRow DEF Broker!CreatorHasTried
<1> QED BY <1>5, <1>6, <1>7, BrokerCreator

LEMMA BrokerCleanup ==
    ASSUME Broker!SoundAccounts, NEW k \in Creators, Broker!CleanupCreate(k), v6' = v6
    PROVE  Broker!SoundAccounts'
<1>1. /\ v1' = v1 /\ v4' = v4 /\ v5' = v5 /\ v7' = v7 /\ v3[k].pc = "cleanup"
      /\ v3' = [v3 EXCEPT ![k].pc = "done"]
      /\ \/ v2' = {s \in v2 : s[1] # k} /\ v8' = v8
         \/ v2' = v2 /\ v8' = v8 + 1
  BY DEF Broker!CleanupCreate, Broker!Fault
<1>2. k \in Broker!Ids /\ v1[k] = Broker!NoRow
  BY <1>1, BrokerFacts DEF Broker!SoundAccounts, Broker!CreatorIsInStep
<1>3. /\ v3' = [v3 EXCEPT ![k] = v3'[k]] /\ v3'[k] \in Broker!CreatorType /\ v3'[k].pc = "done"
      /\ v3'[k].ib = v3[k].ib
  BY <1>1, BrokerGoto
<1>4. BrokerCreates(k)
  BY <1>1, <1>2, <1>3, BrokerFacts, BrokerNoRow DEF BrokerCreates
<1>5. Broker!CreatorIsInStep(k)'
  BY <1>1, <1>2, <1>3, BrokerNoRow DEF Broker!CreatorIsInStep
<1>6. ASSUME \A i \in Broker!Ids : v1'[i].status # "archived" PROVE Broker!CreatorHasTried(k)'
  <2>1. v8' = 0 => v8 = 0
    BY <1>1, BrokerFacts
  <2>2. v8 = 0 => v6 \subseteq Broker!Taken \/ \E i \in Broker!Live : v1[i].ib = v3[k].ib
    BY <1>1, <1>2, <1>6 DEF Broker!SoundAccounts, Broker!TriesAreCounted, Broker!CreatorHasTried
  <2>3. Broker!Taken' = Broker!Taken /\ Broker!Live' = Broker!Live
    BY <1>1 DEF Broker!Taken, Broker!Live
  <2> QED BY <1>1, <1>3, <2>1, <2>2, <2>3 DEF Broker!CreatorHasTried
<1> QED BY <1>4, <1>5, <1>6, BrokerCreator

\* No two accounts share a reference, and an operator that is not done has none yet.
LEMMA BrokerRefs ==
    ASSUME Broker!SoundAccounts
    PROVE  /\ \A i, j \in Broker!Ids : v1[i].status # "none" /\ v1[j].status # "none" /\ v1[i].ref = v1[j].ref => i = j
           /\ \A i \in Broker!Ids, o \in Operators : v1[i].status # "none" /\ v1[i].ref = o => v4[o].pc = "done"
BY BrokerFacts, BrokerAssumption DEF Broker!SoundAccounts, Broker!RefsAreOwn, Broker!EnvRef

\* What a step of an operator may do to account a: it changes only a live row that it has
\* locked, promotes a reference only as its last step, and deletes only a reference of its
\* own, which no row has, or an archived account's.
BrokerOperates(o, a) ==
    /\ v1' = [v1 EXCEPT ![a] = v1'[a]] /\ v1'[a] \in Broker!RowType
    /\ \/ v1'[a] = v1[a]
       \/ /\ v1[a].status = "active" /\ v5[a] = o /\ v1'[a].status \in {"active", "archived"}
          /\ v1'[a].slot = v1[a].slot /\ v1'[a].ib = v1[a].ib
          /\ \/ v1'[a].ref = v1[a].ref
             \/ v1[a].ref = "env" /\ v1'[a].ref = o /\ v4'[o].pc = "done"
    /\ v1'[a].status = "active" /\ v1'[a].ref # "env" => <<v1'[a].ref, v1'[a].version>> \in v2'
    /\ v2' \subseteq (Creators \cup Operators) \X Nat
    /\ \A s \in v2 \ v2' : \/ s[1] = o
                           \/ \E j \in Broker!Ids : v1[j].status = "archived" /\ v1[j].ref = s[1]
    /\ v3' = v3
    /\ v4' = [v4 EXCEPT ![o] = v4'[o]] /\ v4'[o] \in Broker!OperatorType /\ v4[o].pc # "done"
    /\ v5' \in [Broker!Ids -> Operators \cup {"free"}]
    /\ \A j \in Broker!Ids : \A p \in Operators \ {o} : v5[j] = p => v5'[j] = p
    /\ v6' = v6 /\ v7' \in Nat /\ v8' \in Nat /\ (v8' = 0 => v8 = 0)

LEMMA BrokerOperator ==
    ASSUME Broker!SoundAccounts, NEW o \in Operators, NEW a \in Broker!Ids, BrokerOperates(o, a),
           Broker!OperatorIsInStep(o)', Broker!SecretsAreOwed'
    PROVE  Broker!SoundAccounts'
<1>1. /\ \A i \in Broker!Ids \ {a} : v1'[i] = v1[i]
      /\ \A p \in Operators \ {o} : v4'[p] = v4[p]
      /\ Broker!NoRow' = Broker!NoRow /\ Broker!Ids' = Broker!Ids
  BY BrokerFacts DEF BrokerOperates, Broker!NoRow, Broker!Ids
<1>2. Broker!RecordsAreTyped'
  <2>1. Broker!RowType' = Broker!RowType /\ Broker!CreatorType' = Broker!CreatorType
        /\ Broker!OperatorType' = Broker!OperatorType
    BY DEF BrokerOperates, Broker!RowType, Broker!CreatorType, Broker!OperatorType, Broker!Refs, Broker!Ids
  <2>2. v1' \in [Broker!Ids -> Broker!RowType] /\ v3' \in [Creators -> Broker!CreatorType]
        /\ v4' \in [Operators -> Broker!OperatorType]
    BY BrokerFacts DEF BrokerOperates
  <2> QED BY <1>1, <2>1, <2>2, BrokerFacts, BrokerCounts DEF BrokerOperates, Broker!RecordsAreTyped
<1>3. Broker!RefsAreOwn'
  <2>1. \A k \in Creators : v1'[k].status # "none" => v1'[k].ref = k
    BY <1>1, BrokerFacts, BrokerAssumption DEF BrokerOperates, Broker!SoundAccounts, Broker!RefsAreOwn
  <2>2. v1'[Legacy].status \in {"active", "archived"} /\ v1'[Legacy].ref \in Operators \cup {"env"}
    BY <1>1, BrokerFacts DEF BrokerOperates, Broker!SoundAccounts, Broker!RefsAreOwn, Broker!EnvRef
  <2>3. \A p \in Operators : v1'[Legacy].ref = p => v4'[p].pc = "done"
    BY <1>1, BrokerFacts, BrokerAssumption DEF BrokerOperates, Broker!SoundAccounts, Broker!RefsAreOwn
  <2> QED BY <2>1, <2>2, <2>3 DEF Broker!RefsAreOwn, Broker!EnvRef
<1>4. ASSUME NEW s \in v2 \ v2', NEW i \in Broker!Ids, v1[i].status \notin {"none", "archived"}
      PROVE  v1[i].ref # s[1]
  <2>1. CASE s[1] = o
    BY <1>4, <2>1, BrokerRefs DEF BrokerOperates
  <2>2. CASE \E j \in Broker!Ids : v1[j].status = "archived" /\ v1[j].ref = s[1]
    BY <1>4, <2>2, BrokerRefs
  <2> QED BY <2>1, <2>2 DEF BrokerOperates
<1>5. Broker!PinnedIsStored'
  <2> SUFFICES ASSUME NEW i \in Broker!Ids, v1'[i].status = "active", v1'[i].ref # "env"
               PROVE  <<v1'[i].ref, v1'[i].version>> \in v2'
    BY <1>1 DEF Broker!PinnedIsStored, Broker!Live, Broker!EnvRef
  <2>1. CASE i = a
    BY <2>1 DEF BrokerOperates
  <2>2. CASE i # a
    <3>1. <<v1[i].ref, v1[i].version>> \in v2
      BY <1>1, <2>2 DEF Broker!SoundAccounts, Broker!PinnedIsStored, Broker!Live, Broker!EnvRef
    <3> QED BY <1>1, <1>4, <2>2, <3>1
  <2> QED BY <2>1, <2>2
<1>6. Broker!TriesAreCounted'
  <2> SUFFICES ASSUME \A i \in Broker!Ids : v1'[i].status # "archived", NEW k \in Creators
               PROVE  Broker!CreatorHasTried(k)'
    BY <1>1 DEF Broker!TriesAreCounted
  <2>1. BrokerGrows
    BY <1>1 DEF BrokerOperates, BrokerGrows
  <2>2. v1'[k] = Broker!NoRow => v1[k] = Broker!NoRow
    BY <1>1, BrokerFacts, BrokerNoRow DEF BrokerOperates
  <2> QED BY <2>1, <2>2, BrokerTries DEF BrokerOperates
<1>7. ASSUME NEW k \in Creators PROVE Broker!CreatorIsInStep(k)'
  <2>1. Broker!CreatorIsInStep(k) /\ v3' = v3 /\ k \in Broker!Ids
    BY BrokerFacts DEF Broker!SoundAccounts, BrokerOperates
  <2>2. v1'[k] = v1[k] \/ (v1[k].status = "active" /\ v1'[k].status \in {"active", "archived"})
    BY <1>1, <2>1 DEF BrokerOperates
  <2>3. ASSUME v3[k].pc \in {"slot", "insert", "commit"} PROVE <<k, v3[k].version>> \in v2'
    <3>1. <<k, v3[k].version>> \in v2 /\ v1[k].status \in {"none", "inserted"}
      BY <2>1, <2>3, BrokerNoRow DEF Broker!CreatorIsInStep
    <3>2. k # o /\ \A j \in Broker!Ids : v1[j].status = "archived" => v1[j].ref # k
      BY <3>1, BrokerFacts, BrokerAssumption DEF Broker!SoundAccounts, Broker!RefsAreOwn, Broker!EnvRef
    <3> QED BY <3>1, <3>2 DEF BrokerOperates
  <2> QED BY <1>1, <2>1, <2>2, <2>3, BrokerNoRow DEF Broker!CreatorIsInStep
<1>8. ASSUME NEW p \in Operators PROVE Broker!OperatorIsInStep(p)'
  <2> SUFFICES ASSUME p # o PROVE Broker!OperatorIsInStep(p)'
    OBVIOUS
  <2> DEFINE i == v4[p].acct
  <2>1. Broker!OperatorIsInStep(p) /\ i \in Broker!Ids /\ v4'[p] = v4[p] /\ v5 \in [Broker!Ids -> Operators \cup {"free"}]
    BY <1>1, BrokerFacts DEF Broker!SoundAccounts
  <2>2. v4[p].pc \in {"put", "mark", "commit", "delete"} => v1'[i] = v1[i]
    BY <1>1, <2>1 DEF BrokerOperates, Broker!OperatorIsInStep
  <2>3. v4[p].pc \in {"put", "mark", "commit"} => v5'[i] = p
    BY <2>1 DEF BrokerOperates, Broker!OperatorIsInStep
  <2>4. ASSUME v4[p].pc = "commit" PROVE <<v4[p].ref, v4[p].seen.version>> \in v2'
    <3>1. /\ <<v4[p].ref, v4[p].seen.version>> \in v2 /\ v4[p].ref \in {p, v1[i].ref}
          /\ v1[i].status = "active"
      BY <2>1, <2>4 DEF Broker!OperatorIsInStep, Broker!RefOf
    <3>2. p # o /\ \A j \in Broker!Ids : v1[j].status = "archived" => v1[j].ref # p
      BY <2>4, BrokerRefs
    <3> QED BY <1>4, <2>1, <3>1, <3>2 DEF BrokerOperates
  <2>5. v4[p].pc \in {"rotate", "archive"} => v1'[i].status \in {"active", "archived"}
    BY <1>1, <2>1 DEF BrokerOperates, Broker!OperatorIsInStep
  <2> QED BY <2>1, <2>2, <2>3, <2>4, <2>5 DEF Broker!OperatorIsInStep, Broker!RefOf, Broker!EnvRef
<1> QED BY <1>2, <1>3, <1>5, <1>6, <1>7, <1>8 DEF Broker!SoundAccounts

\* Who is there for a secret, besides the operator that takes the step.
LEMMA BrokerStillOwed ==
    ASSUME Broker!SoundAccounts, NEW o \in Operators, NEW a \in Broker!Ids, BrokerOperates(o, a), NEW r,
           Broker!Owed(r), v1'[a].status # "active" \/ v1'[a].ref # v1[a].ref => v1[a].ref # r \/ v1[a].status # "active",
           v4[o].pc = "delete" => v4[o].seen.ref # r,
           v4[o].pc = "commit" /\ v4[o].ref = r => r # o
    PROVE  Broker!Owed(r)'
<1>1. /\ \A p \in Operators \ {o} : v4'[p] = v4[p]
      /\ v3' = v3 /\ \A i \in Broker!Ids \ {a} : v1'[i] = v1[i]
  BY BrokerFacts DEF BrokerOperates
<1>2. CASE r \in Creators /\ v3[r].pc \in {"slot", "insert", "commit", "cleanup"}
  BY <1>1, <1>2 DEF Broker!Owed
<1>3. CASE \E i \in Broker!Live : v1[i].ref = r
  <2>1. PICK i \in Broker!Ids : v1[i].status = "active" /\ v1[i].ref = r
    BY <1>3 DEF Broker!Live
  <2>2. v1'[i].status = "active" /\ v1'[i].ref = r
    BY <1>1, <2>1
  <2> QED BY <2>2 DEF Broker!Owed, Broker!Live, Broker!Ids
<1>4. CASE \E p \in Operators : v4[p].pc = "delete" /\ v4[p].seen.ref = r
  BY <1>1, <1>4 DEF Broker!Owed
<1>5. CASE r \in Operators /\ v4[r].pc = "commit" /\ v4[r].ref = r
  BY <1>1, <1>5 DEF Broker!Owed
<1> QED BY <1>2, <1>3, <1>4, <1>5 DEF Broker!Owed

LEMMA BrokerBegin ==
    ASSUME Broker!SoundAccounts, NEW o \in Operators, NEW op \in {"rotate", "archive"}, NEW a \in Broker!Ids,
           Broker!Begin(o, op, a), v6' = v6
    PROVE  Broker!SoundAccounts'
<1> DEFINE n == [pc |-> op, acct |-> a, seen |-> v1[a], ref |-> "-"]
<1>1. /\ v1' = v1 /\ v2' = v2 /\ v3' = v3 /\ v5' = v5 /\ v7' = v7 /\ v8' = v8
      /\ v4' = [v4 EXCEPT ![o] = n] /\ v4[o].pc = "idle"
  BY DEF Broker!Begin
<1>2. n \in Broker!OperatorType /\ v4'[o] = n
  BY <1>1, BrokerFacts DEF Broker!OperatorType, Broker!Refs
<1>3. v4'[o].pc \in {"rotate", "archive"} /\ v4'[o].acct = a /\ v1[a].status = "active"
  BY <1>2 DEF Broker!Begin
<1> HIDE DEF n
<1>4. v1[a].status = "active" /\ v1[a].ref # "env" => <<v1[a].ref, v1[a].version>> \in v2
  BY DEF Broker!SoundAccounts, Broker!PinnedIsStored, Broker!Live, Broker!EnvRef
<1>5. BrokerOperates(o, a)
  BY <1>1, <1>2, <1>4, BrokerFacts DEF BrokerOperates
<1>6. Broker!OperatorIsInStep(o)'
  BY <1>1, <1>3 DEF Broker!OperatorIsInStep
<1>7. Broker!SecretsAreOwed'
  <2> SUFFICES ASSUME v8 = 0, NEW s \in v2 PROVE Broker!Owed(s[1])'
    BY <1>1 DEF Broker!SecretsAreOwed
  <2>1. Broker!Owed(s[1])
    BY DEF Broker!SoundAccounts, Broker!SecretsAreOwed
  <2> QED BY <1>1, <1>5, <2>1, BrokerStillOwed
<1> QED BY <1>5, <1>6, <1>7, BrokerOperator

LEMMA BrokerLock ==
    ASSUME Broker!SoundAccounts, NEW o \in Operators, Broker!Lock(o), v6' = v6
    PROVE  Broker!SoundAccounts'
<1> DEFINE a == v4[o].acct
           p == IF v4[o].pc = "rotate" THEN "put" ELSE "mark"
           n == [v4[o] EXCEPT !.pc = p, !.seen = v1[a]]
           d == [v4[o] EXCEPT !.pc = "done"]
<1>1. a \in Broker!Ids /\ v1[a] \in Broker!RowType /\ v4[o] \in Broker!OperatorType /\ v4[o].pc \in {"rotate", "archive"}
  BY BrokerFacts DEF Broker!Lock
<1>2. /\ v1' = v1 /\ v2' = v2 /\ v3' = v3 /\ v7' = v7 /\ v8' = v8 /\ v5[a] = "free"
      /\ \/ v4' = [v4 EXCEPT ![o] = d] /\ v5' = v5
         \/ v4' = [v4 EXCEPT ![o] = n] /\ v5' = [v5 EXCEPT ![a] = o] /\ v1[a].status # "archived"
  BY <1>1, BrokerFacts DEF Broker!Lock, Broker!RowUnderLock
<1>3. /\ d \in Broker!OperatorType /\ d.pc = "done"
      /\ n \in Broker!OperatorType /\ n.pc \in {"put", "mark"} /\ n.acct = a /\ n.seen = v1[a]
  BY <1>1 DEF Broker!OperatorType
<1>4. v4' = [v4 EXCEPT ![o] = v4'[o]] /\ v4'[o] \in {d, n} /\ (v4'[o] = n /\ n # d => v5'[a] = o /\ v1[a].status # "archived")
  BY <1>1, <1>2, BrokerFacts
<1>5. (\A p1 \in Operators : v5[a] # p1) /\ v5' \in [Broker!Ids -> Operators \cup {"free"}]
      /\ \A j \in Broker!Ids \ {a} : v5'[j] = v5[j]
  BY <1>1, <1>2, BrokerFacts, BrokerAssumption
<1>6. v1[a].status = "active" /\ v1[a].ref # "env" => <<v1[a].ref, v1[a].version>> \in v2
  BY <1>1 DEF Broker!SoundAccounts, Broker!PinnedIsStored, Broker!Live, Broker!EnvRef
<1> HIDE DEF n, d
<1>7. BrokerOperates(o, a)
  BY <1>1, <1>2, <1>3, <1>4, <1>5, <1>6, BrokerFacts DEF BrokerOperates
<1>8. Broker!OperatorIsInStep(o)'
  <2>1. v1[a].status \in {"active", "archived"}
    BY <1>1 DEF Broker!SoundAccounts, Broker!OperatorIsInStep
  <2> QED BY <1>1, <1>2, <1>3, <1>4, <2>1 DEF Broker!OperatorIsInStep
<1>9. Broker!SecretsAreOwed'
  <2> SUFFICES ASSUME v8 = 0, NEW s \in v2 PROVE Broker!Owed(s[1])'
    BY <1>2 DEF Broker!SecretsAreOwed
  <2>1. Broker!Owed(s[1])
    BY DEF Broker!SoundAccounts, Broker!SecretsAreOwed
  <2> QED BY <1>1, <1>2, <1>7, <2>1, BrokerStillOwed
<1> QED BY <1>1, <1>7, <1>8, <1>9, BrokerOperator

\* An operator that moves on changes its own record only.
LEMMA BrokerTurn ==
    ASSUME Broker!SoundAccounts, NEW o \in Operators, NEW p \in {"delete", "done"}, v4' = [v4 EXCEPT ![o].pc = p]
    PROVE  /\ v4' = [v4 EXCEPT ![o] = v4'[o]] /\ v4'[o] \in Broker!OperatorType /\ v4'[o].pc = p
           /\ v4'[o].acct = v4[o].acct /\ v4'[o].seen = v4[o].seen /\ v4'[o].ref = v4[o].ref
<1> DEFINE n == [v4[o] EXCEPT !.pc = p]
<1>1. n \in Broker!OperatorType /\ n.pc = p /\ n.acct = v4[o].acct /\ n.seen = v4[o].seen /\ n.ref = v4[o].ref
  BY BrokerFacts DEF Broker!OperatorType
<1>2. v4'[o] = n /\ v4' = [v4 EXCEPT ![o] = v4'[o]]
  BY BrokerFacts
<1> QED BY <1>1, <1>2

\* Releasing the lock of the account that an operator holds takes it from nobody else.
LEMMA BrokerRelease ==
    ASSUME Broker!SoundAccounts, NEW o \in Operators, v4[o].pc \in {"put", "mark", "commit"},
           v5' = [v5 EXCEPT ![v4[o].acct] = "free"]
    PROVE  /\ v5' \in [Broker!Ids -> Operators \cup {"free"}]
           /\ \A j \in Broker!Ids : \A p \in Operators \ {o} : v5[j] = p => v5'[j] = p
BY BrokerFacts DEF Broker!SoundAccounts, Broker!OperatorIsInStep

\* What the invariant says of an operator that holds a lock.
LEMMA BrokerHolder ==
    ASSUME Broker!SoundAccounts, NEW o \in Operators, v4[o].pc \in {"put", "mark", "commit"}
    PROVE  LET a == v4[o].acct
           IN  /\ a \in Broker!Ids /\ v1[a] \in Broker!RowType /\ v4[o] \in Broker!OperatorType
               /\ v5[a] = o /\ v1[a].status = "active" /\ v4[o].seen.ref = v1[a].ref
               /\ v1[a].ref \in Creators \cup Operators \cup {"env"}
               /\ v1[a].ref # "env" => <<v1[a].ref, v1[a].version>> \in v2
               /\ v4[o].pc = "commit" => /\ v4[o].ref = IF v1[a].ref = "env" THEN o ELSE v1[a].ref
                                         /\ <<v4[o].ref, v4[o].seen.version>> \in v2
<1> DEFINE a == v4[o].acct
<1>1. a \in Broker!Ids /\ v1[a] \in Broker!RowType /\ v4[o] \in Broker!OperatorType
  BY BrokerFacts
<1>2. /\ v5[a] = o /\ v1[a].status = "active" /\ v4[o].seen.ref = v1[a].ref
      /\ v4[o].pc = "commit" => /\ v4[o].ref = IF v1[a].ref = "env" THEN o ELSE v1[a].ref
                                /\ <<v4[o].ref, v4[o].seen.version>> \in v2
  BY DEF Broker!SoundAccounts, Broker!OperatorIsInStep, Broker!RefOf, Broker!EnvRef
<1>3. v1[a].ref \in Creators \cup Operators \cup {"env"}
  BY <1>1, <1>2, BrokerFacts DEF Broker!SoundAccounts, Broker!RefsAreOwn, Broker!EnvRef
<1>4. v1[a].ref # "env" => <<v1[a].ref, v1[a].version>> \in v2
  BY <1>1, <1>2 DEF Broker!SoundAccounts, Broker!PinnedIsStored, Broker!Live, Broker!EnvRef
<1> QED BY <1>1, <1>2, <1>3, <1>4

\* A failing call of an operator gives up its lock; with an error, no secret is owed.
LEMMA BrokerGivesUp ==
    ASSUME Broker!SoundAccounts, NEW o \in Operators, v4[o].pc \in {"put", "mark", "commit"},
           v1' = v1, v2' \subseteq v2, \A s \in v2 \ v2' : s[1] = o, v3' = v3, v6' = v6, v7' = v7, v8' = v8 + 1,
           v4' = [v4 EXCEPT ![o].pc = "done"], v5' = [v5 EXCEPT ![v4[o].acct] = "free"]
    PROVE  Broker!SoundAccounts'
<1> DEFINE a == v4[o].acct
<1>1. /\ a \in Broker!Ids /\ v1[a] \in Broker!RowType /\ v1[a].status = "active"
      /\ v1[a].ref # "env" => <<v1[a].ref, v1[a].version>> \in v2
  BY BrokerHolder
<1>2. v1[a].ref # o
  BY <1>1, BrokerRefs
<1>3. BrokerOperates(o, a)
  <2>1. /\ v4' = [v4 EXCEPT ![o] = v4'[o]] /\ v4'[o] \in Broker!OperatorType /\ v4[o].pc # "done"
        /\ v5' \in [Broker!Ids -> Operators \cup {"free"}]
        /\ \A j \in Broker!Ids : \A p \in Operators \ {o} : v5[j] = p => v5'[j] = p
    BY BrokerTurn, BrokerRelease
  <2>2. /\ v1' = [v1 EXCEPT ![a] = v1'[a]] /\ v2' \subseteq (Creators \cup Operators) \X Nat
        /\ v7' \in Nat /\ v8' \in Nat /\ (v8' = 0 => v8 = 0)
    BY BrokerFacts
  <2>3. v1'[a].status = "active" /\ v1'[a].ref # "env" => <<v1'[a].ref, v1'[a].version>> \in v2'
    BY <1>1, <1>2
  <2> QED BY <1>1, <2>1, <2>2, <2>3 DEF BrokerOperates
<1>4. Broker!OperatorIsInStep(o)'
  BY BrokerTurn DEF Broker!OperatorIsInStep
<1>5. Broker!SecretsAreOwed'
  BY BrokerFacts DEF Broker!SecretsAreOwed
<1> QED BY <1>1, <1>3, <1>4, <1>5, BrokerOperator

LEMMA BrokerPut ==
    ASSUME Broker!SoundAccounts, NEW o \in Operators, Broker!Put(o), v6' = v6
    PROVE  Broker!SoundAccounts'
<1> DEFINE a   == v4[o].acct
           ref == IF v1[a].ref = "env" THEN o ELSE v1[a].ref
           old == [v4[o].seen EXCEPT !.version = v7 + 1]
           n   == [v4[o] EXCEPT !.pc = "commit", !.ref = ref, !.seen = old]
<1>1. v4[o].pc = "put" /\ v1' = v1 /\ v3' = v3
  BY DEF Broker!Put
<1>2. Broker!RefOf(o) = ref /\ a \in Broker!Ids
  BY <1>1, BrokerHolder DEF Broker!RefOf, Broker!EnvRef
<1>3. CASE /\ v2' = v2 \cup {<<Broker!RefOf(o), v7 + 1>>} /\ v7' = v7 + 1 /\ v5' = v5 /\ v8' = v8
           /\ v4' = [v4 EXCEPT ![o].pc = "commit", ![o].ref = Broker!RefOf(o), ![o].seen.version = v7 + 1]
  <2>1. old \in Broker!RowType /\ old.ref = v4[o].seen.ref /\ old.version = v7 + 1
    <3>1. v4[o].seen \in Broker!RowType /\ v7 + 1 \in Nat
      BY BrokerFacts DEF Broker!OperatorType
    <3> QED BY <3>1 DEF Broker!RowType
  <2>2. ref \in Creators \cup Operators /\ ref \in Broker!Refs
    BY <1>1, BrokerHolder DEF Broker!Refs
  <2> HIDE DEF ref, old
  <2>3. n \in Broker!OperatorType /\ n.pc = "commit" /\ n.acct = a /\ n.ref = ref /\ n.seen = old
    BY <2>1, <2>2, BrokerFacts DEF Broker!OperatorType
  <2>4. v4' = [v4 EXCEPT ![o] = n] /\ v4'[o] = n
    <3>1. v4' = [v4 EXCEPT ![o] = [v4[o] EXCEPT !.pc = "commit", !.ref = Broker!RefOf(o), !.seen.version = v7 + 1]]
      BY <1>3
    <3>2. [v4[o] EXCEPT !.pc = "commit", !.ref = Broker!RefOf(o), !.seen.version = v7 + 1] = n
      BY <1>2 DEF old
    <3> QED BY <3>1, <3>2, BrokerFacts
  <2>5. BrokerOperates(o, a)
    <3>1. /\ v1[a] \in Broker!RowType
          /\ v1[a].status = "active" /\ v1[a].ref # "env" => <<v1[a].ref, v1[a].version>> \in v2
      BY <1>1, BrokerHolder
    <3>2. v2' \subseteq (Creators \cup Operators) \X Nat /\ v2 \subseteq v2' /\ v7' \in Nat
      BY <1>2, <1>3, <2>2, BrokerFacts
    <3>3. v1' = [v1 EXCEPT ![a] = v1'[a]]
      BY <1>1, BrokerFacts
    <3> HIDE DEF n
    <3>4. v4' = [v4 EXCEPT ![o] = v4'[o]] /\ v4'[o] \in Broker!OperatorType /\ v4[o].pc # "done"
      BY <1>1, <2>3, <2>4
    <3> QED BY <1>1, <1>3, <3>1, <3>2, <3>3, <3>4, BrokerFacts DEF BrokerOperates
  <2>6. Broker!OperatorIsInStep(o)'
    <3>1. v5[a] = o /\ v1[a].status = "active" /\ v4[o].seen.ref = v1[a].ref
      BY <1>1, BrokerHolder
    <3>2. /\ v4'[o].pc = "commit" /\ v4'[o].acct = a /\ v4'[o].ref = ref
          /\ v4'[o].seen.ref = v1[a].ref /\ v4'[o].seen.version = v7 + 1
      BY <2>1, <2>3, <2>4, <3>1
    <3>3. Broker!RefOf(o)' = ref
      BY <3>2 DEF Broker!RefOf, Broker!EnvRef, ref
    <3>4. <<ref, v7 + 1>> \in v2'
      BY <1>2, <1>3
    <3> QED BY <1>1, <1>3, <3>1, <3>2, <3>3, <3>4 DEF Broker!OperatorIsInStep
  <2>7. Broker!SecretsAreOwed'
    <3> SUFFICES ASSUME v8 = 0, NEW s \in v2' PROVE Broker!Owed(s[1])'
      BY <1>3 DEF Broker!SecretsAreOwed
    <3>1. CASE s \in v2
      <4>1. Broker!Owed(s[1])
        BY <3>1 DEF Broker!SoundAccounts, Broker!SecretsAreOwed
      <4> QED BY <1>1, <1>2, <2>5, <4>1, BrokerStillOwed
    <3>2. CASE s[1] = ref /\ v1[a].ref = "env"
      BY <2>3, <2>4, <3>2 DEF Broker!Owed, ref
    <3>3. CASE s[1] = ref /\ v1[a].ref # "env"
      BY <1>1, <1>2, <3>3, BrokerHolder DEF Broker!Owed, Broker!Live, Broker!Ids, ref
    <3> QED BY <1>2, <1>3, <3>1, <3>2, <3>3
  <2> QED BY <1>2, <2>5, <2>6, <2>7, BrokerOperator
<1>4. CASE /\ v8' = v8 + 1 /\ v4' = [v4 EXCEPT ![o].pc = "done"] /\ v5' = [v5 EXCEPT ![a] = "free"]
           /\ v2' = v2 /\ v7' = v7
  BY <1>1, <1>4, BrokerGivesUp
<1> QED BY <1>3, <1>4 DEF Broker!Put, Broker!Version, Broker!Fault

LEMMA BrokerRotate ==
    ASSUME Broker!SoundAccounts, NEW o \in Operators, Broker!CommitRotate(o), v6' = v6
    PROVE  Broker!SoundAccounts'
<1> DEFINE a   == v4[o].acct
           new == [v1[a] EXCEPT !.ref = v4[o].ref, !.version = v4[o].seen.version]
<1>1. /\ v4[o].pc = "commit" /\ v3' = v3 /\ v7' = v7
      /\ v4' = [v4 EXCEPT ![o].pc = "done"] /\ v5' = [v5 EXCEPT ![a] = "free"]
  BY DEF Broker!CommitRotate
<1>2. /\ a \in Broker!Ids /\ v1[a] \in Broker!RowType /\ v4[o] \in Broker!OperatorType
      /\ v5[a] = o /\ v1[a].status = "active"
      /\ v4[o].ref = IF v1[a].ref = "env" THEN o ELSE v1[a].ref
      /\ <<v4[o].ref, v4[o].seen.version>> \in v2
  BY <1>1, BrokerHolder
<1>3. CASE /\ v1' = [v1 EXCEPT ![a].ref = v4[o].ref, ![a].version = v4[o].seen.version]
           /\ v2' = v2 /\ v8' = v8
  <2>1. /\ new \in Broker!RowType /\ new.status = v1[a].status /\ new.slot = v1[a].slot /\ new.ib = v1[a].ib
        /\ new.ref = v4[o].ref /\ new.version = v4[o].seen.version
    <3>1. v4[o].ref \in Broker!Refs /\ v4[o].seen \in Broker!RowType
      BY <1>2 DEF Broker!OperatorType
    <3>2. v4[o].seen.version \in Nat
      BY <3>1 DEF Broker!RowType
    <3> QED BY <1>2, <3>1, <3>2 DEF Broker!RowType
  <2>2. v1' = [v1 EXCEPT ![a] = new]
    BY <1>3
  <2> HIDE DEF new
  <2>3. v1'[a] = new /\ v1' = [v1 EXCEPT ![a] = v1'[a]]
    BY <1>2, <2>2, BrokerFacts
  <2>4. /\ v4' = [v4 EXCEPT ![o] = v4'[o]] /\ v4'[o] \in Broker!OperatorType /\ v4'[o].pc = "done"
        /\ v5' \in [Broker!Ids -> Operators \cup {"free"}]
        /\ \A j \in Broker!Ids : \A p \in Operators \ {o} : v5[j] = p => v5'[j] = p
    BY <1>1, BrokerTurn, BrokerRelease
  <2>5. BrokerOperates(o, a)
    BY <1>1, <1>2, <1>3, <2>1, <2>3, <2>4, BrokerFacts, SMTT(30) DEF BrokerOperates
  <2>6. Broker!OperatorIsInStep(o)'
    BY <2>4 DEF Broker!OperatorIsInStep
  <2>7. Broker!SecretsAreOwed'
    <3> SUFFICES ASSUME v8 = 0, NEW s \in v2 PROVE Broker!Owed(s[1])'
      BY <1>3 DEF Broker!SecretsAreOwed
    <3>1. CASE s[1] = v4[o].ref
      BY <1>2, <2>1, <2>3, <3>1 DEF Broker!Owed, Broker!Live, Broker!Ids
    <3>2. CASE s[1] # v4[o].ref
      <4>1. Broker!Owed(s[1]) /\ s[1] # "env"
        BY BrokerFacts, BrokerAssumption DEF Broker!SoundAccounts, Broker!SecretsAreOwed
      <4>2. v1'[a].status # "active" \/ v1'[a].ref # v1[a].ref => v1[a].ref # s[1]
        BY <1>2, <2>1, <2>3, <4>1
      <4> QED BY <1>1, <1>2, <2>5, <3>2, <4>1, <4>2, BrokerStillOwed
    <3> QED BY <3>1, <3>2
  <2> QED BY <1>2, <2>5, <2>6, <2>7, BrokerOperator
<1>4. CASE /\ v8' = v8 + 1 /\ v1' = v1
           /\ v2' = IF v4[o].ref = o THEN {s \in v2 : s[1] # o} ELSE v2
  BY <1>1, <1>4, BrokerGivesUp
<1> QED BY <1>3, <1>4 DEF Broker!CommitRotate, Broker!Fault

LEMMA BrokerMark ==
    ASSUME Broker!SoundAccounts, NEW o \in Operators, Broker!Mark(o), v6' = v6
    PROVE  Broker!SoundAccounts'
<1> DEFINE a   == v4[o].acct
           new == [v1[a] EXCEPT !.status = "archived"]
<1>1. v4[o].pc = "mark" /\ v2' = v2 /\ v3' = v3 /\ v7' = v7 /\ v5' = [v5 EXCEPT ![a] = "free"]
  BY DEF Broker!Mark
<1>2. /\ a \in Broker!Ids /\ v1[a] \in Broker!RowType /\ v5[a] = o /\ v1[a].status = "active"
      /\ v4[o].seen.ref = v1[a].ref
  BY <1>1, BrokerHolder
<1>3. CASE v1' = [v1 EXCEPT ![a].status = "archived"] /\ v4' = [v4 EXCEPT ![o].pc = "delete"] /\ v8' = v8
  <2>1. /\ new \in Broker!RowType /\ new.status = "archived" /\ new.slot = v1[a].slot /\ new.ib = v1[a].ib
        /\ new.ref = v1[a].ref
    BY <1>2 DEF Broker!RowType
  <2>2. v1' = [v1 EXCEPT ![a] = new]
    BY <1>3
  <2> HIDE DEF new
  <2>3. v1'[a] = new /\ v1' = [v1 EXCEPT ![a] = v1'[a]]
    BY <1>2, <2>2, BrokerFacts
  <2>4. /\ v4' = [v4 EXCEPT ![o] = v4'[o]] /\ v4'[o] \in Broker!OperatorType /\ v4'[o].pc = "delete"
        /\ v4'[o].acct = a /\ v4'[o].seen = v4[o].seen
        /\ v5' \in [Broker!Ids -> Operators \cup {"free"}]
        /\ \A j \in Broker!Ids : \A p \in Operators \ {o} : v5[j] = p => v5'[j] = p
    BY <1>1, <1>3, BrokerTurn, BrokerRelease
  <2>5. BrokerOperates(o, a)
    BY <1>1, <1>2, <1>3, <2>1, <2>3, <2>4, BrokerFacts DEF BrokerOperates
  <2>6. Broker!OperatorIsInStep(o)'
    BY <1>2, <2>1, <2>3, <2>4 DEF Broker!OperatorIsInStep
  <2>7. Broker!SecretsAreOwed'
    <3> SUFFICES ASSUME v8 = 0, NEW s \in v2 PROVE Broker!Owed(s[1])'
      BY <1>1, <1>3 DEF Broker!SecretsAreOwed
    <3>1. CASE s[1] = v4[o].seen.ref
      BY <2>4, <3>1 DEF Broker!Owed
    <3>2. CASE s[1] # v4[o].seen.ref
      <4>1. Broker!Owed(s[1])
        BY DEF Broker!SoundAccounts, Broker!SecretsAreOwed
      <4> QED BY <1>1, <1>2, <2>5, <3>2, <4>1, BrokerStillOwed
    <3> QED BY <3>1, <3>2
  <2> QED BY <1>2, <2>5, <2>6, <2>7, BrokerOperator
<1>4. CASE v8' = v8 + 1 /\ v4' = [v4 EXCEPT ![o].pc = "done"] /\ v1' = v1
  BY <1>1, <1>4, BrokerGivesUp
<1> QED BY <1>3, <1>4 DEF Broker!Mark, Broker!Fault

LEMMA BrokerDelete ==
    ASSUME Broker!SoundAccounts, NEW o \in Operators, Broker!DeleteSecret(o), v6' = v6
    PROVE  Broker!SoundAccounts'
<1> DEFINE a == v4[o].acct
<1>1. /\ v4[o].pc = "delete" /\ v4' = [v4 EXCEPT ![o].pc = "done"] /\ v1' = v1 /\ v3' = v3 /\ v5' = v5 /\ v7' = v7
      /\ \/ v2' = {s \in v2 : s[1] # v4[o].seen.ref} /\ v8' = v8
         \/ v2' = v2 /\ v8' = v8 + 1
  BY DEF Broker!DeleteSecret, Broker!Fault
<1>2. a \in Broker!Ids /\ v1[a] \in Broker!RowType /\ v1[a].status = "archived" /\ v4[o].seen.ref = v1[a].ref
  BY <1>1, BrokerFacts DEF Broker!SoundAccounts, Broker!OperatorIsInStep
<1>3. v4' = [v4 EXCEPT ![o] = v4'[o]] /\ v4'[o] \in Broker!OperatorType /\ v4'[o].pc = "done"
  BY <1>1, BrokerTurn
<1>4. v2' \subseteq (Creators \cup Operators) \X Nat /\ \A s \in v2 \ v2' : s[1] = v1[a].ref
  BY <1>1, <1>2, BrokerFacts
<1>5. v1' = [v1 EXCEPT ![a] = v1'[a]]
  BY <1>1, BrokerFacts
<1>6. BrokerOperates(o, a)
  BY <1>1, <1>2, <1>3, <1>4, <1>5, BrokerFacts DEF BrokerOperates
<1>7. Broker!OperatorIsInStep(o)'
  BY <1>3 DEF Broker!OperatorIsInStep
<1>8. Broker!SecretsAreOwed'
  <2> SUFFICES ASSUME v8' = 0, NEW s \in v2' PROVE Broker!Owed(s[1])'
    BY DEF Broker!SecretsAreOwed
  <2>1. v8 = 0 /\ s \in v2 /\ s[1] # v4[o].seen.ref
    BY <1>1, BrokerFacts
  <2>2. Broker!Owed(s[1])
    BY <2>1 DEF Broker!SoundAccounts, Broker!SecretsAreOwed
  <2> QED BY <1>1, <1>2, <1>6, <2>1, <2>2, BrokerStillOwed
<1> QED BY <1>2, <1>6, <1>7, <1>8, BrokerOperator

LEMMA BrokerStep ==
    ASSUME Broker!SoundAccounts, [Broker!Next]_(Broker!vars)
    PROVE  Broker!SoundAccounts'
<1>1. CASE UNCHANGED Broker!vars
  <2>1. v1' = v1 /\ v2' = v2 /\ v3' = v3 /\ v4' = v4 /\ v5' = v5 /\ v6' = v6 /\ v7' = v7 /\ v8' = v8
    BY <1>1 DEF Broker!vars
  <2>2. Broker!RowType' = Broker!RowType /\ Broker!CreatorType' = Broker!CreatorType
        /\ Broker!OperatorType' = Broker!OperatorType /\ Broker!Live' = Broker!Live
        /\ Broker!NoRow' = Broker!NoRow /\ Broker!Ids' = Broker!Ids
    BY <2>1 DEF Broker!RowType, Broker!CreatorType, Broker!OperatorType, Broker!Live, Broker!NoRow, Broker!Ids,
       Broker!Refs
  <2>3. Broker!RecordsAreTyped'
    BY <2>1, <2>2 DEF Broker!SoundAccounts, Broker!RecordsAreTyped
  <2>4. Broker!RefsAreOwn' /\ Broker!PinnedIsStored'
    BY <2>1, <2>2 DEF Broker!SoundAccounts, Broker!RefsAreOwn, Broker!PinnedIsStored
  <2>5. Broker!SecretsAreOwed'
    BY <2>1, <2>2 DEF Broker!SoundAccounts, Broker!SecretsAreOwed, Broker!Owed
  <2>6. Broker!TriesAreCounted'
    BY <2>1, <2>2 DEF Broker!SoundAccounts, Broker!TriesAreCounted, Broker!CreatorHasTried, Broker!Taken
  <2>7. \A k \in Creators : Broker!CreatorIsInStep(k)'
    BY <2>1, <2>2 DEF Broker!SoundAccounts, Broker!CreatorIsInStep
  <2>8. \A o \in Operators : Broker!OperatorIsInStep(o)'
    BY <2>1, <2>2 DEF Broker!SoundAccounts, Broker!OperatorIsInStep, Broker!RefOf
  <2> QED BY <2>3, <2>4, <2>5, <2>6, <2>7, <2>8 DEF Broker!SoundAccounts
<1>2. ASSUME NEW k \in Creators, v6' = v6,
             \/ \E ib \in IbAccounts : Broker!create(k, ib)
             \/ Broker!FreeSlot(k) \/ Broker!Insert(k) \/ Broker!CommitCreate(k) \/ Broker!CleanupCreate(k)
      PROVE  Broker!SoundAccounts'
  BY <1>2, BrokerCreate, BrokerFreeSlot, BrokerInsert, BrokerCommitCreate, BrokerCleanup
<1>3. ASSUME NEW o \in Operators, v6' = v6,
             \/ \E i \in Broker!Ids : Broker!Begin(o, "rotate", i) \/ Broker!Begin(o, "archive", i)
             \/ Broker!Lock(o) \/ Broker!Put(o) \/ Broker!CommitRotate(o) \/ Broker!Mark(o)
             \/ Broker!DeleteSecret(o)
      PROVE  Broker!SoundAccounts'
  BY <1>3, BrokerBegin, BrokerLock, BrokerPut, BrokerRotate, BrokerMark, BrokerDelete
<1> QED BY <1>1, <1>2, <1>3 DEF Broker!Next, Broker!Step

\* Whatever runs at once and whichever commit or store call fails: the pinned secret of an
\* active account is in the store, without errors the store keeps none of any other account,
\* and a creation gives up only when the account or every slot is taken.
THEOREM AccountsStaySound == Spec => []AccountsAreSound
<1> DEFINE Inv == part = "Broker" => Broker!SoundAccounts
<1>1. Init => Inv
  BY BrokerStart DEF Init
<1>2. Inv /\ [Next]_pool => Inv'
  <2> SUFFICES ASSUME Inv, [Next]_pool, part' = "Broker" PROVE Broker!SoundAccounts'
    OBVIOUS
  <2>1. part = "Broker" /\ [Broker!Next]_(Broker!vars)
    BY DEF Next, pool, Rest4, Rest5, Rest6, Rest7, Rest8, Rest9, Broker!vars
  <2> QED BY <2>1, BrokerStep
<1>3. Inv => AccountsAreSound
  <2> SUFFICES ASSUME Broker!SoundAccounts PROVE Broker!SecretsFollowRows /\ Broker!SlotsAreUsed
    BY DEF AccountsAreSound
  <2>1. ASSUME Broker!Quiet, v8 = 0
        PROVE  {s[1] : s \in v2} = {v1[i].ref : i \in Broker!Live} \ {"env"}
    <3>1. ASSUME NEW s \in v2 PROVE s[1] \in {v1[i].ref : i \in Broker!Live} \ {"env"}
      <4>1. Broker!Owed(s[1]) /\ s[1] \in Creators \cup Operators
        BY <2>1, BrokerFacts DEF Broker!SoundAccounts, Broker!SecretsAreOwed
      <4>2. \E i \in Broker!Live : v1[i].ref = s[1]
        BY <2>1, <4>1 DEF Broker!Owed, Broker!Quiet
      <4> QED BY <4>1, <4>2, BrokerAssumption
    <3>2. ASSUME NEW i \in Broker!Live, v1[i].ref # "env" PROVE \E s \in v2 : s[1] = v1[i].ref
      <4>1. <<v1[i].ref, v1[i].version>> \in v2
        BY <3>2 DEF Broker!SoundAccounts, Broker!PinnedIsStored, Broker!EnvRef
      <4> QED BY <4>1
    <3> QED BY <3>1, <3>2
  <2>2. Broker!SecretsFollowRows
    BY <2>1 DEF Broker!SoundAccounts, Broker!PinnedIsStored, Broker!SecretsFollowRows, Broker!EnvRef
  <2>3. Broker!SlotsAreUsed
    <3> SUFFICES ASSUME NEW k \in Creators, v3[k].pc = "done", v1[k] = Broker!NoRow, v8 = 0,
                        \A i \in Broker!Ids : v1[i].status # "archived", \A i \in Broker!Live : v1[i].ib # v3[k].ib
                 PROVE  v6 \subseteq {v1[i].slot : i \in Broker!Held}
      BY DEF Broker!SlotsAreUsed
    <3>1. v6 \subseteq Broker!Taken
      BY DEF Broker!SoundAccounts, Broker!TriesAreCounted, Broker!CreatorHasTried
    <3> QED BY <3>1 DEF Broker!Taken, Broker!Live, Broker!Held
  <2> QED BY <2>2, <2>3
<1> QED BY <1>1, <1>2, <1>3, PTL DEF Spec
-----------------------------------------------------------------------------
(* Jobs.  v1: row, v2: api, v3: arq, v4: pc, v5: cancel, v6: seen,           *)
(* v7: leases, v8: raced, v9: scan, v10: faults.                             *)

LEMMA QueueFacts ==
    ASSUME Queue!SoundJobs
    PROVE  /\ v1 \in [Queue!Jobs -> [status : {"completed", "failed", "cancelled", "pending", "running", "absent"},
                                     stale : BOOLEAN]]
           /\ v3 \in [Queue!Jobs -> [state : {"none", "queued", "taken", "done"}, tries : 0..MaxTries]]
           /\ v7 \subseteq Queue!Jobs /\ v9 \subseteq Queue!Jobs \ Portfolios /\ v6 \subseteq Researches
           /\ v10 \in 0..MaxJobFaults /\ v4 \in [Queue!Jobs -> Queue!PCs]
           /\ v2 \in [Queue!Jobs -> {"none", "enqueue", "commit", "done"}]
           /\ v5 \in [Queue!Jobs -> {"none", "read", "done"}]
           /\ MaxTries \in Nat /\ MaxJobFaults \in Nat
  BY SyncAssumption, OnboardAssumption
     DEF Queue!SoundJobs, Queue!JobsAreTyped, Queue!TypeOK, Queue!Terminal, Queue!Live

\* An action writes at most one row, one entry of the queue and one program counter.
QueueMove(j) ==
    /\ \/ UNCHANGED v1
       \/ \E s \in {"completed", "failed", "cancelled", "pending", "running"} : Queue!Write(j, s)
       \/ v1' = [v1 EXCEPT ![j] = [status |-> "running", stale |-> FALSE]]
       \/ \E b \in BOOLEAN : v1' = [v1 EXCEPT ![j].stale = b]
    /\ \/ UNCHANGED v3
       \/ \E s \in {"queued", "taken", "done"} : v3' = [v3 EXCEPT ![j].state = s]
       \/ v3[j].tries < MaxTries /\ v3' = [v3 EXCEPT ![j] = [state |-> "taken", tries |-> v3[j].tries + 1]]
    /\ UNCHANGED v4 \/ \E p \in Queue!PCs : Queue!Goto(j, p)
    /\ UNCHANGED v2 \/ \E a \in {"commit", "done"} : v2' = [v2 EXCEPT ![j] = a]
    /\ UNCHANGED v5 \/ \E c \in {"read", "done"} : v5' = [v5 EXCEPT ![j] = c]
    /\ UNCHANGED v6 \/ (j \in Researches /\ v6' = v6 \cup {j})
    /\ v7' \subseteq v7 \cup {j} /\ UNCHANGED v9 /\ (UNCHANGED v10 \/ Queue!Fault)

LEMMA QueueTyped ==
    ASSUME Queue!SoundJobs, NEW j \in Queue!Jobs, QueueMove(j)
    PROVE  Queue!JobsAreTyped'
<1> USE DEF QueueMove
<1> DEFINE Rows == [status : {"completed", "failed", "cancelled", "pending", "running", "absent"}, stale : BOOLEAN]
           Entries == [state : {"none", "queued", "taken", "done"}, tries : 0..MaxTries]
<1>0. /\ v1 \in [Queue!Jobs -> Rows] /\ v3 \in [Queue!Jobs -> Entries] /\ v7 \subseteq Queue!Jobs
      /\ v9 \subseteq Queue!Jobs \ Portfolios /\ v6 \subseteq Researches
      /\ v10 \in 0..MaxJobFaults /\ v4 \in [Queue!Jobs -> Queue!PCs]
      /\ v2 \in [Queue!Jobs -> {"none", "enqueue", "commit", "done"}]
      /\ v5 \in [Queue!Jobs -> {"none", "read", "done"}] /\ MaxTries \in Nat /\ MaxJobFaults \in Nat
  BY QueueFacts
<1>1. v1' \in [Queue!Jobs -> Rows]
  <2>1. CASE UNCHANGED v1
    BY <1>0, <2>1
  <2>2. ASSUME NEW r, r \in Rows, v1' = [v1 EXCEPT ![j] = r] PROVE v1' \in [Queue!Jobs -> Rows]
    BY <1>0, <2>2
  <2>3. ASSUME NEW s \in {"completed", "failed", "cancelled", "pending", "running"}, Queue!Write(j, s)
        PROVE  v1' \in [Queue!Jobs -> Rows]
    <3>1. [v1[j] EXCEPT !.status = s] \in Rows
      BY <1>0
    <3>2. v1' = [v1 EXCEPT ![j] = [v1[j] EXCEPT !.status = s]]
      BY <2>3 DEF Queue!Write
    <3> QED BY <2>2, <3>1, <3>2
  <2>4. ASSUME NEW b \in BOOLEAN, v1' = [v1 EXCEPT ![j].stale = b] PROVE v1' \in [Queue!Jobs -> Rows]
    <3>1. [v1[j] EXCEPT !.stale = b] \in Rows
      BY <1>0, SMTT(30)
    <3> QED BY <2>2, <2>4, <3>1
  <2>5. [status |-> "running", stale |-> FALSE] \in Rows
    OBVIOUS
  <2> QED BY <2>1, <2>2, <2>3, <2>4, <2>5
<1>2. v3' \in [Queue!Jobs -> Entries]
  <2>1. ASSUME NEW r, r \in Entries, v3' = [v3 EXCEPT ![j] = r] PROVE v3' \in [Queue!Jobs -> Entries]
    BY <1>0, <2>1
  <2>2. ASSUME NEW s \in {"queued", "taken", "done"}, v3' = [v3 EXCEPT ![j].state = s]
        PROVE  v3' \in [Queue!Jobs -> Entries]
    <3>1. [v3[j] EXCEPT !.state = s] \in Entries
      BY <1>0
    <3> QED BY <2>1, <2>2, <3>1
  <2>3. v3[j].tries < MaxTries => [state |-> "taken", tries |-> v3[j].tries + 1] \in Entries
    BY <1>0
  <2>4. CASE UNCHANGED v3
    BY <1>0, <2>4
  <2> QED BY <2>1, <2>2, <2>3, <2>4
<1>3. v4' \in [Queue!Jobs -> Queue!PCs]
  BY <1>0 DEF Queue!Goto
<1>4. v2' \in [Queue!Jobs -> {"none", "enqueue", "commit", "done"}]
  BY <1>0
<1>7. v5' \in [Queue!Jobs -> {"none", "read", "done"}]
  BY <1>0
<1>5. v7' \subseteq Queue!Jobs /\ v9' \subseteq Queue!Jobs \ Portfolios /\ v6' \subseteq Researches
  BY <1>0
<1>6. v10' \in 0..MaxJobFaults
  BY <1>0 DEF Queue!Fault
<1> QED BY <1>1, <1>2, <1>3, <1>4, <1>5, <1>6, <1>7 DEF Queue!JobsAreTyped, Queue!TypeOK, Queue!Terminal, Queue!Live

LEMMA QueueCounts ==
    /\ \A S : Queue!Cardinality(S) = Cardinality(S)
    /\ \A S : Queue!IsFiniteSet(S) <=> IsFiniteSet(S)
<1>1. \A S : Queue!IsFiniteSet(S) <=> IsFiniteSet(S)
  BY Zenon DEF Queue!IsFiniteSet, IsFiniteSet
<1>2. \A S : Queue!Cardinality(S) = Cardinality(S)
  BY Zenon DEF Queue!Cardinality, Cardinality
<1> QED BY <1>1, <1>2

\* Fewer jobs use no more slots, and one more uses no more than its own.
LEMMA UsedLess ==
    ASSUME NEW S, NEW T \in SUBSET S, IsFiniteSet(Queue!Taken(S))
    PROVE  IsFiniteSet(Queue!Taken(T)) /\ Queue!Used(T) <= Queue!Used(S)
           /\ Queue!Used(T) \in Nat /\ Queue!Used(S) \in Nat
<1>1. Queue!Taken(T) \subseteq Queue!Taken(S)
  BY DEF Queue!Taken
<1>2. IsFiniteSet(Queue!Taken(T)) /\ Cardinality(Queue!Taken(T)) <= Cardinality(Queue!Taken(S))
  BY <1>1, FS_Subset
<1> QED BY <1>2, QueueCounts, FS_CardinalityType DEF Queue!Used

LEMMA UsedMore ==
    ASSUME NEW S, IsFiniteSet(Queue!Taken(S)), NEW j \in Queue!Jobs
    PROVE  /\ IsFiniteSet(Queue!Taken(S \cup {j})) /\ Slots[j] \in Nat
           /\ Queue!Used(S \cup {j}) \in Nat /\ Queue!Used(S) \in Nat
           /\ Queue!Used(S \cup {j}) <= Queue!Used(S) + Slots[j]
<1> DEFINE A == Queue!Taken(S)
           B == {j} \X (1..Slots[j])
<1>1. Slots[j] \in Nat
  BY JobsAssumption DEF Queue!Jobs
<1>2. IsFiniteSet({j}) /\ Cardinality({j}) = 1
  BY FS_Singleton
<1>3. IsFiniteSet(1..Slots[j]) /\ Cardinality(1..Slots[j]) = Slots[j]
  <2>1. IsFiniteSet(1..Slots[j]) /\ Cardinality(1..Slots[j]) = IF 1 > Slots[j] THEN 0 ELSE Slots[j] - 1 + 1
    BY <1>1, FS_Interval
  <2> QED BY <1>1, <2>1
<1>4. IsFiniteSet(B) /\ Cardinality(B) = Slots[j]
  <2>1. IsFiniteSet(B) /\ Cardinality(B) = Cardinality({j}) * Cardinality(1..Slots[j])
    BY <1>2, <1>3, FS_Product
  <2> QED BY <1>1, <1>2, <1>3, <2>1
<1>5. Queue!Taken(S \cup {j}) = A \cup B
  BY DEF Queue!Taken
<1> HIDE DEF A, B
<1>6. /\ IsFiniteSet(A \cup B) /\ IsFiniteSet(A \cap B)
      /\ Cardinality(A \cup B) = Cardinality(A) + Cardinality(B) - Cardinality(A \cap B)
  <2>1. IsFiniteSet(A) /\ IsFiniteSet(B)
    BY <1>4 DEF A
  <2>2. IsFiniteSet(A \cup B) /\ Cardinality(A \cup B) = Cardinality(A) + Cardinality(B) - Cardinality(A \cap B)
    BY <2>1, FS_Union
  <2>3. IsFiniteSet(A \cap B)
    BY <2>1, FS_Intersection
  <2> QED BY <2>2, <2>3
<1>7. Cardinality(A) \in Nat /\ Cardinality(A \cap B) \in Nat /\ Cardinality(A \cup B) \in Nat
  BY <1>6, FS_CardinalityType DEF A
<1>8. Queue!Used(S) = Cardinality(A) /\ Queue!Used(S \cup {j}) = Cardinality(A \cup B)
  BY <1>5, QueueCounts DEF Queue!Used, A
<1>9. Cardinality(A \cup B) <= Cardinality(A) + Slots[j]
  BY <1>1, <1>4, <1>6, <1>7
<1> QED BY <1>1, <1>5, <1>6, <1>7, <1>8, <1>9

\* The usage is known as long as no lease is added and nobody else reads it.
LEMMA SlotsStay ==
    ASSUME Queue!SoundJobs, v7' \subseteq v7, v8 => v8',
           \A j \in Queue!Jobs : v4'[j] = "lease" => v4[j] = "lease"
    PROVE  Queue!SlotsAreCounted'
<1>1. Queue!SlotsAreCounted
  BY DEF Queue!SoundJobs
<1>2. IsFiniteSet(Queue!Taken(v7))
  BY <1>1, QueueCounts DEF Queue!SlotsAreCounted
<1>3. IsFiniteSet(Queue!Taken(v7')) /\ Queue!Used(v7') <= Queue!Used(v7)
      /\ Queue!Used(v7') \in Nat /\ Queue!Used(v7) \in Nat
  BY <1>2, UsedLess
<1>4. Queue!IsFiniteSet(Queue!Taken(v7'))
  BY <1>3, QueueCounts
<1>5. ASSUME ~v8', NEW j \in Queue!Jobs, v4'[j] = "lease"
      PROVE  Queue!Used(v7') + Slots[j] <= ComputeSlots /\ \A k \in Queue!Jobs : v4'[k] = "lease" => k = j
  <2>1. Queue!Used(v7) + Slots[j] <= ComputeSlots /\ \A k \in Queue!Jobs : v4[k] = "lease" => k = j
    BY <1>1, <1>5 DEF Queue!SlotsAreCounted, Queue!At, Queue!Fits
  <2>2. Slots[j] \in Nat /\ ComputeSlots \in Nat
    BY JobsAssumption DEF Queue!Jobs
  <2> QED BY <1>3, <2>1, <2>2
<1>6. ASSUME ~v8' PROVE Queue!Used(v7') <= ComputeSlots
  <2>1. Queue!Used(v7) <= ComputeSlots /\ ComputeSlots \in Nat
    BY <1>1, <1>6, JobsAssumption DEF Queue!SlotsAreCounted
  <2> QED BY <1>3, <2>1
<1>7. (Queue!Used(v7) <= ComputeSlots)' = (Queue!Used(v7') <= ComputeSlots)
  BY DEF Queue!Used, Queue!Taken
<1>8. \A j \in Queue!Jobs : Queue!At(j, "lease")' = (v4'[j] = "lease") /\ Queue!Fits(j)' = (Queue!Used(v7') + Slots[j] <= ComputeSlots)
  BY DEF Queue!At, Queue!Fits, Queue!Used, Queue!Taken
<1>9. Queue!IsFiniteSet(Queue!Taken(v7))' = Queue!IsFiniteSet(Queue!Taken(v7'))
  BY DEF Queue!Taken
<1> QED BY <1>4, <1>5, <1>6, <1>7, <1>8, <1>9 DEF Queue!SlotsAreCounted

Stands(j) ==
    Queue!Status(j) \in Queue!Terminal =>
       Queue!Status(j)' \in {Queue!Status(j)} \cup (IF Queue!Status(j) = "cancelled" THEN {"failed"} ELSE {})

\* What an action of a job has to show.
LEMMA QueueOther ==
    ASSUME Queue!SoundJobs, NEW j \in Queue!Jobs, QueueMove(j), Queue!SlotsAreCounted',
           j \in Portfolios => Queue!RunIsSound(j)' /\ Stands(j)
    PROVE  Queue!SoundJobs' /\ Queue!PortfolioOutcomeStands
<1>1. ASSUME NEW k \in Queue!Jobs, k # j PROVE v1'[k] = v1[k] /\ v2'[k] = v2[k] /\ v4'[k] = v4[k]
  BY <1>1, QueueFacts DEF QueueMove, Queue!Write, Queue!Goto
<1>2. ASSUME NEW k \in Portfolios PROVE Queue!RunIsSound(k)' /\ Stands(k)
  <2>1. CASE k = j
    BY <2>1
  <2>2. CASE k # j
    <3>1. k \in Queue!Jobs /\ Queue!RunIsSound(k)
      BY DEF Queue!Jobs, Queue!SoundJobs
    <3> QED BY <1>1, <2>2, <3>1 DEF Queue!RunIsSound, Stands, Queue!Status
  <2> QED BY <2>1, <2>2
<1> QED BY <1>2, QueueTyped DEF Queue!SoundJobs, Queue!PortfolioOutcomeStands, Stands

\* Of a portfolio run.
LEMMA RunFacts ==
    ASSUME Queue!SoundJobs, NEW j \in Queue!Jobs
    PROVE  /\ j \in Portfolios => Queue!RunIsSound(j)
           /\ j \in Portfolios => j \notin Backtests /\ j \notin Researches
           /\ v4[j] \in Queue!PCs
           /\ v1[j].status \in {"completed", "failed", "cancelled", "pending", "running", "absent"}
           /\ \A s : Queue!Write(j, s) => v1'[j].status = s
           /\ \A p : Queue!Goto(j, p) => v4'[j] = p
<1>1. v1 \in [Queue!Jobs -> [status : {"completed", "failed", "cancelled", "pending", "running", "absent"}, stale : BOOLEAN]]
      /\ v4 \in [Queue!Jobs -> Queue!PCs]
  BY QueueFacts
<1>2. v1[j].status \in {"completed", "failed", "cancelled", "pending", "running", "absent"}
  BY <1>1
<1>3. (j \in Portfolios => Queue!RunIsSound(j)) /\ (j \in Portfolios => j \notin Backtests /\ j \notin Researches)
  BY JobsAssumption DEF Queue!SoundJobs
<1>4. \A s : Queue!Write(j, s) => v1'[j].status = s
  <2> SUFFICES ASSUME NEW s, Queue!Write(j, s) PROVE v1'[j].status = s
    OBVIOUS
  <2>1. v1' = [v1 EXCEPT ![j] = [v1[j] EXCEPT !.status = s]]
    BY DEF Queue!Write
  <2>2. [v1[j] EXCEPT !.status = s].status = s
    BY <1>1
  <2> QED BY <1>1, <2>1, <2>2
<1>5. \A p : Queue!Goto(j, p) => v4'[j] = p
  BY <1>1 DEF Queue!Goto
<1> QED BY <1>1, <1>2, <1>3, <1>4, <1>5

\* Nothing is leased, and nobody goes to take a lease.
LEMMA SlotsUntouched ==
    ASSUME Queue!SoundJobs, NEW j \in Queue!Jobs, v7' \subseteq v7, v8 => v8',
           UNCHANGED v4 \/ \E p \in Queue!PCs \ {"lease"} : Queue!Goto(j, p)
    PROVE  Queue!SlotsAreCounted'
<1>1. \A k \in Queue!Jobs : v4'[k] = "lease" => v4[k] = "lease"
  BY QueueFacts DEF Queue!Goto
<1> QED BY <1>1, SlotsStay

LEMMA QueueApi ==
    ASSUME Queue!SoundJobs, NEW j \in Queue!Jobs,
           Queue!Enqueue(j) \/ Queue!Commit(j) \/ Queue!CancelResearch(j) \/ Queue!CancelPortfolio(j)
    PROVE  Queue!SoundJobs' /\ Queue!PortfolioOutcomeStands
<1>1. QueueMove(j)
  BY DEF QueueMove, Queue!Enqueue, Queue!Commit, Queue!CancelResearch, Queue!CancelPortfolio
<1>2. Queue!SlotsAreCounted'
  <2>1. v7' = v7 /\ v8' = v8 /\ v4' = v4
    BY DEF Queue!Enqueue, Queue!Commit, Queue!CancelResearch, Queue!CancelPortfolio
  <2> QED BY <2>1, SlotsUntouched
<1>3. ASSUME j \in Portfolios PROVE Queue!RunIsSound(j)' /\ Stands(j)
  <2>1. CASE Queue!Enqueue(j)
    <3>1. v1' = v1 /\ v4' = v4 /\ v2[j] = "enqueue" /\ v2'[j] \in {"commit", "done"}
      BY <2>1, QueueFacts DEF Queue!Enqueue
    <3> QED BY <1>3, <3>1, RunFacts DEF Queue!RunIsSound, Stands, Queue!Status, Queue!Terminal
  <2>2. CASE Queue!Commit(j)
    <3>1. v2[j] = "commit" /\ v2'[j] = "done" /\ v1'[j].status = "pending" /\ v4' = v4
      BY <2>2, RunFacts, QueueFacts DEF Queue!Commit
    <3> QED BY <1>3, <3>1, RunFacts DEF Queue!RunIsSound, Stands, Queue!Status, Queue!Terminal
  <2>3. CASE Queue!CancelPortfolio(j)
    <3>1. v1[j].status \in {"pending", "running"} /\ v1'[j].status = "cancelled" /\ v4' = v4 /\ v2' = v2
      BY <2>3, RunFacts DEF Queue!CancelPortfolio, Queue!Status, Queue!Live
    <3> QED BY <1>3, <3>1, RunFacts DEF Queue!RunIsSound, Stands, Queue!Status, Queue!Terminal
  <2>4. ~Queue!CancelResearch(j)
    BY <1>3, RunFacts DEF Queue!CancelResearch
  <2> QED BY <2>1, <2>2, <2>3, <2>4
<1> QED BY <1>1, <1>2, <1>3, QueueOther

LEMMA QueueDeliver ==
    ASSUME Queue!SoundJobs, NEW j \in Queue!Jobs, Queue!Deliver(j) \/ Queue!Crash(j)
    PROVE  Queue!SoundJobs' /\ Queue!PortfolioOutcomeStands
<1>1. QueueMove(j)
  <2>1. CASE Queue!Deliver(j)
    BY <2>1 DEF QueueMove, Queue!Deliver, Queue!PCs
  <2>2. CASE Queue!Crash(j)
    BY <2>2 DEF QueueMove, Queue!Crash, Queue!Raise, Queue!PCs
  <2> QED BY <2>1, <2>2
<1>2. v7' = v7 /\ v8' = v8 /\ v1' = v1 /\ v2' = v2
  BY DEF Queue!Deliver, Queue!Crash
<1>3. UNCHANGED v4 \/ Queue!Goto(j, "start") \/ Queue!Goto(j, "idle")
  BY DEF Queue!Deliver, Queue!Crash, Queue!Raise
<1>4. Queue!SlotsAreCounted'
  BY <1>2, <1>3, SlotsUntouched DEF Queue!PCs
<1>5. ASSUME j \in Portfolios PROVE Queue!RunIsSound(j)' /\ Stands(j)
  <2>1. v4'[j] = v4[j] \/ v4'[j] \in {"idle", "start"}
    BY <1>3, RunFacts
  <2> QED BY <1>2, <1>5, <2>1, RunFacts DEF Queue!RunIsSound, Stands, Queue!Status, Queue!Terminal
<1> QED BY <1>1, <1>4, <1>5, QueueOther

LEMMA QueueStarts ==
    ASSUME Queue!SoundJobs, NEW j \in Queue!Jobs,
           Queue!StartBacktest(j) \/ Queue!StartResearch(j) \/ Queue!StartPortfolio(j)
    PROVE  Queue!SoundJobs' /\ Queue!PortfolioOutcomeStands
<1>1. /\ UNCHANGED v1 \/ v1' = [v1 EXCEPT ![j] = [status |-> "running", stale |-> FALSE]]
      /\ UNCHANGED v3 \/ \E s \in {"queued", "done"} : v3' = [v3 EXCEPT ![j].state = s]
      /\ \E p \in {"idle", "mark", "slots", "work"} : Queue!Goto(j, p)
      /\ UNCHANGED <<v2, v5, v6, v7, v8, v9, v10>>
  <2>1. CASE Queue!StartBacktest(j)
    BY <2>1 DEF Queue!StartBacktest, Queue!Return
  <2>2. CASE Queue!StartResearch(j)
    BY <2>2 DEF Queue!StartResearch, Queue!Return
  <2>3. CASE Queue!StartPortfolio(j)
    BY <2>3 DEF Queue!StartPortfolio, Queue!Return, Queue!Raise
  <2> QED BY <2>1, <2>2, <2>3
<1>2. QueueMove(j)
  BY <1>1 DEF QueueMove, Queue!PCs
<1>3. Queue!SlotsAreCounted'
  BY <1>1, SlotsUntouched DEF Queue!PCs
<1>4. ASSUME j \in Portfolios PROVE Queue!RunIsSound(j)' /\ Stands(j)
  <2>1. Queue!StartPortfolio(j)
    BY <1>4, RunFacts DEF Queue!StartBacktest, Queue!StartResearch
  <2>2. CASE Queue!MarkRunRunning(j)
    <3>1. v1[j].status \in {"pending", "running"} /\ v4'[j] = "slots"
      BY <2>1, <2>2, RunFacts DEF Queue!StartPortfolio, Queue!MarkRunRunning, Queue!Status, Queue!Live
    <3>2. v1'[j].status = "running"
      BY <2>1, <2>2, QueueFacts DEF Queue!StartPortfolio
    <3> QED BY <1>1, <1>4, <3>1, <3>2, RunFacts DEF Queue!RunIsSound, Stands, Queue!Status, Queue!Terminal
  <2>3. CASE ~Queue!MarkRunRunning(j)
    <3>1. v1' = v1 /\ v4'[j] = "idle"
      BY <2>1, <2>3, RunFacts DEF Queue!StartPortfolio, Queue!Return, Queue!Raise
    <3> QED BY <1>1, <1>4, <3>1, RunFacts DEF Queue!RunIsSound, Stands, Queue!Status, Queue!Terminal
  <2> QED BY <2>2, <2>3
<1> QED BY <1>2, <1>3, <1>4, QueueOther

\* The row, the request and the queue's entry stay, and the worker goes on.
LEMMA QueueGoesOn ==
    ASSUME Queue!SoundJobs, NEW j \in Queue!Jobs, UNCHANGED <<v1, v2, v3, v5, v6, v9>>,
           UNCHANGED v10 \/ Queue!Fault, v7' \subseteq v7 \cup {j}, Queue!SlotsAreCounted',
           UNCHANGED v4 \/ \E p \in Queue!PCs \ {"failing"} : Queue!Goto(j, p) /\ v4[j] \notin {"idle", "start"}
    PROVE  Queue!SoundJobs' /\ Queue!PortfolioOutcomeStands
<1>1. QueueMove(j)
  BY DEF QueueMove
<1>2. ASSUME j \in Portfolios PROVE Queue!RunIsSound(j)' /\ Stands(j)
  <2>1. v4'[j] = v4[j] \/ (v4'[j] # "failing" /\ v4[j] \notin {"idle", "start"})
    BY RunFacts
  <2> QED BY <1>2, <2>1, RunFacts DEF Queue!RunIsSound, Stands, Queue!Status, Queue!Terminal
<1> QED BY <1>1, <1>2, QueueOther

LEMMA QueueReadUsage ==
    ASSUME Queue!SoundJobs, NEW j \in Queue!Jobs, Queue!ReadUsage(j)
    PROVE  Queue!SoundJobs' /\ Queue!PortfolioOutcomeStands
<1>1. /\ UNCHANGED <<v1, v2, v3, v5, v6, v7, v9, v10>> /\ Queue!Goto(j, "lease") /\ v4[j] = "slots"
      /\ Queue!Fits(j) /\ v8' = (v8 \/ \E k \in Queue!Jobs : v4[k] = "lease")
  BY DEF Queue!ReadUsage, Queue!At
<1>2. Queue!SlotsAreCounted'
  <2>1. Queue!SlotsAreCounted
    BY DEF Queue!SoundJobs
  <2>2. \A k \in Queue!Jobs : ~v8' => (v4'[k] = "lease" <=> k = j)
    BY <1>1, QueueFacts DEF Queue!Goto
  <2>3. Queue!Taken(v7)' = Queue!Taken(v7) /\ Queue!Used(v7)' = Queue!Used(v7) /\ Queue!Fits(j)' = Queue!Fits(j)
    BY <1>1 DEF Queue!Taken, Queue!Used, Queue!Fits
  <2> QED BY <1>1, <2>1, <2>2, <2>3 DEF Queue!SlotsAreCounted, Queue!At
<1> QED BY <1>1, <1>2, QueueGoesOn DEF Queue!PCs

LEMMA QueueTakeLease ==
    ASSUME Queue!SoundJobs, NEW j \in Queue!Jobs, Queue!TakeLease(j)
    PROVE  Queue!SoundJobs' /\ Queue!PortfolioOutcomeStands
<1>1. /\ UNCHANGED <<v1, v2, v3, v5, v6, v8, v9, v10>> /\ Queue!Goto(j, "work") /\ v4[j] = "lease"
      /\ v7' = v7 \cup {j}
  BY DEF Queue!TakeLease, Queue!At
<1>2. Queue!SlotsAreCounted'
  <2>1. Queue!SlotsAreCounted
    BY DEF Queue!SoundJobs
  <2>2. IsFiniteSet(Queue!Taken(v7))
    BY <2>1, QueueCounts DEF Queue!SlotsAreCounted
  <2>3. /\ IsFiniteSet(Queue!Taken(v7 \cup {j})) /\ Slots[j] \in Nat /\ Queue!Used(v7 \cup {j}) \in Nat
        /\ Queue!Used(v7) \in Nat /\ Queue!Used(v7 \cup {j}) <= Queue!Used(v7) + Slots[j]
    BY <2>2, UsedMore
  <2>4. ASSUME ~v8 PROVE Queue!Used(v7) + Slots[j] <= ComputeSlots /\ \A k \in Queue!Jobs : v4'[k] # "lease"
    <3>1. Queue!Fits(j) /\ \A k \in Queue!Jobs : v4[k] = "lease" => k = j
      BY <1>1, <2>1, <2>4 DEF Queue!SlotsAreCounted, Queue!At
    <3>2. \A k \in Queue!Jobs : v4'[k] # "lease"
      BY <1>1, <3>1, QueueFacts DEF Queue!Goto
    <3> QED BY <3>1, <3>2 DEF Queue!Fits
  <2>5. ~v8 => Queue!Used(v7 \cup {j}) <= ComputeSlots
    BY <2>3, <2>4, JobsAssumption
  <2>6. Queue!Taken(v7)' = Queue!Taken(v7 \cup {j}) /\ Queue!Used(v7)' = Queue!Used(v7 \cup {j})
    BY <1>1 DEF Queue!Taken, Queue!Used
  <2>7. Queue!IsFiniteSet(Queue!Taken(v7 \cup {j}))
    BY <2>3, QueueCounts
  <2> QED BY <1>1, <2>4, <2>5, <2>6, <2>7 DEF Queue!SlotsAreCounted, Queue!At
<1> QED BY <1>1, <1>2, QueueGoesOn DEF Queue!PCs

LEMMA QueueWaits ==
    ASSUME Queue!SoundJobs, NEW j \in Queue!Jobs, Queue!NoSlots(j) \/ Queue!ExpireLease(j) \/ Queue!Work(j)
    PROVE  Queue!SoundJobs' /\ Queue!PortfolioOutcomeStands
<1>1. /\ UNCHANGED <<v1, v2, v3, v5, v6, v9>> /\ v7' \subseteq v7 /\ (v8 => v8')
      /\ UNCHANGED v10 \/ Queue!Fault
      /\ UNCHANGED v4 \/ \E p \in {"fail", "final", "raise"} : Queue!Goto(j, p) /\ v4[j] \in {"slots", "work"}
  <2>1. CASE Queue!NoSlots(j)
    BY <2>1 DEF Queue!NoSlots, Queue!At
  <2>2. CASE Queue!ExpireLease(j)
    BY <2>2 DEF Queue!ExpireLease
  <2>3. CASE Queue!Work(j)
    BY <2>3 DEF Queue!Work, Queue!At
  <2> QED BY <2>1, <2>2, <2>3
<1>2. Queue!SlotsAreCounted'
  BY <1>1, SlotsUntouched DEF Queue!PCs
<1> QED BY <1>1, <1>2, QueueGoesOn DEF Queue!PCs

LEMMA QueueBeats ==
    ASSUME Queue!SoundJobs, NEW j \in Queue!Jobs, Queue!Heartbeat(j) \/ Queue!Age(j)
    PROVE  Queue!SoundJobs' /\ Queue!PortfolioOutcomeStands
<1>1. /\ \E b \in BOOLEAN : v1' = [v1 EXCEPT ![j].stale = b]
      /\ UNCHANGED <<v2, v3, v4, v5, v7, v8, v9>> /\ (UNCHANGED v10 \/ Queue!Fault)
      /\ UNCHANGED v6 \/ (j \in Researches /\ v6' = v6 \cup {j})
  BY DEF Queue!Heartbeat, Queue!Age
<1>2. QueueMove(j)
  BY <1>1 DEF QueueMove
<1>3. Queue!SlotsAreCounted'
  BY <1>1, SlotsUntouched
<1>4. v1'[j].status = v1[j].status
  BY <1>1, QueueFacts
<1>5. ASSUME j \in Portfolios PROVE Queue!RunIsSound(j)' /\ Stands(j)
  BY <1>1, <1>4, <1>5, RunFacts DEF Queue!RunIsSound, Stands, Queue!Status, Queue!Terminal
<1> QED BY <1>2, <1>3, <1>5, QueueOther

LEMMA QueueEnds ==
    ASSUME Queue!SoundJobs, NEW j \in Queue!Jobs,
           Queue!Finalize(j) \/ Queue!FinalizePortfolio(j) \/ Queue!MarkFailed(j) \/ Queue!MarkRunFailed(j)
    PROVE  Queue!SoundJobs' /\ Queue!PortfolioOutcomeStands
<1>1. /\ UNCHANGED v1 \/ \E s \in {"completed", "cancelled", "failed"} : Queue!Write(j, s)
      /\ \E p \in {"release", "failing"} : Queue!Goto(j, p)
      /\ UNCHANGED <<v2, v3, v5, v6, v7, v8, v9, v10>>
  <2>1. CASE Queue!Finalize(j)
    BY <2>1 DEF Queue!Finalize
  <2>2. CASE Queue!FinalizePortfolio(j)
    BY <2>2 DEF Queue!FinalizePortfolio
  <2>3. CASE Queue!MarkFailed(j)
    BY <2>3 DEF Queue!MarkFailed
  <2>4. CASE Queue!MarkRunFailed(j)
    BY <2>4 DEF Queue!MarkRunFailed
  <2> QED BY <2>1, <2>2, <2>3, <2>4
<1>2. QueueMove(j)
  BY <1>1 DEF QueueMove, Queue!PCs
<1>3. Queue!SlotsAreCounted'
  BY <1>1, SlotsUntouched DEF Queue!PCs
<1>4. ASSUME j \in Portfolios PROVE Queue!RunIsSound(j)' /\ Stands(j)
  <2>1. Queue!FinalizePortfolio(j) \/ Queue!MarkRunFailed(j)
    BY <1>4 DEF Queue!Finalize, Queue!MarkFailed
  <2>2. CASE Queue!FinalizePortfolio(j)
    <3>1. /\ v4[j] = "final" /\ v4'[j] = "release"
          /\ v1' = v1 \/ (v1[j].status \in {"pending", "running"} /\ v1'[j].status = "completed")
      BY <2>2, RunFacts DEF Queue!FinalizePortfolio, Queue!MarkRunCompleted, Queue!Live, Queue!Status, Queue!At
    <3> QED BY <1>1, <1>4, <3>1, RunFacts DEF Queue!RunIsSound, Stands, Queue!Status, Queue!Terminal
  <2>3. CASE Queue!MarkRunFailed(j)
    <3>1. \/ /\ v4[j] = "fail" /\ v1' = v1
             /\ v4'[j] = IF v1[j].status \in Queue!Terminal THEN "release" ELSE "failing"
          \/ v4[j] = "failing" /\ v4'[j] = "release" /\ v1'[j].status = "failed"
      BY <2>3, RunFacts DEF Queue!MarkRunFailed, Queue!Status, Queue!At
    <3> QED BY <1>1, <1>4, <3>1, RunFacts DEF Queue!RunIsSound, Stands, Queue!Status, Queue!Terminal
  <2> QED BY <2>1, <2>2, <2>3
<1> QED BY <1>2, <1>3, <1>4, QueueOther

LEMMA QueueRelease ==
    ASSUME Queue!SoundJobs, NEW j \in Queue!Jobs, Queue!Release(j)
    PROVE  Queue!SoundJobs' /\ Queue!PortfolioOutcomeStands
<1>1. /\ UNCHANGED <<v1, v2, v5, v6, v8, v9, v10>> /\ v7' \subseteq v7 /\ Queue!Goto(j, "idle")
      /\ \E s \in {"queued", "done"} : v3' = [v3 EXCEPT ![j].state = s]
  BY DEF Queue!Release, Queue!Raise, Queue!Return
<1>2. QueueMove(j)
  BY <1>1 DEF QueueMove, Queue!PCs
<1>3. Queue!SlotsAreCounted'
  BY <1>1, SlotsUntouched DEF Queue!PCs
<1>4. ASSUME j \in Portfolios PROVE Queue!RunIsSound(j)' /\ Stands(j)
  <2>1. v4'[j] = "idle"
    BY <1>1, RunFacts
  <2> QED BY <1>1, <1>4, <2>1, RunFacts DEF Queue!RunIsSound, Stands, Queue!Status, Queue!Terminal
<1> QED BY <1>2, <1>3, <1>4, QueueOther

LEMMA QueueWatchdog ==
    ASSUME Queue!SoundJobs, Queue!Watchdog \/ UNCHANGED <<v1, v2, v3, v4, v5, v6, v7, v8, v9, v10>>
    PROVE  Queue!SoundJobs' /\ Queue!PortfolioOutcomeStands
<1>1. /\ UNCHANGED <<v2, v3, v4, v5, v6, v7, v8, v10>> /\ v9' \subseteq Queue!Jobs \ Portfolios
      /\ \/ UNCHANGED v1
         \/ v1' = [j \in Queue!Jobs |-> IF j \in v9 THEN [v1[j] EXCEPT !.status = "failed"] ELSE v1[j]]
  BY QueueFacts DEF Queue!Watchdog, Queue!Scan, Queue!ScanCommit
<1> DEFINE Rows == [status : {"completed", "failed", "cancelled", "pending", "running", "absent"}, stale : BOOLEAN]
<1>2. v1 \in [Queue!Jobs -> Rows] /\ v9 \subseteq Queue!Jobs \ Portfolios
  BY QueueFacts
<1>3. v1' \in [Queue!Jobs -> Rows]
  <2>1. \A j \in Queue!Jobs : [v1[j] EXCEPT !.status = "failed"] \in Rows
    BY <1>2
  <2> HIDE DEF Rows
  <2> QED BY <1>1, <1>2, <2>1
<1>4. Queue!JobsAreTyped'
  BY <1>1, <1>3 DEF Queue!SoundJobs, Queue!JobsAreTyped, Queue!TypeOK, Queue!Terminal, Queue!Live
<1>5. Queue!SlotsAreCounted'
  BY <1>1, SlotsStay
<1>6. ASSUME NEW k \in Portfolios PROVE Queue!RunIsSound(k)' /\ Stands(k)
  <2>1. k \in Queue!Jobs /\ Queue!RunIsSound(k)
    BY DEF Queue!Jobs, Queue!SoundJobs
  <2>2. v1'[k] = v1[k]
    BY <1>1, <1>2, <2>1
  <2> QED BY <1>1, <2>1, <2>2 DEF Queue!RunIsSound, Stands, Queue!Status, Queue!Terminal
<1> QED BY <1>4, <1>5, <1>6 DEF Queue!SoundJobs, Queue!PortfolioOutcomeStands, Stands

LEMMA QueueStart == ASSUME Queue!Init PROVE Queue!SoundJobs
<1>1. Queue!JobsAreTyped
  BY SyncAssumption, OnboardAssumption
     DEF Queue!Init, Queue!JobsAreTyped, Queue!TypeOK, Queue!PCs, Queue!Terminal, Queue!Live
<1>2. Queue!SlotsAreCounted
  <2>1. v7 = {} /\ \A j \in Queue!Jobs : v4[j] = "idle"
    BY DEF Queue!Init
  <2>2. Queue!Taken(v7) = {}
    BY <2>1 DEF Queue!Taken
  <2>3. IsFiniteSet({}) /\ Cardinality({}) = 0
    BY FS_EmptySet
  <2>4. Queue!Used(v7) = 0 /\ Queue!IsFiniteSet(Queue!Taken(v7))
    BY <2>2, <2>3, QueueCounts DEF Queue!Used
  <2> QED BY <2>1, <2>4, JobsAssumption DEF Queue!SlotsAreCounted, Queue!At
<1>3. \A j \in Portfolios : Queue!RunIsSound(j)
  <2>1. \A j \in Portfolios : j \in Queue!Jobs
    BY DEF Queue!Jobs
  <2> QED BY <2>1 DEF Queue!Init, Queue!RunIsSound, Queue!Status
<1> QED BY <1>1, <1>2, <1>3 DEF Queue!SoundJobs

LEMMA QueueStep ==
    ASSUME Queue!SoundJobs, Queue!Next PROVE Queue!SoundJobs' /\ Queue!PortfolioOutcomeStands
<1>1. ASSUME NEW j \in Queue!Jobs, Queue!Worker(j) PROVE Queue!SoundJobs' /\ Queue!PortfolioOutcomeStands
  BY <1>1, QueueStarts, QueueReadUsage, QueueTakeLease, QueueWaits, QueueEnds, QueueRelease DEF Queue!Worker
<1> QED BY <1>1, QueueApi, QueueDeliver, QueueWaits, QueueBeats, QueueWatchdog DEF Queue!Next
(* PortfolioRun.  v1: ask, v2: row, v3: pc, v4: member, v5: window, v6: left, *)
(* v7: asked, v8: told, v9: err, v10: early, v11: faults.                     *)

\* Every range has a number of windows, and one that create_run admits has at least one.
LEMMA WindowsOfRange ==
    ASSUME NEW d \in Nat
    PROVE  Fan!WindowCount(d) \in Nat /\ (d >= 90 => Fan!WindowCount(d) >= 1)
<1>1. PICK te, tr : te = Fan!TestDays(d) /\ tr = Fan!TrainDays(d)
  OBVIOUS
<1>2. te \in Nat /\ te >= 30
  BY <1>1 DEF Fan!TestDays, Fan!Largest
<1>3. tr \in Nat /\ tr >= 30
  BY <1>1, <1>2 DEF Fan!TrainDays, Fan!Largest, Fan!Least
<1>4. d >= 90 => tr + te <= d
  BY <1>1, <1>2 DEF Fan!TrainDays, Fan!TestDays, Fan!Largest, Fan!Least
<1>5. Fan!WindowCount(d) = IF tr + te > d THEN 0 ELSE (d - tr - te) \div te + 1
  BY <1>1 DEF Fan!WindowCount
<1>6. tr + te <= d => (d - tr - te) \div te \in Nat
  <2> SUFFICES ASSUME tr + te <= d PROVE (d - tr - te) \div te \in Nat
    OBVIOUS
  <2>1. d - tr - te \in Nat
    BY <1>2, <1>3
  <2> PICK n \in Nat : n = d - tr - te
    BY <2>1
  <2>2. n \div te \in Nat
    BY <1>2
  <2> QED BY <2>2
<1> QED BY <1>2, <1>3, <1>4, <1>5, <1>6

LEMMA Division ==
    ASSUME NEW t \in Nat, NEW w \in Nat, w >= 1
    PROVE  t \div w \in Nat /\ t % w \in Nat /\ t % w < w /\ t = (w * (t \div w)) + (t % w)
  OBVIOUS

LEMMA RequestFacts ==
    ASSUME v1 \in Fan!Requests
    PROVE  /\ v1.days \in Nat /\ v1.trials \in Nat /\ v1.lease \in Nat /\ v1.lease >= 1
           /\ v1.full => v1.days >= 90
<1>1. v1 \in [full : BOOLEAN, days : Ranges, trials : TrialCounts, par : Parallelism, lease : Leases]
  BY DEF Fan!Requests
<1>2. v1.days \in Ranges /\ v1.trials \in TrialCounts /\ v1.lease \in Leases
  BY <1>1
<1>3. v1.full => v1.days >= 90
  BY Zenon DEF Fan!Requests
<1>4. \A n \in Nat : n # 0 => n >= 1
  OBVIOUS
<1> QED BY <1>2, <1>3, <1>4, RunAssumption

LEMMA FanFacts ==
    ASSUME Fan!SoundRun
    PROVE  /\ Fan!TypeOK /\ v1 \in Fan!Requests /\ v7 \in Nat /\ v8 \in Nat /\ v6 \in Nat /\ v5 \in Nat
           /\ v5 <= Fan!WindowCount(v1.days) /\ v8 <= v7 /\ v11 \in 0..MaxJobFaults /\ MaxJobFaults \in Nat
           /\ v4 \in [Members -> {"wait", "run", "ok", "failed"}]
           /\ v1.days \in Nat /\ v1.trials \in Nat /\ v1.lease \in Nat /\ v1.lease >= 1
           /\ Fan!WindowCount(v1.days) \in Nat /\ (v1.full => Fan!WindowCount(v1.days) >= 1)
           /\ Fan!TrialsAreCounted /\ Fan!OutcomeIsWhole /\ Fan!PoolWithinLease /\ v9 # "no windows"
<1>1. /\ v1 \in Fan!Requests /\ v7 \in Nat /\ v8 \in Nat /\ v6 \in Nat /\ v5 \in 0..Fan!WindowCount(v1.days)
      /\ v8 <= v7 /\ v11 \in 0..MaxJobFaults
      /\ v4 \in [Members -> {"wait", "run", "ok", "failed"}]
      /\ Fan!TrialsAreCounted /\ Fan!OutcomeIsWhole /\ Fan!PoolWithinLease /\ v9 # "no windows" /\ Fan!TypeOK
  BY DEF Fan!SoundRun, Fan!TypeOK
<1>2. v1.days \in Nat /\ v1.trials \in Nat /\ v1.lease \in Nat /\ v1.lease >= 1 /\ (v1.full => v1.days >= 90)
  BY <1>1, RequestFacts
<1> PICK n : n = Fan!WindowCount(v1.days)
  OBVIOUS
<1>3. n \in Nat
  BY <1>2, WindowsOfRange
<1>5. v1.full => n >= 1
  BY <1>2, WindowsOfRange
<1>6. v5 \in 0..n
  BY <1>1
<1>4. v5 \in Nat /\ v5 <= n
  BY <1>3, <1>6
<1> QED BY <1>1, <1>2, <1>3, <1>4, <1>5, SyncAssumption

\* The windows share the trials out exactly.
LEMMA WindowsShareTrials ==
    ASSUME Fan!SoundRun, v1.full, NEW w \in Nat
    PROVE  /\ Fan!Planned(0) = 0 /\ Fan!Planned(Fan!WindowCount(v1.days)) = v1.trials
           /\ Fan!Planned(w) \in Nat /\ Fan!TrialsIn(w + 1) \in Nat
           /\ Fan!Planned(w + 1) = Fan!Planned(w) + Fan!TrialsIn(w + 1)
<1>1. PICK t, n : t = v1.trials /\ n = Fan!WindowCount(v1.days)
  OBVIOUS
<1>2. t \in Nat /\ n \in Nat /\ n >= 1
  BY <1>1, FanFacts
<1>3. PICK q, r : q = t \div n /\ r = t % n
  OBVIOUS
<1>4. q \in Nat /\ r \in Nat /\ r < n /\ t = (n * q) + r
  BY <1>2, <1>3, Division
<1>5. \A x : Fan!Planned(x) = x * q + Fan!Least(x, r)
  BY <1>1, <1>3 DEF Fan!Planned
<1>6. \A x : Fan!TrialsIn(x) = q + (IF x <= r THEN 1 ELSE 0)
  BY <1>1, <1>3 DEF Fan!TrialsIn
<1>7. Fan!Planned(0) = 0
  BY <1>4, <1>5 DEF Fan!Least
<1>8. Fan!Planned(n) = t
  BY <1>2, <1>4, <1>5 DEF Fan!Least
<1>9. w * q \in Nat /\ (w + 1) * q = w * q + q
  BY <1>4
<1>10. Fan!Least(w, r) \in Nat /\ Fan!Least(w + 1, r) = Fan!Least(w, r) + (IF w + 1 <= r THEN 1 ELSE 0)
  BY <1>4 DEF Fan!Least
<1>11. Fan!Planned(w) = w * q + Fan!Least(w, r) /\ Fan!Planned(w + 1) = (w + 1) * q + Fan!Least(w + 1, r)
       /\ Fan!TrialsIn(w + 1) = q + (IF w + 1 <= r THEN 1 ELSE 0)
  BY <1>5, <1>6
<1>12. Fan!Planned(w) \in Nat /\ Fan!TrialsIn(w + 1) \in Nat /\ Fan!Planned(w + 1) = Fan!Planned(w) + Fan!TrialsIn(w + 1)
  BY <1>4, <1>9, <1>10, <1>11
<1> QED BY <1>1, <1>7, <1>8, <1>12

LEMMA FanCounts ==
    /\ \A S : Fan!Cardinality(S) = Cardinality(S)
    /\ \A s : IsFiniteSet(Fan!In(s)) /\ Cardinality(Fan!In(s)) \in Nat
<1>1. \A S : Fan!Cardinality(S) = Cardinality(S)
  BY Zenon DEF Fan!Cardinality, Cardinality
<1>2. ASSUME NEW s PROVE IsFiniteSet(Fan!In(s)) /\ Cardinality(Fan!In(s)) \in Nat
  <2>1. Fan!In(s) \subseteq Members /\ IsFiniteSet(Members)
    BY RunAssumption DEF Fan!In
  <2>2. IsFiniteSet(Fan!In(s))
    BY <2>1, FS_Subset
  <2> QED BY <2>2, FS_CardinalityType
<1> QED BY <1>1, <1>2

\* The members stay as they are.
LEMMA MembersStay ==
    ASSUME UNCHANGED v4
    PROVE  \A s : Fan!In(s)' = Fan!In(s)
  BY DEF Fan!In

LEMMA FanKept ==
    ASSUME Fan!SoundRun, UNCHANGED <<v1, v4>>, Fan!TypeOK', v7' \in Nat, v8' \in Nat,
           Fan!TrialsAreCounted', Fan!OutcomeIsWhole', v9' # "no windows"
    PROVE  Fan!SoundRun'
<1>1. Fan!PoolWithinLease'
  BY FanFacts, MembersStay DEF Fan!PoolWithinLease
<1> QED BY <1>1 DEF Fan!SoundRun

\* What the windows and trials were planned from stays.
LEMMA PlanStays ==
    ASSUME UNCHANGED v1
    PROVE  /\ \A w : Fan!Planned(w)' = Fan!Planned(w) /\ Fan!TrialsIn(w)' = Fan!TrialsIn(w)
           /\ Fan!WindowCount(v1.days)' = Fan!WindowCount(v1.days)
<1> PICK d : d = v1.days
  OBVIOUS
<1>1. v1.days = d /\ v1.days' = d
  OBVIOUS
<1>2. Fan!WindowCount(v1.days)' = Fan!WindowCount(v1.days)
  BY <1>1 DEF Fan!WindowCount, Fan!TrainDays, Fan!TestDays, Fan!Largest, Fan!Least
<1>3. \A w : Fan!Planned(w)' = Fan!Planned(w) /\ Fan!TrialsIn(w)' = Fan!TrialsIn(w)
  BY <1>2, Zenon DEF Fan!Planned, Fan!TrialsIn, Fan!Least
<1> QED BY <1>2, <1>3

LEMMA FanTyped ==
    ASSUME Fan!SoundRun, UNCHANGED v1, v2' \in Fan!Live \cup {"completed", "failed", "cancelled"},
           v3' \in {"idle", "load", "warm", "fan", "gather", "window", "trial", "tell", "store", "fail", "end"},
           v4' \in [Members -> {"wait", "run", "ok", "failed"}],
           v5' \in 0..Fan!WindowCount(v1.days), v6' \in Nat, v8' <= v7',
           v9' \in {"none", "allocations", "catalog", "cancelled", "member", "no windows", "journal"},
           v10' \in BOOLEAN, v11' \in 0..MaxJobFaults
    PROVE  Fan!TypeOK'
<1>1. Fan!WindowCount(v1.days)' = Fan!WindowCount(v1.days)
  BY PlanStays
<1>2. v1' \in Fan!Requests
  BY FanFacts
<1>3. v5' \in 0..Fan!WindowCount(v1.days)'
  BY <1>1
<1> QED BY <1>2, <1>3 DEF Fan!TypeOK

LEMMA FaultIsBounded ==
    ASSUME Fan!SoundRun, UNCHANGED v11 \/ Fan!Fault PROVE v11' \in 0..MaxJobFaults
<1>1. v11 \in 0..MaxJobFaults /\ MaxJobFaults \in Nat
  BY FanFacts
<1>2. v11' = v11 \/ (v11 < MaxJobFaults /\ v11' = v11 + 1)
  BY DEF Fan!Fault
<1> QED BY <1>1, <1>2

LEMMA FanStart == ASSUME Fan!Init PROVE Fan!SoundRun
<1>1. v1 \in Fan!Requests /\ v2 = "pending" /\ v3 = "idle" /\ v5 = 0 /\ v6 = 0 /\ v7 = 0 /\ v8 = 0
      /\ v9 = "none" /\ v10 = FALSE /\ v11 = 0 /\ v4 = [m \in Members |-> "wait"]
  BY DEF Fan!Init
<1>2. v1.days \in Nat /\ v1.lease \in Nat
  BY <1>1, RequestFacts
<1>3. Fan!WindowCount(v1.days) \in Nat
  BY <1>2, WindowsOfRange
<1>4. Fan!TypeOK
  <2>1. 0 \in 0..Fan!WindowCount(v1.days) /\ 0 \in 0..MaxJobFaults
    BY <1>3, SyncAssumption
  <2>2. v5 \in 0..Fan!WindowCount(v1.days) /\ v6 \in Nat /\ v8 <= v7 /\ v11 \in 0..MaxJobFaults
    BY <1>1, <2>1
  <2>3. v4 \in [Members -> {"wait", "run", "ok", "failed"}] /\ v10 \in BOOLEAN
    BY <1>1
  <2> QED BY <1>1, <2>2, <2>3 DEF Fan!TypeOK, Fan!Live
<1>5. Fan!PoolWithinLease
  <2>1. Fan!In("run") = {}
    BY <1>1 DEF Fan!In
  <2>2. Cardinality({}) = 0
    BY FS_EmptySet
  <2> QED BY <1>2, <2>1, <2>2, FanCounts DEF Fan!PoolWithinLease
<1>6. Fan!TrialsAreCounted /\ Fan!OutcomeIsWhole
  BY <1>1 DEF Fan!TrialsAreCounted, Fan!OutcomeIsWhole, Fan!BeforeTrials, Fan!Optimizing
<1> QED BY <1>1, <1>4, <1>5, <1>6 DEF Fan!SoundRun

\* The worker's steps before the trials, and those that end it.
LEMMA FanPrepares ==
    ASSUME Fan!SoundRun, Fan!Start \/ Fan!Load \/ Fan!WarmCatalog \/ Fan!FanOut
    PROVE  Fan!SoundRun'
<1>1. /\ UNCHANGED <<v1, v4, v5, v6, v7, v8, v10>> /\ v3 \in {"idle", "load", "warm", "fan"}
      /\ v2' = v2 \/ (v2 = "pending" /\ v2' = "running")
      /\ \/ v3' \in {"load", "warm", "fan", "gather"} /\ v9' = v9
         \/ v3' = "fail" /\ v9' \in {"allocations", "catalog", "cancelled"}
      /\ UNCHANGED v11 \/ Fan!Fault
  <2>1. CASE Fan!Start
    BY <2>1 DEF Fan!Start
  <2>2. CASE Fan!Load
    BY <2>2 DEF Fan!Load, Fan!GiveUp
  <2>3. CASE Fan!WarmCatalog
    BY <2>3 DEF Fan!WarmCatalog, Fan!GiveUp
  <2>4. CASE Fan!FanOut
    BY <2>4 DEF Fan!FanOut, Fan!GiveUp, Fan!PollOnLoop
  <2> QED BY <2>1, <2>2, <2>3, <2>4
<1>2. Fan!TypeOK'
  BY <1>1, FanFacts, FaultIsBounded, FanTyped DEF Fan!TypeOK, Fan!Live
<1>3. /\ v5 = 0 /\ v7 = 0 /\ v8 = 0 /\ v6 = 0 /\ v2 # "completed"
  BY <1>1, FanFacts DEF Fan!TrialsAreCounted, Fan!OutcomeIsWhole, Fan!BeforeTrials
<1>4. Fan!TrialsAreCounted' /\ Fan!OutcomeIsWhole'
  BY <1>1, <1>3 DEF Fan!TrialsAreCounted, Fan!OutcomeIsWhole, Fan!BeforeTrials, Fan!Optimizing
<1> QED BY <1>1, <1>2, <1>4, FanFacts, FanKept

LEMMA FanGather ==
    ASSUME Fan!SoundRun, Fan!Gather
    PROVE  Fan!SoundRun'
<1>1. /\ UNCHANGED <<v1, v2, v4, v5, v6, v7, v8, v10, v11>> /\ v3 = "gather"
      /\ Fan!In("wait") \cup Fan!In("run") = {}
      /\ \/ v3' = "fail" /\ v9' = "member"
         \/ /\ Fan!In("failed") = {} /\ v9' = v9
            /\ v3' = (IF v1.full THEN "window" ELSE "store")
  <2>1. ASSUME v1.full PROVE Fan!WindowCount(v1.days) # 0
    <3>1. Fan!WindowCount(v1.days) \in Nat /\ Fan!WindowCount(v1.days) >= 1
      BY <2>1, FanFacts
    <3> HIDE DEF Fan!WindowCount
    <3> QED BY <3>1
  <2> HIDE DEF Fan!WindowCount
  <2>2. CASE Fan!In("failed") # {}
    BY <2>2 DEF Fan!Gather, Fan!GiveUp, Fan!AllSucceeded
  <2>3. CASE Fan!In("failed") = {}
    BY <2>1, <2>3 DEF Fan!Gather, Fan!GiveUp, Fan!AllSucceeded
  <2> QED BY <2>2, <2>3
<1>2. Fan!TypeOK'
  BY <1>1, FanFacts, FaultIsBounded, FanTyped DEF Fan!TypeOK, Fan!Live
<1>3. /\ v5 = 0 /\ v7 = 0 /\ v8 = 0 /\ v6 = 0 /\ v2 # "completed"
  BY <1>1, FanFacts DEF Fan!TrialsAreCounted, Fan!OutcomeIsWhole, Fan!BeforeTrials
<1>4. v3' # "fail" => Fan!In("ok")' = Members
  <2>1. v3' # "fail" => Fan!In("ok") = Members
    BY <1>1, FanFacts DEF Fan!In
  <2> QED BY <1>1, <2>1, MembersStay
<1>5. v1.full => Fan!Planned(0)' = 0
  <2>1. Fan!Planned(0)' = Fan!Planned(0)
    BY <1>1, PlanStays
  <2> QED BY <2>1, WindowsShareTrials
<1>6. Fan!TrialsAreCounted'
  BY <1>1, <1>3, <1>5 DEF Fan!TrialsAreCounted, Fan!BeforeTrials, Fan!Optimizing
<1>7. Fan!OutcomeIsWhole'
  BY <1>1, <1>3, <1>4 DEF Fan!OutcomeIsWhole, Fan!Optimizing
<1> QED BY <1>1, <1>2, <1>6, <1>7, FanFacts, FanKept


\* Between two trials every trial asked for has been told.
LEMMA BetweenTrials ==
    ASSUME Fan!SoundRun, v3 \in {"window", "trial"}
    PROVE  /\ v7 = v8 /\ v1.full /\ (v3 = "window" => v6 = 0)
           /\ v2 = "cancelled" \/ v7 + v6 = Fan!Planned(v5)
<1>1. Fan!TrialsAreCounted
  BY FanFacts
<1>2. v3 \in Fan!Optimizing /\ v3 # "tell"
  BY DEF Fan!Optimizing
<1>3. v7 = v8 + (IF v3 = "tell" THEN 1 ELSE 0)
  BY <1>1, <1>2, Zenon DEF Fan!TrialsAreCounted
<1>4. v7 \in Nat /\ v8 \in Nat
  BY FanFacts
<1>5. v7 = v8
  BY <1>2, <1>3, <1>4
<1>6. v1.full
  BY <1>1, <1>2, Zenon DEF Fan!TrialsAreCounted
<1>7. v2 = "cancelled" \/ v7 + v6 = Fan!Planned(v5)
  BY <1>1, <1>2, Zenon DEF Fan!TrialsAreCounted
<1>8. v3 = "window" => v6 = 0
  BY <1>1, Zenon DEF Fan!TrialsAreCounted
<1> QED BY <1>5, <1>6, <1>7, <1>8

LEMMA FanNextWindow ==
    ASSUME Fan!SoundRun, Fan!NextWindow
    PROVE  Fan!SoundRun'
<1> PICK n : n = Fan!WindowCount(v1.days)
  OBVIOUS
<1>1. /\ UNCHANGED <<v1, v2, v4, v7, v8, v9, v10>> /\ v3 = "window" /\ (UNCHANGED v11 \/ Fan!Fault)
      /\ \/ v3' = "store" /\ v5' = v5 /\ v6' = v6 /\ (v5 = n \/ v2 = "cancelled")
         \/ v5 # n /\ v3' = "trial" /\ v5' = v5 + 1 /\ v6' = Fan!TrialsIn(v5 + 1)
  BY DEF Fan!NextWindow, Fan!PollInThread
<1>2. /\ v5 \in Nat /\ v6 = 0 /\ v7 \in Nat /\ v8 \in Nat /\ v7 = v8 /\ v1.full
      /\ v2 = "cancelled" \/ v7 + v6 = Fan!Planned(v5)
  BY <1>1, FanFacts, BetweenTrials
<1>3. v5 <= n /\ n \in Nat
  BY FanFacts
<1>4. Fan!Planned(n) = v1.trials /\ Fan!TrialsIn(v5 + 1) \in Nat /\ Fan!Planned(v5) \in Nat
      /\ Fan!Planned(v5 + 1) = Fan!Planned(v5) + Fan!TrialsIn(v5 + 1)
  BY <1>2, WindowsShareTrials
<1>5. v5' \in 0..n /\ v6' \in Nat
  BY <1>1, <1>2, <1>3, <1>4
<1>6. v11' \in 0..MaxJobFaults
  BY <1>1, FaultIsBounded
<1>7. Fan!TypeOK'
  BY <1>1, <1>2, <1>5, <1>6, FanFacts, FanTyped DEF Fan!TypeOK, Fan!Live
<1>8. Fan!In("ok")' = Members /\ v2 # "completed"
  BY <1>1, FanFacts, MembersStay DEF Fan!OutcomeIsWhole, Fan!Optimizing
<1>9. v3' = "store" => v2 = "cancelled" \/ v7 = v1.trials
  BY <1>1, <1>2, <1>4
<1>10. v3' = "trial" => v2 = "cancelled" \/ v7 + v6' = Fan!Planned(v5')
  BY <1>1, <1>2, <1>4
<1>11. Fan!Planned(v5)' = Fan!Planned(v5')
  BY <1>1 DEF Fan!Planned, Fan!WindowCount, Fan!TrainDays, Fan!TestDays, Fan!Largest, Fan!Least
<1>12. Fan!TrialsAreCounted'
  BY <1>1, <1>2, <1>10, <1>11 DEF Fan!TrialsAreCounted, Fan!BeforeTrials, Fan!Optimizing
<1>13. Fan!OutcomeIsWhole'
  BY <1>1, <1>2, <1>8, <1>9 DEF Fan!OutcomeIsWhole, Fan!Optimizing
<1> QED BY <1>1, <1>2, <1>7, <1>12, <1>13, FanFacts, FanKept

LEMMA FanAsk ==
    ASSUME Fan!SoundRun, Fan!Ask
    PROVE  Fan!SoundRun'
<1>1. /\ UNCHANGED <<v1, v2, v4, v5, v8, v9, v10>> /\ v3 = "trial" /\ (UNCHANGED v11 \/ Fan!Fault)
      /\ \/ v6 = 0 /\ v3' = "window" /\ v6' = v6 /\ v7' = v7
         \/ v2 = "cancelled" /\ v3' = "window" /\ v6' = 0 /\ v7' = v7
         \/ v6 # 0 /\ v3' = "tell" /\ v6' = v6 - 1 /\ v7' = v7 + 1
  BY DEF Fan!Ask, Fan!PollInThread
<1>2. /\ v6 \in Nat /\ v7 \in Nat /\ v8 \in Nat /\ v7 = v8 /\ v1.full
      /\ v2 = "cancelled" \/ v7 + v6 = Fan!Planned(v5)
  BY <1>1, FanFacts, BetweenTrials
<1>3. v6' \in Nat /\ v7' \in Nat /\ v8' <= v7' /\ v5' \in 0..Fan!WindowCount(v1.days)
  <2>1. v5 \in Nat /\ v5 <= Fan!WindowCount(v1.days)
    BY FanFacts
  <2>2. v5' \in 0..Fan!WindowCount(v1.days)
    BY <1>1, FanFacts DEF Fan!TypeOK
  <2> QED BY <1>1, <1>2, <2>2
<1>4. v11' \in 0..MaxJobFaults
  BY <1>1, FaultIsBounded
<1>5. Fan!TypeOK'
  BY <1>1, <1>3, <1>4, FanFacts, FanTyped DEF Fan!TypeOK, Fan!Live
<1>6. Fan!In("ok")' = Members /\ v2 # "completed"
  BY <1>1, FanFacts, MembersStay DEF Fan!OutcomeIsWhole, Fan!Optimizing
<1>7. Fan!Planned(v5)' = Fan!Planned(v5)
  BY <1>1 DEF Fan!Planned, Fan!WindowCount, Fan!TrainDays, Fan!TestDays, Fan!Largest, Fan!Least
<1>8. v2 = "cancelled" \/ v7' + v6' = Fan!Planned(v5)
  BY <1>1, <1>2
<1>9. Fan!TrialsAreCounted'
  BY <1>1, <1>2, <1>7, <1>8 DEF Fan!TrialsAreCounted, Fan!BeforeTrials, Fan!Optimizing
<1>10. Fan!OutcomeIsWhole'
  BY <1>1, <1>6 DEF Fan!OutcomeIsWhole, Fan!Optimizing
<1> QED BY <1>1, <1>2, <1>3, <1>5, <1>9, <1>10, FanFacts, FanKept

LEMMA FanTell ==
    ASSUME Fan!SoundRun, Fan!Tell
    PROVE  Fan!SoundRun'
<1>1. /\ UNCHANGED <<v1, v2, v4, v5, v6, v7, v10>> /\ v3 = "tell" /\ (UNCHANGED v11 \/ Fan!Fault)
      /\ \/ v8' = v8 + 1 /\ v3' = "trial" /\ v9' = v9
         \/ v8' \in {v8, v8 + 1} /\ v3' = "fail" /\ v9' = "journal"
  BY DEF Fan!Tell, Fan!GiveUp
<1>2. /\ v6 \in Nat /\ v7 \in Nat /\ v8 \in Nat /\ v7 = v8 + 1 /\ v1.full
      /\ v2 = "cancelled" \/ v7 + v6 = Fan!Planned(v5)
  BY <1>1, FanFacts DEF Fan!TrialsAreCounted, Fan!Optimizing
<1>3. v8' \in Nat /\ v8' <= v7' /\ v6' \in Nat /\ v5' \in 0..Fan!WindowCount(v1.days)
  <2>1. v5' \in 0..Fan!WindowCount(v1.days)
    BY <1>1, FanFacts DEF Fan!TypeOK
  <2> QED BY <1>1, <1>2, <2>1
<1>4. v11' \in 0..MaxJobFaults
  BY <1>1, FaultIsBounded
<1>5. Fan!TypeOK'
  BY <1>1, <1>3, <1>4, FanFacts, FanTyped DEF Fan!TypeOK, Fan!Live
<1>6. Fan!In("ok")' = Members /\ v2 # "completed"
  BY <1>1, FanFacts, MembersStay DEF Fan!OutcomeIsWhole, Fan!Optimizing
<1>7. Fan!Planned(v5)' = Fan!Planned(v5)
  BY <1>1 DEF Fan!Planned, Fan!WindowCount, Fan!TrainDays, Fan!TestDays, Fan!Largest, Fan!Least
<1>8. Fan!TrialsAreCounted'
  BY <1>1, <1>2, <1>7 DEF Fan!TrialsAreCounted, Fan!BeforeTrials, Fan!Optimizing
<1>9. Fan!OutcomeIsWhole'
  BY <1>1, <1>6 DEF Fan!OutcomeIsWhole, Fan!Optimizing
<1> QED BY <1>1, <1>2, <1>3, <1>5, <1>8, <1>9, FanFacts, FanKept

LEMMA MembershipIsBoolean ==
    ASSUME NEW b, NEW e, NEW S, b = (e \in S)
    PROVE  b \in BOOLEAN
<1>1. CASE e \in S
  <2>1. (e \in S) = TRUE
    BY <1>1
  <2> QED BY <2>1
<1>2. CASE e \notin S
  <2>1. (e \in S) = FALSE
    BY <1>2
  <2> QED BY <2>1
<1> QED BY <1>1, <1>2

LEMMA FanEnds ==
    ASSUME Fan!SoundRun, Fan!Store \/ Fan!Fail \/ Fan!Cancel
    PROVE  Fan!SoundRun'
<1>1. /\ UNCHANGED <<v1, v4, v5, v6, v7, v8, v9, v11>>
      /\ \/ v3 = "store" /\ v3' = "end" /\ v10' = v10 /\ v2' = IF v2 \in Fan!Live THEN "completed" ELSE v2
         \/ v3 = "fail" /\ v3' = "end" /\ v10' = v10 /\ v2' = IF v2 \in Fan!Live THEN "failed" ELSE v2
         \/ v2 \in Fan!Live /\ v2' = "cancelled" /\ v10' \in BOOLEAN /\ v3' = v3
  <2>1. CASE Fan!Store
    BY <2>1 DEF Fan!Store, Fan!MayStore
  <2>2. CASE Fan!Fail
    BY <2>2 DEF Fan!Fail
  <2>3. CASE Fan!Cancel
    <3>1. v10' = (v3 \in {"load", "warm", "fan"})
      BY <2>3 DEF Fan!Cancel
    <3>2. v10' \in BOOLEAN
      BY <3>1, MembershipIsBoolean
    <3> QED BY <2>3, <3>2 DEF Fan!Cancel
  <2> QED BY <2>1, <2>2, <2>3
<1>2. Fan!TypeOK'
  <2>1. v5' \in 0..Fan!WindowCount(v1.days)
    BY <1>1, FanFacts DEF Fan!TypeOK
  <2>2. v2' \in Fan!Live \cup {"completed", "failed", "cancelled"} /\ v10' \in BOOLEAN
    BY <1>1, FanFacts DEF Fan!TypeOK
  <2> QED BY <1>1, <2>1, <2>2, FanFacts, FanTyped DEF Fan!TypeOK
<1>3. Fan!In("ok")' = Fan!In("ok") /\ Fan!Planned(v5)' = Fan!Planned(v5)
  <2>1. Fan!Planned(v5)' = Fan!Planned(v5)
    BY <1>1 DEF Fan!Planned, Fan!WindowCount, Fan!TrainDays, Fan!TestDays, Fan!Largest, Fan!Least
  <2> QED BY <1>1, <2>1, MembersStay
<1>4. Fan!TrialsAreCounted /\ Fan!OutcomeIsWhole
  BY FanFacts
<1>5. Fan!TrialsAreCounted'
  BY <1>1, <1>3, <1>4 DEF Fan!TrialsAreCounted, Fan!BeforeTrials, Fan!Optimizing
<1>6. Fan!OutcomeIsWhole'
  BY <1>1, <1>3, <1>4 DEF Fan!OutcomeIsWhole, Fan!Optimizing, Fan!Live
<1> QED BY <1>1, <1>2, <1>5, <1>6, FanFacts, FanKept

\* A member that waits or runs: the run has not ended.
LEMMA FanMembers ==
    ASSUME Fan!SoundRun, NEW m \in Members, Fan!StartMember(m) \/ Fan!EndMember(m)
    PROVE  Fan!SoundRun'
<1>1. /\ UNCHANGED <<v1, v2, v3, v5, v6, v7, v8, v9, v10>> /\ (UNCHANGED v11 \/ Fan!Fault)
      /\ \/ v4[m] = "wait" /\ v4' = [v4 EXCEPT ![m] = "run"] /\ Fan!Cardinality(Fan!In("run")) < Fan!PoolSize
         \/ v4[m] = "run" /\ \E s \in {"ok", "failed"} : v4' = [v4 EXCEPT ![m] = s]
  BY DEF Fan!StartMember, Fan!EndMember
<1>2. v4 \in [Members -> {"wait", "run", "ok", "failed"}]
  BY FanFacts
<1>3. v4' \in [Members -> {"wait", "run", "ok", "failed"}]
  BY <1>1, <1>2
<1>4. Fan!In("ok") # Members
  BY <1>1 DEF Fan!In
<1>5. Fan!TypeOK'
  <2>1. v5' \in 0..Fan!WindowCount(v1.days) /\ v11' \in 0..MaxJobFaults
    BY <1>1, FanFacts, FaultIsBounded DEF Fan!TypeOK
  <2> QED BY <1>1, <1>3, <2>1, FanFacts, FanTyped DEF Fan!TypeOK
<1>6. Fan!TrialsAreCounted'
  <2>1. Fan!Planned(v5)' = Fan!Planned(v5)
    BY <1>1 DEF Fan!Planned, Fan!WindowCount, Fan!TrainDays, Fan!TestDays, Fan!Largest, Fan!Least
  <2> QED BY <1>1, <2>1, FanFacts DEF Fan!TrialsAreCounted, Fan!BeforeTrials, Fan!Optimizing
<1>7. Fan!OutcomeIsWhole'
  BY <1>1, <1>4, FanFacts DEF Fan!OutcomeIsWhole, Fan!Optimizing
<1>8. Fan!PoolWithinLease'
  <2> PICK c, l : c = Cardinality(Fan!In("run")) /\ l = v1.lease
    OBVIOUS
  <2>1. c \in Nat /\ IsFiniteSet(Fan!In("run")) /\ Fan!Cardinality(Fan!In("run")) = c
    BY FanCounts
  <2>2. c <= l /\ l \in Nat /\ l >= 1
    BY <2>1, FanFacts DEF Fan!PoolWithinLease
  <2>3. CASE v4[m] = "wait" /\ v4' = [v4 EXCEPT ![m] = "run"] /\ Fan!Cardinality(Fan!In("run")) < Fan!PoolSize
    <3>1. c < Fan!PoolSize
      BY <2>1, <2>3
    <3>2. Fan!PoolSize <= l /\ Fan!PoolSize \in Nat
      <4> PICK k \in Nat : k = Fan!Cardinality(Members)
        BY RunAssumption, FanCounts, FS_CardinalityType
      <4>1. Fan!PoolSize = Fan!Largest(1, Fan!Least(Fan!Least(k, l), ComputeSlots))
        BY DEF Fan!PoolSize
      <4>2. Fan!Least(k, l) \in Nat /\ Fan!Least(k, l) <= l
        BY <2>2 DEF Fan!Least
      <4>3. Fan!Least(Fan!Least(k, l), ComputeSlots) \in Nat /\ Fan!Least(Fan!Least(k, l), ComputeSlots) <= l
        BY <2>2, <4>2, JobsAssumption DEF Fan!Least
      <4> QED BY <2>2, <4>1, <4>3 DEF Fan!Largest
    <3>3. Fan!In("run")' = Fan!In("run") \cup {m} /\ m \notin Fan!In("run")
      BY <1>2, <2>3 DEF Fan!In
    <3>4. Cardinality(Fan!In("run") \cup {m}) = c + 1
      BY <2>1, <3>3, FS_AddElement
    <3>5. Fan!Cardinality(Fan!In("run")') = c + 1
      BY <3>3, <3>4, FanCounts
    <3>6. c + 1 <= l
      BY <2>1, <2>2, <3>1, <3>2
    <3> QED BY <1>1, <3>5, <3>6 DEF Fan!PoolWithinLease
  <2>4. CASE v4[m] = "run" /\ \E s \in {"ok", "failed"} : v4' = [v4 EXCEPT ![m] = s]
    <3>1. Fan!In("run")' \subseteq Fan!In("run")
      BY <1>2, <2>4 DEF Fan!In
    <3>2. Cardinality(Fan!In("run")') <= c /\ Cardinality(Fan!In("run")') \in Nat
      BY <2>1, <3>1, FS_Subset, FS_CardinalityType
    <3>3. Fan!Cardinality(Fan!In("run")') = Cardinality(Fan!In("run")')
      BY FanCounts
    <3>4. Fan!Cardinality(Fan!In("run")') <= l
      BY <2>1, <2>2, <3>2, <3>3
    <3> QED BY <1>1, <3>4 DEF Fan!PoolWithinLease
  <2> QED BY <1>1, <2>3, <2>4
<1> QED BY <1>1, <1>5, <1>6, <1>7, <1>8, FanFacts DEF Fan!SoundRun

LEMMA FanStep ==
    ASSUME Fan!SoundRun, Fan!Next \/ UNCHANGED <<v1, v2, v3, v4, v5, v6, v7, v8, v9, v10, v11>>
    PROVE  Fan!SoundRun'
<1>1. CASE Fan!Next
  BY <1>1, FanPrepares, FanGather, FanNextWindow, FanAsk, FanTell, FanEnds, FanMembers DEF Fan!Next
<1>2. CASE UNCHANGED <<v1, v2, v3, v4, v5, v6, v7, v8, v9, v10, v11>>
  <2>1. v5' \in 0..Fan!WindowCount(v1.days)
    BY <1>2, FanFacts DEF Fan!TypeOK
  <2>2. Fan!TypeOK'
    BY <1>2, <2>1, FanFacts, FanTyped DEF Fan!TypeOK
  <2>3. Fan!In("ok")' = Fan!In("ok") /\ Fan!Planned(v5)' = Fan!Planned(v5)
    BY <1>2, MembersStay DEF Fan!Planned, Fan!WindowCount, Fan!TrainDays, Fan!TestDays, Fan!Largest, Fan!Least
  <2>4. Fan!TrialsAreCounted' /\ Fan!OutcomeIsWhole'
    BY <1>2, <2>3, FanFacts DEF Fan!TrialsAreCounted, Fan!OutcomeIsWhole
  <2> QED BY <1>2, <2>2, <2>4, FanFacts, FanKept
<1> QED BY <1>1, <1>2

LEMMA OutcomesStep ==
    ASSUME part = "Fan" => Fan!SoundRun, part = "Queue" => Queue!SoundJobs, [Next]_pool
    PROVE  /\ part' = "Fan" => Fan!SoundRun'
           /\ part' = "Queue" => Queue!SoundJobs'
           /\ [part = "Queue" => Queue!PortfolioOutcomeStands]_pool
<1>1. CASE UNCHANGED pool
  <2>1. part' = part /\ UNCHANGED <<v1, v2, v3, v4, v5, v6, v7, v8, v9, v10, v11>>
    BY <1>1 DEF pool, Rest4, Rest5, Rest6, Rest7, Rest8, Rest9, Rest10, Rest11
  <2>2. part = "Fan" => Fan!SoundRun'
    BY <2>1, FanStep
  <2>3. part = "Queue" => Queue!SoundJobs'
    BY <2>1, QueueWatchdog
  <2> QED BY <1>1, <2>1, <2>2, <2>3
<1>2. CASE Next
  <2>1. ASSUME part' = "Fan" PROVE Fan!SoundRun'
    BY <1>2, <2>1, FanStep DEF Next
  <2>2. ASSUME part' = "Queue" PROVE Queue!SoundJobs'
    BY <1>2, <2>2, QueueStep DEF Next
  <2>3. ASSUME part = "Queue" PROVE Queue!PortfolioOutcomeStands
    BY <1>2, <2>3, QueueStep DEF Next
  <2> QED BY <2>1, <2>2, <2>3
<1> QED BY <1>1, <1>2

\* Any members, ranges, trials, leases, jobs, slots and faults: a completed portfolio run rests on
\* every member and every trial, its pool stays within its lease and all jobs within the limit,
\* and no redelivery, late result or cancellation revives or replaces its outcome.
THEOREM OutcomesAlwaysStand == Spec => OutcomesStand
<1> DEFINE Inv == (part = "Fan" => Fan!SoundRun) /\ (part = "Queue" => Queue!SoundJobs)
           Whole == part = "Fan" => Fan!CompletedIsWhole /\ Fan!PoolWithinLease
           Fits == part = "Queue" => Queue!SlotLimit
           Act == part = "Queue" => Queue!PortfolioOutcomeStands
<1>1. Init => Inv
  BY FanStart, QueueStart DEF Init
<1>2. Inv /\ [Next]_pool => Inv' /\ [Act]_pool
  BY OutcomesStep
<1>3. Inv => Whole
  BY FanFacts DEF Fan!OutcomeIsWhole, Fan!CompletedIsWhole
<1>4. Inv => Fits
  BY DEF Queue!SoundJobs, Queue!SlotsAreCounted, Queue!SlotLimit
<1> QED BY <1>1, <1>2, <1>3, <1>4, PTL DEF Spec, OutcomesStand
=============================================================================
