------------------------- MODULE ServicesTypeProofs -------------------------
(***************************************************************************)
(* The types of every part of Services, on top of the inductive invariants *)
(* of the parts. What those leave open is defined beside them, in the      *)
(* parts' own modules: RotationsAreCounted, VersionsAreIssued, TodoExists, *)
(* NumbersFollowRows and RowsAreBounded.                                   *)
(***************************************************************************)
EXTENDS ServicesProofs, CompositionProofs, MarketDataProofs

LEMMA AdmitBounds ==
    ASSUME Admit!SoundAdmission, Admit!RotationsAreCounted, [Admit!Next]_(Admit!vars)
    PROVE  Admit!RotationsAreCounted'
<1>1. v1 \in [Accounts -> Admit!AccountType]
  BY DEF Admit!SoundAdmission, Admit!RowsAreTyped
<1>2. CASE v1' = v1 /\ v7' \in Starts \cup {Admit!Free} /\ v9' \in {v9, [v9 EXCEPT !.edits = @ + 1]}
  BY <1>2 DEF Admit!RotationsAreCounted
<1>3. CASE UNCHANGED Admit!vars
  BY <1>2, <1>3 DEF Admit!vars, Admit!RotationsAreCounted
<1>4. ASSUME NEW r \in Starts,
             \/ Admit!Resolve(r) \/ Admit!Preflight(r) \/ Admit!ValidateCredentials(r)
             \/ Admit!LockRevision(r) \/ Admit!LockAccount(r)
             \/ Admit!Upsert(r) \/ Admit!CheckActive(r) \/ Admit!LinkCandidate(r) \/ Admit!Publish(r)
             \/ Admit!StartFails(r)
      PROVE  Admit!RotationsAreCounted'
  <2>1. v1' = v1 /\ v9' = v9 /\ v7' \in {v7, r, Admit!Free}
    BY <1>4 DEF Admit!Resolve, Admit!Preflight, Admit!ValidateCredentials, Admit!LockRevision,
       Admit!LockAccount, Admit!Rejected, Admit!Upsert, Admit!CheckActive, Admit!LinkCandidate,
       Admit!Publish, Admit!StartFails
  <2> QED BY <1>2, <2>1 DEF Admit!RotationsAreCounted
<1>5. ASSUME NEW i \in Admit!Identities, Admit!Stop(i) PROVE Admit!RotationsAreCounted'
  BY <1>2, <1>5 DEF Admit!Stop, Admit!Budget, Admit!RotationsAreCounted
<1>6. ASSUME NEW a \in Accounts, Admit!archive(a) PROVE Admit!RotationsAreCounted'
  <2>1. /\ v1' = [v1 EXCEPT ![a].status = "archived"] /\ v9' = [v9 EXCEPT !.edits = @ + 1]
        /\ v7' = v7
    BY <1>6 DEF Admit!archive, Admit!Budget
  <2>2. \A b \in Accounts : v1'[b].version = v1[b].version
    BY <1>1, <2>1 DEF Admit!AccountType
  <2>3. v9' \in [rotations : 0 .. MaxRotations, edits : Nat] /\ v9'.rotations = v9.rotations
    BY <2>1 DEF Admit!RotationsAreCounted
  <2> QED BY <2>1, <2>2, <2>3 DEF Admit!RotationsAreCounted
<1>7. ASSUME NEW a \in Accounts, Admit!rotate(a) PROVE Admit!RotationsAreCounted'
  <2>1. /\ v1' = [v1 EXCEPT ![a].version = @ + 1] /\ v9' = [v9 EXCEPT !.rotations = @ + 1]
        /\ v9.rotations < MaxRotations /\ v7' = v7
    BY <1>7 DEF Admit!rotate
  <2>2. \A b \in Accounts : v1'[b].version \in {v1[b].version, v1[b].version + 1}
    BY <1>1, <2>1 DEF Admit!AccountType
  <2>3. v9' \in [rotations : 0 .. MaxRotations, edits : Nat] /\ v9'.rotations = v9.rotations + 1
    BY <2>1, AdmitAssumption DEF Admit!RotationsAreCounted
  <2>4. \A b \in Accounts : v1'[b].version \in 1 .. v9'.rotations + 1
    BY <2>2, <2>3 DEF Admit!RotationsAreCounted
  <2> QED BY <2>1, <2>3, <2>4 DEF Admit!RotationsAreCounted
<1>8. ASSUME NEW e \in Editors, \/ \E c \in Linkable : Admit!ReadStage(e, c)
                                \/ \E s \in Admit!Stages : Admit!WriteStage(e, s)
      PROVE  Admit!RotationsAreCounted'
  BY <1>2, <1>8 DEF Admit!ReadStage, Admit!WriteStage, Admit!RotationsAreCounted
<1> QED BY <1>3, <1>4, <1>5, <1>6, <1>7, <1>8 DEF Admit!Next

LEMMA AdmitStaysTyped == Spec => [](part = "Admit" => Admit!TypeOK)
<1> DEFINE Inv == part = "Admit" => Admit!SoundAdmission /\ Admit!RotationsAreCounted
           Typed == part = "Admit" => Admit!TypeOK
<1>1. Init => Inv
  <2>1. Admit!Init => Admit!RotationsAreCounted
    BY AdmitAssumption DEF Admit!Init, Admit!RotationsAreCounted
  <2> QED BY <2>1, AdmitStart DEF Init
<1>2. Inv /\ [Next]_pool => Inv'
  <2> SUFFICES ASSUME Inv, [Next]_pool, part' = "Admit"
               PROVE  Admit!SoundAdmission' /\ Admit!RotationsAreCounted'
    OBVIOUS
  <2>1. part = "Admit" /\ [Admit!Next]_(Admit!vars)
    BY DEF Next, pool, Rest4, Rest5, Rest6, Rest7, Rest8, Rest9, Rest10, Admit!vars
  <2> QED BY <2>1, AdmitStep, AdmitBounds
<1>3. Inv => Typed
  <2> SUFFICES ASSUME Admit!SoundAdmission, Admit!RotationsAreCounted PROVE Admit!TypeOK
    OBVIOUS
  <2>1. v1 \in [Accounts -> [status : {"active", "archived"}, version : 1 .. MaxRotations + 1]]
    <3>1. v1 \in [Accounts -> Admit!AccountType]
      BY DEF Admit!SoundAdmission, Admit!RowsAreTyped
    <3>2. \A a \in Accounts : v1[a].version \in 1 .. MaxRotations + 1
      BY AdmitAssumption DEF Admit!RotationsAreCounted
    <3> QED BY <3>1, <3>2 DEF Admit!AccountType
  <2>2. v2 \in [Admit!Identities -> Admit!DepType] /\ v3 \in [Linkable -> Admit!CandType]
        /\ v4 \subseteq Admit!Identities /\ v8 \in [Accounts -> Starts \cup {Admit!Free}]
        /\ v7 \in Starts \cup {Admit!Free}
    BY DEF Admit!SoundAdmission, Admit!RowsAreTyped, Admit!RotationsAreCounted
  <2>3. \A i \in Admit!Identities : v2[i].status \in {"none", "failed", "stopped"} \cup Admit!Active
    BY <2>2 DEF Admit!DepType
  <2> QED BY <2>1, <2>2, <2>3 DEF Admit!TypeOK, Admit!CandType
<1> QED BY <1>1, <1>2, <1>3, PTL DEF Spec

LEMMA BrokerVersions ==
    ASSUME Broker!SoundAccounts, Broker!VersionsAreIssued, [Broker!Next]_(Broker!vars)
    PROVE  Broker!VersionsAreIssued'
<1>1. v7 \in Nat /\ \A s \in v2 : s[2] \in 1 .. v7
  BY DEF Broker!SoundAccounts, Broker!RecordsAreTyped, Broker!VersionsAreIssued
<1>2. CASE v7' = v7 /\ v2' \subseteq v2
  BY <1>1, <1>2 DEF Broker!VersionsAreIssued
<1>3. ASSUME NEW r, v7' = v7 + 1, v2' = v2 \cup {<<r, v7 + 1>>}
      PROVE  Broker!VersionsAreIssued'
  <2>1. \A s \in v2' : s[2] \in 1 .. v7 + 1
    BY <1>1, <1>3
  <2> QED BY <1>3, <2>1 DEF Broker!VersionsAreIssued
<1>4. CASE UNCHANGED Broker!vars
  BY <1>2, <1>4 DEF Broker!vars
<1>5. ASSUME NEW k \in Creators, \/ \E ib \in IbAccounts : Broker!create(k, ib)
                                 \/ Broker!FreeSlot(k) \/ Broker!Insert(k) \/ Broker!CommitCreate(k)
                                 \/ Broker!CleanupCreate(k)
      PROVE  Broker!VersionsAreIssued'
  <2>1. CASE \E ib \in IbAccounts : Broker!create(k, ib)
    BY <1>3, <2>1 DEF Broker!create, Broker!Version
  <2>2. CASE Broker!FreeSlot(k) \/ Broker!Insert(k) \/ Broker!CommitCreate(k) \/ Broker!CleanupCreate(k)
    <3>1. v7' = v7 /\ v2' \subseteq v2
      BY <2>2 DEF Broker!FreeSlot, Broker!Insert, Broker!CommitCreate, Broker!CleanupCreate
    <3> QED BY <1>2, <3>1
  <2> QED BY <1>5, <2>1, <2>2
<1>6. ASSUME NEW o \in Operators,
             \/ \E i \in Broker!Ids : Broker!Begin(o, "rotate", i) \/ Broker!Begin(o, "archive", i)
             \/ Broker!Lock(o) \/ Broker!Put(o) \/ Broker!CommitRotate(o) \/ Broker!Mark(o)
             \/ Broker!DeleteSecret(o)
      PROVE  Broker!VersionsAreIssued'
  <2>1. CASE Broker!Put(o)
    <3>1. \/ v7' = v7 + 1 /\ v2' = v2 \cup {<<Broker!RefOf(o), v7 + 1>>}
          \/ v7' = v7 /\ v2' = v2
      BY <2>1 DEF Broker!Put, Broker!Version
    <3> QED BY <1>2, <1>3, <3>1
  <2>2. CASE ~Broker!Put(o)
    <3>1. v7' = v7 /\ v2' \subseteq v2
      BY <1>6, <2>2 DEF Broker!Begin, Broker!Lock, Broker!CommitRotate, Broker!Mark, Broker!DeleteSecret
    <3> QED BY <1>2, <3>1
  <2> QED BY <2>1, <2>2
<1> QED BY <1>4, <1>5, <1>6 DEF Broker!Next, Broker!Step

LEMMA BrokerStaysTyped == Spec => [](part = "Broker" => Broker!TypeOK)
<1> DEFINE Inv == part = "Broker" => Broker!SoundAccounts /\ Broker!VersionsAreIssued
           Typed == part = "Broker" => Broker!TypeOK
<1>1. Init => Inv
  <2>1. Broker!Init => Broker!VersionsAreIssued
    BY DEF Broker!Init, Broker!VersionsAreIssued
  <2> QED BY <2>1, BrokerStart DEF Init
<1>2. Inv /\ [Next]_pool => Inv'
  <2> SUFFICES ASSUME Inv, [Next]_pool, part' = "Broker"
               PROVE  Broker!SoundAccounts' /\ Broker!VersionsAreIssued'
    OBVIOUS
  <2>1. part = "Broker" /\ [Broker!Next]_(Broker!vars)
    BY DEF Next, pool, Rest4, Rest5, Rest6, Rest7, Rest8, Rest9, Rest10, Broker!vars
  <2> QED BY <2>1, BrokerStep, BrokerVersions
<1>3. Inv => Typed
  <2> SUFFICES ASSUME Broker!SoundAccounts, Broker!VersionsAreIssued PROVE Broker!TypeOK
    OBVIOUS
  <2>1. /\ v1 \in [Broker!Ids -> Broker!RowType] /\ v5 \in [Broker!Ids -> Operators \cup {"free"}]
        /\ v2 \subseteq (Creators \cup Operators) \X Nat
    BY DEF Broker!SoundAccounts, Broker!RecordsAreTyped
  <2>2. \A i \in Broker!Ids : v1[i].status \in {"none", "inserted", "active", "archived"}
    BY <2>1 DEF Broker!RowType
  <2>3. \A s \in v2 : s[1] \in Creators \cup Operators
    BY <2>1
  <2> QED BY <2>1, <2>2, <2>3 DEF Broker!TypeOK, Broker!VersionsAreIssued
<1> QED BY <1>1, <1>2, <1>3, PTL DEF Spec

LEMMA OnboardStaysTyped == Spec => [](part = "Onboard" => Onboard!TypeOK)
<1> DEFINE Inv == part = "Onboard" => Onboard!Carried
           Typed == part = "Onboard" => Onboard!TypeOK
<1>1. Init => Inv
  BY OnboardStart DEF Init
<1>2. Inv /\ [Next]_pool => Inv'
  <2> SUFFICES ASSUME Inv, [Next]_pool, part' = "Onboard" PROVE Onboard!Carried'
    OBVIOUS
  <2>1. part = "Onboard" /\ [Onboard!Next]_(Onboard!vars)
    BY DEF Next, pool, Rest4, Rest5, Rest6, Rest7, Rest8, Rest9, Rest10, Onboard!vars
  <2> QED BY <2>1, OnboardStep
<1>3. Inv => Typed
  <2> SUFFICES ASSUME Onboard!Carried PROVE Onboard!TypeOK
    OBVIOUS
  <2>1. v1 \in [Onboard!Digests -> Onboard!RunType] /\ v2 \in [Onboard!Digests -> Onboard!JobType]
    BY DEF Onboard!Carried, Onboard!RunsAreTyped
  <2> QED BY <2>1 DEF Onboard!TypeOK, Onboard!RunType, Onboard!JobType
<1> QED BY <1>1, <1>2, <1>3, PTL DEF Spec

LEMMA SpanOfDays == ASSUME NEW S \in SUBSET Bars!Days PROVE Bars!Span(S) \subseteq Bars!Days
<1>1. Bars!Days \subseteq Nat /\ \A d \in Bars!Days : 1 <= d /\ d <= LastDay
  BY BarsAssumption DEF Bars!Days
<1>2. CASE S = {}
  BY <1>2 DEF Bars!Span
<1>3. CASE S # {}
  <2>1. \E m \in S : \A n \in S : m <= n
    BY <1>1, <1>3, LeastNatural
  <2>2. Bars!Min(S) \in S
    BY <2>1 DEF Bars!Min
  <2>3. \E m \in S : \A n \in S : m >= n
    <3>1. S \in SUBSET Nat /\ \A n \in S : n <= LastDay
      BY <1>1
    <3> QED BY <1>3, <3>1, BarsAssumption, GreatestNatural
  <2>4. Bars!Max(S) \in S
    BY <2>3 DEF Bars!Max
  <2>5. Bars!Span(S) = Bars!Min(S) .. Bars!Max(S)
    BY <1>3 DEF Bars!Span
  <2>6. Bars!Min(S) \in 1..LastDay /\ Bars!Max(S) \in 1..LastDay
    BY <2>2, <2>4 DEF Bars!Days
  <2>7. PICK a \in 1..LastDay, b \in 1..LastDay : Bars!Span(S) = a..b
    BY <2>5, <2>6
  <2> QED BY <2>7, BarsAssumption DEF Bars!Days
<1> QED BY <1>2, <1>3

LEMMA BarsTypes ==
    ASSUME Bars!StoreIsSafe, Bars!TypeOK, [Bars!Next]_(Bars!vars)
    PROVE  Bars!TypeOK'
<1>1. /\ v1 \subseteq Bars!Days /\ v2 \subseteq Bars!Days /\ v3 \in Smokes \cup {Bars!None}
      /\ \A w \in Bars!Writers :
           v4[w].want \subseteq Bars!Days /\ v4[w].got \subseteq Bars!Days /\ v4[w].seen \subseteq Bars!Days
  BY DEF Bars!TypeOK
<1>2. v3' \in Smokes \cup {Bars!None} /\ v4 \in [Bars!Writers -> Bars!WriterType]
  BY BarsStep, BarsFacts DEF Bars!StoreIsSafe, Bars!WritersAreTyped
<1>3. Bars!Writers = Smokes \cup Ingests
  BY DEF Bars!Writers
<1>4. ASSUME NEW w \in Bars!Writers, v1' \subseteq Bars!Days, v2' \subseteq Bars!Days,
             NEW x, v4' = [v4 EXCEPT ![w] = x],
             x.want \subseteq Bars!Days, x.got \subseteq Bars!Days, x.seen \subseteq Bars!Days
      PROVE  Bars!TypeOK'
  <2>1. \A v \in Bars!Writers : v4'[v] \in {v4[v], x}
    BY <1>2, <1>4
  <2> QED BY <1>1, <1>2, <1>4, <2>1 DEF Bars!TypeOK
<1>5. ASSUME NEW w \in Bars!Writers, v1' \subseteq Bars!Days, v2' \subseteq Bars!Days,
             \/ \E p : v4' = [v4 EXCEPT ![w].pc = p]
             \/ v4' = [v4 EXCEPT ![w] = Bars!Rest("done")]
      PROVE  Bars!TypeOK'
  <2>1. CASE \E p : v4' = [v4 EXCEPT ![w].pc = p]
    <3>1. PICK p : v4' = [v4 EXCEPT ![w].pc = p]
      BY <2>1
    <3>2. \A v \in Bars!Writers :
             v4'[v].want = v4[v].want /\ v4'[v].got = v4[v].got /\ v4'[v].seen = v4[v].seen
      BY <1>2, <3>1 DEF Bars!WriterType
    <3> QED BY <1>1, <1>2, <1>5, <3>2 DEF Bars!TypeOK
  <2>2. CASE v4' = [v4 EXCEPT ![w] = Bars!Rest("done")]
    <3>1. Bars!Rest("done").want = {} /\ Bars!Rest("done").got = {} /\ Bars!Rest("done").seen = {}
      BY DEF Bars!Rest
    <3> QED BY <1>4, <1>5, <2>2, <3>1
  <2> QED BY <1>5, <2>1, <2>2
<1>6. \A want : Bars!Scanned(want) \subseteq Bars!Days
  BY <1>1, SpanOfDays DEF Bars!Scanned
<1>7. CASE UNCHANGED Bars!vars
  BY <1>7 DEF Bars!vars, Bars!TypeOK
<1>8. ASSUME NEW w \in Smokes, (\E want \in Bars!Windows : Bars!BeginSmoke(w, want)) \/ Bars!Acquire(w)
                               \/ Bars!Recheck(w)
      PROVE  Bars!TypeOK'
  <2>1. CASE \E want \in Bars!Windows : Bars!BeginSmoke(w, want)
    <3>1. PICK want \in Bars!Windows : Bars!BeginSmoke(w, want)
      BY <2>1
    <3>2. want \subseteq Bars!Days
      BY BarsAssumption DEF Bars!Windows, Bars!Days
    <3>3. v1' = v1 /\ v2' \subseteq Bars!Days
      BY <1>6, <3>1 DEF Bars!BeginSmoke
    <3>4. \/ v4' = [v4 EXCEPT ![w] = Bars!Rest("done")]
          \/ v4' = [v4 EXCEPT ![w].want = want, ![w].pc = "acquire"]
      BY <3>1 DEF Bars!BeginSmoke, Bars!Quit
    <3>5. CASE v4' = [v4 EXCEPT ![w].want = want, ![w].pc = "acquire"]
      <4>1. \A v \in Bars!Writers :
               v4'[v].want \in {v4[v].want, want} /\ v4'[v].got = v4[v].got /\ v4'[v].seen = v4[v].seen
        BY <1>2, <3>5 DEF Bars!WriterType
      <4> QED BY <1>1, <1>2, <3>2, <3>3, <4>1 DEF Bars!TypeOK
    <3> QED BY <1>1, <1>3, <1>5, <3>3, <3>4, <3>5
  <2>2. CASE Bars!Acquire(w)
    <3>1. v1' = v1 /\ v2' = v2 /\ (v4' = [v4 EXCEPT ![w].pc = "recheck"] \/ v4' = [v4 EXCEPT ![w] = Bars!Rest("done")])
      BY <2>2 DEF Bars!Acquire, Bars!Goto, Bars!Quit
    <3> QED BY <1>1, <1>3, <1>5, <3>1
  <2>3. CASE Bars!Recheck(w)
    <3>1. v1' = v1 /\ v2' \subseteq Bars!Days /\ \E p : v4' = [v4 EXCEPT ![w].pc = p]
      BY <1>6, <2>3 DEF Bars!Recheck, Bars!Goto
    <3> QED BY <1>1, <1>3, <1>5, <3>1
  <2> QED BY <1>8, <2>1, <2>2, <2>3
<1>9. ASSUME NEW w \in Ingests, NEW want \in SUBSET Bars!Days,
             v4' = [v4 EXCEPT ![w].want = want, ![w].pc = "fetch"], v1' = v1, v2' = v2
      PROVE  Bars!TypeOK'
  <2>1. \A v \in Bars!Writers :
           v4'[v].want \in {v4[v].want, want} /\ v4'[v].got = v4[v].got /\ v4'[v].seen = v4[v].seen
    BY <1>2, <1>3, <1>9 DEF Bars!WriterType
  <2> QED BY <1>1, <1>2, <1>9, <2>1 DEF Bars!TypeOK
<1>10. ASSUME NEW w \in Ingests, \/ \E want \in Bars!Windows : Bars!BeginJob(w, want)
                                 \/ \E d \in Bars!Days : Bars!NightlyTick(w, d)
       PROVE  Bars!TypeOK'
  <2>1. \A want \in Bars!Windows : want \in SUBSET Bars!Days
    BY BarsAssumption DEF Bars!Windows, Bars!Days
  <2>2. \A d \in Bars!Days : {d} \in SUBSET Bars!Days
    OBVIOUS
  <2> QED BY <1>9, <1>10, <2>1, <2>2 DEF Bars!BeginJob, Bars!NightlyTick, Bars!Session
<1>11. ASSUME NEW w \in Bars!Writers, \/ Bars!Fetch(w) \/ Bars!ReadExisting(w) \/ Bars!Rename(w)
                                      \/ Bars!ReadFooter(w) \/ Bars!Upsert(w) \/ Bars!Release(w)
       PROVE  Bars!TypeOK'
  <2>1. CASE Bars!Fetch(w)
    <3>1. PICK got \in SUBSET v4[w].want : \E p : v4' = [v4 EXCEPT ![w].got = got, ![w].pc = p]
      BY <2>1 DEF Bars!Fetch
    <3>2. v1' = v1 /\ v2' = v2
      BY <2>1 DEF Bars!Fetch
    <3>3. \A v \in Bars!Writers :
             v4'[v].got \in {v4[v].got, got} /\ v4'[v].want = v4[v].want /\ v4'[v].seen = v4[v].seen
      BY <1>2, <3>1 DEF Bars!WriterType
    <3> QED BY <1>1, <1>2, <3>2, <3>3 DEF Bars!TypeOK
  <2>2. CASE Bars!ReadExisting(w)
    <3>1. v1' = v1 /\ v2' = v2 /\ v4' = [v4 EXCEPT ![w].seen = v1, ![w].pc = "rename"]
      BY <2>2 DEF Bars!ReadExisting
    <3>2. \A v \in Bars!Writers :
             v4'[v].seen \in {v4[v].seen, v1} /\ v4'[v].want = v4[v].want /\ v4'[v].got = v4[v].got
      BY <1>2, <3>1 DEF Bars!WriterType
    <3> QED BY <1>1, <1>2, <3>1, <3>2 DEF Bars!TypeOK
  <2>3. CASE Bars!Rename(w)
    <3>1. v1' \subseteq Bars!Days /\ v2' = v2 /\ v4' = [v4 EXCEPT ![w].pc = "footer"]
      BY <1>1, <2>3 DEF Bars!Rename, Bars!Merged, Bars!Goto
    <3> QED BY <1>1, <1>5, <3>1
  <2>4. CASE Bars!ReadFooter(w)
    <3>1. /\ v1' = v1 /\ v2' = v2
          /\ \/ v4' = [v4 EXCEPT ![w].seen = Bars!Span(v1), ![w].pc = "upsert"]
             \/ v4' = [v4 EXCEPT ![w].pc = "release"]
      BY <2>4 DEF Bars!ReadFooter, Bars!FooterOf, Bars!Goto
    <3>2. PICK s \in SUBSET Bars!Days : s = Bars!Span(v1)
      BY <1>1, SpanOfDays
    <3>3. CASE v4' = [v4 EXCEPT ![w].seen = s, ![w].pc = "upsert"]
      <4>1. \A v \in Bars!Writers :
               v4'[v].seen \in {v4[v].seen, s} /\ v4'[v].want = v4[v].want /\ v4'[v].got = v4[v].got
        BY <1>2, <3>3 DEF Bars!WriterType
      <4> QED BY <1>1, <1>2, <3>1, <4>1 DEF Bars!TypeOK
    <3> QED BY <1>1, <1>5, <3>1, <3>2, <3>3
  <2>5. CASE Bars!Upsert(w)
    <3>1. v1' = v1 /\ v2' = v4[w].seen /\ v4' = [v4 EXCEPT ![w].pc = "release"]
      BY <2>5 DEF Bars!Upsert, Bars!Goto
    <3> QED BY <1>1, <1>5, <3>1
  <2>6. CASE Bars!Release(w)
    <3>1. v1' = v1 /\ v2' = v2 /\ v4' = [v4 EXCEPT ![w] = Bars!Rest("done")]
      BY <2>6 DEF Bars!Release, Bars!Quit
    <3> QED BY <1>1, <1>5, <3>1
  <2> QED BY <1>11, <2>1, <2>2, <2>3, <2>4, <2>5, <2>6
<1>12. CASE Bars!ExpireLock
  BY <1>1, <1>2, <1>12 DEF Bars!ExpireLock, Bars!TypeOK
<1> QED BY <1>7, <1>8, <1>10, <1>11, <1>12 DEF Bars!Next

LEMMA BarsStaysTyped == Spec => [](part = "Bars" => Bars!TypeOK)
<1> DEFINE Inv == part = "Bars" => Bars!StoreIsSafe /\ Bars!TypeOK
           Typed == part = "Bars" => Bars!TypeOK
<1>1. Init => Inv
  <2> SUFFICES ASSUME Bars!Init PROVE Bars!TypeOK
    BY BarsStart DEF Init
  <2>1. v1 \in SUBSET Bars!Days /\ v2 \in {{}, Bars!Span(v1)} /\ v3 = Bars!None
    BY DEF Bars!Init
  <2>2. v2 \subseteq Bars!Days
    BY <2>1, SpanOfDays
  <2>3. \A w \in Bars!Writers : v4[w].want = {} /\ v4[w].got = {} /\ v4[w].seen = {}
    BY DEF Bars!Init, Bars!Rest
  <2> QED BY <2>1, <2>2, <2>3 DEF Bars!TypeOK
<1>2. Inv /\ [Next]_pool => Inv'
  <2> SUFFICES ASSUME Inv, [Next]_pool, part' = "Bars" PROVE Bars!StoreIsSafe' /\ Bars!TypeOK'
    OBVIOUS
  <2>1. part = "Bars" /\ [Bars!Next]_(Bars!vars)
    BY DEF Next, pool, Rest4, Rest5, Rest6, Rest7, Rest8, Bars!vars
  <2> QED BY <2>1, BarsStep, BarsTypes
<1>3. Inv => Typed
  OBVIOUS
<1> QED BY <1>1, <1>2, <1>3, PTL DEF Spec

LEMMA OutcomesStayTyped ==
    Spec => []((part = "Fan" => Fan!TypeOK) /\ (part = "Queue" => Queue!TypeOK))
<1> DEFINE Inv == (part = "Fan" => Fan!SoundRun) /\ (part = "Queue" => Queue!SoundJobs)
           Typed == (part = "Fan" => Fan!TypeOK) /\ (part = "Queue" => Queue!TypeOK)
<1>1. Init => Inv
  BY FanStart, QueueStart DEF Init
<1>2. Inv /\ [Next]_pool => Inv'
  BY OutcomesStep
<1>3. Inv => Typed
  BY DEF Fan!SoundRun, Queue!SoundJobs, Queue!JobsAreTyped
<1> QED BY <1>1, <1>2, <1>3, PTL DEF Spec

\* Every part keeps its types, for any constants that satisfy the assumptions. They are more than
\* declarations: a credential version is one that was issued, a catalog entry and the marker name
\* versions that were written, a span of the index lies within the calendar, a revision's number
\* is at most the number of rows, although the rows' numbers are read before they are inserted,
\* and a task stays within its tries, rotations and rows.
THEOREM ServicesStayTyped == Spec => []TypeOK
<1> DEFINE Known == part \in {"Admit", "Broker", "Heal", "Bars", "Catalog", "Onboard", "Revise", "Promote",
                              "Create", "Aliases", "Sync", "Search", "Fan", "Queue"}
           Live ==
             /\ part = "Admit" => Admit!TypeOK
             /\ part = "Broker" => Broker!TypeOK
             /\ part = "Onboard" => Onboard!TypeOK
           Data ==
             /\ part = "Heal" => Heal!TypeOK
             /\ part = "Bars" => Bars!TypeOK
             /\ part = "Catalog" => Catalog!TypeOK
             /\ part = "Aliases" => Aliases!TypeOK
           Composed ==
             /\ part = "Revise" => Revise!TypeOK
             /\ part = "Promote" => Promote!TypeOK
             /\ part = "Create" => Create!TypeOK
             /\ part = "Sync" => Sync!TypeOK
             /\ part = "Search" => Search!TypeOK
           Worked == (part = "Fan" => Fan!TypeOK) /\ (part = "Queue" => Queue!TypeOK)
<1>1. Init => Known
  BY DEF Init
<1>2. Known /\ [Next]_pool => Known'
  BY DEF Next, pool
<1>3. Spec => []Live
  BY AdmitStaysTyped, BrokerStaysTyped, OnboardStaysTyped, PTL
<1>4. Spec => []Data
  BY HealStaysTyped, BarsStaysTyped, CatalogStaysTyped, AliasesStaysTyped, PTL
<1>5. Spec => []Composed
  BY ReviseStaysTyped, PromoteStaysTyped, CreateStaysTyped, SyncStaysTyped, SearchStaysTyped, PTL
<1>6. Spec => []Worked
  BY OutcomesStayTyped
<1>7. ASSUME Known, Live, Data, Composed, Worked PROVE TypeOK
  <2>1. ASSUME part = "Admit" PROVE TypeOK
    BY <1>7, <2>1 DEF TypeOK
  <2>2. ASSUME part = "Broker" PROVE TypeOK
    BY <1>7, <2>2 DEF TypeOK
  <2>3. ASSUME part = "Heal" PROVE TypeOK
    BY <1>7, <2>3 DEF TypeOK
  <2>4. ASSUME part = "Bars" PROVE TypeOK
    BY <1>7, <2>4 DEF TypeOK
  <2>5. ASSUME part = "Catalog" PROVE TypeOK
    BY <1>7, <2>5 DEF TypeOK
  <2>6. ASSUME part = "Onboard" PROVE TypeOK
    BY <1>7, <2>6 DEF TypeOK
  <2>7. ASSUME part = "Revise" PROVE TypeOK
    BY <1>7, <2>7 DEF TypeOK
  <2>8. ASSUME part = "Promote" PROVE TypeOK
    BY <1>7, <2>8 DEF TypeOK
  <2>9. ASSUME part = "Create" PROVE TypeOK
    BY <1>7, <2>9 DEF TypeOK
  <2>10. ASSUME part = "Aliases" PROVE TypeOK
    BY <1>7, <2>10 DEF TypeOK
  <2>11. ASSUME part = "Sync" PROVE TypeOK
    BY <1>7, <2>11 DEF TypeOK
  <2>12. ASSUME part = "Search" PROVE TypeOK
    BY <1>7, <2>12 DEF TypeOK
  <2>13. ASSUME part = "Fan" PROVE TypeOK
    BY <1>7, <2>13 DEF TypeOK
  <2>14. ASSUME part = "Queue" PROVE TypeOK
    BY <1>7, <2>14 DEF TypeOK
  <2> QED BY <1>7, <2>1, <2>2, <2>3, <2>4, <2>5, <2>6, <2>7, <2>8, <2>9, <2>10, <2>11, <2>12, <2>13, <2>14
<1> HIDE DEF Live, Data, Composed, Worked
<1> QED BY <1>1, <1>2, <1>3, <1>4, <1>5, <1>6, <1>7, PTL DEF Spec
=============================================================================
