------------------------- MODULE CompositionProofs -------------------------
(***************************************************************************)
(* What a portfolio is composed of holds, for any requests and strategies: *)
(* frozen revisions stay, promotions are backed, and a creation that lost  *)
(* the race for a slot goes on with the winner's row. Synchronisations     *)
(* lose no strategy, and a research search judges its candidates fairly.   *)
(* The parts' own modules state the inductive invariants; here one lemma   *)
(* per action shows each kept.                                             *)
(***************************************************************************)
EXTENDS Services, TLAPS, SequenceTheorems, WellFoundedInduction, FiniteSetTheorems

-----------------------------------------------------------------------------
(* LiveRevisions.  v1: revs, v2: adder, v3: snap, v4: lock.                  *)

LEMMA SeqIsUnion == \A S : Seq(S) = UNION {[1..n -> S] : n \in Nat}
  OBVIOUS

LEMMA FunctionIsSeq ==
    ASSUME NEW n \in Nat, NEW S, NEW f \in [1..n -> S]
    PROVE  f \in Seq(Revise!ToSet(f)) /\ DOMAIN f = 1..n
<1>1. f \in [1..n -> Revise!ToSet(f)]
  BY DEF Revise!ToSet
<1> QED BY <1>1, SeqIsUnion

Fields == {"number", "frozen", "deleted", "members", "hash"}

IsRevision(r) == DOMAIN r = Fields /\ r.frozen \in BOOLEAN /\ r.deleted \in BOOLEAN

\* Only row d changes.
OneRow(d, r) ==
    /\ DOMAIN v1' = DOMAIN v1 /\ v1' \in Seq(Revise!ToSet(v1)')
    /\ v1'[d] = r /\ \A i \in DOMAIN v1 \ {d} : v1'[i] = v1[i]

LEMMA ReviseRow ==
    ASSUME Revise!RevisionsAreRows, NEW d \in DOMAIN v1, NEW r, v1' = [v1 EXCEPT ![d] = r]
    PROVE  OneRow(d, r)
<1>1. PICK n \in Nat : v1 \in [1..n -> Revise!ToSet(v1)]
  <2>1. v1 \in Seq(Revise!ToSet(v1))
    BY DEF Revise!RevisionsAreRows
  <2> QED BY <2>1, SeqIsUnion
<1>2. v1' \in [1..n -> Revise!ToSet(v1) \cup {r}]
  BY <1>1
<1>3. v1' \in Seq(Revise!ToSet(v1)') /\ DOMAIN v1' = 1..n
  <2> DEFINE f == [v1 EXCEPT ![d] = r]
  <2>1. f \in Seq(Revise!ToSet(f)) /\ DOMAIN f = 1..n
    BY <1>1, FunctionIsSeq, f \in [1..n -> Revise!ToSet(v1) \cup {r}]
  <2>2. v1' = f
    OBVIOUS
  <2>3. Revise!ToSet(v1)' = Revise!ToSet(f)
    BY <2>2 DEF Revise!ToSet
  <2> QED BY <2>1, <2>2, <2>3
<1> QED BY <1>1, <1>3 DEF OneRow

\* The facts of a row that the invariant speaks of.
LEMMA ReviseFacts ==
    ASSUME Revise!SoundRevisions
    PROVE  /\ v1 \in Seq(Revise!ToSet(v1)) /\ \A i \in DOMAIN v1 : IsRevision(v1[i])
           /\ DOMAIN v3 = Snapshots
           /\ \A s \in Snapshots : DOMAIN v3[s] = {"at", "row", "hash"}
  BY DEF Revise!SoundRevisions, Revise!RevisionsAreRows, Revise!Row, IsRevision, Fields

\* A request that touches neither rows nor snapshots, ...
LEMMA ReviseQuiet == ASSUME Revise!SoundRevisions, v1' = v1, v3' = v3, v4' = v4 PROVE Revise!SoundRevisions'
  BY DEF Revise!SoundRevisions, Revise!RevisionsAreRows, Revise!OneDraft, Revise!FrozenIsPresent,
         Revise!OneWriter, Revise!WriterHoldsDraft, Revise!get_current_draft, Revise!Present, Revise!Row,
         Revise!ToSet

\* ... a new draft, ...
LEMMA ReviseInsert ==
    ASSUME Revise!SoundRevisions, NEW a \in Adders, Revise!InsertDraft(a)
    PROVE  Revise!SoundRevisions'
<1>1. v3' = v3 /\ v4' = v4
  BY DEF Revise!InsertDraft
<1>2. CASE v1' = v1
  BY <1>1, <1>2, ReviseQuiet
<1>3. CASE v1' # v1
  <2> DEFINE r == [number |-> v2[a].number, frozen |-> FALSE, deleted |-> FALSE,
                   hash |-> Revise!Placeholder, members |-> <<v2[a].strategy>>]
             k == Len(v1) + 1
  <2>1. v1' = Append(v1, r) /\ Revise!get_current_draft = {}
    BY <1>3 DEF Revise!InsertDraft
  <2>2. IsRevision(r) /\ r.frozen = FALSE /\ r.deleted = FALSE
    BY DEF IsRevision, Fields
  <2> HIDE DEF r
  <2>3. v1 \in Seq(Revise!ToSet(v1)) /\ \A i \in DOMAIN v1 : IsRevision(v1[i])
    BY ReviseFacts
  <2>4. /\ DOMAIN v1' = DOMAIN v1 \cup {k} /\ k \notin DOMAIN v1 /\ v1'[k] = r
        /\ \A i \in DOMAIN v1 : v1'[i] = v1[i]
    BY <2>1, <2>3
  <2>5. v1' \in Seq(Revise!ToSet(v1)')
    <3>1. v1' \in Seq(Revise!ToSet(v1) \cup {r})
      <4>1. v1 \in Seq(Revise!ToSet(v1) \cup {r})
        BY <2>3, SeqIsUnion
      <4> QED BY <2>1, <4>1
    <3>2. PICK n \in Nat : v1' \in [1..n -> Revise!ToSet(v1) \cup {r}]
      BY <3>1, SeqIsUnion
    <3>3. v1' \in [1..n -> {v1'[i] : i \in DOMAIN v1'}]
      BY <3>2
    <3> QED BY <3>3, SeqIsUnion DEF Revise!ToSet
  <2>6. \A i \in DOMAIN v1' : IsRevision(v1'[i])
    BY <2>2, <2>3, <2>4
  <2>7. Revise!RevisionsAreRows'
    BY <1>1, <2>5, <2>6, ReviseFacts DEF Revise!RevisionsAreRows, Revise!Row, IsRevision, Fields
  <2>8. \A i \in Revise!get_current_draft' : i = k
    BY <2>1, <2>4 DEF Revise!get_current_draft, Revise!Present, Revise!Row
  <2>9. \A s \in Snapshots : v3[s].at # "write"
    BY <2>1 DEF Revise!SoundRevisions, Revise!WriterHoldsDraft
  <2>10. Revise!OneDraft'
    BY <2>8 DEF Revise!OneDraft
  <2>11. Revise!FrozenIsPresent'
    BY <2>2, <2>4 DEF Revise!SoundRevisions, Revise!FrozenIsPresent, Revise!Row
  <2>12. Revise!OneWriter' /\ \A s \in Snapshots : Revise!WriterHoldsDraft(s)'
    BY <1>1, <2>9 DEF Revise!OneWriter, Revise!WriterHoldsDraft
  <2> QED BY <2>7, <2>10, <2>11, <2>12 DEF Revise!SoundRevisions
<1> QED BY <1>2, <1>3

\* ... a member, ...
LEMMA ReviseAdd ==
    ASSUME Revise!SoundRevisions, NEW a \in Adders, Revise!AddMember(a)
    PROVE  Revise!SoundRevisions'
<1>1. v3' = v3 /\ v4' = v4
  BY DEF Revise!AddMember
<1>2. CASE v1' = v1
  BY <1>1, <1>2, ReviseQuiet
<1>3. CASE v1' # v1
  <2>0. v2[a].row \in DOMAIN v1
    BY <1>3 DEF Revise!AddMember, Revise!LockedIsMutable, Revise!Present
  <2> DEFINE d == v2[a].row
             m == Append(v1[d].members, v2[a].strategy)
  <2>1. v1' = [v1 EXCEPT ![d] = [v1[d] EXCEPT !.members = m]]
    BY <1>3 DEF Revise!AddMember
  <2> DEFINE r == [v1[d] EXCEPT !.members = m]
  <2>2. IsRevision(v1[d])
    BY <2>0, ReviseFacts
  <2>3. IsRevision(r) /\ r.frozen = v1[d].frozen /\ r.deleted = v1[d].deleted
    BY <2>2 DEF IsRevision, Fields
  <2> HIDE DEF r
  <2>4. OneRow(d, r)
    BY <2>0, <2>1, ReviseRow DEF r, Revise!SoundRevisions
  <2>5. /\ DOMAIN v1' = DOMAIN v1
        /\ \A i \in DOMAIN v1 : /\ v1'[i].frozen = v1[i].frozen /\ v1'[i].deleted = v1[i].deleted
                                /\ IsRevision(v1'[i])
    BY <2>3, <2>4, ReviseFacts DEF OneRow
  <2>6. Revise!RevisionsAreRows'
    BY <1>1, <2>4, <2>5, ReviseFacts DEF Revise!RevisionsAreRows, Revise!Row, IsRevision, Fields, OneRow
  <2>7. Revise!get_current_draft' = Revise!get_current_draft
    BY <2>5 DEF Revise!get_current_draft, Revise!Present, Revise!Row
  <2>8. Revise!FrozenIsPresent'
    BY <2>5 DEF Revise!SoundRevisions, Revise!FrozenIsPresent, Revise!Row
  <2> QED
    BY <1>1, <2>6, <2>7, <2>8 DEF Revise!SoundRevisions, Revise!OneDraft, Revise!OneWriter, Revise!WriterHoldsDraft
<1> QED BY <1>2, <1>3

\* ... a snapshot that locks the draft: nobody else can hold it for writing, ...
LEMMA ReviseLock ==
    ASSUME Revise!SoundRevisions, NEW s \in Snapshots, Revise!SnapshotLocks(s)
    PROVE  Revise!SoundRevisions'
<1>1. v1' = v1 /\ v3[s].at = "idle"
  BY DEF Revise!SnapshotLocks
<1>2. DOMAIN v3 = Snapshots /\ \A t \in Snapshots : DOMAIN v3[t] = {"at", "row", "hash"}
  BY ReviseFacts
<1>3. Revise!OneDraft' /\ Revise!FrozenIsPresent' /\ Revise!get_current_draft' = Revise!get_current_draft
  BY <1>1 DEF Revise!SoundRevisions, Revise!OneDraft, Revise!FrozenIsPresent, Revise!get_current_draft,
              Revise!Present, Revise!Row
<1>4. CASE v3' = [v3 EXCEPT ![s].at = "refused"] /\ v4' = v4
  <2>1. /\ DOMAIN v3' = Snapshots /\ \A t \in Snapshots : DOMAIN v3'[t] = {"at", "row", "hash"}
        /\ v3'[s].at = "refused" /\ \A t \in Snapshots \ {s} : v3'[t] = v3[t]
    BY <1>2, <1>4
  <2>2. Revise!RevisionsAreRows'
    BY <1>1, <2>1 DEF Revise!SoundRevisions, Revise!RevisionsAreRows, Revise!Row, Revise!ToSet
  <2>3. \A t \in Snapshots : v3'[t].at = "write" => v3'[t] = v3[t]
    BY <2>1
  <2> QED BY <1>3, <1>4, <2>2, <2>3 DEF Revise!SoundRevisions, Revise!OneWriter, Revise!WriterHoldsDraft
<1>5. ASSUME NEW d \in Revise!_lock_draft_revision, v4' = d,
             v3' = [v3 EXCEPT ![s] = [at |-> "write", row |-> d,
                                      hash |-> Revise!compute_composition_hash(Revise!Row(d).members)]]
      PROVE  Revise!SoundRevisions'
  <2>1. d \in Revise!get_current_draft /\ v4 # d
    BY <1>5 DEF Revise!_lock_draft_revision
  <2>2. \A t \in Snapshots : v3[t].at # "write"
    BY <2>1 DEF Revise!SoundRevisions, Revise!WriterHoldsDraft, Revise!OneDraft
  <2>3. /\ DOMAIN v3' = Snapshots /\ \A t \in Snapshots : DOMAIN v3'[t] = {"at", "row", "hash"}
        /\ v3'[s].row = d /\ \A t \in Snapshots \ {s} : v3'[t] = v3[t]
    BY <1>2, <1>5
  <2>4. Revise!RevisionsAreRows'
    BY <1>1, <2>3 DEF Revise!SoundRevisions, Revise!RevisionsAreRows, Revise!Row, Revise!ToSet
  <2>5. \A t \in Snapshots : v3'[t].at = "write" => t = s
    BY <2>2, <2>3
  <2>6. Revise!OneWriter'
    BY <2>5 DEF Revise!OneWriter
  <2>7. \A t \in Snapshots : Revise!WriterHoldsDraft(t)'
    BY <1>3, <1>5, <2>1, <2>3, <2>5 DEF Revise!WriterHoldsDraft
  <2> QED BY <1>3, <2>4, <2>6, <2>7 DEF Revise!SoundRevisions
<1> QED BY <1>4, <1>5 DEF Revise!SnapshotLocks

\* ... and one that writes: the row is the draft, so no frozen row is touched.
LEMMA ReviseWrite ==
    ASSUME Revise!SoundRevisions, NEW s \in Snapshots, Revise!SnapshotWrites(s)
    PROVE  Revise!SoundRevisions' /\ Revise!FrozenStays
<1> DEFINE d == v3[s].row
<1>1. v3[s].at = "write" /\ v3' = [v3 EXCEPT ![s].at = "done"]
  BY DEF Revise!SnapshotWrites
<1>2. d \in Revise!get_current_draft
  BY <1>1 DEF Revise!SoundRevisions, Revise!WriterHoldsDraft
<1>3. d \in DOMAIN v1 /\ ~v1[d].frozen /\ ~v1[d].deleted
  BY <1>2 DEF Revise!get_current_draft, Revise!Present, Revise!Row
<1>4. IsRevision(v1[d])
  BY <1>3, ReviseFacts
<1>5. PICK r : /\ v1' = [v1 EXCEPT ![d] = r] /\ IsRevision(r)
               /\ \/ r.deleted /\ ~r.frozen
                  \/ r.frozen /\ ~r.deleted
  <2>1. CASE v1' = [v1 EXCEPT ![d].deleted = TRUE]
    <3> DEFINE r == [v1[d] EXCEPT !.deleted = TRUE]
    <3>1. IsRevision(r) /\ r.deleted /\ r.frozen = v1[d].frozen
      BY <1>4 DEF IsRevision, Fields
    <3> QED BY <1>3, <2>1, <3>1
  <2>2. CASE v1' = [v1 EXCEPT ![d].frozen = TRUE, ![d].hash = v3[s].hash]
    <3> DEFINE r == [v1[d] EXCEPT !.frozen = TRUE, !.hash = v3[s].hash]
    <3>1. IsRevision(r) /\ r.frozen /\ r.deleted = v1[d].deleted
      BY <1>4 DEF IsRevision, Fields
    <3>2. v1' = [v1 EXCEPT ![d] = r]
      BY <1>3, <2>2
    <3> QED BY <1>3, <3>1, <3>2
  <2> QED BY <2>1, <2>2 DEF Revise!SnapshotWrites
<1> HIDE DEF d
<1>6. OneRow(d, r)
  BY <1>3, <1>5, ReviseRow DEF Revise!SoundRevisions
<1>7. /\ DOMAIN v3' = Snapshots /\ \A t \in Snapshots : DOMAIN v3'[t] = {"at", "row", "hash"}
      /\ v3'[s].at = "done" /\ \A t \in Snapshots \ {s} : v3'[t] = v3[t]
  BY <1>1, ReviseFacts
<1>8. \A t \in Snapshots : v3'[t].at # "write"
  BY <1>1, <1>7 DEF Revise!SoundRevisions, Revise!OneWriter
<1>9. Revise!get_current_draft' \subseteq Revise!get_current_draft
  BY <1>5, <1>6 DEF OneRow, Revise!get_current_draft, Revise!Present, Revise!Row
<1>10. \A i \in DOMAIN v1' : IsRevision(v1'[i])
  BY <1>5, <1>6, ReviseFacts DEF OneRow
<1>11. Revise!RevisionsAreRows'
  BY <1>6, <1>7, <1>10 DEF Revise!RevisionsAreRows, Revise!Row, IsRevision, Fields, OneRow
<1>12. Revise!FrozenIsPresent'
  BY <1>5, <1>6 DEF OneRow, Revise!SoundRevisions, Revise!FrozenIsPresent, Revise!Row
<1>13. Revise!OneDraft'
  BY <1>9 DEF Revise!SoundRevisions, Revise!OneDraft
<1>14. Revise!OneWriter' /\ \A t \in Snapshots : Revise!WriterHoldsDraft(t)'
  BY <1>8 DEF Revise!OneWriter, Revise!WriterHoldsDraft
<1>15. Revise!FrozenStays
  BY <1>3, <1>6 DEF OneRow, Revise!FrozenStays, Revise!SoundRevisions, Revise!FrozenIsPresent, Revise!Row
<1> QED BY <1>11, <1>12, <1>13, <1>14, <1>15 DEF Revise!SoundRevisions

LEMMA ReviseInit == Revise!Init => Revise!SoundRevisions
<1> SUFFICES ASSUME Revise!Init PROVE Revise!SoundRevisions
  OBVIOUS
<1>1. v1 = <<>> /\ v3 = [s \in Snapshots |-> [at |-> "idle", row |-> 0, hash |-> <<>>]]
  BY DEF Revise!Init
<1>2. v1 \in Seq(Revise!ToSet(v1)) /\ DOMAIN v1 = {}
  BY <1>1
<1>3. Revise!RevisionsAreRows /\ \A s \in Snapshots : v3[s].at = "idle"
  BY <1>1, <1>2 DEF Revise!RevisionsAreRows
<1> QED
  BY <1>2, <1>3 DEF Revise!SoundRevisions, Revise!OneDraft, Revise!FrozenIsPresent, Revise!OneWriter,
     Revise!WriterHoldsDraft, Revise!get_current_draft, Revise!Present

\* The other steps leave what a frozen row says of itself alone.
LEMMA ReviseStays ==
    ASSUME Revise!SoundRevisions, NEW a \in Adders, Revise!InsertDraft(a) \/ Revise!AddMember(a)
    PROVE  Revise!FrozenStays
<1>1. \A i \in DOMAIN v1 : /\ v1'[i].frozen = v1[i].frozen /\ v1'[i].deleted = v1[i].deleted
                           /\ v1'[i].hash = v1[i].hash
  <2>1. CASE v1' = v1
    BY <2>1
  <2>2. CASE Revise!InsertDraft(a) /\ v1' # v1
    <3>1. PICK r : v1' = Append(v1, r)
      BY <2>2 DEF Revise!InsertDraft
    <3> QED BY <3>1, ReviseFacts
  <2>3. CASE Revise!AddMember(a) /\ v1' # v1
    <3> DEFINE d == v2[a].row
               r == [v1[d] EXCEPT !.members = Append(v1[d].members, v2[a].strategy)]
    <3>1. d \in DOMAIN v1 /\ v1' = [v1 EXCEPT ![d] = r]
      BY <2>3 DEF Revise!AddMember, Revise!LockedIsMutable, Revise!Present
    <3>2. r.frozen = v1[d].frozen /\ r.deleted = v1[d].deleted /\ r.hash = v1[d].hash
      BY <3>1, ReviseFacts DEF IsRevision, Fields
    <3> HIDE DEF r, d
    <3>3. OneRow(d, r)
      BY <3>1, ReviseRow DEF Revise!SoundRevisions
    <3> QED BY <3>2, <3>3 DEF OneRow
  <2> QED BY <2>1, <2>2, <2>3
<1> QED BY <1>1 DEF Revise!FrozenStays, Revise!Row, Revise!SoundRevisions, Revise!FrozenIsPresent

LEMMA ReviseStep ==
    ASSUME Revise!SoundRevisions, [Revise!Next]_(Revise!vars)
    PROVE  Revise!SoundRevisions' /\ Revise!FrozenStays
<1>1. ASSUME v1' = v1 PROVE Revise!FrozenStays
  BY <1>1 DEF Revise!FrozenStays, Revise!Row, Revise!SoundRevisions, Revise!FrozenIsPresent
<1>2. CASE UNCHANGED Revise!vars
  BY <1>1, <1>2, ReviseQuiet DEF Revise!vars
<1>3. ASSUME NEW a \in Adders, Revise!ReadDraft(a) \/ Revise!ReadMaxNumber(a)
      PROVE  Revise!SoundRevisions' /\ Revise!FrozenStays
  BY <1>1, <1>3, ReviseQuiet DEF Revise!ReadDraft, Revise!ReadMaxNumber
<1>4. ASSUME NEW a \in Adders, Revise!InsertDraft(a) \/ Revise!AddMember(a)
      PROVE  Revise!SoundRevisions' /\ Revise!FrozenStays
  BY <1>4, ReviseInsert, ReviseAdd, ReviseStays
<1>5. ASSUME NEW s \in Snapshots, Revise!SnapshotLocks(s)
      PROVE  Revise!SoundRevisions' /\ Revise!FrozenStays
  BY <1>1, <1>5, ReviseLock DEF Revise!SnapshotLocks
<1>6. ASSUME NEW s \in Snapshots, Revise!SnapshotWrites(s)
      PROVE  Revise!SoundRevisions' /\ Revise!FrozenStays
  BY <1>6, ReviseWrite
<1> QED BY <1>2, <1>3, <1>4, <1>5, <1>6 DEF Revise!Next
-----------------------------------------------------------------------------
(* Candidates: promotions against stage requests.  v1: cands, v2: req,       *)
(* v3: frozen, v4: clerk.                                                    *)

LEMMA TodoShrinks ==
    ASSUME NEW S, NEW s \in Seq(S), s # <<>>
    PROVE  /\ Tail(s) \in Seq(S) /\ Head(s) \in S
           /\ Promote!ToSet(s) \subseteq Promote!ToSet(Tail(s)) \cup {Head(s)}
           /\ Len(s) = 1 <=> Tail(s) = <<>>
<1>1. Tail(s) \in Seq(S) /\ Head(s) \in S /\ Len(s) \in Nat \ {0} /\ DOMAIN s = 1..Len(s)
  OBVIOUS
<1>2. Len(Tail(s)) = Len(s) - 1 /\ DOMAIN Tail(s) = 1..(Len(s) - 1) /\ Head(s) = s[1]
  OBVIOUS
<1>3. ASSUME NEW i \in DOMAIN s, i # 1 PROVE (i - 1) \in DOMAIN Tail(s) /\ Tail(s)[i - 1] = s[i]
  BY <1>1, <1>2, <1>3
<1>4. \A x \in Promote!ToSet(s) : x = Head(s) \/ x \in Promote!ToSet(Tail(s))
  BY <1>2, <1>3 DEF Promote!ToSet
<1>5. Len(s) = 1 <=> Tail(s) = <<>>
  <2>1. Tail(s) = <<>> <=> Len(Tail(s)) = 0
    BY <1>1, EmptySeq, Zenon
  <2>2. Len(s) = 1 <=> Len(Tail(s)) = 0
    BY <1>1, <1>2
  <2> QED BY <2>1, <2>2
<1> QED BY <1>1, <1>4, <1>5

\* What a row backs, it goes on backing.
PromoteKept(i, who) ==
    /\ v1'[i].strategy = v1[i].strategy /\ v1'[i].config = v1[i].config
    /\ v1[i].stage # "rolled_back" /\ v1[i].by \in who =>
          v1'[i].stage # "rolled_back" /\ v1'[i].by \in who

PromoteGrows(who) ==
    DOMAIN v1 \subseteq DOMAIN v1' /\ \A i \in DOMAIN v1 : PromoteKept(i, who)

LEMMA PromoteBacks ==
    ASSUME NEW x, NEW c, NEW who, PromoteGrows(who),
           \E i \in DOMAIN v1 : Promote!Backs(i, x, c, who)
    PROVE  \E i \in DOMAIN v1' : Promote!Backs(i, x, c, who)'
<1>1. PICK i \in DOMAIN v1 : Promote!Backs(i, x, c, who)
  OBVIOUS
<1>2. i \in DOMAIN v1' /\ PromoteKept(i, who)
  BY DEF PromoteGrows
<1>3. Promote!Backs(i, x, c, who)'
  BY <1>1, <1>2 DEF Promote!Backs, PromoteKept
<1> QED BY <1>2, <1>3

LEMMA PromoteRequests == Promote!Requests = Promoters
  BY DEF Promote!Requests

\* Every promotion's and every frozen revision's backing survives a step that keeps the
\* rows of those who are under way.
LEMMA PromoteOthers ==
    ASSUME Promote!SoundPromotions, NEW r \in Promoters,
           PromoteGrows({r, Nobody}), v2'[r] = v2[r]
    PROVE  Promote!SettledIsBacked(r)' /\ Promote!TodoIsInStep(r)'
<1>1. ASSUME v2[r].at \in {"asked", "look", "insert", "reread", "commit"},
             NEW x \in Promote!ToSet(v2[r].members) \ Promote!ToSet(v2[r].todo)
      PROVE  \E i \in DOMAIN v1' : Promote!Backs(i, x, v2[r].config, {r, Nobody})'
  <2>1. \E i \in DOMAIN v1 : Promote!Backs(i, x, v2[r].config, {r, Nobody})
    BY <1>1 DEF Promote!SoundPromotions, Promote!SettledIsBacked
  <2> DEFINE c == v2[r].config
  <2> HIDE DEF c
  <2>2. \E i \in DOMAIN v1' : Promote!Backs(i, x, c, {r, Nobody})'
    BY <2>1, PromoteBacks DEF c
  <2> QED BY <2>2 DEF c
<1>2. Promote!SettledIsBacked(r)'
  BY <1>1 DEF Promote!SettledIsBacked, Promote!Backs
<1>3. Promote!TodoIsInStep(r)'
  BY PromoteRequests DEF Promote!SoundPromotions, Promote!TodoIsInStep
<1> QED BY <1>2, <1>3

LEMMA PromoteFrozen ==
    ASSUME Promote!SoundPromotions, PromoteGrows({Nobody}), v3' = v3
    PROVE  Promote!FrozenIsBacked'
<1> SUFFICES ASSUME NEW f \in v3, NEW x \in f.members
             PROVE  \E i \in DOMAIN v1' : Promote!Backs(i, x, f.config, {Nobody})'
  BY DEF Promote!FrozenIsBacked
<1>1. \E i \in DOMAIN v1 : Promote!Backs(i, x, f.config, {Nobody})
  BY DEF Promote!SoundPromotions, Promote!FrozenIsBacked
<1> QED BY <1>1, PromoteBacks

\* The rows, the requests and the stage requests one by one.
LEMMA PromoteFacts ==
    ASSUME Promote!SoundPromotions
    PROVE  /\ v1 \in Seq(Promote!CandidateType) /\ DOMAIN v1 = 1..Len(v1) /\ Len(v1) \in Nat
           /\ \A i \in DOMAIN v1 : v1[i] \in Promote!CandidateType
           /\ v2 \in [Promoters -> Promote!RequestType]
           /\ Nobody \notin Promoters
  BY PromoteRequests, ComposeAssumption DEF Promote!SoundPromotions, Promote!CandidatesAreTyped

\* A request steps: the others keep their rows, and it is in order itself.
LEMMA PromoteMove ==
    ASSUME Promote!SoundPromotions, NEW r \in Promoters, NEW q \in Promote!RequestType,
           v2' = [v2 EXCEPT ![r] = q], v1' \in Seq(Promote!CandidateType), v3' = v3, v4' = v4,
           PromoteGrows({Nobody}), \A o \in Promoters \ {r} : PromoteGrows({o, Nobody}),
           Promote!SettledIsBacked(r)', Promote!TodoIsInStep(r)'
    PROVE  Promote!SoundPromotions'
<1>1. v2' \in [Promoters -> Promote!RequestType] /\ \A o \in Promoters \ {r} : v2'[o] = v2[o]
  BY PromoteFacts
<1>2. \A k \in Clerks : v4[k].at = "write" => v4[k].row \in DOMAIN v1'
  BY DEF Promote!SoundPromotions, Promote!CandidatesAreTyped, PromoteGrows
<1>3. Promote!CandidatesAreTyped'
  BY <1>1, <1>2, PromoteRequests DEF Promote!SoundPromotions, Promote!CandidatesAreTyped
<1>4. Promote!FrozenIsBacked'
  BY PromoteFrozen
<1>5. \A o \in Promoters : Promote!SettledIsBacked(o)' /\ Promote!TodoIsInStep(o)'
  BY <1>1, PromoteOthers
<1> QED BY <1>3, <1>4, <1>5, PromoteRequests DEF Promote!SoundPromotions

LEMMA PromoteSame == ASSUME v1' = v1, NEW who PROVE PromoteGrows(who)
  BY DEF PromoteGrows, PromoteKept

Underway == {"asked", "look", "insert", "reread", "commit"}

\* To(r, at) between two steps under way, or to an end.
LEMMA PromoteTo ==
    ASSUME Promote!SoundPromotions, NEW r \in Promoters, NEW a,
           Promote!To(r, a), v1' = v1, v3' = v3, v4' = v4,
           v2[r].at \in Underway \ {"commit"}, a \in {"look", "insert", "reread", "refused"}
    PROVE  Promote!SoundPromotions'
<1> DEFINE q == [v2[r] EXCEPT !.at = a]
<1>1. v2[r] \in Promote!RequestType /\ DOMAIN v2 = Promoters
  BY PromoteFacts
<1>2. /\ q \in Promote!RequestType /\ q.at = a /\ q.todo = v2[r].todo /\ q.members = v2[r].members
      /\ q.config = v2[r].config
  BY <1>1 DEF Promote!RequestType
<1> HIDE DEF q
<1>3. v2' = [v2 EXCEPT ![r] = q] /\ v2'[r] = q
  BY <1>1 DEF q, Promote!To
<1>4. Promote!SettledIsBacked(r)'
  BY <1>2, <1>3 DEF Promote!SoundPromotions, Promote!SettledIsBacked, Promote!Backs, Underway
<1>5. Promote!TodoIsInStep(r)'
  BY <1>2, <1>3, PromoteRequests DEF Promote!SoundPromotions, Promote!TodoIsInStep, Underway
<1>6. v1' \in Seq(Promote!CandidateType)
  BY PromoteFacts
<1> QED BY <1>2, <1>3, <1>4, <1>5, <1>6, PromoteMove, PromoteSame

\* Settle(r): row i of the next rows backs the strategy that is settled.
LEMMA PromoteSettle ==
    ASSUME Promote!SoundPromotions, NEW r \in Promoters, Promote!Settle(r), v3' = v3, v4' = v4,
           v2[r].at \in {"look", "insert", "reread"}, v1' \in Seq(Promote!CandidateType),
           \A o \in Promoters : PromoteGrows({o, Nobody}), PromoteGrows({Nobody}),
           NEW i \in DOMAIN v1', v1'[i].strategy = Promote!Subject(r), v1'[i].config = v2[r].config,
           v1'[i].stage # "rolled_back", v1'[i].by \in {r, Nobody}
    PROVE  Promote!SoundPromotions'
<1> DEFINE a == IF Len(v2[r].todo) = 1 THEN "commit" ELSE "look"
           q == [v2[r] EXCEPT !.todo = Tail(v2[r].todo), !.at = a]
<1>1. v2[r] \in Promote!RequestType /\ DOMAIN v2 = Promoters
  BY PromoteFacts
<1>2. v2[r].todo \in Seq(Promotable) /\ v2[r].todo # <<>>
  BY <1>1, PromoteRequests DEF Promote!RequestType, Promote!SoundPromotions, Promote!TodoIsInStep
<1>3. Tail(v2[r].todo) \in Seq(Promotable)
  BY <1>2, TodoShrinks
<1>4. a \in {"commit", "look"} /\ (a = "commit" <=> Tail(v2[r].todo) = <<>>)
  BY <1>2, TodoShrinks
<1> HIDE DEF a
<1>5. /\ q \in Promote!RequestType /\ q.at = a /\ q.todo = Tail(v2[r].todo)
      /\ q.members = v2[r].members /\ q.config = v2[r].config
  BY <1>1, <1>3, <1>4 DEF Promote!RequestType
<1> HIDE DEF q
<1>6. v2' = [v2 EXCEPT ![r] = q] /\ v2'[r] = q
  BY <1>1 DEF q, a, Promote!Settle
<1>7. ASSUME NEW c, c = v2[r].config, NEW x \in Promote!ToSet(v2[r].members) \ Promote!ToSet(q.todo)
      PROVE  \E j \in DOMAIN v1' : Promote!Backs(j, x, c, {r, Nobody})'
  <2>1. CASE x = Promote!Subject(r)
    <3>1. Promote!Backs(i, x, c, {r, Nobody})'
      BY <1>7, <2>1 DEF Promote!Backs
    <3> QED BY <3>1
  <2>2. CASE x # Promote!Subject(r)
    <3>1. x \notin Promote!ToSet(v2[r].todo)
      BY <1>2, <1>5, <1>7, <2>2, TodoShrinks DEF Promote!Subject
    <3>2. \E j \in DOMAIN v1 : Promote!Backs(j, x, c, {r, Nobody})
      BY <1>7, <3>1 DEF Promote!SoundPromotions, Promote!SettledIsBacked
    <3> QED BY <3>2, PromoteBacks
  <2> QED BY <2>1, <2>2
<1>8. Promote!SettledIsBacked(r)'
  <2>1. v2'[r].config = v2[r].config /\ v2'[r].members = v2[r].members /\ v2'[r].todo = q.todo
    BY <1>5, <1>6
  <2> QED BY <1>7, <2>1 DEF Promote!SettledIsBacked
<1>9. Promote!TodoIsInStep(r)'
  BY <1>2, <1>4, <1>5, <1>6 DEF Promote!TodoIsInStep
<1> QED BY <1>5, <1>6, <1>8, <1>9, PromoteMove

LEMMA PromoteType ==
    ASSUME NEW c \in Promote!CandidateType
    PROVE  /\ \A s \in Promote!Stages \cup {"rolled_back"} : [c EXCEPT !.stage = s] \in Promote!CandidateType
           /\ [c EXCEPT !.by = Nobody] \in Promote!CandidateType
           /\ [c EXCEPT !.stage = "rolled_back", !.by = Nobody] \in Promote!CandidateType
           /\ [c EXCEPT !.linked = TRUE, !.stage = "live_running"] \in Promote!CandidateType
  BY DEF Promote!CandidateType, Promote!Stages

LEMMA MappedIsSeq ==
    ASSUME NEW S, NEW s \in Seq(S), NEW f \in [DOMAIN s -> S] PROVE f \in Seq(S)
<1>1. DOMAIN s = 1..Len(s) /\ Len(s) \in Nat
  OBVIOUS
<1> QED BY <1>1, SeqIsUnion

\* Fail(r, how): only the request's own rows are taken back.
LEMMA PromoteFail ==
    ASSUME Promote!SoundPromotions, NEW r \in Promoters, NEW how \in {"refused", "error", "victim"},
           Promote!Fail(r, how), v3' = v3, v4' = v4
    PROVE  Promote!SoundPromotions'
<1> DEFINE q == [v2[r] EXCEPT !.at = how]
<1>1. v2[r] \in Promote!RequestType /\ DOMAIN v2 = Promoters
  BY PromoteFacts
<1>2. q \in Promote!RequestType /\ q.at = how
  BY <1>1 DEF Promote!RequestType
<1> HIDE DEF q
<1>3. v2' = [v2 EXCEPT ![r] = q] /\ v2'[r] = q
  BY <1>1 DEF q, Promote!Fail, Promote!To
<1>4. v1' = [i \in DOMAIN v1 |-> IF v1[i].by = r
                                 THEN [v1[i] EXCEPT !.stage = "rolled_back", !.by = Nobody]
                                 ELSE v1[i]]
  BY DEF Promote!Fail, Promote!RolledBack
<1>5. \A i \in DOMAIN v1 : v1'[i] \in Promote!CandidateType
  BY <1>4, PromoteFacts, PromoteType
<1>6. v1' \in Seq(Promote!CandidateType) /\ DOMAIN v1' = DOMAIN v1
  <2>1. v1' \in [DOMAIN v1 -> Promote!CandidateType]
    BY <1>4, <1>5
  <2> QED BY <2>1, PromoteFacts, MappedIsSeq
<1>7. \A i \in DOMAIN v1 : /\ v1'[i].strategy = v1[i].strategy /\ v1'[i].config = v1[i].config
                           /\ v1[i].by # r => v1'[i] = v1[i]
  BY <1>4, PromoteFacts DEF Promote!CandidateType
<1>8. ASSUME NEW who, r \notin who PROVE PromoteGrows(who)
  BY <1>6, <1>7, <1>8 DEF PromoteGrows, PromoteKept
<1>9. PromoteGrows({Nobody}) /\ \A o \in Promoters \ {r} : PromoteGrows({o, Nobody})
  BY <1>8, PromoteFacts
<1>10. Promote!SettledIsBacked(r)' /\ Promote!TodoIsInStep(r)'
  BY <1>2, <1>3 DEF Promote!SettledIsBacked, Promote!TodoIsInStep
<1> QED BY <1>2, <1>3, <1>6, <1>9, <1>10, PromoteMove

\* A row in the slot a promotion looks at is a live candidate.
LEMMA PromoteVisible ==
    ASSUME NEW r \in Promoters, NEW x, NEW i \in Promote!Visible(r, x)
    PROVE  /\ i \in DOMAIN v1 /\ v1[i].strategy = x /\ v1[i].stage # "rolled_back"
           /\ v1[i].by \in {r, Nobody}
<1>1. i \in DOMAIN v1 /\ v1[i].strategy = x /\ v1[i].by \in {r, Nobody} /\ Promote!Slot(i) = "live"
  BY DEF Promote!Visible, Promote!Occupants, Promote!SlotOf
<1>2. v1[i].stage = "rolled_back" => Promote!Slot(i) = "none"
  BY DEF Promote!Slot
<1> QED BY <1>1, <1>2

LEMMA PromoteAdmit ==
    ASSUME Promote!SoundPromotions, NEW r \in Promoters, Promote!Admit(r) PROVE Promote!SoundPromotions'
  BY PromoteTo DEF Promote!Admit, Underway

\* An existing row of the configuration settles the strategy.
LEMMA PromoteFound ==
    ASSUME Promote!SoundPromotions, NEW r \in Promoters, NEW x, x = Promote!Subject(r),
           \E i \in Promote!Visible(r, x) : Promote!Reusable(r, i),
           Promote!Settle(r), v1' = v1, v3' = v3, v4' = v4, v2[r].at \in {"look", "reread"}
    PROVE  Promote!SoundPromotions'
<1>1. PICK i \in Promote!Visible(r, x) : v1[i].config = v2[r].config
  BY DEF Promote!Reusable
<1>2. /\ i \in DOMAIN v1 /\ v1[i].strategy = x /\ v1[i].stage # "rolled_back"
      /\ v1[i].by \in {r, Nobody}
  BY PromoteVisible
<1>3. v1' \in Seq(Promote!CandidateType)
  BY PromoteFacts
<1> QED BY <1>1, <1>2, <1>3, PromoteSettle, PromoteSame

LEMMA PromoteLook ==
    ASSUME Promote!SoundPromotions, NEW r \in Promoters, Promote!LookUp(r) PROVE Promote!SoundPromotions'
<1>1. v2[r].at = "look" /\ v3' = v3 /\ v4' = v4
  BY DEF Promote!LookUp
<1>2. CASE Promote!Fail(r, "refused")
  BY <1>1, <1>2, PromoteFail
<1>3. CASE Promote!To(r, "insert") /\ v1' = v1
  BY <1>1, <1>3, PromoteTo DEF Underway
<1>4. CASE /\ \E i \in Promote!Visible(r, Promote!Subject(r)) : Promote!Reusable(r, i)
           /\ Promote!Settle(r) /\ v1' = v1
  BY <1>1, <1>4, PromoteFound
<1> QED BY <1>2, <1>3, <1>4 DEF Promote!LookUp

\* The index lets one row in, of the request's own configuration.
LEMMA PromoteInsert ==
    ASSUME Promote!SoundPromotions, NEW r \in Promoters, Promote!InsertCandidate(r) PROVE Promote!SoundPromotions'
<1>1. v2[r].at = "insert" /\ v3' = v3 /\ v4' = v4
  BY DEF Promote!InsertCandidate
<1>2. CASE Promote!To(r, "reread") /\ v1' = v1
  BY <1>1, <1>2, PromoteTo DEF Underway
<1> DEFINE c == Promote!Candidate(Promote!Subject(r), "live_candidate", v2[r].config, r)
<1>3. CASE v1' = Append(v1, c) /\ Promote!Settle(r)
  <2>1. v2[r] \in Promote!RequestType /\ v2[r].todo # <<>>
    BY <1>1, PromoteFacts, PromoteRequests DEF Promote!SoundPromotions, Promote!TodoIsInStep
  <2>2. Promote!Subject(r) \in Promotable /\ v2[r].config \in Configs
    BY <2>1, TodoShrinks DEF Promote!Subject, Promote!RequestType
  <2>3. /\ c \in Promote!CandidateType /\ c.strategy = Promote!Subject(r) /\ c.config = v2[r].config
        /\ c.stage = "live_candidate" /\ c.by = r
    BY <2>2, PromoteRequests DEF Promote!Candidate, Promote!CandidateType, Promote!Stages
  <2> HIDE DEF c
  <2>4. v1 \in Seq(Promote!CandidateType)
    BY PromoteFacts
  <2>5. v1' \in Seq(Promote!CandidateType)
    BY <1>3, <2>3, <2>4
  <2>6. /\ DOMAIN v1 \subseteq DOMAIN v1' /\ \A i \in DOMAIN v1 : v1'[i] = v1[i]
        /\ Len(v1) + 1 \in DOMAIN v1' /\ v1'[Len(v1) + 1] = c
    BY <1>3, <2>4
  <2>7. ASSUME NEW who PROVE PromoteGrows(who)
    BY <2>6 DEF PromoteGrows, PromoteKept
  <2>8. PICK i \in DOMAIN v1' : v1'[i] = c
    BY <2>6
  <2> QED BY <1>1, <1>3, <2>3, <2>5, <2>7, <2>8, PromoteSettle
<1> QED BY <1>2, <1>3 DEF Promote!InsertCandidate

LEMMA PromoteReread ==
    ASSUME Promote!SoundPromotions, NEW r \in Promoters, Promote!RereadWinner(r) PROVE Promote!SoundPromotions'
<1>1. v2[r].at = "reread" /\ v3' = v3 /\ v4' = v4
  BY DEF Promote!RereadWinner
<1>2. CASE Promote!Fail(r, "refused") \/ Promote!Fail(r, "error")
  BY <1>1, <1>2, PromoteFail
<1>3. CASE /\ \E i \in Promote!Visible(r, Promote!Subject(r)) : Promote!WinnerServes(r, i)
           /\ Promote!Settle(r) /\ v1' = v1
  BY <1>1, <1>3, PromoteFound DEF Promote!WinnerServes
<1> QED BY <1>2, <1>3 DEF Promote!RereadWinner, Promote!Reread

LEMMA PromoteVictim ==
    ASSUME Promote!SoundPromotions, NEW r \in Promoters, Promote!DeadlockVictim(r) PROVE Promote!SoundPromotions'
  BY PromoteFail DEF Promote!DeadlockVictim

\* The commit: the request's rows become everybody's, and back its frozen revision.
LEMMA PromoteCommit ==
    ASSUME Promote!SoundPromotions, NEW r \in Promoters, Promote!Commit(r) PROVE Promote!SoundPromotions'
<1> DEFINE q == [v2[r] EXCEPT !.at = "done"]
           new == [members |-> Promote!ToSet(v2[r].members), config |-> v2[r].config]
<1>1. v2[r] \in Promote!RequestType /\ DOMAIN v2 = Promoters /\ v2[r].at = "commit" /\ v4' = v4
  BY PromoteFacts DEF Promote!Commit
<1>2. q \in Promote!RequestType /\ q.at = "done"
  BY <1>1 DEF Promote!RequestType
<1> HIDE DEF q
<1>3. v2' = [v2 EXCEPT ![r] = q] /\ v2'[r] = q /\ \A o \in Promoters \ {r} : v2'[o] = v2[o]
  BY <1>1 DEF q, Promote!Commit, Promote!To
<1>4. v1' = [i \in DOMAIN v1 |-> IF v1[i].by = r THEN [v1[i] EXCEPT !.by = Nobody] ELSE v1[i]]
  BY DEF Promote!Commit
<1>5. v3' = v3 \cup {new}
  BY DEF Promote!Commit
<1>6. v1' \in Seq(Promote!CandidateType) /\ DOMAIN v1' = DOMAIN v1
  <2>1. \A i \in DOMAIN v1 : v1'[i] \in Promote!CandidateType
    BY <1>4, PromoteFacts, PromoteType
  <2>2. v1' \in [DOMAIN v1 -> Promote!CandidateType]
    BY <1>4, <2>1
  <2> QED BY <2>2, PromoteFacts, MappedIsSeq
<1>7. \A i \in DOMAIN v1 : /\ v1'[i].strategy = v1[i].strategy /\ v1'[i].config = v1[i].config
                           /\ v1'[i].stage = v1[i].stage
                           /\ v1'[i].by = IF v1[i].by = r THEN Nobody ELSE v1[i].by
  BY <1>4, PromoteFacts DEF Promote!CandidateType
<1>8. ASSUME NEW who, Nobody \in who PROVE PromoteGrows(who)
  BY <1>6, <1>7, <1>8 DEF PromoteGrows, PromoteKept
<1>9. Promote!CandidatesAreTyped'
  <2>1. v2' \in [Promoters -> Promote!RequestType]
    BY <1>2, <1>3, PromoteFacts
  <2> QED BY <1>1, <1>6, <2>1, PromoteRequests DEF Promote!SoundPromotions, Promote!CandidatesAreTyped
<1>10. \A o \in Promoters : Promote!SettledIsBacked(o)' /\ Promote!TodoIsInStep(o)'
  <2>1. Promote!SettledIsBacked(r)' /\ Promote!TodoIsInStep(r)'
    BY <1>2, <1>3 DEF Promote!SettledIsBacked, Promote!TodoIsInStep
  <2> QED BY <1>3, <1>8, <2>1, PromoteOthers
<1>11. ASSUME NEW f \in v3, NEW x \in f.members
       PROVE  \E i \in DOMAIN v1' : Promote!Backs(i, x, f.config, {Nobody})'
  <2>1. \E i \in DOMAIN v1 : Promote!Backs(i, x, f.config, {Nobody})
    BY <1>11 DEF Promote!SoundPromotions, Promote!FrozenIsBacked
  <2> QED BY <1>8, <2>1, PromoteBacks
<1>12. ASSUME NEW c, c = v2[r].config, NEW x \in Promote!ToSet(v2[r].members)
       PROVE  \E i \in DOMAIN v1' : Promote!Backs(i, x, c, {Nobody})'
  <2>1. v2[r].todo = <<>>
    BY <1>1, PromoteRequests DEF Promote!SoundPromotions, Promote!TodoIsInStep
  <2>2. x \notin Promote!ToSet(v2[r].todo)
    BY <2>1 DEF Promote!ToSet
  <2>3. PICK i \in DOMAIN v1 : Promote!Backs(i, x, c, {r, Nobody})
    BY <1>1, <1>12, <2>2 DEF Promote!SoundPromotions, Promote!SettledIsBacked
  <2>4. Promote!Backs(i, x, c, {Nobody})'
    BY <1>7, <2>3 DEF Promote!Backs
  <2> QED BY <1>6, <2>4
<1>13. Promote!FrozenIsBacked'
  <2>1. new.members = Promote!ToSet(v2[r].members) /\ new.config = v2[r].config
    OBVIOUS
  <2> HIDE DEF new
  <2>2. ASSUME NEW f \in v3', NEW x \in f.members
        PROVE  \E i \in DOMAIN v1' : Promote!Backs(i, x, f.config, {Nobody})'
    <3>1. CASE f \in v3
      BY <1>11, <3>1
    <3>2. CASE f = new
      BY <1>12, <2>1, <2>2, <3>2
    <3> QED BY <1>5, <3>1, <3>2
  <2> QED BY <2>2 DEF Promote!FrozenIsBacked
<1> QED BY <1>9, <1>10, <1>13, PromoteRequests DEF Promote!SoundPromotions

\* A step of the pipeline that moves no row to rolled_back and no row's inserter.
LEMMA PromotePipeline ==
    ASSUME Promote!SoundPromotions, v2' = v2, v3' = v3, v1' \in Seq(Promote!CandidateType),
           \A who : PromoteGrows(who),
           v4' \in [Clerks -> [at: {"idle", "write", "done"}, row: Nat, to: Promote!Stages]],
           \A k \in Clerks : v4'[k].at = "write" => v4'[k].row \in DOMAIN v1'
    PROVE  Promote!SoundPromotions'
<1>1. Promote!CandidatesAreTyped'
  BY DEF Promote!SoundPromotions, Promote!CandidatesAreTyped
<1>2. Promote!FrozenIsBacked'
  BY PromoteFrozen
<1>3. \A o \in Promoters : Promote!SettledIsBacked(o)' /\ Promote!TodoIsInStep(o)'
  BY PromoteOthers
<1> QED BY <1>1, <1>2, <1>3, PromoteRequests DEF Promote!SoundPromotions

LEMMA PromoteClerks ==
    ASSUME Promote!SoundPromotions
    PROVE  /\ v4 \in [Clerks -> [at: {"idle", "write", "done"}, row: Nat, to: Promote!Stages]]
           /\ \A k \in Clerks : v4[k].at = "write" => v4[k].row \in DOMAIN v1
  BY DEF Promote!SoundPromotions, Promote!CandidatesAreTyped

LEMMA PromoteCreate ==
    ASSUME Promote!SoundPromotions, Promote!create_candidate PROVE Promote!SoundPromotions'
<1>1. PICK x \in Promotable, c \in Configs : v1' = Append(v1, Promote!Candidate(x, "discovery", c, Nobody))
  BY DEF Promote!create_candidate
<1> DEFINE new == Promote!Candidate(x, "discovery", c, Nobody)
<1>2. new \in Promote!CandidateType
  BY DEF Promote!Candidate, Promote!CandidateType, Promote!Stages
<1> HIDE DEF new
<1>3. v1 \in Seq(Promote!CandidateType)
  BY PromoteFacts
<1>4. v1' \in Seq(Promote!CandidateType) /\ DOMAIN v1 \subseteq DOMAIN v1' /\ \A i \in DOMAIN v1 : v1'[i] = v1[i]
  BY <1>1, <1>2, <1>3 DEF new
<1>5. ASSUME NEW who PROVE PromoteGrows(who)
  BY <1>4 DEF PromoteGrows, PromoteKept
<1>6. v2' = v2 /\ v3' = v3 /\ v4' = v4
  BY DEF Promote!create_candidate
<1> QED BY <1>4, <1>5, <1>6, PromoteClerks, PromotePipeline

LEMMA PromoteReadStage ==
    ASSUME Promote!SoundPromotions, NEW k \in Clerks, Promote!ReadStage(k) PROVE Promote!SoundPromotions'
<1>1. PICK i \in DOMAIN v1, s \in Promote!Stages : v4' = [v4 EXCEPT ![k] = [at |-> "write", row |-> i, to |-> s]]
  <2>1. \A t : Promote!AllowedFrom(t) \subseteq Promote!Stages
    BY DEF Promote!AllowedFrom, Promote!VALID_TRANSITIONS, Promote!Stages
  <2> QED BY <2>1 DEF Promote!ReadStage
<1>2. i \in Nat /\ v1' = v1 /\ v2' = v2 /\ v3' = v3
  BY PromoteFacts DEF Promote!ReadStage
<1>3. [at |-> "write", row |-> i, to |-> s] \in [at: {"idle", "write", "done"}, row: Nat, to: Promote!Stages]
  BY <1>2
<1>4. v4' \in [Clerks -> [at: {"idle", "write", "done"}, row: Nat, to: Promote!Stages]]
  BY <1>1, <1>3, PromoteClerks
<1>5. \A c \in Clerks : v4'[c].at = "write" => v4'[c].row \in DOMAIN v1
  BY <1>1, PromoteClerks
<1> QED BY <1>2, <1>4, <1>5, PromoteFacts, PromotePipeline, PromoteSame

\* One row moves to a stage of the pipeline.
LEMMA PromoteStage ==
    ASSUME Promote!SoundPromotions, NEW i \in DOMAIN v1, NEW c \in Promote!CandidateType,
           v1' = [v1 EXCEPT ![i] = c], c.strategy = v1[i].strategy, c.config = v1[i].config,
           c.by = v1[i].by, c.stage # "rolled_back"
    PROVE  v1' \in Seq(Promote!CandidateType) /\ DOMAIN v1' = DOMAIN v1 /\ \A who : PromoteGrows(who)
<1>1. v1' \in [DOMAIN v1 -> Promote!CandidateType]
  BY PromoteFacts
<1>2. v1' \in Seq(Promote!CandidateType)
  BY <1>1, PromoteFacts, MappedIsSeq
<1>3. ASSUME NEW who PROVE PromoteGrows(who)
  BY <1>1 DEF PromoteGrows, PromoteKept
<1> QED BY <1>1, <1>2, <1>3

LEMMA PromoteWriteStage ==
    ASSUME Promote!SoundPromotions, NEW k \in Clerks, Promote!WriteStage(k) PROVE Promote!SoundPromotions'
<1> DEFINE i == v4[k].row
           c == [v1[i] EXCEPT !.stage = v4[k].to]
<1>1. /\ v4[k].at = "write" /\ v4' = [v4 EXCEPT ![k].at = "done"] /\ v2' = v2 /\ v3' = v3
      /\ v1' = v1 \/ v1' = [v1 EXCEPT ![i] = c]
  BY DEF Promote!WriteStage
<1>2. i \in DOMAIN v1 /\ v4[k].to \in Promote!Stages
  BY <1>1, PromoteClerks
<1>3. v1[i] \in Promote!CandidateType
  BY <1>2, PromoteFacts
<1>4. c \in Promote!CandidateType
  BY <1>2, <1>3, PromoteType
<1>5. /\ c.strategy = v1[i].strategy /\ c.config = v1[i].config /\ c.by = v1[i].by
      /\ c.stage # "rolled_back"
  BY <1>2, <1>3 DEF Promote!CandidateType, Promote!Stages
<1> HIDE DEF c, i
<1>6. v1' \in Seq(Promote!CandidateType) /\ DOMAIN v1' = DOMAIN v1 /\ \A who : PromoteGrows(who)
  BY <1>1, <1>2, <1>4, <1>5, PromoteStage, PromoteSame, PromoteFacts
<1>7. v4' \in [Clerks -> [at: {"idle", "write", "done"}, row: Nat, to: Promote!Stages]]
  BY <1>1, PromoteClerks
<1>8. \A d \in Clerks : v4'[d].at = "write" => v4'[d].row \in DOMAIN v1
  BY <1>1, PromoteClerks
<1> QED BY <1>1, <1>6, <1>7, <1>8, PromotePipeline

LEMMA PromoteLink ==
    ASSUME Promote!SoundPromotions, Promote!LinkCandidate PROVE Promote!SoundPromotions'
<1>1. PICK i \in DOMAIN v1 : v1' = [v1 EXCEPT ![i].linked = TRUE, ![i].stage = "live_running"]
  BY DEF Promote!LinkCandidate
<1> DEFINE c == [v1[i] EXCEPT !.linked = TRUE, !.stage = "live_running"]
<1>2. v1[i] \in Promote!CandidateType
  BY PromoteFacts
<1>3. /\ c \in Promote!CandidateType /\ c.strategy = v1[i].strategy /\ c.config = v1[i].config
      /\ c.by = v1[i].by /\ c.stage # "rolled_back"
  BY <1>2, PromoteType DEF Promote!CandidateType
<1>4. v1' = [v1 EXCEPT ![i] = c]
  BY <1>1
<1> HIDE DEF c
<1>5. v1' \in Seq(Promote!CandidateType) /\ DOMAIN v1' = DOMAIN v1 /\ \A who : PromoteGrows(who)
  BY <1>3, <1>4, PromoteStage
<1>6. v2' = v2 /\ v3' = v3 /\ v4' = v4
  BY DEF Promote!LinkCandidate
<1> QED BY <1>5, <1>6, PromoteClerks, PromotePipeline

LEMMA PromoteInit == Promote!Init => Promote!SoundPromotions
<1> SUFFICES ASSUME Promote!Init PROVE Promote!SoundPromotions
  OBVIOUS
<1>1. PICK x \in Promotable, c \in Configs : v1 = <<Promote!Candidate(x, "paper_review", c, Nobody)>>
  BY DEF Promote!Init
<1>2. Promote!Candidate(x, "paper_review", c, Nobody) \in Promote!CandidateType
  BY DEF Promote!Candidate, Promote!CandidateType, Promote!Stages
<1>3. v1 \in Seq(Promote!CandidateType)
  BY <1>1, <1>2
<1>4. v2 \in [Promoters -> [at: {"asked"}, todo: Selections, members: Selections, config: Configs]]
  BY PromoteRequests DEF Promote!Init
<1>5. \A r \in Promoters : v2[r].at = "asked" /\ v2[r].todo = v2[r].members
  BY <1>4, PromoteRequests DEF Promote!Init
<1>6. [at: {"asked"}, todo: Selections, members: Selections, config: Configs] \subseteq Promote!RequestType
  BY ComposeAssumption DEF Promote!RequestType
<1>7. v2 \in [Promoters -> Promote!RequestType]
  BY <1>4, <1>6
<1>8. \A r \in Promoters : v2[r].todo # <<>>
  BY <1>4, ComposeAssumption
<1>9. v4 = [k \in Clerks |-> [at |-> "idle", row |-> 0, to |-> "archived"]] /\ v3 = {}
  BY DEF Promote!Init
<1>10. Promote!CandidatesAreTyped
  <2>1. v4 \in [Clerks -> [at: {"idle", "write", "done"}, row: Nat, to: Promote!Stages]]
    BY <1>9 DEF Promote!Stages
  <2>2. \A k \in Clerks : v4[k].at = "idle"
    BY <1>9
  <2> QED BY <1>3, <1>7, <2>1, <2>2, PromoteRequests DEF Promote!CandidatesAreTyped
<1>11. \A r \in Promoters : Promote!SettledIsBacked(r) /\ Promote!TodoIsInStep(r)
  BY <1>5, <1>8 DEF Promote!SettledIsBacked, Promote!TodoIsInStep
<1> QED BY <1>9, <1>10, <1>11, PromoteRequests DEF Promote!SoundPromotions, Promote!FrozenIsBacked

LEMMA PromoteStep ==
    ASSUME Promote!SoundPromotions, [Promote!Next]_(Promote!vars) PROVE Promote!SoundPromotions'
<1>1. CASE UNCHANGED Promote!vars
  <2>1. v1' = v1 /\ v2' = v2 /\ v3' = v3 /\ v4' = v4
    BY <1>1 DEF Promote!vars
  <2> QED BY <2>1, PromoteFacts, PromoteClerks, PromotePipeline, PromoteSame
<1>2. CASE Promote!Next
  BY <1>2, PromoteRequests, PromoteAdmit, PromoteLook, PromoteInsert, PromoteReread, PromoteCommit,
     PromoteVictim, PromoteReadStage, PromoteWriteStage, PromoteCreate, PromoteLink DEF Promote!Next
<1> QED BY <1>1, <1>2

LEMMA PromoteIsBacked ==
    ASSUME Promote!SoundPromotions PROVE Promote!PromotionIsBacked /\ Promote!LostRaceIsNoError
<1>1. Promote!PromotionIsBacked
  <2> SUFFICES ASSUME NEW f \in v3, NEW x \in f.members
               PROVE  \E i \in DOMAIN v1 : /\ v1[i].strategy = x /\ v1[i].config = f.config
                                           /\ v1[i].stage # "rolled_back"
    BY DEF Promote!PromotionIsBacked
  <2>1. PICK i \in DOMAIN v1 : Promote!Backs(i, x, f.config, {Nobody})
    BY DEF Promote!SoundPromotions, Promote!FrozenIsBacked
  <2> QED BY <2>1 DEF Promote!Backs
<1> QED BY <1>1 DEF Promote!LostRaceIsNoError
-----------------------------------------------------------------------------
(* Candidates: creations of portfolios.  v1: cands, v2: req, v3: frozen.     *)

LEMMA CreateRequests == Create!Requests = Composers
  BY DEF Create!Requests

LEMMA CreateFacts ==
    ASSUME Create!SoundCreations
    PROVE  /\ v1 \in Seq(Create!CandidateType) /\ \A i \in DOMAIN v1 : v1[i] \in Create!CandidateType
           /\ v2 \in [Composers -> Create!RequestType] /\ v3 = {}
           /\ Nobody \notin Composers
           /\ \A r \in Composers : /\ v2[r].at # "error" /\ Create!TodoIsInStep(r) /\ Create!WinnerStays(r)
<1>1. v1 \in Seq(Create!CandidateType) => \A i \in DOMAIN v1 : v1[i] \in Create!CandidateType
  OBVIOUS
<1> QED
  BY <1>1, CreateRequests, ComposeAssumption
     DEF Create!SoundCreations, Create!CandidatesAreTyped, Create!LostRaceIsNoError

\* The default rows that request r sees stay where they are.
CreateKeeps(r) ==
    /\ DOMAIN v1 \subseteq DOMAIN v1'
    /\ \A i \in DOMAIN v1 : v1[i].stage = "portfolio_default" /\ v1[i].by \in {r, Nobody} =>
         /\ v1'[i].stage = "portfolio_default" /\ v1'[i].by \in {r, Nobody}
         /\ v1'[i].strategy = v1[i].strategy

LEMMA CreateVisible ==
    ASSUME NEW r \in Composers, NEW x
    PROVE  Create!Visible(r, x) = {i \in DOMAIN v1 : /\ v1[i].strategy = x /\ v1[i].by \in {r, Nobody}
                                                     /\ v1[i].stage = "portfolio_default"}
<1>1. \A i : Create!Slot(i) = "default" <=> v1[i].stage = "portfolio_default"
  BY DEF Create!Slot
<1> QED BY <1>1 DEF Create!Visible, Create!Occupants, Create!SlotOf

LEMMA CreateWinner ==
    ASSUME Create!SoundCreations, NEW r \in Composers, CreateKeeps(r), v2'[r] = v2[r]
    PROVE  v2'[r].at # "error" /\ Create!TodoIsInStep(r)' /\ Create!WinnerStays(r)'
<1>1. v2'[r].at # "error" /\ Create!TodoIsInStep(r)'
  BY CreateFacts DEF Create!TodoIsInStep
<1>2. ASSUME v2[r].at = "reread" PROVE Create!Visible(r, Create!Subject(r))' # {}
  <2>1. PICK i \in DOMAIN v1 : /\ v1[i].strategy = Create!Subject(r) /\ v1[i].by \in {r, Nobody}
                               /\ v1[i].stage = "portfolio_default"
    BY <1>2, CreateFacts, CreateVisible DEF Create!WinnerStays
  <2>2. /\ i \in DOMAIN v1' /\ v1'[i].stage = "portfolio_default" /\ v1'[i].by \in {r, Nobody}
        /\ v1'[i].strategy = Create!Subject(r)
    BY <2>1 DEF CreateKeeps
  <2>3. Create!Slot(i)' = "default"
    BY <2>2 DEF Create!Slot
  <2>4. Create!Subject(r)' = Create!Subject(r)
    BY DEF Create!Subject
  <2> QED BY <2>2, <2>3, <2>4 DEF Create!Visible, Create!Occupants, Create!SlotOf
<1> QED BY <1>1, <1>2 DEF Create!WinnerStays

\* Request r steps and is in order, and the others keep what they see.
LEMMA CreateMove ==
    ASSUME Create!SoundCreations, NEW r \in Composers, NEW q \in Create!RequestType,
           v2' = [v2 EXCEPT ![r] = q], v1' \in Seq(Create!CandidateType), v3' = {}, v4' = v4,
           \A o \in Composers \ {r} : CreateKeeps(o),
           q.at # "error", Create!TodoIsInStep(r)', Create!WinnerStays(r)'
    PROVE  Create!SoundCreations'
<1>1. /\ v2' \in [Composers -> Create!RequestType] /\ v2'[r] = q
      /\ \A o \in Composers \ {r} : v2'[o] = v2[o]
  BY CreateFacts
<1>2. Create!CandidatesAreTyped'
  BY <1>1, CreateRequests DEF Create!SoundCreations, Create!CandidatesAreTyped
<1>3. \A o \in Composers : v2'[o].at # "error" /\ Create!TodoIsInStep(o)' /\ Create!WinnerStays(o)'
  BY <1>1, CreateWinner
<1> QED BY <1>2, <1>3, CreateRequests DEF Create!SoundCreations, Create!LostRaceIsNoError

LEMMA CreateSame == ASSUME v1' = v1, NEW o PROVE CreateKeeps(o)
  BY DEF CreateKeeps

LEMMA CreateTo ==
    ASSUME Create!SoundCreations, NEW r \in Composers, NEW a \in {"look", "insert", "reread", "refused"},
           Create!To(r, a), v1' = v1, v3' = v3, v4' = v4, v2[r].at \in {"asked", "look", "insert"},
           a = "reread" => Create!Visible(r, Create!Subject(r)) # {}
    PROVE  Create!SoundCreations'
<1> DEFINE q == [v2[r] EXCEPT !.at = a]
<1>1. v2[r] \in Create!RequestType /\ DOMAIN v2 = Composers /\ v1 \in Seq(Create!CandidateType) /\ v3 = {}
  BY CreateFacts
<1>2. q \in Create!RequestType /\ q.at = a /\ q.todo = v2[r].todo
  BY <1>1 DEF Create!RequestType
<1> HIDE DEF q
<1>3. v2' = [v2 EXCEPT ![r] = q] /\ v2'[r] = q
  BY <1>1 DEF q, Create!To
<1>4. Create!TodoIsInStep(r)'
  BY <1>2, <1>3, CreateFacts DEF Create!TodoIsInStep
<1>5. Create!WinnerStays(r)'
  <2>1. Create!Visible(r, Create!Subject(r))' = Create!Visible(r, Create!Subject(r))
    BY <1>2, <1>3 DEF Create!Visible, Create!Occupants, Create!Slot, Create!SlotOf, Create!Subject
  <2> QED BY <1>2, <1>3, <2>1 DEF Create!WinnerStays
<1> QED BY <1>1, <1>2, <1>3, <1>4, <1>5, CreateMove, CreateSame

LEMMA CreateSettle ==
    ASSUME Create!SoundCreations, NEW r \in Composers, Create!Settle(r), v3' = v3, v4' = v4,
           v2[r].at \in {"look", "insert", "reread"}, v1' \in Seq(Create!CandidateType),
           \A o \in Composers \ {r} : CreateKeeps(o)
    PROVE  Create!SoundCreations'
<1> DEFINE a == IF Len(v2[r].todo) = 1 THEN "commit" ELSE "look"
           q == [v2[r] EXCEPT !.todo = Tail(v2[r].todo), !.at = a]
<1>1. v2[r] \in Create!RequestType /\ DOMAIN v2 = Composers /\ v3 = {}
  BY CreateFacts
<1>2. v2[r].todo \in Seq(Strategies) /\ v2[r].todo # <<>>
  BY <1>1, CreateFacts DEF Create!RequestType, Create!TodoIsInStep
<1>3. Tail(v2[r].todo) \in Seq(Strategies)
  BY <1>2, TodoShrinks
<1>4. a \in {"commit", "look"} /\ (a = "commit" <=> Tail(v2[r].todo) = <<>>)
  BY <1>2, TodoShrinks
<1> HIDE DEF a
<1>5. q \in Create!RequestType /\ q.at = a /\ q.todo = Tail(v2[r].todo)
  BY <1>1, <1>3, <1>4 DEF Create!RequestType
<1> HIDE DEF q
<1>6. v2' = [v2 EXCEPT ![r] = q] /\ v2'[r] = q
  BY <1>1 DEF q, a, Create!Settle
<1>7. Create!TodoIsInStep(r)' /\ Create!WinnerStays(r)'
  BY <1>4, <1>5, <1>6 DEF Create!TodoIsInStep, Create!WinnerStays
<1> QED BY <1>1, <1>4, <1>5, <1>6, <1>7, CreateMove

\* A rollback or a commit of r's rows leaves what the others see.
LEMMA CreateEnds ==
    ASSUME Create!SoundCreations, NEW r \in Composers, NEW a \in {"refused", "victim", "done"},
           Create!To(r, a), v3' = {}, v4' = v4,
           v1' = Create!RolledBack(r) \/
           v1' = [i \in DOMAIN v1 |-> IF v1[i].by = r THEN [v1[i] EXCEPT !.by = Nobody] ELSE v1[i]]
    PROVE  Create!SoundCreations'
<1> DEFINE q == [v2[r] EXCEPT !.at = a]
<1>1. v2[r] \in Create!RequestType /\ DOMAIN v2 = Composers /\ v1 \in Seq(Create!CandidateType)
  BY CreateFacts
<1>2. q \in Create!RequestType /\ q.at = a
  BY <1>1 DEF Create!RequestType
<1> HIDE DEF q
<1>3. v2' = [v2 EXCEPT ![r] = q] /\ v2'[r] = q
  BY <1>1 DEF q, Create!To
<1>4. \A c \in Create!CandidateType : /\ [c EXCEPT !.by = Nobody] \in Create!CandidateType
                                      /\ [c EXCEPT !.stage = "rolled_back", !.by = Nobody] \in Create!CandidateType
  BY DEF Create!CandidateType
<1>5. v1' \in [DOMAIN v1 -> Create!CandidateType]
  BY <1>4, CreateFacts DEF Create!RolledBack
<1>6. \A i \in DOMAIN v1 : v1[i].by # r => v1'[i] = v1[i]
  BY DEF Create!RolledBack
<1>7. v1' \in Seq(Create!CandidateType)
  BY <1>1, <1>5, MappedIsSeq
<1>8. \A o \in Composers \ {r} : CreateKeeps(o)
  BY <1>5, <1>6, CreateFacts DEF CreateKeeps
<1>9. Create!TodoIsInStep(r)' /\ Create!WinnerStays(r)'
  BY <1>2, <1>3 DEF Create!TodoIsInStep, Create!WinnerStays
<1> QED BY <1>2, <1>3, <1>7, <1>8, <1>9, CreateMove

LEMMA CreateActs ==
    ASSUME Create!SoundCreations, NEW r \in Composers,
           \/ Create!Admit(r) \/ Create!LookUp(r) \/ Create!InsertCandidate(r) \/ Create!RereadWinner(r)
           \/ Create!Commit(r) \/ Create!DeadlockVictim(r)
    PROVE  Create!SoundCreations'
<1>1. v1 \in Seq(Create!CandidateType) /\ v3 = {} /\ v2[r] \in Create!RequestType
  BY CreateFacts
<1>2. CASE Create!Admit(r)
  BY <1>2, CreateTo DEF Create!Admit
<1>3. CASE Create!LookUp(r)
  <2>1. v2[r].at = "look" /\ v3' = v3 /\ v4' = v4
    BY <1>3 DEF Create!LookUp
  <2>2. CASE Create!Settle(r) /\ v1' = v1
    BY <1>1, <2>1, <2>2, CreateSettle, CreateSame
  <2>3. CASE Create!Fail(r, "refused")
    BY <1>1, <2>1, <2>3, CreateEnds DEF Create!Fail
  <2>4. CASE Create!To(r, "insert") /\ v1' = v1
    BY <2>1, <2>4, CreateTo
  <2> QED BY <1>3, <2>2, <2>3, <2>4 DEF Create!LookUp
<1>4. CASE Create!InsertCandidate(r)
  <2>1. v2[r].at = "insert" /\ v3' = v3 /\ v4' = v4
    BY <1>4 DEF Create!InsertCandidate
  <2>2. CASE Create!To(r, "reread") /\ v1' = v1 /\ Create!Visible(r, Create!Subject(r)) # {}
    BY <2>1, <2>2, CreateTo
  <2> DEFINE c == Create!Candidate(Create!Subject(r), "portfolio_default", v2[r].config, r)
  <2>3. CASE v1' = Append(v1, c) /\ Create!Settle(r)
    <3>1. v2[r].todo # <<>> /\ v2[r].todo \in Seq(Strategies) /\ v2[r].config \in Configs
      BY <1>1, <2>1, CreateFacts DEF Create!TodoIsInStep, Create!RequestType
    <3>2. c \in Create!CandidateType
      BY <3>1, TodoShrinks, CreateRequests DEF Create!Subject, Create!Candidate, Create!CandidateType
    <3> HIDE DEF c
    <3>3. /\ v1' \in Seq(Create!CandidateType) /\ DOMAIN v1 \subseteq DOMAIN v1'
          /\ \A i \in DOMAIN v1 : v1'[i] = v1[i]
      BY <1>1, <2>3, <3>2
    <3>4. \A o \in Composers : CreateKeeps(o)
      BY <3>3 DEF CreateKeeps
    <3> QED BY <2>1, <2>3, <3>3, <3>4, CreateSettle
  <2> QED BY <1>4, <2>2, <2>3 DEF Create!InsertCandidate
<1>5. CASE Create!RereadWinner(r)
  <2>1. v2[r].at = "reread" /\ v3' = v3 /\ v4' = v4 /\ Create!Reread(r)
    BY <1>5 DEF Create!RereadWinner
  <2>2. PICK i \in Create!Visible(r, Create!Subject(r)) : TRUE
    BY <2>1, CreateFacts DEF Create!WinnerStays
  <2>3. Create!WinnerServes(r, i)
    BY DEF Create!WinnerServes, Create!Reusable
  <2>4. Create!Settle(r) /\ v1' = v1
    BY <2>1, <2>2, <2>3 DEF Create!Reread
  <2> QED BY <1>1, <2>1, <2>4, CreateSettle, CreateSame
<1>6. CASE Create!Commit(r)
  BY <1>1, <1>6, CreateEnds DEF Create!Commit
<1>7. CASE Create!DeadlockVictim(r)
  BY <1>1, <1>7, CreateEnds DEF Create!DeadlockVictim, Create!Fail
<1> QED BY <1>2, <1>3, <1>4, <1>5, <1>6, <1>7

\* The pipeline adds and links other rows.
LEMMA CreatePipeline ==
    ASSUME Create!SoundCreations, Create!create_candidate \/ Create!LinkCandidate PROVE Create!SoundCreations'
<1>1. v2' = v2 /\ v3' = v3 /\ v4' = v4
  BY DEF Create!create_candidate, Create!LinkCandidate
<1>2. v1 \in Seq(Create!CandidateType) /\ \A i \in DOMAIN v1 : v1[i] \in Create!CandidateType
  BY CreateFacts
<1>3. v1' \in Seq(Create!CandidateType) /\ \A o \in Composers : CreateKeeps(o)
  <2>1. CASE Create!create_candidate
    <3>1. PICK x \in Strategies, c \in Configs : v1' = Append(v1, Create!Candidate(x, "discovery", c, Nobody))
      BY <2>1 DEF Create!create_candidate
    <3> DEFINE new == Create!Candidate(x, "discovery", c, Nobody)
    <3>2. new \in Create!CandidateType
      BY DEF Create!Candidate, Create!CandidateType, Create!Stages
    <3> HIDE DEF new
    <3>3. /\ v1' \in Seq(Create!CandidateType) /\ DOMAIN v1 \subseteq DOMAIN v1'
          /\ \A i \in DOMAIN v1 : v1'[i] = v1[i]
      BY <1>2, <3>1, <3>2 DEF new
    <3> QED BY <3>3 DEF CreateKeeps
  <2>2. CASE Create!LinkCandidate
    <3>1. PICK i \in DOMAIN v1 : /\ Create!Slot(i) = "live"
                                 /\ v1' = [v1 EXCEPT ![i].linked = TRUE, ![i].stage = "live_running"]
      BY <2>2 DEF Create!LinkCandidate
    <3> DEFINE c == [v1[i] EXCEPT !.linked = TRUE, !.stage = "live_running"]
    <3>2. v1[i].stage # "portfolio_default"
      BY <3>1 DEF Create!Slot
    <3>3. c \in Create!CandidateType
      BY <1>2 DEF Create!CandidateType, Create!Stages
    <3>4. v1' = [v1 EXCEPT ![i] = c]
      BY <3>1
    <3> HIDE DEF c
    <3>5. v1' \in [DOMAIN v1 -> Create!CandidateType] /\ \A j \in DOMAIN v1 \ {i} : v1'[j] = v1[j]
      BY <1>2, <3>3, <3>4
    <3>6. v1' \in Seq(Create!CandidateType)
      BY <1>2, <3>5, MappedIsSeq
    <3> QED BY <3>2, <3>5, <3>6 DEF CreateKeeps
  <2> QED BY <2>1, <2>2
<1>4. Create!CandidatesAreTyped'
  BY <1>1, <1>3 DEF Create!SoundCreations, Create!CandidatesAreTyped
<1>5. \A o \in Composers : v2'[o].at # "error" /\ Create!TodoIsInStep(o)' /\ Create!WinnerStays(o)'
  BY <1>1, <1>3, CreateWinner
<1> QED BY <1>1, <1>4, <1>5, CreateFacts, CreateRequests DEF Create!SoundCreations, Create!LostRaceIsNoError

LEMMA CreateInit == Create!Init => Create!SoundCreations
<1> SUFFICES ASSUME Create!Init PROVE Create!SoundCreations
  OBVIOUS
<1> DEFINE All == Selections \cup OddSelections
<1>1. PICK x \in Strategies, c \in Configs : v1 = <<Create!Candidate(x, "paper_review", c, Nobody)>>
  BY DEF Create!Init
<1>2. Create!Candidate(x, "paper_review", c, Nobody) \in Create!CandidateType
  BY DEF Create!Candidate, Create!CandidateType, Create!Stages
<1>3. v1 \in Seq(Create!CandidateType)
  BY <1>1, <1>2
<1>4. v2 \in [Composers -> [at: {"asked"}, todo: All, members: All, config: Configs]]
  BY CreateRequests DEF Create!Init
<1>5. \A r \in Composers : v2[r].at = "asked" /\ v2[r].todo # <<>>
  BY <1>4, ComposeAssumption
<1>6. [at: {"asked"}, todo: All, members: All, config: Configs] \subseteq Create!RequestType
  BY ComposeAssumption DEF Create!RequestType
<1>7. v2 \in [Composers -> Create!RequestType]
  BY <1>4, <1>6
<1>8. v4 = [k \in {} |-> [at |-> "idle", row |-> 0, to |-> "archived"]] /\ v3 = {}
  BY DEF Create!Init
<1>9. Create!CandidatesAreTyped
  BY <1>3, <1>7, <1>8, CreateRequests DEF Create!CandidatesAreTyped
<1>10. \A r \in Composers : Create!TodoIsInStep(r) /\ Create!WinnerStays(r)
  BY <1>5 DEF Create!TodoIsInStep, Create!WinnerStays
<1> QED BY <1>5, <1>8, <1>9, <1>10, CreateRequests DEF Create!SoundCreations, Create!LostRaceIsNoError

LEMMA CreateStep ==
    ASSUME Create!SoundCreations, [Create!Next]_(Create!vars) PROVE Create!SoundCreations'
<1>1. CASE UNCHANGED Create!vars
  <2>1. v1' = v1 /\ v2' = v2 /\ v3' = v3 /\ v4' = v4
    BY <1>1 DEF Create!vars
  <2>2. \A o \in Composers : v2'[o].at # "error" /\ Create!TodoIsInStep(o)' /\ Create!WinnerStays(o)'
    BY <2>1, CreateWinner, CreateSame
  <2>3. Create!CandidatesAreTyped'
    BY <2>1 DEF Create!SoundCreations, Create!CandidatesAreTyped
  <2> QED BY <2>1, <2>2, <2>3, CreateFacts, CreateRequests DEF Create!SoundCreations, Create!LostRaceIsNoError
<1>2. CASE Create!Next
  BY <1>2, CreateRequests, CreateActs, CreatePipeline DEF Create!Next
<1> QED BY <1>1, <1>2

LEMMA CreateIsSafe ==
    ASSUME Create!SoundCreations PROVE Create!PromotionIsBacked /\ Create!LostRaceIsNoError
  BY DEF Create!SoundCreations, Create!PromotionIsBacked
-----------------------------------------------------------------------------
\* For any requests, strategies, selections and rows: a revision that a snapshot froze is
\* there for good with its hash, however snapshots and additions interleave (the row lock of
\* _lock_draft_revision); every member of a promotion that committed has a candidate of its
\* configuration, whoever won the slot, over rollbacks, stage requests and links; and a
\* creation that lost the race for a default candidate finds the winner's row.
THEOREM CompositionsStayWhole == Spec => CompositionsHold
<1> DEFINE RevInv == part = "Revise" => Revise!SoundRevisions
           PromInv == part = "Promote" => Promote!SoundPromotions
           CreInv == part = "Create" => Create!SoundCreations
           Stays == part = "Revise" => Revise!FrozenStays
           Prom == part = "Promote" => Promote!PromotionIsBacked /\ Promote!LostRaceIsNoError
           Crea == part = "Create" => Create!PromotionIsBacked /\ Create!LostRaceIsNoError
<1>1. Init => RevInv /\ PromInv /\ CreInv
  BY ReviseInit, PromoteInit, CreateInit DEF Init
<1>2. ASSUME [Next]_pool, part' = "Revise" PROVE part = "Revise" /\ [Revise!Next]_(Revise!vars)
  BY <1>2 DEF Next, pool, Rest4, Rest5, Revise!vars
<1>3. ASSUME [Next]_pool, part' = "Promote" PROVE part = "Promote" /\ [Promote!Next]_(Promote!vars)
  BY <1>3 DEF Next, pool, Rest4, Rest5, Promote!vars
<1>4. ASSUME [Next]_pool, part' = "Create" PROVE part = "Create" /\ [Create!Next]_(Create!vars)
  BY <1>4 DEF Next, pool, Rest4, Rest5, Create!vars
<1>5. RevInv /\ [Next]_pool => RevInv'
  BY <1>2, ReviseStep
<1>6. PromInv /\ [Next]_pool => PromInv'
  BY <1>3, PromoteStep
<1>7. CreInv /\ [Next]_pool => CreInv'
  BY <1>4, CreateStep
<1>8. PromInv => Prom
  BY PromoteIsBacked
<1>9. CreInv => Crea
  BY CreateIsSafe
<1>10. RevInv /\ [Next]_pool => [Stays]_pool
  <2>1. ASSUME [Next]_pool PROVE part' = part
    BY <2>1 DEF Next, pool
  <2> QED BY <1>2, <2>1, ReviseStep
<1> QED BY <1>1, <1>5, <1>6, <1>7, <1>8, <1>9, <1>10, PTL DEF Spec, CompositionsHold
-----------------------------------------------------------------------------
\* A set of naturals has a least member.
LEMMA LeastNatural ==
    ASSUME NEW T \in SUBSET Nat, T # {}
    PROVE  \E m \in T : \A n \in T : m <= n
<1> DEFINE R == OpToRel(<, Nat)
<1>1. IsWellFoundedOn(R, Nat)
  BY NatLessThanWellFounded
<1>2. \A x, y \in Nat : <<y, x>> \in R <=> y < x
  BY DEF OpToRel
<1> HIDE DEF R
<1>3. PICK m \in T : \A n \in T : ~(<<n, m>> \in R)
  BY <1>1, WFMin
<1>4. ASSUME NEW n \in T PROVE m <= n
  <2>1. n \in Nat /\ m \in Nat /\ ~(n < m)
    BY <1>2, <1>3
  <2> QED BY <2>1
<1> QED BY <1>4

(* StrategySync.  v1: code, v2: conf, v3: loaded, v4: rows, v5: sync,        *)
(* v6: gone, v7: faults.                                                     *)

\* The parts of the state that have a type, next.
SyncStateIsTyped ==
    /\ v1 \in [Paths -> 0..MaxVersion] /\ v2 \in 1..MaxVersion /\ v3 \in 0..MaxVersion
    /\ Sync!RowsAreTyped /\ v5 \in [Syncs -> Sync!Request] /\ v6 \subseteq Paths
    /\ v7 \in 0..MaxJobFaults

LEMMA SyncFacts ==
    ASSUME Sync!SoundSync
    PROVE  /\ SyncStateIsTyped /\ Sync!MissingIsGone /\ Sync!LeastIsActive
           /\ \A y \in Syncs : v5[y] \in Sync!Request /\ Sync!ReadIsCurrent(y)
           /\ MaxVersion \in Nat \ {0} /\ MaxJobFaults \in Nat /\ RowIds \subseteq Nat
  BY SyncAssumption DEF Sync!SoundSync, Sync!TypeOK, Sync!Versions, SyncStateIsTyped

LEMMA SyncKept ==
    ASSUME SyncStateIsTyped', Sync!MissingIsGone', Sync!LeastIsActive',
           \A y \in Syncs : Sync!ReadIsCurrent(y)'
    PROVE  Sync!SoundSync'
<1>1. \A y \in Syncs : v5'[y] \in Sync!Request
  BY DEF SyncStateIsTyped
<1>2. Sync!TypeOK'
  <2>1. \A y \in Syncs :
         /\ v5'[y].at \in {"idle", "imported", "read"} /\ v5'[y].found \subseteq Paths
         /\ v5'[y].schema \in [Paths -> Sync!Pair] /\ v5'[y].hash \in [Paths -> Sync!Pair]
         /\ v5'[y].active \subseteq RowIds /\ v5'[y].archived \subseteq RowIds
         /\ v5'[y].undisturbed \in BOOLEAN
    BY <1>1 DEF Sync!Request
  <2>2. \A i \in DOMAIN v4' : v4'[i] \in Sync!Row
    BY DEF SyncStateIsTyped, Sync!RowsAreTyped
  <2> QED BY <2>1, <2>2 DEF Sync!TypeOK, SyncStateIsTyped, Sync!RowsAreTyped, Sync!Versions
<1> QED BY <1>2 DEF Sync!SoundSync, SyncStateIsTyped

\* The table is left alone, or only more names are excused.
LEMMA LeastStays ==
    ASSUME Sync!LeastIsActive, v4' = v4, v6 \subseteq v6'
    PROVE  Sync!LeastIsActive'
<1>1. \A s : Sync!Rows(RowIds, s)' = Sync!Rows(RowIds, s)
  BY DEF Sync!Rows
<1> QED BY <1>1 DEF Sync!LeastIsActive

LEMMA DisturbedRequests ==
    ASSUME Sync!SoundSync
    PROVE  /\ Sync!Disturbed \in [Syncs -> Sync!Request]
           /\ \A y \in Syncs : /\ Sync!Disturbed[y].at = v5[y].at
                               /\ Sync!Disturbed[y].at = "read" => ~Sync!Disturbed[y].undisturbed
<1> SUFFICES ASSUME NEW y \in Syncs
             PROVE  /\ Sync!Disturbed[y] \in Sync!Request /\ Sync!Disturbed[y].at = v5[y].at
                    /\ Sync!Disturbed[y].at = "read" => ~Sync!Disturbed[y].undisturbed
  BY DEF Sync!Disturbed
<1>1. v5[y] \in Sync!Request
  BY SyncFacts
<1>2. Sync!Disturbed[y] = [v5[y] EXCEPT !.undisturbed = (v5[y].at = "idle")]
  BY DEF Sync!Disturbed
<1> QED BY <1>1, <1>2 DEF Sync!Request

\* No request that has read is undisturbed any more.
LEMMA DisturbedReads ==
    ASSUME Sync!SoundSync, v5' = Sync!Disturbed, NEW y \in Syncs
    PROVE  Sync!ReadIsCurrent(y)'
  BY DisturbedRequests DEF Sync!ReadIsCurrent

LEMMA IdleRequest == Sync!Idle \in Sync!Request /\ Sync!Idle.at = "idle"
<1>1. Sync!NoPair \in Sync!Pair
  BY SyncAssumption DEF Sync!NoPair, Sync!Pair
<1> QED BY <1>1 DEF Sync!Idle, Sync!Request

LEMMA SyncStart == ASSUME Sync!Init PROVE Sync!SoundSync
<1>1. SyncStateIsTyped
  <2>1. v1 \in [Paths -> 0..MaxVersion] /\ v2 \in 1..MaxVersion /\ v3 \in 0..MaxVersion /\ v7 \in 0..MaxJobFaults
    BY SyncAssumption DEF Sync!Init
  <2>2. v5 \in [Syncs -> Sync!Request]
    BY IdleRequest DEF Sync!Init
  <2>3. Sync!RowsAreTyped
    BY DEF Sync!Init, Sync!RowsAreTyped
  <2> QED BY <2>1, <2>2, <2>3 DEF Sync!Init, SyncStateIsTyped
<1>2. Sync!MissingIsGone /\ Sync!LeastIsActive
  <2>1. DOMAIN v4 = {}
    BY DEF Sync!Init
  <2> QED BY <2>1 DEF Sync!Init, Sync!MissingIsGone, Sync!LeastIsActive, Sync!Rows
<1>3. \A y \in Syncs : Sync!ReadIsCurrent(y)
  BY IdleRequest DEF Sync!Init, Sync!ReadIsCurrent
<1>4. Sync!TypeOK
  <2>1. \A y \in Syncs : v5[y] \in Sync!Request
    BY <1>1 DEF SyncStateIsTyped
  <2>2. \A y \in Syncs :
         /\ v5[y].at \in {"idle", "imported", "read"} /\ v5[y].found \subseteq Paths
         /\ v5[y].schema \in [Paths -> Sync!Pair] /\ v5[y].hash \in [Paths -> Sync!Pair]
         /\ v5[y].active \subseteq RowIds /\ v5[y].archived \subseteq RowIds
         /\ v5[y].undisturbed \in BOOLEAN
    BY <2>1 DEF Sync!Request
  <2>3. \A i \in DOMAIN v4 : v4[i] \in Sync!Row
    BY <1>1 DEF SyncStateIsTyped, Sync!RowsAreTyped
  <2> QED BY <1>1, <2>2, <2>3 DEF Sync!TypeOK, SyncStateIsTyped, Sync!RowsAreTyped, Sync!Versions
<1> QED BY <1>1, <1>2, <1>3, <1>4 DEF Sync!SoundSync, SyncStateIsTyped

LEMMA SyncDiscover ==
    ASSUME Sync!SoundSync, NEW y \in Syncs, Sync!Discover(y)
    PROVE  Sync!SoundSync'
<1>1. PICK found, used, schema, r :
        /\ found = {s \in Paths : v1[s] \notin Bad \cup {0}} /\ used = (IF v3 = 0 THEN v2 ELSE v3)
        /\ schema = [s \in Paths |-> [code |-> v1[s], conf |-> used]]
        /\ r = [v5[y] EXCEPT !.at = "imported", !.found = found, !.undisturbed = TRUE, !.schema = schema]
  OBVIOUS
<1>2. /\ v5' = [v5 EXCEPT ![y] = r] /\ v3' = (IF found = {} THEN v3 ELSE used)
      /\ v1' = v1 /\ v2' = v2 /\ v4' = v4 /\ v6' = v6 /\ v7' = v7
  BY <1>1 DEF Sync!Discover
<1>3. SyncStateIsTyped /\ v5[y] \in Sync!Request /\ MaxVersion \in Nat
  BY SyncFacts
<1>4. used \in 0..MaxVersion /\ schema \in [Paths -> Sync!Pair]
  BY <1>1, <1>3 DEF SyncStateIsTyped, Sync!Pair
<1>5. r \in Sync!Request /\ r.at = "imported"
  BY <1>1, <1>3, <1>4 DEF Sync!Request
<1>6. SyncStateIsTyped'
  BY <1>2, <1>3, <1>4, <1>5 DEF SyncStateIsTyped, Sync!RowsAreTyped
<1>7. ASSUME NEW z \in Syncs PROVE Sync!ReadIsCurrent(z)'
  <2>1. Sync!ReadIsCurrent(z)
    BY SyncFacts
  <2>2. v5'[z] = v5[z] \/ v5'[z].at = "imported"
    BY <1>2, <1>3, <1>5 DEF SyncStateIsTyped
  <2> QED BY <1>2, <2>1, <2>2 DEF Sync!ReadIsCurrent
<1>8. Sync!MissingIsGone'
  BY <1>2, SyncFacts DEF Sync!MissingIsGone
<1> QED BY <1>2, <1>6, <1>7, <1>8, LeastStays, SyncFacts, SyncKept

LEMMA SyncReadRows ==
    ASSUME Sync!SoundSync, NEW y \in Syncs, Sync!ReadRows(y)
    PROVE  Sync!SoundSync'
<1>1. PICK hash, active, archived, r :
        /\ hash = [s \in Paths |-> Sync!_combined_strategy_hash(s)]
        /\ active = {i \in DOMAIN v4 : ~v4[i].archived} /\ archived = {i \in DOMAIN v4 : v4[i].archived}
        /\ r = [v5[y] EXCEPT !.at = "read", !.hash = hash, !.active = active, !.archived = archived]
  OBVIOUS
<1>2. v5' = [v5 EXCEPT ![y] = r] /\ v1' = v1 /\ v2' = v2 /\ v3' = v3 /\ v4' = v4 /\ v6' = v6 /\ v7' = v7
  BY <1>1 DEF Sync!ReadRows
<1>3. SyncStateIsTyped /\ v5[y] \in Sync!Request /\ MaxVersion \in Nat
  BY SyncFacts
<1>4. hash \in [Paths -> Sync!Pair] /\ active \subseteq RowIds /\ archived \subseteq RowIds
  BY <1>1, <1>3 DEF SyncStateIsTyped, Sync!Pair, Sync!_combined_strategy_hash, Sync!RowsAreTyped
<1>5. r \in Sync!Request /\ r.active = active
  BY <1>1, <1>3, <1>4 DEF Sync!Request
<1>6. SyncStateIsTyped'
  BY <1>2, <1>3, <1>5 DEF SyncStateIsTyped, Sync!RowsAreTyped
<1>7. ASSUME NEW z \in Syncs PROVE Sync!ReadIsCurrent(z)'
  <2>1. Sync!ReadIsCurrent(z)
    BY SyncFacts
  <2>2. v5'[z] = v5[z] \/ v5'[z].active = active
    BY <1>2, <1>3, <1>5 DEF SyncStateIsTyped
  <2> QED BY <1>1, <1>2, <2>1, <2>2 DEF Sync!ReadIsCurrent
<1>8. Sync!MissingIsGone'
  BY <1>2, SyncFacts DEF Sync!MissingIsGone
<1> QED BY <1>2, <1>6, <1>7, <1>8, LeastStays, SyncFacts, SyncKept

LEMMA SyncFiles ==
    ASSUME Sync!SoundSync,
           (\E s \in Paths : Sync!EditStrategy(s) \/ Sync!RemoveFile(s)) \/ Sync!EditConfig
    PROVE  Sync!SoundSync'
<1>1. /\ v5' = Sync!Disturbed /\ v4' = v4 /\ v3' = v3 /\ v7 < MaxJobFaults /\ v7' = v7 + 1
      /\ v6 \subseteq v6'
  BY DEF Sync!EditStrategy, Sync!RemoveFile, Sync!EditConfig, Sync!Fault
<1>2. SyncStateIsTyped /\ MaxVersion \in Nat /\ MaxJobFaults \in Nat /\ Sync!MissingIsGone
  BY SyncFacts
<1>3. v1' \in [Paths -> 0..MaxVersion] /\ v2' \in 1..MaxVersion /\ v6' \subseteq Paths /\ Sync!MissingIsGone'
  <2>1. ASSUME NEW s \in Paths, Sync!EditStrategy(s)
        PROVE  v1' \in [Paths -> 0..MaxVersion] /\ v2' \in 1..MaxVersion /\ v6' \subseteq Paths /\ Sync!MissingIsGone'
    BY <1>2, <2>1 DEF Sync!EditStrategy, SyncStateIsTyped, Sync!MissingIsGone
  <2>2. ASSUME NEW s \in Paths, Sync!RemoveFile(s)
        PROVE  v1' \in [Paths -> 0..MaxVersion] /\ v2' \in 1..MaxVersion /\ v6' \subseteq Paths /\ Sync!MissingIsGone'
    BY <1>2, <2>2 DEF Sync!RemoveFile, SyncStateIsTyped, Sync!MissingIsGone
  <2>3. ASSUME Sync!EditConfig
        PROVE  v1' \in [Paths -> 0..MaxVersion] /\ v2' \in 1..MaxVersion /\ v6' \subseteq Paths /\ Sync!MissingIsGone'
    BY <1>2, <2>3 DEF Sync!EditConfig, SyncStateIsTyped, Sync!MissingIsGone
  <2> QED BY <2>1, <2>2, <2>3
<1>4. SyncStateIsTyped'
  BY <1>1, <1>2, <1>3, DisturbedRequests DEF SyncStateIsTyped, Sync!RowsAreTyped
<1>5. \A y \in Syncs : Sync!ReadIsCurrent(y)'
  BY <1>1, DisturbedReads
<1> QED BY <1>1, <1>3, <1>4, <1>5, LeastStays, SyncFacts, SyncKept

LEMMA SyncDelete ==
    ASSUME Sync!SoundSync, NEW i \in RowIds, Sync!delete_strategy(i)
    PROVE  Sync!SoundSync'
<1> PICK r, s : r = [v4[i] EXCEPT !.archived = TRUE] /\ s = v4[i].name
  OBVIOUS
<1>1. /\ v5' = Sync!Disturbed /\ v3' = v3 /\ v7 < MaxJobFaults /\ v7' = v7 + 1 /\ v1' = v1 /\ v2' = v2
      /\ v6' = v6 \cup {s} /\ i \in DOMAIN v4 /\ v4' = [v4 EXCEPT ![i] = r]
  BY DEF Sync!delete_strategy, Sync!Fault
<1>2. SyncStateIsTyped /\ MaxJobFaults \in Nat /\ Sync!MissingIsGone /\ Sync!LeastIsActive
  BY SyncFacts
<1>3. v4 \in [DOMAIN v4 -> Sync!Row] /\ v4[i] \in Sync!Row
  BY <1>1, <1>2 DEF SyncStateIsTyped, Sync!RowsAreTyped
<1>4. r \in Sync!Row /\ r.name = s /\ s \in Paths
  BY <1>3 DEF Sync!Row
<1>10. DOMAIN v4' = DOMAIN v4 /\ v4'[i] = r /\ \A j \in DOMAIN v4 : j # i => v4'[j] = v4[j]
  BY <1>1, <1>3
<1>5. Sync!RowsAreTyped' /\ v6' \subseteq Paths
  BY <1>1, <1>2, <1>3, <1>4 DEF Sync!RowsAreTyped, SyncStateIsTyped
<1>6. SyncStateIsTyped'
  BY <1>1, <1>2, <1>5, DisturbedRequests DEF SyncStateIsTyped
<1>7. Sync!LeastIsActive'
  <2>1. \A j \in DOMAIN v4 : v4'[j].name = v4[j].name
    BY <1>4, <1>10
  <2>2. \A n : Sync!Rows(RowIds, n)' = Sync!Rows(RowIds, n)
    BY <1>10, <2>1 DEF Sync!Rows
  <2>3. \A n \in Paths \ v6' : n # s /\ \A j \in Sync!Rows(RowIds, n) : j # i /\ v4'[j] = v4[j]
    BY <1>1, <1>10 DEF Sync!Rows
  <2>4. ASSUME NEW n \in Paths \ v6', NEW j \in Sync!Rows(RowIds, n)', \A k \in Sync!Rows(RowIds, n)' : j <= k
        PROVE  ~v4'[j].archived
    <3>1. n \in Paths \ v6 /\ j \in Sync!Rows(RowIds, n) /\ \A k \in Sync!Rows(RowIds, n) : j <= k
      BY <1>1, <2>2, <2>4
    <3> QED BY <1>2, <2>3, <3>1 DEF Sync!LeastIsActive
  <2> QED BY <2>4 DEF Sync!LeastIsActive
<1>8. \A y \in Syncs : Sync!ReadIsCurrent(y)'
  BY <1>1, DisturbedReads
<1>9. Sync!MissingIsGone'
  BY <1>1, <1>2 DEF Sync!MissingIsGone
<1> QED BY <1>6, <1>7, <1>8, <1>9, SyncKept

LEMMA SyncRestart ==
    ASSUME Sync!SoundSync, Sync!Restart
    PROVE  Sync!SoundSync'
<1>1. /\ v5' = [y \in Syncs |-> Sync!Idle] /\ v3' = 0 /\ v7 < MaxJobFaults /\ v7' = v7 + 1
      /\ v1' = v1 /\ v2' = v2 /\ v4' = v4 /\ v6' = v6
  BY DEF Sync!Restart, Sync!Fault
<1>2. SyncStateIsTyped /\ MaxJobFaults \in Nat /\ MaxVersion \in Nat
  BY SyncFacts
<1>3. SyncStateIsTyped'
  BY <1>1, <1>2, IdleRequest DEF SyncStateIsTyped, Sync!RowsAreTyped
<1>4. \A y \in Syncs : Sync!ReadIsCurrent(y)'
  BY <1>1, IdleRequest DEF Sync!ReadIsCurrent
<1>5. Sync!MissingIsGone'
  BY <1>1, SyncFacts DEF Sync!MissingIsGone
<1> QED BY <1>1, <1>3, <1>4, <1>5, LeastStays, SyncFacts, SyncKept

\* The row that stays is the least that the request has read.
LEMMA KeptIsLeast ==
    ASSUME Sync!SoundSync, NEW y \in Syncs, NEW s
    PROVE  /\ Sync!Rows(v5[y].active, s) = {} => Sync!Kept(y, s) = {}
           /\ Sync!Rows(v5[y].active, s) # {} =>
                \E i \in Sync!Rows(v5[y].active, s) : /\ Sync!Kept(y, s) = {i}
                                                      /\ \A j \in Sync!Rows(v5[y].active, s) : i <= j
<1> PICK own : own = Sync!Rows(v5[y].active, s)
  OBVIOUS
<1>1. own \in SUBSET Nat
  BY SyncFacts DEF Sync!Rows, SyncStateIsTyped, Sync!RowsAreTyped
<1>2. own = {} => Sync!Kept(y, s) = {}
  BY DEF Sync!Kept
<1>3. ASSUME own # {} PROVE \E i \in own : Sync!Kept(y, s) = {i} /\ \A j \in own : i <= j
  <2>1. \E i \in own : \A j \in own : i <= j
    BY <1>1, <1>3, LeastNatural
  <2>2. Sync!Kept(y, s) = {Sync!Min(own)}
    BY <1>3 DEF Sync!Kept
  <2>3. Sync!Min(own) \in own /\ \A j \in own : Sync!Min(own) <= j
    BY <2>1 DEF Sync!Min
  <2> QED BY <2>2, <2>3
<1> QED BY <1>2, <1>3

LEMMA RefreshedRow ==
    ASSUME Sync!SoundSync, NEW y \in Syncs, NEW i \in DOMAIN v4
    PROVE  /\ Sync!Refreshed(y, i) \in Sync!Row /\ Sync!Refreshed(y, i).name = v4[i].name
           /\ Sync!Refreshed(y, i).archived <=>
                 \/ v4[i].archived
                 \/ /\ i \in v5[y].active
                    /\ IF v4[i].name \in v5[y].found THEN i \notin Sync!Kept(y, v4[i].name)
                       ELSE Sync!Pruned(y, v4[i].name)
<1> PICK r, s, h, c : r = v4[i] /\ s = v4[i].name /\ h = v5[y].hash[s] /\ c = v5[y].schema[s]
  OBVIOUS
<1>1. r \in Sync!Row /\ s \in Paths /\ v5[y] \in Sync!Request
  BY SyncFacts DEF SyncStateIsTyped, Sync!RowsAreTyped, Sync!Row
<1>2. h \in Sync!Pair /\ c \in Sync!Pair
  BY <1>1 DEF Sync!Request
<1>3. /\ [r EXCEPT !.archived = TRUE] \in Sync!Row /\ [r EXCEPT !.archived = TRUE].name = s
      /\ [r EXCEPT !.archived = TRUE].archived
      /\ [r EXCEPT !.hash = h, !.schema = c] \in Sync!Row /\ [r EXCEPT !.hash = h, !.schema = c].name = s
      /\ [r EXCEPT !.hash = h, !.schema = c].archived = r.archived
  BY <1>1, <1>2 DEF Sync!Row
<1>4. Sync!Refreshed(y, i) =
        IF s \in v5[y].found /\ i \in v5[y].active
        THEN IF i \notin Sync!Kept(y, s) THEN [r EXCEPT !.archived = TRUE]
             ELSE IF r.hash # h THEN [r EXCEPT !.hash = h, !.schema = c] ELSE r
        ELSE IF i \in v5[y].active /\ Sync!Pruned(y, s) THEN [r EXCEPT !.archived = TRUE] ELSE r
  BY DEF Sync!Refreshed
<1>5. Sync!Pruned(y, s) => s \notin v5[y].found
  BY DEF Sync!Pruned
<1> QED BY <1>1, <1>3, <1>4, <1>5

LEMMA FreshRow ==
    ASSUME Sync!SoundSync, NEW y \in Syncs, NEW s \in Sync!Inserted(y)
    PROVE  Sync!Fresh(y, s) \in Sync!Row /\ Sync!Fresh(y, s).name = s /\ Sync!Fresh(y, s).archived = FALSE
<1>1. v5[y] \in Sync!Request /\ s \in Paths
  BY SyncFacts DEF Sync!Inserted, Sync!Request
<1>2. v5[y].hash[s] \in Sync!Pair /\ v5[y].schema[s] \in Sync!Pair
  BY <1>1 DEF Sync!Request
<1> QED BY <1>1, <1>2 DEF Sync!Fresh, Sync!Row

\* What a synchronisation leaves in the table.
LEMMA WrittenRows ==
    ASSUME Sync!SoundSync, NEW y \in Syncs, Sync!WriteRows(y)
    PROVE  /\ DOMAIN v4 \subseteq DOMAIN v4' /\ DOMAIN v4' \subseteq RowIds /\ v4' \in [DOMAIN v4' -> Sync!Row]
           /\ \A i \in DOMAIN v4 : v4'[i] = Sync!Refreshed(y, i)
           /\ \A i \in DOMAIN v4' \ DOMAIN v4 :
                 \E s \in Sync!Inserted(y) : v4'[i] = Sync!Fresh(y, s) /\ v4'[i].name = s /\ ~v4'[i].archived
           /\ \A i, j \in DOMAIN v4' \ DOMAIN v4 : v4'[i].name = v4'[j].name => i = j
<1> PICK ins : ins = Sync!Inserted(y)
  OBVIOUS
<1>1. PICK id \in [ins -> RowIds \ DOMAIN v4] :
        /\ Sync!IsInjective(id)
        /\ v4' = [i \in DOMAIN v4 \cup Sync!Range(id) |->
                    IF i \in DOMAIN v4 THEN Sync!Refreshed(y, i)
                    ELSE Sync!Fresh(y, Sync!Inverse(id, ins, Sync!Range(id))[i])]
  BY DEF Sync!WriteRows
<1>2. DOMAIN v4 \subseteq RowIds
  BY SyncFacts DEF SyncStateIsTyped, Sync!RowsAreTyped
<1> DEFINE new == Sync!Range(id)
<1>3. new = {id[s] : s \in ins} /\ new \subseteq RowIds \ DOMAIN v4
  BY DEF Sync!Range
<1>4. DOMAIN v4' = DOMAIN v4 \cup new /\ \A i \in DOMAIN v4 : v4'[i] = Sync!Refreshed(y, i)
  BY <1>1
<1>5. ASSUME NEW i \in new
      PROVE  \E s \in ins : i = id[s] /\ v4'[i] = Sync!Fresh(y, s) /\ v4'[i] \in Sync!Row /\ v4'[i].name = s /\ ~v4'[i].archived
  <2>1. v4'[i] = Sync!Fresh(y, Sync!Inverse(id, ins, new)[i])
    BY <1>1, <1>3
  <2>2. Sync!Inverse(id, ins, new)[i] = CHOOSE s \in ins : i \in new => id[s] = i
    BY DEF Sync!Inverse
  <2>3. PICK s \in ins : s = Sync!Inverse(id, ins, new)[i] /\ id[s] = i
    BY <1>3, <2>2
  <2>4. v4'[i] = Sync!Fresh(y, s)
    BY <2>1, <2>3
  <2>5. v4'[i] \in Sync!Row /\ v4'[i].name = s /\ ~v4'[i].archived
    BY <2>4, FreshRow
  <2> QED BY <2>3, <2>4, <2>5
<1> HIDE DEF new
<1>6. \A i \in DOMAIN v4' \ DOMAIN v4 : i \in new
  BY <1>4
<1>7. ASSUME NEW i \in DOMAIN v4' PROVE v4'[i] \in Sync!Row
  BY <1>4, <1>5, RefreshedRow
<1>8. v4' \in [DOMAIN v4' -> Sync!Row]
  BY <1>1, <1>7
<1>9. \A i, j \in new : v4'[i].name = v4'[j].name => i = j
  BY <1>5
<1> QED BY <1>2, <1>3, <1>4, <1>5, <1>6, <1>8, <1>9

LEMMA SyncWriteRows ==
    ASSUME Sync!SoundSync, NEW y \in Syncs, Sync!WriteRows(y)
    PROVE  Sync!SoundSync'
<1>1. /\ v5' = [Sync!Disturbed EXCEPT ![y] = Sync!Idle] /\ v6' = v6 \cup {s \in Paths : v1[s] = 0}
      /\ v1' = v1 /\ v2' = v2 /\ v3' = v3 /\ v7' = v7
  BY DEF Sync!WriteRows
<1>2. SyncStateIsTyped /\ Sync!MissingIsGone /\ Sync!LeastIsActive /\ RowIds \subseteq Nat
  BY SyncFacts
<1>3. Sync!RowsAreTyped'
  BY WrittenRows DEF Sync!RowsAreTyped
<1>4. SyncStateIsTyped'
  <2>1. v5' \in [Syncs -> Sync!Request]
    BY <1>1, DisturbedRequests, IdleRequest
  <2> QED BY <1>1, <1>2, <1>3, <2>1 DEF SyncStateIsTyped
<1>5. \A z \in Syncs : Sync!ReadIsCurrent(z)'
  <2> SUFFICES ASSUME NEW z \in Syncs PROVE v5'[z].at = "read" => ~v5'[z].undisturbed
    BY DEF Sync!ReadIsCurrent
  <2> QED BY <1>1, DisturbedRequests, IdleRequest
<1>6. Sync!MissingIsGone'
  BY <1>1, <1>2 DEF Sync!MissingIsGone
<1>7. Sync!LeastIsActive'
  <2> SUFFICES ASSUME NEW s \in Paths \ v6', NEW i \in Sync!Rows(RowIds, s)',
                      \A j \in Sync!Rows(RowIds, s)' : i <= j
               PROVE  ~v4'[i].archived
    BY DEF Sync!LeastIsActive
  <2>1. i \in DOMAIN v4' /\ i \in RowIds /\ v4'[i].name = s
    BY DEF Sync!Rows
  <2>2. CASE i \notin DOMAIN v4
    BY <2>1, <2>2, WrittenRows
  <2>3. CASE i \in DOMAIN v4
    <3>1. v4'[i] = Sync!Refreshed(y, i) /\ v4[i].name = s
      BY <2>1, <2>3, WrittenRows, RefreshedRow
    <3>2. ASSUME NEW j \in Sync!Rows(RowIds, s) PROVE j \in Sync!Rows(RowIds, s)'
      <4>1. j \in DOMAIN v4 /\ j \in RowIds /\ v4[j].name = s
        BY DEF Sync!Rows
      <4>2. j \in DOMAIN v4' /\ v4'[j].name = s
        BY <4>1, WrittenRows, RefreshedRow
      <4> QED BY <4>1, <4>2 DEF Sync!Rows
    <3>3. i \in Sync!Rows(RowIds, s) /\ \A j \in Sync!Rows(RowIds, s) : i <= j
      BY <2>1, <2>3, <3>1, <3>2 DEF Sync!Rows
    <3>4. ~v4[i].archived
      BY <1>1, <1>2, <3>3 DEF Sync!LeastIsActive
    <3>5. ~Sync!Pruned(y, s)
      BY <1>1 DEF Sync!Pruned
    <3>6. ASSUME i \in v5[y].active PROVE i \in Sync!Kept(y, s)
      <4>1. i \in Sync!Rows(v5[y].active, s)
        BY <2>3, <3>1, <3>6 DEF Sync!Rows
      <4>2. PICK k \in Sync!Rows(v5[y].active, s) : Sync!Kept(y, s) = {k} /\ \A j \in Sync!Rows(v5[y].active, s) : k <= j
        BY <4>1, KeptIsLeast
      <4>3. k \in Sync!Rows(RowIds, s)
        BY <1>2, <4>2 DEF Sync!Rows, SyncStateIsTyped, Sync!RowsAreTyped
      <4>4. i <= k /\ k <= i /\ i \in Nat /\ k \in Nat
        <5>1. k \in Nat
          BY <1>2, <4>3 DEF Sync!Rows
        <5> QED BY <1>2, <2>1, <3>3, <4>1, <4>2, <4>3, <5>1
      <4> QED BY <4>2, <4>4
    <3> QED BY <2>3, <3>1, <3>4, <3>5, <3>6, RefreshedRow
  <2> QED BY <2>2, <2>3
<1> QED BY <1>4, <1>5, <1>6, <1>7, SyncKept

LEMMA SyncStep == ASSUME Sync!SoundSync, Sync!Next PROVE Sync!SoundSync'
  BY SyncDiscover, SyncReadRows, SyncWriteRows, SyncFiles, SyncDelete, SyncRestart DEF Sync!Next

LEMMA SyncLosesNoName == ASSUME Sync!SoundSync PROVE Sync!NoNameLost
<1> SUFFICES ASSUME NEW s \in Paths \ v6, Sync!Rows(RowIds, s) # {} PROVE Sync!Active(s) # {}
  BY DEF Sync!NoNameLost
<1>1. Sync!Rows(RowIds, s) \in SUBSET Nat /\ Sync!LeastIsActive
  BY SyncFacts DEF Sync!Rows
<1>2. PICK i \in Sync!Rows(RowIds, s) : \A j \in Sync!Rows(RowIds, s) : i <= j
  BY <1>1, LeastNatural
<1> QED BY <1>1, <1>2 DEF Sync!LeastIsActive, Sync!Active

LEMMA SyncCounts == \A S : Sync!Cardinality(S) = Cardinality(S)
  BY Zenon DEF Sync!Cardinality, Cardinality

LEMMA SyncRepairsDuplicates == ASSUME Sync!SoundSync, Sync!Next PROVE Sync!SyncRepairs
<1> SUFFICES ASSUME NEW y \in Syncs, Sync!Synced(y), NEW s \in v5[y].found
             PROVE  Sync!Cardinality(Sync!Active(s)') <= 1
  BY DEF Sync!SyncRepairs
<1>1. v5[y].at = "read" /\ v5[y].undisturbed /\ v5'[y].at = "idle" /\ v4' # v4 /\ s \in Paths
  BY SyncFacts DEF Sync!Synced, Sync!Request
<1>2. Sync!WriteRows(y)
  <2>1. v5'[y] # Sync!Disturbed[y]
    BY <1>1, DisturbedRequests
  <2>2. ASSUME NEW z \in Syncs, z # y, Sync!WriteRows(z) PROVE FALSE
    <3>1. v5'[y] = Sync!Disturbed[y]
      BY <2>2, DisturbedRequests DEF Sync!WriteRows
    <3> QED BY <2>1, <3>1
  <2>3. \A z \in Syncs : ~Sync!Discover(z) /\ ~Sync!ReadRows(z)
    BY <1>1 DEF Sync!Discover, Sync!ReadRows
  <2>4. \A n \in Paths : ~Sync!EditStrategy(n) /\ ~Sync!RemoveFile(n)
    BY <1>1 DEF Sync!EditStrategy, Sync!RemoveFile
  <2>5. \A i \in RowIds : ~Sync!delete_strategy(i)
    BY <2>1 DEF Sync!delete_strategy
  <2>6. ~Sync!EditConfig /\ ~Sync!Restart
    BY <1>1 DEF Sync!EditConfig, Sync!Restart
  <2> QED BY <2>2, <2>3, <2>4, <2>5, <2>6 DEF Sync!Next
<1>3. v5[y].active = {i \in DOMAIN v4 : ~v4[i].archived} /\ DOMAIN v4 \subseteq RowIds
  BY <1>1, SyncFacts DEF Sync!ReadIsCurrent, SyncStateIsTyped, Sync!RowsAreTyped
<1>4. ASSUME NEW i \in Sync!Active(s)', i \in DOMAIN v4
      PROVE  i \in Sync!Rows(v5[y].active, s) /\ i \in Sync!Kept(y, s)
  <2>1. v4'[i].name = s /\ ~v4'[i].archived
    BY DEF Sync!Active, Sync!Rows
  <2>2. v4'[i] = Sync!Refreshed(y, i) /\ v4[i].name = s
    BY <1>2, <1>4, <2>1, WrittenRows, RefreshedRow
  <2>3. ~v4[i].archived /\ (i \in v5[y].active => i \in Sync!Kept(y, s))
    BY <1>4, <2>1, <2>2, RefreshedRow
  <2> QED BY <1>3, <1>4, <2>2, <2>3 DEF Sync!Rows
<1>5. ASSUME NEW i \in Sync!Active(s)', i \notin DOMAIN v4
      PROVE  i \in DOMAIN v4' /\ v4'[i].name = s /\ Sync!Rows(v5[y].active, s) = {}
  <2>1. i \in DOMAIN v4' /\ v4'[i].name = s
    BY DEF Sync!Active, Sync!Rows
  <2>2. s \in Sync!Inserted(y)
    BY <1>2, <1>5, <2>1, WrittenRows
  <2> QED BY <2>1, <2>2 DEF Sync!Inserted
<1>6. \A i, j \in Sync!Active(s)' : i = j
  <2> SUFFICES ASSUME NEW i \in Sync!Active(s)', NEW j \in Sync!Active(s)' PROVE i = j
    OBVIOUS
  <2>1. CASE i \in DOMAIN v4 /\ j \in DOMAIN v4
    BY <1>4, <2>1, KeptIsLeast
  <2>2. CASE i \notin DOMAIN v4 /\ j \notin DOMAIN v4
    BY <1>2, <1>5, <2>2, WrittenRows
  <2> QED BY <1>4, <1>5, <2>1, <2>2
<1>7. CASE Sync!Active(s)' = {}
  BY <1>7, FS_EmptySet, SyncCounts
<1>8. CASE Sync!Active(s)' # {}
  <2>1. PICK i : Sync!Active(s)' = {i}
    BY <1>6, <1>8
  <2>2. Cardinality({i}) = 1
    BY FS_Singleton
  <2> QED BY <2>1, <2>2, SyncCounts
<1> QED BY <1>7, <1>8

LEMMA SyncKeeps == Spec => [](part = "Sync" => Sync!SoundSync)
<1> DEFINE Inv == part = "Sync" => Sync!SoundSync
<1>1. Init => Inv
  BY SyncStart DEF Init
<1>2. Inv /\ [Next]_pool => Inv'
  <2> SUFFICES ASSUME Inv, [Next]_pool, part' = "Sync" PROVE Sync!SoundSync'
    OBVIOUS
  <2>1. CASE UNCHANGED pool
    <3>1. part = "Sync" /\ UNCHANGED <<v1, v2, v3, v4, v5, v6, v7>>
      BY <2>1 DEF pool, Rest4, Rest5, Rest6, Rest7
    <3>2. SyncStateIsTyped' /\ Sync!MissingIsGone' /\ \A y \in Syncs : Sync!ReadIsCurrent(y)'
      BY <3>1, SyncFacts DEF SyncStateIsTyped, Sync!RowsAreTyped, Sync!MissingIsGone, Sync!ReadIsCurrent
    <3> QED BY <3>1, <3>2, LeastStays, SyncFacts, SyncKept
  <2>2. CASE Next
    BY <2>2, SyncStep DEF Next
  <2> QED BY <2>1, <2>2
<1> QED BY <1>1, <1>2, PTL DEF Spec

\* Any strategies, requests, rows, versions and faults: overlapping synchronisations lose no
\* strategy whose file stayed, and one that nothing overlapped leaves a single active row.
THEOREM StrategiesStayKept == Spec => StrategiesAreKept
<1> DEFINE Inv == part = "Sync" => Sync!SoundSync
           NoLoss == part = "Sync" => Sync!NoNameLost
           Act == part = "Sync" => Sync!SyncRepairs
<1>1. Spec => []Inv
  BY SyncKeeps
<1>2. Inv => NoLoss
  BY SyncLosesNoName
<1>3. Inv /\ [Next]_pool => [Act]_pool
  BY SyncRepairsDuplicates DEF Next
<1> QED BY <1>1, <1>2, <1>3, PTL DEF Spec, StrategiesAreKept
-----------------------------------------------------------------------------
(* ResearchSearch.  v1: req, v2: pc, v3: window, v4: stage, v5: survivors,    *)
(* v6: cand, v7: trials, v8: best, v9: log.                                  *)

LEMMA SearchCounts == \A S : Search!Cardinality(S) = Cardinality(S)
  BY Zenon DEF Search!Cardinality, Cardinality

\* Sorting a finite set by a total order: each member's rank is its place, so the sequence
\* holds every member, the least first.
LEMMA SortedIsOrdered ==
    ASSUME NEW C, IsFiniteSet(C), NEW R,
           \A a, b \in C : <<a, b>> \in R \/ <<b, a>> \in R,
           \A a, b \in C : <<a, b>> \in R /\ <<b, a>> \in R => a = b,
           \A a, b, c \in C : <<a, b>> \in R /\ <<b, c>> \in R => <<a, c>> \in R
    PROVE  /\ Cardinality(C) \in Nat /\ Search!Sorted(C, R) \in [1..Cardinality(C) -> C]
           /\ \A c \in C : \E i \in 1..Cardinality(C) : Search!Sorted(C, R)[i] = c
           /\ C # {} => Cardinality(C) >= 1 /\ \A c \in C : <<Search!Sorted(C, R)[1], c>> \in R
<1>1. PICK n : n = Cardinality(C)
  OBVIOUS
<1>2. n \in Nat
  BY <1>1, FS_CardinalityType
<1> DEFINE Below(c) == {d \in C : <<d, c>> \in R}
           rank == [c \in C |-> Cardinality(Below(c))]
<1>3. ASSUME NEW c \in C
      PROVE  IsFiniteSet(Below(c)) /\ rank[c] \in 1..n /\ c \in Below(c)
  <2>1. Below(c) \in SUBSET C /\ c \in Below(c)
    OBVIOUS
  <2>2. IsFiniteSet(Below(c)) /\ Cardinality(Below(c)) <= n
    BY <1>1, <2>1, FS_Subset
  <2>3. Cardinality(Below(c)) \in Nat /\ Cardinality(Below(c)) # 0
    BY <2>1, <2>2, FS_CardinalityType, FS_EmptySet
  <2> HIDE DEF Below
  <2> QED BY <1>2, <2>1, <2>2, <2>3
<1>4. ASSUME NEW a \in C, NEW b \in C, <<a, b>> \in R, a # b PROVE rank[a] < rank[b]
  <2>1. Below(a) \in SUBSET Below(b) /\ b \in Below(b) /\ b \notin Below(a)
    BY <1>4
  <2>2. IsFiniteSet(Below(b)) /\ IsFiniteSet(Below(a))
    BY <1>3
  <2>3. Cardinality(Below(a)) <= Cardinality(Below(b)) /\ Cardinality(Below(b)) # Cardinality(Below(a))
    BY <2>1, <2>2, FS_Subset
  <2>4. Cardinality(Below(a)) \in Nat /\ Cardinality(Below(b)) \in Nat
    BY <2>2, FS_CardinalityType
  <2> HIDE DEF Below
  <2> QED BY <2>3, <2>4
<1>5. rank \in [C -> 1..n]
  BY <1>3
<1>6. \A a, b \in C : rank[a] = rank[b] => a = b
  <2> SUFFICES ASSUME NEW a \in C, NEW b \in C, a # b PROVE rank[a] # rank[b]
    OBVIOUS
  <2>0. rank[a] \in 1..n /\ rank[b] \in 1..n
    BY <1>3
  <2> HIDE DEF rank
  <2>1. CASE <<a, b>> \in R
    BY <1>2, <1>4, <2>0, <2>1
  <2>2. CASE <<b, a>> \in R
    BY <1>2, <1>4, <2>0, <2>2
  <2> QED BY <2>1, <2>2
<1>7. IsFiniteSet(1..n) /\ Cardinality(1..n) = n
  BY <1>2, FS_Interval
<1>8. rank \in Surjection(C, 1..n)
  <2> HIDE DEF rank
  <2>1. rank \in Injection(C, 1..n)
    BY <1>5, <1>6 DEF Injection, IsInjective
  <2> QED BY <1>1, <1>7, <2>1, FS_Injection
<1> PICK s : s = Search!Sorted(C, R)
  OBVIOUS
<1>9. s = [i \in 1..n |-> CHOOSE c \in C : Search!Cardinality({d \in C : <<d, c>> \in R}) = i]
  <2>1. Search!Cardinality(C) = n
    BY <1>1, SearchCounts
  <2> QED BY <2>1 DEF Search!Sorted
<1>10. \A i \in 1..n : s[i] \in C /\ rank[s[i]] = i
  <2> SUFFICES ASSUME NEW i \in 1..n PROVE s[i] \in C /\ rank[s[i]] = i
    OBVIOUS
  <2>0. \A c \in C : rank[c] = Search!Cardinality({d \in C : <<d, c>> \in R})
    BY SearchCounts
  <2> HIDE DEF rank
  <2>1. \E c \in C : rank[c] = i
    BY <1>8 DEF Surjection
  <2>2. \E c \in C : Search!Cardinality({d \in C : <<d, c>> \in R}) = i
    BY <2>0, <2>1
  <2>3. s[i] \in C /\ Search!Cardinality({d \in C : <<d, s[i]>> \in R}) = i
    BY <1>9, <2>2
  <2> QED BY <2>0, <2>3
<1>11. \A c \in C : s[rank[c]] = c
  <2> HIDE DEF rank
  <2> QED BY <1>3, <1>6, <1>10
<1>12. s \in [1..n -> C]
  BY <1>9, <1>10
<1>13. \A c \in C : \E i \in 1..n : s[i] = c
  BY <1>3, <1>11
<1>14. ASSUME C # {} PROVE n >= 1 /\ \A c \in C : <<s[1], c>> \in R
  <2>1. n >= 1
    BY <1>1, <1>2, <1>14, FS_EmptySet
  <2>2. s[1] \in C /\ rank[s[1]] = 1
    BY <1>2, <1>10, <2>1
  <2>3. ASSUME NEW c \in C, <<s[1], c>> \notin R PROVE FALSE
    <3>1. <<c, s[1]>> \in R /\ c # s[1]
      BY <2>2, <2>3
    <3>2. rank[c] < 1 /\ rank[c] \in 1..n
      BY <1>3, <1>4, <2>2, <3>1
    <3> HIDE DEF rank
    <3> QED BY <1>2, <3>2
  <2> QED BY <2>1, <2>3
<1> QED BY <1>1, <1>2, <1>12, <1>13, <1>14

LEMMA LeastOfTwo ==
    ASSUME NEW a \in Int, NEW b \in Int
    PROVE  Search!Least({a, b}) \in {a, b} /\ Search!Least({a, b}) <= a /\ Search!Least({a, b}) <= b
<1>1. \E n \in {a, b} : \A m \in {a, b} : n <= m
  <2>1. CASE a <= b
    BY <2>1
  <2>2. CASE b <= a
    BY <2>2
  <2> QED BY <2>1, <2>2
<1> QED BY <1>1 DEF Search!Least

LEMMA LargestOfTwo ==
    ASSUME NEW a \in Int, NEW b \in Int
    PROVE  Search!Largest({a, b}) \in {a, b} /\ Search!Largest({a, b}) >= a /\ Search!Largest({a, b}) >= b
<1>1. \E n \in {a, b} : \A m \in {a, b} : n >= m
  <2>1. CASE a <= b
    BY <2>1
  <2>2. CASE b <= a
    BY <2>2
  <2> QED BY <2>1, <2>2
<1> QED BY <1>1 DEF Search!Largest

LEMMA LengthOfRange ==
    ASSUME NEW a \in Int, NEW b \in Int
    PROVE  Search!Length(a, b) \in Int /\ Search!Length(a, b) >= 1 /\ (a <= b => Search!Length(a, b) = b - a + 1)
<1> PICK n \in Int : n = b - a + 1
  OBVIOUS
<1>1. Search!Largest({1, n}) \in {1, n} /\ Search!Largest({1, n}) >= 1 /\ Search!Largest({1, n}) >= n
  BY LargestOfTwo
<1> QED BY <1>1 DEF Search!Length

LEMMA CeilIsInt ==
    ASSUME NEW n \in Int, NEW d \in Nat, d >= 1
    PROVE  Search!Ceil(n, d) \in Int
<1>1. n + d - 1 \in Int
  OBVIOUS
<1> PICK m \in Int : m = n + d - 1
  BY <1>1
<1>2. m \div d \in Int
  OBVIOUS
<1> QED BY <1>2 DEF Search!Ceil

LEMMA SearchRequest ==
    ASSUME NEW q \in Searches
    PROVE  /\ q.days \in Nat /\ q.days >= 1 /\ q.train \in Nat /\ q.train >= 1 /\ q.test \in Nat /\ q.test >= 1
           /\ q.step \in Nat /\ q.step >= 1 /\ q.holdout \in Int /\ q.pct \in Int /\ q.purge \in Nat
           /\ q.factor \in Nat /\ q.factor >= 1 /\ q.fractions \subseteq 1..100
<1>1. /\ q.days \in Nat \ {0} /\ q.train \in Nat \ {0} /\ q.test \in Nat \ {0} /\ q.step \in Nat \ {0}
      /\ q.holdout \in Int /\ q.pct \in Int /\ q.purge \in Nat /\ q.factor \in Nat \ {0}
      /\ q.fractions \subseteq 1..100
  BY SearchAssumption
<1>2. \A n \in Nat \ {0} : n \in Nat /\ n >= 1
  OBVIOUS
<1> QED BY <1>1, <1>2

LEMMA HoldoutIsInt ==
    ASSUME NEW q \in Searches, NEW a \in Int, NEW b \in Int
    PROVE  Search!HoldoutDays(q, a, b) \in Int
<1> PICK n : n = Search!Length(a, b)
  OBVIOUS
<1>1. n \in Int
  BY LengthOfRange
<1>2. q.holdout \in Int /\ q.pct \in Int
  BY SearchRequest
<1>3. ASSUME NEW p \in Int
      PROVE  Search!Largest({MinHoldout, Search!Least({MaxHoldout, Search!Ceil(n * p, 100)})}) \in Int
  <2>1. n * p \in Int
    BY <1>1
  <2>2. PICK m \in Int : m = Search!Ceil(n * p, 100)
    BY <2>1, CeilIsInt
  <2>3. MinHoldout \in Int /\ MaxHoldout \in Int
    BY SearchAssumption
  <2>4. Search!Least({MaxHoldout, m}) \in Int
    BY <2>3, LeastOfTwo
  <2>5. Search!Largest({MinHoldout, Search!Least({MaxHoldout, m})}) \in Int
    BY <2>3, <2>4, LargestOfTwo
  <2> QED BY <2>2, <2>5
<1>4. AutoPct \in Int
  BY SearchAssumption
<1> QED BY <1>2, <1>3, <1>4 DEF Search!HoldoutDays

LEMMA StepsAdvance ==
    ASSUME NEW j \in Nat, NEW s \in Nat, s >= 1
    PROVE  j * s \in Nat /\ j * s >= j
<1> PICK e \in Nat : s = 1 + e
  <2>1. s - 1 \in Nat /\ s = 1 + (s - 1)
    OBVIOUS
  <2> QED BY <2>1
<1>1. j * e \in Nat /\ j * (1 + e) = j + j * e
  OBVIOUS
<1> QED BY <1>1

\* The days of window k: its training days, then its test days.
LEMMA WindowDays ==
    ASSUME NEW q \in Searches, NEW k \in Nat, k >= 1
    PROVE  /\ Search!SweepFrom(q, k) \in Nat /\ Search!SweepFrom(q, k) >= 1 /\ Search!SweepTo(q, k) \in Nat
           /\ Search!SweepFrom(q, k) <= Search!SweepTo(q, k)
           /\ Search!WindowOf(q, k).testFrom \in Nat /\ Search!WindowOf(q, k).testTo \in Nat
           /\ Search!WindowOf(q, k).testFrom <= Search!WindowOf(q, k).testTo
           /\ q.forward => Search!SweepTo(q, k) < Search!WindowOf(q, k).testFrom
           /\ ~q.forward => Search!SweepTo(q, k) = q.days
           /\ Search!WindowFits(q, k) => k <= q.days /\ Search!WindowOf(q, k).testTo <= q.days
<1>1. /\ q.days \in Nat /\ q.days >= 1 /\ q.train \in Nat /\ q.train >= 1 /\ q.test \in Nat /\ q.test >= 1
      /\ q.step \in Nat /\ q.step >= 1
  BY SearchRequest
<1>2. PICK c : c = 1 + (k - 1) * q.step
  OBVIOUS
<1>3. c \in Nat /\ c >= k
  <2>1. PICK j \in Nat : j = k - 1
    OBVIOUS
  <2>2. j * q.step \in Nat /\ j * q.step >= j
    BY <1>1, StepsAdvance
  <2>3. c = 1 + (j * q.step) /\ k = j + 1
    BY <1>2, <2>1
  <2> QED BY <2>2, <2>3
<1>4. Search!WindowOf(q, k) = [trainFrom |-> IF q.expanding THEN 1 ELSE c, trainTo |-> c + q.train - 1,
                               testFrom |-> c + q.train - 1 + 1, testTo |-> c + q.train - 1 + q.test]
  BY <1>2 DEF Search!WindowOf
<1>5. PICK f, t, x, y : /\ f = Search!WindowOf(q, k).trainFrom /\ t = Search!WindowOf(q, k).trainTo
                        /\ x = Search!WindowOf(q, k).testFrom /\ y = Search!WindowOf(q, k).testTo
  OBVIOUS
<1>6. f \in {1, c} /\ t = c + q.train - 1 /\ x = c + q.train - 1 + 1 /\ y = c + q.train - 1 + q.test
  BY <1>4, <1>5
<1>7. f \in Nat /\ f >= 1 /\ t \in Nat /\ f <= t /\ x \in Nat /\ y \in Nat /\ x <= y /\ t < x /\ y >= k
  BY <1>1, <1>3, <1>6
<1>8. Search!WindowFits(q, k) <=> y <= q.days
  BY <1>5 DEF Search!WindowFits
<1>9. Search!WindowFits(q, k) => k <= q.days /\ y <= q.days
  BY <1>1, <1>7, <1>8
<1>10. CASE q.forward
  <2>1. Search!SweepFrom(q, k) = f /\ Search!SweepTo(q, k) = t
    BY <1>5, <1>10 DEF Search!SweepFrom, Search!SweepTo
  <2> QED BY <1>5, <1>7, <1>9, <1>10, <2>1
<1>11. CASE ~q.forward
  <2>1. Search!SweepFrom(q, k) = 1 /\ Search!SweepTo(q, k) = q.days
    BY <1>11 DEF Search!SweepFrom, Search!SweepTo
  <2> QED BY <1>1, <1>5, <1>7, <1>9, <1>11, <2>1
<1> QED BY <1>10, <1>11

\* The training days that resolve_train_holdout_split leaves: some, and all before the purge.
LEMMA TrainingDays ==
    ASSUME NEW q \in Searches, NEW a \in Int, NEW b \in Int, a <= b
    PROVE  /\ Search!TrainTo(q, a, b) \in Int /\ a <= Search!TrainTo(q, a, b) /\ Search!TrainTo(q, a, b) <= b
           /\ Search!HasSplit(q, a, b) =>
                /\ Search!HoldoutFrom(q, a, b) \in Int /\ Search!HoldoutFrom(q, a, b) <= b
                /\ Search!TrainTo(q, a, b) + q.purge < Search!HoldoutFrom(q, a, b)
<1>1. PICK h \in Int : h = Search!HoldoutDays(q, a, b)
  BY HoldoutIsInt
<1>2. q.purge \in Nat
  BY SearchRequest
<1>3. Search!Length(a, b) = b - a + 1
  BY LengthOfRange
<1>4. Search!HoldoutFrom(q, a, b) = b - h + 1
  BY <1>1 DEF Search!HoldoutFrom
<1>5. CASE Search!HasSplit(q, a, b)
  <2>1. h > 0 /\ ~(h + q.purge >= b - a + 1)
    BY <1>1, <1>3, <1>5 DEF Search!HasSplit, Search!SplitTooLarge
  <2>2. Search!TrainTo(q, a, b) = Search!HoldoutFrom(q, a, b) - q.purge - 1
    BY <1>5, Zenon DEF Search!TrainTo
  <2>3. Search!TrainTo(q, a, b) = (b - h + 1) - q.purge - 1
    BY <1>4, <2>2
  <2> QED BY <1>2, <1>4, <2>1, <2>3
<1>6. CASE ~Search!HasSplit(q, a, b)
  BY <1>6 DEF Search!TrainTo
<1> QED BY <1>5, <1>6

LEMMA SearchFacts ==
    ASSUME Search!SoundSearch
    PROVE  /\ v1 \in Searches /\ v3 \in Nat /\ v3 >= 1
           /\ Search!From \in Nat /\ Search!From >= 1 /\ Search!Trained \in Int
           /\ Search!From <= Search!Trained
<1>1. v1 \in Searches /\ v3 \in 1..v1.days
  BY DEF Search!SoundSearch, Search!TypeOK
<1>2. v1.days \in Nat
  BY <1>1, SearchRequest
<1>3. v3 \in Nat /\ v3 >= 1
  BY <1>1, <1>2
<1>4. Search!From \in Nat /\ Search!From >= 1 /\ Search!To \in Nat /\ Search!From <= Search!To
  BY <1>1, <1>3, WindowDays DEF Search!From, Search!To
<1> QED BY <1>1, <1>3, <1>4, TrainingDays DEF Search!Trained

LEMMA StageEndsInRange ==
    ASSUME Search!SoundSearch, NEW f \in Int
    PROVE  /\ Search!StageEnd(f) \in Int /\ Search!From <= Search!StageEnd(f)
           /\ Search!StageEnd(f) <= Search!Trained
<1>1. PICK a, t : a = Search!From /\ t = Search!Trained
  OBVIOUS
<1>2. a \in Int /\ t \in Int /\ a <= t
  BY <1>1, SearchFacts
<1>3. PICK n \in Int : n = Search!Length(a, t)
  BY <1>2, LengthOfRange
<1>4. n * f \in Int
  OBVIOUS
<1>5. PICK c \in Int : c = Search!Ceil(n * f, 100)
  BY <1>4, CeilIsInt
<1>6. PICK l : l = Search!Largest({1, c})
  OBVIOUS
<1>7. l \in Int /\ l >= 1
  BY <1>6, LargestOfTwo
<1>8. Search!StageEnd(f) = Search!Least({t, a + l - 1})
  BY <1>1, <1>3, <1>5, <1>6 DEF Search!StageEnd
<1>9. PICK m \in Int : m = a + l - 1
  BY <1>2, <1>7
<1>10. Search!Least({t, m}) \in {t, m} /\ Search!Least({t, m}) <= t
  BY <1>2, LeastOfTwo
<1>11. m >= a
  BY <1>2, <1>7, <1>9
<1>12. Search!StageEnd(f) = Search!Least({t, m})
  BY <1>8, <1>9
<1> QED BY <1>1, <1>2, <1>10, <1>11, <1>12

\* There is a stage, and each ends within the training days.
LEMMA StagesInRange ==
    ASSUME Search!SoundSearch
    PROVE  \E m \in Nat : /\ m >= 1 /\ DOMAIN Search!build_successive_halving_stages = 1..m
                          /\ Len(Search!build_successive_halving_stages) = m
                          /\ \A i \in 1..m : LET d == Search!build_successive_halving_stages[i].to
                                             IN  d \in Int /\ Search!From <= d /\ d <= Search!Trained
<1>1. PICK fs : fs = Search!normalize_stage_fractions(v1.fractions)
  OBVIOUS
<1>2. fs \subseteq Int /\ fs # {}
  <2>1. v1.fractions \subseteq Int
    BY SearchFacts, SearchRequest
  <2>2. ASSUME NEW f \in Int PROVE Search!Least({100, Search!Largest({5, f})}) \in Int
    <3>1. PICK l \in Int : l = Search!Largest({5, f})
      BY LargestOfTwo
    <3>2. Search!Least({100, l}) \in {100, l}
      BY LeastOfTwo
    <3> QED BY <3>1, <3>2
  <2>3. PICK gs : gs = IF v1.fractions = {} THEN {35, 70, 100} ELSE v1.fractions
    OBVIOUS
  <2>4. gs \subseteq Int
    BY <2>1, <2>3
  <2>5. fs = {Search!Least({100, Search!Largest({5, f})}) : f \in gs} \cup {100}
    BY <1>1, <2>3 DEF Search!normalize_stage_fractions
  <2>6. ASSUME NEW g \in fs PROVE g \in Int
    <3>1. CASE g = 100
      BY <3>1
    <3>2. CASE \E f \in gs : g = Search!Least({100, Search!Largest({5, f})})
      BY <2>2, <2>4, <3>2
    <3> QED BY <2>5, <3>1, <3>2
  <2>7. 100 \in fs
    BY <2>5
  <2> QED BY <2>6, <2>7
<1>3. PICK D : D = {Search!StageEnd(f) : f \in fs}
  OBVIOUS
<1>4. PICK a, t : a = Search!From /\ t = Search!Trained
  OBVIOUS
<1>5. a \in Int /\ t \in Int
  BY <1>4, SearchFacts
<1>6. D \subseteq a..t /\ D # {}
  <2>1. ASSUME NEW f \in fs PROVE Search!StageEnd(f) \in a..t
    <3>1. /\ Search!StageEnd(f) \in Int /\ Search!From <= Search!StageEnd(f)
          /\ Search!StageEnd(f) <= Search!Trained
      BY <1>2, StageEndsInRange
    <3> QED BY <1>4, <1>5, <3>1
  <2> QED BY <1>2, <1>3, <2>1
<1>7. IsFiniteSet(D)
  BY <1>5, <1>6, FS_Interval, FS_Subset
<1>8. PICK R : R = {p \in D \X D : p[1] <= p[2]}
  OBVIOUS
<1>9. \A x, y \in D : <<x, y>> \in R <=> x <= y
  BY <1>8
<1>10. D \subseteq Int
  BY <1>5, <1>6
<1>11. PICK m, days : m = Cardinality(D) /\ days = Search!Sorted(D, R)
  OBVIOUS
<1>12. m \in Nat /\ days \in [1..m -> D] /\ m >= 1
  <2>0. \A x, y \in Int : x <= y \/ y <= x
    OBVIOUS
  <2>1. \A x, y \in D : <<x, y>> \in R \/ <<y, x>> \in R
    BY <1>9, <1>10, <2>0, Zenon
  <2>2. \A x, y \in D : <<x, y>> \in R /\ <<y, x>> \in R => x = y
    BY <1>9, <1>10
  <2>3. \A x, y, z \in D : <<x, y>> \in R /\ <<y, z>> \in R => <<x, z>> \in R
    BY <1>9, <1>10
  <2> QED BY <1>6, <1>7, <1>11, <2>1, <2>2, <2>3, SortedIsOrdered
<1>13. PICK st : st = Search!build_successive_halving_stages
  OBVIOUS
<1>14. st = [i \in DOMAIN days |-> [to |-> days[i], fraction |-> Search!Least({f \in fs : Search!StageEnd(f) = days[i]})]]
  BY <1>1, <1>3, <1>8, <1>11, <1>13 DEF Search!build_successive_halving_stages
<1>15. DOMAIN st = 1..m /\ \A i \in 1..m : st[i].to \in a..t
  BY <1>6, <1>12, <1>14
<1>16. Len(st) = m
  <2>1. st \in [1..m -> Range(st)]
    BY <1>12, <1>14 DEF Range
  <2> QED BY <1>12, <1>14
<1> QED BY <1>4, <1>5, <1>12, <1>13, <1>15, <1>16

\* Runs that are in place never look ahead.
LEMMA PlacesDoNotLookAhead ==
    ASSUME Search!SoundSearch
    PROVE  Search!NoLookahead
<1>1. v1 \in Searches /\ v3 \in Nat /\ v1.days \in Nat /\ v1.purge \in Nat
  BY SearchFacts, SearchRequest
<1>2. ASSUME NEW r \in v9
      PROVE  \E k \in Nat : \E a, b, t, x, y, f \in Int :
                /\ k = r.win /\ a = Search!SweepFrom(v1, k) /\ b = Search!SweepTo(v1, k)
                /\ t = Search!TrainTo(v1, a, b) /\ x = Search!WindowOf(v1, k).testFrom
                /\ y = Search!WindowOf(v1, k).testTo
                /\ Search!HasSplit(v1, a, b) => /\ f = Search!HoldoutFrom(v1, a, b) /\ f <= b
                                                /\ t + v1.purge < f
                /\ r.to \in Int /\ a <= t /\ t <= b /\ b <= v1.days /\ x <= y /\ (v1.forward => b < x /\ y <= v1.days)
                /\ \/ r.why = "train" /\ r.from = a /\ a <= r.to /\ r.to <= t
                   \/ r.why = "holdout" /\ Search!HasSplit(v1, a, b) /\ r.from = f /\ r.to = b
                   \/ r.why = "period" /\ r.from = a /\ r.to = b
                   \/ r.why = "test" /\ v1.forward /\ r.from = x /\ r.to = y
  <2>1. PICK k, a, b : k = r.win /\ a = Search!SweepFrom(v1, k) /\ b = Search!SweepTo(v1, k)
    OBVIOUS
  <2>2. /\ k \in 1..v3 /\ r.to \in Int
        /\ \/ r.why = "train" /\ r.from = a /\ a <= r.to /\ r.to <= Search!TrainTo(v1, a, b)
           \/ r.why = "holdout" /\ Search!HasSplit(v1, a, b) /\ r.from = Search!HoldoutFrom(v1, a, b) /\ r.to = b
           \/ r.why = "period" /\ r.from = a /\ r.to = b
           \/ /\ r.why = "test" /\ v1.forward /\ r.from = Search!WindowOf(v1, k).testFrom
              /\ r.to = Search!WindowOf(v1, k).testTo
    BY <2>1 DEF Search!SoundSearch, Search!RunIsInPlace
  <2>3. k \in Nat /\ k >= 1
    BY <1>1, <2>2
  <2>4. v1.forward => Search!WindowFits(v1, k)
    BY <2>2 DEF Search!SoundSearch, Search!WindowsFit
  <2>5. PICK x, y : x = Search!WindowOf(v1, k).testFrom /\ y = Search!WindowOf(v1, k).testTo
    OBVIOUS
  <2>6. /\ a \in Int /\ b \in Int /\ a <= b /\ x \in Int /\ y \in Int /\ x <= y
        /\ (v1.forward => b < x) /\ (~v1.forward => b = v1.days)
        /\ (Search!WindowFits(v1, k) => y <= v1.days)
    BY <1>1, <2>1, <2>3, <2>5, WindowDays
  <2>7. b <= v1.days /\ (v1.forward => b < x /\ y <= v1.days)
    BY <1>1, <2>4, <2>6
  <2>8. PICK t : t = Search!TrainTo(v1, a, b)
    OBVIOUS
  <2>9. t \in Int /\ a <= t /\ t <= b
    BY <1>1, <2>6, <2>8, TrainingDays
  <2>10. PICK f \in Int : Search!HasSplit(v1, a, b) =>
                             /\ f = Search!HoldoutFrom(v1, a, b) /\ f <= b /\ t + v1.purge < f
    BY <1>1, <2>6, <2>8, TrainingDays
  <2>11. \/ r.why = "train" /\ r.from = a /\ a <= r.to /\ r.to <= t
         \/ r.why = "holdout" /\ Search!HasSplit(v1, a, b) /\ r.from = f /\ r.to = b
         \/ r.why = "period" /\ r.from = a /\ r.to = b
         \/ r.why = "test" /\ v1.forward /\ r.from = x /\ r.to = y
    BY <2>2, <2>5, <2>8, <2>10
  <2> QED BY <2>1, <2>2, <2>3, <2>5, <2>6, <2>7, <2>8, <2>9, <2>10, <2>11
<1>3. ASSUME NEW r \in v9, NEW h \in v9
      PROVE  /\ r.win = h.win /\ r.why = "train" /\ h.why = "holdout" => r.to + v1.purge < h.from
             /\ r.win = h.win /\ r.why # "test" /\ h.why = "test" => r.to < h.from
             /\ r.to <= v1.days /\ r.from <= r.to
  <2>1. PICK k \in Nat, a \in Int, b \in Int, t \in Int, x \in Int, y \in Int, f \in Int :
                /\ k = r.win /\ a = Search!SweepFrom(v1, k) /\ b = Search!SweepTo(v1, k)
                /\ t = Search!TrainTo(v1, a, b) /\ x = Search!WindowOf(v1, k).testFrom
                /\ y = Search!WindowOf(v1, k).testTo
                /\ Search!HasSplit(v1, a, b) => /\ f = Search!HoldoutFrom(v1, a, b) /\ f <= b
                                                 /\ t + v1.purge < f
                /\ r.to \in Int /\ a <= t /\ t <= b /\ b <= v1.days /\ x <= y
                /\ (v1.forward => b < x /\ y <= v1.days)
                /\ \/ r.why = "train" /\ r.from = a /\ a <= r.to /\ r.to <= t
                   \/ r.why = "holdout" /\ Search!HasSplit(v1, a, b) /\ r.from = f /\ r.to = b
                   \/ r.why = "period" /\ r.from = a /\ r.to = b
                   \/ r.why = "test" /\ v1.forward /\ r.from = x /\ r.to = y
    BY <1>2
  <2>2. PICK k2 \in Nat, a2 \in Int, b2 \in Int, t2 \in Int, x2 \in Int, y2 \in Int, f2 \in Int :
                /\ k2 = h.win /\ a2 = Search!SweepFrom(v1, k2) /\ b2 = Search!SweepTo(v1, k2)
                /\ t2 = Search!TrainTo(v1, a2, b2) /\ x2 = Search!WindowOf(v1, k2).testFrom
                /\ y2 = Search!WindowOf(v1, k2).testTo
                /\ Search!HasSplit(v1, a2, b2) => /\ f2 = Search!HoldoutFrom(v1, a2, b2) /\ f2 <= b2
                                                 /\ t2 + v1.purge < f2
                /\ h.to \in Int /\ a2 <= t2 /\ t2 <= b2 /\ b2 <= v1.days /\ x2 <= y2
                /\ (v1.forward => b2 < x2 /\ y2 <= v1.days)
                /\ \/ h.why = "train" /\ h.from = a2 /\ a2 <= h.to /\ h.to <= t2
                   \/ h.why = "holdout" /\ Search!HasSplit(v1, a2, b2) /\ h.from = f2 /\ h.to = b2
                   \/ h.why = "period" /\ h.from = a2 /\ h.to = b2
                   \/ h.why = "test" /\ v1.forward /\ h.from = x2 /\ h.to = y2
    BY <1>2
  <2>3. r.to <= b \/ (r.why = "test" /\ r.to = y /\ v1.forward)
    BY <2>1
  <2>4. r.to <= v1.days
    BY <1>1, <2>1, <2>3
  <2>5. r.from <= r.to
    BY <1>1, <2>1
  <2>6. ASSUME r.win = h.win, r.why = "train", h.why = "holdout" PROVE r.to + v1.purge < h.from
    <3>1. r.to <= t /\ t = t2
      BY <2>1, <2>2, <2>6
    <3>2. h.from = f2 /\ t2 + v1.purge < f2
      BY <2>2, <2>6
    <3> QED BY <1>1, <2>1, <2>2, <3>1, <3>2
  <2>7. ASSUME r.win = h.win, r.why # "test", h.why = "test" PROVE r.to < h.from
    <3>1. r.to <= b /\ b = b2
      BY <2>1, <2>2, <2>3, <2>7
    <3>2. h.from = x2 /\ b2 < x2
      BY <2>2, <2>7
    <3> QED BY <2>1, <2>2, <3>1, <3>2
  <2> QED BY <2>4, <2>5, <2>6, <2>7
<1> QED BY <1>3 DEF Search!NoLookahead

LEMMA ToSetDef == \A s : Search!ToSet(s) = {s[i] : i \in DOMAIN s}
  BY DEF Search!ToSet

\* rank_results: all that were ranked, a best one first.
LEMMA RankedIsOrdered ==
    ASSUME NEW s, DOMAIN s \subseteq Int, NEW C, IsFiniteSet(C), C \subseteq Search!ToSet(s),
           NEW x, \A c \in C : x[c].res.value \in Int
    PROVE  LET order == Search!Ranked(s, C, x)
           IN  /\ Cardinality(C) \in Nat /\ order \in [1..Cardinality(C) -> C]
               /\ \A c \in C : \E i \in 1..Cardinality(C) : order[i] = c
               /\ C # {} => /\ Cardinality(C) >= 1
                            /\ \A c \in C : x[order[1]].res.value >= x[c].res.value
<1> DEFINE val == [c \in C |-> x[c].res.value]
           pos == [c \in C |-> Search!Pos(s, c)]
<1>1. PICK R : R = {p \in C \X C : LET u == x[p[1]].res.value
                                       v == x[p[2]].res.value
                                   IN  u > v \/ (u = v /\ Search!Pos(s, p[1]) <= Search!Pos(s, p[2]))}
  OBVIOUS
<1>2. \A a, b \in C : <<a, b>> \in R <=> (val[a] > val[b] \/ (val[a] = val[b] /\ pos[a] <= pos[b]))
  BY <1>1
<1>3. \A a \in C : val[a] \in Int /\ pos[a] \in Int /\ s[pos[a]] = a
  <2> SUFFICES ASSUME NEW a \in C PROVE val[a] \in Int /\ pos[a] \in Int /\ s[pos[a]] = a
    OBVIOUS
  <2>1. \E i \in DOMAIN s : s[i] = a
    BY ToSetDef
  <2>2. Search!Pos(s, a) \in DOMAIN s /\ s[Search!Pos(s, a)] = a
    BY <2>1 DEF Search!Pos
  <2> QED BY <2>2
<1>4. PICK o : o = Search!Ranked(s, C, x)
  OBVIOUS
<1>5. o = Search!Sorted(C, R)
  BY <1>1, <1>4 DEF Search!Ranked
<1>11. \A a \in C : x[a].res.value = val[a]
  OBVIOUS
<1> HIDE DEF val, pos
<1>6. \A a, b \in C : pos[a] = pos[b] => a = b
  BY <1>3
<1>7. \A a, b \in C : <<a, b>> \in R \/ <<b, a>> \in R
  <2> SUFFICES ASSUME NEW a \in C, NEW b \in C PROVE <<a, b>> \in R \/ <<b, a>> \in R
    OBVIOUS
  <2>1. val[a] \in Int /\ val[b] \in Int /\ pos[a] \in Int /\ pos[b] \in Int
    BY <1>3
  <2> QED BY <1>2, <2>1
<1>8. \A a, b \in C : <<a, b>> \in R /\ <<b, a>> \in R => a = b
  <2> SUFFICES ASSUME NEW a \in C, NEW b \in C, <<a, b>> \in R, <<b, a>> \in R PROVE a = b
    OBVIOUS
  <2>1. val[a] \in Int /\ val[b] \in Int /\ pos[a] \in Int /\ pos[b] \in Int
    BY <1>3
  <2>2. pos[a] = pos[b]
    BY <1>2, <2>1
  <2> QED BY <1>6, <2>2
<1>9. \A a, b, c \in C : <<a, b>> \in R /\ <<b, c>> \in R => <<a, c>> \in R
  <2> SUFFICES ASSUME NEW a \in C, NEW b \in C, NEW c \in C, <<a, b>> \in R, <<b, c>> \in R PROVE <<a, c>> \in R
    OBVIOUS
  <2>1. /\ val[a] \in Int /\ val[b] \in Int /\ pos[a] \in Int /\ pos[b] \in Int /\ val[c] \in Int /\ pos[c] \in Int
    BY <1>3
  <2> QED BY <1>2, <2>1
<1>10. PICK n : n = Cardinality(C)
  OBVIOUS
<1>12. n \in Nat /\ o \in [1..n -> C] /\ \A c \in C : \E i \in 1..n : o[i] = c
  BY <1>5, <1>7, <1>8, <1>9, <1>10, SortedIsOrdered
<1>13. ASSUME C # {} PROVE n >= 1 /\ \A c \in C : val[o[1]] >= val[c]
  <2>1. n >= 1 /\ \A c \in C : <<o[1], c>> \in R
    BY <1>5, <1>7, <1>8, <1>9, <1>10, <1>13, SortedIsOrdered
  <2>2. o[1] \in C
    BY <1>12, <2>1
  <2>3. ASSUME NEW c \in C PROVE val[o[1]] >= val[c]
    <3>1. val[o[1]] \in Int /\ val[c] \in Int
      BY <1>3, <2>2
    <3>2. val[o[1]] > val[c] \/ val[o[1]] = val[c]
      BY <1>2, <2>1, <2>2
    <3> QED BY <3>1, <3>2
  <2> QED BY <2>1, <2>3
<1>14. C # {} => n >= 1 /\ \A c \in C : x[o[1]].res.value >= x[c].res.value
  <2> SUFFICES ASSUME C # {} PROVE n >= 1 /\ \A c \in C : x[o[1]].res.value >= x[c].res.value
    OBVIOUS
  <2>1. n >= 1 /\ o[1] \in C
    BY <1>12, <1>13
  <2> QED BY <1>11, <1>13, <2>1
<1> QED BY <1>4, <1>10, <1>12, <1>14

LEMMA KeepCountInRange ==
    ASSUME Search!SoundSearch, NEW n \in Nat
    PROVE  Search!KeepCount(n) \in Nat /\ (n >= 1 => Search!KeepCount(n) >= 1) /\ Search!KeepCount(n) <= n
<1>1. v1.factor \in Nat /\ v1.factor >= 1
  BY SearchFacts, SearchRequest
<1>2. PICK c \in Int : c = Search!Ceil(n, v1.factor)
  BY <1>1, CeilIsInt
<1>3. PICK l : l = Search!Largest({1, c})
  OBVIOUS
<1>4. l \in Int /\ l >= 1
  BY <1>3, LargestOfTwo
<1>5. Search!Least({n, l}) \in {n, l} /\ Search!Least({n, l}) <= n
  BY <1>4, LeastOfTwo
<1>6. Search!KeepCount(n) = Search!Least({n, l})
  BY <1>2, <1>3 DEF Search!KeepCount
<1> QED BY <1>4, <1>5, <1>6

LEMMA SearchTyped ==
    ASSUME Search!SoundSearch
    PROVE  /\ v5 \in Seq(1..Grid) /\ DOMAIN v5 \subseteq Nat /\ Search!ToSet(v5) \subseteq 1..Grid
           /\ DOMAIN v6 = 1..Grid /\ Grid \in Nat /\ v7 \in Nat /\ MaxTrials \in Nat
           /\ \A c \in 1..Grid : DOMAIN v6[c] = Search!Fields /\ v6[c].res.value \in Int
           /\ \A o \in Outcomes : o.value \in Int /\ o \in Search!OutcomeType
<1>1. Grid \in Nat /\ MaxTrials \in Nat /\ \A o \in Outcomes : o \in Search!OutcomeType
  BY SearchAssumption DEF Search!OutcomeType
<1>2. v5 \in Seq(1..Grid) /\ Search!ToSet(v5) \subseteq 1..Grid /\ DOMAIN v6 = 1..Grid /\ v7 \in 0..MaxTrials
  BY DEF Search!SoundSearch, Search!TypeOK, Search!Candidates
<1>3. \A c \in 1..Grid : DOMAIN v6[c] = Search!Fields /\ v6[c].res \in Search!OutcomeType \cup {Search!NotRun}
  BY DEF Search!SoundSearch, Search!Candidates
<1>4. \A x \in Search!OutcomeType \cup {Search!NotRun} : x.value \in Int
  BY DEF Search!OutcomeType, Search!NotRun
<1>5. DOMAIN v5 \subseteq Nat
  BY <1>2
<1> QED BY <1>1, <1>2, <1>3, <1>4, <1>5

\* A stage keeps a best one of those that passed it.
LEMMA StageKeepsBest ==
    ASSUME Search!SoundSearch, Search!RunStage
    PROVE  \E o \in [Search!ToSet(v5) -> Outcomes] :
             LET passed == {c \in Search!ToSet(v5) : Search!Usable(o[c])
                              /\ Search!is_stage_eligible(o[c], Search!build_successive_halving_stages[v4].fraction)}
             IN  /\ v5' \in Seq(passed)
                 /\ passed # {} => \E d \in Search!ToSet(v5') : \A c \in passed : o[d].value >= o[c].value
                 /\ DOMAIN v6' = 1..Grid
                 /\ \A c \in 1..Grid :
                      /\ DOMAIN v6'[c] = Search!Fields /\ v6'[c].full = v6[c].full
                      /\ v6'[c].res = IF c \in Search!ToSet(v5) THEN o[c] ELSE v6[c].res
                      /\ c \in Search!ToSet(v5') => v6'[c].pruned = v6[c].pruned
<1> DEFINE S == Search!ToSet(v5)
<1>2. PICK o \in [S -> Outcomes] :
        /\ v6' = [c \in 1..Grid |-> IF c \in Search!Cut(o) THEN [Search!Seen(o)[c] EXCEPT !.pruned = TRUE]
                                    ELSE Search!Seen(o)[c]]
        /\ v5' = Search!Kept(o)
  BY DEF Search!RunStage, Search!Runs, Search!Candidates
<1>3. PICK seen, passed, kept, cut :
        /\ seen = Search!Seen(o) /\ passed = Search!PassedStage(o) /\ kept = Search!Kept(o)
        /\ cut = Search!Cut(o)
  OBVIOUS
<1>1. PICK order : order = Search!Ranked(v5, passed, seen)
  OBVIOUS
<1>4. /\ seen = [c \in 1..Grid |-> IF c \in S THEN [v6[c] EXCEPT !.res = o[c]] ELSE v6[c]]
      /\ passed = {c \in S : Search!Usable(o[c])
                       /\ Search!is_stage_eligible(o[c], Search!build_successive_halving_stages[v4].fraction)}
      /\ order = Search!Ranked(v5, passed, seen)
      /\ kept = IF Search!LastStage THEN order ELSE SubSeq(order, 1, Search!KeepCount(Len(order)))
      /\ cut \cap Search!ToSet(kept) = {}
      /\ v6' = [c \in 1..Grid |-> IF c \in cut THEN [seen[c] EXCEPT !.pruned = TRUE] ELSE seen[c]]
      /\ v5' = kept
  <2>1. DOMAIN o = S
    OBVIOUS
  <2>2. seen = [c \in 1..Grid |-> IF c \in S THEN [v6[c] EXCEPT !.res = o[c]] ELSE v6[c]]
    BY <1>3, <2>1 DEF Search!Seen, Search!Candidates
  <2>3. passed = {c \in S : Search!Usable(o[c])
                     /\ Search!is_stage_eligible(o[c], Search!build_successive_halving_stages[v4].fraction)}
    BY <1>3, <2>1 DEF Search!PassedStage
  <2>4. kept = IF Search!LastStage THEN order ELSE SubSeq(order, 1, Search!KeepCount(Len(order)))
    BY <1>1, <1>3 DEF Search!Kept
  <2>5. cut \cap Search!ToSet(kept) = {}
    BY <1>3 DEF Search!Cut
  <2>6. v6' = [c \in 1..Grid |-> IF c \in cut THEN [seen[c] EXCEPT !.pruned = TRUE] ELSE seen[c]] /\ v5' = kept
    BY <1>2, <1>3
  <2> QED BY <1>1, <2>2, <2>3, <2>4, <2>5, <2>6
<1>5. S \subseteq 1..Grid /\ Grid \in Nat /\ DOMAIN v5 \subseteq Int /\ \A c \in 1..Grid : DOMAIN v6[c] = Search!Fields
  BY SearchTyped
<1>6. IsFiniteSet(passed)
  <2>1. passed \in SUBSET (1..Grid)
    BY <1>4, <1>5
  <2>2. IsFiniteSet(1..Grid)
    BY <1>5, FS_Interval
  <2> QED BY <2>1, <2>2, FS_Subset
<1>7. \A c \in S : seen[c].res = o[c] /\ o[c].value \in Int
  BY <1>4, <1>5, SearchTyped DEF Search!Fields
<1>8. PICK n : n = Cardinality(passed)
  OBVIOUS
<1>9. n \in Nat /\ order \in [1..n -> passed]
      /\ (passed # {} => n >= 1 /\ \A c \in passed : seen[order[1]].res.value >= seen[c].res.value)
  BY <1>4, <1>5, <1>6, <1>7, <1>8, RankedIsOrdered
<1>10. order \in Seq(passed) /\ Len(order) = n
  BY <1>9
<1>11. kept \in Seq(passed) /\ (passed # {} => 1 \in DOMAIN kept /\ kept[1] = order[1])
  <2>1. CASE Search!LastStage
    <3>1. kept = order
      BY <1>4, <2>1, Zenon
    <3> QED BY <1>9, <1>10, <3>1
  <2>2. CASE ~Search!LastStage /\ passed # {}
    <3>1. PICK m : m = Search!KeepCount(n)
      OBVIOUS
    <3>2. m \in Nat /\ m >= 1 /\ m <= n
      BY <1>9, <2>2, <3>1, KeepCountInRange
    <3>3. kept = SubSeq(order, 1, m)
      BY <1>4, <1>10, <2>2, <3>1
    <3> QED BY <1>9, <1>10, <3>2, <3>3
  <2>3. CASE ~Search!LastStage /\ passed = {}
    <3>1. n = 0
      BY <1>8, <2>3, FS_EmptySet
    <3>2. order = <<>>
      BY <1>10, <3>1
    <3>3. kept = SubSeq(order, 1, Search!KeepCount(0))
      BY <1>4, <1>10, <2>3, <3>1
    <3>4. Search!KeepCount(0) \in Int /\ Search!KeepCount(0) <= 0
      BY KeepCountInRange
    <3>5. kept = <<>>
      BY <3>2, <3>3, <3>4
    <3> QED BY <2>3, <3>5
  <2> QED BY <2>1, <2>2, <2>3
<1>12. passed # {} => \E d \in Search!ToSet(kept) : \A c \in passed : o[d].value >= o[c].value
  <2> SUFFICES ASSUME passed # {} PROVE \E d \in Search!ToSet(kept) : \A c \in passed : o[d].value >= o[c].value
    OBVIOUS
  <2>1. order[1] \in Search!ToSet(kept) /\ order[1] \in passed
    BY <1>9, <1>11, ToSetDef
  <2>2. passed \subseteq S
    BY <1>4
  <2>3. \A c \in passed : seen[c].res = o[c]
    BY <1>7, <2>2
  <2>4. \A c \in passed : o[order[1]].value >= o[c].value
    BY <1>9, <2>1, <2>3
  <2> QED BY <2>1, <2>4
<1>13. ASSUME NEW c \in 1..Grid
       PROVE  /\ DOMAIN v6'[c] = Search!Fields /\ v6'[c].full = v6[c].full
              /\ v6'[c].res = IF c \in S THEN o[c] ELSE v6[c].res
              /\ c \in Search!ToSet(kept) => v6'[c].pruned = v6[c].pruned
  <2>1. DOMAIN v6[c] = Search!Fields
    BY <1>5
  <2>2. DOMAIN seen[c] = Search!Fields /\ seen[c].full = v6[c].full /\ seen[c].pruned = v6[c].pruned
        /\ seen[c].res = IF c \in S THEN o[c] ELSE v6[c].res
    BY <1>4, <2>1 DEF Search!Fields
  <2>3. CASE c \in cut
    <3>1. v6'[c] = [seen[c] EXCEPT !.pruned = TRUE] /\ c \notin Search!ToSet(kept)
      BY <1>4, <2>3
    <3> QED BY <2>2, <3>1 DEF Search!Fields
  <2>4. CASE c \notin cut
    <3>1. v6'[c] = seen[c]
      BY <1>4, <2>4
    <3> QED BY <2>2, <3>1
  <2> QED BY <2>3, <2>4
<1>14. DOMAIN v6' = 1..Grid
  BY <1>4
<1> HIDE DEF S
<1>15. v5' = kept
  BY <1>4
<1>16. /\ v5' \in Seq(passed)
       /\ passed # {} => \E d \in Search!ToSet(v5') : \A c \in passed : o[d].value >= o[c].value
       /\ \A c \in 1..Grid :
            /\ DOMAIN v6'[c] = Search!Fields /\ v6'[c].full = v6[c].full
            /\ v6'[c].res = IF c \in S THEN o[c] ELSE v6[c].res
            /\ c \in Search!ToSet(v5') => v6'[c].pruned = v6[c].pruned
  BY <1>11, <1>12, <1>13, <1>15
<1>17. passed = {c \in S : Search!Usable(o[c])
                     /\ Search!is_stage_eligible(o[c], Search!build_successive_halving_stages[v4].fraction)}
  BY <1>4
<1> QED BY <1>14, <1>16, <1>17 DEF S

LEMMA HalvingIsFair ==
    ASSUME Search!SoundSearch, Search!RunStage
    PROVE  Search!HalvingKeepsTheBest
<1> DEFINE S == Search!ToSet(v5)
           f == Search!build_successive_halving_stages[v4].fraction
<1>1. PICK o \in [S -> Outcomes], passed \in SUBSET S :
             /\ passed = {c \in S : Search!Usable(o[c]) /\ Search!is_stage_eligible(o[c], f)}
             /\ v5' \in Seq(passed)
             /\ passed # {} => \E d \in Search!ToSet(v5') : \A c \in passed : o[d].value >= o[c].value
             /\ \A c \in 1..Grid : v6'[c].res = IF c \in S THEN o[c] ELSE v6[c].res
  BY StageKeepsBest
<1>2. S \subseteq 1..Grid
  BY SearchTyped
<1>3. Search!ToSet(v5') \subseteq passed /\ passed \subseteq S
  BY <1>1, ToSetDef
<1>4. ASSUME NEW c \in S \ Search!ToSet(v5'), Search!Usable(v6'[c].res), Search!is_stage_eligible(v6'[c].res, f)
      PROVE  \E d \in Search!ToSet(v5') : v6'[d].res.value >= v6'[c].res.value
  <2> HIDE DEF f
  <2>1. v6'[c].res = o[c]
    BY <1>1, <1>2
  <2>2. c \in passed
    BY <1>1, <1>4, <2>1
  <2>3. PICK d \in Search!ToSet(v5') : o[d].value >= o[c].value
    BY <1>1, <2>2
  <2>4. v6'[d].res = o[d]
    BY <1>1, <1>2, <1>3
  <2> QED BY <2>1, <2>3, <2>4
<1> QED BY <1>4, Zenon DEF Search!HalvingKeepsTheBest

\* Within a window the days, the stages and what a candidate must reach stay.
LEMMA WindowStays ==
    ASSUME UNCHANGED <<v1, v3>>
    PROVE  /\ Search!From' = Search!From /\ Search!To' = Search!To /\ Search!Trained' = Search!Trained
           /\ Search!build_successive_halving_stages' = Search!build_successive_halving_stages
           /\ \A r, f : Search!is_stage_eligible(r, f)' <=> Search!is_stage_eligible(r, f)
<1>1. Search!From' = Search!From /\ Search!To' = Search!To
  BY DEF Search!From, Search!To
<1>2. Search!Trained' = Search!Trained
  BY <1>1 DEF Search!Trained
<1>3. \A f : Search!StageEnd(f)' = Search!StageEnd(f)
  BY <1>1, <1>2 DEF Search!StageEnd
<1>4. Search!build_successive_halving_stages' = Search!build_successive_halving_stages
  <2>1. PICK fs : fs = Search!normalize_stage_fractions(v1.fractions)
    OBVIOUS
  <2>2. PICK D : D = {Search!StageEnd(f) : f \in fs}
    OBVIOUS
  <2>3. D = {Search!StageEnd(f)' : f \in fs}
    BY <1>3, <2>2
  <2>4. PICK days : days = Search!Sorted(D, {p \in D \X D : p[1] <= p[2]})
    OBVIOUS
  <2>5. Search!build_successive_halving_stages =
            [i \in DOMAIN days |->
                [to |-> days[i], fraction |-> Search!Least({f \in fs : Search!StageEnd(f) = days[i]})]]
    BY <2>1, <2>2, <2>4 DEF Search!build_successive_halving_stages
  <2>6. Search!build_successive_halving_stages' =
            [i \in DOMAIN days |->
                [to |-> days[i], fraction |-> Search!Least({f \in fs : Search!StageEnd(f)' = days[i]})]]
    BY <2>1, <2>3, <2>4 DEF Search!build_successive_halving_stages
  <2>7. \A i : {f \in fs : Search!StageEnd(f) = days[i]} = {f \in fs : Search!StageEnd(f)' = days[i]}
    BY <1>3
  <2> QED BY <2>5, <2>6, <2>7
<1>5. Search!resolve_search_strategy' = Search!resolve_search_strategy
  BY <1>1, <1>2 DEF Search!resolve_search_strategy
<1>6. Search!MinTrades' = Search!MinTrades
  BY <1>5 DEF Search!MinTrades
<1>7. \A f : Search!scaled_min_trades(f)' = Search!scaled_min_trades(f)
  BY <1>6 DEF Search!scaled_min_trades
<1>8. \A r, f : Search!is_stage_eligible(r, f)' <=> Search!is_stage_eligible(r, f)
  BY <1>6, <1>7, Zenon DEF Search!is_stage_eligible
<1> QED BY <1>1, <1>2, <1>4, <1>8

LEMMA LogStaysInPlace ==
    ASSUME Search!SoundSearch, UNCHANGED v1, v3' = v3 \/ v3' = v3 + 1, NEW E, v9' \subseteq v9 \cup E,
           \A e \in E : Search!RunIsInPlace(e)
    PROVE  \A r \in v9' : Search!RunIsInPlace(r)'
<1> SUFFICES ASSUME NEW r \in v9' PROVE Search!RunIsInPlace(r)'
  OBVIOUS
<1>1. Search!RunIsInPlace(r)
  BY DEF Search!SoundSearch
<1>2. v3 \in Nat
  BY SearchFacts
<1>3. r.win \in 1..v3'
  <2>1. r.win \in 1..v3
    BY <1>1 DEF Search!RunIsInPlace
  <2> QED BY <1>2, <2>1
<1> QED BY <1>1, <1>3, Zenon DEF Search!RunIsInPlace

LEMMA TrainingIsInPlace ==
    ASSUME Search!SoundSearch, NEW c, NEW d \in Int, Search!From <= d, d <= Search!Trained
    PROVE  Search!RunIsInPlace([c |-> c, from |-> Search!From, to |-> d, why |-> "train", win |-> v3])
<1>1. v3 \in 1..v3
  BY SearchFacts
<1> QED BY <1>1 DEF Search!RunIsInPlace, Search!From, Search!To, Search!Trained

LEMMA FitStays ==
    ASSUME Search!SoundSearch, UNCHANGED <<v1, v3>>, v2 \notin {"idle", "refused", "failed"}
    PROVE  Search!WindowsFit'
<1>1. v1.forward => \A k \in 1..v3 : Search!WindowFits(v1, k)
  BY DEF Search!SoundSearch, Search!WindowsFit
<1> QED BY <1>1 DEF Search!WindowsFit

LEMMA TargetInRange == Search!TargetTrials \in Nat /\ Search!TargetTrials <= MaxTrials
<1>1. MaxTrials \in Nat /\ Grid \in Nat
  BY SearchAssumption
<1> QED BY <1>1, LeastOfTwo DEF Search!TargetTrials

LEMMA SearchStart == ASSUME Search!Init PROVE Search!SoundSearch
<1>1. /\ v1 \in Searches /\ v2 = "idle" /\ v3 = 1 /\ v4 = 1 /\ v5 = <<>> /\ v7 = 0 /\ v8 = 0 /\ v9 = {}
      /\ v6 = [c \in 1..Grid |-> Search!Fresh]
  BY DEF Search!Init, Search!Candidates
<1>2. v1.days \in Nat /\ v1.days >= 1 /\ Grid \in Nat /\ MaxTrials \in Nat
  BY <1>1, SearchRequest, SearchAssumption
<1>3. Search!TypeOK
  <2>1. v8 \in 0..Grid /\ v3 \in 1..v1.days /\ v7 \in 0..MaxTrials
    BY <1>1, <1>2
  <2>2. Search!ToSet(v5) = {} /\ DOMAIN v6 = 1..Grid
    BY <1>1, ToSetDef
  <2> QED BY <1>1, <2>1, <2>2 DEF Search!TypeOK, Search!Candidates
<1>4. \A c \in 1..Grid : DOMAIN v6[c] = Search!Fields /\ v6[c].res \in Search!OutcomeType \cup {Search!NotRun}
  BY <1>1 DEF Search!Fresh, Search!Fields
<1>5. Search!WindowsFit /\ Search!FullIsTrained /\ Search!BestIsBest
  BY <1>1 DEF Search!WindowsFit, Search!FullIsTrained, Search!BestIsBest
<1>6. v5 \in Seq(1..Grid)
  BY <1>1
<1> QED BY <1>1, <1>3, <1>4, <1>5, <1>6, TargetInRange DEF Search!SoundSearch, Search!Candidates

LEMMA SearchSubmit == ASSUME Search!SoundSearch, Search!Submit PROVE Search!SoundSearch'
<1>1. /\ UNCHANGED <<v1, v3, v4, v5, v6, v7, v8, v9>> /\ v2 = "idle"
      /\ v2' \in {"refused", "failed", "sweep"}
      /\ v2' = "sweep" /\ v1.forward => Search!build_walk_forward_windows(v1) # {}
  BY DEF Search!Submit
<1>2. Search!TypeOK'
  BY <1>1 DEF Search!SoundSearch, Search!TypeOK
<1>3. \A r \in v9' : Search!RunIsInPlace(r)'
  <2> PICK E : E = {}
    OBVIOUS
  <2>1. v9' \subseteq v9 \cup E /\ \A e \in E : Search!RunIsInPlace(e)
    BY <1>1
  <2>2. UNCHANGED <<v1, v3>>
    BY <1>1
  <2> QED BY <2>1, <2>2, LogStaysInPlace
<1>4. Search!WindowsFit'
  <2>1. v1.forward => (v9 = {} /\ v3 = 1) \/ \A k \in 1..v3 : Search!WindowFits(v1, k)
    BY DEF Search!SoundSearch, Search!WindowsFit
  <2>2. ASSUME v1.forward, v2' = "sweep" PROVE Search!WindowFits(v1, 1)
    <3>1. PICK k \in 1..v1.days : \A j \in 1..k : Search!WindowFits(v1, j)
      BY <1>1, <2>2 DEF Search!build_walk_forward_windows
    <3>2. v1.days \in Nat
      BY SearchFacts, SearchRequest
    <3> QED BY <3>1, <3>2
  <2>3. \A k \in 1..1 : k = 1
    OBVIOUS
  <2> QED BY <1>1, <2>1, <2>2, <2>3 DEF Search!WindowsFit
<1>5. Search!FullIsTrained' /\ Search!BestIsBest'
  BY <1>1 DEF Search!FullIsTrained, Search!BestIsBest
<1> QED BY <1>1, <1>2, <1>3, <1>4, <1>5 DEF Search!SoundSearch

LEMMA SearchBegin == ASSUME Search!SoundSearch, Search!BeginSweep PROVE Search!SoundSearch'
<1>1. /\ UNCHANGED <<v1, v3, v9>> /\ v2 = "sweep" /\ v6' = [c \in 1..Grid |-> Search!Fresh]
      /\ v5' = [i \in 1..Grid |-> i] /\ v4' = 1 /\ v7' = 0 /\ v8' = 0
      /\ v2' \in {"failed", "trial", "stage", "full"}
  BY DEF Search!BeginSweep, Search!Candidates, Search!AllCandidates
<1>2. Grid \in Nat /\ MaxTrials \in Nat
  BY SearchAssumption
<1>3. v5' \in Seq(1..Grid) /\ Search!ToSet(v5') = 1..Grid
  <2>1. PICK s : s = v5'
    OBVIOUS
  <2>2. s = [i \in 1..Grid |-> i]
    BY <1>1, <2>1
  <2>3. s \in Seq(1..Grid)
    BY <1>2, <2>2
  <2>4. {s[i] : i \in DOMAIN s} = 1..Grid
    BY <2>2
  <2>5. Search!ToSet(s) = 1..Grid
    BY <2>4, ToSetDef
  <2> QED BY <2>1, <2>3, <2>5
<1>4. Search!TypeOK'
  <2>1. v8' \in 0..Grid /\ v7' \in 0..MaxTrials
    BY <1>1, <1>2
  <2>2. v1' \in Searches /\ v3' \in 1..v1'.days
    BY <1>1 DEF Search!SoundSearch, Search!TypeOK
  <2> QED BY <1>1, <1>3, <2>1, <2>2 DEF Search!TypeOK, Search!Candidates
<1>5. \A c \in 1..Grid : DOMAIN v6'[c] = Search!Fields /\ v6'[c].res \in Search!OutcomeType \cup {Search!NotRun}
                         /\ ~v6'[c].full /\ ~v6'[c].pruned
  BY <1>1 DEF Search!Fresh, Search!Fields
<1>6. v4' \in DOMAIN Search!build_successive_halving_stages'
  BY <1>1, StagesInRange, WindowStays
<1>7. \A r \in v9' : Search!RunIsInPlace(r)'
  <2>1. v9' \subseteq v9 \cup {} /\ \A e \in {} : Search!RunIsInPlace(e)
    BY <1>1
  <2> QED BY <1>1, <2>1, LogStaysInPlace
<1>8. Search!WindowsFit'
  BY <1>1, FitStays
<1>9. Search!FullIsTrained' /\ Search!BestIsBest'
  BY <1>1, <1>3, <1>5 DEF Search!FullIsTrained, Search!BestIsBest, Search!Candidates
<1>10. v7' <= Search!TargetTrials'
  BY <1>1, TargetInRange DEF Search!TargetTrials
<1> QED BY <1>3, <1>4, <1>5, <1>6, <1>7, <1>8, <1>9, <1>10 DEF Search!SoundSearch, Search!Candidates

LEMMA SearchStage == ASSUME Search!SoundSearch, Search!RunStage PROVE Search!SoundSearch'
<1> DEFINE S == Search!ToSet(v5)
<1>1. PICK m \in Nat : /\ m >= 1 /\ DOMAIN Search!build_successive_halving_stages = 1..m
                       /\ Len(Search!build_successive_halving_stages) = m
                       /\ \A i \in 1..m : LET d == Search!build_successive_halving_stages[i].to
                                          IN  d \in Int /\ Search!From <= d /\ d <= Search!Trained
  BY StagesInRange
<1>2. /\ UNCHANGED <<v1, v3, v7, v8>> /\ v2 = "stage" /\ v4' = v4 + 1
      /\ v2' = "full" \/ (v2' = "stage" /\ v4 # Len(Search!build_successive_halving_stages))
  BY DEF Search!RunStage, Search!LastStage
<1>3. v4 \in 1..m
  BY <1>1, <1>2 DEF Search!SoundSearch
<1>4. PICK d : d = Search!build_successive_halving_stages[v4].to
  OBVIOUS
<1>5. v9' = v9 \cup {[c |-> c, from |-> Search!From, to |-> d, why |-> "train", win |-> v3] : c \in S}
  BY <1>4 DEF Search!RunStage, Search!Logged
<1>6. d \in Int /\ Search!From <= d /\ d <= Search!Trained
  BY <1>1, <1>3, <1>4
<1>7. \A r \in v9' : Search!RunIsInPlace(r)'
  <2>1. PICK E : E = {[c |-> c, from |-> Search!From, to |-> d, why |-> "train", win |-> v3] : c \in S}
    OBVIOUS
  <2>2. \A e \in E : Search!RunIsInPlace(e)
    BY <1>6, <2>1, TrainingIsInPlace
  <2>3. UNCHANGED <<v1, v3>> /\ v9' \subseteq v9 \cup E
    BY <1>2, <1>5, <2>1
  <2> QED BY <2>2, <2>3, LogStaysInPlace
<1>8. PICK o \in [S -> Outcomes], passed \in SUBSET S :
             /\ passed \subseteq S /\ v5' \in Seq(passed) /\ DOMAIN v6' = 1..Grid
             /\ \A c \in 1..Grid :
                  /\ DOMAIN v6'[c] = Search!Fields /\ v6'[c].full = v6[c].full
                  /\ v6'[c].res = IF c \in Search!ToSet(v5) THEN o[c] ELSE v6[c].res
                  /\ c \in Search!ToSet(v5') => v6'[c].pruned = v6[c].pruned
  BY StageKeepsBest
<1>9. S \subseteq 1..Grid /\ Grid \in Nat
  BY SearchTyped
<1>10. v5' \in Seq(1..Grid) /\ Search!ToSet(v5') \subseteq S
  BY <1>8, <1>9, ToSetDef
<1>11. \A c \in 1..Grid : v6'[c].res \in Search!OutcomeType \cup {Search!NotRun}
  <2> SUFFICES ASSUME NEW c \in 1..Grid PROVE v6'[c].res \in Search!OutcomeType \cup {Search!NotRun}
    OBVIOUS
  <2>1. CASE c \in S
    BY <1>8, <2>1, SearchTyped
  <2>2. CASE c \notin S
    BY <1>8, <2>2 DEF Search!SoundSearch, Search!Candidates
  <2> QED BY <2>1, <2>2
<1>12. Search!TypeOK'
  <2>1. /\ v1' \in Searches /\ v3' \in 1..v1'.days /\ v7' \in 0..MaxTrials /\ v8' \in 0..Grid
    BY <1>2 DEF Search!SoundSearch, Search!TypeOK
  <2> QED BY <1>2, <1>8, <1>9, <1>10, <2>1 DEF Search!TypeOK, Search!Candidates
<1>13. Search!WindowsFit'
  BY <1>2, FitStays
<1>14. v2' = "stage" => v4' \in DOMAIN Search!build_successive_halving_stages'
  <2>1. v2' = "stage" => v4 + 1 \in 1..m
    BY <1>1, <1>2, <1>3
  <2> QED BY <1>1, <1>2, <2>1, WindowStays
<1>15. Search!FullIsTrained'
  <2>1. (\A c \in 1..Grid : ~v6[c].full) /\ (\A c \in S : ~v6[c].pruned)
    BY <1>2 DEF Search!SoundSearch, Search!FullIsTrained, Search!Candidates
  <2>2. (\A c \in 1..Grid : ~v6'[c].full)
    BY <1>8, <2>1
  <2>3. \A c \in Search!ToSet(v5') : ~v6'[c].pruned
    BY <1>8, <1>9, <1>10, <2>1
  <2> QED BY <1>2, <2>2, <2>3 DEF Search!FullIsTrained, Search!Candidates
<1>16. Search!BestIsBest'
  BY <1>2 DEF Search!BestIsBest
<1>17. v7' <= Search!TargetTrials'
  BY <1>2 DEF Search!TargetTrials, Search!SoundSearch
<1>18. \A c \in 1..Grid : DOMAIN v6'[c] = Search!Fields /\ v6'[c].res \in Search!OutcomeType \cup {Search!NotRun}
  BY <1>8, <1>11
<1> QED BY <1>7, <1>10, <1>12, <1>13, <1>14, <1>15, <1>16, <1>17, <1>18 DEF Search!SoundSearch, Search!Candidates

\* The runs over all training days, of the survivors together or of one trial.
LEMMA FullRunsKeep ==
    ASSUME Search!SoundSearch, UNCHANGED <<v1, v3, v4, v5, v8>>, v7' \in Nat, v7' <= Search!TargetTrials,
           v2 \in {"full", "trial"}, v2' \in {"trial", "select"},
           NEW S \in SUBSET (1..Grid), NEW o \in [S -> Outcomes],
           v9' = v9 \cup {[c |-> c, from |-> Search!From, to |-> Search!Trained, why |-> "train", win |-> v3] : c \in S},
           DOMAIN v6' = 1..Grid, \A c \in (1..Grid) \ S : v6'[c] = v6[c],
           \A c \in S : /\ DOMAIN v6'[c] = Search!Fields /\ v6'[c].res = o[c]
                        /\ v6'[c].pruned = v6[c].pruned /\ ~v6[c].pruned,
           v2' = "trial" => v2 = "trial"
    PROVE  Search!SoundSearch'
<1>1. \A r \in v9' : Search!RunIsInPlace(r)'
  <2>1. PICK d : d = Search!Trained
    OBVIOUS
  <2>2. d \in Int /\ Search!From <= d /\ d <= Search!Trained
    BY <2>1, SearchFacts
  <2>3. PICK E : E = {[c |-> c, from |-> Search!From, to |-> d, why |-> "train", win |-> v3] : c \in S}
    OBVIOUS
  <2>4. \A e \in E : Search!RunIsInPlace(e)
    BY <2>2, <2>3, TrainingIsInPlace
  <2>5. v9' \subseteq v9 \cup E
    BY <2>1, <2>3
  <2> QED BY <2>4, <2>5, LogStaysInPlace
<1>2. Search!TypeOK'
  <2>1. MaxTrials \in Nat
    BY SearchAssumption
  <2>2. v7' \in 0..MaxTrials
    BY <2>1, TargetInRange
  <2> QED BY <2>2 DEF Search!SoundSearch, Search!TypeOK, Search!Candidates
<1>3. \A c \in 1..Grid : DOMAIN v6'[c] = Search!Fields /\ v6'[c].res \in Search!OutcomeType \cup {Search!NotRun}
  <2> SUFFICES ASSUME NEW c \in 1..Grid
               PROVE  DOMAIN v6'[c] = Search!Fields /\ v6'[c].res \in Search!OutcomeType \cup {Search!NotRun}
    OBVIOUS
  <2>1. CASE c \in S
    BY <2>1, SearchTyped
  <2>2. CASE c \notin S
    BY <2>2 DEF Search!SoundSearch, Search!Candidates
  <2> QED BY <2>1, <2>2
<1>4. Search!WindowsFit'
  BY FitStays
<1>5. Search!FullIsTrained'
  <2>1. Search!FullIsTrained
    BY DEF Search!SoundSearch
  <2>2. ASSUME NEW c \in 1..Grid, v6'[c].full PROVE ~v6'[c].pruned /\ Search!FullyTrained(c)'
    <3>1. CASE c \in S
      <4>1. [c |-> c, from |-> Search!From, to |-> Search!Trained, why |-> "train", win |-> v3] \in v9'
        BY <3>1
      <4> QED BY <3>1, <4>1, WindowStays DEF Search!FullyTrained
    <3>2. CASE c \notin S
      <4>1. v6[c].full /\ v6'[c] = v6[c]
        BY <2>2, <3>2
      <4>2. v2 = "trial" /\ ~v6[c].pruned /\ Search!FullyTrained(c)
        BY <2>1, <4>1 DEF Search!FullIsTrained, Search!Candidates
      <4>3. Search!FullyTrained(c)'
        BY <4>2, WindowStays DEF Search!FullyTrained
      <4> QED BY <4>1, <4>2, <4>3
    <3> QED BY <3>1, <3>2
  <2>3. v2' = "trial" => \A c \in 1..Grid : ~v6'[c].pruned
    <3> SUFFICES ASSUME v2' = "trial", NEW c \in 1..Grid PROVE ~v6'[c].pruned
      OBVIOUS
    <3>1. ~v6[c].pruned
      BY <2>1 DEF Search!FullIsTrained, Search!Candidates
    <3> QED BY <3>1
  <2> QED BY <2>2, <2>3 DEF Search!FullIsTrained, Search!Candidates
<1>6. Search!BestIsBest'
  BY DEF Search!BestIsBest
<1>7. v5' \in Seq(1..Grid)
  BY SearchTyped
<1>8. v7' <= Search!TargetTrials'
  BY DEF Search!TargetTrials
<1> QED BY <1>1, <1>2, <1>3, <1>4, <1>5, <1>6, <1>7, <1>8 DEF Search!SoundSearch, Search!Candidates

LEMMA SearchFull == ASSUME Search!SoundSearch, Search!RunFull PROVE Search!SoundSearch'
<1> DEFINE S == Search!ToSet(v5)
<1>1. PICK o \in [S -> Outcomes] :
        v6' = [c \in 1..Grid |-> IF c \in DOMAIN o THEN [v6[c] EXCEPT !.res = o[c], !.full = o[c].kind # "error"]
                                 ELSE v6[c]]
  BY DEF Search!RunFull, Search!Runs, Search!Candidates
<1>2. /\ UNCHANGED <<v1, v3, v4, v5, v7, v8>> /\ v2 = "full" /\ v2' = "select"
      /\ v9' = v9 \cup {[c |-> c, from |-> Search!From, to |-> Search!Trained, why |-> "train", win |-> v3] : c \in S}
  BY DEF Search!RunFull, Search!Logged
<1>3. S \in SUBSET (1..Grid) /\ v7 \in Nat /\ v7 <= Search!TargetTrials
      /\ \A c \in 1..Grid : DOMAIN v6[c] = Search!Fields
  BY SearchTyped DEF Search!SoundSearch
<1>4. \A c \in S : ~v6[c].pruned
  BY <1>2 DEF Search!SoundSearch, Search!FullIsTrained
<1>5. DOMAIN v6' = 1..Grid /\ \A c \in (1..Grid) \ S : v6'[c] = v6[c]
  BY <1>1
<1>6. ASSUME NEW c \in S
      PROVE  DOMAIN v6'[c] = Search!Fields /\ v6'[c].res = o[c] /\ v6'[c].pruned = v6[c].pruned
  <2>1. v6'[c] = [v6[c] EXCEPT !.res = o[c], !.full = o[c].kind # "error"]
    BY <1>1, <1>3
  <2>2. DOMAIN v6[c] = Search!Fields
    BY <1>3
  <2> QED BY <2>1, <2>2 DEF Search!Fields
<1> HIDE DEF S
<1> QED BY <1>2, <1>3, <1>4, <1>5, <1>6, FullRunsKeep

LEMMA SearchTrial == ASSUME Search!SoundSearch, Search!RunTrial PROVE Search!SoundSearch'
<1>1. /\ UNCHANGED <<v1, v3, v4, v5, v8>> /\ v2 = "trial"
      /\ \/ v2' = "select" /\ UNCHANGED <<v6, v7, v9>>
         \/ v2' = v2 /\ v7 # Search!TargetTrials /\ v7' = v7 + 1 /\ UNCHANGED <<v6, v9>>
         \/ /\ v2' = v2 /\ v7 # Search!TargetTrials /\ v7' = v7 + 1
            /\ \E c \in 1..Grid : /\ Search!Logged(<<c>>, Search!From, Search!Trained, "train")
                                  /\ \E o \in Outcomes :
                                        v6' = [v6 EXCEPT ![c] = [@ EXCEPT !.res = o, !.full = o.kind # "error"]]
  BY DEF Search!RunTrial, Search!Candidates
<1>2. /\ v7 \in Nat /\ v7 <= Search!TargetTrials /\ Search!TargetTrials \in Nat /\ DOMAIN v6 = 1..Grid
      /\ \A c \in 1..Grid : DOMAIN v6[c] = Search!Fields
  BY SearchTyped, TargetInRange DEF Search!SoundSearch
<1>3. v7' \in Nat /\ v7' <= Search!TargetTrials
  <2>1. v7' = v7 \/ (v7 # Search!TargetTrials /\ v7' = v7 + 1)
    BY <1>1
  <2> QED BY <1>2, <2>1
<1>4. v2' \in {"trial", "select"}
  BY <1>1
<1>5. CASE UNCHANGED <<v6, v9>>
  <2>1. PICK S, o : S = {} /\ o = [c \in S |-> CHOOSE x \in Outcomes : TRUE]
    OBVIOUS
  <2>2. S \in SUBSET (1..Grid) /\ o \in [S -> Outcomes]
    BY <2>1
  <2>3. v9' = v9 \cup {[c |-> c, from |-> Search!From, to |-> Search!Trained, why |-> "train", win |-> v3] : c \in S}
    BY <1>5, <2>1
  <2>4. DOMAIN v6' = 1..Grid /\ \A c \in (1..Grid) \ S : v6'[c] = v6[c]
    BY <1>2, <1>5
  <2> QED BY <1>1, <1>3, <1>4, <2>1, <2>2, <2>3, <2>4, FullRunsKeep
<1>6. ASSUME NEW x \in 1..Grid, Search!Logged(<<x>>, Search!From, Search!Trained, "train"), NEW p \in Outcomes,
             v6' = [v6 EXCEPT ![x] = [@ EXCEPT !.res = p, !.full = p.kind # "error"]]
      PROVE  Search!SoundSearch'
  <2>1. PICK S, o : S = {x} /\ o = [c \in S |-> p]
    OBVIOUS
  <2>2. S \in SUBSET (1..Grid) /\ o \in [S -> Outcomes]
    BY <2>1
  <2>3. v9' = v9 \cup {[c |-> c, from |-> Search!From, to |-> Search!Trained, why |-> "train", win |-> v3] : c \in S}
    <3>1. Search!ToSet(<<x>>) = S
      BY <2>1, ToSetDef
    <3> QED BY <1>6, <3>1 DEF Search!Logged
  <2>4. DOMAIN v6' = 1..Grid /\ \A c \in (1..Grid) \ S : v6'[c] = v6[c]
    BY <1>2, <1>6, <2>1
  <2>5. ~v6[x].pruned
    BY <1>1 DEF Search!SoundSearch, Search!FullIsTrained, Search!Candidates
  <2>6. DOMAIN v6'[x] = Search!Fields /\ v6'[x].res = p /\ v6'[x].pruned = v6[x].pruned
    <3>1. v6'[x] = [v6[x] EXCEPT !.res = p, !.full = p.kind # "error"]
      BY <1>2, <1>6
    <3>2. DOMAIN v6[x] = Search!Fields
      BY <1>2
    <3> QED BY <3>1, <3>2 DEF Search!Fields
  <2>7. \A c \in S : /\ DOMAIN v6'[c] = Search!Fields /\ v6'[c].res = o[c]
                     /\ v6'[c].pruned = v6[c].pruned /\ ~v6[c].pruned
    BY <2>1, <2>5, <2>6
  <2> QED BY <1>1, <1>3, <1>4, <2>2, <2>3, <2>4, <2>7, FullRunsKeep, ZenonT(60)
<1> QED BY <1>1, <1>5, <1>6

\* The candidate selected passed over all training days, and none that did so too beats it.
LEMMA SearchSelect == ASSUME Search!SoundSearch, Search!Select PROVE Search!SoundSearch'
<1> DEFINE marked == [c \in 1..Grid |-> Search!mark_training_selection(v6[c])]
           C == {c \in 1..Grid : marked[c].eligible}
           all == [i \in 1..Grid |-> i]
           order == Search!Ranked(all, C, marked)
           entry(a, b, why) == [c |-> Head(order), from |-> a, to |-> b, why |-> why, win |-> v3]
<1>1. /\ UNCHANGED <<v1, v3, v4, v5, v7>> /\ v2 = "select" /\ v2' \in {"test", "done"} /\ v6' = marked
      /\ v8' = IF order = <<>> THEN 0 ELSE Head(order)
  BY DEF Search!Select, Search!Candidates, Search!AllCandidates
<1>2. \/ v9' = v9
      \/ /\ Search!HasSplit(v1, Search!From, Search!To)
         /\ v9' = v9 \cup {entry(Search!HoldoutFrom(v1, Search!From, Search!To), Search!To, "holdout"),
                           entry(Search!From, Search!To, "period")}
  BY DEF Search!Select, Search!Candidates, Search!AllCandidates
<1>3. /\ \A c \in 1..Grid : DOMAIN v6[c] = Search!Fields /\ v6[c].res.value \in Int
      /\ \A c \in 1..Grid : v6[c].res \in Search!OutcomeType \cup {Search!NotRun}
      /\ Grid \in Nat
  BY SearchTyped DEF Search!SoundSearch, Search!Candidates
<1>4. ASSUME NEW c \in 1..Grid
      PROVE  /\ DOMAIN marked[c] = Search!Fields /\ marked[c].res = v6[c].res /\ marked[c].full = v6[c].full
             /\ marked[c].eligible = Search!Selectable(v6[c])
  <2>1. DOMAIN v6[c] = Search!Fields
    BY <1>3
  <2>2. marked[c] = Search!mark_training_selection(v6[c])
    OBVIOUS
  <2> HIDE DEF marked
  <2> QED BY <2>1, <2>2 DEF Search!mark_training_selection, Search!Fields
<1>5. C = {c \in 1..Grid : Search!Selectable(v6[c])}
  BY <1>4
<1>6. IsFiniteSet(C) /\ C \subseteq Search!ToSet(all) /\ DOMAIN all \subseteq Int
  <2>1. C \in SUBSET (1..Grid) /\ IsFiniteSet(1..Grid)
    BY <1>3, FS_Interval
  <2>2. IsFiniteSet(C)
    BY <2>1, FS_Subset
  <2>3. {all[i] : i \in DOMAIN all} = 1..Grid /\ DOMAIN all \subseteq Int
    BY <1>3
  <2> QED BY <2>1, <2>2, <2>3, ToSetDef
<1>7. \A c \in C : marked[c].res.value \in Int
  BY <1>3, <1>4
<1>8. PICK n, s, M, D, q : n = Cardinality(C) /\ s = order /\ M = marked /\ D = C /\ q = all
  OBVIOUS
<1>9. n \in Nat /\ s \in [1..n -> D] /\ (D # {} => n >= 1 /\ \A c \in D : M[s[1]].res.value >= M[c].res.value)
  <2> HIDE DEF marked, C, all
  <2> QED BY <1>6, <1>7, <1>8, RankedIsOrdered
<1>10. v8' = 0 \/ (v8' \in D /\ \A c \in D : M[v8'].res.value >= M[c].res.value)
  <2>1. v8' = IF s = <<>> THEN 0 ELSE Head(s)
    BY <1>1, <1>8
  <2>2. CASE D = {}
    <3>1. n = 0
      BY <1>8, <2>2, FS_EmptySet
    <3> QED BY <1>9, <2>1, <3>1
  <2>3. CASE D # {}
    <3>1. s # <<>> /\ Head(s) = s[1] /\ s[1] \in D
      BY <1>9, <2>3
    <3> QED BY <1>9, <2>1, <2>3, <3>1
  <2> QED BY <2>2, <2>3
<1>11. /\ v6' = M /\ DOMAIN M = 1..Grid /\ D = {c \in 1..Grid : Search!Selectable(v6[c])}
       /\ \A c \in 1..Grid : /\ DOMAIN M[c] = Search!Fields /\ M[c].res = v6[c].res /\ M[c].full = v6[c].full
  BY <1>1, <1>4, <1>5, <1>8
<1>12. \A r \in v9' : Search!RunIsInPlace(r)'
  <2>1. PICK h, a, b : h = Search!HoldoutFrom(v1, Search!From, Search!To) /\ a = Search!From /\ b = Search!To
    OBVIOUS
  <2>2. PICK E : E = IF Search!HasSplit(v1, a, b) THEN {entry(h, b, "holdout"), entry(a, b, "period")} ELSE {}
    OBVIOUS
  <2>3. b \in Int /\ v3 \in 1..v3
    BY <2>1, SearchFacts, WindowDays DEF Search!To
  <2>4. \A e \in E : Search!RunIsInPlace(e)
    <3> PICK z : z = Head(order)
      OBVIOUS
    <3>1. CASE Search!HasSplit(v1, a, b)
      <4>1. Search!RunIsInPlace([c |-> z, from |-> h, to |-> b, why |-> "holdout", win |-> v3])
        BY <2>1, <2>3, <3>1 DEF Search!RunIsInPlace, Search!From, Search!To
      <4>2. Search!RunIsInPlace([c |-> z, from |-> a, to |-> b, why |-> "period", win |-> v3])
        BY <2>1, <2>3 DEF Search!RunIsInPlace, Search!From, Search!To
      <4> QED BY <2>2, <3>1, <4>1, <4>2
    <3>2. CASE ~Search!HasSplit(v1, a, b)
      BY <2>2, <3>2
    <3> QED BY <3>1, <3>2
  <2>5. v9' \subseteq v9 \cup E
    BY <1>2, <2>1, <2>2
  <2>6. UNCHANGED <<v1, v3>>
    BY <1>1
  <2> QED BY <2>4, <2>5, <2>6, LogStaysInPlace
<1> HIDE DEF marked, C, all, order
<1>13. Search!FullIsTrained /\ Search!TypeOK /\ v7 <= Search!TargetTrials
  BY DEF Search!SoundSearch
<1>14. \A c \in 1..Grid : v6[c].full => ~v6[c].pruned /\ Search!FullyTrained(c)
  BY <1>1, <1>13 DEF Search!FullIsTrained, Search!Candidates
<1>15. v9 \subseteq v9'
  BY <1>2
<1>16. \A c \in 1..Grid : M[c].full => Search!FullyTrained(c)'
  <2> SUFFICES ASSUME NEW c \in 1..Grid, M[c].full PROVE Search!FullyTrained(c)'
    OBVIOUS
  <2>1. Search!FullyTrained(c)
    BY <1>11, <1>14
  <2> QED BY <1>1, <1>15, <2>1, WindowStays DEF Search!FullyTrained
<1>17. Search!FullIsTrained'
  BY <1>1, <1>11, <1>16 DEF Search!FullIsTrained, Search!Candidates
<1>18. \A c \in 1..Grid : c \in D <=> Search!Passed(c)' /\ M[c].full
  <2> SUFFICES ASSUME NEW c \in 1..Grid PROVE c \in D <=> Search!Passed(c)' /\ M[c].full
    OBVIOUS
  <2>1. Search!Passed(c)' <=> v6[c].res.kind = "ok" /\ Search!is_stage_eligible(v6[c].res, 100)
    <3>1. v6'[c].res = v6[c].res
      BY <1>11
    <3> QED BY <1>1, <3>1, WindowStays DEF Search!Passed
  <2>2. c \in D <=> /\ v6[c].res.kind = "ok" /\ ~v6[c].pruned /\ v6[c].full
                    /\ Search!is_stage_eligible(v6[c].res, 100)
    BY <1>11 DEF Search!Selectable, Search!Usable
  <2> QED BY <1>11, <1>14, <2>1, <2>2
<1>19. D \subseteq 1..Grid
  BY <1>11
<1>20. Search!BestIsBest'
  <2>1. v2' = "test" => v1'.forward
    BY DEF Search!Select
  <2> QED BY <1>10, <1>11, <1>18, <1>19, <2>1 DEF Search!BestIsBest, Search!Candidates
<1>21. Search!TypeOK'
  <2>1. v8' \in 0..Grid
    <3>1. 0 \in 0..Grid /\ \A c \in 1..Grid : c \in 0..Grid
      BY <1>3
    <3> QED BY <1>10, <1>19, <3>1
  <2> QED BY <1>1, <1>11, <1>13, <2>1 DEF Search!TypeOK, Search!Candidates
<1>22. Search!WindowsFit'
  BY <1>1, FitStays
<1>23. v5' \in Seq(1..Grid) /\ v7' <= Search!TargetTrials'
  BY <1>1, <1>13, SearchTyped DEF Search!TargetTrials
<1>24. \A c \in 1..Grid : DOMAIN v6'[c] = Search!Fields /\ v6'[c].res \in Search!OutcomeType \cup {Search!NotRun}
  BY <1>3, <1>11
<1> QED BY <1>1, <1>12, <1>17, <1>20, <1>21, <1>22, <1>23, <1>24 DEF Search!SoundSearch, Search!Candidates

LEMMA SearchTest == ASSUME Search!SoundSearch, Search!Test PROVE Search!SoundSearch'
<1>1. /\ UNCHANGED <<v1, v4, v5, v6, v7, v8>> /\ v2 = "test"
      /\ \/ v2' = "sweep" /\ v3' = v3 + 1 /\ Search!WindowFits(v1, v3 + 1)
         \/ v2' = "done" /\ v3' = v3
  BY DEF Search!Test
<1> PICK w : w = Search!WindowOf(v1, v3)
  OBVIOUS
<1>2. PICK T : v9' = v9 \cup {[c |-> c, from |-> w.testFrom, to |-> w.testTo, why |-> "test", win |-> v3] : c \in T}
  <2>1. v9' = v9 \cup {[c |-> c, from |-> w.testFrom, to |-> w.testTo, why |-> "test", win |-> v3] :
                          c \in Search!ToSet(IF v8 = 0 THEN <<>> ELSE <<v8>>)}
    BY DEF Search!Test, Search!Logged
  <2> QED BY <2>1
<1>3. v1 \in Searches /\ v3 \in Nat /\ v3 >= 1 /\ v1.days \in Nat
  BY SearchFacts, SearchRequest
<1>4. /\ v1.forward /\ \A k \in 1..v3 : Search!WindowFits(v1, k)
  BY <1>1 DEF Search!SoundSearch, Search!WindowsFit, Search!BestIsBest
<1>5. w.testTo \in Int /\ v3 \in 1..v3
  BY <1>3, WindowDays
<1>6. \A r \in v9' : Search!RunIsInPlace(r)'
  <2>1. PICK E : E = {[c |-> c, from |-> w.testFrom, to |-> w.testTo, why |-> "test", win |-> v3] : c \in T}
    OBVIOUS
  <2>2. ASSUME NEW c PROVE Search!RunIsInPlace([c |-> c, from |-> w.testFrom, to |-> w.testTo, why |-> "test", win |-> v3])
    BY <1>4, <1>5 DEF Search!RunIsInPlace
  <2>3. \A e \in E : Search!RunIsInPlace(e)
    BY <2>1, <2>2
  <2>4. v9' \subseteq v9 \cup E
    BY <1>2, <2>1
  <2>5. UNCHANGED v1 /\ (v3' = v3 \/ v3' = v3 + 1)
    BY <1>1
  <2> QED BY <2>3, <2>4, <2>5, LogStaysInPlace
<1>7. v3' \in 1..v1'.days
  <2>1. CASE v3' = v3
    BY <1>1, <2>1 DEF Search!SoundSearch, Search!TypeOK
  <2>2. CASE v3' = v3 + 1 /\ Search!WindowFits(v1, v3 + 1)
    <3>1. v3 + 1 <= v1.days
      BY <1>3, <2>2, WindowDays
    <3> QED BY <1>1, <1>3, <2>2, <3>1
  <2> QED BY <1>1, <2>1, <2>2
<1>8. Search!TypeOK'
  BY <1>1, <1>7 DEF Search!SoundSearch, Search!TypeOK
<1>9. Search!WindowsFit'
  <2>1. \A k \in 1..v3' : Search!WindowFits(v1, k)
    <3> SUFFICES ASSUME NEW k \in 1..v3' PROVE Search!WindowFits(v1, k)
      OBVIOUS
    <3>1. k \in 1..v3 \/ (k = v3 + 1 /\ Search!WindowFits(v1, v3 + 1))
      BY <1>1, <1>3
    <3> QED BY <1>4, <3>1
  <2> QED BY <1>1, <2>1 DEF Search!WindowsFit
<1>10. CASE v2' = "sweep"
  <2>1. Search!FullIsTrained' /\ Search!BestIsBest'
    BY <1>10 DEF Search!FullIsTrained, Search!BestIsBest
  <2> QED BY <1>1, <1>6, <1>8, <1>9, <1>10, <2>1 DEF Search!SoundSearch, Search!TargetTrials
<1>11. CASE v2' = "done" /\ v3' = v3
  <2>1. Search!FullIsTrained'
    <3> SUFFICES ASSUME NEW c \in 1..Grid, v6'[c].full PROVE Search!FullyTrained(c)'
      BY <1>11 DEF Search!FullIsTrained, Search!Candidates
    <3>1. Search!FullyTrained(c)
      BY <1>1 DEF Search!SoundSearch, Search!FullIsTrained, Search!Candidates
    <3> QED BY <1>1, <1>2, <1>11, <3>1, WindowStays DEF Search!FullyTrained
  <2>2. \A c : Search!Passed(c)' <=> Search!Passed(c)
    BY <1>1, <1>11, WindowStays DEF Search!Passed
  <2>3. Search!BestIsBest
    BY DEF Search!SoundSearch
  <2>4. Search!BestIsBest'
    BY <1>1, <1>11, <2>2, <2>3 DEF Search!BestIsBest
  <2> QED BY <1>1, <1>6, <1>8, <1>9, <1>11, <2>1, <2>4 DEF Search!SoundSearch, Search!TargetTrials
<1> QED BY <1>1, <1>10, <1>11

LEMMA SearchRests ==
    ASSUME Search!SoundSearch, UNCHANGED <<v1, v2, v3, v4, v5, v6, v7, v8, v9>>
    PROVE  Search!SoundSearch'
<1>1. \A r \in v9' : Search!RunIsInPlace(r)'
  <2> PICK E : E = {}
    OBVIOUS
  <2>1. v9' \subseteq v9 \cup E /\ \A e \in E : Search!RunIsInPlace(e)
    OBVIOUS
  <2> QED BY <2>1, LogStaysInPlace
<1>2. Search!TypeOK' /\ Search!WindowsFit'
  BY DEF Search!SoundSearch, Search!TypeOK, Search!WindowsFit
<1>3. \A c : (Search!Passed(c)' <=> Search!Passed(c)) /\ (Search!FullyTrained(c)' <=> Search!FullyTrained(c))
  BY WindowStays DEF Search!Passed, Search!FullyTrained
<1>4. Search!FullIsTrained' /\ Search!BestIsBest'
  BY <1>3 DEF Search!SoundSearch, Search!FullIsTrained, Search!BestIsBest
<1>5. v2' = "stage" => v4' \in DOMAIN Search!build_successive_halving_stages'
  BY WindowStays DEF Search!SoundSearch
<1> QED BY <1>1, <1>2, <1>4, <1>5 DEF Search!SoundSearch, Search!TargetTrials

LEMMA SearchKeeps == Spec => [](part = "Search" => Search!SoundSearch)
<1> DEFINE Inv == part = "Search" => Search!SoundSearch
<1>1. Init => Inv
  BY SearchStart DEF Init
<1>2. ASSUME Inv, Next, part' = "Search" PROVE Search!SoundSearch'
  <2>1. part = "Search" /\ Search!Next
    BY <1>2 DEF Next
  <2> QED BY <1>2, <2>1, SearchSubmit, SearchBegin, SearchStage, SearchFull, SearchTrial, SearchSelect, SearchTest
          DEF Search!Next
<1>3. ASSUME Inv, UNCHANGED pool PROVE Inv'
  <2>1. part' = part /\ UNCHANGED <<v1, v2, v3, v4, v5, v6, v7, v8, v9>>
    BY <1>3 DEF pool, Rest4, Rest5, Rest6, Rest7, Rest8, Rest9, Rest10
  <2> QED BY <1>3, <2>1, SearchRests
<1>4. Inv /\ [Next]_pool => Inv'
  BY <1>2, <1>3
<1> QED BY <1>1, <1>4, PTL DEF Spec

\* Any requests, parameter grids, outcomes and bounds: no search looks at the days it is judged
\* by, what it selects is a best candidate that passed over all training days, and no stage
\* drops the best one that passed it.
THEOREM SearchStaysFair == Spec => SearchIsFair
<1> DEFINE Inv == part = "Search" => Search!SoundSearch
           Fair == part = "Search" => Search!NoLookahead /\ Search!SelectionIsSound
           Act == part = "Search" => Search!HalvingKeepsTheBest
<1>1. Spec => []Inv
  BY SearchKeeps
<1>2. ASSUME Inv, Next, part = "Search" PROVE Search!HalvingKeepsTheBest
  <2>1. Search!Next
    BY <1>2 DEF Next
  <2>2. CASE Search!RunStage
    BY <1>2, <2>2, HalvingIsFair
  <2>3. CASE ~Search!RunStage
    <3>1. v2 # "stage"
      BY <2>1, <2>3 DEF Search!Next, Search!Submit, Search!BeginSweep, Search!RunFull, Search!RunTrial,
                        Search!Select, Search!Test
    <3> QED BY <3>1 DEF Search!HalvingKeepsTheBest
  <2> QED BY <2>2, <2>3
<1>3. Inv /\ [Next]_pool => [Act]_pool
  BY <1>2
<1>4. ASSUME Search!SoundSearch PROVE Search!SelectionIsSound
  <2>1. /\ Search!FullIsTrained /\ Search!BestIsBest /\ v8 \in 0..Grid
    BY <1>4 DEF Search!SoundSearch, Search!TypeOK
  <2>2. Grid \in Nat
    BY SearchAssumption
  <2>3. v8 # 0 => v8 \in 1..Grid
    BY <2>1, <2>2
  <2> QED BY <2>1, <2>3 DEF Search!FullIsTrained, Search!BestIsBest, Search!SelectionIsSound, Search!Candidates
<1>5. Inv => Fair
  BY <1>4, PlacesDoNotLookAhead
<1> QED BY <1>1, <1>3, <1>5, PTL DEF Spec, SearchIsFair
-----------------------------------------------------------------------------
(* The types of the parts.                                                  *)

\* A bounded set of naturals has a greatest member.
LEMMA GreatestNatural ==
    ASSUME NEW T \in SUBSET Nat, T # {}, NEW b \in Nat, \A n \in T : n <= b
    PROVE  \E m \in T : \A n \in T : m >= n
<1> DEFINE D == {b - n : n \in T}
<1>1. D \in SUBSET Nat /\ D # {}
  <2>1. \A n \in T : b - n \in Nat
    OBVIOUS
  <2> QED BY <2>1
<1>2. PICK t \in D : \A u \in D : t <= u
  BY <1>1, LeastNatural
<1>3. PICK m \in T : t = b - m
  OBVIOUS
<1>4. \A n \in T : b - m <= b - n
  BY <1>2, <1>3
<1> HIDE DEF D
<1>5. \A n \in T : m >= n
  BY <1>4
<1> QED BY <1>5

RevisionType == [number: 1..MaxRows, frozen: BOOLEAN, deleted: BOOLEAN, members: Seq(Strategies),
                 hash: Seq(Strategies)]
AdderType    == [at: {"idle", "max", "insert", "lock", "done", "refused"}, strategy: Strategies,
                 row: 0..MaxRows, number: 0..MaxRows + 1]
SnapshotType == [at: {"idle", "write", "done", "refused"}, row: 0..MaxRows, hash: Seq(Strategies)]

LEMMA ReviseTypes ==
    /\ Revise!TypeOK <=> /\ v1 \in Seq(RevisionType) /\ Len(v1) <= MaxRows
                         /\ v2 \in [Adders -> AdderType] /\ v3 \in [Snapshots -> SnapshotType]
                         /\ v4 \in 0..MaxRows
    /\ Revise!TypeOK' <=> /\ v1' \in Seq(RevisionType) /\ Len(v1') <= MaxRows
                          /\ v2' \in [Adders -> AdderType] /\ v3' \in [Snapshots -> SnapshotType]
                          /\ v4' \in 0..MaxRows
  BY DEF Revise!TypeOK, Revise!Rows, RevisionType, AdderType, SnapshotType

\* The number read is one more than a present row's.
LEMMA NumberRead ==
    ASSUME Revise!TypeOK, Revise!NumbersFollowRows
    PROVE  Revise!MaxNumber \in 0..Len(v1)
<1>1. v1 \in Seq(RevisionType) /\ \A i \in DOMAIN v1 : v1[i].number <= i
  BY ReviseTypes DEF Revise!NumbersFollowRows
<1>2. Len(v1) \in Nat /\ DOMAIN v1 = 1..Len(v1)
  BY <1>1
<1>3. \A i \in DOMAIN v1 : v1[i].number \in 1..Len(v1)
  <2> SUFFICES ASSUME NEW i \in DOMAIN v1 PROVE v1[i].number \in 1..Len(v1)
    OBVIOUS
  <2>1. v1[i] \in RevisionType /\ i \in 1..Len(v1)
    BY <1>1, <1>2
  <2>2. v1[i].number \in Nat /\ v1[i].number >= 1
    BY <2>1, RowsAssumption DEF RevisionType
  <2> QED BY <1>1, <1>2, <2>1, <2>2
<1>4. PICK T : T = {Revise!Row(i).number : i \in Revise!Present}
  OBVIOUS
<1>5. T \subseteq 1..Len(v1)
  BY <1>3, <1>4 DEF Revise!Row, Revise!Present
<1>6. Revise!MaxNumber = IF T = {} THEN 0 ELSE Revise!Max(T)
  BY <1>4 DEF Revise!MaxNumber
<1>7. ASSUME T # {} PROVE Revise!Max(T) \in T
  <2>1. T \in SUBSET Nat /\ \A n \in T : n <= Len(v1)
    BY <1>2, <1>5
  <2>2. \E m \in T : \A n \in T : m >= n
    BY <1>2, <1>7, <2>1, GreatestNatural
  <2> QED BY <2>2 DEF Revise!Max
<1> QED BY <1>2, <1>5, <1>6, <1>7

\* One row changes, but not its number.
LEMMA RowTyped ==
    ASSUME Revise!TypeOK, Revise!NumbersFollowRows, NEW d \in DOMAIN v1, NEW r \in RevisionType,
           v1' = [v1 EXCEPT ![d] = r], r.number = v1[d].number
    PROVE  /\ v1' \in Seq(RevisionType) /\ Len(v1') = Len(v1)
           /\ \A i \in DOMAIN v1' : v1'[i].number <= i
<1>1. v1 \in Seq(RevisionType) /\ \A i \in DOMAIN v1 : v1[i].number <= i
  BY ReviseTypes DEF Revise!NumbersFollowRows
<1>2. v1' \in Seq(RevisionType) /\ Len(v1') = Len(v1) /\ DOMAIN v1' = DOMAIN v1
  <2>1. PICK n \in Nat : v1 \in [1..n -> RevisionType]
    BY <1>1, SeqIsUnion
  <2>2. v1' \in [1..n -> RevisionType]
    BY <2>1
  <2>3. v1' \in Seq(RevisionType)
    BY <2>2, SeqIsUnion, ZenonT(60)
  <2>4. n = Len(v1) /\ n = Len(v1')
    BY <1>1, <2>1, <2>2, <2>3
  <2> QED BY <2>1, <2>2, <2>3, <2>4
<1>3. \A i \in DOMAIN v1 : v1'[i].number = v1[i].number
  BY <1>1
<1> QED BY <1>1, <1>2, <1>3

\* The invariant over a step that leaves adders and rows alone, ...
LEMMA NumbersStay ==
    ASSUME Revise!NumbersFollowRows, Len(v1') = Len(v1), \A i \in DOMAIN v1' : v1'[i].number <= i,
           v2 \in [Adders -> AdderType],
           NEW a, \/ v2' = v2
                  \/ \E at \in {"idle", "max", "lock", "done", "refused"} : v2' = [v2 EXCEPT ![a].at = at]
    PROVE  Revise!NumbersFollowRows'
<1>1. \A b \in Adders : v2[b] \in AdderType /\ v2'[b].number = v2[b].number /\ (v2'[b].at = "insert" => v2[b].at = "insert")
  BY DEF AdderType
<1> QED BY <1>1 DEF Revise!NumbersFollowRows

LEMMA ReviseKeepsTypes ==
    ASSUME Revise!SoundRevisions, Revise!TypeOK, Revise!NumbersFollowRows, [Revise!Next]_(Revise!vars)
    PROVE  Revise!TypeOK' /\ Revise!NumbersFollowRows'
<1>1. /\ v1 \in Seq(RevisionType) /\ Len(v1) \in Nat /\ Len(v1) <= MaxRows /\ v4 \in 0..MaxRows
      /\ v2 \in [Adders -> AdderType] /\ v3 \in [Snapshots -> SnapshotType] /\ MaxRows \in Nat
      /\ DOMAIN v1 = 1..Len(v1) /\ \A i \in DOMAIN v1 : v1[i].number <= i
      /\ \A a \in Adders : v2[a].at = "insert" => v2[a].number \in 1 .. Len(v1) + 1
  BY ReviseTypes, RowsAssumption DEF Revise!NumbersFollowRows
<1>2. \A d \in Revise!get_current_draft : d \in DOMAIN v1 /\ d \in 0..MaxRows
  BY <1>1 DEF Revise!get_current_draft, Revise!Present
<1>3. ASSUME NEW a \in Adders, NEW at \in {"idle", "max", "lock", "done", "refused"},
             v2' = [v2 EXCEPT ![a].at = at], v1' = v1, v3' = v3, v4' = v4
      PROVE  Revise!TypeOK' /\ Revise!NumbersFollowRows'
  <2>1. v2' \in [Adders -> AdderType]
    BY <1>1, <1>3 DEF AdderType
  <2> QED BY <1>1, <1>3, <2>1, ReviseTypes, NumbersStay
<1>4. CASE UNCHANGED Revise!vars
  BY <1>4 DEF Revise!vars, Revise!TypeOK, Revise!NumbersFollowRows
<1>5. ASSUME NEW a \in Adders, Revise!ReadDraft(a) PROVE Revise!TypeOK' /\ Revise!NumbersFollowRows'
  <2>1. v1' = v1 /\ v3' = v3 /\ v4' = v4
    BY <1>5 DEF Revise!ReadDraft
  <2>2. \/ \E at \in {"refused", "max"} : v2' = [v2 EXCEPT ![a].at = at]
        \/ \E d \in Revise!get_current_draft : v2' = [v2 EXCEPT ![a].at = "lock", ![a].row = d]
    BY <1>5 DEF Revise!ReadDraft, Revise!AdderAt
  <2>3. ASSUME NEW d \in Revise!get_current_draft, v2' = [v2 EXCEPT ![a].at = "lock", ![a].row = d]
        PROVE  Revise!TypeOK' /\ Revise!NumbersFollowRows'
    <3>1. v2' \in [Adders -> AdderType]
      BY <1>1, <1>2, <2>3 DEF AdderType
    <3>2. \A b \in Adders : v2'[b].number = v2[b].number /\ (v2'[b].at = "insert" => v2[b].at = "insert")
      BY <1>1, <2>3 DEF AdderType
    <3> QED BY <1>1, <2>1, <3>1, <3>2, ReviseTypes DEF Revise!NumbersFollowRows
  <2> QED BY <1>3, <2>1, <2>2, <2>3
<1>6. ASSUME NEW a \in Adders, Revise!ReadMaxNumber(a) PROVE Revise!TypeOK' /\ Revise!NumbersFollowRows'
  <2>1. PICK n \in 1 .. Len(v1) + 1 : n = Revise!MaxNumber + 1
    BY <1>1, NumberRead
  <2>2. v1' = v1 /\ v3' = v3 /\ v4' = v4 /\ v2' = [v2 EXCEPT ![a].at = "insert", ![a].number = n]
    BY <1>6, <2>1 DEF Revise!ReadMaxNumber
  <2>3. n \in 0..MaxRows + 1
    BY <1>1
  <2>4. v2' \in [Adders -> AdderType]
    BY <1>1, <2>2, <2>3 DEF AdderType
  <2>5. \A b \in Adders : v2'[b] = v2[b] \/ v2'[b].number = n
    BY <1>1, <2>2 DEF AdderType
  <2> QED BY <1>1, <2>2, <2>4, <2>5, ReviseTypes DEF Revise!NumbersFollowRows
<1>7. ASSUME NEW a \in Adders, Revise!InsertDraft(a) PROVE Revise!TypeOK' /\ Revise!NumbersFollowRows'
  <2>1. v3' = v3 /\ v4' = v4 /\ v2[a].at = "insert"
    BY <1>7 DEF Revise!InsertDraft
  <2>2. CASE v1' = v1 /\ v2' = [v2 EXCEPT ![a].at = "refused"]
    BY <1>3, <2>1, <2>2
  <2> DEFINE r == [number |-> v2[a].number, frozen |-> FALSE, deleted |-> FALSE,
                   hash |-> Revise!Placeholder, members |-> <<v2[a].strategy>>]
  <2>3. CASE Len(v1) < MaxRows /\ v1' = Append(v1, r) /\ v2' = [v2 EXCEPT ![a].at = "done"]
    <3>1. v2[a].number \in 1 .. Len(v1) + 1 /\ v2[a].strategy \in Strategies
      BY <1>1, <2>1 DEF AdderType
    <3>2. v2[a].number \in 1..MaxRows
      BY <1>1, <2>3, <3>1
    <3>3. r \in RevisionType /\ r.number = v2[a].number
      BY <3>1, <3>2 DEF RevisionType, Revise!Placeholder
    <3> HIDE DEF r
    <3>4. v1' \in Seq(RevisionType) /\ Len(v1') = Len(v1) + 1
      BY <1>1, <2>3, <3>3
    <3>5. DOMAIN v1' = 1 .. Len(v1) + 1 /\ (\A i \in DOMAIN v1 : v1'[i] = v1[i]) /\ v1'[Len(v1) + 1] = r
      BY <1>1, <2>3
    <3>6. \A i \in DOMAIN v1' : v1'[i].number <= i
      <4> SUFFICES ASSUME NEW i \in DOMAIN v1' PROVE v1'[i].number <= i
        OBVIOUS
      <4>1. CASE i \in DOMAIN v1
        BY <1>1, <3>5, <4>1
      <4>2. CASE i \notin DOMAIN v1
        <5>1. i = Len(v1) + 1
          BY <1>1, <3>5, <4>2
        <5> QED BY <3>1, <3>3, <3>5, <5>1, <1>1
      <4> QED BY <4>1, <4>2
    <3>7. v2' \in [Adders -> AdderType]
      BY <1>1, <2>3 DEF AdderType
    <3>8. \A b \in Adders : v2'[b].number = v2[b].number /\ (v2'[b].at = "insert" => v2[b].at = "insert")
      BY <1>1, <2>3 DEF AdderType
    <3>9. \A b \in Adders : v2'[b].at = "insert" => v2'[b].number \in 1 .. Len(v1') + 1
      BY <1>1, <3>4, <3>8
    <3>10. Len(v1') <= MaxRows
      BY <1>1, <2>3, <3>4
    <3> QED BY <1>1, <2>1, <3>4, <3>6, <3>7, <3>9, <3>10, ReviseTypes DEF Revise!NumbersFollowRows
  <2> QED BY <1>7, <2>2, <2>3 DEF Revise!InsertDraft, Revise!AdderAt
<1>8. ASSUME NEW a \in Adders, Revise!AddMember(a) PROVE Revise!TypeOK' /\ Revise!NumbersFollowRows'
  <2>1. v3' = v3 /\ v4' = v4
    BY <1>8 DEF Revise!AddMember
  <2>2. CASE v1' = v1 /\ v2' = [v2 EXCEPT ![a].at = "refused"]
    BY <1>3, <2>1, <2>2
  <2>3. CASE /\ v2[a].row \in Revise!Present /\ v2' = [v2 EXCEPT ![a].at = "done"]
             /\ v1' = [v1 EXCEPT ![v2[a].row].members = Append(@, v2[a].strategy)]
    <3>1. PICK d \in DOMAIN v1 : d = v2[a].row
      BY <2>3 DEF Revise!Present
    <3> DEFINE r == [v1[d] EXCEPT !.members = Append(@, v2[a].strategy)]
    <3>2. v1[d] \in RevisionType /\ v2[a].strategy \in Strategies
      BY <1>1 DEF AdderType
    <3>3. r \in RevisionType /\ r.number = v1[d].number
      BY <3>2, SMTT(30) DEF RevisionType
    <3>4. v1' = [v1 EXCEPT ![d] = r]
      BY <2>3, <3>1
    <3> HIDE DEF r
    <3>5. v1' \in Seq(RevisionType) /\ Len(v1') = Len(v1) /\ \A i \in DOMAIN v1' : v1'[i].number <= i
      BY <3>3, <3>4, RowTyped
    <3>6. v2' \in [Adders -> AdderType]
      BY <1>1, <2>3 DEF AdderType
    <3>7. Revise!NumbersFollowRows'
      <4>1. \E at \in {"idle", "max", "lock", "done", "refused"} : v2' = [v2 EXCEPT ![a].at = at]
        BY <2>3
      <4> QED BY <1>1, <3>5, <4>1, NumbersStay
    <3> QED BY <1>1, <2>1, <3>5, <3>6, <3>7, ReviseTypes
  <2> QED BY <1>8, <2>2, <2>3 DEF Revise!AddMember, Revise!AdderAt, Revise!LockedIsMutable
<1>9. ASSUME NEW s \in Snapshots, Revise!SnapshotLocks(s) PROVE Revise!TypeOK' /\ Revise!NumbersFollowRows'
  <2>1. v1' = v1 /\ v2' = v2
    BY <1>9 DEF Revise!SnapshotLocks
  <2>2. \/ v3' = [v3 EXCEPT ![s].at = "refused"] /\ v4' = v4
        \/ \E d \in Revise!get_current_draft :
             /\ v3' = [v3 EXCEPT ![s] = [at |-> "write", row |-> d, hash |-> v1[d].members]]
             /\ v4' = d
    BY <1>9 DEF Revise!SnapshotLocks, Revise!_lock_draft_revision, Revise!Row, Revise!compute_composition_hash
  <2>3. CASE v3' = [v3 EXCEPT ![s].at = "refused"] /\ v4' = v4
    <3>1. v3' \in [Snapshots -> SnapshotType]
      BY <1>1, <2>3 DEF SnapshotType
    <3> QED BY <1>1, <2>1, <2>3, <3>1, ReviseTypes DEF Revise!NumbersFollowRows
  <2>4. ASSUME NEW d \in Revise!get_current_draft, v4' = d,
               v3' = [v3 EXCEPT ![s] = [at |-> "write", row |-> d, hash |-> v1[d].members]]
        PROVE  Revise!TypeOK' /\ Revise!NumbersFollowRows'
    <3>1. v1[d] \in RevisionType
      BY <1>1, <1>2
    <3>2. [at |-> "write", row |-> d, hash |-> v1[d].members] \in SnapshotType
      BY <1>2, <3>1 DEF RevisionType, SnapshotType
    <3>3. v3' \in [Snapshots -> SnapshotType]
      BY <1>1, <2>4, <3>2
    <3> QED BY <1>1, <1>2, <2>1, <2>4, <3>3, ReviseTypes DEF Revise!NumbersFollowRows
  <2> QED BY <2>2, <2>3, <2>4
<1>10. ASSUME NEW s \in Snapshots, Revise!SnapshotWrites(s) PROVE Revise!TypeOK' /\ Revise!NumbersFollowRows'
  <2>1. v3' = [v3 EXCEPT ![s].at = "done"] /\ v4' = 0 /\ v2' = v2 /\ v3[s].at = "write"
    BY <1>10 DEF Revise!SnapshotWrites
  <2>2. PICK d, h : d = v3[s].row /\ h = v3[s].hash
    OBVIOUS
  <2>3. h \in Seq(Strategies) /\ d \in DOMAIN v1
    BY <1>1, <1>2, <2>1, <2>2 DEF SnapshotType, Revise!SoundRevisions, Revise!WriterHoldsDraft
  <2>4. v1[d] \in RevisionType
    BY <1>1, <2>3
  <2>5. PICK r \in RevisionType : r.number = v1[d].number /\ v1' = [v1 EXCEPT ![d] = r]
    <3>1. \/ v1' = [v1 EXCEPT ![d].deleted = TRUE]
          \/ v1' = [v1 EXCEPT ![d].frozen = TRUE, ![d].hash = h]
      BY <1>10, <2>2 DEF Revise!SnapshotWrites
    <3>2. CASE v1' = [v1 EXCEPT ![d].deleted = TRUE]
      <4> DEFINE r == [v1[d] EXCEPT !.deleted = TRUE]
      <4>1. r \in RevisionType /\ r.number = v1[d].number
        BY <2>4 DEF RevisionType
      <4>2. v1' = [v1 EXCEPT ![d] = r]
        BY <3>2
      <4> QED BY <4>1, <4>2
    <3>3. CASE v1' = [v1 EXCEPT ![d].frozen = TRUE, ![d].hash = h]
      <4> DEFINE r == [v1[d] EXCEPT !.frozen = TRUE, !.hash = h]
      <4>1. r \in RevisionType /\ r.number = v1[d].number
        BY <2>3, <2>4 DEF RevisionType
      <4>2. v1' = [v1 EXCEPT ![d] = r]
        BY <1>1, <2>3, <3>3
      <4> QED BY <4>1, <4>2
    <3> QED BY <3>1, <3>2, <3>3
  <2>6. v1' \in Seq(RevisionType) /\ Len(v1') = Len(v1) /\ \A i \in DOMAIN v1' : v1'[i].number <= i
    BY <2>3, <2>5, RowTyped
  <2>7. v3' \in [Snapshots -> SnapshotType]
    BY <1>1, <2>1 DEF SnapshotType
  <2>8. Revise!NumbersFollowRows'
    BY <1>1, <2>1, <2>6, NumbersStay
  <2> QED BY <1>1, <2>1, <2>6, <2>7, <2>8, ReviseTypes
<1> QED BY <1>4, <1>5, <1>6, <1>7, <1>8, <1>9, <1>10 DEF Revise!Next

LEMMA ReviseStaysTyped == Spec => [](part = "Revise" => Revise!TypeOK)
<1> DEFINE Inv == part = "Revise" => Revise!SoundRevisions /\ Revise!TypeOK /\ Revise!NumbersFollowRows
           Typed == part = "Revise" => Revise!TypeOK
<1>1. Init => Inv
  <2> SUFFICES ASSUME Revise!Init PROVE Revise!TypeOK /\ Revise!NumbersFollowRows
    BY ReviseInit DEF Init
  <2>1. /\ v1 = <<>> /\ v4 = 0 /\ v3 = [s \in Snapshots |-> [at |-> "idle", row |-> 0, hash |-> <<>>]]
        /\ v2 \in [Adders -> [at: {"idle"}, strategy: Strategies, row: {0}, number: {0}]]
    BY DEF Revise!Init
  <2>2. v2 \in [Adders -> AdderType] /\ \A a \in Adders : v2[a].at = "idle"
    BY <2>1, RowsAssumption DEF AdderType
  <2>3. v3 \in [Snapshots -> SnapshotType]
    BY <2>1, RowsAssumption DEF SnapshotType
  <2>4. v1 \in Seq(RevisionType) /\ Len(v1) = 0 /\ DOMAIN v1 = {}
    BY <2>1
  <2> QED BY <2>1, <2>2, <2>3, <2>4, RowsAssumption, ReviseTypes DEF Revise!NumbersFollowRows
<1>2. Inv /\ [Next]_pool => Inv'
  <2> SUFFICES ASSUME Inv, [Next]_pool, part' = "Revise"
               PROVE  Revise!SoundRevisions' /\ Revise!TypeOK' /\ Revise!NumbersFollowRows'
    OBVIOUS
  <2>1. part = "Revise" /\ [Revise!Next]_(Revise!vars)
    BY DEF Next, pool, Rest4, Rest5, Revise!vars
  <2> QED BY <2>1, ReviseStep, ReviseKeepsTypes
<1>3. Inv => Typed
  OBVIOUS
<1> QED BY <1>1, <1>2, <1>3, PTL DEF Spec

LEMMA PromoteRows ==
    ASSUME Promote!SoundPromotions, Promote!SoundPromotions', Promote!RowsAreBounded, [Promote!Next]_(Promote!vars)
    PROVE  Promote!RowsAreBounded'
<1>1. /\ v1 \in Seq(Promote!CandidateType) /\ v1' \in Seq(Promote!CandidateType)
      /\ v2 \in [Promote!Requests -> Promote!RequestType]
      /\ v4 \in [Clerks -> [at: {"idle", "write", "done"}, row: Nat, to: Promote!Stages]]
  BY DEF Promote!SoundPromotions, Promote!CandidatesAreTyped
<1>2. /\ Len(v1) <= (MaxRows - 1) /\ (MaxRows - 1) \in Nat /\ \A k \in Clerks : v4[k].row <= (MaxRows - 1)
      /\ v3 \subseteq [members: SUBSET Promotable, config: Configs]
  BY RowsAssumption DEF Promote!RowsAreBounded
<1>3. ASSUME DOMAIN v1' = DOMAIN v1 PROVE Len(v1') <= (MaxRows - 1)
  <2>1. Len(v1) \in Nat /\ Len(v1') \in Nat /\ 1..Len(v1') = 1..Len(v1)
    BY <1>1, <1>3
  <2> PICK m \in Nat, n \in Nat : m = Len(v1') /\ n = Len(v1)
    BY <2>1
  <2>2. m = n
    <3>1. m >= 1 => m \in 1..n
      BY <2>1
    <3>2. n >= 1 => n \in 1..m
      BY <2>1
    <3> QED BY <3>1, <3>2
  <2> QED BY <1>2, <2>2
<1>4. ASSUME NEW c, v1' = Append(v1, c), Len(v1) < (MaxRows - 1) PROVE Len(v1') <= (MaxRows - 1)
  <2>1. Len(v1') = Len(v1) + 1 /\ Len(v1) \in Nat
    BY <1>1, <1>4
  <2> QED BY <1>2, <1>4, <2>1
<1>5. CASE UNCHANGED Promote!vars
  BY <1>2, <1>5 DEF Promote!vars, Promote!RowsAreBounded
<1>6. ASSUME NEW r \in Promote!Requests, \/ Promote!Admit(r) \/ Promote!LookUp(r) \/ Promote!InsertCandidate(r) \/ Promote!RereadWinner(r)
                                  \/ Promote!DeadlockVictim(r)
      PROVE  Promote!RowsAreBounded'
  <2>1. v3' = v3 /\ v4' = v4
    BY <1>6 DEF Promote!Admit, Promote!LookUp, Promote!InsertCandidate, Promote!RereadWinner, Promote!DeadlockVictim
  <2>2. \/ DOMAIN v1' = DOMAIN v1
        \/ Len(v1) < (MaxRows - 1) /\ \E c : v1' = Append(v1, c)
    BY <1>6 DEF Promote!Admit, Promote!LookUp, Promote!InsertCandidate, Promote!RereadWinner, Promote!Reread, Promote!DeadlockVictim,
       Promote!Fail, Promote!RolledBack
  <2> QED BY <1>2, <1>3, <1>4, <2>1, <2>2 DEF Promote!RowsAreBounded
<1>7. ASSUME NEW r \in Promote!Requests, Promote!Commit(r) PROVE Promote!RowsAreBounded'
  <2>1. v4' = v4 /\ DOMAIN v1' = DOMAIN v1
    BY <1>7 DEF Promote!Commit
  <2>2. v3' \subseteq v3 \cup {[members |-> Promote!ToSet(v2[r].members), config |-> v2[r].config]}
    BY <1>7 DEF Promote!Commit
  <2>3. v2[r].members \in Seq(Promotable) /\ v2[r].config \in Configs
    BY <1>1 DEF Promote!RequestType
  <2>4. Promote!ToSet(v2[r].members) \subseteq Promotable
    <3>1. PICK s \in Seq(Promotable) : s = v2[r].members
      BY <2>3
    <3>2. \A i \in DOMAIN s : s[i] \in Promotable
      OBVIOUS
    <3> QED BY <3>1, <3>2 DEF Promote!ToSet
  <2>5. [members |-> Promote!ToSet(v2[r].members), config |-> v2[r].config] \in [members: SUBSET Promotable, config: Configs]
    BY <2>3, <2>4
  <2>6. v3' \subseteq [members: SUBSET Promotable, config: Configs]
    BY <1>2, <2>2, <2>5
  <2> QED BY <1>2, <1>3, <2>1, <2>6 DEF Promote!RowsAreBounded
<1>8. ASSUME NEW k \in Clerks, Promote!ReadStage(k) PROVE Promote!RowsAreBounded'
  <2>1. PICK i \in DOMAIN v1 : \E s : v4' = [v4 EXCEPT ![k] = [at |-> "write", row |-> i, to |-> s]]
    BY <1>8 DEF Promote!ReadStage
  <2>2. i \in Nat /\ i <= (MaxRows - 1)
    BY <1>1, <1>2
  <2>3. v1' = v1 /\ v3' = v3
    BY <1>8 DEF Promote!ReadStage
  <2>4. \A q \in Clerks : v4'[q].row \in {v4[q].row, i}
    BY <1>1, <2>1
  <2> QED BY <1>2, <2>2, <2>3, <2>4 DEF Promote!RowsAreBounded
<1>9. ASSUME NEW k \in Clerks, Promote!WriteStage(k) PROVE Promote!RowsAreBounded'
  <2>1. v4' = [v4 EXCEPT ![k].at = "done"] /\ v3' = v3 /\ DOMAIN v1' = DOMAIN v1
    BY <1>9 DEF Promote!WriteStage
  <2>2. \A q \in Clerks : v4'[q].row = v4[q].row
    BY <1>1, <2>1
  <2> QED BY <1>2, <1>3, <2>1, <2>2 DEF Promote!RowsAreBounded
<1>10. CASE Promote!create_candidate
  <2>1. v3' = v3 /\ v4' = v4 /\ Len(v1) < (MaxRows - 1) /\ \E c : v1' = Append(v1, c)
    BY <1>10 DEF Promote!create_candidate
  <2> QED BY <1>2, <1>4, <2>1 DEF Promote!RowsAreBounded
<1>11. CASE Promote!LinkCandidate
  <2>1. v3' = v3 /\ v4' = v4 /\ DOMAIN v1' = DOMAIN v1
    BY <1>11 DEF Promote!LinkCandidate
  <2> QED BY <1>2, <1>3, <2>1 DEF Promote!RowsAreBounded
<1> QED BY <1>5, <1>6, <1>7, <1>8, <1>9, <1>10, <1>11 DEF Promote!Next

LEMMA PromoteStaysTyped == Spec => [](part = "Promote" => Promote!TypeOK)
<1> DEFINE Inv == part = "Promote" => Promote!SoundPromotions /\ Promote!RowsAreBounded
           Typed == part = "Promote" => Promote!TypeOK
<1>1. Init => Inv
  <2> SUFFICES ASSUME Promote!Init PROVE Promote!RowsAreBounded
    BY PromoteInit DEF Init
  <2>1. (\E c : v1 = <<c>>) /\ v3 = {} /\ v4 = [k \in Clerks |-> [at |-> "idle", row |-> 0, to |-> "archived"]]
    BY DEF Promote!Init
  <2>2. Len(v1) = 1
    BY <2>1
  <2>3. \A k \in Clerks : v4[k].row = 0
    BY <2>1
  <2> QED BY <2>1, <2>2, <2>3, RowsAssumption DEF Promote!RowsAreBounded
<1>2. Inv /\ [Next]_pool => Inv'
  <2> SUFFICES ASSUME Inv, [Next]_pool, part' = "Promote" PROVE Promote!SoundPromotions' /\ Promote!RowsAreBounded'
    OBVIOUS
  <2>1. part = "Promote" /\ [Promote!Next]_(Promote!vars)
    BY DEF Next, pool, Rest4, Rest5, Promote!vars
  <2>2. Promote!SoundPromotions'
    BY <2>1, PromoteStep
  <2> QED BY <2>1, <2>2, PromoteRows
<1>3. Inv => Typed
  <2> SUFFICES ASSUME Promote!SoundPromotions, Promote!RowsAreBounded PROVE Promote!TypeOK
    OBVIOUS
  <2>1. /\ v1 \in Seq(Promote!CandidateType) /\ v2 \in [Promote!Requests -> Promote!RequestType]
        /\ v4 \in [Clerks -> [at: {"idle", "write", "done"}, row: Nat, to: Promote!Stages]]
    BY DEF Promote!SoundPromotions, Promote!CandidatesAreTyped
  <2>2. v4 \in [Clerks -> [at: {"idle", "write", "done"}, row: 0..(MaxRows - 1), to: Promote!Stages]]
    <3>1. \A k \in Clerks : v4[k].row \in 0..(MaxRows - 1)
      BY <2>1, RowsAssumption DEF Promote!RowsAreBounded
    <3> QED BY <2>1, <3>1
  <2> QED BY <2>1, <2>2 DEF Promote!RowsAreBounded, Promote!TypeOK, Promote!CandidateType, Promote!RequestType
<1> QED BY <1>1, <1>2, <1>3, PTL DEF Spec

LEMMA CreateRows ==
    ASSUME Create!SoundCreations, Create!SoundCreations', Create!RowsAreBounded, [Create!Next]_(Create!vars)
    PROVE  Create!RowsAreBounded'
<1>1. /\ v1 \in Seq(Create!CandidateType) /\ v1' \in Seq(Create!CandidateType)
      /\ v2 \in [Create!Requests -> Create!RequestType]
      /\ v4 \in [{} -> [at: {"idle", "write", "done"}, row: Nat, to: Create!Stages]]
  BY DEF Create!SoundCreations, Create!CandidatesAreTyped
<1>2. /\ Len(v1) <= MaxRows /\ MaxRows \in Nat /\ \A k \in {} : v4[k].row <= MaxRows
      /\ v3 \subseteq [members: SUBSET Strategies, config: Configs]
  BY RowsAssumption DEF Create!RowsAreBounded
<1>3. ASSUME DOMAIN v1' = DOMAIN v1 PROVE Len(v1') <= MaxRows
  <2>1. Len(v1) \in Nat /\ Len(v1') \in Nat /\ 1..Len(v1') = 1..Len(v1)
    BY <1>1, <1>3
  <2> PICK m \in Nat, n \in Nat : m = Len(v1') /\ n = Len(v1)
    BY <2>1
  <2>2. m = n
    <3>1. m >= 1 => m \in 1..n
      BY <2>1
    <3>2. n >= 1 => n \in 1..m
      BY <2>1
    <3> QED BY <3>1, <3>2
  <2> QED BY <1>2, <2>2
<1>4. ASSUME NEW c, v1' = Append(v1, c), Len(v1) < MaxRows PROVE Len(v1') <= MaxRows
  <2>1. Len(v1') = Len(v1) + 1 /\ Len(v1) \in Nat
    BY <1>1, <1>4
  <2> QED BY <1>2, <1>4, <2>1
<1>5. CASE UNCHANGED Create!vars
  BY <1>2, <1>5 DEF Create!vars, Create!RowsAreBounded
<1>6. ASSUME NEW r \in Create!Requests, \/ Create!Admit(r) \/ Create!LookUp(r) \/ Create!InsertCandidate(r) \/ Create!RereadWinner(r)
                                  \/ Create!DeadlockVictim(r)
      PROVE  Create!RowsAreBounded'
  <2>1. v3' = v3 /\ v4' = v4
    BY <1>6 DEF Create!Admit, Create!LookUp, Create!InsertCandidate, Create!RereadWinner, Create!DeadlockVictim
  <2>2. \/ DOMAIN v1' = DOMAIN v1
        \/ Len(v1) < MaxRows /\ \E c : v1' = Append(v1, c)
    BY <1>6 DEF Create!Admit, Create!LookUp, Create!InsertCandidate, Create!RereadWinner, Create!Reread, Create!DeadlockVictim,
       Create!Fail, Create!RolledBack
  <2> QED BY <1>2, <1>3, <1>4, <2>1, <2>2 DEF Create!RowsAreBounded
<1>7. ASSUME NEW r \in Create!Requests, Create!Commit(r) PROVE Create!RowsAreBounded'
  <2>1. v4' = v4 /\ DOMAIN v1' = DOMAIN v1
    BY <1>7 DEF Create!Commit
  <2>2. v3' \subseteq v3 \cup {[members |-> Create!ToSet(v2[r].members), config |-> v2[r].config]}
    BY <1>7 DEF Create!Commit
  <2>3. v2[r].members \in Seq(Strategies) /\ v2[r].config \in Configs
    BY <1>1 DEF Create!RequestType
  <2>4. Create!ToSet(v2[r].members) \subseteq Strategies
    <3>1. PICK s \in Seq(Strategies) : s = v2[r].members
      BY <2>3
    <3>2. \A i \in DOMAIN s : s[i] \in Strategies
      OBVIOUS
    <3> QED BY <3>1, <3>2 DEF Create!ToSet
  <2>5. [members |-> Create!ToSet(v2[r].members), config |-> v2[r].config] \in [members: SUBSET Strategies, config: Configs]
    BY <2>3, <2>4
  <2>6. v3' \subseteq [members: SUBSET Strategies, config: Configs]
    BY <1>2, <2>2, <2>5
  <2> QED BY <1>2, <1>3, <2>1, <2>6 DEF Create!RowsAreBounded
<1>8. CASE Create!create_candidate
  <2>1. v3' = v3 /\ v4' = v4 /\ Len(v1) < MaxRows /\ \E c : v1' = Append(v1, c)
    BY <1>8 DEF Create!create_candidate
  <2> QED BY <1>2, <1>4, <2>1 DEF Create!RowsAreBounded
<1>9. CASE Create!LinkCandidate
  <2>1. v3' = v3 /\ v4' = v4 /\ DOMAIN v1' = DOMAIN v1
    BY <1>9 DEF Create!LinkCandidate
  <2> QED BY <1>2, <1>3, <2>1 DEF Create!RowsAreBounded
<1> QED BY <1>5, <1>6, <1>7, <1>8, <1>9 DEF Create!Next

LEMMA CreateStaysTyped == Spec => [](part = "Create" => Create!TypeOK)
<1> DEFINE Inv == part = "Create" => Create!SoundCreations /\ Create!RowsAreBounded
           Typed == part = "Create" => Create!TypeOK
<1>1. Init => Inv
  <2> SUFFICES ASSUME Create!Init PROVE Create!RowsAreBounded
    BY CreateInit DEF Init
  <2>1. (\E c : v1 = <<c>>) /\ v3 = {} /\ v4 = [k \in {} |-> [at |-> "idle", row |-> 0, to |-> "archived"]]
    BY DEF Create!Init
  <2>2. Len(v1) = 1
    BY <2>1
  <2>3. \A k \in {} : v4[k].row = 0
    BY <2>1
  <2> QED BY <2>1, <2>2, <2>3, RowsAssumption DEF Create!RowsAreBounded
<1>2. Inv /\ [Next]_pool => Inv'
  <2> SUFFICES ASSUME Inv, [Next]_pool, part' = "Create" PROVE Create!SoundCreations' /\ Create!RowsAreBounded'
    OBVIOUS
  <2>1. part = "Create" /\ [Create!Next]_(Create!vars)
    BY DEF Next, pool, Rest4, Rest5, Create!vars
  <2>2. Create!SoundCreations'
    BY <2>1, CreateStep
  <2> QED BY <2>1, <2>2, CreateRows
<1>3. Inv => Typed
  <2> SUFFICES ASSUME Create!SoundCreations, Create!RowsAreBounded PROVE Create!TypeOK
    OBVIOUS
  <2>1. /\ v1 \in Seq(Create!CandidateType) /\ v2 \in [Create!Requests -> Create!RequestType]
        /\ v4 \in [{} -> [at: {"idle", "write", "done"}, row: Nat, to: Create!Stages]]
    BY DEF Create!SoundCreations, Create!CandidatesAreTyped
  <2>2. v4 \in [{} -> [at: {"idle", "write", "done"}, row: 0..MaxRows, to: Create!Stages]]
    <3>1. \A k \in {} : v4[k].row \in 0..MaxRows
      BY <2>1, RowsAssumption DEF Create!RowsAreBounded
    <3> QED BY <2>1, <3>1
  <2> QED BY <2>1, <2>2 DEF Create!RowsAreBounded, Create!TypeOK, Create!CandidateType, Create!RequestType
<1> QED BY <1>1, <1>2, <1>3, PTL DEF Spec

LEMMA SyncStaysTyped == Spec => [](part = "Sync" => Sync!TypeOK)
<1> DEFINE Inv == part = "Sync" => Sync!SoundSync
           Typed == part = "Sync" => Sync!TypeOK
<1>1. Inv => Typed
  BY DEF Sync!SoundSync
<1>2. Spec => []Inv
  BY SyncKeeps
<1> QED BY <1>1, <1>2, PTL

LEMMA SearchStaysTyped == Spec => [](part = "Search" => Search!TypeOK)
<1> DEFINE Inv == part = "Search" => Search!SoundSearch
           Typed == part = "Search" => Search!TypeOK
<1>1. Inv => Typed
  BY DEF Search!SoundSearch
<1>2. Spec => []Inv
  BY SearchKeeps
<1> QED BY <1>1, <1>2, PTL
=============================================================================
