--------------------------- MODULE LiveRevisions ---------------------------
(***************************************************************************)
(* The revisions of one live portfolio: POST /strategies appends to the    *)
(* draft, POST /snapshot hashes and freezes it.  Every request is one      *)
(* READ COMMITTED transaction; the row lock of the draft is the only thing *)
(* that serialises them.                                                   *)
(*                                                                         *)
(* A composition hash is modelled by the composition it is computed from   *)
(* (sha256 over the canonical members), so two hashes are equal exactly    *)
(* when the members were.                                                  *)
(***************************************************************************)
EXTENDS Naturals, Sequences, FiniteSets, SequencesExt

CONSTANTS
    Adders,      \* requests to POST /live-portfolios/{id}/strategies
    Snapshots,   \* requests to POST /live-portfolios/{id}/snapshot
    Strategies,  \* strategies a request may name
    Graduated,   \* those with a candidate at a live-eligible stage
    MaxRows      \* bound on the revision rows ever inserted

VARIABLES
    revs,   \* the committed revision rows, in order of insertion
    adder,  \* what each add request has done and read
    snap,   \* what each snapshot request has done and read
    lock    \* the row locked FOR UPDATE by a snapshot, or 0

vars == <<revs, adder, snap, lock>>

Rows == 1..MaxRows

\* the 64 zeros of a draft: no composition that may be frozen is empty
Placeholder == <<>>

Row(i) == revs[i]

Present == {i \in DOMAIN revs : ~Row(i).deleted}

get_current_draft == {i \in Present : ~Row(i).frozen}

MaxNumber == LET taken == {Row(i).number : i \in Present}
             IN  IF taken = {} THEN 0 ELSE Max(taken)

compute_composition_hash(members) == members

TypeOK ==
    /\ revs \in Seq([number: Rows, frozen: BOOLEAN, deleted: BOOLEAN,
                     members: Seq(Strategies),
                     hash: Seq(Strategies)])
    /\ Len(revs) <= MaxRows
    /\ adder \in [Adders -> [at: {"idle", "max", "insert", "lock", "done", "refused"},
                             strategy: Strategies, row: 0..MaxRows, number: 0..MaxRows + 1]]
    /\ snap \in [Snapshots -> [at: {"idle", "write", "done", "refused"},
                               row: 0..MaxRows, hash: Seq(Strategies)]]
    /\ lock \in 0..MaxRows

Init ==
    /\ revs = <<>>
    /\ adder \in [Adders -> [at: {"idle"}, strategy: Strategies, row: {0}, number: {0}]]
    /\ snap = [s \in Snapshots |-> [at |-> "idle", row |-> 0, hash |-> <<>>]]
    /\ lock = 0
-----------------------------------------------------------------------------
AdderAt(a, at) == adder' = [adder EXCEPT ![a].at = at]

\* _is_graduated, then get_current_draft: the draft found enters the session's
\* identity map with is_frozen = false
ReadDraft(a) ==
    /\ adder[a].at = "idle"
    /\ IF adder[a].strategy \notin Graduated
       THEN AdderAt(a, "refused")
       ELSE IF get_current_draft = {}
            THEN AdderAt(a, "max")
            ELSE \E d \in get_current_draft :
                   adder' = [adder EXCEPT ![a].at = "lock", ![a].row = d]
    /\ UNCHANGED <<revs, snap, lock>>

ReadMaxNumber(a) ==
    /\ adder[a].at = "max"
    /\ adder' = [adder EXCEPT ![a].at = "insert", ![a].number = MaxNumber + 1]
    /\ UNCHANGED <<revs, snap, lock>>

\* The flush of a new draft fails on uq_one_draft_per_portfolio and on the
\* unique revision number.  Nobody can see the row before the commit, so its
\* member is inserted and the transaction committed in the same step.
InsertDraft(a) ==
    /\ adder[a].at = "insert"
    /\ \/ /\ get_current_draft # {} \/ adder[a].number \in {Row(i).number : i \in Present}
          /\ AdderAt(a, "refused")
          /\ UNCHANGED revs
       \/ /\ get_current_draft = {} /\ adder[a].number \notin {Row(i).number : i \in Present}
          /\ Len(revs) < MaxRows
          /\ revs' = Append(revs, [number |-> adder[a].number, frozen |-> FALSE,
                                   deleted |-> FALSE, hash |-> Placeholder,
                                   members |-> <<adder[a].strategy>>])
          /\ AdderAt(a, "done")
    /\ UNCHANGED <<snap, lock>>

\* What the code's test after the lock sees: the row is fetched again FOR
\* UPDATE, but an object already in the identity map keeps the attributes it
\* was loaded with (no populate_existing), so is_frozen is still the value of
\* ReadDraft, which was false.  Only a vanished row is noticed.
LockedIsMutable(a) == adder[a].row \in Present

\* add_strategy from the lock to the commit.  The lock is held to the commit
\* and everything between depends on this row only: one step.
AddMember(a) ==
    LET d == adder[a].row IN
    /\ adder[a].at = "lock"
    /\ lock # d
    /\ IF LockedIsMutable(a) /\ ~Contains(Row(d).members, adder[a].strategy)
       THEN /\ revs' = [revs EXCEPT ![d].members = Append(@, adder[a].strategy)]
            /\ AdderAt(a, "done")
       ELSE /\ UNCHANGED revs
            /\ AdderAt(a, "refused")
    /\ UNCHANGED <<snap, lock>>
-----------------------------------------------------------------------------
\* Mutant: the draft is read without FOR UPDATE
UnlockedDraft == get_current_draft

\* _lock_draft_revision waits for the lock and then tests is_frozen = false
\* again on the row's committed version
_lock_draft_revision == {d \in get_current_draft : lock # d}

SnapshotLocks(s) ==
    /\ snap[s].at = "idle"
    /\ \/ /\ get_current_draft = {}
          /\ snap' = [snap EXCEPT ![s].at = "refused"]
          /\ UNCHANGED lock
       \/ \E d \in _lock_draft_revision :
            IF Row(d).members = <<>>
            THEN snap' = [snap EXCEPT ![s].at = "refused"] /\ UNCHANGED lock
            ELSE /\ snap' = [snap EXCEPT ![s] = [at |-> "write", row |-> d,
                                                 hash |-> compute_composition_hash(Row(d).members)]]
                 /\ lock' = d
    /\ UNCHANGED <<revs, adder>>

\* The draft collapses onto a frozen revision of the same hash, or is frozen
SnapshotWrites(s) ==
    LET d == snap[s].row
        same == {i \in Present : Row(i).frozen /\ Row(i).hash = snap[s].hash}
    IN
    /\ snap[s].at = "write"
    /\ revs' = IF same # {}
               THEN [revs EXCEPT ![d].deleted = TRUE]
               ELSE [revs EXCEPT ![d].frozen = TRUE, ![d].hash = snap[s].hash]
    /\ snap' = [snap EXCEPT ![s].at = "done"]
    /\ lock' = 0
    /\ UNCHANGED adder

Next ==
    \/ \E a \in Adders : ReadDraft(a) \/ ReadMaxNumber(a) \/ InsertDraft(a) \/ AddMember(a)
    \/ \E s \in Snapshots : SnapshotLocks(s) \/ SnapshotWrites(s)

Spec == Init /\ [][Next]_vars
-----------------------------------------------------------------------------
\* A revision that was frozen is there for good, with the hash deployments
\* were identified by: a second snapshot of the same draft must not take the
\* row its predecessor just froze for an equal older one and delete it.
\* An action property: [][FrozenStays]_vars.
FrozenStays ==
    \A i \in DOMAIN revs : Row(i).frozen =>
       ~revs'[i].deleted /\ revs'[i].frozen /\ revs'[i].hash = Row(i).hash

\* The hash of a frozen revision is the hash of its rows.
\* Does not hold: an add request that read the draft before a snapshot froze
\* it passes the test behind its lock with the copy it read (LockedIsMutable)
\* and appends to the frozen revision.
FrozenHashMatches ==
    \A i \in Present : Row(i).frozen => Row(i).hash = compute_composition_hash(Row(i).members)

-----------------------------------------------------------------------------
(* What keeps FrozenStays inductive *)

\* The rows are records, whatever their number and members.
RevisionsAreRows ==
    /\ revs \in Seq(ToSet(revs))
    /\ \A i \in DOMAIN revs :
         /\ DOMAIN Row(i) = {"number", "frozen", "deleted", "members", "hash"}
         /\ Row(i).frozen \in BOOLEAN /\ Row(i).deleted \in BOOLEAN
    /\ DOMAIN snap = Snapshots
    /\ \A s \in Snapshots : DOMAIN snap[s] = {"at", "row", "hash"}

\* uq_one_draft_per_portfolio
OneDraft == \A i, j \in get_current_draft : i = j

FrozenIsPresent == \A i \in DOMAIN revs : Row(i).frozen => ~Row(i).deleted

\* A snapshot that is about to write holds the lock of the row it read, which is still
\* the draft; so no other snapshot is about to write.
WriterHoldsDraft(s) == snap[s].at = "write" => lock = snap[s].row /\ lock \in get_current_draft

OneWriter == \A s, t \in Snapshots : snap[s].at = "write" /\ snap[t].at = "write" => s = t

SoundRevisions ==
    /\ RevisionsAreRows /\ OneDraft /\ FrozenIsPresent /\ OneWriter
    /\ \A s \in Snapshots : WriterHoldsDraft(s)

\* And what the types take on top of it: a revision's number is at most its place among
\* the rows, since a request reads the greatest number before it inserts.
NumbersFollowRows ==
    /\ \A i \in DOMAIN revs : revs[i].number <= i
    /\ \A a \in Adders : adder[a].at = "insert" => adder[a].number \in 1 .. Len(revs) + 1
=============================================================================
