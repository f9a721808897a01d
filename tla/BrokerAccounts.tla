--------------------------- MODULE BrokerAccounts ---------------------------
(***************************************************************************)
(* BrokerAccountService and its credentials store: registering an account   *)
(* on a free gateway slot, rotating its credentials and archiving it. The    *)
(* database and the store share no transaction: the store is written before *)
(* the row, and cleaned up, at best effort, when the row is not.             *)
(***************************************************************************)
EXTENDS Integers, FiniteSets

CONSTANTS
    Creators,       \* concurrent POST /broker-accounts, each with an id of its own
    Operators,      \* concurrent rotations and archivings
    Legacy,         \* an account whose credentials are still in the environment
    IbAccounts,     \* ib_account_ids
    Pools,          \* the pools of gateway slots an installation may have
    MaxFaults       \* bound on failing commits, store calls and crashes

VARIABLES
    row,            \* broker_accounts: [status, ib, slot, ref, version]
    secrets,        \* the store: pairs of a reference and a version
    creator,        \* [pc, ib, tried]
    operator,       \* [pc, acct, seen, ref]: seen is the row as the operator read it
    lock,           \* holder of each row's FOR UPDATE lock
    Slots,          \* the pool of this installation
    versions, faults

vars == <<row, secrets, creator, operator, lock, Slots, versions, faults>>

Ids    == Creators \cup {Legacy}
EnvRef == "env"
NoRow  == [status |-> "none", ib |-> "-", slot |-> "-", ref |-> "-", version |-> 0]
Live   == {i \in Ids : row[i].status = "active"}
Held   == {i \in Ids : row[i].status \in {"active", "inserted"}}
Fault  == faults < MaxFaults /\ faults' = faults + 1
Version == versions + 1

-----------------------------------------------------------------------------
(* create.                                                                  *)

\* The duplicate check, and the store first.
create(k, ib) ==
    /\ creator[k].pc = "idle" /\ \A i \in Live : row[i].ib # ib
    /\ secrets' = secrets \cup {<<k, Version>>} /\ versions' = Version
    /\ creator' = [creator EXCEPT ![k] = [pc |-> "slot", ib |-> ib, slot |-> "-", tried |-> 0,
                                          version |-> Version]]
    /\ UNCHANGED <<row, operator, lock, faults>>

\* _allocate_and_insert: a slot no committed row holds ...
FreeSlot(k) ==
    /\ creator[k].pc = "slot"
    /\ LET free == Slots \ {row[i].slot : i \in Live}
       IN  IF free = {} \/ creator[k].tried > Cardinality(Slots)
           THEN creator' = [creator EXCEPT ![k].pc = "cleanup"]
           ELSE \E s \in free : creator' = [creator EXCEPT ![k].pc = "insert", ![k].slot = s,
                                                           ![k].tried = @ + 1]
    /\ UNCHANGED <<row, secrets, operator, lock, versions, faults>>

\* Mutant: a conflict on the slot is not told from one on the account.
InsertGivesUp(k) ==
    LET c == creator[k]
    IN  IF \E i \in Live : row[i].slot = c.slot \/ row[i].ib = c.ib THEN "cleanup" ELSE "commit"

\* ... the insert, which waits for the uncommitted row of another request that holds
\* the account or the slot, and finds out from the unique index it violates: a taken
\* account ends the request, a taken slot makes it look again.
InsertOutcome(k) ==
    LET c == creator[k]
    IN  IF \E i \in Live : row[i].ib = c.ib THEN "cleanup"
        ELSE IF \E i \in Live : row[i].slot = c.slot THEN "slot" ELSE "commit"

Insert(k) ==
    /\ creator[k].pc = "insert"
    /\ \A i \in Ids : row[i].status = "inserted" => row[i].ib # creator[k].ib /\ row[i].slot # creator[k].slot
    /\ creator' = [creator EXCEPT ![k].pc = InsertOutcome(k)]
    /\ row' = IF InsertOutcome(k) # "commit" THEN row
              ELSE [row EXCEPT ![k] = [status |-> "inserted", ib |-> creator[k].ib, slot |-> creator[k].slot,
                                       ref |-> k, version |-> creator[k].version]]
    /\ UNCHANGED <<secrets, operator, lock, versions, faults>>

CommitCreate(k) ==
    /\ creator[k].pc = "commit"
    /\ \/ /\ row' = [row EXCEPT ![k].status = "active"]
          /\ creator' = [creator EXCEPT ![k].pc = "done"] /\ UNCHANGED faults
       \/ /\ Fault /\ row' = [row EXCEPT ![k] = NoRow]
          /\ creator' = [creator EXCEPT ![k].pc = "cleanup"]
    /\ UNCHANGED <<secrets, operator, lock, versions>>

\* _best_effort_delete_secret after a create that ends without a row.
CleanupCreate(k) ==
    /\ creator[k].pc = "cleanup" /\ creator' = [creator EXCEPT ![k].pc = "done"]
    /\ \/ secrets' = {s \in secrets : s[1] # k} /\ UNCHANGED faults
       \/ Fault /\ UNCHANGED secrets
    /\ UNCHANGED <<row, operator, lock, versions>>

-----------------------------------------------------------------------------
(* rotate and archive.                                                      *)

\* get(): the row is read before the lock.
Begin(o, op, i) ==
    /\ operator[o].pc = "idle" /\ row[i].status = "active"
    /\ operator' = [operator EXCEPT ![o] = [pc |-> op, acct |-> i, seen |-> row[i], ref |-> "-"]]
    /\ UNCHANGED <<row, secrets, creator, lock, versions, faults>>

\* Mutant: the row is not populated again under the lock.
RowAsRead(o) == operator[o].seen

\* SELECT ... FOR UPDATE with populate_existing.
RowUnderLock(o) == row[operator[o].acct]

Lock(o) ==
    /\ operator[o].pc \in {"rotate", "archive"} /\ lock[operator[o].acct] = "free"
    /\ LET now == RowUnderLock(o)
       IN  IF now.status = "archived"
           THEN operator' = [operator EXCEPT ![o].pc = "done"] /\ UNCHANGED lock
           ELSE /\ lock' = [lock EXCEPT ![operator[o].acct] = o]
                /\ operator' = [operator EXCEPT ![o].pc = IF @ = "rotate" THEN "put" ELSE "mark",
                                                ![o].seen = now]
    /\ UNCHANGED <<row, secrets, creator, versions, faults>>

\* Mutant: a legacy account keeps its reference.
SameRef(o) == operator[o].seen.ref

\* A legacy account is promoted to a reference of its own ...
RefOf(o) == IF operator[o].seen.ref = EnvRef THEN o ELSE operator[o].seen.ref

\* ... and a managed one gets a new version. A failing store call rolls back.
Put(o) ==
    /\ operator[o].pc = "put"
    /\ LET ref == RefOf(o)
       IN  \/ /\ secrets' = secrets \cup {<<ref, Version>>} /\ versions' = Version
              /\ operator' = [operator EXCEPT ![o].pc = "commit", ![o].ref = ref,
                                              ![o].seen.version = Version]
              /\ UNCHANGED <<lock, faults>>
           \/ /\ Fault /\ operator' = [operator EXCEPT ![o].pc = "done"]
              /\ lock' = [lock EXCEPT ![operator[o].acct] = "free"]
              /\ UNCHANGED <<secrets, versions>>
    /\ UNCHANGED <<row, creator>>

\* The commit; when it fails a promoted reference, and only that, is deleted.
CommitRotate(o) ==
    /\ operator[o].pc = "commit"
    /\ \/ /\ row' = [row EXCEPT ![operator[o].acct].ref = operator[o].ref,
                                ![operator[o].acct].version = operator[o].seen.version]
          /\ UNCHANGED <<secrets, faults>>
       \/ /\ Fault /\ UNCHANGED row
          /\ secrets' = IF operator[o].ref = o THEN {s \in secrets : s[1] # o} ELSE secrets
    /\ operator' = [operator EXCEPT ![o].pc = "done"]
    /\ lock' = [lock EXCEPT ![operator[o].acct] = "free"]
    /\ UNCHANGED <<creator, versions>>

\* Mutant: the secret is deleted before the row is archived.
MarkAfterDelete(o) ==
    /\ operator[o].pc = "mark"
    /\ secrets' = {s \in secrets : s[1] # operator[o].seen.ref}
    /\ operator' = [operator EXCEPT ![o].pc = "delete"]
    /\ UNCHANGED <<row, creator, lock, versions, faults>>

\* archive commits the row, which frees the slot and the account ...
Mark(o) ==
    /\ operator[o].pc = "mark"
    /\ \/ /\ row' = [row EXCEPT ![operator[o].acct].status = "archived"]
          /\ operator' = [operator EXCEPT ![o].pc = "delete"] /\ UNCHANGED faults
       \/ Fault /\ operator' = [operator EXCEPT ![o].pc = "done"] /\ UNCHANGED row
    /\ lock' = [lock EXCEPT ![operator[o].acct] = "free"]
    /\ UNCHANGED <<secrets, creator, versions>>

\* ... and then deletes the secret, not one that the environment holds.
DeleteSecret(o) ==
    /\ operator[o].pc = "delete" /\ operator' = [operator EXCEPT ![o].pc = "done"]
    /\ \/ secrets' = {s \in secrets : s[1] # operator[o].seen.ref} /\ UNCHANGED faults
       \/ Fault /\ UNCHANGED secrets
    /\ UNCHANGED <<row, creator, lock, versions>>

-----------------------------------------------------------------------------
Init ==
    /\ Slots \in Pools
    /\ row = [i \in Ids |-> IF i = Legacy
                THEN [status |-> "active", ib |-> CHOOSE ib \in IbAccounts : TRUE,
                      slot |-> CHOOSE s \in Slots : TRUE, ref |-> EnvRef, version |-> 0]
                ELSE NoRow]
    /\ secrets = {}
    /\ creator = [k \in Creators |-> [pc |-> "idle", ib |-> "-", slot |-> "-", tried |-> 0, version |-> 0]]
    /\ operator = [o \in Operators |-> [pc |-> "idle", acct |-> Legacy, seen |-> NoRow, ref |-> "-"]]
    /\ lock = [i \in Ids |-> "free"] /\ versions = 0 /\ faults = 0

Step ==
    \/ \E k \in Creators : \/ \E ib \in IbAccounts : create(k, ib)
                           \/ FreeSlot(k) \/ Insert(k) \/ CommitCreate(k) \/ CleanupCreate(k)
    \/ \E o \in Operators : \/ \E i \in Ids : Begin(o, "rotate", i) \/ Begin(o, "archive", i)
                            \/ Lock(o) \/ Put(o) \/ CommitRotate(o) \/ Mark(o) \/ DeleteSecret(o)

Next == Step /\ UNCHANGED Slots

Spec == Init /\ [][Next]_vars

-----------------------------------------------------------------------------
TypeOK ==
    /\ \A i \in Ids : row[i].status \in {"none", "inserted", "active", "archived"}
    /\ \A s \in secrets : s[1] \in Creators \cup Operators /\ s[2] \in 1 .. versions
    /\ lock \in [Ids -> Operators \cup {"free"}]

Quiet == /\ \A k \in Creators : creator[k].pc \in {"idle", "done"}
         /\ \A o \in Operators : operator[o].pc \in {"idle", "done"}

\* The row and the store agree, over failed commits and store calls and whatever runs
\* at once: the pinned secret of an active account is in the store, and, with no error
\* and nothing under way, the store holds no secret of any other account.
SecretsFollowRows ==
    /\ \A i \in Live : row[i].ref # EnvRef => <<row[i].ref, row[i].version>> \in secrets
    /\ Quiet /\ faults = 0 => {s[1] : s \in secrets} = {row[i].ref : i \in Live} \ {EnvRef}

\* A request that finds its slot taken by another looks for the next one: none that
\* ends without an account leaves a slot of the pool free for it, unless something
\* failed or an archiving freed the slot since.
SlotsAreUsed ==
    \A k \in Creators :
        creator[k].pc = "done" /\ row[k] = NoRow /\ faults = 0
          /\ (\A i \in Ids : row[i].status # "archived")
          /\ (\A i \in Live : row[i].ib # creator[k].ib)
        => Slots \subseteq {row[i].slot : i \in Held}

-----------------------------------------------------------------------------
(* Why the accounts are sound.                                              *)

Refs         == Creators \cup Operators \cup {EnvRef, "-"}
RowType      == [status : {"none", "inserted", "active", "archived"}, ib : IbAccounts \cup {"-"},
                 slot : Slots \cup {"-"}, ref : Refs, version : Nat]
CreatorType  == [pc : {"idle", "slot", "insert", "commit", "cleanup", "done"}, ib : IbAccounts \cup {"-"},
                 slot : Slots \cup {"-"}, tried : Nat, version : Nat]
OperatorType == [pc : {"idle", "rotate", "archive", "put", "commit", "mark", "delete", "done"},
                 acct : Ids, seen : RowType, ref : Refs]

RecordsAreTyped ==
    /\ row \in [Ids -> RowType] /\ creator \in [Creators -> CreatorType]
    /\ operator \in [Operators -> OperatorType] /\ lock \in [Ids -> Operators \cup {"free"}]
    /\ secrets \subseteq (Creators \cup Operators) \X Nat /\ versions \in Nat /\ faults \in Nat
    /\ IsFiniteSet(Slots)

\* A reference belongs to one account: the creator's to the row it inserts, an operator's
\* to the legacy account, once the operator has promoted it and is done.
RefsAreOwn ==
    /\ \A k \in Creators : row[k].status # "none" => row[k].ref = k
    /\ row[Legacy].status \in {"active", "archived"} /\ row[Legacy].ref \in Operators \cup {EnvRef}
    /\ \A o \in Operators : row[Legacy].ref = o => operator[o].pc = "done"

\* A creator has no row until it inserts one, and its secret is there when it does.
CreatorIsInStep(k) ==
    /\ creator[k].pc \notin {"commit", "done"} => row[k] = NoRow
    /\ creator[k].pc = "commit" => row[k].status = "inserted" /\ row[k].version = creator[k].version
    /\ creator[k].pc = "done" => row[k] = NoRow \/ row[k].status \in {"active", "archived"}
    /\ creator[k].pc \in {"slot", "insert", "commit"} => <<k, creator[k].version>> \in secrets

\* An operator has a committed row. Past the lock it holds the lock and has seen the row
\* as it is; the version it is about to commit is stored; the secret it is about to delete
\* is an archived account's.
OperatorIsInStep(o) ==
    LET i == operator[o].acct IN
    /\ operator[o].pc \in {"rotate", "archive"} => row[i].status \in {"active", "archived"}
    /\ operator[o].pc \in {"put", "mark", "commit"}
         => lock[i] = o /\ row[i].status = "active" /\ operator[o].seen.ref = row[i].ref
    /\ operator[o].pc = "commit" => /\ operator[o].ref = RefOf(o)
                                    /\ <<operator[o].ref, operator[o].seen.version>> \in secrets
    /\ operator[o].pc = "delete" => row[i].status = "archived" /\ operator[o].seen.ref = row[i].ref

PinnedIsStored == \A i \in Live : row[i].ref # EnvRef => <<row[i].ref, row[i].version>> \in secrets

\* Without errors somebody is there for every secret: its account, or a request that will
\* pin it or delete it.
Owed(r) ==
    \/ r \in Creators /\ creator[r].pc \in {"slot", "insert", "commit", "cleanup"}
    \/ \E i \in Live : row[i].ref = r
    \/ \E o \in Operators : operator[o].pc = "delete" /\ operator[o].seen.ref = r
    \/ r \in Operators /\ operator[r].pc = "commit" /\ operator[r].ref = r
SecretsAreOwed == faults = 0 => \A s \in secrets : Owed(s[1])

\* While nothing is archived, every slot a creator found taken is another one: it gives up
\* because all of them are, never because it has tried too often.
Taken == Slots \cap {row[i].slot : i \in Live}
CreatorHasTried(k) ==
    /\ creator[k].pc = "slot" => creator[k].tried <= Cardinality(Taken)
    /\ creator[k].pc = "insert"
         => creator[k].slot \in Slots /\ creator[k].tried <= 1 + Cardinality(Taken \ {creator[k].slot})
    /\ creator[k].pc \in {"cleanup", "done"} /\ row[k] = NoRow /\ faults = 0
         => Slots \subseteq Taken \/ \E i \in Live : row[i].ib = creator[k].ib
TriesAreCounted == (\A i \in Ids : row[i].status # "archived") => \A k \in Creators : CreatorHasTried(k)

\* The inductive invariant.
SoundAccounts ==
    /\ RecordsAreTyped /\ RefsAreOwn /\ PinnedIsStored /\ SecretsAreOwed /\ TriesAreCounted
    /\ \A k \in Creators : CreatorIsInStep(k)
    /\ \A o \in Operators : OperatorIsInStep(o)

\* And what the types take on top of it: a version in the store was issued.
VersionsAreIssued == \A s \in secrets : s[2] \in 1 .. versions
=============================================================================
