---------------------------- MODULE StrategySync ----------------------------
(***************************************************************************)
(* The strategies table, kept in step with the strategies directory: every *)
(* GET /strategies imports the files, hashes them, and inserts, refreshes, *)
(* de-duplicates and archives rows.  The table has no unique name, the     *)
(* requests overlap, and files are edited under them.                      *)
(*                                                                         *)
(* All strategies live in one directory with one config.py.  A version of  *)
(* a file stands for its content; a schema is the pair of versions it was  *)
(* extracted from, a hash the pair it was computed over.                   *)
(***************************************************************************)
EXTENDS Naturals, FiniteSets, FiniteSetsExt, Functions

CONSTANTS
    Names,      \* strategy names: the path of the file in the directory
    Syncs,      \* requests that synchronise
    Ids,        \* row identifiers (uuid4: any order), a set of numbers
    MaxVersion, \* bound on the versions of a file
    Bad,        \* versions that do not import or that governance refuses
    MaxFaults   \* bound on restarts, removals, archivals and edits by users

VARIABLES
    code,    \* version of each strategy's file, 0 = no file
    conf,    \* version of config.py
    loaded,  \* version of config.py in sys.modules, 0 = not imported
    rows,    \* the committed rows
    sync,    \* the requests
    gone,    \* names whose file was missing once, or that a user archived
    faults

vars == <<code, conf, loaded, rows, sync, gone, faults>>

Versions == 1..MaxVersion
Pair == [code: 0..MaxVersion, conf: 0..MaxVersion]
NoPair == [code |-> 0, conf |-> 0]

Row == [name: Names, archived: BOOLEAN, hash: Pair, schema: Pair]

TypeOK ==
    /\ code \in [Names -> 0..MaxVersion] /\ conf \in Versions /\ loaded \in 0..MaxVersion
    /\ DOMAIN rows \subseteq Ids /\ \A i \in DOMAIN rows : rows[i] \in Row
    /\ \A y \in Syncs :
         /\ sync[y].at \in {"idle", "imported", "read"}
         /\ sync[y].found \subseteq Names
         /\ sync[y].schema \in [Names -> Pair] /\ sync[y].hash \in [Names -> Pair]
         /\ sync[y].active \subseteq Ids /\ sync[y].archived \subseteq Ids
         /\ sync[y].undisturbed \in BOOLEAN
    /\ gone \subseteq Names /\ faults \in 0..MaxFaults

Idle == [at |-> "idle", found |-> {}, schema |-> [s \in Names |-> NoPair],
         hash |-> [s \in Names |-> NoPair], active |-> {}, archived |-> {}, undisturbed |-> TRUE]

Init ==
    /\ code \in [Names -> {0, 1}] /\ conf = 1 /\ loaded = 0
    /\ rows = [i \in {} |-> 0]
    /\ sync = [y \in Syncs |-> Idle]
    /\ gone = {s \in Names : code[s] = 0}
    /\ faults = 0
-----------------------------------------------------------------------------
Rows(ids, s) == {i \in ids \cap DOMAIN rows : rows[i].name = s}

Active(s) == {i \in Rows(Ids, s) : ~rows[i].archived}

\* discover_strategies: governance, import and schema of every strategy file.
\* The file itself is executed anew, but its config module comes from
\* sys.modules once some import has put it there (config.py itself is skipped).
Discover(y) ==
    LET found == {s \in Names : code[s] \notin Bad \cup {0}}
        used == IF loaded = 0 THEN conf ELSE loaded
    IN
    /\ sync[y].at = "idle"
    /\ sync' = [sync EXCEPT ![y].at = "imported", ![y].found = found, ![y].undisturbed = TRUE,
                            ![y].schema = [s \in Names |-> [code |-> code[s], conf |-> used]]]
    /\ loaded' = IF found = {} THEN loaded ELSE used
    /\ UNCHANGED <<code, conf, rows, gone, faults>>

\* compute_file_hash and _combined_strategy_hash read the files again; the
\* registry rows, archived ones included, are read into the session
_combined_strategy_hash(s) == [code |-> code[s], conf |-> conf]

ReadRows(y) ==
    /\ sync[y].at = "imported"
    /\ sync' = [sync EXCEPT ![y].at = "read",
                            ![y].hash = [s \in Names |-> _combined_strategy_hash(s)],
                            ![y].active = {i \in DOMAIN rows : ~rows[i].archived},
                            ![y].archived = {i \in DOMAIN rows : rows[i].archived}]
    /\ UNCHANGED <<code, conf, loaded, rows, gone, faults>>
-----------------------------------------------------------------------------
\* Mutant: what cannot be imported is pruned
Undiscovered(y, s) == s \notin sync[y].found

\* Only a strategy whose file is not there any more is pruned
Pruned(y, s) == s \notin sync[y].found /\ code[s] = 0

\* Mutant: duplicates are left undisturbed
KeepAll(y, s) == Rows(sync[y].active, s)

\* The row that stays: the smallest id among the active rows read
Kept(y, s) == LET own == Rows(sync[y].active, s)
              IN  IF own = {} THEN {} ELSE {Min(own)}

Refreshed(y, i) ==
    LET s == rows[i].name
        r == rows[i]
    IN  IF s \in sync[y].found /\ i \in sync[y].active
        THEN IF i \notin Kept(y, s) THEN [r EXCEPT !.archived = TRUE]
             ELSE IF r.hash # sync[y].hash[s]
                  THEN [r EXCEPT !.hash = sync[y].hash[s], !.schema = sync[y].schema[s]]
                  ELSE r
        ELSE IF i \in sync[y].active /\ Pruned(y, s) THEN [r EXCEPT !.archived = TRUE]
        ELSE r

\* A row is inserted for a name without any; archived rows stay archived
Inserted(y) == {s \in sync[y].found :
                  Rows(sync[y].active, s) = {} /\ Rows(sync[y].archived, s) = {}}

Fresh(y, s) == [name |-> s, archived |-> FALSE, hash |-> sync[y].hash[s],
                schema |-> sync[y].schema[s]]

\* Ghost: the requests under way have met an edit or another write
Disturbed == [y \in Syncs |-> [sync[y] EXCEPT !.undisturbed = (sync[y].at = "idle")]]

WriteRows(y) ==
    /\ sync[y].at = "read"
    /\ \E id \in [Inserted(y) -> Ids \ DOMAIN rows] :
         /\ IsInjective(id)
         /\ rows' = [i \in DOMAIN rows \cup Range(id) |->
                       IF i \in DOMAIN rows THEN Refreshed(y, i)
                       ELSE Fresh(y, Inverse(id, Inserted(y), Range(id))[i])]
    /\ sync' = [Disturbed EXCEPT ![y] = Idle]
    /\ gone' = gone \cup {s \in Names : code[s] = 0}
    /\ UNCHANGED <<code, conf, loaded, faults>>
-----------------------------------------------------------------------------
(* Users and the file system *)

Fault == faults < MaxFaults /\ faults' = faults + 1

EditStrategy(s) ==
    /\ Fault /\ code[s] < MaxVersion
    /\ code' = [code EXCEPT ![s] = @ + 1]
    /\ sync' = Disturbed
    /\ UNCHANGED <<conf, loaded, rows, gone>>

EditConfig ==
    /\ Fault /\ conf < MaxVersion /\ conf' = conf + 1
    /\ sync' = Disturbed
    /\ UNCHANGED <<code, loaded, rows, gone>>

RemoveFile(s) ==
    /\ Fault /\ code[s] # 0
    /\ code' = [code EXCEPT ![s] = 0] /\ gone' = gone \cup {s}
    /\ sync' = Disturbed
    /\ UNCHANGED <<conf, loaded, rows>>

\* DELETE /strategies/{id}
delete_strategy(i) ==
    /\ Fault /\ i \in DOMAIN rows /\ ~rows[i].archived
    /\ rows' = [rows EXCEPT ![i].archived = TRUE]
    /\ gone' = gone \cup {rows[i].name}
    /\ sync' = Disturbed
    /\ UNCHANGED <<code, conf, loaded>>

\* The server restarts: its requests die, its modules are imported anew
Restart ==
    /\ Fault
    /\ loaded' = 0 /\ sync' = [y \in Syncs |-> Idle]
    /\ UNCHANGED <<code, conf, rows, gone>>

Next ==
    \/ \E y \in Syncs : Discover(y) \/ ReadRows(y) \/ WriteRows(y)
    \/ \E s \in Names : EditStrategy(s) \/ RemoveFile(s)
    \/ \E i \in Ids : delete_strategy(i)
    \/ EditConfig
    \/ Restart

Spec == Init /\ [][Next]_vars
-----------------------------------------------------------------------------
\* A registered strategy whose file was there all along, and that no user
\* archived, keeps an active row: neither a file that fails to import for a
\* while nor two requests that each archive the other's duplicate lose it.
NoNameLost ==
    \A s \in Names \ gone : Rows(Ids, s) # {} => Active(s) # {}

\* Ghost: an undisturbed synchronisation has just written
Synced(y) == sync[y].at = "read" /\ sync[y].undisturbed /\ sync'[y].at = "idle" /\ rows' # rows

\* A synchronisation that no other one overlapped leaves one active row for a
\* name it discovered, whatever duplicates overlapping ones had inserted.
\* An action property: [][SyncRepairs]_vars.
SyncRepairs ==
    \A y \in Syncs : Synced(y) =>
       \A s \in sync[y].found : Cardinality(Active(s)') <= 1

\* After a synchronisation that no edit overlapped, the stored schema is that
\* of the files on disk.
\* Does not hold: after an edit of config.py the hash changes, but the schema
\* extracted with it is that of the config module the server imported before;
\* the new hash then keeps it in place, also after a restart.
SchemaFollowsFiles ==
    [][\A y \in Syncs : Synced(y) =>
          \A s \in sync[y].found : \A i \in Active(s)' :
             rows'[i].schema = _combined_strategy_hash(s)]_vars

-----------------------------------------------------------------------------
(* What keeps them inductive *)

Request == [at: {"idle", "imported", "read"}, found: SUBSET Names, schema: [Names -> Pair],
            hash: [Names -> Pair], active: SUBSET Ids, archived: SUBSET Ids, undisturbed: BOOLEAN]

RowsAreTyped == DOMAIN rows \subseteq Ids /\ rows \in [DOMAIN rows -> Row]

MissingIsGone == \A s \in Names : code[s] = 0 => s \in gone

\* Every request keeps the least row it knows, so none archives the least of all.
LeastIsActive ==
    \A s \in Names \ gone : \A i \in Rows(Ids, s) :
        (\A j \in Rows(Ids, s) : i <= j) => ~rows[i].archived

\* What an undisturbed request has read is still so.
ReadIsCurrent(y) ==
    sync[y].at = "read" /\ sync[y].undisturbed => sync[y].active = {i \in DOMAIN rows : ~rows[i].archived}

SoundSync ==
    /\ TypeOK /\ RowsAreTyped /\ sync \in [Syncs -> Request]
    /\ MissingIsGone /\ LeastIsActive
    /\ \A y \in Syncs : ReadIsCurrent(y)
=============================================================================
