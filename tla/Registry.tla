------------------------------ MODULE Registry ------------------------------
(***************************************************************************)
(* The instrument registry: which alias (symbol and venue) names an        *)
(* instrument of a provider on which day.  A row is valid on the half-open *)
(* window [from, to); a refresh or a bootstrap closes the old name and     *)
(* opens the new one, and every lookup asks for the name as of a day.      *)
(*                                                                         *)
(* A definition stands for one (raw_symbol, provider, asset_class).  Two   *)
(* definitions share no alias here: the alias holds the symbol, and a      *)
(* symbol bootstrapped under two asset classes is not modelled.            *)
(***************************************************************************)
EXTENDS Naturals, FiniteSets, FiniteSetsExt

CONSTANTS
    Timeless,      \* definitions of equities, currency pairs and crypto
    Dated,         \* definitions of futures
    Names,         \* the venues an alias of a definition may carry
    Unmapped,      \* a venue code that venue_normalization does not know
    Clients,       \* sessions that bootstrap a symbol
    LastDay,       \* bound on the exchange-local date
    MaxOps         \* bound on the registrations

VARIABLES
    today,   \* exchange_local_today()
    rows,    \* the alias rows
    client,  \* a bootstrap: the definition it locked and what it read there
    latest,  \* the name of each definition registered last
    ops

vars == <<today, rows, client, latest, ops>>

Defs == Timeless \cup Dated

None == "none"
FarPast == 0          \* date(1900, 1, 1)
Days == FarPast..LastDay
Open == LastDay + 1   \* effective_to IS NULL

Row == [def: Defs, name: Names, from: Days, to: Days \cup {Open}]

RowsOf(d) == {r \in rows : r.def = d}

ActiveOn(d, day) == {r \in RowsOf(d) : r.from <= day /\ r.to > day}

TypeOK ==
    /\ today \in 1..LastDay
    /\ rows \subseteq Row
    /\ client \in [Clients -> [at: {"idle", "locked", "done"}, def: Defs, name: Names,
                               found: Names \cup {None},
                               outcome: {None, "created", "noop", "alias_rotated", "unmapped_venue",
                                         "ambiguous", "unauthorized", "rate_limited",
                                         "upstream_error"}]]
    /\ latest \in [Defs -> Names \cup {None}]
    /\ ops \in 0..MaxOps

Init ==
    /\ today = 1
    /\ rows = {}
    /\ client \in [Clients -> [at: {"idle"}, def: Defs, name: {CHOOSE n \in Names : TRUE},
                               found: {None}, outcome: {None}]]
    /\ latest = [d \in Defs |-> None]
    /\ ops = 0
-----------------------------------------------------------------------------
(* _upsert_definition_and_alias *)

\* Mutant: the rows of the old name stay open
CloseNothing(d, n, rs) == rs

\* close_stmt: every open row of the definition under another name ends today
CloseOthers(d, n, rs) ==
    {IF r.def = d /\ r.to = Open /\ r.name # n THEN [r EXCEPT !.to = today] ELSE r : r \in rs}

\* Mutant: a venue swap is backdated like a first registration
AlwaysFarPast(d) == IF d \in Timeless THEN FarPast ELSE today

\* Mutant: an equity's first alias starts on the day it was registered
AlwaysToday(d) == today

\* The first alias of a timeless definition has always been valid
EffectiveFrom(d) == IF d \in Timeless /\ RowsOf(d) = {} THEN FarPast ELSE today

\* Mutant: ON CONFLICT DO NOTHING
KeepOnConflict(d, n, rs) ==
    IF \E r \in rs : r.def = d /\ r.name = n /\ r.from = EffectiveFrom(d)
    THEN rs ELSE rs \cup {[def |-> d, name |-> n, from |-> EffectiveFrom(d), to |-> Open]}

\* alias_stmt: a row of the same name and start is opened again
OpenAlias(d, n, rs) ==
    {r \in rs : ~(r.def = d /\ r.name = n /\ r.from = EffectiveFrom(d))}
       \cup {[def |-> d, name |-> n, from |-> EffectiveFrom(d), to |-> Open]}

Upsert(d, n) ==
    /\ ops < MaxOps /\ ops' = ops + 1
    /\ rows' = OpenAlias(d, n, CloseOthers(d, n, rows))
    /\ latest' = [latest EXCEPT ![d] = n]
-----------------------------------------------------------------------------
(* Lookups *)

\* find_by_alias: the newest row of that name valid on the day
find_by_alias(d, n, day) == \E r \in ActiveOn(d, day) : r.name = n

\* Resolution of a bare symbol for a backtest that starts on the day: any
\* active alias (the code takes the first of the relation)
resolve_for_backtest(d, day) == {r.name : r \in ActiveOn(d, day)}

\* _pick_active_alias: the newest start; two rows with it are ambiguous
_pick_active_alias(d, day) ==
    LET active == ActiveOn(d, day)
    IN  {r.name : r \in {s \in active : \A o \in active : o.from <= s.from}}
-----------------------------------------------------------------------------
(* Bootstrap from Databento *)

\* Mutant: no advisory lock
LockAlways(d) == TRUE

\* pg_advisory_xact_lock on (provider, symbol, asset class), until the commit
LockFree(d) == \A c \in Clients : ~(client[c].at = "locked" /\ client[c].def = d)

Datasets == 1..3

Severity(o) == CASE o = "unauthorized" -> 3 [] o = "rate_limited" -> 2
                 [] o \in {"upstream_error", "unmapped_venue"} -> 1 [] OTHER -> 0

\* What the datasets answer, in order: a definition, an ambiguity and a rate
\* limit end the search; otherwise the worst error stands
Decisive(a) == a \in Names \cup {Unmapped, "ambiguous", "rate_limited"}

Verdict(answers) ==
    LET ends == {k \in Datasets : Decisive(answers[k])}
        errors == {answers[k] : k \in Datasets} \ {"nothing"}
    IN  IF ends # {} THEN answers[Min(ends)]
        ELSE IF errors = {} THEN "upstream_error"
        ELSE CHOOSE e \in errors : \A o \in errors : Severity(o) <= Severity(e)

Verdicts == {Verdict(a) : a \in [Datasets -> Names \cup {Unmapped, "nothing", "ambiguous",
                                             "unauthorized", "rate_limited", "upstream_error"}]}

Finish(c, o) == client' = [client EXCEPT ![c].at = "done", ![c].outcome = o]

\* _find_active_databento_alias
OpenNames(d) == LET names == {r.name : r \in {s \in RowsOf(d) : s.to = Open}}
                IN  IF names = {} THEN {None} ELSE names

\* The transaction takes the lock and reads the open alias
Lock(c, n) ==
    LET d == client[c].def IN
    /\ LockFree(d)
    /\ \E f \in OpenNames(d) :
         client' = [client EXCEPT ![c].at = "locked", ![c].name = n, ![c].found = f]

\* An equity is searched outside any lock, then registered
SearchEquity(c) ==
    /\ client[c].at = "idle" /\ client[c].def \in Timeless
    /\ \E v \in Verdicts :
         \/ v \in Names /\ Lock(c, v)
         \/ v \notin Names /\ Finish(c, IF v = Unmapped THEN "unmapped_venue" ELSE v)
    /\ UNCHANGED <<today, rows, latest, ops>>

\* A continuous future is locked first and searched only if it has no alias
LockFuture(c) ==
    /\ client[c].at = "idle" /\ client[c].def \in Dated
    /\ \E n \in Names : Lock(c, n)
    /\ UNCHANGED <<today, rows, latest, ops>>

\* A warm continuous future keeps its open alias and writes nothing
Register(c) ==
    LET d == client[c].def
        n == client[c].name
        f == client[c].found
    IN
    /\ client[c].at = "locked"
    /\ IF d \in Dated /\ f # None
       THEN UNCHANGED <<rows, latest, ops>> /\ Finish(c, "noop")
       ELSE /\ Upsert(d, n)
            /\ Finish(c, IF f = None THEN "created" ELSE IF f = n THEN "noop" ELSE "alias_rotated")
    /\ UNCHANGED today

\* The transaction, or the search for a future inside it, fails: rolled back
RegisterFails(c) ==
    /\ client[c].at = "locked"
    /\ \/ Finish(c, "upstream_error")
       \/ /\ client[c].def \in Dated /\ client[c].found = None
          /\ \E o \in {"ambiguous", "unauthorized", "rate_limited"} : Finish(c, o)
    /\ UNCHANGED <<today, rows, latest, ops>>
-----------------------------------------------------------------------------
(* Qualification by Interactive Brokers, under the same advisory lock *)

\* _resolve_one: an equity or currency pair whose name is valid today is built
\* from its spec; anything else is qualified by the broker and registered
\* under the name the broker gave
Qualify(d) ==
    /\ LockFree(d)
    /\ \E asked, n \in Names :
         /\ ~(d \in Timeless /\ find_by_alias(d, asked, today))
         /\ Upsert(d, n)
    /\ UNCHANGED <<today, client>>

Midnight ==
    /\ today < LastDay
    /\ today' = today + 1
    /\ UNCHANGED <<rows, client, latest, ops>>

Next ==
    \/ \E c \in Clients : SearchEquity(c) \/ LockFuture(c) \/ Register(c) \/ RegisterFails(c)
    \/ \E d \in Defs : Qualify(d)
    \/ Midnight

Spec == Init /\ [][Next]_vars
-----------------------------------------------------------------------------
\* Whatever names were registered in which order, a backtest over a registered
\* equity resolves to exactly one name on every day of history, and a future to
\* at most one: the windows leave no gap and do not overlap under two names.
WindowsTile ==
    \A d \in Defs, day \in Days \ {FarPast} :
        /\ Cardinality(resolve_for_backtest(d, day)) <= 1
        /\ d \in Timeless /\ RowsOf(d) # {} => resolve_for_backtest(d, day) # {}

\* A live start finds the name registered last, and no ambiguity: also after
\* the name changed back and forth within a day.
LatestIsLive ==
    \A d \in Defs : latest[d] # None => _pick_active_alias(d, today) = {latest[d]}

\* A registration never rewrites what an earlier day resolved to: a backtest
\* repeated after a venue change reads the bars it read before.
\* An action property: [][PastIsStable]_vars.
PastIsStable ==
    \A d \in Defs, day \in 1..(today - 1) :
       RowsOf(d) # {} => resolve_for_backtest(d, day)' = resolve_for_backtest(d, day)

\* Of two bootstraps of one symbol, one reports that it created the definition.
CreatedOnce ==
    \A c, e \in Clients : (c # e /\ client[c].def = client[e].def) =>
        ~(client[c].outcome = "created" /\ client[e].outcome = "created")

-----------------------------------------------------------------------------
(* What keeps them inductive *)

\* A row started by today; a closed one also ended by today.
RowsAreWritten ==
    \A r \in rows : r.from <= today /\ (r.to = Open \/ (r.from <= r.to /\ r.to <= today))

\* Of two names of a definition, one ended before the other began.
NamesAreApart ==
    \A r, s \in rows : r.def = s.def /\ r.name # s.name => r.to <= s.from \/ s.to <= r.from

\* The rows of an equity leave no day out.
NoGap ==
    \A d \in Timeless, day \in Days \ {FarPast} : RowsOf(d) # {} => ActiveOn(d, day) # {}

\* Only the name registered last is open, and one of its rows started last.
LatestIsOpen(d) ==
    IF latest[d] = None THEN RowsOf(d) = {}
    ELSE \E r \in RowsOf(d) :
           /\ r.to = Open
           /\ \A o \in RowsOf(d) : o.to = Open => o.name = latest[d] /\ o.from <= r.from

\* A bootstrap that holds the lock holds it alone and knows whether the definition has a
\* row; one that created the definition left it one.
BootstrapKnows ==
    /\ \A c, e \in Clients : client[c].at = "locked" /\ client[e].at = "locked"
                                /\ client[c].def = client[e].def => c = e
    /\ \A c \in Clients :
         /\ client[c].at = "locked" /\ client[c].found = None => RowsOf(client[c].def) = {}
         /\ client[c].outcome = "created" => client[c].at = "done" /\ RowsOf(client[c].def) # {}

SoundAliases ==
    /\ TypeOK /\ RowsAreWritten /\ NamesAreApart /\ NoGap /\ BootstrapKnows /\ CreatedOnce
    /\ \A d \in Defs : LatestIsOpen(d)
=============================================================================
