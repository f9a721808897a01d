----------------------------- MODULE LockOrder ------------------------------
(***************************************************************************)
(* The PostgreSQL locks of the supervision transactions: the advisory lock    *)
(* of a gateway, the rows of deployments and of their nodes, and the rows a    *)
(* start request locks before them. Shows that two starts on one gateway       *)
(* exclude each other and that no set of transactions waits for itself.        *)
(***************************************************************************)
EXTENDS Integers, Sequences, FiniteSets, SequencesExt

CONSTANTS
    Txns,                   \* transactions that may be open at once
    Deps,                   \* deployments, by ascending id
    Gateway,                \* the gateway of each deployment
    LinkOrders,             \* the order in which start requests lock their members' candidates
    MaxTxns                 \* transactions in all

VARIABLES
    tx,                     \* each transaction: [path, deps, todo, ok]
    holder,                 \* holder of each lock that is held
    starting,               \* deployments with a row in starting, building or ready
    begun

vars == <<tx, holder, starting, begun>>

None == "none"
Adv(g)  == <<"advisory", g>>
Dep(d)  == <<"deployment", d>>
Node(d) == <<"node", d>>
Rev     == <<"revision", 0>>
Acct    == <<"account", 0>>
Cand(c) == <<"candidate", c>>

Closed == [path |-> None, deps |-> {}, todo |-> <<>>, ok |-> FALSE]
Held == DOMAIN holder

-----------------------------------------------------------------------------
(* The locks of each path, as a sequence of sets: those of a set are taken in any order. *)

\* Mutant: only the deployment row is locked.
PhaseAWithoutAdvisory(d) == <<{Dep(d)}>>
PhaseALocks(d) == <<{Adv(Gateway[d])}, {Dep(d)}>>

\* Mutant: a node row is locked before its deployment.
NodeFirst(d) == <<{Node(d)}, {Dep(d)}>>
\* stop, live_stop, the reaper, _mark_running, _mark_terminal, _mark_failed and the rest.
BothRowLocks(d) == <<{Dep(d)}, {Node(d)}>>

\* Mutant: a bare bulk UPDATE takes the rows in scan order.
ScanOrder(S) == <<{Dep(d) : d \in S}>>
\* SELECT ... ORDER BY id FOR UPDATE of watchdog, heartbeat sweep and re-scan.
ById(S) == CHOOSE f \in [1..Cardinality(S) -> S] : \A i, j \in 1..Cardinality(S) : i < j => f[i] < f[j]
DepsById(S) == [i \in 1..Cardinality(S) |-> {Dep(ById(S)[i])}]
SweepLocks(S) == DepsById(S) \o <<{Node(d) : d \in S}>>

\* The stop intent re-read of Phase C, and heartbeats.
NodeOnlyLocks(d) == <<{Node(d)}>>

StartLocks(d) == <<{Rev}, {Acct}, {Dep(d)}>>
AccountLocks == <<{Acct}>>
LinkLocks(order) == [i \in 1..Len(order) |-> {Cand(order[i])}]

-----------------------------------------------------------------------------
Open(t, path, deps, todo) ==
    /\ tx[t] = Closed /\ begun < MaxTxns /\ begun' = begun + 1
    /\ tx' = [tx EXCEPT ![t] = [path |-> path, deps |-> deps, todo |-> todo, ok |-> FALSE]]
    /\ UNCHANGED <<holder, starting>>

Begin(t) ==
    \/ \E d \in Deps :
         \/ Open(t, "phaseA", {d}, PhaseALocks(d))
         \/ Open(t, "both", {d}, BothRowLocks(d))
         \/ Open(t, "node", {d}, NodeOnlyLocks(d))
         \/ Open(t, "start", {d}, StartLocks(d))
    \/ \E S \in (SUBSET Deps) \ {{}} : Open(t, "sweep", S, SweepLocks(S))
    \/ Open(t, "account", {}, AccountLocks)
    \/ \E o \in LinkOrders : Open(t, "link", {}, LinkLocks(o))

\* What it has yet to lock of the head; a bulk path re-locks rows it already holds.
Wants(t) ==
    IF tx[t].todo = <<>> THEN {}
    ELSE {l \in Head(tx[t].todo) : l \notin Held \/ holder[l] # t}

Acquire(t) ==
    \E l \in Wants(t) \ Held :
        /\ holder' = [k \in Held \cup {l} |-> IF k = l THEN t ELSE holder[k]]
        /\ tx' = [tx EXCEPT ![t].todo = IF Wants(t) = {l} THEN Tail(@) ELSE @]
        /\ UNCHANGED <<starting, begun>>

\* The concurrent-startup guard looks for another deployment starting on the gateway.
Guard(t) ==
    LET d == CHOOSE e \in tx[t].deps : TRUE IN
    /\ tx[t].path = "phaseA" /\ tx[t].todo = <<>> /\ ~tx[t].ok
    /\ ~\E e \in starting \ {d} : Gateway[e] = Gateway[d]
    /\ d \notin starting
    /\ tx' = [tx EXCEPT ![t].ok = TRUE]
    /\ UNCHANGED <<holder, starting, begun>>

\* Commit or rollback frees every lock. Phase A inserts its row, unless the guard or an
\* earlier gate refused it; the other paths may end a start.
Commit(t) ==
    /\ tx[t] # Closed /\ tx[t].todo = <<>>
    /\ IF tx[t].path = "phaseA"
       THEN starting' = IF tx[t].ok THEN starting \cup tx[t].deps ELSE starting
       ELSE \E S \in SUBSET tx[t].deps :
              /\ tx[t].path \in {"start", "node"} => S = {}
              /\ starting' = starting \ S
    /\ holder' = [k \in {l \in Held : holder[l] # t} |-> holder[k]]
    /\ tx' = [tx EXCEPT ![t] = Closed]
    /\ UNCHANGED begun

Init ==
    /\ tx = [t \in Txns |-> Closed] /\ holder = <<>> /\ starting = {} /\ begun = 0

Next == \E t \in Txns : Begin(t) \/ Acquire(t) \/ Guard(t) \/ Commit(t)

Spec == Init /\ [][Next]_vars

-----------------------------------------------------------------------------
Locks == {Adv(Gateway[d]) : d \in Deps} \cup {Dep(d) : d \in Deps} \cup {Node(d) : d \in Deps}
            \cup {Rev, Acct} \cup {Cand(c) : c \in UNION {Range(o) : o \in LinkOrders}}

TypeOK ==
    /\ starting \subseteq Deps /\ begun \in 0..MaxTxns
    /\ Held \subseteq Locks /\ \A l \in Held : holder[l] \in Txns

\* Two deployments never start on one gateway at once: a second client id would silently
\* disconnect the first. The guard reads and inserts under the gateway's advisory lock.
OneStartPerGateway ==
    \A d, e \in starting : Gateway[d] = Gateway[e] => d = e

\* No transactions wait for one another in a circle, whatever paths are open together.
NoWaitCycle ==
    \A S \in (SUBSET Txns) \ {{}} :
        \E t \in S : \/ tx[t] = Closed \/ tx[t].todo = <<>>
                     \/ \E l \in Wants(t) : l \notin Held \/ holder[l] \notin S

-----------------------------------------------------------------------------
(* What keeps them inductive *)

\* The candidates can be numbered so that every start request locks in descending order.
\* The code does not enforce it: members are locked by order_index, so revisions that share
\* candidates must list them in one order.
Candidates == UNION {Range(o) : o \in LinkOrders}
LinkOrdersAgree(after) ==
    /\ after \in [Candidates -> Nat]
    /\ \A o \in LinkOrders : \A i, j \in DOMAIN o : i < j => after[o[i]] > after[o[j]]

\* The total order that all paths descend; last is no less than any deployment.
Level(l, last, after) ==
    CASE l[1] = "node" -> 0
      [] l[1] = "deployment" -> 1 + last - l[2]
      [] l[1] \in {"account", "advisory"} -> last + 2
      [] l[1] = "revision" -> last + 3
      [] OTHER -> after[l[2]]

Own(t) == {l \in Held : holder[l] = t}

\* Every set of locks to come is one lock, or the nodes of a sweep.
StepsAreSmall(t) ==
    \A k \in DOMAIN tx[t].todo :
        /\ tx[t].todo[k] # {} /\ tx[t].todo[k] \subseteq Locks
        /\ \/ \E l \in Locks : tx[t].todo[k] = {l}
           \/ tx[t].path = "sweep" /\ tx[t].todo[k] = {Node(d) : d \in tx[t].deps}

\* What is to come is below what is held, and in descending order.
Descends(t, last, after) ==
    /\ \A i, j \in DOMAIN tx[t].todo : i < j =>
         \A x \in tx[t].todo[i], y \in tx[t].todo[j] : Level(x, last, after) > Level(y, last, after)
    /\ \A l \in Own(t), j \in DOMAIN tx[t].todo : \A y \in tx[t].todo[j] :
         Level(l, last, after) > Level(y, last, after) \/ (j = 1 /\ l \in tx[t].todo[1])

\* The locks that exclude others: a sweep's deployments, and the gateway of phase A.
Firm(t) ==
    {Dep(d) : d \in {e \in tx[t].deps : tx[t].path = "sweep"}}
       \cup {Adv(Gateway[d]) : d \in {e \in tx[t].deps : tx[t].path = "phaseA"}}
FirmIsHeld(t) == \A l \in Firm(t) : l \in Own(t) \/ \E k \in DOMAIN tx[t].todo : tx[t].todo[k] = {l}

\* The guard's answer holds until the commit.
GuardHolds(t) ==
    tx[t].ok => /\ tx[t].path = "phaseA" /\ tx[t].todo = <<>>
                /\ \A d \in tx[t].deps, e \in starting : Gateway[e] # Gateway[d]

TxIsSound(t, last, after) ==
    /\ StepsAreSmall(t) /\ Descends(t, last, after) /\ FirmIsHeld(t) /\ GuardHolds(t)
    /\ tx[t].path = None => tx[t].todo = <<>> /\ Own(t) = {}
    /\ tx[t].todo # <<>> => Wants(t) # {}
    /\ tx[t].path = "phaseA" => \E d \in Deps : tx[t].deps = {d}

Paths == {None, "phaseA", "both", "node", "start", "sweep", "account", "link"}

SoundLocks(last, after) ==
    /\ TypeOK /\ OneStartPerGateway
    /\ tx \in [Txns -> [path : Paths, deps : SUBSET Deps, todo : Seq(SUBSET Locks), ok : BOOLEAN]]
    /\ \A t \in Txns : TxIsSound(t, last, after)
=============================================================================
