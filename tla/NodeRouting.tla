----------------------------- MODULE NodeRouting -----------------------------
(***************************************************************************)
(* Which gateway a deployment's orders go to and which feeds its node       *)
(* listens to. GATEWAY_CONFIG is read once by each process: the API checks  *)
(* a start against its own copy, the supervisor's payload factory routes    *)
(* with another, so an operator who edits the configuration and restarts    *)
(* one of them leaves the two in disagreement. A restart of the supervisor  *)
(* takes its children with it.                                              *)
(***************************************************************************)
EXTENDS Naturals, FiniteSets, Sequences

CONSTANTS
    Deployments,
    Plan,         \* the row of each: [login, acct, paper, members]; a member is [inst, bar]
    PaperAccts,   \* the accounts with a paper prefix
    Endpoints,    \* gateways
    PaperPorts,   \* those on a paper port
    Settings,     \* the endpoint of IB_HOST and IB_PORT
    Configs,      \* values of GATEWAY_CONFIG: sequences of [login, ep, accts]
    Native,       \* the instruments with a Databento target
    MaxEdits      \* bound on edits of the configuration

VARIABLES
    config,       \* GATEWAY_CONFIG
    api, sup,     \* the routers that the two processes have parsed
    stage,        \* of each deployment: idle, queued, reserved, starting, running
    node,         \* of each: the gateway and the feeds of its node
    edits

vars == <<config, api, sup, stage, node, edits>>

NoNode == [ep |-> "none", source |-> "none", feeds |-> {}]

\* A process that does not come up.
Down == [up |-> FALSE, routes |-> <<>>]

-----------------------------------------------------------------------------
(* GatewayRouter *)

\* Mutant: two logins may name one gateway.
ParsesByLogin(c) ==
    \A i, j \in DOMAIN c : i # j => c[i].login # c[j].login

\* Neither a login nor an endpoint occurs twice.
Parses(c) ==
    \A i, j \in DOMAIN c : i # j => c[i].login # c[j].login /\ c[i].ep # c[j].ep

Boot(c) == IF Parses(c) THEN [up |-> TRUE, routes |-> c] ELSE Down

Entries(router, login) ==
    {router.routes[i] : i \in {k \in DOMAIN router.routes : router.routes[k].login = login}}

\* An entry without accounts binds none.
Binds(entry, acct) == entry.accts = {} \/ acct \in entry.accts

-----------------------------------------------------------------------------
(* The processes. *)

Reconfigure(c) ==
    /\ edits < MaxEdits /\ edits' = edits + 1
    /\ c # config /\ config' = c
    /\ UNCHANGED <<api, sup, stage, node>>

BootApi ==
    /\ api # Boot(config)
    /\ api' = Boot(config)
    /\ UNCHANGED <<config, sup, stage, node, edits>>

\* Mutant: the nodes of the last supervisor are taken to run on.
BootKeepsNodes ==
    /\ sup # Boot(config)
    /\ sup' = Boot(config)
    /\ stage' = [d \in Deployments |-> IF stage[d] = "queued" THEN "queued" ELSE "idle"]
    /\ UNCHANGED <<config, api, node, edits>>

\* The children of a supervisor die with its container; unread commands stay.
BootSupervisor ==
    /\ sup # Boot(config)
    /\ sup' = Boot(config)
    /\ stage' = [d \in Deployments |-> IF stage[d] = "queued" THEN "queued" ELSE "idle"]
    /\ node' = [d \in Deployments |-> NoNode]
    /\ UNCHANGED <<config, api, edits>>

-----------------------------------------------------------------------------
(* The start of a deployment. *)

IsRouted(d) == Plan[d].login \notin {"default", ""}

\* validate_account_row_state with the API's router; a deployment older than the
\* registry is not validated.
RowIsValid(d) ==
    /\ (Plan[d].acct \in PaperAccts) = Plan[d].paper
    /\ \E e \in Entries(api, Plan[d].login) : Binds(e, Plan[d].acct)

Admit(d) ==
    /\ stage[d] = "idle" /\ api.up
    /\ ~IsRouted(d) \/ RowIsValid(d)
    /\ stage' = [stage EXCEPT ![d] = "queued"]
    /\ UNCHANGED <<config, api, sup, node, edits>>

\* Phase A: no other deployment is starting under the same gateway_session_key.
Reserve(d) ==
    /\ stage[d] = "queued" /\ sup.up
    /\ \A e \in Deployments \ {d} :
         Plan[e].login = Plan[d].login => stage[e] \notin {"reserved", "starting"}
    /\ stage' = [stage EXCEPT ![d] = "reserved"]
    /\ UNCHANGED <<config, api, sup, node, edits>>

\* Mutant: the port of the settings is checked, not the one routed to.
PortOfSettings(ep, d) ==
    LET paper == Settings \in PaperPorts
    IN  paper = Plan[d].paper /\ paper = (Plan[d].acct \in PaperAccts)

\* validate_port_vs_paper_trading and validate_port_account_consistency.
PortAgrees(ep, d) ==
    LET paper == ep \in PaperPorts
    IN  paper = Plan[d].paper /\ paper = (Plan[d].acct \in PaperAccts)

\* Mutant: the API has checked the binding.
UncheckedRoutes(d) ==
    IF IsRouted(d) THEN {e.ep : e \in Entries(sup, Plan[d].login)} ELSE {Settings}

\* The routed endpoint, if the login is known and bound to the account; the settings'
\* endpoint for a legacy login.
Routes(d) ==
    IF IsRouted(d)
    THEN {e.ep : e \in {x \in Entries(sup, Plan[d].login) : Binds(x, Plan[d].acct)}}
    ELSE {Settings}

Instruments(d) == {m.inst : m \in Plan[d].members}

\* resolve_databento_targets: all the instruments have a target, or none is used. The bar
\* types of the members whose root is among them are mapped.
BarTypes(d) ==
    IF Instruments(d) \subseteq Native
    THEN {m.bar : m \in Plan[d].members} \cap Instruments(d)
    ELSE {}

\* Mutant: the bar-type map is not asked for.
PerAccountByTargets(d) == Instruments(d) \subseteq Native

\* TradingNodePayload.use_per_account_topology
use_per_account_topology(d) == BarTypes(d) # {}

\* build_per_account_trading_node_config: Databento bars, through the symbology shim.
NativeFeeds(d) == [source |-> "databento", feeds |-> BarTypes(d)]

\* build_portfolio_trading_node_config: the bars of the members from IB.
IbFeeds(d) == [source |-> "ib", feeds |-> {m.bar : m \in Plan[d].members}]

\* _build_real_node
Feeds(d) == IF use_per_account_topology(d) THEN NativeFeeds(d) ELSE IbFeeds(d)

\* The payload factory and the node it configures; a refusal fails the spawn.
Factory(d) ==
    /\ stage[d] = "reserved"
    /\ LET eps == {e \in Routes(d) : PortAgrees(e, d)}
       IN  IF eps = {}
           THEN stage' = [stage EXCEPT ![d] = "idle"] /\ UNCHANGED node
           ELSE /\ stage' = [stage EXCEPT ![d] = "starting"]
                /\ \E e \in eps :
                     node' = [node EXCEPT ![d] = [ep     |-> e,
                                                  source |-> Feeds(d).source,
                                                  feeds  |-> Feeds(d).feeds]]
    /\ UNCHANGED <<config, api, sup, edits>>

MarkRunning(d) ==
    /\ stage[d] = "starting"
    /\ stage' = [stage EXCEPT ![d] = "running"]
    /\ UNCHANGED <<config, api, sup, node, edits>>

StopNode(d) ==
    /\ stage[d] \in {"starting", "running"}
    /\ stage' = [stage EXCEPT ![d] = "idle"]
    /\ node' = [node EXCEPT ![d] = NoNode]
    /\ UNCHANGED <<config, api, sup, edits>>

-----------------------------------------------------------------------------
Init ==
    /\ config \in Configs /\ api = Boot(config) /\ sup = Boot(config)
    /\ stage = [d \in Deployments |-> "idle"]
    /\ node = [d \in Deployments |-> NoNode]
    /\ edits = 0

Next ==
    \/ \E c \in Configs : Reconfigure(c)
    \/ BootApi \/ BootSupervisor
    \/ \E d \in Deployments :
         Admit(d) \/ Reserve(d) \/ Factory(d) \/ MarkRunning(d) \/ StopNode(d)

Spec == Init /\ [][Next]_vars

-----------------------------------------------------------------------------
TypeOK ==
    /\ config \in Configs /\ api.routes \in Configs \cup {<<>>} /\ sup.routes \in Configs \cup {<<>>}
    /\ stage \in [Deployments -> {"idle", "queued", "reserved", "starting", "running"}]
    /\ \A d \in Deployments : /\ node[d].ep \in Endpoints \cup {"none"}
                              /\ node[d].ep = "none" <=> stage[d] \in {"idle", "queued", "reserved"}

\* A node trades through a gateway of its account's own kind, one that the supervisor's
\* configuration binds to the account, whatever the API was told when the start was
\* admitted.
RouteIsRight ==
    \A d \in Deployments : node[d] # NoNode =>
        /\ (node[d].ep \in PaperPorts) = (Plan[d].acct \in PaperAccts)
        /\ (Plan[d].acct \in PaperAccts) = Plan[d].paper
        /\ IsRouted(d) => \E e \in Entries(sup, Plan[d].login) :
                              e.ep = node[d].ep /\ Binds(e, Plan[d].acct)

\* Two starts on one gateway never overlap, for every two deployments with a login of
\* GATEWAY_CONFIG: the startup guard goes by login, so it is the parser that makes a
\* login as good as a gateway.
OneStartPerSession ==
    \A d, e \in {x \in Deployments : IsRouted(x)} :
        stage[d] = "starting" /\ stage[e] = "starting" /\ node[d].ep = node[e].ep => d = e

\* Does not hold: a legacy deployment (login "default") goes to the settings' gateway,
\* which GATEWAY_CONFIG may name too.
OneStartPerEndpoint ==
    \A d, e \in Deployments :
        stage[d] = "starting" /\ stage[e] = "starting" /\ node[d].ep = node[e].ep => d = e

\* A node always has a feed: without a bar type to subscribe to the node falls back to
\* the data of its own gateway.
NoBlindNode == \A d \in Deployments : node[d] # NoNode => node[d].feeds # {}

\* Why they hold, as an inductive invariant: a deployment has a node while it starts or
\* runs, a login is reserved by one start at a time, and the supervisor's router names no
\* login and no endpoint twice.
NodeWhileStarted ==
    /\ node = [d \in Deployments |-> node[d]]
    /\ \A d \in Deployments : node[d] # NoNode <=> stage[d] \in {"starting", "running"}

LoginIsReserved ==
    \A d, e \in Deployments :
        /\ Plan[d].login = Plan[e].login
        /\ stage[d] \in {"reserved", "starting"} /\ stage[e] \in {"reserved", "starting"}
        => d = e

RightRouting == TypeOK /\ RouteIsRight /\ NoBlindNode /\ NodeWhileStarted /\ LoginIsReserved
                  /\ Parses(sup.routes)

\* Does not hold: a member whose bar type is not of one of the instruments is left out of
\* the map without a word; its strategy never sees a bar, and no monitor misses it.
EveryMemberIsFed ==
    \A d \in Deployments : node[d] # NoNode =>
        \A m \in Plan[d].members : m.bar \in node[d].feeds
=============================================================================
