------------------------------- MODULE MCNode -------------------------------
\* The constants of Node that are functions or sets of records.
EXTENDS Node

CONSTANTS a1, a2, a3, b1, b2

\* Two feeds of unlike cadence, and the graces of the phases of a day.
Intervals == [slow |-> 3, fast |-> 1]
Graces    == [closed |-> 0, pre |-> 2, rth |-> 1]

\* The order in which start requests lock their candidates.
OneOrder == {<<"c1", "c2">>}

\* Two deployments, both on the first gateway.
GatewaysOf == [d \in 1 .. 3 |-> IF d = 3 THEN "g2" ELSE "g1"]
OneAccount == [d1 |-> "acct", d2 |-> "acct"]

\* Deployments of two live accounts and of a paper one, by its own login and by the
\* legacy one; Q has no bars of a native feed.
Member(i, b) == [inst |-> i, bar |-> b]
Plans ==
    [d1 |-> [login |-> "lvp",     acct |-> "U1", paper |-> FALSE, members |-> {Member("A", "A"), Member("B", "C")}],
     d2 |-> [login |-> "test",    acct |-> "D1", paper |-> TRUE,  members |-> {Member("A", "C")}],
     d3 |-> [login |-> "hvp",     acct |-> "U2", paper |-> FALSE, members |-> {Member("A", "A"), Member("Q", "Q")}],
     d4 |-> [login |-> "default", acct |-> "D1", paper |-> TRUE,  members |-> {Member("B", "B")}]]

\* What GATEWAY_CONFIG may say: nothing, one good configuration, and four with a
\* mistake: an account twice, a port of the wrong kind, an endpoint twice.
Route(l, e, a) == [login |-> l, ep |-> e, accts |-> a]
GatewayConfigs ==
    {<<>>,
     <<Route("lvp", "live1", {"U1"}), Route("test", "paper1", {})>>,
     <<Route("lvp", "live1", {"U2"}), Route("hvp", "live2", {"U2"}), Route("test", "live3", {})>>,
     <<Route("lvp", "paper1", {}), Route("hvp", "live1", {})>>,
     <<Route("lvp", "live1", {"U1"}), Route("hvp", "live1", {"U2"})>>}
=============================================================================
