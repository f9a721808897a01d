\* The parts of a live node and of its supervisor, one at a time.
SPECIFICATION Spec
CONSTANTS
    a1 = a1
    a2 = a2
    a3 = a3
    b1 = b1
    b2 = b2
    MaxRuns = 2
    MaxFaults = 1
    MaxOps = 2
    MaxAge = 2
    MaxRead = 1
    OutageGrace = 2
    Halted = {a1}
    Universes = {{b1}, {b2}}
    Trades = {a1, a2}
    Watched = {"slow", "fast"}
    Interval <- Intervals
    GraceOf <- Graces
    StartupGrace = 3
    Horizon = 6
    Stops = {a1}
    Kills = {a2}
    Txns = {a1, a2, a3}
    Deps = {1, 2}
    Gateway <- GatewaysOf
    LinkOrders <- OneOrder
    MaxTxns = 4
    Workers = {a1, a2}
    Projected = {b1}
    Client = b2
    MaxEvents = 2
    MaxAttempts = 3
    Accounts = {"acct"}
    Consumed = {"d1", "d2"}
    AccountOf <- OneAccount
    Spof = 1
    Ttl = 3
    StaleAfter = 1
    Cooldown = 2
    Deployments = {"d1", "d2", "d3", "d4"}
    Plan <- Plans
    PaperAccts = {"D1"}
    Endpoints = {"live1", "live2", "live3", "paper1"}
    PaperPorts = {"paper1"}
    Settings = "paper1"
    Configs <- GatewayConfigs
    Native = {"A", "B", "C"}
INVARIANTS
    TypeOK HaltStopsOrders OutageStopsTrading FillRecordedOnce StalenessIsExact StopAnswerIsHonest
     ProjectionFollows AlertsAreSent RoutingIsRight
PROPERTY ResumeTrustsThisRun
CHECK_DEADLOCK FALSE
