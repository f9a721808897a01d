\* The services of the API and of the workers, one at a time.
SPECIFICATION Spec
CONSTANTS
    a1 = a1
    a2 = a2
    a3 = a3
    b1 = b1
    b2 = b2
    c1 = c1
    MaxFaults = 1
    MaxJobFaults = 2
    MaxTries = 2
    MaxRows = 3
    Starts = {a1, a2}
    Accounts = {b1, b2}
    Users = {"u1", "u2"}
    Linkable = {c1}
    Approved = {c1}
    Editors = {a3}
    MaxRotations = 1
    MaxEdits = 1
    Creators = {a1, a2}
    Operators = {b1, b2}
    Legacy = c1
    IbAccounts = {"i1", "i2", "i3"}
    Pools = {{"s1", "s2"}, {"s1", "s2", "s3"}}
    Heals = {a1, a2, a3}
    Smokes = {a1, a2}
    Ingests = {b1}
    LastDay = 2
    Recent = {2}
    Builders = {a1, a2}
    Files = {"f1", "f2"}
    MaxWrites = 2
    MaxBuilds = 3
    Onboards = {a1, a2}
    Repairs = {b1}
    Symbols = {"s1", "s2"}
    Adders = {a1, a2, a3}
    Snapshots = {b1, b2}
    Strategies = {"x", "y", "z"}
    Graduated = {"x", "y"}
    Promotable = {"x", "y"}
    Backable = {"x"}
    Promoters = {a1, a2}
    Clerks = {a3}
    Composers = {a1, a2}
    Selections <- Pairs
    OddSelections <- Odd
    Configs = {b1, b2}
    Default = b1
    Nobody = Nobody
    Timeless = {"eq"}
    Dated = {"fut"}
    Names = {"A", "B"}
    Unmapped = "Q"
    Clients = {a1, a2}
    LastDate = 3
    MaxOps = 3
    Paths = {"s"}
    Syncs = {a1, a2}
    RowIds = {1, 2, 3}
    MaxVersion = 2
    Bad = {2}
    Grid = 3
    Searches <- Asks
    Outcomes <- Results
    MinHoldout = 1
    MaxHoldout = 2
    AutoDays = 8
    AutoPct = 20
    HalvingCount = 3
    HalvingDays = 3
    DefaultTrades = 2
    MaxTrials = 2
    Members = {a1, a2, a3}
    Ranges = {30, 90, 149, 200, 320, 400}
    TrialCounts = {1, 3}
    Leases = {1, 2}
    Parallelism = {1, 2, 3}
    Backtests = {"b"}
    Researches = {"r"}
    Portfolios = {"p"}
    Batches = {{"b"}, {"r", "p"}}
    Slots <- SlotsOf
    ComputeSlots = 2
INVARIANTS TypeOK  
PROPERTIES
    AdmissionHolds  CompositionsHold NamesAreStable StrategiesAreKept SearchIsFair
    
CHECK_DEADLOCK FALSE
