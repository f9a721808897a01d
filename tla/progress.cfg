\* The parts of the system that must make progress, one at a time.
SPECIFICATION FairSpec
CONSTANTS
    a1 = a1
    a2 = a2
    a3 = a3
    MaxFaults = 1
    Deployments = {a1}
    Feeds = {"f"}
    Universes = {{"f"}}
    MaxRuns = 2
    MaxStalls = 1
    MaxResumes = 1
    Attempts = {a1, a2, a3}
    Bodies = {"b1", "b2"}
    MaxSlow = 1
    MaxCrashes = 1
    Backtests = {"b"}
    Researches = {"r"}
    Portfolios = {"p"}
    Batches = {{"b"}, {"r", "p"}}
    Slots <- SlotsOf
    Limit = 2
    MaxTries = 2
    Grace = 1
    Cap = 1
    Window = 4
    Cooldown = 4
    Throttle = 2
PROPERTIES StaleFeedStopsNode OneRequestPerKey EveryJobEnds 
CHECK_DEADLOCK FALSE
