\* A /kill-all behind the in-flight key of an earlier /stop.
SPECIFICATION Spec
CONSTANTS
    MaxRestarts = 1
    MaxRows     = 2
    MaxAttempts = 1
    MaxStarts   = 2
    MaxStops    = 1
    MaxHalts    = 1
    MaxFaults   = 0
    MaxCrashes  = 0
    SlowBoot    = FALSE
CONSTRAINT OperatorsOnly
INVARIANT HaltReachesEveryNode
CHECK_DEADLOCK FALSE
