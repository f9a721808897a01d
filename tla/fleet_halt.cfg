\* One /kill-all and /resume against every spawn path.
SPECIFICATION Spec
CONSTANTS
    MaxRestarts = 1
    MaxRows     = 2
    MaxAttempts = 1
    MaxStarts   = 1
    MaxStops    = 0
    MaxHalts    = 1
    MaxFaults   = 0
    MaxCrashes  = 0
    SlowBoot    = FALSE
INVARIANT HaltReachesEveryNode
CHECK_DEADLOCK FALSE
