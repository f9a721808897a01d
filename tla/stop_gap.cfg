\* A /stop between a START's transient failure and its redelivery.
SPECIFICATION Spec
CONSTANTS
    MaxRestarts = 2
    MaxRows     = 2
    MaxAttempts = 2
    MaxStarts   = 1
    MaxStops    = 1
    MaxHalts    = 0
    MaxFaults   = 1
    MaxCrashes  = 0
    SlowBoot    = FALSE
INVARIANTS StopGatesEverySpawn
CHECK_DEADLOCK FALSE
