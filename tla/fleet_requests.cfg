\* Two start requests, a /stop, a failing call and a crash over one spawn.
SPECIFICATION Spec
CONSTANTS
    MaxRestarts = 2
    MaxRows     = 1
    MaxAttempts = 2
    MaxStarts   = 2
    MaxStops    = 1
    MaxHalts    = 0
    MaxFaults   = 1
    MaxCrashes  = 1
    SlowBoot    = FALSE
INVARIANT NodeIsOwned
CHECK_DEADLOCK FALSE
