\* A /stop while a returning supervisor restarts what the last one left behind.
SPECIFICATION Spec
CONSTANTS
    MaxRestarts = 1
    MaxRows     = 2
    MaxAttempts = 1
    MaxStarts   = 1
    MaxStops    = 1
    MaxHalts    = 0
    MaxFaults   = 0
    MaxCrashes  = 1
    SlowBoot    = FALSE
CONSTRAINT StopAfterCrash
INVARIANTS OneActiveRow AutoRestartHonoursStop
CHECK_DEADLOCK FALSE
