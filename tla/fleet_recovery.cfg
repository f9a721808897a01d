\* A supervisor crash or shutdown, with auto-restart: no row stays orphaned.
SPECIFICATION FairSpec
CONSTANTS
    MaxRestarts = 2
    MaxRows     = 2
    MaxAttempts = 1
    MaxStarts   = 1
    MaxStops    = 0
    MaxHalts    = 0
    MaxFaults   = 0
    MaxCrashes  = 1
    SlowBoot    = FALSE
PROPERTY NoOrphanRow
CHECK_DEADLOCK FALSE
