\* One failing call, one crash and one /stop around one spawn: no row stays orphaned.
SPECIFICATION FairSpec
CONSTANTS
    MaxRestarts = 1
    MaxRows     = 1
    MaxAttempts = 1
    MaxStarts   = 1
    MaxStops    = 1
    MaxHalts    = 0
    MaxFaults   = 1
    MaxCrashes  = 1
    SlowBoot    = FALSE
PROPERTY NoOrphanRow
CHECK_DEADLOCK FALSE
