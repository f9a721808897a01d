\* One operator /stop against every interleaving of the spawn and restart paths.
SPECIFICATION Spec
CONSTANTS
    MaxRestarts = 1
    MaxRows     = 2
    MaxAttempts = 1
    MaxStarts   = 1
    MaxStops    = 1
    MaxHalts    = 0
    MaxFaults   = 0
    MaxCrashes  = 0
    SlowBoot    = FALSE
INVARIANTS TypeOK NodeIsOwned AutoRestartHonoursStop
PROPERTY StoppedIsTerminal
CHECK_DEADLOCK FALSE
