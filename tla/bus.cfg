\* Two overlapping consumers, a malformed command and a crash.
SPECIFICATION FairSpec
CONSTANTS
    Consumers   = {c1, c2}
    MaxCommands = 2
    MaxDelivery = 3
    ReadCount   = 2
    ClaimCount  = 1
    MaxCrashes  = 1
    Malformed   = TRUE
INVARIANTS TypeOK NothingLost BoundedAttempts
PROPERTIES BusImplementsQueue EverythingSettles
CHECK_DEADLOCK FALSE
