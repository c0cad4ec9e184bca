SPECIFICATION FairSpec
CONSTANTS
    Request = {r1, r2, r3}
    MaxCrashes = 1
INVARIANTS
    TypeOK
    Exclusive
    CleanupSees
    OneInterrupted
    BusyHasOwner
    MaintenanceCounts
PROPERTIES
    GetsFree
CHECK_DEADLOCK FALSE
