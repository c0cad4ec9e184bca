SPECIFICATION HeldSpec
CONSTANTS
    Session = {s1, s2}
    MaxExpired = 1
    UserOf <- MCUserOf
    Request = {r1}
    Boot = Boot
    NoSession = NoSession
    Faults = {"write", "crash"}
    Conn = {k1, k2}
    NoConn = NoConn
    Job = {j1}
    PruneAt = 256
    MaxLocks = 2
SYMMETRY Interchangeable
INVARIANTS
    HeldTypeOK
    NoOrphanTerminal
    NoOrphanUnlock
PROPERTIES
    LockWins
