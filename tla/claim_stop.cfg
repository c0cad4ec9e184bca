SPECIFICATION Spec
CONSTANTS
    Request = {r1, r2}
    MaxCrashes = 0
INVARIANTS
    ChangesKeepOut
CHECK_DEADLOCK FALSE
