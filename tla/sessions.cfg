SPECIFICATION FairSpec
CONSTANTS
    s1 = s1
    s2 = s2
    s3 = s3
    Session = {s1, s2, s3}
    MaxExpired = 1
    UserOf <- MCUserOf
    Request = {r1, r2}
    Boot = Boot
    NoSession = NoSession
    Faults = {"write", "nosync", "crash", "power"}
INVARIANTS
    TypeOK
    RecordAgrees
    MemoryIsRecord
    EndedForGood
PROPERTIES
    Answered
