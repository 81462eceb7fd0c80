SPECIFICATION FairSpec
CONSTANTS
    Contents = {c1, c2}
    Processes = {p1}
    Flushes = {f1, f2}
    Admins = {a1}
    MaxAttempts = 2
    BatchSize = 1
    MaxEnqueued = 1
    MaxMishaps = 1
CHECK_DEADLOCK FALSE
INVARIANTS
    TypeOK
    NothingLost
    StoredOnce
PROPERTY JobsSettle
