SPECIFICATION Spec
CONSTANTS
    pA = pA
    pB = pB
    Products <- OneProduct
    Orders = {1, 2}
    Cart <- OneLineCarts
    InitStock <- OneStock
    Sessions = {s1, s2}
    Settlers = {s1, s2}
    AdminJobs <- NoCorrections
    NoSession = NoSession
    SnapshotReads = FALSE
    MaxAdminJobs = 0
    MaxAborts = 0
INVARIANT ReservedMatchesPending
