SPECIFICATION FairSpec
CONSTANTS
    pA = pA
    pB = pB
    Products <- TwoProducts
    Orders = {1, 2, 3}
    Cart <- ThreeCarts
    InitStock <- ScarceStock
    Sessions = {s1, s2, s3}
    Settlers = {s1}
    AdminJobs <- NoCorrections
    NoSession = NoSession
    SnapshotReads = TRUE
    MaxAdminJobs = 0
    MaxAborts = 1
PROPERTIES
    TransactionsEnd
    HoldsAreTemporary
