SPECIFICATION Spec
CONSTANTS
    pA = pA
    pB = pB
    Products <- TwoProducts
    Orders = {1, 2}
    Cart <- CrossedCart
    InitStock <- ScarceStock
    Sessions = {s1, s2}
    Settlers = {s1, s2}
    AdminJobs <- Corrections
    NoSession = NoSession
    SnapshotReads = TRUE
    MaxAdminJobs = 1
    MaxAborts = 1
SYMMETRY SessionSymmetry
INVARIANTS
    TypeOK
    ReserveAllOrNothing
    RowsExplained
    ReservedIsPending
    NothingOversold
PROPERTIES
    SettledIsFinal
    RefinesLedger
