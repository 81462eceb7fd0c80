SPECIFICATION Spec
CONSTANTS
    None = None
    c1 = c1
    o1 = o1
    o2 = o2
    o3 = o3
    u1 = u1
    u2 = u2
    Coupons = {c1}
    Orders = {o1, o2, o3}
    UserOf <- Owners
    SubtotalOf <- Subtotals
    Handlers = {h1, h2}
    Configs <- SmallConfigs
    Patches <- SmallPatches
    MaxTime = 1
    MaxChanges = 2
    MaxDeaths = 1
SYMMETRY Alike
CHECK_DEADLOCK FALSE
INVARIANTS
    TypeOK
    CounterExact
PROPERTIES
    UsageWithinLimits
    InactiveStaysOff
