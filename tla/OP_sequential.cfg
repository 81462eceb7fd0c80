SPECIFICATION FairSpec
CONSTANTS
    o1 = o1
    c1 = c1
    n1 = n1
    Products = {p1}
    Orders = {o1}
    Demand <- OneUnitEach
    InitStock <- OneUnit
    Customers = {c1}
    Owner <- OneOrder
    CouponOrders = {o1}
    Workers = {w1}
    Roles = {"admin", "staff", "warehouse"}
    Methods = {"cod", "sepay"}
    Simulations = {"success", "failed"}
    Transfers = {n1}
    TransferOrder <- TransferForFirst
    MaxDeliveries = 2
    MaxShipments = 1
    MaxCrashes = 1
INVARIANTS
    TypeOK
    CancelledHoldsNothing
    PaidTransferConfirmsOrder
PROPERTIES
    OrderNeverGoesBack
    TransferIsRecorded
