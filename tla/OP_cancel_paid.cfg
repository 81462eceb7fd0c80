SPECIFICATION Spec
CONSTANTS
    o1 = o1
    c1 = c1
    n1 = n1
    Products = {p1}
    Orders = {o1}
    Demand <- OneUnitEach
    InitStock <- OneUnit
    Customers = {c1}
    Owner <- OneOrder
    CouponOrders = {}
    Workers = {w1}
    Roles = {}
    Methods = {"cod"}
    Simulations = {}
    Transfers = {n1}
    TransferOrder <- TransferForFirst
    MaxDeliveries = 0
    MaxShipments = 0
    MaxCrashes = 0
INVARIANT CancelledReturnsStock
