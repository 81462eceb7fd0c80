SPECIFICATION AfterSales
CONSTANTS
    None = None
    Requests = {r1}
    UserOf <- Owners
    Handlers = {h1, h2}
    Methods = {m1}
    FraudLimit = 0
    MaxInspections = 1
    MaxRefunds = 2
    MaxDeaths = 1
    Items = {i1}
    Technicians = {t1}
    Changes = {"repairing", "returned"}
    MaxTickets = 2
    MaxUpdates = 4
    Providers <- TwoProviders
    Cods = {"pending"}
    MaxShipments = 1
    MaxReturns = 1
    MaxBookings = 2
    MaxFaults = 1
CHECK_DEADLOCK FALSE
PROPERTIES
    NoCancelAfterPickup
