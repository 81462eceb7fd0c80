SPECIFICATION Customers
CONSTANTS
    None = None
    Users = {u1}
    MailTokens = {k1}
    Handlers = {h1, h2}
    RefreshTtl = 2
    MailTtl = 1
    MaxTime = 2
    MaxDeaths = 1
    Products = {p1, p2}
    Available <- TwoOfEach
    MaxRows = 2
    MaxUnits = 2
    OrderItems = {i1, i2}
    Ratings = {1, 5}
    ShopSize = 2
    MaxReviews = 2
    MaxAddresses = 3
SYMMETRY Alike
CHECK_DEADLOCK FALSE
INVARIANTS
    TypesOK
    MailedTokenUsedOnce
    UnitsAccounted
    StatsCurrent
    OneDefault
PROPERTIES
    RevokedStaysRevoked
