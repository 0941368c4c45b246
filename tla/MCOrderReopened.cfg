SPECIFICATION Spec
CONSTANTS
    phone = phone
    Orders <- MCOrders
    Workers = {w1, w2}
    Sweepers = {}
    Serialized = {}
    Econfirm = {}
    SellerMay <- MCSellerMay
    Production = FALSE
    SplitSupported = TRUE
    Overlap = TRUE
    MaxCases = 1
PROPERTIES
    ReleasedNotReopened
CHECK_DEADLOCK FALSE
