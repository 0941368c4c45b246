SPECIFICATION SweptSpec
CONSTANTS
    phone = phone
    Orders <- MCOrders
    Workers = {w1}
    Sweepers = {s1}
    Serialized <- MCOrders
    Econfirm = {}
    SellerMay <- MCSellerMay
    Production = FALSE
    SplitSupported = TRUE
    Overlap = TRUE
    MaxCases = 2
INVARIANTS
    SettlementIsQueued
    PayoutsAreFunded
    OpenCaseHasDispute
PROPERTIES
    TimeoutsFire
CHECK_DEADLOCK FALSE
