SPECIFICATION Spec
CONSTANTS
    phone = phone
    shirt = shirt
    Orders <- MCOrders
    Workers = {w1, w2}
    Sweepers = {s1}
    Serialized <- MCSerialized
    Econfirm <- MCEconfirm
    SellerMay <- MCSellerMay
    Production = FALSE
    SplitSupported = TRUE
    Overlap = FALSE
    MaxCases = 2
SYMMETRY Sessions
INVARIANTS
    SettlementAgrees
    NoStrandedReturnCase
    EscalationDecidable
PROPERTIES
    KeepsPromise
CHECK_DEADLOCK FALSE
