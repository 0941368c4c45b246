SPECIFICATION Spec
CONSTANTS
    split = split
    whole = whole
    Escrows <- MCEscrows
    EscrowOf <- MCEscrowOf
    Kind <- MCKind
    Amount <- MCAmount
    Total <- MCTotal
    RailOf <- MCRailOf
    AttemptCount = 3
    BatchSize = 3
    NoExecutor = nobody
    Executors = {x1, x2}
    Routing = {"returns", "raises"}
    Interruptions = TRUE
    Reconciling = FALSE
SYMMETRY Sessions
INVARIANTS
    BooksMatchCounters
    PostedOnce
    SucceededIsPosted
    PostedWasSent
PROPERTIES
    KeepsAccount
CHECK_DEADLOCK FALSE
