SPECIFICATION ReconciledSpec
CONSTANTS
    split = split
    whole = whole
    Escrows <- MCEscrows
    EscrowOf <- MCEscrowOf
    Kind <- MCKind
    Amount <- MCAmount
    Total <- MCTotal
    RailOf <- MCRailOf
    AttemptCount = 2
    BatchSize = 2
    NoExecutor = nobody
    Executors = {x1}
    Routing = {"returns"}
    Interruptions = TRUE
    Reconciling = TRUE
PROPERTIES
    
    ReferencedIsAlerted
CHECK_DEADLOCK FALSE
