SPECIFICATION Spec
CONSTANTS
    Orders = {o1, o2}
    Facts = {g1}
    o1 = o1
    o2 = o2
    g1 = g1
    ChainOf <- MCChainOf
    MatchOf <- MCMatchOf
    WrittenAt <- MCWrittenAt
    Global = Global
    None = None
    Old = {o1}
    Statuses = {awaiting, locked}
    Initial = awaiting
    Sessions = {s1, s2}
    Backfills = {b1}
    CommitEvery = 2
    MaxEvents = 3
    MaxWrites = 2
    MaxOpen = 2
SYMMETRY SessionsAlike
INVARIANTS
    ChainsLinear
    RowsAnchored
    
    FundingLinked
    LeavesProvable
