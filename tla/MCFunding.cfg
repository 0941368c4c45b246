SPECIFICATION Spec
CONSTANTS
    Orders = {o1, o2}
    Legacy = {o2}
    Buyers = {b1, b2}
    Poller = poller
    Admin = admin
    Total = 2
    Refs = {r1}
    MaxPushes = 2
    PollBudget = 1
    Deployments = {TRUE, FALSE}
    EconfirmUsed = TRUE
    Interruptions = TRUE
SYMMETRY ServedAlike
INVARIANTS
    FundedIsBooked
    BooksMatchFunding
    LockedIsFunded
    PushesFollowCustody
PROPERTIES
    StickyCustody
CHECK_DEADLOCK FALSE
