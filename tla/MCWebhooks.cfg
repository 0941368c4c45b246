SPECIFICATION FairSpec
CONSTANTS
    Messages <- MCMessages
    Refs = {r1}
    Events = {e1}
    r1 = r1
    e1 = e1
    NoRef = NoRef
    Workers = {w1, w2}
    Interruptions = TRUE
INVARIANTS
    ConfirmedWasPaid
    ConfirmedOnce
    AcceptedIsLookedUp

    
