SPECIFICATION NoticesSpec
CONSTANTS
    Sessions = {s1, s2}
    Threads = {w1, w2}
    MaxAttempts = 3
    Gateways = {TRUE, FALSE}
    Happening <- MCHappening
    Mutes <- MCMutes
    MaxNotices = 3
    MaxFaults = 1
INVARIANTS
    StatusTellsTexts
PROPERTIES
    EveryNoticeHandled
CHECK_DEADLOCK FALSE
