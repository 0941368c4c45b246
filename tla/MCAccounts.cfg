SPECIFICATION Spec
CONSTANTS
    Requests = {r1, r2}
    CodeTtl = 2
    CodeResend = 1
    CodeLockout = 1
    LoginLockout = 1
    SessionAge = 2
    CodeTries = 2
    HourlyLimit = 2
    ClientLimit = 2
    LoginTries = 2
    LoginRate = 1
    MaxTime <- MCMaxTime
    MaxSessions = 2
    MaxPasswords = 2
    Overlaps = {TRUE, FALSE}
SYMMETRY RequestsAlike
 
INVARIANT TriesLockPhone
INVARIANT CodeLetsInOnce
CHECK_DEADLOCK FALSE
