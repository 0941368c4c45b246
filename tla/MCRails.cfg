SPECIFICATION Spec
CONSTANTS
    Priority <- MCPriority
    Enabled = {"econfirm", "simulated"}
    Live = {"econfirm"}
    LiveAllowed = TRUE
    Placeholders = {}
    Sessions = {s1, s2}
    Threshold = 2
    Cooldown = 1
    MaxTime = 2
    MaxFailures = 3
    Overlaps = {TRUE, FALSE}
SYMMETRY ServedAlike
INVARIANTS
    RowTellsHistory
    RoutedIsHealthy
    OpenIsEarned
PROPERTIES
    ClosesBySuccess
