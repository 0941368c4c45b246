SPECIFICATION Spec
CONSTANTS
    Items = {item}
    Orders = {o1, o2}
    Requests = {r1, r2}
    Prices = {1, 2}
    Changes <- MCChanges
    PhotoLimit = 1
    Overlaps = {TRUE, FALSE}
SYMMETRY Alike
INVARIANTS
    TermsStand
    PhotosWithinLimit
CHECK_DEADLOCK FALSE
