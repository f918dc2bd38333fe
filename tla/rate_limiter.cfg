CONSTANTS
    Requests = {r1, r2, r3, r4}
    Limit = 2
    Window = 2
    MaxWait = 1
    MaxTime = 5
SYMMETRY Symmetry
SPECIFICATION Spec
INVARIANTS
    TypeOK
    RateIsBounded
    AdmittedIsAuthorized
PROPERTIES
    RefusalsAreEarned
    ImplementsSlidingWindow
CHECK_DEADLOCK FALSE
