SPECIFICATION Spec
CHECK_DEADLOCK FALSE
CONSTANTS
    Requests = {r1, r2}
    MaxHandlers = 3
    MaxFaults = 2
    None = None
INVARIANTS
    SuccessIsReal
    PendingIsSomewhere
PROPERTIES
    NoTakeover
    PendingSettles
    ServiceRestored
