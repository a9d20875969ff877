SPECIFICATION Spec
CONSTANTS
    Runs = {r1, r2, r3}
    Base = base
    Bitrates = {high}
    Bad = bad
    MaxPosts = 2
    MaxFaults = 2
    None = None
INVARIANTS
    AppliedInOrder
PROPERTIES
    DynamicRestored
    AcceptedIsApplied
CHECK_DEADLOCK FALSE
