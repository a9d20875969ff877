SPECIFICATION Spec
CHECK_DEADLOCK FALSE
CONSTANTS
    Updates = {u1, u2}
    None = None
INVARIANTS
    ControlFileWhole
    NothingOutlivesRun
    ReturnsItsCause
PROPERTY EitherEndsRun
