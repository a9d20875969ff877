SPECIFICATION ForwardSpec
CHECK_DEADLOCK FALSE
CONSTANTS
    MaxUnits = 3
    Room = 1
    Nothing = Nothing
INVARIANTS
    ReturnIsTrue
PROPERTIES
    EitherEnds
