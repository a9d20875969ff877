SPECIFICATION Spec
CHECK_DEADLOCK FALSE
CONSTANTS
    MaxHandlers = 2
    MaxLines = 2
    MaxBatch = 2
    Malformed = {0, 1, 2}
    MaxFaults = 1
INVARIANTS
    PipelineInOrder
    NoRepost
PROPERTIES
    LiveHandlerShips
    SupersededEnds
