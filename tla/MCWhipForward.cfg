SPECIFICATION Spec
CHECK_DEADLOCK FALSE
CONSTANTS
    ChannelBufferSize = 1
    None = None
INVARIANTS
    ErrorSurvives
    Released
    KeyframeFirst
PROPERTIES
    FailureEndsRun
    MediaOrReturn
