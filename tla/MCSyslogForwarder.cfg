SPECIFICATION Spec
CONSTANTS
    c1 = c1
    c2 = c2
    Conns = {c1, c2}
    Closers = {k1, k2}
    Lines <- TwoAndOne
    MaxLines = 2
    QueueSize = 1
    BatchSize = 2
    Retries = 2
INVARIANTS
    NeverSendOnClosed
    NothingVanishes
    AtMostOneLateRecord
    DeliveryBounds
PROPERTIES
    EventuallySettled
    CloseTerminates
CHECK_DEADLOCK FALSE
