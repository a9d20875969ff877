SPECIFICATION Spec
CHECK_DEADLOCK FALSE
CONSTANTS
    Titles = {t1, t2}
    PublishEvents = {p}
    UpdateEvents = {u}
    OtherEvents = {o}
    None = None
    MaxDeliveries = 2
    MaxText = 3
    MaxMerges = 1
    MaxFaults = 1
INVARIANTS
    UndisturbedSucceeds
    ReportNeverAhead
PROPERTIES
    AloneNeverRegresses
