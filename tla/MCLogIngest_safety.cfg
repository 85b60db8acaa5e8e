SPECIFICATION Spec
CONSTANTS
    Handlers = {h1}
    Sources = {s1}
    None = None
    Capacity = 2
    LogsTtl = 2
    DayLen = 1
    MaxNow = 2
    MaxRequests = 2
    MaxEntries = 1
    MaxRecords = 2
    MaxFaults = 1
    MaxCrashes = 1
INVARIANTS
    TypeOK
    Conserved
    LossBounded
    DrainedOnExit
PROPERTIES
    OnlyExpiredLogsRemoved
    RecordsInTurn
CHECK_DEADLOCK FALSE
