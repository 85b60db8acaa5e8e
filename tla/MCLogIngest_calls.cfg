SPECIFICATION FairSpec
CONSTANTS
    Handlers = {h1, h2}
    Sources = {s1}
    None = None
    Capacity = 1
    LogsTtl = 2
    DayLen = 1
    MaxNow = 0
    MaxRequests = 2
    MaxEntries = 2
    MaxRecords = 1
    MaxFaults = 1
    MaxCrashes = 0
PROPERTIES
    ShutdownCompletes
    QueuesDrain
CHECK_DEADLOCK FALSE
