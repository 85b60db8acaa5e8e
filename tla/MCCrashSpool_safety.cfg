SPECIFICATION MCSpec
CONSTANTS
    Shippers = {s1, s2}
    Second = s2
    Scenarios = {"shippers", "days"}
    None = None
    MaxEntries = 2
    Retentions = {0, 1}
    DefaultRetention = 2
    MaxNow = 2
    MaxRuns = 2
    MaxFaults = 1
INVARIANTS
    TypeOK
    StoredShipsComplete
    SentWereAccepted
    UploadedTwiceOnlyWhenUncertain
PROPERTIES
    RunKeepsItsEntries
    RunsEnd
CHECK_DEADLOCK FALSE
