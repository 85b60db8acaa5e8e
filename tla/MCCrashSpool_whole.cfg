SPECIFICATION MCSpec
CONSTANTS
    Shippers = {s1}
    Second = s2
    Scenarios = {"shippers"}
    None = None
    MaxEntries = 1
    Retentions = {0}
    DefaultRetention = 2
    MaxNow = 0
    MaxRuns = 1
    MaxFaults = 0
INVARIANT WholeBeforeUpload
CHECK_DEADLOCK FALSE
