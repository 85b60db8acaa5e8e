SPECIFICATION FairSpec
CONSTANTS
    Procs = {p1, p2}
    None = None
    Capacity = 1
    BatchSize = 2
    SampleRate = 10000
    TimeOf <- MCTimeOf
    MaxEvents = 1
    MaxFlushes = 1
    MaxFaults = 0
    MaxStarts = 1
INVARIANTS
    DuplicatesOnlyWhenUncertain
PROPERTIES
    MemoryDrains
    FlushReturns
CHECK_DEADLOCK FALSE
