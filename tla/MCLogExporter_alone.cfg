SPECIFICATION Spec
CONSTANTS
    Procs = {p1}
    None = None
    Capacity = 2
    BatchSize = 2
    SampleRate = 5000
    TimeOf <- MCTimeOf
    MaxEvents = 4
    MaxFlushes = 1
    MaxFaults = 1
    MaxStarts = 2
INVARIANTS
    TypeOK
    SpooledUntilDelivered
    FlushCovers
CHECK_DEADLOCK FALSE
