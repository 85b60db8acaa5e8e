SPECIFICATION Spec
CONSTANTS
    Procs = {p1, p2}
    None = None
    Capacity = 1
    BatchSize = 1
    SampleRate = 10000
    TimeOf <- MCTimeOf
    MaxEvents = 1
    MaxFlushes = 0
    MaxFaults = 0
    MaxStarts = 0
INVARIANT SpooledUntilDelivered
CHECK_DEADLOCK FALSE
