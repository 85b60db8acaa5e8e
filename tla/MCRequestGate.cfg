SPECIFICATION GateSpec
CONSTANTS
    None = None
    Clients <- MCClients
    Char = {"a", "b", "i", "j", "/"}
    Sources <- MCSources
    ConfigFiles <- MCConfigFiles
    Calls <- MCCalls
    Handlers = {h1, h2}
    MaxCalls = 3
    LogsPerMinute = 1
    LogsBurst = 1
    CrashesPerMinute = 2
    CrashesBurst = 1
    TicksPerMinute = 2
    MaxNow = 2
SYMMETRY Symmetry
INVARIANTS
    WindowBound
    RefusalsEnd
    GateTypeOK
    StoredInScope
    StoredIsValid
    SourcesApart
    BucketsInScope
    CountedOnce
