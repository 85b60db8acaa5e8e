SPECIFICATION Spec
CONSTANTS
    None = None
    ContextLists <- MCContextLists
    OtherBodies <- MCOtherBodies
    Oversizes <- MCOversizes
    Levels = {1, 19}
    Handlers = {h1, h2}
    MaxUploads = 3
SYMMETRY Symmetry
CHECK_DEADLOCK FALSE
INVARIANTS
    RecordsAreFaithful
    WireAgrees
    OneRecordPerLevel
    SentIsStored
