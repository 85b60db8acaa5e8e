SPECIFICATION Spec
CONSTANTS
    Handlers = {h1, h2}
    Blobs = {b1, b2}
    Keys = {k1}
    None = None
    CrashesTtl = 1
    MaxNow = 1
    MaxUploads = 2
    MaxParts = 2
    MaxFaults = 1
SYMMETRY Symmetry
INVARIANTS
    TypeOK
    UnracedIndexesKeepBlobs
    UnracedUploadsKeepBlobs
    TempFilesAccountedFor
PROPERTIES
    OnlyExpiredIndexesRemoved
    PutIsAtomic
