SPECIFICATION FairSpec
CONSTANTS
    Handlers = {h1, h2}
    Blobs = {b1, b2}
    Keys = {k1}
    None = None
    CrashesTtl = 1
    MaxNow = 1
    MaxUploads = 2
    MaxParts = 1
    MaxFaults = 1
PROPERTIES
    OrphansCollected
    ExpiredIndexesRemoved
