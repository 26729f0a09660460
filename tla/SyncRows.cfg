SPECIFICATION SyncSpec
CONSTANTS
    OldFiles = {f1}
    NewFiles = {}
    PendingIds = {p1}
    SpareIds = {}
    Handles = {h1}
    Bytes = {empty, orig}
    Empty = empty
    Original = orig
    NoId = NoId
    NoBytes = NoBytes
    NoFile = NoFile
    Disturbances = {"sum"}
    MaxWrites = 0
    MaxCrashes = 1
    MaxRemote = 2
INVARIANTS RowsCatchUp
CHECK_DEADLOCK FALSE
