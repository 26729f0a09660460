SPECIFICATION SyncSpec
CONSTANTS
    OldFiles = {f1}
    NewFiles = {}
    PendingIds = {p1}
    SpareIds = {}
    Handles = {h1}
    Bytes = {empty, orig, b1}
    Empty = empty
    Original = orig
    NoId = NoId
    NoBytes = NoBytes
    NoFile = NoFile
    Disturbances = {}
    MaxWrites = 1
    MaxCrashes = 0
    MaxRemote = 0
PROPERTIES FlagFallsWhenUploaded
