SPECIFICATION FairSpec
CONSTANTS
    OldFiles = {}
    NewFiles = {g1}
    PendingIds = {p1}
    SpareIds = {r1}
    Handles = {h1}
    Bytes = {empty, orig, b1}
    Empty = empty
    Original = orig
    NoId = NoId
    NoBytes = NoBytes
    NoFile = NoFile
    Disturbances = {"gone", "fetchErr", "sum"}
    MaxWrites = 2
    MaxCrashes = 0
INVARIANTS CleanRowMatchesDrive
PROPERTIES EveryDirtyEntryIsSettled
CHECK_DEADLOCK FALSE
