SPECIFICATION Spec
CONSTANTS
    OldFiles = {f1}
    NewFiles = {}
    PendingIds = {p1}
    SpareIds = {r1}
    Handles = {h1}
    Bytes = {empty, orig, b1}
    Empty = empty
    Original = orig
    NoId = NoId
    NoBytes = NoBytes
    NoFile = NoFile
    Disturbances = {"upload"}
    MaxWrites = 2
    MaxCrashes = 0
PROPERTIES SecondWriteRedetected
