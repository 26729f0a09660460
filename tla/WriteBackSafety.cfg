SPECIFICATION Spec
CONSTANTS
    OldFiles = {}
    NewFiles = {g1}
    PendingIds = {p1}
    SpareIds = {r1, r2}
    Handles = {h1}
    Bytes = {empty, orig, b1}
    Empty = empty
    Original = orig
    NoId = NoId
    NoBytes = NoBytes
    NoFile = NoFile
    Disturbances = {"lostReply"}
    MaxWrites = 2
    MaxCrashes = 1
SYMMETRY Symmetry
INVARIANTS TypeOK NoLostUpdate ReadYourWrites CasSound
