SPECIFICATION FairSpec
CONSTANTS
    OldFiles = {o1}
    NewFiles = {n1}
    NoFile = NoFile
    Threads = {t1, t2}
    Disturbances = {}
    MaxReleases = 5
CHECK_DEADLOCK FALSE
INVARIANTS TypeOK OneDriveFile DestroyLosesNothing
PROPERTIES DestroyReturns
