SPECIFICATION ThreadFairSpec
CONSTANTS
    Callers = {c1, c2}
    DirKeys = {}
    MetaKeys = {m1}
    FileKeys = {f1}
    NoKey = NoKey
    MaxEpoch = 0
    MaxUploads = 1
    MayEvict = FALSE
INVARIANTS DownloadIsCached
PROPERTIES DownloadsNeverHeldByUploads
