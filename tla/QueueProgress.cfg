SPECIFICATION FairSpec
CONSTANTS
    Callers = {c1, c2}
    DirKeys = {d1}
    MetaKeys = {}
    FileKeys = {}
    NoKey = NoKey
    MaxEpoch = 1
    MaxUploads = 1
    MayEvict = TRUE
INVARIANTS TypeOK OneOwnerPerTask NoLostWaiter
PROPERTIES EveryWaitReturns RefinesSingleFlight RefinesFairSingleFlight
