SPECIFICATION Spec
CONSTANTS
    Ids = {f}
    Small = {e, s}
    Large = {l}
    Empty = e
    NoBytes = NoBytes
    NoKey = NoKey
    Writers = {loop, worker}
    Readers = {r1}
    Disturbances = {"shrink"}
    MaxStores = 3
    MaxCrashes = 1
INVARIANTS UploadsWhatWasStored
