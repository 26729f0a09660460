SPECIFICATION Spec
CONSTANTS
    Folders = {root, sub}
    OldFiles = {f1}
    SpareIds = {r1}
    PendingIds = {p1}
    Bases = {a, b}
    NoId = NoId
    NoFolder = NoFolder
    NoName = NoName
    NoRow = NoRow
    NoListing = NoListing
    Disturbances = {"crash"}
    MaxIno = 5
    MaxRenames = 1
    MaxMounts = 1
SYMMETRY Symmetry
INVARIANTS TypeOK InodesAgree PlaceholdersListed UniqueNames
PROPERTIES InodeKeepsFile OwnNameIsFree NeverVanishes CreatedAsNamed
