SPECIFICATION Spec
CONSTANTS
    allRoles <- MCRoles
    f1 = f1
    f2 = f2
    a = a
    b = b
    Fields = {f1, f2}
    Data = {a, b}
    Absent = Absent
    Values <- MCValues
    Writers = {p1, p2}
    Readers = {}
    Client = client
    NoOne = NoOne
    DeltaLimit = 1
    MaxSyncID = 3
    MaxPolls = 2
    MaxCompactions = 1
    MaxLost = 0
PROPERTIES
    GapMeansBootstrap
SYMMETRY Symmetry
CHECK_DEADLOCK FALSE
