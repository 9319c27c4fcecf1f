SPECIFICATION Spec
CONSTANTS
    allRoles <- MCRoles
    f1 = f1
    f2 = f2
    a = a
    b = b
    Fields = {f1, f2}
    Data = {a, b}
    Absent = Absent
    Values <- MCValues
    Writers = {p1, p2}
    Readers = {q1}
    Client = client
    NoOne = NoOne
    DeltaLimit = 1
    MaxSyncID = 4
    MaxPolls = 3
    MaxCompactions = 1
    MaxLost = 1
INVARIANTS
    SyncIDsAreUnique
    DeltasDescribeDocuments
PROPERTIES
    DocumentsAreAtomic
    PagingSkipsNothing
CONSTRAINT ReadAlike
SYMMETRY Symmetry
CHECK_DEADLOCK FALSE
