\* Two children under spec changes, restarts and failures.
SPECIFICATION FairSpec
CONSTANTS
    bridge = bridge
    writer = writer
    Names <- MCNames
    MaxChanges = 2
    MaxRestarts = 1
    MaxFaults = 2
INVARIANTS
    TypeOK
    DisabledBeforeTick
    MarksAreCurrent
PROPERTIES
    RemovedChildrenGo
    KeptChildrenRun
