\* Four supervisors on three levels.
SPECIFICATION FairSpec
CONSTANTS
    root = root
    bridge = bridge
    writer = writer
    agent = agent
    Nodes <- MCNodes
    Root = root
    Parent <- MCParent
    MaxTickPanics = 2
INVARIANTS
    InfraHasCause
PROPERTIES
    RootCircuitResets
    ShutdownReachesChildren
