\* Two loop goroutines, one restart attempt, any number of recoveries.
SPECIFICATION FairSpec
CONSTANTS
    l1 = l1
    l2 = l2
    Loops <- MCLoops
    MaxRestartAttempts = 1
INVARIANTS
    TypeOK
    StartFindsNoneRunning
    OneCollection
    RunningIsAccurate
    DecidesOnNewObservation
PROPERTIES
    SilentWorkerEscalates
    RemovalCompletes
CHECK_DEADLOCK FALSE
