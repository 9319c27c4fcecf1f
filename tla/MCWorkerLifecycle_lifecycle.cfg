\* A root supervisor, its tickLoop against Shutdown, and a child supervisor, in
\* whose calls the parent joins; another goroutine may add the id again.
SPECIFICATION FairSpec
CONSTANTS
    CanForce = TRUE
    MaxAdds = 2
INVARIANTS
    TypeOK
    RequestNotLost
    CleanDrainObserves
    LiveNotTombstoned
PROPERTIES
    DeriveKeepsFlags
    ShutdownTerminates
CHECK_DEADLOCK FALSE
