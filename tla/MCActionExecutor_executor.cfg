\* Two registrations on two pool goroutines and a channel of one slot; an action
\* may hang for ever, and Shutdown ends if actions honour their context.
SPECIFICATION HangingSpec
CONSTANTS
    stop = stop
    start_a = start_a
    w1 = w1
    w2 = w2
    tick = tick
    ActionIDs <- MCActionIDs
    Workers <- MCWorkers
    Callers <- MCCallers
    QueueCap = 1
    DetectionMultiplier = 2
    ForceRemoveMultiplier = 3
    MaxGen = 2
INVARIANTS
    TypeOK
    AtMostOneCallback
    NoOrphanEntry
    OneLiveExecution
    QuietAfterShutdown
PROPERTIES
    EntryEventuallyReleased
    ShutdownTerminates
CHECK_DEADLOCK FALSE
