SPECIFICATION Spec
CONSTANTS
    Names = {n1}
    Kinds <- AllKinds
    Versions <- MCVersions
    BackoffWaits <- MCWaits
    MaxTicksInTransientState = 1
    Cooldowns <- MCFastCooldowns
    FaultsInRun <- Faults
INVARIANTS
    EventAccepted
    NoForgottenService
CHECK_DEADLOCK FALSE
PROPERTIES
    ConvergesWhenCalm
