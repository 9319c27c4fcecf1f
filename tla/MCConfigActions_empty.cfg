SPECIFICATION Spec
CONSTANTS
  InitialConfig <- MCInitialConfig
  HandEdits <- MCHandEdits
  WritesPerSecond = 2
  Actions = {1, 2}
  Requests <- MCRootEdits
  FailingConfigs <- MCFailingConfigs
  MaxEvents = 2
INVARIANT NoEmptyConfigApplied
