SPECIFICATION Spec
CONSTANTS
  InitialConfig <- MCInitialConfig
  HandEdits <- MCRootless
  WritesPerSecond = 2
  Actions = {1, 2}
  Requests <- MCDfcEdits
  FailingConfigs <- MCFailingConfigs
  MaxEvents = 2
INVARIANT SettingsKept
