SPECIFICATION Spec
CONSTANTS
  InitialConfig <- MCInitialConfig
  HandEdits <- MCAllHandEdits
  WritesPerSecond = 2
  MaxEvents = 2
  Actions = {1, 2}
  Requests <- MCRequests
  FailingConfigs <- MCFailingConfigs
INVARIANTS
  
  NoComponentEmptied
PROPERTIES
  UpdatesBuildOnFile
  ActionsEnd
  LoopCatchesUp
