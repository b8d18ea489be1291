SPECIFICATION Spec

CONSTANTS
  MaxCall = 3
  MaxEdit = 1
  Capacity = 2
  NoFile = NoFile
  NotOption = NotOption
  MaxConfigBytes = 2
  CoarseClock = FALSE
  Options = {"safe", "cubical"}
  Trees <- MCTrees
  Texts <- MCTexts
  EnvOptions <- MCEnvOptions
  CallOptions <- MCCallOptions

CONSTRAINT Explored
CHECK_DEADLOCK FALSE
PROPERTY EveryActionIsKept
 
 
