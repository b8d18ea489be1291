SPECIFICATION Spec
CONSTANTS
  Procs = {p1, p2, p3}
  Old = {}
  MaxCount = 1
  MaxCrash = 1
  
PROPERTIES NothingDeletedUnsent EveryUploadEnds
CHECK_DEADLOCK FALSE
