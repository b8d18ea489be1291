SPECIFICATION Spec
CONSTANTS
  MaxTask = 3
  MaxProc = 2
  Files = {f1}
  NoFile = NoFile
  MaxAttempts = 2
INVARIANTS TypeOK OneChild SweptNeverRuns CommandKeepsItsChild  TeardownIsFinal
PROPERTIES ImplementsQueue
CHECK_DEADLOCK FALSE
