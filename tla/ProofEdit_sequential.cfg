SPECIFICATION Spec
CONSTANTS
  MaxCall = 3
  MaxOverlap = 1
  MaxEdit = 1
  MaxHole = 4
  Ops = {"give", "auto", "split", "solveAll", "solveOne", "metas", "text", "rename", "clauses", "fixity", "load"}
  WriteFlags = {TRUE}
INVARIANT InSync
PROPERTIES RightHole
CHECK_DEADLOCK FALSE
