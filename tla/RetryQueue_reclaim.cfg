SPECIFICATION Spec
CONSTANTS
  Procs = {p1, p2, p3}
  Old = {o1}
  MaxCount = 2
  MaxCrash = 1
INVARIANTS OneHolder
CHECK_DEADLOCK FALSE
