SPECIFICATION Spec

CONSTANTS
  MaxCall = 2
  MaxOverlap = 2
  MaxEdit = 0
  Files = {f1, f2}
  NoFile = NoFile
  Ops = {"load", "strict"}
  Contents = {"clean", "hole", "abstract", "error"}

CHECK_DEADLOCK FALSE
PROPERTY EveryCallReturns
INVARIANT AdviceIsAdmitted
