SPECIFICATION Spec

CONSTANTS
  MaxCall = 2
  MaxOverlap = 1
  MaxEdit = 1
  Files = {f1, f2}
  NoFile = NoFile
  Ops = {"load", "strict"}
  Contents = {"clean", "hole", "abstract", "meta", "error", "missing"}

CHECK_DEADLOCK FALSE
INVARIANT CurrentFileIsLoaded
INVARIANT GoalsAreAgdas
PROPERTY CompleteIsComplete
