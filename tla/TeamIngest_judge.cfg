SPECIFICATION IngestSpec
CONSTANTS
  RunIds = {r1, r2}
  Contents = {"captures", "refused", "dangling", "oversize"}
  Captures = {c1}
  MaxRequest = 2
  MaxDay = 1
  MaxAdmin = 1
  MaxFault = 1
INVARIANTS ConfirmedIsStored 
 
CHECK_DEADLOCK FALSE
