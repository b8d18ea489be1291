CHECK_DEADLOCK FALSE
SPECIFICATION Spec
CONSTANTS
    Calls = {c1, c2}
    Staging = {c1}
    MaxAsks = 1
    MaxFault = 1
INVARIANTS FinalReportIsWhole 
PROPERTIES CheckpointsAdvance 
