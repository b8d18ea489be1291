SPECIFICATION Spec
CONSTANTS
  MaxCommand = 2
  MaxProc = 2
  Kinds = {"goal", "load", "abort", "exit"}
INVARIANTS OnlyItsOwnChild NoSplice
PROPERTIES LoadHeldForTerminus ImplementsChannel KilledIsReaped
CHECK_DEADLOCK FALSE
