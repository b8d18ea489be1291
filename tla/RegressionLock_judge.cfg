CHECK_DEADLOCK FALSE
SPECIFICATION LockSpec
CONSTANTS
    Rerun = 2
    Staged = 2
INVARIANTS  RecordedWithCause
PROPERTIES JudgementEnds
