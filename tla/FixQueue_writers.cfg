SPECIFICATION Spec
CONSTANTS
  Fingerprints = {d1, d2}
  Statuses = {"triaged", "locked"}
  Locals = {l1}
  Crons = {c1}
  Mirrors = {m1, m2}
  MaxOverlap = 2
  MaxFault = 1
  MaxEdit = 2
INVARIANTS OneRowPerFingerprint  PublishedAfterReview
 
CHECK_DEADLOCK FALSE
