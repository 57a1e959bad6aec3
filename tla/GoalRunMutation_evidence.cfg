SPECIFICATION BoundedQuietSpec
CONSTANTS
  Path = {p, q}
  Content = {0, 1}
  Partitioned = TRUE
  MaxForeign = 2
  MaxAttempt = 2
SYMMETRY PathSymmetry
CHECK_DEADLOCK FALSE
INVARIANTS
  EvidenceRecoverable
