SPECIFICATION PatientSpec
CONSTANTS
  Authority = {1, 2}
  Deps <- Fan2
  Runner = {r1, r2}
  Operator = r1
  Activator = {x1}
  Candidate = {c1}
  Content = {before, after}
  Nobody = nobody
  MaxTrouble = 2
CHECK_DEADLOCK FALSE
INVARIANTS
  WrittenOnce
PROPERTIES
  RoundsSpec
  CampaignCloses
  CallsEnd
