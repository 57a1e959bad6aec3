SPECIFICATION FairSpec
CONSTANTS
  Proc = {p1, p2}
  Judgement = {j1, j2}
  Review = {v1}
  None = none
  Dead = dead
  Torn = torn
  Fixed = fixed
  MaxTrouble = 2
INVARIANTS
  TypeOK
  AcceptedIsBacked
  RecordedOnce
  RecordIsBacked
PROPERTIES
  Finalizes
