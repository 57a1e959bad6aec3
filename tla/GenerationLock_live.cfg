SPECIFICATION NoLegacyFairSpec
CONSTANTS
  MaxLost = 1
  Proc = {p1, p2}
  Nobody = nobody
  Token = {1, 2, 3}
CHECK_DEADLOCK FALSE
PROPERTIES
  CallsEnd
