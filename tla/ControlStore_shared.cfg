SPECIFICATION CalledSpec
CONSTANTS
  Proc = {p1, p2}
  Record = {a, b}
  Event = {e1}
  Indexing = {e1}
  Nobody = nobody
  MaxTrouble = 1
INVARIANTS
  IndexComplete
PROPERTIES
  StaleEnds
