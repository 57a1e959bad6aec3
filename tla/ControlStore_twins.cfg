SPECIFICATION MCSerialSpec
CONSTANTS
  Proc = {p1, p2}
  Record = {a}
  Event = {e1, e2}
  Indexing = {}
  Nobody = nobody
  MaxTrouble = 1
SYMMETRY ProcSymmetry
INVARIANTS
  FreeIsSettled
