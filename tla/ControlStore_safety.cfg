SPECIFICATION MCApartSpec
CONSTANTS
  Proc = {p1, p2}
  Record = {a}
  Event = {e1, e2}
  Indexing = {e1}
  Nobody = nobody
  MaxTrouble = 3
SYMMETRY ProcSymmetry
INVARIANTS
  TypeOK
  FreeIsSettled
  TornIsRecoverable
PROPERTIES
  LogSpec
