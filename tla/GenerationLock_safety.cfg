SPECIFICATION BoundedSpec
CONSTANTS
  MaxLost = 2
  Proc = {p1, p2}
  Nobody = nobody
  Token = {1, 2, 3}
SYMMETRY ProcSymmetry
CHECK_DEADLOCK FALSE
INVARIANTS
  MutualExclusion
  TicketOrder
  NoLeftovers
  SomebodyMoves
PROPERTIES
  OnlyDeadAreReaped
  NewcomersQueueBehind
  LockSpec
