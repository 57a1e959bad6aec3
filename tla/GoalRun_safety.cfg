SPECIFICATION BoundedSpec
CONSTANTS
  Authority = {1, 2}
  Deps <- Fan2
  Runner = {r1, r2}
  Activator = {x1, x2}
  Candidate = {c1, c2}
  Content = {before}
  Nobody = nobody
  MaxRun = 3
  MaxAttempt = 2
SYMMETRY Symmetry
CHECK_DEADLOCK FALSE
INVARIANTS
  AttemptPinsRun
  LeaseHolderCurrent
  NoCommitRefused
  DependenciesFirst
PROPERTIES
  PointerFollowsClaims
  ClosuresOnlyRemediated
  CampaignSpec
  CallsBounded
