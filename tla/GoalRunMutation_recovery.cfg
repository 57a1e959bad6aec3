SPECIFICATION CleanSpec
CONSTANTS
  Path = {p, q, r}
  Content = {0, 1}
  Partitioned = TRUE
  Target = 1
  MaxTrouble = 3
CHECK_DEADLOCK FALSE
PROPERTIES
  AuthorityCloses
