SPECIFICATION Spec
CONSTANTS
  Slaves = {s1, s2}
  Lockers = {s1, s2}
  Master = m
  MAX_WAITING_NODES = 2
  FreedNodeIntact = {TRUE}
INVARIANTS
  TypeOK
  CountExact
  DeathExplained
PROPERTIES
  NobodyLeftBehind
CHECK_DEADLOCK FALSE
