SPECIFICATION Spec
CONSTANTS
  Slaves = {s1, s2}
  Lockers = {s1}
  Master = m
  MAX_WAITING_NODES = 1
  FreedNodeIntact = {TRUE}
PROPERTIES
  ConnectAnswered
  AskAnswered
  QuitReturns
CHECK_DEADLOCK FALSE
