SPECIFICATION Spec
CONSTANTS
  Plugins = {p1, p2}
  Dispatchers = {d1}
  Holders = {h1}
  MaxWait = 2
  None = None
INVARIANTS
  ExitAfterInference
CHECK_DEADLOCK FALSE
