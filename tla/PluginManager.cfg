SPECIFICATION Spec
CONSTANTS
  Plugins = {p1, p2}
  Dispatchers = {d1, d2}
  Holders = {h1}
  MaxWait = 1
  None = None
INVARIANTS
  TypeOK
  HeldStays
  DrainedBeforeExit
PROPERTIES
  UnregisterReturns
\* All modules may be unloaded, or a task may have died.
CHECK_DEADLOCK FALSE
