SPECIFICATION Spec
CONSTANTS
  Keys = {a, b, long}
  LongKeys = {long}
  Values = {v1, v2}
  MaxEntries = 2
  Ttl = 1
  Ttls = {}
  Memory = 3
  MaxCount = 3
  None = None
INVARIANTS
  TypeOK
  ListKept
PROPERTIES
  Implements
\* The cache may be destroyed.
CHECK_DEADLOCK FALSE
