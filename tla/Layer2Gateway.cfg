SPECIFICATION Spec
CONSTANTS
  Requests = 4
  Gap = 1
  Grace = 5
  MaxCall = 6
  Ttl = 5
  Slots = 3
INVARIANTS
  TypeOK
  QueueIntact
  CacheCurrent
  AwakeForWork
\* The gateway exits, or waits for a worker that missed the last broadcast.
CHECK_DEADLOCK FALSE
