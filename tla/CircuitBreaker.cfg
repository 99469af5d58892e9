SPECIFICATION Spec
CONSTANTS
  Clients = {c1, c2, c3, c4}
  FailureThreshold = 2
  SuccessThreshold = 3
  HalfOpenRequests = 1
  TimeoutMs = 1
  RequestCap = 2
INVARIANTS
  TypeOK
PROPERTIES
  OpenForTimeout
  TripsOnStreak
  RecoveryCounted
  OpenEnds
