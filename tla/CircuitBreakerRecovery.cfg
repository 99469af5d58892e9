SPECIFICATION Spec
CONSTANTS
  Clients = {c1, c2}
  FailureThreshold = 2
  SuccessThreshold = 3
  HalfOpenRequests = 1
  TimeoutMs = 1
  RequestCap = 2
PROPERTY HealthyRecovers
