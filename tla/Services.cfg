SPECIFICATION Spec
CONSTANTS
  Callers = {1, 2}
  MaxConcurrent = 1
  Burst = 2
  Metrics = {"cpu_usage"}
  CpuUsage = "cpu_usage"
  MaxMetrics = 2
  MaxValue = 1
  Busy = 0
  Rules = {r1}
  Evaluators = {e1, e2}
  Cooldown = 1
  Repeat = 2
  MaxTime = 3
  Wrap = 1000
  AuditSize = 2
  MaxAudits = 3
  Checkers = {c1, c2}
  Percents = {10, 60, 90}
  MaxMillis = 2
  Timeouts = {1}
  Limits = {0, 1}
  Loads = {1, 2}
  Pages = {p1, p2, p3}
  History = 2
  Files = {f1}
  Decisions = {"ok", "no"}
  Inserters = {i1}
  MaxEntries = 1
  Hosts = {h1, h2, h3}
  Addresses = {a1}
  DnsSize = 2
  Lifetime = 1
  MaxClock = 2
  NoFile = NoFile
  Tasks = {t1, t2}
  MaxProfiles = 1
  Utils = {"low", "high"}
  NrCpus = 2
  Promote = 80
  Demote = 45
  Migrate = 60
  SampleRate = 2
  MaxDrift = 3
  Pids = {1, 2}
  MaxRecords = 1
  MaxExecs = 12
  Thresholds = {30, 70}
  Sources = {1, 2}
  RingSize = 1
  Requesters = {q1, q2}
  MaxPending = 1
  Setters = {s1, s2}
  Writers = {w1}
  MaxOptions = 2
  Confidences = {90}
  Statuses = {200, 429}
  MaxKeywords = 2
  Removable = {"sched_analyze"}
  MaxRequests = 2
  Bodies = {1, 2}
  BufferSize = 4
  Words = {"code", "shell", "security"}
  Visitors = {v1}
  Usages = {0, 95}
  Seconds = {0, 49}
  HistorySize = 2
  Frames = {1, 2, 3, 4}
  AccessHistory = 4
  FullScore = 45
  MaxOut = 4
INVARIANTS
  TypesOK
  PermitsBalanced
  CountBehindStreak
  ToldAgrees
  AdviceSound
  RoutingNeedsMode
  RoutesFit
  AnswersFit
\* The clocks, requests and messages of several parts come to an end.
CHECK_DEADLOCK FALSE
