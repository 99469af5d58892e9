--------------------------- MODULE CircuitBreaker ---------------------------
(* The circuit breaker of kai/resilience/kai_resilience.c and the calls it     *)
(* guards.  Every operation runs under the breaker's spinlock, so each is one   *)
(* step; what interleaves is the life of the guarded calls: a call admitted     *)
(* by circuit_breaker_allow() reports its outcome later, when the breaker may   *)
(* be in another state than the one that admitted it.                           *)
EXTENDS Integers, FiniteSets

CONSTANTS
  Clients,            \* callers, each with at most one guarded call in flight
  FailureThreshold,   \* failure_threshold
  SuccessThreshold,   \* success_threshold (3 in circuit_breaker_init)
  HalfOpenRequests,   \* half_open_requests (1 in circuit_breaker_init)
  TimeoutMs,          \* timeout_ms
  RequestCap          \* where the count of requests stops being told apart

ASSUME CircuitBreakerAssumption ==
  /\ IsFiniteSet(Clients)
  /\ FailureThreshold \in Nat \ {0}
  /\ SuccessThreshold \in Nat \ {0}
  /\ HalfOpenRequests \in Nat
  /\ TimeoutMs \in Nat
  /\ RequestCap \in Nat /\ RequestCap >= HalfOpenRequests

VARIABLES
  state,           \* cb->state
  failure_count, success_count, request_count,
  elapsed,         \* milliseconds since state_changed_ns, up to TimeoutMs + 1
  work,            \* what each client has in flight
  (* History, read by the properties only:                                     *)
  probes,          \* calls admitted in the current half-open period
  late,            \* successes it counted for calls admitted before it
  streak,          \* failures reported in a row to the closed breaker
  opened           \* ticks of the clock since the breaker last opened, while open

cb == <<state, failure_count, success_count, request_count, elapsed>>
vars == <<cb, work, probes, late, streak, opened>>

(* A client is idle, or has in flight a "probe", admitted in the half-open     *)
(* period that is or was last, or a "call", admitted before that.              *)
TypeOK ==
  /\ state \in {"CLOSED", "OPEN", "HALF_OPEN"}
  /\ failure_count \in 0..FailureThreshold
  /\ success_count \in 0..SuccessThreshold
  /\ request_count \in 0..RequestCap
  /\ elapsed \in 0..(TimeoutMs + 1)
  /\ work \in [Clients -> {"idle", "call", "probe"}]
  /\ probes \in 0..(HalfOpenRequests + 1)
  /\ late \in Nat
  /\ streak \in 0..FailureThreshold
  /\ opened \in 0..(TimeoutMs + 1)

(* circuit_breaker_init()                                                       *)
Init ==
  /\ state = "CLOSED"
  /\ failure_count = 0 /\ success_count = 0 /\ request_count = 0
  /\ elapsed = 0
  /\ work = [c \in Clients |-> "idle"]
  /\ probes = 0 /\ late = 0 /\ streak = 0 /\ opened = 0

InFlight == {c \in Clients : work[c] # "idle"}
Probing == {c \in Clients : work[c] = "probe"}

-----------------------------------------------------------------------------
(* circuit_breaker_allow().  A call it refuses changes nothing.                 *)

(* The closed breaker counts requests but reads the count only after it has     *)
(* been reset, in the half-open state: past RequestCap it is not told apart.    *)
AllowClosed(c) ==
  /\ work[c] = "idle" /\ state = "CLOSED"
  /\ request_count' = IF request_count < RequestCap THEN request_count + 1
                                                    ELSE request_count
  /\ work' = [work EXCEPT ![c] = "call"]
  /\ UNCHANGED <<state, failure_count, success_count, elapsed, probes, late, streak,
                 opened>>

\* Mutant: the timeout taken as reached a tick early.
TimedOutEarly == elapsed >= TimeoutMs

\* elapsed_ms > cb->timeout_ms
TimedOut == elapsed > TimeoutMs

\* Mutant: the call is let through, but the state is never moved on.
StaysOpen == state' = state

HalfOpens == state' = "HALF_OPEN"

(* The first call after the timeout turns the breaker half-open and is let      *)
(* through without being counted as one of the half-open requests.              *)
AllowOpen(c) ==
  /\ work[c] = "idle" /\ state = "OPEN" /\ TimedOut
  /\ HalfOpens
  /\ success_count' = 0 /\ request_count' = 0 /\ elapsed' = 0
  /\ work' = [d \in Clients |-> IF d = c THEN "probe"
                                ELSE IF work[d] = "idle" THEN "idle" ELSE "call"]
  /\ probes' = 1 /\ late' = 0 /\ opened' = 0
  /\ UNCHANGED <<failure_count, streak>>

\* Mutant: the half-open limit includes its own value.
RoomForProbeInclusive == request_count <= HalfOpenRequests

RoomForProbe == request_count < HalfOpenRequests

AllowHalfOpen(c) ==
  /\ work[c] = "idle" /\ state = "HALF_OPEN" /\ RoomForProbe
  /\ request_count' = request_count + 1
  /\ work' = [work EXCEPT ![c] = "probe"]
  /\ probes' = probes + 1
  /\ UNCHANGED <<state, failure_count, success_count, elapsed, late, streak, opened>>

Allow(c) == AllowClosed(c) \/ AllowOpen(c) \/ AllowHalfOpen(c)

-----------------------------------------------------------------------------
(* circuit_breaker_success() and circuit_breaker_failure().  The breaker does   *)
(* not know which admission a report answers.                                   *)

\* Mutant: a success no longer ends the run of failures.
KeepFailures == failure_count

\* atomic_set(&cb->failure_count, 0) in the closed state
FailuresAfterSuccess == 0

SuccessClosed(c) ==
  /\ work[c] # "idle" /\ state = "CLOSED"
  /\ failure_count' = FailuresAfterSuccess /\ streak' = 0
  /\ work' = [work EXCEPT ![c] = "idle"]
  /\ UNCHANGED <<state, success_count, request_count, elapsed, probes, late,
                 opened>>

\* atomic_inc_return(&cb->success_count) >= cb->success_threshold
Recovers == success_count + 1 >= SuccessThreshold

SuccessHalfOpen(c) ==
  /\ work[c] # "idle" /\ state = "HALF_OPEN"
  /\ success_count' = success_count + 1
  /\ late' = IF work[c] = "call" THEN late + 1 ELSE late
  /\ IF Recovers
     THEN state' = "CLOSED" /\ failure_count' = 0 /\ elapsed' = 0 /\ streak' = 0
     ELSE UNCHANGED <<state, failure_count, elapsed, streak>>
  /\ work' = [work EXCEPT ![c] = "idle"]
  /\ UNCHANGED <<request_count, probes, opened>>

\* Mutant: the breaker trips one failure late.
TripsLate == failure_count >= FailureThreshold

\* atomic_inc_return(&cb->failure_count) >= cb->failure_threshold
Trips == failure_count + 1 >= FailureThreshold

FailureClosed(c) ==
  /\ work[c] # "idle" /\ state = "CLOSED"
  /\ failure_count' = failure_count + 1 /\ streak' = streak + 1
  /\ IF Trips
     THEN state' = "OPEN" /\ elapsed' = 0 /\ opened' = 0
     ELSE UNCHANGED <<state, elapsed, opened>>
  /\ work' = [work EXCEPT ![c] = "idle"]
  /\ UNCHANGED <<success_count, request_count, probes, late>>

FailureHalfOpen(c) ==
  /\ work[c] # "idle" /\ state = "HALF_OPEN"
  /\ state' = "OPEN" /\ elapsed' = 0 /\ opened' = 0
  /\ work' = [work EXCEPT ![c] = "idle"]
  /\ UNCHANGED <<failure_count, success_count, request_count, probes, late, streak>>

\* Mutant: a failure reported while open starts the timeout again.
ReportOpenRestarts(c) ==
  /\ work[c] # "idle" /\ state = "OPEN"
  /\ elapsed' = 0
  /\ work' = [work EXCEPT ![c] = "idle"]
  /\ UNCHANGED <<state, failure_count, success_count, request_count,
                 probes, late, streak, opened>>

(* The open breaker ignores both reports.                                       *)
ReportOpen(c) ==
  /\ work[c] # "idle" /\ state = "OPEN"
  /\ work' = [work EXCEPT ![c] = "idle"]
  /\ UNCHANGED <<cb, probes, late, streak, opened>>

Failure(c) == FailureClosed(c) \/ FailureHalfOpen(c)
Report(c) == SuccessClosed(c) \/ SuccessHalfOpen(c) \/ Failure(c) \/ ReportOpen(c)

-----------------------------------------------------------------------------
(* circuit_breaker_reset(); state_changed_ns is left as it is.                  *)
Reset ==
  /\ state' = "CLOSED"
  /\ failure_count' = 0 /\ success_count' = 0 /\ request_count' = 0
  /\ streak' = 0 /\ opened' = 0
  /\ UNCHANGED <<elapsed, work, probes, late>>

(* Time passes; beyond TimeoutMs + 1 no comparison tells two ages apart.        *)
Tick ==
  /\ elapsed <= TimeoutMs
  /\ elapsed' = elapsed + 1
  /\ opened' = IF state = "OPEN" /\ opened <= TimeoutMs THEN opened + 1 ELSE opened
  /\ UNCHANGED <<state, failure_count, success_count, request_count, work,
                 probes, late, streak>>

Next ==
  \/ \E c \in Clients : Allow(c) \/ Report(c)
  \/ Reset
  \/ Tick

(* The guarded service stays in use: clients go on asking and report every call *)
(* they were allowed.  Nobody is obliged to call circuit_breaker_reset().       *)
Fairness ==
  /\ \A c \in Clients : WF_vars(Allow(c)) /\ WF_vars(Report(c))
  /\ WF_vars(Tick)

Spec == Init /\ [][Next]_vars /\ Fairness

-----------------------------------------------------------------------------
(* Properties.                                                                  *)

(* The timeout of an open breaker runs from the moment it opened, whatever is   *)
(* reported, and however often it has been opened, half-open or reset before:   *)
(* no call gets in until the clock has gone past timeout_ms since then, and     *)
(* from that tick on the breaker lets the next caller in.                       *)
OpenForTimeout ==
  [][state = "OPEN" =>
       /\ InFlight' \ InFlight # {} => opened > TimeoutMs
       /\ opened > TimeoutMs => TimedOut]_vars

(* half_open_requests, "半开状态允许的最大请求数" (the most requests allowed in  *)
(* the half-open state): the code does not count the call that turned the       *)
(* breaker half-open among them.                                                *)
HalfOpenLimit == state = "HALF_OPEN" => probes <= HalfOpenRequests

(* The closed breaker trips on FailureThreshold failures in a row, never on     *)
(* failures with a success reported between them or left from an earlier        *)
(* period.                                                                      *)
TripsOnStreak ==
  [][state = "CLOSED" /\ state' = "OPEN" => streak' = FailureThreshold]_vars

(* A half-open breaker closes by itself only when SuccessThreshold successes    *)
(* were counted, of which all but HalfOpenRequests + 1 come from calls admitted *)
(* before it went half-open.                                                    *)
RecoveryCounted ==
  [][(state = "HALF_OPEN" /\ state' = "CLOSED" /\ ~Reset) =>
       /\ success_count' >= SuccessThreshold
       /\ late' >= SuccessThreshold - (HalfOpenRequests + 1)]_vars

(* While the service is in use, no breaker stays open for ever.                 *)
OpenEnds == state = "OPEN" ~> state # "OPEN"

(* "half-open: tentative recovery" and "recovery threshold" of the header: once *)
(* every guarded call succeeds, a half-open breaker closes again.               *)
HealthyRecovers ==
  <>[][~ \E c \in Clients : Failure(c)]_vars
    => (state = "HALF_OPEN" ~> state = "CLOSED")
=============================================================================
