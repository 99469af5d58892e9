------------------------ MODULE CircuitBreakerProofs ------------------------
(* Proofs about the circuit breaker, for any number of clients, any           *)
(* thresholds and any timeout.                                                 *)
EXTENDS CircuitBreaker, FiniteSetTheorems, TLAPS

(* The closed breaker's failure count is its run of failures, and is below the *)
(* threshold that would have opened it.                                        *)
ClosedCount ==
  state = "CLOSED" => failure_count = streak /\ failure_count < FailureThreshold

(* Calls let through while the breaker is half-open: the one that found the    *)
(* timeout passed, which request_count leaves out, and the half_open_requests  *)
(* it counts, however often calls come back and ask again.                     *)
HalfOpenBurst ==
  state = "HALF_OPEN" =>
    /\ probes = request_count + 1
    /\ probes <= HalfOpenRequests + 1
    /\ Cardinality(Probing) <= probes

(* The age the breaker computes is the time since it opened: every step that   *)
(* opens it stamps it, and none that leaves it open does.                      *)
AgeIsOpenTime == state = "OPEN" => opened = elapsed

(* Every success the half-open breaker has counted was reported by a call of   *)
(* this period, no longer in flight, or by a late one.                         *)
SuccessesExplained ==
  state = "HALF_OPEN" =>
    /\ success_count + Cardinality(Probing) <= probes + late
    /\ success_count < SuccessThreshold
    /\ request_count <= HalfOpenRequests

IInv == TypeOK /\ HalfOpenBurst /\ AgeIsOpenTime /\ ClosedCount /\ SuccessesExplained

-----------------------------------------------------------------------------
LEMMA ProbingFinite ==
  /\ IsFiniteSet(Probing) /\ Cardinality(Probing) \in Nat
  /\ IsFiniteSet(Probing') /\ Cardinality(Probing') \in Nat
  BY FS_Subset, FS_CardinalityType, CircuitBreakerAssumption DEF Probing

(* A report takes its call out of Probing if it was one.                       *)
LEMMA ReportedProbe ==
  ASSUME TypeOK, NEW c \in Clients, work' = [work EXCEPT ![c] = "idle"]
  PROVE  Cardinality(Probing') = IF work[c] = "probe" THEN Cardinality(Probing) - 1
                                                       ELSE Cardinality(Probing)
<1>1. Probing' = Probing \ {c} /\ (c \in Probing <=> work[c] = "probe")
  BY DEF Probing, TypeOK
<1>2. CASE work[c] = "probe"
  BY <1>1, <1>2, ProbingFinite, FS_RemoveElement
<1>3. CASE work[c] # "probe"
  <2>1. Probing' = Probing
    BY <1>1, <1>3
  <2> QED BY <2>1, <1>3
<1> QED BY <1>2, <1>3

LEMMA InitIInv == Init => IInv
  BY CircuitBreakerAssumption
  DEF Init, IInv, TypeOK, HalfOpenBurst, AgeIsOpenTime, ClosedCount, SuccessesExplained

LEMMA AllowIInv ==
  ASSUME IInv, NEW c \in Clients, Allow(c)
  PROVE  IInv'
<1> USE CircuitBreakerAssumption
<1>1. CASE AllowClosed(c)
  BY <1>1 DEF AllowClosed, IInv, TypeOK, HalfOpenBurst, AgeIsOpenTime, ClosedCount, SuccessesExplained
<1>2. CASE AllowOpen(c)
  <2> USE <1>2 DEF AllowOpen, HalfOpens
  <2>1. Probing' = {c}
    BY DEF Probing, IInv, TypeOK
  <2>2. Cardinality(Probing') = 1
    BY <2>1, FS_Singleton
  <2>3. TypeOK' /\ ClosedCount' /\ AgeIsOpenTime'
    BY DEF IInv, TypeOK, ClosedCount, AgeIsOpenTime
  <2>4. HalfOpenBurst' /\ SuccessesExplained'
    BY <2>2 DEF IInv, TypeOK, HalfOpenBurst, SuccessesExplained
  <2> QED BY <2>3, <2>4 DEF IInv
<1>3. CASE AllowHalfOpen(c)
  <2> USE <1>3 DEF AllowHalfOpen, RoomForProbe
  <2>1. Probing' = Probing \cup {c} /\ c \notin Probing
    BY DEF Probing, IInv, TypeOK
  <2>2. Cardinality(Probing') = Cardinality(Probing) + 1
    BY <2>1, ProbingFinite, FS_AddElement
  <2>3. TypeOK' /\ ClosedCount' /\ AgeIsOpenTime'
    BY DEF IInv, TypeOK, ClosedCount, AgeIsOpenTime, HalfOpenBurst
  <2>4. HalfOpenBurst' /\ SuccessesExplained'
    BY <2>2, ProbingFinite DEF IInv, TypeOK, HalfOpenBurst, SuccessesExplained
  <2> QED BY <2>3, <2>4 DEF IInv
<1> QED BY <1>1, <1>2, <1>3 DEF Allow

LEMMA ReportIInv ==
  ASSUME IInv, NEW c \in Clients, Report(c)
  PROVE  IInv'
<1> USE CircuitBreakerAssumption
<1>1. CASE SuccessClosed(c)
  BY <1>1 DEF SuccessClosed, FailuresAfterSuccess, IInv, TypeOK, HalfOpenBurst,
              AgeIsOpenTime, ClosedCount, SuccessesExplained
<1>2. CASE SuccessHalfOpen(c)
  <2> USE <1>2 DEF SuccessHalfOpen, Recovers
  <2>1. TypeOK' /\ ClosedCount' /\ AgeIsOpenTime'
    BY DEF IInv, TypeOK, ClosedCount, AgeIsOpenTime, SuccessesExplained
  <2>2. Cardinality(Probing') = IF work[c] = "probe" THEN Cardinality(Probing) - 1
                                                     ELSE Cardinality(Probing)
    BY ReportedProbe DEF IInv
  <2>3. HalfOpenBurst' /\ SuccessesExplained'
    BY <2>2, ProbingFinite DEF IInv, TypeOK, HalfOpenBurst, SuccessesExplained
  <2> QED BY <2>1, <2>3 DEF IInv
<1>3. CASE Failure(c) \/ ReportOpen(c)
  BY <1>3 DEF Failure, FailureClosed, FailureHalfOpen, ReportOpen, Trips, cb,
              IInv, TypeOK, HalfOpenBurst, AgeIsOpenTime, ClosedCount, SuccessesExplained
<1> QED BY <1>1, <1>2, <1>3 DEF Report

LEMMA NextIInv == IInv /\ [Next]_vars => IInv'
<1> SUFFICES ASSUME IInv, [Next]_vars PROVE IInv'
  OBVIOUS
<1> USE CircuitBreakerAssumption
<1>1. CASE UNCHANGED vars
  BY <1>1 DEF vars, cb, IInv, TypeOK, HalfOpenBurst, AgeIsOpenTime, ClosedCount, SuccessesExplained, Probing
<1>2. ASSUME NEW c \in Clients, Allow(c) \/ Report(c) PROVE IInv'
  BY <1>2, AllowIInv, ReportIInv
<1>3. CASE Reset
  BY <1>3 DEF Reset, IInv, TypeOK, HalfOpenBurst, AgeIsOpenTime, ClosedCount, SuccessesExplained
<1>4. CASE Tick
  BY <1>4 DEF Tick, IInv, TypeOK, HalfOpenBurst, AgeIsOpenTime, ClosedCount, SuccessesExplained, Probing
<1> QED BY <1>1, <1>2, <1>3, <1>4 DEF Next

-----------------------------------------------------------------------------
THEOREM InductiveInvariant == Spec => []IInv
  BY InitIInv, NextIInv, PTL DEF Spec

(* The counters stay within their thresholds.                                  *)
THEOREM TypeCorrect == Spec => []TypeOK
<1>1. IInv => TypeOK
  BY DEF IInv
<1> QED BY <1>1, InductiveInvariant, PTL

(* What the code guarantees in place of half_open_requests: at most one call   *)
(* more is let through in a half-open period.                                  *)
THEOREM HalfOpenBurstBounded == Spec => []HalfOpenBurst
<1>1. IInv => HalfOpenBurst
  BY DEF IInv
<1> QED BY <1>1, InductiveInvariant, PTL

(* The timeout runs from the opening: nothing reported shortens or extends it. *)
THEOREM TimeoutRunsFromOpening == Spec => OpenForTimeout
<1>1. IInv /\ [Next]_vars =>
        [state = "OPEN" =>
           /\ InFlight' \ InFlight # {} => opened > TimeoutMs
           /\ opened > TimeoutMs => TimedOut]_vars
  <2> SUFFICES ASSUME IInv, Next, state = "OPEN"
               PROVE  /\ InFlight' \ InFlight # {} => opened > TimeoutMs
                      /\ opened > TimeoutMs => TimedOut
    OBVIOUS
  <2>1. opened = elapsed
    BY DEF IInv, AgeIsOpenTime
  <2>2. opened > TimeoutMs => TimedOut
    BY <2>1 DEF TimedOut
  <2>3. ASSUME NEW c \in Clients, Allow(c) PROVE opened > TimeoutMs
    BY <2>1, <2>3 DEF Allow, AllowClosed, AllowOpen, AllowHalfOpen, TimedOut
  <2>4. ASSUME NEW c \in Clients, Report(c) PROVE InFlight' \subseteq InFlight
    BY <2>4 DEF Report, SuccessClosed, SuccessHalfOpen, Failure, FailureClosed,
                FailureHalfOpen, ReportOpen, IInv, TypeOK, InFlight
  <2>5. CASE Reset \/ Tick
    BY <2>5, <2>2 DEF Reset, Tick, InFlight
  <2> QED BY <2>2, <2>3, <2>4, <2>5 DEF Next
<1> QED BY <1>1, InductiveInvariant, PTL DEF Spec, OpenForTimeout

(* The breaker trips on a full run of failures only.                           *)
THEOREM TripsOnStreakOnly == Spec => TripsOnStreak
<1>1. IInv /\ [Next]_vars =>
        [state = "CLOSED" /\ state' = "OPEN" => streak' = FailureThreshold]_vars
  <2> SUFFICES ASSUME IInv, Next, state = "CLOSED", state' = "OPEN"
               PROVE  streak' = FailureThreshold
    OBVIOUS
  <2>1. PICK c \in Clients : FailureClosed(c)
    BY DEF Next, Allow, AllowClosed, AllowOpen, AllowHalfOpen, Report, SuccessClosed,
           SuccessHalfOpen, Failure, FailureHalfOpen, ReportOpen, Reset, Tick
  <2> QED BY <2>1, CircuitBreakerAssumption DEF FailureClosed, Trips, IInv, TypeOK, ClosedCount
<1> QED BY <1>1, InductiveInvariant, PTL DEF Spec, TripsOnStreak

(* A half-open breaker owes its recovery to late reports: with the constants   *)
(* of circuit_breaker_init() (three successes, one half-open request) its own  *)
(* probes can never close it.                                                  *)
THEOREM RecoveryNeedsLateReports == Spec => RecoveryCounted
<1>1. IInv /\ [Next]_vars =>
        [(state = "HALF_OPEN" /\ state' = "CLOSED" /\ ~Reset) =>
           /\ success_count' >= SuccessThreshold
           /\ late' >= SuccessThreshold - (HalfOpenRequests + 1)]_vars
  <2> SUFFICES ASSUME IInv, Next, state = "HALF_OPEN", state' = "CLOSED", ~Reset
               PROVE  /\ success_count' >= SuccessThreshold
                      /\ late' >= SuccessThreshold - (HalfOpenRequests + 1)
    OBVIOUS
  <2>1. PICK c \in Clients : SuccessHalfOpen(c) /\ Recovers
    BY DEF Next, Allow, AllowClosed, AllowOpen, HalfOpens, AllowHalfOpen, Report, SuccessClosed,
           SuccessHalfOpen, Failure, FailureClosed, FailureHalfOpen, ReportOpen, Reset, Tick
  <2>2. success_count' + Cardinality(Probing') <= probes + late'
    <3>1. Cardinality(Probing') = IF work[c] = "probe" THEN Cardinality(Probing) - 1
                                                       ELSE Cardinality(Probing)
      BY <2>1, ReportedProbe DEF IInv, SuccessHalfOpen
    <3> QED BY <2>1, <3>1, ProbingFinite
            DEF SuccessHalfOpen, IInv, TypeOK, SuccessesExplained
  <2> QED BY <2>1, <2>2, ProbingFinite, CircuitBreakerAssumption
          DEF SuccessHalfOpen, Recovers, IInv, TypeOK, HalfOpenBurst
<1> QED BY <1>1, InductiveInvariant, PTL DEF Spec, RecoveryCounted
=============================================================================
