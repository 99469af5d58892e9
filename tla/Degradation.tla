---------------------------- MODULE Degradation ----------------------------
(* What kai/resilience/kai_resilience.c offers beside the circuit breaker: the  *)
(* memory protection, the timeout, the resource limits, the fallback chain and  *)
(* the health score.  A timeout and a chain belong to one request; the memory   *)
(* protection is shared, and mem_protect_check() takes no lock: it samples the  *)
(* memory, reads the recorded level, records the new one and notifies, each in  *)
(* a step of its own.                                                           *)
EXTENDS Integers, Sequences

CONSTANTS
  Checkers,   \* tasks in mem_protect_check()
  Percents,   \* how much of the memory may be in use
  MaxMillis,  \* bound: milliseconds of ktime_get_ns()
  Timeouts,   \* the lengths of a timeout
  Limits,     \* the values of a limit, 0 for none
  Loads       \* the values of a load

DegradationAssumption ==
  /\ Percents \subseteq 0..100 /\ MaxMillis \in Nat
  /\ Timeouts \subseteq Nat /\ Timeouts # {} /\ Limits \subseteq Nat /\ Loads \subseteq Nat

VARIABLES
  percent,   \* the memory in use
  pressure,  \* current_pressure
  told,      \* the level the last on_pressure() reported
  checker,   \* per checker: place, the level it sampled, the level it found
  overlap,   \* history: two checks have been under way at once
  timer,     \* timeout_ctx: start, length, expired
  millis,    \* ktime_get_ns()
  chain,     \* fallback_chain: levels and current_level
  verdict    \* the last result of resource_check(), and the last health score

memoryVars == <<percent, pressure, told, checker, overlap>>
requestVars == <<timer, millis, chain, verdict>>

Levels == 0..4     \* enum mem_pressure
High == 3          \* MEM_PRESSURE_HIGH
Fallbacks == 1..4  \* enum fallback_level without FALLBACK_NONE
Admitted == {"ok", "again", "nomem", "busy"}

TypeOK ==
  /\ percent \in Percents /\ pressure \in Levels /\ told \in Levels
  /\ checker \in [Checkers -> [place : {"idle", "sampled", "found", "notify"},
                               level : Levels, old : Levels]]
  /\ overlap \in BOOLEAN
  /\ timer \in [start : 0..MaxMillis, length : Timeouts, expired : BOOLEAN]
  /\ millis \in 0..MaxMillis
  /\ chain.levels \in Seq(Fallbacks) /\ Len(chain.levels) <= 4 /\ chain.current \in 0..4
  /\ chain.current <= Len(chain.levels)
  /\ verdict \in [resources : Admitted, score : {80, 90, 100}]

CheckIdle == [place |-> "idle", level |-> 0, old |-> 0]

Init ==
  /\ percent \in Percents
  /\ pressure = 0 /\ told = 0 /\ overlap = FALSE
  /\ checker = [c \in Checkers |-> CheckIdle]
  /\ timer = [start |-> 0, length |-> CHOOSE t \in Timeouts : TRUE, expired |-> FALSE]
  /\ millis = 0
  /\ chain = [levels |-> <<>>, current |-> 0]
  /\ verdict = [resources |-> "ok", score |-> 100]

---------------------------------------------------------------------------
(* Memory protection *)

(* get_mem_pressure_level(); the thresholds of mem_protect are not looked at.   *)
PressureLevel ==
  CASE percent >= 95 -> 4 [] percent >= 85 -> 3 [] percent >= 70 -> 2
    [] percent >= 50 -> 1 [] OTHER -> 0

UseMemory(p) ==
  /\ percent' = p
  /\ UNCHANGED <<pressure, told, checker, overlap>>

Sample(c) ==
  /\ checker[c].place = "idle"
  /\ checker' = [checker EXCEPT ![c] = [place |-> "sampled", level |-> PressureLevel,
                                        old |-> 0]]
  /\ overlap' = (overlap \/ \E d \in Checkers : checker[d] # CheckIdle)
  /\ UNCHANGED <<percent, pressure, told>>

ReadOld(c) ==
  /\ checker[c].place = "sampled"
  /\ checker' = [checker EXCEPT ![c].place = "found", ![c].old = pressure]
  /\ UNCHANGED <<percent, pressure, told, overlap>>

(* Mutant for ToldAgrees: only a rise is reported.                              *)
Risen(c) == checker[c].level > checker[c].old

Changed(c) == checker[c].level # checker[c].old

Record(c) ==
  /\ checker[c].place = "found"
  /\ pressure' = checker[c].level
  /\ checker' = [checker EXCEPT ![c] = IF Changed(c) THEN [@ EXCEPT !.place = "notify"]
                                                     ELSE CheckIdle]
  /\ UNCHANGED <<percent, told, overlap>>

(* on_pressure(); the check returns -ENOMEM from level High upwards.            *)
Notify(c) ==
  /\ checker[c].place = "notify"
  /\ told' = checker[c].level
  /\ checker' = [checker EXCEPT ![c] = CheckIdle]
  /\ UNCHANGED <<percent, pressure, overlap>>

Memory ==
  \/ \E p \in Percents : UseMemory(p)
  \/ \E c \in Checkers : Sample(c) \/ ReadOld(c) \/ Record(c) \/ Notify(c)

---------------------------------------------------------------------------
(* One request *)

Passes ==
  /\ millis < MaxMillis
  /\ millis' = millis + 1
  /\ UNCHANGED <<timer, chain, verdict>>

TimeoutStart(t) ==
  /\ timer' = [start |-> millis, length |-> t, expired |-> FALSE]
  /\ UNCHANGED <<millis, chain, verdict>>

Up == millis - timer.start >= timer.length

(* timeout_expired() keeps what it finds; timeout_remaining_ms() only looks.    *)
TimeoutExpired ==
  /\ timer' = [timer EXCEPT !.expired = @ \/ Up]
  /\ UNCHANGED <<millis, chain, verdict>>

TimeoutCancel ==
  /\ timer' = [timer EXCEPT !.expired = TRUE]
  /\ UNCHANGED <<millis, chain, verdict>>

Over(load, limit) == limit # 0 /\ load > limit

(* Inferences, memory and processor: what is in use, and the three limits.      *)
Amounts(values) == [inferences : values, memory : values, cpu : values]

(* The first limit that is exceeded decides.                                    *)
ResourceCheck(limit, load) ==
  /\ verdict' = [verdict EXCEPT !.resources =
       IF Over(load.inferences, limit.inferences) THEN "again"
       ELSE IF Over(load.memory, limit.memory) THEN "nomem"
       ELSE IF Over(load.cpu, limit.cpu) THEN "busy" ELSE "ok"]
  /\ UNCHANGED <<timer, millis, chain>>

HealthCheck(used) ==
  /\ verdict' = [verdict EXCEPT !.score = IF used > 90 THEN 80 ELSE IF used > 70 THEN 90 ELSE 100]
  /\ UNCHANGED <<timer, millis, chain>>

(* Bound: of the chains tried none goes back to a stronger level; any would do. *)
Chains == {s \in UNION {[1..n -> Fallbacks] : n \in 1..4} :
             \A i, j \in DOMAIN s : i < j => s[i] < s[j]}

ChainInit(levels) ==
  /\ Len(levels) <= 4
  /\ chain' = [levels |-> levels, current |-> 0]
  /\ UNCHANGED <<timer, millis, verdict>>

(* fallback_next(): -ENOENT behind the last level; fallback_get() only looks.   *)
FallbackNext ==
  /\ chain.current < Len(chain.levels)
  /\ chain' = [chain EXCEPT !.current = @ + 1]
  /\ UNCHANGED <<timer, millis, verdict>>

FallbackReset ==
  /\ chain' = [chain EXCEPT !.current = 0]
  /\ UNCHANGED <<timer, millis, verdict>>

Request ==
  \/ Passes \/ TimeoutExpired \/ TimeoutCancel \/ FallbackNext \/ FallbackReset
  \/ \E t \in Timeouts : TimeoutStart(t)
  \/ \E limit \in Amounts(Limits), load \in Amounts(Loads) : ResourceCheck(limit, load)
  \/ \E p \in Percents : HealthCheck(p)
  \/ \E levels \in Chains : ChainInit(levels)

Spec == Init /\ [][(Memory /\ UNCHANGED requestVars)
                   \/ (Request /\ UNCHANGED memoryVars)]_<<memoryVars, requestVars>>

---------------------------------------------------------------------------
(* Properties *)

(* Only checks that overlap can leave the callback with another level than the  *)
(* one recorded, in a report that later checks, which find no change, do not    *)
(* repair; as long as checks follow each other the two agree whenever none is   *)
(* under way.                                                                   *)
ToldAgrees ==
  ~overlap /\ (\A c \in Checkers : checker[c] = CheckIdle) => told = pressure
=============================================================================
