----------------------------- MODULE KaiMetrics -----------------------------
(* The metrics registry, the audit ring and the alert engine                    *)
(* (kai/observe/kai_metrics.c).  Every call on the registry is one step under   *)
(* g_lock, every call on the audit ring one under g_audit_lock; an evaluation   *)
(* of the alert rules reads the clock before it waits for g_alert_lock.         *)
(* Formatting and logging are left out.                                         *)
EXTENDS Integers, Sequences, Functions, FiniteSets

CONSTANTS
  Metrics,     \* metric names
  CpuUsage,    \* the metric the alert engine looks at, "cpu_usage"
  MaxMetrics,  \* bound: entries on the registry
  MaxValue,    \* bound: values of a metric
  Busy,        \* an alert is due above this value, 90 in the code
  Rules,       \* alert rules
  Evaluators,  \* tasks in alert_evaluate()
  Cooldown,    \* cooldown_ms, in ticks
  Repeat,      \* repeat_count
  MaxTime,     \* bound: ticks of ktime_get_ns()
  Wrap,        \* 2^64, more ticks than the clock shows
  AuditSize,   \* AUDIT_BUF_SIZE
  MaxAudits    \* bound: audited events

MetricsAssumption ==
  /\ IsFiniteSet(Metrics) /\ CpuUsage \in Metrics
  /\ MaxValue \in Nat /\ Busy \in Nat /\ MaxAudits \in Nat
  /\ Cooldown \in Nat /\ Repeat \in Nat /\ AuditSize \in Nat \ {0}
  /\ MaxTime \in Nat /\ Wrap \in Nat /\ Wrap > MaxTime

VARIABLES
  metrics,    \* reg->metrics, newest first: name and value
  rules,      \* per rule, whether it is listed, current_count, last_trigger_ns
  streak,     \* history: hot evaluations of a rule since the last cool one
  evaluator,  \* per evaluator, whether it waits for g_alert_lock, and its now
  ticks,      \* ktime_get_ns()
  audit,      \* g_audit_buf: the event in each slot and whose details it shows
  audited     \* events audited so far; g_audit_idx is audited % AuditSize

metricsVars == <<metrics, rules, streak, evaluator, ticks, audit, audited>>

Now == 0..MaxTime

TypeOK ==
  /\ metrics \in Seq([name : Metrics, value : 0..MaxValue])
  /\ rules \in [Rules -> [listed : BOOLEAN, count : Nat, last : Now]]
  /\ streak \in [Rules -> 0..Repeat]
  /\ evaluator \in [Evaluators -> [waits : BOOLEAN, now : Now]]
  /\ ticks \in Now
  /\ audit \in [0..AuditSize - 1 -> [event : 0..MaxAudits, details : 0..MaxAudits]]
  /\ audited \in 0..MaxAudits

FreshRule == [listed |-> FALSE, count |-> 0, last |-> 0]

(* kai_metrics_init(): the metrics it registers; no rule is added by the module. *)
Init ==
  /\ metrics = CHOOSE s \in [1..Cardinality(Metrics) -> [name : Metrics, value : {0}]] :
                  IsInjective(s)
  /\ rules = [r \in Rules |-> FreshRule]
  /\ streak = [r \in Rules |-> 0]
  /\ evaluator = [e \in Evaluators |-> [waits |-> FALSE, now |-> 0]]
  /\ ticks = 0
  /\ audit = [i \in 0..AuditSize - 1 |-> [event |-> 0, details |-> 0]]
  /\ audited = 0

---------------------------------------------------------------------------
(* The registry: a name may be registered again, and hides the older entry *)

Entries(name) == {i \in DOMAIN metrics : metrics[i].name = name}

First(name) == CHOOSE i \in Entries(name) : \A j \in Entries(name) : i <= j

Registered(name) == Entries(name) # {}

MetricRegister(name) ==
  /\ Len(metrics) < MaxMetrics
  /\ metrics' = <<[name |-> name, value |-> 0]>> \o metrics

(* metric_set(), metric_inc(), metric_dec() and metric_add(): a gauge never     *)
(* goes below zero.                                                             *)
MetricUpdate(name) ==
  /\ Registered(name)
  /\ \E v \in 0..MaxValue :
       metrics' = [metrics EXCEPT ![First(name)].value = v]

MetricUnregister(name) ==
  /\ Registered(name)
  /\ metrics' = SubSeq(metrics, 1, First(name) - 1)
                  \o SubSeq(metrics, First(name) + 1, Len(metrics))

Registry(name) ==
  /\ MetricRegister(name) \/ MetricUpdate(name) \/ MetricUnregister(name)
  /\ UNCHANGED <<rules, streak, evaluator, ticks, audit, audited>>

---------------------------------------------------------------------------
(* The alert engine *)

alertRest == <<metrics, audit, audited>>

RuleAdd(r) ==
  /\ ~rules[r].listed
  /\ rules' = [rules EXCEPT ![r] = [FreshRule EXCEPT !.listed = TRUE]]
  /\ streak' = [streak EXCEPT ![r] = 0]
  /\ UNCHANGED <<evaluator, ticks, alertRest>>

RuleRemove(r) ==
  /\ rules[r].listed
  /\ rules' = [rules EXCEPT ![r] = FreshRule]
  /\ UNCHANGED <<streak, evaluator, ticks, alertRest>>

Tick ==
  /\ ticks < MaxTime
  /\ ticks' = ticks + 1
  /\ UNCHANGED <<rules, streak, evaluator, alertRest>>

ReadClock(e) ==
  /\ ~evaluator[e].waits
  /\ evaluator' = [evaluator EXCEPT ![e] = [waits |-> TRUE, now |-> ticks]]
  /\ UNCHANGED <<rules, streak, ticks, alertRest>>

(* now - last_trigger_ns, in unsigned arithmetic: a clock that was read before  *)
(* another evaluation's alert wraps.                                            *)
Cooled(rule, now) == (now - rule.last) % Wrap > Cooldown

Counted(rule, now) ==
  IF rule.count + 1 >= Repeat
  THEN [rule EXCEPT !.count = @ + 1, !.last = now]
  ELSE [rule EXCEPT !.count = @ + 1]

(* Mutant for CountBehindStreak: a cool evaluation leaves the count.            *)
JudgedKeeping(rule, now) ==
  IF metrics[First(CpuUsage)].value > Busy /\ Cooled(rule, now)
  THEN Counted(rule, now) ELSE rule

Judged(rule, now) ==
  IF metrics[First(CpuUsage)].value > Busy
  THEN IF Cooled(rule, now) THEN Counted(rule, now) ELSE rule
  ELSE [rule EXCEPT !.count = 0]

Streak(r) ==
  IF metrics[First(CpuUsage)].value <= Busy THEN 0
  ELSE IF streak[r] < Repeat THEN streak[r] + 1 ELSE Repeat

(* Without the metric no rule is touched.                                       *)
Evaluate(e) ==
  /\ evaluator[e].waits
  /\ evaluator' = [evaluator EXCEPT ![e] = [waits |-> FALSE, now |-> 0]]
  /\ LET seen == {r \in Rules : rules[r].listed /\ Registered(CpuUsage)} IN
     /\ rules' = [r \in Rules |-> IF r \in seen THEN Judged(rules[r], evaluator[e].now)
                                                ELSE rules[r]]
     /\ streak' = [r \in Rules |-> IF r \in seen THEN Streak(r) ELSE streak[r]]
  /\ UNCHANGED <<ticks, alertRest>>

---------------------------------------------------------------------------
(* kai_audit(): without details the slot shows those of the event it replaces *)
Audit(detailed) ==
  /\ audited < MaxAudits
  /\ audited' = audited + 1
  /\ audit' = [audit EXCEPT ![audited % AuditSize] =
                 [event |-> audited + 1,
                  details |-> IF detailed THEN audited + 1 ELSE @.details]]
  /\ UNCHANGED <<metrics, rules, streak, evaluator, ticks>>

Next ==
  \/ \E name \in Metrics : Registry(name)
  \/ \E r \in Rules : RuleAdd(r) \/ RuleRemove(r)
  \/ \E e \in Evaluators : ReadClock(e) \/ Evaluate(e)
  \/ \E detailed \in BOOLEAN : Audit(detailed)
  \/ Tick

Spec == Init /\ [][Next]_metricsVars

---------------------------------------------------------------------------
(* Properties *)

(* An alert is due after repeat_count consecutive hot evaluations: however      *)
(* evaluations, cooldowns and rules that come and go are ordered, a rule never  *)
(* counts more than it has seen since the last cool one.                        *)
CountBehindStreak ==
  \A r \in Rules : rules[r].count <= streak[r] \/ streak[r] = Repeat

(* What the cooldown of a rule is for: while the rule stays listed, it alerts   *)
(* again only when more than Cooldown has passed since its last alert.          *)
CooldownKept ==
  [][\A r \in Rules :
       rules[r].listed /\ rules'[r].listed /\ rules'[r].last # rules[r].last
         => rules'[r].last - rules[r].last > Cooldown]_metricsVars
=============================================================================
