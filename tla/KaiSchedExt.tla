---------------------------- MODULE KaiSchedExt ----------------------------
(* The sched_ext programs (ebpf/sched/kai_sched_ext.bpf.c).  The kernel calls   *)
(* them on the CPU it happens to be on: select_cpu for a waking task, enqueue   *)
(* and dequeue as the task becomes runnable and stops being so.  Scores are in  *)
(* hundredths.  Of the features the hash covers only the utilisation is kept;   *)
(* io_wait_ns and is_foreground are never set by the program.  Whether a cached *)
(* decision has expired is left open, and slice averages are left out.          *)
EXTENDS Integers, FiniteSets, Functions, FiniteSetsExt

CONSTANTS
  Tasks,
  MaxProfiles,  \* max_entries of task_cache
  Utils,        \* the levels of cpu_util: "low", "mid", "high"
  NrCpus,       \* CPUs 0..NrCpus-1, 8 in the code
  Promote,      \* promote_threshold
  Demote,       \* demote_threshold
  Migrate,      \* migrate_threshold
  SampleRate,   \* ai_sample_rate
  MaxDrift      \* bound: nr_running of a CPU

SchedExtAssumption ==
  NrCpus \in Nat \ {0} /\ MaxProfiles \in Nat /\ SampleRate \in Nat \ {0} /\ MaxDrift \in Nat

VARIABLES
  nr_running,  \* per CPU, cpu_stats.nr_running in its own copy of its entry
  queued,      \* the tasks that are enqueued
  profiles,    \* the tasks task_cache has a profile of
  decisions,   \* decision_cache: hash -> decision
  counter,     \* the sampling counter of select_cpu
  online,      \* the CPUs that are online
  choice,      \* where the last waking task was sent
  missed       \* history: how many dequeues found nothing to take off

schedVars == <<nr_running, queued, profiles, decisions, counter, online, choice, missed>>

Cpus == 0..NrCpus - 1
Decision == {"keep", "promote", "demote", "migrate"}
Features == [util : Utils, realtime : BOOLEAN]

(* feature_hash(): whether the task is a real-time task is not part of it.      *)
Hash(f) == f.util

TypeOK ==
  /\ nr_running \in [Cpus -> 0..MaxDrift]
  /\ queued \subseteq Tasks /\ profiles \subseteq Tasks
  /\ DOMAIN decisions \subseteq Utils
  /\ Range(decisions) \subseteq Decision
  /\ counter \in 0..SampleRate - 1
  /\ online \subseteq Cpus /\ online # {}
  /\ choice \in Cpus /\ missed \in Nat

Init ==
  /\ nr_running = [c \in Cpus |-> 0]
  /\ queued = {} /\ profiles = {} /\ decisions = << >> /\ counter = 0
  /\ online = Cpus
  /\ choice = 0 /\ missed = 0

---------------------------------------------------------------------------
(* The score of a task *)

Score(f) ==
  50 + (CASE f.util = "high" -> 20 [] f.util = "low" -> -10 [] OTHER -> 0)
     + (IF f.realtime THEN 30 ELSE 0)

DecisionOf(f) ==
  CASE Score(f) > Promote -> "promote" [] Score(f) < Demote -> "demote"
    [] Score(f) > Migrate -> "migrate" [] OTHER -> "keep"

(* choose_cpu(): where the task was.  The code looks for the least loaded CPU   *)
(* when that one is not cpu_online(), which asks whether it is a possible CPU:  *)
(* the CPU of a task always is, off line too, so the search is never reached.   *)
ChooseCpu(wake) == wake

(* "Migrate" finds the CPU the task was on, so it takes the next one in turn.   *)
Target(decision, wake) ==
  CASE decision = "promote" -> ChooseCpu(wake)
    [] decision = "migrate" -> (ChooseCpu(wake) + 1) % NrCpus
    [] OTHER -> wake

---------------------------------------------------------------------------
(* The callbacks *)

(* A sample the rate skips leaves everything alone.                             *)
SelectSkipped(wake) ==
  /\ counter' = (counter + 1) % SampleRate
  /\ counter' # 0
  /\ choice' = wake
  /\ UNCHANGED <<nr_running, queued, profiles, decisions, online, missed>>

(* Profiles are never removed: when the map is full a new task gets no advice.  *)
SelectUnknown(t, wake) ==
  /\ counter' = (counter + 1) % SampleRate
  /\ counter' = 0
  /\ t \notin profiles /\ Cardinality(profiles) >= MaxProfiles
  /\ choice' = wake
  /\ UNCHANGED <<nr_running, queued, profiles, decisions, online, missed>>

Cached(f) == Hash(f) \in DOMAIN decisions

SelectCpu(t, wake, f) ==
  /\ counter' = (counter + 1) % SampleRate
  /\ counter' = 0
  /\ t \in profiles \/ Cardinality(profiles) < MaxProfiles
  /\ profiles' = profiles \cup {t}
  /\ \/ /\ Cached(f)
        /\ choice' = Target(decisions[Hash(f)], wake)
        /\ UNCHANGED decisions
     \/ /\ choice' = Target(DecisionOf(f), wake)
        /\ decisions' = [h \in DOMAIN decisions \cup {Hash(f)} |->
                           IF h = Hash(f) THEN DecisionOf(f) ELSE decisions[h]]
  /\ UNCHANGED <<nr_running, queued, online, missed>>

Enqueue(t, cpu) ==
  /\ t \notin queued /\ nr_running[cpu] < MaxDrift
  /\ queued' = queued \cup {t}
  /\ nr_running' = [nr_running EXCEPT ![cpu] = @ + 1]
  /\ UNCHANGED <<profiles, decisions, counter, online, choice, missed>>

(* Mutant for LoadAccounted: the count is cleared.                              *)
LoweredToNone(n) == 0

Lowered(n) == IF n > 0 THEN n - 1 ELSE n

Dequeue(t, cpu) ==
  /\ t \in queued
  /\ queued' = queued \ {t}
  /\ nr_running' = [nr_running EXCEPT ![cpu] = Lowered(@)]
  /\ missed' = IF nr_running[cpu] = 0 THEN missed + 1 ELSE missed
  /\ UNCHANGED <<profiles, decisions, counter, online, choice>>

(* A CPU comes or goes; the programs are not told.                              *)
Hotplug(cpu) ==
  /\ online' \in {online \cup {cpu}, online \ {cpu}} \ {{}}
  /\ UNCHANGED <<nr_running, queued, profiles, decisions, counter, choice, missed>>

Next ==
  \/ \E cpu \in Cpus : Hotplug(cpu)
  \/ \E t \in Tasks, cpu \in online :
       Enqueue(t, cpu) \/ Dequeue(t, cpu)
  \/ \E t \in Tasks, cpu \in Cpus :
       SelectSkipped(cpu) \/ SelectUnknown(t, cpu) \/ \E f \in Features : SelectCpu(t, cpu, f)

Spec == Init /\ [][Next]_schedVars

---------------------------------------------------------------------------
(* Properties *)

(* A task is counted on the CPU that enqueues it and discounted on the CPU that *)
(* dequeues it, which may be another and may count none.  What the counts show  *)
(* beyond the queued tasks is exactly the dequeues that found zero: the drift   *)
(* has no other source, and no later step takes it back.                        *)
LoadAccounted ==
  MapThenSumSet(LAMBDA c : nr_running[c], Cpus) = Cardinality(queued) + missed
=============================================================================
