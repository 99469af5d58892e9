------------------------------ MODULE Services ------------------------------
(* The parts of the system that neither call each other nor share state: the    *)
(* system call of the KAI engine, its metrics and caches, what remains of its   *)
(* resilience, the page predictor of ai_core, the BPF programs, the kernel side *)
(* of layer 2, the backend client of its gateway, the skill router, the web     *)
(* dashboard and the monitor.  Which of them moves *)
(* is chosen once: as no step of one is a step of another, the states they      *)
(* reach one at a time are all the states each of them reaches.                 *)
EXTENDS Naturals

CONSTANTS
  Callers, MaxConcurrent, Burst,                                 \* KaiSyscall
  Metrics, CpuUsage, MaxMetrics, MaxValue, Busy, Rules, Evaluators, Cooldown, Repeat,
  MaxTime, Wrap, AuditSize, MaxAudits,                           \* KaiMetrics
  Checkers, Percents, MaxMillis, Timeouts, Limits, Loads,        \* Degradation
  Pages, History, Files, Decisions, Inserters, MaxEntries, Hosts, Addresses, DnsSize,
  Lifetime, MaxClock, NoFile,                                    \* KernelCaches
  Tasks, MaxProfiles, Utils, NrCpus, Promote, Demote, Migrate, SampleRate,
  MaxDrift,                                                      \* KaiSchedExt
  Pids, MaxRecords, MaxExecs, Thresholds, Sources, RingSize,     \* BpfFilters
  Requesters, MaxPending, Setters, Writers,                      \* Layer2Kernel
  MaxOptions, Confidences, Statuses,                             \* GatewayClient
  MaxKeywords, Removable,                                        \* SkillRouter
  MaxRequests, Bodies, BufferSize, Words,                        \* WebServer
  Visitors, Usages, Seconds, HistorySize,                        \* Monitor
  Frames, AccessHistory, FullScore, MaxOut                       \* PageTracker

VARIABLES
  focus,  \* the part that moves
  caller, active, tokens,
  metrics, rules, streak, evaluator, ticks, audit, audited,
  percent, pressure, told, checker, overlap, timer, millis, chain, verdict,
  history, predicted, lsm, inserter, dns, clock,
  nr_running, queued, profiles, decisions, counter, online, choice, missed,
  execs, threshold, limits, denied, refused, seen, ring, action,
  mode, enabled, setter, writer, requester, pending, armed, oopsed, gone,
  settings, place, request, response, arrived, outcome,
  mcpTools, weights, last, reply,
  running, thread, sent, wire, unsent, buffer, answers, asked, pipelined,
  listening, report, collecting, dataLock, index, filled, visitor,
  accesses, head, tracking, predictions

Syscall == INSTANCE KaiSyscall
Alerts  == INSTANCE KaiMetrics
Degrade == INSTANCE Degradation
Caches  == INSTANCE KernelCaches
Sched   == INSTANCE KaiSchedExt
Filters == INSTANCE BpfFilters
Kernel2 == INSTANCE Layer2Kernel
Client  == INSTANCE GatewayClient
Router  == INSTANCE SkillRouter
Web     == INSTANCE WebServer
Watch   == INSTANCE Monitor
Tracker == INSTANCE PageTracker

ASSUME ServicesAssumption ==
  /\ Syscall!SyscallAssumption /\ Alerts!MetricsAssumption
  /\ Degrade!DegradationAssumption /\ Caches!CachesAssumption
  /\ Sched!SchedExtAssumption /\ Filters!FiltersAssumption
  /\ Kernel2!Layer2KernelAssumption
  /\ Client!GatewayClientAssumption /\ Router!SkillRouterAssumption
  /\ Web!WebAssumption /\ Watch!MonitorAssumption /\ Tracker!TrackerAssumption

syscall == <<caller, active, tokens>>
alerts == <<metrics, rules, streak, evaluator, ticks, audit, audited>>
memory == <<percent, pressure, told, checker, overlap>>
requests == <<timer, millis, chain, verdict>>
pages == <<history, predicted>>
records == <<lsm, inserter, dns, clock>>
sched == <<nr_running, queued, profiles, decisions, counter, online, choice, missed>>
filters == <<execs, threshold, limits, denied, refused, seen, ring, action>>
kernel2 == <<mode, enabled, setter, writer, requester, pending, armed, oopsed, gone>>
client == <<settings, place, request, response, arrived, outcome>>
router == <<mcpTools, weights, last, reply>>
web == <<running, thread, sent, wire, unsent, buffer, answers, asked, pipelined>>
watch == <<listening, report, collecting, dataLock, index, filled, visitor>>
tracker == <<accesses, head, tracking, predictions>>

vars == <<focus, syscall, alerts, memory, requests, pages, records, sched, filters, kernel2,
          client, router, web, watch, tracker>>

Parts == {"syscall", "alerts", "memory", "requests", "pages", "records", "sched",
          "filters", "kernel2", "client", "router", "web", "watch", "tracker"}

(* A part that does not move starts in one of its initial states.               *)
Init ==
  /\ focus \in Parts
  /\ Syscall!Init /\ Alerts!Init /\ Degrade!Init /\ Caches!Init /\ Sched!Init
  /\ Filters!Init /\ Kernel2!Init /\ Client!Init /\ Router!Init /\ Web!Init
  /\ Watch!Init /\ Tracker!Init
  /\ IF focus = "client" THEN TRUE ELSE settings = Client!Parsed(<<>>, FALSE)
  /\ IF focus = "memory" THEN TRUE ELSE percent = CHOOSE p \in Percents : TRUE

(* One part moves, the others stay as they are.                                 *)
Next ==
  /\ UNCHANGED focus
  /\ IF focus = "syscall" THEN Syscall!Next ELSE UNCHANGED syscall
  /\ IF focus = "alerts" THEN Alerts!Next ELSE UNCHANGED alerts
  /\ IF focus = "memory" THEN Degrade!Memory ELSE UNCHANGED memory
  /\ IF focus = "requests" THEN Degrade!Request ELSE UNCHANGED requests
  /\ IF focus = "pages" THEN Caches!PageHistory ELSE UNCHANGED pages
  /\ IF focus = "records" THEN Caches!Records ELSE UNCHANGED records
  /\ IF focus = "sched" THEN Sched!Next ELSE UNCHANGED sched
  /\ IF focus = "filters" THEN Filters!Next ELSE UNCHANGED filters
  /\ IF focus = "kernel2" THEN Kernel2!Next ELSE UNCHANGED kernel2
  /\ IF focus = "client" THEN Client!Next ELSE UNCHANGED client
  /\ IF focus = "router" THEN Router!Next ELSE UNCHANGED router
  /\ IF focus = "web" THEN Web!Next ELSE UNCHANGED web
  /\ IF focus = "watch" THEN Watch!Next ELSE UNCHANGED watch
  /\ IF focus = "tracker" THEN Tracker!Next ELSE UNCHANGED tracker

Spec == Init /\ [][Next]_vars

---------------------------------------------------------------------------
(* Properties: those of the parts, where they are stated and explained.  A part  *)
(* that stands still is in a state it could also start to move from, so what    *)
(* takes long to evaluate is asked of the part that moves only *)

(* Every part keeps its type; and the page history and the DNS cache never hold *)
(* two records of the same page or host.                                        *)
TypesOK ==
  /\ focus \in Parts
  /\ focus = "syscall" => Syscall!TypeOK
  /\ focus = "alerts" => Alerts!TypeOK
  /\ focus \in {"memory", "requests"} => Degrade!TypeOK
  /\ focus \in {"pages", "records"} => Caches!TypeOK /\ Caches!OneRecordPerKey
  /\ focus = "sched" => Sched!TypeOK
  /\ focus = "filters" => Filters!TypeOK
  /\ focus = "kernel2" => Kernel2!TypeOK
  /\ focus = "client" => Client!TypeOK
  /\ focus = "router" => Router!TypeOK
  /\ focus = "web" => Web!TypeOK
  /\ focus = "watch" => Watch!TypeOK
  /\ focus = "tracker" => Tracker!TypeOK

(* Whichever way a call ends, its place and its buffers are given back.         *)
PermitsBalanced == Syscall!PermitsBalanced

(* No rule counts more hot evaluations than it has seen in a row.               *)
CountBehindStreak == Alerts!CountBehindStreak

(* Checks that do not overlap leave the pressure callback up to date.           *)
ToldAgrees == Degrade!ToldAgrees

(* The scheduler's load figures exceed the queued tasks by exactly the dequeues *)
(* that found zero; under a threshold no name reaches, no process id is denied  *)
(* before its sixth execution; and a page that was used more recently than      *)
(* another throughout, and not last for writing, is ranked in front of it.      *)
AdviceSound ==
  /\ focus = "sched" => Sched!LoadAccounted
  /\ focus = "filters" => Filters!DenialNeedsHistory
  /\ focus = "tracker" => Tracker!HotterInFront

(* Layer 2 routing is never left enabled in the disabled mode.                  *)
RoutingNeedsMode == Kernel2!RoutingNeedsMode

(* A request goes to the categories of its best rules; the DeepSeek coder is    *)
(* never asked of Kimi, in the skill router with its default weights and in the *)
(* MCP core; and the gateway asks its backend for a model of its own.           *)
RoutesFit ==
  /\ focus = "router" => Router!AnalyzeKeepsBest /\ Router!CoderStaysWithDeepSeek
  /\ focus = "client" => Client!ModelFitsBackend

(* A client of the dashboard that waits for its answers and states the lengths  *)
(* of its bodies gets at most one answer for each request, in turn; and the     *)
(* monitor shows a health with its own figures.                                 *)
AnswersFit == Web!AnsweredInTurn /\ Watch!ReportsCoherent
=============================================================================
