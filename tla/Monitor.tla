------------------------------ MODULE Monitor ------------------------------
(* The performance monitor (ui/web/ai_monitor.c): a thread collects the         *)
(* system's figures under data_lock and scores its health, and each connection  *)
(* has a thread of its own that waits for one request and answers it.  Network  *)
(* and disk figures are read like the others and are left out.  SIGINT and      *)
(* SIGTERM are ignored: the process ends when it finds no port to listen on, or *)
(* by the signal of a write to a connection whose client has gone.              *)
EXTENDS Integers

CONSTANTS
  Visitors,    \* connections, by their slot
  Usages,      \* CPU and memory usage in percent
  Seconds,     \* values of time(NULL)
  HistorySize  \* length of the history ring

MonitorAssumption == 0 \in Seconds /\ 0 \in Usages /\ HistorySize \in Nat \ {0}

VARIABLES
  listening,   \* "starting", "yes", or "ended" with the process
  report,      \* data
  collecting,  \* where the collector is
  dataLock,    \* who holds data_lock
  index,       \* history_idx
  filled,      \* history_count
  visitor      \* per connection: its place and what it was answered

historyVars == <<index, filled>>
monitorVars == <<listening, report, collecting, dataLock, historyVars, visitor>>

Reports == [cpu : Usages, mem : Usages, crowded : BOOLEAN, second : Seconds,
            health : 0..100, sampled : BOOLEAN]
NoReport == [cpu |-> 0, mem |-> 0, crowded |-> FALSE, second |-> 0, health |-> 0,
             sampled |-> FALSE]
MonitorPaths == {"page", "metrics", "api", "other", "garbled"}

TypeOK ==
  /\ listening \in {"starting", "yes", "ended"}
  /\ report \in Reports
  /\ collecting \in {"awake", "reading", "judging", "pushing", "asleep"}
  /\ dataLock \in BOOLEAN
  /\ index \in 0..HistorySize - 1 /\ filled \in 0..HistorySize
  /\ visitor \in [Visitors -> [place : {"closed", "waiting", "metrics"},
                               status : {0, 200, 400, 404}, report : Reports]]

Init ==
  /\ listening = "starting" /\ report = NoReport
  /\ collecting = "awake" /\ dataLock = FALSE
  /\ index = 0 /\ filled = 0
  /\ visitor = [v \in Visitors |-> [place |-> "closed", status |-> 0, report |-> NoReport]]

---------------------------------------------------------------------------
(* Health *)

UsageLoss(usage) == IF usage > 90 THEN 20 ELSE IF usage > 70 THEN 10 ELSE 0

(* The AI figures are made from the time: second % 10000 inferences and         *)
(* second % 50 errors.                                                          *)
ErrorLoss(second) ==
  LET inferences == second % 10000
      rate == ((second % 50) * 100) \div inferences
  IN  IF inferences = 0 THEN 0 ELSE IF rate > 20 THEN 15 ELSE IF rate > 10 THEN 8 ELSE 0

(* A latency of 15.5 ms and second % 30 ms more, here in half milliseconds.     *)
LatencyLoss(second) ==
  LET latency == 31 + 2 * (second % 30)
  IN  IF latency > 200 THEN 10 ELSE IF latency > 100 THEN 5 ELSE 0

HealthScore(r) ==
  100 - UsageLoss(r.cpu) - UsageLoss(r.mem) - (IF r.crowded THEN 15 ELSE 0)
      - ErrorLoss(r.second) - LatencyLoss(r.second)

---------------------------------------------------------------------------
(* data_collector() *)

(* Mutant for ReportsCoherent: the figures are read without the lock.           *)
Unlocked == TRUE

LockFree == ~dataLock

Up == listening # "ended"

CollectLock ==
  /\ Up /\ collecting = "awake" /\ LockFree
  /\ collecting' = "reading" /\ dataLock' = TRUE
  /\ UNCHANGED <<listening, report, historyVars, visitor>>

(* A file that cannot be opened leaves the figures of the time before.          *)
CollectRead ==
  /\ Up /\ collecting = "reading"
  /\ \E cpu, mem \in Usages, crowded \in BOOLEAN, second \in Seconds, stat, meminfo, loadavg,
        uptime \in BOOLEAN :
       report' = [report EXCEPT !.cpu = IF stat THEN cpu ELSE @,
                                !.mem = IF meminfo THEN mem ELSE @,
                                !.crowded = IF loadavg THEN crowded ELSE @,
                                !.second = second,
                                !.sampled = @ \/ uptime]
  /\ collecting' = "judging"
  /\ UNCHANGED <<listening, dataLock, historyVars, visitor>>

CollectHealth ==
  /\ Up /\ collecting = "judging"
  /\ report' = [report EXCEPT !.health = HealthScore(report)]
  /\ collecting' = "pushing" /\ dataLock' = FALSE
  /\ UNCHANGED <<listening, historyVars, visitor>>

PushHistory ==
  /\ Up /\ collecting = "pushing" /\ LockFree
  /\ index' = (index + 1) % HistorySize
  /\ filled' = IF filled < HistorySize THEN filled + 1 ELSE filled
  /\ collecting' = "asleep"
  /\ UNCHANGED <<listening, report, dataLock, visitor>>

Wake ==
  /\ Up /\ collecting = "asleep"
  /\ collecting' = "awake"
  /\ UNCHANGED <<listening, report, dataLock, historyVars, visitor>>

---------------------------------------------------------------------------
(* main() and handle_conn() *)

Listen ==
  /\ listening = "starting"
  /\ listening' \in {"yes", "ended"}
  /\ UNCHANGED <<report, collecting, dataLock, historyVars, visitor>>

VisitorStep(v, next) ==
  /\ listening = "yes"
  /\ visitor' = [visitor EXCEPT ![v] = next]
  /\ UNCHANGED <<listening, report, collecting, dataLock, historyVars>>

Accept(v) ==
  /\ visitor[v].place = "closed"
  /\ VisitorStep(v, [place |-> "waiting", status |-> 0, report |-> NoReport])

(* Nothing within five seconds, or the other end has gone.                      *)
HangUp(v) ==
  /\ visitor[v].place = "waiting"
  /\ VisitorStep(v, [visitor[v] EXCEPT !.place = "closed"])

(* Whatever one recv() brings is the request.                                   *)
Serve(v, path) ==
  /\ visitor[v].place = "waiting"
  /\ VisitorStep(v, [visitor[v] EXCEPT
                       !.place = IF path = "metrics" THEN "metrics" ELSE "closed",
                       !.status = CASE path = "page" -> 200 [] path = "garbled" -> 400
                                    [] path = "metrics" -> 0 [] OTHER -> 404])

ServeMetrics(v) ==
  /\ visitor[v].place = "metrics" /\ LockFree
  /\ VisitorStep(v, [place |-> "closed", status |-> 200, report |-> report])

(* A client that leaves before its answer: SIGPIPE, which nothing ignores.      *)
AnswerNobody(v) ==
  /\ listening = "yes"
  /\ visitor[v].place = "waiting" \/ (visitor[v].place = "metrics" /\ LockFree)
  /\ listening' = "ended"
  /\ UNCHANGED <<report, collecting, dataLock, historyVars, visitor>>

Next ==
  \/ CollectLock \/ CollectRead \/ CollectHealth \/ PushHistory \/ Wake \/ Listen
  \/ \E v \in Visitors :
       Accept(v) \/ HangUp(v) \/ AnswerNobody(v) \/ ServeMetrics(v)
         \/ \E path \in MonitorPaths : Serve(v, path)

Spec == Init /\ [][Next]_monitorVars

---------------------------------------------------------------------------
(* Properties *)

(* A page is never shown a health that belongs to other figures than the ones   *)
(* beside it, though the collector rewrites them while it is being answered.    *)
ReportsCoherent ==
  \A v \in Visitors :
    LET shown == visitor[v].report IN shown.sampled => shown.health = HealthScore(shown)
=============================================================================
