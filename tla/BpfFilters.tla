----------------------------- MODULE BpfFilters -----------------------------
(* The security and the traffic program (ebpf/security/ai_lsm.bpf.c,            *)
(* ebpf/io/ai_xdp.bpf.c): the kernel calls the one for every program a process  *)
(* executes and every file it opens, the other for every packet.  Both keep     *)
(* what they have seen in a map that is never emptied and report to a ring      *)
(* buffer that may be full.  Their thresholds are in arrays of one entry, which *)
(* are never without an entry: it is zero until user space writes one, and the  *)
(* values in the code, for want of an entry, are never used.  Until then every  *)
(* score reaches the threshold and every execution is denied.  Scores are in    *)
(* hundredths.                                                                  *)
EXTENDS Naturals, FiniteSets

CONSTANTS
  Pids,        \* process ids; one is given to process after process
  MaxRecords,  \* max_entries of exec_history and of traffic_baseline
  MaxExecs,    \* bound: executions counted, enough for a history
  Thresholds,  \* the thresholds user space may write to config_map and ai_config
  Sources,     \* source addresses
  RingSize     \* bound: events in a ring buffer

FiltersAssumption ==
  /\ MaxRecords \in Nat /\ MaxExecs \in Nat /\ MaxExecs > 5
  /\ Thresholds \subseteq Nat /\ RingSize \in Nat

VARIABLES
  execs,      \* exec_history: per pid, exec_count (0 for no record) and avg_interval
  threshold,  \* config_map
  limits,     \* ai_config: from where packets are dropped and redirected
  denied,     \* history: per pid, how often it had executed when it was denied
              \* under a threshold that no name reaches
  refused,    \* history: whether an execution that scored nothing was denied
  seen,       \* traffic_baseline: the sources with a baseline
  ring,       \* events in the ring buffer
  action      \* the verdict on the last packet

filterVars == <<execs, threshold, limits, denied, refused, seen, ring, action>>

NameReach == 45  \* the most a name scores
Intervals == {"burst", "short", "long"}  \* below 10 ms, below 100 ms, from there on
NotDenied == MaxExecs + 1

TypeOK ==
  /\ execs \in [Pids -> [count : 0..MaxExecs, short : BOOLEAN]]
  /\ Cardinality({p \in Pids : execs[p].count > 0}) <= MaxRecords
  /\ threshold \in Thresholds \cup {0}
  /\ limits \in [drop : Thresholds \cup {0}, slow : Thresholds \cup {0}]
  /\ denied \in [Pids -> 0..NotDenied] /\ refused \in BOOLEAN
  /\ seen \subseteq Sources /\ Cardinality(seen) <= MaxRecords
  /\ ring \in 0..RingSize
  /\ action \in {"pass", "redirect", "drop"}

Init ==
  /\ execs = [p \in Pids |-> [count |-> 0, short |-> TRUE]]
  /\ threshold = 0 /\ limits = [drop |-> 0, slow |-> 0]
  /\ denied = [p \in Pids |-> NotDenied] /\ refused = FALSE
  /\ seen = {} /\ ring = 0 /\ action = "pass"

(* bpf_ringbuf_reserve(): with no room the event is lost.                       *)
Reported == ring' = IF ring < RingSize THEN ring + 1 ELSE ring

(* User space reads an event, or writes thresholds.                             *)
Consume ==
  /\ ring > 0 /\ ring' = ring - 1
  /\ UNCHANGED <<execs, threshold, limits, denied, refused, seen, action>>

Configure(t) ==
  /\ threshold' = t
  /\ UNCHANGED <<execs, limits, denied, refused, seen, ring, action>>

ConfigureXdp(drop, slow) ==
  /\ limits' = [drop |-> drop, slow |-> slow]
  /\ UNCHANGED <<execs, threshold, denied, refused, seen, ring, action>>

---------------------------------------------------------------------------
(* ai_lsm.bpf.c *)

(* What the first characters of a name score.  Eight of them are compared, and  *)
(* no name that goes on is equal to "/tmp/" in eight.                           *)
NameScore == [plain |-> 0, tmp |-> 0, vartmp |-> 15, devshm |-> 15, preload |-> 40,
              proc |-> 30, procself |-> 45]

(* Mutant for DenialNeedsHistory: the average of a first record counts.         *)
HistoryScoreAtOnce(record, interval, orphan) ==
  (IF record.count > 10 /\ interval = "burst" THEN 50 ELSE 0)
    + (IF ~orphan /\ record.short THEN 30 ELSE 0)

(* avg_interval starts at zero; an orphan has no parent_pid.                    *)
HistoryScore(record, interval, orphan) ==
  (IF record.count > 10 /\ interval = "burst" THEN 50 ELSE 0)
    + (IF ~orphan /\ record.count > 5 /\ record.short THEN 30 ELSE 0)

ExecScore(p, name, interval, orphan) ==
  LET sum == NameScore[name]
               + (IF execs[p].count > 0 THEN HistoryScore(execs[p], interval, orphan) ELSE 0)
  IN  IF sum > 100 THEN 100 ELSE sum

HasRoom == Cardinality({p \in Pids : execs[p].count > 0}) < MaxRecords

(* The average follows the intervals at a distance, in 32 bits that may         *)
(* overflow; where it stands is open, but as long as all of them are short it   *)
(* is.  (The interval it takes in is declared in another block; it is the time  *)
(* since the last execution.)  A new process id gets a record as long as the    *)
(* map has room.                                                                *)
Recorded(p, interval) ==
  IF execs[p].count = 0
  THEN execs' = IF HasRoom THEN [execs EXCEPT ![p].count = 1] ELSE execs
  ELSE \E short \in IF interval = "long" \/ ~execs[p].short THEN BOOLEAN ELSE {TRUE} :
         execs' = [execs EXCEPT ![p] = [count |-> @.count + 1, short |-> short]]

(* AIHook_task_exec(): the record is updated whether or not the call is denied, *)
(* and an execution by another process of the same id counts.                   *)
TaskExec(p, name, interval, orphan) ==
  /\ execs[p].count < MaxExecs
  /\ Recorded(p, interval)
  /\ denied' = IF ExecScore(p, name, interval, orphan) >= threshold
                  /\ threshold > NameReach /\ execs[p].count < denied[p]
               THEN [denied EXCEPT ![p] = execs[p].count] ELSE denied
  /\ refused' = (refused \/ (ExecScore(p, name, interval, orphan) = 0 /\ threshold = 0))
  /\ Reported
  /\ UNCHANGED <<threshold, limits, seen, action>>

(* AIHook_file_open() reports and lets every file be opened.                    *)
FileOpen ==
  /\ Reported
  /\ UNCHANGED <<execs, threshold, limits, denied, refused, seen, action>>

---------------------------------------------------------------------------
(* ai_xdp.bpf.c *)

Packet == [kind : {"ssh_syn", "dns", "null_scan", "xmas", "other"}, lowTtl : BOOLEAN]

PacketScore(packet) ==
  (CASE packet.kind = "ssh_syn" -> 40 [] packet.kind = "dns" -> 30
     [] packet.kind \in {"null_scan", "xmas"} -> 50 [] OTHER -> 0)
    + (IF packet.lowTtl THEN 20 ELSE 0)

Verdict(score) ==
  CASE score >= limits.drop -> "drop"
    [] score < limits.drop /\ score >= limits.slow -> "redirect"
    [] OTHER -> "pass"

XdpClassify(source, packet) ==
  /\ seen' = IF Cardinality(seen) < MaxRecords THEN seen \cup {source} ELSE seen
  /\ action' = Verdict(PacketScore(packet))
  /\ Reported
  /\ UNCHANGED <<execs, threshold, limits, denied, refused>>

Next ==
  \/ Consume \/ FileOpen
  \/ \E t \in Thresholds : Configure(t)
  \/ \E drop, slow \in Thresholds : ConfigureXdp(drop, slow)
  \/ \E p \in Pids, name \in DOMAIN NameScore, interval \in Intervals,
        orphan \in BOOLEAN : TaskExec(p, name, interval, orphan)
  \/ \E source \in Sources, packet \in Packet : XdpClassify(source, packet)

Spec == Init /\ [][Next]_filterVars

---------------------------------------------------------------------------
(* Properties *)

(* A denial under a threshold that no name reaches, as the 70 in the code, is   *)
(* of a process id that has executed at least six times before, whatever it     *)
(* executes and however fast.  Under a lower one a name alone is enough, and    *)
(* under the zero of a map that was never written anything is.                  *)
DenialNeedsHistory == \A p \in Pids : denied[p] >= 6

(* docs/ARCHITECTURE.md: an execution is denied when its score is greater than  *)
(* the threshold, so one that scores nothing never is.  (Violated: as long as   *)
(* user space has written no threshold, a score of zero reaches it.)            *)
QuietAllowed == ~refused
=============================================================================
