---------------------------- MODULE Layer2Kernel ----------------------------
(* The kernel side of layer 2 (layer2/src/ai_layer2_netlink.c): the routing     *)
(* configuration, which ai_layer2_set_config() changes under its mutex and a    *)
(* write to /proc/ai_layer2 without it, field by field, and the decision        *)
(* requests with their list of pending ones and their timers.  Statistics,      *)
(* thresholds and the provider's names are left out.                            *)
EXTENDS Naturals, FiniteSets

CONSTANTS
  Requesters,  \* tasks that request a decision or push to the daemon
  MaxPending,  \* AI_L2_MAX_PENDING
  Setters,     \* tasks in ai_layer2_set_config()
  Writers      \* tasks writing to /proc/ai_layer2

Layer2KernelAssumption == MaxPending \in Nat \ {0}

VARIABLES
  mode, enabled,  \* layer2_cfg
  setter,         \* per setter: place and the mode it sets
  writer,         \* per writer: place
  requester,      \* per requester: place; "dead" after a kernel oops
  pending,        \* pending_list, by requester
  armed,          \* the requesters whose request's timer is armed
  oopsed,         \* a worker has run a timer without a function
  gone            \* the module is unloaded

configVars == <<mode, enabled, setter, writer>>
requestingVars == <<requester, pending, armed, oopsed>>
kernelVars == <<configVars, requestingVars, gone>>

Modes == {"disabled", "sync", "async"}
InList == {"listed", "send", "remove", "dead"}

TypeOK ==
  /\ mode \in Modes /\ enabled \in BOOLEAN
  /\ setter \in [Setters -> [place : {"idle", "locked", "mode_set"}, mode : Modes]]
  /\ writer \in [Writers -> {"idle", "enabled"}]
  /\ requester \in [Requesters -> {"idle", "admit"} \cup InList]
  /\ pending \subseteq Requesters /\ armed \subseteq Requesters
  /\ oopsed \in BOOLEAN /\ gone \in BOOLEAN

(* ai_layer2_init(): asynchronous, and not enabled.                             *)
Init ==
  /\ mode = "async" /\ enabled = FALSE
  /\ setter = [s \in Setters |-> [place |-> "idle", mode |-> "disabled"]]
  /\ writer = [w \in Writers |-> "idle"]
  /\ requester = [r \in Requesters |-> "idle"]
  /\ pending = {} /\ armed = {}
  /\ oopsed = FALSE /\ gone = FALSE

---------------------------------------------------------------------------
(* Configuration *)

SetLock(s, m) ==
  /\ ~gone
  /\ \A t \in Setters : setter[t].place = "idle"
  /\ setter' = [setter EXCEPT ![s] = [place |-> "locked", mode |-> m]]
  /\ UNCHANGED <<mode, enabled, writer, requestingVars, gone>>

SetMode(s) ==
  /\ setter[s].place = "locked"
  /\ mode' = setter[s].mode
  /\ setter' = [setter EXCEPT ![s].place = "mode_set"]
  /\ UNCHANGED <<enabled, writer, requestingVars, gone>>

SetEnabled(s) ==
  /\ setter[s].place = "mode_set"
  /\ enabled' = (setter[s].mode # "disabled")
  /\ setter' = [setter EXCEPT ![s].place = "idle"]
  /\ UNCHANGED <<mode, writer, requestingVars, gone>>

WriteZero ==
  /\ ~gone
  /\ enabled' = FALSE
  /\ UNCHANGED <<mode, setter, writer, requestingVars, gone>>

(* Mutant for RoutingNeedsMode: the mode is written before the switch.          *)
ModeThenSwitch(w) ==
  /\ ~gone
  /\ \/ writer[w] = "idle" /\ mode' = "async" /\ UNCHANGED enabled
     \/ writer[w] = "enabled" /\ enabled' = TRUE /\ UNCHANGED mode
  /\ writer' = [writer EXCEPT ![w] = IF @ = "idle" THEN "enabled" ELSE "idle"]
  /\ UNCHANGED <<setter, requestingVars, gone>>

(* A '1': the switch first, then the mode.                                      *)
WriteOne(w) ==
  /\ ~gone
  /\ \/ writer[w] = "idle" /\ enabled' = TRUE /\ UNCHANGED mode
     \/ writer[w] = "enabled" /\ mode' = "async" /\ UNCHANGED enabled
  /\ writer' = [writer EXCEPT ![w] = IF @ = "idle" THEN "enabled" ELSE "idle"]
  /\ UNCHANGED <<setter, requestingVars, gone>>

---------------------------------------------------------------------------
(* Requests *)

RequestStep(r, from, to) ==
  /\ ~gone
  /\ requester[r] = from
  /\ requester' = [requester EXCEPT ![r] = to]

Request(r) ==
  /\ enabled /\ RequestStep(r, "idle", "admit")
  /\ UNCHANGED <<configVars, pending, armed, oopsed, gone>>

Full == Cardinality(pending) >= MaxPending

Admit(r) ==
  /\ \/ Full /\ RequestStep(r, "admit", "idle") /\ UNCHANGED pending
     \/ ~Full /\ RequestStep(r, "admit", "listed") /\ pending' = pending \cup {r}
  /\ UNCHANGED <<configVars, armed, oopsed, gone>>

(* schedule_delayed_work() of a work item whose function is NULL.               *)
Schedule(r) ==
  /\ RequestStep(r, "listed", "send")
  /\ armed' = armed \cup {r}
  /\ UNCHANGED <<configVars, pending, oopsed, gone>>

(* The header is put into the message twice.  Whether the second one fits       *)
(* depends on how the allocation was rounded; the result is used unchecked.     *)
SecondHeaderFits == {TRUE, FALSE}

(* nl_send_to_user() has no one to send to: nl_recv_msg() compares the length   *)
(* of the whole message with that of its payload and drops every message, the   *)
(* hello that would set nl_pid among them.  No memory comes to the same.        *)
Send(r) ==
  /\ \E fits \in SecondHeaderFits : RequestStep(r, "send", IF fits THEN "remove" ELSE "dead")
  /\ UNCHANGED <<configVars, pending, armed, oopsed, gone>>

(* The request leaves the list and is freed; its timer stays armed.             *)
Remove(r) ==
  /\ RequestStep(r, "remove", "idle")
  /\ pending' = pending \ {r}
  /\ UNCHANGED <<configVars, armed, oopsed, gone>>

(* The timer runs NULL, or whatever the freed request has become.               *)
TimerFires(r) ==
  /\ r \in armed
  /\ armed' = armed \ {r}
  /\ oopsed' = TRUE
  /\ UNCHANGED <<configVars, requester, pending, gone>>

(* Telemetry, I/O contexts and security events: sent in vain, or fatal.         *)
Push(r) ==
  /\ enabled
  /\ \E fits \in SecondHeaderFits : RequestStep(r, "idle", IF fits THEN "idle" ELSE "dead")
  /\ UNCHANGED <<configVars, pending, armed, oopsed, gone>>

(* ai_layer2_exit(): no caller is inside; those that died left their request.   *)
Exit ==
  /\ ~gone /\ gone' = TRUE
  /\ \A s \in Setters : setter[s].place = "idle"
  /\ \A w \in Writers : writer[w] = "idle"
  /\ \A r \in Requesters : requester[r] \in {"idle", "dead"}
  /\ pending' = {} /\ armed' = armed \ pending
  /\ UNCHANGED <<configVars, requester, oopsed>>

Next ==
  \/ \E s \in Setters : SetMode(s) \/ SetEnabled(s) \/ \E m \in Modes : SetLock(s, m)
  \/ \E w \in Writers : WriteOne(w)
  \/ WriteZero \/ Exit
  \/ \E r \in Requesters :
       Request(r) \/ Admit(r) \/ Schedule(r) \/ Send(r) \/ Remove(r) \/ TimerFires(r) \/ Push(r)

Spec == Init /\ [][Next]_kernelVars

---------------------------------------------------------------------------
(* Properties *)

(* Although a write to /proc/ai_layer2 takes no lock and may fall between the   *)
(* two assignments of ai_layer2_set_config(), routing is never left enabled in  *)
(* the disabled mode once all of them have finished.                            *)
RoutingNeedsMode ==
  (\A s \in Setters : setter[s].place = "idle") /\ (\A w \in Writers : writer[w] = "idle")
    => ~(enabled /\ mode = "disabled")
=============================================================================
