--------------------------- MODULE PluginManager ---------------------------
(* The plugin manager (plugins/core/ai_plugin_mgr.c).  A plugin's module        *)
(* registers it at insmod and unregisters it at rmmod; other modules look it    *)
(* up, hold it and switch it on or off, and tasks have inferences dispatched to *)
(* it.  The plugins here are of one type, so the list of all plugins and the    *)
(* list of their type are the same.  plugins_lock keeps registrations and       *)
(* unregistrations apart and nothing else: lookups and dispatch do not take it, *)
(* and their rcu_read_lock() holds nothing back, since nobody waits for         *)
(* readers.  So each test unregistration makes, and its list_del(), is a step   *)
(* of its own, with any reader's step between them.                             *)
(* A plugin's memory is not used again after kfree(): its fields keep their     *)
(* values, its links are poisoned.                                              *)
EXTENDS Naturals, SequencesExt

CONSTANTS
  Plugins,      \* plugin modules, each with a name of its own
  Dispatchers,  \* tasks in ai_plugin_dispatch_infer()
  Holders,      \* tasks that get, enable, disable and put plugins
  MaxWait,      \* max_wait
  None

ASSUME PluginAssumption ==
  /\ MaxWait \in Nat /\ None \notin Plugins
  /\ IsFiniteSet(Dispatchers) /\ IsFiniteSet(Holders)

VARIABLES
  list,      \* all_plugins, newest first
  state,     \* how far the life of each plugin's object has come
  resident,  \* plugins whose module is loaded
  refs,      \* refcnt
  active,    \* active_inferences
  enabled,   \* the plugins switched on
  unreg,     \* per plugin: where ai_plugin_unregister() is, what is left of the
             \* wait and, once it is over, whether it had run out
  disp,      \* per dispatcher: place, plugin, and (history) whether it entered the
             \* plugin behind the test of its active inferences
  hold,      \* per holder: place, plugin, and (history) when it was counted:
             \* "before" the test of the count, "between" that and the list_del(),
             \* or "after" both
  manager    \* the plugin manager's own module

vars == <<list, state, resident, refs, active, enabled, unreg, disp, hold, manager>>

DispIdle == [place |-> "idle", at |-> None, late |-> FALSE]
HoldIdle == [place |-> "idle", at |-> None, counted |-> "no"]

UnregPlaces ==
  {"idle", "waiting", "testing", "unlinking", "exiting", "freeing", "done"}

TypeOK ==
  /\ list \in Seq(Plugins) /\ IsInjective(list)
  /\ ToSet(list) = {p \in Plugins : state[p] = "listed"}
  /\ state \in [Plugins -> {"none", "allocated", "listed", "unlinked", "freed"}]
  /\ resident \subseteq Plugins
  /\ refs \in [Plugins -> Nat] /\ active \in [Plugins -> Nat]
  /\ enabled \subseteq Plugins
  /\ unreg \in [Plugins -> [place : UnregPlaces,
                            budget : 0..MaxWait, expired : BOOLEAN]]
  /\ disp \in [Dispatchers -> [place : {"idle", "visit", "enter", "infer", "oops"},
                               at : Plugins \cup {None}, late : BOOLEAN]]
  /\ hold \in [Holders -> [place : {"idle", "found", "holding", "oops"},
                           at : Plugins \cup {None},
                           counted : {"no", "before", "between", "after"}]]
  /\ manager \in {"up", "down", "oops"}

Init ==
  /\ list = <<>> /\ state = [p \in Plugins |-> "none"]
  /\ resident = {} /\ enabled = {}
  /\ refs = [p \in Plugins |-> 0] /\ active = [p \in Plugins |-> 0]
  /\ unreg = [p \in Plugins |-> [place |-> "idle", budget |-> MaxWait, expired |-> FALSE]]
  /\ disp = [d \in Dispatchers |-> DispIdle]
  /\ hold = [h \in Holders |-> HoldIdle]
  /\ manager = "up"

Listed(p) == state[p] = "listed"
Position(p) == CHOOSE i \in DOMAIN list : list[i] = p

\* plugins_lock is held from the end of a wait to the list_del()
LockFree == \A p \in Plugins : unreg[p].place \notin {"testing", "unlinking"}

---------------------------------------------------------------------------
(* insmod: ai_plugin_register() *)

(* The object is made before ops->init() runs, which may fail; ops without an   *)
(* init, or of another version, are refused and the module is not loaded.       *)
Allocate(p) ==
  /\ manager = "up" /\ state[p] = "none"
  /\ state' = [state EXCEPT ![p] = "allocated"]
  /\ refs' = [refs EXCEPT ![p] = 1]
  /\ resident' = resident \cup {p}
  /\ UNCHANGED <<list, active, enabled, unreg, disp, hold, manager>>

InitFails(p) ==
  /\ state[p] = "allocated"
  /\ state' = [state EXCEPT ![p] = "freed"]
  /\ resident' = resident \ {p}
  /\ UNCHANGED <<list, refs, active, enabled, unreg, disp, hold, manager>>

Link(p) ==
  /\ state[p] = "allocated" /\ LockFree
  /\ state' = [state EXCEPT ![p] = "listed"]
  /\ list' = <<p>> \o list
  /\ UNCHANGED <<resident, refs, active, enabled, unreg, disp, hold, manager>>

---------------------------------------------------------------------------
(* rmmod: ai_plugin_unregister(), whose result the module cannot use *)

At(p, place) == unreg' = [unreg EXCEPT ![p].place = place]

(* Mutant for UnregisterReturns: the wait has no end.                           *)
TakenNone(n) == n

Taken(n) == n - 1

(* plugins_lock is dropped for ten milliseconds at a time while inferences run. *)
Wait(p) ==
  /\ active[p] > 0 /\ unreg[p].budget > 0
  /\ unreg' = [unreg EXCEPT ![p].place = "waiting", ![p].budget = Taken(@)]

(* Mutant for DrainedBeforeExit: the wait may be skipped.                       *)
Impatient(p) == TRUE

Quiet(p) == active[p] = 0 \/ unreg[p].budget = 0

(* The last test of active_inferences: from here on plugins_lock stays held.    *)
WaitEnds(p) ==
  /\ Quiet(p)
  /\ unreg' = [unreg EXCEPT ![p].place = "testing",
                            ![p].expired = active[p] > 0 /\ unreg[p].budget = 0]

AwaitInferences(p) ==
  /\ Listed(p) /\ p \in resident /\ LockFree
  /\ unreg[p].place \in {"idle", "waiting"}
  /\ Wait(p) \/ WaitEnds(p)
  /\ UNCHANGED <<list, state, resident, refs, active, enabled, disp, hold, manager>>

(* Mutant for HeldStays: the registrar's own reference is forgotten.            *)
BusyTwice(p) == refs[p] > 2

Busy(p) == refs[p] > 1

(* A plugin that is held stays on the list; rmmod goes on all the same.         *)
TestRefs(p) ==
  /\ unreg[p].place = "testing"
  /\ IF Busy(p) THEN At(p, "done") /\ resident' = resident \ {p}
                ELSE At(p, "unlinking") /\ UNCHANGED resident
  /\ UNCHANGED <<list, state, refs, active, enabled, disp, hold, manager>>

(* Mutant for TypeOK: only the list of the type is left.                        *)
StillLinked(p) == list

Unlinked(p) == RemoveAt(list, Position(p))

Unlink(p) ==
  /\ unreg[p].place = "unlinking"
  /\ At(p, "exiting")
  /\ list' = Unlinked(p)
  /\ state' = [state EXCEPT ![p] = "unlinked"]
  /\ UNCHANGED <<resident, refs, active, enabled, disp, hold, manager>>

(* ops->exit(), the totals and the unload event, then kfree().                  *)
Exit(p) ==
  /\ unreg[p].place = "exiting"
  /\ At(p, "freeing")
  /\ UNCHANGED <<list, state, resident, refs, active, enabled, disp, hold, manager>>

Free(p) ==
  /\ unreg[p].place = "freeing"
  /\ At(p, "done")
  /\ state' = [state EXCEPT ![p] = "freed"]
  /\ resident' = resident \ {p}
  /\ UNCHANGED <<list, refs, active, enabled, disp, hold, manager>>

---------------------------------------------------------------------------
(* ai_plugin_dispatch_infer() *)

others == <<list, state, resident, refs, enabled, unreg, hold, manager>>

First == IF list = <<>> THEN DispIdle
         ELSE [place |-> "visit", at |-> Head(list), late |-> FALSE]

Dispatch(d) ==
  /\ disp[d].place = "idle" /\ manager = "up"
  /\ disp' = [disp EXCEPT ![d] = First]
  /\ UNCHANGED <<active, others>>

(* On to the next plugin: from one that left the list there is no way on.       *)
After(p) ==
  IF ~Listed(p) THEN [place |-> "oops", at |-> p, late |-> FALSE]
  ELSE IF Position(p) = Len(list) THEN DispIdle
  ELSE [place |-> "visit", at |-> list[Position(p) + 1], late |-> FALSE]

Visit(d) ==
  /\ disp[d].place = "visit"
  /\ LET p == disp[d].at IN
     disp' = [disp EXCEPT ![d] = IF p \in enabled THEN [@ EXCEPT !.place = "enter"]
                                                  ELSE After(p)]
  /\ UNCHANGED <<active, others>>

\* whether unregistration has made its last test of active_inferences
WaitOver(p) == unreg[p].place \notin {"idle", "waiting"}

(* The operations of a plugin are gone with its module.                         *)
Enter(d) ==
  /\ disp[d].place = "enter"
  /\ LET p == disp[d].at IN
     IF p \in resident
     THEN /\ active' = [active EXCEPT ![p] = @ + 1]
          /\ disp' = [disp EXCEPT ![d].place = "infer", ![d].late = WaitOver(p)]
     ELSE disp' = [disp EXCEPT ![d].place = "oops"] /\ UNCHANGED active
  /\ UNCHANGED others

Leave(d) == active' = [active EXCEPT ![disp[d].at] = @ - 1]

(* A plugin's module that has gone takes the code under way with it.            *)
Succeed(d) ==
  /\ disp[d].place = "infer" /\ disp[d].at \in resident
  /\ Leave(d)
  /\ disp' = [disp EXCEPT ![d] = DispIdle]
  /\ UNCHANGED others

Fail(d) ==
  /\ disp[d].place = "infer" /\ disp[d].at \in resident
  /\ Leave(d)
  /\ disp' = [disp EXCEPT ![d] = After(disp[d].at)]
  /\ UNCHANGED others

Vanish(d) ==
  /\ disp[d].place = "infer" /\ disp[d].at \notin resident
  /\ disp' = [disp EXCEPT ![d].place = "oops"]
  /\ UNCHANGED <<active, others>>

---------------------------------------------------------------------------
(* ai_plugin_get(), ai_plugin_first(), ai_plugin_next(): the plugin is found    *)
(* on a list and counted in a second step *)

rest == <<list, state, resident, active, unreg, disp, manager>>

Look(h, p) ==
  /\ hold[h].place = "idle" /\ manager = "up" /\ Listed(p)
  /\ hold' = [hold EXCEPT ![h] = [place |-> "found", at |-> p, counted |-> "no"]]
  /\ UNCHANGED <<refs, enabled, rest>>

WhenCounted(p) == IF ~Listed(p) THEN "after"
                  ELSE IF unreg[p].place = "unlinking" THEN "between" ELSE "before"

Take(h) ==
  /\ hold[h].place = "found"
  /\ LET p == hold[h].at IN
     /\ refs' = [refs EXCEPT ![p] = @ + 1]
     /\ hold' = [hold EXCEPT ![h].place = "holding", ![h].counted = WhenCounted(p)]
  /\ UNCHANGED <<enabled, rest>>

(* ai_plugin_enable() and ai_plugin_disable(): ops->enable() may refuse.        *)
Switch(h) ==
  /\ hold[h].place = "holding" /\ hold[h].at \in resident
  /\ enabled' \in {enabled \cup {hold[h].at}, enabled \ {hold[h].at}}
  /\ UNCHANGED <<refs, hold, rest>>

SwitchGone(h) ==
  /\ hold[h].place = "holding" /\ hold[h].at \notin resident
  /\ hold' = [hold EXCEPT ![h].place = "oops"]
  /\ UNCHANGED <<refs, enabled, rest>>

(* The registrar's reference is never put, so the count does not reach zero.    *)
Put(h) ==
  /\ hold[h].place = "holding"
  /\ refs' = [refs EXCEPT ![hold[h].at] = @ - 1]
  /\ hold' = [hold EXCEPT ![h] = HoldIdle]
  /\ UNCHANGED <<enabled, rest>>

---------------------------------------------------------------------------
(* ai_plugin_mgr_exit(), once no module uses the manager: a plugin left on the  *)
(* list by a busy unregistration has no module to call into *)
ManagerExit ==
  /\ manager = "up" /\ resident = {}
  /\ \A d \in Dispatchers : disp[d].place \in {"idle", "oops"}
  /\ \A h \in Holders : hold[h].place \in {"idle", "oops"}
  /\ manager' = IF list = <<>> THEN "down" ELSE "oops"
  /\ UNCHANGED <<list, state, resident, refs, active, enabled, unreg, disp, hold>>

Unregister(p) == AwaitInferences(p) \/ TestRefs(p) \/ Unlink(p)
Rmmod(p) == Unregister(p) \/ Exit(p) \/ Free(p)

Next ==
  \/ \E p \in Plugins : Allocate(p) \/ InitFails(p) \/ Link(p) \/ Rmmod(p)
  \/ \E d \in Dispatchers : Dispatch(d) \/ Visit(d) \/ Enter(d)
                            \/ Succeed(d) \/ Fail(d) \/ Vanish(d)
  \/ \E h \in Holders : Take(h) \/ Switch(h) \/ SwitchGone(h) \/ Put(h)
                        \/ \E p \in Plugins : Look(h, p)
  \/ ManagerExit

(* rmmod runs on.  Nothing is assumed of the inferences and the holders.        *)
Spec == Init /\ [][Next]_vars /\ \A p \in Plugins : WF_vars(Rmmod(p))

---------------------------------------------------------------------------
(* Properties *)

(* The count unregistration tests protects whoever was counted before the test: *)
(* such a plugin stays listed, so it is not freed, until it is put.             *)
HeldStays == \A h \in Holders : hold[h].counted = "before" => Listed(hold[h].at)

(* From the last test of active_inferences until the plugin is freed, an        *)
(* inference that runs in it entered behind that test, unless the wait had run  *)
(* out: none that was under way when unregistration looked is cut off.          *)
Leaving(p) ==
  /\ unreg[p].place \in {"testing", "unlinking", "exiting", "freeing"}
  /\ ~unreg[p].expired
DrainedBeforeExit ==
  \A d \in Dispatchers : disp[d].place = "infer" /\ Leaving(disp[d].at) => disp[d].late

(* Whatever the plugin's inferences do, an unregistration that waits for them   *)
(* comes to an end.                                                             *)
UnregisterReturns ==
  \A p \in Plugins : unreg[p].place = "waiting" ~> unreg[p].place = "done"

(* What "引用计数" (reference counting) of the "一致性保障" (consistency          *)
(* guarantees) in docs/PLUGIN_ARCHITECTURE.md:117 says of kernel plugins: one   *)
(* that was taken while it was listed is not freed under its holder.            *)
HeldNotFreed ==
  \A h \in Holders :
    hold[h].counted \in {"before", "between"} => state[hold[h].at] # "freed"

(* What unregistration says it waits for (ai_plugin_mgr.c:147): a plugin's exit *)
(* function is called when none of its inferences is under way.                 *)
ExitAfterInference ==
  \A d \in Dispatchers :
    disp[d].place = "infer" => unreg[disp[d].at].place \notin {"exiting", "freeing"}
=============================================================================
