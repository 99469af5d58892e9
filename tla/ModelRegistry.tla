--------------------------- MODULE ModelRegistry ---------------------------
(* The model registry of ai_core (ai_core/src/ai_core.c): registration,        *)
(* reference counts, synchronous and asynchronous inference on a model, the     *)
(* hardware devices an inference may run on, and module exit.                   *)
(*                                                                              *)
(* A runner is a kernel thread inside the API (Threads) or an asynchronous      *)
(* request with its work item (Requests).  A critical section under ai_lock is  *)
(* one step, except the one a device runs in: it holds the read lock for as     *)
(* long as the device takes.  The reference counts are atomic variables that    *)
(* are changed outside the lock.  An address is used by one model or device     *)
(* only, so that a use after free stays visible.                                *)
(*                                                                              *)
(* Nothing ties ai_model_unregister() to the registrar of the model it finds: a *)
(* caller may take away, by name, a model whose one reference is somebody       *)
(* else's, as ai_self_check() may after it has put its own.  Whoever comes back *)
(* to such a model later counts down, unlinks or frees memory that is not its   *)
(* any more; from then on nothing is said of the kernel (phase "corrupt").      *)
EXTENDS Integers, FiniteSets

CONSTANTS
  Threads, Requests,
  Models,     \* addresses of ai_model_t
  Devices,    \* addresses of struct ai_device with ops->run (others are skipped)
  Names,      \* model names
  None

Runners == Threads \cup Requests

ASSUME ModelRegistryAssumption ==
  /\ IsFiniteSet(Threads) /\ IsFiniteSet(Requests) /\ IsFiniteSet(Models)
  /\ Threads \cap Requests = {}
  /\ None \notin Models

VARIABLES
  phase,      \* the module is "up", "draining" its workqueue, "down", or memory
              \* that was freed has been written to: "corrupt"
  enabled,    \* ai_enabled
  hardware,   \* ai_engine_mode # 0
  listed,     \* ai_models; list_add() puts the newest first, so born is its order
  born,       \* number of the registration that made the model, 0 if none has
  name, refcnt,
  heap,       \* is the model "unused", "live" or "freed"
  owned,      \* its registrar has not given its reference up
  strayed,    \* history: models unregistered by somebody else than their registrar
  devices,    \* ai_devices
  devheap, devowned,
  pc, ref, dev    \* each runner's place, its model and its device

modelVars == <<listed, born, name, refcnt, heap, owned, strayed>>
deviceVars == <<devices, devheap, devowned>>
runnerVars == <<pc, ref, dev>>
vars == <<phase, enabled, hardware, modelVars, deviceVars, runnerVars>>

Life == {"unused", "live", "freed"}

TypeOK ==
  /\ phase \in {"up", "draining", "down", "corrupt"}
  /\ enabled \in BOOLEAN /\ hardware \in BOOLEAN
  /\ listed \subseteq Models
  /\ born \in [Models -> Nat]
  /\ name \in [Models -> Names]
  /\ refcnt \in [Models -> Nat]
  /\ heap \in [Models -> Life]
  /\ owned \in [Models -> BOOLEAN]
  /\ strayed \subseteq Models
  /\ devices \subseteq Devices
  /\ devheap \in [Devices -> Life]
  /\ devowned \in [Devices -> BOOLEAN]
  /\ pc \in [Runners -> {"idle", "queued", "infer", "hw", "put", "unlink", "wlock",
                         "free", "dev_unlink", "dev_wlock", "dev_free"}]
  /\ ref \in [Runners -> Models \cup {None}]
  /\ dev \in [Runners -> Devices \cup {None}]

(* After ai_core_init(); what ai_self_check() registers there it frees there.   *)
Init ==
  /\ phase = "up" /\ enabled = TRUE /\ hardware = FALSE
  /\ listed = {}
  /\ born = [m \in Models |-> 0]
  /\ name \in [Models -> Names]
  /\ refcnt = [m \in Models |-> 0]
  /\ heap = [m \in Models |-> "unused"]
  /\ owned = [m \in Models |-> FALSE]
  /\ strayed = {}
  /\ devices = {}
  /\ devheap = [d \in Devices |-> "unused"]
  /\ devowned = [d \in Devices |-> FALSE]
  /\ pc = [r \in Runners |-> "idle"]
  /\ ref = [r \in Runners |-> None]
  /\ dev = [r \in Runners |-> None]

\* Mutant: list changes under the read lock.
WriteUnlocked == TRUE

(* ai_lock can be taken for writing: no device runs under the read lock.        *)
WriteLockable == \A r \in Runners : pc[r] # "hw"

(* Someone waits in write_lock(&ai_lock): the kernel's queued lock lets no new  *)
(* reader in before it.                                                         *)
WriterWaits == \E r \in Runners : pc[r] \in {"wlock", "dev_wlock"}

(* list_for_each_entry() stops at the newest registration under the name.       *)
IsFirst(m, n) ==
  /\ m \in listed /\ name[m] = n
  /\ \A k \in listed : name[k] = n => born[k] <= born[m]

Idle(t) == t \in Threads /\ pc[t] = "idle" /\ phase = "up"
Move(r, to, m) == pc' = [pc EXCEPT ![r] = to] /\ ref' = [ref EXCEPT ![r] = m]

-----------------------------------------------------------------------------
(* Registration.                                                                *)

\* Mutant: one reference for the list and one for the registrar.
TwoReferences == 2

\* refcount_set(&model->refcnt, 1)
FirstReferences == 1

(* ai_model_register()                                                          *)
Register(t, m, n) ==
  /\ Idle(t) /\ WriteLockable
  /\ heap[m] = "unused" /\ name[m] = n
  /\ heap' = [heap EXCEPT ![m] = "live"]
  /\ refcnt' = [refcnt EXCEPT ![m] = FirstReferences]
  /\ born' = [born EXCEPT ![m] = 1 + Cardinality({k \in Models : heap[k] # "unused"})]
  /\ owned' = [owned EXCEPT ![m] = TRUE]
  /\ listed' = listed \cup {m}
  /\ UNCHANGED <<phase, enabled, hardware, name, strayed, deviceVars, runnerVars>>

\* Mutant: off by one, an inference in flight does not make the model busy.
BusyLate(m) == refcnt[m] > 2

\* refcount_read(&model->refcnt) > 1
Busy(m) == refcnt[m] > 1

(* ai_model_unregister(): by name, under the write lock; -EBUSY changes         *)
(* nothing.  The one reference it takes for its caller's may be another's.      *)
Unregister(t, n) ==
  /\ Idle(t) /\ WriteLockable
  /\ \E m \in Models :
       /\ IsFirst(m, n) /\ ~Busy(m)
       /\ listed' = listed \ {m}
       /\ \/ owned[m] /\ owned' = [owned EXCEPT ![m] = FALSE] /\ strayed' = strayed
          \/ owned' = owned /\ strayed' = strayed \cup {m}
       /\ Move(t, "free", m)
  /\ UNCHANGED <<phase, enabled, hardware, born, name, refcnt, heap, deviceVars, dev>>

(* The decrement of ai_model_put(): whoever reaches zero unlinks and frees.     *)
Drop(r, m) ==
  /\ refcnt' = [refcnt EXCEPT ![m] = refcnt[m] - 1]
  /\ IF refcnt[m] = 1 THEN Move(r, "unlink", m) ELSE Move(r, "idle", None)

(* A registrar's ai_model_put() of the reference ai_model_register() gave it.   *)
PutRegistration(t, m) ==
  /\ Idle(t) /\ owned[m] /\ heap[m] = "live"
  /\ owned' = [owned EXCEPT ![m] = FALSE]
  /\ Drop(t, m)
  /\ UNCHANGED <<phase, enabled, hardware, listed, born, name, heap, strayed,
                 deviceVars, dev>>

CorruptMemory ==
  /\ phase' = "corrupt"
  /\ UNCHANGED <<enabled, hardware, modelVars, deviceVars, runnerVars>>

(* The same put after the model went: the count it changes is no one's memory.  *)
PutFreed(t, m) == Idle(t) /\ owned[m] /\ heap[m] = "freed" /\ CorruptMemory

(* Between the decrement and the lock the model is still on the list.           *)
QueueForLock(r) ==
  /\ pc[r] \in {"unlink", "dev_unlink"}
  /\ pc' = [pc EXCEPT ![r] = IF pc[r] = "unlink" THEN "wlock" ELSE "dev_wlock"]
  /\ UNCHANGED <<phase, enabled, hardware, modelVars, deviceVars, ref, dev>>

Unlink(r) ==
  /\ pc[r] = "wlock" /\ WriteLockable /\ ref[r] \in listed
  /\ listed' = listed \ {ref[r]}
  /\ Move(r, "free", ref[r])
  /\ UNCHANGED <<phase, enabled, hardware, born, name, refcnt, heap, owned, strayed,
                 deviceVars, dev>>

(* ClearPageReserved() and kfree(), after the lock is released.                 *)
Free(r) ==
  /\ pc[r] = "free"
  /\ heap' = [heap EXCEPT ![ref[r]] = "freed"]
  /\ Move(r, "idle", None)
  /\ UNCHANGED <<phase, enabled, hardware, listed, born, name, refcnt, owned, strayed,
                 deviceVars, dev>>

(* The decrement or the list_del() of a model that somebody took away before.   *)
TouchDead(r) ==
  /\ \/ pc[r] = "put" /\ heap[ref[r]] = "freed"
     \/ pc[r] = "wlock" /\ WriteLockable /\ ref[r] \notin listed
  /\ CorruptMemory

-----------------------------------------------------------------------------
(* Inference.                                                                   *)

\* Mutant: a plain increment where the code has refcount_inc_not_zero().
MayTakeAny(m) == TRUE

MayTake(m) == refcnt[m] > 0

\* Mutant: the lookup hands the model out without a reference of its own.
NotTaken(m) == refcnt[m]

Taken(m) == refcnt[m] + 1

(* ai_model_get() finds a model: of several with the name only the first is     *)
(* tried, even if it is on its way out.                                         *)
Get(r, n) ==
  \E m \in Models :
    /\ ~WriterWaits /\ IsFirst(m, n) /\ MayTake(m)
    /\ refcnt' = [refcnt EXCEPT ![m] = Taken(m)]
    /\ Move(r, "infer", m)
    /\ UNCHANGED <<phase, enabled, hardware, listed, born, name, heap, owned, strayed,
                   deviceVars, dev>>

NotFound(n) == ~WriterWaits /\ ~ \E m \in Models : IsFirst(m, n) /\ MayTake(m)

(* ai_infer_sync() by a thread; without a model it returns -ENOENT at once.     *)
InferSync(t) == Idle(t) /\ enabled /\ \E n \in Names : Get(t, n)

(* ai_infer_async(): the request is the caller's, free to be queued again only  *)
(* after its callback.                                                          *)
InferAsync(r) ==
  /\ pc[r] = "idle" /\ phase = "up" /\ enabled
  /\ Move(r, "queued", None)
  /\ UNCHANGED <<phase, enabled, hardware, modelVars, deviceVars, dev>>

\* Mutant: a request that finds inference disabled is left in the queue.
WhenNotRun == "queued"

WhenNotStarted == "idle"

(* ai_async_work() starts, perhaps after inference was disabled or the model    *)
(* went away; then the callback gets the error.                                 *)
WorkStarts(r) ==
  /\ r \in Requests /\ pc[r] = "queued"
  /\ \/ enabled /\ \E n \in Names : Get(r, n)
     \/ /\ ~enabled \/ \E n \in Names : NotFound(n)
        /\ Move(r, WhenNotStarted, None)
        /\ UNCHANGED <<phase, enabled, hardware, modelVars, deviceVars, dev>>

(* The engine: in software, or on a registered device under the read lock.      *)
RunSoftware(r) ==
  /\ pc[r] = "infer" /\ (~hardware \/ (devices = {} /\ ~WriterWaits))
  /\ Move(r, "put", ref[r])
  /\ UNCHANGED <<phase, enabled, hardware, modelVars, deviceVars, dev>>

RunHardware(r) ==
  /\ pc[r] = "infer" /\ hardware /\ ~WriterWaits
  /\ \E d \in devices : dev' = [dev EXCEPT ![r] = d]
  /\ Move(r, "hw", ref[r])
  /\ UNCHANGED <<phase, enabled, hardware, modelVars, deviceVars>>

DeviceReturns(r) ==
  /\ pc[r] = "hw"
  /\ dev' = [dev EXCEPT ![r] = None]
  /\ Move(r, "put", ref[r])
  /\ UNCHANGED <<phase, enabled, hardware, modelVars, deviceVars>>

(* ai_infer_sync() puts the model; a request's callback follows.                *)
PutModel(r) ==
  /\ pc[r] = "put" /\ heap[ref[r]] = "live"
  /\ Drop(r, ref[r])
  /\ UNCHANGED <<phase, enabled, hardware, listed, born, name, heap, owned, strayed,
                 deviceVars, dev>>

-----------------------------------------------------------------------------
(* Devices: only their registrar holds a reference.                             *)

RegisterDevice(t, d) ==
  /\ Idle(t) /\ WriteLockable /\ devheap[d] = "unused"
  /\ devheap' = [devheap EXCEPT ![d] = "live"]
  /\ devowned' = [devowned EXCEPT ![d] = TRUE]
  /\ devices' = devices \cup {d}
  /\ UNCHANGED <<phase, enabled, hardware, modelVars, runnerVars>>

(* ai_put_device(), in the same three steps as ai_model_put().                  *)
PutDevice(t, d) ==
  /\ Idle(t) /\ devowned[d]
  /\ devowned' = [devowned EXCEPT ![d] = FALSE]
  /\ pc' = [pc EXCEPT ![t] = "dev_unlink"]
  /\ dev' = [dev EXCEPT ![t] = d]
  /\ UNCHANGED <<phase, enabled, hardware, modelVars, devices, devheap, ref>>

UnlinkDevice(t) ==
  /\ phase # "corrupt" /\ pc[t] = "dev_wlock" /\ WriteLockable
  /\ devices' = devices \ {dev[t]}
  /\ pc' = [pc EXCEPT ![t] = "dev_free"]
  /\ UNCHANGED <<phase, enabled, hardware, modelVars, devheap, devowned, ref, dev>>

FreeDevice(t) ==
  /\ phase # "corrupt" /\ pc[t] = "dev_free"
  /\ devheap' = [devheap EXCEPT ![dev[t]] = "freed"]
  /\ pc' = [pc EXCEPT ![t] = "idle"]
  /\ dev' = [dev EXCEPT ![t] = None]
  /\ UNCHANGED <<phase, enabled, hardware, modelVars, devices, devowned, ref>>

-----------------------------------------------------------------------------
(* Parameters and module exit.                                                  *)

SetEnabled ==
  /\ phase \in {"up", "draining"} /\ enabled' = ~enabled
  /\ UNCHANGED <<phase, hardware, modelVars, deviceVars, runnerVars>>

SetEngineMode ==
  /\ phase \in {"up", "draining"} /\ hardware' = ~hardware
  /\ UNCHANGED <<phase, enabled, modelVars, deviceVars, runnerVars>>

(* The module can go once nobody is in its code but its own workqueue; what     *)
(* registrations are left have lost their registrars.                           *)
ExitBegins ==
  /\ phase = "up" /\ \A t \in Threads : pc[t] = "idle"
  /\ phase' = "draining"
  /\ UNCHANGED <<enabled, hardware, modelVars, deviceVars, runnerVars>>

\* Mutant: the models go before the workqueue is drained.
Undrained == TRUE

\* destroy_workqueue() returns when no work item is left.
Drained == \A r \in Requests : pc[r] = "idle"

ExitFrees ==
  /\ phase = "draining" /\ Drained /\ WriteLockable
  /\ phase' = "down"
  /\ heap' = [m \in Models |-> IF m \in listed THEN "freed" ELSE heap[m]]
  /\ devheap' = [d \in Devices |-> IF d \in devices THEN "freed" ELSE devheap[d]]
  /\ listed' = {} /\ devices' = {}
  /\ owned' = [m \in Models |-> FALSE]
  /\ devowned' = [d \in Devices |-> FALSE]
  /\ UNCHANGED <<enabled, hardware, born, name, refcnt, strayed, runnerVars>>

-----------------------------------------------------------------------------
RunnerStep(r) ==
  /\ phase # "corrupt"
  /\ \/ WorkStarts(r) \/ RunSoftware(r) \/ RunHardware(r) \/ DeviceReturns(r)
     \/ PutModel(r) \/ QueueForLock(r) \/ Unlink(r) \/ Free(r) \/ TouchDead(r)

ThreadStep(t) ==
  \/ \E m \in Models : PutRegistration(t, m) \/ PutFreed(t, m)
  \/ \E m \in Models, n \in Names : Register(t, m, n)
  \/ \E n \in Names : Unregister(t, n)
  \/ \E d \in Devices : RegisterDevice(t, d) \/ PutDevice(t, d)
  \/ InferSync(t)

Next ==
  \/ \E r \in Runners : RunnerStep(r)
  \/ \E r \in Requests : InferAsync(r)
  \/ \E t \in Threads : UnlinkDevice(t) \/ FreeDevice(t)
  \/ \E t \in Threads : ThreadStep(t)
  \/ SetEnabled \/ SetEngineMode \/ ExitBegins \/ ExitFrees

(* The workqueue runs its work items, devices return, and whoever is inside the *)
(* API goes on.  Nobody has to call the API.                                    *)
Fairness ==
  /\ \A r \in Runners : WF_vars(RunnerStep(r))
  /\ \A t \in Threads : WF_vars(UnlinkDevice(t) \/ FreeDevice(t))

Spec == Init /\ [][Next]_vars /\ Fairness

-----------------------------------------------------------------------------
(* Properties.                                                                  *)

Holders(m) == {r \in Runners : ref[r] = m /\ pc[r] \in {"infer", "hw", "put"}}
Reaping(r) == pc[r] \in {"unlink", "wlock", "free"}

(* However lookups, puts and unregistrations interleave between a count and the *)
(* lock, no list walk meets a freed model, a runner's or a registrar's model is *)
(* in memory unless somebody else unregistered it, and without such a call no   *)
(* freed memory is ever written to (ai_model_put(), ai_model_unregister()).     *)
NoUseAfterFree ==
  /\ \A m \in listed : heap[m] = "live"
  /\ \A r \in Runners : ref[r] \notin strayed \cup {None} => heap[ref[r]] = "live"
  /\ \A m \in Models \ strayed : owned[m] => heap[m] = "live"
  /\ phase = "corrupt" => strayed # {}

(* One runner, and one only, takes a model off the list and frees it: no second *)
(* list_del() and no double kfree(), a last put racing with an unregistration   *)
(* by the model's own registrar included.                                       *)
SingleReaper ==
  \A r \in Runners : Reaping(r) /\ ref[r] \notin strayed =>
    /\ \A s \in Runners : Reaping(s) /\ ref[s] = ref[r] => s = r
    /\ pc[r] \in {"unlink", "wlock"} <=> ref[r] \in listed
    /\ Holders(ref[r]) = {}

(* The count of a model is the number of references there are: one for the      *)
(* registrar that still has its own, one for every inference.  So it is even    *)
(* for a model that was unregistered with the one reference of somebody else.   *)
RefcountExact ==
  phase # "down" => \A m \in listed \cup strayed :
    refcnt[m] = Cardinality(Holders(m)) + (IF owned[m] THEN 1 ELSE 0)

(* ai_infer_sync() uses a device without taking a reference to it: the read     *)
(* lock alone keeps the device from being unlinked and freed under the run.     *)
DeviceInUseLive ==
  \A r \in Runners : pc[r] = "hw" => dev[r] \in devices /\ devheap[dev[r]] = "live"

(* When nothing is under way, the live models are those whose registrars still  *)
(* want them: none is leaked and none has been freed early, but for those that  *)
(* somebody else unregistered, which are gone.                                  *)
Reclaimed ==
  (\A r \in Runners : pc[r] = "idle") =>
    \A m \in Models : heap[m] = "live" <=> owned[m] /\ m \notin strayed

(* Module exit leaves no work item to run in the unloaded module, and no model  *)
(* or device behind.                                                            *)
ExitClean ==
  phase = "down" =>
    /\ \A r \in Runners : pc[r] = "idle"
    /\ \A m \in Models : heap[m] # "live"
    /\ \A d \in Devices : devheap[d] # "live"

(* Every request that was queued gets its callback, even if inference is        *)
(* disabled, the model goes away or the module exits first, unless memory is    *)
(* corrupted on the way.                                                        *)
CallbackComes ==
  \A r \in Requests : pc[r] = "queued" ~> pc[r] = "idle" \/ phase = "corrupt"
=============================================================================
