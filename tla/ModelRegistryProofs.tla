------------------------ MODULE ModelRegistryProofs ------------------------
(* Proofs about the model registry, for any number of threads, requests,       *)
(* models, devices and names.                                                   *)
EXTENDS ModelRegistry, FiniteSetTheorems, TLAPS

Holding(r) == pc[r] \in {"infer", "hw", "put"}
Unlinking(r) == pc[r] \in {"unlink", "wlock"}
OffModels == {"idle", "queued", "dev_unlink", "dev_wlock", "dev_free"}

ListedLive == \A m \in listed : heap[m] = "live"

(* The models whose counts are kept: on the list, or taken off it by others.    *)
Known == listed \cup strayed

(* What a runner's place says about its model.                                  *)
RunnerInv ==
  \A r \in Runners :
    /\ pc[r] \in OffModels <=> ref[r] = None
    /\ Holding(r) => ref[r] \in Known
    /\ Unlinking(r) => ref[r] \in Known /\ refcnt[ref[r]] = 0 /\ ~owned[ref[r]]
    /\ pc[r] = "free" => ref[r] \notin listed /\ heap[ref[r]] = "live"

\* Two reapers of one model: an unregistration by somebody else has met the last put.
UniqueReaper ==
  \A r, s \in Runners : Reaping(r) /\ Reaping(s) /\ ref[r] = ref[s] =>
    r = s \/ (ref[r] \in strayed /\ (pc[r] = "free" <=> Unlinking(s)))

(* A registrar that has its reference keeps the model listed until somebody     *)
(* else takes it off.                                                           *)
OwnedKnown == \A m \in Models : owned[m] => m \in Known

StrayedOff == \A m \in strayed : m \notin listed /\ heap[m] # "unused"

(* A live model has references or somebody about to free it.                    *)
Accounted ==
  \A m \in Models : heap[m] = "live" =>
    \/ m \in listed /\ refcnt[m] > 0
    \/ \E r \in Runners : Reaping(r) /\ ref[r] = m

DeviceInv ==
  /\ \A d \in devices : devheap[d] = "live"
  /\ \A d \in Devices : devowned[d] => devheap[d] # "unused"
  /\ \A d \in Devices : devheap[d] = "live" =>
       d \in devices \/ \E t \in Threads : pc[t] = "dev_free" /\ dev[t] = d
  /\ \A r \in Runners :
       /\ pc[r] = "hw" => dev[r] \in devices
       /\ pc[r] \in {"dev_unlink", "dev_wlock", "dev_free"} =>
            r \in Threads /\ dev[r] \in Devices /\ devheap[dev[r]] # "unused"
       /\ pc[r] = "dev_free" => dev[r] \notin devices

PhaseInv ==
  /\ phase \in {"draining", "down"} => \A t \in Threads : pc[t] = "idle"
  /\ phase = "corrupt" => strayed # {}
  /\ phase = "down" =>
       (\A r \in Runners : pc[r] = "idle") /\ listed = {} /\ devices = {}

ModelInv ==
  /\ ListedLive /\ RunnerInv /\ UniqueReaper /\ OwnedKnown /\ StrayedOff /\ Accounted

IInv == TypeOK /\ ModelInv /\ RefcountExact /\ DeviceInv /\ PhaseInv

-----------------------------------------------------------------------------
(* Lemmas on the set of runners that hold a model.                              *)

LEMMA HoldersFinite ==
  ASSUME NEW m
  PROVE  /\ IsFiniteSet(Holders(m)) /\ Cardinality(Holders(m)) \in Nat
         /\ IsFiniteSet(Holders(m)') /\ Cardinality(Holders(m)') \in Nat
<1>1. IsFiniteSet(Runners)
  BY FS_Union, ModelRegistryAssumption DEF Runners
<1> QED BY <1>1, FS_Subset, FS_CardinalityType DEF Holders

(* A model whose count is zero, or one with its registrar's reference,   *)
(* is held by nobody.                                                           *)
LEMMA NoHolders ==
  ASSUME TypeOK, RefcountExact, phase # "down", NEW m \in Known,
         refcnt[m] = (IF owned[m] THEN 1 ELSE 0)
  PROVE  Holders(m) = {}
<1>1. Cardinality(Holders(m)) = 0
  BY HoldersFinite DEF RefcountExact, TypeOK, Known
<1> QED BY <1>1, HoldersFinite, FS_EmptySet

(* The last reference, put by a holder: there is no other.                      *)
LEMMA LastHolder ==
  ASSUME TypeOK, RefcountExact, phase # "down", NEW m \in Known, NEW r \in Holders(m),
         refcnt[m] = 1
  PROVE  Holders(m) = {r} /\ ~owned[m]
<1>1. Cardinality(Holders(m)) # 0
  BY HoldersFinite, FS_EmptySet
<1>2. Cardinality(Holders(m)) = 1 /\ ~owned[m]
  BY <1>1, HoldersFinite DEF RefcountExact, TypeOK, Known
<1>3. Cardinality(Holders(m) \ {r}) = 0 /\ IsFiniteSet(Holders(m) \ {r})
  BY <1>2, HoldersFinite, FS_RemoveElement
<1>4. Holders(m) \ {r} = {}
  BY <1>3, FS_EmptySet
<1> QED BY <1>2, <1>4

(* A runner that moves between places outside its hold, or within it, changes   *)
(* no set of holders.                                                           *)
LEMMA HoldersKept ==
  ASSUME TypeOK, NEW r \in Runners, NEW m \in Models,
         NEW to, NEW k, Move(r, to, k),
         \/ ~Holding(r) /\ to \notin {"infer", "hw", "put"}
         \/ Holding(r) /\ to \in {"infer", "hw", "put"} /\ k = ref[r]
  PROVE  Holders(m)' = Holders(m)
  BY DEF Holders, Holding, Move, TypeOK

LEMMA HolderAdded ==
  ASSUME TypeOK, NEW r \in Runners, NEW m \in Models, ~Holding(r), Move(r, "infer", m)
  PROVE  /\ Cardinality(Holders(m)') = Cardinality(Holders(m)) + 1
         /\ \A k \in Models \ {m} : Holders(k)' = Holders(k)
<1>1. Holders(m)' = Holders(m) \cup {r} /\ r \notin Holders(m)
  BY DEF Holders, Holding, Move, TypeOK
<1>2. \A k \in Models \ {m} : Holders(k)' = Holders(k)
  BY DEF Holders, Holding, Move, TypeOK
<1> QED BY <1>1, <1>2, HoldersFinite, FS_AddElement

LEMMA HolderRemoved ==
  ASSUME TypeOK, NEW r \in Runners, NEW m \in Models, Holding(r), ref[r] = m,
         NEW to \in {"unlink", "idle"}, NEW k, Move(r, to, k)
  PROVE  /\ Cardinality(Holders(m)') = Cardinality(Holders(m)) - 1
         /\ \A j \in Models \ {m} : Holders(j)' = Holders(j)
<1>1. Holders(m)' = Holders(m) \ {r} /\ r \in Holders(m)
  BY DEF Holders, Holding, Move, TypeOK
<1>2. \A j \in Models \ {m} : Holders(j)' = Holders(j)
  BY DEF Holders, Holding, Move, TypeOK
<1> QED BY <1>1, <1>2, HoldersFinite, FS_RemoveElement

-----------------------------------------------------------------------------
(* The initial state and the steps, one lemma per group of actions.             *)

LEMMA InitIInv == Init => IInv
<1> SUFFICES ASSUME Init PROVE IInv
  OBVIOUS
<1> USE ModelRegistryAssumption DEF Init
<1>1. TypeOK
  BY DEF TypeOK, Life
<1>2. ModelInv
  BY DEF ModelInv, ListedLive, RunnerInv, UniqueReaper, OwnedKnown, StrayedOff, Known, Accounted,
         Holding, Unlinking, OffModels, Reaping
<1>3. RefcountExact /\ DeviceInv /\ PhaseInv
  BY DEF RefcountExact, DeviceInv, PhaseInv
<1> QED BY <1>1, <1>2, <1>3 DEF IInv

(* A new model starts with the registrar's reference and no runner on it.       *)
LEMMA RegisterIInv ==
  ASSUME IInv, NEW t \in Threads, NEW m \in Models, NEW n \in Names, Register(t, m, n)
  PROVE  IInv'
<1> USE ModelRegistryAssumption DEF Register, Idle, FirstReferences, WriteLockable,
        modelVars, deviceVars, runnerVars
<1>1. TypeOK'
  <2> DEFINE N == Cardinality({k \in Models : heap[k] # "unused"})
  <2>1. N \in Nat
    BY FS_Subset, FS_CardinalityType
  <2>2. born' = [born EXCEPT ![m] = 1 + N]
    OBVIOUS
  <2> HIDE DEF N
  <2>3. born' \in [Models -> Nat]
    BY <2>1, <2>2 DEF IInv, TypeOK
  <2>4. refcnt' \in [Models -> Nat]
    BY DEF IInv, TypeOK
  <2> QED BY <2>3, <2>4 DEF IInv, TypeOK, Life
<1>2. ModelInv'
  BY DEF IInv, TypeOK, Life, ModelInv, ListedLive, RunnerInv, UniqueReaper, OwnedKnown, StrayedOff, Known,
         Accounted, Holding, Unlinking, OffModels, Reaping
<1>3. RefcountExact'
  <2>1. \A k \in Models : Holders(k)' = Holders(k)
    BY DEF Holders
  <2>2. Holders(m) = {} /\ m \notin listed
    BY DEF Holders, IInv, ModelInv, ListedLive, RunnerInv, Holding, StrayedOff, Known
  <2>3. Cardinality(Holders(m)) = 0
    BY <2>2, FS_EmptySet
  <2> SUFFICES ASSUME NEW k \in (listed \cup strayed)'
               PROVE  refcnt'[k] = Cardinality(Holders(k)') + (IF owned'[k] THEN 1 ELSE 0)
    BY DEF RefcountExact
  <2>4. Holders(k)' = Holders(k)
    BY <2>1 DEF IInv, TypeOK
  <2>5. CASE k = m
    BY <2>3, <2>4, <2>5 DEF IInv, TypeOK, ModelInv, StrayedOff
  <2>6. CASE k # m
    BY <2>4, <2>6 DEF RefcountExact, IInv, TypeOK
  <2> QED BY <2>5, <2>6
<1>4. DeviceInv' /\ PhaseInv'
  BY DEF IInv, DeviceInv, PhaseInv
<1> QED BY <1>1, <1>2, <1>3, <1>4 DEF IInv

(* Unregistration takes a model with one reference: the registrar's, and then   *)
(* no runner has it, or somebody else's, and then it is counted as strayed.     *)
LEMMA UnregisterIInv ==
  ASSUME IInv, NEW t \in Threads, NEW n \in Names, Unregister(t, n)
  PROVE  IInv'
<1> USE ModelRegistryAssumption DEF Unregister, Idle, Runners, modelVars, deviceVars, runnerVars
<1>1. PICK m \in listed :
        /\ name[m] = n /\ ~Busy(m)
        /\ listed' = listed \ {m}
        /\ \/ owned[m] /\ owned' = [owned EXCEPT ![m] = FALSE] /\ strayed' = strayed
           \/ owned' = owned /\ strayed' = strayed \cup {m}
        /\ Move(t, "free", m)
  BY DEF IsFirst
<1>2. heap[m] = "live" /\ m \in Models /\ m \notin strayed /\ phase # "down"
  BY <1>1 DEF IInv, TypeOK, ModelInv, StrayedOff, ListedLive
<1>3. strayed' = strayed => owned[m] /\ Holders(m) = {} /\ owned' = [owned EXCEPT ![m] = FALSE]
  <2> SUFFICES ASSUME strayed' = strayed
               PROVE  owned[m] /\ Holders(m) = {} /\ owned' = [owned EXCEPT ![m] = FALSE]
    OBVIOUS
  <2>1. owned[m] /\ owned' = [owned EXCEPT ![m] = FALSE]
    BY <1>1, <1>2
  <2>2. refcnt[m] = 1
    BY <1>1, <1>2, <2>1, HoldersFinite DEF Busy, IInv, TypeOK, RefcountExact
  <2>3. Holders(m) = {}
    BY <1>2, <2>1, <2>2, NoHolders DEF IInv, Known
  <2> QED BY <2>1, <2>3
<1>4. TypeOK'
  BY <1>1 DEF IInv, TypeOK, Move
<1>5. ModelInv'
  <2>1. strayed' = strayed => \A r \in Runners : Holding(r) => ref[r] # m
    BY <1>3 DEF Holders, Holding
  <2>2. \A r \in Runners : Reaping(r) /\ ref[r] = m => Unlinking(r)
    BY <1>1, <1>2 DEF IInv, ModelInv, RunnerInv, Reaping, Unlinking
  <2>3. strayed' = strayed => \A r \in Runners : Reaping(r) => ref[r] # m
    BY <1>3, <2>2 DEF IInv, ModelInv, RunnerInv
  <2>4. ListedLive' /\ OwnedKnown' /\ StrayedOff'
    BY <1>1, <1>2 DEF IInv, TypeOK, ModelInv, ListedLive, OwnedKnown, StrayedOff, Known
  <2>5. RunnerInv'
    BY <1>1, <1>2, <2>1, <2>3
    DEF IInv, TypeOK, ModelInv, RunnerInv, Known, Holding, Unlinking, OffModels, Reaping, Move
  <2>6. UniqueReaper'
    BY <1>1, <1>2, <2>2, <2>3
    DEF IInv, TypeOK, ModelInv, UniqueReaper, Unlinking, Reaping, Move
  <2>7. Accounted'
    BY <1>1, <1>2 DEF IInv, TypeOK, ModelInv, Accounted, Reaping, Move
  <2> QED BY <2>4, <2>5, <2>6, <2>7 DEF ModelInv
<1>6. RefcountExact'
  <2>1. \A k \in Models : Holders(k)' = Holders(k)
    BY <1>1, HoldersKept DEF IInv, Holding
  <2> QED BY <1>1, <1>2, <2>1 DEF RefcountExact, IInv, TypeOK
<1>7. DeviceInv' /\ PhaseInv'
  BY <1>1 DEF IInv, TypeOK, DeviceInv, PhaseInv, Move
<1> QED BY <1>4, <1>5, <1>6, <1>7 DEF IInv

(* Memory that was freed is written to only behind somebody else's              *)
(* unregistration.                                                              *)
LEMMA CorruptIInv ==
  ASSUME IInv,
         \/ \E t \in Threads, m \in Models : PutFreed(t, m)
         \/ \E r \in Runners : TouchDead(r)
  PROVE  IInv'
<1> USE DEF CorruptMemory, Idle, modelVars, deviceVars, runnerVars
<1>1. strayed # {} /\ phase # "down" /\ phase' = "corrupt"
  <2>1. CASE \E t \in Threads, m \in Models : PutFreed(t, m)
    BY <2>1 DEF PutFreed, IInv, ModelInv, OwnedKnown, ListedLive, Known
  <2>2. CASE \E r \in Runners : TouchDead(r)
    BY <2>2 DEF TouchDead, IInv, ModelInv, RunnerInv, ListedLive, Known, Holding, Unlinking,
                PhaseInv
  <2> QED BY <2>1, <2>2
<1>2. UNCHANGED <<enabled, hardware, modelVars, deviceVars, runnerVars>>
  BY DEF PutFreed, TouchDead
<1>3. TypeOK' /\ DeviceInv' /\ PhaseInv'
  BY <1>1, <1>2 DEF IInv, TypeOK, DeviceInv, PhaseInv
<1>4. ModelInv'
  BY <1>2 DEF IInv, ModelInv, ListedLive, RunnerInv, UniqueReaper, OwnedKnown, StrayedOff,
              Known, Accounted, Holding, Unlinking, OffModels, Reaping
<1>5. RefcountExact'
  <2>1. \A k : Holders(k)' = Holders(k)
    BY <1>2 DEF Holders
  <2> QED BY <1>1, <1>2, <2>1 DEF RefcountExact, IInv
<1> QED BY <1>3, <1>4, <1>5 DEF IInv

(* A registrar's put: of the last reference, or of one among several.           *)
LEMMA PutRegistrationIInv ==
  ASSUME IInv, NEW t \in Threads, NEW m \in Models, PutRegistration(t, m)
  PROVE  IInv'
<1> USE ModelRegistryAssumption DEF PutRegistration, Idle, Runners, modelVars, deviceVars, runnerVars
<1>1. m \in Known /\ owned[m] /\ heap[m] = "live" /\ phase # "down"
  BY DEF IInv, ModelInv, OwnedKnown, StrayedOff, Known, ListedLive
<1>2. refcnt[m] = Cardinality(Holders(m)) + 1
  BY <1>1 DEF IInv, RefcountExact, Known
<1>3. PICK to \in {"unlink", "idle"}, k \in {m, None} :
        /\ Move(t, to, k)
        /\ refcnt[m] = 1 => to = "unlink" /\ k = m
        /\ refcnt[m] # 1 => to = "idle" /\ k = None
  BY DEF Drop
<1>4. refcnt' = [refcnt EXCEPT ![m] = refcnt[m] - 1] /\ refcnt[m] \in Nat \ {0}
  BY <1>2, HoldersFinite DEF Drop
<1>5. TypeOK'
  BY <1>3, <1>4 DEF IInv, TypeOK, Move
<1>6. ModelInv'
  <2>1. refcnt[m] = 1 => \A r \in Runners : Holding(r) => ref[r] # m
    BY <1>1, NoHolders DEF Holders, Holding, IInv
  <2>2. \A r \in Runners : Unlinking(r) => ref[r] # m
    BY <1>1 DEF IInv, ModelInv, RunnerInv
  <2>7. \A r \in Runners : Reaping(r) /\ ref[r] = m => pc[r] = "free" /\ m \in strayed
    BY <1>1, <2>2 DEF IInv, ModelInv, RunnerInv, Reaping, Unlinking, Known
  <2>3. ListedLive' /\ OwnedKnown' /\ StrayedOff'
    BY <1>1, <1>4 DEF IInv, TypeOK, ModelInv, ListedLive, OwnedKnown, StrayedOff, Known
  <2>5. RunnerInv'
    BY <1>1, <1>3, <1>4, <2>1, <2>2
    DEF IInv, TypeOK, ModelInv, RunnerInv, Known, Holding, Unlinking, OffModels, Reaping, Move
  <2>6. UniqueReaper'
    BY <1>1, <1>3, <2>2, <2>7
    DEF IInv, TypeOK, ModelInv, UniqueReaper, Unlinking, Reaping, Move
  <2>4. Accounted'
    <3> SUFFICES ASSUME NEW j \in Models, heap[j] = "live"
                 PROVE  \/ j \in listed /\ refcnt'[j] > 0
                        \/ \E r \in Runners : Reaping(r)' /\ ref'[r] = j
      BY DEF Accounted
    <3>1. CASE j = m /\ refcnt[m] = 1
      <4>1. Reaping(t)' /\ ref'[t] = m
        BY <1>3, <3>1 DEF IInv, TypeOK, Reaping, Move
      <4> QED BY <3>1, <4>1
    <3>2. CASE j # m \/ refcnt[m] # 1
      <4>1. refcnt[j] > 0 => refcnt'[j] > 0
        BY <1>4, <3>2 DEF IInv, TypeOK
      <4>2. \A r \in Runners : Reaping(r) => Reaping(r)' /\ ref'[r] = ref[r]
        BY <1>3 DEF IInv, TypeOK, Reaping, Move
      <4> QED BY <4>1, <4>2 DEF IInv, ModelInv, Accounted
    <3> QED BY <3>1, <3>2
  <2> QED BY <2>3, <2>4, <2>5, <2>6 DEF ModelInv
<1>7. RefcountExact'
  <2>1. \A j \in Models : Holders(j)' = Holders(j)
    BY <1>3, HoldersKept DEF IInv, Holding
  <2> QED BY <1>1, <1>2, <1>4, <2>1, HoldersFinite DEF RefcountExact, IInv, TypeOK
<1>8. DeviceInv' /\ PhaseInv'
  BY <1>3 DEF IInv, TypeOK, DeviceInv, PhaseInv, Move
<1> QED BY <1>5, <1>6, <1>7, <1>8 DEF IInv

(* The way to the write lock: the model stays listed with no reference to it.   *)
LEMMA QueueForLockIInv ==
  ASSUME IInv, NEW r \in Runners, QueueForLock(r)
  PROVE  IInv'
<1> USE ModelRegistryAssumption DEF QueueForLock, Runners, modelVars, deviceVars
<1>1. PICK to \in {"wlock", "dev_wlock"} :
        /\ pc' = [pc EXCEPT ![r] = to]
        /\ pc[r] = "unlink" <=> to = "wlock"
        /\ pc[r] = "dev_unlink" <=> to = "dev_wlock"
  OBVIOUS
<1>2. TypeOK'
  BY <1>1 DEF IInv, TypeOK
<1>3. ModelInv'
  BY <1>1 DEF IInv, TypeOK, ModelInv, ListedLive, RunnerInv, UniqueReaper, OwnedKnown, StrayedOff, Known,
              Accounted, Holding, Unlinking, OffModels, Reaping
<1>4. RefcountExact'
  <2>1. \A k \in Models : Holders(k)' = Holders(k)
    BY <1>1 DEF Holders, IInv, TypeOK
  <2> QED BY <2>1 DEF RefcountExact, IInv, TypeOK
<1>5. DeviceInv' /\ PhaseInv'
  BY <1>1 DEF IInv, TypeOK, DeviceInv, PhaseInv
<1> QED BY <1>2, <1>3, <1>4, <1>5 DEF IInv

(* The model leaves the list; nobody holds it, and only this runner reaps it.   *)
LEMMA UnlinkIInv ==
  ASSUME IInv, NEW r \in Runners, Unlink(r)
  PROVE  IInv'
<1> USE ModelRegistryAssumption DEF Unlink, modelVars, deviceVars
<1> DEFINE m == ref[r]
<1>1. /\ m \in listed /\ m \in Models /\ refcnt[m] = 0 /\ ~owned[m]
      /\ pc[r] = "wlock" /\ Move(r, "free", m) /\ listed' = listed \ {m}
  BY DEF IInv, TypeOK, ModelInv, RunnerInv, Unlinking
<1>2. Holders(m) = {}
  BY <1>1, NoHolders DEF IInv, PhaseInv, Known
<1> HIDE DEF m
<1>3. TypeOK'
  BY <1>1 DEF IInv, TypeOK, Move
<1>4. ModelInv'
  <2>1. \A s \in Runners : Holding(s) => ref[s] # m
    BY <1>2 DEF Holders, Holding
  <2>2. ref[r] = m /\ heap[m] = "live" /\ \A s \in Runners : Reaping(s) /\ ref[s] = m => s = r
    BY <1>1 DEF m, IInv, ModelInv, ListedLive, UniqueReaper, StrayedOff, Reaping
  <2>3. ListedLive' /\ OwnedKnown' /\ StrayedOff'
    BY <1>1 DEF IInv, TypeOK, ModelInv, ListedLive, OwnedKnown, StrayedOff, Known
  <2>4. RunnerInv' /\ UniqueReaper'
    BY <1>1, <2>1, <2>2 DEF IInv, TypeOK, ModelInv, RunnerInv, UniqueReaper, Known,
       Holding, Unlinking, OffModels, Reaping, Move
  <2>5. Accounted'
    BY <1>1, <2>2 DEF IInv, TypeOK, ModelInv, Accounted, Reaping, Move
  <2> QED BY <2>3, <2>4, <2>5 DEF ModelInv
<1>5. RefcountExact'
  <2>1. \A k \in Models : Holders(k)' = Holders(k)
    BY <1>1, HoldersKept DEF IInv, Holding
  <2> QED BY <1>1, <2>1 DEF RefcountExact, IInv, TypeOK
<1>6. DeviceInv' /\ PhaseInv'
  BY <1>1 DEF IInv, TypeOK, DeviceInv, PhaseInv, Move
<1> QED BY <1>3, <1>4, <1>5, <1>6 DEF IInv

(* The memory goes when the list and every other runner have let go of it.      *)
LEMMA FreeIInv ==
  ASSUME IInv, NEW r \in Runners, Free(r)
  PROVE  IInv'
<1> USE ModelRegistryAssumption DEF Free, modelVars, deviceVars
<1> DEFINE m == ref[r]
<1>1. /\ m \notin listed /\ m \in Models
      /\ pc[r] = "free" /\ Move(r, "idle", None) /\ heap' = [heap EXCEPT ![m] = "freed"]
  BY DEF IInv, TypeOK, ModelInv, RunnerInv, OffModels
<1>2. ref[r] = m /\ \A s \in Runners : pc[s] = "free" /\ ref[s] = m => s = r
  BY <1>1 DEF m, IInv, TypeOK, ModelInv, UniqueReaper, Reaping, Unlinking
<1> HIDE DEF m
<1>3. TypeOK'
  BY <1>1 DEF IInv, TypeOK, Move, Life
<1>4. ModelInv'
  <2>1. ListedLive' /\ OwnedKnown' /\ StrayedOff'
    BY <1>1 DEF IInv, TypeOK, ModelInv, ListedLive, OwnedKnown, StrayedOff, Known
  <2>2. RunnerInv' /\ UniqueReaper'
    BY <1>1, <1>2 DEF IInv, TypeOK, ModelInv, RunnerInv, UniqueReaper, Known,
       Holding, Unlinking, OffModels, Reaping, Move
  <2>3. Accounted'
    BY <1>1, <1>2 DEF IInv, TypeOK, ModelInv, Accounted, Reaping, Move
  <2> QED BY <2>1, <2>2, <2>3 DEF ModelInv
<1>5. RefcountExact'
  <2>1. \A k \in Models : Holders(k)' = Holders(k)
    BY <1>1, HoldersKept DEF IInv, Holding
  <2> QED BY <1>1, <2>1 DEF RefcountExact, IInv, TypeOK
<1>6. DeviceInv' /\ PhaseInv'
  BY <1>1 DEF IInv, TypeOK, DeviceInv, PhaseInv, Move
<1> QED BY <1>3, <1>4, <1>5, <1>6 DEF IInv

-----------------------------------------------------------------------------
(* Inference.                                                                   *)

(* A lookup takes its reference only while there is one: the model is on the    *)
(* list and nobody is about to free it.                                         *)
LEMMA GetIInv ==
  ASSUME IInv, NEW r \in Runners, NEW n \in Names, Get(r, n),
         \/ r \in Threads /\ pc[r] = "idle" /\ phase = "up"
         \/ r \in Requests /\ pc[r] = "queued"
  PROVE  IInv'
<1> USE ModelRegistryAssumption DEF Get, Runners, modelVars, deviceVars
<1>1. PICK m \in listed :
        /\ m \in Models /\ refcnt[m] \in Nat /\ refcnt[m] > 0
        /\ refcnt' = [refcnt EXCEPT ![m] = refcnt[m] + 1]
        /\ Move(r, "infer", m)
  BY DEF IsFirst, MayTake, Taken, IInv, TypeOK
<1>2. TypeOK'
  BY <1>1 DEF IInv, TypeOK, Move
<1>3. ModelInv'
  <2>1. \A s \in Runners : Reaping(s) => s # r /\ ref[s] # m
    BY <1>1 DEF IInv, ModelInv, RunnerInv, Reaping, Unlinking
  <2>2. ListedLive' /\ OwnedKnown' /\ StrayedOff'
    BY DEF IInv, TypeOK, ModelInv, ListedLive, OwnedKnown, StrayedOff, Known
  <2>3. RunnerInv' /\ UniqueReaper'
    BY <1>1, <2>1 DEF IInv, TypeOK, ModelInv, RunnerInv, UniqueReaper, Known,
       Holding, Unlinking, OffModels, Reaping, Move
  <2>4. Accounted'
    BY <1>1, <2>1 DEF IInv, TypeOK, ModelInv, Accounted, Reaping, Move
  <2> QED BY <2>2, <2>3, <2>4 DEF ModelInv
<1>4. RefcountExact'
  <2>1. /\ Cardinality(Holders(m)') = Cardinality(Holders(m)) + 1
        /\ \A k \in Models \ {m} : Holders(k)' = Holders(k)
    BY <1>1, HolderAdded DEF IInv, Holding
  <2>2. Cardinality(Holders(m)) \in Nat
    BY HoldersFinite
  <2> SUFFICES ASSUME phase # "down", NEW k \in listed \cup strayed
               PROVE  refcnt'[k] = Cardinality(Holders(k)') + (IF owned[k] THEN 1 ELSE 0)
    BY DEF RefcountExact
  <2>3. CASE k = m
    BY <1>1, <2>1, <2>2, <2>3 DEF IInv, TypeOK, RefcountExact
  <2>4. CASE k # m
    BY <1>1, <2>1, <2>4 DEF IInv, TypeOK, RefcountExact
  <2> QED BY <2>3, <2>4
<1>5. DeviceInv' /\ PhaseInv'
  BY <1>1 DEF IInv, TypeOK, DeviceInv, PhaseInv, Move
<1> QED BY <1>2, <1>3, <1>4, <1>5 DEF IInv

(* A request waits or gives up; an inference moves through the engine.          *)
LEMMA RunIInv ==
  ASSUME IInv, NEW r \in Runners, NEW to, NEW k, Move(r, to, k),
         \/ /\ r \in Requests /\ pc[r] \in {"idle", "queued"} /\ phase # "down"
            /\ to \in {"idle", "queued"} /\ k = None
         \/ Holding(r) /\ to \in {"hw", "put"} /\ k = ref[r],
         \/ dev' = dev /\ to # "hw"
         \/ \E d \in devices \cup {None} :
              dev' = [dev EXCEPT ![r] = d] /\ (to = "hw" => d \in devices),
         UNCHANGED <<phase, enabled, hardware, modelVars, deviceVars>>
  PROVE  IInv'
<1> USE ModelRegistryAssumption DEF Runners, modelVars, deviceVars
<1>1. TypeOK'
  BY DEF IInv, TypeOK, Move, Holding
<1>2. ModelInv'
  BY DEF IInv, TypeOK, ModelInv, ListedLive, RunnerInv, UniqueReaper, OwnedKnown, StrayedOff, Known,
         Accounted, Holding, Unlinking, OffModels, Reaping, Move
<1>3. RefcountExact'
  <2>1. \A j \in Models : Holders(j)' = Holders(j)
    BY HoldersKept DEF IInv, Holding
  <2> QED BY <2>1 DEF RefcountExact, IInv, TypeOK
<1>4. DeviceInv' /\ PhaseInv'
  BY DEF IInv, TypeOK, DeviceInv, PhaseInv, Move, Holding
<1> QED BY <1>1, <1>2, <1>3, <1>4 DEF IInv

(* The put after an inference: the last holder of a model without a registrar   *)
(* reaps it, any other only counts down.                                        *)
LEMMA PutModelIInv ==
  ASSUME IInv, NEW r \in Runners, PutModel(r)
  PROVE  IInv'
<1> USE ModelRegistryAssumption DEF PutModel, Runners, modelVars, deviceVars
<1>1. PICK m : ref[r] = m
  OBVIOUS
<1>2. /\ m \in Known /\ m \in Models /\ heap[m] = "live" /\ pc[r] = "put" /\ Drop(r, m)
      /\ r \in Holders(m) /\ phase # "down"
  BY <1>1 DEF IInv, TypeOK, ModelInv, RunnerInv, Known, Holding, Holders, PhaseInv
<1>3. PICK to \in {"unlink", "idle"}, k \in {m, None} :
        /\ Move(r, to, k)
        /\ refcnt[m] = 1 => to = "unlink" /\ k = m
        /\ refcnt[m] # 1 => to = "idle" /\ k = None
  BY <1>2 DEF Drop
<1>4. refcnt[m] = Cardinality(Holders(m)) + (IF owned[m] THEN 1 ELSE 0)
  BY <1>2 DEF IInv, RefcountExact, Known
<1>5. Cardinality(Holders(m)) \in Nat \ {0}
  BY <1>2, HoldersFinite, FS_EmptySet
<1>6. refcnt' = [refcnt EXCEPT ![m] = refcnt[m] - 1] /\ refcnt[m] \in Nat \ {0}
  <2> DEFINE N == Cardinality(Holders(m))
  <2>1. N \in Nat \ {0} /\ refcnt[m] = N + (IF owned[m] THEN 1 ELSE 0)
    BY <1>4, <1>5
  <2> HIDE DEF N
  <2>2. refcnt[m] \in Nat \ {0}
    BY <2>1
  <2> QED BY <1>2, <2>2 DEF Drop
<1>7. TypeOK'
  BY <1>2, <1>3, <1>6 DEF IInv, TypeOK, Move
<1>8. ModelInv'
  <2>1. refcnt[m] = 1 => ~owned[m] /\ \A s \in Runners : Holding(s) /\ ref[s] = m => s = r
    BY <1>1, <1>2, LastHolder DEF Holders, Holding, IInv
  <2>2. \A s \in Runners : Unlinking(s) => ref[s] # m
    BY <1>2, <1>6 DEF IInv, ModelInv, RunnerInv
  <2>7. \A s \in Runners : Reaping(s) /\ ref[s] = m => pc[s] = "free" /\ m \in strayed
    BY <1>2, <2>2 DEF IInv, ModelInv, RunnerInv, Reaping, Unlinking, Known
  <2>3. ListedLive' /\ OwnedKnown' /\ StrayedOff'
    BY DEF IInv, TypeOK, ModelInv, ListedLive, OwnedKnown, StrayedOff, Known
  <2>4. RunnerInv'
    BY <1>1, <1>2, <1>3, <1>6, <2>1, <2>2
    DEF IInv, TypeOK, ModelInv, RunnerInv, Known, Holding, Unlinking, OffModels, Reaping, Move
  <2>6. UniqueReaper'
    BY <1>1, <1>2, <1>3, <2>2, <2>7
    DEF IInv, TypeOK, ModelInv, UniqueReaper, Unlinking, Reaping, Move
  <2>5. Accounted'
    BY <1>1, <1>2, <1>3, <1>6
    DEF IInv, TypeOK, ModelInv, RunnerInv, Accounted, Reaping, OffModels, Move
  <2> QED BY <2>3, <2>4, <2>5, <2>6 DEF ModelInv
<1>9. RefcountExact'
  <2>1. /\ Cardinality(Holders(m)') = Cardinality(Holders(m)) - 1
        /\ \A j \in Models \ {m} : Holders(j)' = Holders(j)
    <3>1. TypeOK /\ Holding(r)
      BY <1>2 DEF IInv, Holding
    <3> QED BY <1>1, <1>2, <1>3, <3>1, HolderRemoved
  <2> SUFFICES ASSUME NEW j \in listed \cup strayed
               PROVE  refcnt'[j] = Cardinality(Holders(j)') + (IF owned[j] THEN 1 ELSE 0)
    BY DEF RefcountExact
  <2>2. CASE j = m
    <3>1. refcnt'[m] = refcnt[m] - 1
      BY <1>2, <1>6 DEF IInv, TypeOK
    <3> QED BY <1>4, <1>5, <2>1, <2>2, <3>1
  <2>3. CASE j # m
    BY <1>2, <1>6, <2>1, <2>3 DEF IInv, TypeOK, RefcountExact
  <2> QED BY <2>2, <2>3
<1>10. DeviceInv' /\ PhaseInv'
  BY <1>2, <1>3 DEF IInv, TypeOK, DeviceInv, PhaseInv, Move
<1> QED BY <1>7, <1>8, <1>9, <1>10 DEF IInv

-----------------------------------------------------------------------------
(* Devices, parameters and module exit.                                         *)

(* A device leaves the list only under the write lock, when no runner is on it. *)
LEMMA DeviceIInv ==
  ASSUME IInv, NEW t \in Threads,
         \/ \E d \in Devices : RegisterDevice(t, d) \/ PutDevice(t, d)
         \/ UnlinkDevice(t) \/ FreeDevice(t)
  PROVE  IInv'
<1>0. \/ \E d \in Devices : RegisterDevice(t, d)
      \/ \E d \in Devices : PutDevice(t, d)
      \/ UnlinkDevice(t)
      \/ FreeDevice(t)
  OBVIOUS
<1> USE ModelRegistryAssumption
    DEF RegisterDevice, PutDevice, UnlinkDevice, FreeDevice, Idle, WriteLockable, Runners,
        modelVars, runnerVars
<1>1. TypeOK'
  <2>1. CASE \E d \in Devices : RegisterDevice(t, d)
    BY <2>1 DEF IInv, TypeOK, Life
  <2>2. CASE \E d \in Devices : PutDevice(t, d)
    BY <2>2 DEF IInv, TypeOK
  <2>3. CASE UnlinkDevice(t)
    BY <2>3 DEF IInv, TypeOK
  <2>4. CASE FreeDevice(t)
    BY <2>4 DEF IInv, TypeOK, Life
  <2> QED BY <1>0, <2>1, <2>2, <2>3, <2>4
<1>2. ModelInv'
  BY DEF IInv, TypeOK, ModelInv, ListedLive, RunnerInv, UniqueReaper, OwnedKnown, StrayedOff, Known,
         Accounted, Holding, Unlinking, OffModels, Reaping
<1>3. RefcountExact'
  <2>1. \A k \in Models : Holders(k)' = Holders(k)
    BY DEF Holders, IInv, TypeOK
  <2> QED BY <2>1 DEF RefcountExact, IInv, TypeOK
<1>4. DeviceInv'
  <2>1. CASE \E d \in Devices : RegisterDevice(t, d)
    BY <2>1 DEF IInv, TypeOK, DeviceInv
  <2>2. CASE \E d \in Devices : PutDevice(t, d)
    BY <2>2 DEF IInv, TypeOK, DeviceInv
  <2>3. CASE UnlinkDevice(t)
    BY <2>3 DEF IInv, TypeOK, DeviceInv
  <2>4. CASE FreeDevice(t)
    BY <2>4 DEF IInv, TypeOK, DeviceInv
  <2> QED BY <1>0, <2>1, <2>2, <2>3, <2>4
<1>5. PhaseInv'
  BY DEF IInv, TypeOK, PhaseInv
<1> QED BY <1>1, <1>2, <1>3, <1>4, <1>5 DEF IInv

LEMMA SettingsIInv ==
  ASSUME IInv, SetEnabled \/ SetEngineMode \/ ExitBegins \/ UNCHANGED vars
  PROVE  IInv'
<1> USE DEF SetEnabled, SetEngineMode, ExitBegins, vars, modelVars, deviceVars, runnerVars
<1>1. TypeOK' /\ DeviceInv' /\ PhaseInv'
  <2>1. enabled' \in BOOLEAN /\ hardware' \in BOOLEAN
    BY Zenon DEF IInv, TypeOK
  <2>2. TypeOK'
    BY <2>1 DEF IInv, TypeOK
  <2>3. DeviceInv' /\ PhaseInv'
    BY DEF IInv, DeviceInv, PhaseInv
  <2> QED BY <2>2, <2>3
<1>2. ModelInv'
  BY DEF IInv, ModelInv, ListedLive, RunnerInv, UniqueReaper, OwnedKnown, StrayedOff, Known,
         Accounted, Holding, Unlinking, OffModels, Reaping
<1>3. RefcountExact'
  <2>1. \A k : Holders(k)' = Holders(k)
    BY DEF Holders
  <2> QED BY <2>1 DEF RefcountExact, IInv
<1> QED BY <1>1, <1>2, <1>3 DEF IInv

(* With the workqueue drained and no thread inside, what is live is listed.     *)
LEMMA ExitFreesIInv ==
  ASSUME IInv, ExitFrees
  PROVE  IInv'
<1> USE ModelRegistryAssumption DEF ExitFrees, Drained, Runners, runnerVars
<1>1. \A r \in Runners : pc[r] = "idle"
  BY DEF IInv, PhaseInv
<1>2. TypeOK'
  BY DEF IInv, TypeOK, Life
<1>3. ModelInv'
  BY <1>1 DEF IInv, TypeOK, ModelInv, ListedLive, RunnerInv, UniqueReaper, OwnedKnown, StrayedOff, Known,
              Accounted, Holding, Unlinking, OffModels, Reaping
<1>4. RefcountExact'
  BY DEF RefcountExact
<1>5. DeviceInv' /\ PhaseInv'
  BY <1>1 DEF IInv, TypeOK, DeviceInv, PhaseInv
<1> QED BY <1>2, <1>3, <1>4, <1>5 DEF IInv

LEMMA RunnerStepIInv ==
  ASSUME IInv, NEW r \in Runners, RunnerStep(r)
  PROVE  IInv'
<1> USE DEF Runners, modelVars, deviceVars
<1>1. CASE WorkStarts(r)
  <2>1. r \in Requests /\ pc[r] = "queued"
    BY <1>1 DEF WorkStarts
  <2>2. CASE \E n \in Names : Get(r, n)
    BY <2>1, <2>2, GetIInv
  <2>3. CASE Move(r, "idle", None) /\ UNCHANGED <<phase, enabled, hardware, modelVars, deviceVars, dev>>
    <3>1. phase # "down"
      BY <2>1 DEF IInv, PhaseInv
    <3> QED BY <2>1, <2>3, <3>1, RunIInv
  <2> QED BY <1>1, <2>2, <2>3 DEF WorkStarts, WhenNotStarted
<1>2. CASE RunSoftware(r)
  BY <1>2, RunIInv DEF RunSoftware, Holding
<1>3. CASE RunHardware(r)
  BY <1>3, RunIInv DEF RunHardware, Holding
<1>4. CASE DeviceReturns(r)
  BY <1>4, RunIInv DEF DeviceReturns, Holding
<1>5. CASE PutModel(r) \/ QueueForLock(r) \/ Unlink(r) \/ Free(r) \/ TouchDead(r)
  BY <1>5, PutModelIInv, QueueForLockIInv, UnlinkIInv, FreeIInv, CorruptIInv
<1> QED BY <1>1, <1>2, <1>3, <1>4, <1>5 DEF RunnerStep

LEMMA NextIInv ==
  ASSUME IInv, [Next]_vars
  PROVE  IInv'
<1>1. ASSUME NEW r \in Runners, RunnerStep(r) PROVE IInv'
  BY <1>1, RunnerStepIInv
<1>2. ASSUME NEW r \in Requests, InferAsync(r) PROVE IInv'
  BY <1>2, RunIInv DEF InferAsync, Runners, modelVars, deviceVars
<1>3. ASSUME NEW t \in Threads, ThreadStep(t) PROVE IInv'
  <2>1. CASE InferSync(t)
    BY <2>1, GetIInv DEF InferSync, Idle, Runners
  <2>2. CASE \/ \E m \in Models : PutRegistration(t, m) \/ PutFreed(t, m)
             \/ \E m \in Models, n \in Names : Register(t, m, n)
    BY <2>2, PutRegistrationIInv, CorruptIInv, RegisterIInv
  <2>3. CASE \E n \in Names : Unregister(t, n)
    BY <2>3, UnregisterIInv
  <2>4. CASE \E d \in Devices : RegisterDevice(t, d) \/ PutDevice(t, d)
    BY <2>4, DeviceIInv
  <2> QED BY <1>3, <2>1, <2>2, <2>3, <2>4 DEF ThreadStep
<1>4. ASSUME NEW t \in Threads, UnlinkDevice(t) \/ FreeDevice(t) PROVE IInv'
  BY <1>4, DeviceIInv
<1>5. CASE SetEnabled \/ SetEngineMode \/ ExitBegins \/ UNCHANGED vars
  BY <1>5, SettingsIInv
<1>6. CASE ExitFrees
  BY <1>6, ExitFreesIInv
<1> QED BY <1>1, <1>2, <1>3, <1>4, <1>5, <1>6 DEF Next

-----------------------------------------------------------------------------
(* IInv holds in every reachable state: the counts are exact, and with them the *)
(* last reference to a model decides who frees it.                              *)
THEOREM InductiveInvariant == Spec => []IInv
BY InitIInv, NextIInv, PTL DEF Spec

(* Every variable keeps its type; no count goes below zero.                     *)
THEOREM TypeCorrect == Spec => []TypeOK
<1>1. IInv => TypeOK
  BY DEF IInv
<1> QED BY <1>1, InductiveInvariant, PTL

(* The count of a model is the number of its references, whoever unregisters it *)
(* (ai_model_get(), ai_model_put(), ai_model_unregister()).                     *)
THEOREM CountsExact == Spec => []RefcountExact
<1>1. IInv => RefcountExact
  BY DEF IInv
<1> QED BY <1>1, InductiveInvariant, PTL

(* No list walk meets a freed model; a runner's or a registrar's is freed under *)
(* it only by somebody else's ai_model_unregister(), which may come at any      *)
(* moment, and only behind one is freed memory written to.                      *)
THEOREM NeverUsedAfterFree == Spec => []NoUseAfterFree
<1>1. ASSUME IInv PROVE NoUseAfterFree
  <2>1. \A r \in Runners : ref[r] \notin strayed \cup {None} => heap[ref[r]] = "live"
    BY <1>1 DEF IInv, TypeOK, ModelInv, ListedLive, RunnerInv, Known, Holding, Unlinking,
                OffModels
  <2> QED
    BY <1>1, <2>1 DEF IInv, ModelInv, ListedLive, OwnedKnown, Known, PhaseInv, NoUseAfterFree
<1> QED BY <1>1, InductiveInvariant, PTL

(* One runner only unlinks and frees a model, and nobody is using it then, as   *)
(* long as it is not unregistered by somebody else than its registrar.          *)
THEOREM FreedOnce == Spec => []SingleReaper
<1>1. ASSUME IInv PROVE SingleReaper
  <2> SUFFICES ASSUME NEW r \in Runners, Reaping(r), ref[r] \notin strayed
               PROVE  /\ \A s \in Runners : Reaping(s) /\ ref[s] = ref[r] => s = r
                      /\ pc[r] \in {"unlink", "wlock"} <=> ref[r] \in listed
                      /\ Holders(ref[r]) = {}
    BY DEF SingleReaper
  <2>1. \A s \in Runners : Reaping(s) /\ ref[s] = ref[r] => s = r
    BY <1>1 DEF IInv, ModelInv, UniqueReaper
  <2>2. pc[r] \in {"unlink", "wlock"} <=> ref[r] \in listed
    BY <1>1 DEF IInv, ModelInv, RunnerInv, Known, Reaping, Unlinking
  <2>3. Holders(ref[r]) = {}
    <3>1. CASE ref[r] \in listed
      BY <1>1, <2>2, <3>1, NoHolders
      DEF IInv, ModelInv, RunnerInv, Known, Unlinking, PhaseInv
    <3>2. CASE ref[r] \notin listed
      BY <1>1, <3>2 DEF IInv, ModelInv, RunnerInv, Known, Holders, Holding
    <3> QED BY <3>1, <3>2
  <2> QED BY <2>1, <2>2, <2>3
<1> QED BY <1>1, InductiveInvariant, PTL

(* A device an inference runs on stays on the list and in memory, although the  *)
(* inference took no reference to it.                                           *)
THEOREM DeviceStaysForRun == Spec => []DeviceInUseLive
<1>1. IInv => DeviceInUseLive
  BY DEF IInv, DeviceInv, DeviceInUseLive
<1> QED BY <1>1, InductiveInvariant, PTL

(* With nothing under way, exactly the models that still have their registrar   *)
(* and that nobody else took away are live.                                     *)
THEOREM NoModelLeaked == Spec => []Reclaimed
<1>1. ASSUME IInv, \A r \in Runners : pc[r] = "idle", NEW m \in Models
      PROVE  heap[m] = "live" <=> owned[m] /\ m \notin strayed
  <2>1. owned[m] /\ m \notin strayed => heap[m] = "live"
    BY <1>1 DEF IInv, ModelInv, OwnedKnown, Known, ListedLive
  <2>2. ASSUME heap[m] = "live" PROVE owned[m] /\ m \notin strayed
    <3>1. m \in listed /\ m \notin strayed /\ refcnt[m] > 0 /\ refcnt[m] \in Nat
      BY <1>1, <2>2 DEF IInv, TypeOK, ModelInv, Accounted, StrayedOff, Reaping
    <3>2. Cardinality(Holders(m)) = 0
      <4>1. Holders(m) = {}
        BY <1>1 DEF Holders
      <4> QED BY <4>1, FS_EmptySet
    <3>3. phase # "down"
      BY <1>1, <3>1 DEF IInv, PhaseInv
    <3> QED BY <1>1, <3>1, <3>2, <3>3 DEF IInv, RefcountExact
  <2> QED BY <2>1, <2>2
<1>2. IInv => Reclaimed
  BY <1>1 DEF Reclaimed
<1> QED BY <1>2, InductiveInvariant, PTL

(* After module exit no work item is left, and no model or device.              *)
THEOREM ExitIsClean == Spec => []ExitClean
<1>1. IInv => ExitClean
  BY ModelRegistryAssumption
     DEF IInv, PhaseInv, DeviceInv, ModelInv, Accounted, Reaping, ExitClean, Runners
<1> QED BY <1>1, InductiveInvariant, PTL
=============================================================================
