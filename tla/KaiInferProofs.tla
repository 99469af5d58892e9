--------------------------- MODULE KaiInferProofs ---------------------------
(* Proofs about the inference engine, for any number of callers, updaters,      *)
(* batches and models and any number of weight areas: its types, the weights    *)
(* that overlapping hot updates give back, and what its caches may still hold.  *)
EXTENDS KaiInfer, TLAPS

WeightsOK ==
  /\ models \subseteq Names
  /\ model \in [Names -> [weights : Nat, int8 : BOOLEAN]]
  /\ fresh \in Nat \ {0} /\ freed \subseteq Nat \ {0}
  /\ update \in [Updaters -> [place : {"idle", "old", "swap", "free", "flush"},
                              model : Names \cup {None}, old : Nat]]
  /\ \A u \in Updaters : update[u].place # "idle" => update[u].model \in Names

(* Every area in use or given back was allocated before the next one.           *)
Allocated ==
  /\ \A n \in Names : model[n].weights < fresh
  /\ \A a \in freed : a < fresh
  /\ \A u \in Updaters : update[u].old < fresh

(* No two models share weights.                                                 *)
NotShared ==
  \A m, n \in Names : m # n /\ model[m].weights = model[n].weights => model[m].weights = 0

(* The weights an updater remembers are those its model has or had: no other    *)
(* model's, and, once it has swapped, not those of its own model either.  This  *)
(* holds for two updaters that remember the same weights as well.               *)
Outdated ==
  \A u \in Updaters : \A n \in Names :
    /\ update[u].place \in {"swap", "free"} /\ update[u].old = model[n].weights
    /\ update[u].old # 0
    => update[u].place = "swap" /\ n = update[u].model

InForce == \A n \in Names : model[n].weights \notin freed

IInv == WeightsOK /\ Allocated /\ NotShared /\ Outdated /\ InForce

LEMMA IInvInit == Init => IInv
<1> SUFFICES ASSUME Init PROVE IInv
  OBVIOUS
<1> USE KaiInferAssumption DEF Init, Loaded
<1>1. WeightsOK
  BY DEF WeightsOK
<1>2. Allocated
  BY DEF Allocated
<1>3. NotShared
  BY DEF NotShared
<1>4. Outdated
  BY DEF Outdated
<1>5. InForce
  BY DEF InForce
<1> QED BY <1>1, <1>2, <1>3, <1>4, <1>5 DEF IInv

LEMMA LoadKeeps ==
  ASSUME IInv, NEW n \in Names, NEW q \in BOOLEAN, Load(n, q)
  PROVE  IInv'
<1> USE KaiInferAssumption DEF Load, Loaded, IInv, Areas
<1>1. WeightsOK'
  BY DEF WeightsOK
<1>2. \A m \in Names : model'[m].weights = IF m = n THEN fresh ELSE model[m].weights
  BY DEF WeightsOK
<1>3. Allocated'
  BY <1>2 DEF WeightsOK, Allocated
<1>4. NotShared'
  BY <1>2 DEF WeightsOK, Allocated, NotShared
<1>5. Outdated'
  BY <1>2 DEF WeightsOK, Allocated, Outdated
<1>6. InForce'
  BY <1>2 DEF WeightsOK, Allocated, InForce
<1> QED BY <1>1, <1>3, <1>4, <1>5, <1>6

LEMMA FindKeeps ==
  ASSUME IInv, NEW u \in Updaters, NEW n \in Names, UpdateFind(u, n)
  PROVE  IInv'
<1> USE DEF UpdateFind, IInv
<1>1. WeightsOK'
  BY DEF WeightsOK
<1>2. \A v \in Updaters : update'[v].old = update[v].old
                          /\ (v # u => update'[v] = update[v]) /\ update'[u].place = "old"
  BY DEF WeightsOK
<1>3. Allocated'
  BY <1>2 DEF Allocated
<1>4. Outdated'
  <2>1. UNCHANGED <<model, freed>> /\ Outdated
    OBVIOUS
  <2> HIDE DEF UpdateFind, IInv
  <2>2. ASSUME NEW v \in Updaters, NEW m \in Names,
               update'[v].place \in {"swap", "free"}, update'[v].old = model[m].weights,
               update'[v].old # 0
        PROVE  update'[v].place = "swap" /\ m = update'[v].model
    <3>1. v # u
      BY <1>2, <2>2
    <3> QED BY <1>2, <2>1, <2>2, <3>1 DEF Outdated
  <2> QED BY <2>1, <2>2 DEF Outdated
<1> QED BY <1>1, <1>3, <1>4 DEF NotShared, InForce

LEMMA ReadKeeps ==
  ASSUME IInv, NEW u \in Updaters, ReadOld(u)
  PROVE  IInv'
<1> USE DEF ReadOld, IInv
<1>1. update[u].model \in Names
  BY DEF WeightsOK
<1>2. \A v \in Updaters : v # u => update'[v] = update[v]
  BY DEF WeightsOK
<1>3. /\ update'[u].place = "swap" /\ update'[u].model = update[u].model
      /\ update'[u].old = model[update[u].model].weights
  BY DEF WeightsOK
<1>4. WeightsOK'
  BY <1>1 DEF WeightsOK
<1>5. Allocated'
  BY <1>1, <1>2, <1>3 DEF Allocated
<1>6. Outdated'
  <2>1. \A n \in Names : n # update[u].model /\ update'[u].old = model[n].weights
                           => update'[u].old = 0
    BY <1>1, <1>3 DEF NotShared
  <2>2. ASSUME NEW v \in Updaters, NEW n \in Names,
               update'[v].place \in {"swap", "free"}, update'[v].old = model[n].weights,
               update'[v].old # 0
        PROVE  update'[v].place = "swap" /\ n = update'[v].model
    <3>1. CASE v = u
      BY <1>3, <2>1, <2>2, <3>1
    <3>2. CASE v # u
      BY <1>2, <2>2, <3>2 DEF Outdated
    <3> QED BY <3>1, <3>2
  <2>3. model' = model
    OBVIOUS
  <2> HIDE DEF ReadOld
  <2> QED BY <2>2, <2>3, Zenon DEF Outdated
<1> QED BY <1>4, <1>5, <1>6 DEF NotShared, InForce

LEMMA SwapKeeps ==
  ASSUME IInv, NEW u \in Updaters, NEW q \in BOOLEAN, Swap(u, q)
  PROVE  IInv'
<1> USE DEF Swap, Step, IInv
<1> DEFINE m == update[u].model
<1>1. m \in Names
  BY DEF WeightsOK
<1>2. /\ model'[m].weights = fresh /\ model'[m].int8 = q
      /\ \A n \in Names : n # m => model'[n] = model[n]
  BY <1>1 DEF WeightsOK
<1>3. /\ \A v \in Updaters : v # u => update'[v] = update[v]
      /\ update'[u].place = "free" /\ update'[u].model = m /\ update'[u].old = update[u].old
  BY DEF WeightsOK
<1>4. model' \in [Names -> [weights : Nat, int8 : BOOLEAN]]
  BY <1>1 DEF WeightsOK
<1>5. WeightsOK'
  BY <1>1, <1>3, <1>4 DEF WeightsOK
<1>6. Allocated'
  BY <1>1, <1>2, <1>3 DEF WeightsOK, Allocated
<1>7. NotShared'
  BY <1>1, <1>2 DEF WeightsOK, Allocated, NotShared
<1>8. Outdated'
  BY <1>1, <1>2, <1>3 DEF WeightsOK, Allocated, Outdated
<1>9. InForce'
  BY <1>1, <1>2 DEF WeightsOK, Allocated, InForce
<1> QED BY <1>5, <1>6, <1>7, <1>8, <1>9

LEMMA FreeKeeps ==
  ASSUME IInv, NEW u \in Updaters, Free(u)
  PROVE  IInv'
<1> USE DEF Free, Step, IInv
<1>1. /\ \A v \in Updaters : v # u => update'[v] = update[v]
      /\ update'[u].place = "flush" /\ update'[u].model = update[u].model
      /\ update'[u].old = update[u].old
  BY DEF WeightsOK
<1>2. WeightsOK'
  BY <1>1 DEF WeightsOK
<1>3. Allocated'
  BY <1>1 DEF WeightsOK, Allocated
<1>4. Outdated'
  BY <1>1 DEF Outdated
<1>5. InForce'
  BY DEF Outdated, InForce
<1> QED BY <1>2, <1>3, <1>4, <1>5 DEF NotShared

LEMMA FlushKeeps ==
  ASSUME IInv, NEW u \in Updaters, Flush(u)
  PROVE  IInv'
<1> USE DEF Flush, IInv
<1>1. /\ \A v \in Updaters : v # u => update'[v] = update[v]
      /\ update'[u].place = "idle" /\ update'[u].old = 0
  BY DEF WeightsOK
<1>2. WeightsOK'
  BY DEF WeightsOK
<1>3. Allocated'
  BY <1>1 DEF WeightsOK, Allocated
<1>4. Outdated'
  BY <1>1 DEF Outdated
<1> QED BY <1>2, <1>3, <1>4 DEF NotShared, InForce

(* Callers, batches, the cache and the preheat thread never write weights; the  *)
(* exit takes models off the list.                                              *)
LEMMA OthersKeep ==
  ASSUME IInv, UNCHANGED <<model, fresh, freed, update>>, models' \subseteq models
  PROVE  IInv'
  BY DEF IInv, WeightsOK, Allocated, NotShared, Outdated, InForce

LEMMA IInvStep == IInv /\ [Next]_vars => IInv'
<1> SUFFICES ASSUME IInv, [Next]_vars PROVE IInv'
  OBVIOUS
<1>1. CASE UNCHANGED vars
  BY <1>1, OthersKeep DEF vars
<1>2. ASSUME NEW n \in Names, NEW q \in BOOLEAN, Load(n, q) PROVE IInv'
  BY <1>2, LoadKeeps
<1>3. ASSUME NEW t \in Tasks,
             (\E n \in Names : Call(t, n) \/ Submit(t, n)) \/ Find(t) \/ Run(t) \/ Read(t)
               \/ FindDefault(t) \/ Lookup(t) \/ Put(t) \/ LateWork(t)
      PROVE  IInv'
  BY <1>3, OthersKeep DEF Call, Submit, Find, Run, Read, FindDefault, Lookup, Put, LateWork,
                          unshared
<1>4. ASSUME NEW m \in Names, NEW n \in Names, Forget(m, n) PROVE IInv'
  BY <1>4, OthersKeep DEF Forget, unshared
<1>5. ASSUME NEW u \in Updaters,
             (\E n \in Names : UpdateFind(u, n)) \/ (\E q \in BOOLEAN : Swap(u, q))
               \/ ReadOld(u) \/ Free(u) \/ Flush(u)
      PROVE  IInv'
  BY <1>5, FindKeeps, ReadKeeps, SwapKeeps, FreeKeeps, FlushKeeps
<1>6. CASE (\E m \in Names : PreheatPick(m)) \/ PreheatWake \/ PreheatRead \/ PreheatSleep
  BY <1>6, OthersKeep DEF PreheatPick, PreheatWake, PreheatRead, PreheatSleep, rest
<1>7. CASE ExitStop \/ ExitModels
  BY <1>7, OthersKeep DEF ExitStop, ExitModels, rest
<1> QED BY <1>1, <1>2, <1>3, <1>4, <1>5, <1>6, <1>7 DEF Next, Tasks

LEMMA Updates == Spec => []IInv
  BY IInvInit, IInvStep, PTL DEF Spec

(* However many hot updates of the same model overlap, none of them gives back  *)
(* the weights a loaded model points to.                                        *)
THEOREM CurrentWeightsTheorem == Spec => []CurrentWeightsLive
<1>1. IInv => CurrentWeightsLive
  BY DEF IInv, InForce, WeightsOK, CurrentWeightsLive
<1> QED BY <1>1, Updates, PTL

(* No two models ever have the same weights, so an update of one of them cannot *)
(* take them from the other.                                                    *)
THEOREM NotSharedTheorem == Spec => []NotShared
<1>1. IInv => NotShared
  BY DEF IInv
<1> QED BY <1>1, Updates, PTL
---------------------------------------------------------------------------
(* Requests: what a task knows at each of its places. *)

Places == {"idle", "find", "default", "lookup", "run", "read", "put", "called", "oops"}

ReqOK ==
  /\ req \in [Tasks -> [place : Places, name : Names \cup {None}, model : Names \cup {None},
                        area : Answers]]
  /\ \A b \in Batches : req[b].place \notin {"default", "lookup", "put"}
  /\ \A t \in Tasks :
       /\ req[t].area # 0 => req[t].place \in {"read", "put"}
       /\ req[t].place \in {"lookup", "run", "read", "put"} => req[t].model \in Names
       /\ req[t].place \in {"find", "default", "lookup", "run", "read", "put"}
            => req[t].name \in Names

(* The rest of TypeOK that the hot updates need not know.                       *)
RestOK ==
  /\ cache \in [Names -> [Names -> Answers \cup {None}]]
  /\ fresh \in 1..MaxArea + 1
  /\ preheat \in [place : {"asleep", "pick", "read", "stopped", "oops"},
                  todo : SUBSET Names, area : Answers]
  /\ exit \in {"no", "stopped", "stuck", "done"}
  /\ raced \subseteq Names

TypeInv == ReqOK /\ RestOK

LEMMA InferTypes == IInv /\ TypeInv => TypeOK
<1> SUFFICES ASSUME IInv, TypeInv PROVE TypeOK
  OBVIOUS
<1> USE DEF IInv, WeightsOK, Allocated, TypeInv, RestOK
<1>1. MaxArea \in Nat /\ fresh \in Nat /\ fresh <= MaxArea + 1
  BY KaiInferAssumption
<1>2. model \in [Names -> [weights : Answers, int8 : BOOLEAN]]
  BY <1>1 DEF Answers
<1>3. freed \subseteq Areas
  BY <1>1 DEF Areas
<1>4. update \in [Updaters -> [place : {"idle", "old", "swap", "free", "flush"},
                              model : Names \cup {None}, old : Answers]]
  BY <1>1 DEF Answers
<1> QED BY <1>2, <1>3, <1>4 DEF TypeOK, ReqOK, Places

LEMMA WeightsBounded ==
  ASSUME IInv, RestOK, NEW m \in Names
  PROVE  model[m].weights \in Answers /\ Current(m) \in Answers /\ 0 \in Answers
BY KaiInferAssumption DEF IInv, WeightsOK, Allocated, RestOK, Answers, Current

LEMMA ReqInit == Init => ReqOK
<1> SUFFICES ASSUME Init PROVE ReqOK
  OBVIOUS
<1>1. \A t \in Tasks : req[t] = Idle
  BY DEF Init
<1>2. req \in [Tasks -> [place : Places, name : Names \cup {None}, model : Names \cup {None},
                         area : Answers]]
  BY KaiInferAssumption DEF Init, Idle, Places, Answers
<1> QED BY <1>1, <1>2 DEF ReqOK, Idle, Tasks

(* A task's own steps.                                                          *)
LEMMA ReqTask ==
  ASSUME IInv, TypeInv, NEW t \in Tasks,
         \/ \E n \in Names : Call(t, n) \/ (t \in Batches /\ Submit(t, n))
         \/ Find(t) \/ Run(t) \/ Read(t) \/ FindDefault(t) \/ Lookup(t) \/ Put(t) \/ LateWork(t)
  PROVE  ReqOK'
<1> USE DEF TypeInv
<1>1. /\ req[t] \in [place : Places, name : Names \cup {None}, model : Names \cup {None},
                     area : Answers]
      /\ 0 \in Answers /\ models \subseteq Names
  BY KaiInferAssumption DEF ReqOK, IInv, WeightsOK, Answers
<1>2. ASSUME NEW r \in [place : Places, name : Names \cup {None}, model : Names \cup {None},
                       area : Answers],
             req' = [req EXCEPT ![t] = r],
             t \in Batches => r.place \notin {"default", "lookup", "put"},
             r.area # 0 => r.place \in {"read", "put"},
             r.place \in {"lookup", "run", "read", "put"} => r.model \in Names,
             r.place \in {"find", "default", "lookup", "run", "read", "put"} => r.name \in Names
      PROVE  ReqOK'
  <2>1. /\ req'[t] = r /\ \A s \in Tasks : s # t => req'[s] = req[s]
        /\ req' \in [Tasks -> [place : Places, name : Names \cup {None},
                               model : Names \cup {None}, area : Answers]]
    BY <1>2 DEF ReqOK
  <2> QED BY <1>2, <2>1 DEF ReqOK, Tasks
<1>3. ASSUME NEW n \in Names, Call(t, n) \/ (t \in Batches /\ Submit(t, n)) PROVE ReqOK'
  BY <1>1, <1>2, <1>3 DEF Call, Submit, Idle, Places
<1>4. CASE Find(t)
  <2>1. CASE req[t].name \in models
    BY <1>1, <1>2, <1>4, <2>1 DEF Find, ReqOK, Places
  <2>2. CASE req[t].name \notin models
    BY <1>1, <1>2, <1>4, <2>2 DEF Find, Ends, Goto, Idle, ReqOK, Places
  <2> QED BY <2>1, <2>2
<1>5. CASE Run(t)
  <2>1. req[t].model \in Names /\ req[t].name \in Names /\ req[t].area = 0
    BY <1>5 DEF Run, ReqOK
  <2>2. CASE ReadsWeights(req[t].model)
    <3>1. model[req[t].model].weights \in Answers
      BY <2>1, WeightsBounded
    <3> QED BY <1>1, <1>2, <1>5, <2>1, <2>2, <3>1 DEF Run, Places
  <2>3. CASE ~ReadsWeights(req[t].model)
    BY <1>1, <1>2, <1>5, <2>1, <2>3 DEF Run, Answer, Answered, Ends, Goto, Idle, Places
  <2> QED BY <2>2, <2>3
<1>6. CASE Read(t)
  <2>1. req[t].model \in Names /\ req[t].name \in Names
    BY <1>6 DEF Read, ReqOK
  <2>2. CASE req[t].area \in freed
    BY <1>1, <1>2, <1>6, <2>2 DEF Read, Ends, Idle, Places
  <2>3. CASE req[t].area \notin freed
    BY <1>1, <1>2, <1>6, <2>1, <2>3 DEF Read, Answer, Answered, Ends, Goto, Idle, Places
  <2> QED BY <2>2, <2>3
<1>7. CASE FindDefault(t)
  <2>1. req[t].name \in Names /\ t \notin Batches /\ req[t].area = 0
    BY <1>7 DEF FindDefault, ReqOK
  <2>2. CASE Default \in models
    <3> DEFINE r == [req[t] EXCEPT !.model = Default, !.place = "lookup"]
    <3>1. /\ r \in [place : Places, name : Names \cup {None}, model : Names \cup {None},
                    area : Answers]
          /\ r.place = "lookup" /\ r.area = 0 /\ r.model \in Names /\ r.name \in Names
      BY <1>1, <2>1, KaiInferAssumption DEF Places
    <3>2. req' = [req EXCEPT ![t] = r]
      BY <1>7, <2>2 DEF FindDefault
    <3> HIDE DEF r
    <3> QED BY <1>2, <2>1, <3>1, <3>2
  <2>3. CASE Default \notin models
    BY <1>1, <1>2, <1>7, <2>1, <2>3 DEF FindDefault, Idle, Places
  <2> QED BY <2>2, <2>3
<1>8. CASE Lookup(t)
  <2>1. req[t].name \in Names /\ req[t].model \in Names /\ req[t].area = 0
    BY <1>8 DEF Lookup, ReqOK
  <2>2. CASE Held(t) # None
    BY <1>1, <1>2, <1>8, <2>2 DEF Lookup, Idle, Places
  <2>3. CASE Held(t) = None
    <3> DEFINE r == [req[t] EXCEPT !.place = "run"]
    <3>1. /\ r \in [place : Places, name : Names \cup {None}, model : Names \cup {None},
                    area : Answers]
          /\ r.place = "run" /\ r.area = 0 /\ r.model \in Names /\ r.name \in Names
      BY <1>1, <2>1 DEF Places
    <3>2. req' = [req EXCEPT ![t] = r]
      BY <1>8, <2>3 DEF Lookup
    <3> HIDE DEF r
    <3> QED BY <1>2, <3>1, <3>2
  <2> QED BY <2>2, <2>3
<1>9. CASE Put(t)
  BY <1>1, <1>2, <1>9 DEF Put, Idle, Places
<1>10. CASE LateWork(t)
  BY <1>1, <1>2, <1>10 DEF LateWork, Ends, Idle, Places
<1> QED BY <1>3, <1>4, <1>5, <1>6, <1>7, <1>8, <1>9, <1>10

(* The rest.                                                                    *)
LEMMA RestInit == Init => RestOK
BY KaiInferAssumption DEF Init, RestOK, Empty, Answers

LEMMA RestStep == IInv /\ TypeInv /\ [Next]_vars => RestOK'
<1> SUFFICES ASSUME IInv, TypeInv, [Next]_vars PROVE RestOK'
  OBVIOUS
<1> USE DEF TypeInv
<1>1. ASSUME UNCHANGED <<cache, preheat, exit, raced>>,
             fresh' = fresh \/ (fresh \in Areas /\ fresh' = fresh + 1)
      PROVE  RestOK'
  BY <1>1, KaiInferAssumption DEF RestOK, Areas
<1>2. ASSUME NEW n \in Names, NEW q \in BOOLEAN, Load(n, q) PROVE RestOK'
  BY <1>1, <1>2 DEF Load
<1>3. ASSUME NEW t \in Tasks,
             (\E n \in Names : Call(t, n) \/ Submit(t, n)) \/ Find(t) \/ Run(t) \/ Read(t)
               \/ FindDefault(t) \/ Lookup(t) \/ LateWork(t)
      PROVE  RestOK'
  BY <1>1, <1>3 DEF Call, Submit, Find, Run, Read, FindDefault, Lookup, LateWork, unshared
<1>4. ASSUME NEW t \in Tasks, Put(t) PROVE RestOK'
  <2>1. req[t].model \in Names /\ req[t].name \in Names /\ req[t].area \in Answers
    BY <1>4 DEF Put, ReqOK
  <2>2. cache' \in [Names -> [Names -> Answers \cup {None}]]
    BY <1>4, <2>1 DEF Put, Stored, RestOK
  <2> QED BY <1>4, <2>2 DEF Put, unshared, RestOK
<1>5. ASSUME NEW m \in Names, NEW n \in Names, Forget(m, n) PROVE RestOK'
  <2>1. cache' \in [Names -> [Names -> Answers \cup {None}]]
    BY <1>5 DEF Forget, RestOK
  <2> QED BY <1>5, <2>1 DEF Forget, unshared, RestOK
<1>6. ASSUME NEW u \in Updaters,
             (\E n \in Names : UpdateFind(u, n)) \/ (\E q \in BOOLEAN : Swap(u, q))
               \/ ReadOld(u) \/ Free(u)
      PROVE  RestOK'
  BY <1>1, <1>6 DEF UpdateFind, Swap, ReadOld, Free
<1>7. ASSUME NEW u \in Updaters, Flush(u) PROVE RestOK'
  <2>1. update[u].model \in Names
    BY <1>7 DEF Flush, IInv, WeightsOK
  <2>2. cache' \in [Names -> [Names -> Answers \cup {None}]]
    BY <1>7, <2>1 DEF Flush, Flushed, Empty, RestOK
  <2> QED BY <1>7, <2>1, <2>2 DEF Flush, RestOK
<1>8. ASSUME NEW m \in Names, PreheatPick(m) PROVE RestOK'
  <2>1. Current(m) \in Answers
    BY WeightsBounded
  <2> QED BY <1>8, <2>1 DEF PreheatPick, rest, RestOK
<1>9. CASE PreheatWake \/ PreheatRead \/ PreheatSleep
  <2>1. models \subseteq Names /\ 0 \in Answers
    BY KaiInferAssumption DEF IInv, WeightsOK, Answers
  <2>2. CASE PreheatWake
    BY <2>1, <2>2 DEF PreheatWake, rest, RestOK
  <2>3. CASE PreheatRead
    BY <2>1, <2>3 DEF PreheatRead, rest, RestOK
  <2>4. CASE PreheatSleep
    BY <2>4 DEF PreheatSleep, rest, RestOK
  <2> QED BY <1>9, <2>2, <2>3, <2>4
<1>10. CASE ExitStop
  BY <1>10 DEF ExitStop, rest, RestOK
<1>11. CASE ExitModels
  BY <1>11 DEF ExitModels, RestOK
<1>12. CASE UNCHANGED vars
  BY <1>1, <1>12 DEF vars
<1> QED BY <1>2, <1>3, <1>4, <1>5, <1>6, <1>7, <1>8, <1>9, <1>10, <1>11, <1>12 DEF Next, Tasks

LEMMA ReqStep == IInv /\ TypeInv /\ [Next]_vars => ReqOK'
<1> SUFFICES ASSUME IInv, TypeInv, [Next]_vars PROVE ReqOK'
  OBVIOUS
<1>1. ASSUME UNCHANGED req PROVE ReqOK'
  BY <1>1 DEF TypeInv, ReqOK
<1>2. ASSUME NEW t \in Tasks,
             (\E n \in Names : Call(t, n) \/ (t \in Batches /\ Submit(t, n)))
               \/ Find(t) \/ Run(t) \/ Read(t)
               \/ FindDefault(t) \/ Lookup(t) \/ Put(t) \/ LateWork(t)
      PROVE  ReqOK'
  BY <1>2, ReqTask
<1>3. CASE \/ \E n \in Names, q \in BOOLEAN : Load(n, q)
           \/ \E m, n \in Names : Forget(m, n)
           \/ \E u \in Updaters, n \in Names : UpdateFind(u, n)
           \/ \E u \in Updaters, q \in BOOLEAN : Swap(u, q)
           \/ \E u \in Updaters : ReadOld(u) \/ Free(u) \/ Flush(u)
  BY <1>1, <1>3 DEF Load, Forget, UpdateFind, Swap, ReadOld, Free, Flush
<1>4. CASE (\E m \in Names : PreheatPick(m)) \/ PreheatWake \/ PreheatRead \/ PreheatSleep
            \/ ExitStop \/ ExitModels \/ UNCHANGED vars
  BY <1>1, <1>4 DEF PreheatPick, PreheatWake, PreheatRead, PreheatSleep, ExitStop, ExitModels,
                    rest, vars
<1> QED BY <1>2, <1>3, <1>4 DEF Next, Tasks

LEMMA SpecTypeInv == Spec => [](IInv /\ TypeInv)
<1>1. IInv /\ TypeInv /\ [Next]_vars => TypeInv'
  BY ReqStep, RestStep DEF TypeInv
<1>2. Init => TypeInv
  BY ReqInit, RestInit DEF TypeInv
<1> QED BY <1>1, <1>2, Updates, PTL DEF Spec

(* Whatever the tasks, updaters, batches and the preheat thread do, every place *)
(* they are at has the names and weights it works with, and a batch item never  *)
(* looks in the cache nor stores what it computed.                              *)
THEOREM TypeCorrect == Spec => []TypeOK
BY InferTypes, SpecTypeInv, PTL
---------------------------------------------------------------------------
(* The caches: what an answer still to be stored, or stored already, was        *)
(* computed from. *)

Excused(m) == Updating(m) \/ m \in raced

Follows ==
  \A m, n \in Names : cache[m][n] \notin {None, Current(m)} => Excused(m)

Computed ==
  \A t \in Threads :
    req[t].place \in {"read", "put"} /\ req[t].area # Current(req[t].model)
      => Excused(req[t].model)

(* Before the module exits, a model that was never loaded is in nobody's hands. *)
Unloaded ==
  exit = "no" => \A m \in Names \ models : /\ \A n \in Names : cache[m][n] = None
                                           /\ \A t \in Threads : req[t].model # m

AnswerInv == Follows /\ Computed /\ Unloaded

LEMMA AnswerInit == Init => AnswerInv
<1> SUFFICES ASSUME Init PROVE AnswerInv
  OBVIOUS
<1>1. \A m, n \in Names : cache[m][n] = None
  BY DEF Init, Empty
<1>2. \A t \in Threads : req[t].place = "idle" /\ req[t].model = None
  BY DEF Init, Idle, Tasks
<1> QED BY <1>1, <1>2, KaiInferAssumption DEF AnswerInv, Follows, Computed, Unloaded

(* A step of a task that leaves the caches alone: its answer is of the weights  *)
(* in force when it read them.                                                  *)
LEMMA TaskAnswers ==
  ASSUME IInv, TypeInv, AnswerInv, NEW t \in Tasks,
         \/ \E n \in Names : Call(t, n) \/ (t \in Batches /\ Submit(t, n))
         \/ Find(t) \/ Run(t) \/ Read(t) \/ FindDefault(t) \/ Lookup(t) \/ LateWork(t)
  PROVE  AnswerInv'
<1> DEFINE r == req'[t]
           Sound == /\ r.model \in models \cup {None, req[t].model}
                    /\ r.place \in {"read", "put"} /\ r.area # Current(r.model)
                       => req[t].place = "read" /\ r.model = req[t].model /\ r.area = req[t].area
<1>1. UNCHANGED <<models, model, cache, update, exit, raced>>
  BY DEF Call, Submit, Find, Run, Read, FindDefault, Lookup, LateWork, unshared
<1>2. \A s \in Tasks : s # t => req'[s] = req[s]
  BY DEF Call, Submit, Find, Run, Read, FindDefault, Lookup, LateWork, Answer, Ends, Goto,
         TypeInv, ReqOK
<1>t. /\ req \in [Tasks -> [place : Places, name : Names \cup {None}, model : Names \cup {None},
                            area : Answers]]
      /\ req[t].area # 0 => req[t].place \in {"read", "put"}
  BY DEF TypeInv, ReqOK
<1>3. Sound
  <2>1. ASSUME NEW n \in Names, Call(t, n) \/ (t \in Batches /\ Submit(t, n)) PROVE Sound
    BY <1>t, <2>1 DEF Call, Submit, Idle
  <2>2. CASE Find(t)
    <3>1. CASE req[t].name \in models
      <4>1. r.model = req[t].name /\ r.place \in {"run", "lookup"}
        BY <1>t, <2>2, <3>1 DEF Find
      <4> QED BY <3>1, <4>1
    <3>2. CASE req[t].name \notin models
      <4>1. r.model \in {None, req[t].model} /\ r.place \in {"called", "default"}
        BY <1>t, <2>2, <3>2 DEF Find, Ends, Goto, Idle
      <4> QED BY <4>1
    <3> QED BY <3>1, <3>2
  <2>3. CASE Run(t)
    <3>1. CASE ReadsWeights(req[t].model)
      <4>1. r.model = req[t].model /\ r.area = model[req[t].model].weights
        BY <1>t, <2>3, <3>1 DEF Run
      <4> QED BY <3>1, <4>1 DEF Current
    <3>2. CASE ~ReadsWeights(req[t].model)
      <4>1. r.model \in {None, req[t].model} /\ (r.place = "put" => r.model = req[t].model)
            /\ r.area = 0 /\ r.place # "read"
        BY <1>t, <2>3, <3>2 DEF Run, Answer, Answered, Ends, Goto, Idle
      <4> QED BY <3>2, <4>1 DEF Current
    <3> QED BY <3>1, <3>2
  <2>4. CASE Read(t)
    <3>1. r.model \in {None, req[t].model} /\ r.place # "read"
          /\ (r.place = "put" => r.model = req[t].model /\ r.area = req[t].area)
      <4>1. CASE req[t].area \in freed
        BY <1>t, <2>4, <4>1 DEF Read, Ends, Idle
      <4>2. CASE req[t].area \notin freed
        BY <1>t, <2>4, <4>2 DEF Read, Answer, Answered, Ends, Goto, Idle
      <4> QED BY <4>1, <4>2
    <3> QED BY <2>4, <3>1 DEF Read
  <2>5. CASE FindDefault(t)
    BY <1>t, <2>5 DEF FindDefault, Idle
  <2>6. CASE Lookup(t)
    <3>1. r.model \in {None, req[t].model} /\ r.place \notin {"read", "put"}
      BY <1>t, <2>6 DEF Lookup, Idle
    <3> QED BY <3>1
  <2>7. CASE LateWork(t)
    BY <1>t, <2>7 DEF LateWork, Ends, Idle
  <2> QED BY <2>1, <2>2, <2>3, <2>4, <2>5, <2>6, <2>7
<1>4. \A m : Current(m)' = Current(m) /\ (Excused(m)' <=> Excused(m))
  BY <1>1 DEF Current, ReadsWeights, Excused, Updating
<1>5. Follows'
  BY <1>1, <1>4 DEF AnswerInv, Follows
<1>6. Computed'
  <2>1. ASSUME NEW s \in Threads, req'[s].place \in {"read", "put"},
               req'[s].area # Current(req'[s].model)
        PROVE  Excused(req'[s].model)
    <3>1. CASE s = t
      BY <1>3, <2>1, <3>1 DEF AnswerInv, Computed
    <3>2. CASE s # t
      BY <1>2, <2>1, <3>2 DEF AnswerInv, Computed, Tasks
    <3> QED BY <3>1, <3>2
  <2> QED BY <1>4, <2>1 DEF Computed
<1>7. Unloaded'
  <2>1. ASSUME exit = "no", NEW m \in Names \ models, NEW s \in Threads
        PROVE  req'[s].model # m
    <3>1. CASE s = t
      BY <1>3, <2>1, <3>1, KaiInferAssumption DEF AnswerInv, Unloaded
    <3>2. CASE s # t
      BY <1>2, <2>1, <3>2 DEF AnswerInv, Unloaded, Tasks
    <3> QED BY <3>1, <3>2
  <2> QED BY <1>1, <2>1 DEF AnswerInv, Unloaded
<1> QED BY <1>5, <1>6, <1>7 DEF AnswerInv
(* Storing an answer, and what caches forget.                                   *)
LEMMA PutAnswers ==
  ASSUME IInv, TypeInv, AnswerInv, NEW t \in Threads, Put(t)
  PROVE  AnswerInv'
<1>1. UNCHANGED <<models, model, update, exit, raced>>
  BY DEF Put, unshared
<1>2. /\ \A s \in Tasks : s # t => req'[s] = req[s]
      /\ req'[t] = Idle
  BY DEF Put, TypeInv, ReqOK, Tasks
<1>3. \A m : Current(m)' = Current(m) /\ (Excused(m)' <=> Excused(m))
  BY <1>1 DEF Current, ReadsWeights, Excused, Updating
<1> DEFINE k == req[t].model
           a == req[t].area
<1>4. k \in Names /\ req[t].name \in Names /\ req[t].place = "put"
  BY DEF Put, TypeInv, ReqOK, Tasks
<1>5. a # Current(k) => Excused(k)
  BY <1>4 DEF AnswerInv, Computed
<1>6. \A m, n \in Names : cache'[m][n] = cache[m][n] \/ (m = k /\ cache'[m][n] = a)
  BY <1>4 DEF Put, Stored, TypeInv, RestOK
<1>7. Follows'
  BY <1>3, <1>5, <1>6 DEF AnswerInv, Follows
<1>8. Computed'
  BY <1>2, <1>3 DEF AnswerInv, Computed, Idle, Tasks
<1>9. Unloaded'
  BY <1>1, <1>2, <1>4, <1>6, KaiInferAssumption DEF AnswerInv, Unloaded, Idle, Tasks
<1> QED BY <1>7, <1>8, <1>9 DEF AnswerInv

LEMMA ForgetAnswers ==
  ASSUME IInv, TypeInv, AnswerInv, NEW k \in Names, NEW j \in Names, Forget(k, j)
  PROVE  AnswerInv'
<1>1. UNCHANGED <<models, model, update, exit, raced, req>>
  BY DEF Forget, unshared
<1>2. \A m : Current(m)' = Current(m) /\ (Excused(m)' <=> Excused(m))
  BY <1>1 DEF Current, ReadsWeights, Excused, Updating
<1>3. \A m, n \in Names : cache'[m][n] \in {cache[m][n], None}
  BY DEF Forget, TypeInv, RestOK
<1> QED BY <1>1, <1>2, <1>3 DEF AnswerInv, Follows, Computed, Unloaded

(* A model that is loaded had no answers and nobody computing any.              *)
LEMMA LoadAnswers ==
  ASSUME IInv, TypeInv, AnswerInv, NEW k \in Names, NEW q \in BOOLEAN, Load(k, q)
  PROVE  AnswerInv'
<1>1. UNCHANGED <<cache, req, update, raced, exit>> /\ exit = "no" /\ k \notin models
      /\ models' = models \cup {k}
  BY DEF Load
<1>2. \A m \in Names : m # k => model'[m] = model[m]
  BY DEF Load, IInv, WeightsOK
<1>3. \A m : Excused(m)' <=> Excused(m)
  BY <1>1 DEF Excused, Updating
<1>4. \A m \in Names : m # k => Current(m)' = Current(m)
  BY <1>2 DEF Current, ReadsWeights
<1>5. (\A n \in Names : cache[k][n] = None) /\ \A t \in Threads : req[t].model # k
  BY <1>1 DEF AnswerInv, Unloaded
<1>6. Follows'
  BY <1>1, <1>3, <1>4, <1>5 DEF AnswerInv, Follows
<1>7. Computed'
  <2>1. ASSUME NEW t \in Threads, req[t].place \in {"read", "put"},
               req[t].area # Current(req[t].model)'
        PROVE  Excused(req[t].model)'
    <3>1. PICK m \in Names : m = req[t].model
      BY <2>1 DEF TypeInv, ReqOK, Tasks
    <3>2. Current(m)' = Current(m)
      BY <1>4, <1>5, <3>1
    <3>3. req[t].area # Current(m)
      BY <1>1, <2>1, <3>1, <3>2 DEF Current, ReadsWeights
    <3>4. Excused(m)
      BY <2>1, <3>1, <3>3 DEF AnswerInv, Computed
    <3> QED BY <1>1, <1>3, <3>1, <3>4 DEF Excused, Updating
  <2> QED BY <1>1, <2>1 DEF Computed
<1>8. Unloaded'
  BY <1>1 DEF AnswerInv, Unloaded
<1> QED BY <1>6, <1>7, <1>8 DEF AnswerInv

(* The swap makes every answer there is an older one, and its updater owes the  *)
(* flush.                                                                       *)
LEMMA SwapAnswers ==
  ASSUME IInv, TypeInv, AnswerInv, NEW u \in Updaters, NEW q \in BOOLEAN, Swap(u, q)
  PROVE  AnswerInv'
<1>k. PICK k \in Names : k = update[u].model
  BY DEF Swap, IInv, WeightsOK
<1>1. UNCHANGED <<models, cache, req, raced, exit>>
  BY DEF Swap
<1>2. \A m \in Names : m # k => model'[m] = model[m]
  BY <1>k DEF Swap, IInv, WeightsOK
<1>3. /\ update'[u].place = "free" /\ update'[u].model = k
      /\ \A v \in Updaters : v # u => update'[v] = update[v]
      /\ update[u].place = "swap"
  BY <1>k DEF Swap, Step, IInv, WeightsOK
<1>4. \A m : Excused(m) => Excused(m)'
  BY <1>1, <1>3 DEF Excused, Updating
<1>5. Excused(k)'
  BY <1>3 DEF Excused, Updating
<1>6. \A m \in Names : m # k => Current(m)' = Current(m)
  BY <1>2 DEF Current, ReadsWeights
<1>7. Follows'
  BY <1>1, <1>4, <1>5, <1>6 DEF AnswerInv, Follows
<1>8. Computed'
  <2>1. ASSUME NEW t \in Threads, req[t].place \in {"read", "put"}, NEW m \in Names,
               m = req[t].model, req[t].area # Current(m)'
        PROVE  Excused(m)'
    <3>1. CASE m = k
      BY <1>5, <3>1
    <3>2. CASE m # k
      BY <1>4, <1>6, <2>1, <3>2 DEF AnswerInv, Computed
    <3> QED BY <3>1, <3>2
  <2>2. ASSUME NEW t \in Threads, req[t].place \in {"read", "put"},
               req[t].area # Current(req[t].model)'
        PROVE  Excused(req[t].model)'
    <3>1. PICK m \in Names : m = req[t].model
      BY <2>2 DEF TypeInv, ReqOK, Tasks
    <3>2. req[t].area # Current(m)'
      BY <1>1, <2>2, <3>1 DEF Current, ReadsWeights
    <3>3. Excused(m)'
      BY <2>1, <2>2, <3>1, <3>2
    <3> QED BY <1>1, <3>1, <3>3 DEF Excused, Updating
  <2> QED BY <1>1, <2>2 DEF Computed
<1>9. Unloaded'
  BY <1>1 DEF AnswerInv, Unloaded
<1> QED BY <1>7, <1>8, <1>9 DEF AnswerInv
(* The flush empties the cache, and marks the model when an older answer is     *)
(* still to be stored.                                                          *)
LEMMA FlushAnswers ==
  ASSUME IInv, TypeInv, AnswerInv, NEW u \in Updaters, Flush(u)
  PROVE  AnswerInv'
<1>k. PICK k \in Names : k = update[u].model
  BY DEF Flush, IInv, WeightsOK
<1>1. UNCHANGED <<models, model, req, exit>>
  BY DEF Flush
<1>2. \A n \in Names : cache'[k][n] = None /\ \A m \in Names : m # k => cache'[m] = cache[m]
  BY <1>k DEF Flush, Flushed, Empty, TypeInv, RestOK
<1>3. raced' = IF Computing(k) THEN raced \cup {k} ELSE raced \ {k}
  BY <1>k DEF Flush
<1>4. \A v \in Updaters : v # u => update'[v] = update[v]
  BY DEF Flush, IInv, WeightsOK
<1>5. \A m \in Names : Current(m)' = Current(m)
  BY <1>1 DEF Current, ReadsWeights
<1>6. \A m \in Names : m # k /\ Excused(m) => Excused(m)'
  BY <1>k, <1>3, <1>4 DEF Excused, Updating
<1>7. Follows'
  BY <1>2, <1>5, <1>6 DEF AnswerInv, Follows
<1>8. Computed'
  <2>1. ASSUME NEW t \in Threads, req[t].place \in {"read", "put"}, NEW m \in Names,
               m = req[t].model, req[t].area # Current(m)
        PROVE  Excused(m)'
    <3>1. CASE m = k
      <4>1. Computing(k)
        BY <2>1, <3>1 DEF Computing
      <4> QED BY <1>3, <3>1, <4>1 DEF Excused
    <3>2. CASE m # k
      BY <1>6, <2>1, <3>2 DEF AnswerInv, Computed
    <3> QED BY <3>1, <3>2
  <2>2. ASSUME NEW t \in Threads, req[t].place \in {"read", "put"},
               req[t].area # Current(req[t].model)'
        PROVE  Excused(req[t].model)'
    <3>1. PICK m \in Names : m = req[t].model
      BY <2>2 DEF TypeInv, ReqOK, Tasks
    <3>2. req[t].area # Current(m)
      BY <1>1, <2>2, <3>1 DEF Current, ReadsWeights
    <3>3. Excused(m)'
      BY <2>1, <2>2, <3>1, <3>2
    <3> QED BY <1>1, <3>1, <3>3 DEF Excused, Updating
  <2> QED BY <1>1, <2>2 DEF Computed
<1>9. Unloaded'
  BY <1>1, <1>2 DEF AnswerInv, Unloaded
<1> QED BY <1>7, <1>8, <1>9 DEF AnswerInv

(* Steps that neither compute nor store, load nor swap.                         *)
LEMMA OtherAnswers ==
  ASSUME AnswerInv, UNCHANGED <<model, cache, req, raced>>,
         \A m : Updating(m) => Updating(m)',
         (models' = models /\ exit' = exit) \/ exit' # "no"
  PROVE  AnswerInv'
<1>1. \A m : Current(m)' = Current(m) /\ (Excused(m) => Excused(m)')
  BY DEF Current, ReadsWeights, Excused
<1>2. Follows'
  BY <1>1 DEF AnswerInv, Follows
<1>3. Computed'
  <2>1. ASSUME NEW t \in Threads, req[t].place \in {"read", "put"},
               req[t].area # Current(req[t].model)
        PROVE  Excused(req[t].model)'
    BY <2>1 DEF AnswerInv, Computed, Excused, Updating
  <2> QED BY <2>1 DEF Computed, Current, ReadsWeights
<1>4. Unloaded'
  BY DEF AnswerInv, Unloaded
<1> QED BY <1>2, <1>3, <1>4 DEF AnswerInv

LEMMA UpdaterAnswers ==
  ASSUME IInv, AnswerInv, NEW u \in Updaters,
         (\E n \in Names : UpdateFind(u, n)) \/ ReadOld(u) \/ Free(u)
  PROVE  AnswerInv'
<1>1. UNCHANGED <<model, cache, req, raced, models, exit>>
  BY DEF UpdateFind, ReadOld, Free
<1>2. \A v \in Updaters : v # u => update'[v] = update[v]
  BY DEF UpdateFind, ReadOld, Free, Step, IInv, WeightsOK
<1>3. update[u].place \in {"free", "flush"}
        => update'[u].model = update[u].model /\ update'[u].place = "flush"
  BY DEF UpdateFind, ReadOld, Free, Step, IInv, WeightsOK
<1>4. \A m : Updating(m) => Updating(m)'
  BY <1>2, <1>3 DEF Updating
<1> QED BY <1>1, <1>4, OtherAnswers

LEMMA AnswerStep == IInv /\ TypeInv /\ AnswerInv /\ [Next]_vars => AnswerInv'
<1> SUFFICES ASSUME IInv, TypeInv, AnswerInv, [Next]_vars PROVE AnswerInv'
  OBVIOUS
<1>1. ASSUME NEW n \in Names, NEW q \in BOOLEAN, Load(n, q) PROVE AnswerInv'
  BY <1>1, LoadAnswers
<1>2. ASSUME NEW t \in Tasks,
             (\E n \in Names : Call(t, n) \/ (t \in Batches /\ Submit(t, n)))
               \/ Find(t) \/ Run(t) \/ Read(t) \/ FindDefault(t) \/ Lookup(t) \/ LateWork(t)
      PROVE  AnswerInv'
  BY <1>2, TaskAnswers
<1>3. ASSUME NEW t \in Threads, Put(t) PROVE AnswerInv'
  BY <1>3, PutAnswers
<1>4. ASSUME NEW m \in Names, NEW n \in Names, Forget(m, n) PROVE AnswerInv'
  BY <1>4, ForgetAnswers
<1>5. ASSUME NEW u \in Updaters,
             (\E n \in Names : UpdateFind(u, n)) \/ (\E q \in BOOLEAN : Swap(u, q))
               \/ ReadOld(u) \/ Free(u) \/ Flush(u)
      PROVE  AnswerInv'
  BY <1>5, UpdaterAnswers, SwapAnswers, FlushAnswers
<1>6. CASE (\E m \in Names : PreheatPick(m)) \/ PreheatWake \/ PreheatRead \/ PreheatSleep
            \/ ExitStop \/ ExitModels \/ UNCHANGED vars
  <2>1. UNCHANGED <<model, cache, req, raced, update>>
    BY <1>6 DEF PreheatPick, PreheatWake, PreheatRead, PreheatSleep, ExitStop, ExitModels, rest, vars
  <2>2. (models' = models /\ exit' = exit) \/ exit' # "no"
    BY <1>6 DEF PreheatPick, PreheatWake, PreheatRead, PreheatSleep, ExitStop, ExitModels, rest, vars
  <2>3. \A m : Updating(m) => Updating(m)'
    BY <2>1 DEF Updating
  <2> QED BY <2>1, <2>2, <2>3, OtherAnswers
<1> QED BY <1>1, <1>2, <1>3, <1>4, <1>5, <1>6 DEF Next, Tasks

(* Whatever is found in a model's cache was computed from the weights in force, *)
(* or the flush behind the last swap is still to come, or an inference that     *)
(* overlapped that update stored its answer behind the flush.                   *)
THEOREM CacheFollowsTheorem == Spec => []CacheFollowsModel
<1>1. IInv /\ AnswerInv => CacheFollowsModel
  BY DEF IInv, WeightsOK, AnswerInv, Follows, Excused, CacheFollowsModel
<1> QED BY <1>1, AnswerInit, AnswerStep, SpecTypeInv, PTL DEF Spec

(* What a caller is about to store was computed from the weights in force under *)
(* the same conditions: nothing else makes a stale answer.                      *)
THEOREM ComputedTheorem == Spec => []Computed
<1>1. AnswerInv => Computed
  BY DEF AnswerInv
<1> QED BY <1>1, AnswerInit, AnswerStep, SpecTypeInv, PTL DEF Spec
=============================================================================
