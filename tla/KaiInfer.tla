------------------------------ MODULE KaiInfer ------------------------------
(* The quantised inference engine of kai/core/kai_infer.c: a list of models     *)
(* under models_lock, a result cache per model, hot updates of the weights,     *)
(* batch work items and the preheat thread.  A request that found a model takes *)
(* no reference and no lock on it, so updates run between any two of its steps. *)
(* An answer is named by the weights it was computed from, 0 being the rule     *)
(* engine's, which reads none.  What a cache forgets is a CacheStore's affair:  *)
(* any entry, at any time; a model whose cache could not be created is one that *)
(* no answer is ever stored for.  The API backend always answers -EAGAIN.       *)
EXTENDS Naturals

CONSTANTS
  Threads,    \* tasks that call kai_infer()
  Updaters,   \* tasks that call kai_model_hot_update()
  Batches,    \* batches submitted, named by their first request
  Names,      \* model names a request may ask for
  Default,    \* KAI_DEFAULT_MODEL
  MaxArea,    \* weight areas allocated in a run
  None

ASSUME KaiInferAssumption ==
  /\ Default \in Names /\ None \notin Names
  /\ MaxArea \in Nat \ {0}

VARIABLES
  models,    \* the models on g_ctx->models
  model,     \* weights and quantisation, per model
  cache,     \* per model, the answer held under each requested name
  fresh,     \* the next weight area a caller will allocate
  freed,     \* the areas given to vfree()
  req,       \* per task, where it is in kai_infer() or batch_process_work()
  update,    \* per updater, where it is in kai_model_hot_update()
  preheat,   \* the preheat thread
  exit,      \* how far kai_infer_exit() has come
  raced      \* models last flushed while an older answer was being computed

vars == <<models, model, cache, fresh, freed, req, update, preheat,
          exit, raced>>

Tasks == Threads \cup Batches
Areas == 1..MaxArea
Answers == 0..MaxArea

Idle == [place |-> "idle", name |-> None, model |-> None, area |-> 0]
TypeOK ==
  /\ models \subseteq Names
  /\ model \in [Names -> [weights : Answers, int8 : BOOLEAN]]
  /\ cache \in [Names -> [Names -> Answers \cup {None}]]
  /\ fresh \in 1..MaxArea + 1
  /\ freed \subseteq Areas
  /\ \A b \in Batches : req[b].place \notin {"default", "lookup", "put"}
  /\ req \in [Tasks -> [place : {"idle", "find", "default", "lookup", "run",
                                 "read", "put", "called", "oops"},
                        name : Names \cup {None}, model : Names \cup {None},
                        area : Answers]]
  /\ update \in [Updaters -> [place : {"idle", "old", "swap", "free", "flush"},
                              model : Names \cup {None}, old : Answers]]
  /\ preheat \in [place : {"asleep", "pick", "read", "stopped", "oops"},
                  todo : SUBSET Names, area : Answers]
  /\ exit \in {"no", "stopped", "stuck", "done"}
  /\ raced \subseteq Names

Empty == [n \in Names |-> None]
Loaded(w, q) == [weights |-> w, int8 |-> q]

(* kai_infer_init(): the default model, unless its 4 KB cannot be allocated.    *)
Init ==
  /\ model = [n \in Names |-> Loaded(IF n = Default THEN 1 ELSE 0, FALSE)]
  /\ models \in {{Default}, {}}
  /\ cache = [n \in Names |-> Empty]
  /\ fresh = 2 /\ freed = {}
  /\ req = [t \in Tasks |-> Idle]
  /\ update = [u \in Updaters |-> [place |-> "idle", model |-> None, old |-> 0]]
  /\ preheat = [place |-> "asleep", todo |-> {}, area |-> 0]
  /\ exit = "no" /\ raced = {}

(* models_lock is held for reading by the preheat thread while it walks the     *)
(* list, even when it died there, and for writing by a stuck exit.              *)
WriteLockFree == preheat.place \notin {"pick", "read", "oops"} /\ exit # "stuck"
ReadLockFree == exit # "stuck"

Goto(t, p) == req' = [req EXCEPT ![t].place = p]
Ends(t, p) == req' = [req EXCEPT ![t] = [Idle EXCEPT !.place = p]]
unshared == <<models, model, freed, fresh, update, preheat, exit, raced>>

Load(n, q) ==
  /\ exit = "no" /\ n \notin models /\ fresh \in Areas /\ WriteLockFree
  /\ models' = models \cup {n}
  /\ model' = [model EXCEPT ![n] = Loaded(fresh, q)]
  /\ fresh' = fresh + 1
  /\ UNCHANGED <<cache, freed, req, update, preheat, exit, raced>>

---------------------------------------------------------------------------
(* kai_infer() *)

Call(t, n) ==
  /\ t \in Threads /\ req[t].place = "idle" /\ exit = "no"
  /\ req' = [req EXCEPT ![t] = [Idle EXCEPT !.place = "find", !.name = n]]
  /\ UNCHANGED <<cache, unshared>>

(* A batch item gives up when its model is missing, a caller tries the default. *)
Find(t) ==
  /\ req[t].place = "find" /\ ReadLockFree /\ exit # "done"
  /\ LET n == req[t].name IN
     IF n \in models
     THEN req' = [req EXCEPT ![t].model = n,
                             ![t].place = IF t \in Batches THEN "run" ELSE "lookup"]
     ELSE IF t \in Batches THEN Ends(t, "called") ELSE Goto(t, "default")
  /\ UNCHANGED <<cache, unshared>>

FindDefault(t) ==
  /\ req[t].place = "default" /\ ReadLockFree
  /\ req' = IF Default \in models
            THEN [req EXCEPT ![t].model = Default, ![t].place = "lookup"]
            ELSE [req EXCEPT ![t] = Idle]
  /\ UNCHANGED <<cache, unshared>>

Held(t) == cache[req[t].model][req[t].name]

(* kai_cache_has() and the kai_cache_get() after it, whichever decides.         *)
Lookup(t) ==
  /\ req[t].place = "lookup"
  /\ req' = IF Held(t) # None
            THEN [req EXCEPT ![t] = Idle]
            ELSE [req EXCEPT ![t].place = "run"]
  /\ UNCHANGED <<cache, unshared>>

(* infer_with_fallback(): an INT8 model with weights reads them, everything     *)
(* else ends in the rule engine.                                                *)
ReadsWeights(m) == model[m].int8 /\ model[m].weights # 0

(* Mutant for TypeOK: a batch item goes on to store its result.                 *)
AnsweredAlike(t) == "put"

Answered(t) == IF t \in Batches THEN "called" ELSE "put"

Answer(t) == IF Answered(t) = "called" THEN Ends(t, "called") ELSE Goto(t, "put")

Run(t) ==
  /\ req[t].place = "run"
  /\ LET m == req[t].model IN
     IF ReadsWeights(m)
     THEN req' = [req EXCEPT ![t].area = model[m].weights, ![t].place = "read"]
     ELSE Answer(t)
  /\ UNCHANGED <<cache, unshared>>

(* The pages of freed weights are unmapped: reading them kills the task.        *)
Read(t) ==
  /\ req[t].place = "read"
  /\ IF req[t].area \in freed THEN Ends(t, "oops") ELSE Answer(t)
  /\ UNCHANGED <<cache, unshared>>

Stored(t, c) == [c EXCEPT ![req[t].model][req[t].name] = req[t].area]

Put(t) ==
  /\ req[t].place = "put"
  /\ cache' \in {cache, Stored(t, cache)}    \* no cache, or no memory for the copy
  /\ req' = [req EXCEPT ![t] = Idle]
  /\ UNCHANGED unshared

(* An entry expires, is evicted or found expired.                               *)
Forget(m, n) ==
  /\ cache[m][n] # None
  /\ cache' = [cache EXCEPT ![m][n] = None]
  /\ UNCHANGED <<req, unshared>>

(* kai_infer_batch_submit(): every request gets an item on batch_queue, which   *)
(* nothing takes off again; only the work of the first is scheduled.            *)
Submit(b, n) ==
  /\ req[b].place = "idle" /\ exit = "no"
  /\ req' = [req EXCEPT ![b] = [Idle EXCEPT !.place = "find", !.name = n]]
  /\ UNCHANGED <<cache, unshared>>

---------------------------------------------------------------------------
(* kai_model_hot_update() *)

Step(u, p) == update' = [update EXCEPT ![u].place = p]

UpdateFind(u, n) ==
  /\ update[u].place = "idle" /\ exit = "no" /\ n \in models /\ fresh \in Areas
  /\ update' = [update EXCEPT ![u].place = "old", ![u].model = n]
  /\ UNCHANGED <<models, model, cache, fresh, freed, req, preheat, exit, raced>>

ReadOld(u) ==
  /\ update[u].place = "old"
  /\ update' = [update EXCEPT ![u].place = "swap",
                              ![u].old = model[update[u].model].weights]
  /\ UNCHANGED <<models, model, cache, fresh, freed, req, preheat, exit, raced>>

Swap(u, q) ==
  /\ update[u].place = "swap" /\ fresh \in Areas
  /\ model' = [model EXCEPT ![update[u].model].weights = fresh,
                            ![update[u].model].int8 = q]
  /\ fresh' = fresh + 1
  /\ Step(u, "free")
  /\ UNCHANGED <<models, cache, freed, req, preheat, exit, raced>>

(* Mutant for CurrentWeightsLive: the pointer is read again after the swap.     *)
FreeReread(u) ==
  /\ update[u].place = "free"
  /\ freed' = freed \cup ({model[update[u].model].weights} \ {0})
  /\ Step(u, "flush")
  /\ UNCHANGED <<models, model, cache, fresh, req, preheat, exit, raced>>

Free(u) ==
  /\ update[u].place = "free"
  /\ freed' = freed \cup ({update[u].old} \ {0})
  /\ Step(u, "flush")
  /\ UNCHANGED <<models, model, cache, fresh, req, preheat, exit, raced>>

(* What an inference of m would answer now.                                     *)
Current(m) == IF ReadsWeights(m) THEN model[m].weights ELSE 0

(* A caller that has its answer from m, or its weights, but has not stored it.  *)
Computing(m) == \E t \in Threads : req[t].model = m /\ req[t].place \in {"read", "put"}
                                   /\ req[t].area # Current(m)

(* Mutant for CacheFollowsModel: the cache is left as it was.                   *)
FlushedNot(m) == cache[m]

Flushed(m) == Empty

Flush(u) ==
  /\ update[u].place = "flush"
  /\ LET m == update[u].model IN
     /\ cache' = [cache EXCEPT ![m] = Flushed(m)]
     /\ raced' = IF Computing(m) THEN raced \cup {m} ELSE raced \ {m}
  /\ update' = [update EXCEPT ![u] = [place |-> "idle", model |-> None, old |-> 0]]
  /\ UNCHANGED <<models, model, fresh, freed, req, preheat, exit>>

---------------------------------------------------------------------------
(* kai_preheat_thread() and module exit *)

rest == <<models, model, cache, fresh, freed, req, update, raced>>

PreheatWake ==
  /\ preheat.place = "asleep" /\ exit = "no"
  /\ preheat' = [preheat EXCEPT !.place = "pick", !.todo = models]
  /\ UNCHANGED <<rest, exit>>

PreheatPick(m) ==
  /\ preheat.place = "pick" /\ m \in preheat.todo
  /\ preheat' = [place |-> IF ReadsWeights(m) THEN "read" ELSE "pick",
                 todo |-> preheat.todo \ {m}, area |-> Current(m)]
  /\ UNCHANGED <<rest, exit>>

PreheatRead ==
  /\ preheat.place = "read"
  /\ preheat' = [preheat EXCEPT !.place = IF preheat.area \in freed THEN "oops" ELSE "pick",
                                !.area = 0]
  /\ UNCHANGED <<rest, exit>>

PreheatSleep ==
  /\ preheat.place = "pick" /\ preheat.todo = {}
  /\ preheat' = [preheat EXCEPT !.place = "asleep"]
  /\ UNCHANGED <<rest, exit>>

(* The module's users are gone; kthread_stop() waits for the preheat thread.    *)
ExitStop ==
  /\ exit = "no" /\ preheat.place \in {"asleep", "oops"}
  /\ \A t \in Threads : req[t].place \in {"idle", "oops"}
  /\ \A u \in Updaters : update[u].place = "idle"
  /\ exit' = "stopped"
  /\ preheat' = [preheat EXCEPT !.place = IF @ = "oops" THEN @ ELSE "stopped"]
  /\ UNCHANGED rest

(* The first model is unlinked with the lock held for writing, and its unload   *)
(* takes the same lock; an empty list lets the exit through.                    *)
ExitModels ==
  /\ exit = "stopped" /\ WriteLockFree
  /\ \/ models = {} /\ exit' = "done" /\ UNCHANGED models
     \/ \E m \in models : models' = models \ {m} /\ exit' = "stuck"
  /\ UNCHANGED <<model, cache, fresh, freed, req, update, raced, preheat>>

(* Work still scheduled when the module is gone runs unmapped code.             *)
LateWork(b) ==
  /\ exit = "done" /\ b \in Batches /\ req[b].place = "find"
  /\ Ends(b, "oops")
  /\ UNCHANGED <<cache, unshared>>

Next ==
  \/ \E n \in Names, q \in BOOLEAN : Load(n, q)
  \/ \E t \in Threads, n \in Names : Call(t, n)
  \/ \E t \in Tasks : Find(t) \/ Run(t) \/ Read(t)
  \/ \E t \in Threads : FindDefault(t) \/ Lookup(t) \/ Put(t)
  \/ \E m, n \in Names : Forget(m, n)
  \/ \E b \in Batches, n \in Names : Submit(b, n)
  \/ \E u \in Updaters, n \in Names : UpdateFind(u, n)
  \/ \E u \in Updaters, q \in BOOLEAN : Swap(u, q)
  \/ \E u \in Updaters : ReadOld(u) \/ Free(u) \/ Flush(u)
  \/ \E m \in Names : PreheatPick(m)
  \/ PreheatWake \/ PreheatRead \/ PreheatSleep
  \/ ExitStop \/ ExitModels
  \/ \E b \in Batches : LateWork(b)

Spec == Init /\ [][Next]_vars

---------------------------------------------------------------------------
(* Properties *)

(* However updates of one model overlap - each remembers the weights it will    *)
(* free before it takes the lock, and two may remember the same - the weights a *)
(* loaded model points to are never the ones given to vfree().                  *)
CurrentWeightsLive == \A m \in models : model[m].weights \notin freed

(* A hot update flushes the model's cache once its weights are swapped, so an   *)
(* answer of earlier weights is found in a cache only between the swap and the  *)
(* flush, or after an inference stored its result behind the flush of an update *)
(* it overlapped.                                                               *)
Updating(m) == \E u \in Updaters : update[u].model = m /\ update[u].place \in {"free", "flush"}
CacheFollowsModel ==
  \A m \in models, n \in Names :
    cache[m][n] \notin {None, Current(m)} => Updating(m) \/ m \in raced
=============================================================================
