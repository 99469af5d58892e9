------------------------ MODULE Layer2GatewayProofs ------------------------
(* For any number of requests, sleeps, timeouts and slots: the gateway's        *)
(* variables keep their types, its queue stays one chain of the requests not    *)
(* yet taken, the worker does not sleep while there are any, a stop is followed *)
(* by one more request at most, and no decision comes from the cache that the   *)
(* backend has since replaced.                                                  *)
EXTENDS Layer2Gateway, TLAPS

(* What makes QueueIntact inductive is that requests not sent yet are linked    *)
(* nowhere; what makes StopIsPrompt inductive is where the worker has to be to  *)
(* take one more; what makes AwakeForWork inductive is that it holds on the way *)
(* to the sleep already; what makes CacheCurrent inductive is that the only thread     *)
(* that writes the cache asks the backend for what the cache does not have.     *)
Unlinked == \A r \in Reqs : r > sent => next[r] = 0

OnTheWay ==
  late # 0 => ~running /\ worker \notin {"locking", "towait", "waiting"}

SleepInv == worker \in {"towait", "waiting"} => head = 0

QueueInv == TypeOK /\ taken <= sent /\ QueueIntact /\ Unlinked /\ late <= taken
StopInv  == StopIsPrompt /\ OnTheWay
CacheInv == CacheCurrent /\ (worker = "calling" => ~CacheHas(FeatureOf(mine)))
IInv == QueueInv /\ SleepInv /\ StopInv /\ CacheInv

LEMMA InitIInv == Init => IInv
<1> SUFFICES ASSUME Init PROVE IInv
  OBVIOUS
<1> USE GatewayAssumption DEF Init, Reqs, Links
<1>1. TypeOK
  BY DEF TypeOK, WorkerPlaces, Entries, FreeSlot, Features
<1>2. taken <= sent /\ QueueIntact /\ Unlinked /\ late <= taken
  BY DEF QueueIntact, Unlinked
<1>3. StopInv /\ SleepInv
  BY DEF StopInv, StopIsPrompt, OnTheWay, SleepInv
<1>4. CacheInv
  BY DEF CacheInv, CacheCurrent, FreeSlot
<1> QED BY <1>1, <1>2, <1>3, <1>4 DEF IInv, QueueInv

-----------------------------------------------------------------------------
(* The variables of the queue, and the steps that leave it alone.               *)
QueueQuiet == UNCHANGED <<queue, sent, ghosts>>

LEMMA QuietQueue ==
  ASSUME taken <= sent, QueueIntact, Unlinked, late <= taken, QueueQuiet
  PROVE  taken' <= sent' /\ QueueIntact' /\ Unlinked' /\ late' <= taken'
BY DEF QueueQuiet, queue, ghosts, QueueIntact, Unlinked

LEMMA QueueEnds ==
  ASSUME QueueInv
  PROVE  /\ taken \in Nat /\ sent \in Nat /\ tail <= sent /\ count = sent - taken
         /\ taken < sent =>
              /\ head = taken + 1 /\ tail = sent
              /\ \A r \in (taken + 1)..sent : next[r] = IF r = sent THEN 0 ELSE r + 1
<1>1. taken \in Nat /\ sent \in Nat
  BY GatewayAssumption DEF QueueInv, TypeOK, Links
<1>2. CASE (taken + 1)..sent = {}
  BY <1>1, <1>2, sent \notin (taken + 1)..sent DEF QueueInv, QueueIntact
<1>3. CASE (taken + 1)..sent # {}
  BY <1>1, <1>3 DEF QueueInv, QueueIntact
<1> QED BY <1>2, <1>3

LEMMA EnqueueQueue ==
  ASSUME QueueInv, Enqueue
  PROVE  taken' <= sent' /\ QueueIntact' /\ Unlinked' /\ late' <= taken'
<1> USE DEF QueueInv, TypeOK, Reqs, Links, Enqueue, ghosts
<1>1. taken' <= sent' /\ late' <= taken' /\ sent' = sent + 1 /\ sent' \in Reqs
  BY GatewayAssumption
<1>t. tail <= sent
  BY QueueEnds
<1>2. Unlinked'
  BY <1>t, <1>1, GatewayAssumption DEF Unlinked
<1>3. QueueIntact'
  <2>1. CASE taken = sent
    BY <1>1, <2>1, GatewayAssumption DEF QueueIntact, Unlinked
  <2>2. CASE taken < sent
    <3>1. /\ head = taken + 1 /\ tail = sent /\ count = sent - taken
          /\ \A r \in (taken + 1)..sent : next[r] = IF r = sent THEN 0 ELSE r + 1
      BY <2>2, QueueEnds
    <3>2. tail # 0 /\ tail \in Reqs
      BY <2>2, <3>1, GatewayAssumption
    <3>3. head' = taken' + 1 /\ tail' = sent' /\ count' = sent' - taken'
      BY <1>1, <3>1, <3>2, GatewayAssumption
    <3>4. ASSUME NEW r \in (taken' + 1)..sent'
          PROVE  next'[r] = IF r = sent' THEN 0 ELSE r + 1
      <4>1. r \in Reqs /\ next' = [next EXCEPT ![sent] = sent + 1]
        BY <1>1, <3>1, <3>2, GatewayAssumption
      <4>2. CASE r = sent'
        BY <4>1, <4>2, <1>1 DEF Unlinked
      <4>3. CASE r # sent'
        BY <4>1, <4>3, <3>1, <1>1
      <4> QED BY <4>2, <4>3
    <3>5. (taken' + 1)..sent' # {}
      BY <1>1, <2>2, sent' \in (taken' + 1)..sent'
    <3> QED BY <3>3, <3>4, <3>5 DEF QueueIntact
  <2> QED BY <2>1, <2>2
<1> QED BY <1>1, <1>2, <1>3

LEMMA DequeueQueue ==
  ASSUME QueueInv, Dequeue
  PROVE  /\ taken' <= sent' /\ QueueIntact' /\ Unlinked' /\ late' <= taken'
         /\ taken' \in Links /\ head \in Reqs
<1> USE DEF QueueInv, TypeOK, Reqs, Links, Dequeue, ResetTail
<1>1. taken < sent /\ sent \in Reqs
  BY GatewayAssumption DEF QueueIntact
<1>2. /\ head = taken + 1 /\ tail = sent /\ count = sent - taken
      /\ \A r \in (taken + 1)..sent : next[r] = IF r = sent THEN 0 ELSE r + 1
  BY <1>1, QueueEnds
<1>3. next[head] = IF taken + 1 = sent THEN 0 ELSE taken + 2
  BY <1>1, <1>2, taken + 1 \in (taken + 1)..sent
<1>4. taken' = taken + 1 /\ sent' = sent /\ next' = next /\ count' = sent' - taken'
  BY <1>2
<1>5. QueueIntact'
  <2>1. CASE taken + 1 = sent
    BY <2>1, <1>2, <1>3, <1>4 DEF QueueIntact
  <2>2. CASE taken + 1 < sent
    <3>1. head' = taken' + 1 /\ tail' = sent'
      BY <2>2, <1>1, <1>2, <1>3, <1>4
    <3>2. \A r \in (taken' + 1)..sent' : next'[r] = IF r = sent' THEN 0 ELSE r + 1
      BY <1>2, <1>4
    <3>3. (taken' + 1)..sent' # {}
      BY <2>2, <1>4, sent' \in (taken' + 1)..sent'
    <3> QED BY <1>4, <3>1, <3>2, <3>3 DEF QueueIntact
  <2> QED BY <2>1, <2>2, <1>1
<1>6. Unlinked' /\ late' <= taken' /\ taken' <= sent' /\ taken' \in Links
  BY <1>1, <1>4, GatewayAssumption DEF Unlinked
<1> QED BY <1>1, <1>2, <1>5, <1>6, GatewayAssumption

-----------------------------------------------------------------------------
(* Types.                                                                       *)
LEMMA TickTypes ==
  ASSUME TypeOK, Tick
  PROVE  TypeOK'
<1>1. cache' \in [0..(Slots - 1) -> Entries]
  <2>1. ASSUME NEW a \in 0..Ttl
        PROVE  (IF a < Ttl THEN a + 1 ELSE a) \in 0..Ttl
    BY GatewayAssumption
  <2>2. ASSUME NEW e \in Entries
        PROVE  [e EXCEPT !.age = IF @ < Ttl THEN @ + 1 ELSE @] \in Entries
    BY <2>1 DEF Entries
  <2>3. cache \in [0..(Slots - 1) -> Entries]
    BY DEF TypeOK
  <2> QED BY <2>2, <2>3 DEF Tick
<1>2. rest' \in 0..(Gap + Grace)
  <2>1. rest \in 0..(Gap + Grace) /\ rest' = IF rest > 0 THEN rest - 1 ELSE 0
    BY DEF TypeOK, Tick
  <2> QED BY <2>1, GatewayAssumption
<1>3. busy' \in 0..MaxCall
  <2>1. CASE worker = "calling"
    <3>1. busy < MaxCall /\ busy' = busy + 1
      BY <2>1 DEF Tick
    <3>2. busy \in 0..MaxCall
      BY DEF TypeOK
    <3> QED BY <3>1, <3>2, GatewayAssumption
  <2>2. CASE worker # "calling"
    BY <2>2, GatewayAssumption DEF Tick
  <2> QED BY <2>1, <2>2
<1> QED BY <1>1, <1>2, <1>3 DEF Tick, TypeOK, queue, ghosts

LEMMA AnswerTypes ==
  ASSUME TypeOK, BackendAnswers
  PROVE  TypeOK'
<1> DEFINE f == FeatureOf(mine)
           entry == [feature |-> f, age |-> 0, answer |-> mine]
<1>1. f \in Features /\ mine \in Links
  BY DEF FeatureOf, Features, TypeOK, Links
<1>2. entry \in Entries
  BY <1>1, GatewayAssumption DEF Entries, Links
<1>3. cache' = [cache EXCEPT ![slot] = entry] /\ latest' = [latest EXCEPT ![f] = mine]
  BY DEF BackendAnswers
<1>4. cache' \in [0..(Slots - 1) -> Entries]
  BY <1>2, <1>3 DEF TypeOK
<1>5. latest' \in [Features -> Links]
  BY <1>1, <1>3 DEF TypeOK
<1>6. slot' \in 0..(Slots - 1)
  BY GatewayAssumption DEF BackendAnswers, NextSlot, TypeOK
<1>7. worker' \in WorkerPlaces /\ mine' \in Links /\ busy' \in 0..MaxCall
  BY GatewayAssumption DEF BackendAnswers, Finish, WorkerPlaces, Links
<1> QED BY <1>4, <1>5, <1>6, <1>7 DEF BackendAnswers, TypeOK, queue, ghosts

LEMMA StepTypes ==
  ASSUME IInv, [Next]_vars
  PROVE  TypeOK'
<1> USE GatewayAssumption DEF IInv, QueueInv, TypeOK, Reqs, Links, WorkerPlaces
<1>0. CASE UNCHANGED vars
  BY <1>0 DEF vars, queue, threads, cached, ghosts
<1>1. CASE Enqueue
  <2>1. sent + 1 \in Reqs /\ count + 1 \in Links
    BY <1>1 DEF Enqueue, QueueIntact
  <2>2. next' \in [Reqs -> Links] /\ head' \in Links /\ rest' \in 0..(Gap + Grace)
    BY <1>1, <2>1 DEF Enqueue
  <2> QED BY <1>1, <2>1, <2>2 DEF Enqueue, Wake, cached, ghosts
<1>2. CASE Stop \/ Broadcast \/ Join
  BY <1>2 DEF Stop, Broadcast, Join, Wake, queue, cached, ghosts
<1>3. CASE Signal
  <2>1. rest' \in 0..(Gap + Grace)
    BY <1>3 DEF Signal, SignalMain, SignalWorker
  <2> QED BY <1>3, <2>1 DEF Signal, SignalMain, SignalWorker, queue, cached, ghosts
<1>4. CASE HandlerBroadcast
  BY <1>4 DEF HandlerBroadcast, Wake, queue, cached, ghosts
<1>5. CASE Dequeue
  <2>1. taken' \in Links /\ head \in Reqs /\ late' <= taken'
    BY <1>5, DequeueQueue
  <2>2. late' \in Links /\ count' \in Links
    BY <1>5, <2>1 DEF Dequeue, QueueIntact
  <2>3. head' \in Links /\ tail' \in Links /\ mine' \in Links
    BY <1>5, <2>1 DEF Dequeue, ResetTail
  <2> QED BY <1>5, <2>1, <2>2, <2>3 DEF Dequeue, cached
<1>6. CASE Loop \/ FindEmpty \/ Sleep \/ WakeSpuriously
  BY <1>6 DEF Loop, LoopTest, FindEmpty, Sleep, WakeSpuriously, queue, cached, ghosts
<1>7. CASE CacheHit \/ BackendFails
  <2>1. mine' = 0 /\ busy' = 0 /\ worker' = "loop"
    BY <1>7 DEF CacheHit, BackendFails, Finish
  <2>2. UNCHANGED <<queue, running, main, sent, rest, handler, cached, ghosts>>
    BY <1>7 DEF CacheHit, BackendFails
  <2> QED BY <2>1, <2>2 DEF queue, cached, ghosts
<1>c. CASE CallBackend
  BY <1>c DEF CallBackend, queue, cached, ghosts
<1>8. CASE BackendAnswers
  BY <1>8, AnswerTypes
<1>9. CASE Tick
  BY <1>9, TickTypes
<1> QED
  BY <1>0, <1>1, <1>2, <1>3, <1>4, <1>5, <1>6, <1>7, <1>8, <1>9, <1>c
  DEF Next, Main, Worker, Spurious

(* The queue: one action adds to it, one takes from it.                         *)
LEMMA StepQueue ==
  ASSUME IInv, [Next]_vars
  PROVE  taken' <= sent' /\ QueueIntact' /\ Unlinked' /\ late' <= taken'
<1> USE DEF IInv, QueueInv
<1>1. CASE Enqueue
  BY <1>1, EnqueueQueue
<1>2. CASE Dequeue
  BY <1>2, DequeueQueue
<1>3. CASE QueueQuiet
  BY <1>3, QuietQueue
<1>4. Stop \/ Broadcast \/ Join => QueueQuiet
  BY DEF Stop, Broadcast, Join, QueueQuiet
<1>5. Signal \/ HandlerBroadcast => QueueQuiet
  BY DEF Signal, SignalMain, SignalWorker, HandlerBroadcast, QueueQuiet
<1>6. Loop \/ FindEmpty \/ Sleep \/ WakeSpuriously => QueueQuiet
  BY DEF Loop, FindEmpty, Sleep, WakeSpuriously, QueueQuiet
<1>7. CacheHit \/ CallBackend \/ BackendAnswers \/ BackendFails => QueueQuiet
  BY DEF CacheHit, CallBackend, BackendAnswers, BackendFails, QueueQuiet
<1>8. Tick \/ UNCHANGED vars => QueueQuiet
  BY DEF Tick, vars, threads, QueueQuiet
<1> QED
  BY <1>1, <1>2, <1>3, <1>4, <1>5, <1>6, <1>7, <1>8 DEF Next, Main, Worker, Spurious

(* The stop: only a worker that has passed the test of its loop takes one more. *)
LEMMA StepStop ==
  ASSUME IInv, [Next]_vars
  PROVE  StopInv'
<1> USE DEF IInv, QueueInv, StopInv, StopIsPrompt, OnTheWay, TypeOK, Links
<1>0. CASE UNCHANGED vars
  BY <1>0 DEF vars, threads, ghosts
<1>1. CASE Enqueue \/ Stop \/ Broadcast \/ Join
  BY <1>1 DEF Enqueue, Stop, Broadcast, Join, Wake, ghosts
<1>2. CASE Signal \/ HandlerBroadcast
  BY <1>2 DEF Signal, SignalMain, SignalWorker, HandlerBroadcast, Wake, ghosts
<1>3. CASE Dequeue
  BY <1>3 DEF Dequeue
<1>4. CASE Loop \/ FindEmpty \/ Sleep \/ WakeSpuriously
  BY <1>4 DEF Loop, LoopTest, FindEmpty, Sleep, WakeSpuriously, ghosts
<1>5. CASE CacheHit \/ CallBackend \/ BackendAnswers \/ BackendFails
  BY <1>5 DEF CacheHit, CallBackend, BackendAnswers, BackendFails, Finish, ghosts
<1>6. CASE Tick
  BY <1>6 DEF Tick, ghosts
<1> QED
  BY <1>0, <1>1, <1>2, <1>3, <1>4, <1>5, <1>6 DEF Next, Main, Worker, Spurious

(* The sleep: nobody queues a request while the worker is on its way to it, and *)
(* whoever queues one later wakes it.                                           *)
LEMMA StepSleep ==
  ASSUME IInv, [Next]_vars
  PROVE  SleepInv'
<1> USE DEF IInv, SleepInv
<1>0. CASE UNCHANGED vars
  BY <1>0 DEF vars, queue, threads
<1>1. CASE Enqueue
  BY <1>1 DEF Enqueue, LockFree, Wake
<1>2. CASE Stop \/ Broadcast \/ Join
  BY <1>2 DEF Stop, Broadcast, Join, Wake, queue
<1>3. CASE Signal \/ HandlerBroadcast
  BY <1>3 DEF Signal, SignalMain, SignalWorker, HandlerBroadcast, Wake, queue
<1>4. CASE Loop \/ FindEmpty \/ Sleep \/ WakeSpuriously
  BY <1>4 DEF Loop, LoopTest, FindEmpty, Sleep, WakeSpuriously, queue
<1>5. CASE Dequeue \/ CacheHit \/ CallBackend \/ BackendAnswers \/ BackendFails
  BY <1>5 DEF Dequeue, CacheHit, CallBackend, BackendAnswers, BackendFails, Finish
<1>6. CASE Tick
  BY <1>6 DEF Tick, queue
<1> QED
  BY <1>0, <1>1, <1>2, <1>3, <1>4, <1>5, <1>6 DEF Next, Main, Worker, Spurious

(* The cache: one action fills a slot, with what no fresh slot has.             *)
CacheQuiet == UNCHANGED cached /\ (worker' = "calling" => worker = "calling" /\ mine' = mine)

LEMMA QuietCache ==
  ASSUME CacheInv, CacheQuiet
  PROVE  CacheInv'
BY DEF CacheInv, CacheQuiet, cached, CacheCurrent, CacheHas, Fresh, FeatureOf

LEMMA AnswerCache ==
  ASSUME TypeOK, CacheInv, BackendAnswers
  PROVE  CacheInv'
<1> DEFINE f == FeatureOf(mine)
           entry == [feature |-> f, age |-> 0, answer |-> mine]
<1>1. worker' = "loop"
  BY DEF BackendAnswers, Finish
<1>2. ~CacheHas(f) /\ f \in Features
  BY DEF BackendAnswers, CacheInv, FeatureOf, Features, TypeOK, Links
<1>3. cache' = [cache EXCEPT ![slot] = entry] /\ latest' = [latest EXCEPT ![f] = mine]
  BY DEF BackendAnswers
<1>4. cache \in [0..(Slots - 1) -> Entries] /\ latest \in [Features -> Links]
  BY DEF TypeOK
<1>5. ASSUME NEW i \in DOMAIN cache', cache'[i].age < Ttl
      PROVE  cache'[i].answer = latest'[cache'[i].feature]
  <2>1. i \in DOMAIN cache
    BY <1>3, <1>4
  <2>2. CASE i = slot
    <3>1. cache'[i] = entry
      BY <1>3, <2>1, <2>2
    <3>2. latest'[f] = mine
      BY <1>2, <1>3, <1>4
    <3> QED BY <3>1, <3>2
  <2>3. CASE i # slot
    <3>1. cache'[i] = cache[i]
      BY <1>3, <1>4, <2>1, <2>3
    <3>2. cache[i].feature # f
      BY <1>2, <1>5, <2>1, <3>1 DEF CacheHas, Fresh
    <3>3. cache[i].answer = latest[cache[i].feature]
      BY <1>5, <2>1, <3>1 DEF CacheInv, CacheCurrent
    <3>4. latest'[cache[i].feature] = latest[cache[i].feature]
      BY <1>3, <1>4, <2>1, <3>2 DEF Entries
    <3> QED BY <3>1, <3>3, <3>4
  <2> QED BY <2>2, <2>3
<1> QED BY <1>1, <1>5 DEF CacheInv, CacheCurrent

LEMMA TickCache ==
  ASSUME TypeOK, CacheInv, Tick
  PROVE  CacheInv'
<1>1. ASSUME NEW i \in DOMAIN cache'
      PROVE  /\ i \in DOMAIN cache
             /\ cache'[i].feature = cache[i].feature
             /\ cache'[i].answer = cache[i].answer
             /\ cache'[i].age < Ttl => cache[i].age < Ttl
  <2>1. cache[i] \in Entries /\ i \in DOMAIN cache
    BY <1>1 DEF Tick, TypeOK
  <2>2. cache'[i] = [cache[i] EXCEPT !.age = IF @ < Ttl THEN @ + 1 ELSE @]
    BY <1>1, <2>1 DEF Tick
  <2> QED BY <2>1, <2>2, GatewayAssumption DEF Entries
<1>2. UNCHANGED <<latest, worker, mine>>
  BY DEF Tick
<1> QED BY <1>1, <1>2 DEF CacheInv, CacheCurrent, CacheHas, Fresh, FeatureOf

LEMMA StepCache ==
  ASSUME IInv, [Next]_vars
  PROVE  CacheInv'
<1> USE DEF IInv, QueueInv
<1>1. CASE CallBackend
  BY <1>1 DEF CallBackend, CacheInv, CacheCurrent, CacheHas, Fresh, FeatureOf, cached
<1>2. CASE BackendAnswers
  BY <1>2, AnswerCache
<1>3. CASE Tick
  BY <1>3, TickCache
<1>4. CASE CacheQuiet
  BY <1>4, QuietCache
<1>5. Enqueue \/ Stop \/ Broadcast \/ Join => CacheQuiet
  BY DEF Enqueue, Stop, Broadcast, Join, Wake, CacheQuiet
<1>6. Signal \/ HandlerBroadcast => CacheQuiet
  BY DEF Signal, SignalMain, SignalWorker, HandlerBroadcast, Wake, CacheQuiet
<1>7. Loop \/ FindEmpty \/ Sleep \/ WakeSpuriously => CacheQuiet
  BY DEF Loop, LoopTest, FindEmpty, Sleep, WakeSpuriously, CacheQuiet
<1>8. Dequeue \/ CacheHit \/ BackendFails \/ UNCHANGED vars => CacheQuiet
  BY DEF Dequeue, CacheHit, BackendFails, Finish, vars, threads, CacheQuiet
<1> QED
  BY <1>1, <1>2, <1>3, <1>4, <1>5, <1>6, <1>7, <1>8 DEF Next, Main, Worker, Spurious

LEMMA StepIInv == IInv /\ [Next]_vars => IInv'
BY StepTypes, StepQueue, StepSleep, StepStop, StepCache DEF IInv, QueueInv

LEMMA SpecIInv == Spec => []IInv
BY InitIInv, StepIInv, PTL DEF Spec

(* Every variable of the gateway keeps its type, whatever the number of         *)
(* requests, the length of the sleeps and of a call, and the size of the cache. *)
THEOREM TypesKept == Spec => []TypeOK
BY SpecIInv, PTL DEF IInv, QueueInv

(* req_enqueue() and req_dequeue() keep one chain of the requests sent and not  *)
(* taken, in order: none is lost, taken twice or linked to a freed one.         *)
THEOREM QueueKept == Spec => []QueueIntact
BY SpecIInv, PTL DEF IInv, QueueInv

(* queue_lock and one signal for each request are enough: infer_worker() is     *)
(* never asleep while req_head points to a request.                             *)
THEOREM WorkerAwake == Spec => []AwakeForWork
<1>1. IInv => AwakeForWork
  BY DEF IInv, SleepInv, AwakeForWork
<1> QED BY <1>1, SpecIInv, PTL

(* However long the queue is when the stop is asked for, infer_worker() takes   *)
(* one more request at most.                                                    *)
THEOREM StopKept == Spec => []StopIsPrompt
BY SpecIInv, PTL DEF IInv, StopInv

(* With a single worker, do_inference() never fills the cache with an answer    *)
(* while an older one for the same features is still given out.                 *)
THEOREM CacheKept == Spec => []CacheCurrent
BY SpecIInv, PTL DEF IInv, CacheInv

=============================================================================
