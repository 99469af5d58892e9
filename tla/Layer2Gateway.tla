--------------------------- MODULE Layer2Gateway ---------------------------
(* The user-space gateway of Layer 2 (layer2/src/ai_layer2_gateway.c) as it     *)
(* runs today, in demo mode: the main thread queues requests and then stops,    *)
(* one worker thread takes them, answers from the decision cache or asks the    *)
(* backend, and a signal may ask for the stop earlier.  The queue is a linked   *)
(* list under queue_lock; `running` is read and written without it.             *)
(* Time passes in seconds, the unit of the code's sleeps and of its timeouts;   *)
(* whatever does not wait takes none.  What a decision says, the override       *)
(* threshold and the statistics are left out: nl_client is never valid, so no   *)
(* decision leaves the process.                                                 *)
EXTENDS Integers

CONSTANTS
  Requests,   \* how many requests the demo sends
  Gap,        \* sleep(1) after each of them
  Grace,      \* sleep(5) before the stop
  MaxCall,    \* the seconds a backend call may take before it times out
  Ttl,        \* the seconds a cached decision is good for
  Slots       \* CACHE_SIZE

ASSUME GatewayAssumption ==
  /\ Requests \in Nat /\ Gap \in Nat \ {0} /\ Grace \in Nat \ {0}
  /\ MaxCall \in Nat /\ Ttl \in Nat \ {0} /\ Slots \in Nat \ {0}

(* Requests are numbered in the order they are sent; 0 stands for NULL.         *)
Reqs == 1..Requests
Links == 0..Requests

(* The demo alternates two sets of features, one for each of two domains.       *)
FeatureOf(r) == r % 2
Features == {0, 1}

VARIABLES
  head, tail, count,  \* req_head, req_tail, req_count
  next,               \* the next field of each request
  running,
  worker,             \* where infer_worker() is
  mine,               \* the request it has taken
  busy,               \* the seconds its backend call has taken
  main,               \* where the main thread is
  sent,               \* requests queued so far
  rest,               \* the seconds left of the main thread's sleep
  handler,            \* the thread signal_handler() runs on, "none" or "done"
  cache,              \* per slot: features, age and the answer's number
  slot,               \* cache_idx
  taken,              \* requests taken off the queue so far
  late,               \* those of them taken after the stop was asked for
  latest              \* the number of the backend's last answer for the features

queue   == <<head, tail, count, next>>
threads == <<worker, mine, busy, main, sent, rest, handler>>
cached  == <<cache, slot, latest>>
ghosts  == <<taken, late>>
vars == <<queue, running, threads, cached, ghosts>>

WorkerPlaces ==
  {"loop", "locking", "towait", "waiting", "lookup", "calling", "done"}

Entries == [feature : Features, age : 0..Ttl, answer : 0..Requests]

(* A slot not in use yet: an age of Ttl is never taken for a decision.          *)
FreeSlot == [feature |-> 0, age |-> Ttl, answer |-> 0]

TypeOK ==
  /\ head \in Links /\ tail \in Links /\ count \in Links
  /\ next \in [Reqs -> Links]
  /\ running \in BOOLEAN
  /\ worker \in WorkerPlaces /\ mine \in Links /\ busy \in 0..MaxCall
  /\ main \in {"demo", "stopping", "joining", "exited"}
  /\ sent \in Links /\ rest \in 0..(Gap + Grace)
  /\ handler \in {"none", "main", "worker", "done"}
  /\ cache \in [0..(Slots - 1) -> Entries] /\ slot \in 0..(Slots - 1)
  /\ taken \in Links /\ late \in Links
  /\ latest \in [Features -> Links]

Init ==
  /\ head = 0 /\ tail = 0 /\ count = 0
  /\ next = [r \in Reqs |-> 0]
  /\ running = TRUE
  /\ worker = "loop" /\ mine = 0 /\ busy = 0
  /\ main = "demo" /\ sent = 0 /\ rest = 0
  /\ handler = "none"
  /\ cache = [i \in 0..(Slots - 1) |-> FreeSlot] /\ slot = 0
  /\ taken = 0 /\ late = 0
  /\ latest = [f \in Features |-> 0]

-----------------------------------------------------------------------------
\* Mutant: a request is queued without the mutex.
Unlocked == TRUE

(* queue_lock is held across a step by the worker alone, between its test of    *)
(* the queue and the moment pthread_cond_wait() puts it to sleep.               *)
LockFree == worker # "towait"

(* pthread_cond_signal() and pthread_cond_broadcast(): one worker may wait.     *)
Wake == worker' = IF worker = "waiting" THEN "locking" ELSE worker

-----------------------------------------------------------------------------
(* The main thread: run_demo_mode().                                            *)

(* req_enqueue() and the sleep that follows; after the last request the sleep   *)
(* before the stop is added.                                                    *)
Enqueue ==
  LET r == sent + 1 IN
  /\ main = "demo" /\ sent < Requests /\ rest = 0 /\ handler # "main"
  /\ LockFree
  /\ next' = IF tail # 0 THEN [next EXCEPT ![tail] = r] ELSE next
  /\ head' = IF tail # 0 THEN head ELSE r
  /\ tail' = r /\ count' = count + 1
  /\ Wake
  /\ sent' = r /\ rest' = IF r = Requests THEN Gap + Grace ELSE Gap
  /\ UNCHANGED <<running, mine, busy, main, handler, cached, ghosts>>

Stop ==
  /\ main = "demo" /\ sent = Requests /\ rest = 0 /\ handler # "main"
  /\ running' = FALSE /\ main' = "stopping"
  /\ UNCHANGED <<queue, worker, mine, busy, sent, rest, handler, cached, ghosts>>

(* The broadcast is made without queue_lock.                                    *)
Broadcast ==
  /\ main = "stopping" /\ handler # "main"
  /\ Wake /\ main' = "joining"
  /\ UNCHANGED <<queue, running, mine, busy, sent, rest, handler, cached, ghosts>>

Join ==
  /\ main = "joining" /\ worker = "done" /\ handler # "main"
  /\ main' = "exited"
  /\ UNCHANGED <<queue, running, worker, mine, busy, sent, rest, handler,
                 cached, ghosts>>

Main == Enqueue \/ Stop \/ Broadcast \/ Join

-----------------------------------------------------------------------------
(* signal_handler(), on the thread the kernel picks.  On the main thread it     *)
(* cuts the sleep it interrupts short, of the two after the last request only   *)
(* the one under way.                                                           *)
SignalMain ==
  /\ handler = "none" /\ main # "exited"
  /\ running' = FALSE /\ handler' = "main"
  /\ rest' = IF sent = Requests /\ rest > Grace THEN Grace ELSE 0
  /\ UNCHANGED <<queue, worker, mine, busy, main, sent, cached, ghosts>>

SignalWorker ==
  /\ handler = "none" /\ worker # "done"
  /\ running' = FALSE /\ handler' = "worker"
  /\ UNCHANGED <<queue, worker, mine, busy, main, sent, rest, cached, ghosts>>

HandlerBroadcast ==
  /\ handler \in {"main", "worker"}
  /\ Wake /\ handler' = "done"
  /\ UNCHANGED <<queue, running, mine, busy, main, sent, rest, cached, ghosts>>

Signal == SignalMain \/ SignalWorker

-----------------------------------------------------------------------------
(* The worker thread: infer_worker(), req_dequeue() and do_inference().         *)

LoopTest == worker' = IF running THEN "locking" ELSE "done"

Loop ==
  /\ worker = "loop" /\ LoopTest
  /\ UNCHANGED <<queue, running, mine, busy, main, sent, rest, handler,
                 cached, ghosts>>

(* Nothing queued: leave if the gateway stops, go to sleep if not.              *)
FindEmpty ==
  /\ worker = "locking" /\ head = 0
  /\ worker' = IF running THEN "towait" ELSE "done"
  /\ UNCHANGED <<queue, running, mine, busy, main, sent, rest, handler,
                 cached, ghosts>>

(* pthread_cond_wait() joins the waiters and lets go of the mutex ...           *)
Sleep ==
  /\ worker = "towait" /\ worker' = "waiting"
  /\ UNCHANGED <<queue, running, mine, busy, main, sent, rest, handler,
                 cached, ghosts>>

(* ... and may return without having been woken.                                *)
WakeSpuriously ==
  /\ worker = "waiting" /\ worker' = "locking"
  /\ UNCHANGED <<queue, running, mine, busy, main, sent, rest, handler,
                 cached, ghosts>>

\* Mutant: the tail is left at a request that has been taken and freed.
KeepTail == tail' = tail

ResetTail == tail' = IF next[head] = 0 THEN 0 ELSE tail

Dequeue ==
  /\ worker = "locking" /\ head # 0
  /\ mine' = head /\ head' = next[head] /\ ResetTail
  /\ count' = count - 1 /\ next' = next
  /\ worker' = "lookup"
  /\ taken' = taken + 1 /\ late' = IF running THEN late ELSE late + 1
  /\ UNCHANGED <<running, busy, main, sent, rest, handler, cached>>

\* Mutant: a decision is taken for expired in the last second of its time.
FreshEarly(e) == e.age < Ttl - 1

(* cache_get(): expires_ms > now_ms                                             *)
Fresh(e) == e.age < Ttl

CacheHas(f) == \E i \in DOMAIN cache : cache[i].feature = f /\ Fresh(cache[i])

Finish == worker' = "loop" /\ mine' = 0 /\ busy' = 0

CacheHit ==
  /\ worker = "lookup" /\ CacheHas(FeatureOf(mine))
  /\ Finish
  /\ UNCHANGED <<queue, running, main, sent, rest, handler, cached, ghosts>>

CallBackend ==
  /\ worker = "lookup" /\ ~CacheHas(FeatureOf(mine))
  /\ worker' = "calling"
  /\ UNCHANGED <<queue, running, mine, busy, main, sent, rest, handler,
                 cached, ghosts>>

\* Mutant: the index of the last slot is not followed by that of the first.
SlotPastEnd == slot + 1

NextSlot == (slot + 1) % Slots

(* The backend answered: cache_put() takes the next slot, whatever is in it.    *)
BackendAnswers ==
  LET f == FeatureOf(mine) IN
  /\ worker = "calling"
  /\ latest' = [latest EXCEPT ![f] = mine]
  /\ cache' = [cache EXCEPT ![slot] = [feature |-> f, age |-> 0, answer |-> mine]]
  /\ slot' = NextSlot
  /\ Finish
  /\ UNCHANGED <<queue, running, main, sent, rest, handler, ghosts>>

(* It did not: the Layer-1 decision is computed and, the call having failed,    *)
(* thrown away.                                                                 *)
BackendFails ==
  /\ worker = "calling"
  /\ Finish
  /\ UNCHANGED <<queue, running, main, sent, rest, handler, cached, ghosts>>

Worker ==
  /\ handler # "worker"
  /\ \/ Loop \/ FindEmpty \/ Sleep \/ Dequeue
     \/ CacheHit \/ CallBackend \/ BackendAnswers \/ BackendFails

Spurious == handler # "worker" /\ WakeSpuriously

-----------------------------------------------------------------------------
(* A second passes once nothing is left to do that does not wait.               *)
Tick ==
  /\ worker \in {"waiting", "calling", "done"}
  /\ worker = "calling" => busy < MaxCall
  /\ \/ main = "demo" /\ rest > 0
     \/ main = "joining" /\ worker # "done"
  /\ handler \in {"none", "done"}
  /\ rest' = IF rest > 0 THEN rest - 1 ELSE 0
  /\ busy' = IF worker = "calling" THEN busy + 1 ELSE 0
  /\ cache' = [i \in DOMAIN cache |->
                 [cache[i] EXCEPT !.age = IF @ < Ttl THEN @ + 1 ELSE @]]
  /\ UNCHANGED <<queue, running, worker, mine, main, sent, handler,
                 slot, latest, ghosts>>

Next == Main \/ Signal \/ HandlerBroadcast \/ Worker \/ Spurious \/ Tick

Spec == Init /\ [][Next]_vars

-----------------------------------------------------------------------------
(* Properties.                                                                  *)

(* What was sent and not taken is one chain from req_head to req_tail in the    *)
(* order it was sent, and req_count is its length: no request is lost, taken    *)
(* twice or linked to one that has been freed.                                  *)
QueueIntact ==
  LET waiting == (taken + 1)..sent IN
  /\ count = sent - taken
  /\ IF waiting = {} THEN head = 0 /\ tail = 0
     ELSE /\ head = taken + 1 /\ tail = sent
          /\ \A r \in waiting : next[r] = IF r = sent THEN 0 ELSE r + 1

(* The worker never sleeps while a request is on the queue: a request that is   *)
(* queued between its test of the queue and its sleep is not slept through.     *)
AwakeForWork == worker = "waiting" => head = 0

(* Once the stop is asked for, at most one more request goes to the backend,    *)
(* the one the worker was on its way to: a stop waits for no queue.             *)
StopIsPrompt == late <= 1

(* A decision the cache would still answer with is the backend's last one for   *)
(* these features: answers do not go back in time.                              *)
CacheCurrent ==
  \A i \in DOMAIN cache :
    cache[i].age < Ttl => cache[i].answer = latest[cache[i].feature]

=============================================================================
