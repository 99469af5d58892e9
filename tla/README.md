# AI Linux: verification development

AI Linux adds an inference system call and a set of "AI" services to the Linux
kernel, with a user-space gateway and Python services around them. This directory
holds TLA+ models of its concurrent and stateful parts, the TLC runs that
model-check them, and TLAPS proofs of their main invariants for every value of
the constants. `PROJECT.json` is the index: components, runs, the source lines
each definition translates, the mutants that show each property can fail,
findings, hazards and theorems.

| Module | Models | Runs | Proofs |
|---|---|---|---|
| `SysInfer` | `sys_infer()` and the engine registry | `SysInfer.cfg` | `SysInferProofs` |
| `CircuitBreaker` | the breaker and the calls it guards | `CircuitBreaker.cfg`, `CircuitBreakerRecovery.cfg`, `CircuitBreakerHalfOpen.cfg` | `CircuitBreakerProofs` |
| `ModelRegistry` | models, references, devices, requests, module exit | `ModelRegistry.cfg` | `ModelRegistryProofs` |
| `CacheStore` | what a cache promises (abstract) | through `KaiCache` | (`KaiCacheProofs`) |
| `KaiCache` | the LRU cache, shown to implement `CacheStore` | `KaiCache.cfg`, `KaiCacheVictim.cfg` | `KaiCacheProofs` |
| `KaiInfer` | models, hot updates, result caches, batches, preheating | `MCKaiInfer.cfg` (module `MCKaiInfer`) | `KaiInferProofs` |
| `PluginManager` | plugins, their readers and their removal | `PluginManager.cfg`, `PluginManagerHeld.cfg`, `PluginManagerExit.cfg` | `PluginManagerProofs` |
| `Layer2Gateway` | queue, worker, decision cache and stop of the gateway | `Layer2Gateway.cfg` | `Layer2GatewayProofs` |
| `Layer2Kernel` | routing configuration and decision requests in the kernel | `Services.cfg` | `ServicesProofs` |
| `GatewayClient` | options, one backend call, reading its answer, the override | `Services.cfg`, `GatewayOverride.cfg` | `ServicesProofs` |
| `KaiSyscall` | the system call of the loadable KAI module | `Services.cfg` | `ServicesProofs` |
| `KaiMetrics` | metric registry, alert rules, audit ring | `Services.cfg`, `KaiMetricsCooldown.cfg` | `ServicesProofs` |
| `Degradation` | memory pressure, timeouts, limits, fallback chain | `Services.cfg` | `ServicesProofs` |
| `KernelCaches` | page history, LSM decision cache, DNS cache | `Services.cfg` | `ServicesProofs` |
| `PageTracker` | page-access ring and swap prediction of ai_core | `Services.cfg` | `ServicesProofs` |
| `KaiSchedExt` | the sched_ext programs | `Services.cfg` | `ServicesProofs` |
| `BpfFilters` | the LSM and XDP programs | `Services.cfg`, `BpfFiltersQuiet.cfg` | `ServicesProofs` |
| `SkillRouter` | rules, routing, tools of the MCP core | `Services.cfg`, `SkillRouterModel.cfg` | `ServicesProofs` |
| `WebServer` | a connection of the web dashboard | `Services.cfg`, `WebServerFraming.cfg` | `ServicesProofs` |
| `Monitor` | the performance monitor | `Services.cfg` | `ServicesProofs` |
| `Services` | the twelve modules above it, put side by side for one run | `Services.cfg` | `ServicesProofs` |

Run from this directory: `tlc -config SysInfer.cfg SysInfer`, `tlapm SysInferProofs.tla`.
All constants have their values in the `.cfg` files. `MCKaiInfer` declares the
updaters of `KaiInfer` interchangeable; its properties are invariants, for which
that is sound. No other symmetry is declared: the state spaces are small, and
where liveness is checked symmetry is unsound.

## 1. Inventory

### Kernel side

**sys_infer system call and engine registry** (`kai/core/syscall/kai_syscall_core.c`,
engine modules beside it). State: the pointer to the one registered engine and
its mutex, the count of calls in progress `kai_active`, and for each call its two
buffers. Operations: the system call with its four error labels, the exported
`kai_engine_infer()`, registration and unregistration by loadable modules. Hard:
calls, kernel callers and `rmmod` interleave; the counter overshoots its limit
by design. Correct when: permits and buffers balance on every path, the limit
bounds admitted calls, the running engine's module stays loaded, calls return.

**Circuit breaker and the rest of kai_resilience** (`kai/resilience/`). State:
breaker state, three counters and the time of the last change; a degradation
level; a fallback chain; per-user resource limits. Operations: allow, success,
failure, reset; degrade and recover; run the chain; charge and release. Hard:
reports arrive after the breaker has moved on. Correct when: the timeout of an
open breaker runs from its opening, half-open bounds the probes, only consecutive
failures trip it, and a healthy service recovers.

**ai_core** (`ai_core/src/ai_core.c`): a list of models and a list of devices
under one rwlock, atomic reference counts, a workqueue for asynchronous
requests, two switches. `ai_memory.c` (page-access ring, prefetch) belongs to it;
`ai_userland.c`, beside it, is a daemon in user space that works through io_uring.
Hard: counts change outside the lock, anyone may unregister a model by its name,
devices run under the read lock, exit meets queued requests. Correct when: nothing
freed is used, nothing is freed twice or leaked, callbacks come.

**kai_cache** (`kai/cache/`): hash table, LRU list, TTLs and a statistic that
doubles as the fill level. Hard: long sequences of calls, expiry, the limit.
Correct when: a lookup gives the last value put or nothing, entries are unique,
the capacity holds, the victim is the least recently used entry.

**kai_infer** (`kai/core/kai_infer.c`): model table under an rwlock, a
`kai_cache` of results, batching, preheating thread, hot update of weights.
Hard: models are used without a reference while weights are swapped; a result
computed with old weights is cached after the flush; only the first request of a
batch is scheduled; exit unloads models under the lock that unloading takes.

**Plugin manager** (`plugins/core/ai_plugin_mgr.c`): a list read under RCU and
written under a mutex, reference and activity counts, event subscribers. Hard:
readers take no lock, so each of them may come between the last test of active
inferences, the test of the count and the removal; the wait is bounded; there is
no grace period before the free.

**Layer 2, kernel side** (`layer2/src/ai_layer2_netlink.c`): the routing
configuration, pending decisions with a delayed work each, a netlink socket to
the gateway, statistics. Hard: the configuration is set under a mutex and written
through `/proc` without it, field by field; an entry is freed with its timer
pending; exit waits for work under the work's spinlock. The receive handler drops
every message (it compares the wrong length), so no answer ever arrives.

**kai_syscall** (`kai/core/kai_syscall.c`): the loadable variant of the system
call, with a token bucket and a limit on calls in progress. Hard: seven error
labels. Correct when: places and buffers balance whatever fails.

**kai_metrics** (`kai/observe/kai_metrics.c`): metrics under a spinlock, alert
rules under another, an audit ring under a third. Hard: an evaluation reads the
clock before it waits for the lock, so evaluations take effect out of order.

**kai_mem_opt, kai_net_opt** (`kai/core/`): page history and prefetch, the
security hook's decision cache, the DNS cache, a connection pool. Hard: an LSM
decision is stamped before the lock is taken; the ring wraps.

**eBPF programs** (`ebpf/`): a sched_ext scheduler, an LSM and an XDP
classifier. State: maps of bounded size that are never emptied, counters changed
by several CPUs. Hard: a task is counted on one CPU and uncounted on another; a
map that is full answers like one that has never seen the key.

Smaller parts: SIMD and quantisation headers (numeric kernels), `hello_ai.c` (a
demonstration), `libkai` (a wrapper of the system call).

### User space

**Layer 2 gateway** (`layer2/src/ai_layer2_gateway.c`): a linked queue under a
mutex and a condition variable, one worker, a decision cache, an HTTP client, a
demo that produces the requests. Hard: the stop does not take the mutex, calls
take seconds. Correct when: no request is lost or slept through, a stop is
prompt, the cache is not out of date.

Its HTTP client reads an answer in parts, cuts the text out of the JSON by hand
and decides whether it overrides the kernel's decision.

**Skill router and registry, MCP core** (`layer2/src/ai_skill_router.c`,
`layer2/skills/`, `layer2/mcp/`): match rules that vote for categories, weights of
the backends, a tool table, JSON-RPC. Hard: a later keyword may take a category
over; the router names tools the table need not have.

**Web dashboard and monitor** (`ui/web/`): a thread per connection over a buffer
into which a client may send ahead; a collector that shares its report with the
connections. Hard: pipelined requests, reports read while they are written.

**Python services** (`plugins/*.py`, `kai/features/*.py`, `sdk/python/`,
`kai/k8s/operator/`, `kai/cloud/`, `kai/hw/`, `kai/security/`): plugin loading,
sessions, persistence, load balancing, tiered scheduling, a client with retries,
an operator's reconcile loop, drivers of external services.

**Command line, terminal interface, deployment, tools** (`ui/cli`, `ui/tui`,
`scripts/`, `tools/`, `kai/deploy/`): display, packaging, profiling.

### How they interact

User tasks call `sys_infer()`, which runs the registered engine under the
registry mutex; the engine of `ai_core` calls `ai_infer_sync()` on a model of the
registry. `kai_infer` keeps its results in a `kai_cache`. Guarded calls ask the
breaker before and report after. The kernel asks the Layer 2 gateway for a second
opinion over netlink and falls back on its own decision when none comes; today
the gateway does not receive (its real mode is a comment) and the kernel side
would drop its answers, so the demo is the gateway's only producer. Plugins
register with the plugin manager, which dispatches inferences and events to them.

### Findings

Each is the subject of a run whose single property TLC refutes; the quotation and
the lines are in `PROJECT.json`.

* `circuit_breaker_recovery`: half-open admits two calls and wants three
  successes; with every call succeeding the breaker may stay half-open and
  refuse everything until somebody resets it.
* `half_open_limit`: `half_open_requests` is documented as the most requests allowed
  while half-open; one more is let through, since the call that turns the breaker
  half-open is not counted.
* `kai_cache_victim`: `flush_expired()` leaves the count at the limit, and the
  next put frees the list head of the empty list as its victim.
* `plugin_manager_exit`: a plugin's exit function is called while one of its
  inferences runs, although unregistration says it waits for all of them.

Six more configurations stand beside the runs of `PROJECT.json`. TLC refutes the one
property of each (`tlc -config X.cfg M`), within seconds:

* `PluginManagerHeld.cfg` (`HeldNotFreed`): a lookup that counts itself in between the
  test of the count (`ai_plugin_mgr.c:155`) and `list_del()` holds a plugin that is
  freed under it; `docs/PLUGIN_ARCHITECTURE.md:117` has reference counting as a
  guarantee of consistency.
* `GatewayOverride.cfg` (`ConfidentOverrides`): the text of an answer ends at its first
  escaped quote (`ai_layer2_gateway.c:533`), so its confidence is always read as 50
  and no answer overrides layer 1, as `docs/LAYER2_ARCHITECTURE.md:116` has it.
* `BpfFiltersQuiet.cfg` (`QuietAllowed`): the threshold of the security program is zero
  until user space writes it (`ai_lsm.bpf.c:155`), and zero is reached by every score:
  each execution is denied, where `docs/ARCHITECTURE.md:209` asks for a score above it.
* `SkillRouterModel.cfg` (`ModelOfBackend`): the skill router chooses the backend by
  weights and the model by categories (`ai_skill_router.c:238`), so that DeepSeek is
  asked for the model `config/layer2.yaml:32` lists as Kimi's.
* `WebServerFraming.cfg` (`FramesRequests`): the dashboard finds the length of a body only
  behind the exact text `Content-Length:` (`ai_web.c:1246`); with another spelling, or
  chunks, the request is answered early and its body read as the start of the next.
* `KaiMetricsCooldown.cfg` (`CooldownKept`): an evaluation whose clock was read before
  another's alert finds the cooldown over (`kai_metrics.c:431`: the unsigned
  difference wraps) and alerts again.

Observations from the same models, without a run of their own: an engine
registered over another is forgotten, and the first one's removal leaves a call
without an engine (`SysInfer`); the gateway's demo waits for its queue with a
fixed sleep that is shorter than two slow backend calls (`Layer2Gateway`); module
exit of kai_infer takes `models_lock` a second time when a model is loaded, and
hangs (`ExitModels` of `KaiInfer`); a removed plugin's list links are poisoned
under readers that stand on it (the "oops" of `PluginManager`).

## 2. The modules and the code

In all modules a step is what no other actor can see the middle of: a critical
section, one atomic operation, or the local code between two of them. Operators
marked `Mutant:` are faulty variants kept beside the definition they stand in
for; nothing else refers to them.

### SysInfer

`engine`, `lockOwner`, `active` are `kai_engine`, the owner of `kai_engine_lock`
and `kai_active`. `module` is the life of an engine module: loaded by `Insmod`,
its init calls `Register`, its exit `Unregister`, after which `FreeModule` may
unmap it. `pc` places each caller in `kai_infer()` (user, overlimit, args,
input, call, infer, unlock, reply, then the labels out_out, out_in, out_perm);
`inbuf` and `outbuf` say whether it owns its kernel buffers; `running` and `ret`
are locals. `CheckPerm` is the increment and test in one; `OverLimit` is the
undoing decrement, apart. `LockEngine`, `InferReturns`, `UnlockEngine` are
`kai_engine_infer()`; `KernelCall` is a kernel module that calls it without the
system call's accounting. Names, sizes and the tensor's contents are a success or
an error; refusals before the increment (capability, rate limit) change nothing
shared and are not steps.

### CircuitBreaker

The variables are the breaker's fields; `elapsed` is the age of
`state_changed_ns`, which no comparison tells apart beyond `TimeoutMs + 1`. Each
operation holds the spinlock throughout and is one step. `work` is what each
client has in flight: "probe" if admitted in the last half-open period, "call" if
before. The breaker cannot tell them apart, the properties can. `probes`,
`late`, `streak` and `opened`, the time since the breaker last opened, are history
variables read by the properties only.
`RequestCap` ends the count of requests where nothing reads it any more.

### ModelRegistry

`Threads` are kernel threads inside the API, `Requests` are asynchronous requests
with their work item. `listed` and `born` are the list and its order; `refcnt`,
`heap` and `owned` are the count, the allocation, and whether the registrar still
has the reference it was given. A put that reaches zero goes through "unlink"
(count is zero, lock not asked for), "wlock" (a writer waits; no new reader gets
in), "free". `RunHardware` holds the read lock until `DeviceReturns`. `ai_model_put()`
gives up a reference its caller holds. `ai_model_unregister()` looks a name up: it
takes the newest model of that name whose count is one, whoever that one reference
belongs to. Where it is not the caller's (`ai_self_check()` puts its model and then
unregisters the name), the model joins the history variable `strayed`: its
registrar, or a thread that is putting it, will come back to memory that is freed.
Writing to it (`CorruptMemory`) ends in the phase "corrupt", about which nothing is
claimed. Module exit starts
when no thread is inside (module references see to that), drains the workqueue and
frees what is left. Addresses are not reused, so a use after free stays visible.

### KaiCache and CacheStore

`lru` is `lru_list`, most recent first, with each entry's key, value, TTL, age
and VALID flag; the hash table holds the same entries under the same lock and is
not kept apart. `inserts` is `stats.inserts`, the number the capacity check reads:
it counts updates, survives `flush_expired()`, is zeroed by `reset_stats()` and,
once below zero, is compared as a huge unsigned number (`Full`). A key longer
than an entry's field is stored cut to 63 characters and never found again
(`LongKeys`); that another key might equal the cut one, and find its entry, is left
out: no key of the model is the first 63 characters of another. `life`
becomes "corrupt" when the victim is taken from an empty list. `call` is the call
just made, for the refinement. `CacheStore` is the promise: a lookup gives the
value put last under the key, or nothing; nothing after a removal or a flush; what
is forgotten, and when, is free. The mapping reads a key's value off its valid
entry.

### Layer2Gateway

`head`, `tail`, `count`, `next` are the linked list; `worker` places
`infer_worker()` with its `req_dequeue()` (loop test, asking for the mutex, tested
and about to wait, waiting, cache lookup, backend call, gone). The mutex is held
across a step only at "towait"; `Enqueue` needs it, the broadcasts of the stop and
of the signal handler do not take it. `main` runs the demo: `Enqueue` and a sleep
for each request, the longer sleep, `Stop`, `Broadcast`, `Join`. The handler runs
on either thread and stops that thread meanwhile; on the main thread it cuts the
sleep under way short. Time is in seconds and passes (`Tick`) only when nobody has
anything to do but wait; a backend call may end at any moment up to `MaxCall`.
The model contains the interleaving in which the worker misses the stop's
broadcast and `Join` never comes; no statement of the repository promises that it
does, so it is recorded as a hazard and the deadlock check is off for these runs.
The demo's early return without an API key does nothing and is left out.

### KaiInfer

`models` is the list, `model` the weights, time and load count of each; an area of
weights is a number and `freed` the areas given to `vfree()`. A request is placed
by `req` ("find", cache lookup, "run", "read" of the weights, "put"), an update by
`update`: it finds the model, remembers the weights it will free *before* it takes
the lock (`ReadOld`), swaps, frees and flushes. The cache of a model says which
answer, named by the weights it came from, a lookup would give; what it forgets is
free (`Forget`), as `CacheStore` allows and `KaiCache` is shown to implement. Batch
items run as requests; only the first is ever scheduled, as in the code. `raced` is
a history variable: models an inference has stored an answer for after a flush it
overlapped. A reader of freed weights ends in "oops". `MaxArea` bounds the updates.

### PluginManager

`list`, `refs`, `active`, `enabled` are `all_plugins`, `refcnt`,
`active_inferences` and the enabled switch; `state` says how far the life of each
object has come and `resident` whose module's code is mapped. `unreg` is where
`ai_plugin_unregister()` is with each plugin. `plugins_lock` keeps registrations and
unregistrations apart and no reader out, so the last test of `active_inferences`
(`WaitEnds`), the test of the count (`TestRefs`), `list_del()` (`Unlink`), the exit
function and the free are five steps, with any reader's step between them; the lock
is held from the first of them to the third (`LockFree`). `disp` and `hold` place the
tasks in `ai_plugin_dispatch_infer()` and the holders. A dispatcher chooses a plugin
(`Visit`), counts itself in (`Enter`), and goes on to the next through the link of
the plugin it stands on (`After`), which is poisoned once the plugin has left the
list. A busy unregistration fails, and the module goes all the same, since the
result of an exit function is void. `late` (entered behind the last test of active
inferences) and `counted` (before the test of the count, between it and the
`list_del()`, or after both) are history fields, `expired` says that the wait ran out.

### The parts of Services

`Services` runs twelve modules side by side. They neither call each other nor
share state, so its first state chooses which part moves (`focus`), and the
others keep still: the states reached one part at a time are all the states each
of them reaches. Two modules count as two parts (`Degradation`: the shared memory
pressure and what belongs to one request; `KernelCaches`: the page history and
the caches with a clock).

* `KaiSyscall`: `caller` places each call between the rate limit and its labels,
  with the buffers it owns; `active` is the count of calls, `tokens` the bucket.
* `KaiMetrics`: registry, rules and evaluators. The clock is read in one step and
  the rule judged in another, under the lock; the difference of two times is taken
  modulo `Wrap`, as unsigned subtraction does. `streak` is a history variable.
* `Degradation`: `mem_protect_check()` in its four unlocked steps; `overlap` says
  that two checks have overlapped. The chain, timers and limits are one request's.
* `KernelCaches`: three caches under one clock; an LSM decision is stamped (`Stamp`)
  before it is linked (`LinkDecision`), so entries may be out of order of age. The
  prediction folds over the page history from its newest record, as its loop does.
* `PageTracker`: the ring and the whole of `ai_swap_predict()`. The scan folds over
  the accesses from the newest (`Scored`: the first listed entry of a frame gains
  age and write bonus up to the cap, a new frame is listed while there is room),
  the exchange sort over pairs of places (`Exchanged`, `Round`, `Sorted`), in the
  order of the C loops. The property side reads the ring by age: `Uses` of a frame,
  and `Hotter`, when each use of one has a more recent one of the other beside it.
* `KaiSchedExt`: the callbacks as the kernel calls them, with the CPU a task was
  queued on. A task may be dequeued on another CPU than it was counted on. `ChooseCpu`
  keeps the CPU the task was on, off line too: `cpu_online()` asks for possible CPUs,
  so the search for the least loaded one is never reached. `missed` counts the
  dequeues that found their CPU at zero.
* `BpfFilters`: history and baseline maps that fill up, thresholds as user space
  sets them, zero until it does, the ring buffer that may be full; one action per
  program. `denied` keeps the shortest history an execution was denied with under a
  threshold no name reaches, `refused` that one was denied that scored nothing.
* `Layer2Kernel`: the configuration by `ai_layer2_set_config()` (under the mutex,
  one assignment per step) and by `/proc` (without); a request from its admission
  to the free of its entry, with its timer. Nothing arrives from the gateway.
* `GatewayClient`: the options in their order with the key of the environment, one
  HTTP exchange that may end or time out behind any part, the text taken out of
  the answer and the override.
* `SkillRouter`: a request is the set of match rules it contains the keywords of;
  votes, best category, backend, tool, and the MCP call the router makes. The
  core's own routing and its JSON-RPC handler use the same table of tools.
  `ModelOfBackend` is what the configuration lists, and what the router does not keep to.
* `WebServer`: a connection on which a client may send ahead. A request states the
  length of its body where the server looks for it, or (`stated` is false) in another
  legal way, which counts as zero; what is left of the body is then taken for the
  beginning of the next request (`PathsFound`, `NumbersFound`). `pipelined` tells the
  clients that wait for an answer from those that do not.
* `Monitor`: the collector reads the figures and computes the health in two steps,
  with the lock kept between them; the history ring is a critical section of its own.

## 3. The runs

| Run | Distinct states | Bounds and why they are enough |
|---|---|---|
| `sys_infer` | 115 104 | Two system calls and a kernel caller, limit 1, two engines: the limit is reached and overshot, a caller waits for the mutex while another runs, and one engine registers over the other and is removed in both orders. |
| `circuit_breaker` | 15 606 | Four clients: two probes and two stragglers, as many as the success threshold of 3 needs with `half_open_requests` = 1 (the code's defaults). A failure threshold of 2 tells a streak from a single failure, a timeout of 1 has a tick before, at and after it. |
| `model_registry` | 739 040 | Two threads and a request on two models, which may share a name, and one device: lookups, puts, unregistration by the registrar and by somebody else, device removal and exit all overlap in pairs and in threes. |
| `kai_cache` | 31 969 | Two entries, two ordinary keys and one too long, two values: a third key is needed to evict, and the long key supplies it. TTL 1 has ages below, at and above it; every entry has the default TTL (`Ttls` is empty): entries of another TTL expire earlier or later, and expiry is already possible in any order of use. `Memory` 3 is one more entry than the capacity, so that an overrun shows; `MaxCount` 3 lets the count pass the limit. |
| `layer2_gateway` | 64 287 | Four requests with the code's sleeps of 1 s and 5 s, TTL 5 s and calls of up to 6 s: a decision expires between two requests with the same features, and the three slots wrap. One signal, at any moment: a second one finds `running` cleared already. |
| `kai_infer` | 2 127 635 | Two updaters, a caller, a batch item and the preheat thread on two models: two updates remember the same weights, and each of the three kinds of reader runs across a swap. Three areas of weights (`MaxArea`): the first ones and one for each of two updates of one model. |
| `plugin_manager` | 1 228 767 | Two plugins, so that a reader stands on one while the other is linked or unlinked; two dispatchers and a holder; one round of the wait (`MaxWait`, 1000 in the code): its end, and its expiry with one inference left and with two. Each reader comes between any two steps of an unregistration. |
| `services` | 794 697 | See below. |

Bounds of `services`, part by part: two callers at a limit of 1 with two tokens;
two evaluators of one rule that fires at the second hot evaluation (`Repeat`), with
times before, at and after the cooldown; two pressure checks over three levels;
rings one shorter than the keys that go into them (`History`, `DnsSize`,
`MaxProfiles`, `MaxRecords`, `MaxEntries`), so that each wraps or fills; two CPUs
and two tasks; twelve executions of a process id, more than the six and the ten
after which its history counts against it, under the threshold of the code, one
that a name reaches, and the zero of an unwritten map; two requesters with one
pending entry, two setters and a writer; two options of the gateway in each order;
two keywords per request; two requests on a connection, with and without a body,
whose length is stated where the server looks for it or elsewhere, within the buffer
and beyond it; usages and times on both sides of the monitor's thresholds; four
frames in a ring of four accesses, of which the two most recent are worth more than
a full score, so that the cap makes scores equal, and lists of up to four pages, so
that one is advised out. `MaxTime`, `MaxClock`, `MaxMillis`, `MaxAudits`, `MaxDrift`
and `MaxOut` end counters that nothing reads beyond them.

What they show is stated in each run's `about`. The violation runs
(the four under "Findings", and the six beside them) use small constants that let the disagreement happen.
`CHECK_DEADLOCK FALSE` stands where the system may stop: an unloaded module, a
destroyed cache, a gateway that has exited or hangs in its join, a task that died
of an access to what was freed, a module exit that waits for itself.

Properties checked beside the types:

* `PermitAccounting`, `AdmissionBound`, `BuffersBalanced`, `EngineResident`,
  `SyscallReturns` (SysInfer);
* `OpenForTimeout`, `TripsOnStreak`, `RecoveryCounted`, `OpenEnds` (CircuitBreaker).
  The first is about the moment the breaker opened, kept apart from the breaker's own
  time stamp: no report or reset in between moves the end of the timeout;
* `NoUseAfterFree`, `RefcountExact`, `DeviceInUseLive`, `ExitClean`,
  `CallbackComes` (ModelRegistry). What `ai_model_unregister()` may take away from
  somebody else is in the statements: a model is used after its free only if it
  `strayed`. That it can be is the hazard at `ai_core.c:258`, not a finding: nothing
  in the repository promises otherwise;
* `ListKept` (unique entries, capacity, order of use) and `Implements` (KaiCache).
  The capacity is conditional on the statistics not having been reset: after a
  reset the bound is lost, which is what the counter's double use means;
* `QueueIntact`, `AwakeForWork`, `CacheCurrent` (Layer2Gateway);
* `CurrentWeightsLive`, `CacheFollowsModel` (KaiInfer): what of a hot update is
  safe although nothing counts the readers, and when stale answers stay;
* `HeldStays`, `DrainedBeforeExit`, `UnregisterReturns` (PluginManager): the count
  protects who was counted before it was tested, the wait drains who had entered
  before its last test; whoever comes behind is the subject of
  `plugin_manager_exit` and of `PluginManagerHeld.cfg`;
* `PermitsBalanced` (KaiSyscall), `CountBehindStreak` (KaiMetrics), `ToldAgrees`
  (Degradation), `RoutingNeedsMode` (Layer2Kernel);
* `AdviceSound` joins `LoadAccounted` (KaiSchedExt: the counts exceed the queued tasks
  by exactly the dequeues that found zero), `DenialNeedsHistory` (BpfFilters: under a
  threshold that no name reaches) and `HotterInFront` (PageTracker: a page used more
  recently throughout, unless last for writing, which the code ranks down);
* `RoutesFit` joins `AnalyzeKeepsBest` and `CoderStaysWithDeepSeek` (SkillRouter, with
  its default weights) and `ModelFitsBackend` (GatewayClient);
* `AnswersFit` joins `AnsweredInTurn` (WebServer: for a client that waits and states its
  lengths where the server looks, at most one answer for each request, in turn) and
  `ReportsCoherent` (Monitor).

### Fairness

* `SysInfer`: a task inside the call goes on, and engines return (weak fairness;
  the engines in the repository are straight-line code). A caller that waits for
  the mutex gets it in the end (strong fairness on `LockEngine`): the kernel's
  mutex hands itself over to a waiter that has waited too long. Nobody has to call
  or to load a module.
* `CircuitBreaker`: clients go on asking and report every call they were allowed,
  and time passes. `Reset` is not fair: nobody has to call it.
* `ModelRegistry`: the workqueue runs its items, devices return, and a runner
  inside the API goes on. Nobody has to call the API or to unload the module.
* `PluginManager`: `rmmod` runs on once it has begun. Nothing is assumed of
  inferences and holders: the wait ends although they may never leave.
* The other modules have safety properties only and no fairness.

## 4. The proofs

The proofs hold for any number of callers, clients, threads, models, plugins,
requests and any thresholds, under the named assumptions of each module (finite
sets of actors, distinct null values, counters in `Nat`). Each follows the same
argument: `IInv` holds initially, every action keeps it (one lemma or case per
action), the properties follow from it, and a last temporal step combines them.

* **SysInferProofs.** `IInv` adds to types, `PermitAccounting` and
  `AdmissionBound` what ties `pc` to the mutex: whoever is at "infer" or "unlock"
  owns it (`LockHeld`), a kernel caller is never inside the system call
  (`KernelPath`), the registered engine is live (`RegisteredLive`). Without
  `LockHeld` a removal could be thought to run under a running engine.
  `AdmissionBound` is not inductive from the counter alone: the admitted calls
  are a subset of the counted ones, whose number the increment has just compared
  with the limit. The buffers have an invariant of their own.
* **CircuitBreakerProofs.** `ClosedCount` equates the closed breaker's count with
  the run of failures, `SuccessesExplained` accounts for each counted success by
  a probe no longer in flight or a late report, and `AgeIsOpenTime` identifies the age
  of the breaker's time stamp with the time since it opened: that is why its timeout
  runs from there. What the header promises of `half_open_requests` is off by one;
  `HalfOpenBurstBounded` proves the bound the code keeps. `RecoveryNeedsLateReports`
  follows: with the code's defaults a half-open breaker closes only with the help
  of a call admitted before the period. It is the general form of the finding.
* **ModelRegistryProofs.** `RefcountExact` and `NoUseAfterFree` need to know who
  may hold a model at all: `RunnerInv` (place against list, count and heap),
  `UniqueReaper`, `OwnedKnown` (a registrar's reference keeps the model listed, unless
  it strayed), `StrayedOff` (what strayed is on the list no more), `Accounted` (a live
  model has references or a reaper), `DeviceInv`, `PhaseInv`. The step that matters is
  `Unregister`: a count of 1 on a listed model is either its registrar's own
  reference, or that of somebody whom the model then strays from; no inference is cut
  off in the first case. The theorems say which models are exempt, and the
  specification lets that happen at any moment; nothing is proved past a write to
  freed memory but that it needs such a call.
* **Layer2GatewayProofs.** `QueueIntact` needs that requests not sent yet are
  linked nowhere; `AwakeForWork` that the queue is empty already when the worker
  sets out to sleep; `StopIsPrompt` where the worker must be to take one more
  request; `CacheCurrent` that the backend is asked only for what no fresh slot
  has, which nothing but a single worker keeps true for the time of the call.
* **KaiInferProofs.** `CurrentWeightsLive` does not follow from what an update
  holds alone: two updates may remember the same old weights, and one may free
  them while the other waits for the lock. What is inductive is `Outdated`: the
  weights an update remembers are no other model's and, once it has swapped, not
  its own model's either. It needs that every area is older than the next to be
  allocated (`Allocated`) and that no two models share one (`NotShared`), which is
  a theorem of its own.
  Also proved are the types, by place (`TypeInv`), and `CacheFollowsModel`. That one
  needs to know what an inference has in its hands before it stores it: `Computed`
  says it was computed from the weights in force unless an update of the model is
  under way or has been overlapped, and `Unloaded` that a model not yet loaded is in
  nobody's hands, so that a first load does not make an old answer wrong.
* **PluginManagerProofs.** `HeldStays` needs `RefsCounted` (the count is at least the
  registrar's reference and one of every holder, so that the test for more than one
  reference sees each of them) and `TestedUnheld` (between the test and the
  `list_del()` nobody is left who was counted before the test).
  `DrainedBeforeExit` needs `ActiveCounted` (every inference is in the activity
  count), `TestingListed` and `LeavingUnlinked` (where a plugin is while it is tested
  and after). The first part shows that linking and unlinking keep the list a list of
  each registered plugin once. An inference that dies with its plugin's module stays
  counted, hence the inequalities.
* **KaiCacheProofs.** All that `KaiCache` is checked for is proved: the types, `ListKept`
  and the refinement. Most operations keep some of the list's entries in their order,
  which is one notion (`Part`: a list with entries taken out) with one lemma for
  uniqueness and order; `CapacityKept` follows since every entry was counted when it
  was put. For `Implements`, `StoreOK` relates what the mapping reads off the
  list to membership (`Has`): a key of ordinary length has one entry, so its value is
  that entry's, whichever place it has. Then every action is shown to be a step of
  `CacheStore` or to leave the store alone.
* **ServicesProofs.** The first step is `PartsFollowTheirSpecs`: a part moves as its
  own specification says, or not at all, whatever else does. Every property is then
  proved of its part, and `TypesOK`, `AdviceSound`, `RoutesFit` and `AnswersFit` are
  put together from their parts. The arguments that are more than typing:
  * *Layer2Kernel.* `RoutingNeedsMode` rests on who may repair an enabled switch in the
    disabled mode (`Repaired`): a writer about to set the mode, or the setter that is
    about to disable. It needs that there is one setter (`OneSetter`, the mutex) and
    that unlocked writers never disable by mode (`ModeHolds`).
  * *KaiSyscall.* `PermitsBalanced` needs no more than who is counted (`Counted`: from
    the increment to the decrement) and where buffers are owned. The limit holds
    although the counter overshoots it: it is compared with the count just raised,
    and that is never less than the number of calls inside.
  * *KaiMetrics.* `CountBehindStreak` is inductive beside the types: a judgement counts
    one at most, and only where the streak grows too, whichever clock it goes by. (An
    evaluator's old clock makes it count too early, see `CooldownKept`.)
  * *Degradation.* `ToldAgrees` needs what each of the four places of a check knows
    (`CheckerKnows`), which holds only while checks have not overlapped.
  * *Monitor.* `ReportsCoherent`: figures and health belong together except between
    the two steps that rewrite them, and the collector keeps the lock between them.
  * *WebServer.* `AnsweredInTurn` relates the buffer and what is on its way to the
    requests not answered yet, unit by unit; a client that waits has at most one of
    them, so the buffer is a beginning of it and, its length being stated where the
    server looks, `Total` is its length.
  * *BpfFilters.* `DenialNeedsHistory`: a name scores at most 45 (`NameReach`), a history
    of up to five executions nothing, so a threshold above that is not reached.
  * *KaiSchedExt.* `LoadAccounted`: a count stops at zero, so the sum over the CPUs falls
    by one with a task that leaves where one is counted, and else `missed` grows.
  * *GatewayClient* and *SkillRouter.* What a fold over options or rules yields: the
    model and the backend change together, and the category that is found has the
    best priority of the rules that vote; the coder's weights settle the backend.
  * *KernelCaches.* One record of a key: a record found is moved or updated in its
    place, a new one is put in when none was found.
  * *PageTracker.* `HotterInFront`: through the scan, by induction over the accesses
    from the newest, the hotter frame is listed when the other is, in an earlier place,
    and its score is higher by at least what its further uses were worth, or full
    (`StandingStep`): each use of the other comes after one that gained more. The
    exchange sort leaves the list in descending order of score, with the same entries
    (`SortedDescends`), those at the full score in the order in which it found them.

How the recursive definitions are reasoned about: no operator is RECURSIVE, folds come
from the community modules. A fold is a function on the subsets of its index set,
defined by what it takes from a smaller subset; that there is such a function
(`FoldExists`) is proved with `WFMin` on the strict subsets of a finite set, and the
loop's states are its values on the initial segments of the indices. Induction is
then the first-order one, over a set of numbers (`NatInductionOnSet`) or of subsets
(`SubsetInduction`); the library's induction rules are not used. Modules that are
instantiated have their assumptions as hypotheses in `ServicesAssumption`, which TLC
evaluates with the run; what was added to them for the proofs says that bounds are
numbers and that sets from which something is chosen are not empty. One is more: a
process id may execute more than five times (`MaxExecs > 5`), without which the
bound on the counter would itself hide the history.

Some parts of these invariants were run as properties of their own before they
were proved (`EngineSerialised`, `SingleReaper`, `Reclaimed`, `StopIsPrompt`); they
are theorems now and no longer listed with a run.

Only model-checked: the liveness properties `SyscallReturns`, `OpenEnds`,
`CallbackComes` and `UnregisterReturns`; liveness under fairness and ENABLED are out
of the prover's reach. Every invariant and every action property of the passing runs
is proved. `CacheStore` has no theorem of its own: as an abstract specification it
only says what is allowed.

## 5. What is not modelled

* Numeric content: soft inference, quantisation, SIMD kernels, eBPF scores.
* Formatting and parsing: procfs, JSON, HTTP, terminal and web interfaces.
* Cryptography and TLS; build and deployment scripts.
* Memory ordering below the kernel's atomics and locks, and interrupt context.
* Names cut by their fields: a cache key of 64 characters or more that, cut, equals
  another key; a host name of 256 or more, which `kai_net_opt` would insert again.
* In `kai_cache`: the slab caches (a process-wide pair overwritten by every cache
  created with an entry size; all callers pass 0), callbacks (never invoked) and
  the policy (never read: eviction is always LRU).
* In `layer2`: the handlers of received netlink messages (every message is
  dropped before it reaches them), shared memory, and the gateway's real mode,
  which is a comment.
* In the plugin manager: event subscriptions and plugin settings. In `kai_net_opt`:
  the connection pool. In `ui`: `ai_main.c`, which prints what `/proc` shows, and
  `ai_tui.c`, which does not compile at this commit (it uses undeclared variables).
* `ai_sched.bpf.c`, an earlier version of the scheduler that is modelled.
* Everything marked `not_modelled` under "components" in `PROJECT.json`, with the
  reason there.

## 6. Plan

What is left, in order of importance:

1. Plugin events and settings, in `PluginManager`; the connection pool of
   `kai_net_opt`, in `KernelCaches`.
2. The Python services: sessions and persistence with a crash between two steps,
   the retries of the SDK's client, the operator's reconcile loop.

The number of properties is kept small: when a deeper property arrives, the
shallowest of the ones above makes room.
