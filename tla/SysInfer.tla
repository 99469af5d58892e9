------------------------------ MODULE SysInfer ------------------------------
(* sys_infer(), system call 548, and the registry of inference engines it     *)
(* dispatches to (kai/core/syscall/kai_syscall_core.c, with the module_init    *)
(* and module_exit of its two engines, engine_kai_demo.c and                   *)
(* engines/engine_ai_core.c).                                                  *)
(*                                                                             *)
(* A caller is a task inside the system call (Syscalls) or a kernel module     *)
(* that calls the exported kai_engine_infer() (KernelCallers).  Engines are    *)
(* loadable modules: they come and go while calls are in flight.  What happens *)
(* between two lines that other tasks can observe (kai_active, the mutex, the  *)
(* engine pointer, a module's text) is one step; buffers are present or not.   *)
EXTENDS Integers, FiniteSets

CONSTANTS
  Syscalls,        \* tasks that issue sys_infer()
  KernelCallers,   \* kernel modules that call kai_engine_infer()
  Engines,         \* engine modules that may be loaded
  MaxConcurrent,   \* KAI_MAX_CONCURRENT
  NoEngine,        \* kai_engine = NULL
  NoOwner          \* kai_engine_lock is free

ASSUME SysInferAssumption ==
  /\ IsFiniteSet(Syscalls)
  /\ Syscalls \cap KernelCallers = {}
  /\ MaxConcurrent \in Nat
  /\ NoEngine \notin Engines
  /\ NoOwner \notin Syscalls \cup KernelCallers

Callers == Syscalls \cup KernelCallers

VARIABLES
  engine,      \* kai_engine: the registered engine
  lockOwner,   \* who holds kai_engine_lock
  module,      \* life of each engine module
  active,      \* kai_active
  pc,          \* where each caller is
  inbuf,       \* the caller owns a kernel copy of its input
  outbuf,      \* the caller owns a kernel output buffer
  running,     \* the local variable e of kai_engine_infer()
  ret          \* the local variable ret

vars == <<engine, lockOwner, module, active, pc, inbuf, outbuf, running, ret>>

PcValues == {"user", "overlimit", "args", "input", "call", "infer", "unlock",
             "reply", "out_out", "out_in", "out_perm"}
RetValues == {"ok", "error", "EAGAIN", "ENODEV"}

TypeOK ==
  /\ engine \in Engines \cup {NoEngine}
  /\ lockOwner \in Callers \cup {NoOwner}
  /\ module \in [Engines -> {"absent", "loading", "live", "exiting"}]
  /\ active \in Nat
  /\ pc \in [Callers -> PcValues]
  /\ inbuf \in [Callers -> BOOLEAN]
  /\ outbuf \in [Callers -> BOOLEAN]
  /\ running \in [Callers -> Engines \cup {NoEngine}]
  /\ ret \in [Callers -> RetValues]

Init ==
  /\ engine = NoEngine
  /\ lockOwner = NoOwner
  /\ module = [e \in Engines |-> "absent"]
  /\ active = 0
  /\ pc = [t \in Callers |-> "user"]
  /\ inbuf = [t \in Callers |-> FALSE]
  /\ outbuf = [t \in Callers |-> FALSE]
  /\ running = [t \in Callers |-> NoEngine]
  /\ ret = [t \in Callers |-> "ok"]

Goto(t, from, to) == pc[t] = from /\ pc' = [pc EXCEPT ![t] = to]

-----------------------------------------------------------------------------
(* The system call: permission and rate.                                      *)

\* Mutant: the limit is compared with the value before the increment.
TooManyBefore == active > MaxConcurrent

\* atomic_inc_return(&kai_active) > KAI_MAX_CONCURRENT
TooMany == active + 1 > MaxConcurrent

(* kai_check_perm(), once the capability and the rate limit have let the call *)
(* through (a refusal by either returns before any shared state changes).     *)
(* The increment is one atomic operation, its undoing on the limit another.   *)
CheckPerm(t) ==
  /\ Goto(t, "user", IF TooMany THEN "overlimit" ELSE "args")
  /\ active' = active + 1
  /\ UNCHANGED <<engine, lockOwner, module, inbuf, outbuf, running, ret>>

\* Mutant: the rejected call forgets to take its increment back.
OverLimitKeepsPermit(t) ==
  /\ Goto(t, "overlimit", "user")
  /\ ret' = [ret EXCEPT ![t] = "EAGAIN"]
  /\ UNCHANGED <<engine, lockOwner, module, active, inbuf, outbuf, running>>

OverLimit(t) ==
  /\ Goto(t, "overlimit", "user")
  /\ active' = active - 1
  /\ ret' = [ret EXCEPT ![t] = "EAGAIN"]
  /\ UNCHANGED <<engine, lockOwner, module, inbuf, outbuf, running>>

\* Mutant: the error path gives the permit back before the common exit does.
BadArgumentsPutPerm(t) ==
  /\ Goto(t, "args", "out_perm")
  /\ active' = active - 1
  /\ ret' = [ret EXCEPT ![t] = "error"]
  /\ UNCHANGED <<engine, lockOwner, module, inbuf, outbuf, running>>

(* A bad model name, input size or input pointer, or no memory for the copy.  *)
BadArguments(t) ==
  /\ Goto(t, "args", "out_perm")
  /\ ret' = [ret EXCEPT ![t] = "error"]
  /\ UNCHANGED <<engine, lockOwner, module, active, inbuf, outbuf, running>>

CopyIn(t) ==
  /\ Goto(t, "args", "input")
  /\ inbuf' = [inbuf EXCEPT ![t] = TRUE]
  /\ UNCHANGED <<engine, lockOwner, module, active, outbuf, running, ret>>

(* The output buffer is optional: a caller that passes none is still served.  *)
PrepareOutput(t) ==
  /\ Goto(t, "input", "call")
  /\ \E wanted \in BOOLEAN : outbuf' = [outbuf EXCEPT ![t] = wanted]
  /\ UNCHANGED <<engine, lockOwner, module, active, inbuf, running, ret>>

\* Mutant: the wrong label, past the release of the input.
NoMemoryForOutputLeaks(t) ==
  /\ Goto(t, "input", "out_perm")
  /\ ret' = [ret EXCEPT ![t] = "error"]
  /\ UNCHANGED <<engine, lockOwner, module, active, inbuf, outbuf, running>>

NoMemoryForOutput(t) ==
  /\ Goto(t, "input", "out_in")
  /\ ret' = [ret EXCEPT ![t] = "error"]
  /\ UNCHANGED <<engine, lockOwner, module, active, inbuf, outbuf, running>>

-----------------------------------------------------------------------------
(* kai_engine_infer(): the engine runs under the registry's mutex.            *)

KernelCall(t) ==
  /\ Goto(t, "user", "call")
  /\ UNCHANGED <<engine, lockOwner, module, active, inbuf, outbuf, running, ret>>

LockEngine(t) ==
  /\ lockOwner = NoOwner
  /\ Goto(t, "call", IF engine = NoEngine THEN "unlock" ELSE "infer")
  /\ lockOwner' = t
  /\ running' = [running EXCEPT ![t] = engine]
  /\ ret' = [ret EXCEPT ![t] = "ENODEV"]
  /\ UNCHANGED <<engine, module, active, inbuf, outbuf>>

(* e->infer() returns; what it computes is the engine's business.             *)
InferReturns(t) ==
  /\ Goto(t, "infer", "unlock")
  /\ \E r \in {"ok", "error"} : ret' = [ret EXCEPT ![t] = r]
  /\ UNCHANGED <<engine, lockOwner, module, active, inbuf, outbuf, running>>

\* Mutant: the early return without an engine leaves the mutex locked.
ReleaseUnlessNoEngine(t) ==
  lockOwner' = IF ret[t] = "ENODEV" THEN lockOwner ELSE NoOwner

ReleaseLock(t) == lockOwner' = NoOwner

UnlockEngine(t) ==
  /\ Goto(t, "unlock", IF t \in Syscalls THEN "reply" ELSE "user")
  /\ ReleaseLock(t)
  /\ running' = [running EXCEPT ![t] = NoEngine]
  /\ UNCHANGED <<engine, module, active, inbuf, outbuf, ret>>

-----------------------------------------------------------------------------
(* The way out of the system call, by its labels.                             *)

(* The output is copied only after a success and when the caller gave a       *)
(* buffer for it; that copy may fault.                                         *)
Reply(t) ==
  /\ Goto(t, "reply", "out_out")
  /\ \/ ret' = ret
     \/ /\ ret[t] = "ok" /\ outbuf[t]
        /\ ret' = [ret EXCEPT ![t] = "error"]
  /\ UNCHANGED <<engine, lockOwner, module, active, inbuf, outbuf, running>>

FreeOutput(t) ==
  /\ Goto(t, "out_out", "out_in")
  /\ outbuf' = [outbuf EXCEPT ![t] = FALSE]
  /\ UNCHANGED <<engine, lockOwner, module, active, inbuf, running, ret>>

FreeInput(t) ==
  /\ Goto(t, "out_in", "out_perm")
  /\ inbuf' = [inbuf EXCEPT ![t] = FALSE]
  /\ UNCHANGED <<engine, lockOwner, module, active, outbuf, running, ret>>

PutPerm(t) ==
  /\ Goto(t, "out_perm", "user")
  /\ active' = active - 1
  /\ UNCHANGED <<engine, lockOwner, module, inbuf, outbuf, running, ret>>

-----------------------------------------------------------------------------
(* Engine modules.                                                             *)

\* Mutant: the registry is written without its mutex.
RegistryUnlocked == TRUE

\* kai_engine_register() and _unregister() hold kai_engine_lock throughout.
RegistryLockable == lockOwner = NoOwner

Insmod(e) ==
  /\ module[e] = "absent"
  /\ module' = [module EXCEPT ![e] = "loading"]
  /\ UNCHANGED <<engine, lockOwner, active, pc, inbuf, outbuf, running, ret>>

(* A later registration silently takes the place of an earlier one.            *)
Register(e) ==
  /\ module[e] = "loading"
  /\ RegistryLockable
  /\ engine' = e
  /\ module' = [module EXCEPT ![e] = "live"]
  /\ UNCHANGED <<lockOwner, active, pc, inbuf, outbuf, running, ret>>

(* module_exit: only the engine that is registered is taken out.               *)
Unregister(e) ==
  /\ module[e] = "live"
  /\ RegistryLockable
  /\ engine' = IF engine = e THEN NoEngine ELSE engine
  /\ module' = [module EXCEPT ![e] = "exiting"]
  /\ UNCHANGED <<lockOwner, active, pc, inbuf, outbuf, running, ret>>

(* The loader frees the module's text and data once module_exit has returned.  *)
FreeModule(e) ==
  /\ module[e] = "exiting"
  /\ module' = [module EXCEPT ![e] = "absent"]
  /\ UNCHANGED <<engine, lockOwner, active, pc, inbuf, outbuf, running, ret>>

-----------------------------------------------------------------------------
SyscallStep(t) ==
  \/ CheckPerm(t) \/ OverLimit(t) \/ BadArguments(t) \/ CopyIn(t)
  \/ PrepareOutput(t) \/ NoMemoryForOutput(t)
  \/ Reply(t) \/ FreeOutput(t) \/ FreeInput(t) \/ PutPerm(t)

CallStep(t) == LockEngine(t) \/ InferReturns(t) \/ UnlockEngine(t)

ModuleStep(e) == Insmod(e) \/ Register(e) \/ Unregister(e) \/ FreeModule(e)

Next ==
  \/ \E t \in Syscalls : SyscallStep(t)
  \/ \E t \in KernelCallers : KernelCall(t)
  \/ \E t \in Callers : CallStep(t)
  \/ \E e \in Engines : ModuleStep(e)

(* A task inside the call keeps running and e->infer() returns (the engines    *)
(* are straight-line code).  The kernel's mutex hands over to a waiter, so a   *)
(* caller that waits is not overtaken for ever: strong fairness.               *)
Fairness ==
  /\ \A t \in Syscalls : WF_vars(pc[t] # "user" /\ SyscallStep(t))
  /\ \A t \in Callers : WF_vars(InferReturns(t) \/ UnlockEngine(t))
  /\ \A t \in Callers : SF_vars(LockEngine(t))

Spec == Init /\ [][Next]_vars /\ Fairness

-----------------------------------------------------------------------------
(* Properties.                                                                 *)

Counted  == {t \in Syscalls : pc[t] # "user"}
Admitted == {t \in Syscalls : pc[t] \notin {"user", "overlimit"}}

(* kai_active counts exactly the calls between kai_check_perm() and their      *)
(* decrement: every error label gives its permit back once, none twice.        *)
PermitAccounting == active = Cardinality(Counted)

(* However the increments and decrements interleave, no more than              *)
(* KAI_MAX_CONCURRENT calls are ever past kai_check_perm() together, although  *)
(* the counter itself overshoots.                                              *)
AdmissionBound == Cardinality(Admitted) <= MaxConcurrent

(* Every way out of the call frees what the way in allocated: a task back in   *)
(* user mode owns neither buffer, and none is freed while it is still needed   *)
(* by the engine or by the copy to the caller.                                 *)
BuffersBalanced ==
  \A t \in Callers :
    /\ pc[t] \in {"user", "overlimit", "args", "out_perm"} => ~inbuf[t]
    /\ pc[t] \in {"input", "out_in"} => inbuf[t]
    /\ outbuf[t] => inbuf[t] /\ pc[t] \in {"call", "infer", "unlock", "reply", "out_out"}
    /\ t \in Syscalls /\ pc[t] \in {"call", "infer", "unlock", "reply", "out_out"} => inbuf[t]

(* An engine module may be removed while calls are in flight, and no module    *)
(* reference is taken for them: the mutex alone keeps the text of the engine   *)
(* that runs, and of the one registered, in memory.                            *)
EngineResident ==
  /\ engine # NoEngine => module[engine] = "live"
  /\ \A t \in Callers : pc[t] = "infer" =>
       running[t] # NoEngine /\ module[running[t]] = "live"

(* The engine a call runs on is the registered one to the end of the call, and *)
(* at most one call runs on an engine (the engines' counters rely on it).      *)
EngineSerialised ==
  \A t \in Callers : pc[t] = "infer" => running[t] = engine /\ lockOwner = t

(* Every system call that reaches the registry returns, whatever modules are   *)
(* loaded or removed meanwhile.                                                *)
SyscallReturns == \A t \in Callers : pc[t] = "call" ~> pc[t] = "user"

=============================================================================
