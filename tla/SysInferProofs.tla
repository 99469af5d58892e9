--------------------------- MODULE SysInferProofs ---------------------------
(* Proofs about sys_infer() and its engine registry, for any number of        *)
(* callers and engines and any concurrency limit.                             *)
EXTENDS SysInfer, FiniteSetTheorems, TLAPS

(* Where the mutex stands: its holder is the only caller between the lock and  *)
(* the unlock, and the engine it picked up is still the registered one.        *)
LockHeld ==
  \A t \in Callers :
    /\ pc[t] \in {"infer", "unlock"} <=> lockOwner = t
    /\ pc[t] = "infer" => running[t] = engine /\ engine # NoEngine

(* Kernel callers never enter the part of the call that counts permits.        *)
KernelPath ==
  \A t \in KernelCallers : pc[t] \in {"user", "call", "infer", "unlock"}

(* The typing that needs no accounting: TypeOK without active \in Nat.         *)
Typing ==
  /\ engine \in Engines \cup {NoEngine}
  /\ lockOwner \in Callers \cup {NoOwner}
  /\ module \in [Engines -> {"absent", "loading", "live", "exiting"}]
  /\ pc \in [Callers -> PcValues]
  /\ inbuf \in [Callers -> BOOLEAN]
  /\ outbuf \in [Callers -> BOOLEAN]
  /\ running \in [Callers -> Engines \cup {NoEngine}]
  /\ ret \in [Callers -> RetValues]

(* A registered engine is a live module.                                       *)
RegisteredLive == engine # NoEngine => module[engine] = "live"

IInv ==
  /\ Typing
  /\ PermitAccounting
  /\ AdmissionBound
  /\ LockHeld
  /\ KernelPath
  /\ RegisteredLive

-----------------------------------------------------------------------------
(* How one caller's move changes the set of callers that hold a permit.        *)

LEMMA CountedFinite ==
  /\ IsFiniteSet(Counted) /\ IsFiniteSet(Admitted)
  /\ IsFiniteSet(Counted') /\ IsFiniteSet(Admitted')
  BY FS_Subset, SysInferAssumption DEF Counted, Admitted

LEMMA CountUp ==
  ASSUME NEW t \in Syscalls, pc \in [Callers -> PcValues], pc[t] = "user",
         NEW to \in PcValues \ {"user"}, pc' = [pc EXCEPT ![t] = to]
  PROVE  Cardinality(Counted') = Cardinality(Counted) + 1
<1>1. Counted' = Counted \cup {t} /\ t \notin Counted
  BY DEF Counted, Callers
<1> QED BY <1>1, CountedFinite, FS_AddElement

LEMMA CountDown ==
  ASSUME NEW t \in Syscalls, pc \in [Callers -> PcValues], pc[t] # "user",
         pc' = [pc EXCEPT ![t] = "user"]
  PROVE  Cardinality(Counted') = Cardinality(Counted) - 1
<1>1. Counted' = Counted \ {t} /\ t \in Counted
  BY DEF Counted, Callers
<1> QED BY <1>1, CountedFinite, FS_RemoveElement

LEMMA CountSame ==
  ASSUME NEW t \in Callers, pc \in [Callers -> PcValues],
         NEW to \in PcValues, pc' = [pc EXCEPT ![t] = to],
         t \in Syscalls => pc[t] # "user" /\ to # "user"
  PROVE  Counted' = Counted
  BY DEF Counted, Callers

(* A step that admits nobody keeps the bound.                                  *)
LEMMA FewerAdmitted ==
  ASSUME AdmissionBound, Admitted' \subseteq Admitted
  PROVE  AdmissionBound'
<1>1. /\ Cardinality(Admitted') <= Cardinality(Admitted)
      /\ Cardinality(Admitted') \in Nat /\ Cardinality(Admitted) \in Nat
  BY CountedFinite, FS_Subset, FS_CardinalityType
<1> QED BY <1>1, SysInferAssumption DEF AdmissionBound

-----------------------------------------------------------------------------
(* One lemma per group of actions.                                             *)

LEMMA InitIInv == Init => IInv
<1> SUFFICES ASSUME Init PROVE IInv
  OBVIOUS
<1>1. Counted = {} /\ Admitted = {}
  BY DEF Init, Counted, Admitted, Callers
<1>2. PermitAccounting /\ AdmissionBound
  BY <1>1, FS_EmptySet, SysInferAssumption DEF Init, PermitAccounting, AdmissionBound
<1>3. Typing
  BY DEF Init, Typing, PcValues, RetValues
<1>4. LockHeld /\ KernelPath /\ RegisteredLive
  BY SysInferAssumption DEF Init, LockHeld, KernelPath, RegisteredLive, Callers
<1> QED BY <1>2, <1>3, <1>4 DEF IInv

LEMMA CheckPermIInv ==
  ASSUME IInv, NEW t \in Syscalls, CheckPerm(t)
  PROVE  IInv'
<1> USE DEF CheckPerm, Goto
<1>1. Typing'
  BY DEF IInv, Typing, PcValues, Callers
<1>2. PermitAccounting'
  <2>1. Cardinality(Counted') = Cardinality(Counted) + 1
    <3> DEFINE to == IF TooMany THEN "overlimit" ELSE "args"
    <3>1. /\ pc \in [Callers -> PcValues] /\ pc[t] = "user"
          /\ to \in PcValues \ {"user"} /\ pc' = [pc EXCEPT ![t] = to]
      BY DEF IInv, Typing, PcValues
    <3> HIDE DEF to
    <3> QED BY <3>1, CountUp
  <2> QED BY <2>1 DEF IInv, PermitAccounting
<1>3. AdmissionBound'
  <2>1. CASE TooMany
    <3>1. Admitted' = Admitted
      BY <2>1 DEF Admitted, IInv, Typing, Callers
    <3> QED BY <3>1, FewerAdmitted DEF IInv
  <2>2. CASE ~TooMany
    <3>1. Admitted' \subseteq Counted'
      BY DEF Admitted, Counted
    <3>2. Cardinality(Counted') \in Nat /\ IsFiniteSet(Counted')
      BY CountedFinite, FS_CardinalityType
    <3>3. Cardinality(Admitted') <= Cardinality(Counted') /\ Cardinality(Admitted') \in Nat
      BY <3>1, <3>2, FS_Subset, FS_CardinalityType
    <3>4. Cardinality(Counted) \in Nat
      BY CountedFinite, FS_CardinalityType
    <3>5. Cardinality(Counted') = active + 1 /\ active \in Nat
      BY <1>2, <3>4 DEF PermitAccounting, IInv
    <3> QED BY <2>2, <3>3, <3>5, SysInferAssumption DEF TooMany, AdmissionBound
  <2> QED BY <2>1, <2>2
<1>4. LockHeld' /\ KernelPath' /\ RegisteredLive'
  BY SysInferAssumption DEF IInv, Typing, LockHeld, KernelPath, RegisteredLive, Callers
<1> QED BY <1>1, <1>2, <1>3, <1>4 DEF IInv

(* The two steps that give a permit back.                                      *)
LEMMA GiveBackIInv ==
  ASSUME IInv, NEW t \in Syscalls, OverLimit(t) \/ PutPerm(t)
  PROVE  IInv'
<1> USE DEF OverLimit, PutPerm, Goto
<1>1. Typing'
  BY DEF IInv, Typing, PcValues, RetValues, Callers
<1>2. PermitAccounting'
  BY CountDown DEF IInv, Typing, PermitAccounting
<1>3. AdmissionBound'
  <2>1. Admitted' \subseteq Admitted
    BY DEF Admitted, IInv, Typing, Callers
  <2> QED BY <2>1, FewerAdmitted DEF IInv
<1>4. LockHeld' /\ KernelPath' /\ RegisteredLive'
  BY SysInferAssumption DEF IInv, Typing, LockHeld, KernelPath, RegisteredLive, Callers
<1> QED BY <1>1, <1>2, <1>3, <1>4 DEF IInv

(* Steps inside the system call that touch only the caller's own state.        *)
LEMMA LocalIInv ==
  ASSUME IInv, NEW t \in Syscalls,
         \/ BadArguments(t) \/ CopyIn(t) \/ PrepareOutput(t)
         \/ NoMemoryForOutput(t) \/ Reply(t) \/ FreeOutput(t) \/ FreeInput(t)
  PROVE  IInv'
<1> USE DEF BadArguments, CopyIn, PrepareOutput, NoMemoryForOutput, Reply,
            FreeOutput, FreeInput, Goto
<1>0. PICK from, to \in PcValues \ {"user", "overlimit", "infer", "unlock"} :
        pc[t] = from /\ pc' = [pc EXCEPT ![t] = to]
  BY DEF PcValues
<1>1. Typing'
  <2>1. t \in Callers /\ Typing
    BY DEF IInv, Callers
  <2>2. pc' \in [Callers -> PcValues]
    BY <1>0, <2>1 DEF Typing
  <2>3. inbuf' \in [Callers -> BOOLEAN] /\ outbuf' \in [Callers -> BOOLEAN]
    BY <2>1 DEF Typing
  <2>4. ret' \in [Callers -> RetValues]
    BY <2>1 DEF Typing, RetValues
  <2>5. UNCHANGED <<engine, lockOwner, module, active, running>>
    OBVIOUS
  <2> QED BY <2>1, <2>2, <2>3, <2>4, <2>5 DEF Typing
<1>2. PermitAccounting'
  BY <1>0, CountSame DEF IInv, Typing, PermitAccounting, Callers
<1>3. AdmissionBound'
  <2>1. Admitted' \subseteq Admitted
    BY <1>0 DEF Admitted, IInv, Typing, Callers
  <2> QED BY <2>1, FewerAdmitted DEF IInv
<1>4. LockHeld' /\ KernelPath' /\ RegisteredLive'
  BY <1>0, SysInferAssumption DEF IInv, Typing, LockHeld, KernelPath, RegisteredLive, Callers
<1> QED BY <1>1, <1>2, <1>3, <1>4 DEF IInv

(* Steps of kai_engine_infer(), and the kernel caller's entry.                 *)
LEMMA CallIInv ==
  ASSUME IInv, NEW t \in Callers,
         CallStep(t) \/ (t \in KernelCallers /\ KernelCall(t))
  PROVE  IInv'
<1> USE DEF CallStep, LockEngine, InferReturns, UnlockEngine, ReleaseLock, KernelCall, Goto
<1>0. /\ t \in Syscalls => pc[t] # "user" /\ pc'[t] # "user"
      /\ \E to \in PcValues : pc' = [pc EXCEPT ![t] = to]
  BY SysInferAssumption DEF PcValues, IInv, Typing, Callers
<1>1. Typing'
  BY DEF IInv, Typing, PcValues, RetValues, Callers
<1>2. Counted' = Counted
  BY <1>0, CountSame DEF IInv, Typing
<1>3. PermitAccounting'
  BY <1>2 DEF IInv, PermitAccounting
<1>4. AdmissionBound'
  <2>1. Admitted' \subseteq Admitted
    BY SysInferAssumption DEF Admitted, IInv, Typing, Callers
  <2> QED BY <2>1, FewerAdmitted DEF IInv
<1>5. LockHeld'
  <2>1. CASE LockEngine(t)
    BY <2>1, SysInferAssumption DEF IInv, Typing, LockHeld, Callers
  <2>2. CASE InferReturns(t)
    BY <2>2 DEF IInv, Typing, LockHeld
  <2>3. CASE UnlockEngine(t)
    BY <2>3, SysInferAssumption DEF IInv, Typing, LockHeld, Callers
  <2>4. CASE t \in KernelCallers /\ KernelCall(t)
    BY <2>4 DEF IInv, Typing, LockHeld
  <2> QED BY <2>1, <2>2, <2>3, <2>4
<1>6. KernelPath' /\ RegisteredLive'
  BY SysInferAssumption DEF IInv, Typing, KernelPath, RegisteredLive, Callers
<1> QED BY <1>1, <1>3, <1>4, <1>5, <1>6 DEF IInv

(* Engine modules: registration and removal wait for the mutex, so they find   *)
(* no call in the middle of an inference.                                      *)
LEMMA ModuleIInv ==
  ASSUME IInv, NEW e \in Engines, ModuleStep(e)
  PROVE  IInv'
<1> USE DEF ModuleStep, Insmod, Register, Unregister, FreeModule, RegistryLockable
<1>1. Typing' /\ KernelPath'
  BY DEF IInv, Typing, KernelPath
<1>2. PermitAccounting' /\ AdmissionBound'
  BY DEF IInv, PermitAccounting, AdmissionBound, Counted, Admitted
<1>3. LockHeld'
  BY SysInferAssumption DEF IInv, LockHeld, Callers
<1>4. RegisteredLive'
  BY SysInferAssumption DEF IInv, Typing, RegisteredLive
<1> QED BY <1>1, <1>2, <1>3, <1>4 DEF IInv

LEMMA NextIInv == IInv /\ [Next]_vars => IInv'
<1> SUFFICES ASSUME IInv, [Next]_vars PROVE IInv'
  OBVIOUS
<1>1. CASE UNCHANGED vars
  BY <1>1 DEF vars, IInv, Typing, PermitAccounting, AdmissionBound, LockHeld,
              KernelPath, RegisteredLive, Counted, Admitted
<1>2. ASSUME NEW t \in Syscalls, SyscallStep(t) PROVE IInv'
  BY <1>2, CheckPermIInv, GiveBackIInv, LocalIInv DEF SyscallStep
<1>3. ASSUME NEW t \in KernelCallers, KernelCall(t) PROVE IInv'
  BY <1>3, CallIInv DEF Callers
<1>4. ASSUME NEW t \in Callers, CallStep(t) PROVE IInv'
  BY <1>4, CallIInv
<1>5. ASSUME NEW e \in Engines, ModuleStep(e) PROVE IInv'
  BY <1>5, ModuleIInv
<1> QED BY <1>1, <1>2, <1>3, <1>4, <1>5 DEF Next

-----------------------------------------------------------------------------
(* The theorems.                                                               *)

(* The inductive invariant holds in every reachable state.                     *)
THEOREM InductiveInvariant == Spec => []IInv
  BY InitIInv, NextIInv, PTL DEF Spec

(* The type invariant; that kai_active stays a natural number is the part that *)
(* needs the accounting: an extra decrement would take it below zero.          *)
THEOREM TypeCorrect == Spec => []TypeOK
<1>1. IInv => TypeOK
  BY CountedFinite, FS_CardinalityType DEF IInv, Typing, PermitAccounting, TypeOK
<1> QED BY <1>1, InductiveInvariant, PTL

(* kai_active is exact, for any number of tasks and any interleaving.          *)
THEOREM PermitsExact == Spec => []PermitAccounting
<1>1. IInv => PermitAccounting
  BY DEF IInv
<1> QED BY <1>1, InductiveInvariant, PTL

(* Never more than MaxConcurrent calls are admitted at once.                   *)
THEOREM AdmissionBounded == Spec => []AdmissionBound
<1>1. IInv => AdmissionBound
  BY DEF IInv
<1> QED BY <1>1, InductiveInvariant, PTL

(* No call runs in a module whose text may be freed.                           *)
THEOREM EngineStaysResident == Spec => []EngineResident
<1>1. IInv => EngineResident
  BY DEF IInv, LockHeld, RegisteredLive, EngineResident
<1> QED BY <1>1, InductiveInvariant, PTL

(* Calls are serialised on the engine that is registered.                      *)
THEOREM EnginesSerialised == Spec => []EngineSerialised
<1>1. IInv => EngineSerialised
  BY DEF IInv, LockHeld, EngineSerialised
<1> QED BY <1>1, InductiveInvariant, PTL

(* Kernel callers own no buffers: the engine works on theirs directly.         *)
Buffers == BuffersBalanced /\ \A t \in KernelCallers : ~inbuf[t]

LEMMA BuffersStep == IInv /\ Buffers /\ [Next]_vars => Buffers'
<1> SUFFICES ASSUME IInv, Buffers, [Next]_vars PROVE Buffers'
  OBVIOUS
<1> USE SysInferAssumption DEF IInv, Typing, KernelPath, Buffers, BuffersBalanced, Callers
<1>1. CASE UNCHANGED vars
  BY <1>1 DEF vars
<1>2. ASSUME NEW t \in Syscalls, CheckPerm(t) \/ OverLimit(t) PROVE Buffers'
  BY <1>2 DEF CheckPerm, OverLimit, Goto
<1>3. ASSUME NEW t \in Syscalls, BadArguments(t) \/ CopyIn(t) PROVE Buffers'
  BY <1>3 DEF BadArguments, CopyIn, Goto
<1>4. ASSUME NEW t \in Syscalls, PrepareOutput(t) \/ NoMemoryForOutput(t) PROVE Buffers'
  BY <1>4 DEF PrepareOutput, NoMemoryForOutput, Goto
<1>5. ASSUME NEW t \in Syscalls, Reply(t) \/ PutPerm(t) PROVE Buffers'
  BY <1>5 DEF Reply, PutPerm, Goto
<1>6. ASSUME NEW t \in Syscalls, FreeOutput(t) \/ FreeInput(t) PROVE Buffers'
  BY <1>6 DEF FreeOutput, FreeInput, Goto
<1>7. ASSUME NEW t \in KernelCallers, KernelCall(t) PROVE Buffers'
  BY <1>7 DEF KernelCall, Goto
<1>8. ASSUME NEW t \in Callers, CallStep(t) PROVE Buffers'
  BY <1>8 DEF CallStep, LockEngine, InferReturns, UnlockEngine, Goto
<1>9. ASSUME NEW e \in Engines, ModuleStep(e) PROVE Buffers'
  BY <1>9 DEF ModuleStep, Insmod, Register, Unregister, FreeModule
<1> QED BY <1>1, <1>2, <1>3, <1>4, <1>5, <1>6, <1>7, <1>8, <1>9 DEF Next, SyscallStep

(* Every exit label frees exactly what was allocated.                          *)
THEOREM BuffersAlwaysBalanced == Spec => []BuffersBalanced
<1>1. Init => Buffers
  BY SysInferAssumption DEF Init, Buffers, BuffersBalanced, Callers
<1>2. Buffers => BuffersBalanced
  BY DEF Buffers
<1> QED BY <1>1, <1>2, BuffersStep, InductiveInvariant, PTL DEF Spec
=============================================================================
