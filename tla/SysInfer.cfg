SPECIFICATION Spec
CONSTANTS
  Syscalls = {s1, s2}
  KernelCallers = {k1}
  Engines = {e1, e2}
  MaxConcurrent = 1
  NoEngine = NoEngine
  NoOwner = NoOwner
INVARIANTS
  TypeOK
  PermitAccounting
  AdmissionBound
  BuffersBalanced
  EngineResident
PROPERTIES
  SyscallReturns
