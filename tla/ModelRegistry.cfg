SPECIFICATION Spec
CONSTANTS
  Threads = {t1, t2}
  Requests = {q}
  Models = {m1, m2}
  Devices = {d}
  Names = {shared, private}
  None = None
INVARIANTS
  TypeOK
  NoUseAfterFree
  RefcountExact
  DeviceInUseLive
  ExitClean
PROPERTIES
  CallbackComes
\* The module can be unloaded, and then nothing happens any more.
CHECK_DEADLOCK FALSE
