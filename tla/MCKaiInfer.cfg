SPECIFICATION Spec
CONSTANTS
  Threads = {t1}
  Updaters = {u1, u2}
  Batches = {b1}
  Names = {deepseek, other}
  Default = deepseek
  MaxArea = 3
  None = None
SYMMETRY Symmetry
INVARIANTS
  TypeOK
  CurrentWeightsLive
  CacheFollowsModel
\* Module exit may hang on its own lock, and callers then wait for ever.
CHECK_DEADLOCK FALSE
