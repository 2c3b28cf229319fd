\* Lagging caches, a finalizer, children slow to go away, and foreign objects that
\* compete for the name, any three disturbances, under the fairness of the work
\* queue, the informers and the cluster.
SPECIFICATION FairSpec
CONSTANTS
  Values = {v1, v2}
  Invalid = {}
  Paused = {}
  Names = {n1}
  SlowDelete = TRUE
  SkipOwnerReference = TRUE
  UseFinalizer = TRUE
  GenerateName = FALSE
  SameNamespace = TRUE
  CachedList = TRUE
  NoChild = NoChild
  NoName = NoName
  Budgets <- Contention
PROPERTIES
  CreateUnderFinalizer
  ForeignKept
  NoFalseConflict
  Converges
  Terminates
INVARIANTS
  NoLostWakeup
\* The controller may come to rest.
CHECK_DEADLOCK FALSE
