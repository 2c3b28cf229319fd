\* The finalizer, when the list of children lags.
SPECIFICATION Spec
CONSTANTS
  Values = {v1}
  Invalid = {}
  Paused = {}
  Names = {n1}
  SlowDelete = FALSE
  SkipOwnerReference = TRUE
  UseFinalizer = TRUE
  GenerateName = FALSE
  SameNamespace = TRUE
  CachedList = TRUE
  NoChild = NoChild
  NoName = NoName
  Budgets <- Drifting
INVARIANTS
  NoOrphan
\* The controller may come to rest.
CHECK_DEADLOCK FALSE
