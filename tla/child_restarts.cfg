\* Owned children with generated names, a lagging informer, failed calls and a
\* crash.
SPECIFICATION Spec
CONSTANTS
  Values = {v1, v2}
  Invalid = {v2}
  Paused = {}
  Names = {n1, n2, n3}
  SlowDelete = FALSE
  SkipOwnerReference = FALSE
  UseFinalizer = FALSE
  GenerateName = TRUE
  SameNamespace = TRUE
  CachedList = TRUE
  NoChild = NoChild
  NoName = NoName
  Budgets <- Restarts
INVARIANTS
  NoLostWakeup
  SettlesOnOne
\* The controller may come to rest.
CHECK_DEADLOCK FALSE
