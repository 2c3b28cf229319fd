\* Finalizer set, SkipOwnerReference left for validate() to imply.
SPECIFICATION Spec
CONSTANTS
  Values = {v1}
  Invalid = {}
  Paused = {}
  Names = {n1}
  SlowDelete = FALSE
  SkipOwnerReference = FALSE
  UseFinalizer = TRUE
  GenerateName = FALSE
  SameNamespace = TRUE
  CachedList = FALSE
  NoChild = NoChild
  NoName = NoName
  Budgets <- Editing
INVARIANTS
  ObservedWanted
\* The controller may come to rest.
CHECK_DEADLOCK FALSE
