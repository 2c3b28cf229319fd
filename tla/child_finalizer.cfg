\* A finalizer, generated names, slow deletes, children listed from the API server;
\* failed calls and a crash.
SPECIFICATION Spec
CONSTANTS
  Values = {v1}
  Invalid = {}
  Paused = {hold}
  Names = {n1, n2, n3}
  SlowDelete = TRUE
  SkipOwnerReference = TRUE
  UseFinalizer = TRUE
  GenerateName = TRUE
  SameNamespace = TRUE
  CachedList = FALSE
  NoChild = NoChild
  NoName = NoName
  Budgets <- Lifecycle
INVARIANTS
  TypeOK
  NoOrphan
  Honest
  ObservedWanted
  AtMostOne
PROPERTIES
  ImplementsContract
\* The controller may come to rest.
CHECK_DEADLOCK FALSE
