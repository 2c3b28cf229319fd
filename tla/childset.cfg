\* Two children under one finalizer, or with owner references; three disturbances at a time.
SPECIFICATION FairSpec
CONSTANTS
  N = 2
  v1 = v1
  v2 = v2
  bad = bad
  Values = {v1, v2, bad}
  Invalid = {bad}
  NoChild = NoChild
  Paused = {hold}
  Broken = {broken}
  SlowDelete = TRUE
  Sets <- MCSets
  Setups <- MCSetups
  Budgets <- MCBudgets
INVARIANTS
  TypeOK
  Honest
  QuietIsWhole
PROPERTIES
  ImplementsContract
  Converges
  Terminates
\* The controller may come to rest.
CHECK_DEADLOCK FALSE
