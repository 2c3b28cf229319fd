\* Every kind of sub reconciler and all three hosts.
SPECIFICATION FairSpec
CONSTANTS
  Unset = Unset
  NoObject = NoObject
  Objects <- MCObjects
  Programs <- MCPrograms
  Tree <- MCTree
  Configurations <- MCConfigurations
  Defaulted <- MCDefaulted
INVARIANTS
  RequestsTypeOK
  RequeueKept
  FailuresSurface
  ChangesKept
  NeverPanics
PROPERTIES
  FinallyCalled
  OthersKept
  RequestEnds
  SkipIsHarmless
  IdleOnce
  DesiredReached
\* A manager may be refused, or die.
CHECK_DEADLOCK FALSE
