\* The tests of harness.cfg, and no objects without a type: what is expected of the
\* additional configs.
SPECIFICATION Spec
CONSTANTS
  thing = thing
  loose = loose
  stranger = stranger
  n = n
  m = m
  x = x
  y = y
  NoName = NoName
  Any = Any
  Scheme = {thing}
  Untyped = {}
  Suites <- MCSuites
  Calls <- MCCalls
  Outcomes <- MCOutcomes
  MaxCalls = 2
INVARIANT GreenIsRight
\* Suites end, and panics end them early.
CHECK_DEADLOCK FALSE
