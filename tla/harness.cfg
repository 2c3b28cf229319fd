\* Tests of every sort, against every reconciler that makes up to two calls.
SPECIFICATION Spec
CONSTANTS
  thing = thing
  loose = loose
  stranger = stranger
  n = n
  m = m
  x = x
  y = y
  NoName = NoName
  Any = Any
  Scheme = {thing, loose}
  Untyped = {loose}
  Suites <- MCSuites
  Calls <- MCCalls
  Outcomes <- MCOutcomes
  MaxCalls = 2
INVARIANT DefaultIsRight
\* Suites end, and panics end them early.
CHECK_DEADLOCK FALSE
