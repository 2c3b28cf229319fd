\* Two dependents, one other condition, up to three calls in a request.
SPECIFICATION Spec
CONSTANTS
  Ready = Ready  A = A  B = B  X = X
  Types = {Ready, A, B, X}
  Happy = Ready
  Dependents = {A, B}
  Reasons = {r}
  HappyReason = HappyReason
  Initializing = Initializing
  Unset = Unset
  MaxMarks = 3
SYMMETRY Interchangeable
INVARIANTS TypeOK HappyTracks StatusSettles
