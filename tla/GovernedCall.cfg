CONSTANTS
  Nil = Nil
  r1 = r1
  r2 = r2
  Request = {r1, r2}
  Opaque <- SomeOpaque
  Production = TRUE
  MaxStarts = 2
SPECIFICATION Spec
INVARIANTS CallInv HeldRunsOnlyIfGranted
PROPERTY CallsAreAnswered
CHECK_DEADLOCK FALSE
