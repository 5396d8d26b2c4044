CONSTANTS
  Nil = Nil
  Bad = Bad
  NonceCap = 8
  d1 = d1
  d2 = d2
  c1 = c1
  c2 = c2
  Config <- MCConfig
  Dispatch = {d1, d2, d3}
  Model = {ma, mb}
  Content = {c1, c2, opq, mal, big}
  OpaqueContent = {opq}
  MalformedContent = {mal}
  RejectedContent = {big}
  Cost = {0, 1, 2}
  Transition <- MCTransition
  FaultyOutcome <- MCFaultyOutcome
SPECIFICATION Spec
INVARIANTS TypeOK ReleasesItsArguments NonceBoundReleasesNothing
PROPERTY ClosedStaysClosed
CHECK_DEADLOCK FALSE
