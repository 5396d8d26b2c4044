CONSTANTS
  Nil = Nil
  Bad = Bad
  NonceCap = 8
  Thread = {m, w, x}
  Main = m
  OnLoop = {}
  Tool = {ta}
  Input = {ok}
  ErrorInput = {err}
  OpaqueInput = {opq}
  MalformedInput = {mal}
  CallId = {}
  Cost = {1, 2}
  Answer = {"A"}
  FaultyOutcome <- MCFaultyOutcome
  Accountant = acct
  Budget = 3
  MaxRepeat = 2
  MaxToolCalls = 2
  Timeout = 0
  MaxClock = 1
  MaxSpend = 12
  MaxCalls = 1
SPECIFICATION Spec
INVARIANTS HeadlessSpendBound
SYMMETRY Workers
CHECK_DEADLOCK FALSE
