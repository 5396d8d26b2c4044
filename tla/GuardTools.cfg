CONSTANTS
  Nil = Nil
  Bad = Bad
  NonceCap = 8
  Thread = {m, w}
  Main = m
  OnLoop = {}
  Tool = {ta}
  Input = {err, opq}
  ErrorInput = {err}
  OpaqueInput = {opq}
  MalformedInput = {mal}
  CallId = {}
  Cost = {1, 2}
  Answer = {"R", "S", "A"}
  FaultyOutcome <- MCFaultyOutcome
  Accountant = acct
  Budget = 2
  MaxRepeat = 3
  MaxToolCalls = 4
  Timeout = 0
  MaxClock = 1
  MaxSpend = 2
  MaxCalls = 5
SPECIFICATION Spec
INVARIANT LoopBound
PROPERTY PressureNeverLoosens
CHECK_DEADLOCK FALSE
