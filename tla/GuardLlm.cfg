CONSTANTS
  Nil = Nil
  Bad = Bad
  NonceCap = 8
  Thread = {m, w}
  Main = m
  OnLoop = {w}
  Tool = {ta}
  Input = {mal}
  ErrorInput = {err}
  OpaqueInput = {opq}
  MalformedInput = {mal}
  CallId = {c1}
  Cost = {1, 2}
  Answer = {"R", "S", "A"}
  FaultyOutcome <- MCFaultyOutcome
  Accountant = acct
  Budget = 2
  MaxRepeat = 2
  MaxToolCalls = 3
  Timeout = 0
  MaxClock = 1
  MaxSpend = 4
  MaxCalls = 1
SPECIFICATION Spec
INVARIANTS BookedWithinBudget LatchInv
PROPERTY FirstInterruptKept
CHECK_DEADLOCK FALSE
