CONSTANTS
  Nil = Nil
  Bad = Bad
  NonceCap = 8
  Request = {r1, r2, r3}
  Tool = {ta}
  Params = {p1, px}
  Opaque = {px}
  Cost = {10, 20}
  Limit = {10}
  DefaultLimit = 20
  MaxRepeat = 3
  HistoryCap = 3
  HourTtl = 2
  DayTtl = 3
  Grain = 10
  Slack = 1
  MaxSpent = 30
SPECIFICATION Spec
INVARIANTS StoreInv ReservedCoversHeld AllowIsChargeable QuietReleasesReserved DeniedReservesNothing
PROPERTIES CommitmentIsBounded ImplementsCapability DivergenceIsRounding
SYMMETRY Symmetric
