CONSTANTS
  Nil = Nil
  Request = {r1, r2}
  Waiter = {w1, w2}
  Ws = {s1}
  HitlTtl = 2
  MaxPending = 1
SPECIFICATION Spec
INVARIANTS QueueInv IndexesAgree GrantedWasApproved TimedOutStaysRefused
PROPERTIES WaitersReturn ImplementsApproval
CHECK_DEADLOCK FALSE
