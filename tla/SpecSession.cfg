SPECIFICATION Spec
CONSTANTS
  Nil = Nil
  Closed = Closed
  Bad = Bad
  MaxCost = 3
  Writer = {w1, w2}
  Host = {w1}
  Tool = {t1}
  Params <- MCParams
  Config <- MCConfig
  Transitions <- MCTransitions
  Estimate = {0, 3}
  Cost = {1, 3}
  Nonce = {n1, n2, n3}
  Rng = {0, 99}
  MaxLines = 4
  MaxRunning = 2
INVARIANTS SessionInv CoreDiffersOnlyOnParameters ValidHoldsAcknowledged SoleWriterVerifies
CHECK_DEADLOCK FALSE
SYMMETRY Nonces
