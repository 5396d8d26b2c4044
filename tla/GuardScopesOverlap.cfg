CONSTANTS
  A = A
  B = B
  w1 = w1
  w2 = w2
  Scope = {A, B}
  Worker = {w1, w2}
  Original = Original
  Nil = Nil
  Programs <- TwoScopes
SPECIFICATION Spec
INVARIANT EndedScopesAreGone
CHECK_DEADLOCK FALSE
