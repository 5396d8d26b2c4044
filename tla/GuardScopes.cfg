CONSTANTS
  A = A
  B = B
  w1 = w1
  w2 = w2
  Scope = {A, B}
  Worker = {w1, w2}
  Original = Original
  Nil = Nil
  Programs <- SmallPrograms
SPECIFICATION Spec
INVARIANTS UsageInv NestedScopesCompose AbortStopsNested BookedOnce
CHECK_DEADLOCK FALSE
SYMMETRY Interchangeable
