CONSTANTS
  l1 = l1
  l2 = l2
  s1 = s1
  s2 = s2
  k1 = k1
  k2 = k2
  i1 = i1
  i2 = i2
  h1 = h1
  h2 = h2
  Nil = Nil
  License = {l1, l2}
  Secret = {s1, s2}
  SigningKey = {k1, k2}
  KeyId = {i1, i2}
  Hardware = {h1, h2}
  Meta <- SmallMeta
  Env <- SmallEnv
  Preset <- SmallPreset
  MaxTime = 1
  MaxRows = 2
  MaxKills = 1
SPECIFICATION Spec
SYMMETRY Symmetry
INVARIANTS AuditInv RegisteredIsGenuine RefusedForAReason
CHECK_DEADLOCK FALSE
