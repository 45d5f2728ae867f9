\* Concurrent commands, on a new cluster or a used one.
SPECIFICATION Spec
CONSTANTS
  p1 = p1
  p2 = p2
  k1 = k1
  k2 = k2
  v1 = v1
  v2 = v2
  Proc = {p1, p2}
  Key = {k1, k2}
  Value = {v1, v2}
  NoValue = NoValue
  MaxRuns = 2
INVARIANTS
  TypeOK
  Agreed
PROPERTIES
  ImplementsVault
\* The processes are commands: they end, and so does the behaviour.
CHECK_DEADLOCK FALSE
