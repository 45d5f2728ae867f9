\* A global secret left without entries.
SPECIFICATION FreshSpec
CONSTANTS
  p1 = p1
  p2 = p2
  k1 = k1
  k2 = k2
  v1 = v1
  v2 = v2
  Proc = {p1}
  Key = {k1, k2}
  Value = {v1}
  NoValue = NoValue
  MaxRuns = 2
INVARIANTS
  GeneratesMissing
\* The processes are commands: they end, and so does the behaviour.
CHECK_DEADLOCK FALSE
