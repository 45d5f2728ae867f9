\* Two applications that come, change and go, and may be malformed for a while.
SPECIFICATION FairSpec
CONSTANTS
  a1 = a1
  a2 = a2
  s1 = s1
  s2 = s2
  bad = bad
  g1 = g1
  g2 = g2
  App = {a1, a2}
  AppSpec = {s1, s2, bad}
  Malformed = {bad}
  Torn = Torn
  None = None
  Goroutine = {g1, g2}
  MaxChanges = 2
  MaxRestarts = 1
INVARIANTS
  TypeOK
  OneChecker
PROPERTIES
  Converges
  ImplementsPool
