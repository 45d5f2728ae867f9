\* Nodes that come, go and change their address; server and daemons restart.
SPECIFICATION FairSpec
CONSTANTS
  n1 = n1
  i1 = i1
  i2 = i2
  g1 = g1
  g2 = g2
  Node = {n1}
  Address = {i1, i2}
  None = None
  Goroutine = {g1, g2}
INVARIANTS
  TypeOK
  OneChecker
PROPERTIES
  Converges
  ImplementsPool
