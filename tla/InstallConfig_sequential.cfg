\* One command at a time, each of which may stop half-way.
SPECIFICATION ConfigSpec
CONSTANTS
  p1 = p1
  p2 = p2
  k1 = k1
  k2 = k2
  u = u
  v1 = v1
  v2 = v2
  Proc = {p1}
  Name = {k1, k2, u}
  Param = {k1, k2}
  Value = {v1, v2}
  NoValue = NoValue
INVARIANTS
  ConfigTypeOK
PROPERTIES
  PreservesExisting
  EditsOwnKey
