SPECIFICATION Spec
CONSTANTS
  k1 = k1
  k2 = k2
  p1 = p1
  p2 = p2
  c1 = c1
  c2 = c2
  c3 = c3
  Keys = {k1}
  Ports = {p1, p2}
  Chans = {c1, c2, c3}
  Web = Web
  None = None
  KeyOf <- OneKey
  Versions <- OneConfig
INVARIANTS RouteAlive
CHECK_DEADLOCK FALSE
