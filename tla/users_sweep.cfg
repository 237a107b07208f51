SPECIFICATION Spec
CONSTANTS
  Users = {u1, u2}
  Proxies = {p1}
  Ctls = {c1}
  Web = web
  None = None
  NoKey = NoKey
  lan1 = lan1
  lan2 = lan2
  Lans <- LansMoved
SYMMETRY Symmetric
INVARIANTS
  SweptUsersClosed
CHECK_DEADLOCK FALSE
