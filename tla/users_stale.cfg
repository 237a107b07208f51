SPECIFICATION Spec
CONSTANTS
  Users = {u1}
  Proxies = {p1}
  Ctls = {c1}
  Web = web
  None = None
  NoKey = NoKey
  lan1 = lan1
  lan2 = lan2
  Lans <- LansMoved
PROPERTIES
  KeptUserIsCurrent
CHECK_DEADLOCK FALSE
