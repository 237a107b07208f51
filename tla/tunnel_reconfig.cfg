SPECIFICATION Spec
CONSTANTS
  Users = {u1, u2}
  Proxies = {p1, p2}
  Ctls = {c1, c2}
  None = None
  MaxBreaks = 1
  MaxUp = 0
  MaxDown = 0
  MaxReconfigs = 2
  PoolMax = 1
SYMMETRY Symmetry
INVARIANTS RouteIsRegistered WaitingUserPending
PROPERTIES BindOnceWhileOpen
CHECK_DEADLOCK FALSE
