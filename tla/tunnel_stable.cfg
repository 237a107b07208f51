SPECIFICATION FairSpec
CONSTANTS
  Users = {u1, u2}
  Proxies = {p1, p2}
  Ctls = {c1}
  None = None
  MaxBreaks = 0
  MaxUp = 1
  MaxDown = 1
  MaxReconfigs = 0
  PoolMax = 0
PROPERTIES WaitingUserResolved BackendReleased ProxyReleased
CHECK_DEADLOCK FALSE
