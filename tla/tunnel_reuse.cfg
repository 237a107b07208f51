SPECIFICATION FairSpec
CONSTANTS
  Users = {u1, u2}
  Proxies = {p1, p2}
  Ctls = {c1}
  None = None
  MaxBreaks = 0
  MaxUp = 0
  MaxDown = 0
  MaxReconfigs = 0
  PoolMax = 1
PROPERTIES DisconnectedByItsBackend
CHECK_DEADLOCK FALSE
