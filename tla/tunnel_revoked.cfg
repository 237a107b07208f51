SPECIFICATION FairSpec
CONSTANTS
  Users = {u1}
  Proxies = {p1}
  Ctls = {c1}
  None = None
  MaxBreaks = 0
  MaxUp = 0
  MaxDown = 0
  MaxReconfigs = 1
  PoolMax = 1
PROPERTIES ClientNotified
CHECK_DEADLOCK FALSE
