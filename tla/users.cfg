SPECIFICATION Spec
CONSTANTS
  Users = {u1, u2}
  Proxies = {p1}
  Ctls = {c1, c2}
  Web = web
  None = None
  NoKey = NoKey
  lan1 = lan1
  lan2 = lan2
  Lans <- LansAny
SYMMETRY Symmetric
VIEW Live
INVARIANTS
  TypeOK SettledUserRegistered BoundPairAgree BackendReachesItsUser
  CheckedUsersAreCurrent
CHECK_DEADLOCK FALSE
CONSTRAINT OneDisturbance
ACTION_CONSTRAINT OneSave
