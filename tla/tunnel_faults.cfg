SPECIFICATION Spec
CONSTANTS
  Users = {u1, u2}
  Proxies = {p1, p2}
  Ctls = {c1, c2}
  None = None
  MaxBreaks = 1
  MaxUp = 2
  MaxDown = 0
  MaxReconfigs = 0
  PoolMax = 0
SYMMETRY Symmetry
INVARIANTS TypeOK BindingAgreement PoolExclusive OneUserPerProxy OpenUserSupervised LeftUserAnnounced NothingAbandoned
PROPERTIES UpstreamPipe
CHECK_DEADLOCK FALSE
