SPECIFICATION Spec
CONSTANTS
  Conns = {c1, c2}
  Ids = {k1}
  Topics = {t1}
  Profiles <- MCProfiles
  None = None
  Server = Server
CHECK_DEADLOCK FALSE
INVARIANT OneOpenPerId
