SPECIFICATION FairSpec
CONSTANTS
  Conns = {c1, c2}
  Ids = {k1}
  Topics = {t1}
  Profiles <- MCLiveProfiles
  None = None
  Server = Server
CHECK_DEADLOCK FALSE
PROPERTIES
  HandoverImplemented
  HandshakeResolves
  CloseCompletes
  LostPeersAreReaped
  ServerCloseCompletes
