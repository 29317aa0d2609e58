SPECIFICATION Spec
CONSTANTS
  c1 = c1
  c2 = c2
  app = app
  sys = sys
  exact = exact
  hash = hash
  sysf = sysf
  Clients = {c1, c2}
  Topics <- MCTopics
  SysTopics = {sys}
  Filters <- MCFilters
  WildFilters = {hash}
  Matches <- MCMatches
  Subscribed <- MCSubscribed
  Qos <- MCQos
  IdRange = 3
  MaxInflight = 3
  MaxPubs = 3
CHECK_DEADLOCK FALSE
PROPERTY InflightCloseJustified
