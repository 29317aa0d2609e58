SPECIFICATION FairSpec
CONSTANTS
  Topics = {t1, t2}
  None = None
  MaxPackets = 2
CHECK_DEADLOCK FALSE
INVARIANTS
  TypeOK
  NoDeafEntry
  NoStrayHandler
  StoredWhenQuiet
  AnswersAreComing
PROPERTIES
  EveryPacketAnswered
  CloseEnds
