SPECIFICATION Spec
CONSTANTS
  Topics = {t1}
  None = None
  MaxPackets = 4
CHECK_DEADLOCK FALSE
INVARIANTS
  UnsubscribedForReal
