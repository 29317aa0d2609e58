SPECIFICATION Spec
CONSTANTS
    b1 = b1
    b2 = b2
    c1 = c1
    c2 = c2
    c3 = c3
    Brokers = {b1, b2}
    Conns = {c1, c2, c3}
    Home <- MCHome
    Id <- MCId
    Running = {b1}
    Connected = {c1}
    Wills <- MCWills
    Unsubscribed = {c1, c3}
    Packets <- MCPackets
    Modes = {"dropToQoS1"}
    Views = {"publishing", "cluster"}
    StoreQos0 = FALSE
    None = None
    MaxPubs = 2
CHECK_DEADLOCK FALSE
INVARIANTS PublishingTypeOK ClusterTypeOK AckedIsOut EndedIsAcked RetainedNoGap OneBrokerPerId KickedByRival
PROPERTIES HandoverSteps PublicationsEnd
