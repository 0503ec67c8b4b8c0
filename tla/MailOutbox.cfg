SPECIFICATION FairOutboxSpec
CONSTANTS
    Mail = {m1}
    Peer = {p1}
    To <- OnePeer
    OutboxExpiry = 1
    OutboxRetention = 0
    Batch = 2
    MaxKey = 2
    MaxDay = 1
    MaxEdges = 1
INVARIANTS
    OpenRowIsSendable
    NoMissedEdge
PROPERTIES
    ReportedStateStands
    EveryMailEnds
