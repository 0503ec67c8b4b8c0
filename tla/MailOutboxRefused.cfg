SPECIFICATION OutboxSpec
CONSTANTS
    Mail = {m1}
    Peer = {p1}
    To <- OnePeer
    OutboxExpiry = 1
    OutboxRetention = 1
    Batch = 2
    MaxKey = 2
    MaxDay = 2
    MaxEdges = 1
INVARIANT
    RelayedWasNotRefused
