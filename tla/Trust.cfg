SPECIFICATION TrustSpec
CONSTANTS
    Plans <- MCPlans
    maxAttempts = 2
    maxRedemptions = 3
    maxLookupRetries = 1
    Owner = o
    m1 = m1
    m2 = m2
    Members = {m1, m2}
    MaxSkew = 0
    MaxMembers = 3
    Lives <- MCLives
    Devices = {"a", "b", "c"}
    LinkCalls = {"c1", "c2", "c3"}
    MaxHelpers = 1
    IntentTTL = 2
    Linkings <- MCLinkings
    Ctls = {"k"}
    Reqs = {"r1", "r2", "r3"}
    Setters = {"s1", "s2"}
    maxQueuedRuns = 1
    maxRunsPerDay = 2
    runWindow = 1
    Duties <- MCDuties
INVARIANTS
    PairingsAgree
    LinksAreSound
    RunsUnderControl
PROPERTIES
    PairingsEnd
    
    RunsEnd
CHECK_DEADLOCK FALSE
