SPECIFICATION ConsentSpec
CONSTANTS
    Approvals <- MCApprovals
    ApprovalLimits <- MCApprovalLimits
    Ids <- MCIds
    GrantOf <- MCGrantOf
    PolicyOf <- MCPolicyOf
    Sessions <- MCSessions
    MaxPolicies = 1
    MaxHeldLive = 1
    GrantPlans <- MCGrantPlans
INVARIANTS
    DecidedOnce
    AccessEndsWithItsGround
    
PROPERTIES
    KeepsContract
    EveryRowIsDecided
    GrantsFollowAuthority
CHECK_DEADLOCK FALSE
