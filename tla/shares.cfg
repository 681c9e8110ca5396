SPECIFICATION Spec
CONSTANTS
    alice = alice
    bob = bob
    h1 = h1
    h2 = h2
    s1 = s1
    s2 = s2
    Free = free
    Members <- MCMembers
    Handlers <- MCHandlers
    Sweepers <- MCSweepers
    Operations <- AllOps
    Weights <- MCWeights
    Caps <- MCCaps
    Amount = 1
    CATCHUP_CAP = 2
    MaxClock = 3
    MaxRequests = 2
CHECK_DEADLOCK FALSE
INVARIANTS
    TypeOK
    GrantedOnce
    CapHolds
PROPERTIES
    BacklogCleared
