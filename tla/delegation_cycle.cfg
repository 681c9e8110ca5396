SPECIFICATION Spec
CONSTANTS
    alice = alice
    bob = bob
    roads = roads
    everything = everything
    h1 = h1
    h2 = h2
    Users <- TwoUsers
    Topics <- OneTopic
    Global = everything
    Handlers <- OneHandler
    Operations <- DirectOps
    Policies <- Approval
    MaxRequests = 3
CHECK_DEADLOCK FALSE
INVARIANT CyclesPrevented
