SPECIFICATION Spec
CONSTANTS
    alice = alice
    bob = bob
    roads = roads
    everything = everything
    h1 = h1
    h2 = h2
    Users <- TwoUsers
    Topics <- OneTopic
    Global = everything
    Handlers <- TwoHandlers
    Operations <- AllOps
    Policies <- AnyPolicy
    MaxRequests = 4
CHECK_DEADLOCK FALSE
SYMMETRY Symmetry
INVARIANTS
    TypeOK
    TwoConsents
    AskedOnce
PROPERTY WithdrawnForGood
