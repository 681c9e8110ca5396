CONSTANTS
    alice = alice
    bob = bob
    carol = carol
    edit = edit
    c1 = c1
    c2 = c2
    h1 = h1
    h2 = h2
    Users <- MCUsers
    Actions <- MCActions
    Cells <- MCCells
    Payload <- MCPayload
    Handlers <- MCHandlers
    Thresholds <- MCThresholds
    MaxChanges = 1
SPECIFICATION Spec
INVARIANT
    NeverPartiallyApplied
CHECK_DEADLOCK FALSE
