SPECIFICATION Spec
CONSTANTS
    r1 = r1
    r2 = r2
    worker = worker
    none = none
    alice = alice
    bob = bob
    yes = yes
    no = no
    blank = blank
    uncounted = uncounted
    Request <- OneRequest
    Worker = worker
    NoProc = none
    Voter <- Voters
    Author = alice
    Ballot <- TwoBallots
    NoBallot = blank
    NoBox = uncounted
    Passing <- PassingBoxes
    Capped <- CappedBoxes
    Methods <- Experimental
    Gating <- NotGated
    PreVoting = TRUE
    Automation = TRUE
    MaxExtensions = 1
    Threshold = 2
    Operations <- AdvanceAndArchive
CHECK_DEADLOCK FALSE
PROPERTY
    WithdrawnIsFinal
