SPECIFICATION FairSpec
CONSTANTS
    r1 = r1
    r2 = r2
    worker = worker
    none = none
    alice = alice
    bob = bob
    yes = yes
    no = no
    blank = blank
    uncounted = uncounted
    Request <- TwoRequests
    Worker = worker
    NoProc = none
    Voter <- Voters
    Author = alice
    Ballot <- TwoBallots
    NoBallot = blank
    NoBox = uncounted
    Passing <- PassingBoxes
    Capped <- CappedBoxes
    Methods <- Experimental
    Gating <- NotGated
    PreVoting = TRUE
    Automation = FALSE
    MaxExtensions = 2
    Threshold = 2
    Operations <- AllButDelete
CHECK_DEADLOCK FALSE
PROPERTIES
    ImplementsProposalStatus
    VotingEnds
