SPECIFICATION Spec
CONSTANTS
    alice = alice
    bob = bob
    carol = carol
    x = x
    y = y
    z = z
    roads = roads
    parks = parks
    Global = Global
    NoBallot = NoBallot
    NoRow = NoRow
    NoVoice = NoVoice
    TopRating = 2
    Voters <- MCVoters
    Polls <- MCPolls
    Abstain = Abstain
INVARIANTS
    TypeOK
    VoiceTraced
    StrategyNeedsChoice
    SharesAreVotes
    MedianRemovalExact
    SeatsAddUp
    ImmuneToArguments
    BlocRepresented
    EqualApprovalsEqualChances
    EnvelopeSpent
    MajorityRankingFunded
PROPERTY
    RaisingHelps
CHECK_DEADLOCK FALSE
