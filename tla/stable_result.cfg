SPECIFICATION FairSpec
CONSTANTS
    apple = apple
    pear = pear
    Method <- AllMethods
    Activity <- EitherActivity
    Option <- TwoOptions
    Result <- SnapshotResult
    Duration = 4
    WindowPercent = 50
    ExtensionPercent = 50
    MaxOutage = 2
    MaxTime = 12
    MaxEscalations = 1
CHECK_DEADLOCK FALSE
INVARIANTS
    TypeOK
    BudgetKept
PROPERTIES
    OriginalDeadlineKept
    NoUnstableClose
    VotingCloses
