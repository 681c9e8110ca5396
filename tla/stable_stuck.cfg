SPECIFICATION FairSpec
CONSTANTS
    apple = apple
    pear = pear
    Method <- RankedChoice
    Activity <- Required
    Option <- TwoOptions
    Result <- SnapshotResult
    Duration = 4
    WindowPercent = 50
    ExtensionPercent = 100
    MaxOutage = 1
    MaxTime = 16
    MaxEscalations = 1
CHECK_DEADLOCK FALSE
PROPERTY
    DeadlineHonoured
