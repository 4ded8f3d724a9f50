SPECIFICATION FairSpec
CONSTANTS
    Checks = {c1}
    LastDay = 3
    DreamInterval = 2
    Contents = {"sensitive", "partial", "full"}
    UpgradedDb = TRUE
    MidnightOverlap = FALSE
    MaxFailures = 0
    MaxCrashes = 1
INVARIANT BackedRow
