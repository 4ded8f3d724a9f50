SPECIFICATION Spec
CONSTANTS
    Checks = {c1, c2}
    LastDay = 2
    DreamInterval = 2
    Contents = {"placeholder", "full"}
    UpgradedDb = FALSE
    MidnightOverlap = FALSE
    MaxFailures = 1
    MaxCrashes = 1
SYMMETRY CheckSymmetry
INVARIANTS
    TypeOK
    OneRunPerDay
    DreamsApart
    OneActiveProjection
    BackedRow
    ScheduledNotPersisted
