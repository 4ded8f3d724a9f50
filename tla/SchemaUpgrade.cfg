SPECIFICATION DatabaseSpec
CONSTANTS
    Processes = {"p"}
    Latest = 10
    Adding = {1, 6, 10}
    Defended = {6, 10}
    OldVersions = {0, 4, 9, 10}
    MaxChanges = 1
    MaxOpenings = 1
INVARIANT UpgradeSucceeds
CHECK_DEADLOCK FALSE
