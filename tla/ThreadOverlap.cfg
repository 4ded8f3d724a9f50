SPECIFICATION Spec
CONSTANTS
    b1 = b1
    b2 = b2
    t1 = t1
    t2 = t2
    Beats = {b1, b2}
    Topics = {t1}
    MaxSteps = 2
    StaleHeartbeats = 1
    MaxEvents = 4
SYMMETRY BeatSymmetry
INVARIANT TypeOK
INVARIANT RecordsAgree
INVARIANT ThreadBounded
PROPERTY LedgerRefined
CHECK_DEADLOCK FALSE
