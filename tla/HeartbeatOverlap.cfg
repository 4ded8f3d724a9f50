SPECIFICATION MCSpec
CONSTANTS
    b2 = b2
    b1 = b1
    e1 = e1
    e2 = e2
    e3 = e3
    Beats = {b1, b2}
    Evidence = {e1, e2, e3}
    Sensitive = {e1}
    Few = {e1, e2}
    MaxTogether = 2
    MaxEvidence = 2
    MaxBegun = 3
    MaxFailures = 1
    MaxCrashes = 1
SYMMETRY BeatSymmetry
INVARIANT TypeOK
INVARIANT ClosedAsJudged
INVARIANT EvidenceOnce
INVARIANT Undisturbed
PROPERTY LedgerRefined
CHECK_DEADLOCK FALSE
