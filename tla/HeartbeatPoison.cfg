SPECIFICATION MCSpec
CONSTANTS
    b1 = b1
    b2 = b2
    e1 = e1
    e2 = e2
    e3 = e3
    Beats = {b1}
    Few = {e1}
    MaxTogether = 3
    Evidence = {e1}
    Sensitive = {e1}
    MaxEvidence = 2
    MaxBegun = 3
    MaxFailures = 1
    MaxCrashes = 0
INVARIANT DegradedOnlyByFailure
CHECK_DEADLOCK FALSE
