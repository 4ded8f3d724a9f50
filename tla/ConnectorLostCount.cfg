SPECIFICATION MCSpec
CONSTANTS
    c1 = c1
    c2 = c2
    feedRead = feedRead
    taskClaim = taskClaim
    Calls = {c1, c2}
    Intents = {feedRead}
    Few = {feedRead}
    MaxTogether = 2
    LastTogether = 1
    MaxRetries = 2
    Threshold = 2
    Cooldown = 2
    RetryAfter = {1}
    MaxTime = 2
    MaxBegun = 2
    MaxFailures = 0
INVARIANT RepeatedFailureBlocks
CHECK_DEADLOCK FALSE
