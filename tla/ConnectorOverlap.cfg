SPECIFICATION MCFairSpec
CONSTANTS
    c1 = c1
    c2 = c2
    feedRead = feedRead
    taskClaim = taskClaim
    Calls = {c1, c2}
    Intents = {feedRead, taskClaim}
    Few = {feedRead}
    MaxTogether = 2
    LastTogether = 1
    MaxRetries = 2
    Threshold = 2
    Cooldown = 2
    RetryAfter = {1}
    MaxTime = 2
    MaxBegun = 3
    MaxFailures = 1
INVARIANT TypeOK
INVARIANT BlockJustified
INVARIANT CooldownHolds
PROPERTY CooldownKept
PROPERTY CallsReturn
PROPERTY BlockExpires
CHECK_DEADLOCK FALSE
