SPECIFICATION DispatchSpec
CONSTANTS
    w1 = w1
    w2 = w2
    sent = sent
    asked = asked
    written = written
    platform = platform
    Workers = {w1}
    Intents = {sent, asked, written}
    Connector = {sent}
    Outreach = {asked}
    Platform = platform
    LeaseTime = 1
    MaxDispatches = 2
    MaxTroubles = 0
INVARIANT NoGhostReplay
CHECK_DEADLOCK FALSE
