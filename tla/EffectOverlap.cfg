SPECIFICATION DispatchSpec
CONSTANTS
    w1 = w1
    w2 = w2
    sent = sent
    asked = asked
    written = written
    platform = platform
    Workers = {w1, w2}
    Intents = {sent, asked, written}
    Connector = {sent}
    Outreach = {asked}
    Platform = platform
    LeaseTime = 1
    MaxDispatches = 3
    MaxTroubles = 1
SYMMETRY WorkerSymmetry
INVARIANT DispatchTypeOK
INVARIANT OneWithinLease
INVARIANT LeaseHasHolder
INVARIANT RecordsTruthful
CHECK_DEADLOCK FALSE
