SPECIFICATION ServicesSpec
CONSTANTS
    d1 = d1
    d2 = d2
    n1 = n1
    n2 = n2
    h1 = h1
    h2 = h2
    p1 = p1
    p2 = p2
    b1 = b1
    b2 = b2
    c1 = c1
    c2 = c2
    c3 = c3
    o1 = o1
    o2 = o2
    g1 = g1
    g2 = g2
    Editors = {d1, d2}
    MaxFrames = 3
    MaxEdits = 4
    Engines = {n1, n2}
    MaxVersions = 3
    Routines = {"r"}
    Hands = {h1, h2}
    ReadCaps = {"read"}
    WriteCaps = {"write"}
    MaxCalls = 3
    Processes = {p1, p2}
    Latest = 10
    Adding = {1, 6, 10}
    Defended = {6, 10}
    OldVersions = {0, 4, 9, 10}
    MaxChanges = 2
    MaxOpenings = 3
    MaxRequests = 3
    MaxRetries = 3
    Promotions = {b1, b2}
    TtlDays = 1
    MaxDay = 3
    ReadCapabilities = {"read"}
    WriteCapabilities = {"write"}
    Clients = {c1, c2, c3}
    Threshold = 3
    Resets = TRUE
    MaxCrashes = 1
    Owners = {o1, o2}
    Goals = {g1, g2}
    SnapshotsKept = 1
    MaxCommands = 4
INVARIANT ServicesTypeOK
INVARIANT NeverSpeechless
INVARIANT VersionsConsistent
INVARIANT RoutinesConsistent
INVARIANT DatabaseKeeps
INVARIANT QueueAnswers
INVARIANT PolicyRespected
INVARIANT RecordConsistent
INVARIANT NeverGoalless
PROPERTY DecisionsStand
PROPERTY RestoredByProbe
PROPERTY NeverDisabled
CHECK_DEADLOCK FALSE
