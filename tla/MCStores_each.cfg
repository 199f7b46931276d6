SPECIFICATION StoresSpec
CONSTANTS
    Callers = {g1, g2}
    Nobody = Nobody
    k1 = k1
    k2 = k2
    k3 = k3
    Keys = {k1, k2, k3}
    Disputed = {k1}
    MemoTTL = 1
    MaxEntries = 2
    MaxFlight = 1
    MemoTime = 3
    j1 = j1
    j2 = j2
    j3 = j3
    Jtis = {j1, j2, j3}
    IatOf <- MCIatOf
    Leeway = 2
    PruneAbove = 1
    JtiTime = 6
    States = {s1, s2}
    StateTTL = 2
    LoginTime = 6
    Interval = 2
    MaxFetch = 1
    MaxTime = 5
    Expiries = {6, 9}
    Intervals = {0, 1}
    DefaultInterval = 2
    Increment = 2
    RetryAfters = {0, 1, 4}
    MaxTrip = 1
    MaxAttempts = 3
    BaseDelay = 1
    MaxDelay = 3
    MaxCalls = 4
    r1 = r1
    r2 = r2
    r3 = r3
    ResourceKeys = {r1, r2, r3}
    NoParent = NoParent
    MaxResources = 3
INVARIANTS
    MemoHolds
    ProofsOnce
    LoginsOnce
    TimelyAnswer
    ManifestsOrdered
PROPERTIES
    LoginsInTime
    LimitsKept
    NeverForgets
    PollsInTime
    WritesOnce
    CallsEnd
CHECK_DEADLOCK FALSE
