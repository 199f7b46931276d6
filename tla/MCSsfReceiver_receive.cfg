SPECIFICATION FairSpec
CONSTANTS
    c1 = c1
    c2 = c2
    k1 = k1
    k2 = k2
    Pollers = {c1}
    Pushers = {c2}
    NoCaller = NoCaller
    Sets = {0, 1, 2}
    Malformed = {0}
    Unsound = {}
    Kids = {k1, k2}
    KidOf <- MCKidOf
    FirstKids = {k1}
    Window = 2
    MaxAge = 1
    Interval = 2
    MaxTime = 3
INVARIANT NoEventLost
PROPERTIES
    AcceptedOncePerWindow
    FetchesPaced
    CallsReturn
CHECK_DEADLOCK FALSE
