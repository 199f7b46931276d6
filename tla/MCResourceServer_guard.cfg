SPECIFICATION FairSpec
CONSTANTS
    None = None
    Bad = Bad
    Nobody = Nobody
    Leeway = 1
    MaxSkew = 2
    g1 = g1
    g2 = g2
    Goroutines = {g1, g2}
    RequestsOf <- MCRequestsOf
    Options <- MCOptions
    RelyingParty <- MCRelyingParty
    Published <- MCPublished
    Sessions = {"s"}
    MaxTime = 1
INVARIANTS
    EntitledOnly
    RefetchIsApt
PROPERTY RequestsEnd
CHECK_DEADLOCK FALSE
