SPECIFICATION CSpec
CONSTANTS
    Callers = {c1, c2, c3}
    Configured = {c3}
    Direct = {c2}
    t1 = t1
    RefreshTokens = {t1}
    TokenOf <- SameToken
    MaxFlights = 2
    ConfiguredTTL = 0
    MinTTL = 1
    MaxFetches = 3
    MaxTime = 1
INVARIANTS
    FlightIsSafe
    ServedFresh
PROPERTIES
    FetchShared
    GrantShared
    CallersReturn
CHECK_DEADLOCK FALSE
