SPECIFICATION AmqpSpec
CONSTANTS
    m1 = m1
    m2 = m2
    m3 = m3
    n1 = n1
    n2 = n2
    Messages = {m1, m2, m3}
    NoMessage = NoMessage
    Nonces = {n1, n2}
    NonceOf <- MCNonceOf
    IssuedAt <- MCIssuedAt
    Authentic = {m1, m2, m3}
    Addressed = {m1, m2}
    Acceptable = {m1, m2}
    Hanging = {m2}
    Listen = FALSE
    Timeout = 1
    Skew = 1
    Ahead = 1
    Prefetch = 1
    Credit = 2
    MaxTime = 2
    ConsumerTime = 4
    MaxSessions = 2
PROPERTY TransientRetried
CHECK_DEADLOCK FALSE
