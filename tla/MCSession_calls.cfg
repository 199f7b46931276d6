SPECIFICATION FairSpec
CONSTANTS
    p1 = p1
    p2 = p2
    Procs = {p1, p2}
    Users = {u1, u2}
    Device = dev
    Service = svc
    Questions = {k1}
    None = None
    Ops = {"login", "opaque", "passkey", "sso", "refresh", "rpc", "logout", "device", "adopt", "check", "enroll", "close"}
    Undecodable = {"login", "passkey", "sso", "refresh"}
    MaxCookies = 2
    Workloads <- MCWorkloads
INVARIANT NothingStale
PROPERTIES
    LateWritesStayOut
    CallsReturn
CHECK_DEADLOCK FALSE
