SPECIFICATION Spec
CONSTANTS
    p1 = p1
    p2 = p2
    Procs = {p1, p2}
    Users = {u1, u2}
    Device = dev
    Service = svc
    Questions = {k1}
    None = None
    Ops = {"login", "passkey", "enroll"}
    Undecodable = {}
    MaxCookies = 2
    Workloads <- MCAlone
INVARIANT SealedForOwnAccount
CHECK_DEADLOCK FALSE
