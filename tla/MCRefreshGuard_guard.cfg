SPECIFICATION FairSpec
CONSTANTS
    Callers = {c1, c2, c3}
    NoCaller = NoCaller
    MaxToken = 4
    Faults = {"refused", "badBody", "lostReply"}
INVARIANTS
    GuardIsSafe
    SuccessMeansRotated
PROPERTIES
    AtomicRotation
    RefreshReturns
