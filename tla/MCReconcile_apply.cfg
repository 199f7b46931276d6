SPECIFICATION Spec
CONSTANTS
    Deviations <- MCDeviations
    MaxFaults = 2
    MaxMeddling = 2
INVARIANTS
    ReportsTruly
    OthersUntouched
PROPERTIES
    OneAccount
    Reconciles
