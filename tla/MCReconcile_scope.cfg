SPECIFICATION Spec
CONSTANTS
    Deviations <- MCRebinds
    MaxFaults = 2
    MaxMeddling = 0
INVARIANTS
    NeverWidened
