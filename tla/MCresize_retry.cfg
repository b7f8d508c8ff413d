SPECIFICATION Spec
CONSTANTS
    Pods = {p1}
    Boosts = {b1}
    None = None
    Specs <- FixedSpecs
    MaxUid = 1
    MaxVersion = 2
    MaxEdits = 1
    LegacyRevertMode = FALSE
    Faults <- AllFaults
    MaxFaults = 1
    MaxRestarts = 0
    MaxStatusWrites = 0
INVARIANTS
    UnlabelledPodsRestored
