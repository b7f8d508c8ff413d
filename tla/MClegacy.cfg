SPECIFICATION Spec
CONSTANTS
    Pods = {p1}
    Boosts = {b1}
    None = None
    Specs <- FixedSpecs
    MaxUid = 2
    MaxVersion = 2
    MaxEdits = 1
    LegacyRevertMode = TRUE
    Faults <- AllFaults
    MaxFaults = 1
    MaxRestarts = 1
    MaxStatusWrites = 0
INVARIANTS
    UnlabelledPodsRestored
PROPERTIES
    NoEarlyRevert
