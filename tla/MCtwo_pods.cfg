SPECIFICATION Spec
CONSTANTS
    Pods = {p1, p2}
    Boosts = {b1}
    None = None
    Specs <- FixedSpecs
    MaxUid = 1
    MaxVersion = 2
    MaxEdits = 1
    LegacyRevertMode = FALSE
    Faults <- NoFaults
    MaxFaults = 0
    MaxRestarts = 0
    MaxStatusWrites = 0
INVARIANTS
    NoPodLeftBehind
    ActiveWithinTotal
SYMMETRY Symmetry
