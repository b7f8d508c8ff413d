SPECIFICATION FairSpec
CONSTANTS
    Pods = {p1}
    Boosts = {b1}
    None = None
    Specs <- FixedSpecs
    MaxUid = 1
    MaxVersion = 3
    MaxEdits = 1
    LegacyRevertMode = FALSE
    Faults <- LabelFaults
    MaxFaults = 2
    MaxRestarts = 1
    MaxStatusWrites = 0
INVARIANTS
    UnlabelledPodsRestored
    NoPodLeftBehind
PROPERTIES
    NoEarlyRevert
    EventuallyRestored
