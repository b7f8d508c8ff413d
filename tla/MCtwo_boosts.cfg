SPECIFICATION Spec
CONSTANTS
    Pods = {p1}
    Boosts = {b1, b2}
    None = None
    Specs <- MovingSpecs
    MaxUid = 1
    MaxVersion = 2
    MaxEdits = 2
    LegacyRevertMode = FALSE
    Faults <- NoFaults
    MaxFaults = 0
    MaxRestarts = 1
    MaxStatusWrites = 0
INVARIANTS
    TimedBoostsRegistered
    UnlabelledPodsRestored
    RegistryAgrees
    OrphansUnmatched
PROPERTIES
    NoEarlyRevert
