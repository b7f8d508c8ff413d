SPECIFICATION FairSpec
CONSTANTS
    Pods = {p1}
    Boosts = {b1}
    None = None
    Specs <- ConditionSpecs
    MaxUid = 1
    MaxVersion = 3
    MaxEdits = 1
    LegacyRevertMode = FALSE
    Faults <- NoFaults
    MaxFaults = 0
    MaxRestarts = 1
    MaxStatusWrites = 1
PROPERTIES
    ConditionRestored
    NoEarlyRevert
