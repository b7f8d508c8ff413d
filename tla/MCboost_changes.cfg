SPECIFICATION Spec
CONSTANTS
    Pods = {p1}
    Boosts = {b1}
    None = None
    Specs <- ChangingSpecs
    MaxUid = 1
    MaxVersion = 2
    MaxEdits = 3
    LegacyRevertMode = FALSE
    Faults <- NoFaults
    MaxFaults = 0
    MaxRestarts = 1
    MaxStatusWrites = 0
INVARIANTS
    TypeOK
    TimedBoostsRegistered
    RegistryAgrees
    NoPodLeftBehind
