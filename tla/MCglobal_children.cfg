SPECIFICATION Spec
CONSTANTS
    Globals = {g1}
    Namespaces = {n1}
    Own = Own
    None = None
    Labels = {"on", "off"}
    GlobalSpecs <- ThreeSpecs
    UserNames = {Own}
    Environments <- TwoEnvironments
    MaxEdits = 4
    MaxFaults = 0
    MaxRestarts = 1
INVARIANTS
    GlobalTypeOK
    ChildrenPresent
    NoStaleChildren
    StatusAgrees
CHECK_DEADLOCK FALSE
