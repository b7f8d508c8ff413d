SPECIFICATION FairSpec
CONSTANTS
    Globals = {g1}
    Namespaces = {n1}
    Own = Own
    None = None
    Labels = {"on", "off"}
    GlobalSpecs <- OneSpec
    UserNames = {Own}
    Environments <- DeletionWithFaults
    MaxEdits = 3
    MaxFaults = 2
    MaxRestarts = 1
PROPERTIES
    DeletionFinishes
CHECK_DEADLOCK FALSE
