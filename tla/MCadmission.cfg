SPECIFICATION Spec
CONSTANTS
    None = None
    BoostSpecs <- SmallBoosts
    PodSpecs <- SmallPods
    Wildcard = "*"
    WordBits = 12
    Second = 10
    MaxEvents = 3
INVARIANTS
    AdmissionTypeOK
    RevertRestores
    BoostedPodsLabelled
    QosKept
    RequestsWithinLimits
    
    AcceptedPoliciesMap
    BoostsEnd
