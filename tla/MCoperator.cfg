SPECIFICATION Spec
CONSTANTS
    b1 = b1
    b2 = b2
    Boosts <- SmallBoosts
    Tasks <- SmallTasks
    Workers = {w1, w2}
    MaxGoroutines = 2
    None = None
    Rollouts <- SmallRollouts
    MaxFaults = 1
INVARIANT NoSendOnClosed
INVARIANT NoReconcileLost
INVARIANT OneActive
INVARIANT GatesRespected
PROPERTY ImplementsTimeCheck
PROPERTY CheckEnds
PROPERTY RolloutCompletes
CHECK_DEADLOCK FALSE
