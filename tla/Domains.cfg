SPECIFICATION DomainsSpec
CONSTANTS
    NoKey = NoKey
    m1 = m1
    m2 = m2
    Zero = Zero
    None = None
    OwnershipLimits <- MCLimits
    Lifecycle <- MCLifecycle
    Restart <- MCRestart
    LastEpoch = 9
    MaxEpoch = 2
    JitterHash <- MCJitterHash
    LivenessBudgets <- MCLivenessBudgets
    Budgets <- MCBudgets
    HeartbeatInterval = 1
    Capacity <- MCCapacity
    Reservation = 1
    Launches <- MCLaunches
    Large = 2
    MaxInvocations = 1
    MaxHeartbeats = 1
    MaxFacts = 3

    
PROPERTIES
    AcceptedInTime
    DrainEnds
CHECK_DEADLOCK FALSE
