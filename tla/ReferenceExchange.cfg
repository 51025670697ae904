SPECIFICATION Spec
CONSTANTS
    Zero = Zero
    None = None
    Noise = Noise
    MAX_RUNTIME_ARTIFACT_BYTES = 8
    MAX_REFERENCE_LIFECYCLE_BUDGET_NANOS = 5
    Input <- MCInput
    Files <- MCFiles
    Process <- MCProcess
    Installed <- MCInstalled
    Other <- MCOther
    Store = store
    ClockDomain = clock
    Identities <- MCIdentities
    MaxFaults = 1
    MaxQueries = 1

    
PROPERTY
    BaselineNeverRegresses
CHECK_DEADLOCK FALSE
