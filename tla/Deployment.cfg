SPECIFICATION DeploymentSpec
CONSTANTS
    None = None
    Zero = Zero
    o1 = o1
    o2 = o2
    ch1 = ch1
    ch2 = ch2
    U64_MAX = 9
    BodyBytes = 100
    MAX_CONTROLLER_SNAPSHOT_BYTES = 16777216
    MAX_STABLE_ALLOCATION_RECORDS = 3
    MAX_CONTROLLER_LEDGER_RECORDS = 4
    MAX_CONTROLLER_TENURE_TRANSACTIONS = 2
    MAX_RECONCILE_ATTEMPTS = 2
    Operations = {o1, o2}
    CardUses = {1, 2}
    Provisioning <- MCProvisioning
    Manifest <- MCManifest
    Store = "store"
    ResponseKey = "runtime"
    Channels = {ch1, ch2}
    MaxEpoch = 2
    MaxFaults = 1
SYMMETRY MCSymmetry
CONSTRAINT Explored
INVARIANTS
    CommandsAreAccepted
    RolloutsAreTrue
    LostAnswerIsFetchable
    PlansAreSound
CHECK_DEADLOCK FALSE
