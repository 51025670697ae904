SPECIFICATION Spec
CONSTANTS
    None = None
    l1 = l1
    e2 = e2
    e3 = e3
    l4 = l4
    l5 = l5
    Ops <- MCOps
    Request <- MCRequest
    MaxTerminals = 256
    MaxRecoveries = 256
    MaxResources = 2048
    MaxEpoch = 5
INVARIANTS
    CommitsAreAccepted
    JournalKnowsWhatRuns
    StartsAreTold
    StoredJournalReadsBack
CHECK_DEADLOCK FALSE
