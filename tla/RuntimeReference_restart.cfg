SPECIFICATION Spec
CONSTANTS
    None = None
    l1 = l1
    e2 = e2
    e3 = e3
    l4 = l4
    l5 = l5
    Ops <- MCOverEmptyOps
    Request <- MCOverEmptyRequest
    MaxTerminals = 256
    MaxRecoveries = 256
    MaxResources = 2048
    MaxEpoch = 2
INVARIANTS
    ReopenIsTerminalized
CHECK_DEADLOCK FALSE
