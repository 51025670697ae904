SPECIFICATION ComponentsSpec
CONSTANTS
    NoKey = NoKey
    control = control
    stream = stream
    m1 = m1
    m2 = m2
    Mailboxes = {control, stream}
    LimitsOf <- MCLimitsOf
    ClassOf <- MCClassOf
    max_outstanding = 1
    control_reserved = 0
    Messages <- MCMessages
    MaxOffers = 2
    MaxTime = 2
    ClockOverflows = TRUE
    MaxDrops = 1
INVARIANTS
    GrantsAccounted
    ComponentErrorsUnreachable
PROPERTIES
    CallbacksAreSound
    ComesToRest
CHECK_DEADLOCK FALSE
