SPECIFICATION ExecutionSpec
CONSTANTS
    m1 = m1
    m2 = m2
    m3 = m3
    Mailboxes = {m1, m2, m3}
    Assignments <- TargetNames
    MailboxOf <- Targets
    MaxEpoch = 4
    MaxItems = 1
    NoAssignment = NoAssignment
INVARIANTS
    EpochNamesOneRoute
    NoOrphanedMessages
    ConsistencyErrorsUnreachable
PROPERTIES
    MailboxCallsAreExact
    SchedulingIsFair
CHECK_DEADLOCK FALSE
