\* Two jobs compete for the slots; the broker refuses some publishes of the outbox.
CONSTANTS
    j1 = j1
    j2 = j2
    s1 = s1
    s2 = s2
    Jobs <- TwoJobs
    Slots <- TwoSlots
    Results = {"INDEXED"}
    MaxAttempts = 2
    PublishLimit = 1
    MaxRows = 3
    FaultKinds = {"publish"}
    MaxFaults = 2
SPECIFICATION Spec
\* All jobs may be settled and the operator done.
CHECK_DEADLOCK FALSE
INVARIANT
    OneMessage
PROPERTY
    ImplementsIndexJobs
