\* One job, two concurrent deliveries, every kind of failure, two operator retries.
CONSTANTS
    j1 = j1
    j2 = j2
    s1 = s1
    s2 = s2
    Jobs <- OneJob
    Slots <- TwoSlots
    Results <- AllResults
    MaxAttempts = 2
    PublishLimit = 1
    MaxRows = 3
    FaultKinds <- AllFaults
    MaxFaults = 3
SYMMETRY Symmetry
SPECIFICATION Spec
\* The last retry may fail and the operator may leave it there.
CHECK_DEADLOCK FALSE
INVARIANTS
    TypeOK
    JobsKept
PROPERTY
    DoneReopenedOnlyByOverlap
