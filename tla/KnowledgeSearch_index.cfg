CONSTANTS
    v1 = v1  v2 = v2  t1 = t1  consumer = consumer  drainer = drainer
    Versions <- TwoVersions
    DatasetVersion = v2
    Tickets <- OneTicket
    Consumers <- OneConsumer
    Drainers <- OneDrainer
    BatchSize = 2
    MaxAttempts = 2
    MaxGen = 2
    MaxFaults = 2
    MaxRequests = 2
    TopN = 2
SPECIFICATION Spec
CHECK_DEADLOCK FALSE
INVARIANTS IndexedHasVector VectorOfLatest FailsForCause OneVersionQuoted
    CompleteIsSearched
PROPERTIES DocSettles
