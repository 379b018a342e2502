CONSTANTS
    c1 = c1  c2 = c2  w1 = w1  w2 = w2  a1 = a1
    Cases <- OneCase
    Workers <- OneWorker
    Clients <- OneClient
    Requests <- Submits
    Contents <- Complete
    FaultKinds <- NoFaults
    MaxFaults = 0
SPECIFICATION Spec
INVARIANT TombstoneRemovesVector
CHECK_DEADLOCK FALSE
