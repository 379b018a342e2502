CONSTANTS
    c1 = c1  c2 = c2  w1 = w1  w2 = w2  a1 = a1
    Cases <- TwoCases
    Workers <- OneWorker
    Clients <- OneClient
    Requests <- Edits
    Contents <- CompleteOrNot
    FaultKinds <- HandlerFaults
    MaxFaults = 2
SPECIFICATION Spec
INVARIANT QueuedIsServed
PROPERTY OldVersionLeaves
CHECK_DEADLOCK FALSE
