CONSTANTS
    c1 = c1  c2 = c2  w1 = w1  w2 = w2  a1 = a1
    Cases <- TwoCases
    Workers <- TwoWorkers
    Clients <- OneClient
    Requests <- Reindexes
    Contents <- Complete
    FaultKinds <- SearchFaults
    MaxFaults = 1
SYMMETRY Symmetry
SPECIFICATION Spec
INVARIANTS EventsFitReview SearchableIsIndexed PredecessorRetired
CHECK_DEADLOCK FALSE
