CONSTANTS
    a1 = a1  a2 = a2  a3 = a3  r0 = r0  k1 = k1  k2 = k2  q1 = q1
    Calls <- TwoCalls
    InitRun = r0
    Keys <- TwoKeys
    Questions <- OneQuestion
    Requests <- Keyed
    Overlap = TRUE
    MaxNodes = 1
    FaultKinds = {"raise", "cancel", "abandon", "expire"}
    MaxFaults = 1
SYMMETRY Symmetry
SPECIFICATION Spec
INVARIANTS CompletedHasResult OneRunPerKey
CHECK_DEADLOCK FALSE
