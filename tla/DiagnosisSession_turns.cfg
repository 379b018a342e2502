CONSTANTS
    a1 = a1  a2 = a2  a3 = a3  r0 = r0  k1 = k1  k2 = k2  q1 = q1
    Calls <- ThreeCalls
    InitRun = r0
    Keys <- NoKeys
    Questions <- OneQuestion
    Requests <- Plain
    Overlap = FALSE
    MaxNodes = 1
    FaultKinds = {"raise", "cancel", "abandon"}
    MaxFaults = 1
SPECIFICATION Spec
INVARIANT AnswersKept
PROPERTIES TerminalIsFinal CallsSettle
CHECK_DEADLOCK FALSE
