CONSTANTS
    r1 = r1  r2 = r2  r3 = r3
    Callers <- ThreeCallers
    Clients <- AllClients
    MaxAttempts = 2
    MaxToolCalls = 2
    Threshold = 2
    MaxFaults = 1
SPECIFICATION Spec
INVARIANTS ClosedBelowThreshold ProbeReleased
PROPERTIES CircuitCloses
