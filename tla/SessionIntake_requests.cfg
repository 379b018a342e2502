SPECIFICATION Spec
CONSTANTS
    MaxRequests = 3
    Alarms = {a1, a2}
    Keys = {k1}
    a1 = a1
    a2 = a2
    k1 = k1
    Payloads <- FourPayloads
    StreamLimit = 1
    MaxFaults = 1
INVARIANTS
    AnsweredIsComplete
    KeyOpensOne
    AlarmsMerge
    StreamsCounted
PROPERTIES
    SlotsReturn
CHECK_DEADLOCK FALSE
