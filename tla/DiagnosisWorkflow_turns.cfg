CONSTANTS
    t1 = t1  t2 = t2  t3 = t3
    Templates <- Three
    Fitting <- ForDevice
    AlarmHits <- ForAlarm
    LongTemplates <- Long
    RiskyTemplates <- Risky
    Messages <- Texts
    HasModel = TRUE
    MaxTurns = 3
    MaxOdd = 2
SPECIFICATION Spec
INVARIANTS AssertionsHold ConclusionIsGrounded ConclusionIsGuarded
PROPERTY NodesAsInSession
CHECK_DEADLOCK FALSE
