CONSTANTS
    u1 = u1  u2 = u2  s0 = s0  s1 = s1  s2 = s2  s3 = s3  a1 = a1  a2 = a2  a3 = a3
    Users <- TwoUsers
    FirstAdmin = u1
    Sessions <- FourSessions
    FirstSession = s0
    OtherRoles = {"OPERATOR"}
    Calls <- ThreeCalls
    FailureLimit = 1
SYMMETRY Symmetry
SPECIFICATION Spec
INVARIANTS AdminRemains OneLivePerFamily VersionFixesRole ReuseEndsFamily
PROPERTY EndedStaysEnded
CHECK_DEADLOCK FALSE
