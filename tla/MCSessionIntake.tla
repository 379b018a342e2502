--------------------------- MODULE MCSessionIntake ---------------------------
EXTENDS SessionIntake

CONSTANTS a1, a2, k1

\* Two alarms, one of them with a key that another kind of request uses as well.
FourPayloads ==
    {[kind |-> "create", alarm |-> a1, key |-> k1],
     [kind |-> "create", alarm |-> a2, key |-> NoKey],
     [kind |-> "create", alarm |-> NoAlarm, key |-> k1],
     [kind |-> "stream"]}
=============================================================================
