------------------------ MODULE MCDiagnosisWorkflow -------------------------
(* Instances of DiagnosisWorkflow for TLC. *)
EXTENDS DiagnosisWorkflow, TLC

CONSTANTS t1, t2, t3

\* t1 is for the device and the alarm; t2 is for the device and has a long plan; t3 is
\* for the same alarm of devices of another type.
Three == {t1, t2, t3}
ForDevice == {t1, t2}
ForAlarm == {t1, t3}
Long == {t2}
Risky == {t1}

Says(hits, entities, violations) ==
    [hits |-> hits, device |-> entities, alarm |-> entities, violations |-> violations]

\* Terms of each template, one text also naming a device and an alarm, and a text
\* that the input rules refuse.
Texts == {Says({t1}, FALSE, {}), Says({t2}, FALSE, {}), Says({t3}, TRUE, {}),
          Says({}, FALSE, {"INPUT"})}
=============================================================================
