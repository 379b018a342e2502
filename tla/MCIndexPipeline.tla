-------------------------- MODULE MCIndexPipeline --------------------------
(* Instances of IndexPipeline for TLC. *)
EXTENDS IndexPipeline, TLC

CONSTANTS j1, j2, s1, s2

OneJob == {j1}
TwoJobs == {j1, j2}
TwoSlots == {s1, s2}

AllFaults == {"publish", "unconfirmed", "mark", "database", "ack", "republish",
              "connection", "crash"}

AllResults == {"INDEXED", "DEGRADED", "TOMBSTONED"}

Symmetry == Permutations(Slots)
=============================================================================
