-------------------------- MODULE MCCaseLifecycle --------------------------
(* Instances of CaseLifecycle for TLC. *)
EXTENDS CaseLifecycle, TLC

CONSTANTS c1, c2, w1, w2, a1

OneCase == {c1}
TwoCases == {c1, c2}
OneWorker == {w1}
TwoWorkers == {w1, w2}
OneClient == {a1}
Edits == {"patch", "submit"}
Submits == {"submit"}
Reindexes == {"submit", "reindex"}
Complete == {TRUE}
CompleteOrNot == {TRUE, FALSE}
NoFaults == {}
HandlerFaults == {"handler", "crash"}
SearchFaults == {"handler", "duplicate"}

\* Cases are interchangeable, and so are deliveries and requests.
Symmetry == Permutations(TwoCases) \cup Permutations(TwoWorkers)
=============================================================================
