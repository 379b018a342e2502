------------------------- MODULE MCDiagnosisSession -------------------------
(* Instances of DiagnosisSession for TLC. *)
EXTENDS DiagnosisSession, TLC

CONSTANTS a1, a2, a3, r0, k1, k2, q1

TwoCalls == {a1, a2}
ThreeCalls == {a1, a2, a3}
TwoKeys == {k1, k2}
NoKeys == {}
OneQuestion == {q1}

\* At most one answer; every request has a key, or none has.
Keyed == [key : {{k} : k \in Keys}, answers : {{}, {q1}}]
Plain == [key : {{}}, answers : {{}, {q1}}]

\* Calls are interchangeable, and so are keys.
Symmetry == Permutations(Calls) \cup Permutations(Keys)
=============================================================================
