--------------------------- MODULE MCAuthSessions ---------------------------
(* Instances of AuthSessions for TLC. *)
EXTENDS AuthSessions, TLC

CONSTANTS u1, u2, s0, s1, s2, s3, a1, a2, a3

TwoUsers == {u1, u2}
FourSessions == {s0, s1, s2, s3}
ThreeCalls == {a1, a2, a3}

\* Fresh session ids and calls are interchangeable.
Symmetry == Permutations(Sessions \ {s0}) \cup Permutations(Calls)
=============================================================================
