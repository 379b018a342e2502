--------------------------- MODULE MCToolExecutor ---------------------------
(* Instances of ToolExecutor for TLC. *)
EXTENDS ToolExecutor, TLC

CONSTANTS r1, r2, r3

ThreeCallers == {r1, r2, r3}
AllClients == Tools \cup Providers
=============================================================================
