----------------------------- MODULE IndexJobs -----------------------------
(***************************************************************************)
(* What a caller of the index pipeline relies on, without queues, workers  *)
(* or attempts: a job that was asked for is worked on until it is done or  *)
(* given up, done is final, and only an operator takes up again what was   *)
(* given up.                                                               *)
(***************************************************************************)
CONSTANT Jobs

VARIABLE ledger

Init == ledger = [j \in Jobs |-> "absent"]

Ask(j) == ledger[j] = "absent" /\ ledger' = [ledger EXCEPT ![j] = "owed"]

Complete(j) == ledger[j] = "owed" /\ ledger' = [ledger EXCEPT ![j] = "done"]

GiveUp(j) == ledger[j] = "owed" /\ ledger' = [ledger EXCEPT ![j] = "failed"]

AskAgain(j) == ledger[j] = "failed" /\ ledger' = [ledger EXCEPT ![j] = "owed"]

Next == \E j \in Jobs : Ask(j) \/ Complete(j) \/ GiveUp(j) \/ AskAgain(j)

Safety == Init /\ [][Next]_ledger

\* Whatever is asked for is settled.
Spec == Safety /\ \A j \in Jobs : WF_ledger(Complete(j) \/ GiveUp(j))
=============================================================================
