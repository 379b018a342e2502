-------------------------- MODULE MCKnowledgeSearch --------------------------
(* Instances of KnowledgeSearch for TLC. *)
EXTENDS KnowledgeSearch

CONSTANTS v1, v2, t1, consumer, drainer

TwoVersions == {v1, v2}
OneTicket == {t1}
OneConsumer == {consumer}
OneDrainer == {drainer}
=============================================================================
