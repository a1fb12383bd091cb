----------------------------- MODULE MCHubPoll -----------------------------
(* Instances of HubPoll for TLC.                                            *)
EXTENDS HubPoll

\* Types with something particular to them ...
OddTypes == {"upsert_discount", "external_purchase", "key_activation"}
\* ... and some of each other kind.
TypesOfInterest == OddTypes \cup {"registration", "update_mrp_tables", "unknown"}
=============================================================================
