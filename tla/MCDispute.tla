------------------------------ MODULE MCDispute -----------------------------
(* Small instances of Dispute: who disputes with whom. *)
EXTENDS Dispute

CONSTANTS alice, bob, carol

\* a dispute between two parties, and one with oneself
SomeParties == {<<alice, bob>>, <<bob, bob>>}
=============================================================================
