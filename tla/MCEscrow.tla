------------------------------ MODULE MCEscrow ------------------------------
(* Small instances of Escrow: who may be granted which role. *)
EXTENDS Escrow, TLC

CONSTANTS alice, bob, carol, t1, t2, e1, e2

\* a deal, and a deposit in one's own favour
SomeParties == {<<alice, bob>>, <<bob, bob>>}

\* carol may become arbitrator or pauser, bob a second administrator
SomeGrants == {<<"arbitrator", carol>>, <<"pauser", carol>>, <<"admin", bob>>}

Interchangeable == Permutations({t1, t2}) \cup Permutations({e1, e2})
=============================================================================
