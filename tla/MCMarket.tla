------------------------------ MODULE MCMarket -----------------------------
(* Small instances of Market: who pays whom, and who signs for it. *)
EXTENDS Market, TLC

CONSTANTS payer, worker, judge, e1, e2

SomeParties == {<<payer, worker>>}

SomeGrants == {<<"pauser", judge>>, <<"fee_mgr", judge>>}

\* two signers of which both are needed, and one listed twice
SomeSigners == {<< <<payer, worker>>, 2>>, << <<worker, worker>>, 2>>}

\* one list and no roles to grant, for the instance with two ids
OneList == {<< <<payer, worker>>, 2>>}

NoGrants == {}

Interchangeable == Permutations({e1, e2})
=============================================================================
