----------------------------- MODULE MCIndexer -----------------------------
(***************************************************************************)
(* The instance of Indexer that TLC checks: two ledgers of two events, the *)
(* first ledger's in one transaction, the second's in two.  A page of      *)
(* three cuts the second ledger in the middle; no ledger fills a page.     *)
(***************************************************************************)
EXTENDS Indexer

MCLedgerOf == [e \in 1..4 |-> IF e <= 2 THEN 1 ELSE 2]
MCTxOf     == [e \in 1..4 |-> IF e = 4 THEN 1 ELSE 0]
MCMapped   == {1, 3, 4}
=============================================================================
