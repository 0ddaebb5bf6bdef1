------------------------------- MODULE Tokens -------------------------------
(***************************************************************************)
(* The token contracts the Soroban contracts call (SEP-41 `transfer`).     *)
(* Their code is not part of the repository: what is modelled here is what *)
(* the contracts rely on.  A ledger is a function from holders to natural  *)
(* numbers; a transfer moves an amount the sender owns and fails otherwise, *)
(* and a failing transfer aborts the whole invocation, so that an action   *)
(* whose transfer is impossible is simply not enabled.                     *)
(***************************************************************************)
EXTENDS Integers, FiniteSets

\* token.transfer(from, to, amount) succeeds on ledger l
CanTransfer(l, from, amount) == l[from] >= amount

\* the ledger after a transfer; a transfer to oneself changes nothing
Transferred(l, from, to, amount) ==
  IF from = to THEN l
  ELSE [l EXCEPT ![from] = @ - amount, ![to] = @ + amount]

(***************************************************************************)
(* Sums of amounts are written as the cardinality of a set of units: an    *)
(* item i worth n stands for the n pairs <<i, 1>> .. <<i, n>>.  A sum then  *)
(* has a meaning for every set of items with no recursion over them.       *)
(***************************************************************************)
Units(S, worth) == UNION {{i} \X (1 .. worth[i]) : i \in S}

Total(S, worth) == Cardinality(Units(S, worth))
=============================================================================
