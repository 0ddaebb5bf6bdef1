--------------------------- MODULE FeeDistribution ---------------------------
(***************************************************************************)
(* The fee distribution contract (contracts/fee_distribution/src/lib.rs):  *)
(* fees are collected per token and now and then distributed among the     *)
(* recipients by fixed shares.  An admin may withdraw any amount at any    *)
(* time, which the books do not show.                                      *)
(***************************************************************************)
EXTENDS Contract, Sequences

CONSTANTS
  Splits,        \* recipient lists a manager may pass, legal or not
  MaxCollected   \* bound: fees collected of a token

ASSUME DistributionAssumption ==
  /\ Splits \subseteq Seq([to : Holders, bps : Nat])
  /\ MaxCollected \in Nat

VARIABLES
  recipients,    \* DataKey::FeeRecipients
  collection,    \* DataKey::FeeCollection(token)
  withdrawn,     \* history: what admins withdrew
  shares         \* history: shares paid beyond the first of each distribution

distributionVars == <<recipients, collection, withdrawn, shares>>

WholeBps == 10000
SumOf(split) == Total(DOMAIN split, [k \in DOMAIN split |-> split[k].bps])
LegalSplits == {split \in Splits : SumOf(split) = WholeBps}

DistributionInit ==
  /\ recipients = <<>>
  /\ collection = [t \in TokenIds |-> [total |-> 0, distributed |-> 0]]
  /\ withdrawn = [t \in TokenIds |-> 0]
  /\ shares = [t \in TokenIds |-> 0]

-----------------------------------------------------------------------------
\* mutant: shares that add up to anything
SetFeeRecipientsUnchecked(caller, split) ==
  /\ RequireRole(roles["manager"], caller)
  /\ ~paused
  /\ recipients' = split
  /\ UNCHANGED <<chainVars, collection, withdrawn, shares>>

SetFeeRecipients(caller, split) ==
  /\ RequireRole(roles["manager"], caller)
  /\ ~paused
  /\ split \in LegalSplits
  /\ recipients' = split
  /\ UNCHANGED <<chainVars, collection, withdrawn, shares>>

CollectFees(from, t, amount) ==
  /\ ~paused /\ amount > 0
  /\ collection[t].total + amount <= MaxCollected
  /\ Moves(t, from, Vault, amount)
  /\ collection' = [collection EXCEPT ![t].total = @ + amount]
  /\ UNCHANGED <<recipients, withdrawn, shares>>

Available(t) == collection[t].total - collection[t].distributed

\* mutant: every share is rounded up
ShareRoundedUp(available, bps) == (available * bps + WholeBps - 1) \div WholeBps

\* Every share is rounded down by itself.
Share(available, bps) == (available * bps) \div WholeBps

\* All that is available is booked as distributed, whatever the shares add up
\* to.  Each recipient in turn is paid its share out of what those before it left;
\* one whose transfer fails reverts the whole distribution.  A share that the
\* contract is paid by itself stays with it.
DistributeFees(caller, t) ==
  LET part == [k \in DOMAIN recipients |-> Share(Available(t), recipients[k].bps)]
      Paid(holders) == Total({k \in DOMAIN recipients : recipients[k].to \in holders}, part) IN
    /\ RequireRole(roles["manager"], caller)
    /\ ~paused
    /\ recipients # <<>> /\ Available(t) > 0
    /\ \A k \in DOMAIN recipients :
         Total({j \in 1..k : j = k \/ recipients[j].to # Vault}, part) <= balance[t][Vault]
    /\ balance' = [balance EXCEPT ![t] = [h \in Holders |->
         IF h = Vault THEN @[Vault] - Paid(Accounts) ELSE @[h] + Paid({h})]]
    /\ donated' = [donated EXCEPT ![t] = @ + Paid({Vault})]
    /\ collection' = [collection EXCEPT ![t].distributed = collection[t].total]
    /\ shares' = [shares EXCEPT ![t] = @ + Len(recipients) - 1]
    /\ UNCHANGED <<initialized, roles, paused, donations, recipients, withdrawn>>

\* Also while the contract is paused.
WithdrawFees(caller, t, amount) ==
  /\ RequireRole(roles["admin"], caller)
  /\ amount > 0
  /\ Moves(t, Vault, caller, amount)
  /\ withdrawn' = [withdrawn EXCEPT ![t] = @ + amount]
  /\ UNCHANGED <<recipients, collection, shares>>

DistributionNext ==
  \/ Administer(TRUE, "admin") /\ UNCHANGED distributionVars
  \/ \E c \in Deployers : Initialize(c) /\ UNCHANGED distributionVars
  \/ \E c \in Accounts :
       \/ \E split \in Splits : SetFeeRecipients(c, split)
       \/ \E t \in TokenIds : DistributeFees(c, t)
       \/ \E t \in TokenIds, a \in Amounts : CollectFees(c, t, a) \/ WithdrawFees(c, t, a)

DistributionSpec ==
  ContractInit(TokenIds) /\ DistributionInit /\ [][DistributionNext]_<<chainVars, distributionVars>>

-----------------------------------------------------------------------------
\* The shape of the state; a list of recipients that is set shares out all.
DistributionTypeOK ==
  /\ recipients \in LegalSplits \union {<<>>}
  /\ collection \in [TokenIds -> [total : Nat, distributed : Nat]]
  /\ withdrawn \in [TokenIds -> Nat] /\ shares \in [TokenIds -> Nat]

\* The contract holds what is still to be distributed and what it was given,
\* less what admins withdrew, and the dust of the distributions: never more
\* than one unit for every share but the first of each.  No distribution pays
\* out more than was collected.
FeesCovered ==
  \A t \in TokenIds :
    LET dust == balance[t][Vault] + withdrawn[t] - donated[t] - Available(t) IN
      dust \in 0..shares[t]
=============================================================================
