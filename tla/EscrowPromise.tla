---------------------------- MODULE EscrowPromise ---------------------------
(***************************************************************************)
(* What the escrow contract promises to the two parties of a deal, with    *)
(* nothing about roles, pausing, disputes or time: a deal is struck once,  *)
(* its amount leaves the depositor for the vault, and then leaves the      *)
(* vault once, whole, in the token of the deal, to the beneficiary or back *)
(* to the depositor.                                                       *)
(***************************************************************************)
EXTENDS Tokens

CONSTANTS Ids, Accounts, TokenIds, Amounts,
          Vault,      \* the contract's own address
          NoDeal,     \* what deal[i] is before the deal is struck
          Supply      \* what every account owns of every token at first

VARIABLES deal, fate, balance

vars == <<deal, fate, balance>>

Deals == [depositor : Accounts, beneficiary : Accounts, token : TokenIds,
          amount : {a \in Amounts : a > 0}]

Init ==
  /\ deal = [i \in Ids |-> NoDeal]
  /\ fate = [i \in Ids |-> "held"]
  /\ balance = [t \in TokenIds |->
                  [h \in Accounts \cup {Vault} |-> IF h = Vault THEN 0 ELSE Supply]]

Strike(i, d) ==
  /\ deal[i] = NoDeal
  /\ CanTransfer(balance[d.token], d.depositor, d.amount)
  /\ deal' = [deal EXCEPT ![i] = d]
  /\ balance' = [balance EXCEPT ![d.token] =
                   Transferred(@, d.depositor, Vault, d.amount)]
  /\ UNCHANGED fate

\* the whole amount leaves the vault for one party, and the deal is over
Pay(i, to, outcome) ==
  /\ deal[i] # NoDeal /\ fate[i] = "held"
  /\ balance' = [balance EXCEPT ![deal[i].token] =
                   Transferred(@, Vault, to, deal[i].amount)]
  /\ fate' = [fate EXCEPT ![i] = outcome]
  /\ UNCHANGED deal

Next ==
  \E i \in Ids :
    \/ \E d \in Deals : Strike(i, d)
    \/ Pay(i, deal[i].beneficiary, "paid")
    \/ Pay(i, deal[i].depositor, "refunded")

Spec == Init /\ [][Next]_vars
=============================================================================
