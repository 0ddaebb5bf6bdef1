------------------------------- MODULE Dispute ------------------------------
(***************************************************************************)
(* The dispute contract (packages/contracts/contracts/dispute/src): a      *)
(* party locks an amount, both attach evidence, an arbitrator decides, and *)
(* anybody has the decision carried out.  An invocation is one atomic      *)
(* step; a failing check, a failing transfer or an arithmetic panic        *)
(* reverts it, so it is a step that is not taken.                          *)
(***************************************************************************)
EXTENDS Tokens, Access, Sequences

CONSTANTS
  Accounts,     \* the addresses that call the contract
  Vault,        \* the contract's own address
  TokenIds,     \* token contracts
  Ids,          \* dispute ids
  Amounts,      \* the amounts a caller may pass, legal or not
  Supply,       \* what every account owns of every token at first
  Parties,      \* <<disputer, respondent>> pairs that get into disputes
  Arbiters,     \* accounts the administrator may list as arbitrators
  Splits,       \* the split_bps an arbitrator may pass, legal or not
  Hashes,       \* evidence hashes
  MaxI128,      \* the largest product checked_mul accepts
  None          \* an absent record, address or hash

Bps == 10000

Status == {"Open", "Evidence", "Decided", "Settled"}

Outcome == {"RefundDisputer", "ReleaseRespondent", "Split"}

DisputeRecord ==
  [disputer : Accounts, respondent : Accounts, token : TokenIds,
   amount : {a \in Amounts : a > 0}, status : Status, outcome : Outcome,
   split_bps : Splits \cup {0}, arbitrator : Accounts \cup {None},
   disputer_evidence : Hashes, respondent_evidence : Hashes \cup {None}]

ASSUME ConstantsOK ==
  /\ Vault \notin Accounts
  /\ Amounts \subseteq Int /\ Splits \subseteq Nat
  /\ Supply \in Nat /\ MaxI128 \in Nat
  /\ Parties \subseteq Accounts \X Accounts
  /\ Arbiters \subseteq Accounts
  /\ None \notin Accounts \cup Hashes \cup DisputeRecord

VARIABLES
  dispute,      \* DataKey::Dispute(id)
  disputeList,  \* DataKey::DisputeList
  admin,        \* DataKey::Admin
  arbitrators,  \* DataKey::Arbitrators
  paused,       \* DataKey::Paused
  balance       \* the token contracts' ledgers

funds  == <<dispute, disputeList, balance>>
access == <<admin, arbitrators, paused>>
vars   == <<funds, access>>

Holders == Accounts \cup {Vault}

Init ==
  /\ dispute = [i \in Ids |-> None]
  /\ disputeList = << >>
  /\ admin = None
  /\ arbitrators = {}
  /\ paused = FALSE
  /\ balance = [t \in TokenIds |-> [h \in Holders |-> IF h = Vault THEN 0 ELSE Supply]]

-----------------------------------------------------------------------------
(* Administration *)

Initialize(a) ==
  /\ admin = None
  /\ admin' = a
  /\ paused' = FALSE
  /\ arbitrators' = {}
  /\ UNCHANGED funds

SetPaused(caller, value) ==
  /\ caller = admin
  /\ paused' = value
  /\ UNCHANGED <<funds, admin, arbitrators>>

AddArbitrator(caller, a) ==
  /\ caller = admin
  /\ arbitrators' = arbitrators \cup {a}
  /\ UNCHANGED <<funds, admin, paused>>

RemoveArbitrator(caller, a) ==
  /\ caller = admin
  /\ arbitrators' = arbitrators \ {a}
  /\ UNCHANGED <<funds, admin, paused>>

-----------------------------------------------------------------------------
(* The life of a dispute *)

HasStatus(i, S) == dispute[i] # None /\ dispute[i].status \in S

\* the record and its id are stored, then the amount goes to the contract
LockFunds(disputer, respondent, token, i, amount, hash) ==
  /\ CanTransfer(balance[token], disputer, amount)
  /\ dispute' = [dispute EXCEPT ![i] =
                   [disputer |-> disputer, respondent |-> respondent, token |-> token,
                    amount |-> amount, status |-> "Open", outcome |-> "RefundDisputer",
                    split_bps |-> 0, arbitrator |-> None,
                    disputer_evidence |-> hash, respondent_evidence |-> None]]
  /\ disputeList' = Append(disputeList, i)
  /\ balance' = [balance EXCEPT ![token] = Transferred(@, disputer, Vault, amount)]
  /\ UNCHANGED access

\* mutant: file_dispute without the amount check
FileDisputeAnyAmount(disputer, respondent, token, i, amount, hash) ==
  /\ ~paused
  /\ dispute[i] = None
  /\ LockFunds(disputer, respondent, token, i, amount, hash)

FileDispute(disputer, respondent, token, i, amount, hash) ==
  /\ ~paused
  /\ amount > 0
  /\ dispute[i] = None
  /\ LockFunds(disputer, respondent, token, i, amount, hash)

\* mutant: evidence is accepted until the settlement, and reopens the dispute
SubmitEvidenceLate(caller, i, hash) ==
  /\ ~paused
  /\ HasStatus(i, {"Open", "Evidence", "Decided"})
  /\ caller \in {dispute[i].disputer, dispute[i].respondent}
  /\ dispute' = [dispute EXCEPT ![i].disputer_evidence = hash, ![i].status = "Evidence"]
  /\ UNCHANGED <<disputeList, balance, access>>

\* the disputer's slot is tried first, so one who disputes with oneself never
\* fills the other
SubmitEvidence(caller, i, hash) ==
  /\ ~paused
  /\ dispute[i] # None
  /\ caller \in {dispute[i].disputer, dispute[i].respondent}
  /\ HasStatus(i, {"Open", "Evidence"})
  /\ dispute' =
       IF caller = dispute[i].disputer
       THEN [dispute EXCEPT ![i].disputer_evidence = hash, ![i].status = "Evidence"]
       ELSE [dispute EXCEPT ![i].respondent_evidence = hash, ![i].status = "Evidence"]
  /\ UNCHANGED <<disputeList, balance, access>>

\* mutant: decide without require_role
DecideByAnyone(caller, i, outcome, bps) ==
  /\ ~paused
  /\ outcome = "Split" => bps <= Bps
  /\ HasStatus(i, {"Open", "Evidence"})
  /\ dispute' = [dispute EXCEPT ![i].status = "Decided", ![i].outcome = outcome,
                                ![i].split_bps = bps, ![i].arbitrator = caller]
  /\ UNCHANGED <<disputeList, balance, access>>

\* split_bps is checked for a split only, and stored for every outcome
Decide(caller, i, outcome, bps) ==
  /\ ~paused
  /\ RequireRole(arbitrators, caller)
  /\ outcome = "Split" => bps <= Bps
  /\ HasStatus(i, {"Open", "Evidence"})
  /\ dispute' = [dispute EXCEPT ![i].status = "Decided", ![i].outcome = outcome,
                                ![i].split_bps = bps, ![i].arbitrator = caller]
  /\ UNCHANGED <<disputeList, balance, access>>

RespondentShare(d) ==
  CASE d.outcome = "RefundDisputer"    -> 0
    [] d.outcome = "ReleaseRespondent" -> d.amount
    [] d.outcome = "Split"             -> (d.amount * d.split_bps) \div Bps

\* mutant: both shares of a split are rounded down
DisputerShareRounded(d) ==
  IF d.outcome = "Split" THEN (d.amount * (Bps - d.split_bps)) \div Bps
  ELSE d.amount - RespondentShare(d)

DisputerShare(d) == d.amount - RespondentShare(d)

\* the product of a split fits into an i128: otherwise settle panics
SplitFits(d) == d.outcome = "Split" => d.amount * d.split_bps <= MaxI128

\* mutant: the shares go to the wrong parties
SharedSwapped(l, d) ==
  Transferred(Transferred(l, Vault, d.disputer, RespondentShare(d)),
              Vault, d.respondent, DisputerShare(d))

\* a token's ledger after the respondent and the disputer got their shares
Shared(l, d) ==
  Transferred(Transferred(l, Vault, d.respondent, RespondentShare(d)),
              Vault, d.disputer, DisputerShare(d))

\* mutant: only an arbitrator still in office may settle
SettleByArbitrator(i) ==
  /\ ~paused /\ arbitrators # {}
  /\ HasStatus(i, {"Decided"})
  /\ SplitFits(dispute[i])
  /\ CanTransfer(balance[dispute[i].token], Vault, dispute[i].amount)
  /\ dispute' = [dispute EXCEPT ![i].status = "Settled"]
  /\ balance' = [balance EXCEPT ![dispute[i].token] = Shared(@, dispute[i])]
  /\ UNCHANGED <<disputeList, access>>

Settle(i) ==
  /\ ~paused
  /\ HasStatus(i, {"Decided"})
  /\ SplitFits(dispute[i])
  /\ CanTransfer(balance[dispute[i].token], Vault, dispute[i].amount)
  /\ dispute' = [dispute EXCEPT ![i].status = "Settled"]
  /\ balance' = [balance EXCEPT ![dispute[i].token] = Shared(@, dispute[i])]
  /\ UNCHANGED <<disputeList, access>>

-----------------------------------------------------------------------------
(* The entry points, by the account that signs the invocation; for initialize,
   which asks nobody to sign, by the administrator it names *)

AdminCall(c) ==
  \/ Initialize(c)
  \/ \E value \in BOOLEAN : SetPaused(c, value)
  \/ \E a \in Arbiters : AddArbitrator(c, a) \/ RemoveArbitrator(c, a)

File(c, i) ==
  \E p \in Parties, t \in TokenIds, a \in Amounts, h \in Hashes :
    p[1] = c /\ FileDispute(c, p[2], t, i, a, h)

CallOn(c, i) ==
  \/ File(c, i)
  \/ \E h \in Hashes : SubmitEvidence(c, i, h)
  \/ \E o \in Outcome, b \in Splits : Decide(c, i, o, b)

Call(c) == AdminCall(c) \/ \E i \in Ids : CallOn(c, i)

\* settle asks nobody to sign
Next == (\E c \in Accounts : Call(c)) \/ \E i \in Ids : Settle(i)

Spec == Init /\ [][Next]_vars

\* Nothing runs by itself: what is assumed is that somebody (anyone may) asks
\* again for the settlement of a decided dispute whenever it can succeed.
FairSpec == Spec /\ \A i \in Ids : SF_vars(Settle(i))

-----------------------------------------------------------------------------
(* Properties *)

\* Every variable holds a value the contract can store.
TypeOK ==
  /\ dispute \in [Ids -> DisputeRecord \cup {None}]
  /\ disputeList \in Seq(Ids)
  /\ admin \in Accounts \cup {None}
  /\ arbitrators \subseteq Accounts
  /\ paused \in BOOLEAN
  /\ balance \in [TokenIds -> [Holders -> Nat]]

Locked(i) == HasStatus(i, {"Open", "Evidence", "Decided"})

LockedIn(t) == {i \in Ids : Locked(i) /\ dispute[i].token = t}

Worth == [i \in Ids |-> IF dispute[i] = None THEN 0 ELSE dispute[i].amount]

\* Of every token the contract holds exactly the amounts of the disputes not yet
\* settled: a settlement, split or not, pays out its own amount, all of it, with
\* no rounding remainder left behind or taken from another dispute.
Solvency ==
  \A t \in TokenIds : balance[t][Vault] = Total(LockedIn(t), Worth)

FiledBy(a, t) == {i \in Ids : /\ dispute[i] # None
                            /\ dispute[i].disputer = a /\ dispute[i].token = t}

SettledIn(t) == {i \in Ids : HasStatus(i, {"Settled"}) /\ dispute[i].token = t}

\* What account a gets out of settled dispute i, as either party or both.
Received(a, i) ==
  (IF dispute[i].disputer = a THEN DisputerShare(dispute[i]) ELSE 0)
    + (IF dispute[i].respondent = a THEN RespondentShare(dispute[i]) ELSE 0)

\* Every wallet is explained by the decisions: an account has paid in what it
\* filed and received its shares of what was settled; arbitrators, administrator
\* and whoever calls settle never receive anything.
WalletsExplained ==
  \A a \in Accounts, t \in TokenIds :
    balance[t][a] + Total(FiledBy(a, t), Worth)
      = Supply + Total(SettledIn(t), [i \in SettledIn(t) |-> Received(a, i)])

\* the accounts whose call the step is
Callers == {c \in Accounts : Call(c)}

Judged(i) == HasStatus(i, {"Decided", "Settled"})

\* A dispute becomes decided only by the call of an account that is listed as an
\* arbitrator at that moment: nobody else's call could have made the same step, one
\* removed from the list cannot make it any more, the record names the one that
\* made it, and the shares decided on are shares of the whole.
DecidedByArbitrator ==
  [][\A i \in Ids : ~ Judged(i) /\ Judged(i)' =>
       /\ Callers = {dispute'[i].arbitrator}
       /\ dispute'[i].arbitrator \in arbitrators
       /\ RespondentShare(dispute'[i]) \in 0 .. dispute[i].amount]_vars

\* A decision is final: afterwards no party's late evidence, no second arbitrator,
\* no change of arbitrators changes the record or any amount due, and the only
\* thing that still happens to it is its settlement, once.
DecisionFinal ==
  [][\A i \in Ids : HasStatus(i, {"Decided", "Settled"}) =>
       \/ dispute'[i] = dispute[i]
       \/ /\ dispute[i].status = "Decided"
          /\ dispute'[i] = [dispute[i] EXCEPT !.status = "Settled"]]_vars

\* A decided dispute is settled although every arbitrator is removed and neither
\* party acts, unless the contract stays paused for good or the product of the
\* split does not fit.
DecidedSettles ==
  []<>(~ paused) =>
    \A i \in Ids :
      (HasStatus(i, {"Decided"}) /\ SplitFits(dispute[i])) ~> HasStatus(i, {"Settled"})
=============================================================================
