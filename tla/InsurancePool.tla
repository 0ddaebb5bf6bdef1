---------------------------- MODULE InsurancePool ----------------------------
(***************************************************************************)
(* The insurance pool (contracts/insurance_pool/src/lib.rs): members pay   *)
(* contributions in any token, anybody files a claim, claims managers      *)
(* approve it and pay it in a token of their choice.                       *)
(*                                                                         *)
(* Left out: the list of claim ids and the timestamps, which nothing       *)
(* reads.  Filing under an id that is in use replaces the claim there,     *)
(* whoever filed it and whatever has become of it.                         *)
(***************************************************************************)
EXTENDS Contract, Sequences

CONSTANTS
  ClaimIds,
  Premiums,      \* the premiums an administrator may pass, legal or not
  MaxApprovals   \* bound: approvals

ASSUME PoolAssumption == Premiums \subseteq Nat /\ MaxApprovals \in Nat

MaxPremiumBps == 10000

VARIABLES
  contribution,  \* DataKey::PoolMembers: what each member paid, in any token
  pool,          \* DataKey::PoolStats(token), or NoPool
  claim,         \* DataKey::Claim(id), or NoClaim
  approved,      \* history: the claims approved, numbered
  settled,       \* history: the claims paid, numbered
  erased         \* history: contributions that initialize struck from the statistics

poolVars == <<contribution, pool, claim, approved, settled, erased>>

NoPool  == [exists |-> FALSE, balance |-> 0, contributions |-> 0, paid |-> 0, premium |-> 0]
NoClaim == [status |-> "none"]
ClaimRecord == [claimant : Accounts, amount : {a \in Amounts : a > 0},
                status : {"pending", "approved", "rejected", "paid"}]

\* What an approval is given for.
Terms(i) == <<i, claim[i].claimant, claim[i].amount>>
AllTerms == ClaimIds \X Accounts \X {a \in Amounts : a > 0}

\* The approvals of some terms, and the payments made on them.
Times(history, x) == Cardinality({n \in DOMAIN history : history[n] = x})

PoolInit ==
  /\ contribution = [a \in Accounts |-> 0]
  /\ pool = [t \in TokenIds |-> NoPool]
  /\ claim = [i \in ClaimIds |-> NoClaim]
  /\ approved = <<>>
  /\ settled = <<>>
  /\ erased = [t \in TokenIds |-> 0]

-----------------------------------------------------------------------------
\* Contributions are taken before initialize, which writes new statistics over
\* those of its token.
InitializePool(admin, t, premium) ==
  /\ premium <= MaxPremiumBps
  /\ Initialize(admin)
  /\ pool' = [pool EXCEPT ![t] = [NoPool EXCEPT !.exists = TRUE, !.premium = premium]]
  /\ erased' = [erased EXCEPT ![t] = pool[t].contributions]
  /\ UNCHANGED <<contribution, claim, approved, settled>>

Contribute(member, t, amount) ==
  /\ ~paused /\ amount > 0
  /\ Moves(t, member, Vault, amount)
  /\ contribution' = [contribution EXCEPT ![member] = @ + amount]
  /\ pool' = [pool EXCEPT ![t].exists = TRUE, ![t].balance = @ + amount,
                          ![t].contributions = @ + amount]
  /\ UNCHANGED <<claim, approved, settled, erased>>

\* mutant: the claim that replaces an approved one is approved
FileClaimKeepsStatus(claimant, i, amount) ==
  /\ ~paused /\ amount > 0
  /\ claim' = [claim EXCEPT ![i] =
       [claimant |-> claimant, amount |-> amount,
        status |-> IF @.status = "none" THEN "pending" ELSE @.status]]
  /\ UNCHANGED <<chainVars, contribution, pool, approved, settled, erased>>

FileClaim(claimant, i, amount) ==
  /\ ~paused /\ amount > 0
  /\ claim' = [claim EXCEPT ![i] =
       [claimant |-> claimant, amount |-> amount, status |-> "pending"]]
  /\ UNCHANGED <<chainVars, contribution, pool, approved, settled, erased>>

ApproveClaim(caller, i) ==
  /\ RequireRole(roles["manager"], caller)
  /\ ~paused /\ claim[i].status = "pending"
  /\ Len(approved) < MaxApprovals
  /\ claim' = [claim EXCEPT ![i].status = "approved"]
  /\ approved' = Append(approved, Terms(i))
  /\ UNCHANGED <<chainVars, contribution, pool, settled, erased>>

RejectClaim(caller, i) ==
  /\ RequireRole(roles["manager"], caller)
  /\ ~paused /\ claim[i].status = "pending"
  /\ claim' = [claim EXCEPT ![i].status = "rejected"]
  /\ UNCHANGED <<chainVars, contribution, pool, approved, settled, erased>>

\* saturating_sub keeps the sign: a pool that was given tokens may pay out more
\* than its statistics ever took in.
PayClaim(caller, i, t) ==
  /\ RequireRole(roles["manager"], caller)
  /\ ~paused /\ claim[i].status = "approved" /\ pool[t].exists
  /\ Moves(t, Vault, claim[i].claimant, claim[i].amount)
  /\ claim' = [claim EXCEPT ![i].status = "paid"]
  /\ pool' = [pool EXCEPT ![t].balance = @ - claim[i].amount,
                          ![t].paid = @ + claim[i].amount]
  /\ settled' = Append(settled, Terms(i))
  /\ UNCHANGED <<contribution, approved, erased>>

RebalancePool(caller, t, premium) ==
  /\ RequireRole(roles["admin"], caller)
  /\ premium <= MaxPremiumBps /\ pool[t].exists
  /\ pool' = [pool EXCEPT ![t].premium = premium]
  /\ UNCHANGED <<chainVars, contribution, claim, approved, settled, erased>>

PoolNext ==
  \/ Administer(TRUE, "admin") /\ UNCHANGED poolVars
  \/ \E c \in Deployers, t \in TokenIds, p \in Premiums : InitializePool(c, t, p)
  \/ \E c \in Accounts, t \in TokenIds, p \in Premiums : RebalancePool(c, t, p)
  \/ \E c \in Accounts, t \in TokenIds, a \in Amounts : Contribute(c, t, a)
  \/ \E c \in Accounts, i \in ClaimIds :
       \/ \E a \in Amounts : FileClaim(c, i, a)
       \/ ApproveClaim(c, i) \/ RejectClaim(c, i)
       \/ \E t \in TokenIds : PayClaim(c, i, t)

PoolSpec == ContractInit(TokenIds) /\ PoolInit /\ [][PoolNext]_<<chainVars, poolVars>>

-----------------------------------------------------------------------------
\* The shape of the state.
PoolTypeOK ==
  /\ contribution \in [Accounts -> Nat]
  /\ pool \in [TokenIds -> [exists : BOOLEAN, balance : Int, contributions : Nat,
                            paid : Nat, premium : 0..MaxPremiumBps]]
  /\ claim \in [ClaimIds -> ClaimRecord \union {NoClaim}]
  /\ approved \in Seq(AllTerms) /\ settled \in Seq(AllTerms)
  /\ erased \in [TokenIds -> Nat]

\* The pool holds what its statistics say, what it was given without a
\* contribution, and what was contributed before initialize struck it out; and
\* the members are recorded to have paid, all tokens thrown together, what the
\* statistics took in, struck out or not.
PoolReconciles ==
  /\ \A t \in TokenIds :
       /\ pool[t].balance = pool[t].contributions - pool[t].paid
       /\ balance[t][Vault] = pool[t].balance + donated[t] + erased[t]
  /\ Total(Accounts, contribution)
       = Total(TokenIds, [t \in TokenIds |-> pool[t].contributions + erased[t]])

\* Every payment has an approval of its own, for this claimant and this amount:
\* an approval is used up by its payment and lost when its claim is replaced,
\* never carried over to the claim that replaces it.
OneApprovalOnePayment ==
  \A x \in AllTerms :
    Times(settled, x) + Cardinality({i \in ClaimIds : claim[i].status = "approved" /\ Terms(i) = x})
      <= Times(approved, x)
=============================================================================
