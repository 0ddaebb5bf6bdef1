------------------------------ MODULE Contract ------------------------------
(***************************************************************************)
(* What the contracts payment, fee_distribution, insurance_pool,           *)
(* job_registry, reputation and registry have in common: role lists, a     *)
(* pause flag, and the tokens at their address.  A module for each of them *)
(* extends this one with its own storage and entry points.  An invocation  *)
(* is one atomic step: what fails is reverted, a step not taken.           *)
(*                                                                         *)
(* "manager" is the role that only one contract knows (fee_mgr,            *)
(* claims_mgr, rep_mgr, curator_mgr).  upgrade replaces the code, TTL      *)
(* extensions keep entries alive; both, and the upgrader's role, are left  *)
(* out.                                                                    *)
(***************************************************************************)
EXTENDS Tokens, Access

CONSTANTS
  Accounts,    \* the addresses that call the contract
  Vault,       \* the contract's own address
  TokenIds,
  Amounts,     \* the amounts a caller may pass, legal or not
  Supply,      \* what every account owns at first of a token it owns
  Deployers,   \* bound: the accounts that come to call initialize
  Powers,      \* bound: <<role, account>> pairs that are granted or revoked
  Donors,      \* bound: the accounts that send tokens straight to the contract
  MaxDonations \* bound: transfers straight to the contract's address

Roles == {"admin", "pauser", "manager"}
Holders == Accounts \union {Vault}

ASSUME ContractAssumption ==
  /\ Vault \notin Accounts
  /\ Amounts \subseteq Int
  /\ Supply \in Nat /\ MaxDonations \in Nat
  /\ Powers \subseteq Roles \X Accounts /\ Deployers \union Donors \subseteq Accounts

VARIABLES
  initialized, roles, paused,
  balance,     \* the token contracts' ledgers
  donated,     \* history: what was sent to the address of the contract without
               \* calling it, as a contract does that pays its fees there, or
               \* the contract itself that is among its fee recipients
  donations    \* bounded by MaxDonations

chainVars == <<initialized, roles, paused, balance, donated, donations>>

\* funded: the tokens that accounts own at first.
ContractInit(funded) ==
  /\ initialized = FALSE
  /\ roles = [r \in Roles |-> {}]
  /\ paused = FALSE
  /\ balance = [t \in TokenIds |-> [h \in Holders |->
       IF h # Vault /\ t \in funded THEN Supply ELSE 0]]
  /\ donated = [t \in TokenIds |-> 0]
  /\ donations = 0

\* A transfer of token t, and nothing else of what the contracts share.
Moves(t, from, to, amount) ==
  /\ CanTransfer(balance[t], from, amount)
  /\ balance' = [balance EXCEPT ![t] = Transferred(@, from, to, amount)]
  /\ UNCHANGED <<initialized, roles, paused, donated, donations>>

-----------------------------------------------------------------------------
\* initialize; the first caller names the admin.
Initialize(admin) ==
  /\ ~initialized
  /\ initialized' = TRUE
  /\ roles' = [roles EXCEPT !["admin"] = {admin}]
  /\ UNCHANGED <<paused, balance, donated, donations>>

\* frozen: role changes require that the contract is not paused.  Revoking a
\* role that is not held changes nothing, refused or not.
GrantRole(caller, role, account, frozen) ==
  /\ RequireRole(roles["admin"], caller)
  /\ frozen => ~paused
  /\ roles' = Granted(roles, role, account)
  /\ UNCHANGED <<initialized, paused, balance, donated, donations>>

\* mutant: roles are revoked while the contract is paused
RevokeRolePaused(caller, role, account, frozen) ==
  /\ RequireRole(roles["admin"], caller)
  /\ roles' = Revoked(roles, role, account)
  /\ UNCHANGED <<initialized, paused, balance, donated, donations>>

RevokeRole(caller, role, account, frozen) ==
  /\ RequireRole(roles["admin"], caller)
  /\ frozen => ~paused
  /\ roles' = Revoked(roles, role, account)
  /\ UNCHANGED <<initialized, paused, balance, donated, donations>>

SetPaused(caller, role, value) ==
  /\ RequireRole(roles[role], caller)
  /\ paused' = value
  /\ UNCHANGED <<initialized, roles, balance, donated, donations>>

Donate(from, t, amount) ==
  /\ amount > 0 /\ donations < MaxDonations
  /\ CanTransfer(balance[t], from, amount)
  /\ balance' = [balance EXCEPT ![t] = Transferred(@, from, Vault, amount)]
  /\ donated' = [donated EXCEPT ![t] = @ + amount]
  /\ donations' = donations + 1
  /\ UNCHANGED <<initialized, roles, paused>>

\* What needs nothing of a contract's own storage.
Administer(frozen, unpauser) ==
  \/ \E c \in Accounts :
       \/ \E p \in Powers : \/ GrantRole(c, p[1], p[2], frozen)
                            \/ RevokeRole(c, p[1], p[2], frozen)
       \/ SetPaused(c, "pauser", TRUE)
       \/ SetPaused(c, unpauser, FALSE)
  \/ \E c \in Donors, t \in TokenIds, a \in Amounts : Donate(c, t, a)

-----------------------------------------------------------------------------
\* The shape of the state.
ContractTypeOK ==
  /\ initialized \in BOOLEAN /\ paused \in BOOLEAN
  /\ roles \in [Roles -> SUBSET Accounts]
  /\ balance \in [TokenIds -> [Holders -> Nat]]
  /\ donated \in [TokenIds -> Nat]
  /\ donations \in 0..MaxDonations

\* Whoever can lift a pause exists while there is one.  It takes that neither
\* the pauser who paused can be revoked, nor anything else empties the list.
PauseCanBeLifted == paused => roles["pauser"] # {}
=============================================================================
