------------------------------- MODULE Escrow -------------------------------
(***************************************************************************)
(* The escrow contract (packages/contracts/contracts/escrow/src).  Every   *)
(* invocation is one atomic step: a failing check or a failing transfer    *)
(* reverts the whole transaction, so it is a step that is not taken.  The  *)
(* steps of different callers interleave in any order, and ledger time     *)
(* passes between them.                                                    *)
(***************************************************************************)
EXTENDS Tokens, Access, Sequences

CONSTANTS
  Accounts,    \* the addresses that call the contract
  Vault,       \* the contract's own address
  TokenIds,    \* token contracts
  Ids,         \* escrow ids (symbols chosen by the depositors)
  Amounts,     \* the amounts a caller may pass, legal or not
  Supply,      \* what every account owns of every token at first
  Parties,     \* <<depositor, beneficiary>> pairs that strike deals
  Grants,      \* <<role, account>> pairs that administrators may grant or revoke
  MaxTime,     \* bound on ledger time
  MaxSchema,   \* bound on the schema version
  Absent       \* what escrow[i] is when no escrow has id i

Roles == {"admin", "arbitrator", "upgrader", "pauser"}

Time == 0 .. MaxTime

EscrowState == {"Active", "Released", "Cancelled", "Disputed"}

EscrowRecord == [depositor : Accounts, beneficiary : Accounts, token : TokenIds,
                 amount : {a \in Amounts : a > 0}, expiry : Time,
                 state : EscrowState]

\* the part of a record that never changes
EscrowTerms == [depositor : Accounts, beneficiary : Accounts, token : TokenIds,
                amount : {a \in Amounts : a > 0}]

ASSUME ConstantsOK ==
  /\ Vault \notin Accounts
  /\ Amounts \subseteq Int
  /\ Supply \in Nat /\ MaxTime \in Nat /\ MaxSchema \in Nat
  /\ Parties \subseteq Accounts \X Accounts
  /\ Grants \subseteq Roles \X Accounts
  /\ Absent \notin EscrowRecord \cup EscrowTerms

VARIABLES
  escrow,        \* DataKey::Escrow(id): the record of every id
  escrowList,    \* DataKey::EscrowList: the ids in creation order
  roles,         \* DataKey::RoleMembers
  initialized,   \* DataKey::Initialized
  paused,        \* DataKey::Paused
  schemaVersion, \* DataKey::SchemaVersion
  now,           \* env.ledger().timestamp()
  balance        \* the token contracts' ledgers

funds  == <<escrow, escrowList, balance>>
access == <<roles, initialized, paused, schemaVersion>>
vars   == <<funds, access, now>>

Holders == Accounts \cup {Vault}

Init ==
  /\ escrow = [i \in Ids |-> Absent]
  /\ escrowList = << >>
  /\ roles = [r \in Roles |-> {}]
  /\ initialized = FALSE
  /\ paused = FALSE
  /\ schemaVersion = 1
  /\ now = 0
  /\ balance = [t \in TokenIds |-> [h \in Holders |-> IF h = Vault THEN 0 ELSE Supply]]

-----------------------------------------------------------------------------
(* Administration *)

Initialize(admin) ==
  /\ ~initialized
  /\ initialized' = TRUE
  /\ schemaVersion' = 1
  /\ roles' = [roles EXCEPT !["admin"] = {admin}]
  /\ UNCHANGED <<funds, paused, now>>

GrantRole(caller, role, account) ==
  /\ RequireRole(roles["admin"], caller)
  /\ roles' = Granted(roles, role, account)
  /\ UNCHANGED <<funds, initialized, paused, schemaVersion, now>>

RevokeRole(caller, role, account) ==
  /\ RequireRole(roles["admin"], caller)
  /\ roles' = Revoked(roles, role, account)
  /\ UNCHANGED <<funds, initialized, paused, schemaVersion, now>>

Pause(caller) ==
  /\ RequireRole(roles["pauser"], caller)
  /\ paused' = TRUE
  /\ UNCHANGED <<funds, roles, initialized, schemaVersion, now>>

Unpause(caller) ==
  /\ RequireRole(roles["pauser"], caller)
  /\ paused' = FALSE
  /\ UNCHANGED <<funds, roles, initialized, schemaVersion, now>>

Migrate(caller, expected) ==
  /\ RequireRole(roles["admin"], caller)
  /\ schemaVersion = expected
  /\ schemaVersion < MaxSchema
  /\ schemaVersion' = expected + 1
  /\ UNCHANGED <<funds, roles, initialized, paused, now>>

-----------------------------------------------------------------------------
(* The life of an escrow *)

InState(i, s) == escrow[i] # Absent /\ escrow[i].state = s

\* the effects of create_escrow: the record and its id are stored, then the
\* amount goes from the depositor to the contract
LockFunds(depositor, beneficiary, token, i, amount, expiry) ==
  /\ CanTransfer(balance[token], depositor, amount)
  /\ escrow' = [escrow EXCEPT ![i] =
                  [depositor |-> depositor, beneficiary |-> beneficiary,
                   token |-> token, amount |-> amount, expiry |-> expiry,
                   state |-> "Active"]]
  /\ escrowList' = Append(escrowList, i)
  /\ balance' = [balance EXCEPT ![token] =
                   Transferred(@, depositor, Vault, amount)]
  /\ UNCHANGED <<access, now>>

\* mutant: create_escrow without the amount check
CreateEscrowAnyAmount(depositor, beneficiary, token, i, amount, expiry) ==
  /\ ~paused /\ expiry > now /\ escrow[i] = Absent
  /\ LockFunds(depositor, beneficiary, token, i, amount, expiry)

\* mutant: create_escrow takes an id again once its escrow is closed
CreateEscrowReusesId(depositor, beneficiary, token, i, amount, expiry) ==
  /\ ~paused /\ amount > 0 /\ expiry > now
  /\ escrow[i] = Absent \/ InState(i, "Released") \/ InState(i, "Cancelled")
  /\ LockFunds(depositor, beneficiary, token, i, amount, expiry)

CreateEscrow(depositor, beneficiary, token, i, amount, expiry) ==
  /\ ~paused
  /\ amount > 0
  /\ expiry > now
  /\ escrow[i] = Absent
  /\ LockFunds(depositor, beneficiary, token, i, amount, expiry)

\* what release, cancel and resolve share: the new state is stored, then the
\* whole amount goes from the contract to the recipient
PayOut(i, newState, recipient) ==
  /\ CanTransfer(balance[escrow[i].token], Vault, escrow[i].amount)
  /\ escrow' = [escrow EXCEPT ![i].state = newState]
  /\ balance' = [balance EXCEPT ![escrow[i].token] =
                   Transferred(@, Vault, recipient, escrow[i].amount)]
  /\ UNCHANGED <<escrowList, access, now>>

ReleaseEscrow(caller, i) ==
  /\ ~paused
  /\ InState(i, "Active")
  /\ caller = escrow[i].depositor \/ RequireRole(roles["admin"], caller)
  /\ PayOut(i, "Released", escrow[i].beneficiary)

\* mutant: cancel_escrow pays any escrow that exists (no require_active)
CancelEscrowAnyState(caller, i) ==
  /\ ~paused
  /\ escrow[i] # Absent
  /\ \/ RequireRole(roles["admin"], caller)
     \/ caller = escrow[i].depositor /\ now >= escrow[i].expiry
  /\ PayOut(i, "Cancelled", escrow[i].depositor)

\* mutant: expiry off by one, the escrow expires a second late
CancelEscrowLate(caller, i) ==
  /\ ~paused
  /\ InState(i, "Active")
  /\ \/ RequireRole(roles["admin"], caller)
     \/ caller = escrow[i].depositor /\ now > escrow[i].expiry
  /\ PayOut(i, "Cancelled", escrow[i].depositor)

CancelEscrow(caller, i) ==
  /\ ~paused
  /\ InState(i, "Active")
  /\ \/ RequireRole(roles["admin"], caller)
     \/ caller = escrow[i].depositor /\ now >= escrow[i].expiry
  /\ PayOut(i, "Cancelled", escrow[i].depositor)

\* mutant: dispute_escrow without require_not_paused
DisputeEscrowPaused(caller, i) ==
  /\ InState(i, "Active")
  /\ caller \in {escrow[i].depositor, escrow[i].beneficiary}
  /\ escrow' = [escrow EXCEPT ![i].state = "Disputed"]
  /\ UNCHANGED <<escrowList, balance, access, now>>

DisputeEscrow(caller, i) ==
  /\ ~paused
  /\ InState(i, "Active")
  /\ caller \in {escrow[i].depositor, escrow[i].beneficiary}
  /\ escrow' = [escrow EXCEPT ![i].state = "Disputed"]
  /\ UNCHANGED <<escrowList, balance, access, now>>

\* mutant: resolve_dispute pays the other party
ResolveDisputeSwapped(caller, i, toBeneficiary) ==
  /\ ~paused
  /\ RequireRole(roles["arbitrator"], caller)
  /\ InState(i, "Disputed")
  /\ IF toBeneficiary
     THEN PayOut(i, "Released", escrow[i].depositor)
     ELSE PayOut(i, "Cancelled", escrow[i].beneficiary)

\* mutant: resolve_dispute asks for the administrator's role
ResolveDisputeByAdmin(caller, i, toBeneficiary) ==
  /\ ~paused
  /\ RequireRole(roles["admin"], caller)
  /\ InState(i, "Disputed")
  /\ IF toBeneficiary
     THEN PayOut(i, "Released", escrow[i].beneficiary)
     ELSE PayOut(i, "Cancelled", escrow[i].depositor)

\* mutant: resolve_dispute without require_role
ResolveDisputeByAnyone(caller, i, toBeneficiary) ==
  /\ ~paused
  /\ InState(i, "Disputed")
  /\ IF toBeneficiary
     THEN PayOut(i, "Released", escrow[i].beneficiary)
     ELSE PayOut(i, "Cancelled", escrow[i].depositor)

ResolveDispute(caller, i, toBeneficiary) ==
  /\ ~paused
  /\ RequireRole(roles["arbitrator"], caller)
  /\ InState(i, "Disputed")
  /\ IF toBeneficiary
     THEN PayOut(i, "Released", escrow[i].beneficiary)
     ELSE PayOut(i, "Cancelled", escrow[i].depositor)

Tick ==
  /\ now < MaxTime
  /\ now' = now + 1
  /\ UNCHANGED <<funds, access>>

-----------------------------------------------------------------------------
(* The entry points, by the account that signs the invocation; for initialize,
   which asks nobody to sign, by the administrator it names *)

AdminCall(c) ==
  \/ Initialize(c)
  \/ \E g \in Grants : GrantRole(c, g[1], g[2]) \/ RevokeRole(c, g[1], g[2])
  \/ Pause(c)
  \/ Unpause(c)
  \/ \E v \in 1 .. MaxSchema : Migrate(c, v)

\* a depositor signs for the deals it is the first party of
Deposit(c, i) ==
  \E p \in Parties, t \in TokenIds, a \in Amounts, e \in Time :
    p[1] = c /\ CreateEscrow(c, p[2], t, i, a, e)

CallOn(c, i) ==
  \/ Deposit(c, i)
  \/ ReleaseEscrow(c, i)
  \/ CancelEscrow(c, i)
  \/ DisputeEscrow(c, i)
  \/ \E toBeneficiary \in BOOLEAN : ResolveDispute(c, i, toBeneficiary)

Call(c) == AdminCall(c) \/ \E i \in Ids : CallOn(c, i)

Next == (\E c \in Accounts : Call(c)) \/ Tick

Spec == Init /\ [][Next]_vars

\* Nothing in the contract runs by itself.  What is assumed is that ledger time
\* passes, and that a depositor and an arbitrator who want an escrow ended call
\* again whenever their call can succeed.
Fairness ==
  /\ WF_vars(Tick)
  /\ \A i \in Ids :
       /\ SF_vars(\E c \in Accounts : CancelEscrow(c, i) /\ c = escrow[i].depositor)
       /\ SF_vars(\E c \in Accounts, b \in BOOLEAN : ResolveDispute(c, i, b))

FairSpec == Spec /\ Fairness

-----------------------------------------------------------------------------
(* Properties *)

\* Every variable holds a value the contract can store: in particular no record
\* has a non-positive amount, and no ledger a negative balance.
TypeOK ==
  /\ escrow \in [Ids -> EscrowRecord \cup {Absent}]
  /\ escrowList \in Seq(Ids)
  /\ roles \in [Roles -> SUBSET Accounts]
  /\ initialized \in BOOLEAN
  /\ paused \in BOOLEAN
  /\ schemaVersion \in Nat
  /\ now \in Time
  /\ balance \in [TokenIds -> [Holders -> Nat]]

Worth == [i \in Ids |-> IF escrow[i] = Absent THEN 0 ELSE escrow[i].amount]

Open(i) == InState(i, "Active") \/ InState(i, "Disputed")

OpenIn(t) == {i \in Ids : Open(i) /\ escrow[i].token = t}

\* Of every token the contract holds exactly what the open escrows in that token
\* are worth: no sequence of releases, cancellations, disputes and resolutions
\* pays an escrow twice, pays in another escrow's token or leaves a remainder.
Solvency ==
  \A t \in TokenIds :
    balance[t][Vault] = Total(OpenIn(t), Worth)

Spent(a, t) == {i \in Ids : /\ escrow[i] # Absent /\ escrow[i].state # "Cancelled"
                           /\ escrow[i].depositor = a /\ escrow[i].token = t}

Earned(a, t) == {i \in Ids : /\ InState(i, "Released")
                            /\ escrow[i].beneficiary = a /\ escrow[i].token = t}

\* Every wallet is explained by the records: an account has lost what it put into
\* escrows that were not cancelled and gained what was released to it, and no
\* administrator, arbitrator or third party ever receives anything else.
WalletsExplained ==
  \A a \in Accounts, t \in TokenIds :
    balance[t][a] + Total(Spent(a, t), Worth) = Supply + Total(Earned(a, t), Worth)

\* the accounts whose call the step is: more than one, if the same step can be
\* had by the call of any of them
Callers == {c \in Accounts : Call(c)}

\* who may take escrow i to the state the step puts it in
Entitled(i) ==
  CASE InState(i, "Disputed") -> roles["arbitrator"]
    [] InState(i, "Active") /\ escrow'[i].state = "Disputed" ->
         {escrow[i].depositor, escrow[i].beneficiary}
    [] InState(i, "Active") /\ escrow'[i].state = "Released" ->
         {escrow[i].depositor} \cup roles["admin"]
    [] InState(i, "Active") /\ escrow'[i].state = "Cancelled" ->
         roles["admin"] \cup {c \in {escrow[i].depositor} : now >= escrow[i].expiry}
    [] OTHER -> {}

\* A stored escrow changes only by a call of somebody entitled to that change at
\* that moment, whatever the roles were when it was made: a dispute is opened by a
\* party and, once open, ended by nobody but an arbitrator in office, not by the
\* parties, an administrator or an arbitrator since revoked; an active escrow is
\* released by its depositor or an administrator, and refunded by an administrator
\* or, from the second it expires, its depositor; a closed one never changes.
EscrowEndsByAuthority ==
  [][\A i \in Ids : escrow[i] # Absent /\ escrow'[i] # escrow[i] =>
       Callers # {} /\ Callers \subseteq Entitled(i)]_vars

\* Pausing freezes the money and the records, whatever else goes on meanwhile.
PauseFreezes == [][paused => UNCHANGED funds]_vars

\* The contract keeps the promise of EscrowPromise: disputes, roles, pausing and
\* time only decide when and to whom a deal is paid, never whether it is paid
\* twice, in part, on other terms, or to somebody else.
Terms(i) == [depositor |-> escrow[i].depositor, beneficiary |-> escrow[i].beneficiary,
             token |-> escrow[i].token, amount |-> escrow[i].amount]

deal == [i \in Ids |-> IF escrow[i] = Absent THEN Absent ELSE Terms(i)]

fate == [i \in Ids |-> CASE InState(i, "Released")  -> "paid"
                         [] InState(i, "Cancelled") -> "refunded"
                         [] OTHER                   -> "held"]

Promise == INSTANCE EscrowPromise WITH
  deal <- deal, fate <- fate, balance <- balance, NoDeal <- Absent

ImplementsPromise == Promise!Spec

\* No deposit is stranded: unless the contract stays paused for good, an escrow
\* does not stay active for ever, with or without administrators (the depositor
\* may cancel from the very second it expires).
ActiveEnds ==
  []<>(~ paused) =>
    \A i \in Ids : InState(i, "Active") ~> ~ InState(i, "Active")

\* A dispute ends as long as the contract keeps having an arbitrator while it is
\* not paused; nothing else is needed, no expiry and no party's consent.
DisputeEnds ==
  []<>(~ paused /\ roles["arbitrator"] # {}) =>
    \A i \in Ids : InState(i, "Disputed") ~> ~ InState(i, "Disputed")
=============================================================================
