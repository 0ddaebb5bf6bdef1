------------------------------- MODULE Market ------------------------------
(***************************************************************************)
(* The market contract (packages/contracts/contracts/market/src/lib.rs):   *)
(* tips, single escrows, multi-signature escrows and the arbitration of    *)
(* both.  Single and multi-signature escrows have ids of their own, while  *)
(* the arbitration records of the two are stored under one key.  As in     *)
(* Escrow an invocation is one atomic step, and one that fails is a step   *)
(* that is not taken.                                                      *)
(***************************************************************************)
EXTENDS Tokens, Access, Fees, Sequences

CONSTANTS
  Accounts,     \* the addresses that call the contract
  Vault,        \* the contract's own address
  TokenIds,     \* token contracts
  Ids,          \* escrow ids (symbols chosen by the payers)
  Amounts,      \* the amounts a caller may pass, legal or not
  Supply,       \* what every account owns of every token at first
  Parties,      \* <<payer, worker>> pairs that make payments
  Grants,       \* <<role, account>> pairs that may be granted or revoked
  Owners,       \* accounts that may initialize or be made admin
  Treasuries,   \* accounts the fees may go to
  Arbiters,     \* accounts the admin may list as arbitrators
  FeeRates,     \* fees in basis points a caller may pass, legal or not
  JudgeFees,    \* arbitration fees a requester may pass
  SignerLists,  \* <<signers, threshold>> pairs, legal or not
  MaxTime,      \* bound on ledger time
  MaxSchema,    \* bound on the schema version
  MaxI128,      \* the largest product checked_mul accepts
  None          \* an absent record or address

MaxFeeBps == 500

BatchLimit == 20

Roles == {"admin", "pauser", "fee_mgr", "dispute_mgr", "upgrader"}

Time == 0 .. MaxTime

Positive == {a \in Amounts : a > 0}

Config == [fee_bps : FeeRates \cap 0 .. MaxFeeBps, fee_recipient : Accounts]

EscrowRecord ==
  [from : Accounts, to : Accounts, token : TokenIds, amount : Positive, expiry : Time,
   released : BOOLEAN, cancelled : BOOLEAN, arbitration_requested : BOOLEAN]

MultiSigRecord ==
  [from : Accounts, to : Accounts, token : TokenIds, amount : Positive, expiry : Time,
   signers : Seq(Accounts), threshold : Nat, approvals : SUBSET Accounts,
   released : BOOLEAN, cancelled : BOOLEAN]

ArbitrationRecord ==
  [requester : Accounts, arbitrator : Accounts, fee : JudgeFees, resolved : BOOLEAN]

ASSUME ConstantsOK ==
  /\ Vault \notin Accounts
  /\ Amounts \subseteq Int /\ FeeRates \subseteq Nat /\ JudgeFees \subseteq Int
  /\ Supply \in Nat /\ MaxI128 \in Nat /\ MaxTime \in Nat /\ MaxSchema \in Nat
  /\ Parties \subseteq Accounts \X Accounts
  /\ Grants \subseteq Roles \X Accounts
  /\ Owners \subseteq Accounts /\ Treasuries \subseteq Accounts
  /\ Arbiters \subseteq Accounts
  /\ SignerLists \subseteq Seq(Accounts) \X Nat
  /\ None \notin Accounts \cup Config \cup EscrowRecord \cup MultiSigRecord
                  \cup ArbitrationRecord

VARIABLES
  escrow,        \* DataKey::Escrow(id)
  multisig,      \* DataKey::MultiSigEscrow(id)
  arbitration,   \* DataKey::Arbitration(id), for both kinds of escrow
  balance,       \* the token contracts' ledgers
  config,        \* DataKey::Config
  admin,         \* DataKey::Admin
  roles,         \* DataKey::RoleMembers
  arbitrators,   \* DataKey::Arbitrators
  paused,        \* DataKey::Paused
  schemaVersion, \* DataKey::SchemaVersion
  now            \* env.ledger().timestamp()

records == <<escrow, multisig, arbitration>>
funds   == <<records, balance>>
access  == <<config, admin, roles, arbitrators, paused, schemaVersion>>
vars    == <<funds, access, now>>

Holders == Accounts \cup {Vault}

Init ==
  /\ escrow = [i \in Ids |-> None]
  /\ multisig = [i \in Ids |-> None]
  /\ arbitration = [i \in Ids |-> None]
  /\ balance = [t \in TokenIds |-> [h \in Holders |-> IF h = Vault THEN 0 ELSE Supply]]
  /\ config = None
  /\ admin = None
  /\ roles = [r \in Roles |-> {}]
  /\ arbitrators = {}
  /\ paused = FALSE
  /\ schemaVersion = 1
  /\ now = 0

-----------------------------------------------------------------------------
(* Administration *)

Initialize(a, bps, recipient) ==
  /\ config = None
  /\ bps <= MaxFeeBps
  /\ config' = [fee_bps |-> bps, fee_recipient |-> recipient]
  /\ admin' = a
  /\ roles' = [roles EXCEPT !["admin"] = {a}]
  /\ schemaVersion' = 1
  /\ UNCHANGED <<funds, arbitrators, paused, now>>

\* called by the admin, who must hold the fee manager's role as well
UpdateFee(bps) ==
  /\ admin # None
  /\ RequireRole(roles["fee_mgr"], admin)
  /\ bps <= MaxFeeBps
  /\ config' = [config EXCEPT !.fee_bps = bps]
  /\ UNCHANGED <<funds, admin, roles, arbitrators, paused, schemaVersion, now>>

SetTreasury(caller, recipient) ==
  /\ RequireRole(roles["admin"], caller)
  /\ config # None
  /\ config' = [config EXCEPT !.fee_recipient = recipient]
  /\ UNCHANGED <<funds, admin, roles, arbitrators, paused, schemaVersion, now>>

GrantRole(caller, role, account) ==
  /\ RequireRole(roles["admin"], caller)
  /\ ~paused
  /\ roles' = Granted(roles, role, account)
  /\ UNCHANGED <<funds, config, admin, arbitrators, paused, schemaVersion, now>>

RevokeRole(caller, role, account) ==
  /\ RequireRole(roles["admin"], caller)
  /\ ~paused
  /\ account \in roles[role]
  /\ roles' = Revoked(roles, role, account)
  /\ UNCHANGED <<funds, config, admin, arbitrators, paused, schemaVersion, now>>

SetPaused(caller, value) ==
  /\ RequireRole(roles["pauser"], caller)
  /\ paused' = value
  /\ UNCHANGED <<funds, config, admin, roles, arbitrators, schemaVersion, now>>

\* the old admin loses the admin role, the new one gets it
SetAdmin(newAdmin) ==
  /\ admin # None
  /\ admin' = newAdmin
  /\ roles' = [roles EXCEPT !["admin"] = (@ \ {admin}) \cup {newAdmin}]
  /\ UNCHANGED <<funds, config, arbitrators, paused, schemaVersion, now>>

AddArbitrator(a) ==
  /\ admin # None
  /\ arbitrators' = arbitrators \cup {a}
  /\ UNCHANGED <<funds, config, admin, roles, paused, schemaVersion, now>>

RemoveArbitrator(a) ==
  /\ admin # None
  /\ arbitrators' = arbitrators \ {a}
  /\ UNCHANGED <<funds, config, admin, roles, paused, schemaVersion, now>>

Migrate(caller, expected) ==
  /\ RequireRole(roles["admin"], caller)
  /\ schemaVersion = expected
  /\ schemaVersion < MaxSchema
  /\ schemaVersion' = expected + 1
  /\ UNCHANGED <<funds, config, admin, roles, arbitrators, paused, now>>

-----------------------------------------------------------------------------
(* Payments *)

\* one transfer of token t
Pay(t, from, to, amount) ==
  /\ CanTransfer(balance[t], from, amount)
  /\ balance' = [balance EXCEPT ![t] = Transferred(@, from, to, amount)]

\* the amount less the protocol fee goes to one address, the fee to the treasury
PayWithFee(t, from, to, amount) ==
  LET fee  == Fee(amount, config.fee_bps)
      half == Transferred(balance[t], from, to, amount - fee)
  IN  /\ config # None
      /\ FeeFits(amount, config.fee_bps, MaxI128)
      /\ CanTransfer(balance[t], from, amount - fee)
      /\ CanTransfer(half, from, fee)
      /\ balance' = [balance EXCEPT ![t] =
                       Transferred(half, from, config.fee_recipient, fee)]

Tip(from, to, token, amount) ==
  /\ ~paused
  /\ amount > 0
  /\ PayWithFee(token, from, to, amount)
  /\ UNCHANGED <<records, access, now>>

-----------------------------------------------------------------------------
(* Single escrows *)

IsOpen(r) == r # None /\ ~r.released /\ ~r.cancelled

IsParty(r, account) == account \in {r.from, r.to}

CreateEscrow(i, from, to, token, amount, expiry) ==
  /\ ~paused
  /\ amount > 0
  /\ escrow[i] = None
  /\ Pay(token, from, Vault, amount)
  /\ escrow' = [escrow EXCEPT ![i] =
                  [from |-> from, to |-> to, token |-> token, amount |-> amount,
                   expiry |-> expiry, released |-> FALSE, cancelled |-> FALSE,
                   arbitration_requested |-> FALSE]]
  /\ UNCHANGED <<multisig, arbitration, access, now>>

ReleaseEscrow(i, caller) ==
  /\ ~paused
  /\ IsOpen(escrow[i])
  /\ IsParty(escrow[i], caller)
  /\ PayWithFee(escrow[i].token, Vault, escrow[i].to, escrow[i].amount)
  /\ escrow' = [escrow EXCEPT ![i].released = TRUE]
  /\ UNCHANGED <<multisig, arbitration, access, now>>

\* mutant: the refund pays as a release does, less the fee
RefundLessFee(i) ==
  /\ PayWithFee(escrow[i].token, Vault, escrow[i].from, escrow[i].amount)
  /\ escrow' = [escrow EXCEPT ![i].cancelled = TRUE]
  /\ UNCHANGED <<multisig, arbitration, access, now>>

\* the payer gets the amount back, whole
Refund(i) ==
  /\ Pay(escrow[i].token, Vault, escrow[i].from, escrow[i].amount)
  /\ escrow' = [escrow EXCEPT ![i].cancelled = TRUE]
  /\ UNCHANGED <<multisig, arbitration, access, now>>

\* mutant: the refund of a released escrow
CancelEscrowReleased(i, caller) ==
  /\ ~paused
  /\ escrow[i] # None /\ ~escrow[i].cancelled
  /\ caller = escrow[i].from
  /\ now >= escrow[i].expiry
  /\ Refund(i)

CancelEscrow(i, caller) ==
  /\ ~paused
  /\ IsOpen(escrow[i])
  /\ caller = escrow[i].from
  /\ now >= escrow[i].expiry
  /\ Refund(i)

\* mutant: expiry off by one
CancelExpiredEscrowLate(i) ==
  /\ ~paused
  /\ IsOpen(escrow[i])
  /\ now > escrow[i].expiry
  /\ Refund(i)

\* anybody may call it
CancelExpiredEscrow(i) ==
  /\ ~paused
  /\ IsOpen(escrow[i])
  /\ now >= escrow[i].expiry
  /\ Refund(i)

EscrowWorth == [i \in Ids |-> IF escrow[i] = None THEN 0 ELSE escrow[i].amount]

\* The whole amount of every escrow of the batch that is open and has the caller
\* as a party; the others are skipped, and a fee is not taken.
BatchReleaseEscrow(caller, ids) ==
  LET released == {i \in ids : IsOpen(escrow[i]) /\ IsParty(escrow[i], caller)}
      Out(t)   == {i \in released : escrow[i].token = t}
      To(h, t) == {i \in Out(t) : escrow[i].to = h}
  IN  /\ ~paused
      /\ Cardinality(ids) <= BatchLimit
      /\ \A t \in TokenIds : balance[t][Vault] >= Total(Out(t), EscrowWorth)
      /\ balance' = [t \in TokenIds |-> [h \in Holders |->
                       IF h = Vault THEN balance[t][h] - Total(Out(t), EscrowWorth)
                       ELSE balance[t][h] + Total(To(h, t), EscrowWorth)]]
      /\ escrow' = [i \in Ids |-> IF i \in released
                                  THEN [escrow[i] EXCEPT !.released = TRUE]
                                  ELSE escrow[i]]
      /\ UNCHANGED <<multisig, arbitration, access, now>>

-----------------------------------------------------------------------------
(* Multi-signature escrows *)

\* the deposit of a multi-signature escrow
LockMultisig(i, from, to, token, amount, expiry, signers, threshold) ==
  /\ Pay(token, from, Vault, amount)
  /\ multisig' = [multisig EXCEPT ![i] =
                    [from |-> from, to |-> to, token |-> token, amount |-> amount,
                     expiry |-> expiry, signers |-> signers, threshold |-> threshold,
                     approvals |-> {}, released |-> FALSE, cancelled |-> FALSE]]
  /\ UNCHANGED <<escrow, arbitration, access, now>>

\* mutant: no check of the amount
CreateMultisigEscrowAnyAmount(i, from, to, token, amount, expiry, signers, threshold) ==
  /\ ~paused
  /\ multisig[i] = None
  /\ threshold # 0 /\ threshold <= Len(signers)
  /\ LockMultisig(i, from, to, token, amount, expiry, signers, threshold)

\* a signer may be listed more than once, so that a threshold can be out of reach
CreateMultisigEscrow(i, from, to, token, amount, expiry, signers, threshold) ==
  /\ ~paused
  /\ amount > 0
  /\ multisig[i] = None
  /\ threshold # 0 /\ threshold <= Len(signers)
  /\ LockMultisig(i, from, to, token, amount, expiry, signers, threshold)

\* the approval is stored; the one that reaches the threshold pays the worker
Approve(i, caller) ==
  /\ LET approvals == multisig[i].approvals \cup {caller}
         enough    == Cardinality(approvals) >= multisig[i].threshold
     IN  /\ multisig' = [multisig EXCEPT ![i].approvals = approvals, ![i].released = enough]
         /\ IF enough THEN Pay(multisig[i].token, Vault, multisig[i].to, multisig[i].amount)
            ELSE UNCHANGED balance
  /\ UNCHANGED <<escrow, arbitration, access, now>>

\* mutant: no check that the caller is a signer
ApproveMultisigReleaseAnyone(i, caller) ==
  /\ ~paused
  /\ IsOpen(multisig[i])
  /\ caller \notin multisig[i].approvals
  /\ Approve(i, caller)

\* mutant: no check of the pause
ApproveMultisigReleasePaused(i, caller) ==
  /\ IsOpen(multisig[i])
  /\ \E k \in 1 .. Len(multisig[i].signers) : multisig[i].signers[k] = caller
  /\ caller \notin multisig[i].approvals
  /\ Approve(i, caller)

ApproveMultisigRelease(i, caller) ==
  /\ ~paused
  /\ IsOpen(multisig[i])
  /\ \E k \in 1 .. Len(multisig[i].signers) : multisig[i].signers[k] = caller
  /\ caller \notin multisig[i].approvals
  /\ Approve(i, caller)

CancelMultisigEscrow(i, caller) ==
  /\ ~paused
  /\ IsOpen(multisig[i])
  /\ caller = multisig[i].from
  /\ now >= multisig[i].expiry
  /\ Pay(multisig[i].token, Vault, multisig[i].from, multisig[i].amount)
  /\ multisig' = [multisig EXCEPT ![i].cancelled = TRUE]
  /\ UNCHANGED <<escrow, arbitration, access, now>>

-----------------------------------------------------------------------------
(* Arbitration *)

\* the record both kinds of request store
Judge(i, caller, judge, fee) ==
  arbitration' = [arbitration EXCEPT ![i] =
                    [requester |-> caller, arbitrator |-> judge, fee |-> fee,
                     resolved |-> FALSE]]

\* a fee that is not positive is recorded and not transferred
RequestMultisigArbitration(i, caller, judge, fee) ==
  /\ ~paused
  /\ IsOpen(multisig[i])
  /\ IsParty(multisig[i], caller)
  /\ arbitration[i] = None
  /\ judge \in arbitrators
  /\ IF fee > 0 THEN Pay(multisig[i].token, caller, judge, fee) ELSE UNCHANGED balance
  /\ Judge(i, caller, judge, fee)
  /\ UNCHANGED <<escrow, multisig, access, now>>

\* the judge of an unresolved arbitration speaks, whether still listed or not
Resolves(i, judge) ==
  /\ arbitration[i] # None
  /\ arbitration[i].arbitrator = judge
  /\ ~arbitration[i].resolved
  /\ arbitration' = [arbitration EXCEPT ![i].resolved = TRUE]

\* the amount of a record goes to the worker or back to the payer
Verdict(r, toWorker) ==
  Pay(r.token, Vault, IF toWorker THEN r.to ELSE r.from, r.amount)

\* the escrow ends as the judge says
CloseMultisig(i, toWorker) ==
  /\ Verdict(multisig[i], toWorker)
  /\ multisig' = IF toWorker THEN [multisig EXCEPT ![i].released = TRUE]
                 ELSE [multisig EXCEPT ![i].cancelled = TRUE]
  /\ UNCHANGED <<escrow, access, now>>

\* mutant: resolve_multisig_arbitration without the check that it is open
ResolveMultisigArbitrationAgain(i, judge, toWorker) ==
  /\ ~paused
  /\ Resolves(i, judge)
  /\ multisig[i] # None
  /\ CloseMultisig(i, toWorker)

ResolveMultisigArbitration(i, judge, toWorker) ==
  /\ ~paused
  /\ Resolves(i, judge)
  /\ IsOpen(multisig[i])
  /\ CloseMultisig(i, toWorker)

\* neither the pause nor an earlier arbitration record is looked at; the token
\* refuses to transfer a negative fee
RequestArbitration(i, caller, judge, fee) ==
  /\ IsOpen(escrow[i])
  /\ ~escrow[i].arbitration_requested
  /\ IsParty(escrow[i], caller)
  /\ judge \in arbitrators
  /\ fee >= 0
  /\ Pay(escrow[i].token, caller, judge, fee)
  /\ escrow' = [escrow EXCEPT ![i].arbitration_requested = TRUE]
  /\ Judge(i, caller, judge, fee)
  /\ UNCHANGED <<multisig, access, now>>

\* neither the pause nor the state of the escrow is looked at
ResolveArbitration(i, judge, toWorker) ==
  /\ Resolves(i, judge)
  /\ escrow[i] # None
  /\ Verdict(escrow[i], toWorker)
  /\ escrow' = IF toWorker THEN [escrow EXCEPT ![i].released = TRUE]
               ELSE [escrow EXCEPT ![i].cancelled = TRUE]
  /\ UNCHANGED <<multisig, access, now>>

Tick ==
  /\ now < MaxTime
  /\ now' = now + 1
  /\ UNCHANGED <<funds, access>>

-----------------------------------------------------------------------------
AdminStep ==
  \/ \E a \in Owners, r \in Treasuries, b \in FeeRates : Initialize(a, b, r)
  \/ \E b \in FeeRates : UpdateFee(b)
  \/ \E a \in Owners : SetAdmin(a)
  \/ \E a \in Arbiters : AddArbitrator(a) \/ RemoveArbitrator(a)
  \/ \E c \in Accounts :
       \/ \E r \in Treasuries : SetTreasury(c, r)
       \/ \E g \in Grants : GrantRole(c, g[1], g[2]) \/ RevokeRole(c, g[1], g[2])
       \/ \E value \in BOOLEAN : SetPaused(c, value)
       \/ \E v \in 1 .. MaxSchema : Migrate(c, v)

\* what a payer pays, or locks for a worker
PayerStep ==
  \E p \in Parties, t \in TokenIds, a \in Amounts :
    \/ Tip(p[1], p[2], t, a)
    \/ \E i \in Ids, e \in Time :
         \/ CreateEscrow(i, p[1], p[2], t, a, e)
         \/ \E s \in SignerLists :
              CreateMultisigEscrow(i, p[1], p[2], t, a, e, s[1], s[2])

SingleStep(i, c) ==
  \/ ReleaseEscrow(i, c)
  \/ CancelEscrow(i, c)
  \/ \E j \in Arbiters, f \in JudgeFees : RequestArbitration(i, c, j, f)
  \/ \E w \in BOOLEAN : ResolveArbitration(i, c, w)

MultisigStep(i, c) ==
  \/ ApproveMultisigRelease(i, c)
  \/ CancelMultisigEscrow(i, c)
  \/ \E j \in Arbiters, f \in JudgeFees : RequestMultisigArbitration(i, c, j, f)
  \/ \E w \in BOOLEAN : ResolveMultisigArbitration(i, c, w)

Next ==
  \/ AdminStep
  \/ PayerStep
  \/ \E i \in Ids, c \in Accounts : SingleStep(i, c) \/ MultisigStep(i, c)
  \/ \E i \in Ids : CancelExpiredEscrow(i)
  \/ \E c \in Accounts, ids \in SUBSET Ids : BatchReleaseEscrow(c, ids)
  \/ Tick

Spec == Init /\ [][Next]_vars

\* Nothing in the contract runs by itself.  What is assumed is that ledger time
\* passes, that somebody (anyone may) keeps asking for the refund of an expired
\* escrow, and the payer for the refund of an expired multi-signature one.
Fairness ==
  /\ WF_vars(Tick)
  /\ \A i \in Ids :
       /\ SF_vars(CancelExpiredEscrow(i))
       /\ SF_vars(\E c \in Accounts : CancelMultisigEscrow(i, c))

FairSpec == Spec /\ Fairness

-----------------------------------------------------------------------------
(* Properties *)

\* Every variable holds a value the contract can store.
TypeOK ==
  /\ escrow \in [Ids -> EscrowRecord \cup {None}]
  /\ multisig \in [Ids -> MultiSigRecord \cup {None}]
  /\ arbitration \in [Ids -> ArbitrationRecord \cup {None}]
  /\ balance \in [TokenIds -> [Holders -> Nat]]
  /\ config \in Config \cup {None}
  /\ admin \in Accounts \cup {None}
  /\ roles \in [Roles -> SUBSET Accounts]
  /\ arbitrators \subseteq Accounts
  /\ paused \in BOOLEAN
  /\ schemaVersion \in Nat
  /\ now \in Time

MultisigWorth == [i \in Ids |-> IF multisig[i] = None THEN 0 ELSE multisig[i].amount]

Owed(t) ==
  Total({i \in Ids : IsOpen(escrow[i]) /\ escrow[i].token = t}, EscrowWorth)
    + Total({i \in Ids : IsOpen(multisig[i]) /\ multisig[i].token = t}, MultisigWorth)

Deficit(t) == Owed(t) - balance[t][Vault]

\* Of every token the contract holds exactly what the open escrows of both kinds
\* are worth, so that each of them can be paid and none is paid twice.
Solvency == \A t \in TokenIds : Deficit(t) = 0

\* the judge of an arbitration record speaks in this step
Speaks(i) == /\ arbitration[i] # None /\ ~arbitration[i].resolved
             /\ arbitration'[i].resolved

\* a verdict on a single escrow that was already paid out
PaysAgain(i) == escrow[i] # None /\ ~IsOpen(escrow[i]) /\ Speaks(i)

\* The only way the contract ever comes to hold less than it owes, over all its
\* operations and their interleavings, is a verdict on a single escrow that was
\* paid out before, and then exactly that escrow's amount is missing: releases one
\* by one or in a batch, with or without fee, refunds, approvals and verdicts on
\* multi-signature escrows always take out what they close.
OnlyArbitrationLeaks ==
  [][\A t \in TokenIds :
       \/ Deficit(t)' = Deficit(t)
       \/ \E i \in Ids : /\ PaysAgain(i) /\ escrow[i].token = t
                         /\ Deficit(t)' = Deficit(t) + escrow[i].amount]_vars

Approved(r) == Cardinality(r.approvals) >= r.threshold

\* A multi-signature escrow is released only when as many different signers of its
\* list as its threshold demands have approved, or by the verdict of the judge of
\* its arbitration record: no repeated approval, no other account's approval and
\* no fee, admin or role change counts for one.
ReleasedByQuorum ==
  [][\A i \in Ids :
       multisig[i] # None /\ ~multisig[i].released /\ multisig'[i].released =>
         \/ /\ Approved(multisig'[i])
            /\ multisig'[i].approvals \subseteq
                 {multisig[i].signers[k] : k \in 1 .. Len(multisig[i].signers)}
         \/ Speaks(i)]_vars

\* A multi-signature escrow ends once: what was released or cancelled is never
\* approved, cancelled or resolved again, although the arbitration record of its
\* id may be replaced by that of a single escrow with the same id.
MultisigEndsOnce ==
  [][\A i \in Ids :
       multisig[i] # None /\ ~IsOpen(multisig[i]) => multisig'[i] = multisig[i]]_vars

Gains(r, account, least) ==
  balance'[r.token][account] >= balance[r.token][account] + least

\* Whoever an open escrow is closed in favour of gets its amount in the same step,
\* whole on a refund or out of a multi-signature escrow, and less at most five per
\* cent out of a single one, whatever became of the fee after it was created.
ClosingPays ==
  [][\A i \in Ids :
       /\ IsOpen(escrow[i]) =>
            /\ escrow'[i].cancelled => Gains(escrow[i], escrow[i].from, escrow[i].amount)
            /\ escrow'[i].released =>
                 Gains(escrow[i], escrow[i].to,
                       escrow[i].amount - Fee(escrow[i].amount, MaxFeeBps))
       /\ IsOpen(multisig[i]) =>
            /\ multisig'[i].cancelled =>
                 Gains(multisig[i], multisig[i].from, multisig[i].amount)
            /\ multisig'[i].released =>
                 Gains(multisig[i], multisig[i].to, multisig[i].amount)]_vars

\* While the contract is paused no multi-signature escrow changes, no escrow is
\* created, and money leaves the contract only by a verdict on a single escrow.
PauseLeavesOnlyArbitration ==
  [][paused =>
       /\ UNCHANGED multisig
       /\ \A i \in Ids : IsOpen(escrow'[i]) => IsOpen(escrow[i])
       /\ \A t \in TokenIds :
            balance'[t][Vault] # balance[t][Vault] => \E i \in Ids : Speaks(i)]_vars

\* No deposit is stranded while the contract can pay: unless it stays paused for
\* good every escrow ends, a single one because anybody may have it refunded once
\* it expired, a multi-signature one because its payer may, although its threshold
\* may be beyond the number of its different signers.
EscrowsEnd ==
  []<>(~ paused) /\ []Solvency =>
    \A i \in Ids : /\ IsOpen(escrow[i]) ~> ~ IsOpen(escrow[i])
                   /\ IsOpen(multisig[i]) ~> ~ IsOpen(multisig[i])

\* What docs/CONTRACT_SECURITY.md says of a market escrow: it is never both released
\* and cancelled, because every function that ends one looks at its state first.
ReleasedOrCancelled ==
  \A i \in Ids : escrow[i] # None => ~ (escrow[i].released /\ escrow[i].cancelled)

\* What the typed storage keys are said to exclude, a collision of keys: a verdict
\* closes a single escrow only if arbitration was requested for that escrow.
VerdictOnRequest ==
  [][\A i \in Ids :
       IsOpen(escrow[i]) /\ ~IsOpen(escrow'[i]) /\ Speaks(i) =>
         escrow[i].arbitration_requested]_vars
=============================================================================
