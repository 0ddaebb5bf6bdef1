---------------------------- MODULE MarketProofs ----------------------------
(***************************************************************************)
(* Proofs about the market contract, for any number of accounts, tokens,   *)
(* escrows, signers and amounts, and any fees within the limit.            *)
(***************************************************************************)
EXTENDS Market, TokenProofs

\* The steps of the contract: those that touch neither a record nor a ledger
\* first, then one disjunct an operation.
LEMMA StepCases ==
  ASSUME [Next]_vars
  PROVE  \/ UNCHANGED funds /\ (AdminStep \/ Tick \/ UNCHANGED vars)
         \/ /\ UNCHANGED <<access, now>>
            /\ \/ \E c, d \in Accounts, t \in TokenIds, a \in Amounts : Tip(c, d, t, a)
               \/ \E i \in Ids, c, d \in Accounts, t \in TokenIds, a \in Amounts,
                     e \in Time : CreateEscrow(i, c, d, t, a, e)
               \/ \E i \in Ids, c, d \in Accounts, t \in TokenIds, a \in Amounts,
                     e \in Time, s \in Seq(Accounts), n \in Nat :
                    CreateMultisigEscrow(i, c, d, t, a, e, s, n)
               \/ \E i \in Ids, c \in Accounts : ReleaseEscrow(i, c)
               \/ \E i \in Ids : ~paused /\ IsOpen(escrow[i]) /\ Refund(i)
               \/ \E i \in Ids, c, j \in Accounts, f \in JudgeFees :
                    RequestArbitration(i, c, j, f)
               \/ \E i \in Ids, c \in Accounts, w \in BOOLEAN : ResolveArbitration(i, c, w)
               \/ \E c \in Accounts, ids \in SUBSET Ids : BatchReleaseEscrow(c, ids)
               \/ \E i \in Ids, c \in Accounts : ApproveMultisigRelease(i, c)
               \/ \E i \in Ids, c \in Accounts : CancelMultisigEscrow(i, c)
               \/ \E i \in Ids, c, j \in Accounts, f \in JudgeFees :
                    RequestMultisigArbitration(i, c, j, f)
               \/ \E i \in Ids, c \in Accounts, w \in BOOLEAN :
                    ResolveMultisigArbitration(i, c, w)
<1> USE ConstantsOK DEF ConstantsOK
<1>1. CASE AdminStep
  BY <1>1 DEF AdminStep, Initialize, UpdateFee, SetAdmin, AddArbitrator, RemoveArbitrator,
              SetTreasury, GrantRole, RevokeRole, SetPaused, Migrate
<1>2. CASE Tick \/ UNCHANGED vars
  BY <1>2 DEF Tick, vars
<1>3. CASE PayerStep
  <2>1. PICK p \in Parties, t \in TokenIds, a \in Amounts :
          \/ Tip(p[1], p[2], t, a)
          \/ \E i \in Ids, e \in Time :
               \/ CreateEscrow(i, p[1], p[2], t, a, e)
               \/ \E s \in SignerLists :
                    CreateMultisigEscrow(i, p[1], p[2], t, a, e, s[1], s[2])
    BY <1>3 DEF PayerStep
  <2>2. p[1] \in Accounts /\ p[2] \in Accounts
    OBVIOUS
  <2>3. \A s \in SignerLists : s[1] \in Seq(Accounts) /\ s[2] \in Nat
    OBVIOUS
  <2>4. CASE Tip(p[1], p[2], t, a)
    <3>1. UNCHANGED <<access, now>>
      BY <2>4 DEF Tip
    <3>2. QED BY <2>2, <2>4, <3>1
  <2>5. ASSUME NEW i \in Ids, NEW e \in Time, CreateEscrow(i, p[1], p[2], t, a, e)
        PROVE  /\ UNCHANGED <<access, now>>
               /\ \E c, d \in Accounts : CreateEscrow(i, c, d, t, a, e)
    BY <2>2, <2>5 DEF CreateEscrow
  <2>6. ASSUME NEW i \in Ids, NEW e \in Time, NEW s \in SignerLists,
               CreateMultisigEscrow(i, p[1], p[2], t, a, e, s[1], s[2])
        PROVE  /\ UNCHANGED <<access, now>>
               /\ \E c, d \in Accounts, sg \in Seq(Accounts), n \in Nat :
                    CreateMultisigEscrow(i, c, d, t, a, e, sg, n)
    <3>1. UNCHANGED <<access, now>>
      BY <2>6 DEF CreateMultisigEscrow, LockMultisig
    <3>2. QED BY <2>2, <2>3, <2>6, <3>1
  <2>7. QED BY <2>1, <2>4, <2>5, <2>6
<1>4. ASSUME NEW i \in Ids, NEW c \in Accounts, SingleStep(i, c)
      PROVE  /\ UNCHANGED <<access, now>>
             /\ \/ ReleaseEscrow(i, c)
                \/ ~paused /\ IsOpen(escrow[i]) /\ Refund(i)
                \/ \E j \in Accounts, f \in JudgeFees : RequestArbitration(i, c, j, f)
                \/ \E w \in BOOLEAN : ResolveArbitration(i, c, w)
  BY <1>4, Zenon
     DEF SingleStep, ReleaseEscrow, CancelEscrow, Refund, RequestArbitration, ResolveArbitration
<1>5. ASSUME NEW i \in Ids, NEW c \in Accounts, MultisigStep(i, c)
      PROVE  /\ UNCHANGED <<access, now>>
             /\ \/ ApproveMultisigRelease(i, c) \/ CancelMultisigEscrow(i, c)
                \/ \E j \in Accounts, f \in JudgeFees : RequestMultisigArbitration(i, c, j, f)
                \/ \E w \in BOOLEAN : ResolveMultisigArbitration(i, c, w)
  BY <1>5, Zenon
     DEF MultisigStep, ApproveMultisigRelease, Approve, CancelMultisigEscrow,
         RequestMultisigArbitration, ResolveMultisigArbitration, CloseMultisig
<1>6. ASSUME NEW i \in Ids, CancelExpiredEscrow(i)
      PROVE  UNCHANGED <<access, now>> /\ ~paused /\ IsOpen(escrow[i]) /\ Refund(i)
  BY <1>6 DEF CancelExpiredEscrow, Refund
<1>7. ASSUME NEW c \in Accounts, NEW ids \in SUBSET Ids, BatchReleaseEscrow(c, ids)
      PROVE  UNCHANGED <<access, now>>
  BY <1>7 DEF BatchReleaseEscrow
<1>8. QED BY <1>1, <1>2, <1>3, <1>4, <1>5, <1>6, <1>7, Zenon DEF Next

-----------------------------------------------------------------------------
(* Records and payments *)

\* The fields of the two kinds of record.
LEMMA SingleFields ==
  ASSUME NEW r \in EscrowRecord
  PROVE  /\ r.from \in Accounts /\ r.to \in Accounts /\ r.token \in TokenIds
         /\ r.amount \in Nat /\ r.amount > 0 /\ r # None
<1>1. r.amount \in Positive
  BY DEF EscrowRecord
<1>2. r.amount \in Nat /\ r.amount > 0
  <2>1. Amounts \subseteq Int
    BY ConstantsOK DEF ConstantsOK
  <2>2. r.amount \in Int /\ r.amount > 0
    BY <1>1, <2>1 DEF Positive
  <2>3. QED BY <2>2
<1>3. QED BY <1>2, ConstantsOK DEF ConstantsOK, EscrowRecord

LEMMA MultisigFields ==
  ASSUME NEW r \in MultiSigRecord
  PROVE  /\ r.from \in Accounts /\ r.to \in Accounts /\ r.token \in TokenIds
         /\ r.amount \in Nat /\ r.amount > 0 /\ r # None
<1>1. r.amount \in Positive
  BY DEF MultiSigRecord
<1>2. r.amount \in Nat /\ r.amount > 0
  <2>1. Amounts \subseteq Int
    BY ConstantsOK DEF ConstantsOK
  <2>2. r.amount \in Int /\ r.amount > 0
    BY <1>1, <2>1 DEF Positive
  <2>3. QED BY <2>2
<1>3. QED BY <1>2, ConstantsOK DEF ConstantsOK, MultiSigRecord

\* The fee is a part of the amount, and at most what the limit makes it.
LEMMA FeeBounds ==
  ASSUME NEW a \in Nat, NEW bps \in 0 .. MaxFeeBps
  PROVE  /\ Fee(a, bps) \in Nat /\ Fee(a, bps) <= a
         /\ Fee(a, bps) <= Fee(a, MaxFeeBps)
<1>1. a * bps \in Nat /\ a * bps <= a * MaxFeeBps
  BY DEF MaxFeeBps
<1>2. ASSUME NEW m \in Nat, NEW n \in Nat, m <= n
      PROVE  m \div 10000 \in Nat /\ m \div 10000 <= n \div 10000
  BY <1>2
<1>3. (a * MaxFeeBps) \in Nat /\ (a * MaxFeeBps) \div 10000 <= a
  BY DEF MaxFeeBps
<1>4. /\ (a * bps) \div 10000 \in Nat
      /\ (a * bps) \div 10000 <= (a * MaxFeeBps) \div 10000
  BY <1>1, <1>2, <1>3
<1>5. (a * MaxFeeBps) \div 10000 \in Nat
  BY <1>2, <1>3
<1>6. (a * bps) \div 10000 <= a
  BY <1>3, <1>4, <1>5
<1>7. QED BY <1>4, <1>6 DEF Fee

Ledgers == [TokenIds -> [Holders -> Nat]]

\* One transfer: the ledgers stay ledgers, the others' stay as they are, and the
\* vault and the payee of a payment out of it have what they should.
LEMMA PayMoves ==
  ASSUME balance \in Ledgers, NEW t \in TokenIds, NEW from \in Holders,
         NEW to \in Holders, NEW amount \in Nat, Pay(t, from, to, amount)
  PROVE  /\ balance' \in Ledgers
         /\ \A u \in TokenIds \ {t} : balance'[u] = balance[u]
         /\ from # to =>
              /\ balance'[t][from] = balance[t][from] - amount
              /\ balance'[t][to] = balance[t][to] + amount
              /\ \A h \in Holders \ {from, to} : balance'[t][h] = balance[t][h]
         /\ from = to => balance' = balance
<1>1. balance[t] \in [Holders -> Nat]
  BY DEF Ledgers
<1>2. Transferred(balance[t], from, to, amount) \in [Holders -> Nat]
  BY <1>1, TransferType DEF Pay
<1>3. /\ balance' \in Ledgers
      /\ \A u \in TokenIds \ {t} : balance'[u] = balance[u]
      /\ balance'[t] = Transferred(balance[t], from, to, amount)
  BY <1>2 DEF Pay, Ledgers
<1>4. ASSUME from # to
      PROVE  /\ balance'[t][from] = balance[t][from] - amount
             /\ balance'[t][to] = balance[t][to] + amount
             /\ \A h \in Holders \ {from, to} : balance'[t][h] = balance[t][h]
  BY <1>1, <1>3, <1>4, TransferMoves
<1>5. ASSUME from = to PROVE balance' = balance
  BY <1>5 DEF Pay, Transferred, Ledgers
<1>6. QED BY <1>3, <1>4, <1>5

\* A payment with a fee: what leaves the payer is the whole amount, and the payee
\* is short of it by no more than the largest fee.
LEMMA PayWithFeeMoves ==
  ASSUME balance \in Ledgers, config \in Config \cup {None}, NEW t \in TokenIds,
         NEW from \in Holders, NEW to \in Accounts, NEW amount \in Nat,
         PayWithFee(t, from, to, amount)
  PROVE  /\ balance' \in Ledgers
         /\ \A u \in TokenIds \ {t} : balance'[u] = balance[u]
         /\ from # Vault => balance'[t][Vault] = balance[t][Vault]
         /\ from = Vault =>
              /\ balance'[t][Vault] = balance[t][Vault] - amount
              /\ balance'[t][to] >= balance[t][to] + (amount - Fee(amount, MaxFeeBps))
<1> DEFINE fee  == Fee(amount, config.fee_bps)
           half == Transferred(balance[t], from, to, amount - fee)
           r    == config.fee_recipient
<1>1. config.fee_bps \in 0 .. MaxFeeBps /\ r \in Accounts
  BY DEF PayWithFee, Config
<1>2. /\ fee \in Nat /\ fee <= amount /\ fee <= Fee(amount, MaxFeeBps)
      /\ Fee(amount, MaxFeeBps) \in Nat /\ amount - fee \in Nat
  <2>1. MaxFeeBps \in 0 .. MaxFeeBps
    BY DEF MaxFeeBps
  <2>2. QED BY <1>1, <2>1, FeeBounds
<1>3. balance[t] \in [Holders -> Nat] /\ to \in Holders /\ r \in Holders /\ Vault \in Holders
      /\ to # Vault /\ r # Vault
  BY <1>1, ConstantsOK DEF ConstantsOK, Ledgers, Holders
<1>4. /\ CanTransfer(balance[t], from, amount - fee) /\ CanTransfer(half, from, fee)
      /\ balance' = [balance EXCEPT ![t] = Transferred(half, from, r, fee)]
  BY DEF PayWithFee
<1> HIDE DEF fee, r
<1>5. half \in [Holders -> Nat]
  BY <1>2, <1>3, <1>4, TransferType
<1>6. \A h \in Holders : from # to =>
        half[h] = IF h = from THEN balance[t][from] - (amount - fee)
                  ELSE IF h = to THEN balance[t][to] + (amount - fee) ELSE balance[t][h]
  BY <1>2, <1>3, TransferMoves
<1>7. from = to => half = balance[t]
  BY DEF Transferred
<1> HIDE DEF half
<1>8. Transferred(half, from, r, fee) \in [Holders -> Nat]
  BY <1>2, <1>3, <1>4, <1>5, TransferType
<1>9. ASSUME NEW h \in Holders, from # r
      PROVE  Transferred(half, from, r, fee)[h] =
               IF h = from THEN half[from] - fee ELSE IF h = r THEN half[r] + fee ELSE half[h]
  <2>1. fee \in Nat /\ r \in Holders
    BY <1>2, <1>3
  <2>2. QED BY <1>5, <1>9, <2>1, TransferMoves
<1>10. from = r => Transferred(half, from, r, fee) = half
  BY DEF Transferred
<1>11. /\ balance' \in Ledgers
       /\ \A u \in TokenIds \ {t} : balance'[u] = balance[u]
       /\ balance'[t] = Transferred(half, from, r, fee)
  BY <1>4, <1>8 DEF Ledgers
<1>12. ASSUME from # Vault PROVE balance'[t][Vault] = balance[t][Vault]
  BY <1>3, <1>6, <1>7, <1>9, <1>10, <1>11, <1>12
<1>13. ASSUME from = Vault
       PROVE  /\ balance'[t][Vault] = balance[t][Vault] - amount
              /\ balance'[t][to] >= balance[t][to] + (amount - Fee(amount, MaxFeeBps))
  <2>1. /\ half[Vault] = balance[t][Vault] - (amount - fee)
        /\ half[to] = balance[t][to] + (amount - fee)
    BY <1>3, <1>6, <1>13
  <2>2. /\ balance'[t][Vault] = half[Vault] - fee
        /\ balance'[t][to] = IF to = r THEN half[to] + fee ELSE half[to]
    BY <1>3, <1>9, <1>11, <1>13
  <2>3. balance[t][Vault] \in Nat /\ balance[t][to] \in Nat
    BY <1>3
  <2>4. QED BY <1>2, <2>1, <2>2, <2>3
<1>14. QED BY <1>11, <1>12, <1>13

-----------------------------------------------------------------------------
(***************************************************************************)
(* What the steps do: to the open escrows of a kind (f before and g after, *)
(* each a function from ids to records or None), and to the vault.         *)
(***************************************************************************)

Others(f, g, i) == \A j \in Ids \ {i} : g[j] = f[j]

Opens(f, g, i, t, a) ==
  /\ f[i] = None /\ IsOpen(g[i]) /\ g[i].token = t /\ g[i].amount = a
  /\ Others(f, g, i)

Closes(f, g, i) == IsOpen(f[i]) /\ ~IsOpen(g[i]) /\ g[i] # None /\ Others(f, g, i)

\* what is open stays so, with the same token and amount, and nothing opens
Keeps(f, g) ==
  \A j \in Ids : /\ IsOpen(g[j]) <=> IsOpen(f[j])
                 /\ IsOpen(f[j]) => g[j].token = f[j].token /\ g[j].amount = f[j].amount

VaultGets(t, n) ==
  \A u \in TokenIds :
    balance'[u][Vault] = balance[u][Vault] + (IF u = t THEN n ELSE 0)

VaultKeeps == \A u \in TokenIds : balance'[u][Vault] = balance[u][Vault]

FundsType ==
  /\ escrow \in [Ids -> EscrowRecord \cup {None}]
  /\ multisig \in [Ids -> MultiSigRecord \cup {None}]
  /\ arbitration \in [Ids -> ArbitrationRecord \cup {None}]
  /\ balance \in Ledgers

AccessType ==
  /\ config \in Config \cup {None} /\ admin \in Accounts \cup {None}
  /\ roles \in [Roles -> SUBSET Accounts] /\ arbitrators \subseteq Accounts
  /\ paused \in BOOLEAN /\ schemaVersion \in Nat /\ now \in Time

LEMMA TypeParts == TypeOK <=> FundsType /\ AccessType
BY DEF TypeOK, FundsType, AccessType, Ledgers

\* A single escrow is marked released or cancelled.
LEMMA SingleMarked ==
  ASSUME FundsType, NEW i \in Ids, escrow[i] # None,
         \/ escrow' = [escrow EXCEPT ![i].released = TRUE]
         \/ escrow' = [escrow EXCEPT ![i].cancelled = TRUE]
  PROVE  /\ escrow' \in [Ids -> EscrowRecord \cup {None}]
         /\ escrow[i] \in EscrowRecord /\ escrow'[i] \in EscrowRecord
         /\ escrow'[i] # None /\ ~IsOpen(escrow'[i]) /\ Others(escrow, escrow', i)
         /\ IF IsOpen(escrow[i]) THEN Closes(escrow, escrow', i) ELSE Keeps(escrow, escrow')
<1>1. escrow[i] \in EscrowRecord
  BY DEF FundsType
<1>2. /\ escrow' \in [Ids -> EscrowRecord \cup {None}]
      /\ escrow'[i] \in EscrowRecord /\ Others(escrow, escrow', i)
      /\ escrow'[i].released \/ escrow'[i].cancelled
  <2>1. /\ [escrow[i] EXCEPT !.released = TRUE] \in EscrowRecord
        /\ [escrow[i] EXCEPT !.cancelled = TRUE] \in EscrowRecord
        /\ [escrow[i] EXCEPT !.released = TRUE].released
        /\ [escrow[i] EXCEPT !.cancelled = TRUE].cancelled
    BY <1>1 DEF EscrowRecord
  <2>2. \/ escrow' = [escrow EXCEPT ![i] = [escrow[i] EXCEPT !.released = TRUE]]
        \/ escrow' = [escrow EXCEPT ![i] = [escrow[i] EXCEPT !.cancelled = TRUE]]
    OBVIOUS
  <2>3. QED BY <1>1, <2>1, <2>2 DEF FundsType, Others
<1>3. escrow'[i] # None /\ ~IsOpen(escrow'[i])
  BY <1>2, SingleFields DEF IsOpen
<1>4. QED BY <1>1, <1>2, <1>3 DEF Closes, Keeps, Others

LEMMA MultisigMarked ==
  ASSUME FundsType, NEW i \in Ids, IsOpen(multisig[i]),
         \/ multisig' = [multisig EXCEPT ![i].released = TRUE]
         \/ multisig' = [multisig EXCEPT ![i].cancelled = TRUE]
  PROVE  /\ multisig' \in [Ids -> MultiSigRecord \cup {None}]
         /\ multisig[i] \in MultiSigRecord /\ multisig'[i] \in MultiSigRecord
         /\ multisig'[i].approvals = multisig[i].approvals
         /\ multisig'[i].signers = multisig[i].signers
         /\ Closes(multisig, multisig', i)
<1>1. multisig[i] \in MultiSigRecord
  BY DEF FundsType, IsOpen
<1>2. /\ multisig' \in [Ids -> MultiSigRecord \cup {None}]
      /\ multisig'[i] \in MultiSigRecord /\ Others(multisig, multisig', i)
      /\ multisig'[i].released \/ multisig'[i].cancelled
      /\ multisig'[i].approvals = multisig[i].approvals
      /\ multisig'[i].signers = multisig[i].signers
  <2>1. /\ [multisig[i] EXCEPT !.released = TRUE] \in MultiSigRecord
        /\ [multisig[i] EXCEPT !.cancelled = TRUE] \in MultiSigRecord
        /\ [multisig[i] EXCEPT !.released = TRUE].released
        /\ [multisig[i] EXCEPT !.cancelled = TRUE].cancelled
    BY <1>1 DEF MultiSigRecord
  <2>2. \/ multisig' = [multisig EXCEPT ![i] = [multisig[i] EXCEPT !.released = TRUE]]
        \/ multisig' = [multisig EXCEPT ![i] = [multisig[i] EXCEPT !.cancelled = TRUE]]
    OBVIOUS
  <2>3. QED BY <1>1, <2>1, <2>2 DEF FundsType, Others, MultiSigRecord
<1>3. multisig'[i] # None /\ ~IsOpen(multisig'[i])
  BY <1>2, MultisigFields DEF IsOpen
<1>4. QED BY <1>1, <1>2, <1>3 DEF Closes

\* A judge is put on record, or speaks.
LEMMA JudgeType ==
  ASSUME FundsType, NEW i \in Ids, NEW c \in Accounts, NEW j \in Accounts,
         NEW f \in JudgeFees, Judge(i, c, j, f)
  PROVE  arbitration' \in [Ids -> ArbitrationRecord \cup {None}]
BY DEF FundsType, Judge, ArbitrationRecord

LEMMA ResolvesSpeaks ==
  ASSUME FundsType, NEW i \in Ids, NEW c, Resolves(i, c)
  PROVE  Speaks(i) /\ arbitration' \in [Ids -> ArbitrationRecord \cup {None}]
<1>1. arbitration[i] \in ArbitrationRecord
  BY DEF FundsType, Resolves
<1>2. QED BY <1>1 DEF FundsType, Resolves, Speaks, ArbitrationRecord

\* Who is not the vault.
LEMMA HoldersFact == /\ Vault \notin Accounts /\ Vault \in Holders
                     /\ Accounts \subseteq Holders
BY ConstantsOK DEF ConstantsOK, Holders

\* A payment out of the vault, a deposit, and a payment that leaves it alone.
LEMMA VaultPays ==
  ASSUME balance \in Ledgers, NEW t \in TokenIds, NEW to \in Accounts,
         NEW a \in Nat, Pay(t, Vault, to, a)
  PROVE  /\ balance' \in Ledgers /\ VaultGets(t, -a)
         /\ balance'[t][to] = balance[t][to] + a
<1>1. Vault # to /\ to \in Holders /\ Vault \in Holders
  BY HoldersFact
<1>2. /\ balance' \in Ledgers
      /\ \A u \in TokenIds \ {t} : balance'[u] = balance[u]
      /\ balance'[t][Vault] = balance[t][Vault] - a
      /\ balance'[t][to] = balance[t][to] + a
  BY <1>1, PayMoves
<1>3. \A u \in TokenIds : balance[u][Vault] \in Nat
  BY <1>1 DEF Ledgers
<1>4. QED BY <1>2, <1>3 DEF VaultGets

LEMMA VaultIsPaid ==
  ASSUME balance \in Ledgers, NEW t \in TokenIds, NEW from \in Accounts,
         NEW a \in Nat, Pay(t, from, Vault, a)
  PROVE  balance' \in Ledgers /\ VaultGets(t, a)
<1>1. Vault # from /\ from \in Holders /\ Vault \in Holders
  BY HoldersFact
<1>2. /\ balance' \in Ledgers
      /\ \A u \in TokenIds \ {t} : balance'[u] = balance[u]
      /\ balance'[t][Vault] = balance[t][Vault] + a
  BY <1>1, PayMoves
<1>3. \A u \in TokenIds : balance[u][Vault] \in Nat
  BY <1>1 DEF Ledgers
<1>4. QED BY <1>2, <1>3 DEF VaultGets

LEMMA VaultPassedBy ==
  ASSUME balance \in Ledgers, NEW t \in TokenIds, NEW from \in Accounts,
         NEW to \in Accounts, NEW a \in Nat, Pay(t, from, to, a)
  PROVE  balance' \in Ledgers /\ VaultKeeps
<1>1. Vault # from /\ Vault # to /\ from \in Holders /\ to \in Holders /\ Vault \in Holders
  BY HoldersFact
<1>2. /\ balance' \in Ledgers
      /\ \A u \in TokenIds \ {t} : balance'[u] = balance[u]
      /\ balance'[t][Vault] = balance[t][Vault]
  BY <1>1, PayMoves
<1>3. QED BY <1>2 DEF VaultKeeps

-----------------------------------------------------------------------------
(* What each operation does to records and money *)

LEMMA TipDoes ==
  ASSUME FundsType, AccessType, NEW c \in Accounts, NEW d \in Accounts,
         NEW t \in TokenIds, NEW a \in Amounts, Tip(c, d, t, a)
  PROVE  FundsType' /\ UNCHANGED records /\ VaultKeeps /\ ~paused
<1>1. a \in Nat /\ c \in Holders /\ c # Vault
  BY ConstantsOK, HoldersFact DEF ConstantsOK, Tip
<1>2. /\ balance' \in Ledgers
      /\ \A u \in TokenIds \ {t} : balance'[u] = balance[u]
      /\ balance'[t][Vault] = balance[t][Vault]
  BY <1>1, PayWithFeeMoves DEF Tip, FundsType, AccessType
<1>3. QED BY <1>2 DEF FundsType, VaultKeeps, records, Tip

LEMMA CreateDoes ==
  ASSUME FundsType, NEW i \in Ids, NEW c \in Accounts, NEW d \in Accounts,
         NEW t \in TokenIds, NEW a \in Amounts, NEW e \in Time,
         CreateEscrow(i, c, d, t, a, e)
  PROVE  /\ FundsType' /\ UNCHANGED <<multisig, arbitration>> /\ ~paused
         /\ a \in Nat /\ Opens(escrow, escrow', i, t, a) /\ VaultGets(t, a)
<1>1. a \in Nat /\ a > 0
  BY ConstantsOK DEF ConstantsOK, CreateEscrow
<1> DEFINE r == [from |-> c, to |-> d, token |-> t, amount |-> a, expiry |-> e,
                 released |-> FALSE, cancelled |-> FALSE,
                 arbitration_requested |-> FALSE]
<1>2. r \in EscrowRecord
  BY <1>1 DEF EscrowRecord, Positive
<1>3. r # None
  BY <1>2, SingleFields
<1>4. IsOpen(r) /\ r.token = t /\ r.amount = a
  BY <1>3 DEF IsOpen
<1>5. escrow' = [escrow EXCEPT ![i] = r] /\ escrow[i] = None
  BY DEF CreateEscrow
<1> HIDE DEF r
<1>6. /\ escrow' \in [Ids -> EscrowRecord \cup {None}]
      /\ Opens(escrow, escrow', i, t, a)
  BY <1>2, <1>4, <1>5 DEF FundsType, Opens, Others
<1>7. balance' \in Ledgers /\ VaultGets(t, a)
  BY <1>1, VaultIsPaid DEF CreateEscrow, FundsType
<1>8. QED BY <1>1, <1>6, <1>7 DEF FundsType, CreateEscrow

LEMMA CreateMultisigDoes ==
  ASSUME FundsType, NEW i \in Ids, NEW c \in Accounts, NEW d \in Accounts,
         NEW t \in TokenIds, NEW a \in Amounts, NEW e \in Time,
         NEW s \in Seq(Accounts), NEW n \in Nat,
         CreateMultisigEscrow(i, c, d, t, a, e, s, n)
  PROVE  /\ FundsType' /\ UNCHANGED <<escrow, arbitration>> /\ ~paused
         /\ a \in Nat /\ Opens(multisig, multisig', i, t, a) /\ VaultGets(t, a)
         /\ multisig'[i].approvals = {} /\ ~multisig'[i].released
<1>1. a \in Nat /\ a > 0
  BY ConstantsOK DEF ConstantsOK, CreateMultisigEscrow
<1> DEFINE r == [from |-> c, to |-> d, token |-> t, amount |-> a, expiry |-> e,
                 signers |-> s, threshold |-> n, approvals |-> {},
                 released |-> FALSE, cancelled |-> FALSE]
<1>2. r \in MultiSigRecord
  BY <1>1 DEF MultiSigRecord, Positive
<1>3. r # None
  BY <1>2, MultisigFields
<1>4. IsOpen(r) /\ r.token = t /\ r.amount = a /\ r.approvals = {} /\ ~r.released
  BY <1>3 DEF IsOpen
<1>5. multisig' = [multisig EXCEPT ![i] = r] /\ multisig[i] = None
  BY DEF CreateMultisigEscrow, LockMultisig
<1> HIDE DEF r
<1>6. /\ multisig' \in [Ids -> MultiSigRecord \cup {None}]
      /\ Opens(multisig, multisig', i, t, a)
      /\ multisig'[i].approvals = {} /\ ~multisig'[i].released
  BY <1>2, <1>4, <1>5 DEF FundsType, Opens, Others
<1>7. balance' \in Ledgers /\ VaultGets(t, a)
  BY <1>1, VaultIsPaid DEF CreateMultisigEscrow, LockMultisig, FundsType
<1>8. QED BY <1>1, <1>6, <1>7 DEF FundsType, CreateMultisigEscrow, LockMultisig

LEMMA ReleaseDoes ==
  ASSUME FundsType, AccessType, NEW i \in Ids, NEW c, ReleaseEscrow(i, c)
  PROVE  /\ FundsType' /\ UNCHANGED <<multisig, arbitration>> /\ ~paused
         /\ Closes(escrow, escrow', i) /\ ~escrow'[i].cancelled
         /\ VaultGets(escrow[i].token, -escrow[i].amount)
         /\ Gains(escrow[i], escrow[i].to,
                  escrow[i].amount - Fee(escrow[i].amount, MaxFeeBps))
<1>1. /\ IsOpen(escrow[i]) /\ escrow[i] # None /\ ~paused
      /\ escrow' = [escrow EXCEPT ![i].released = TRUE]
      /\ UNCHANGED <<multisig, arbitration>>
  BY DEF ReleaseEscrow, IsOpen
<1>2. /\ escrow' \in [Ids -> EscrowRecord \cup {None}] /\ escrow[i] \in EscrowRecord
      /\ Closes(escrow, escrow', i)
  BY <1>1, SingleMarked
<1>3. ~escrow'[i].cancelled
  <2>1. escrow'[i] = [escrow[i] EXCEPT !.released = TRUE]
    BY <1>1 DEF FundsType
  <2>2. QED BY <1>1, <1>2, <2>1 DEF EscrowRecord, IsOpen
<1> DEFINE r == escrow[i]
<1>4. r.token \in TokenIds /\ r.to \in Accounts /\ r.amount \in Nat
  BY <1>2, SingleFields
<1>5. PayWithFee(r.token, Vault, r.to, r.amount)
  BY DEF ReleaseEscrow
<1> HIDE DEF r
<1>6. /\ balance' \in Ledgers
      /\ \A u \in TokenIds \ {r.token} : balance'[u] = balance[u]
      /\ balance'[r.token][Vault] = balance[r.token][Vault] - r.amount
      /\ balance'[r.token][r.to] >= balance[r.token][r.to] + (r.amount - Fee(r.amount, MaxFeeBps))
  BY <1>4, <1>5, HoldersFact, PayWithFeeMoves DEF FundsType, AccessType
<1>7. VaultGets(r.token, -r.amount)
  <2>1. \A u \in TokenIds : balance[u][Vault] \in Nat
    BY HoldersFact DEF Ledgers, FundsType
  <2>2. QED BY <1>4, <1>6, <2>1 DEF VaultGets
<1>8. Gains(r, r.to, r.amount - Fee(r.amount, MaxFeeBps))
  BY <1>6 DEF Gains
<1>9. QED BY <1>1, <1>2, <1>3, <1>6, <1>7, <1>8 DEF FundsType, r

LEMMA RefundDoes ==
  ASSUME FundsType, NEW i \in Ids, IsOpen(escrow[i]), Refund(i)
  PROVE  /\ FundsType' /\ UNCHANGED <<multisig, arbitration>>
         /\ Closes(escrow, escrow', i) /\ ~escrow'[i].released
         /\ VaultGets(escrow[i].token, -escrow[i].amount)
         /\ Gains(escrow[i], escrow[i].from, escrow[i].amount)
<1>1. /\ escrow[i] # None /\ escrow' = [escrow EXCEPT ![i].cancelled = TRUE]
      /\ UNCHANGED <<multisig, arbitration>>
  BY DEF Refund, IsOpen
<1>2. /\ escrow' \in [Ids -> EscrowRecord \cup {None}] /\ escrow[i] \in EscrowRecord
      /\ Closes(escrow, escrow', i)
  BY <1>1, SingleMarked
<1>3. ~escrow'[i].released
  <2>1. escrow'[i] = [escrow[i] EXCEPT !.cancelled = TRUE]
    BY <1>1 DEF FundsType
  <2>2. QED BY <1>1, <1>2, <2>1 DEF EscrowRecord, IsOpen
<1>4. escrow[i].token \in TokenIds /\ escrow[i].from \in Accounts /\ escrow[i].amount \in Nat
  BY <1>2, SingleFields
<1>5. /\ balance' \in Ledgers /\ VaultGets(escrow[i].token, -escrow[i].amount)
      /\ balance'[escrow[i].token][escrow[i].from]
           = balance[escrow[i].token][escrow[i].from] + escrow[i].amount
  BY <1>4, VaultPays DEF Refund, FundsType
<1>6. Gains(escrow[i], escrow[i].from, escrow[i].amount)
  <2>1. balance'[escrow[i].token][escrow[i].from] \in Nat
    BY <1>4, <1>5, HoldersFact DEF Ledgers
  <2>2. QED BY <1>5, <2>1 DEF Gains
<1>7. QED BY <1>1, <1>2, <1>3, <1>5, <1>6 DEF FundsType

LEMMA RequestDoes ==
  ASSUME FundsType, AccessType, NEW i \in Ids, NEW c \in Accounts, NEW j \in Accounts,
         NEW f \in JudgeFees, RequestArbitration(i, c, j, f)
  PROVE  /\ FundsType' /\ UNCHANGED multisig /\ VaultKeeps
         /\ Keeps(escrow, escrow') /\ Others(escrow, escrow', i)
         /\ ~escrow'[i].released /\ ~escrow'[i].cancelled
<1>1. /\ IsOpen(escrow[i]) /\ escrow[i] \in EscrowRecord
      /\ escrow' = [escrow EXCEPT ![i] = [escrow[i] EXCEPT !.arbitration_requested = TRUE]]
      /\ Judge(i, c, j, f) /\ f \in Nat /\ UNCHANGED multisig
  BY ConstantsOK DEF ConstantsOK, RequestArbitration, FundsType, IsOpen
<1>2. /\ [escrow[i] EXCEPT !.arbitration_requested = TRUE] \in EscrowRecord
      /\ [escrow[i] EXCEPT !.arbitration_requested = TRUE].token = escrow[i].token
      /\ [escrow[i] EXCEPT !.arbitration_requested = TRUE].amount = escrow[i].amount
      /\ ~[escrow[i] EXCEPT !.arbitration_requested = TRUE].released
      /\ ~[escrow[i] EXCEPT !.arbitration_requested = TRUE].cancelled
  BY <1>1 DEF EscrowRecord, IsOpen
<1>3. /\ escrow' \in [Ids -> EscrowRecord \cup {None}]
      /\ escrow'[i] \in EscrowRecord /\ Others(escrow, escrow', i)
      /\ escrow'[i].token = escrow[i].token /\ escrow'[i].amount = escrow[i].amount
      /\ ~escrow'[i].released /\ ~escrow'[i].cancelled
  BY <1>1, <1>2 DEF FundsType, Others
<1>4. Keeps(escrow, escrow')
  <2>1. IsOpen(escrow'[i])
    BY <1>3, SingleFields DEF IsOpen
  <2>2. QED BY <1>1, <1>3, <2>1 DEF Keeps, Others
<1>5. balance' \in Ledgers /\ VaultKeeps
  <2>1. escrow[i].token \in TokenIds
    BY <1>1, SingleFields
  <2>2. QED BY <1>1, <2>1, VaultPassedBy DEF FundsType, RequestArbitration
<1>6. arbitration' \in [Ids -> ArbitrationRecord \cup {None}]
  BY <1>1, JudgeType
<1>7. QED BY <1>1, <1>3, <1>4, <1>5, <1>6 DEF FundsType

LEMMA ResolveDoes ==
  ASSUME FundsType, NEW i \in Ids, NEW c, NEW w \in BOOLEAN, ResolveArbitration(i, c, w)
  PROVE  /\ FundsType' /\ UNCHANGED multisig /\ Speaks(i)
         /\ escrow[i] # None /\ ~IsOpen(escrow'[i]) /\ Others(escrow, escrow', i)
         /\ IF IsOpen(escrow[i]) THEN Closes(escrow, escrow', i) ELSE Keeps(escrow, escrow')
         /\ VaultGets(escrow[i].token, -escrow[i].amount)
         /\ IsOpen(escrow[i]) /\ escrow'[i].released =>
              Gains(escrow[i], escrow[i].to, escrow[i].amount)
         /\ IsOpen(escrow[i]) /\ escrow'[i].cancelled =>
              Gains(escrow[i], escrow[i].from, escrow[i].amount)
<1>1. /\ escrow[i] # None /\ UNCHANGED multisig
      /\ escrow' = IF w THEN [escrow EXCEPT ![i].released = TRUE]
                   ELSE [escrow EXCEPT ![i].cancelled = TRUE]
  BY DEF ResolveArbitration
<1>2. /\ escrow' \in [Ids -> EscrowRecord \cup {None}] /\ escrow[i] \in EscrowRecord
      /\ ~IsOpen(escrow'[i]) /\ Others(escrow, escrow', i)
      /\ IF IsOpen(escrow[i]) THEN Closes(escrow, escrow', i) ELSE Keeps(escrow, escrow')
  BY <1>1, SingleMarked
<1>3. Speaks(i) /\ arbitration' \in [Ids -> ArbitrationRecord \cup {None}]
  BY ResolvesSpeaks DEF ResolveArbitration
<1> DEFINE r == escrow[i]
           to == IF w THEN r.to ELSE r.from
<1>4. r.token \in TokenIds /\ to \in Accounts /\ r.amount \in Nat
  BY <1>2, SingleFields
<1>5. Pay(r.token, Vault, to, r.amount)
  BY DEF ResolveArbitration, Verdict
<1>6. IsOpen(r) => (escrow'[i].released <=> w) /\ (escrow'[i].cancelled <=> ~w)
  <2>1. /\ w => escrow'[i] = [escrow[i] EXCEPT !.released = TRUE]
        /\ ~w => escrow'[i] = [escrow[i] EXCEPT !.cancelled = TRUE]
    BY <1>1 DEF FundsType
  <2>2. QED BY <1>2, <2>1 DEF EscrowRecord, IsOpen
<1> HIDE DEF to, r
<1>7. /\ balance' \in Ledgers /\ VaultGets(r.token, -r.amount)
      /\ balance'[r.token][to] = balance[r.token][to] + r.amount
  BY <1>4, <1>5, VaultPays DEF FundsType
<1>8. Gains(r, to, r.amount)
  <2>1. balance'[r.token][to] \in Nat
    BY <1>4, <1>7, HoldersFact DEF Ledgers
  <2>2. QED BY <1>7, <2>1 DEF Gains
<1>9. /\ IsOpen(r) /\ escrow'[i].released => Gains(r, r.to, r.amount)
      /\ IsOpen(r) /\ escrow'[i].cancelled => Gains(r, r.from, r.amount)
  BY <1>6, <1>8 DEF to
<1>10. QED BY <1>1, <1>2, <1>3, <1>7, <1>9 DEF FundsType, r

LEMMA ApproveDoes ==
  ASSUME FundsType, NEW i \in Ids, NEW c \in Accounts, ApproveMultisigRelease(i, c)
  PROVE  /\ FundsType' /\ UNCHANGED <<escrow, arbitration>> /\ ~paused
         /\ IsOpen(multisig[i]) /\ Others(multisig, multisig', i)
         /\ multisig'[i].signers = multisig[i].signers /\ ~multisig'[i].cancelled
         /\ multisig'[i].approvals = multisig[i].approvals \cup {c}
         /\ \E k \in 1 .. Len(multisig[i].signers) : multisig[i].signers[k] = c
         /\ \/ /\ multisig'[i].released /\ Closes(multisig, multisig', i)
               /\ Approved(multisig'[i])
               /\ VaultGets(multisig[i].token, -multisig[i].amount)
               /\ Gains(multisig[i], multisig[i].to, multisig[i].amount)
            \/ /\ ~multisig'[i].released /\ Keeps(multisig, multisig') /\ VaultKeeps
<1> DEFINE r == multisig[i]
           approvals == r.approvals \cup {c}
           enough == Cardinality(approvals) >= r.threshold
           q == [r EXCEPT !.approvals = approvals, !.released = enough]
<1>1. /\ IsOpen(r) /\ ~paused /\ UNCHANGED <<escrow, arbitration>>
      /\ \E k \in 1 .. Len(r.signers) : r.signers[k] = c
      /\ IF enough THEN Pay(r.token, Vault, r.to, r.amount) ELSE UNCHANGED balance
  BY DEF ApproveMultisigRelease, Approve
<1>2. multisig' = [multisig EXCEPT ![i] = q]
  BY DEF ApproveMultisigRelease, Approve
<1>3. r \in MultiSigRecord
  BY <1>1 DEF FundsType, IsOpen
<1>4. approvals \in SUBSET Accounts /\ enough \in BOOLEAN
  BY <1>3 DEF MultiSigRecord
<1> HIDE DEF enough, approvals, r
<1>5. /\ q \in MultiSigRecord /\ q.signers = r.signers /\ q.approvals = approvals
      /\ q.threshold = r.threshold /\ q.token = r.token /\ q.amount = r.amount
      /\ (q.released <=> enough) /\ q.cancelled = r.cancelled
  BY <1>3, <1>4 DEF MultiSigRecord
<1> HIDE DEF q
<1> USE DEF r
<1>6. /\ multisig' \in [Ids -> MultiSigRecord \cup {None}]
      /\ multisig'[i] = q /\ Others(multisig, multisig', i)
  BY <1>2, <1>5 DEF FundsType, Others
<1>7. r.token \in TokenIds /\ r.to \in Accounts /\ r.amount \in Nat /\ q # None
  BY <1>3, <1>5, MultisigFields
<1>8. CASE enough
  <2>1. Closes(multisig, multisig', i) /\ Approved(q)
    BY <1>1, <1>5, <1>6, <1>7, <1>8 DEF Closes, IsOpen, Approved, enough
  <2>2. /\ balance' \in Ledgers /\ VaultGets(r.token, -r.amount)
        /\ balance'[r.token][r.to] = balance[r.token][r.to] + r.amount
    BY <1>1, <1>7, <1>8, VaultPays DEF FundsType
  <2>3. Gains(r, r.to, r.amount)
    <3>1. balance'[r.token][r.to] \in Nat
      BY <1>7, <2>2, HoldersFact DEF Ledgers
    <3>2. QED BY <2>2, <3>1 DEF Gains
  <2>4. QED
    BY <1>1, <1>5, <1>6, <1>8, <2>1, <2>2, <2>3 DEF FundsType, IsOpen, approvals
<1>9. CASE ~enough
  <2>1. IsOpen(q)
    BY <1>1, <1>5, <1>7, <1>9 DEF IsOpen
  <2>2. Keeps(multisig, multisig')
    BY <1>1, <1>5, <1>6, <2>1 DEF Keeps, Others
  <2>3. QED
    BY <1>1, <1>5, <1>6, <1>9, <2>1, <2>2 DEF FundsType, IsOpen, VaultKeeps, approvals
<1>10. QED BY <1>8, <1>9

LEMMA CancelMultisigDoes ==
  ASSUME FundsType, NEW i \in Ids, NEW c, CancelMultisigEscrow(i, c)
  PROVE  /\ FundsType' /\ UNCHANGED <<escrow, arbitration>> /\ ~paused
         /\ Closes(multisig, multisig', i) /\ ~multisig'[i].released
         /\ multisig'[i].approvals = multisig[i].approvals
         /\ multisig'[i].signers = multisig[i].signers
         /\ VaultGets(multisig[i].token, -multisig[i].amount)
         /\ Gains(multisig[i], multisig[i].from, multisig[i].amount)
<1>1. /\ IsOpen(multisig[i]) /\ ~paused /\ UNCHANGED <<escrow, arbitration>>
      /\ multisig' = [multisig EXCEPT ![i].cancelled = TRUE]
  BY DEF CancelMultisigEscrow
<1>2. /\ multisig' \in [Ids -> MultiSigRecord \cup {None}] /\ multisig[i] \in MultiSigRecord
      /\ Closes(multisig, multisig', i)
      /\ multisig'[i].approvals = multisig[i].approvals
      /\ multisig'[i].signers = multisig[i].signers
  BY <1>1, MultisigMarked
<1>3. ~multisig'[i].released
  <2>1. multisig'[i] = [multisig[i] EXCEPT !.cancelled = TRUE]
    BY <1>1 DEF FundsType
  <2>2. QED BY <1>1, <1>2, <2>1 DEF MultiSigRecord, IsOpen
<1>4. /\ multisig[i].token \in TokenIds /\ multisig[i].from \in Accounts
      /\ multisig[i].amount \in Nat
  BY <1>2, MultisigFields
<1>5. /\ balance' \in Ledgers /\ VaultGets(multisig[i].token, -multisig[i].amount)
      /\ balance'[multisig[i].token][multisig[i].from]
           = balance[multisig[i].token][multisig[i].from] + multisig[i].amount
  BY <1>4, VaultPays DEF CancelMultisigEscrow, FundsType
<1>6. Gains(multisig[i], multisig[i].from, multisig[i].amount)
  <2>1. balance'[multisig[i].token][multisig[i].from] \in Nat
    BY <1>4, <1>5, HoldersFact DEF Ledgers
  <2>2. QED BY <1>5, <2>1 DEF Gains
<1>7. QED BY <1>1, <1>2, <1>3, <1>5, <1>6 DEF FundsType

LEMMA RequestMultisigDoes ==
  ASSUME FundsType, NEW i \in Ids, NEW c \in Accounts, NEW j \in Accounts,
         NEW f \in JudgeFees, RequestMultisigArbitration(i, c, j, f)
  PROVE  FundsType' /\ UNCHANGED <<escrow, multisig>> /\ VaultKeeps /\ ~paused
<1>1. multisig[i] \in MultiSigRecord /\ f \in Int
  BY ConstantsOK DEF ConstantsOK, RequestMultisigArbitration, FundsType, IsOpen
<1>2. multisig[i].token \in TokenIds
  BY <1>1, MultisigFields
<1>3. balance' \in Ledgers /\ VaultKeeps
  <2>1. CASE f > 0
    BY <1>1, <1>2, <2>1, VaultPassedBy DEF RequestMultisigArbitration, FundsType
  <2>2. CASE ~(f > 0)
    BY <2>2 DEF RequestMultisigArbitration, FundsType, VaultKeeps
  <2>3. QED BY <2>1, <2>2
<1>4. arbitration' \in [Ids -> ArbitrationRecord \cup {None}]
  BY JudgeType DEF RequestMultisigArbitration
<1>5. QED BY <1>3, <1>4 DEF FundsType, RequestMultisigArbitration

LEMMA ResolveMultisigDoes ==
  ASSUME FundsType, NEW i \in Ids, NEW c, NEW w \in BOOLEAN,
         ResolveMultisigArbitration(i, c, w)
  PROVE  /\ FundsType' /\ UNCHANGED escrow /\ ~paused /\ Speaks(i)
         /\ Closes(multisig, multisig', i)
         /\ multisig'[i].approvals = multisig[i].approvals
         /\ multisig'[i].signers = multisig[i].signers
         /\ VaultGets(multisig[i].token, -multisig[i].amount)
         /\ multisig'[i].released => Gains(multisig[i], multisig[i].to, multisig[i].amount)
         /\ multisig'[i].cancelled => Gains(multisig[i], multisig[i].from, multisig[i].amount)
<1>1. /\ IsOpen(multisig[i]) /\ ~paused /\ UNCHANGED escrow
      /\ multisig' = IF w THEN [multisig EXCEPT ![i].released = TRUE]
                     ELSE [multisig EXCEPT ![i].cancelled = TRUE]
  BY DEF ResolveMultisigArbitration, CloseMultisig
<1>2. /\ multisig' \in [Ids -> MultiSigRecord \cup {None}] /\ multisig[i] \in MultiSigRecord
      /\ Closes(multisig, multisig', i)
      /\ multisig'[i].approvals = multisig[i].approvals
      /\ multisig'[i].signers = multisig[i].signers
  BY <1>1, MultisigMarked
<1>3. Speaks(i) /\ arbitration' \in [Ids -> ArbitrationRecord \cup {None}]
  BY ResolvesSpeaks DEF ResolveMultisigArbitration
<1> DEFINE r == multisig[i]
           to == IF w THEN r.to ELSE r.from
<1>4. r.token \in TokenIds /\ to \in Accounts /\ r.amount \in Nat
  BY <1>2, MultisigFields
<1>5. Pay(r.token, Vault, to, r.amount)
  BY DEF ResolveMultisigArbitration, CloseMultisig, Verdict
<1>6. (multisig'[i].released <=> w) /\ (multisig'[i].cancelled <=> ~w)
  <2>1. /\ w => multisig'[i] = [multisig[i] EXCEPT !.released = TRUE]
        /\ ~w => multisig'[i] = [multisig[i] EXCEPT !.cancelled = TRUE]
    BY <1>1 DEF FundsType
  <2>2. QED BY <1>1, <1>2, <2>1 DEF MultiSigRecord, IsOpen
<1> HIDE DEF to, r
<1>7. /\ balance' \in Ledgers /\ VaultGets(r.token, -r.amount)
      /\ balance'[r.token][to] = balance[r.token][to] + r.amount
  BY <1>4, <1>5, VaultPays DEF FundsType
<1>8. Gains(r, to, r.amount)
  <2>1. balance'[r.token][to] \in Nat
    BY <1>4, <1>7, HoldersFact DEF Ledgers
  <2>2. QED BY <1>7, <2>1 DEF Gains
<1>9. /\ multisig'[i].released => Gains(r, r.to, r.amount)
      /\ multisig'[i].cancelled => Gains(r, r.from, r.amount)
  BY <1>6, <1>8 DEF to
<1>10. QED BY <1>1, <1>2, <1>3, <1>7, <1>9 DEF FundsType, r

-----------------------------------------------------------------------------
(***************************************************************************)
(* What the open escrows of a kind are worth together, and how that        *)
(* changes as one opens, one closes, many close at once, or none does.     *)
(***************************************************************************)

WorthOf(f) == [i \in Ids |-> IF f[i] = None THEN 0 ELSE f[i].amount]

OpenOf(f, t) == {i \in Ids : IsOpen(f[i]) /\ f[i].token = t}

Held(f, t) == Total(OpenOf(f, t), WorthOf(f))

\* there may be infinitely many ids, but only finitely many units in escrow
FiniteIn(f) == \A t \in TokenIds : IsFiniteSet(Units(OpenOf(f, t), WorthOf(f)))

LEMMA HeldIsNat ==
  ASSUME NEW f, FiniteIn(f)
  PROVE  \A t \in TokenIds : Held(f, t) \in Nat
BY FS_CardinalityType DEF FiniteIn, Held, Total

LEMMA HeldKept ==
  ASSUME NEW f, NEW g, FiniteIn(f), Keeps(f, g)
  PROVE  FiniteIn(g) /\ \A t \in TokenIds : Held(g, t) = Held(f, t)
<1>1. ASSUME NEW t \in TokenIds
      PROVE  Units(OpenOf(g, t), WorthOf(g)) = Units(OpenOf(f, t), WorthOf(f))
  <2>1. OpenOf(g, t) = OpenOf(f, t)
    BY DEF OpenOf, Keeps
  <2>2. \A j \in OpenOf(f, t) : WorthOf(g)[j] = WorthOf(f)[j]
    BY DEF OpenOf, Keeps, WorthOf, IsOpen
  <2>3. QED BY <2>1, <2>2, UnitsSame
<1>2. QED BY <1>1 DEF FiniteIn, Held, Total

LEMMA HeldOpens ==
  ASSUME NEW f, NEW g, FiniteIn(f), NEW i \in Ids, NEW tk \in TokenIds, NEW a \in Nat,
         Opens(f, g, i, tk, a)
  PROVE  /\ FiniteIn(g)
         /\ \A t \in TokenIds : Held(g, t) = Held(f, t) + (IF t = tk THEN a ELSE 0)
<1>1. ASSUME NEW t \in TokenIds
      PROVE  /\ IsFiniteSet(Units(OpenOf(g, t), WorthOf(g)))
             /\ Held(g, t) = Held(f, t) + (IF t = tk THEN a ELSE 0)
  <2>1. i \notin OpenOf(f, t) /\ WorthOf(g)[i] = a
    BY DEF OpenOf, Opens, IsOpen, WorthOf
  <2>2. \A j \in OpenOf(f, t) : WorthOf(g)[j] = WorthOf(f)[j]
    BY <2>1 DEF OpenOf, Opens, Others, WorthOf
  <2>3. IsFiniteSet(Units(OpenOf(f, t), WorthOf(f))) /\ Held(f, t) \in Nat
    BY HeldIsNat DEF FiniteIn
  <2>4. CASE t = tk
    <3>1. OpenOf(g, t) = OpenOf(f, t) \cup {i}
      BY <2>4 DEF OpenOf, Opens, Others
    <3>2. /\ IsFiniteSet(Units(OpenOf(f, t) \cup {i}, WorthOf(g)))
          /\ Total(OpenOf(f, t) \cup {i}, WorthOf(g))
               = Total(OpenOf(f, t), WorthOf(f)) + WorthOf(g)[i]
      BY <2>1, <2>2, <2>3, TotalAdd
    <3>3. QED BY <2>1, <2>4, <3>1, <3>2 DEF Held
  <2>5. CASE t # tk
    <3>1. OpenOf(g, t) = OpenOf(f, t)
      BY <2>5 DEF OpenOf, Opens, Others, IsOpen
    <3>2. Units(OpenOf(g, t), WorthOf(g)) = Units(OpenOf(f, t), WorthOf(f))
      BY <2>2, <3>1, UnitsSame
    <3>3. QED BY <2>3, <2>5, <3>2 DEF Held, Total
  <2>6. QED BY <2>4, <2>5
<1>2. QED BY <1>1 DEF FiniteIn

\* Those of a set close, the others stay as they are.
LEMMA HeldCloses ==
  ASSUME NEW f, NEW g, FiniteIn(f), NEW R \in SUBSET Ids,
         \A j \in R : ~IsOpen(g[j]), \A j \in Ids \ R : g[j] = f[j]
  PROVE  /\ FiniteIn(g)
         /\ \A t \in TokenIds :
              /\ Total(R \cap OpenOf(f, t), WorthOf(f)) \in Nat
              /\ Held(g, t) = Held(f, t) - Total(R \cap OpenOf(f, t), WorthOf(f))
<1>1. ASSUME NEW t \in TokenIds
      PROVE  /\ IsFiniteSet(Units(OpenOf(g, t), WorthOf(g)))
             /\ Total(R \cap OpenOf(f, t), WorthOf(f)) \in Nat
             /\ Held(g, t) = Held(f, t) - Total(R \cap OpenOf(f, t), WorthOf(f))
  <2> DEFINE S == OpenOf(f, t)
             Q == R \cap S
  <2>1. OpenOf(g, t) = S \ Q
    BY DEF OpenOf
  <2>2. \A j \in S \ Q : WorthOf(g)[j] = WorthOf(f)[j]
    BY DEF OpenOf, WorthOf
  <2>3. IsFiniteSet(Units(S, WorthOf(f))) /\ Q \in SUBSET S
    BY DEF FiniteIn
  <2> HIDE DEF S, Q
  <2>4. /\ IsFiniteSet(Units(S \ Q, WorthOf(f))) /\ Total(Q, WorthOf(f)) \in Nat
        /\ Total(S \ Q, WorthOf(f)) = Total(S, WorthOf(f)) - Total(Q, WorthOf(f))
    BY <2>3, TotalDifference
  <2>5. Units(S \ Q, WorthOf(g)) = Units(S \ Q, WorthOf(f))
    BY <2>2, UnitsSame
  <2>6. /\ IsFiniteSet(Units(OpenOf(g, t), WorthOf(g)))
        /\ Total(OpenOf(g, t), WorthOf(g)) = Total(S, WorthOf(f)) - Total(Q, WorthOf(f))
    BY <2>1, <2>4, <2>5 DEF Total
  <2>7. QED BY <2>4, <2>6 DEF Held, S, Q
<1>2. QED BY <1>1 DEF FiniteIn

LEMMA HeldClosesOne ==
  ASSUME NEW f, NEW g, FiniteIn(f), NEW i \in Ids, Closes(f, g, i), f[i].amount \in Nat
  PROVE  /\ FiniteIn(g)
         /\ \A t \in TokenIds :
              Held(g, t) = Held(f, t) - (IF t = f[i].token THEN f[i].amount ELSE 0)
<1>1. /\ FiniteIn(g)
      /\ \A t \in TokenIds : Held(g, t) = Held(f, t) - Total({i} \cap OpenOf(f, t), WorthOf(f))
  <2>1. {i} \in SUBSET Ids
    OBVIOUS
  <2>2. (\A j \in {i} : ~IsOpen(g[j])) /\ (\A j \in Ids \ {i} : g[j] = f[j])
    BY DEF Closes, Others
  <2>3. QED BY <2>1, <2>2, HeldCloses
<1>2. WorthOf(f)[i] = f[i].amount
  BY DEF WorthOf, Closes, IsOpen
<1>3. Total({i}, WorthOf(f)) = f[i].amount
  BY <1>2, TotalOne
<1>4. ASSUME NEW t \in TokenIds
      PROVE  Total({i} \cap OpenOf(f, t), WorthOf(f))
               = IF t = f[i].token THEN f[i].amount ELSE 0
  <2>1. CASE t = f[i].token
    <3>1. {i} \cap OpenOf(f, t) = {i}
      BY <2>1 DEF OpenOf, Closes
    <3>2. QED BY <1>3, <2>1, <3>1
  <2>2. CASE t # f[i].token
    <3>1. {i} \cap OpenOf(f, t) = {}
      BY <2>2 DEF OpenOf
    <3>2. QED BY <2>2, <3>1, TotalEmpty
  <2>3. QED BY <2>1, <2>2
<1>5. QED BY <1>1, <1>4

\* What the contract owes is what the open escrows of both kinds are worth.
LEMMA OwedIsHeld ==
  /\ \A t \in TokenIds : Owed(t) = Held(escrow, t) + Held(multisig, t)
  /\ \A t \in TokenIds : Owed(t)' = Held(escrow', t) + Held(multisig', t)
BY DEF Owed, Held, OpenOf, WorthOf, EscrowWorth, MultisigWorth, IsOpen

\* A batch: everything it closes leaves the vault, and reaches its payees.
LEMMA BatchDoes ==
  ASSUME FundsType, FiniteIn(escrow), NEW c \in Accounts, NEW ids \in SUBSET Ids,
         BatchReleaseEscrow(c, ids)
  PROVE  /\ FundsType' /\ UNCHANGED <<multisig, arbitration>> /\ ~paused
         /\ FiniteIn(escrow')
         /\ \A t \in TokenIds : balance'[t][Vault] - balance[t][Vault]
                                  = Held(escrow', t) - Held(escrow, t)
         /\ \A i \in Ids :
              /\ escrow'[i] = escrow[i] \/ ~IsOpen(escrow'[i])
              /\ IsOpen(escrow[i]) =>
                   /\ ~escrow'[i].cancelled
                   /\ escrow'[i].released => Gains(escrow[i], escrow[i].to, escrow[i].amount)
<1> DEFINE R == {i \in ids : IsOpen(escrow[i]) /\ IsParty(escrow[i], c)}
           Out(t) == R \cap OpenOf(escrow, t)
           To(h, t) == {i \in Out(t) : escrow[i].to = h}
           W == WorthOf(escrow)
<1>1. R \in SUBSET Ids /\ \A i \in R : IsOpen(escrow[i]) /\ escrow[i] \in EscrowRecord
  BY DEF FundsType, IsOpen
<1>2. /\ UNCHANGED <<multisig, arbitration>> /\ ~paused
      /\ escrow' = [i \in Ids |-> IF i \in R THEN [escrow[i] EXCEPT !.released = TRUE]
                                  ELSE escrow[i]]
      /\ \A t \in TokenIds : balance[t][Vault] >= Total(Out(t), W)
      /\ balance' = [t \in TokenIds |-> [h \in Holders |->
                       IF h = Vault THEN balance[t][h] - Total(Out(t), W)
                       ELSE balance[t][h] + Total(To(h, t), W)]]
  <2>1. W = EscrowWorth
    BY DEF WorthOf, EscrowWorth
  <2>2. \A t : Out(t) = {i \in R : escrow[i].token = t}
    BY <1>1 DEF OpenOf
  <2>3. QED BY <2>1, <2>2 DEF BatchReleaseEscrow
<1>3. ASSUME NEW i \in R
      PROVE  /\ escrow'[i] \in EscrowRecord /\ escrow'[i] # None /\ ~IsOpen(escrow'[i])
             /\ escrow'[i].released /\ ~escrow'[i].cancelled
  <2>1. escrow'[i] = [escrow[i] EXCEPT !.released = TRUE]
    BY <1>1, <1>2
  <2>2. escrow'[i] \in EscrowRecord /\ escrow'[i].released /\ ~escrow'[i].cancelled
    BY <1>1, <2>1 DEF EscrowRecord, IsOpen
  <2>3. QED BY <2>2, SingleFields DEF IsOpen
<1>4. \A i \in Ids \ R : escrow'[i] = escrow[i]
  BY <1>2
<1>5. escrow' \in [Ids -> EscrowRecord \cup {None}]
  <2>1. \A i \in Ids : escrow'[i] \in EscrowRecord \cup {None}
    BY <1>3, <1>4 DEF FundsType
  <2> HIDE DEF R
  <2>2. QED BY <1>2, <2>1
<1>6. \A i \in Ids : IsOpen(escrow[i]) => escrow[i].token \in TokenIds
                       /\ escrow[i].amount \in Nat /\ escrow[i].to \in Accounts
                       /\ W[i] = escrow[i].amount
  BY SingleFields DEF FundsType, IsOpen, WorthOf
<1>7. /\ FiniteIn(escrow')
      /\ \A t \in TokenIds : /\ Total(Out(t), W) \in Nat
                             /\ Held(escrow', t) = Held(escrow, t) - Total(Out(t), W)
  <2>1. (\A j \in R : ~IsOpen(escrow'[j])) /\ \A j \in Ids \ R : escrow'[j] = escrow[j]
    BY <1>3, <1>4
  <2> HIDE DEF R
  <2>2. QED BY <1>1, <2>1, HeldCloses
<1>8. ASSUME NEW t \in TokenIds, NEW h
      PROVE  /\ IsFiniteSet(Units(To(h, t), W)) /\ Total(To(h, t), W) \in Nat
  <2>1. To(h, t) \in SUBSET OpenOf(escrow, t) /\ IsFiniteSet(Units(OpenOf(escrow, t), W))
    BY DEF FiniteIn
  <2> HIDE DEF To, W
  <2>2. QED BY <2>1, TotalDifference
<1> HIDE DEF R, W
<1>9. \A t \in TokenIds : /\ balance[t] \in [Holders -> Nat]
                          /\ balance[t][Vault] \in Nat /\ Held(escrow, t) \in Nat
  BY HoldersFact, HeldIsNat DEF FundsType, Ledgers
<1> HIDE DEF Out
<1>10. /\ balance' \in Ledgers
       /\ \A t \in TokenIds :
            /\ balance'[t][Vault] = balance[t][Vault] - Total(Out(t), W)
            /\ \A h \in Accounts : balance'[t][h] = balance[t][h] + Total(To(h, t), W)
  <2>1. ASSUME NEW t \in TokenIds, NEW h \in Holders
        PROVE  (IF h = Vault THEN balance[t][h] - Total(Out(t), W)
                ELSE balance[t][h] + Total(To(h, t), W)) \in Nat
    <3> HIDE DEF To
    <3>1. balance[t][h] \in Nat /\ Total(To(h, t), W) \in Nat /\ Total(Out(t), W) \in Nat
      BY <1>7, <1>8, <1>9
    <3>2. balance[t][Vault] >= Total(Out(t), W)
      BY <1>2
    <3>3. QED BY <3>1, <3>2
  <2> HIDE DEF To
  <2>2. QED BY <1>2, <2>1, HoldersFact DEF Ledgers
<1>11. \A t \in TokenIds : balance'[t][Vault] - balance[t][Vault]
                             = Held(escrow', t) - Held(escrow, t)
  BY <1>7, <1>9, <1>10
<1>12. ASSUME NEW i \in Ids, IsOpen(escrow[i]), escrow'[i].released
       PROVE  Gains(escrow[i], escrow[i].to, escrow[i].amount)
  <2> DEFINE t == escrow[i].token
             h == escrow[i].to
             S == To(h, t)
  <2>1. i \in R
    BY <1>4, <1>12 DEF IsOpen
  <2>2. i \in S
    BY <1>12, <2>1 DEF Out, OpenOf
  <2>3. /\ t \in TokenIds /\ h \in Accounts /\ escrow[i].amount \in Nat
        /\ W[i] = escrow[i].amount
    BY <1>6, <1>12
  <2>4. /\ IsFiniteSet(Units(S, W)) /\ Total(S, W) \in Nat
        /\ balance'[t][h] = balance[t][h] + Total(S, W) /\ balance[t][h] \in Nat
    BY <1>8, <1>9, <1>10, <2>3, HoldersFact
  <2> HIDE DEF S, t, h
  <2>5. /\ Total({i}, W) = W[i] /\ Total(S \ {i}, W) = Total(S, W) - Total({i}, W)
        /\ Total(S \ {i}, W) \in Nat
    <3>1. {i} \in SUBSET S /\ S \ {i} \in SUBSET S
      BY <2>2
    <3>2. Total(S \ {i}, W) = Total(S, W) - Total({i}, W) /\ Total(S \ {i}, W) \in Nat
      BY <2>4, <3>1, TotalDifference
    <3>3. QED BY <2>3, <3>2, TotalOne
  <2>6. balance'[t][h] >= balance[t][h] + escrow[i].amount
    BY <2>3, <2>4, <2>5
  <2>7. QED BY <2>6 DEF Gains, t, h
<1>13. QED
  <2>1. ASSUME NEW i \in Ids
        PROVE  /\ escrow'[i] = escrow[i] \/ ~IsOpen(escrow'[i])
               /\ IsOpen(escrow[i]) =>
                    /\ ~escrow'[i].cancelled
                    /\ escrow'[i].released => Gains(escrow[i], escrow[i].to, escrow[i].amount)
    BY <1>3, <1>4, <1>12 DEF IsOpen
  <2>2. FundsType'
    BY <1>2, <1>5, <1>10 DEF FundsType
  <2>3. QED BY <1>2, <1>7, <1>11, <2>1, <2>2

-----------------------------------------------------------------------------
(***************************************************************************)
(* The inductive invariant.  Types alone are not inductive: update_fee     *)
(* needs the configuration that initialize stores with the first admin,    *)
(* and a batch adds and subtracts a sum, which is a number only because    *)
(* finitely many units are in escrow.  Only signers' approvals are stored. *)
(***************************************************************************)

Started == admin # None => config # None

Signers(r) == {r.signers[k] : k \in 1 .. Len(r.signers)}

Signed == \A i \in Ids : multisig[i] # None => multisig[i].approvals \subseteq Signers(multisig[i])

MarketInv ==
  TypeOK /\ Started /\ FiniteIn(escrow) /\ FiniteIn(multisig) /\ Signed

\* the vault's change of every token is the change of what is in escrow
Balanced ==
  \A t \in TokenIds :
    balance'[t][Vault] - balance[t][Vault]
      = (Held(escrow', t) + Held(multisig', t)) - (Held(escrow, t) + Held(multisig, t))

\* a verdict takes the amount of a single escrow that is not open
Overdraws(i) ==
  /\ PaysAgain(i) /\ escrow[i].token \in TokenIds /\ escrow[i].amount \in Nat
  /\ VaultGets(escrow[i].token, -escrow[i].amount)
  /\ \A t \in TokenIds : Held(escrow', t) = Held(escrow, t)
  /\ UNCHANGED multisig

\* Initially nothing is in escrow.
LEMMA MarketStart == Init => MarketInv
<1> SUFFICES ASSUME Init PROVE MarketInv
  OBVIOUS
<1>1. balance \in [TokenIds -> [Holders -> Nat]]
  BY ConstantsOK DEF ConstantsOK, Init
<1>2. TypeOK
  <2>1. now \in Time /\ schemaVersion \in Nat
    BY ConstantsOK DEF ConstantsOK, Init, Time
  <2>2. QED BY <1>1, <2>1 DEF Init, TypeOK
<1>3. \A t \in TokenIds : OpenOf(escrow, t) = {} /\ OpenOf(multisig, t) = {}
  BY DEF Init, OpenOf, IsOpen
<1>4. FiniteIn(escrow) /\ FiniteIn(multisig)
  BY <1>3, TotalEmpty DEF FiniteIn
<1>5. QED BY <1>2, <1>4 DEF MarketInv, Started, Signed, Init

\* Administration keeps the access variables well formed.
LEMMA AccessStep ==
  ASSUME AccessType, Started, [Next]_vars
  PROVE  AccessType' /\ Started'
<1>1. CASE UNCHANGED access /\ UNCHANGED now
  BY <1>1 DEF access, AccessType, Started
<1>2. ASSUME NEW a \in Owners, NEW r \in Treasuries, NEW b \in FeeRates, Initialize(a, b, r)
      PROVE  AccessType' /\ Started'
  <2>1. /\ a \in Accounts /\ r \in Accounts /\ b \in FeeRates \cap 0 .. MaxFeeBps
    BY <1>2, ConstantsOK DEF ConstantsOK, Initialize, MaxFeeBps
  <2>2. config' \in Config /\ config' # None
    BY <1>2, <2>1, ConstantsOK DEF ConstantsOK, Initialize, Config
  <2>3. roles' \in [Roles -> SUBSET Accounts]
    BY <1>2, <2>1 DEF Initialize, AccessType
  <2>4. QED BY <1>2, <2>1, <2>2, <2>3 DEF Initialize, AccessType, Started
<1>3. ASSUME NEW b \in FeeRates, UpdateFee(b) PROVE AccessType' /\ Started'
  <2>1. config \in Config /\ b \in FeeRates \cap 0 .. MaxFeeBps
    <3>1. config \in Config
      BY <1>3 DEF UpdateFee, AccessType, Started
    <3>2. b \in Nat /\ b <= MaxFeeBps
      BY <1>3, ConstantsOK DEF ConstantsOK, UpdateFee
    <3>3. QED BY <3>1, <3>2 DEF MaxFeeBps
  <2>2. config' \in Config /\ config' # None
    BY <1>3, <2>1, ConstantsOK DEF ConstantsOK, UpdateFee, Config
  <2>3. QED BY <1>3, <2>2 DEF UpdateFee, AccessType, Started
<1>4. ASSUME NEW c, NEW r \in Treasuries, SetTreasury(c, r) PROVE AccessType' /\ Started'
  <2>1. config' \in Config /\ config' # None
    BY <1>4, ConstantsOK DEF ConstantsOK, SetTreasury, AccessType, Config
  <2>2. QED BY <1>4, <2>1 DEF SetTreasury, AccessType, Started
<1>5. ASSUME NEW a \in Owners, SetAdmin(a) PROVE AccessType' /\ Started'
  <2>1. a \in Accounts
    BY ConstantsOK DEF ConstantsOK
  <2>2. QED BY <1>5, <2>1 DEF SetAdmin, AccessType, Started
<1>6. ASSUME NEW a \in Arbiters, AddArbitrator(a) \/ RemoveArbitrator(a)
      PROVE  AccessType' /\ Started'
  BY <1>6, ConstantsOK DEF ConstantsOK, AddArbitrator, RemoveArbitrator, AccessType, Started
<1>7. ASSUME NEW c, NEW g \in Grants, GrantRole(c, g[1], g[2]) \/ RevokeRole(c, g[1], g[2])
      PROVE  AccessType' /\ Started'
  <2>1. g[1] \in Roles /\ g[2] \in Accounts
    BY ConstantsOK DEF ConstantsOK
  <2>2. QED BY <1>7, <2>1 DEF GrantRole, RevokeRole, Granted, Revoked, AccessType, Started
<1>8. ASSUME NEW c, NEW value \in BOOLEAN, SetPaused(c, value) PROVE AccessType' /\ Started'
  BY <1>8 DEF SetPaused, AccessType, Started
<1>9. ASSUME NEW c, NEW v \in 1 .. MaxSchema, Migrate(c, v) PROVE AccessType' /\ Started'
  BY <1>9, ConstantsOK DEF ConstantsOK, Migrate, AccessType, Started
<1>10. CASE Tick
  BY <1>10, ConstantsOK DEF ConstantsOK, Tick, Time, access, AccessType, Started
<1>11. CASE AdminStep
  BY <1>2, <1>3, <1>4, <1>5, <1>6, <1>7, <1>8, <1>9, <1>11, Zenon DEF AdminStep
<1>12. CASE UNCHANGED vars
  BY <1>1, <1>12 DEF vars
<1>13. QED BY <1>1, <1>10, <1>11, <1>12, StepCases, Zenon

\* What a step does to the money: records and ledgers stay well formed, only
\* signers' approvals are stored, and the vault loses what leaves escrow and gains
\* what enters it, but for a verdict on a single escrow that is not open.
LEMMA MoneyStep ==
  ASSUME MarketInv, [Next]_vars
  PROVE  /\ FundsType' /\ FiniteIn(escrow') /\ FiniteIn(multisig') /\ Signed'
         /\ Balanced \/ \E i \in Ids : Overdraws(i)
<1>1. /\ FundsType /\ AccessType /\ FiniteIn(escrow) /\ FiniteIn(multisig) /\ Signed
      /\ \A t \in TokenIds : /\ Held(escrow, t) \in Nat /\ Held(multisig, t) \in Nat
                             /\ balance[t][Vault] \in Nat
  BY TypeParts, HeldIsNat, HoldersFact DEF MarketInv, FundsType, Ledgers
<1>2. UNCHANGED multisig => FiniteIn(multisig') /\ Signed'
  BY <1>1 DEF FiniteIn, Signed, Signers, OpenOf, WorthOf, IsOpen
<1>3. UNCHANGED escrow => FiniteIn(escrow')
  BY <1>1 DEF FiniteIn, OpenOf, WorthOf, IsOpen
<1>4. /\ UNCHANGED multisig => \A t \in TokenIds : Held(multisig', t) = Held(multisig, t)
      /\ UNCHANGED escrow => \A t \in TokenIds : Held(escrow', t) = Held(escrow, t)
  BY DEF Held, OpenOf, WorthOf
<1>5. ASSUME NEW i \in Ids, Others(multisig, multisig', i),
             multisig'[i] # None => multisig'[i].approvals \subseteq Signers(multisig'[i])
      PROVE  Signed'
  BY <1>1, <1>5 DEF Signed, Others, Signers
<1>6. ASSUME UNCHANGED funds
      PROVE  FundsType' /\ FiniteIn(escrow') /\ FiniteIn(multisig') /\ Signed' /\ Balanced
  BY <1>1, <1>2, <1>3, <1>4, <1>6 DEF funds, records, FundsType, Balanced
<1>7. ASSUME NEW c \in Accounts, NEW d \in Accounts, NEW t \in TokenIds, NEW a \in Amounts,
             Tip(c, d, t, a)
      PROVE  FundsType' /\ FiniteIn(escrow') /\ FiniteIn(multisig') /\ Signed' /\ Balanced
  <2>1. FundsType' /\ UNCHANGED records /\ VaultKeeps
    BY <1>1, <1>7, TipDoes
  <2>2. UNCHANGED escrow /\ UNCHANGED multisig
    BY <2>1 DEF records
  <2>3. QED BY <1>1, <1>2, <1>3, <1>4, <2>1, <2>2 DEF Balanced, VaultKeeps
<1>8. ASSUME NEW i \in Ids, NEW c \in Accounts, NEW d \in Accounts, NEW t \in TokenIds,
             NEW a \in Amounts, NEW e \in Time, CreateEscrow(i, c, d, t, a, e)
      PROVE  FundsType' /\ FiniteIn(escrow') /\ FiniteIn(multisig') /\ Signed' /\ Balanced
  <2>1. /\ FundsType' /\ UNCHANGED multisig /\ a \in Nat
        /\ Opens(escrow, escrow', i, t, a) /\ VaultGets(t, a)
    BY <1>1, <1>8, CreateDoes
  <2>2. /\ FiniteIn(escrow')
        /\ \A u \in TokenIds : Held(escrow', u) = Held(escrow, u) + (IF u = t THEN a ELSE 0)
    BY <1>1, <2>1, HeldOpens
  <2>3. Balanced
    BY <1>1, <1>4, <2>1, <2>2 DEF Balanced, VaultGets
  <2>4. QED BY <1>2, <2>1, <2>2, <2>3
<1>9. ASSUME NEW i \in Ids, NEW c \in Accounts, NEW d \in Accounts, NEW t \in TokenIds,
             NEW a \in Amounts, NEW e \in Time, NEW s \in Seq(Accounts), NEW n \in Nat,
             CreateMultisigEscrow(i, c, d, t, a, e, s, n)
      PROVE  FundsType' /\ FiniteIn(escrow') /\ FiniteIn(multisig') /\ Signed' /\ Balanced
  <2>1. /\ FundsType' /\ UNCHANGED escrow /\ a \in Nat
        /\ Opens(multisig, multisig', i, t, a) /\ VaultGets(t, a)
        /\ multisig'[i].approvals = {}
    BY <1>1, <1>9, CreateMultisigDoes
  <2>2. /\ FiniteIn(multisig')
        /\ \A u \in TokenIds : Held(multisig', u) = Held(multisig, u) + (IF u = t THEN a ELSE 0)
    BY <1>1, <2>1, HeldOpens
  <2>3. Balanced
    BY <1>1, <1>4, <2>1, <2>2 DEF Balanced, VaultGets
  <2>4. Signed'
    BY <1>5, <2>1 DEF Opens
  <2>5. QED BY <1>3, <2>1, <2>2, <2>3, <2>4
<1>10. ASSUME FundsType', UNCHANGED multisig, NEW i \in Ids, Closes(escrow, escrow', i),
              VaultGets(escrow[i].token, -escrow[i].amount)
       PROVE  FundsType' /\ FiniteIn(escrow') /\ FiniteIn(multisig') /\ Signed' /\ Balanced
  <2>1. escrow[i].amount \in Nat /\ escrow[i].token \in TokenIds
    BY <1>1, <1>10, SingleFields DEF FundsType, Closes, IsOpen
  <2>2. /\ FiniteIn(escrow')
        /\ \A t \in TokenIds : Held(escrow', t) = Held(escrow, t)
                                 - (IF t = escrow[i].token THEN escrow[i].amount ELSE 0)
    BY <1>1, <1>10, <2>1, HeldClosesOne
  <2>3. Balanced
    BY <1>1, <1>4, <1>10, <2>1, <2>2 DEF Balanced, VaultGets
  <2>4. QED BY <1>2, <1>10, <2>2, <2>3
<1>11. ASSUME FundsType', UNCHANGED escrow, NEW i \in Ids, Closes(multisig, multisig', i),
              multisig'[i].approvals \subseteq Signers(multisig'[i]),
              VaultGets(multisig[i].token, -multisig[i].amount)
       PROVE  FundsType' /\ FiniteIn(escrow') /\ FiniteIn(multisig') /\ Signed' /\ Balanced
  <2>1. multisig[i].amount \in Nat /\ multisig[i].token \in TokenIds
    BY <1>1, <1>11, MultisigFields DEF FundsType, Closes, IsOpen
  <2>2. /\ FiniteIn(multisig')
        /\ \A t \in TokenIds : Held(multisig', t) = Held(multisig, t)
                                 - (IF t = multisig[i].token THEN multisig[i].amount ELSE 0)
    BY <1>1, <1>11, <2>1, HeldClosesOne
  <2>3. Balanced
    BY <1>1, <1>4, <1>11, <2>1, <2>2 DEF Balanced, VaultGets
  <2>4. Signed'
    BY <1>5, <1>11 DEF Closes
  <2>5. QED BY <1>3, <1>11, <2>2, <2>3, <2>4
<1>12. ASSUME NEW i \in Ids, NEW c \in Accounts, ReleaseEscrow(i, c)
       PROVE  FundsType' /\ FiniteIn(escrow') /\ FiniteIn(multisig') /\ Signed' /\ Balanced
  BY <1>1, <1>10, <1>12, ReleaseDoes
<1>13. ASSUME NEW i \in Ids, IsOpen(escrow[i]), Refund(i)
       PROVE  FundsType' /\ FiniteIn(escrow') /\ FiniteIn(multisig') /\ Signed' /\ Balanced
  BY <1>1, <1>10, <1>13, RefundDoes
<1>14. ASSUME NEW i \in Ids, NEW c \in Accounts, NEW j \in Accounts, NEW f \in JudgeFees,
              RequestArbitration(i, c, j, f)
       PROVE  FundsType' /\ FiniteIn(escrow') /\ FiniteIn(multisig') /\ Signed' /\ Balanced
  <2>1. FundsType' /\ UNCHANGED multisig /\ VaultKeeps /\ Keeps(escrow, escrow')
    BY <1>1, <1>14, RequestDoes
  <2>2. FiniteIn(escrow') /\ \A t \in TokenIds : Held(escrow', t) = Held(escrow, t)
    BY <1>1, <2>1, HeldKept
  <2>3. QED BY <1>1, <1>2, <1>4, <2>1, <2>2 DEF Balanced, VaultKeeps
<1>15. ASSUME NEW i \in Ids, NEW c \in Accounts, NEW w \in BOOLEAN, ResolveArbitration(i, c, w)
       PROVE  /\ FundsType' /\ FiniteIn(escrow') /\ FiniteIn(multisig') /\ Signed'
              /\ Balanced \/ Overdraws(i)
  <2>1. /\ FundsType' /\ UNCHANGED multisig /\ Speaks(i) /\ escrow[i] # None
        /\ IF IsOpen(escrow[i]) THEN Closes(escrow, escrow', i) ELSE Keeps(escrow, escrow')
        /\ VaultGets(escrow[i].token, -escrow[i].amount)
    BY <1>1, <1>15, ResolveDoes
  <2>2. CASE IsOpen(escrow[i])
    BY <1>10, <2>1, <2>2
  <2>3. CASE ~IsOpen(escrow[i])
    <3>1. FiniteIn(escrow') /\ \A t \in TokenIds : Held(escrow', t) = Held(escrow, t)
      BY <1>1, <2>1, <2>3, HeldKept
    <3>2. escrow[i].token \in TokenIds /\ escrow[i].amount \in Nat
      BY <1>1, <2>1, SingleFields DEF FundsType
    <3>3. Overdraws(i)
      BY <2>1, <2>3, <3>1, <3>2 DEF Overdraws, PaysAgain
    <3>4. QED BY <1>2, <2>1, <3>1, <3>3
  <2>4. QED BY <2>2, <2>3
<1>16. ASSUME NEW c \in Accounts, NEW ids \in SUBSET Ids, BatchReleaseEscrow(c, ids)
       PROVE  FundsType' /\ FiniteIn(escrow') /\ FiniteIn(multisig') /\ Signed' /\ Balanced
  <2>1. /\ FundsType' /\ UNCHANGED multisig /\ FiniteIn(escrow')
        /\ \A t \in TokenIds : balance'[t][Vault] - balance[t][Vault]
                                 = Held(escrow', t) - Held(escrow, t)
    BY <1>1, <1>16, BatchDoes
  <2>2. \A t \in TokenIds : Held(escrow', t) \in Nat
    BY <2>1, HeldIsNat
  <2>3. QED BY <1>1, <1>2, <1>4, <2>1, <2>2 DEF Balanced
<1>17. ASSUME NEW i \in Ids, NEW c \in Accounts, ApproveMultisigRelease(i, c)
       PROVE  FundsType' /\ FiniteIn(escrow') /\ FiniteIn(multisig') /\ Signed' /\ Balanced
  <2>1. /\ FundsType' /\ UNCHANGED escrow /\ Others(multisig, multisig', i)
        /\ IsOpen(multisig[i]) /\ multisig'[i].signers = multisig[i].signers
        /\ multisig'[i].approvals = multisig[i].approvals \cup {c}
        /\ \E k \in 1 .. Len(multisig[i].signers) : multisig[i].signers[k] = c
        /\ \/ /\ Closes(multisig, multisig', i)
              /\ VaultGets(multisig[i].token, -multisig[i].amount)
           \/ Keeps(multisig, multisig') /\ VaultKeeps
    BY <1>1, <1>17, ApproveDoes
  <2>2. multisig'[i].approvals \subseteq Signers(multisig'[i])
    BY <1>1, <2>1 DEF Signed, Signers, IsOpen
  <2>3. CASE Keeps(multisig, multisig') /\ VaultKeeps
    <3>1. FiniteIn(multisig') /\ \A t \in TokenIds : Held(multisig', t) = Held(multisig, t)
      BY <1>1, <2>3, HeldKept
    <3>2. Signed'
      BY <1>5, <2>1, <2>2
    <3>3. QED BY <1>1, <1>3, <1>4, <2>1, <2>3, <3>1, <3>2 DEF Balanced, VaultKeeps
  <2>4. CASE /\ Closes(multisig, multisig', i)
             /\ VaultGets(multisig[i].token, -multisig[i].amount)
    BY <1>11, <2>1, <2>2, <2>4
  <2>5. QED BY <2>1, <2>3, <2>4
<1>18. ASSUME NEW i \in Ids, NEW c \in Accounts, CancelMultisigEscrow(i, c)
       PROVE  FundsType' /\ FiniteIn(escrow') /\ FiniteIn(multisig') /\ Signed' /\ Balanced
  <2>1. /\ FundsType' /\ UNCHANGED escrow /\ Closes(multisig, multisig', i)
        /\ multisig'[i].approvals = multisig[i].approvals
        /\ multisig'[i].signers = multisig[i].signers
        /\ VaultGets(multisig[i].token, -multisig[i].amount)
    BY <1>1, <1>18, CancelMultisigDoes
  <2>2. multisig'[i].approvals \subseteq Signers(multisig'[i])
    BY <1>1, <2>1 DEF Signed, Signers, Closes, IsOpen
  <2>3. QED BY <1>11, <2>1, <2>2
<1>19. ASSUME NEW i \in Ids, NEW c \in Accounts, NEW j \in Accounts, NEW f \in JudgeFees,
              RequestMultisigArbitration(i, c, j, f)
       PROVE  FundsType' /\ FiniteIn(escrow') /\ FiniteIn(multisig') /\ Signed' /\ Balanced
  <2>1. FundsType' /\ UNCHANGED <<escrow, multisig>> /\ VaultKeeps
    BY <1>1, <1>19, RequestMultisigDoes
  <2>2. QED BY <1>1, <1>2, <1>3, <1>4, <2>1 DEF Balanced, VaultKeeps
<1>20. ASSUME NEW i \in Ids, NEW c \in Accounts, NEW w \in BOOLEAN,
              ResolveMultisigArbitration(i, c, w)
       PROVE  FundsType' /\ FiniteIn(escrow') /\ FiniteIn(multisig') /\ Signed' /\ Balanced
  <2>1. /\ FundsType' /\ UNCHANGED escrow /\ Closes(multisig, multisig', i)
        /\ multisig'[i].approvals = multisig[i].approvals
        /\ multisig'[i].signers = multisig[i].signers
        /\ VaultGets(multisig[i].token, -multisig[i].amount)
    BY <1>1, <1>20, ResolveMultisigDoes
  <2>2. multisig'[i].approvals \subseteq Signers(multisig'[i])
    BY <1>1, <2>1 DEF Signed, Signers, Closes, IsOpen
  <2>3. QED BY <1>11, <2>1, <2>2
<1>21. QED
  BY <1>6, <1>7, <1>8, <1>9, <1>12, <1>13, <1>14, <1>15, <1>16, <1>17, <1>18, <1>19, <1>20,
     StepCases, Zenon

\* The invariant holds in every reachable state.
LEMMA MarketSound == Spec => []MarketInv
<1>1. Init => MarketInv
  BY MarketStart
<1>2. MarketInv /\ [Next]_vars => MarketInv'
  <2> SUFFICES ASSUME MarketInv, [Next]_vars PROVE MarketInv'
    OBVIOUS
  <2>1. AccessType' /\ Started'
    BY TypeParts, AccessStep DEF MarketInv
  <2>2. FundsType' /\ FiniteIn(escrow)' /\ FiniteIn(multisig)' /\ Signed'
    BY MoneyStep
  <2>3. TypeOK'
    BY <2>1, <2>2 DEF TypeOK, FundsType, AccessType, Ledgers
  <2>4. QED BY <2>1, <2>2, <2>3 DEF MarketInv
<1>3. QED BY <1>1, <1>2, PTL DEF Spec

\* Every record the contract stores is well formed, no ledger goes negative, and
\* the configuration and the roles are of their types.
THEOREM TypeCorrect == Spec => []TypeOK
<1>1. MarketInv => TypeOK
  BY DEF MarketInv
<1>2. QED BY <1>1, MarketSound, PTL

-----------------------------------------------------------------------------
(* Theorems about the steps *)

\* What the contract owes beyond what it holds grows only by a verdict on a single
\* escrow already paid out, and then by exactly its amount.
Leak ==
  \A t \in TokenIds :
    \/ Deficit(t)' = Deficit(t)
    \/ \E i \in Ids : /\ PaysAgain(i) /\ escrow[i].token = t
                      /\ Deficit(t)' = Deficit(t) + escrow[i].amount

LEMMA LeakStep ==
  ASSUME MarketInv, [Next]_vars
  PROVE  Leak
<1>1. FiniteIn(escrow') /\ FiniteIn(multisig') /\ FundsType'
  BY MoneyStep
<1>2. FiniteIn(escrow) /\ FiniteIn(multisig) /\ FundsType
  BY TypeParts DEF MarketInv
<1>3. \A t \in TokenIds :
        /\ Held(escrow, t) \in Nat /\ Held(multisig, t) \in Nat /\ balance[t][Vault] \in Nat
        /\ Held(escrow', t) \in Nat /\ Held(multisig', t) \in Nat
        /\ balance'[t][Vault] \in Nat
  BY <1>1, <1>2, HeldIsNat, HoldersFact DEF FundsType, Ledgers
<1>4. \A t \in TokenIds :
        /\ Deficit(t) = Held(escrow, t) + Held(multisig, t) - balance[t][Vault]
        /\ Deficit(t)' = Held(escrow', t) + Held(multisig', t) - balance'[t][Vault]
  <2> SUFFICES ASSUME NEW t \in TokenIds
               PROVE  /\ Deficit(t) = Held(escrow, t) + Held(multisig, t) - balance[t][Vault]
                      /\ Deficit(t)'
                           = Held(escrow', t) + Held(multisig', t) - balance'[t][Vault]
    OBVIOUS
  <2>1. /\ Owed(t) = Held(escrow, t) + Held(multisig, t)
        /\ Owed(t)' = Held(escrow', t) + Held(multisig', t)
    BY OwedIsHeld
  <2>2. /\ Deficit(t) = Owed(t) - balance[t][Vault]
        /\ Deficit(t)' = Owed(t)' - balance'[t][Vault]
    BY DEF Deficit
  <2>3. QED BY <1>3, <2>1, <2>2
<1>5. CASE Balanced
  BY <1>3, <1>4, <1>5 DEF Balanced, Leak
<1>6. ASSUME NEW i \in Ids, Overdraws(i) PROVE Leak
  <2>1. \A t \in TokenIds : Held(multisig', t) = Held(multisig, t)
    BY <1>6 DEF Overdraws, Held, OpenOf, WorthOf
  <2>2. /\ PaysAgain(i) /\ escrow[i].amount \in Nat
        /\ \A t \in TokenIds :
             /\ Held(escrow', t) = Held(escrow, t)
             /\ balance'[t][Vault] = balance[t][Vault]
                  + (IF t = escrow[i].token THEN -escrow[i].amount ELSE 0)
    BY <1>6 DEF Overdraws, VaultGets
  <2>3. ASSUME NEW t \in TokenIds, t = escrow[i].token
        PROVE  Deficit(t)' = Deficit(t) + escrow[i].amount
    BY <1>3, <1>4, <2>1, <2>2, <2>3
  <2>4. ASSUME NEW t \in TokenIds, t # escrow[i].token
        PROVE  Deficit(t)' = Deficit(t)
    BY <1>3, <1>4, <2>1, <2>2, <2>4
  <2>5. QED BY <2>2, <2>3, <2>4, Zenon DEF Leak
<1>7. QED BY <1>5, <1>6, MoneyStep

\* Over all operations and their interleavings the contract comes to hold less
\* than it owes only by a verdict on a single escrow already paid out, and then
\* exactly its amount is missing.
THEOREM LeaksByArbitration == Spec => OnlyArbitrationLeaks
<1>1. MarketInv /\ [Next]_vars => [Leak]_vars
  BY LeakStep
<1>2. QED BY <1>1, MarketSound, PTL DEF Spec, OnlyArbitrationLeaks, Leak

\* In every behaviour in which no judge speaks on a single escrow that is no longer
\* open, the contract always holds exactly what it owes.
THEOREM SolventUnlessPaidAgain ==
  Spec /\ [][\A i \in Ids : ~PaysAgain(i)]_vars => []Solvency
<1>1. Init => Solvency
  <2> SUFFICES ASSUME Init, NEW t \in TokenIds PROVE Deficit(t) = 0
    BY DEF Solvency
  <2>1. OpenOf(escrow, t) = {} /\ OpenOf(multisig, t) = {}
    BY DEF Init, OpenOf, IsOpen
  <2>2. Held(escrow, t) = 0 /\ Held(multisig, t) = 0
    BY <2>1, TotalEmpty DEF Held
  <2>3. Owed(t) = 0 /\ balance[t][Vault] = 0
    BY <2>2, OwedIsHeld, HoldersFact DEF Init
  <2>4. QED BY <2>3 DEF Deficit
<1>2. ASSUME MarketInv, Solvency, [Next]_vars, [\A i \in Ids : ~PaysAgain(i)]_vars
      PROVE  Solvency'
  <2>1. CASE UNCHANGED vars
    <3>1. \A t \in TokenIds : Deficit(t)' = Deficit(t)
      BY <2>1 DEF vars, funds, records, Deficit, Owed, IsOpen, EscrowWorth, MultisigWorth
    <3>2. QED BY <1>2, <3>1 DEF Solvency
  <2>2. CASE \A i \in Ids : ~PaysAgain(i)
    <3>1. \A t \in TokenIds : Deficit(t)' = Deficit(t)
      BY <1>2, <2>2, LeakStep DEF Leak
    <3>2. QED BY <1>2, <3>1 DEF Solvency
  <2>3. QED BY <1>2, <2>1, <2>2
<1>3. QED BY <1>1, <1>2, MarketSound, PTL DEF Spec

\* A contract that is solvent can pay every escrow it still owes, of either kind,
\* in full: a release, refund, expiry or verdict on an open escrow then never fails
\* for want of money. (When it is not solvent the last to be paid may find the
\* vault empty.)
THEOREM SolventCanPay ==
  Spec => [](Solvency => \A i \in Ids :
               /\ IsOpen(escrow[i]) =>
                    CanTransfer(balance[escrow[i].token], Vault, escrow[i].amount)
               /\ IsOpen(multisig[i]) =>
                    CanTransfer(balance[multisig[i].token], Vault, multisig[i].amount))
<1>1. ASSUME MarketInv, Solvency, NEW t \in TokenIds
      PROVE  /\ Held(escrow, t) \in Nat /\ Held(multisig, t) \in Nat
             /\ balance[t][Vault] = Held(escrow, t) + Held(multisig, t)
  <2>1. Held(escrow, t) \in Nat /\ Held(multisig, t) \in Nat
    BY <1>1, HeldIsNat DEF MarketInv
  <2>2. balance[t][Vault] \in Nat
    BY <1>1, HoldersFact DEF MarketInv, TypeOK
  <2>3. Owed(t) - balance[t][Vault] = 0 /\ Owed(t) = Held(escrow, t) + Held(multisig, t)
    BY <1>1, OwedIsHeld DEF Solvency, Deficit
  <2>4. QED BY <2>1, <2>2, <2>3
<1>2. ASSUME NEW f, FiniteIn(f), NEW i \in Ids, IsOpen(f[i]), f[i].token \in TokenIds,
             f[i].amount \in Nat
      PROVE  f[i].amount <= Held(f, f[i].token)
  <2> DEFINE t == f[i].token
  <2>1. i \in OpenOf(f, t) /\ WorthOf(f)[i] = f[i].amount
    BY <1>2 DEF OpenOf, WorthOf, IsOpen
  <2>2. IsFiniteSet(Units(OpenOf(f, t), WorthOf(f)))
    BY <1>2 DEF FiniteIn
  <2>3. WorthOf(f)[i] <= Total(OpenOf(f, t), WorthOf(f))
    BY <1>2, <2>1, <2>2, TotalCovers
  <2>4. QED BY <2>1, <2>3 DEF Held
<1>3. ASSUME MarketInv, Solvency, NEW i \in Ids
      PROVE  /\ IsOpen(escrow[i]) =>
                  CanTransfer(balance[escrow[i].token], Vault, escrow[i].amount)
             /\ IsOpen(multisig[i]) =>
                  CanTransfer(balance[multisig[i].token], Vault, multisig[i].amount)
  <2>1. ASSUME IsOpen(escrow[i])
        PROVE  CanTransfer(balance[escrow[i].token], Vault, escrow[i].amount)
    <3>1. escrow[i].token \in TokenIds /\ escrow[i].amount \in Nat
      BY <1>3, <2>1, SingleFields DEF MarketInv, TypeOK, IsOpen
    <3>2. escrow[i].amount <= Held(escrow, escrow[i].token)
      BY <1>2, <1>3, <2>1, <3>1 DEF MarketInv
    <3>3. QED BY <1>1, <1>3, <3>1, <3>2 DEF CanTransfer
  <2>2. ASSUME IsOpen(multisig[i])
        PROVE  CanTransfer(balance[multisig[i].token], Vault, multisig[i].amount)
    <3>1. multisig[i].token \in TokenIds /\ multisig[i].amount \in Nat
      BY <1>3, <2>2, MultisigFields DEF MarketInv, TypeOK, IsOpen
    <3>2. multisig[i].amount <= Held(multisig, multisig[i].token)
      BY <1>2, <1>3, <2>2, <3>1 DEF MarketInv
    <3>3. QED BY <1>1, <1>3, <3>1, <3>2 DEF CanTransfer
  <2>3. QED BY <2>1, <2>2
<1>4. MarketInv =>
        (Solvency => \A i \in Ids :
           /\ IsOpen(escrow[i]) =>
                CanTransfer(balance[escrow[i].token], Vault, escrow[i].amount)
           /\ IsOpen(multisig[i]) =>
                CanTransfer(balance[multisig[i].token], Vault, multisig[i].amount))
  BY <1>3
<1>5. QED BY <1>4, MarketSound, PTL

\* A multi-signature escrow that is open, once the step is taken: who is paid when
\* it ends, and on whose word.
MultisigAfter(i) ==
  /\ multisig'[i].cancelled => Gains(multisig[i], multisig[i].from, multisig[i].amount)
  /\ multisig'[i].released =>
       /\ Gains(multisig[i], multisig[i].to, multisig[i].amount)
       /\ \/ Approved(multisig'[i]) /\ multisig'[i].approvals \subseteq Signers(multisig[i])
          \/ Speaks(i)

\* What a step does to the multi-signature escrows: nothing, or it creates one, or
\* it is about one that is open, and in either case the contract is not paused.
LEMMA MultisigSteps ==
  ASSUME MarketInv, [Next]_vars
  PROVE  \/ UNCHANGED multisig
         \/ /\ ~paused
            /\ \E i \in Ids : /\ Others(multisig, multisig', i)
                              /\ \/ multisig[i] = None
                                 \/ IsOpen(multisig[i]) /\ MultisigAfter(i)
<1>1. FundsType /\ AccessType /\ FiniteIn(escrow) /\ Signed
  BY TypeParts DEF MarketInv
<1>2. ASSUME UNCHANGED funds PROVE UNCHANGED multisig
  BY <1>2 DEF funds, records
<1>3. ASSUME NEW c \in Accounts, NEW d \in Accounts, NEW t \in TokenIds, NEW a \in Amounts,
             Tip(c, d, t, a)
      PROVE  UNCHANGED multisig
  BY <1>3 DEF Tip, records
<1>4. ASSUME NEW i \in Ids, NEW c \in Accounts, NEW d \in Accounts, NEW t \in TokenIds,
             NEW a \in Amounts, NEW e \in Time, CreateEscrow(i, c, d, t, a, e)
      PROVE  UNCHANGED multisig
  BY <1>4 DEF CreateEscrow
<1>5. ASSUME NEW i \in Ids, NEW c \in Accounts, NEW d \in Accounts, NEW t \in TokenIds,
             NEW a \in Amounts, NEW e \in Time, NEW s \in Seq(Accounts), NEW n \in Nat,
             CreateMultisigEscrow(i, c, d, t, a, e, s, n)
      PROVE  /\ ~paused
             /\ Others(multisig, multisig', i) /\ multisig[i] = None
  BY <1>1, <1>5, CreateMultisigDoes DEF Opens
<1>6. ASSUME NEW i \in Ids, NEW c \in Accounts, ApproveMultisigRelease(i, c)
      PROVE  /\ ~paused
             /\ Others(multisig, multisig', i) /\ IsOpen(multisig[i]) /\ MultisigAfter(i)
  <2>1. /\ ~paused /\ IsOpen(multisig[i]) /\ Others(multisig, multisig', i)
        /\ ~multisig'[i].cancelled
        /\ multisig'[i].approvals = multisig[i].approvals \cup {c}
        /\ \E k \in 1 .. Len(multisig[i].signers) : multisig[i].signers[k] = c
        /\ multisig'[i].released =>
             /\ Approved(multisig'[i])
             /\ Gains(multisig[i], multisig[i].to, multisig[i].amount)
    BY <1>1, <1>6, ApproveDoes
  <2>2. multisig'[i].approvals \subseteq Signers(multisig[i])
    BY <1>1, <2>1 DEF Signed, Signers, IsOpen
  <2>3. QED BY <2>1, <2>2 DEF MultisigAfter
<1>7. ASSUME NEW i \in Ids, NEW c \in Accounts, CancelMultisigEscrow(i, c)
      PROVE  /\ ~paused
             /\ Others(multisig, multisig', i) /\ IsOpen(multisig[i]) /\ MultisigAfter(i)
  BY <1>1, <1>7, CancelMultisigDoes DEF Closes, MultisigAfter
<1>8. ASSUME NEW i \in Ids, NEW c \in Accounts, NEW w \in BOOLEAN,
             ResolveMultisigArbitration(i, c, w)
      PROVE  /\ ~paused
             /\ Others(multisig, multisig', i) /\ IsOpen(multisig[i]) /\ MultisigAfter(i)
  BY <1>1, <1>8, ResolveMultisigDoes DEF Closes, MultisigAfter
<1>9. ASSUME \/ \E i \in Ids, c \in Accounts : ReleaseEscrow(i, c)
             \/ \E i \in Ids : Refund(i)
             \/ \E i \in Ids, c, j \in Accounts, f \in JudgeFees :
                  RequestArbitration(i, c, j, f) \/ RequestMultisigArbitration(i, c, j, f)
             \/ \E i \in Ids, c \in Accounts, w \in BOOLEAN : ResolveArbitration(i, c, w)
             \/ \E c \in Accounts, ids \in SUBSET Ids : BatchReleaseEscrow(c, ids)
      PROVE  UNCHANGED multisig
  BY <1>9, Zenon
     DEF ReleaseEscrow, Refund, RequestArbitration, RequestMultisigArbitration,
         ResolveArbitration, BatchReleaseEscrow
<1>10. QED
  BY <1>2, <1>3, <1>4, <1>5, <1>6, <1>7, <1>8, <1>9, StepCases, Zenon

\* A multi-signature escrow ends once, whatever becomes of the arbitration record
\* that a single escrow with the same id may replace.
THEOREM MultisigsEndOnce == Spec => MultisigEndsOnce
<1> DEFINE Kept == \A i \in Ids :
                     multisig[i] # None /\ ~IsOpen(multisig[i]) => multisig'[i] = multisig[i]
<1>1. MarketInv /\ [Next]_vars => [Kept]_vars
  BY MultisigSteps DEF Others
<1>2. QED BY <1>1, MarketSound, PTL DEF Spec, MultisigEndsOnce

\* Only enough different signers of its list, or the judge on its arbitration
\* record, release a multi-signature escrow.
THEOREM QuorumReleases == Spec => ReleasedByQuorum
<1> DEFINE Quorate ==
      \A i \in Ids :
        multisig[i] # None /\ ~multisig[i].released /\ multisig'[i].released =>
          \/ /\ Approved(multisig'[i])
             /\ multisig'[i].approvals \subseteq
                  {multisig[i].signers[k] : k \in 1 .. Len(multisig[i].signers)}
          \/ Speaks(i)
<1>1. ASSUME MarketInv, [Next]_vars PROVE Quorate
  BY <1>1, MultisigSteps DEF Others, MultisigAfter, Signers
<1>2. MarketInv /\ [Next]_vars => [Quorate]_vars
  BY <1>1
<1>3. QED BY <1>2, MarketSound, PTL DEF Spec, ReleasedByQuorum

\* A single escrow, once the step is taken: none is created during a pause, and who
\* is paid when one that was open ends.
SingleAfter(i) ==
  /\ paused /\ IsOpen(escrow'[i]) => IsOpen(escrow[i])
  /\ IsOpen(escrow[i]) =>
       /\ escrow'[i].cancelled => Gains(escrow[i], escrow[i].from, escrow[i].amount)
       /\ escrow'[i].released =>
            Gains(escrow[i], escrow[i].to,
                  escrow[i].amount - Fee(escrow[i].amount, MaxFeeBps))

LEMMA SingleSteps ==
  ASSUME MarketInv, [Next]_vars
  PROVE  \A i \in Ids : SingleAfter(i)
<1>1. FundsType /\ AccessType /\ FiniteIn(escrow)
  BY TypeParts DEF MarketInv
<1>2. \A i \in Ids : escrow'[i] = escrow[i] => SingleAfter(i)
  BY DEF SingleAfter, IsOpen
<1>3. ASSUME UNCHANGED escrow PROVE \A i \in Ids : SingleAfter(i)
  BY <1>2, <1>3
<1>4. ASSUME NEW i \in Ids, Others(escrow, escrow', i), SingleAfter(i)
      PROVE  \A j \in Ids : SingleAfter(j)
  BY <1>2, <1>4 DEF Others
<1>5. ASSUME NEW i \in Ids, IsOpen(escrow[i]),
             Gains(escrow[i], escrow[i].to, escrow[i].amount)
      PROVE  Gains(escrow[i], escrow[i].to,
                   escrow[i].amount - Fee(escrow[i].amount, MaxFeeBps))
  <2> DEFINE fee == Fee(escrow[i].amount, MaxFeeBps)
             before == balance[escrow[i].token][escrow[i].to]
             after  == balance'[escrow[i].token][escrow[i].to]
             n == escrow[i].amount
  <2>1. /\ n \in Nat /\ escrow[i].token \in TokenIds /\ escrow[i].to \in Accounts
    BY <1>1, <1>5, SingleFields DEF FundsType, IsOpen
  <2>2. fee \in Nat
    <3>1. MaxFeeBps \in 0 .. MaxFeeBps
      BY DEF MaxFeeBps
    <3>2. QED BY <2>1, <3>1, FeeBounds
  <2>3. before \in Nat /\ after \in Nat
    <3>1. balance \in Ledgers /\ balance' \in Ledgers
      BY <1>1, MoneyStep DEF FundsType
    <3>2. QED BY <2>1, <3>1, HoldersFact DEF Ledgers
  <2>4. after >= before + n
    BY <1>5 DEF Gains
  <2> HIDE DEF fee, before, after, n
  <2>5. after >= before + (n - fee)
    BY <2>1, <2>2, <2>3, <2>4
  <2>6. QED BY <2>5 DEF Gains, fee, before, after, n
<1>6. ASSUME NEW i \in Ids, NEW c \in Accounts, NEW d \in Accounts, NEW t \in TokenIds,
             NEW a \in Amounts, NEW e \in Time, CreateEscrow(i, c, d, t, a, e)
      PROVE  Others(escrow, escrow', i) /\ SingleAfter(i)
  BY <1>1, <1>6, CreateDoes DEF Opens, SingleAfter, IsOpen
<1>7. ASSUME NEW i \in Ids, NEW c \in Accounts, ReleaseEscrow(i, c)
      PROVE  Others(escrow, escrow', i) /\ SingleAfter(i)
  BY <1>1, <1>7, ReleaseDoes DEF Closes, SingleAfter
<1>8. ASSUME NEW i \in Ids, IsOpen(escrow[i]), Refund(i)
      PROVE  Others(escrow, escrow', i) /\ SingleAfter(i)
  BY <1>1, <1>8, RefundDoes DEF Closes, SingleAfter
<1>9. ASSUME NEW i \in Ids, NEW c \in Accounts, NEW j \in Accounts, NEW f \in JudgeFees,
             RequestArbitration(i, c, j, f)
      PROVE  Others(escrow, escrow', i) /\ SingleAfter(i)
  BY <1>1, <1>9, RequestDoes DEF RequestArbitration, SingleAfter
<1>10. ASSUME NEW i \in Ids, NEW c \in Accounts, NEW w \in BOOLEAN, ResolveArbitration(i, c, w)
       PROVE  Others(escrow, escrow', i) /\ SingleAfter(i)
  BY <1>1, <1>5, <1>10, ResolveDoes DEF SingleAfter
<1>11. ASSUME NEW c \in Accounts, NEW ids \in SUBSET Ids, BatchReleaseEscrow(c, ids)
       PROVE  \A i \in Ids : SingleAfter(i)
  <2>1. \A i \in Ids :
          /\ escrow'[i] = escrow[i] \/ ~IsOpen(escrow'[i])
          /\ IsOpen(escrow[i]) =>
               /\ ~escrow'[i].cancelled
               /\ escrow'[i].released => Gains(escrow[i], escrow[i].to, escrow[i].amount)
    BY <1>1, <1>11, BatchDoes
  <2>2. QED BY <1>5, <2>1 DEF SingleAfter
<1>12. CASE UNCHANGED funds
  BY <1>3, <1>12 DEF funds, records
<1>13. ASSUME NEW c \in Accounts, NEW d \in Accounts, NEW t \in TokenIds, NEW a \in Amounts,
              Tip(c, d, t, a)
       PROVE  \A i \in Ids : SingleAfter(i)
  BY <1>3, <1>13 DEF Tip, records
<1>14. ASSUME NEW i \in Ids, NEW c \in Accounts, NEW d \in Accounts, NEW t \in TokenIds,
              NEW a \in Amounts, NEW e \in Time, NEW s \in Seq(Accounts), NEW n \in Nat,
              CreateMultisigEscrow(i, c, d, t, a, e, s, n)
       PROVE  UNCHANGED escrow
  BY <1>14 DEF CreateMultisigEscrow, LockMultisig
<1>15. ASSUME NEW i \in Ids, NEW c \in Accounts,
              \/ ApproveMultisigRelease(i, c) \/ CancelMultisigEscrow(i, c)
              \/ \E j \in Accounts, f \in JudgeFees : RequestMultisigArbitration(i, c, j, f)
              \/ \E w \in BOOLEAN : ResolveMultisigArbitration(i, c, w)
       PROVE  UNCHANGED escrow
  BY <1>15
     DEF ApproveMultisigRelease, Approve, CancelMultisigEscrow, RequestMultisigArbitration,
         ResolveMultisigArbitration, CloseMultisig
<1>16. QED
  BY <1>3, <1>4, <1>6, <1>7, <1>8, <1>9, <1>10, <1>11, <1>12, <1>13, <1>14, <1>15, StepCases,
     Zenon

\* Whoever an open escrow of either kind ends in favour of is paid in that step.
THEOREM ClosingAlwaysPays == Spec => ClosingPays
<1> DEFINE
      MultisigPays(i) ==
        IsOpen(multisig[i]) =>
          /\ multisig'[i].cancelled =>
               Gains(multisig[i], multisig[i].from, multisig[i].amount)
          /\ multisig'[i].released =>
               Gains(multisig[i], multisig[i].to, multisig[i].amount)
      Pays ==
        \A i \in Ids :
          /\ IsOpen(escrow[i]) =>
               /\ escrow'[i].cancelled => Gains(escrow[i], escrow[i].from, escrow[i].amount)
               /\ escrow'[i].released =>
                    Gains(escrow[i], escrow[i].to,
                          escrow[i].amount - Fee(escrow[i].amount, MaxFeeBps))
          /\ MultisigPays(i)
<1>1. ASSUME MarketInv, [Next]_vars, NEW i \in Ids PROVE MultisigPays(i)
  BY <1>1, MultisigSteps DEF Others, MultisigAfter, IsOpen
<1>2. ASSUME MarketInv, [Next]_vars PROVE Pays
  <2> HIDE DEF MultisigPays
  <2>1. QED BY <1>1, <1>2, SingleSteps DEF SingleAfter
<1>3. MarketInv /\ [Next]_vars => [Pays]_vars
  BY <1>2
<1>4. QED BY <1>3, MarketSound, PTL DEF Spec, ClosingPays

\* While the contract is paused money moves by verdicts on single escrows only.
THEOREM PauseFreezesAllElse == Spec => PauseLeavesOnlyArbitration
<1> DEFINE Frozen ==
      paused =>
        /\ UNCHANGED multisig
        /\ \A i \in Ids : IsOpen(escrow'[i]) => IsOpen(escrow[i])
        /\ \A t \in TokenIds :
             balance'[t][Vault] # balance[t][Vault] => \E i \in Ids : Speaks(i)
<1>1. ASSUME MarketInv, [Next]_vars, paused PROVE VaultKeeps \/ \E i \in Ids : Speaks(i)
  <2>1. FundsType /\ AccessType
    BY <1>1, TypeParts DEF MarketInv
  <2>2. CASE UNCHANGED funds
    BY <2>2 DEF funds, VaultKeeps
  <2>3. CASE \E i \in Ids, c, j \in Accounts, f \in JudgeFees : RequestArbitration(i, c, j, f)
    BY <2>1, <2>3, RequestDoes
  <2>4. CASE \E i \in Ids, c \in Accounts, w \in BOOLEAN : ResolveArbitration(i, c, w)
    BY <2>1, <2>4, ResolveDoes
  <2>5. QED
    BY <1>1, <2>2, <2>3, <2>4, StepCases, Zenon
       DEF Tip, CreateEscrow, CreateMultisigEscrow, ReleaseEscrow, BatchReleaseEscrow,
           ApproveMultisigRelease, CancelMultisigEscrow, RequestMultisigArbitration,
           ResolveMultisigArbitration
<1>2. ASSUME MarketInv, [Next]_vars PROVE Frozen
  BY <1>1, <1>2, MultisigSteps, SingleSteps DEF SingleAfter, VaultKeeps
<1>3. MarketInv /\ [Next]_vars => [Frozen]_vars
  BY <1>2
<1>4. QED BY <1>3, MarketSound, PTL DEF Spec, PauseLeavesOnlyArbitration
=============================================================================
