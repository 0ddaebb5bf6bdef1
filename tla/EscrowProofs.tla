---------------------------- MODULE EscrowProofs ----------------------------
(***************************************************************************)
(* Proofs about the escrow contract, for any number of accounts, tokens,   *)
(* escrows and amounts.                                                    *)
(***************************************************************************)
EXTENDS Escrow, TokenProofs

\* What an account can call, one disjunct an operation.
LEMMA CallCases ==
  ASSUME NEW c \in Accounts, Call(c)
  PROVE  \/ Initialize(c)
         \/ \E a \in Accounts, r \in Roles : GrantRole(c, r, a) \/ RevokeRole(c, r, a)
         \/ Pause(c) \/ Unpause(c)
         \/ \E v \in 1 .. MaxSchema : Migrate(c, v)
         \/ \E b \in Accounts, t \in TokenIds, i \in Ids, a \in Amounts, e \in Time :
              CreateEscrow(c, b, t, i, a, e)
         \/ \E i \in Ids : ReleaseEscrow(c, i)
         \/ \E i \in Ids : CancelEscrow(c, i)
         \/ \E i \in Ids : DisputeEscrow(c, i)
         \/ \E i \in Ids, b \in BOOLEAN : ResolveDispute(c, i, b)
<1>1. CASE AdminCall(c)
  <2>1. ASSUME NEW g \in Grants, GrantRole(c, g[1], g[2]) \/ RevokeRole(c, g[1], g[2])
        PROVE  \E r \in Roles, a \in Accounts : GrantRole(c, r, a) \/ RevokeRole(c, r, a)
    BY <2>1, ConstantsOK DEF ConstantsOK
  <2>2. QED BY <1>1, <2>1 DEF AdminCall
<1>2. CASE \E i \in Ids : CallOn(c, i)
  <2>1. ASSUME NEW i \in Ids, Deposit(c, i)
        PROVE  \E b \in Accounts, t \in TokenIds, a \in Amounts, e \in Time :
                 CreateEscrow(c, b, t, i, a, e)
    <3>1. PICK p \in Parties, t \in TokenIds, a \in Amounts, e \in Time :
            CreateEscrow(c, p[2], t, i, a, e)
      BY <2>1 DEF Deposit
    <3>2. p[2] \in Accounts
      BY ConstantsOK DEF ConstantsOK
    <3>3. QED BY <3>1, <3>2
  <2>2. QED BY <1>2, <2>1 DEF CallOn
<1>3. QED BY <1>1, <1>2 DEF Call

\* The steps of the contract, one disjunct an operation: the other proofs split
\* a step along it.
LEMMA StepCases ==
  ASSUME [Next]_vars
  PROVE  \/ \E c \in Accounts : Initialize(c)
         \/ \E c, a \in Accounts, r \in Roles : GrantRole(c, r, a) \/ RevokeRole(c, r, a)
         \/ \E c \in Accounts : Pause(c) \/ Unpause(c)
         \/ \E c \in Accounts, v \in 1 .. MaxSchema : Migrate(c, v)
         \/ \E d, b \in Accounts, t \in TokenIds, i \in Ids, a \in Amounts, e \in Time :
              CreateEscrow(d, b, t, i, a, e)
         \/ \E c \in Accounts, i \in Ids : ReleaseEscrow(c, i)
         \/ \E c \in Accounts, i \in Ids : CancelEscrow(c, i)
         \/ \E c \in Accounts, i \in Ids : DisputeEscrow(c, i)
         \/ \E c \in Accounts, i \in Ids, b \in BOOLEAN : ResolveDispute(c, i, b)
         \/ Tick
         \/ UNCHANGED vars
BY CallCases DEF Next

\* The fields of a stored record.
LEMMA RecordFields ==
  ASSUME NEW r \in EscrowRecord
  PROVE  /\ r.depositor \in Accounts /\ r.beneficiary \in Accounts
         /\ r.token \in TokenIds /\ r.expiry \in Time /\ r.state \in EscrowState
         /\ r.amount \in Nat /\ r.amount > 0
<1>1. Amounts \subseteq Int
  BY ConstantsOK DEF ConstantsOK
<1>2. r.amount \in {a \in Amounts : a > 0}
  BY DEF EscrowRecord
<1>3. r.amount \in Int /\ r.amount > 0
  BY <1>1, <1>2
<1>4. r.amount \in Nat
  BY <1>3
<1>5. QED BY <1>3, <1>4 DEF EscrowRecord

\* What a payment leaves behind, whoever asked for it.
LEMMA PayOutType ==
  ASSUME TypeOK, NEW i \in Ids, escrow[i] # Absent, NEW s \in EscrowState,
         NEW to \in Accounts, PayOut(i, s, to)
  PROVE  TypeOK'
<1>1. escrow[i] \in EscrowRecord
  BY DEF TypeOK
<1>2. escrow' \in [Ids -> EscrowRecord \cup {Absent}]
  BY <1>1 DEF TypeOK, PayOut, EscrowRecord
<1>3. /\ escrow[i].token \in TokenIds
      /\ escrow[i].amount \in Nat
  BY <1>1, RecordFields
<1>4. Transferred(balance[escrow[i].token], Vault, to, escrow[i].amount)
        \in [Holders -> Nat]
  BY <1>3, TransferType DEF TypeOK, PayOut, Holders
<1>5. balance' \in [TokenIds -> [Holders -> Nat]]
  BY <1>3, <1>4 DEF TypeOK, PayOut
<1>6. QED BY <1>2, <1>5 DEF TypeOK, PayOut, access

\* The initial state is well formed.
LEMMA InitType == Init => TypeOK
<1>1. ASSUME Init PROVE escrowList \in Seq(Ids)
  BY <1>1 DEF Init
<1>2. ASSUME Init PROVE balance \in [TokenIds -> [Holders -> Nat]]
  BY <1>2, ConstantsOK DEF ConstantsOK, Init
<1>3. ASSUME Init PROVE now \in Time /\ schemaVersion \in Nat
  BY <1>3, ConstantsOK DEF ConstantsOK, Init, Time
<1>4. QED BY <1>1, <1>2, <1>3 DEF Init, TypeOK

\* Every record the contract stores is well formed and no ledger goes negative.
THEOREM TypeCorrect == Spec => []TypeOK
<1>1. Init => TypeOK
  BY InitType
<1>2. TypeOK /\ [Next]_vars => TypeOK'
  <2> SUFFICES ASSUME TypeOK, [Next]_vars PROVE TypeOK'
    OBVIOUS
  <2>1. ASSUME NEW c \in Accounts, Initialize(c) PROVE TypeOK'
    BY <2>1 DEF TypeOK, Initialize, funds, Roles
  <2>2. ASSUME NEW c \in Accounts, NEW a \in Accounts, NEW r \in Roles,
               GrantRole(c, r, a) \/ RevokeRole(c, r, a)
        PROVE  TypeOK'
    BY <2>2 DEF TypeOK, GrantRole, RevokeRole, Granted, Revoked, funds
  <2>3. ASSUME NEW c \in Accounts, Pause(c) \/ Unpause(c) PROVE TypeOK'
    BY <2>3 DEF TypeOK, Pause, Unpause, funds
  <2>4. ASSUME NEW c \in Accounts, NEW v \in 1 .. MaxSchema, Migrate(c, v)
        PROVE  TypeOK'
    BY <2>4, ConstantsOK DEF ConstantsOK, TypeOK, Migrate, funds
  <2>5. ASSUME NEW d \in Accounts, NEW b \in Accounts, NEW t \in TokenIds,
               NEW i \in Ids, NEW a \in Amounts, NEW e \in Time,
               CreateEscrow(d, b, t, i, a, e)
        PROVE  TypeOK'
    <3>1. a \in Nat /\ a > 0
      BY <2>5, ConstantsOK DEF ConstantsOK, CreateEscrow
    <3>2. escrow' \in [Ids -> EscrowRecord \cup {Absent}]
      BY <2>5, <3>1 DEF TypeOK, CreateEscrow, LockFunds, EscrowRecord, EscrowState
    <3>3. Transferred(balance[t], d, Vault, a) \in [Holders -> Nat]
      BY <2>5, <3>1, TransferType DEF TypeOK, CreateEscrow, LockFunds, Holders
    <3>4. balance' \in [TokenIds -> [Holders -> Nat]]
      BY <2>5, <3>3 DEF TypeOK, CreateEscrow, LockFunds
    <3>5. escrowList' \in Seq(Ids)
      BY <2>5 DEF TypeOK, CreateEscrow, LockFunds
    <3>6. QED BY <2>5, <3>2, <3>4, <3>5 DEF TypeOK, CreateEscrow, LockFunds, access
  <2>6. ASSUME NEW c \in Accounts, NEW i \in Ids, ReleaseEscrow(c, i) PROVE TypeOK'
    BY <2>6, PayOutType DEF ReleaseEscrow, InState, TypeOK, EscrowRecord, EscrowState
  <2>7. ASSUME NEW c \in Accounts, NEW i \in Ids, CancelEscrow(c, i) PROVE TypeOK'
    BY <2>7, PayOutType DEF CancelEscrow, InState, TypeOK, EscrowRecord, EscrowState
  <2>8. ASSUME NEW c \in Accounts, NEW i \in Ids, DisputeEscrow(c, i) PROVE TypeOK'
    BY <2>8 DEF TypeOK, DisputeEscrow, InState, EscrowRecord, EscrowState, access
  <2>9. ASSUME NEW c \in Accounts, NEW i \in Ids, NEW b \in BOOLEAN,
               ResolveDispute(c, i, b)
        PROVE  TypeOK'
    BY <2>9, PayOutType DEF ResolveDispute, InState, TypeOK, EscrowRecord, EscrowState
  <2>10. CASE Tick
    BY <2>10, ConstantsOK DEF ConstantsOK, TypeOK, Tick, Time, funds, access
  <2>11. CASE UNCHANGED vars
    BY <2>11 DEF TypeOK, vars, funds, access
  <2>12. QED
    BY <2>1, <2>2, <2>3, <2>4, <2>5, <2>6, <2>7, <2>8, <2>9, <2>10, <2>11, StepCases
<1>3. QED BY <1>1, <1>2, PTL DEF Spec

-----------------------------------------------------------------------------
(* Solvency *)

\* Solvency is inductive together with the types and the fact that the sums it
\* speaks of are finite (there may be infinitely many ids).
CustodyInv ==
  /\ TypeOK
  /\ \A t \in TokenIds : IsFiniteSet(Units(OpenIn(t), Worth))
  /\ Solvency

\* Only what happens to the records and the ledgers matters to solvency.
LEMMA CustodyFrame ==
  ASSUME CustodyInv, TypeOK', UNCHANGED <<escrow, balance>>
  PROVE  CustodyInv'
BY DEF CustodyInv, Solvency, OpenIn, Open, InState, Worth

\* A new escrow adds to the vault what it adds to the open escrows' worth.
LEMMA CreateCustody ==
  ASSUME CustodyInv, TypeOK', NEW d \in Accounts, NEW b \in Accounts,
         NEW tk \in TokenIds, NEW i \in Ids, NEW a \in Amounts, NEW e \in Time,
         CreateEscrow(d, b, tk, i, a, e)
  PROVE  CustodyInv'
<1>1. /\ a \in Nat /\ a > 0 /\ d # Vault /\ d \in Holders /\ Vault \in Holders
  <2>1. Amounts \subseteq Int /\ Vault \notin Accounts
    BY ConstantsOK DEF ConstantsOK
  <2>2. QED BY <2>1 DEF CreateEscrow, Holders
<1>2. Absent \notin EscrowRecord
  BY ConstantsOK DEF ConstantsOK
<1>3. escrow'[i] \in EscrowRecord
  BY <1>1 DEF CreateEscrow, LockFunds, CustodyInv, TypeOK, EscrowRecord, EscrowState
<1>4. /\ escrow[i] = Absent
      /\ escrow'[i] # Absent
      /\ escrow'[i].state = "Active" /\ escrow'[i].token = tk /\ escrow'[i].amount = a
      /\ \A j \in Ids \ {i} : escrow'[j] = escrow[j]
  BY <1>2, <1>3 DEF CreateEscrow, LockFunds, CustodyInv, TypeOK
<1>5. /\ Worth'[i] = a
      /\ \A j \in Ids \ {i} : Worth'[j] = Worth[j]
  BY <1>4 DEF Worth
<1>6. ASSUME NEW t \in TokenIds
      PROVE  /\ IsFiniteSet(Units(OpenIn(t), Worth)')
             /\ balance'[t][Vault] = Total(OpenIn(t), Worth)'
  <2>1. /\ IsFiniteSet(Units(OpenIn(t), Worth))
        /\ balance[t][Vault] = Total(OpenIn(t), Worth)
    BY DEF CustodyInv, Solvency
  <2>2. i \notin OpenIn(t) /\ OpenIn(t) \subseteq Ids
    BY <1>4 DEF OpenIn, Open, InState
  <2>3. \A j \in OpenIn(t) : Worth'[j] = Worth[j]
    BY <1>5, <2>2
  <2>4. CASE t = tk
    <3>1. OpenIn(t)' = OpenIn(t) \cup {i}
      BY <1>4, <2>4 DEF OpenIn, Open, InState
    <3>2. /\ IsFiniteSet(Units(OpenIn(t) \cup {i}, Worth'))
          /\ Total(OpenIn(t) \cup {i}, Worth') = Total(OpenIn(t), Worth) + Worth'[i]
      <4>1. Worth'[i] \in Nat
        BY <1>1, <1>5
      <4>2. QED BY <2>1, <2>2, <2>3, <4>1, TotalAdd
    <3>3. balance'[t][Vault] = balance[t][Vault] + a
      <4>1. balance[t] \in [Holders -> Nat]
        BY DEF CustodyInv, TypeOK
      <4>2. balance'[t] = Transferred(balance[t], d, Vault, a)
        BY <2>4 DEF CreateEscrow, LockFunds, CustodyInv, TypeOK
      <4>3. QED BY <1>1, <4>1, <4>2, TransferMoves
    <3>4. QED BY <1>5, <2>1, <3>1, <3>2, <3>3 DEF Total
  <2>5. CASE t # tk
    <3>1. OpenIn(t)' = OpenIn(t)
      BY <1>4, <2>5 DEF OpenIn, Open, InState
    <3>2. Units(OpenIn(t), Worth') = Units(OpenIn(t), Worth)
      BY <2>3, UnitsSame
    <3>3. balance'[t] = balance[t]
      BY <2>5 DEF CreateEscrow, LockFunds, CustodyInv, TypeOK
    <3>4. QED BY <2>1, <3>1, <3>2, <3>3 DEF Total
  <2>6. QED BY <2>4, <2>5
<1>7. QED BY <1>6 DEF CustodyInv, Solvency, Total

\* Whoever is paid, and for whatever reason, an open escrow that closes takes out
\* of the vault exactly what it was worth.
LEMMA PayOutCustody ==
  ASSUME CustodyInv, TypeOK', NEW i \in Ids, Open(i), NEW to \in Accounts,
         NEW s \in {"Released", "Cancelled"}, PayOut(i, s, to)
  PROVE  CustodyInv'
<1> DEFINE tk == escrow[i].token
           a  == escrow[i].amount
<1>1. /\ escrow[i] \in EscrowRecord
      /\ Absent \notin EscrowRecord
  BY ConstantsOK DEF ConstantsOK, CustodyInv, TypeOK, Open, InState
<1>2. tk \in TokenIds /\ a \in Nat
  BY <1>1, RecordFields
<1>3. to # Vault /\ to \in Holders /\ Vault \in Holders
  BY ConstantsOK DEF ConstantsOK, Holders
<1>4. escrow'[i] \in EscrowRecord
  BY <1>1 DEF PayOut, CustodyInv, TypeOK, EscrowRecord, EscrowState
<1>5. /\ escrow'[i] # Absent /\ escrow'[i].state = s
      /\ escrow'[i].token = tk /\ escrow'[i].amount = a
      /\ \A j \in Ids \ {i} : escrow'[j] = escrow[j]
  BY <1>1, <1>4 DEF PayOut, CustodyInv, TypeOK, EscrowRecord
<1>6. Worth' = Worth /\ Worth[i] = a
  BY <1>1, <1>5 DEF Worth
<1>7. ASSUME NEW t \in TokenIds
      PROVE  /\ IsFiniteSet(Units(OpenIn(t), Worth)')
             /\ balance'[t][Vault] = Total(OpenIn(t), Worth)'
  <2>1. /\ IsFiniteSet(Units(OpenIn(t), Worth))
        /\ balance[t][Vault] = Total(OpenIn(t), Worth)
    BY DEF CustodyInv, Solvency
  <2>2. CASE t = tk
    <3>1. i \in OpenIn(t) /\ OpenIn(t)' = OpenIn(t) \ {i}
      BY <1>5, <2>2 DEF OpenIn, Open, InState
    <3>2. /\ IsFiniteSet(Units(OpenIn(t) \ {i}, Worth))
          /\ Total(OpenIn(t) \ {i}, Worth) = Total(OpenIn(t), Worth) - Worth[i]
      BY <1>2, <1>6, <2>1, <3>1, TotalRemove
    <3>3. balance'[t][Vault] = balance[t][Vault] - a
      <4>1. balance[t] \in [Holders -> Nat]
        BY DEF CustodyInv, TypeOK
      <4>2. balance'[t] = Transferred(balance[t], Vault, to, a)
        BY <2>2 DEF PayOut, CustodyInv, TypeOK
      <4> HIDE DEF a, tk
      <4>3. QED BY <1>2, <1>3, <4>1, <4>2, TransferMoves
    <3>4. QED BY <1>6, <2>1, <3>1, <3>2, <3>3 DEF Total
  <2>3. CASE t # tk
    <3>1. OpenIn(t)' = OpenIn(t)
      BY <1>5, <2>3 DEF OpenIn, Open, InState
    <3>2. balance'[t] = balance[t]
      BY <2>3 DEF PayOut, CustodyInv, TypeOK
    <3>3. QED BY <1>6, <2>1, <3>1, <3>2 DEF Total
  <2>4. QED BY <2>2, <2>3
<1>8. QED BY <1>7 DEF CustodyInv, Solvency, Total

\* The inductive invariant is one.
LEMMA CustodySound == Spec => []CustodyInv
<1>1. Init => CustodyInv
  <2> SUFFICES ASSUME Init PROVE CustodyInv
    OBVIOUS
  <2>1. TypeOK
    BY InitType
  <2>2. ASSUME NEW t \in TokenIds
        PROVE  IsFiniteSet(Units(OpenIn(t), Worth)) /\ balance[t][Vault] = Total(OpenIn(t), Worth)
    <3>1. OpenIn(t) = {}
      BY DEF Init, OpenIn, Open, InState
    <3>2. balance[t][Vault] = 0
      BY DEF Init, Holders
    <3>3. QED BY <3>1, <3>2, TotalEmpty
  <2>3. QED BY <2>1, <2>2 DEF CustodyInv, Solvency
<1>2. CustodyInv /\ TypeOK' /\ [Next]_vars => CustodyInv'
  <2> SUFFICES ASSUME CustodyInv, TypeOK', [Next]_vars PROVE CustodyInv'
    OBVIOUS
  <2>1. ASSUME NEW c \in Accounts, Initialize(c) PROVE CustodyInv'
    BY <2>1, CustodyFrame DEF Initialize, funds
  <2>2. ASSUME NEW c \in Accounts, NEW a \in Accounts, NEW r \in Roles,
               GrantRole(c, r, a) \/ RevokeRole(c, r, a)
        PROVE  CustodyInv'
    BY <2>2, CustodyFrame DEF GrantRole, RevokeRole, funds
  <2>3. ASSUME NEW c \in Accounts, Pause(c) \/ Unpause(c) PROVE CustodyInv'
    BY <2>3, CustodyFrame DEF Pause, Unpause, funds
  <2>4. ASSUME NEW c \in Accounts, NEW v \in 1 .. MaxSchema, Migrate(c, v)
        PROVE  CustodyInv'
    BY <2>4, CustodyFrame DEF Migrate, funds
  <2>5. ASSUME NEW d \in Accounts, NEW b \in Accounts, NEW t \in TokenIds,
               NEW i \in Ids, NEW a \in Amounts, NEW e \in Time,
               CreateEscrow(d, b, t, i, a, e)
        PROVE  CustodyInv'
    BY <2>5, CreateCustody
  <2>6. ASSUME NEW c \in Accounts, NEW i \in Ids, ReleaseEscrow(c, i)
        PROVE  CustodyInv'
    <3>1. Open(i) /\ escrow[i].beneficiary \in Accounts
      BY <2>6, RecordFields DEF ReleaseEscrow, Open, InState, CustodyInv, TypeOK
    <3>2. QED BY <2>6, <3>1, PayOutCustody DEF ReleaseEscrow
  <2>7. ASSUME NEW c \in Accounts, NEW i \in Ids, CancelEscrow(c, i)
        PROVE  CustodyInv'
    <3>1. Open(i) /\ escrow[i].depositor \in Accounts
      BY <2>7, RecordFields DEF CancelEscrow, Open, InState, CustodyInv, TypeOK
    <3>2. QED BY <2>7, <3>1, PayOutCustody DEF CancelEscrow
  <2>8. ASSUME NEW c \in Accounts, NEW i \in Ids, DisputeEscrow(c, i)
        PROVE  CustodyInv'
    <3>1. /\ balance' = balance
          /\ escrow'[i] # Absent /\ Open(i) /\ Open(i)'
          /\ escrow'[i].token = escrow[i].token /\ escrow'[i].amount = escrow[i].amount
          /\ \A j \in Ids \ {i} : escrow'[j] = escrow[j]
      BY <2>8, ConstantsOK
         DEF ConstantsOK, DisputeEscrow, Open, InState, CustodyInv, TypeOK, EscrowRecord,
             EscrowState
    <3>2. Worth' = Worth
      BY <3>1 DEF Worth, Open, InState
    <3>3. \A t \in TokenIds : OpenIn(t)' = OpenIn(t)
      BY <3>1 DEF OpenIn, Open, InState
    <3>4. QED BY <3>1, <3>2, <3>3 DEF CustodyInv, Solvency
  <2>9. ASSUME NEW c \in Accounts, NEW i \in Ids, NEW b \in BOOLEAN,
               ResolveDispute(c, i, b)
        PROVE  CustodyInv'
    <3>1. /\ Open(i)
          /\ escrow[i].depositor \in Accounts /\ escrow[i].beneficiary \in Accounts
      BY <2>9, RecordFields DEF ResolveDispute, Open, InState, CustodyInv, TypeOK
    <3>2. QED BY <2>9, <3>1, PayOutCustody DEF ResolveDispute
  <2>10. CASE Tick
    BY <2>10, CustodyFrame DEF Tick, funds
  <2>11. CASE UNCHANGED vars
    BY <2>11, CustodyFrame DEF vars, funds
  <2>12. QED
    BY <2>1, <2>2, <2>3, <2>4, <2>5, <2>6, <2>7, <2>8, <2>9, <2>10, <2>11, StepCases
<1>3. QED BY <1>1, <1>2, TypeCorrect, PTL DEF Spec

\* The contract always holds, of every token, exactly the worth of the open
\* escrows: what is released, cancelled, disputed and resolved in any order by
\* any callers never pays twice, short, or out of another escrow's deposit.
THEOREM AlwaysSolvent == Spec => []Solvency
<1>1. CustodyInv => Solvency
  BY DEF CustodyInv
<1>2. QED BY <1>1, CustodySound, PTL

\* The transfer that closes an escrow never fails for want of money: the token
\* contract can always move the deposit of an open escrow out of the contract, so
\* that release_escrow, cancel_escrow and resolve_dispute are refused for their
\* own checks only, never because another escrow was paid first.
THEOREM DepositsAreThere ==
  Spec => [](\A i \in Ids :
               Open(i) => CanTransfer(balance[escrow[i].token], Vault, escrow[i].amount))
<1>1. ASSUME CustodyInv, NEW i \in Ids, Open(i)
      PROVE  CanTransfer(balance[escrow[i].token], Vault, escrow[i].amount)
  <2> DEFINE t == escrow[i].token
  <2>1. escrow[i] \in EscrowRecord /\ escrow[i] # Absent
    BY <1>1 DEF CustodyInv, TypeOK, Open, InState
  <2>2. t \in TokenIds /\ Worth[i] = escrow[i].amount /\ Worth[i] \in Nat
    BY <2>1, RecordFields DEF Worth
  <2>3. i \in OpenIn(t)
    BY <1>1 DEF OpenIn
  <2>4. IsFiniteSet(Units(OpenIn(t), Worth)) /\ balance[t][Vault] = Total(OpenIn(t), Worth)
    BY <1>1, <2>2 DEF CustodyInv, Solvency
  <2>5. Worth[i] <= Total(OpenIn(t), Worth)
    BY <2>2, <2>3, <2>4, TotalCovers
  <2>6. Total(OpenIn(t), Worth) \in Nat
    BY <2>4, TotalNat
  <2>7. QED BY <2>2, <2>4, <2>5, <2>6 DEF CanTransfer
<1>2. CustodyInv => \A i \in Ids :
        Open(i) => CanTransfer(balance[escrow[i].token], Vault, escrow[i].amount)
  BY <1>1
<1>3. QED BY <1>2, CustodySound, PTL

-----------------------------------------------------------------------------
(* Wallets *)

\* What an account has put in and got out is a sum over finitely many units.
WalletsInv ==
  /\ TypeOK
  /\ \A a \in Accounts, t \in TokenIds :
       IsFiniteSet(Units(Spent(a, t), Worth)) /\ IsFiniteSet(Units(Earned(a, t), Worth))
  /\ WalletsExplained

\* Only what happens to the records and the ledgers matters to the wallets.
LEMMA WalletsFrame ==
  ASSUME WalletsInv, TypeOK', UNCHANGED <<escrow, balance>>
  PROVE  WalletsInv'
<1>1. Worth' = Worth
  BY DEF Worth
<1>2. \A a \in Accounts, t \in TokenIds :
        /\ Spent(a, t)' = Spent(a, t)
        /\ Earned(a, t)' = Earned(a, t)
  BY DEF Spent, Earned, InState
<1>3. ASSUME NEW a \in Accounts, NEW t \in TokenIds
      PROVE  /\ IsFiniteSet(Units(Spent(a, t), Worth)')
             /\ IsFiniteSet(Units(Earned(a, t), Worth)')
             /\ balance'[t][a] + Total(Spent(a, t), Worth)'
                  = Supply + Total(Earned(a, t), Worth)'
  BY <1>1, <1>2 DEF WalletsInv, WalletsExplained, Total
<1>4. QED BY <1>3 DEF WalletsInv, WalletsExplained, Total

\* A new escrow costs its depositor what it is worth, and nobody else anything.
LEMMA CreateWallets ==
  ASSUME WalletsInv, TypeOK', NEW d \in Accounts, NEW b \in Accounts,
         NEW tk \in TokenIds, NEW i \in Ids, NEW n \in Amounts, NEW e \in Time,
         CreateEscrow(d, b, tk, i, n, e)
  PROVE  WalletsInv'
<1>1. /\ n \in Nat /\ n > 0 /\ d # Vault /\ d \in Holders /\ Vault \in Holders
      /\ Vault \notin Accounts /\ Accounts \subseteq Holders
  <2>1. Amounts \subseteq Int /\ Vault \notin Accounts
    BY ConstantsOK DEF ConstantsOK
  <2>2. QED BY <2>1 DEF CreateEscrow, Holders
<1>2. Absent \notin EscrowRecord
  BY ConstantsOK DEF ConstantsOK
<1>3. escrow'[i] \in EscrowRecord
  BY <1>1 DEF CreateEscrow, LockFunds, WalletsInv, TypeOK, EscrowRecord, EscrowState
<1>4. /\ escrow[i] = Absent
      /\ escrow'[i] # Absent
      /\ escrow'[i].state = "Active" /\ escrow'[i].token = tk
      /\ escrow'[i].amount = n /\ escrow'[i].depositor = d
      /\ \A j \in Ids \ {i} : escrow'[j] = escrow[j]
  BY <1>2, <1>3 DEF CreateEscrow, LockFunds, WalletsInv, TypeOK
<1>5. /\ Worth'[i] = n
      /\ \A j \in Ids \ {i} : Worth'[j] = Worth[j]
  BY <1>4 DEF Worth
<1>6. ASSUME NEW a \in Accounts, NEW t \in TokenIds
      PROVE  /\ IsFiniteSet(Units(Spent(a, t), Worth)')
             /\ IsFiniteSet(Units(Earned(a, t), Worth)')
             /\ balance'[t][a] + Total(Spent(a, t), Worth)'
                  = Supply + Total(Earned(a, t), Worth)'
  <2>1. /\ IsFiniteSet(Units(Spent(a, t), Worth)) /\ IsFiniteSet(Units(Earned(a, t), Worth))
        /\ balance[t][a] + Total(Spent(a, t), Worth) = Supply + Total(Earned(a, t), Worth)
    BY DEF WalletsInv, WalletsExplained
  <2>2. Total(Spent(a, t), Worth) \in Nat /\ Total(Earned(a, t), Worth) \in Nat
    BY <2>1, FS_CardinalityType DEF Total
  <2>3. /\ i \notin Spent(a, t) /\ Spent(a, t) \subseteq Ids
        /\ i \notin Earned(a, t) /\ Earned(a, t) \subseteq Ids
    BY <1>4 DEF Spent, Earned, InState
  <2>4. /\ \A j \in Spent(a, t) : Worth'[j] = Worth[j]
        /\ \A j \in Earned(a, t) : Worth'[j] = Worth[j]
    BY <1>5, <2>3
  <2>5. Earned(a, t)' = Earned(a, t)
    BY <1>4 DEF Earned, InState
  <2>6. Units(Earned(a, t), Worth') = Units(Earned(a, t), Worth)
    BY <2>4, UnitsSame
  <2>7. balance[t] \in [Holders -> Nat] /\ a \in Holders /\ balance[t][a] \in Nat
    BY <1>1 DEF WalletsInv, TypeOK
  <2>8. CASE a = d /\ t = tk
    <3>1. Spent(a, t)' = Spent(a, t) \cup {i}
      BY <1>4, <2>8 DEF Spent
    <3>2. /\ IsFiniteSet(Units(Spent(a, t) \cup {i}, Worth'))
          /\ Total(Spent(a, t) \cup {i}, Worth') = Total(Spent(a, t), Worth) + Worth'[i]
      <4>1. Worth'[i] \in Nat
        BY <1>1, <1>5
      <4>2. QED BY <2>1, <2>3, <2>4, <4>1, TotalAdd
    <3>3. balance'[t][a] = balance[t][a] - n
      <4>1. balance'[t] = Transferred(balance[t], d, Vault, n)
        BY <2>8 DEF CreateEscrow, LockFunds, WalletsInv, TypeOK
      <4>2. QED BY <1>1, <2>7, <2>8, <4>1, TransferMoves
    <3>4. Total(Spent(a, t), Worth)' = Total(Spent(a, t), Worth) + n
      BY <1>5, <3>1, <3>2 DEF Total
    <3>5. Total(Earned(a, t), Worth)' = Total(Earned(a, t), Worth)
      BY <2>5, <2>6 DEF Total
    <3>6. balance'[t][a] + Total(Spent(a, t), Worth)' = Supply + Total(Earned(a, t), Worth)'
      BY <1>1, <2>1, <2>2, <2>7, <3>3, <3>4, <3>5
    <3>7. QED BY <2>1, <2>5, <2>6, <3>1, <3>2, <3>6
  <2>9. CASE ~(a = d /\ t = tk)
    <3>1. Spent(a, t)' = Spent(a, t)
      BY <1>4, <2>9 DEF Spent
    <3>2. Units(Spent(a, t), Worth') = Units(Spent(a, t), Worth)
      BY <2>4, UnitsSame
    <3>3. balance'[t][a] = balance[t][a]
      <4>1. CASE t = tk
        <5>1. balance'[t] = Transferred(balance[t], d, Vault, n)
          BY <4>1 DEF CreateEscrow, LockFunds, WalletsInv, TypeOK
        <5>2. a # d /\ a # Vault
          BY <1>1, <2>9, <4>1
        <5>3. QED BY <1>1, <2>7, <5>1, <5>2, TransferMoves
      <4>2. CASE t # tk
        BY <4>2 DEF CreateEscrow, LockFunds, WalletsInv, TypeOK
      <4>3. QED BY <4>1, <4>2
    <3>4. QED BY <2>1, <2>5, <2>6, <3>1, <3>2, <3>3 DEF Total
  <2>10. QED BY <2>8, <2>9
<1>7. QED BY <1>6 DEF WalletsInv, WalletsExplained, Total

\* An escrow that closes gives its worth to the beneficiary it is released to or
\* back to the depositor it is cancelled for, and nobody else anything.
LEMMA PayOutWallets ==
  ASSUME WalletsInv, TypeOK', NEW i \in Ids, Open(i), NEW s, NEW to,
         \/ s = "Released" /\ to = escrow[i].beneficiary
         \/ s = "Cancelled" /\ to = escrow[i].depositor,
         PayOut(i, s, to)
  PROVE  WalletsInv'
<1> DEFINE tk == escrow[i].token
           n  == escrow[i].amount
<1>1. /\ escrow[i] \in EscrowRecord
      /\ Absent \notin EscrowRecord
  BY ConstantsOK DEF ConstantsOK, WalletsInv, TypeOK, Open, InState
<1>2. tk \in TokenIds /\ n \in Nat /\ to \in Accounts
  BY <1>1, RecordFields
<1>3. /\ to # Vault /\ to \in Holders /\ Vault \in Holders
      /\ Vault \notin Accounts /\ Accounts \subseteq Holders
  BY <1>2, ConstantsOK DEF ConstantsOK, Holders
<1>4. escrow'[i] \in EscrowRecord
  BY <1>1 DEF PayOut, WalletsInv, TypeOK, EscrowRecord, EscrowState
<1>5. /\ escrow'[i] # Absent /\ escrow'[i].state = s /\ escrow[i] # Absent
      /\ escrow[i].state \in {"Active", "Disputed"}
      /\ escrow'[i].token = tk /\ escrow'[i].amount = n
      /\ escrow'[i].depositor = escrow[i].depositor
      /\ escrow'[i].beneficiary = escrow[i].beneficiary
      /\ \A j \in Ids \ {i} : escrow'[j] = escrow[j]
  BY <1>1, <1>4 DEF PayOut, WalletsInv, TypeOK, EscrowRecord, Open, InState
<1>6. Worth' = Worth /\ Worth[i] = n
  BY <1>1, <1>5 DEF Worth
<1>7. ASSUME NEW a \in Accounts, NEW t \in TokenIds
      PROVE  /\ IsFiniteSet(Units(Spent(a, t), Worth)')
             /\ IsFiniteSet(Units(Earned(a, t), Worth)')
             /\ balance'[t][a] + Total(Spent(a, t), Worth)'
                  = Supply + Total(Earned(a, t), Worth)'
  <2>1. /\ IsFiniteSet(Units(Spent(a, t), Worth)) /\ IsFiniteSet(Units(Earned(a, t), Worth))
        /\ balance[t][a] + Total(Spent(a, t), Worth) = Supply + Total(Earned(a, t), Worth)
    BY DEF WalletsInv, WalletsExplained
  <2>2. Total(Spent(a, t), Worth) \in Nat /\ Total(Earned(a, t), Worth) \in Nat
    BY <2>1, FS_CardinalityType DEF Total
  <2>3. balance[t] \in [Holders -> Nat] /\ a \in Holders /\ balance[t][a] \in Nat
    BY <1>3 DEF WalletsInv, TypeOK
  <2>4. balance'[t][a] = IF a = to /\ t = tk THEN balance[t][a] + n ELSE balance[t][a]
    <3>1. CASE t = tk
      <4>1. balance'[t] = Transferred(balance[t], Vault, to, n)
        BY <3>1 DEF PayOut, WalletsInv, TypeOK
      <4>2. a # Vault
        BY <1>3
      <4> HIDE DEF n, tk
      <4>3. QED BY <1>2, <1>3, <2>3, <3>1, <4>1, <4>2, TransferMoves
    <3>2. CASE t # tk
      BY <3>2 DEF PayOut, WalletsInv, TypeOK
    <3>3. QED BY <3>1, <3>2
  <2>5. CASE s = "Released"
    <3>1. Spent(a, t)' = Spent(a, t)
      BY <1>5, <2>5 DEF Spent
    <3>2. CASE a = to /\ t = tk
      <4>1. Earned(a, t)' = Earned(a, t) \cup {i} /\ i \notin Earned(a, t)
        BY <1>5, <2>5, <3>2 DEF Earned, InState
      <4>2. /\ IsFiniteSet(Units(Earned(a, t) \cup {i}, Worth))
            /\ Total(Earned(a, t) \cup {i}, Worth) = Total(Earned(a, t), Worth) + n
        BY <1>2, <1>6, <2>1, <4>1, TotalAdd
      <4>3. /\ balance'[t][a] = balance[t][a] + n
            /\ Total(Spent(a, t), Worth)' = Total(Spent(a, t), Worth)
            /\ Total(Earned(a, t), Worth)' = Total(Earned(a, t), Worth) + n
        BY <1>6, <2>4, <3>1, <3>2, <4>1, <4>2 DEF Total
      <4> HIDE DEF n, tk
      <4>4. balance'[t][a] + Total(Spent(a, t), Worth)' = Supply + Total(Earned(a, t), Worth)'
        BY <1>2, <2>1, <2>2, <2>3, <4>3, ConstantsOK DEF ConstantsOK
      <4>5. QED BY <1>6, <2>1, <3>1, <4>1, <4>2, <4>4
    <3>3. CASE ~(a = to /\ t = tk)
      <4>1. Earned(a, t)' = Earned(a, t)
        BY <1>5, <2>5, <3>3 DEF Earned, InState
      <4>2. QED BY <1>6, <2>1, <2>4, <3>1, <3>3, <4>1
    <3>4. QED BY <3>2, <3>3
  <2>6. CASE s = "Cancelled"
    <3>1. Earned(a, t)' = Earned(a, t)
      BY <1>5, <2>6 DEF Earned, InState
    <3>2. CASE a = to /\ t = tk
      <4>1. Spent(a, t)' = Spent(a, t) \ {i} /\ i \in Spent(a, t)
        BY <1>5, <2>6, <3>2 DEF Spent
      <4>2. /\ IsFiniteSet(Units(Spent(a, t) \ {i}, Worth))
            /\ Total(Spent(a, t) \ {i}, Worth) = Total(Spent(a, t), Worth) - n
        <5>1. Worth[i] \in Nat /\ IsFiniteSet(Units(Spent(a, t), Worth))
          BY <1>2, <1>6, <2>1
        <5>2. /\ IsFiniteSet(Units(Spent(a, t) \ {i}, Worth))
              /\ Total(Spent(a, t) \ {i}, Worth) = Total(Spent(a, t), Worth) - Worth[i]
          BY <4>1, <5>1, TotalRemove
        <5>3. QED BY <1>6, <5>2
      <4>3. /\ balance'[t][a] = balance[t][a] + n
            /\ Total(Spent(a, t), Worth)' = Total(Spent(a, t), Worth) - n
            /\ Total(Earned(a, t), Worth)' = Total(Earned(a, t), Worth)
        BY <1>6, <2>4, <3>1, <3>2, <4>1, <4>2 DEF Total
      <4> HIDE DEF n, tk
      <4>4. balance'[t][a] + Total(Spent(a, t), Worth)' = Supply + Total(Earned(a, t), Worth)'
        BY <1>2, <2>1, <2>2, <2>3, <4>3, ConstantsOK DEF ConstantsOK
      <4>5. QED BY <1>6, <2>1, <3>1, <4>1, <4>2, <4>4
    <3>3. CASE ~(a = to /\ t = tk)
      <4>1. Spent(a, t)' = Spent(a, t)
        BY <1>5, <2>6, <3>3 DEF Spent
      <4>2. QED BY <1>6, <2>1, <2>4, <3>1, <3>3, <4>1
    <3>4. QED BY <3>2, <3>3
  <2>7. QED BY <2>5, <2>6
<1>8. QED BY <1>7 DEF WalletsInv, WalletsExplained, Total

\* Every wallet is explained by the records: an account has lost what it locked
\* and did not get back, and gained what was released to it, and nothing else.
THEOREM WalletsAdd == Spec => []WalletsExplained
<1>1. Init => WalletsInv
  <2> SUFFICES ASSUME Init PROVE WalletsInv
    OBVIOUS
  <2>1. TypeOK
    BY InitType
  <2>2. ASSUME NEW a \in Accounts, NEW t \in TokenIds
        PROVE  /\ IsFiniteSet(Units(Spent(a, t), Worth)) /\ IsFiniteSet(Units(Earned(a, t), Worth))
               /\ balance[t][a] + Total(Spent(a, t), Worth) = Supply + Total(Earned(a, t), Worth)
    <3>1. Spent(a, t) = {} /\ Earned(a, t) = {}
      BY DEF Init, Spent, Earned, InState
    <3>2. balance[t][a] = Supply
      BY ConstantsOK DEF ConstantsOK, Init, Holders
    <3>3. QED BY <3>1, <3>2, TotalEmpty
  <2>3. QED BY <2>1, <2>2 DEF WalletsInv, WalletsExplained
<1>2. WalletsInv /\ TypeOK' /\ [Next]_vars => WalletsInv'
  <2> SUFFICES ASSUME WalletsInv, TypeOK', [Next]_vars PROVE WalletsInv'
    OBVIOUS
  <2>1. ASSUME NEW c \in Accounts, Initialize(c) PROVE WalletsInv'
    BY <2>1, WalletsFrame DEF Initialize, funds
  <2>2. ASSUME NEW c \in Accounts, NEW a \in Accounts, NEW r \in Roles,
               GrantRole(c, r, a) \/ RevokeRole(c, r, a)
        PROVE  WalletsInv'
    BY <2>2, WalletsFrame DEF GrantRole, RevokeRole, funds
  <2>3. ASSUME NEW c \in Accounts, Pause(c) \/ Unpause(c) PROVE WalletsInv'
    BY <2>3, WalletsFrame DEF Pause, Unpause, funds
  <2>4. ASSUME NEW c \in Accounts, NEW v \in 1 .. MaxSchema, Migrate(c, v)
        PROVE  WalletsInv'
    BY <2>4, WalletsFrame DEF Migrate, funds
  <2>5. ASSUME NEW d \in Accounts, NEW b \in Accounts, NEW t \in TokenIds,
               NEW i \in Ids, NEW a \in Amounts, NEW e \in Time,
               CreateEscrow(d, b, t, i, a, e)
        PROVE  WalletsInv'
    BY <2>5, CreateWallets
  <2>6. ASSUME NEW c \in Accounts, NEW i \in Ids, ReleaseEscrow(c, i)
        PROVE  WalletsInv'
    BY <2>6, PayOutWallets DEF ReleaseEscrow, Open
  <2>7. ASSUME NEW c \in Accounts, NEW i \in Ids, CancelEscrow(c, i)
        PROVE  WalletsInv'
    BY <2>7, PayOutWallets DEF CancelEscrow, Open
  <2>8. ASSUME NEW c \in Accounts, NEW i \in Ids, DisputeEscrow(c, i)
        PROVE  WalletsInv'
    <3>1. /\ balance' = balance
          /\ escrow[i] # Absent /\ escrow'[i] # Absent
          /\ escrow[i].state = "Active" /\ escrow'[i].state = "Disputed"
          /\ escrow'[i].token = escrow[i].token /\ escrow'[i].amount = escrow[i].amount
          /\ escrow'[i].depositor = escrow[i].depositor
          /\ \A j \in Ids \ {i} : escrow'[j] = escrow[j]
      BY <2>8, ConstantsOK
         DEF ConstantsOK, DisputeEscrow, InState, WalletsInv, TypeOK, EscrowRecord, EscrowState
    <3>2. Worth' = Worth
      BY <3>1 DEF Worth
    <3>3. \A a \in Accounts, t \in TokenIds :
            Spent(a, t)' = Spent(a, t) /\ Earned(a, t)' = Earned(a, t)
      BY <3>1 DEF Spent, Earned, InState
    <3>4. QED BY <3>1, <3>2, <3>3 DEF WalletsInv, WalletsExplained
  <2>9. ASSUME NEW c \in Accounts, NEW i \in Ids, NEW b \in BOOLEAN,
               ResolveDispute(c, i, b)
        PROVE  WalletsInv'
    <3>1. Open(i)
      BY <2>9 DEF ResolveDispute, Open
    <3>2. CASE b
      BY <2>9, <3>1, <3>2, PayOutWallets DEF ResolveDispute
    <3>3. CASE ~b
      BY <2>9, <3>1, <3>3, PayOutWallets DEF ResolveDispute
    <3>4. QED BY <3>2, <3>3
  <2>10. CASE Tick
    BY <2>10, WalletsFrame DEF Tick, funds
  <2>11. CASE UNCHANGED vars
    BY <2>11, WalletsFrame DEF vars, funds
  <2>12. QED
    BY <2>1, <2>2, <2>3, <2>4, <2>5, <2>6, <2>7, <2>8, <2>9, <2>10, <2>11, StepCases
<1>3. WalletsInv => WalletsExplained
  BY DEF WalletsInv
<1>4. QED BY TypeCorrect, <1>1, <1>2, <1>3, PTL DEF Spec

-----------------------------------------------------------------------------
(* Action properties *)

\* While the contract is paused no record, no list entry and no ledger changes.
THEOREM PausedMoneyStays == Spec => PauseFreezes
<1>1. [Next]_vars => [paused => UNCHANGED funds]_vars
  <2> SUFFICES ASSUME [Next]_vars, paused PROVE UNCHANGED funds
    BY DEF vars
  <2>1. QED
    BY StepCases
       DEF Initialize, GrantRole, RevokeRole, Pause, Unpause, Migrate, CreateEscrow,
           ReleaseEscrow, CancelEscrow, DisputeEscrow, ResolveDispute, Tick, vars, funds
<1>2. QED BY <1>1, PTL DEF Spec, PauseFreezes

\* What a call does to a record it does not create, and who may make it do so.
LEMMA CallsEntitled ==
  ASSUME TypeOK, NEW c \in Accounts, Call(c), NEW i \in Ids,
         escrow[i] # Absent, escrow'[i] # escrow[i]
  PROVE  c \in Entitled(i)
<1>1. /\ escrow[i] \in EscrowRecord
      /\ escrow \in [Ids -> EscrowRecord \cup {Absent}]
  BY DEF TypeOK
<1>2. ASSUME NEW j \in Ids, NEW s \in EscrowState,
             escrow' = [escrow EXCEPT ![j].state = s]
      PROVE  j = i /\ escrow'[i].state = s
  <2>1. j = i
    BY <1>1, <1>2
  <2>2. QED BY <1>1, <1>2, <2>1 DEF EscrowRecord
<1>3. ASSUME NEW j \in Ids, ReleaseEscrow(c, j) PROVE c \in Entitled(i)
  <2>1. j = i /\ escrow'[i].state = "Released"
    BY <1>2, <1>3 DEF ReleaseEscrow, PayOut, EscrowState
  <2>2. QED BY <1>3, <2>1 DEF ReleaseEscrow, InState, Entitled, RequireRole
<1>4. ASSUME NEW j \in Ids, CancelEscrow(c, j) PROVE c \in Entitled(i)
  <2>1. j = i /\ escrow'[i].state = "Cancelled"
    BY <1>2, <1>4 DEF CancelEscrow, PayOut, EscrowState
  <2>2. QED BY <1>4, <2>1 DEF CancelEscrow, InState, Entitled, RequireRole
<1>5. ASSUME NEW j \in Ids, DisputeEscrow(c, j) PROVE c \in Entitled(i)
  <2>1. j = i /\ escrow'[i].state = "Disputed"
    BY <1>2, <1>5 DEF DisputeEscrow, EscrowState
  <2>2. QED BY <1>5, <2>1 DEF DisputeEscrow, InState, Entitled
<1>6. ASSUME NEW j \in Ids, NEW b \in BOOLEAN, ResolveDispute(c, j, b)
      PROVE  c \in Entitled(i)
  <2>1. j = i
    BY <1>2, <1>6 DEF ResolveDispute, PayOut, EscrowState
  <2>2. QED BY <1>6, <2>1 DEF ResolveDispute, InState, Entitled, RequireRole
<1>7. ASSUME NEW b \in Accounts, NEW t \in TokenIds, NEW j \in Ids,
             NEW a \in Amounts, NEW e \in Time, CreateEscrow(c, b, t, j, a, e)
      PROVE  FALSE
  BY <1>1, <1>7 DEF CreateEscrow, LockFunds
<1>8. QED
  BY <1>3, <1>4, <1>5, <1>6, <1>7, CallCases
     DEF Initialize, GrantRole, RevokeRole, Pause, Unpause, Migrate, funds

\* A stored escrow is changed by nobody but those entitled to the change at that
\* moment, whatever the roles were when the escrow was made.
THEOREM AuthorityEnds == Spec => EscrowEndsByAuthority
<1>1. TypeOK /\ [Next]_vars =>
        [\A i \in Ids : escrow[i] # Absent /\ escrow'[i] # escrow[i] =>
           Callers # {} /\ Callers \subseteq Entitled(i)]_vars
  <2> SUFFICES ASSUME TypeOK, [Next]_vars, NEW i \in Ids,
                      escrow[i] # Absent, escrow'[i] # escrow[i]
               PROVE  Callers # {} /\ Callers \subseteq Entitled(i)
    OBVIOUS
  <2>1. ~ Tick /\ ~ UNCHANGED vars
    BY DEF Tick, vars, funds
  <2>2. Callers # {}
    BY <2>1 DEF Next, Callers
  <2>3. Callers \subseteq Entitled(i)
    BY CallsEntitled DEF Callers
  <2>4. QED BY <2>2, <2>3
<1>2. QED
  BY <1>1, TypeCorrect, PTL DEF Spec, EscrowEndsByAuthority

-----------------------------------------------------------------------------
(* Implementation of the promise *)

\* A record that is stored has terms, and is not the absence of a deal.
LEMMA TermsAreADeal ==
  ASSUME NEW i \in Ids, escrow[i] \in EscrowRecord
  PROVE  Terms(i) \in Promise!Deals /\ Terms(i) # Absent
<1>1. Terms(i) \in EscrowTerms
  BY DEF EscrowRecord, EscrowTerms, Terms
<1>2. QED BY <1>1, ConstantsOK DEF ConstantsOK, EscrowTerms, Promise!Deals

\* A payment is the payment the promise allows, to the party it names.
LEMMA PayOutKeepsPromise ==
  ASSUME TypeOK, TypeOK', NEW i \in Ids, Open(i),
         NEW s \in {"Released", "Cancelled"},
         PayOut(i, s, IF s = "Released" THEN escrow[i].beneficiary
                      ELSE escrow[i].depositor)
  PROVE  Promise!Next
<1> DEFINE to == IF s = "Released" THEN escrow[i].beneficiary ELSE escrow[i].depositor
           outcome == IF s = "Released" THEN "paid" ELSE "refunded"
<1>1. escrow[i] \in EscrowRecord /\ escrow[i] # Absent
  BY DEF Open, InState, TypeOK
<1>2. /\ escrow' = [escrow EXCEPT ![i].state = s]
      /\ escrow'[i] \in EscrowRecord /\ escrow'[i] # Absent
  BY <1>1, ConstantsOK DEF ConstantsOK, PayOut, TypeOK, EscrowRecord, EscrowState
<1>3. /\ escrow'[i].state = s
      /\ escrow'[i].depositor = escrow[i].depositor
      /\ escrow'[i].beneficiary = escrow[i].beneficiary
      /\ escrow'[i].token = escrow[i].token /\ escrow'[i].amount = escrow[i].amount
      /\ \A j \in Ids \ {i} : escrow'[j] = escrow[j]
  BY <1>1, <1>2 DEF TypeOK, EscrowRecord
<1>4. deal' = deal
  BY <1>1, <1>2, <1>3 DEF deal, Terms
<1>5. /\ deal[i] = Terms(i) /\ deal[i] # Absent /\ fate[i] = "held"
  <2>1. deal[i] = Terms(i)
    BY <1>1 DEF deal
  <2>2. Terms(i) # Absent
    BY <1>1, TermsAreADeal
  <2>3. fate[i] = "held"
    BY DEF fate, Open, InState
  <2>4. QED BY <2>1, <2>2, <2>3
<1>6. fate' = [fate EXCEPT ![i] = outcome]
  BY <1>2, <1>3 DEF fate, InState
<1>7. balance' = [balance EXCEPT ![deal[i].token] =
                    Transferred(balance[deal[i].token], Vault, to, deal[i].amount)]
  BY <1>5 DEF PayOut, Terms
<1>8. QED
  <2>1. Promise!Pay(i, to, outcome)
    BY <1>4, <1>5, <1>6, <1>7 DEF Promise!Pay, Promise!Transferred, Transferred
  <2>2. /\ s = "Released" => to = deal[i].beneficiary /\ outcome = "paid"
        /\ s = "Cancelled" => to = deal[i].depositor /\ outcome = "refunded"
    BY <1>5 DEF Terms
  <2> HIDE DEF to, outcome
  <2>3. QED BY <2>1, <2>2 DEF Promise!Next

\* The contract implements the promise: every invocation, of any caller in any
\* order, is a step of EscrowPromise or leaves deals, fates and money alone.
THEOREM KeepsPromise == Spec => ImplementsPromise
<1>1. Init => Promise!Init
  BY DEF Init, Promise!Init, deal, fate, InState, Holders
<1>2. TypeOK /\ TypeOK' /\ [Next]_vars => [Promise!Next]_(Promise!vars)
  <2> SUFFICES ASSUME TypeOK, TypeOK', [Next]_vars
               PROVE  Promise!Next \/ UNCHANGED Promise!vars
    OBVIOUS
  <2>1. ASSUME UNCHANGED <<escrow, balance>> PROVE UNCHANGED Promise!vars
    BY <2>1 DEF Promise!vars, deal, fate, Terms, InState
  <2>2. ASSUME NEW d \in Accounts, NEW b \in Accounts, NEW t \in TokenIds,
               NEW i \in Ids, NEW a \in Amounts, NEW e \in Time,
               CreateEscrow(d, b, t, i, a, e)
        PROVE  Promise!Next
    <3>1. /\ escrow[i] = Absent /\ escrow'[i] # Absent
          /\ escrow'[i] = [depositor |-> d, beneficiary |-> b, token |-> t,
                           amount |-> a, expiry |-> e, state |-> "Active"]
          /\ \A j \in Ids \ {i} : escrow'[j] = escrow[j]
          /\ a > 0
      <4>1. [depositor |-> d, beneficiary |-> b, token |-> t,
             amount |-> a, expiry |-> e, state |-> "Active"] \in EscrowRecord
        BY <2>2 DEF CreateEscrow, EscrowRecord, EscrowState
      <4>2. QED
        BY <2>2, <4>1, ConstantsOK
           DEF ConstantsOK, CreateEscrow, LockFunds, TypeOK
    <3> DEFINE new == [depositor |-> d, beneficiary |-> b, token |-> t, amount |-> a]
    <3>2. deal' = [deal EXCEPT ![i] = new] /\ deal[i] = Absent
      <4>1. escrow'[i] # Absent /\ Terms(i)' = new
        BY <3>1 DEF Terms
      <4>2. \A j \in Ids \ {i} : deal'[j] = deal[j]
        BY <3>1 DEF deal, Terms
      <4> HIDE DEF new
      <4>3. deal'[i] = new /\ deal[i] = Absent
        BY <3>1, <4>1 DEF deal
      <4>4. QED BY <4>2, <4>3 DEF deal
    <3>3. fate' = fate
      BY <3>1 DEF fate, InState
    <3>4. new \in Promise!Deals
      BY <3>1 DEF Promise!Deals
    <3>5. Promise!Strike(i, new)
      BY <2>2, <3>2, <3>3
         DEF Promise!Strike, Promise!CanTransfer, Promise!Transferred, CanTransfer,
             Transferred, CreateEscrow, LockFunds
    <3> HIDE DEF new
    <3>6. QED BY <3>4, <3>5 DEF Promise!Next
  <2>3. ASSUME NEW c \in Accounts, NEW i \in Ids, ReleaseEscrow(c, i)
        PROVE  Promise!Next
    BY <2>3, PayOutKeepsPromise DEF ReleaseEscrow, Open
  <2>4. ASSUME NEW c \in Accounts, NEW i \in Ids, CancelEscrow(c, i)
        PROVE  Promise!Next
    BY <2>4, PayOutKeepsPromise DEF CancelEscrow, Open
  <2>5. ASSUME NEW c \in Accounts, NEW i \in Ids, DisputeEscrow(c, i)
        PROVE  UNCHANGED Promise!vars
    <3>1. /\ escrow[i] \in EscrowRecord /\ escrow[i].state = "Active"
          /\ escrow[i] # Absent
          /\ escrow' = [escrow EXCEPT ![i].state = "Disputed"]
      BY <2>5 DEF DisputeEscrow, InState, TypeOK
    <3>2. /\ escrow'[i] # Absent /\ escrow'[i].state = "Disputed"
          /\ escrow'[i].depositor = escrow[i].depositor
          /\ escrow'[i].beneficiary = escrow[i].beneficiary
          /\ escrow'[i].token = escrow[i].token /\ escrow'[i].amount = escrow[i].amount
          /\ \A j \in Ids \ {i} : escrow'[j] = escrow[j]
      <4>1. escrow'[i] \in EscrowRecord
        BY <3>1 DEF TypeOK, EscrowRecord, EscrowState
      <4>2. QED BY <3>1, <4>1, ConstantsOK DEF ConstantsOK, TypeOK, EscrowRecord
    <3>3. deal' = deal
      BY <3>1, <3>2 DEF deal, Terms
    <3>4. fate' = fate
      BY <3>1, <3>2 DEF fate, InState
    <3>5. QED BY <2>5, <3>3, <3>4 DEF DisputeEscrow, Promise!vars
  <2>6. ASSUME NEW c \in Accounts, NEW i \in Ids, NEW b \in BOOLEAN,
               ResolveDispute(c, i, b)
        PROVE  Promise!Next
    BY <2>6, PayOutKeepsPromise DEF ResolveDispute, Open
  <2>7. QED
    BY <2>1, <2>2, <2>3, <2>4, <2>5, <2>6, StepCases
       DEF Initialize, GrantRole, RevokeRole, Pause, Unpause, Migrate, Tick, funds, vars
<1>3. QED
  BY <1>1, <1>2, TypeCorrect, PTL DEF Spec, ImplementsPromise, Promise!Spec
=============================================================================
