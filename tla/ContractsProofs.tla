--------------------------- MODULE ContractsProofs --------------------------
(***************************************************************************)
(* Proofs about the payment, fee distribution, insurance, job, reputation  *)
(* and worker contracts, for any number of accounts, tokens and records,   *)
(* and any amounts, shares and ratings.                                    *)
(***************************************************************************)
EXTENDS MCContracts, TokenProofs

-----------------------------------------------------------------------------
(* What the contracts share *)

\* What a contract holds of a token that it was not simply given.
Own(t) == balance[t][Vault] - donated[t]

LEMMA OwnIsInt ==
  ASSUME ContractTypeOK, NEW t \in TokenIds
  PROVE  Own(t) \in Int /\ balance[t][Vault] = Own(t) + donated[t]
BY DEF ContractTypeOK, Own, Holders

\* A transfer keeps what the contracts share well typed.
LEMMA MovesType ==
  ASSUME ContractTypeOK, NEW t \in TokenIds, NEW from \in Holders, NEW to \in Holders,
         NEW amount \in Nat, Moves(t, from, to, amount)
  PROVE  ContractTypeOK'
<1>1. Transferred(balance[t], from, to, amount) \in [Holders -> Nat]
  BY TransferType DEF ContractTypeOK, Moves
<1>2. balance' \in [TokenIds -> [Holders -> Nat]]
  BY <1>1 DEF ContractTypeOK, Moves
<1>3. QED BY <1>2 DEF ContractTypeOK, Moves

\* A payment to the contract is its own, a payment by it is not any more; the
\* other tokens stay as they are.
LEMMA PaidIn ==
  ASSUME ContractTypeOK, NEW t \in TokenIds, NEW from \in Accounts,
         NEW amount \in Nat, Moves(t, from, Vault, amount), NEW u \in TokenIds
  PROVE  Own(u)' = Own(u) + (IF u = t THEN amount ELSE 0)
<1>1. from \in Holders /\ Vault \in Holders /\ from # Vault
  BY ContractAssumption DEF Holders
<1>2. /\ balance[t] \in [Holders -> Nat] /\ balance[u][Vault] \in Nat
      /\ donated[u] \in Nat /\ donated' = donated
      /\ balance' = [balance EXCEPT ![t] = Transferred(balance[t], from, Vault, amount)]
  BY <1>1 DEF ContractTypeOK, Moves
<1>3. Transferred(balance[t], from, Vault, amount)[Vault] = balance[t][Vault] + amount
  BY <1>1, <1>2, TransferMoves
<1>4. balance'[u][Vault] = balance[u][Vault] + (IF u = t THEN amount ELSE 0)
  BY <1>2, <1>3 DEF ContractTypeOK
<1>5. QED BY <1>2, <1>4 DEF Own

LEMMA PaidOut ==
  ASSUME ContractTypeOK, NEW t \in TokenIds, NEW to \in Accounts,
         NEW amount \in Nat, Moves(t, Vault, to, amount), NEW u \in TokenIds
  PROVE  Own(u)' = Own(u) - (IF u = t THEN amount ELSE 0)
<1>1. to \in Holders /\ Vault \in Holders /\ to # Vault
  BY ContractAssumption DEF Holders
<1>2. /\ balance[t] \in [Holders -> Nat] /\ balance[u][Vault] \in Nat
      /\ donated[u] \in Nat /\ donated' = donated
      /\ balance' = [balance EXCEPT ![t] = Transferred(balance[t], Vault, to, amount)]
  BY <1>1 DEF ContractTypeOK, Moves
<1>3. Transferred(balance[t], Vault, to, amount)[Vault] = balance[t][Vault] - amount
  BY <1>1, <1>2, TransferMoves
<1>4. balance'[u][Vault] = balance[u][Vault] - (IF u = t THEN amount ELSE 0)
  BY <1>2, <1>3 DEF ContractTypeOK
<1>5. QED BY <1>2, <1>4 DEF Own

\* A gift is not the contract's own.
LEMMA DonateDoes ==
  ASSUME ContractTypeOK, NEW from \in Accounts, NEW t \in TokenIds, NEW amount \in Amounts,
         Donate(from, t, amount)
  PROVE  ContractTypeOK' /\ \A u \in TokenIds : Own(u)' = Own(u)
<1>1. from \in Holders /\ Vault \in Holders /\ from # Vault /\ amount \in Nat
  <2>1. amount \in Int /\ amount > 0
    BY ContractAssumption DEF Donate
  <2>2. QED BY <2>1, ContractAssumption DEF Holders
<1>2. /\ balance[t] \in [Holders -> Nat] /\ donated[t] \in Nat
      /\ CanTransfer(balance[t], from, amount)
      /\ balance' = [balance EXCEPT ![t] = Transferred(balance[t], from, Vault, amount)]
      /\ donated' = [donated EXCEPT ![t] = @ + amount]
  BY DEF ContractTypeOK, Donate
<1>3. Transferred(balance[t], from, Vault, amount) \in [Holders -> Nat]
  BY <1>1, <1>2, TransferType
<1>4. balance' \in [TokenIds -> [Holders -> Nat]] /\ donated' \in [TokenIds -> Nat]
  BY <1>1, <1>2, <1>3 DEF ContractTypeOK
<1>5. donations' \in 0..MaxDonations
  BY ContractAssumption DEF Donate, ContractTypeOK
<1>6. ContractTypeOK'
  BY <1>4, <1>5 DEF ContractTypeOK, Donate
<1>7. Transferred(balance[t], from, Vault, amount)[Vault] = balance[t][Vault] + amount
  BY <1>1, <1>2, TransferMoves
<1>8. ASSUME NEW u \in TokenIds PROVE Own(u)' = Own(u)
  <2>1. balance[u][Vault] \in Nat /\ donated[u] \in Nat
    BY <1>1 DEF ContractTypeOK
  <2>2. balance'[u][Vault] = balance[u][Vault] + (IF u = t THEN amount ELSE 0)
    BY <1>1, <1>2, <1>7, <2>1 DEF ContractTypeOK
  <2>3. donated'[u] = donated[u] + (IF u = t THEN amount ELSE 0)
    BY <1>1, <1>2, <2>1 DEF ContractTypeOK
  <2>4. QED BY <1>1, <2>1, <2>2, <2>3 DEF Own
<1>9. QED BY <1>6, <1>8

\* Nobody has a role in a contract that nobody initialized.
Unmanned == ~initialized => roles = [r \in Roles |-> {}]

\* Roles, pauses and gifts move nothing that is the contract's own.
LEMMA AdministerDoes ==
  ASSUME ContractTypeOK, NEW frozen, NEW unpauser \in Roles, Administer(frozen, unpauser)
  PROVE  /\ ContractTypeOK' /\ initialized' = initialized
         /\ \A u \in TokenIds : Own(u)' = Own(u)
         /\ Unmanned => Unmanned'
<1>1. CASE \E c \in Donors, t \in TokenIds, a \in Amounts : Donate(c, t, a)
  <2>1. PICK c \in Donors, t \in TokenIds, a \in Amounts : Donate(c, t, a)
    BY <1>1
  <2>2. c \in Accounts
    BY ContractAssumption
  <2>3. ContractTypeOK' /\ \A u \in TokenIds : Own(u)' = Own(u)
    BY <2>1, <2>2, DonateDoes
  <2>4. UNCHANGED <<initialized, roles, paused>>
    BY <2>1 DEF Donate
  <2>5. QED BY <2>3, <2>4 DEF Unmanned
<1>2. ASSUME NEW c \in Accounts, NEW p \in Powers,
             GrantRole(c, p[1], p[2], frozen) \/ RevokeRole(c, p[1], p[2], frozen)
      PROVE  /\ roles' \in [Roles -> SUBSET Accounts]
             /\ roles # [r \in Roles |-> {}]
             /\ UNCHANGED <<initialized, paused, balance, donated, donations>>
  <2>1. p[1] \in Roles /\ p[2] \in Accounts
    BY ContractAssumption
  <2>2. "admin" \in Roles
    BY DEF Roles
  <2>3. QED BY <1>2, <2>1, <2>2 DEF GrantRole, RevokeRole, Granted, Revoked, ContractTypeOK,
                                    RequireRole
<1>3. ASSUME NEW c \in Accounts, NEW r \in Roles, NEW value \in BOOLEAN,
             SetPaused(c, r, value)
      PROVE  /\ paused' \in BOOLEAN
             /\ UNCHANGED <<initialized, roles, balance, donated, donations>>
  BY <1>3 DEF SetPaused
<1>4. ASSUME UNCHANGED <<balance, donated>>
      PROVE  \A u \in TokenIds : Own(u)' = Own(u)
  BY <1>4 DEF Own
<1>5. "pauser" \in Roles
  BY DEF Roles
<1>6. CASE \E c \in Accounts, p \in Powers :
             GrantRole(c, p[1], p[2], frozen) \/ RevokeRole(c, p[1], p[2], frozen)
  <2>1. /\ roles' \in [Roles -> SUBSET Accounts] /\ roles # [r \in Roles |-> {}]
        /\ UNCHANGED <<initialized, paused, balance, donated, donations>>
    BY <1>2, <1>6
  <2>2. QED BY <1>4, <2>1 DEF ContractTypeOK, Unmanned
<1>7. CASE \E c \in Accounts : SetPaused(c, "pauser", TRUE) \/ SetPaused(c, unpauser, FALSE)
  <2>1. /\ paused' \in BOOLEAN
        /\ UNCHANGED <<initialized, roles, balance, donated, donations>>
    BY <1>3, <1>5, <1>7
  <2>2. QED BY <1>4, <2>1 DEF ContractTypeOK, Unmanned
<1>8. QED BY <1>1, <1>6, <1>7 DEF Administer

LEMMA InitializeDoes ==
  ASSUME ContractTypeOK, NEW admin \in Accounts, Initialize(admin)
  PROVE  /\ ContractTypeOK' /\ ~initialized /\ initialized' = TRUE /\ Unmanned'
         /\ \A u \in TokenIds : Own(u)' = Own(u)
<1>1. roles' \in [Roles -> SUBSET Accounts]
  BY DEF Initialize, ContractTypeOK
<1>2. QED BY <1>1 DEF Initialize, ContractTypeOK, Own, Unmanned

LEMMA ContractStart ==
  ASSUME NEW funded, ContractInit(funded)
  PROVE  /\ ContractTypeOK /\ ~initialized /\ ~paused /\ Unmanned
         /\ \A t \in TokenIds : Own(t) = 0
<1>1. \A t \in TokenIds : balance[t] \in [Holders -> Nat]
  <2> TAKE t \in TokenIds
  <2>1. balance[t] = [h \in Holders |-> IF h # Vault /\ t \in funded THEN Supply ELSE 0]
    BY DEF ContractInit
  <2>2. QED BY <2>1, ContractAssumption
<1>2. balance \in [TokenIds -> [Holders -> Nat]]
  BY <1>1 DEF ContractInit
<1>3. ContractTypeOK
  <2>1. roles \in [Roles -> SUBSET Accounts] /\ donated \in [TokenIds -> Nat]
    BY DEF ContractInit
  <2>2. donations \in 0..MaxDonations
    BY ContractAssumption DEF ContractInit
  <2>3. QED BY <1>2, <2>1, <2>2 DEF ContractInit, ContractTypeOK
<1>4. QED BY <1>3 DEF ContractInit, Unmanned, Own, Holders

\* Where nothing that the contracts share changes, nothing of it changes.
LEMMA ChainKept ==
  ASSUME ContractTypeOK, UNCHANGED chainVars
  PROVE  /\ ContractTypeOK' /\ initialized' = initialized /\ (Unmanned => Unmanned')
         /\ \A u \in TokenIds : Own(u)' = Own(u)
BY DEF chainVars, ContractTypeOK, Own, Unmanned

-----------------------------------------------------------------------------
(* Payment *)

LockedIn(t) == {i \in PaymentIds : Locked(i) /\ payment[i].token = t}
LockedWorth == [i \in PaymentIds |-> IF Locked(i) THEN payment[i].amount ELSE 0]

\* The inductive invariant of the payment contract.  The first fee recipient is a
\* placeholder until initialize names one; a fee paid to the contract itself would
\* not be covered by any payment.
PaymentSound ==
  /\ PaymentTypeOK
  /\ initialized => config.recipient \in Accounts
  /\ \A t \in TokenIds : /\ IsFiniteSet(Units(LockedIn(t), LockedWorth))
                         /\ Own(t) = Total(LockedIn(t), LockedWorth)

\* A fee is a part of the amount it is charged on.
LEMMA FeeIsPart ==
  ASSUME NEW a \in Nat, NEW bps \in 0..MaxFeeBps
  PROVE  Fee(a, bps) \in 0..a
<1>1. a * bps \in Nat /\ a * bps <= a * 500
  BY DEF MaxFeeBps
<1>2. ASSUME NEW m \in Nat, m <= a * 500 PROVE m \div 10000 \in 0..a
  BY <1>2
<1>3. QED BY <1>1, <1>2 DEF Fee

\* A transfer leaves third parties alone.
LEMMA TransferPasses ==
  ASSUME NEW H, NEW l \in [H -> Nat], NEW from \in H, NEW to \in H, NEW amount \in Nat,
         NEW h \in H, h # from, h # to
  PROVE  Transferred(l, from, to, amount)[h] = l[h]
BY DEF Transferred

LEMMA PayDoes ==
  ASSUME ContractTypeOK, PaymentSound, NEW from \in Accounts, NEW to \in Accounts,
         NEW t \in TokenIds, NEW amount \in Amounts, Pay(from, to, t, amount)
  PROVE  /\ ContractTypeOK' /\ \A u \in TokenIds : Own(u)' = Own(u)
         /\ UNCHANGED <<initialized, payment, config, clock>> /\ pays' \in 0..MaxPays
<1> DEFINE fee  == Fee(amount, config.bps)
           paid == Transferred(balance[t], from, to, amount - fee)
<1>1. /\ initialized /\ pays < MaxPays /\ pays' = pays + 1
      /\ CanTransfer(balance[t], from, amount - fee) /\ CanTransfer(paid, from, fee)
      /\ balance' = [balance EXCEPT ![t] = Transferred(paid, from, config.recipient, fee)]
      /\ UNCHANGED <<initialized, roles, paused, donated, donations, payment, config, clock>>
  BY DEF Pay
<1>2. amount \in Nat
  <2>1. amount \in Int /\ amount > 0
    BY ContractAssumption DEF Pay
  <2>2. QED BY <2>1
<1>3. config.bps \in 0..MaxFeeBps /\ config.recipient \in Accounts
  BY <1>1 DEF PaymentSound, PaymentTypeOK
<1>4. fee \in 0..amount
  BY <1>2, <1>3, FeeIsPart
<1>5. fee \in Nat /\ amount - fee \in Nat
  BY <1>2, <1>4
<1> HIDE DEF fee
<1>6. /\ from \in Holders /\ to \in Holders /\ config.recipient \in Holders
      /\ Vault \in Holders /\ Vault # from /\ Vault # to /\ Vault # config.recipient
  BY <1>3, ContractAssumption DEF Holders
<1>7. balance[t] \in [Holders -> Nat]
  BY DEF ContractTypeOK
<1>8. paid \in [Holders -> Nat]
  BY <1>1, <1>5, <1>6, <1>7, TransferType
<1>9. paid[Vault] = balance[t][Vault]
  BY <1>5, <1>6, <1>7, TransferPasses
<1> HIDE DEF paid
<1>10. /\ Transferred(paid, from, config.recipient, fee) \in [Holders -> Nat]
       /\ Transferred(paid, from, config.recipient, fee)[Vault] = paid[Vault]
  <2>1. Transferred(paid, from, config.recipient, fee) \in [Holders -> Nat]
    BY <1>1, <1>5, <1>6, <1>8, TransferType
  <2>2. Transferred(paid, from, config.recipient, fee)[Vault] = paid[Vault]
    BY <1>5, <1>6, <1>8, TransferPasses
  <2>3. QED BY <2>1, <2>2
<1>11. /\ balance' \in [TokenIds -> [Holders -> Nat]]
       /\ \A u \in TokenIds : balance'[u][Vault] = balance[u][Vault]
  BY <1>1, <1>9, <1>10 DEF ContractTypeOK
<1>12. ContractTypeOK' /\ \A u \in TokenIds : Own(u)' = Own(u)
  BY <1>1, <1>11 DEF ContractTypeOK, Own
<1>13. pays' \in 0..MaxPays
  BY <1>1, PaymentAssumption DEF PaymentSound, PaymentTypeOK
<1>14. QED BY <1>1, <1>12, <1>13

LEMMA LockDoes ==
  ASSUME ContractTypeOK, PaymentSound, NEW from \in Accounts, NEW to \in Accounts,
         NEW t \in TokenIds, NEW i \in PaymentIds, NEW amount \in Amounts,
         NEW expiry \in 0..MaxClock + 1, LockPayment(from, to, t, i, amount, expiry)
  PROVE  ContractTypeOK' /\ PaymentSound'
<1>1. /\ Moves(t, from, Vault, amount) /\ UNCHANGED <<config, clock, pays>>
      /\ amount \in Nat /\ amount > 0 /\ payment[i] = NoPayment
  <2>1. amount \in Int /\ amount > 0
    BY ContractAssumption DEF LockPayment
  <2>2. QED BY <2>1 DEF LockPayment
<1> DEFINE new == [client |-> from, worker |-> to, token |-> t, amount |-> amount,
                   expiry |-> expiry, status |-> "locked"]
<1>2. new \in PaymentRecord /\ new.status = "locked" /\ new.token = t /\ new.amount = amount
  BY <1>1 DEF PaymentRecord
<1>3. payment' = [payment EXCEPT ![i] = new]
  BY DEF LockPayment
<1> HIDE DEF new
<1>4. ContractTypeOK' /\ initialized' = initialized
  <2>1. from \in Holders /\ Vault \in Holders
    BY DEF Holders
  <2>2. QED BY <1>1, <2>1, MovesType DEF Moves
<1>5. PaymentTypeOK'
  BY <1>1, <1>2, <1>3 DEF PaymentTypeOK, PaymentSound
<1>6. payment \in [PaymentIds -> PaymentRecord \union {NoPayment}] /\ ~Locked(i)
  BY <1>1 DEF PaymentTypeOK, PaymentSound, NoPayment, Locked
<1>7. /\ i \notin LockedIn(t) /\ LockedIn(t)' = LockedIn(t) \cup {i}
      /\ \A u \in TokenIds \ {t} : LockedIn(u)' = LockedIn(u)
  BY <1>2, <1>3, <1>6 DEF LockedIn, Locked
<1>8. /\ LockedWorth'[i] = amount
      /\ \A u \in TokenIds : \A j \in LockedIn(u) : LockedWorth'[j] = LockedWorth[j]
  BY <1>2, <1>3, <1>6 DEF LockedWorth, Locked, LockedIn
<1>9. /\ IsFiniteSet(Units(LockedIn(t), LockedWorth)')
      /\ Total(LockedIn(t), LockedWorth)' = Total(LockedIn(t), LockedWorth) + amount
  <2>1. /\ IsFiniteSet(Units(LockedIn(t), LockedWorth)) /\ LockedWorth'[i] \in Nat
        /\ i \notin LockedIn(t) /\ \A j \in LockedIn(t) : LockedWorth'[j] = LockedWorth[j]
    BY <1>1, <1>7, <1>8 DEF PaymentSound
  <2>2. /\ IsFiniteSet(Units(LockedIn(t) \cup {i}, LockedWorth'))
        /\ Total(LockedIn(t) \cup {i}, LockedWorth')
             = Total(LockedIn(t), LockedWorth) + LockedWorth'[i]
    BY <2>1, TotalAdd
  <2>3. QED BY <1>7, <1>8, <2>2
<1>10. ASSUME NEW u \in TokenIds, u # t
       PROVE  /\ IsFiniteSet(Units(LockedIn(u), LockedWorth)')
              /\ Total(LockedIn(u), LockedWorth)' = Total(LockedIn(u), LockedWorth)
  BY <1>7, <1>8, <1>10, TotalSame DEF PaymentSound
<1>11. \A u \in TokenIds : Own(u)' = Own(u) + (IF u = t THEN amount ELSE 0)
  BY <1>1, PaidIn
<1>12. \A u \in TokenIds : /\ IsFiniteSet(Units(LockedIn(u), LockedWorth)')
                           /\ Own(u)' = Total(LockedIn(u), LockedWorth)'
  <2> TAKE u \in TokenIds
  <2>1. Own(u) = Total(LockedIn(u), LockedWorth) /\ Own(u) \in Int
    BY OwnIsInt DEF PaymentSound
  <2>2. CASE u = t
    BY <1>1, <1>9, <1>11, <2>1, <2>2
  <2>3. CASE u # t
    BY <1>10, <1>11, <2>1, <2>3
  <2>4. QED BY <2>2, <2>3
<1>13. QED BY <1>1, <1>4, <1>5, <1>12 DEF PaymentSound

LEMMA SettleDoes ==
  ASSUME ContractTypeOK, PaymentSound, NEW i \in PaymentIds, NEW to \in Accounts,
         NEW status \in {"released", "refunded"}, Settle(i, to, status)
  PROVE  ContractTypeOK' /\ PaymentSound'
<1>1. /\ payment \in [PaymentIds -> PaymentRecord \union {NoPayment}] /\ Locked(i)
      /\ payment' = [payment EXCEPT ![i].status = status]
      /\ Moves(payment[i].token, Vault, to, payment[i].amount)
      /\ UNCHANGED <<config, clock, pays>>
  BY DEF Settle, PaymentSound, PaymentTypeOK
<1>2. payment[i] \in PaymentRecord
  BY <1>1 DEF Locked, NoPayment
<1>3. PICK t \in TokenIds, amount \in Nat :
        t = payment[i].token /\ amount = payment[i].amount /\ Moves(t, Vault, to, amount)
  <2>1. /\ payment[i].token \in TokenIds
        /\ payment[i].amount \in Amounts /\ payment[i].amount > 0
    BY <1>2 DEF PaymentRecord
  <2>2. payment[i].amount \in Int
    BY <2>1, ContractAssumption
  <2>3. payment[i].amount \in Nat
    BY <2>1, <2>2
  <2>4. QED BY <1>1, <2>1, <2>3
<1>4. ContractTypeOK' /\ initialized' = initialized
  <2>1. to \in Holders /\ Vault \in Holders
    BY DEF Holders
  <2>2. QED BY <1>1, <1>3, <2>1, MovesType DEF Moves
<1>5. PaymentTypeOK'
  <2>1. [payment[i] EXCEPT !.status = status] \in PaymentRecord
    BY <1>2 DEF PaymentRecord
  <2>2. QED BY <1>1, <2>1 DEF PaymentTypeOK, PaymentSound
<1>6. /\ i \in LockedIn(t) /\ LockedIn(t)' = LockedIn(t) \ {i}
      /\ \A u \in TokenIds \ {t} : LockedIn(u)' = LockedIn(u)
  <2>1. payment'[i].status = status /\ \A j \in PaymentIds \ {i} : payment'[j] = payment[j]
    BY <1>1, <1>2 DEF PaymentRecord
  <2>2. QED BY <1>1, <1>3, <2>1 DEF LockedIn, Locked
<1>7. /\ LockedWorth[i] = amount
      /\ \A j \in PaymentIds \ {i} : LockedWorth'[j] = LockedWorth[j]
  BY <1>1, <1>3 DEF LockedWorth, Locked
<1>8. \A u \in TokenIds : Own(u)' = Own(u) - (IF u = t THEN amount ELSE 0)
  BY <1>3, PaidOut
<1>9. /\ IsFiniteSet(Units(LockedIn(t), LockedWorth)')
      /\ Total(LockedIn(t)', LockedWorth') = Total(LockedIn(t), LockedWorth) - amount
  <2>1. IsFiniteSet(Units(LockedIn(t), LockedWorth))
    BY <1>3 DEF PaymentSound
  <2>2. \A j \in LockedIn(t) \ {i} : LockedWorth'[j] = LockedWorth[j]
    BY <1>7 DEF LockedIn
  <2>3. /\ IsFiniteSet(Units(LockedIn(t) \ {i}, LockedWorth'))
        /\ Total(LockedIn(t) \ {i}, LockedWorth')
             = Total(LockedIn(t), LockedWorth) - LockedWorth[i]
    <3>1. i \in LockedIn(t) /\ LockedWorth[i] \in Nat
      BY <1>3, <1>6, <1>7
    <3>2. QED BY <2>1, <2>2, <3>1, TotalRemove
  <2>4. QED BY <1>6, <1>7, <2>3
<1>10. ASSUME NEW u \in TokenIds, u # t
       PROVE  /\ IsFiniteSet(Units(LockedIn(u)', LockedWorth'))
              /\ Total(LockedIn(u)', LockedWorth') = Total(LockedIn(u), LockedWorth)
  <2>1. \A j \in LockedIn(u) : LockedWorth'[j] = LockedWorth[j]
    BY <1>3, <1>7, <1>10 DEF LockedIn
  <2>2. QED BY <1>6, <1>10, <2>1, TotalSame DEF PaymentSound
<1>11. \A u \in TokenIds : /\ IsFiniteSet(Units(LockedIn(u), LockedWorth)')
                           /\ Own(u)' = Total(LockedIn(u)', LockedWorth')
  <2> TAKE u \in TokenIds
  <2>1. Own(u) = Total(LockedIn(u), LockedWorth) /\ Own(u) \in Int
    BY OwnIsInt DEF PaymentSound
  <2>2. CASE u = t
    BY <1>3, <1>8, <1>9, <2>1, <2>2
  <2>3. CASE u # t
    BY <1>8, <1>10, <2>1, <2>3
  <2>4. QED BY <2>2, <2>3
<1>12. QED BY <1>1, <1>4, <1>5, <1>11 DEF PaymentSound

\* What leaves the payments alone, and moves nothing of the contract's own.
LEMMA PaymentKept ==
  ASSUME ContractTypeOK, PaymentSound, UNCHANGED payment, PaymentTypeOK',
         initialized' => config'.recipient \in Accounts,
         \A u \in TokenIds : Own(u)' = Own(u)
  PROVE  PaymentSound'
<1>1. \A u \in TokenIds : LockedIn(u)' = LockedIn(u) /\ LockedWorth' = LockedWorth
  BY DEF LockedIn, LockedWorth, Locked
<1>2. QED BY <1>1 DEF PaymentSound

LEMMA PaymentStep ==
  ASSUME ContractTypeOK, PaymentSound, PaymentNext
  PROVE  ContractTypeOK' /\ PaymentSound'
<1>1. CASE Administer(FALSE, "pauser") /\ UNCHANGED paymentVars
  <2>1. "pauser" \in Roles
    BY DEF Roles
  <2>2. /\ ContractTypeOK' /\ initialized' = initialized
        /\ \A u \in TokenIds : Own(u)' = Own(u)
    BY <1>1, <2>1, AdministerDoes
  <2>3. QED BY <1>1, <2>2, PaymentKept DEF paymentVars, PaymentSound, PaymentTypeOK
<1>2. ASSUME UNCHANGED chainVars
      PROVE  /\ ContractTypeOK' /\ initialized' = initialized
             /\ \A u \in TokenIds : Own(u)' = Own(u)
  BY <1>2, ChainKept
<1>3. CASE Tick
  <2>1. clock' \in 0..MaxClock
    BY <1>3, PaymentAssumption DEF Tick, PaymentSound, PaymentTypeOK
  <2>2. PaymentTypeOK' /\ UNCHANGED <<chainVars, payment, config>>
    BY <1>3, <2>1 DEF Tick, PaymentSound, PaymentTypeOK
  <2>3. QED BY <1>2, <2>2, PaymentKept DEF PaymentSound
<1>4. ASSUME NEW c \in Deployers, NEW bps \in FeeRates, NEW r \in Treasuries,
             InitializePayment(c, bps, r)
      PROVE  ContractTypeOK' /\ PaymentSound'
  <2>1. c \in Accounts /\ r \in Accounts /\ r \in Holders /\ bps \in Nat
    BY ContractAssumption, PaymentAssumption DEF Holders
  <2>2. /\ Initialize(c) /\ bps <= MaxFeeBps
        /\ config' = [bps |-> bps, recipient |-> r] /\ UNCHANGED <<payment, clock, pays>>
    BY <1>4 DEF InitializePayment
  <2>3. ContractTypeOK' /\ \A u \in TokenIds : Own(u)' = Own(u)
    BY <2>1, <2>2, InitializeDoes
  <2>4. PaymentTypeOK' /\ config'.recipient \in Accounts
    BY <2>1, <2>2 DEF PaymentSound, PaymentTypeOK, MaxFeeBps
  <2>5. QED BY <2>2, <2>3, <2>4, PaymentKept
<1>5. ASSUME NEW c \in Accounts, NEW bps \in FeeRates, UpdateFee(c, bps)
      PROVE  ContractTypeOK' /\ PaymentSound'
  <2>1. bps \in 0..MaxFeeBps
    <3>1. bps \in Nat /\ bps <= MaxFeeBps
      BY <1>5, PaymentAssumption DEF UpdateFee
    <3>2. QED BY <3>1 DEF MaxFeeBps
  <2>2. /\ config' = [config EXCEPT !.bps = bps]
        /\ UNCHANGED <<chainVars, payment, clock, pays>>
    BY <1>5 DEF UpdateFee
  <2>3. /\ config' \in [bps : 0..MaxFeeBps, recipient : Holders]
        /\ config'.recipient = config.recipient
    BY <2>1, <2>2 DEF PaymentSound, PaymentTypeOK
  <2>4. PaymentTypeOK'
    BY <2>2, <2>3 DEF PaymentSound, PaymentTypeOK
  <2>5. QED BY <1>2, <2>2, <2>3, <2>4, PaymentKept DEF PaymentSound
<1>6. ASSUME NEW c \in Accounts, NEW r \in Treasuries, SetTreasury(c, r)
      PROVE  ContractTypeOK' /\ PaymentSound'
  <2>1. r \in Accounts /\ r \in Holders
    BY PaymentAssumption DEF Holders
  <2>2. /\ config' = [config EXCEPT !.recipient = r]
        /\ UNCHANGED <<chainVars, payment, clock, pays>>
    BY <1>6 DEF SetTreasury
  <2>3. /\ config' \in [bps : 0..MaxFeeBps, recipient : Holders]
        /\ config'.recipient = r
    BY <2>1, <2>2 DEF PaymentSound, PaymentTypeOK
  <2>4. PaymentTypeOK'
    BY <2>2, <2>3 DEF PaymentSound, PaymentTypeOK
  <2>5. QED BY <1>2, <2>1, <2>2, <2>3, <2>4, PaymentKept
<1>7. ASSUME NEW c \in Accounts, NEW i \in PaymentIds,
             ReleasePayment(c, i) \/ RefundPayment(c, i)
      PROVE  ContractTypeOK' /\ PaymentSound'
  <2>1. \E to \in Accounts, status \in {"released", "refunded"} : Settle(i, to, status)
    <3>1. payment[i] \in PaymentRecord
      BY <1>7 DEF ReleasePayment, RefundPayment, Locked, NoPayment, PaymentSound, PaymentTypeOK
    <3>2. payment[i].client \in Accounts /\ payment[i].worker \in Accounts
      BY <3>1 DEF PaymentRecord
    <3>3. QED BY <1>7, <3>2 DEF ReleasePayment, RefundPayment
  <2>2. QED BY <2>1, SettleDoes
<1>8. ASSUME NEW p \in Pairs, NEW t \in TokenIds, NEW a \in Amounts, Pay(p[1], p[2], t, a)
      PROVE  ContractTypeOK' /\ PaymentSound'
  <2>1. p[1] \in Accounts /\ p[2] \in Accounts
    BY PaymentAssumption
  <2>2. /\ ContractTypeOK' /\ \A u \in TokenIds : Own(u)' = Own(u)
        /\ UNCHANGED <<initialized, payment, config, clock>> /\ pays' \in 0..MaxPays
    BY <1>8, <2>1, PayDoes
  <2>3. PaymentTypeOK'
    BY <2>2 DEF PaymentSound, PaymentTypeOK
  <2>4. QED BY <2>2, <2>3, PaymentKept DEF PaymentSound
<1>9. ASSUME NEW p \in Pairs, NEW t \in TokenIds, NEW a \in Amounts, NEW i \in PaymentIds,
             NEW expiry \in 0..MaxClock + 1, LockPayment(p[1], p[2], t, i, a, expiry)
      PROVE  ContractTypeOK' /\ PaymentSound'
  <2>1. p[1] \in Accounts /\ p[2] \in Accounts
    BY PaymentAssumption
  <2>2. QED BY <1>9, <2>1, LockDoes
<1>10. QED BY <1>1, <1>3, <1>4, <1>5, <1>6, <1>7, <1>8, <1>9 DEF PaymentNext

LEMMA PaymentStart ==
  ASSUME NEW funded, ContractInit(funded), PaymentInit
  PROVE  PaymentSound
<1>2. PaymentTypeOK
  BY PaymentAssumption DEF PaymentInit, PaymentTypeOK, MaxFeeBps, Holders
<1>3. \A t \in TokenIds : LockedIn(t) = {}
  BY DEF LockedIn, Locked, PaymentInit, NoPayment
<1>4. QED BY <1>2, <1>3, ContractStart, TotalEmpty DEF PaymentSound

-----------------------------------------------------------------------------
(* Fee distribution *)

\* The shares of an amount by a split.
Parts(split, amount) == [k \in DOMAIN split |-> Share(amount, split[k].bps)]

LEMMA SequenceFacts ==
  ASSUME NEW X, NEW seq \in Seq(X)
  PROVE  /\ Len(seq) \in Nat /\ DOMAIN seq = 1..Len(seq)
         /\ \A k \in 1..Len(seq) : seq[k] \in X
OBVIOUS

LEMMA SplitShape ==
  ASSUME NEW split \in LegalSplits
  PROVE  /\ Len(split) \in Nat /\ DOMAIN split = 1..Len(split)
         /\ \A k \in 1..Len(split) : split[k].to \in Holders /\ split[k].bps \in Nat
<1>1. split \in Seq([to : Holders, bps : Nat])
  BY DistributionAssumption DEF LegalSplits
<1>2. /\ Len(split) \in Nat /\ DOMAIN split = 1..Len(split)
      /\ \A k \in 1..Len(split) : split[k] \in [to : Holders, bps : Nat]
  BY <1>1, SequenceFacts
<1>3. QED BY <1>2

\* A share loses less than a unit to the rounding.
LEMMA ShareRounds ==
  ASSUME NEW amount \in Nat, NEW bps \in Nat
  PROVE  Share(amount, bps) \in Nat /\ RoundsTo(amount * bps, Share(amount, bps))
<1>1. amount * bps \in Nat
  OBVIOUS
<1>2. ASSUME NEW x \in Nat
      PROVE  x \div 10000 \in Nat /\ RoundsTo(x, x \div 10000)
  BY DEF RoundsTo
<1>3. QED BY <1>1, <1>2 DEF Share, WholeBps

\* The shares of all recipients together are the amount less at most a unit for
\* each share but the first.
LEMMA SharesAddUp ==
  ASSUME NEW split \in LegalSplits, NEW amount \in Nat
  PROVE  /\ \A k \in DOMAIN split : Parts(split, amount)[k] \in Nat
         /\ IsFiniteSet(Units(DOMAIN split, Parts(split, amount)))
         /\ Total(DOMAIN split, Parts(split, amount)) \in Nat
         /\ amount - Total(DOMAIN split, Parts(split, amount)) \in 0..(Len(split) - 1)
<1> DEFINE bps == [k \in DOMAIN split |-> split[k].bps]
<1>1. PICK n \in Nat : n = Len(split)
  <2>1. Len(split) \in Nat
    BY SplitShape
  <2>2. QED BY <2>1
<1>2. DOMAIN split = 1..n /\ \A k \in 1..n : split[k].bps \in Nat
  BY <1>1, SplitShape
<1>3. Total(1..n, bps) = 10000
  BY <1>2 DEF LegalSplits, SumOf, WholeBps
<1>4. PICK part : part = Parts(split, amount)
  OBVIOUS
<1>5. \A k \in 1..n : bps[k] = split[k].bps /\ part[k] = Share(amount, split[k].bps)
  BY <1>2, <1>4 DEF Parts
<1> HIDE DEF bps
<1>6. /\ \A k \in 1..n : bps[k] \in Nat /\ part[k] \in Nat
      /\ Rounds(n, amount, bps, part)
  BY <1>2, <1>5, ShareRounds DEF Rounds
<1>7. IsFiniteSet(Units(1..n, part)) /\ Total(1..n, part) \in Nat
  <2>1. n \in 0..n /\ \A k \in 1..n : part[k] \in Nat
    BY <1>6
  <2>2. QED BY <2>1, FiniteTotal
<1>8. amount - Total(1..n, part) \in 0..(n - 1)
  <2>1. (\A k \in 1..n : bps[k] \in Nat) /\ (\A k \in 1..n : part[k] \in Nat)
    BY <1>6
  <2>2. Rounded(n, amount, bps, part)
    BY <1>6, <2>1, RoundedAll
  <2>3. QED BY <1>3, <1>7, <2>2, RoundedSums
<1>9. QED BY <1>1, <1>2, <1>4, <1>6, <1>7, <1>8

\* The inductive invariant of the fee distribution contract: nothing is booked as
\* distributed that was not collected.
Dust(t) == Own(t) + withdrawn[t] - Available(t)

DistributionSound ==
  /\ DistributionTypeOK
  /\ \A t \in TokenIds : Available(t) \in Nat /\ Dust(t) \in 0..shares[t]

LEMMA DistributeDoes ==
  ASSUME ContractTypeOK, DistributionSound, NEW c \in Accounts, NEW t \in TokenIds,
         DistributeFees(c, t)
  PROVE  ContractTypeOK' /\ DistributionSound'
<1> DEFINE To(holders) == {k \in DOMAIN recipients : recipients[k].to \in holders}
           spent(k) == {j \in 1..k : j = k \/ recipients[j].to # Vault}
<1>1. PICK amount \in Nat : amount = Available(t)
  BY DEF DistributionSound
<1>2. PICK part : part = Parts(recipients, amount)
  OBVIOUS
<1>3. /\ recipients # <<>>
      /\ \A k \in DOMAIN recipients : Total(spent(k), part) <= balance[t][Vault]
      /\ balance' = [balance EXCEPT ![t] = [h \in Holders |->
           IF h = Vault THEN balance[t][Vault] - Total(To(Accounts), part)
                        ELSE balance[t][h] + Total(To({h}), part)]]
      /\ donated' = [donated EXCEPT ![t] = @ + Total(To({Vault}), part)]
      /\ collection' = [collection EXCEPT ![t].distributed = collection[t].total]
      /\ shares' = [shares EXCEPT ![t] = @ + Len(recipients) - 1]
      /\ UNCHANGED <<initialized, roles, paused, donations, recipients, withdrawn>>
  BY <1>1, <1>2 DEF DistributeFees, Parts
<1>4. recipients \in LegalSplits
  BY <1>3 DEF DistributionSound, DistributionTypeOK
<1>5. /\ Len(recipients) \in Nat /\ DOMAIN recipients = 1..Len(recipients)
      /\ \A k \in DOMAIN recipients : recipients[k].to \in Holders
  BY <1>4, SplitShape
<1>6. /\ IsFiniteSet(Units(DOMAIN recipients, part))
      /\ amount - Total(DOMAIN recipients, part) \in 0..(Len(recipients) - 1)
  BY <1>2, <1>4, SharesAddUp
<1>7. ASSUME NEW R \in SUBSET DOMAIN recipients
      PROVE  /\ IsFiniteSet(Units(R, part)) /\ Total(R, part) \in Nat
             /\ Total(DOMAIN recipients, part) \in Nat
             /\ Total(DOMAIN recipients \ R, part)
                  = Total(DOMAIN recipients, part) - Total(R, part)
  BY <1>6, TotalDifference
\* What the accounts and the contract itself are paid is all that is paid.
<1>8. PICK all \in Nat, out \in Nat, back \in Nat :
        /\ all = Total(DOMAIN recipients, part) /\ out = Total(To(Accounts), part)
        /\ back = Total(To({Vault}), part) /\ out + back = all
  <2>1. To({Vault}) \in SUBSET DOMAIN recipients
    OBVIOUS
  <2>2. To(Accounts) = DOMAIN recipients \ To({Vault})
    BY <1>5, ContractAssumption DEF Holders
  <2>3. /\ Total(To({Vault}), part) \in Nat /\ Total(DOMAIN recipients, part) \in Nat
        /\ Total(DOMAIN recipients \ To({Vault}), part)
             = Total(DOMAIN recipients, part) - Total(To({Vault}), part)
    BY <1>7, <2>1
  <2>4. Total(To(Accounts), part) \in Nat
    BY <1>7
  <2> HIDE DEF To
  <2>5. QED BY <2>2, <2>3, <2>4
\* The contract can pay the last recipient: what it pays it has.
<1>9. out <= balance[t][Vault] /\ balance[t][Vault] \in Nat
  <2>1. PICK n \in DOMAIN recipients : n = Len(recipients)
    <3>1. Len(recipients) # 0
      BY <1>6, <1>8
    <3>2. QED BY <1>5, <3>1
  <2>2. To(Accounts) \in SUBSET spent(n) /\ spent(n) \in SUBSET DOMAIN recipients
    BY <1>5, <2>1, ContractAssumption
  <2>3. IsFiniteSet(Units(spent(n), part)) /\ Total(spent(n), part) <= balance[t][Vault]
    BY <1>3, <1>7, <2>1, <2>2
  <2>4. balance[t][Vault] \in Nat
    BY DEF ContractTypeOK, Holders
  <2> HIDE DEF To, spent
  <2>5. /\ IsFiniteSet(Units(spent(n) \ To(Accounts), part)) /\ Total(spent(n), part) \in Nat
        /\ Total(spent(n) \ To(Accounts), part)
             = Total(spent(n), part) - Total(To(Accounts), part)
    BY <2>2, <2>3, TotalDifference
  <2>6. Total(spent(n) \ To(Accounts), part) \in Nat
    BY <2>5, TotalNat
  <2>7. QED BY <1>8, <2>3, <2>4, <2>5, <2>6
<1>10. ContractTypeOK'
  <2>1. ASSUME NEW h \in Accounts PROVE balance[t][h] + Total(To({h}), part) \in Nat
    <3>1. Total(To({h}), part) \in Nat
      BY <1>7
    <3>2. balance[t][h] \in Nat
      BY DEF ContractTypeOK, Holders
    <3>3. QED BY <3>1, <3>2
  <2>2. balance[t][Vault] - Total(To(Accounts), part) \in Nat
    BY <1>8, <1>9
  <2> HIDE DEF To
  <2>3. [h \in Holders |-> IF h = Vault THEN balance[t][Vault] - Total(To(Accounts), part)
                                        ELSE balance[t][h] + Total(To({h}), part)]
          \in [Holders -> Nat]
    BY <2>1, <2>2 DEF Holders
  <2>4. balance' \in [TokenIds -> [Holders -> Nat]]
    BY <1>3, <2>3 DEF ContractTypeOK
  <2>5. donated' \in [TokenIds -> Nat]
    BY <1>3, <1>8 DEF ContractTypeOK
  <2>6. QED BY <1>3, <2>4, <2>5 DEF ContractTypeOK
<1>11. /\ Own(t)' = Own(t) - all
       /\ \A u \in TokenIds \ {t} : Own(u)' = Own(u)
  <2>1. balance'[t][Vault] = balance[t][Vault] - out
    BY <1>3, <1>8 DEF ContractTypeOK, Holders
  <2>2. donated'[t] = donated[t] + back /\ donated[t] \in Nat
    BY <1>3, <1>8 DEF ContractTypeOK
  <2>3. \A u \in TokenIds \ {t} : balance'[u] = balance[u] /\ donated'[u] = donated[u]
    BY <1>3 DEF ContractTypeOK
  <2>4. Own(t)' = Own(t) - all
    BY <1>8, <1>9, <2>1, <2>2 DEF Own
  <2>5. QED BY <2>3, <2>4 DEF Own
<1>12. /\ Available(t)' = 0 /\ \A u \in TokenIds \ {t} : Available(u)' = Available(u)
       /\ collection' \in [TokenIds -> [total : Nat, distributed : Nat]]
  <2>1. collection[t] \in [total : Nat, distributed : Nat]
    BY DEF DistributionSound, DistributionTypeOK
  <2>2. collection'[t] = [total |-> collection[t].total, distributed |-> collection[t].total]
    BY <1>3, <2>1 DEF DistributionSound, DistributionTypeOK
  <2>3. QED BY <1>3, <2>1, <2>2 DEF DistributionSound, DistributionTypeOK, Available
<1>13. /\ shares' \in [TokenIds -> Nat] /\ shares'[t] = shares[t] + (Len(recipients) - 1)
       /\ \A u \in TokenIds \ {t} : shares'[u] = shares[u]
  <2>1. Len(recipients) - 1 \in Nat /\ shares[t] \in Nat
    BY <1>5, <1>6, <1>8 DEF DistributionSound, DistributionTypeOK
  <2>2. QED BY <1>3, <1>5, <2>1 DEF DistributionSound, DistributionTypeOK
<1>14. \A u \in TokenIds : Available(u)' \in Nat /\ Dust(u)' \in 0..shares'[u]
  <2> TAKE u \in TokenIds
  <2>1. /\ Own(u) \in Int /\ withdrawn[u] \in Nat /\ withdrawn' = withdrawn
        /\ Available(u) \in Nat /\ Dust(u) \in 0..shares[u] /\ shares[u] \in Nat
    BY <1>3, OwnIsInt DEF DistributionSound, DistributionTypeOK
  <2>2. CASE u # t
    BY <1>11, <1>12, <1>13, <2>1, <2>2 DEF Dust
  <2>3. CASE u = t
    <3>1. Dust(t)' = Own(t) - all + withdrawn[t]
      BY <1>11, <1>12, <2>1, <2>3 DEF Dust
    <3>2. Dust(t)' = Dust(t) + (amount - all)
      BY <1>1, <1>8, <2>1, <2>3, <3>1 DEF Dust
    <3>3. amount - all \in 0..(Len(recipients) - 1)
      BY <1>6, <1>8
    <3>4. Dust(t)' \in 0..shares'[t]
      BY <1>5, <1>13, <2>1, <2>3, <3>2, <3>3
    <3>5. QED BY <1>12, <2>3, <3>4
  <2>4. QED BY <2>2, <2>3
<1>15. QED BY <1>3, <1>10, <1>12, <1>13, <1>14 DEF DistributionSound, DistributionTypeOK

LEMMA CollectDoes ==
  ASSUME ContractTypeOK, DistributionSound, NEW c \in Accounts, NEW t \in TokenIds,
         NEW amount \in Amounts, CollectFees(c, t, amount)
  PROVE  ContractTypeOK' /\ DistributionSound'
<1>1. amount \in Nat
  <2>1. amount \in Int /\ amount > 0
    BY ContractAssumption DEF CollectFees
  <2>2. QED BY <2>1
<1>2. /\ Moves(t, c, Vault, amount) /\ UNCHANGED <<recipients, withdrawn, shares>>
      /\ collection' = [collection EXCEPT ![t].total = @ + amount]
  BY DEF CollectFees
<1>3. ContractTypeOK'
  BY <1>1, <1>2, MovesType DEF Holders
<1>4. \A u \in TokenIds : Own(u)' = Own(u) + (IF u = t THEN amount ELSE 0)
  BY <1>1, <1>2, PaidIn
<1>5. collection \in [TokenIds -> [total : Nat, distributed : Nat]]
  BY DEF DistributionSound, DistributionTypeOK
<1>6. /\ collection'[t] = [total |-> collection[t].total + amount,
                           distributed |-> collection[t].distributed]
      /\ \A u \in TokenIds \ {t} : collection'[u] = collection[u]
  BY <1>2, <1>5
<1>7. collection' \in [TokenIds -> [total : Nat, distributed : Nat]]
  BY <1>1, <1>2, <1>5
<1>8. \A u \in TokenIds : Available(u)' = Available(u) + (IF u = t THEN amount ELSE 0)
  BY <1>1, <1>5, <1>6 DEF Available
<1>9. \A u \in TokenIds : Available(u)' \in Nat /\ Dust(u)' \in 0..shares'[u]
  <2> TAKE u \in TokenIds
  <2>1. /\ Own(u) \in Int /\ withdrawn[u] \in Nat /\ withdrawn' = withdrawn
        /\ shares' = shares /\ Available(u) \in Nat /\ Dust(u) \in 0..shares[u]
    BY <1>2, OwnIsInt DEF DistributionSound, DistributionTypeOK
  <2>2. Dust(u)' = Dust(u)
    BY <1>1, <1>4, <1>8, <2>1 DEF Dust
  <2>3. QED BY <1>1, <1>8, <2>1, <2>2
<1>10. QED BY <1>2, <1>3, <1>7, <1>9 DEF DistributionSound, DistributionTypeOK

LEMMA WithdrawDoes ==
  ASSUME ContractTypeOK, DistributionSound, NEW c \in Accounts, NEW t \in TokenIds,
         NEW amount \in Amounts, WithdrawFees(c, t, amount)
  PROVE  ContractTypeOK' /\ DistributionSound'
<1>1. amount \in Nat
  <2>1. amount \in Int /\ amount > 0
    BY ContractAssumption DEF WithdrawFees
  <2>2. QED BY <2>1
<1>2. /\ Moves(t, Vault, c, amount) /\ UNCHANGED <<recipients, collection, shares>>
      /\ withdrawn' = [withdrawn EXCEPT ![t] = @ + amount]
  BY DEF WithdrawFees
<1>3. ContractTypeOK'
  BY <1>1, <1>2, MovesType DEF Holders
<1>4. \A u \in TokenIds : Own(u)' = Own(u) - (IF u = t THEN amount ELSE 0)
  BY <1>1, <1>2, PaidOut
<1>5. /\ withdrawn' \in [TokenIds -> Nat]
      /\ \A u \in TokenIds : withdrawn'[u] = withdrawn[u] + (IF u = t THEN amount ELSE 0)
  BY <1>1, <1>2 DEF DistributionSound, DistributionTypeOK
<1>6. \A u \in TokenIds : Available(u)' \in Nat /\ Dust(u)' \in 0..shares'[u]
  <2> TAKE u \in TokenIds
  <2>1. /\ Own(u) \in Int /\ withdrawn[u] \in Nat /\ Available(u)' = Available(u)
        /\ shares' = shares /\ Available(u) \in Nat /\ Dust(u) \in 0..shares[u]
    BY <1>2, OwnIsInt DEF DistributionSound, DistributionTypeOK, Available
  <2>2. Dust(u)' = Dust(u)
    BY <1>1, <1>4, <1>5, <2>1 DEF Dust
  <2>3. QED BY <2>1, <2>2
<1>7. QED BY <1>2, <1>3, <1>5, <1>6 DEF DistributionSound, DistributionTypeOK

\* What leaves the books alone, and moves nothing of the contract's own.
LEMMA DistributionKept ==
  ASSUME DistributionSound, UNCHANGED <<collection, withdrawn, shares>>,
         recipients' \in LegalSplits \union {<<>>}, \A u \in TokenIds : Own(u)' = Own(u)
  PROVE  DistributionSound'
<1>1. \A u \in TokenIds : Available(u)' = Available(u) /\ Dust(u)' = Dust(u)
  BY DEF Available, Dust
<1>2. QED BY <1>1 DEF DistributionSound, DistributionTypeOK

LEMMA DistributionStep ==
  ASSUME ContractTypeOK, DistributionSound, DistributionNext
  PROVE  ContractTypeOK' /\ DistributionSound'
<1>1. recipients \in LegalSplits \union {<<>>}
  BY DEF DistributionSound, DistributionTypeOK
<1>2. CASE Administer(TRUE, "admin") /\ UNCHANGED distributionVars
  <2>1. "admin" \in Roles
    BY DEF Roles
  <2>2. ContractTypeOK' /\ \A u \in TokenIds : Own(u)' = Own(u)
    BY <1>2, <2>1, AdministerDoes
  <2>3. QED BY <1>1, <1>2, <2>2, DistributionKept DEF distributionVars
<1>3. ASSUME NEW c \in Deployers, Initialize(c) /\ UNCHANGED distributionVars
      PROVE  ContractTypeOK' /\ DistributionSound'
  <2>1. c \in Accounts
    BY ContractAssumption
  <2>2. ContractTypeOK' /\ \A u \in TokenIds : Own(u)' = Own(u)
    BY <1>3, <2>1, InitializeDoes
  <2>3. QED BY <1>1, <1>3, <2>2, DistributionKept DEF distributionVars
<1>4. ASSUME NEW c \in Accounts, NEW split \in Splits, SetFeeRecipients(c, split)
      PROVE  ContractTypeOK' /\ DistributionSound'
  <2>1. /\ recipients' \in LegalSplits
        /\ UNCHANGED <<chainVars, collection, withdrawn, shares>>
    BY <1>4 DEF SetFeeRecipients
  <2>2. ContractTypeOK' /\ \A u \in TokenIds : Own(u)' = Own(u)
    BY <2>1, ChainKept
  <2>3. QED BY <2>1, <2>2, DistributionKept
<1>5. QED BY <1>2, <1>3, <1>4, DistributeDoes, CollectDoes, WithdrawDoes DEF DistributionNext

LEMMA DistributionStart ==
  ASSUME NEW funded, ContractInit(funded), DistributionInit
  PROVE  DistributionSound
<1>1. \A t \in TokenIds : /\ collection[t] = [total |-> 0, distributed |-> 0]
                          /\ withdrawn[t] = 0 /\ shares[t] = 0
  BY DEF DistributionInit
<1>2. \A t \in TokenIds : Available(t) = 0 /\ Dust(t) = 0
  BY <1>1, ContractStart DEF Available, Dust
<1>3. DistributionTypeOK
  BY DEF DistributionInit, DistributionTypeOK
<1>4. QED BY <1>1, <1>2, <1>3 DEF DistributionSound

-----------------------------------------------------------------------------
(* Insurance pool *)

\* Where a term occurs in a history that grows by one.
LEMMA TimesAppended ==
  ASSUME NEW X, NEW history \in Seq(X), NEW y \in X, NEW x
  PROVE  /\ Times(history, x) \in Nat
         /\ Times(Append(history, y), x) = Times(history, x) + (IF x = y THEN 1 ELSE 0)
<1> DEFINE n == Len(history)
           old == {k \in DOMAIN history : history[k] = x}
           more == Append(history, y)
           new == {k \in DOMAIN more : more[k] = x}
<1>1. n \in Nat /\ DOMAIN history = 1..n
  OBVIOUS
<1>2. /\ DOMAIN more = 1..(n + 1) /\ more[n + 1] = y
      /\ \A k \in 1..n : more[k] = history[k]
  BY <1>1
<1>3. IsFiniteSet(old) /\ Cardinality(old) \in Nat
  <2>1. old \in SUBSET (1..n) /\ IsFiniteSet(1..n)
    BY <1>1, FS_Interval
  <2> HIDE DEF old
  <2>2. QED BY <2>1, FS_Subset, FS_CardinalityType
<1>4. CASE x = y
  <2>1. new = old \cup {n + 1} /\ n + 1 \notin old
    BY <1>1, <1>2, <1>4
  <2> HIDE DEF old, new, n, more
  <2>2. Cardinality(new) = Cardinality(old) + 1
    BY <1>3, <2>1, FS_AddElement
  <2>3. QED BY <1>3, <1>4, <2>2 DEF Times, old, new, more
<1>5. CASE x # y
  <2>1. new = old
    BY <1>1, <1>2, <1>5
  <2> HIDE DEF old, new, n, more
  <2>2. Cardinality(new) = Cardinality(old) + 0
    BY <1>3, <2>1
  <2>3. QED BY <1>3, <1>5, <2>2 DEF Times, old, new, more
<1>6. QED BY <1>4, <1>5

\* The claims that carry an approval of terms x: at most one, for the terms name it.
Carried(x) == {i \in ClaimIds : claim[i].status = "approved" /\ Terms(i) = x}

\* Approvals used up or still carried are approvals given.
ApprovalsCount ==
  \A x \in AllTerms : Times(settled, x) + Cardinality(Carried(x)) <= Times(approved, x)

LEMMA CarriedOnce ==
  ASSUME NEW x
  PROVE  IsFiniteSet(Carried(x)) /\ Cardinality(Carried(x)) \in Nat
<1>1. Carried(x) \in SUBSET {x[1]}
  BY DEF Carried, Terms
<1>2. QED BY <1>1, FS_Singleton, FS_Subset, FS_CardinalityType

\* A step that leaves the histories and lets nobody carry an approval who did not.
LEMMA CountKept ==
  ASSUME ApprovalsCount, PoolTypeOK, UNCHANGED <<approved, settled>>,
         \A x \in AllTerms : Carried(x)' \in SUBSET Carried(x)
  PROVE  ApprovalsCount'
<1> SUFFICES ASSUME NEW x \in AllTerms
             PROVE  Times(settled, x) + Cardinality(Carried(x)') <= Times(approved, x)
  BY DEF ApprovalsCount
<1>1. /\ Cardinality(Carried(x)') <= Cardinality(Carried(x))
      /\ Cardinality(Carried(x)') \in Nat /\ Cardinality(Carried(x)) \in Nat
  BY CarriedOnce, FS_Subset, FS_CardinalityType
<1>2. Times(settled, x) \in Nat /\ Times(approved, x) \in Nat
  BY TimesAppended DEF PoolTypeOK
<1>3. QED BY <1>1, <1>2 DEF ApprovalsCount

\* A claim keeps its terms when only its status changes.
LEMMA TermsKept ==
  ASSUME PoolTypeOK, NEW i \in ClaimIds, claim[i].status # "none",
         NEW status \in {"pending", "approved", "rejected", "paid"},
         claim' = [claim EXCEPT ![i].status = status]
  PROVE  /\ claim[i] \in ClaimRecord /\ Terms(i) \in AllTerms
         /\ claim' \in [ClaimIds -> ClaimRecord \union {NoClaim}]
         /\ claim'[i].status = status /\ \A j \in ClaimIds : Terms(j)' = Terms(j)
         /\ \A j \in ClaimIds \ {i} : claim'[j] = claim[j]
<1>1. claim[i] \in ClaimRecord
  BY DEF PoolTypeOK, NoClaim
<1>2. /\ [claim[i] EXCEPT !.status = status] \in ClaimRecord
      /\ [claim[i] EXCEPT !.status = status].status = status
      /\ [claim[i] EXCEPT !.status = status].claimant = claim[i].claimant
      /\ [claim[i] EXCEPT !.status = status].amount = claim[i].amount
  BY <1>1 DEF ClaimRecord
<1>3. claim'[i] = [claim[i] EXCEPT !.status = status]
  BY DEF PoolTypeOK
<1>4. \A j \in ClaimIds \ {i} : claim'[j] = claim[j]
  BY DEF PoolTypeOK
<1>5. claim' \in [ClaimIds -> ClaimRecord \union {NoClaim}]
  BY <1>2 DEF PoolTypeOK
<1>6. \A j \in ClaimIds : Terms(j)' = Terms(j)
  BY <1>2, <1>3, <1>4 DEF Terms
<1>7. Terms(i) \in AllTerms
  BY <1>1 DEF Terms, AllTerms, ClaimRecord
<1>8. QED BY <1>1, <1>2, <1>3, <1>4, <1>5, <1>6, <1>7

LEMMA ApproveCounts ==
  ASSUME PoolTypeOK, ApprovalsCount, NEW c \in Accounts, NEW i \in ClaimIds, ApproveClaim(c, i)
  PROVE  PoolTypeOK' /\ ApprovalsCount'
<1>1. /\ claim[i].status = "pending" /\ claim' = [claim EXCEPT ![i].status = "approved"]
      /\ approved' = Append(approved, Terms(i))
      /\ UNCHANGED <<chainVars, contribution, pool, settled, erased>>
  BY DEF ApproveClaim
<1>2. /\ Terms(i) \in AllTerms /\ claim' \in [ClaimIds -> ClaimRecord \union {NoClaim}]
      /\ claim'[i].status = "approved" /\ \A j \in ClaimIds : Terms(j)' = Terms(j)
      /\ \A j \in ClaimIds \ {i} : claim'[j] = claim[j]
  BY <1>1, TermsKept
<1>3. PoolTypeOK'
  BY <1>1, <1>2 DEF PoolTypeOK, AllTerms
<1>4. ASSUME NEW x \in AllTerms
      PROVE  Times(settled, x) + Cardinality(Carried(x)') <= Times(approved', x)
  <2>1. /\ Times(settled, x) \in Nat /\ Times(approved, x) \in Nat
        /\ Times(approved', x) = Times(approved, x) + (IF x = Terms(i) THEN 1 ELSE 0)
    BY <1>1, <1>2, TimesAppended DEF PoolTypeOK
  <2>2. Times(settled, x) + Cardinality(Carried(x)) <= Times(approved, x)
    BY DEF ApprovalsCount
  <2>3. IsFiniteSet(Carried(x)) /\ Cardinality(Carried(x)) \in Nat
    BY CarriedOnce
  <2>4. CASE x = Terms(i)
    <3>1. Carried(x)' = Carried(x) \cup {i} /\ i \notin Carried(x)
      BY <1>1, <1>2, <2>4 DEF Carried
    <3>2. Cardinality(Carried(x)') = Cardinality(Carried(x)) + 1
      BY <2>3, <3>1, FS_AddElement
    <3>3. QED BY <2>1, <2>2, <2>3, <2>4, <3>2
  <2>5. CASE x # Terms(i)
    <3>1. Carried(x)' = Carried(x)
      BY <1>1, <1>2, <2>5 DEF Carried
    <3>2. QED BY <2>1, <2>2, <2>3, <2>5, <3>1
  <2>6. QED BY <2>4, <2>5
<1>5. QED BY <1>1, <1>3, <1>4 DEF ApprovalsCount

LEMMA PayCounts ==
  ASSUME PoolTypeOK, ApprovalsCount, NEW i \in ClaimIds, claim[i].status = "approved",
         claim' = [claim EXCEPT ![i].status = "paid"],
         settled' = Append(settled, Terms(i)), UNCHANGED approved
  PROVE  /\ ApprovalsCount' /\ settled' \in Seq(AllTerms)
         /\ claim' \in [ClaimIds -> ClaimRecord \union {NoClaim}]
<1>1. /\ Terms(i) \in AllTerms /\ claim' \in [ClaimIds -> ClaimRecord \union {NoClaim}]
      /\ claim'[i].status = "paid" /\ \A j \in ClaimIds : Terms(j)' = Terms(j)
      /\ \A j \in ClaimIds \ {i} : claim'[j] = claim[j]
  BY TermsKept
<1>2. settled' \in Seq(AllTerms)
  BY <1>1 DEF PoolTypeOK, AllTerms
<1>3. ASSUME NEW x \in AllTerms
      PROVE  Times(settled', x) + Cardinality(Carried(x)') <= Times(approved, x)
  <2>1. /\ Times(settled, x) \in Nat /\ Times(approved, x) \in Nat
        /\ Times(settled', x) = Times(settled, x) + (IF x = Terms(i) THEN 1 ELSE 0)
    BY <1>1, TimesAppended DEF PoolTypeOK
  <2>2. Times(settled, x) + Cardinality(Carried(x)) <= Times(approved, x)
    BY DEF ApprovalsCount
  <2>3. IsFiniteSet(Carried(x)) /\ Cardinality(Carried(x)) \in Nat
    BY CarriedOnce
  <2>4. CASE x = Terms(i)
    <3>1. Carried(x)' = Carried(x) \ {i} /\ i \in Carried(x)
      BY <1>1, <2>4 DEF Carried
    <3>2. Cardinality(Carried(x)') = Cardinality(Carried(x)) - 1
      BY <2>3, <3>1, FS_RemoveElement
    <3>3. QED BY <2>1, <2>2, <2>3, <2>4, <3>2
  <2>5. CASE x # Terms(i)
    <3>1. Carried(x)' = Carried(x)
      BY <1>1, <2>5 DEF Carried
    <3>2. QED BY <2>1, <2>2, <2>3, <2>5, <3>1
  <2>6. QED BY <2>4, <2>5
<1>4. QED BY <1>1, <1>2, <1>3 DEF ApprovalsCount

PoolWorth == [t \in TokenIds |-> pool[t].contributions + erased[t]]

PoolBooks ==
  /\ \A t \in TokenIds : /\ pool[t].balance = pool[t].contributions - pool[t].paid
                         /\ Own(t) = pool[t].balance + erased[t]
  /\ IsFiniteSet(Units(Accounts, contribution)) /\ IsFiniteSet(Units(TokenIds, PoolWorth))
  /\ Total(Accounts, contribution) = Total(TokenIds, PoolWorth)

\* The inductive invariant of the insurance pool.  Before initialize nobody has a
\* role, so nothing was paid nor struck out: what initialize strikes out of a
\* token's statistics is all that was contributed of it.
PoolSound ==
  /\ PoolTypeOK /\ Unmanned /\ ApprovalsCount /\ PoolBooks
  /\ ~initialized => \A t \in TokenIds : erased[t] = 0 /\ pool[t].paid = 0

\* What leaves the claims and their histories alone.
LEMMA CountUnmoved ==
  ASSUME ApprovalsCount, UNCHANGED <<claim, approved, settled>>
  PROVE  ApprovalsCount'
BY DEF ApprovalsCount, Carried, Terms

\* What leaves the books alone, and moves nothing of the contract's own.
LEMMA BooksUnmoved ==
  ASSUME PoolBooks, UNCHANGED <<contribution, erased>>,
         \A t \in TokenIds : /\ pool'[t].balance = pool[t].balance
                             /\ pool'[t].contributions = pool[t].contributions
                             /\ pool'[t].paid = pool[t].paid,
         \A u \in TokenIds : Own(u)' = Own(u)
  PROVE  PoolBooks'
<1>1. PoolWorth' = PoolWorth
  BY DEF PoolWorth
<1>2. QED BY <1>1 DEF PoolBooks

LEMMA ContributeDoes ==
  ASSUME ContractTypeOK, PoolSound, NEW c \in Accounts, NEW t \in TokenIds,
         NEW amount \in Amounts, Contribute(c, t, amount)
  PROVE  ContractTypeOK' /\ PoolSound'
<1>1. amount \in Nat
  <2>1. amount \in Int /\ amount > 0
    BY ContractAssumption DEF Contribute
  <2>2. QED BY <2>1
<1>2. /\ Moves(t, c, Vault, amount) /\ UNCHANGED <<claim, approved, settled, erased>>
      /\ contribution' = [contribution EXCEPT ![c] = @ + amount]
      /\ pool' = [pool EXCEPT ![t].exists = TRUE, ![t].balance = @ + amount,
                              ![t].contributions = @ + amount]
  BY DEF Contribute
<1>3. ContractTypeOK' /\ UNCHANGED <<initialized, roles>>
  BY <1>1, <1>2, MovesType DEF Holders, Moves
<1>4. \A u \in TokenIds : Own(u)' = Own(u) + (IF u = t THEN amount ELSE 0)
  BY <1>1, <1>2, PaidIn
<1>5. /\ pool[t] \in [exists : BOOLEAN, balance : Int, contributions : Nat, paid : Nat,
                      premium : 0..MaxPremiumBps]
      /\ contribution \in [Accounts -> Nat] /\ erased \in [TokenIds -> Nat]
  BY DEF PoolSound, PoolTypeOK
<1>6. PICK r : r = [pool[t] EXCEPT !.exists = TRUE, !.balance = @ + amount,
                                   !.contributions = @ + amount]
  OBVIOUS
<1>7. /\ r \in [exists : BOOLEAN, balance : Int, contributions : Nat, paid : Nat,
                premium : 0..MaxPremiumBps]
      /\ r.balance = pool[t].balance + amount /\ r.paid = pool[t].paid
      /\ r.contributions = pool[t].contributions + amount
  <2>1. pool[t] \in [exists : BOOLEAN, balance : Int, contributions : Nat, paid : Nat,
                     premium : 0..MaxPremiumBps]
    BY <1>5
  <2>2. /\ r.balance = pool[t].balance + amount /\ r.paid = pool[t].paid
        /\ r.contributions = pool[t].contributions + amount
        /\ r.exists = TRUE /\ r.premium = pool[t].premium
    BY <1>6, <2>1
  <2>3. /\ pool[t].balance + amount \in Int /\ pool[t].contributions + amount \in Nat
        /\ pool[t].paid \in Nat /\ pool[t].premium \in 0..MaxPremiumBps
    BY <1>1, <2>1
  <2>4. r = [exists |-> TRUE, balance |-> pool[t].balance + amount,
             contributions |-> pool[t].contributions + amount, paid |-> pool[t].paid,
             premium |-> pool[t].premium]
    BY <1>6, <2>1
  <2>5. QED BY <2>2, <2>3, <2>4
<1>8. pool' = [pool EXCEPT ![t] = r]
  BY <1>2, <1>5, <1>6 DEF PoolSound, PoolTypeOK
<1>9. PoolTypeOK'
  <2>1. pool' \in [TokenIds -> [exists : BOOLEAN, balance : Int, contributions : Nat,
                                paid : Nat, premium : 0..MaxPremiumBps]]
    BY <1>7, <1>8 DEF PoolSound, PoolTypeOK
  <2>2. contribution' \in [Accounts -> Nat]
    BY <1>1, <1>2, <1>5
  <2>3. QED BY <1>2, <2>1, <2>2 DEF PoolSound, PoolTypeOK
<1>10. pool'[t] = r /\ \A u \in TokenIds \ {t} : pool'[u] = pool[u]
  BY <1>8 DEF PoolSound, PoolTypeOK
<1>11. \A u \in TokenIds :
         /\ pool'[u].balance = pool'[u].contributions - pool'[u].paid
         /\ Own(u)' = pool'[u].balance + erased'[u]
  <2> TAKE u \in TokenIds
  <2>1. /\ pool[u].balance = pool[u].contributions - pool[u].paid
        /\ Own(u) = pool[u].balance + erased[u] /\ erased' = erased
        /\ pool[u].balance \in Int /\ pool[u].contributions \in Nat /\ pool[u].paid \in Nat
        /\ erased[u] \in Nat
    BY <1>2, <1>5 DEF PoolSound, PoolBooks, PoolTypeOK
  <2>2. CASE u = t
    BY <1>1, <1>4, <1>7, <1>10, <2>1, <2>2
  <2>3. CASE u # t
    BY <1>4, <1>10, <2>1, <2>3
  <2>4. QED BY <2>2, <2>3
<1>12. /\ IsFiniteSet(Units(Accounts, contribution'))
       /\ Total(Accounts, contribution') = Total(Accounts, contribution) + amount
       /\ Total(Accounts, contribution) \in Nat
  <2>1. /\ contribution[c] \in Nat /\ contribution'[c] = contribution[c] + amount
        /\ \A j \in Accounts \ {c} : contribution'[j] = contribution[j]
        /\ IsFiniteSet(Units(Accounts, contribution))
    BY <1>2, <1>5 DEF PoolSound, PoolBooks
  <2>2. contribution'[c] \in Nat
    BY <1>1, <2>1
  <2>3. /\ IsFiniteSet(Units(Accounts, contribution'))
        /\ Total(Accounts, contribution) \in Nat
        /\ Total(Accounts, contribution')
             = Total(Accounts, contribution) - contribution[c] + contribution'[c]
    BY <2>1, <2>2, TotalChange
  <2>4. QED BY <1>1, <2>1, <2>3
<1>13. /\ IsFiniteSet(Units(TokenIds, PoolWorth'))
       /\ Total(TokenIds, PoolWorth') = Total(TokenIds, PoolWorth) + amount
       /\ Total(TokenIds, PoolWorth) \in Nat
  <2>1. /\ PoolWorth[t] \in Nat /\ PoolWorth'[t] = PoolWorth[t] + amount
        /\ \A j \in TokenIds \ {t} : PoolWorth'[j] = PoolWorth[j]
        /\ IsFiniteSet(Units(TokenIds, PoolWorth))
    <3>1. pool[t].contributions \in Nat /\ erased[t] \in Nat /\ erased' = erased
      BY <1>2, <1>5
    <3>2. PoolWorth[t] \in Nat
      BY <3>1 DEF PoolWorth
    <3>3. PoolWorth'[t] = PoolWorth[t] + amount
      BY <1>1, <1>7, <1>10, <3>1 DEF PoolWorth
    <3>4. \A j \in TokenIds \ {t} : PoolWorth'[j] = PoolWorth[j]
      BY <1>10, <3>1 DEF PoolWorth
    <3>5. QED BY <3>2, <3>3, <3>4 DEF PoolSound, PoolBooks
  <2>2. PoolWorth'[t] \in Nat
    BY <1>1, <2>1
  <2>3. /\ IsFiniteSet(Units(TokenIds, PoolWorth')) /\ Total(TokenIds, PoolWorth) \in Nat
        /\ Total(TokenIds, PoolWorth')
             = Total(TokenIds, PoolWorth) - PoolWorth[t] + PoolWorth'[t]
    BY <2>1, <2>2, TotalChange
  <2>4. QED BY <1>1, <2>1, <2>3
<1>14. PoolBooks'
  BY <1>11, <1>12, <1>13 DEF PoolSound, PoolBooks
<1>15. ApprovalsCount'
  BY <1>2, CountUnmoved DEF PoolSound
<1>16. ~initialized' => \A u \in TokenIds : erased'[u] = 0 /\ pool'[u].paid = 0
  BY <1>2, <1>3, <1>7, <1>10 DEF PoolSound
<1>17. QED BY <1>3, <1>9, <1>14, <1>15, <1>16 DEF PoolSound, Unmanned

LEMMA InitializePoolDoes ==
  ASSUME ContractTypeOK, PoolSound, NEW c \in Accounts, NEW t \in TokenIds,
         NEW premium \in Premiums, InitializePool(c, t, premium)
  PROVE  ContractTypeOK' /\ PoolSound'
<1>1. /\ Initialize(c) /\ premium <= MaxPremiumBps
      /\ pool' = [pool EXCEPT ![t] = [NoPool EXCEPT !.exists = TRUE, !.premium = premium]]
      /\ erased' = [erased EXCEPT ![t] = pool[t].contributions]
      /\ UNCHANGED <<contribution, claim, approved, settled>>
  BY DEF InitializePool
<1>2. /\ ContractTypeOK' /\ ~initialized /\ initialized' = TRUE /\ Unmanned'
      /\ \A u \in TokenIds : Own(u)' = Own(u)
  BY <1>1, InitializeDoes
<1>3. \A u \in TokenIds : erased[u] = 0 /\ pool[u].paid = 0
  BY <1>2 DEF PoolSound
<1>4. PICK r : r = [NoPool EXCEPT !.exists = TRUE, !.premium = premium]
  OBVIOUS
<1>5. premium \in 0..MaxPremiumBps
  <2>1. premium \in Nat /\ premium <= MaxPremiumBps
    BY <1>1, PoolAssumption
  <2>2. QED BY <2>1 DEF MaxPremiumBps
<1>6. /\ r \in [exists : BOOLEAN, balance : Int, contributions : Nat, paid : Nat,
                premium : 0..MaxPremiumBps]
      /\ r.balance = 0 /\ r.paid = 0 /\ r.contributions = 0
  <2>1. r = [exists |-> TRUE, balance |-> 0, contributions |-> 0, paid |-> 0,
             premium |-> premium]
    BY <1>4 DEF NoPool
  <2>2. QED BY <1>5, <2>1
<1>7. \A u \in TokenIds :
        /\ pool[u].balance \in Int /\ pool[u].contributions \in Nat /\ pool[u].paid \in Nat
        /\ erased[u] \in Nat
  BY DEF PoolSound, PoolTypeOK
<1>8. PoolTypeOK'
  <2>1. pool' \in [TokenIds -> [exists : BOOLEAN, balance : Int, contributions : Nat,
                                paid : Nat, premium : 0..MaxPremiumBps]]
    BY <1>1, <1>4, <1>6 DEF PoolSound, PoolTypeOK
  <2>2. erased' \in [TokenIds -> Nat]
    BY <1>1, <1>7 DEF PoolSound, PoolTypeOK
  <2>3. QED BY <1>1, <2>1, <2>2 DEF PoolSound, PoolTypeOK
<1>9. /\ pool'[t] = r /\ \A u \in TokenIds \ {t} : pool'[u] = pool[u]
      /\ erased'[t] = pool[t].contributions
      /\ \A u \in TokenIds \ {t} : erased'[u] = erased[u]
  BY <1>1, <1>4 DEF PoolSound, PoolTypeOK
<1>10. PoolWorth' = PoolWorth
  <2>1. \A u \in TokenIds :
          pool'[u].contributions + erased'[u] = pool[u].contributions + erased[u]
    <3> TAKE u \in TokenIds
    <3>1. CASE u = t
      BY <1>3, <1>6, <1>7, <1>9, <3>1
    <3>2. CASE u # t
      BY <1>9, <3>2
    <3>3. QED BY <3>1, <3>2
  <2>2. QED BY <2>1 DEF PoolWorth
<1>11. \A u \in TokenIds :
         /\ pool'[u].balance = pool'[u].contributions - pool'[u].paid
         /\ Own(u)' = pool'[u].balance + erased'[u]
  <2> TAKE u \in TokenIds
  <2>1. /\ pool[u].balance = pool[u].contributions - pool[u].paid
        /\ Own(u) = pool[u].balance + erased[u]
    BY DEF PoolSound, PoolBooks
  <2>2. CASE u = t
    BY <1>2, <1>3, <1>6, <1>7, <1>9, <2>1, <2>2
  <2>3. CASE u # t
    BY <1>2, <1>9, <2>1, <2>3
  <2>4. QED BY <2>2, <2>3
<1>12. PoolBooks'
  BY <1>1, <1>10, <1>11 DEF PoolSound, PoolBooks
<1>13. ApprovalsCount'
  BY <1>1, CountUnmoved DEF PoolSound
<1>14. QED BY <1>2, <1>8, <1>12, <1>13 DEF PoolSound

LEMMA PayClaimDoes ==
  ASSUME ContractTypeOK, PoolSound, NEW c \in Accounts, NEW i \in ClaimIds, NEW t \in TokenIds,
         PayClaim(c, i, t)
  PROVE  ContractTypeOK' /\ PoolSound'
<1>1. /\ c \in roles["manager"] /\ claim[i].status = "approved"
      /\ Moves(t, Vault, claim[i].claimant, claim[i].amount)
      /\ claim' = [claim EXCEPT ![i].status = "paid"]
      /\ settled' = Append(settled, Terms(i))
      /\ UNCHANGED <<contribution, approved, erased>>
  BY DEF PayClaim, RequireRole
<1>2. claim[i].claimant \in Accounts /\ claim[i].amount \in Nat
  <2>1. claim[i] \in ClaimRecord
    BY <1>1 DEF PoolSound, PoolTypeOK, NoClaim
  <2>2. claim[i].claimant \in Accounts /\ claim[i].amount \in Int /\ claim[i].amount > 0
    BY <2>1, ContractAssumption DEF ClaimRecord
  <2>3. QED BY <2>2
<1>3. PICK amount \in Nat : amount = claim[i].amount
  BY <1>2
<1>4. PICK to \in Accounts : to = claim[i].claimant
  BY <1>2
<1>5. /\ Moves(t, Vault, to, amount)
      /\ pool' = [pool EXCEPT ![t].balance = @ - amount, ![t].paid = @ + amount]
  BY <1>1, <1>3, <1>4 DEF PayClaim
<1>6. ContractTypeOK' /\ UNCHANGED <<initialized, roles>>
  <2>1. Vault \in Holders /\ to \in Holders
    BY DEF Holders
  <2>2. QED BY <1>5, <2>1, MovesType DEF Moves
<1>7. initialized
  <2>1. "manager" \in Roles
    BY DEF Roles
  <2>2. QED BY <1>1, <2>1 DEF PoolSound, Unmanned
<1>8. \A u \in TokenIds : Own(u)' = Own(u) - (IF u = t THEN amount ELSE 0)
  BY <1>5, PaidOut
<1>9. /\ ApprovalsCount' /\ settled' \in Seq(AllTerms)
      /\ claim' \in [ClaimIds -> ClaimRecord \union {NoClaim}]
  BY <1>1, PayCounts DEF PoolSound
<1>10. /\ pool[t] \in [exists : BOOLEAN, balance : Int, contributions : Nat, paid : Nat,
                       premium : 0..MaxPremiumBps]
       /\ erased \in [TokenIds -> Nat]
  BY DEF PoolSound, PoolTypeOK
<1>11. PICK r : r = [pool[t] EXCEPT !.balance = @ - amount, !.paid = @ + amount]
  OBVIOUS
<1>12. /\ r \in [exists : BOOLEAN, balance : Int, contributions : Nat, paid : Nat,
                 premium : 0..MaxPremiumBps]
       /\ r.balance = pool[t].balance - amount /\ r.paid = pool[t].paid + amount
       /\ r.contributions = pool[t].contributions
  <2>1. pool[t] \in [exists : BOOLEAN, balance : Int, contributions : Nat, paid : Nat,
                     premium : 0..MaxPremiumBps]
    BY <1>10
  <2>2. pool[t].balance - amount \in Int /\ pool[t].paid + amount \in Nat
    BY <2>1
  <2>3. r = [exists |-> pool[t].exists, balance |-> pool[t].balance - amount,
             contributions |-> pool[t].contributions, paid |-> pool[t].paid + amount,
             premium |-> pool[t].premium]
    BY <1>11, <2>1
  <2>4. QED BY <2>1, <2>2, <2>3
<1>13. pool' = [pool EXCEPT ![t] = r]
  BY <1>5, <1>10, <1>11 DEF PoolSound, PoolTypeOK
<1>14. PoolTypeOK'
  <2>1. pool' \in [TokenIds -> [exists : BOOLEAN, balance : Int, contributions : Nat,
                                paid : Nat, premium : 0..MaxPremiumBps]]
    BY <1>12, <1>13 DEF PoolSound, PoolTypeOK
  <2>2. QED BY <1>1, <1>9, <2>1 DEF PoolSound, PoolTypeOK
<1>15. pool'[t] = r /\ \A u \in TokenIds \ {t} : pool'[u] = pool[u]
  BY <1>13 DEF PoolSound, PoolTypeOK
<1>16. PoolWorth' = PoolWorth
  <2>1. \A u \in TokenIds : pool'[u].contributions = pool[u].contributions
    BY <1>12, <1>15
  <2>2. QED BY <1>1, <2>1 DEF PoolWorth
<1>17. \A u \in TokenIds :
         /\ pool'[u].balance = pool'[u].contributions - pool'[u].paid
         /\ Own(u)' = pool'[u].balance + erased'[u]
  <2> TAKE u \in TokenIds
  <2>1. /\ pool[u].balance = pool[u].contributions - pool[u].paid
        /\ Own(u) = pool[u].balance + erased[u] /\ erased' = erased
        /\ pool[u].balance \in Int /\ pool[u].contributions \in Nat /\ pool[u].paid \in Nat
        /\ erased[u] \in Nat
    BY <1>1 DEF PoolSound, PoolBooks, PoolTypeOK
  <2>2. CASE u = t
    BY <1>8, <1>12, <1>15, <2>1, <2>2
  <2>3. CASE u # t
    BY <1>8, <1>15, <2>1, <2>3
  <2>4. QED BY <2>2, <2>3
<1>18. PoolBooks'
  BY <1>1, <1>16, <1>17 DEF PoolSound, PoolBooks
<1>19. QED BY <1>6, <1>7, <1>9, <1>14, <1>18 DEF PoolSound, Unmanned

\* What changes no token and no statistics keeps the books.
LEMMA ClaimsApart ==
  ASSUME ContractTypeOK, PoolSound, UNCHANGED <<chainVars, contribution, pool, erased>>
  PROVE  /\ ContractTypeOK' /\ Unmanned' /\ PoolBooks'
         /\ ~initialized' => \A t \in TokenIds : erased'[t] = 0 /\ pool'[t].paid = 0
<1>1. ContractTypeOK' /\ Unmanned' /\ \A u \in TokenIds : Own(u)' = Own(u)
  BY ChainKept DEF PoolSound
<1>2. PoolBooks'
  BY <1>1, BooksUnmoved DEF PoolSound
<1>3. QED BY <1>1, <1>2 DEF PoolSound, chainVars

LEMMA FileClaimDoes ==
  ASSUME ContractTypeOK, PoolSound, NEW c \in Accounts, NEW i \in ClaimIds,
         NEW amount \in Amounts, FileClaim(c, i, amount)
  PROVE  ContractTypeOK' /\ PoolSound'
<1>1. /\ amount > 0 /\ UNCHANGED <<chainVars, contribution, pool, approved, settled, erased>>
      /\ claim' = [claim EXCEPT ![i] =
           [claimant |-> c, amount |-> amount, status |-> "pending"]]
  BY DEF FileClaim
<1>2. [claimant |-> c, amount |-> amount, status |-> "pending"] \in ClaimRecord
  BY <1>1 DEF ClaimRecord
<1>3. /\ claim' \in [ClaimIds -> ClaimRecord \union {NoClaim}]
      /\ claim'[i].status = "pending" /\ \A j \in ClaimIds \ {i} : claim'[j] = claim[j]
  BY <1>1, <1>2 DEF PoolSound, PoolTypeOK
<1>4. PoolTypeOK'
  BY <1>1, <1>3 DEF PoolSound, PoolTypeOK
<1>5. \A x \in AllTerms : Carried(x)' \in SUBSET Carried(x)
  BY <1>3 DEF Carried, Terms
<1>6. ApprovalsCount'
  BY <1>1, <1>5, CountKept DEF PoolSound
<1>7. QED BY <1>1, <1>4, <1>6, ClaimsApart DEF PoolSound

LEMMA RejectClaimDoes ==
  ASSUME ContractTypeOK, PoolSound, NEW c \in Accounts, NEW i \in ClaimIds, RejectClaim(c, i)
  PROVE  ContractTypeOK' /\ PoolSound'
<1>1. /\ claim[i].status = "pending" /\ claim' = [claim EXCEPT ![i].status = "rejected"]
      /\ UNCHANGED <<chainVars, contribution, pool, approved, settled, erased>>
  BY DEF RejectClaim
<1>2. /\ claim' \in [ClaimIds -> ClaimRecord \union {NoClaim}]
      /\ claim'[i].status = "rejected" /\ \A j \in ClaimIds : Terms(j)' = Terms(j)
      /\ \A j \in ClaimIds \ {i} : claim'[j] = claim[j]
  BY <1>1, TermsKept DEF PoolSound
<1>3. PoolTypeOK'
  BY <1>1, <1>2 DEF PoolSound, PoolTypeOK
<1>4. \A x \in AllTerms : Carried(x)' \in SUBSET Carried(x)
  BY <1>2 DEF Carried
<1>5. ApprovalsCount'
  BY <1>1, <1>4, CountKept DEF PoolSound
<1>6. QED BY <1>1, <1>3, <1>5, ClaimsApart DEF PoolSound

LEMMA ApproveClaimDoes ==
  ASSUME ContractTypeOK, PoolSound, NEW c \in Accounts, NEW i \in ClaimIds, ApproveClaim(c, i)
  PROVE  ContractTypeOK' /\ PoolSound'
<1>1. PoolTypeOK' /\ ApprovalsCount'
  BY ApproveCounts DEF PoolSound
<1>2. UNCHANGED <<chainVars, contribution, pool, erased>>
  BY DEF ApproveClaim
<1>3. QED BY <1>1, <1>2, ClaimsApart DEF PoolSound

LEMMA RebalanceDoes ==
  ASSUME ContractTypeOK, PoolSound, NEW c \in Accounts, NEW t \in TokenIds,
         NEW premium \in Premiums, RebalancePool(c, t, premium)
  PROVE  ContractTypeOK' /\ PoolSound'
<1>1. /\ premium <= MaxPremiumBps /\ pool' = [pool EXCEPT ![t].premium = premium]
      /\ UNCHANGED <<chainVars, contribution, claim, approved, settled, erased>>
  BY DEF RebalancePool
<1>2. premium \in 0..MaxPremiumBps
  <2>1. premium \in Nat
    BY PoolAssumption
  <2>2. premium <= MaxPremiumBps
    BY <1>1
  <2>3. QED BY <2>1, <2>2 DEF MaxPremiumBps
<1>3. \A u \in TokenIds : /\ pool'[u].balance = pool[u].balance
                          /\ pool'[u].contributions = pool[u].contributions
                          /\ pool'[u].paid = pool[u].paid
  BY <1>1 DEF PoolSound, PoolTypeOK
<1>4. PoolTypeOK'
  BY <1>1, <1>2 DEF PoolSound, PoolTypeOK
<1>5. ContractTypeOK' /\ Unmanned' /\ \A u \in TokenIds : Own(u)' = Own(u)
  BY <1>1, ChainKept DEF PoolSound
<1>6. PoolBooks'
  BY <1>1, <1>3, <1>5, BooksUnmoved DEF PoolSound
<1>7. ApprovalsCount'
  BY <1>1, CountUnmoved DEF PoolSound
<1>8. QED BY <1>1, <1>3, <1>4, <1>5, <1>6, <1>7 DEF PoolSound, chainVars

LEMMA PoolKept ==
  ASSUME PoolSound, ContractTypeOK', UNCHANGED poolVars, initialized' = initialized, Unmanned',
         \A u \in TokenIds : Own(u)' = Own(u)
  PROVE  PoolSound'
<1>1. UNCHANGED <<contribution, pool, claim, approved, settled, erased>>
  BY DEF poolVars
<1>2. PoolBooks'
  BY <1>1, BooksUnmoved DEF PoolSound
<1>3. ApprovalsCount'
  BY <1>1, CountUnmoved DEF PoolSound
<1>4. PoolTypeOK'
  BY <1>1 DEF PoolSound, PoolTypeOK
<1>5. QED BY <1>1, <1>2, <1>3, <1>4 DEF PoolSound

LEMMA PoolStep ==
  ASSUME ContractTypeOK, PoolSound, PoolNext
  PROVE  ContractTypeOK' /\ PoolSound'
<1>1. CASE Administer(TRUE, "admin") /\ UNCHANGED poolVars
  <2>1. "admin" \in Roles
    BY DEF Roles
  <2>2. /\ ContractTypeOK' /\ initialized' = initialized /\ Unmanned'
        /\ \A u \in TokenIds : Own(u)' = Own(u)
    BY <1>1, <2>1, AdministerDoes DEF PoolSound
  <2>3. QED BY <1>1, <2>2, PoolKept
<1>2. ASSUME NEW c \in Deployers, NEW t \in TokenIds, NEW p \in Premiums, InitializePool(c, t, p)
      PROVE  ContractTypeOK' /\ PoolSound'
  <2>1. c \in Accounts
    BY ContractAssumption
  <2>2. QED BY <1>2, <2>1, InitializePoolDoes
<1>3. ASSUME NEW c \in Accounts, NEW t \in TokenIds, NEW p \in Premiums, RebalancePool(c, t, p)
      PROVE  ContractTypeOK' /\ PoolSound'
  BY <1>3, RebalanceDoes
<1>4. ASSUME NEW c \in Accounts, NEW t \in TokenIds, NEW a \in Amounts, Contribute(c, t, a)
      PROVE  ContractTypeOK' /\ PoolSound'
  BY <1>4, ContributeDoes
<1>5. ASSUME NEW c \in Accounts, NEW i \in ClaimIds, NEW a \in Amounts, FileClaim(c, i, a)
      PROVE  ContractTypeOK' /\ PoolSound'
  BY <1>5, FileClaimDoes
<1>6. ASSUME NEW c \in Accounts, NEW i \in ClaimIds, ApproveClaim(c, i) \/ RejectClaim(c, i)
      PROVE  ContractTypeOK' /\ PoolSound'
  BY <1>6, ApproveClaimDoes, RejectClaimDoes
<1>7. ASSUME NEW c \in Accounts, NEW i \in ClaimIds, NEW t \in TokenIds, PayClaim(c, i, t)
      PROVE  ContractTypeOK' /\ PoolSound'
  BY <1>7, PayClaimDoes
<1>8. QED BY <1>1, <1>2, <1>3, <1>4, <1>5, <1>6, <1>7 DEF PoolNext

LEMMA PoolStart ==
  ASSUME NEW funded, ContractInit(funded), PoolInit
  PROVE  PoolSound
<1>1. PoolTypeOK
  <2>1. pool \in [TokenIds -> [exists : BOOLEAN, balance : Int, contributions : Nat,
                               paid : Nat, premium : 0..MaxPremiumBps]]
    BY DEF PoolInit, NoPool, MaxPremiumBps
  <2>2. approved \in Seq(AllTerms) /\ settled \in Seq(AllTerms)
    BY DEF PoolInit
  <2>3. QED BY <2>1, <2>2 DEF PoolInit, PoolTypeOK
<1>2. ApprovalsCount
  <2> SUFFICES ASSUME NEW x \in AllTerms
               PROVE  Times(settled, x) + Cardinality(Carried(x)) <= Times(approved, x)
    BY DEF ApprovalsCount
  <2>1. Carried(x) = {}
    BY DEF Carried, PoolInit, NoClaim
  <2>2. Cardinality({}) = 0
    BY FS_EmptySet
  <2>3. settled = approved /\ Times(approved, x) \in Nat
    BY <1>1, TimesAppended DEF PoolInit, PoolTypeOK
  <2>4. QED BY <2>1, <2>2, <2>3
<1>3. PoolBooks
  <2>1. \A t \in TokenIds : pool[t] = NoPool /\ erased[t] = 0 /\ Own(t) = 0
    BY ContractStart DEF PoolInit
  <2>2. Units(Accounts, contribution) = {} /\ Units(TokenIds, PoolWorth) = {}
    BY <2>1 DEF PoolInit, Units, PoolWorth, NoPool
  <2>3. IsFiniteSet({})
    BY FS_EmptySet
  <2>4. QED BY <2>1, <2>2, <2>3 DEF PoolBooks, Total, NoPool
<1>4. QED BY <1>1, <1>2, <1>3, ContractStart DEF PoolSound, PoolInit, NoPool

-----------------------------------------------------------------------------
(* Pauses *)

\* Where a pause freezes the roles and a pauser lifts it, no call of an
\* administrator or pauser leaves the contract paused without one.
LEMMA AdministerLifts ==
  ASSUME ContractTypeOK, PauseCanBeLifted, Administer(TRUE, "pauser")
  PROVE  PauseCanBeLifted'
<1>1. CASE \E c \in Donors, t \in TokenIds, a \in Amounts : Donate(c, t, a)
  BY <1>1 DEF Donate, PauseCanBeLifted
<1>2. CASE \E c \in Accounts, p \in Powers :
             GrantRole(c, p[1], p[2], TRUE) \/ RevokeRole(c, p[1], p[2], TRUE)
  BY <1>2 DEF GrantRole, RevokeRole, PauseCanBeLifted
<1>3. CASE \E c \in Accounts : SetPaused(c, "pauser", TRUE) \/ SetPaused(c, "pauser", FALSE)
  BY <1>3 DEF SetPaused, RequireRole, PauseCanBeLifted
<1>4. QED BY <1>1, <1>2, <1>3 DEF Administer

LEMMA InitializeLifts ==
  ASSUME ContractTypeOK, PauseCanBeLifted, NEW c, Initialize(c)
  PROVE  PauseCanBeLifted'
BY DEF Initialize, PauseCanBeLifted, ContractTypeOK, Roles

LEMMA ChainLifts ==
  ASSUME PauseCanBeLifted, UNCHANGED <<paused, roles>>
  PROVE  PauseCanBeLifted'
BY DEF PauseCanBeLifted

-----------------------------------------------------------------------------
(* Job registry *)

\* A job as it may be stored.
JobOK(j) ==
  /\ j \in JobRecord /\ Cardinality(j.worker) <= 1
  /\ j.status \in {"assigned", "completed", "disputed"} => j.worker # {}

\* The inductive invariant of the job registry.
RegistrySound == RegistryTypeOK /\ PauseCanBeLifted

LEMMA JobWritten ==
  ASSUME ContractTypeOK, RegistrySound, NEW i \in JobIds, NEW j, JobOK(j),
         registered' = [registered EXCEPT ![i] = j], UNCHANGED chainVars
  PROVE  ContractTypeOK' /\ RegistrySound'
<1>1. j \in JobRecord
  BY DEF JobOK
<1>2. registered' \in [JobIds -> JobRecord \union {NoJob}]
  BY <1>1 DEF RegistrySound, RegistryTypeOK
<1>3. \A k \in JobIds : HasJob(k)' =>
        /\ Cardinality(registered'[k].worker) <= 1
        /\ registered'[k].status \in {"assigned", "completed", "disputed"}
             => registered'[k].worker # {}
  <2> TAKE k \in JobIds
  <2>1. CASE k = i
    <3>1. registered'[k] = j
      BY <2>1 DEF RegistrySound, RegistryTypeOK
    <3>2. QED BY <3>1 DEF JobOK
  <2>2. CASE k # i
    <3>1. registered'[k] = registered[k]
      BY <2>2 DEF RegistrySound, RegistryTypeOK
    <3>2. QED BY <3>1 DEF RegistrySound, RegistryTypeOK, HasJob
  <2>3. QED BY <2>1, <2>2
<1>4. ContractTypeOK' /\ PauseCanBeLifted'
  BY ChainKept, ChainLifts DEF RegistrySound, chainVars
<1>5. QED BY <1>2, <1>3, <1>4 DEF RegistrySound, RegistryTypeOK

\* A job whose status changes keeps its poster and its worker.
LEMMA JobBecomes ==
  ASSUME ContractTypeOK, RegistrySound, NEW i \in JobIds, HasJob(i),
         NEW status \in {"completed", "cancelled", "disputed"},
         status # "cancelled" => registered[i].status = "assigned", BecomesJob(i, status)
  PROVE  ContractTypeOK' /\ RegistrySound'
<1>1. /\ registered[i] \in JobRecord /\ Cardinality(registered[i].worker) <= 1
      /\ registered[i].status = "assigned" => registered[i].worker # {}
  BY DEF RegistrySound, RegistryTypeOK, HasJob
<1>2. PICK j : j = [registered[i] EXCEPT !.status = status]
  OBVIOUS
<1>3. j \in JobRecord /\ j.worker = registered[i].worker /\ j.status = status
  BY <1>1, <1>2 DEF JobRecord
<1>4. JobOK(j)
  BY <1>1, <1>3 DEF JobOK
<1>5. registered' = [registered EXCEPT ![i] = j] /\ UNCHANGED chainVars
  BY <1>2 DEF BecomesJob, RegistrySound, RegistryTypeOK
<1>6. QED BY <1>4, <1>5, JobWritten

LEMMA PostJobDoes ==
  ASSUME ContractTypeOK, RegistrySound, NEW c \in Accounts, NEW i \in JobIds, NEW b,
         PostJob(c, i, b)
  PROVE  ContractTypeOK' /\ RegistrySound'
<1>1. PICK j : j = [poster |-> c, worker |-> {}, status |-> "open"]
  OBVIOUS
<1>2. j \in JobRecord /\ j.worker = {} /\ j.status = "open"
  BY <1>1 DEF JobRecord
<1>3. JobOK(j)
  BY <1>2, FS_EmptySet DEF JobOK
<1>4. registered' = [registered EXCEPT ![i] = j] /\ UNCHANGED chainVars
  BY <1>1 DEF PostJob
<1>5. QED BY <1>3, <1>4, JobWritten

LEMMA AssignWorkerDoes ==
  ASSUME ContractTypeOK, RegistrySound, NEW c \in Accounts, NEW i \in JobIds,
         NEW w \in Accounts, AssignWorker(c, i, w)
  PROVE  ContractTypeOK' /\ RegistrySound'
<1>1. registered[i] \in JobRecord
  BY DEF AssignWorker, RegistrySound, RegistryTypeOK, HasJob
<1>2. PICK j : j = [registered[i] EXCEPT !.worker = {w}, !.status = "assigned"]
  OBVIOUS
<1>3. j \in JobRecord /\ j.worker = {w} /\ j.status = "assigned"
  BY <1>1, <1>2 DEF JobRecord
<1>4. JobOK(j)
  <2>1. Cardinality({w}) = 1
    BY FS_Singleton
  <2>2. QED BY <1>3, <2>1 DEF JobOK
<1>5. registered' = [registered EXCEPT ![i] = j] /\ UNCHANGED chainVars
  BY <1>2 DEF AssignWorker, RegistrySound, RegistryTypeOK
<1>6. QED BY <1>4, <1>5, JobWritten

LEMMA RegistryStep ==
  ASSUME ContractTypeOK, RegistrySound, RegistryNext
  PROVE  ContractTypeOK' /\ RegistrySound'
<1>1. ASSUME registered' = registered PROVE RegistryTypeOK'
  BY <1>1 DEF RegistrySound, RegistryTypeOK, HasJob
<1>2. CASE Administer(TRUE, "pauser") /\ UNCHANGED registered
  <2>1. "pauser" \in Roles
    BY DEF Roles
  <2>2. QED BY <1>1, <1>2, <2>1, AdministerDoes, AdministerLifts DEF RegistrySound
<1>3. ASSUME NEW c \in Deployers, Initialize(c), registered' = registered
      PROVE  ContractTypeOK' /\ RegistrySound'
  <2>1. c \in Accounts
    BY ContractAssumption
  <2>2. QED BY <1>1, <1>3, <2>1, InitializeDoes, InitializeLifts DEF RegistrySound
<1>4. ASSUME NEW c \in Accounts, NEW i \in JobIds, NEW b \in Amounts, PostJob(c, i, b)
      PROVE  ContractTypeOK' /\ RegistrySound'
  BY <1>4, PostJobDoes
<1>5. ASSUME NEW c \in Accounts, NEW i \in JobIds, NEW w \in Accounts, AssignWorker(c, i, w)
      PROVE  ContractTypeOK' /\ RegistrySound'
  BY <1>5, AssignWorkerDoes
<1>6. ASSUME NEW c \in Accounts, NEW i \in JobIds,
             CompleteJob(c, i) \/ CancelJob(c, i) \/ DisputeJob(c, i)
      PROVE  ContractTypeOK' /\ RegistrySound'
  <2>1. CASE CompleteJob(c, i)
    BY <2>1, JobBecomes DEF CompleteJob
  <2>2. CASE CancelJob(c, i)
    BY <2>2, JobBecomes DEF CancelJob
  <2>3. CASE DisputeJob(c, i)
    BY <2>3, JobBecomes DEF DisputeJob
  <2>4. QED BY <1>6, <2>1, <2>2, <2>3
<1>7. QED BY <1>2, <1>3, <1>4, <1>5, <1>6 DEF RegistryNext

LEMMA RegistryStart ==
  ASSUME NEW funded, ContractInit(funded), RegistryInit
  PROVE  RegistrySound
<1>1. RegistryTypeOK
  BY DEF RegistryInit, RegistryTypeOK, HasJob
<1>2. QED BY <1>1 DEF RegistrySound, PauseCanBeLifted, ContractInit

-----------------------------------------------------------------------------
(* Reputation *)

\* The reviews since the reset.
Last(w) == (Len(reviews[w]) - record[w].count + 1)..Len(reviews[w])

\* A worker's record follows from the reviews since the reset.  That their sum is
\* bounded by their number bounds the mean.
RecordFollows(w) ==
  /\ record[w].count <= Len(reviews[w])
  /\ IsFiniteSet(Units(Last(w), reviews[w])) /\ record[w].sum = Total(Last(w), reviews[w])
  /\ record[w].sum <= MaxScore * record[w].count
  /\ record[w].score * record[w].count <= record[w].sum
  /\ record[w].count = 0 => record[w].score = 0

\* The inductive invariant of the reputation contract.
ReputationSound ==
  /\ ReputationTypeOK /\ PauseCanBeLifted
  /\ \A w \in WorkerIds : RecordFollows(w)

LEMMA MeanIsPart ==
  ASSUME NEW sum \in Nat, NEW count \in Nat \ {0}, sum <= 10000 * count
  PROVE  /\ sum \div count \in Nat /\ sum \div count <= 10000
         /\ (sum \div count) * count <= sum
<1>1. PICK q \in Int : q = sum \div count
  OBVIOUS
<1>2. q * count <= sum /\ sum < (q + 1) * count
  BY <1>1
<1>3. q >= 0
  BY <1>1
<1>4. q <= 10000
  BY <1>1
<1>5. QED BY <1>1, <1>2, <1>3, <1>4

LEMMA LowerScore ==
  ASSUME NEW score \in Nat, NEW lower \in 0..score, NEW count \in Nat
  PROVE  lower * count <= score * count
OBVIOUS

LEMMA ScoresNat ==
  /\ MaxScore \in Nat
  /\ \A x \in 0..MaxScore : x \in Nat /\ x <= MaxScore
  /\ \A x \in Nat : x <= MaxScore => x \in 0..MaxScore
<1>1. MaxScore \in Nat
  BY DEF MaxScore
<1>2. QED BY <1>1

LEMMA RecordTyped ==
  ASSUME ReputationSound, NEW w \in WorkerIds
  PROVE  /\ record[w] \in [score : 0..MaxScore, count : 0..MaxReviews, sum : Nat,
                           badges : SUBSET Badges]
         /\ record[w].score \in Nat /\ record[w].score <= MaxScore
         /\ record[w].count \in Nat /\ record[w].sum \in Nat
<1>1. record[w] \in [score : 0..MaxScore, count : 0..MaxReviews, sum : Nat,
                     badges : SUBSET Badges]
  BY DEF ReputationSound, ReputationTypeOK
<1>2. /\ record[w].score \in 0..MaxScore /\ record[w].count \in 0..MaxReviews
      /\ record[w].sum \in Nat
  BY <1>1
<1>3. record[w].count \in Nat
  BY <1>2, ReputationAssumption
<1>4. QED BY <1>1, <1>2, <1>3, ScoresNat

\* A record that changes for one worker leaves the others as they were.
LEMMA OthersFollow ==
  ASSUME ReputationSound, NEW w \in WorkerIds, NEW v \in WorkerIds \ {w},
         record'[v] = record[v], reviews'[v] = reviews[v]
  PROVE  RecordFollows(v)'
BY DEF ReputationSound, RecordFollows, Last

\* A step that leaves a worker's reviews and their sum, and raises no score.
LEMMA RecordChanges ==
  ASSUME ContractTypeOK, ReputationSound, NEW w \in WorkerIds, NEW r,
         r \in [score : 0..MaxScore, count : 0..MaxReviews, sum : Nat, badges : SUBSET Badges],
         r.count = record[w].count, r.sum = record[w].sum, r.score <= record[w].score,
         record' = [record EXCEPT ![w] = r], UNCHANGED <<chainVars, reviews>>
  PROVE  ContractTypeOK' /\ ReputationSound'
<1>1. ContractTypeOK' /\ PauseCanBeLifted'
  BY ChainKept, ChainLifts DEF ReputationSound, chainVars
<1>2. ReputationTypeOK'
  BY DEF ReputationSound, ReputationTypeOK
<1>3. record'[w] = r /\ \A v \in WorkerIds \ {w} : record'[v] = record[v]
  BY DEF ReputationSound, ReputationTypeOK
<1>4. \A v \in WorkerIds \ {w} : RecordFollows(v)'
  BY <1>3, OthersFollow
<1>5. RecordFollows(w) /\ Last(w)' = Last(w)
  BY <1>3 DEF ReputationSound, Last
<1>6. r.score * r.count <= r.sum /\ (r.count = 0 => r.score = 0)
  <2>1. PICK score \in Nat, count \in Nat, lower \in Nat, sum \in Nat :
          /\ lower <= score /\ score = record[w].score /\ count = record[w].count /\ lower = r.score
          /\ sum = record[w].sum
    <3>1. r.score \in 0..MaxScore
      OBVIOUS
    <3>2. r.score \in Nat
      BY <3>1, ScoresNat
    <3>3. record[w].score \in Nat /\ record[w].count \in Nat /\ record[w].sum \in Nat
      BY RecordTyped
    <3>4. QED BY <3>2, <3>3
  <2>2. score * count <= sum /\ (count = 0 => score = 0)
    BY <1>5, <2>1 DEF RecordFollows
  <2>3. lower * count <= score * count
    <3>1. lower \in 0..score
      BY <2>1
    <3>2. QED BY <3>1, LowerScore
  <2>4. lower * count \in Nat /\ score * count \in Nat
    OBVIOUS
  <2>5. lower * count <= sum
    BY <2>2, <2>3, <2>4
  <2>6. r.count = count /\ r.sum = sum /\ r.score = lower
    BY <2>1
  <2>7. count = 0 => lower = 0
    BY <2>1, <2>2
  <2>8. QED BY <2>5, <2>6, <2>7
<1>7. RecordFollows(w)'
  BY <1>3, <1>5, <1>6 DEF RecordFollows
<1>8. QED BY <1>1, <1>2, <1>4, <1>7 DEF ReputationSound

LEMMA SlashDoes ==
  ASSUME ContractTypeOK, ReputationSound, NEW c \in Accounts, NEW w \in WorkerIds,
         NEW slash \in Ratings, SlashReputation(c, w, slash)
  PROVE  ContractTypeOK' /\ ReputationSound'
<1>1. record[w] \in [score : 0..MaxScore, count : 0..MaxReviews, sum : Nat,
                     badges : SUBSET Badges]
  BY DEF ReputationSound, ReputationTypeOK
<1>2. PICK score : score = IF record[w].score > slash THEN record[w].score - slash ELSE 0
  OBVIOUS
<1>3. score \in 0..MaxScore /\ score <= record[w].score
  <2>1. slash \in Nat
    BY ReputationAssumption
  <2>2. record[w].score \in Nat /\ record[w].score <= MaxScore /\ MaxScore \in Nat
    BY RecordTyped, ScoresNat
  <2>3. CASE record[w].score > slash
    BY <1>2, <2>1, <2>2, <2>3
  <2>4. CASE ~(record[w].score > slash)
    BY <1>2, <2>2, <2>4
  <2>5. QED BY <2>3, <2>4
<1>4. PICK r : r = [record[w] EXCEPT !.score = score]
  OBVIOUS
<1>5. /\ r \in [score : 0..MaxScore, count : 0..MaxReviews, sum : Nat, badges : SUBSET Badges]
      /\ r.count = record[w].count /\ r.sum = record[w].sum /\ r.score = score
  BY <1>1, <1>3, <1>4
<1>6. record' = [record EXCEPT ![w] = r] /\ UNCHANGED <<chainVars, reviews>>
  BY <1>2, <1>4 DEF SlashReputation, ReputationSound, ReputationTypeOK
<1>7. QED BY <1>3, <1>5, <1>6, RecordChanges

LEMMA BadgeDoes ==
  ASSUME ContractTypeOK, ReputationSound, NEW c \in Accounts, NEW w \in WorkerIds,
         NEW badge \in Badges, AwardBadge(c, w, badge) \/ RevokeBadge(c, w, badge)
  PROVE  ContractTypeOK' /\ ReputationSound'
<1>1. record[w] \in [score : 0..MaxScore, count : 0..MaxReviews, sum : Nat,
                     badges : SUBSET Badges]
  BY DEF ReputationSound, ReputationTypeOK
<1>2. PICK badges \in SUBSET Badges :
        record' = [record EXCEPT ![w].badges = badges] /\ UNCHANGED <<chainVars, reviews>>
  <2>1. record[w].badges \union {badge} \in SUBSET Badges
    BY <1>1
  <2>2. record[w].badges \ {badge} \in SUBSET Badges
    BY <1>1
  <2>3. QED BY <2>1, <2>2 DEF AwardBadge, RevokeBadge
<1>3. PICK r : r = [record[w] EXCEPT !.badges = badges]
  OBVIOUS
<1>4. /\ r \in [score : 0..MaxScore, count : 0..MaxReviews, sum : Nat, badges : SUBSET Badges]
      /\ r.count = record[w].count /\ r.sum = record[w].sum /\ r.score = record[w].score
  BY <1>1, <1>3
<1>5. record' = [record EXCEPT ![w] = r]
  BY <1>2, <1>3 DEF ReputationSound, ReputationTypeOK
<1>6. r.score <= record[w].score
  <2>1. record[w].score \in Nat
    BY RecordTyped
  <2>2. QED BY <1>4, <2>1
<1>7. QED BY <1>2, <1>4, <1>5, <1>6, RecordChanges

LEMMA ResetDoes ==
  ASSUME ContractTypeOK, ReputationSound, NEW c \in Accounts, NEW w \in WorkerIds,
         ResetReputation(c, w)
  PROVE  ContractTypeOK' /\ ReputationSound'
<1>1. record[w] \in [score : 0..MaxScore, count : 0..MaxReviews, sum : Nat,
                     badges : SUBSET Badges]
  BY DEF ReputationSound, ReputationTypeOK
<1>2. PICK r : r = [record[w] EXCEPT !.score = 0, !.count = 0, !.sum = 0]
  OBVIOUS
<1>3. /\ r \in [score : 0..MaxScore, count : 0..MaxReviews, sum : Nat, badges : SUBSET Badges]
      /\ r.count = 0 /\ r.sum = 0 /\ r.score = 0
  <2>1. 0 \in 0..MaxReviews /\ 0 \in 0..MaxScore
    BY ReputationAssumption, ScoresNat
  <2>2. QED BY <1>1, <1>2, <2>1
<1>4. record' = [record EXCEPT ![w] = r] /\ UNCHANGED <<chainVars, reviews>>
  BY <1>2 DEF ResetReputation, ReputationSound, ReputationTypeOK
<1>5. ContractTypeOK' /\ PauseCanBeLifted'
  BY <1>4, ChainKept, ChainLifts DEF ReputationSound, chainVars
<1>6. ReputationTypeOK'
  BY <1>3, <1>4 DEF ReputationSound, ReputationTypeOK
<1>7. record'[w] = r /\ \A v \in WorkerIds \ {w} : record'[v] = record[v]
  BY <1>4 DEF ReputationSound, ReputationTypeOK
<1>8. \A v \in WorkerIds \ {w} : RecordFollows(v)'
  BY <1>4, <1>7, OthersFollow
<1>9. RecordFollows(w)'
  <2>1. Len(reviews[w]) \in Nat /\ reviews' = reviews
    BY <1>4 DEF ReputationSound, ReputationTypeOK
  <2>2. Last(w)' = {}
    BY <1>3, <1>7, <2>1 DEF Last
  <2>3. /\ IsFiniteSet(Units(Last(w)', reviews'[w])) /\ Total(Last(w)', reviews'[w]) = 0
    BY <2>2, TotalEmpty
  <2>4. QED BY <1>3, <1>7, <2>1, <2>3 DEF RecordFollows, MaxScore
<1>10. QED BY <1>5, <1>6, <1>8, <1>9 DEF ReputationSound

LEMMA SubmitDoes ==
  ASSUME ContractTypeOK, ReputationSound, NEW c \in Accounts, NEW w \in WorkerIds,
         NEW rating \in Ratings, SubmitReview(c, w, rating)
  PROVE  ContractTypeOK' /\ ReputationSound'
<1>1. /\ record[w] \in [score : 0..MaxScore, count : 0..MaxReviews, sum : Nat,
                        badges : SUBSET Badges]
      /\ reviews[w] \in Seq(0..MaxScore)
  BY DEF ReputationSound, ReputationTypeOK
<1>2. PICK n \in Nat, k \in Nat, s \in Nat :
        n = Len(reviews[w]) /\ k = record[w].count /\ s = record[w].sum
  BY <1>1
<1>3. /\ k <= n /\ Last(w) = (n - k + 1)..n /\ IsFiniteSet(Units(Last(w), reviews[w]))
      /\ s = Total(Last(w), reviews[w]) /\ s <= 10000 * k
  BY <1>2 DEF ReputationSound, RecordFollows, Last, MaxScore
<1>4. rating \in Nat /\ rating <= 10000 /\ rating \in 0..MaxScore /\ n < MaxReviews
  <2>1. rating \in Nat
    BY ReputationAssumption
  <2>2. rating <= MaxScore /\ Len(reviews[w]) < MaxReviews
    BY DEF SubmitReview
  <2>3. rating \in 0..MaxScore
    BY <2>1, <2>2, ScoresNat
  <2>4. QED BY <1>2, <2>1, <2>2, <2>3 DEF MaxScore
<1>5. PICK mean : mean = (s + rating) \div (k + 1)
  OBVIOUS
<1>6. mean \in Nat /\ mean <= MaxScore /\ mean * (k + 1) <= s + rating
  <2>1. s <= 10000 * k /\ rating \in Nat /\ rating <= 10000
    BY <1>3, <1>4
  <2>2. PICK a \in Nat, b \in Nat \ {0} : a = s + rating /\ b = k + 1
    BY <2>1
  <2>3. a <= 10000 * b
    BY <2>1, <2>2
  <2>4. a \div b \in Nat /\ a \div b <= 10000 /\ (a \div b) * b <= a
    BY <2>3, MeanIsPart
  <2>5. mean = a \div b
    BY <1>5, <2>2
  <2>6. QED BY <2>2, <2>4, <2>5 DEF MaxScore
<1>7. PICK r : r = [record[w] EXCEPT !.count = k + 1, !.sum = s + rating, !.score = mean]
  OBVIOUS
<1>8. /\ r \in [score : 0..MaxScore, count : 0..MaxReviews, sum : Nat, badges : SUBSET Badges]
      /\ r.count = k + 1 /\ r.sum = s + rating /\ r.score = mean
  <2>1. k + 1 \in 0..MaxReviews /\ s + rating \in Nat /\ mean \in 0..MaxScore
    BY <1>3, <1>4, <1>6, ReputationAssumption, ScoresNat
  <2>2. QED BY <1>1, <1>7, <2>1
<1>9. /\ record' = [record EXCEPT ![w] = r] /\ UNCHANGED chainVars
      /\ reviews' = [reviews EXCEPT ![w] = Append(reviews[w], rating)]
  BY <1>2, <1>5, <1>7 DEF SubmitReview, ReputationSound, ReputationTypeOK
<1>10. ContractTypeOK' /\ PauseCanBeLifted'
  BY <1>9, ChainKept, ChainLifts DEF ReputationSound, chainVars
<1>11. PICK q : q = Append(reviews[w], rating)
  OBVIOUS
<1>12. /\ q \in Seq(0..MaxScore) /\ Len(q) = n + 1 /\ q[n + 1] = rating
       /\ \A j \in 1..n : q[j] = reviews[w][j]
  BY <1>1, <1>2, <1>4, <1>11
<1>13. ReputationTypeOK'
  BY <1>8, <1>9, <1>11, <1>12 DEF ReputationSound, ReputationTypeOK
<1>14. /\ record'[w] = r /\ \A v \in WorkerIds \ {w} : record'[v] = record[v]
       /\ reviews'[w] = q /\ \A v \in WorkerIds \ {w} : reviews'[v] = reviews[v]
  BY <1>9, <1>11 DEF ReputationSound, ReputationTypeOK
<1>15. \A v \in WorkerIds \ {w} : RecordFollows(v)'
  BY <1>14, OthersFollow
<1>16. Last(w)' = Last(w) \cup {n + 1} /\ n + 1 \notin Last(w)
  <2>1. Last(w)' = (n + 1 - (k + 1) + 1)..(n + 1)
    BY <1>8, <1>12, <1>14 DEF Last
  <2>2. QED BY <1>3, <2>1
<1>17. /\ IsFiniteSet(Units(Last(w) \cup {n + 1}, q))
       /\ Total(Last(w) \cup {n + 1}, q) = Total(Last(w), reviews[w]) + q[n + 1]
  <2>1. q[n + 1] \in Nat /\ \A j \in Last(w) : q[j] = reviews[w][j]
    BY <1>3, <1>4, <1>12
  <2>2. n + 1 \notin Last(w) /\ IsFiniteSet(Units(Last(w), reviews[w]))
    BY <1>3, <1>16
  <2>3. PICK i : i = n + 1
    OBVIOUS
  <2>4. /\ IsFiniteSet(Units(Last(w) \cup {i}, q))
        /\ Total(Last(w) \cup {i}, q) = Total(Last(w), reviews[w]) + q[i]
    BY <2>1, <2>2, <2>3, TotalAdd
  <2>5. QED BY <2>3, <2>4
<1>18. RecordFollows(w)'
  <2>1. /\ r.count <= n + 1 /\ r.sum <= MaxScore * r.count
        /\ r.score * r.count <= r.sum /\ r.count # 0
    <3>1. k <= n /\ s <= 10000 * k /\ rating \in Nat /\ rating <= 10000
      BY <1>3, <1>4
    <3>2. k + 1 <= n + 1 /\ s + rating <= 10000 * (k + 1) /\ k + 1 # 0
      BY <3>1
    <3>3. QED BY <1>6, <1>8, <3>2 DEF MaxScore
  <2>2. r.sum = Total(Last(w)', q) /\ IsFiniteSet(Units(Last(w)', q))
    BY <1>3, <1>8, <1>12, <1>16, <1>17
  <2>3. QED BY <1>12, <1>14, <2>1, <2>2 DEF RecordFollows
<1>19. QED BY <1>10, <1>13, <1>15, <1>18 DEF ReputationSound

LEMMA ReputationKept ==
  ASSUME ReputationSound, UNCHANGED reputationVars, PauseCanBeLifted'
  PROVE  ReputationSound'
BY DEF ReputationSound, reputationVars, ReputationTypeOK, RecordFollows, Last

LEMMA ReputationStep ==
  ASSUME ContractTypeOK, ReputationSound, ReputationNext
  PROVE  ContractTypeOK' /\ ReputationSound'
<1>1. CASE Administer(TRUE, "pauser") /\ UNCHANGED reputationVars
  <2>1. "pauser" \in Roles
    BY DEF Roles
  <2>2. ContractTypeOK' /\ PauseCanBeLifted'
    BY <1>1, <2>1, AdministerDoes, AdministerLifts DEF ReputationSound
  <2>3. QED BY <1>1, <2>2, ReputationKept
<1>2. ASSUME NEW c \in Deployers, Initialize(c), UNCHANGED reputationVars
      PROVE  ContractTypeOK' /\ ReputationSound'
  <2>1. c \in Accounts
    BY ContractAssumption
  <2>2. ContractTypeOK' /\ PauseCanBeLifted'
    BY <1>2, <2>1, InitializeDoes, InitializeLifts DEF ReputationSound
  <2>3. QED BY <1>2, <2>2, ReputationKept
<1>3. ASSUME NEW c \in Accounts, NEW w \in WorkerIds, ResetReputation(c, w)
      PROVE  ContractTypeOK' /\ ReputationSound'
  BY <1>3, ResetDoes
<1>4. ASSUME NEW c \in Accounts, NEW w \in WorkerIds, NEW r \in Ratings,
             SubmitReview(c, w, r) \/ SlashReputation(c, w, r)
      PROVE  ContractTypeOK' /\ ReputationSound'
  BY <1>4, SubmitDoes, SlashDoes
<1>5. ASSUME NEW c \in Accounts, NEW w \in WorkerIds, NEW b \in Badges,
             AwardBadge(c, w, b) \/ RevokeBadge(c, w, b)
      PROVE  ContractTypeOK' /\ ReputationSound'
  BY <1>5, BadgeDoes
<1>6. QED BY <1>1, <1>2, <1>3, <1>4, <1>5 DEF ReputationNext

LEMMA ReputationStart ==
  ASSUME NEW funded, ContractInit(funded), ReputationInit
  PROVE  ReputationSound
<1>1. ReputationTypeOK
  <2>1. 0 \in 0..MaxReviews /\ 0 \in 0..MaxScore
    BY ReputationAssumption, ScoresNat
  <2>2. QED BY <2>1 DEF ReputationInit, ReputationTypeOK
<1>2. ASSUME NEW w \in WorkerIds PROVE RecordFollows(w)
  <2>1. /\ Len(reviews[w]) = 0 /\ record[w].count = 0 /\ record[w].sum = 0
        /\ record[w].score = 0
    BY DEF ReputationInit
  <2>2. Last(w) = {}
    BY <2>1 DEF Last
  <2>3. IsFiniteSet(Units(Last(w), reviews[w])) /\ Total(Last(w), reviews[w]) = 0
    BY <2>2, TotalEmpty
  <2>4. QED BY <2>1, <2>3 DEF RecordFollows, MaxScore
<1>3. QED BY <1>1, <1>2 DEF ReputationSound, PauseCanBeLifted, ContractInit

-----------------------------------------------------------------------------
(* Worker registry *)

StakeRecord == [token : SUBSET TokenIds, amount : Nat, rewards : Nat,
                requestedAt : 0..MaxSeconds, since : 0..MaxSeconds]

StakesIn(t) == {i \in ProfileIds : t \in stakeInfo[i].token}
StakeWorth  == [i \in ProfileIds |-> Staked(i)]

StakeBooks ==
  \A t \in TokenIds : /\ IsFiniteSet(Units(StakesIn(t), StakeWorth))
                      /\ Own(t) + rewarded[t] = Total(StakesIn(t), StakeWorth) + strayed[t]

\* A stake is of one token, and made and asked back in the past.
StakesFollow ==
  \A i \in ProfileIds :
    /\ profile[i].staked \in {0, Staked(i)}
    /\ \A t, u \in stakeInfo[i].token : t = u
    /\ stakeInfo[i].since <= seconds
    /\ stakeInfo[i].requestedAt # 0 => stakeInfo[i].requestedAt >= stakeInfo[i].since

\* The inductive invariant of the worker registry.
WorkersSound == WorkersTypeOK /\ PauseCanBeLifted /\ StakeBooks /\ StakesFollow

\* What leaves the stakes alone, and moves nothing of the contract's own.
LEMMA StakesKept ==
  ASSUME StakeBooks, UNCHANGED <<stakeInfo, rewarded, strayed>>,
         \A t \in TokenIds : Own(t)' = Own(t)
  PROVE  StakeBooks'
<1>1. StakeWorth' = StakeWorth /\ \A t \in TokenIds : StakesIn(t)' = StakesIn(t)
  BY DEF StakeWorth, StakesIn, Staked
<1>2. QED BY <1>1 DEF StakeBooks

\* What touches neither money nor stakes.
LEMMA ProfilesApart ==
  ASSUME ContractTypeOK, WorkersSound, UNCHANGED chainVars,
         UNCHANGED <<stakeInfo, seconds, rewarded, strayed>>,
         \A i \in ProfileIds : profile'[i].staked \in {0, profile[i].staked}
  PROVE  ContractTypeOK' /\ PauseCanBeLifted' /\ StakeBooks' /\ StakesFollow'
<1>1. /\ ContractTypeOK' /\ PauseCanBeLifted' /\ \A t \in TokenIds : Own(t)' = Own(t)
  BY ChainKept, ChainLifts DEF WorkersSound, chainVars
<1>2. StakeBooks'
  BY <1>1, StakesKept DEF WorkersSound
<1>3. StakesFollow'
  BY DEF WorkersSound, StakesFollow, Staked
<1>4. QED BY <1>1, <1>2, <1>3

LEMMA CuratorsDo ==
  ASSUME ContractTypeOK, WorkersSound, NEW c \in Accounts, NEW k \in Curators,
         AddCurator(c, k) \/ RemoveCurator(c, k)
  PROVE  ContractTypeOK' /\ WorkersSound'
<1>1. k \in Accounts
  BY RegistryAssumption
<1>2. PICK list \in SUBSET Accounts : SetCurators(c, list)
  BY <1>1 DEF AddCurator, RemoveCurator, WorkersSound, WorkersTypeOK
<1>3. /\ curators' \in SUBSET Accounts
      /\ UNCHANGED <<chainVars, chief, profile, listed, counted, stakeInfo, seconds, rewarded, strayed>>
  BY <1>2 DEF SetCurators
<1>4. WorkersTypeOK'
  BY <1>3 DEF WorkersSound, WorkersTypeOK, Live
<1>5. \A i \in ProfileIds : profile'[i].staked \in {0, profile[i].staked}
  BY <1>3
<1>6. QED BY <1>3, <1>4, <1>5, ProfilesApart DEF WorkersSound

\* The list is finite, and it is as long as its entries are in all.
LEMMA ListFinite ==
  ASSUME NEW l \in [ProfileIds -> 0..MaxListed]
  PROVE  IsFiniteSet(Units(ProfileIds, l)) /\ Total(ProfileIds, l) \in Nat
<1>1. IsFiniteSet(ProfileIds) /\ IsFiniteSet(1..MaxListed)
  BY RegistryAssumption, FS_Interval
<1>2. IsFiniteSet(ProfileIds \X (1..MaxListed))
  BY <1>1, FS_Product
<1>3. Units(ProfileIds, l) \subseteq ProfileIds \X (1..MaxListed)
  BY RegistryAssumption DEF Units
<1>4. QED BY <1>2, <1>3, FS_Subset, TotalNat

\* A list that has every entry of another is as long or longer.
LEMMA LongerList ==
  ASSUME NEW l \in [ProfileIds -> 0..MaxListed], NEW m \in [ProfileIds -> 0..MaxListed],
         \A i \in ProfileIds : l[i] <= m[i]
  PROVE  Total(ProfileIds, l) <= Total(ProfileIds, m)
<1>1. IsFiniteSet(Units(ProfileIds, m))
  BY ListFinite
<1>2. Units(ProfileIds, l) \subseteq Units(ProfileIds, m)
  BY RegistryAssumption DEF Units
<1>3. QED BY <1>1, <1>2, FS_Subset DEF Total

LEMMA EnlistDoes ==
  ASSUME ContractTypeOK, WorkersSound, NEW S \in SUBSET ProfileIds, NEW owners \in [S -> Owners],
         Enlist(owners),
         \/ counted' = counted
         \/ \E i \in ProfileIds : S = {i} /\ counted' = counted + 1
  PROVE  ContractTypeOK' /\ WorkersSound'
<1>1. /\ profile' = [i \in ProfileIds |->
           IF i \in S THEN [owner |-> {owners[i]}, staked |-> 0] ELSE profile[i]]
      /\ listed' = [i \in ProfileIds |-> listed[i] + IF i \in S THEN 1 ELSE 0]
      /\ \A i \in ProfileIds : listed'[i] <= MaxListed
      /\ UNCHANGED <<chainVars, chief, curators, stakeInfo, seconds, rewarded, strayed>>
  BY DEF Enlist
<1>2. \A i \in ProfileIds :
        /\ profile[i] \in [owner : SUBSET Accounts, staked : Nat] /\ listed[i] \in Nat
        /\ Live(i) => listed[i] > 0
  BY RegistryAssumption DEF WorkersSound, WorkersTypeOK
<1>3. \A i \in S : owners[i] \in Accounts
  BY RegistryAssumption
<1>4. \A i \in ProfileIds : profile'[i] \in [owner : SUBSET Accounts, staked : Nat]
  <2> TAKE i \in ProfileIds
  <2>1. CASE i \in S
    BY <1>1, <1>3, <2>1
  <2>2. CASE i \notin S
    BY <1>1, <1>2, <2>2
  <2>3. QED BY <2>1, <2>2
<1>5. profile' \in [ProfileIds -> [owner : SUBSET Accounts, staked : Nat]]
  BY <1>1, <1>4
<1>6. \A i \in ProfileIds : listed'[i] \in 0..MaxListed /\ (Live(i)' => listed'[i] > 0)
  <2> TAKE i \in ProfileIds
  <2>1. CASE i \in S
    <3>1. listed'[i] = listed[i] + 1
      BY <1>1, <2>1
    <3>2. QED BY <1>1, <1>2, <3>1, RegistryAssumption
  <2>2. CASE i \notin S
    <3>1. listed'[i] = listed[i] /\ profile'[i] = profile[i]
      BY <1>1, <1>2, <2>2
    <3>2. listed'[i] \in 0..MaxListed
      BY <1>1, <1>2, <3>1, RegistryAssumption
    <3>3. QED BY <1>2, <3>1, <3>2 DEF Live
  <2>3. QED BY <2>1, <2>2
<1>7. listed' \in [ProfileIds -> 0..MaxListed]
  BY <1>1, <1>6
<1>a. counted' \in 0..Total(ProfileIds, listed')
  <2>1. listed \in [ProfileIds -> 0..MaxListed] /\ counted \in 0..Total(ProfileIds, listed)
    BY DEF WorkersSound, WorkersTypeOK
  <2>2. Total(ProfileIds, listed) \in Nat /\ Total(ProfileIds, listed') \in Nat
        /\ IsFiniteSet(Units(ProfileIds, listed))
    BY <1>7, <2>1, ListFinite
  <2>3. CASE counted' = counted
    <3>1. \A i \in ProfileIds : listed[i] <= listed'[i]
      BY <1>1, <1>2
    <3>2. Total(ProfileIds, listed) <= Total(ProfileIds, listed')
      BY <1>7, <2>1, <3>1, LongerList
    <3>3. QED BY <2>1, <2>2, <2>3, <3>2
  <2>4. ASSUME NEW i \in ProfileIds, S = {i}, counted' = counted + 1
        PROVE  counted' \in 0..Total(ProfileIds, listed')
    <3>1. listed'[i] = listed[i] + 1 /\ listed[i] \in Nat /\ listed'[i] \in Nat
          /\ \A k \in ProfileIds \ {i} : listed'[k] = listed[k]
      BY <1>1, <1>2, <2>4
    <3>2. Total(ProfileIds, listed') = Total(ProfileIds, listed) - listed[i] + listed'[i]
      BY <2>2, <3>1, TotalChange
    <3>3. QED BY <2>1, <2>2, <2>4, <3>1, <3>2
  <2>5. QED BY <2>3, <2>4
<1>8. WorkersTypeOK'
  BY <1>1, <1>5, <1>6, <1>7, <1>a DEF WorkersSound, WorkersTypeOK
<1>9. \A i \in ProfileIds : profile'[i].staked \in {0, profile[i].staked}
  BY <1>1
<1>10. QED BY <1>1, <1>8, <1>9, ProfilesApart DEF WorkersSound

LEMMA DeregisterDoes ==
  ASSUME ContractTypeOK, WorkersSound, NEW c \in Accounts, NEW i \in ProfileIds, Deregister(c, i)
  PROVE  ContractTypeOK' /\ WorkersSound'
<1>1. /\ Live(i) /\ profile' = [profile EXCEPT ![i] = NoProfile]
      /\ listed' = [listed EXCEPT ![i] = @ - 1]
      /\ counted' = IF counted > 0 THEN counted - 1 ELSE 0
      /\ UNCHANGED <<chainVars, chief, curators, stakeInfo, seconds, rewarded, strayed>>
  BY DEF Deregister, Owns, Live
<1>2. /\ listed \in [ProfileIds -> 0..MaxListed] /\ listed[i] > 0
      /\ profile \in [ProfileIds -> [owner : SUBSET Accounts, staked : Nat]]
  BY <1>1 DEF WorkersSound, WorkersTypeOK
<1>3. NoProfile \in [owner : SUBSET Accounts, staked : Nat]
  BY DEF NoProfile
<1>4. profile' \in [ProfileIds -> [owner : SUBSET Accounts, staked : Nat]]
  BY <1>1, <1>2, <1>3
<1>5. listed' \in [ProfileIds -> 0..MaxListed]
  BY <1>1, <1>2, RegistryAssumption
<1>6. \A k \in ProfileIds : Live(k)' => listed'[k] > 0
  <2> TAKE k \in ProfileIds
  <2>1. CASE k = i
    BY <1>1, <1>2, <2>1 DEF Live, NoProfile
  <2>2. CASE k # i
    <3>1. listed'[k] = listed[k] /\ profile'[k] = profile[k]
      BY <1>1, <1>2, <2>2
    <3>2. QED BY <3>1 DEF Live, WorkersSound, WorkersTypeOK
  <2>3. QED BY <2>1, <2>2
<1>a. counted' \in 0..Total(ProfileIds, listed')
  <2>1. counted \in 0..Total(ProfileIds, listed)
    BY DEF WorkersSound, WorkersTypeOK
  <2>2. Total(ProfileIds, listed) \in Nat /\ Total(ProfileIds, listed') \in Nat
        /\ IsFiniteSet(Units(ProfileIds, listed))
    BY <1>2, <1>5, ListFinite
  <2>3. listed'[i] = listed[i] - 1 /\ listed[i] \in Nat /\ listed'[i] \in Nat
        /\ \A k \in ProfileIds \ {i} : listed'[k] = listed[k]
    BY <1>1, <1>2, <1>5, RegistryAssumption
  <2>4. Total(ProfileIds, listed') = Total(ProfileIds, listed) - listed[i] + listed'[i]
    BY <2>2, <2>3, TotalChange
  <2>5. QED BY <1>1, <2>1, <2>2, <2>3, <2>4
<1>7. WorkersTypeOK'
  BY <1>1, <1>4, <1>5, <1>6, <1>a DEF WorkersSound, WorkersTypeOK
<1>8. \A k \in ProfileIds : profile'[k].staked \in {0, profile[k].staked}
  BY <1>1, <1>2 DEF NoProfile
<1>9. QED BY <1>1, <1>7, <1>8, ProfilesApart DEF WorkersSound

LEMMA SecondDoes ==
  ASSUME ContractTypeOK, WorkersSound, Second
  PROVE  ContractTypeOK' /\ WorkersSound'
<1>1. /\ seconds < MaxSeconds /\ seconds' = seconds + 1 /\ UNCHANGED chainVars
      /\ UNCHANGED <<chief, curators, profile, listed, counted, stakeInfo, rewarded, strayed>>
  BY DEF Second
<1>2. ContractTypeOK' /\ PauseCanBeLifted' /\ \A t \in TokenIds : Own(t)' = Own(t)
  BY <1>1, ChainKept, ChainLifts DEF WorkersSound, chainVars
<1>3. seconds \in Nat /\ seconds' \in 1..MaxSeconds
  BY <1>1, RegistryAssumption DEF WorkersSound, WorkersTypeOK
<1>4. WorkersTypeOK'
  BY <1>1, <1>3 DEF WorkersSound, WorkersTypeOK, Live
<1>5. StakesFollow'
  <2>1. \A i \in ProfileIds : stakeInfo[i].since \in 0..MaxSeconds
    BY DEF WorkersSound, WorkersTypeOK
  <2>2. \A i \in ProfileIds : stakeInfo[i].since <= seconds'
    BY <1>1, <1>3, <2>1, RegistryAssumption DEF WorkersSound, StakesFollow
  <2>3. QED BY <1>1, <2>2 DEF WorkersSound, StakesFollow, Staked
<1>6. QED BY <1>1, <1>2, <1>4, <1>5, StakesKept DEF WorkersSound

LEMMA RequestDoes ==
  ASSUME ContractTypeOK, WorkersSound, NEW c \in Accounts, NEW i \in ProfileIds,
         RequestUnstake(c, i)
  PROVE  ContractTypeOK' /\ WorkersSound'
<1>1. /\ stakeInfo' = [stakeInfo EXCEPT ![i].requestedAt = seconds]
      /\ UNCHANGED <<chainVars, chief, curators, profile, listed, counted, seconds, rewarded, strayed>>
  BY DEF RequestUnstake
<1>2. stakeInfo[i] \in StakeRecord /\ seconds \in 1..MaxSeconds
  BY DEF WorkersSound, WorkersTypeOK, StakeRecord
<1>3. PICK s : s = [stakeInfo[i] EXCEPT !.requestedAt = seconds]
  OBVIOUS
<1>4. /\ s \in StakeRecord /\ s.token = stakeInfo[i].token /\ s.amount = stakeInfo[i].amount
      /\ s.since = stakeInfo[i].since /\ s.requestedAt = seconds
  <2>1. seconds \in 0..MaxSeconds
    BY <1>2, RegistryAssumption
  <2>2. QED BY <1>2, <1>3, <2>1 DEF StakeRecord
<1>5. stakeInfo' = [stakeInfo EXCEPT ![i] = s]
  BY <1>1, <1>3 DEF WorkersSound, WorkersTypeOK
<1>6. /\ stakeInfo' \in [ProfileIds -> StakeRecord] /\ stakeInfo'[i] = s
      /\ \A k \in ProfileIds \ {i} : stakeInfo'[k] = stakeInfo[k]
  BY <1>4, <1>5 DEF WorkersSound, WorkersTypeOK, StakeRecord
<1>7. WorkersTypeOK'
  BY <1>1, <1>6 DEF WorkersSound, WorkersTypeOK, Live, StakeRecord
<1>8. ContractTypeOK' /\ PauseCanBeLifted' /\ \A t \in TokenIds : Own(t)' = Own(t)
  BY <1>1, ChainKept, ChainLifts DEF WorkersSound, chainVars
<1>9. \A k \in ProfileIds : /\ stakeInfo'[k].token = stakeInfo[k].token
                            /\ stakeInfo'[k].amount = stakeInfo[k].amount
                            /\ stakeInfo'[k].since = stakeInfo[k].since
  BY <1>4, <1>6
<1>10. StakeBooks'
  <2>1. StakeWorth' = StakeWorth /\ \A t \in TokenIds : StakesIn(t)' = StakesIn(t)
    BY <1>9 DEF StakeWorth, StakesIn, Staked
  <2>2. QED BY <1>1, <1>8, <2>1 DEF WorkersSound, StakeBooks
<1>11. StakesFollow'
  <2>1. s.since <= seconds
    BY <1>4 DEF WorkersSound, StakesFollow
  <2>2. s.since \in Int /\ seconds \in Int
    BY <1>2, <1>4, RegistryAssumption DEF StakeRecord
  <2>3. \A k \in ProfileIds : stakeInfo'[k].requestedAt # 0
                                => stakeInfo'[k].requestedAt >= stakeInfo'[k].since
    BY <1>4, <1>6, <2>1, <2>2 DEF WorkersSound, StakesFollow
  <2>4. QED BY <1>1, <1>9, <2>3 DEF WorkersSound, StakesFollow, Staked
<1>12. QED BY <1>7, <1>8, <1>10, <1>11 DEF WorkersSound

LEMMA ShareNat ==
  ASSUME NEW a \in Nat, NEW d \in Nat, NEW scale \in Nat \ {0}
  PROVE  (a * d) \div scale \in Nat
<1>1. PICK m \in Nat : m = a * d
  OBVIOUS
<1>2. QED BY <1>1

LEMMA AccruedNat ==
  ASSUME WorkersSound, NEW i \in ProfileIds
  PROVE  Accrued(i) \in Nat
<1>1. stakeInfo[i] \in StakeRecord /\ seconds \in Nat
  BY RegistryAssumption DEF WorkersSound, WorkersTypeOK, StakeRecord
<1>2. /\ stakeInfo[i].amount \in Nat /\ stakeInfo[i].rewards \in Nat
      /\ stakeInfo[i].since \in Nat
  BY <1>1, RegistryAssumption DEF StakeRecord
<1>3. stakeInfo[i].since <= seconds
  BY DEF WorkersSound, StakesFollow
<1>4. PICK a \in Nat, d \in Nat, r \in Nat :
        /\ a = stakeInfo[i].amount /\ d = seconds - stakeInfo[i].since
        /\ r = stakeInfo[i].rewards
  <2>1. seconds - stakeInfo[i].since \in Nat
    BY <1>1, <1>2, <1>3
  <2>2. QED BY <1>2, <2>1
<1>5. (a * d) \div RewardScale \in Nat
  BY ShareNat, RegistryAssumption
<1>6. Accrued(i) = r + (a * d) \div RewardScale
  BY <1>4 DEF Accrued, Staked
<1>7. QED BY <1>5, <1>6

LEMMA StakeDoes ==
  ASSUME ContractTypeOK, WorkersSound, NEW c \in Accounts, NEW i \in ProfileIds,
         NEW t \in TokenIds, NEW amount \in Amounts, Stake(c, i, t, amount)
  PROVE  ContractTypeOK' /\ WorkersSound'
<1>1. amount \in Nat
  <2>1. amount \in Int /\ amount > 0
    BY ContractAssumption DEF Stake
  <2>2. QED BY <2>1
<1>2. stakeInfo[i] \in StakeRecord /\ seconds \in 0..MaxSeconds /\ Staked(i) \in Nat
  BY RegistryAssumption DEF WorkersSound, WorkersTypeOK, StakeRecord, Staked
<1>3. PICK token : token = IF stakeInfo[i] = NoStake THEN {t} ELSE stakeInfo[i].token
  OBVIOUS
<1>4. /\ token \in SUBSET TokenIds /\ stakeInfo[i].token \in SUBSET token
      /\ \A u \in token : u \in stakeInfo[i].token \/ (u = t /\ Staked(i) = 0)
      /\ \A u, v \in token : u = v
  <2>1. CASE stakeInfo[i] = NoStake
    <3>1. token = {t} /\ stakeInfo[i].token = {} /\ Staked(i) = 0
      BY <1>3, <2>1 DEF NoStake, Staked
    <3>2. QED BY <3>1
  <2>2. CASE stakeInfo[i] # NoStake
    <3>1. token = stakeInfo[i].token
      BY <1>3, <2>2
    <3>2. QED BY <1>2, <3>1 DEF StakeRecord, WorkersSound, StakesFollow
  <2>3. QED BY <2>1, <2>2
<1>5. PICK s : s = [token |-> token, amount |-> Staked(i) + amount, requestedAt |-> 0,
                    rewards |-> Accrued(i), since |-> seconds]
  OBVIOUS
<1>6. /\ s \in StakeRecord /\ s.token = token /\ s.amount = Staked(i) + amount
      /\ s.requestedAt = 0 /\ s.since = seconds
  <2>1. 0 \in 0..MaxSeconds /\ Accrued(i) \in Nat /\ Staked(i) + amount \in Nat
    BY <1>1, <1>2, AccruedNat, RegistryAssumption
  <2>2. QED BY <1>2, <1>4, <1>5, <2>1 DEF StakeRecord
<1>7. /\ Moves(t, c, Vault, amount) /\ stakeInfo' = [stakeInfo EXCEPT ![i] = s]
      /\ profile' = [profile EXCEPT ![i].staked = Staked(i) + amount]
      /\ strayed' = [u \in TokenIds |-> strayed[u] + (IF u = t THEN amount ELSE 0)
                                                   - (IF u \in token THEN amount ELSE 0)]
      /\ UNCHANGED <<chief, curators, listed, counted, seconds, rewarded>>
  BY <1>3, <1>5 DEF Stake
<1>8. ContractTypeOK' /\ PauseCanBeLifted' /\ UNCHANGED <<initialized, roles, paused>>
  <2>1. c \in Holders /\ Vault \in Holders
    BY DEF Holders
  <2>2. QED BY <1>1, <1>7, <2>1, MovesType, ChainLifts DEF Moves, WorkersSound
<1>9. \A u \in TokenIds : Own(u)' = Own(u) + (IF u = t THEN amount ELSE 0)
  BY <1>1, <1>7, PaidIn
<1>10. /\ stakeInfo' \in [ProfileIds -> StakeRecord] /\ stakeInfo'[i] = s
       /\ \A k \in ProfileIds \ {i} : stakeInfo'[k] = stakeInfo[k]
  BY <1>6, <1>7 DEF WorkersSound, WorkersTypeOK, StakeRecord
<1>11. /\ profile' \in [ProfileIds -> [owner : SUBSET Accounts, staked : Nat]]
       /\ profile'[i].staked = Staked(i) + amount
       /\ \A k \in ProfileIds : profile'[k].owner = profile[k].owner
       /\ \A k \in ProfileIds \ {i} : profile'[k] = profile[k]
  <2>1. Staked(i) + amount \in Nat
    BY <1>1, <1>2
  <2>2. profile \in [ProfileIds -> [owner : SUBSET Accounts, staked : Nat]]
    BY DEF WorkersSound, WorkersTypeOK
  <2>3. QED BY <1>7, <2>1, <2>2
<1>12. \A u \in TokenIds : strayed[u] \in Int /\ strayed'[u] \in Int
  <2>1. \A u \in TokenIds : strayed[u] \in Int
    BY DEF WorkersSound, WorkersTypeOK
  <2>2. QED BY <1>1, <1>7, <2>1
<1>13. WorkersTypeOK'
  <2>1. strayed' \in [TokenIds -> Int]
    BY <1>7, <1>12
  <2>2. \A k \in ProfileIds : Live(k)' => listed'[k] > 0
    BY <1>7, <1>11 DEF Live, WorkersSound, WorkersTypeOK
  <2>3. QED BY <1>7, <1>10, <1>11, <2>1, <2>2 DEF WorkersSound, WorkersTypeOK, StakeRecord
<1>14. StakesFollow'
  <2>1. \A k \in ProfileIds \ {i} : Staked(k)' = Staked(k)
    BY <1>10 DEF Staked
  <2>2. Staked(i)' = Staked(i) + amount /\ s.since <= seconds
    BY <1>2, <1>6, <1>10, RegistryAssumption DEF Staked
  <2>3. ASSUME NEW k \in ProfileIds \ {i}
        PROVE  /\ profile'[k].staked \in {0, Staked(k)'}
               /\ \A u, v \in stakeInfo'[k].token : u = v
               /\ stakeInfo'[k].since <= seconds'
               /\ stakeInfo'[k].requestedAt # 0
                    => stakeInfo'[k].requestedAt >= stakeInfo'[k].since
    BY <1>7, <1>10, <1>11, <2>1 DEF WorkersSound, StakesFollow
  <2>4. /\ profile'[i].staked \in {0, Staked(i)'}
        /\ \A u, v \in stakeInfo'[i].token : u = v
        /\ stakeInfo'[i].since <= seconds'
        /\ stakeInfo'[i].requestedAt # 0
             => stakeInfo'[i].requestedAt >= stakeInfo'[i].since
    BY <1>4, <1>6, <1>7, <1>10, <1>11, <2>2
  <2>5. QED BY <2>3, <2>4 DEF StakesFollow
<1>15. /\ StakeWorth[i] = Staked(i) /\ StakeWorth'[i] = Staked(i) + amount
       /\ \A k \in ProfileIds \ {i} : StakeWorth'[k] = StakeWorth[k]
  BY <1>6, <1>10 DEF StakeWorth, Staked
<1>16. ASSUME NEW u \in TokenIds
       PROVE  /\ IsFiniteSet(Units(StakesIn(u)', StakeWorth'))
              /\ Total(StakesIn(u), StakeWorth) \in Nat
              /\ Total(StakesIn(u)', StakeWorth')
                   = Total(StakesIn(u), StakeWorth) + (IF u \in token THEN amount ELSE 0)
  <2>1. IsFiniteSet(Units(StakesIn(u), StakeWorth)) /\ Total(StakesIn(u), StakeWorth) \in Nat
    BY TotalNat DEF WorkersSound, StakeBooks
  <2>2. CASE u \in stakeInfo[i].token
    <3>1. StakesIn(u)' = StakesIn(u) /\ i \in StakesIn(u) /\ u \in token
      BY <1>4, <1>6, <1>10, <2>2 DEF StakesIn
    <3>2. /\ StakeWorth[i] \in Nat /\ StakeWorth'[i] \in Nat
          /\ \A k \in StakesIn(u) \ {i} : StakeWorth'[k] = StakeWorth[k]
      BY <1>1, <1>2, <1>15 DEF StakesIn
    <3>3. /\ IsFiniteSet(Units(StakesIn(u), StakeWorth'))
          /\ Total(StakesIn(u), StakeWorth')
               = Total(StakesIn(u), StakeWorth) - StakeWorth[i] + StakeWorth'[i]
      BY <2>1, <3>1, <3>2, TotalChange
    <3>4. QED BY <1>1, <1>2, <1>15, <2>1, <3>1, <3>3
  <2>3. CASE u \notin stakeInfo[i].token /\ u \in token
    <3>1. StakesIn(u)' = StakesIn(u) \cup {i} /\ i \notin StakesIn(u) /\ Staked(i) = 0
      BY <1>4, <1>6, <1>10, <2>3 DEF StakesIn
    <3>2. StakeWorth'[i] \in Nat /\ \A k \in StakesIn(u) : StakeWorth'[k] = StakeWorth[k]
      BY <1>1, <1>2, <1>15, <3>1 DEF StakesIn
    <3>3. /\ IsFiniteSet(Units(StakesIn(u) \cup {i}, StakeWorth'))
          /\ Total(StakesIn(u) \cup {i}, StakeWorth')
               = Total(StakesIn(u), StakeWorth) + StakeWorth'[i]
      BY <2>1, <3>1, <3>2, TotalAdd
    <3>4. QED BY <1>1, <1>2, <1>15, <2>1, <2>3, <3>1, <3>3
  <2>4. CASE u \notin token
    <3>1. StakesIn(u)' = StakesIn(u) /\ i \notin StakesIn(u)
      BY <1>4, <1>6, <1>10, <2>4 DEF StakesIn
    <3>2. \A k \in StakesIn(u) : StakeWorth'[k] = StakeWorth[k]
      BY <1>15, <3>1 DEF StakesIn
    <3>3. /\ Units(StakesIn(u), StakeWorth') = Units(StakesIn(u), StakeWorth)
          /\ Total(StakesIn(u), StakeWorth') = Total(StakesIn(u), StakeWorth)
      BY <3>2, TotalSame
    <3>4. QED BY <2>1, <2>4, <3>1, <3>3
  <2>5. QED BY <2>2, <2>3, <2>4
<1>17. StakeBooks'
  <2> SUFFICES ASSUME NEW u \in TokenIds
               PROVE  Own(u)' + rewarded'[u] = Total(StakesIn(u)', StakeWorth') + strayed'[u]
    BY <1>16 DEF StakeBooks
  <2>1. PICK o \in Int, r \in Nat, n \in Nat, x \in Int :
          /\ o = Own(u) /\ r = rewarded[u] /\ n = Total(StakesIn(u), StakeWorth)
          /\ x = strayed[u] /\ o + r = n + x
    <3>1. Own(u) \in Int /\ rewarded[u] \in Nat /\ strayed[u] \in Int
      BY OwnIsInt DEF WorkersSound, WorkersTypeOK
    <3>2. QED BY <1>16, <3>1 DEF WorkersSound, StakeBooks
  <2>2. PICK a \in Nat, b \in Nat : /\ a = IF u = t THEN amount ELSE 0
                                    /\ b = IF u \in token THEN amount ELSE 0
    BY <1>1
  <2>3. Own(u)' = o + a /\ Total(StakesIn(u)', StakeWorth') = n + b
    BY <1>9, <1>16, <2>1, <2>2
  <2>4. rewarded'[u] = r /\ strayed'[u] = x + a - b
    BY <1>7, <2>1, <2>2
  <2>5. QED BY <2>1, <2>3, <2>4
<1>18. QED BY <1>8, <1>13, <1>14, <1>17 DEF WorkersSound

LEMMA UnstakeDoes ==
  ASSUME ContractTypeOK, WorkersSound, NEW c \in Accounts, NEW i \in ProfileIds, Unstake(c, i)
  PROVE  ContractTypeOK' /\ WorkersSound'
<1>1. stakeInfo[i] \in StakeRecord /\ Staked(i) \in Nat /\ Accrued(i) \in Nat
  BY AccruedNat DEF WorkersSound, WorkersTypeOK, StakeRecord, Staked
<1>2. PICK t \in stakeInfo[i].token :
        /\ Moves(t, Vault, c, Staked(i) + Accrued(i))
        /\ rewarded' = [rewarded EXCEPT ![t] = @ + Accrued(i)]
  BY DEF Unstake
<1>3. /\ stakeInfo' = [stakeInfo EXCEPT ![i].amount = 0, ![i].rewards = 0, ![i].requestedAt = 0]
      /\ profile' = [profile EXCEPT ![i].staked = 0]
      /\ UNCHANGED <<chief, curators, listed, counted, seconds, strayed>>
  BY DEF Unstake
<1>4. t \in TokenIds /\ stakeInfo[i].token = {t}
  BY <1>1 DEF StakeRecord, WorkersSound, StakesFollow
<1>5. PICK p \in Nat, q \in Nat : p = Staked(i) /\ q = Accrued(i)
  BY <1>1
<1>6. p + q \in Nat /\ Moves(t, Vault, c, p + q) /\ rewarded' = [rewarded EXCEPT ![t] = @ + q]
  BY <1>2, <1>5
<1>7. ContractTypeOK' /\ PauseCanBeLifted' /\ UNCHANGED <<initialized, roles, paused>>
  <2>1. c \in Holders /\ Vault \in Holders
    BY DEF Holders
  <2>2. QED BY <1>4, <1>6, <2>1, MovesType, ChainLifts DEF Moves, WorkersSound
<1>8. \A u \in TokenIds : Own(u)' = Own(u) - (IF u = t THEN p + q ELSE 0)
  BY <1>4, <1>6, PaidOut
<1>9. PICK s : s = [stakeInfo[i] EXCEPT !.amount = 0, !.rewards = 0, !.requestedAt = 0]
  OBVIOUS
<1>10. /\ s \in StakeRecord /\ s.token = {t} /\ s.amount = 0 /\ s.requestedAt = 0
       /\ s.since = stakeInfo[i].since
  <2>1. 0 \in 0..MaxSeconds
    BY RegistryAssumption
  <2>2. QED BY <1>1, <1>4, <1>9, <2>1 DEF StakeRecord
<1>11. stakeInfo' = [stakeInfo EXCEPT ![i] = s]
  BY <1>3, <1>9 DEF WorkersSound, WorkersTypeOK
<1>12. /\ stakeInfo' \in [ProfileIds -> StakeRecord] /\ stakeInfo'[i] = s
       /\ \A k \in ProfileIds \ {i} : stakeInfo'[k] = stakeInfo[k]
  BY <1>10, <1>11 DEF WorkersSound, WorkersTypeOK, StakeRecord
<1>13. /\ profile' \in [ProfileIds -> [owner : SUBSET Accounts, staked : Nat]]
       /\ profile'[i].staked = 0
       /\ \A k \in ProfileIds : profile'[k].owner = profile[k].owner
       /\ \A k \in ProfileIds \ {i} : profile'[k] = profile[k]
  <2>1. profile \in [ProfileIds -> [owner : SUBSET Accounts, staked : Nat]]
    BY DEF WorkersSound, WorkersTypeOK
  <2>2. QED BY <1>3, <2>1
<1>14. WorkersTypeOK'
  <2>1. rewarded' \in [TokenIds -> Nat]
    BY <1>6 DEF WorkersSound, WorkersTypeOK
  <2>2. \A k \in ProfileIds : Live(k)' => listed'[k] > 0
    BY <1>3, <1>13 DEF Live, WorkersSound, WorkersTypeOK
  <2>3. QED BY <1>3, <1>12, <1>13, <2>1, <2>2 DEF WorkersSound, WorkersTypeOK, StakeRecord
<1>15. StakesFollow'
  <2>1. \A k \in ProfileIds \ {i} : Staked(k)' = Staked(k)
    BY <1>12 DEF Staked
  <2>2. ASSUME NEW k \in ProfileIds \ {i}
        PROVE  /\ profile'[k].staked \in {0, Staked(k)'}
               /\ \A u, v \in stakeInfo'[k].token : u = v
               /\ stakeInfo'[k].since <= seconds'
               /\ stakeInfo'[k].requestedAt # 0
                    => stakeInfo'[k].requestedAt >= stakeInfo'[k].since
    BY <1>3, <1>12, <1>13, <2>1 DEF WorkersSound, StakesFollow
  <2>3. /\ profile'[i].staked \in {0, Staked(i)'}
        /\ \A u, v \in stakeInfo'[i].token : u = v
        /\ stakeInfo'[i].since <= seconds'
        /\ stakeInfo'[i].requestedAt = 0
    BY <1>3, <1>10, <1>12, <1>13 DEF WorkersSound, StakesFollow
  <2>4. QED BY <2>2, <2>3 DEF StakesFollow
<1>16. /\ StakeWorth[i] = p /\ StakeWorth'[i] = 0
       /\ \A k \in ProfileIds \ {i} : StakeWorth'[k] = StakeWorth[k]
       /\ \A u \in TokenIds : StakesIn(u)' = StakesIn(u)
  <2>1. \A k \in ProfileIds : stakeInfo'[k].token = stakeInfo[k].token
    BY <1>4, <1>10, <1>12
  <2>2. QED BY <1>5, <1>10, <1>12, <2>1 DEF StakeWorth, Staked, StakesIn
<1>17. ASSUME NEW u \in TokenIds
       PROVE  /\ IsFiniteSet(Units(StakesIn(u)', StakeWorth'))
              /\ Total(StakesIn(u), StakeWorth) \in Nat
              /\ Total(StakesIn(u)', StakeWorth')
                   = Total(StakesIn(u), StakeWorth) - (IF u = t THEN p ELSE 0)
  <2>1. IsFiniteSet(Units(StakesIn(u), StakeWorth)) /\ Total(StakesIn(u), StakeWorth) \in Nat
    BY TotalNat DEF WorkersSound, StakeBooks
  <2>2. CASE u = t
    <3>1. i \in StakesIn(u)
      BY <1>4, <2>2 DEF StakesIn
    <3>2. /\ StakeWorth[i] \in Nat /\ StakeWorth'[i] \in Nat
          /\ \A k \in StakesIn(u) \ {i} : StakeWorth'[k] = StakeWorth[k]
      BY <1>16 DEF StakesIn
    <3>3. /\ IsFiniteSet(Units(StakesIn(u), StakeWorth'))
          /\ Total(StakesIn(u), StakeWorth')
               = Total(StakesIn(u), StakeWorth) - StakeWorth[i] + StakeWorth'[i]
      BY <2>1, <3>1, <3>2, TotalChange
    <3>4. QED BY <1>16, <2>1, <2>2, <3>3
  <2>3. CASE u # t
    <3>1. \A k \in StakesIn(u) : StakeWorth'[k] = StakeWorth[k]
      BY <1>4, <1>16, <2>3 DEF StakesIn
    <3>2. /\ Units(StakesIn(u), StakeWorth') = Units(StakesIn(u), StakeWorth)
          /\ Total(StakesIn(u), StakeWorth') = Total(StakesIn(u), StakeWorth)
      BY <3>1, TotalSame
    <3>3. QED BY <1>16, <2>1, <2>3, <3>2
  <2>4. QED BY <2>2, <2>3
<1>18. StakeBooks'
  <2> SUFFICES ASSUME NEW u \in TokenIds
               PROVE  Own(u)' + rewarded'[u] = Total(StakesIn(u)', StakeWorth') + strayed'[u]
    BY <1>17 DEF StakeBooks
  <2>1. PICK o \in Int, r \in Nat, n \in Nat, x \in Int :
          /\ o = Own(u) /\ r = rewarded[u] /\ n = Total(StakesIn(u), StakeWorth)
          /\ x = strayed[u] /\ o + r = n + x
    <3>1. Own(u) \in Int /\ rewarded[u] \in Nat /\ strayed[u] \in Int
      BY OwnIsInt DEF WorkersSound, WorkersTypeOK
    <3>2. QED BY <1>17, <3>1 DEF WorkersSound, StakeBooks
  <2>2. rewarded'[u] = r + (IF u = t THEN q ELSE 0) /\ strayed'[u] = x
    BY <1>3, <1>6, <2>1 DEF WorkersSound, WorkersTypeOK
  <2>3. CASE u = t
    BY <1>8, <1>17, <2>1, <2>2, <2>3
  <2>4. CASE u # t
    BY <1>8, <1>17, <2>1, <2>2, <2>4
  <2>5. QED BY <2>3, <2>4
<1>19. QED BY <1>7, <1>14, <1>15, <1>18 DEF WorkersSound

\* What changes roles, pauses or gifts alone, and the chief.
LEMMA WorkersKept ==
  ASSUME WorkersSound, PauseCanBeLifted', \A t \in TokenIds : Own(t)' = Own(t),
         chief' \in SUBSET Accounts,
         UNCHANGED <<curators, profile, listed, counted, stakeInfo, seconds, rewarded, strayed>>
  PROVE  WorkersSound'
<1>1. StakeBooks'
  BY StakesKept DEF WorkersSound
<1>2. WorkersTypeOK' /\ StakesFollow'
  BY DEF WorkersSound, WorkersTypeOK, StakesFollow, Live, Staked
<1>3. QED BY <1>1, <1>2 DEF WorkersSound

LEMMA SetAdminDoes ==
  ASSUME ContractTypeOK, WorkersSound, NEW a \in Accounts, SetAdmin(a)
  PROVE  ContractTypeOK' /\ WorkersSound'
<1>1. /\ roles' = [roles EXCEPT !["admin"] = (@ \ chief) \union {a}] /\ chief' = {a}
      /\ UNCHANGED <<initialized, paused, balance, donated, donations>>
      /\ UNCHANGED <<curators, profile, listed, counted, stakeInfo, seconds, rewarded, strayed>>
  BY DEF SetAdmin
<1>2. roles' \in [Roles -> SUBSET Accounts] /\ roles'["pauser"] = roles["pauser"]
  BY <1>1 DEF ContractTypeOK, Roles
<1>3. ContractTypeOK' /\ PauseCanBeLifted' /\ \A t \in TokenIds : Own(t)' = Own(t)
  BY <1>1, <1>2 DEF ContractTypeOK, WorkersSound, PauseCanBeLifted, Own
<1>4. QED BY <1>1, <1>3, WorkersKept

LEMMA InitializeRegistryDoes ==
  ASSUME ContractTypeOK, WorkersSound, NEW c \in Accounts, InitializeRegistry(c)
  PROVE  ContractTypeOK' /\ WorkersSound'
<1>1. /\ Initialize(c) /\ chief' = {c}
      /\ UNCHANGED <<curators, profile, listed, counted, stakeInfo, seconds, rewarded, strayed>>
  BY DEF InitializeRegistry
<1>2. ContractTypeOK' /\ PauseCanBeLifted' /\ \A t \in TokenIds : Own(t)' = Own(t)
  BY <1>1, InitializeDoes, InitializeLifts DEF WorkersSound
<1>3. QED BY <1>1, <1>2, WorkersKept

LEMMA WorkersStep ==
  ASSUME ContractTypeOK, WorkersSound, WorkersNext
  PROVE  ContractTypeOK' /\ WorkersSound'
<1>1. CASE Administer(TRUE, "pauser") /\ UNCHANGED workersVars
  <2>1. "pauser" \in Roles
    BY DEF Roles
  <2>2. ContractTypeOK' /\ PauseCanBeLifted' /\ \A t \in TokenIds : Own(t)' = Own(t)
    BY <1>1, <2>1, AdministerDoes, AdministerLifts DEF WorkersSound
  <2>3. QED BY <1>1, <2>2, WorkersKept DEF workersVars, WorkersSound, WorkersTypeOK
<1>2. CASE Second
  BY <1>2, SecondDoes
<1>3. ASSUME NEW c \in Deployers, InitializeRegistry(c)
      PROVE  ContractTypeOK' /\ WorkersSound'
  <2>1. c \in Accounts
    BY ContractAssumption
  <2>2. QED BY <1>3, <2>1, InitializeRegistryDoes
<1>4. ASSUME NEW p \in Powers, SetAdmin(p[2])
      PROVE  ContractTypeOK' /\ WorkersSound'
  <2>1. p[2] \in Accounts
    BY ContractAssumption
  <2>2. QED BY <1>4, <2>1, SetAdminDoes
<1>5. ASSUME NEW c \in Accounts, NEW k \in Curators, AddCurator(c, k) \/ RemoveCurator(c, k)
      PROVE  ContractTypeOK' /\ WorkersSound'
  BY <1>5, CuratorsDo
<1>6. ASSUME NEW c \in Accounts, NEW S \in SUBSET ProfileIds, NEW owners \in [S -> Owners],
             BatchRegister(c, owners)
      PROVE  ContractTypeOK' /\ WorkersSound'
  <2>1. PICK free \in SUBSET S : Enlist([i \in free |-> owners[i]]) /\ counted' = counted
    BY <1>6 DEF BatchRegister
  <2>2. free \in SUBSET ProfileIds /\ [i \in free |-> owners[i]] \in [free -> Owners]
    OBVIOUS
  <2>3. QED BY <2>1, <2>2, EnlistDoes
<1>7. ASSUME NEW c \in Accounts, NEW i \in ProfileIds, NEW o \in Owners, Register(c, i, o)
      PROVE  ContractTypeOK' /\ WorkersSound'
  <2>1. {i} \in SUBSET ProfileIds /\ [j \in {i} |-> o] \in [{i} -> Owners]
    OBVIOUS
  <2>2. Enlist([j \in {i} |-> o]) /\ counted' = counted + 1
    BY <1>7 DEF Register
  <2>3. QED BY <2>1, <2>2, EnlistDoes
<1>8. ASSUME NEW c \in Accounts, NEW i \in ProfileIds,
             Deregister(c, i) \/ RequestUnstake(c, i) \/ Unstake(c, i)
      PROVE  ContractTypeOK' /\ WorkersSound'
  BY <1>8, DeregisterDoes, RequestDoes, UnstakeDoes
<1>9. ASSUME NEW c \in Accounts, NEW i \in ProfileIds, NEW t \in TokenIds, NEW a \in Amounts,
             Stake(c, i, t, a)
      PROVE  ContractTypeOK' /\ WorkersSound'
  BY <1>9, StakeDoes
<1>10. QED BY <1>1, <1>2, <1>3, <1>4, <1>5, <1>6, <1>7, <1>8, <1>9 DEF WorkersNext

LEMMA WorkersStart ==
  ASSUME NEW funded, ContractInit(funded), WorkersInit
  PROVE  WorkersSound
<1>1. WorkersTypeOK
  <2>1. seconds \in 1..MaxSeconds /\ 0 \in 0..MaxSeconds /\ 0 \in 0..MaxListed
    BY RegistryAssumption DEF WorkersInit
  <2>2. \A i \in ProfileIds : ~Live(i)
    BY DEF WorkersInit, Live, NoProfile
  <2>3. counted \in 0..Total(ProfileIds, listed)
    <3>1. listed \in [ProfileIds -> 0..MaxListed]
      BY <2>1 DEF WorkersInit
    <3>2. QED BY <3>1, ListFinite DEF WorkersInit
  <2>4. QED BY <2>1, <2>2, <2>3 DEF WorkersInit, WorkersTypeOK, NoProfile, NoStake
<1>2. StakesFollow
  BY DEF WorkersInit, StakesFollow, NoProfile, NoStake
<1>3. StakeBooks
  <2> SUFFICES ASSUME NEW t \in TokenIds
               PROVE  /\ IsFiniteSet(Units(StakesIn(t), StakeWorth))
                      /\ Own(t) + rewarded[t] = Total(StakesIn(t), StakeWorth) + strayed[t]
    BY DEF StakeBooks
  <2>1. StakesIn(t) = {}
    BY DEF StakesIn, WorkersInit, NoStake
  <2>2. IsFiniteSet(Units(StakesIn(t), StakeWorth)) /\ Total(StakesIn(t), StakeWorth) = 0
    BY <2>1, TotalEmpty
  <2>3. Own(t) = 0 /\ rewarded[t] = 0 /\ strayed[t] = 0
    BY ContractStart DEF WorkersInit
  <2>4. QED BY <2>2, <2>3
<1>4. QED BY <1>1, <1>2, <1>3 DEF WorkersSound, PauseCanBeLifted, ContractInit

-----------------------------------------------------------------------------
(* The contracts together *)

\* What holds of the storage of every contract, deployed or not.
StorageSound ==
  /\ PaymentTypeOK /\ DistributionTypeOK /\ PoolTypeOK /\ RegistryTypeOK
  /\ ReputationTypeOK /\ WorkersTypeOK
  /\ ApprovalsCount /\ \A w \in WorkerIds : RecordFollows(w)

\* The inductive invariant: the deployed contract keeps its own, with what the
\* contracts share being its; the storage of the others stays as it was.
ContractsInv ==
  /\ ContractTypeOK /\ StorageSound
  /\ deployed = "payment"          => PaymentSound
  /\ deployed = "fee_distribution" => DistributionSound
  /\ deployed = "insurance_pool"   => PoolSound
  /\ deployed = "job_registry"     => RegistrySound
  /\ deployed = "reputation"       => ReputationSound
  /\ deployed = "registry"         => WorkersSound

LEMMA PaymentStored ==
  ASSUME PaymentTypeOK, UNCHANGED paymentVars
  PROVE  PaymentTypeOK'
BY DEF PaymentTypeOK, paymentVars

LEMMA DistributionStored ==
  ASSUME DistributionTypeOK, UNCHANGED distributionVars
  PROVE  DistributionTypeOK'
BY DEF DistributionTypeOK, distributionVars

LEMMA PoolStored ==
  ASSUME PoolTypeOK, ApprovalsCount, UNCHANGED poolVars
  PROVE  PoolTypeOK' /\ ApprovalsCount'
BY CountUnmoved DEF PoolTypeOK, poolVars

LEMMA RegistryStored ==
  ASSUME RegistryTypeOK, UNCHANGED registered
  PROVE  RegistryTypeOK'
BY DEF RegistryTypeOK, HasJob

LEMMA ReputationStored ==
  ASSUME ReputationTypeOK, \A w \in WorkerIds : RecordFollows(w), UNCHANGED reputationVars
  PROVE  ReputationTypeOK' /\ \A w \in WorkerIds : RecordFollows(w)'
BY DEF ReputationTypeOK, reputationVars, RecordFollows, Last

LEMMA WorkersStored ==
  ASSUME WorkersTypeOK, UNCHANGED workersVars
  PROVE  WorkersTypeOK'
BY DEF WorkersTypeOK, workersVars, Live

LEMMA ContractsStart ==
  ASSUME Init
  PROVE  ContractsInv
<1>1. PICK funded : ContractInit(funded)
  BY DEF Init
<1>2. /\ PaymentInit /\ DistributionInit /\ PoolInit /\ RegistryInit /\ ReputationInit
      /\ WorkersInit
  BY DEF Init
<1>3. /\ PaymentSound /\ DistributionSound /\ PoolSound /\ RegistrySound /\ ReputationSound
      /\ WorkersSound
  BY <1>1, <1>2, PaymentStart, DistributionStart, PoolStart, RegistryStart, ReputationStart,
     WorkersStart
<1>4. StorageSound
  BY <1>3 DEF StorageSound, PaymentSound, DistributionSound, PoolSound, RegistrySound,
              ReputationSound, WorkersSound
<1>5. QED BY <1>1, <1>3, <1>4, ContractStart DEF ContractsInv

LEMMA ContractsStep ==
  ASSUME ContractsInv, Next
  PROVE  ContractsInv'
<1> USE DEF ContractsInv
<1>1. deployed' = deployed
  BY DEF Next
<1>2. CASE /\ deployed = "payment" /\ PaymentNext
           /\ UNCHANGED <<distributionVars, poolVars, registered, reputationVars, workersVars>>
  <2>1. ContractTypeOK' /\ PaymentSound'
    BY <1>2, PaymentStep
  <2>2. StorageSound'
    BY <1>2, <2>1, DistributionStored, PoolStored, RegistryStored, ReputationStored,
       WorkersStored DEF StorageSound, PaymentSound
  <2>3. QED BY <1>1, <1>2, <2>1, <2>2
<1>3. CASE /\ deployed = "fee_distribution" /\ DistributionNext
           /\ UNCHANGED <<paymentVars, poolVars, registered, reputationVars, workersVars>>
  <2>1. ContractTypeOK' /\ DistributionSound'
    BY <1>3, DistributionStep
  <2>2. StorageSound'
    BY <1>3, <2>1, PaymentStored, PoolStored, RegistryStored, ReputationStored,
       WorkersStored DEF StorageSound, DistributionSound
  <2>3. QED BY <1>1, <1>3, <2>1, <2>2
<1>4. CASE /\ deployed = "insurance_pool" /\ PoolNext
           /\ UNCHANGED <<paymentVars, distributionVars, registered, reputationVars, workersVars>>
  <2>1. ContractTypeOK' /\ PoolSound'
    BY <1>4, PoolStep
  <2>2. StorageSound'
    BY <1>4, <2>1, PaymentStored, DistributionStored, RegistryStored, ReputationStored,
       WorkersStored DEF StorageSound, PoolSound
  <2>3. QED BY <1>1, <1>4, <2>1, <2>2
<1>5. CASE /\ deployed = "job_registry" /\ RegistryNext
           /\ UNCHANGED <<paymentVars, distributionVars, poolVars, reputationVars, workersVars>>
  <2>1. ContractTypeOK' /\ RegistrySound'
    BY <1>5, RegistryStep
  <2>2. StorageSound'
    BY <1>5, <2>1, PaymentStored, DistributionStored, PoolStored, ReputationStored,
       WorkersStored DEF StorageSound, RegistrySound
  <2>3. QED BY <1>1, <1>5, <2>1, <2>2
<1>6. CASE /\ deployed = "reputation" /\ ReputationNext
           /\ UNCHANGED <<paymentVars, distributionVars, poolVars, registered, workersVars>>
  <2>1. ContractTypeOK' /\ ReputationSound'
    BY <1>6, ReputationStep
  <2>2. StorageSound'
    BY <1>6, <2>1, PaymentStored, DistributionStored, PoolStored, RegistryStored,
       WorkersStored DEF StorageSound, ReputationSound
  <2>3. QED BY <1>1, <1>6, <2>1, <2>2
<1>7. CASE /\ deployed = "registry" /\ WorkersNext
           /\ UNCHANGED <<paymentVars, distributionVars, poolVars, registered, reputationVars>>
  <2>1. ContractTypeOK' /\ WorkersSound'
    BY <1>7, WorkersStep
  <2>2. StorageSound'
    BY <1>7, <2>1, PaymentStored, DistributionStored, PoolStored, RegistryStored,
       ReputationStored DEF StorageSound, WorkersSound
  <2>3. QED BY <1>1, <1>7, <2>1, <2>2
<1>8. QED BY <1>2, <1>3, <1>4, <1>5, <1>6, <1>7 DEF Next

LEMMA ContractsStutter ==
  ASSUME ContractsInv, UNCHANGED vars
  PROVE  ContractsInv'
<1>1. /\ deployed' = deployed /\ UNCHANGED chainVars
      /\ UNCHANGED <<paymentVars, distributionVars, poolVars, registered, reputationVars,
                     workersVars>>
  BY DEF vars, storage
<1>2. /\ ContractTypeOK' /\ initialized' = initialized /\ (Unmanned => Unmanned')
      /\ \A u \in TokenIds : Own(u)' = Own(u)
  BY <1>1, ChainKept DEF ContractsInv
<1>3. PauseCanBeLifted => PauseCanBeLifted'
  BY <1>1, ChainLifts DEF chainVars
<1>4. StorageSound'
  BY <1>1, PaymentStored, DistributionStored, PoolStored, RegistryStored, ReputationStored,
     WorkersStored DEF StorageSound, ContractsInv
<1>5. PaymentSound => PaymentSound'
  <2>1. UNCHANGED <<payment, config>> /\ PaymentTypeOK'
    BY <1>1, <1>4 DEF paymentVars, StorageSound
  <2>2. PaymentSound => (initialized' => config'.recipient \in Accounts)
    BY <1>2, <2>1 DEF PaymentSound
  <2>3. QED BY <1>2, <2>1, <2>2, PaymentKept DEF ContractsInv
<1>6. DistributionSound => DistributionSound'
  <2>1. UNCHANGED <<recipients, collection, withdrawn, shares>>
    BY <1>1 DEF distributionVars
  <2>2. DistributionSound => recipients' \in LegalSplits \union {<<>>}
    BY <2>1 DEF DistributionSound, DistributionTypeOK
  <2>3. QED BY <1>2, <2>1, <2>2, DistributionKept
<1>7. PoolSound => PoolSound'
  BY <1>1, <1>2, PoolKept DEF PoolSound
<1>8. RegistrySound => RegistrySound'
  BY <1>3, <1>4 DEF RegistrySound, StorageSound
<1>9. ReputationSound => ReputationSound'
  BY <1>1, <1>3, ReputationKept DEF ReputationSound
<1>10. WorkersSound => WorkersSound'
  BY <1>1, <1>2, <1>3, WorkersKept DEF WorkersSound, WorkersTypeOK, workersVars
<1>11. QED BY <1>1, <1>2, <1>4, <1>5, <1>6, <1>7, <1>8, <1>9, <1>10 DEF ContractsInv

\* The invariant on which the theorems below rest.
THEOREM ContractsInvariant == Spec => []ContractsInv
<1>1. Init => ContractsInv
  BY ContractsStart
<1>2. ContractsInv /\ [Next]_vars => ContractsInv'
  BY ContractsStep, ContractsStutter
<1>3. QED BY <1>1, <1>2, PTL DEF Spec

\* The state of every contract keeps its shape: among others no distribution has
\* recipients whose shares are not the whole, and no job that was assigned is
\* without its worker.
THEOREM ContractsTypeCorrect == Spec => []ContractsTypeOK
<1>1. ContractsInv => ContractsTypeOK
  BY DEF ContractsInv, StorageSound, ContractsTypeOK
<1>2. QED BY <1>1, ContractsInvariant, PTL

LEMMA OwnMeans ==
  ASSUME ContractTypeOK, NEW t \in TokenIds
  PROVE  /\ Own(t) = balance[t][Vault] - donated[t]
         /\ balance[t][Vault] \in Nat /\ donated[t] \in Nat
BY DEF ContractTypeOK, Own, Holders

LEMMA PaymentsAreCovered ==
  ASSUME ContractTypeOK, PaymentSound
  PROVE  PaymentCovered
<1>1. ASSUME NEW t \in TokenIds
      PROVE  balance[t][Vault] = donated[t] + Total(LockedIn(t), LockedWorth)
  <2>1. Own(t) = Total(LockedIn(t), LockedWorth) /\ Total(LockedIn(t), LockedWorth) \in Nat
    BY TotalNat DEF PaymentSound
  <2>2. QED BY <2>1, OwnMeans
<1>2. QED BY <1>1 DEF PaymentCovered, LockedIn, LockedWorth

LEMMA FeesAreCovered ==
  ASSUME ContractTypeOK, DistributionSound
  PROVE  FeesCovered
<1>1. ASSUME NEW t \in TokenIds
      PROVE  balance[t][Vault] + withdrawn[t] - donated[t] - Available(t) \in 0..shares[t]
  <2>1. Available(t) \in Nat /\ withdrawn[t] \in Nat /\ Dust(t) \in 0..shares[t]
    BY DEF DistributionSound, DistributionTypeOK
  <2>2. Dust(t) = balance[t][Vault] + withdrawn[t] - donated[t] - Available(t)
    BY <2>1, OwnMeans DEF Dust
  <2>3. QED BY <2>1, <2>2
<1>2. QED BY <1>1 DEF FeesCovered

LEMMA PoolIsReconciled ==
  ASSUME ContractTypeOK, PoolSound
  PROVE  PoolReconciles
<1>1. ASSUME NEW t \in TokenIds
      PROVE  balance[t][Vault] = pool[t].balance + donated[t] + erased[t]
  <2>1. /\ Own(t) = pool[t].balance + erased[t] /\ pool[t].balance \in Int
        /\ erased[t] \in Nat
    BY DEF PoolSound, PoolBooks, PoolTypeOK
  <2>2. QED BY <2>1, OwnMeans
<1>2. QED BY <1>1 DEF PoolReconciles, PoolSound, PoolBooks, PoolWorth

LEMMA StakesAreExplained ==
  ASSUME ContractTypeOK, WorkersSound
  PROVE  StakesExplained
<1>1. ASSUME NEW t \in TokenIds
      PROVE  balance[t][Vault] + rewarded[t] = Owed(t) + donated[t] + strayed[t]
  <2>1. /\ Own(t) + rewarded[t] = Total(StakesIn(t), StakeWorth) + strayed[t]
        /\ Total(StakesIn(t), StakeWorth) \in Nat /\ rewarded[t] \in Nat /\ strayed[t] \in Int
    BY TotalNat DEF WorkersSound, StakeBooks, WorkersTypeOK
  <2>2. Owed(t) = Total(StakesIn(t), StakeWorth)
    BY DEF Owed, StakesIn, StakeWorth
  <2>3. QED BY <2>1, <2>2, OwnMeans
<1>2. QED BY <1>1 DEF StakesExplained, WorkersSound, StakesFollow

\* What the payment, fee distribution, insurance and worker contracts hold is what
\* their books say, to the unit: whatever calls are made of them, in which order,
\* with which amounts, shares and rates.
THEOREM BooksMatch == Spec => []BooksMatchBalances
<1>1. ContractsInv => BooksMatchBalances
  BY PaymentsAreCovered, FeesAreCovered, PoolIsReconciled, StakesAreExplained
     DEF ContractsInv, BooksMatchBalances
<1>2. QED BY <1>1, ContractsInvariant, PTL

\* No approval of an insurance claim pays twice, nor for another claim, claimant or
\* amount than it was given for.
THEOREM ApprovalsPayOnce == Spec => []OneApprovalOnePayment
<1>1. ContractsInv => OneApprovalOnePayment
  BY DEF ContractsInv, StorageSound, ApprovalsCount, Carried, OneApprovalOnePayment
<1>2. QED BY <1>1, ContractsInvariant, PTL

\* A worker's record sums up the reviews since the last reset, and the score never
\* exceeds their mean.
THEOREM ScoresFollow == Spec => []ScoreFromReviews
<1>1. ContractsInv => ScoreFromReviews
  BY DEF ContractsInv, StorageSound, RecordFollows, Last, ScoreFromReviews
<1>2. QED BY <1>1, ContractsInvariant, PTL

\* The job, reputation and worker contracts are never paused without a pauser.
THEOREM PausesLift == Spec => []PausesCanBeLifted
<1>1. ContractsInv => PausesCanBeLifted
  BY DEF ContractsInv, RegistrySound, ReputationSound, WorkersSound, PausesCanBeLifted
<1>2. QED BY <1>1, ContractsInvariant, PTL
=============================================================================
