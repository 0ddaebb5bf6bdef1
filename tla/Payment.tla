------------------------------- MODULE Payment -------------------------------
(***************************************************************************)
(* The payment contract (contracts/payment/src/lib.rs): direct payments    *)
(* less the protocol fee, and payments locked for a milestone, which are   *)
(* released or refunded whole.                                             *)
(***************************************************************************)
EXTENDS Contract, Fees

CONSTANTS
  PaymentIds,
  Pairs,      \* <<client, worker>> pairs that deal with each other
  Treasuries, \* bound: the accounts named as fee recipients
  FeeRates,   \* the fees an administrator may pass, legal or not
  MaxI128,    \* the largest amount
  MaxClock,   \* bound on ledger time
  MaxPays     \* bound: direct payments

ASSUME PaymentAssumption ==
  /\ Pairs \subseteq Accounts \X Accounts /\ Treasuries \subseteq Accounts
  /\ FeeRates \subseteq Nat /\ MaxI128 \in Nat
  /\ MaxClock \in Nat /\ MaxPays \in Nat

MaxFeeBps == 500

VARIABLES
  payment,    \* DataKey::Payment(id), or NoPayment
  config,     \* DataKey::Config
  clock,      \* env.ledger().timestamp()
  pays        \* bounded by MaxPays

paymentVars == <<payment, config, clock, pays>>

NoPayment == [status |-> "none"]
PaymentRecord == [client : Accounts, worker : Accounts, token : TokenIds,
                  amount : {a \in Amounts : a > 0}, expiry : 0..MaxClock + 1,
                  status : {"locked", "released", "refunded"}]

PaymentInit ==
  /\ payment = [i \in PaymentIds |-> NoPayment]
  /\ config = [bps |-> 0, recipient |-> Vault]
  /\ clock = 0
  /\ pays = 0

-----------------------------------------------------------------------------
InitializePayment(admin, bps, recipient) ==
  /\ bps <= MaxFeeBps
  /\ Initialize(admin)
  /\ config' = [bps |-> bps, recipient |-> recipient]
  /\ UNCHANGED <<payment, clock, pays>>

UpdateFee(caller, bps) ==
  /\ RequireRole(roles["manager"], caller)
  /\ bps <= MaxFeeBps /\ initialized
  /\ config' = [config EXCEPT !.bps = bps]
  /\ UNCHANGED <<chainVars, payment, clock, pays>>

SetTreasury(caller, recipient) ==
  /\ RequireRole(roles["admin"], caller)
  /\ config' = [config EXCEPT !.recipient = recipient]
  /\ UNCHANGED <<chainVars, payment, clock, pays>>

\* The net amount to the payee, then the fee to the treasury: either transfer
\* failing reverts both.
Pay(from, to, t, amount) ==
  LET fee  == Fee(amount, config.bps)
      paid == Transferred(balance[t], from, to, amount - fee) IN
    /\ ~paused /\ amount > 0 /\ initialized /\ pays < MaxPays
    /\ FeeFits(amount, config.bps, MaxI128)
    /\ CanTransfer(balance[t], from, amount - fee)
    /\ CanTransfer(paid, from, fee)
    /\ balance' = [balance EXCEPT ![t] = Transferred(paid, from, config.recipient, fee)]
    /\ pays' = pays + 1
    /\ UNCHANGED <<initialized, roles, paused, donated, donations, payment, config, clock>>

LockPayment(from, to, t, i, amount, expiry) ==
  /\ ~paused /\ amount > 0 /\ expiry > clock
  /\ payment[i] = NoPayment
  /\ payment' = [payment EXCEPT ![i] =
       [client |-> from, worker |-> to, token |-> t, amount |-> amount,
        expiry |-> expiry, status |-> "locked"]]
  /\ Moves(t, from, Vault, amount)
  /\ UNCHANGED <<config, clock, pays>>

Locked(i) == payment[i].status = "locked"

\* The whole amount goes to one party; no fee is taken.
Settle(i, to, status) ==
  /\ ~paused /\ Locked(i)
  /\ payment' = [payment EXCEPT ![i].status = status]
  /\ Moves(payment[i].token, Vault, to, payment[i].amount)
  /\ UNCHANGED <<config, clock, pays>>

ReleasePayment(caller, i) ==
  /\ Locked(i)
  /\ caller = payment[i].client \/ caller \in roles["admin"]
  /\ Settle(i, payment[i].worker, "released")

RefundPayment(caller, i) ==
  /\ Locked(i)
  /\ \/ caller \in roles["admin"]
     \/ caller = payment[i].client /\ clock >= payment[i].expiry
  /\ Settle(i, payment[i].client, "refunded")

Tick ==
  /\ clock < MaxClock
  /\ clock' = clock + 1
  /\ UNCHANGED <<chainVars, payment, config, pays>>

\* Roles change also while the contract is paused.
PaymentNext ==
  \/ Administer(FALSE, "pauser") /\ UNCHANGED paymentVars
  \/ Tick
  \/ \E c \in Deployers, bps \in FeeRates, r \in Treasuries : InitializePayment(c, bps, r)
  \/ \E c \in Accounts :
       \/ \E bps \in FeeRates : UpdateFee(c, bps)
       \/ \E r \in Treasuries : SetTreasury(c, r)
       \/ \E i \in PaymentIds : ReleasePayment(c, i) \/ RefundPayment(c, i)
  \/ \E p \in Pairs, t \in TokenIds, a \in Amounts :
       \/ Pay(p[1], p[2], t, a)
       \/ \E i \in PaymentIds, expiry \in 0..MaxClock + 1 :
            LockPayment(p[1], p[2], t, i, a, expiry)

PaymentSpec == ContractInit(TokenIds) /\ PaymentInit /\ [][PaymentNext]_<<chainVars, paymentVars>>

-----------------------------------------------------------------------------
\* The shape of the state.
PaymentTypeOK ==
  /\ payment \in [PaymentIds -> PaymentRecord \union {NoPayment}]
  /\ config \in [bps : 0..MaxFeeBps, recipient : Holders]
  /\ clock \in 0..MaxClock /\ pays \in 0..MaxPays

\* The contract holds the locked payments, each whole, and what it was given:
\* no order of releases and refunds by client and admins pays one twice or out
\* of another's money.
PaymentCovered ==
  \A t \in TokenIds :
    balance[t][Vault] = donated[t]
      + Total({i \in PaymentIds : Locked(i) /\ payment[i].token = t},
              [i \in PaymentIds |-> IF Locked(i) THEN payment[i].amount ELSE 0])
=============================================================================
