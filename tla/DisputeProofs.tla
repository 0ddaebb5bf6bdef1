---------------------------- MODULE DisputeProofs ---------------------------
(***************************************************************************)
(* Proofs about the dispute contract, for any number of accounts, tokens,  *)
(* disputes, amounts and splits.                                           *)
(***************************************************************************)
EXTENDS Dispute, TokenProofs

\* What an account can call, one disjunct an operation.
LEMMA CallCases ==
  ASSUME NEW c \in Accounts, Call(c)
  PROVE  \/ Initialize(c)
         \/ \E v \in BOOLEAN : SetPaused(c, v)
         \/ \E a \in Accounts : AddArbitrator(c, a) \/ RemoveArbitrator(c, a)
         \/ \E q \in Accounts, t \in TokenIds, i \in Ids, a \in Amounts, h \in Hashes :
              FileDispute(c, q, t, i, a, h)
         \/ \E i \in Ids, h \in Hashes : SubmitEvidence(c, i, h)
         \/ \E i \in Ids, o \in Outcome, b \in Splits : Decide(c, i, o, b)
<1>1. CASE AdminCall(c)
  BY <1>1, ConstantsOK DEF AdminCall, ConstantsOK
<1>2. CASE \E i \in Ids : CallOn(c, i)
  <2>1. ASSUME NEW i \in Ids, File(c, i)
        PROVE  \E q \in Accounts, t \in TokenIds, a \in Amounts, h \in Hashes :
                 FileDispute(c, q, t, i, a, h)
    <3>1. PICK p \in Parties, t \in TokenIds, a \in Amounts, h \in Hashes :
            FileDispute(c, p[2], t, i, a, h)
      BY <2>1 DEF File
    <3>2. p[2] \in Accounts
      BY ConstantsOK DEF ConstantsOK
    <3>3. QED BY <3>1, <3>2
  <2>2. QED BY <1>2, <2>1 DEF CallOn
<1>3. QED BY <1>1, <1>2 DEF Call

\* The steps of the contract, one disjunct an operation.
LEMMA StepCases ==
  ASSUME [Next]_vars
  PROVE  \/ \E c \in Accounts : Initialize(c)
         \/ \E c \in Accounts, v \in BOOLEAN : SetPaused(c, v)
         \/ \E c, a \in Accounts : AddArbitrator(c, a) \/ RemoveArbitrator(c, a)
         \/ \E p, q \in Accounts, t \in TokenIds, i \in Ids, a \in Amounts, h \in Hashes :
              FileDispute(p, q, t, i, a, h)
         \/ \E c \in Accounts, i \in Ids, h \in Hashes : SubmitEvidence(c, i, h)
         \/ \E c \in Accounts, i \in Ids, o \in Outcome, b \in Splits : Decide(c, i, o, b)
         \/ \E i \in Ids : Settle(i)
         \/ UNCHANGED vars
BY CallCases DEF Next

\* The fields of a stored record.
LEMMA RecordFields ==
  ASSUME NEW d \in DisputeRecord
  PROVE  /\ d.disputer \in Accounts /\ d.respondent \in Accounts
         /\ d.token \in TokenIds /\ d.status \in Status /\ d.outcome \in Outcome
         /\ d.split_bps \in Nat /\ d.amount \in Nat /\ d.amount > 0
<1>1. Amounts \subseteq Int /\ Splits \subseteq Nat
  BY ConstantsOK DEF ConstantsOK
<1>2. d.amount \in {a \in Amounts : a > 0}
  BY DEF DisputeRecord
<1>3. d.amount \in Int /\ d.amount > 0
  BY <1>1, <1>2
<1>4. d.amount \in Nat
  BY <1>3
<1>5. d.split_bps \in Splits \/ d.split_bps = 0
  BY DEF DisputeRecord
<1>6. d.split_bps \in Nat
  <2>1. Splits \subseteq Nat
    BY <1>1
  <2>2. CASE d.split_bps \in Splits
    BY <2>1, <2>2
  <2>3. CASE d.split_bps = 0
    BY <2>3
  <2>4. QED BY <1>5, <2>2, <2>3
<1>7. QED BY <1>3, <1>4, <1>6 DEF DisputeRecord

\* A split of at most 10 000 basis points gives at most the whole.
LEMMA SplitBound ==
  ASSUME NEW a \in Nat, NEW b \in Nat, b <= Bps
  PROVE  (a * b) \div Bps \in 0 .. a
<1>1. a * b <= a * Bps /\ a * b \in Nat
  BY DEF Bps
<1>2. QED BY <1>1 DEF Bps

\* The two shares of a dispute whose decision was checked.
LEMMA ShareBounds ==
  ASSUME NEW d \in DisputeRecord, d.outcome = "Split" => d.split_bps <= Bps
  PROVE  RespondentShare(d) \in 0 .. d.amount
<1>1. d.amount \in Nat /\ d.split_bps \in Nat /\ d.outcome \in Outcome
  BY RecordFields
<1>2. CASE d.outcome = "Split"
  BY <1>1, <1>2, SplitBound DEF RespondentShare
<1>3. CASE d.outcome # "Split"
  BY <1>1, <1>3 DEF RespondentShare, Outcome
<1>4. QED BY <1>2, <1>3

\* Paying both shares keeps a ledger a ledger and takes the amount, the whole
\* amount and nothing but the amount out of the vault.
LEMMA SharedMoves ==
  ASSUME NEW l \in [Holders -> Nat], NEW d \in DisputeRecord,
         CanTransfer(l, Vault, d.amount), RespondentShare(d) \in 0 .. d.amount
  PROVE  /\ Shared(l, d) \in [Holders -> Nat]
         /\ Shared(l, d)[Vault] = l[Vault] - d.amount
<1> DEFINE rs   == RespondentShare(d)
           ds   == DisputerShare(d)
           half == Transferred(l, Vault, d.respondent, rs)
<1>1. /\ d.respondent \in Holders /\ d.respondent # Vault
      /\ d.disputer \in Holders /\ d.disputer # Vault /\ Vault \in Holders
  BY RecordFields, ConstantsOK DEF ConstantsOK, Holders
<1>2. d.amount \in Nat /\ rs \in Nat /\ ds \in Nat /\ rs + ds = d.amount
  BY RecordFields DEF DisputerShare
<1>3. l[Vault] \in Nat /\ l[Vault] >= d.amount
  BY <1>1 DEF CanTransfer
<1> HIDE DEF rs, ds
<1>4. CanTransfer(l, Vault, rs)
  BY <1>2, <1>3 DEF CanTransfer
<1>5. half \in [Holders -> Nat] /\ half[Vault] = l[Vault] - rs
  BY <1>1, <1>2, <1>4, TransferType, TransferMoves
<1> HIDE DEF half
<1>6. CanTransfer(half, Vault, ds)
  BY <1>2, <1>3, <1>5 DEF CanTransfer
<1>7. /\ Transferred(half, Vault, d.disputer, ds) \in [Holders -> Nat]
      /\ Transferred(half, Vault, d.disputer, ds)[Vault] = half[Vault] - ds
  <2>1. half \in [Holders -> Nat]
    BY <1>5
  <2>2. Transferred(half, Vault, d.disputer, ds) \in [Holders -> Nat]
    BY <2>1, <1>1, <1>2, <1>6, TransferType
  <2>3. Transferred(half, Vault, d.disputer, ds)[Vault] = half[Vault] - ds
    BY <2>1, <1>1, <1>2, <1>6, TransferMoves
  <2>4. QED BY <2>2, <2>3
<1>8. Shared(l, d) = Transferred(half, Vault, d.disputer, ds)
  BY DEF Shared, half, rs, ds
<1>9. QED BY <1>2, <1>3, <1>5, <1>7, <1>8

-----------------------------------------------------------------------------
\* Types alone are not inductive: that a settlement leaves no negative balance
\* needs what decide has checked.
DecisionsChecked ==
  \A i \in Ids : dispute[i] # None =>
    /\ (dispute[i].arbitrator # None) = Judged(i)
    /\ Judged(i) => RespondentShare(dispute[i]) \in 0 .. dispute[i].amount

BaseInv == TypeOK /\ DecisionsChecked

\* The initial state.
LEMMA InitBase == Init => BaseInv
<1>1. ASSUME Init PROVE disputeList \in Seq(Ids)
  BY <1>1 DEF Init
<1>2. ASSUME Init PROVE balance \in [TokenIds -> [Holders -> Nat]]
  BY <1>2, ConstantsOK DEF ConstantsOK, Init
<1>3. QED BY <1>1, <1>2 DEF Init, BaseInv, TypeOK, DecisionsChecked, Judged

\* A step that leaves records and money alone.
LEMMA BaseFrame ==
  ASSUME BaseInv, UNCHANGED funds, admin' \in Accounts \cup {None},
         arbitrators' \subseteq Accounts, paused' \in BOOLEAN
  PROVE  BaseInv'
BY DEF BaseInv, TypeOK, DecisionsChecked, Judged, HasStatus, funds

\* What a step does to a single record: the types of all, and the judgement of
\* all, follow from those of the record it wrote.
LEMMA BaseOneRecord ==
  ASSUME BaseInv, NEW i \in Ids, NEW r \in DisputeRecord,
         dispute' = [dispute EXCEPT ![i] = r],
         (r.arbitrator # None) = (r.status \in {"Decided", "Settled"}),
         r.status \in {"Decided", "Settled"} => RespondentShare(r) \in 0 .. r.amount
  PROVE  dispute' \in [Ids -> DisputeRecord \cup {None}] /\ DecisionsChecked'
<1>1. dispute'[i] = r /\ \A j \in Ids \ {i} : dispute'[j] = dispute[j]
  BY DEF BaseInv, TypeOK
<1>2. r # None
  BY ConstantsOK DEF ConstantsOK
<1>3. QED BY <1>1, <1>2 DEF BaseInv, TypeOK, DecisionsChecked, Judged, HasStatus

\* Filing a dispute.
LEMMA FileBase ==
  ASSUME BaseInv, NEW p \in Accounts, NEW q \in Accounts, NEW t \in TokenIds,
         NEW i \in Ids, NEW a \in Amounts, NEW h \in Hashes,
         FileDispute(p, q, t, i, a, h)
  PROVE  BaseInv'
<1> DEFINE r == [disputer |-> p, respondent |-> q, token |-> t, amount |-> a,
                 status |-> "Open", outcome |-> "RefundDisputer", split_bps |-> 0,
                 arbitrator |-> None, disputer_evidence |-> h,
                 respondent_evidence |-> None]
<1>1. a \in Nat /\ a > 0
  BY ConstantsOK DEF ConstantsOK, FileDispute
<1>2. r \in DisputeRecord
  BY <1>1 DEF DisputeRecord, Status, Outcome
<1>3. dispute' = [dispute EXCEPT ![i] = r] /\ r.arbitrator = None /\ r.status = "Open"
  BY DEF FileDispute, LockFunds
<1> HIDE DEF r
<1>4. /\ r.status \notin {"Decided", "Settled"}
      /\ (r.arbitrator # None) = (r.status \in {"Decided", "Settled"})
  BY <1>3
<1>5. dispute' \in [Ids -> DisputeRecord \cup {None}] /\ DecisionsChecked'
  BY <1>2, <1>3, <1>4, BaseOneRecord
<1>6. Transferred(balance[t], p, Vault, a) \in [Holders -> Nat]
  BY <1>1, TransferType DEF BaseInv, TypeOK, FileDispute, LockFunds, Holders
<1>7. balance' \in [TokenIds -> [Holders -> Nat]]
  BY <1>6 DEF BaseInv, TypeOK, FileDispute, LockFunds
<1>8. disputeList' \in Seq(Ids)
  BY DEF BaseInv, TypeOK, FileDispute, LockFunds
<1>9. QED
  BY <1>5, <1>7, <1>8 DEF BaseInv, TypeOK, FileDispute, LockFunds, access

\* Attaching evidence.
LEMMA EvidenceBase ==
  ASSUME BaseInv, NEW c \in Accounts, NEW i \in Ids, NEW h \in Hashes,
         SubmitEvidence(c, i, h)
  PROVE  BaseInv'
<1>1. /\ dispute[i] \in DisputeRecord /\ dispute[i] # None
      /\ dispute[i].status \in {"Open", "Evidence"}
      /\ dispute[i].arbitrator = None
  BY DEF BaseInv, TypeOK, DecisionsChecked, Judged, SubmitEvidence, HasStatus
<1> DEFINE r == IF c = dispute[i].disputer
                THEN [dispute[i] EXCEPT !.disputer_evidence = h, !.status = "Evidence"]
                ELSE [dispute[i] EXCEPT !.respondent_evidence = h, !.status = "Evidence"]
<1>2. r \in DisputeRecord /\ r.status = "Evidence" /\ r.arbitrator = None
  BY <1>1 DEF DisputeRecord, Status
<1>3. dispute' = [dispute EXCEPT ![i] = r]
  BY DEF SubmitEvidence, BaseInv, TypeOK
<1> HIDE DEF r
<1>4. /\ r.status \notin {"Decided", "Settled"}
      /\ (r.arbitrator # None) = (r.status \in {"Decided", "Settled"})
  BY <1>2
<1>5. dispute' \in [Ids -> DisputeRecord \cup {None}] /\ DecisionsChecked'
  BY <1>2, <1>3, <1>4, BaseOneRecord
<1>6. QED BY <1>5 DEF BaseInv, TypeOK, SubmitEvidence, access

\* Deciding.
LEMMA DecideBase ==
  ASSUME BaseInv, NEW c \in Accounts, NEW i \in Ids, NEW o \in Outcome,
         NEW b \in Splits, Decide(c, i, o, b)
  PROVE  BaseInv'
<1>1. dispute[i] \in DisputeRecord /\ dispute[i] # None
  BY DEF BaseInv, TypeOK, Decide, HasStatus
<1> DEFINE r == [dispute[i] EXCEPT !.status = "Decided", !.outcome = o,
                                   !.split_bps = b, !.arbitrator = c]
<1>2. /\ r \in DisputeRecord /\ r.status = "Decided" /\ r.arbitrator = c
      /\ r.outcome = o /\ r.split_bps = b
  BY <1>1 DEF DisputeRecord, Status
<1>3. dispute' = [dispute EXCEPT ![i] = r]
  BY DEF Decide, BaseInv, TypeOK
<1> HIDE DEF r
<1>4. RespondentShare(r) \in 0 .. r.amount
  BY <1>2, ShareBounds DEF Decide
<1>5. c # None
  BY ConstantsOK DEF ConstantsOK
<1>6. dispute' \in [Ids -> DisputeRecord \cup {None}] /\ DecisionsChecked'
  BY <1>2, <1>3, <1>4, <1>5, BaseOneRecord
<1>7. QED BY <1>6 DEF BaseInv, TypeOK, Decide, access

\* Settling: what it does to the record, the vault and the types.
LEMMA SettleBase ==
  ASSUME BaseInv, NEW i \in Ids, Settle(i)
  PROVE  /\ BaseInv'
         /\ dispute[i] \in DisputeRecord /\ dispute[i] # None
         /\ dispute[i].status = "Decided"
         /\ dispute'[i] = [dispute[i] EXCEPT !.status = "Settled"]
         /\ dispute'[i] \in DisputeRecord
         /\ balance'[dispute[i].token][Vault]
              = balance[dispute[i].token][Vault] - dispute[i].amount
<1>1. /\ dispute[i] \in DisputeRecord /\ dispute[i] # None
      /\ dispute[i].status = "Decided"
      /\ dispute[i].arbitrator # None
      /\ RespondentShare(dispute[i]) \in 0 .. dispute[i].amount
  BY DEF BaseInv, TypeOK, DecisionsChecked, Judged, Settle, HasStatus
<1> DEFINE r == [dispute[i] EXCEPT !.status = "Settled"]
           t == dispute[i].token
<1>2. /\ r \in DisputeRecord /\ r.status = "Settled"
      /\ r.arbitrator = dispute[i].arbitrator
      /\ r.amount = dispute[i].amount /\ r.outcome = dispute[i].outcome
      /\ r.split_bps = dispute[i].split_bps
  BY <1>1 DEF DisputeRecord, Status
<1>3. dispute' = [dispute EXCEPT ![i] = r] /\ dispute'[i] = r
  BY DEF Settle, BaseInv, TypeOK
<1>4. RespondentShare(r) = RespondentShare(dispute[i])
  BY <1>2 DEF RespondentShare
<1>5. t \in TokenIds /\ balance[t] \in [Holders -> Nat]
  BY <1>1, RecordFields DEF BaseInv, TypeOK
<1>6. /\ Shared(balance[t], dispute[i]) \in [Holders -> Nat]
      /\ Shared(balance[t], dispute[i])[Vault] = balance[t][Vault] - dispute[i].amount
  BY <1>1, <1>5, SharedMoves DEF Settle
<1>7. /\ balance' = [balance EXCEPT ![t] = Shared(balance[t], dispute[i])]
      /\ balance'[t] = Shared(balance[t], dispute[i])
  BY <1>5 DEF Settle, BaseInv, TypeOK
<1> HIDE DEF r, t
<1>8. balance' \in [TokenIds -> [Holders -> Nat]]
  BY <1>5, <1>6, <1>7 DEF BaseInv, TypeOK
<1>9. dispute' \in [Ids -> DisputeRecord \cup {None}] /\ DecisionsChecked'
  BY <1>1, <1>2, <1>3, <1>4, BaseOneRecord
<1>10. BaseInv'
  BY <1>8, <1>9 DEF BaseInv, TypeOK, Settle, access
<1>11. QED BY <1>1, <1>2, <1>3, <1>6, <1>7, <1>10 DEF r, t

\* One step preserves types and judgements.
LEMMA BaseStep ==
  ASSUME BaseInv, [Next]_vars
  PROVE  BaseInv'
<1>1. ASSUME NEW c \in Accounts, Initialize(c) PROVE BaseInv'
  BY <1>1, BaseFrame DEF Initialize
<1>2. ASSUME NEW c \in Accounts, NEW v \in BOOLEAN, SetPaused(c, v) PROVE BaseInv'
  BY <1>2, BaseFrame DEF SetPaused, BaseInv, TypeOK
<1>3. ASSUME NEW c \in Accounts, NEW a \in Accounts,
             AddArbitrator(c, a) \/ RemoveArbitrator(c, a)
      PROVE  BaseInv'
  BY <1>3, BaseFrame DEF AddArbitrator, RemoveArbitrator, BaseInv, TypeOK
<1>4. CASE UNCHANGED vars
  BY <1>4, BaseFrame DEF vars, access, BaseInv, TypeOK
<1>5. QED
  BY <1>1, <1>2, <1>3, <1>4, StepCases, FileBase, EvidenceBase, DecideBase, SettleBase

\* Every stored value is well formed, and no ledger goes negative.
THEOREM TypeCorrect == Spec => []TypeOK
<1>1. BaseInv /\ [Next]_vars => BaseInv'
  BY BaseStep
<1>2. BaseInv => TypeOK
  BY DEF BaseInv
<1>3. QED BY InitBase, <1>1, <1>2, PTL DEF Spec

\* A record that a call of c changes so that it becomes decided: c decided it.
LEMMA DecidingCall ==
  ASSUME BaseInv, NEW c \in Accounts, Call(c), NEW i \in Ids, ~ Judged(i), Judged(i)'
  PROVE  /\ c \in arbitrators /\ dispute'[i].arbitrator = c
         /\ dispute'[i].amount = dispute[i].amount
<1>1. /\ dispute \in [Ids -> DisputeRecord \cup {None}]
      /\ dispute'[i] # dispute[i]
  BY DEF BaseInv, TypeOK, Judged, HasStatus
<1>2. ASSUME NEW j \in Ids, NEW o \in Outcome, NEW b \in Splits, Decide(c, j, o, b)
      PROVE  /\ c \in arbitrators /\ dispute'[i].arbitrator = c
             /\ dispute'[i].amount = dispute[i].amount
  <2>1. j = i /\ dispute[i] \in DisputeRecord
    BY <1>1, <1>2 DEF Decide, HasStatus
  <2>2. dispute'[i].arbitrator = c /\ dispute'[i].amount = dispute[i].amount
    BY <1>1, <1>2, <2>1 DEF Decide, DisputeRecord
  <2>3. QED BY <1>2, <2>2 DEF Decide, RequireRole
<1>3. ASSUME NEW j \in Ids, NEW h \in Hashes, SubmitEvidence(c, j, h) PROVE FALSE
  <2>1. j = i /\ dispute[i] \in DisputeRecord
    BY <1>1, <1>3 DEF SubmitEvidence, HasStatus
  <2>2. dispute'[i].status = "Evidence"
    BY <1>1, <1>3, <2>1 DEF SubmitEvidence, DisputeRecord
  <2>3. QED BY <2>2 DEF Judged, HasStatus
<1>4. ASSUME NEW q \in Accounts, NEW t \in TokenIds, NEW j \in Ids,
             NEW a \in Amounts, NEW h \in Hashes, FileDispute(c, q, t, j, a, h)
      PROVE  FALSE
  <2>1. j = i /\ dispute'[i].status = "Open"
    BY <1>1, <1>4 DEF FileDispute, LockFunds
  <2>2. QED BY <2>1 DEF Judged, HasStatus
<1>5. QED
  BY <1>1, <1>2, <1>3, <1>4, CallCases
     DEF Initialize, SetPaused, AddArbitrator, RemoveArbitrator, funds

\* A settlement decides nothing.
LEMMA SettleDecidesNothing ==
  ASSUME BaseInv, NEW j \in Ids, Settle(j), NEW i \in Ids, Judged(i)'
  PROVE  Judged(i)
<1>1. CASE i = j
  BY <1>1 DEF Settle, Judged, HasStatus
<1>2. CASE i # j
  BY <1>2 DEF Settle, Judged, HasStatus, BaseInv, TypeOK
<1>3. QED BY <1>1, <1>2

\* A dispute becomes decided only by the call of an arbitrator in office, whom the
\* record names, and nobody else's call could have made the step; the shares are
\* shares of the whole, for any splits an arbitrator may pass.
THEOREM DecisionsJudged == Spec => DecidedByArbitrator
<1>1. BaseInv /\ [Next]_vars => BaseInv'
  BY BaseStep
<1>2. BaseInv /\ [Next]_vars =>
        [\A i \in Ids : ~ Judged(i) /\ Judged(i)' =>
           /\ Callers = {dispute'[i].arbitrator}
           /\ dispute'[i].arbitrator \in arbitrators
           /\ RespondentShare(dispute'[i]) \in 0 .. dispute[i].amount]_vars
  <2> SUFFICES ASSUME BaseInv, BaseInv', [Next]_vars, NEW i \in Ids, ~ Judged(i), Judged(i)'
               PROVE  /\ Callers = {dispute'[i].arbitrator}
                      /\ dispute'[i].arbitrator \in arbitrators
                      /\ RespondentShare(dispute'[i]) \in 0 .. dispute[i].amount
    BY <1>1
  <2>1. ~ UNCHANGED vars
    BY DEF Judged, HasStatus, vars, funds
  <2>2. PICK c \in Accounts : Call(c)
    BY <2>1, SettleDecidesNothing DEF Next
  <2>3. \A d \in Accounts : Call(d) => d \in arbitrators /\ dispute'[i].arbitrator = d
    BY DecidingCall
  <2>4. Callers = {dispute'[i].arbitrator} /\ dispute'[i].arbitrator \in arbitrators
    BY <2>2, <2>3 DEF Callers
  <2>5. RespondentShare(dispute'[i]) \in 0 .. dispute'[i].amount
    BY DEF BaseInv, DecisionsChecked, Judged, HasStatus
  <2>6. dispute'[i].amount = dispute[i].amount
    BY <2>2, DecidingCall
  <2>7. QED BY <2>4, <2>5, <2>6
<1>3. QED BY InitBase, <1>1, <1>2, PTL DEF Spec, DecidedByArbitrator

-----------------------------------------------------------------------------
(* Solvency *)

\* Solvency is inductive together with the types, the judgements and the fact
\* that the sums it speaks of are finite (there may be infinitely many ids).
CustodyInv ==
  /\ BaseInv
  /\ \A t \in TokenIds : IsFiniteSet(Units(LockedIn(t), Worth))
  /\ Solvency

\* A step that keeps the ledgers, and every dispute's amount, token and being
\* locked or not.
LEMMA CustodyKept ==
  ASSUME CustodyInv, BaseInv', UNCHANGED balance, Worth' = Worth,
         \A t \in TokenIds : LockedIn(t)' = LockedIn(t)
  PROVE  CustodyInv'
BY DEF CustodyInv, Solvency

\* Only what happens to the records and the ledgers matters to solvency.
LEMMA CustodyFrame ==
  ASSUME CustodyInv, BaseInv', UNCHANGED <<dispute, balance>>
  PROVE  CustodyInv'
BY DEF CustodyInv, Solvency, LockedIn, Locked, HasStatus, Worth

\* A filed dispute adds to the vault what it adds to the worth of those locked.
LEMMA FileCustody ==
  ASSUME CustodyInv, BaseInv', NEW p \in Accounts, NEW q \in Accounts,
         NEW tk \in TokenIds, NEW i \in Ids, NEW a \in Amounts, NEW h \in Hashes,
         FileDispute(p, q, tk, i, a, h)
  PROVE  CustodyInv'
<1>1. /\ a \in Nat /\ a > 0 /\ p # Vault /\ p \in Holders /\ Vault \in Holders
  <2>1. Amounts \subseteq Int /\ Vault \notin Accounts
    BY ConstantsOK DEF ConstantsOK
  <2>2. QED BY <2>1 DEF FileDispute, Holders
<1>2. None \notin DisputeRecord
  BY ConstantsOK DEF ConstantsOK
<1>3. /\ dispute \in [Ids -> DisputeRecord \cup {None}]
      /\ dispute' \in [Ids -> DisputeRecord \cup {None}]
      /\ balance \in [TokenIds -> [Holders -> Nat]]
  BY DEF CustodyInv, BaseInv, TypeOK
<1>4. /\ dispute[i] = None
      /\ dispute'[i].status = "Open" /\ dispute'[i].token = tk /\ dispute'[i].amount = a
      /\ dispute'[i].arbitrator = None
      /\ \A j \in Ids \ {i} : dispute'[j] = dispute[j]
  BY <1>3 DEF FileDispute, LockFunds
<1>5. dispute'[i] # None
  <2>1. dispute'[i] \in DisputeRecord
    <3>1. a \in {x \in Amounts : x > 0}
      BY <1>1
    <3>2. QED
      BY <1>3, <3>1 DEF FileDispute, LockFunds, DisputeRecord, Status, Outcome
  <2>2. QED BY <1>2, <2>1
<1>6. /\ Worth'[i] = a
      /\ \A j \in Ids \ {i} : Worth'[j] = Worth[j]
  BY <1>4, <1>5 DEF Worth
<1>7. ASSUME NEW t \in TokenIds
      PROVE  /\ IsFiniteSet(Units(LockedIn(t), Worth)')
             /\ balance'[t][Vault] = Total(LockedIn(t), Worth)'
  <2>1. /\ IsFiniteSet(Units(LockedIn(t), Worth))
        /\ balance[t][Vault] = Total(LockedIn(t), Worth)
    BY DEF CustodyInv, Solvency
  <2>2. i \notin LockedIn(t) /\ LockedIn(t) \subseteq Ids
    BY <1>4 DEF LockedIn, Locked, HasStatus
  <2>3. \A j \in LockedIn(t) : Worth'[j] = Worth[j]
    BY <1>6, <2>2
  <2>4. CASE t = tk
    <3>1. LockedIn(t)' = LockedIn(t) \cup {i}
      BY <1>4, <1>5, <2>4 DEF LockedIn, Locked, HasStatus
    <3>2. /\ IsFiniteSet(Units(LockedIn(t) \cup {i}, Worth'))
          /\ Total(LockedIn(t) \cup {i}, Worth') = Total(LockedIn(t), Worth) + Worth'[i]
      <4>1. Worth'[i] \in Nat
        BY <1>1, <1>6
      <4>2. i \notin LockedIn(t)
        BY <2>2
      <4>3. IsFiniteSet(Units(LockedIn(t), Worth))
        BY <2>1
      <4>4. QED BY <2>3, <4>1, <4>2, <4>3, TotalAdd
    <3>3. balance'[t][Vault] = balance[t][Vault] + a
      <4>1. balance[t] \in [Holders -> Nat]
        BY <1>3
      <4>2. balance'[t] = Transferred(balance[t], p, Vault, a)
        BY <1>3, <2>4 DEF FileDispute, LockFunds
      <4>3. QED BY <1>1, <4>1, <4>2, TransferMoves
    <3>4. QED BY <1>6, <2>1, <3>1, <3>2, <3>3 DEF Total
  <2>5. CASE t # tk
    <3>1. LockedIn(t)' = LockedIn(t)
      BY <1>4, <1>5, <2>5 DEF LockedIn, Locked, HasStatus
    <3>2. Units(LockedIn(t), Worth') = Units(LockedIn(t), Worth)
      BY <2>3, UnitsSame
    <3>3. balance'[t] = balance[t]
      BY <1>3, <2>5 DEF FileDispute, LockFunds
    <3>4. QED BY <2>1, <3>1, <3>2, <3>3 DEF Total
  <2>6. QED BY <2>4, <2>5
<1>8. QED BY <1>7 DEF CustodyInv, Solvency, Total

\* Evidence and decisions touch a dispute that was locked and stays locked.
LEMMA StaysLocked ==
  ASSUME CustodyInv, BaseInv', NEW i \in Ids, dispute[i] \in DisputeRecord,
         NEW r \in DisputeRecord, dispute' = [dispute EXCEPT ![i] = r],
         dispute[i].status \in {"Open", "Evidence"}, r.status \in {"Evidence", "Decided"},
         r.token = dispute[i].token, r.amount = dispute[i].amount, UNCHANGED balance
  PROVE  CustodyInv'
<1>1. /\ dispute'[i] = r /\ r # None /\ dispute[i] # None
      /\ \A j \in Ids \ {i} : dispute'[j] = dispute[j]
  BY ConstantsOK DEF ConstantsOK, CustodyInv, BaseInv, TypeOK
<1>2. Worth' = Worth
  BY <1>1 DEF Worth
<1>3. \A t \in TokenIds : LockedIn(t)' = LockedIn(t)
  BY <1>1 DEF LockedIn, Locked, HasStatus
<1>4. QED BY <1>2, <1>3, CustodyKept

\* A settlement takes out of the vault exactly what the dispute was worth.
LEMMA SettleCustody ==
  ASSUME CustodyInv, NEW i \in Ids, Settle(i)
  PROVE  CustodyInv'
<1> DEFINE tk == dispute[i].token
           a  == dispute[i].amount
<1>1. /\ BaseInv'
      /\ dispute[i] \in DisputeRecord /\ dispute[i] # None
      /\ dispute[i].status = "Decided"
      /\ dispute'[i] = [dispute[i] EXCEPT !.status = "Settled"]
      /\ dispute'[i] \in DisputeRecord
      /\ balance'[tk][Vault] = balance[tk][Vault] - a
  BY SettleBase DEF CustodyInv
<1>2. tk \in TokenIds /\ a \in Nat
  BY <1>1, RecordFields
<1>3. /\ dispute'[i].status = "Settled" /\ dispute'[i].token = tk /\ dispute'[i].amount = a
      /\ dispute'[i] # None
  BY <1>1, ConstantsOK DEF ConstantsOK, DisputeRecord
<1>4. \A j \in Ids \ {i} : dispute'[j] = dispute[j]
  BY DEF Settle, CustodyInv, BaseInv, TypeOK
<1>5. Worth' = Worth /\ Worth[i] = a
  BY <1>1, <1>3, <1>4 DEF Worth
<1>6. ASSUME NEW t \in TokenIds
      PROVE  /\ IsFiniteSet(Units(LockedIn(t), Worth)')
             /\ balance'[t][Vault] = Total(LockedIn(t), Worth)'
  <2>1. /\ IsFiniteSet(Units(LockedIn(t), Worth))
        /\ balance[t][Vault] = Total(LockedIn(t), Worth)
    BY DEF CustodyInv, Solvency
  <2>2. CASE t = tk
    <3>1. i \in LockedIn(t) /\ LockedIn(t)' = LockedIn(t) \ {i}
      BY <1>1, <1>3, <1>4, <2>2 DEF LockedIn, Locked, HasStatus
    <3>2. /\ IsFiniteSet(Units(LockedIn(t) \ {i}, Worth))
          /\ Total(LockedIn(t) \ {i}, Worth) = Total(LockedIn(t), Worth) - Worth[i]
      BY <1>2, <1>5, <2>1, <3>1, TotalRemove
    <3>3. QED BY <1>1, <1>5, <2>1, <2>2, <3>1, <3>2 DEF Total
  <2>3. CASE t # tk
    <3>1. LockedIn(t)' = LockedIn(t)
      BY <1>1, <1>3, <1>4, <2>3 DEF LockedIn, Locked, HasStatus
    <3>2. balance'[t] = balance[t]
      BY <2>3 DEF Settle, CustodyInv, BaseInv, TypeOK
    <3>3. QED BY <1>5, <2>1, <3>1, <3>2 DEF Total
  <2>4. QED BY <2>2, <2>3
<1>7. QED BY <1>1, <1>6 DEF CustodyInv, Solvency, Total

\* The inductive invariant is one.
LEMMA CustodySound == Spec => []CustodyInv
<1>1. Init => CustodyInv
  <2> SUFFICES ASSUME Init PROVE CustodyInv
    OBVIOUS
  <2>1. BaseInv
    BY InitBase
  <2>2. ASSUME NEW t \in TokenIds
        PROVE  /\ IsFiniteSet(Units(LockedIn(t), Worth))
               /\ balance[t][Vault] = Total(LockedIn(t), Worth)
    <3>1. LockedIn(t) = {}
      BY DEF Init, LockedIn, Locked, HasStatus
    <3>2. balance[t][Vault] = 0
      BY DEF Init, Holders
    <3>3. QED BY <3>1, <3>2, TotalEmpty
  <2>3. QED BY <2>1, <2>2 DEF CustodyInv, Solvency
<1>2. CustodyInv /\ [Next]_vars => CustodyInv'
  <2> SUFFICES ASSUME CustodyInv, [Next]_vars PROVE CustodyInv'
    OBVIOUS
  <2>1. BaseInv'
    BY BaseStep DEF CustodyInv
  <2>2. ASSUME UNCHANGED funds PROVE CustodyInv'
    BY <2>1, <2>2, CustodyFrame DEF funds
  <2>3. ASSUME NEW p \in Accounts, NEW q \in Accounts, NEW t \in TokenIds,
               NEW i \in Ids, NEW a \in Amounts, NEW h \in Hashes,
               FileDispute(p, q, t, i, a, h)
        PROVE  CustodyInv'
    BY <2>1, <2>3, FileCustody
  <2>4. ASSUME NEW c \in Accounts, NEW i \in Ids, NEW h \in Hashes,
               SubmitEvidence(c, i, h)
        PROVE  CustodyInv'
    <3>1. /\ dispute[i] \in DisputeRecord
          /\ dispute[i].status \in {"Open", "Evidence"}
      BY <2>4 DEF CustodyInv, BaseInv, TypeOK, SubmitEvidence, HasStatus
    <3> DEFINE r == IF c = dispute[i].disputer
                    THEN [dispute[i] EXCEPT !.disputer_evidence = h, !.status = "Evidence"]
                    ELSE [dispute[i] EXCEPT !.respondent_evidence = h, !.status = "Evidence"]
    <3>2. /\ r \in DisputeRecord /\ r.status = "Evidence"
          /\ r.token = dispute[i].token /\ r.amount = dispute[i].amount
      BY <3>1 DEF DisputeRecord, Status
    <3>3. dispute' = [dispute EXCEPT ![i] = r] /\ UNCHANGED balance
      BY <2>4 DEF SubmitEvidence, CustodyInv, BaseInv, TypeOK
    <3> HIDE DEF r
    <3>4. QED BY <2>1, <3>1, <3>2, <3>3, StaysLocked
  <2>5. ASSUME NEW c \in Accounts, NEW i \in Ids, NEW o \in Outcome, NEW b \in Splits,
               Decide(c, i, o, b)
        PROVE  CustodyInv'
    <3>1. /\ dispute[i] \in DisputeRecord
          /\ dispute[i].status \in {"Open", "Evidence"}
      BY <2>5 DEF CustodyInv, BaseInv, TypeOK, Decide, HasStatus
    <3> DEFINE r == [dispute[i] EXCEPT !.status = "Decided", !.outcome = o,
                                       !.split_bps = b, !.arbitrator = c]
    <3>2. /\ r \in DisputeRecord /\ r.status = "Decided"
          /\ r.token = dispute[i].token /\ r.amount = dispute[i].amount
      BY <3>1 DEF DisputeRecord, Status
    <3>3. dispute' = [dispute EXCEPT ![i] = r] /\ UNCHANGED balance
      BY <2>5 DEF Decide, CustodyInv, BaseInv, TypeOK
    <3> HIDE DEF r
    <3>4. QED BY <2>1, <3>1, <3>2, <3>3, StaysLocked
  <2>6. ASSUME NEW i \in Ids, Settle(i) PROVE CustodyInv'
    BY <2>6, SettleCustody
  <2>7. QED
    BY <2>2, <2>3, <2>4, <2>5, <2>6, StepCases
       DEF Initialize, SetPaused, AddArbitrator, RemoveArbitrator, vars
<1>3. QED BY <1>1, <1>2, PTL DEF Spec

\* The contract always holds, of every token, exactly the amounts of the disputes
\* not yet settled, whatever the splits: rounding never loses or invents a unit.
THEOREM AlwaysSolvent == Spec => []Solvency
<1>1. CustodyInv => Solvency
  BY DEF CustodyInv
<1>2. QED BY <1>1, CustodySound, PTL

\* A settlement never fails for want of money: the token contract can always move
\* the amount of a dispute not yet settled out of the contract, whatever was
\* settled before it, in whatever order and however it was split.
THEOREM AmountsAreThere ==
  Spec => [](\A i \in Ids :
               Locked(i) => CanTransfer(balance[dispute[i].token], Vault, dispute[i].amount))
<1>1. ASSUME CustodyInv, NEW i \in Ids, Locked(i)
      PROVE  CanTransfer(balance[dispute[i].token], Vault, dispute[i].amount)
  <2> DEFINE t == dispute[i].token
  <2>1. dispute[i] \in DisputeRecord /\ dispute[i] # None
    BY <1>1 DEF CustodyInv, BaseInv, TypeOK, Locked, HasStatus
  <2>2. t \in TokenIds /\ Worth[i] = dispute[i].amount /\ Worth[i] \in Nat
    BY <2>1, RecordFields DEF Worth
  <2>3. i \in LockedIn(t)
    BY <1>1 DEF LockedIn
  <2>4. IsFiniteSet(Units(LockedIn(t), Worth)) /\ balance[t][Vault] = Total(LockedIn(t), Worth)
    BY <1>1, <2>2 DEF CustodyInv, Solvency
  <2>5. Worth[i] <= Total(LockedIn(t), Worth)
    BY <2>2, <2>3, <2>4, TotalCovers
  <2>6. Total(LockedIn(t), Worth) \in Nat
    BY <2>4, TotalNat
  <2>7. QED BY <2>2, <2>4, <2>5, <2>6 DEF CanTransfer
<1>2. CustodyInv => \A i \in Ids :
        Locked(i) => CanTransfer(balance[dispute[i].token], Vault, dispute[i].amount)
  BY <1>1
<1>3. QED BY <1>2, CustodySound, PTL

-----------------------------------------------------------------------------
(* Finality *)

\* What a step does to a decided dispute: nothing, or it settles it.
LEMMA DecidedStep ==
  ASSUME TypeOK, [Next]_vars, NEW i \in Ids, HasStatus(i, {"Decided", "Settled"})
  PROVE  \/ dispute'[i] = dispute[i]
         \/ /\ Settle(i) /\ dispute[i].status = "Decided"
            /\ dispute'[i] = [dispute[i] EXCEPT !.status = "Settled"]
<1>1. dispute[i] # None /\ dispute[i].status \in {"Decided", "Settled"}
  BY DEF HasStatus
<1>2. ASSUME UNCHANGED dispute PROVE dispute'[i] = dispute[i]
  BY <1>2
<1>3. ASSUME NEW p \in Accounts, NEW q \in Accounts, NEW t \in TokenIds,
             NEW j \in Ids, NEW a \in Amounts, NEW h \in Hashes,
             FileDispute(p, q, t, j, a, h)
      PROVE  dispute'[i] = dispute[i]
  BY <1>1, <1>3 DEF FileDispute, LockFunds, TypeOK
<1>4. ASSUME NEW c \in Accounts, NEW j \in Ids, NEW h \in Hashes,
             SubmitEvidence(c, j, h)
      PROVE  dispute'[i] = dispute[i]
  BY <1>1, <1>4 DEF SubmitEvidence, HasStatus, TypeOK
<1>5. ASSUME NEW c \in Accounts, NEW j \in Ids, NEW o \in Outcome, NEW b \in Splits,
             Decide(c, j, o, b)
      PROVE  dispute'[i] = dispute[i]
  BY <1>1, <1>5 DEF Decide, HasStatus, TypeOK
<1>6. ASSUME NEW j \in Ids, Settle(j), j # i PROVE dispute'[i] = dispute[i]
  BY <1>6 DEF Settle, TypeOK
<1>7. ASSUME Settle(i)
      PROVE  /\ dispute[i].status = "Decided"
             /\ dispute'[i] = [dispute[i] EXCEPT !.status = "Settled"]
  BY <1>1, <1>7 DEF Settle, HasStatus, TypeOK
<1>8. QED
  BY <1>2, <1>3, <1>4, <1>5, <1>6, <1>7, StepCases
     DEF Initialize, SetPaused, AddArbitrator, RemoveArbitrator, funds, vars

\* A decided dispute keeps its judge, its outcome and its split for ever, and the
\* one thing that still happens to it is its settlement.
THEOREM DecisionsStand == Spec => DecisionFinal
<1> DEFINE
      Stands(i) ==
        HasStatus(i, {"Decided", "Settled"}) =>
          \/ dispute'[i] = dispute[i]
          \/ /\ dispute[i].status = "Decided"
             /\ dispute'[i] = [dispute[i] EXCEPT !.status = "Settled"]
<1>1. TypeOK /\ [Next]_vars => [\A i \in Ids : Stands(i)]_vars
  BY DecidedStep
<1>2. QED BY <1>1, TypeCorrect, PTL DEF Spec, DecisionFinal

\* decided, and with a split whose product checked_mul refuses
Stuck(i) == HasStatus(i, {"Decided"}) /\ ~ SplitFits(dispute[i])

\* What the overflow of checked_mul in settle does to a dispute: once a split is
\* decided whose product does not fit, settle panics for it for ever and its
\* amount stays in the contract; no call of any party, arbitrator or administrator
\* changes the decision or unlocks it.
THEOREM OverflowsStick ==
  \A i \in Ids : Spec => [](Stuck(i) => []Stuck(i))
<1> SUFFICES ASSUME NEW i \in Ids PROVE Spec => [](Stuck(i) => []Stuck(i))
  OBVIOUS
<1>1. TypeOK /\ Stuck(i) /\ [Next]_vars => Stuck(i)'
  <2> SUFFICES ASSUME TypeOK, Stuck(i), [Next]_vars PROVE Stuck(i)'
    OBVIOUS
  <2>1. HasStatus(i, {"Decided", "Settled"}) /\ ~ Settle(i)
    BY DEF Stuck, HasStatus, Settle
  <2>2. dispute'[i] = dispute[i]
    BY <2>1, DecidedStep
  <2>3. QED BY <2>2 DEF Stuck, HasStatus, SplitFits
<1>2. QED BY <1>1, TypeCorrect, PTL DEF Spec

-----------------------------------------------------------------------------
(* Wallets *)

Gains(a) == [i \in Ids |-> Received(a, i)]

\* Account a's wallet of token t; the sums are finite.
WalletOK(a, t) ==
  /\ IsFiniteSet(Units(FiledBy(a, t), Worth)) /\ IsFiniteSet(Units(SettledIn(t), Gains(a)))
  /\ balance[t][a] + Total(FiledBy(a, t), Worth) = Supply + Total(SettledIn(t), Gains(a))

WalletsInv == BaseInv /\ \A a \in Accounts, t \in TokenIds : WalletOK(a, t)

\* Paying both shares gives each party its own, one that is both both, and nobody
\* else anything.
LEMMA SharedPays ==
  ASSUME NEW l \in [Holders -> Nat], NEW d \in DisputeRecord,
         CanTransfer(l, Vault, d.amount), RespondentShare(d) \in 0 .. d.amount,
         NEW a \in Accounts
  PROVE  /\ DisputerShare(d) \in Nat /\ RespondentShare(d) \in Nat
         /\ Shared(l, d)[a] = l[a] + (IF d.disputer = a THEN DisputerShare(d) ELSE 0)
                                   + (IF d.respondent = a THEN RespondentShare(d) ELSE 0)
<1>1. /\ d.respondent \in Holders /\ d.respondent # Vault /\ a # Vault /\ a \in Holders
      /\ d.disputer \in Holders /\ d.disputer # Vault /\ Vault \in Holders
  BY RecordFields, ConstantsOK DEF ConstantsOK, Holders
<1>2. PICK rs \in Nat, ds \in Nat, n \in Nat :
        rs = RespondentShare(d) /\ ds = DisputerShare(d) /\ n = d.amount /\ rs + ds = n
  <2>1. d.amount \in Nat /\ RespondentShare(d) \in Nat
    BY RecordFields
  <2>2. DisputerShare(d) = d.amount - RespondentShare(d) /\ DisputerShare(d) \in Nat
    BY <2>1 DEF DisputerShare
  <2>3. QED BY <2>1, <2>2
<1>3. l[Vault] \in Nat /\ l[a] \in Nat /\ l[Vault] >= n
  BY <1>1, <1>2 DEF CanTransfer
<1>4. PICK half : half = Transferred(l, Vault, d.respondent, rs)
  OBVIOUS
<1>5. CanTransfer(l, Vault, rs)
  BY <1>2, <1>3 DEF CanTransfer
<1>6. half \in [Holders -> Nat]
  BY <1>1, <1>4, <1>5, TransferType
<1>7. half[a] = l[a] + (IF d.respondent = a THEN rs ELSE 0)
  BY <1>1, <1>3, <1>4, TransferMoves
<1>8. half[a] \in Nat
  BY <1>1, <1>6
<1>9. Transferred(half, Vault, d.disputer, ds)[a]
        = half[a] + (IF d.disputer = a THEN ds ELSE 0)
  BY <1>1, <1>6, <1>8, TransferMoves
<1>10. Shared(l, d)[a] = Transferred(half, Vault, d.disputer, ds)[a]
  BY <1>2, <1>4 DEF Shared
<1>11. QED BY <1>2, <1>3, <1>7, <1>9, <1>10

\* Whatever keeps the ledgers, who filed what, and what is settled and how.
LEMMA WalletsStill ==
  ASSUME WalletsInv, BaseInv', UNCHANGED balance, Worth' = Worth,
         \A a \in Accounts, t \in TokenIds : FiledBy(a, t)' = FiledBy(a, t),
         \A t \in TokenIds : SettledIn(t)' = SettledIn(t),
         \A t \in TokenIds : \A j \in SettledIn(t) : dispute'[j] = dispute[j]
  PROVE  WalletsInv'
<1>1. ASSUME NEW a \in Accounts, NEW t \in TokenIds PROVE WalletOK(a, t)'
  <2>1. \A j \in SettledIn(t) : Gains(a)'[j] = Gains(a)[j]
    BY DEF Gains, Received, SettledIn
  <2>2. /\ Units(SettledIn(t), Gains(a)') = Units(SettledIn(t), Gains(a))
        /\ Total(SettledIn(t), Gains(a)') = Total(SettledIn(t), Gains(a))
    BY <2>1, TotalSame
  <2>3. QED BY <2>2 DEF WalletsInv, WalletOK
<1>2. QED BY <1>1 DEF WalletsInv

LEMMA WalletsFrame ==
  ASSUME WalletsInv, BaseInv', UNCHANGED <<dispute, balance>>
  PROVE  WalletsInv'
<1>1. /\ Worth' = Worth
      /\ \A a \in Accounts, t \in TokenIds : FiledBy(a, t)' = FiledBy(a, t)
      /\ \A t \in TokenIds : SettledIn(t)' = SettledIn(t)
      /\ \A t \in TokenIds : \A j \in SettledIn(t) : dispute'[j] = dispute[j]
  BY DEF Worth, FiledBy, SettledIn, HasStatus
<1>2. QED BY <1>1, WalletsStill

\* Evidence and decisions touch a dispute that is not settled by them.
LEMMA StaysFiled ==
  ASSUME WalletsInv, BaseInv', NEW i \in Ids, dispute[i] \in DisputeRecord,
         NEW r \in DisputeRecord, dispute' = [dispute EXCEPT ![i] = r],
         dispute[i].status # "Settled", r.status # "Settled",
         r.token = dispute[i].token, r.amount = dispute[i].amount,
         r.disputer = dispute[i].disputer, UNCHANGED balance
  PROVE  WalletsInv'
<1>1. /\ dispute'[i] = r /\ r # None /\ dispute[i] # None
      /\ \A j \in Ids \ {i} : dispute'[j] = dispute[j]
  BY ConstantsOK DEF ConstantsOK, WalletsInv, BaseInv, TypeOK
<1>2. Worth' = Worth
  BY <1>1 DEF Worth
<1>3. \A a \in Accounts, t \in TokenIds : FiledBy(a, t)' = FiledBy(a, t)
  BY <1>1 DEF FiledBy
<1>4. \A t \in TokenIds : SettledIn(t)' = SettledIn(t) /\ i \notin SettledIn(t)
  BY <1>1 DEF SettledIn, HasStatus
<1>5. \A t \in TokenIds : \A j \in SettledIn(t) : dispute'[j] = dispute[j]
  BY <1>1, <1>4 DEF SettledIn
<1>6. QED BY <1>2, <1>3, <1>4, <1>5, WalletsStill

\* A filed dispute takes from its disputer what it is worth.
LEMMA FileWallets ==
  ASSUME WalletsInv, BaseInv', NEW p \in Accounts, NEW q \in Accounts,
         NEW tk \in TokenIds, NEW i \in Ids, NEW n \in Amounts, NEW h \in Hashes,
         FileDispute(p, q, tk, i, n, h)
  PROVE  WalletsInv'
<1>1. n \in Nat /\ n > 0 /\ p # Vault /\ p \in Holders /\ Vault \in Holders
  <2>1. Amounts \subseteq Int /\ Vault \notin Accounts
    BY ConstantsOK DEF ConstantsOK
  <2>2. QED BY <2>1 DEF FileDispute, Holders
<1>2. /\ dispute \in [Ids -> DisputeRecord \cup {None}]
      /\ dispute' \in [Ids -> DisputeRecord \cup {None}]
      /\ balance \in [TokenIds -> [Holders -> Nat]] /\ None \notin DisputeRecord
  BY ConstantsOK DEF ConstantsOK, WalletsInv, BaseInv, TypeOK
<1>3. /\ dispute[i] = None
      /\ dispute'[i].status = "Open" /\ dispute'[i].token = tk /\ dispute'[i].amount = n
      /\ dispute'[i].disputer = p
      /\ \A j \in Ids \ {i} : dispute'[j] = dispute[j]
      /\ balance' = [balance EXCEPT ![tk] = Transferred(balance[tk], p, Vault, n)]
  BY <1>2 DEF FileDispute, LockFunds
<1>4. dispute'[i] # None
  <2>1. n \in {x \in Amounts : x > 0}
    BY <1>1
  <2>2. dispute'[i] \in DisputeRecord
    BY <1>2, <2>1 DEF FileDispute, LockFunds, DisputeRecord, Status, Outcome
  <2>3. QED BY <1>2, <2>2
<1>5. Worth'[i] = n /\ \A j \in Ids \ {i} : Worth'[j] = Worth[j]
  BY <1>3, <1>4 DEF Worth
<1>6. ASSUME NEW a \in Accounts, NEW t \in TokenIds PROVE WalletOK(a, t)'
  <2>1. /\ IsFiniteSet(Units(FiledBy(a, t), Worth))
        /\ IsFiniteSet(Units(SettledIn(t), Gains(a)))
        /\ balance[t][a] + Total(FiledBy(a, t), Worth) = Supply + Total(SettledIn(t), Gains(a))
    BY DEF WalletsInv, WalletOK
  <2>2. SettledIn(t)' = SettledIn(t) /\ i \notin SettledIn(t)
    BY <1>3, <1>4 DEF SettledIn, HasStatus
  <2>3. \A j \in SettledIn(t) : Gains(a)'[j] = Gains(a)[j]
    BY <1>3, <2>2 DEF Gains, Received, SettledIn
  <2>4. /\ Units(SettledIn(t), Gains(a)') = Units(SettledIn(t), Gains(a))
        /\ Total(SettledIn(t), Gains(a)') = Total(SettledIn(t), Gains(a))
    BY <2>3, TotalSame
  <2>5. i \notin FiledBy(a, t) /\ \A j \in FiledBy(a, t) : Worth'[j] = Worth[j]
    BY <1>3, <1>5 DEF FiledBy
  <2>6. Total(FiledBy(a, t), Worth) \in Nat /\ balance[t][a] \in Nat
    BY <1>2, <2>1, TotalNat DEF Holders
  <2>7. CASE a = p /\ t = tk
    <3>1. FiledBy(a, t)' = FiledBy(a, t) \cup {i}
      BY <1>3, <1>4, <2>7 DEF FiledBy
    <3>2. Worth'[i] \in Nat
      BY <1>1, <1>5
    <3>3. /\ IsFiniteSet(Units(FiledBy(a, t) \cup {i}, Worth'))
          /\ Total(FiledBy(a, t) \cup {i}, Worth') = Total(FiledBy(a, t), Worth) + Worth'[i]
      <4>1. IsFiniteSet(Units(FiledBy(a, t), Worth))
        BY <2>1
      <4>2. i \notin FiledBy(a, t)
        BY <2>5
      <4>3. \A j \in FiledBy(a, t) : Worth'[j] = Worth[j]
        BY <2>5
      <4>4. QED BY <4>1, <4>2, <4>3, <3>2, TotalAdd
    <3>4. balance'[t][a] = balance[t][a] - n
      <4>1. balance[t] \in [Holders -> Nat] /\ balance'[t] = Transferred(balance[t], p, Vault, n)
        BY <1>2, <1>3, <2>7
      <4>2. QED BY <1>1, <2>7, <4>1, TransferMoves
    <3>5. balance'[t][a] + Total(FiledBy(a, t)', Worth')
            = balance[t][a] + Total(FiledBy(a, t), Worth)
      BY <1>1, <1>5, <2>6, <3>1, <3>3, <3>4
    <3>6. QED BY <2>1, <2>2, <2>4, <3>1, <3>3, <3>5 DEF WalletOK
  <2>8. CASE ~(a = p /\ t = tk)
    <3>1. FiledBy(a, t)' = FiledBy(a, t)
      BY <1>3, <1>4, <2>8 DEF FiledBy
    <3>2. /\ Units(FiledBy(a, t), Worth') = Units(FiledBy(a, t), Worth)
          /\ Total(FiledBy(a, t), Worth') = Total(FiledBy(a, t), Worth)
      BY <2>5, TotalSame
    <3>3. balance'[t][a] = balance[t][a]
      <4>1. CASE t # tk
        BY <1>2, <1>3, <4>1
      <4>2. CASE t = tk /\ a # p
        <5>1. balance[t] \in [Holders -> Nat]
              /\ balance'[t] = Transferred(balance[t], p, Vault, n)
          BY <1>2, <1>3, <4>2
        <5>2. a \in Holders /\ a # Vault
          BY ConstantsOK DEF ConstantsOK, Holders
        <5>3. QED BY <1>1, <4>2, <5>1, <5>2, TransferMoves
      <4>3. QED BY <2>8, <4>1, <4>2
    <3>4. QED BY <2>1, <2>2, <2>4, <3>1, <3>2, <3>3 DEF WalletOK
  <2>9. QED BY <2>7, <2>8
<1>7. QED BY <1>6 DEF WalletsInv

\* A settlement gives each party what it received by it.
LEMMA SettleWallets ==
  ASSUME WalletsInv, NEW i \in Ids, Settle(i)
  PROVE  WalletsInv'
<1>1. /\ BaseInv' /\ dispute[i] \in DisputeRecord /\ dispute[i] # None
      /\ dispute[i].status = "Decided"
      /\ dispute'[i] = [dispute[i] EXCEPT !.status = "Settled"]
      /\ dispute'[i] \in DisputeRecord
  BY SettleBase DEF WalletsInv
<1>2. PICK d \in DisputeRecord : d = dispute[i]
  BY <1>1
<1>3. PICK e \in DisputeRecord : e = dispute'[i]
  BY <1>1
<1>4. PICK tk \in TokenIds : tk = d.token
  BY RecordFields
<1>5. /\ e = [d EXCEPT !.status = "Settled"] /\ e.status = "Settled" /\ e.token = tk
      /\ e.amount = d.amount /\ e.disputer = d.disputer /\ e.respondent = d.respondent
      /\ e.outcome = d.outcome /\ e.split_bps = d.split_bps
  BY <1>1, <1>2, <1>3, <1>4 DEF DisputeRecord
<1>6. RespondentShare(e) = RespondentShare(d) /\ DisputerShare(e) = DisputerShare(d)
  BY <1>5 DEF RespondentShare, DisputerShare
<1>7. RespondentShare(d) \in 0 .. d.amount /\ d # None /\ e # None
  BY <1>1, <1>2, <1>3, ConstantsOK
     DEF ConstantsOK, WalletsInv, BaseInv, DecisionsChecked, Judged, HasStatus
<1>8. /\ balance \in [TokenIds -> [Holders -> Nat]]
      /\ balance' = [balance EXCEPT ![tk] = Shared(balance[tk], d)]
      /\ CanTransfer(balance[tk], Vault, d.amount)
      /\ \A j \in Ids \ {i} : dispute'[j] = dispute[j]
  BY <1>2, <1>4 DEF Settle, WalletsInv, BaseInv, TypeOK
<1>81. /\ dispute[i] # None /\ dispute'[i] # None
       /\ dispute[i].status = "Decided" /\ dispute'[i].status = "Settled"
       /\ dispute[i].token = tk /\ dispute'[i].token = tk
       /\ dispute'[i].amount = dispute[i].amount
       /\ dispute'[i].disputer = dispute[i].disputer
  <2>1. dispute[i].status = "Decided" /\ dispute[i].token = tk /\ dispute[i] # None
    BY <1>1, <1>2, <1>4
  <2>2. dispute'[i].status = "Settled" /\ dispute'[i].token = tk /\ dispute'[i] # None
    BY <1>3, <1>5, <1>7
  <2>3. dispute'[i].amount = dispute[i].amount /\ dispute'[i].disputer = dispute[i].disputer
    BY <1>2, <1>3, <1>5
  <2>4. QED BY <2>1, <2>2, <2>3
<1>82. \A j \in Ids \ {i} : dispute'[j] = dispute[j]
  BY <1>8
<1>9. Worth' = Worth
  BY <1>81, <1>82 DEF Worth
<1>10. \A a \in Accounts, t \in TokenIds : FiledBy(a, t)' = FiledBy(a, t)
  BY <1>81, <1>82 DEF FiledBy
<1>11. ASSUME NEW a \in Accounts, NEW t \in TokenIds PROVE WalletOK(a, t)'
  <2>1. /\ IsFiniteSet(Units(FiledBy(a, t), Worth))
        /\ IsFiniteSet(Units(SettledIn(t), Gains(a)))
        /\ balance[t][a] + Total(FiledBy(a, t), Worth) = Supply + Total(SettledIn(t), Gains(a))
    BY DEF WalletsInv, WalletOK
  <2>2. /\ i \notin SettledIn(t)
        /\ SettledIn(t)' = IF t = tk THEN SettledIn(t) \cup {i} ELSE SettledIn(t)
    BY <1>81, <1>82 DEF SettledIn, HasStatus
  <2>3. \A j \in SettledIn(t) : Gains(a)'[j] = Gains(a)[j]
    BY <1>8, <2>2 DEF Gains, Received, SettledIn
  <2>4. /\ Total(FiledBy(a, t), Worth) \in Nat /\ Total(SettledIn(t), Gains(a)) \in Nat
        /\ balance[t][a] \in Nat /\ Supply \in Nat
    BY <1>8, <2>1, TotalNat, ConstantsOK DEF ConstantsOK, Holders
  <2>5. CASE t = tk
    <3>1. /\ DisputerShare(d) \in Nat /\ RespondentShare(d) \in Nat
          /\ balance'[t][a] = balance[t][a] + (IF d.disputer = a THEN DisputerShare(d) ELSE 0)
                                + (IF d.respondent = a THEN RespondentShare(d) ELSE 0)
      <4>1. balance[t] \in [Holders -> Nat] /\ balance'[t] = Shared(balance[t], d)
            /\ CanTransfer(balance[t], Vault, d.amount)
        BY <1>8, <2>5
      <4>2. QED BY <1>7, <4>1, SharedPays
    <3>2. Gains(a)'[i] = (IF d.disputer = a THEN DisputerShare(d) ELSE 0)
                           + (IF d.respondent = a THEN RespondentShare(d) ELSE 0)
      BY <1>3, <1>5, <1>6 DEF Gains, Received
    <3>3. PICK g \in Nat : g = Gains(a)'[i] /\ balance'[t][a] = balance[t][a] + g
      BY <2>4, <3>1, <3>2
    <3>4. /\ IsFiniteSet(Units(SettledIn(t) \cup {i}, Gains(a)'))
          /\ Total(SettledIn(t) \cup {i}, Gains(a)')
               = Total(SettledIn(t), Gains(a)) + Gains(a)'[i]
      <4>1. Gains(a)'[i] \in Nat
        BY <3>3
      <4>2. QED BY <2>1, <2>2, <2>3, <4>1, TotalAdd
    <3>5. balance'[t][a] + Total(FiledBy(a, t), Worth)
            = Supply + Total(SettledIn(t)', Gains(a)')
      BY <2>1, <2>2, <2>4, <2>5, <3>3, <3>4
    <3>6. QED BY <1>9, <1>10, <2>1, <2>2, <2>5, <3>4, <3>5 DEF WalletOK
  <2>6. CASE t # tk
    <3>1. balance'[t] = balance[t] /\ SettledIn(t)' = SettledIn(t)
      BY <1>8, <2>2, <2>6
    <3>2. /\ Units(SettledIn(t), Gains(a)') = Units(SettledIn(t), Gains(a))
          /\ Total(SettledIn(t), Gains(a)') = Total(SettledIn(t), Gains(a))
      BY <2>3, TotalSame
    <3>3. QED BY <1>9, <1>10, <2>1, <3>1, <3>2 DEF WalletOK
  <2>7. QED BY <2>5, <2>6
<1>12. QED BY <1>1, <1>11 DEF WalletsInv

\* Every account has paid in exactly what it filed and received exactly its shares
\* of what was settled; nobody else is ever paid.
THEOREM WalletsAdd == Spec => []WalletsExplained
<1>1. Init => WalletsInv
  <2> SUFFICES ASSUME Init PROVE WalletsInv
    OBVIOUS
  <2>1. BaseInv
    BY InitBase
  <2>2. ASSUME NEW a \in Accounts, NEW t \in TokenIds PROVE WalletOK(a, t)
    <3>1. FiledBy(a, t) = {} /\ SettledIn(t) = {}
      BY DEF Init, FiledBy, SettledIn, HasStatus
    <3>2. balance[t][a] = Supply /\ Supply \in Nat
      BY ConstantsOK DEF Init, Holders, ConstantsOK
    <3>3. QED BY <3>1, <3>2, TotalEmpty DEF WalletOK
  <2>3. QED BY <2>1, <2>2 DEF WalletsInv
<1>2. WalletsInv /\ [Next]_vars => WalletsInv'
  <2> SUFFICES ASSUME WalletsInv, [Next]_vars PROVE WalletsInv'
    OBVIOUS
  <2>1. BaseInv'
    BY BaseStep DEF WalletsInv
  <2>2. ASSUME UNCHANGED funds PROVE WalletsInv'
    BY <2>1, <2>2, WalletsFrame DEF funds
  <2>3. ASSUME NEW p \in Accounts, NEW q \in Accounts, NEW t \in TokenIds,
               NEW i \in Ids, NEW a \in Amounts, NEW h \in Hashes,
               FileDispute(p, q, t, i, a, h)
        PROVE  WalletsInv'
    BY <2>1, <2>3, FileWallets
  <2>4. ASSUME NEW c \in Accounts, NEW i \in Ids, NEW h \in Hashes,
               SubmitEvidence(c, i, h)
        PROVE  WalletsInv'
    <3>1. dispute[i] \in DisputeRecord /\ dispute[i].status # "Settled"
      BY <2>4 DEF WalletsInv, BaseInv, TypeOK, SubmitEvidence, HasStatus
    <3> DEFINE r == IF c = dispute[i].disputer
                    THEN [dispute[i] EXCEPT !.disputer_evidence = h, !.status = "Evidence"]
                    ELSE [dispute[i] EXCEPT !.respondent_evidence = h, !.status = "Evidence"]
    <3>2. /\ r \in DisputeRecord /\ r.status = "Evidence" /\ r.disputer = dispute[i].disputer
          /\ r.token = dispute[i].token /\ r.amount = dispute[i].amount
      BY <3>1 DEF DisputeRecord, Status
    <3>3. dispute' = [dispute EXCEPT ![i] = r] /\ UNCHANGED balance
      BY <2>4 DEF SubmitEvidence, WalletsInv, BaseInv, TypeOK
    <3> HIDE DEF r
    <3>4. QED BY <2>1, <3>1, <3>2, <3>3, StaysFiled
  <2>5. ASSUME NEW c \in Accounts, NEW i \in Ids, NEW o \in Outcome, NEW b \in Splits,
               Decide(c, i, o, b)
        PROVE  WalletsInv'
    <3>1. dispute[i] \in DisputeRecord /\ dispute[i].status # "Settled"
      BY <2>5 DEF WalletsInv, BaseInv, TypeOK, Decide, HasStatus
    <3> DEFINE r == [dispute[i] EXCEPT !.status = "Decided", !.outcome = o,
                                       !.split_bps = b, !.arbitrator = c]
    <3>2. /\ r \in DisputeRecord /\ r.status = "Decided" /\ r.disputer = dispute[i].disputer
          /\ r.token = dispute[i].token /\ r.amount = dispute[i].amount
      BY <3>1 DEF DisputeRecord, Status
    <3>3. dispute' = [dispute EXCEPT ![i] = r] /\ UNCHANGED balance
      BY <2>5 DEF Decide, WalletsInv, BaseInv, TypeOK
    <3> HIDE DEF r
    <3>4. QED BY <2>1, <3>1, <3>2, <3>3, StaysFiled
  <2>6. ASSUME NEW i \in Ids, Settle(i) PROVE WalletsInv'
    BY <2>6, SettleWallets
  <2>7. QED
    BY <2>2, <2>3, <2>4, <2>5, <2>6, StepCases
       DEF Initialize, SetPaused, AddArbitrator, RemoveArbitrator, vars
<1>3. WalletsInv => WalletsExplained
  <2> SUFFICES ASSUME WalletsInv, NEW a \in Accounts, NEW t \in TokenIds
               PROVE  balance[t][a] + Total(FiledBy(a, t), Worth)
                        = Supply + Total(SettledIn(t), [i \in SettledIn(t) |-> Received(a, i)])
    BY DEF WalletsExplained
  <2> DEFINE own == [i \in SettledIn(t) |-> Received(a, i)]
  <2>1. \A j \in SettledIn(t) : own[j] = Gains(a)[j]
    BY DEF Gains, SettledIn
  <2> HIDE DEF own
  <2>2. Total(SettledIn(t), own) = Total(SettledIn(t), Gains(a))
    BY <2>1, TotalSame
  <2>3. QED BY <2>2 DEF WalletsInv, WalletOK, own
<1>4. QED BY <1>1, <1>2, <1>3, PTL DEF Spec
=============================================================================
