--------------------------- MODULE WebhooksProofs ---------------------------
(***************************************************************************)
(* Proofs about the webhook deliveries, for any subscriptions,             *)
(* publications, number of attempts and faults.                            *)
(***************************************************************************)
EXTENDS Webhooks, TLAPS

\* The steps of the service.
LEMMA WebhooksCases ==
  ASSUME [WebhooksNext]_webhooksVars
  PROVE  \/ \E s \in Subscriptions : CreateSubscription(s) \/ DeleteSubscription(s)
         \/ \E p \in Publications : PublishEvent(p)
         \/ \E p \in Publications, s \in Subscriptions : CreateLog(p, s)
         \/ \E p \in Publications, s \in Subscriptions : CreateLogFails(p, s)
         \/ \E d \in Deliveries, answer \in {"ok", "bad", "thrown"} : Post(d, answer)
         \/ \E d \in Deliveries : LogAnswer(d)
         \/ \E d \in Deliveries : LogAnswerFails(d)
         \/ \E d \in Deliveries : LogError(d)
         \/ \E d \in Deliveries : LogErrorFails(d)
         \/ \E d \in Deliveries : TimerFires(d)
         \/ RestartApi \/ UNCHANGED webhooksVars
BY Zenon DEF WebhooksNext, Deliver

-----------------------------------------------------------------------------
(***************************************************************************)
(* Types and counts.  That posted stays within MaxAttempts rests on the    *)
(* attempt a delivery remembers, and that one begins at zero on            *)
(* publishEvent creating each row once: one invariant has all three.       *)
(***************************************************************************)

\* A delivery has posted once for each attempt behind it, and once more
\* between its request and the end of its attempt.
PostsCounted(d) ==
  /\ delivery[d].at \in {"none", "posting", "waiting"} => posted[d] = delivery[d].attempt
  /\ delivery[d].at \in {"logging", "catching"} => posted[d] = delivery[d].attempt + 1

\* What publishEvent has yet to create has not begun.
NotBegun(p, s) ==
  publication[p].at = "none" \/ s \in publication[p].todo => delivery[<<p, s>>].at = "none"

WebhooksShape ==
  /\ WebhooksTypeOK
  /\ \A d \in Deliveries : PostsCounted(d)
  /\ \A p \in Publications, s \in Subscriptions : NotBegun(p, s)

\* The records of the service are well typed.
LEMMA WebhookRecords ==
  /\ NoRow \in LogRows /\ NewRow \in LogRows
  /\ NoDelivery \in DeliveryRecords
  /\ [at |-> "rejected", todo |-> {}] \in PublicationRecords
<1>1. 0 \in 0..MaxAttempts-1
  BY WebhooksAssumption
<1>2. NoDelivery \in DeliveryRecords
  BY <1>1 DEF NoDelivery, DeliveryRecords
<1>3. NoRow \in LogRows
  BY DEF NoRow, LogRows
<1>4. NewRow \in LogRows
  BY <1>3 DEF NewRow, LogRows
<1>5. [at |-> "rejected", todo |-> {}] \in PublicationRecords
  BY DEF PublicationRecords
<1>6. QED BY <1>2, <1>3, <1>4, <1>5

\* After a failed attempt there is room for another, or the delivery is over.
LEMMA AfterAFailure ==
  ASSUME WebhooksTypeOK, NEW d \in Deliveries
  PROVE  /\ RetryOrEnd(d) \in DeliveryRecords
         /\ \/ /\ RetryOrEnd(d).at = "waiting"
               /\ RetryOrEnd(d).attempt = delivery[d].attempt + 1
            \/ RetryOrEnd(d).at = "over"
<1>1. delivery[d] \in DeliveryRecords
  BY DEF WebhooksTypeOK
<1>2. CASE delivery[d].attempt < MaxAttempts - 1
  <2>1. delivery[d].attempt + 1 \in 0..MaxAttempts-1
    BY <1>1, <1>2, WebhooksAssumption DEF DeliveryRecords
  <2>2. RetryOrEnd(d) = [delivery[d] EXCEPT !.at = "waiting", !.attempt = @ + 1]
    BY <1>2 DEF RetryOrEnd
  <2>3. QED BY <1>1, <2>1, <2>2 DEF DeliveryRecords
<1>3. CASE ~(delivery[d].attempt < MaxAttempts - 1)
  <2>1. RetryOrEnd(d) = [delivery[d] EXCEPT !.at = "over"]
    BY <1>3 DEF RetryOrEnd
  <2>2. QED BY <1>1, <2>1 DEF DeliveryRecords
<1>4. QED BY <1>2, <1>3

\* Only one delivery moves: the rest of the shape is kept if its own is.
LEMMA OneMoves ==
  ASSUME WebhooksShape, NEW d \in Deliveries,
         \A e \in Deliveries : e # d => delivery'[e] = delivery[e] /\ posted'[e] = posted[e],
         delivery[d].at # "none", PostsCounted(d)', UNCHANGED publication
  PROVE  /\ \A e \in Deliveries : PostsCounted(e)'
         /\ \A p \in Publications, s \in Subscriptions : NotBegun(p, s)'
<1>1. ASSUME NEW e \in Deliveries PROVE PostsCounted(e)'
  BY DEF WebhooksShape, PostsCounted
<1>2. ASSUME NEW p \in Publications, NEW s \in Subscriptions PROVE NotBegun(p, s)'
  <2>1. <<p, s>> \in Deliveries
    BY DEF Deliveries
  <2>2. QED BY <2>1 DEF WebhooksShape, NotBegun
<1>3. QED BY <1>1, <1>2

\* When the process dies, what is in memory is lost, whoever the culprit.
LEMMA DeathKept ==
  ASSUME WebhooksShape, ProcessDies, UNCHANGED posted
  PROVE  /\ delivery' \in [Deliveries -> DeliveryRecords]
         /\ publication' \in [Publications -> PublicationRecords]
         /\ \A d \in Deliveries : PostsCounted(d)'
         /\ \A p \in Publications, s \in Subscriptions : NotBegun(p, s)'
<1>1. ASSUME NEW d \in Deliveries
      PROVE  /\ delivery'[d] \in DeliveryRecords
             /\ delivery'[d] = delivery[d] \/ delivery'[d].at = "lost"
             /\ delivery[d].at = "none" => delivery'[d] = delivery[d]
  <2>1. delivery[d] \in DeliveryRecords
    BY DEF WebhooksShape, WebhooksTypeOK
  <2>2. delivery'[d] = IF Working(d) THEN [delivery[d] EXCEPT !.at = "lost"] ELSE delivery[d]
    BY DEF ProcessDies
  <2>3. QED BY <2>1, <2>2 DEF DeliveryRecords, Working
<1>2. delivery' \in [Deliveries -> DeliveryRecords]
  BY <1>1 DEF ProcessDies
<1>3. ASSUME NEW p \in Publications
      PROVE  /\ publication'[p] \in PublicationRecords
             /\ publication'[p].at = "none" => publication[p].at = "none"
             /\ publication'[p].todo \subseteq publication[p].todo
  <2>1. publication[p] \in PublicationRecords
    BY DEF WebhooksShape, WebhooksTypeOK
  <2>2. publication'[p] = IF publication[p].at = "creating"
                          THEN [at |-> "rejected", todo |-> {}] ELSE publication[p]
    BY DEF ProcessDies
  <2>3. QED BY <2>1, <2>2, WebhookRecords
<1>4. publication' \in [Publications -> PublicationRecords]
  BY <1>3 DEF ProcessDies
<1>5. ASSUME NEW d \in Deliveries PROVE PostsCounted(d)'
  BY <1>1 DEF WebhooksShape, PostsCounted
<1>6. ASSUME NEW p \in Publications, NEW s \in Subscriptions PROVE NotBegun(p, s)'
  <2>1. <<p, s>> \in Deliveries
    BY DEF Deliveries
  <2>2. QED BY <1>1, <1>3, <2>1 DEF WebhooksShape, NotBegun
<1>7. QED BY <1>2, <1>4, <1>5, <1>6

\* The shape is inductive.
LEMMA WebhooksShapeStep ==
  ASSUME WebhooksShape, [WebhooksNext]_webhooksVars
  PROVE  WebhooksShape'
<1> DEFINE Deliveries1 == \A d \in Deliveries : PostsCounted(d)
           Publications1 == \A p \in Publications, s \in Subscriptions : NotBegun(p, s)
<1>0. WebhooksTypeOK /\ Deliveries1 /\ Publications1
  BY DEF WebhooksShape
<1>1. ASSUME NEW s \in Subscriptions, CreateSubscription(s) \/ DeleteSubscription(s)
      PROVE  WebhooksShape'
  <2>1. /\ subscription' \in [Subscriptions -> {"none", "active", "deleted"}]
        /\ log' \in [Deliveries -> LogRows]
    BY <1>1, <1>0, WebhookRecords DEF CreateSubscription, DeleteSubscription, WebhooksTypeOK
  <2>2. UNCHANGED <<publication, delivery, posted, taken, unlogged, webhookFaults>>
    BY <1>1 DEF CreateSubscription, DeleteSubscription, webhookHistory
  <2>3. QED BY <1>0, <2>1, <2>2 DEF WebhooksShape, WebhooksTypeOK, PostsCounted, NotBegun
<1>2. ASSUME NEW p \in Publications, PublishEvent(p) PROVE WebhooksShape'
  <2>1. publication' \in [Publications -> PublicationRecords]
    BY <1>2, <1>0 DEF PublishEvent, WebhooksTypeOK, PublicationRecords
  <2>2. Publications1'
    BY <1>2, <1>0 DEF PublishEvent, WebhooksTypeOK, NotBegun
  <2>3. UNCHANGED <<subscription, log, delivery, posted, taken, unlogged, webhookFaults>>
    BY <1>2 DEF PublishEvent, webhookHistory
  <2>4. QED BY <1>0, <2>1, <2>2, <2>3 DEF WebhooksShape, WebhooksTypeOK, PostsCounted
<1>3. ASSUME NEW p \in Publications, NEW s \in Subscriptions, CreateLog(p, s)
      PROVE  WebhooksShape'
  <2> DEFINE d == <<p, s>>
  <2>1. d \in Deliveries
    BY DEF Deliveries
  <2>2. /\ publication[p].at = "creating" /\ s \in publication[p].todo
        /\ publication' = [publication EXCEPT ![p].todo = @ \ {s}]
        /\ log' = [log EXCEPT ![d] = NewRow]
        /\ delivery' = [delivery EXCEPT ![d].at = "posting"]
        /\ UNCHANGED <<subscription, posted, taken, unlogged, webhookFaults>>
    BY <1>3 DEF CreateLog, webhookHistory
  <2>3. delivery[d].at = "none"
    BY <1>0, <2>2 DEF NotBegun
  <2>4. log' \in [Deliveries -> LogRows]
    BY <1>0, <2>1, <2>2, WebhookRecords DEF WebhooksTypeOK
  <2>5. publication' \in [Publications -> PublicationRecords]
    BY <1>0, <2>2 DEF WebhooksTypeOK, PublicationRecords
  <2>6. delivery' \in [Deliveries -> DeliveryRecords]
    BY <1>0, <2>1, <2>2 DEF WebhooksTypeOK, DeliveryRecords
  <2>7. Deliveries1'
    BY <1>0, <2>1, <2>2, <2>3 DEF WebhooksTypeOK, DeliveryRecords, PostsCounted
  <2>8. ASSUME NEW q \in Publications, NEW t \in Subscriptions PROVE NotBegun(q, t)'
    <3>1. <<q, t>> \in Deliveries
      BY DEF Deliveries
    <3>2. CASE <<q, t>> = d
      BY <1>0, <2>2, <3>2 DEF WebhooksTypeOK, PublicationRecords, NotBegun
    <3>3. CASE <<q, t>> # d
      <4>1. delivery'[<<q, t>>] = delivery[<<q, t>>]
        BY <1>0, <2>2, <3>1, <3>3 DEF WebhooksTypeOK
      <4>2. /\ publication'[q].at = publication[q].at
            /\ publication'[q].todo \subseteq publication[q].todo
        BY <1>0, <2>2 DEF WebhooksTypeOK, PublicationRecords
      <4>3. QED BY <1>0, <4>1, <4>2 DEF NotBegun
    <3>4. QED BY <3>2, <3>3
  <2>9. QED BY <1>0, <2>2, <2>4, <2>5, <2>6, <2>7, <2>8 DEF WebhooksShape, WebhooksTypeOK
<1>4. ASSUME NEW p \in Publications, NEW s \in Subscriptions, CreateLogFails(p, s)
      PROVE  WebhooksShape'
  <2>1. /\ publication' = [publication EXCEPT ![p] = [at |-> "rejected", todo |-> {}]]
        /\ UNCHANGED <<subscription, log, delivery, posted, taken, unlogged>>
    BY <1>4 DEF CreateLogFails, webhookHistory
  <2>2. webhookFaults' \in 0..MaxWebhookFaults
    <3>1. webhookFaults' = webhookFaults \/ Fault
      BY <1>4 DEF CreateLogFails
    <3>2. QED BY <1>0, <3>1, WebhooksAssumption DEF Fault, WebhooksTypeOK
  <2>3. publication' \in [Publications -> PublicationRecords]
    BY <1>0, <2>1, WebhookRecords DEF WebhooksTypeOK
  <2>4. Publications1'
    BY <1>0, <2>1 DEF WebhooksTypeOK, NotBegun
  <2>5. QED BY <1>0, <2>1, <2>2, <2>3, <2>4 DEF WebhooksShape, WebhooksTypeOK, PostsCounted
<1>5. ASSUME NEW d \in Deliveries, NEW answer \in {"ok", "bad", "thrown"}, Post(d, answer)
      PROVE  WebhooksShape'
  <2>1. /\ delivery[d].at = "posting"
        /\ posted' = [posted EXCEPT ![d] = @ + 1]
        /\ taken' \subseteq Deliveries
        /\ UNCHANGED <<subscription, log, publication, unlogged, webhookFaults>>
    BY <1>0, <1>5 DEF Post, WebhooksTypeOK
  <2>2. /\ delivery' \in [Deliveries -> DeliveryRecords]
        /\ delivery'[d].at \in {"logging", "catching"}
        /\ delivery'[d].attempt = delivery[d].attempt
        /\ \A e \in Deliveries : e # d => delivery'[e] = delivery[e]
    BY <1>0, <1>5 DEF Post, WebhooksTypeOK, DeliveryRecords
  <2>3. delivery[d].attempt + 1 \in 0..MaxAttempts
    BY <1>0, WebhooksAssumption DEF WebhooksTypeOK, DeliveryRecords
  <2>4. posted[d] = delivery[d].attempt
    BY <1>0, <2>1 DEF PostsCounted
  <2>5. posted' \in [Deliveries -> 0..MaxAttempts]
    BY <1>0, <2>1, <2>3, <2>4 DEF WebhooksTypeOK
  <2>6. PostsCounted(d)'
    BY <1>0, <2>1, <2>2, <2>4 DEF WebhooksTypeOK, PostsCounted
  <2>7. \A e \in Deliveries : e # d => posted'[e] = posted[e]
    BY <1>0, <2>1 DEF WebhooksTypeOK
  <2>8. Deliveries1' /\ Publications1'
    BY <2>1, <2>2, <2>6, <2>7, OneMoves
  <2>9. QED BY <1>0, <2>1, <2>2, <2>5, <2>8 DEF WebhooksShape, WebhooksTypeOK
<1>6. ASSUME NEW d \in Deliveries, LogAnswer(d) \/ LogError(d) PROVE WebhooksShape'
  <2>1. /\ delivery[d].at \in {"logging", "catching"}
        /\ UNCHANGED <<subscription, publication, posted, taken, unlogged, webhookFaults>>
    BY <1>6 DEF LogAnswer, LogError, webhookHistory
  <2>2. log' \in [Deliveries -> LogRows]
    <3>1. delivery[d].attempt + 1 \in Nat
      BY <1>0, WebhooksAssumption DEF WebhooksTypeOK, DeliveryRecords
    <3>2. (delivery[d].answer = "ok") \in BOOLEAN
      OBVIOUS
    <3>3. CASE LogAnswer(d)
      <4>1. \A n \in Nat, b \in BOOLEAN :
              [log EXCEPT ![d].attempts = n, ![d].success = b] \in [Deliveries -> LogRows]
        BY <1>0 DEF WebhooksTypeOK, LogRows
      <4>2. log' = [log EXCEPT ![d].attempts = delivery[d].attempt + 1,
                              ![d].success = delivery[d].answer = "ok"]
        BY <3>3 DEF LogAnswer
      <4>3. QED BY <3>1, <3>2, <4>1, <4>2
    <3>4. CASE LogError(d)
      BY <1>0, <3>1, <3>4 DEF LogError, WebhooksTypeOK, LogRows
    <3>5. QED BY <1>6, <3>3, <3>4
  <2>3. \/ delivery' = [delivery EXCEPT ![d] = [@ EXCEPT !.at = "over"]]
        \/ delivery' = [delivery EXCEPT ![d] = RetryOrEnd(d)]
    BY <1>6 DEF LogAnswer, LogError
  <2>4. /\ delivery' \in [Deliveries -> DeliveryRecords]
        /\ \/ delivery'[d].at = "over"
           \/ delivery'[d].at = "waiting" /\ delivery'[d].attempt = delivery[d].attempt + 1
        /\ \A e \in Deliveries : e # d => delivery'[e] = delivery[e]
    <3>1. CASE delivery' = [delivery EXCEPT ![d] = [@ EXCEPT !.at = "over"]]
      BY <1>0, <3>1 DEF WebhooksTypeOK, DeliveryRecords
    <3>2. CASE delivery' = [delivery EXCEPT ![d] = RetryOrEnd(d)]
      BY <1>0, <3>2, AfterAFailure DEF WebhooksTypeOK
    <3>3. QED BY <2>3, <3>1, <3>2
  <2>5. PostsCounted(d)'
    BY <1>0, <2>1, <2>4 DEF PostsCounted
  <2>6. Deliveries1' /\ Publications1'
    BY <2>1, <2>4, <2>5, OneMoves
  <2>7. QED BY <1>0, <2>1, <2>2, <2>4, <2>6 DEF WebhooksShape, WebhooksTypeOK
<1>7. ASSUME NEW d \in Deliveries, LogAnswerFails(d) \/ TimerFires(d) PROVE WebhooksShape'
  <2>1. /\ UNCHANGED <<subscription, log, publication, posted, taken>>
        /\ unlogged' \subseteq Deliveries
        /\ \/ delivery[d].at = "logging" /\ delivery' = [delivery EXCEPT ![d].at = "catching"]
           \/ delivery[d].at = "waiting" /\ delivery' = [delivery EXCEPT ![d].at = "posting"]
    BY <1>0, <1>7 DEF LogAnswerFails, TimerFires, webhookHistory, WebhooksTypeOK
  <2>2. webhookFaults' \in 0..MaxWebhookFaults
    <3>1. webhookFaults' = webhookFaults \/ Fault
      BY <1>7 DEF LogAnswerFails, TimerFires
    <3>2. QED BY <1>0, <3>1, WebhooksAssumption DEF Fault, WebhooksTypeOK
  <2>3. /\ delivery' \in [Deliveries -> DeliveryRecords]
        /\ \A e \in Deliveries : e # d => delivery'[e] = delivery[e]
    BY <1>0, <2>1 DEF WebhooksTypeOK, DeliveryRecords
  <2>4. PostsCounted(d)'
    BY <1>0, <2>1 DEF PostsCounted, WebhooksTypeOK, DeliveryRecords
  <2>5. Deliveries1' /\ Publications1'
    BY <2>1, <2>3, <2>4, OneMoves
  <2>6. QED BY <1>0, <2>1, <2>2, <2>3, <2>5 DEF WebhooksShape, WebhooksTypeOK
<1>8. ASSUME NEW d \in Deliveries, LogErrorFails(d) PROVE WebhooksShape'
  <2>1. /\ delivery[d].at = "catching"
        /\ UNCHANGED <<subscription, log, posted, taken>>
        /\ unlogged' \subseteq Deliveries
        /\ \/ /\ delivery' = [delivery EXCEPT ![d].at = "over"]
              /\ UNCHANGED publication
           \/ ProcessDies
    BY <1>0, <1>8 DEF LogErrorFails, WebhooksTypeOK
  <2>2. webhookFaults' \in 0..MaxWebhookFaults
    <3>1. webhookFaults' = webhookFaults \/ Fault
      BY <1>8 DEF LogErrorFails
    <3>2. QED BY <1>0, <3>1, WebhooksAssumption DEF Fault, WebhooksTypeOK
  <2>3. CASE delivery' = [delivery EXCEPT ![d].at = "over"] /\ UNCHANGED publication
    <3>1. /\ delivery' \in [Deliveries -> DeliveryRecords]
          /\ delivery'[d].at = "over"
          /\ \A e \in Deliveries : e # d => delivery'[e] = delivery[e]
      BY <1>0, <2>3 DEF WebhooksTypeOK, DeliveryRecords
    <3>2. PostsCounted(d)'
      BY <3>1 DEF PostsCounted
    <3>3. Deliveries1' /\ Publications1'
      BY <2>1, <2>3, <3>1, <3>2, OneMoves
    <3>4. QED BY <1>0, <2>1, <2>2, <2>3, <3>1, <3>3 DEF WebhooksShape, WebhooksTypeOK
  <2>4. CASE ProcessDies
    BY <1>0, <2>1, <2>2, <2>4, DeathKept DEF WebhooksShape, WebhooksTypeOK
  <2>5. QED BY <2>1, <2>3, <2>4
<1>9. CASE RestartApi
  <2>1. webhookFaults' \in 0..MaxWebhookFaults
    BY <1>0, <1>9, WebhooksAssumption DEF RestartApi, Fault, WebhooksTypeOK
  <2>2. ProcessDies /\ UNCHANGED <<subscription, log, posted, taken, unlogged>>
    BY <1>9 DEF RestartApi, webhookHistory
  <2>3. QED BY <1>0, <2>1, <2>2, DeathKept DEF WebhooksShape, WebhooksTypeOK
<1>10. CASE UNCHANGED webhooksVars
  BY <1>0, <1>10 DEF webhooksVars, WebhooksShape, WebhooksTypeOK, PostsCounted, NotBegun
<1>11. QED
  BY <1>1, <1>2, <1>3, <1>4, <1>5, <1>6, <1>7, <1>8, <1>9, <1>10, WebhooksCases

LEMMA WebhooksStart == WebhooksInit => WebhooksShape
<1>1. NoDelivery.at = "none" /\ NoDelivery.attempt = 0
  BY DEF NoDelivery
<1>2. 0 \in 0..MaxAttempts /\ 0 \in 0..MaxWebhookFaults
  BY WebhooksAssumption
<1>3. [at |-> "none", todo |-> {}] \in PublicationRecords
  BY DEF PublicationRecords
<1>4. \A p \in Publications, s \in Subscriptions : <<p, s>> \in Deliveries
  BY DEF Deliveries
<1>5. WebhooksInit => WebhooksTypeOK
  BY <1>2, <1>3, WebhookRecords DEF WebhooksInit, WebhooksTypeOK
<1>6. WebhooksInit => \A d \in Deliveries : delivery[d] = NoDelivery /\ posted[d] = 0
  BY DEF WebhooksInit
<1>7. QED BY <1>1, <1>4, <1>5, <1>6 DEF WebhooksShape, PostsCounted, NotBegun

\* The state of the webhook service is always well typed.
THEOREM WebhooksTypeCorrect == WebhooksSpec => []WebhooksTypeOK
<1>1. WebhooksShape /\ [WebhooksNext]_webhooksVars => WebhooksShape'
  BY WebhooksShapeStep
<1>2. WebhooksShape => WebhooksTypeOK
  BY DEF WebhooksShape
<1>3. QED BY WebhooksStart, <1>1, <1>2, PTL DEF WebhooksSpec

-----------------------------------------------------------------------------
(***************************************************************************)
(* The log tells the truth.                                                *)
(***************************************************************************)

\* What is known of a delivery all of whose log writes have succeeded: while
\* it is under way its endpoint has not taken the event, except between a 2xx
\* and the write that says so.
LogSound(d) ==
  /\ delivery[d].at \in {"none", "posting", "waiting", "catching"} => d \notin taken
  /\ delivery[d].at = "logging" => (delivery[d].answer = "ok" <=> d \in taken)
  /\ delivery[d].at = "over" /\ log[d].exists
       => /\ d \in taken => log[d].success
          /\ log[d].attempts = posted[d]

Truthful(d) ==
  /\ log[d].success => d \in taken
  /\ delivery[d].at = "logging" /\ delivery[d].answer = "ok" => d \in taken
  /\ d \notin unlogged => LogSound(d)

\* The inductive invariant.
WebhooksInv == WebhooksShape /\ \A d \in Deliveries : Truthful(d)

\* A delivery that nothing happens to stays truthful; so does one that dies.
LEMMA OthersTruthful ==
  ASSUME NEW e, Truthful(e),
         delivery'[e] = delivery[e] \/ delivery'[e].at = "lost",
         posted'[e] = posted[e], e \in taken' <=> e \in taken, unlogged \subseteq unlogged',
         log'[e] = log[e] \/ (~log'[e].success /\ ~log'[e].exists)
  PROVE  Truthful(e)'
BY DEF Truthful, LogSound

LEMMA DeathTakes ==
  ASSUME ProcessDies, WebhooksTypeOK, NEW e \in Deliveries
  PROVE  delivery'[e] = delivery[e] \/ delivery'[e].at = "lost"
BY DEF ProcessDies, WebhooksTypeOK, DeliveryRecords

\* Every step keeps it.
LEMMA WebhooksInvStep ==
  ASSUME WebhooksInv, [WebhooksNext]_webhooksVars
  PROVE  WebhooksInv'
<1>0. WebhooksTypeOK /\ (\A d \in Deliveries : PostsCounted(d) /\ Truthful(d))
  BY DEF WebhooksInv, WebhooksShape
<1>s. WebhooksShape'
  BY WebhooksShapeStep DEF WebhooksInv
<1> SUFFICES ASSUME NEW e \in Deliveries PROVE Truthful(e)'
  BY <1>s DEF WebhooksInv
<1>1. ASSUME NEW s \in Subscriptions, CreateSubscription(s) \/ DeleteSubscription(s)
      PROVE  Truthful(e)'
  <2>1. UNCHANGED <<publication, delivery, posted, taken, unlogged>>
    BY <1>1 DEF CreateSubscription, DeleteSubscription, webhookHistory
  <2>2. log'[e] = log[e] \/ log'[e] = NoRow
    BY <1>1 DEF CreateSubscription, DeleteSubscription
  <2>3. ~NoRow.success /\ ~NoRow.exists
    BY DEF NoRow
  <2>4. QED BY <1>0, <2>1, <2>2, <2>3, OthersTruthful
<1>2. ASSUME NEW p \in Publications, PublishEvent(p) PROVE Truthful(e)'
  BY <1>0, <1>2, OthersTruthful DEF PublishEvent, webhookHistory
<1>3. ASSUME NEW p \in Publications, NEW s \in Subscriptions, CreateLog(p, s)
      PROVE  Truthful(e)'
  <2>1. /\ s \in publication[p].todo
        /\ log' = [log EXCEPT ![<<p, s>>] = NewRow]
        /\ delivery' = [delivery EXCEPT ![<<p, s>>].at = "posting"]
        /\ UNCHANGED <<posted, taken, unlogged>>
    BY <1>3 DEF CreateLog, webhookHistory
  <2>2. CASE e = <<p, s>>
    <3>1. delivery[e].at = "none"
      BY <2>1, <2>2 DEF WebhooksInv, WebhooksShape, NotBegun
    <3>2. ~NewRow.success
      BY DEF NewRow, NoRow
    <3>3. log'[e] = NewRow /\ delivery'[e].at = "posting"
      BY <1>0, <2>1, <2>2 DEF WebhooksTypeOK, DeliveryRecords
    <3>4. QED BY <1>0, <2>1, <3>1, <3>2, <3>3 DEF Truthful, LogSound
  <2>3. CASE e # <<p, s>>
    <3>1. log'[e] = log[e] /\ delivery'[e] = delivery[e]
      BY <1>0, <2>1, <2>3 DEF WebhooksTypeOK
    <3>2. QED BY <1>0, <2>1, <3>1, OthersTruthful
  <2>4. QED BY <2>2, <2>3
<1>4. ASSUME NEW p \in Publications, NEW s \in Subscriptions, CreateLogFails(p, s)
      PROVE  Truthful(e)'
  BY <1>0, <1>4, OthersTruthful DEF CreateLogFails, webhookHistory
<1>5. ASSUME NEW d \in Deliveries, NEW answer \in {"ok", "bad", "thrown"}, Post(d, answer)
      PROVE  Truthful(e)'
  <2>1. /\ delivery[d].at = "posting"
        /\ delivery' = [delivery EXCEPT ![d].answer = answer,
                          ![d].at = IF answer = "thrown" THEN "catching" ELSE "logging"]
        /\ posted' = [posted EXCEPT ![d] = @ + 1]
        /\ taken' = IF answer = "ok" THEN taken \union {d} ELSE taken
        /\ UNCHANGED <<log, unlogged>>
    BY <1>5 DEF Post
  <2>2. CASE e = d
    <3>1. /\ delivery'[e].answer = answer
          /\ delivery'[e].at = IF answer = "thrown" THEN "catching" ELSE "logging"
      BY <1>0, <2>1, <2>2 DEF WebhooksTypeOK, DeliveryRecords
    <3>2. QED BY <1>0, <2>1, <2>2, <3>1 DEF Truthful, LogSound
  <2>3. CASE e # d
    <3>1. delivery'[e] = delivery[e] /\ posted'[e] = posted[e] /\ (e \in taken' <=> e \in taken)
      BY <1>0, <2>1, <2>3 DEF WebhooksTypeOK
    <3>2. QED BY <1>0, <2>1, <3>1, OthersTruthful
  <2>4. QED BY <2>2, <2>3
<1>6. ASSUME NEW d \in Deliveries, LogAnswer(d) PROVE Truthful(e)'
  <2>1. /\ delivery[d].at = "logging"
        /\ log' = [log EXCEPT ![d].attempts = delivery[d].attempt + 1,
                              ![d].success = delivery[d].answer = "ok"]
        /\ delivery' = [delivery EXCEPT ![d] = IF delivery[d].answer = "ok"
                                               THEN [@ EXCEPT !.at = "over"] ELSE RetryOrEnd(d)]
        /\ UNCHANGED <<posted, taken, unlogged>>
    BY <1>6 DEF LogAnswer, webhookHistory
  <2>2. CASE e = d
    <3>1. /\ log'[e].attempts = delivery[e].attempt + 1
          /\ log'[e].success <=> delivery[e].answer = "ok"
      BY <1>0, <2>1, <2>2 DEF WebhooksTypeOK, LogRows
    <3>2. /\ delivery'[e].at \in {"over", "waiting"}
          /\ delivery[e].answer = "ok" => delivery'[e].at = "over"
      BY <1>0, <2>1, <2>2, AfterAFailure DEF WebhooksTypeOK, DeliveryRecords
    <3>3. posted[e] = delivery[e].attempt + 1
      BY <1>0, <2>1, <2>2 DEF PostsCounted
    <3>4. log'[e].success => e \in taken
      BY <1>0, <2>1, <2>2, <3>1 DEF Truthful
    <3>5. QED BY <1>0, <2>1, <2>2, <3>1, <3>2, <3>3, <3>4 DEF Truthful, LogSound
  <2>3. CASE e # d
    <3>1. log'[e] = log[e] /\ delivery'[e] = delivery[e]
      BY <1>0, <2>1, <2>3 DEF WebhooksTypeOK
    <3>2. QED BY <1>0, <2>1, <3>1, OthersTruthful
  <2>4. QED BY <2>2, <2>3
<1>7. ASSUME NEW d \in Deliveries, LogError(d) PROVE Truthful(e)'
  <2>1. /\ delivery[d].at = "catching"
        /\ log' = [log EXCEPT ![d].attempts = delivery[d].attempt + 1]
        /\ delivery' = [delivery EXCEPT ![d] = RetryOrEnd(d)]
        /\ UNCHANGED <<posted, taken, unlogged>>
    BY <1>7 DEF LogError, webhookHistory
  <2>2. CASE e = d
    <3>1. /\ log'[e].attempts = delivery[e].attempt + 1
          /\ log'[e].success = log[e].success
      BY <1>0, <2>1, <2>2 DEF WebhooksTypeOK, LogRows
    <3>2. delivery'[e].at \in {"over", "waiting"}
      BY <1>0, <2>1, <2>2, AfterAFailure DEF WebhooksTypeOK
    <3>3. posted[e] = delivery[e].attempt + 1
      BY <1>0, <2>1, <2>2 DEF PostsCounted
    <3>4. QED BY <1>0, <2>1, <2>2, <3>1, <3>2, <3>3 DEF Truthful, LogSound
  <2>3. CASE e # d
    <3>1. log'[e] = log[e] /\ delivery'[e] = delivery[e]
      BY <1>0, <2>1, <2>3 DEF WebhooksTypeOK
    <3>2. QED BY <1>0, <2>1, <3>1, OthersTruthful
  <2>4. QED BY <2>2, <2>3
<1>8. ASSUME NEW d \in Deliveries, LogAnswerFails(d) PROVE Truthful(e)'
  <2>1. /\ delivery' = [delivery EXCEPT ![d].at = "catching"]
        /\ unlogged' = unlogged \union {d}
        /\ UNCHANGED <<log, posted, taken>>
    BY <1>8 DEF LogAnswerFails
  <2>2. CASE e = d
    <3>1. delivery'[e].at = "catching" /\ e \in unlogged'
      BY <1>0, <2>1, <2>2 DEF WebhooksTypeOK, DeliveryRecords
    <3>2. QED BY <1>0, <2>1, <3>1 DEF Truthful
  <2>3. CASE e # d
    <3>1. delivery'[e] = delivery[e]
      BY <1>0, <2>1, <2>3 DEF WebhooksTypeOK
    <3>2. QED BY <1>0, <2>1, <3>1, OthersTruthful
  <2>4. QED BY <2>2, <2>3
<1>9. ASSUME NEW d \in Deliveries, LogErrorFails(d) PROVE Truthful(e)'
  <2>1. /\ unlogged' = unlogged \union {d}
        /\ UNCHANGED <<log, posted, taken>>
        /\ delivery' = [delivery EXCEPT ![d].at = "over"] \/ ProcessDies
    BY <1>9 DEF LogErrorFails
  <2>2. CASE ProcessDies
    BY <1>0, <2>1, <2>2, DeathTakes, OthersTruthful
  <2>3. CASE delivery' = [delivery EXCEPT ![d].at = "over"] /\ e = d
    <3>1. delivery'[e].at = "over" /\ e \in unlogged'
      BY <1>0, <2>1, <2>3 DEF WebhooksTypeOK, DeliveryRecords
    <3>2. QED BY <1>0, <2>1, <3>1 DEF Truthful
  <2>4. CASE delivery' = [delivery EXCEPT ![d].at = "over"] /\ e # d
    <3>1. delivery'[e] = delivery[e]
      BY <1>0, <2>4 DEF WebhooksTypeOK
    <3>2. QED BY <1>0, <2>1, <3>1, OthersTruthful
  <2>5. QED BY <2>1, <2>2, <2>3, <2>4
<1>10. ASSUME NEW d \in Deliveries, TimerFires(d) PROVE Truthful(e)'
  <2>1. /\ delivery[d].at = "waiting"
        /\ delivery' = [delivery EXCEPT ![d].at = "posting"]
        /\ UNCHANGED <<log, posted, taken, unlogged>>
    BY <1>10 DEF TimerFires, webhookHistory
  <2>2. delivery'[e] = delivery[e] \/ (delivery[e].at = "waiting" /\ delivery'[e].at = "posting")
    BY <1>0, <2>1 DEF WebhooksTypeOK, DeliveryRecords
  <2>3. QED BY <1>0, <2>1, <2>2 DEF Truthful, LogSound
<1>11. CASE RestartApi
  BY <1>0, <1>11, DeathTakes, OthersTruthful DEF RestartApi, webhookHistory
<1>12. CASE UNCHANGED webhooksVars
  BY <1>0, <1>12, OthersTruthful DEF webhooksVars
<1>13. QED
  BY <1>1, <1>2, <1>3, <1>4, <1>5, <1>6, <1>7, <1>8, <1>9, <1>10, <1>11, <1>12, WebhooksCases

\* What the log of a finished delivery tells is what happened, unless one of its
\* own writes failed; it never claims a delivery that did not take place.
THEOREM LogsAreTrue == WebhooksSpec => []FinalLogIsTrue
<1>1. WebhooksInit => WebhooksInv
  <2>1. NoDelivery.at = "none" /\ ~NoRow.success
    BY DEF NoDelivery, NoRow
  <2>2. WebhooksInit => \A d \in Deliveries :
          delivery[d] = NoDelivery /\ log[d] = NoRow /\ d \notin taken
    BY DEF WebhooksInit
  <2>3. QED BY <2>1, <2>2, WebhooksStart DEF WebhooksInv, Truthful, LogSound
<1>2. WebhooksInv /\ [WebhooksNext]_webhooksVars => WebhooksInv'
  BY WebhooksInvStep
<1>3. WebhooksInv => FinalLogIsTrue
  BY DEF WebhooksInv, Truthful, LogSound, FinalLogIsTrue
<1>4. QED BY <1>1, <1>2, <1>3, PTL DEF WebhooksSpec
=============================================================================
