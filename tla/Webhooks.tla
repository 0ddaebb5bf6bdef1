------------------------------ MODULE Webhooks ------------------------------
(***************************************************************************)
(* The webhook deliveries of the API (services/webhook.service.ts).  A     *)
(* publication creates one log row per active subscription and posts to    *)
(* its endpoint, up to MaxAttempts times; what waits for a retry lives     *)
(* only in timers of the process.  An action is what runs between two      *)
(* awaits.                                                                 *)
(*                                                                         *)
(* A log write fails when its row is gone (deleting a subscription         *)
(* cascades to its logs) or when the database does.  deliver writes again  *)
(* from its catch; if that fails too it rejects.  The first attempt's      *)
(* rejection is caught by publishEvent, a timer's by nobody: Node 20 ends  *)
(* the process, and every delivery in memory with it.                      *)
(***************************************************************************)
EXTENDS Naturals

CONSTANTS
  Subscriptions, Publications,
  MaxAttempts,       \* MAX_ATTEMPTS, 3 in the service
  MaxWebhookFaults   \* bound: failed database calls and restarts

ASSUME WebhooksAssumption == MaxAttempts \in Nat \ {0} /\ MaxWebhookFaults \in Nat

Deliveries == Publications \X Subscriptions

VARIABLES
  subscription,   \* database: "none", "active" or "deleted"
  log,            \* database: a delivery's webhookLog row, or NoRow
  publication,    \* memory: where each publishEvent is, whom it has to log
  delivery,       \* memory: where each deliver is
  posted,         \* webhookHistory: requests sent to the endpoint of a delivery
  taken,          \* webhookHistory: deliveries an endpoint answered with 2xx
  unlogged,       \* webhookHistory: deliveries with a log write that failed
  webhookFaults   \* bounded by MaxWebhookFaults

webhooksVars == <<subscription, log, publication, delivery, posted, taken,
                  unlogged, webhookFaults>>
webhookHistory == <<posted, taken, unlogged>>

NoRow  == [attempts |-> 0, success |-> FALSE, exists |-> FALSE]
NewRow == [NoRow EXCEPT !.exists = TRUE]

\* at: "none", "posting", "logging", "catching", "waiting" (for its timer),
\* "over", or "lost" (with the process).
NoDelivery == [at |-> "none", attempt |-> 0, answer |-> "none"]

Working(d) == delivery[d].at \in {"posting", "logging", "catching", "waiting"}

WebhooksInit ==
  /\ subscription = [s \in Subscriptions |-> "none"]
  /\ log = [d \in Deliveries |-> NoRow]
  /\ publication = [p \in Publications |-> [at |-> "none", todo |-> {}]]
  /\ delivery = [d \in Deliveries |-> NoDelivery]
  /\ posted = [d \in Deliveries |-> 0]
  /\ taken = {}
  /\ unlogged = {}
  /\ webhookFaults = 0

\* The database refuses a call, or the process is restarted.
Fault == /\ webhookFaults < MaxWebhookFaults
         /\ webhookFaults' = webhookFaults + 1

-----------------------------------------------------------------------------
CreateSubscription(s) ==
  /\ subscription[s] = "none"
  /\ subscription' = [subscription EXCEPT ![s] = "active"]
  /\ UNCHANGED <<log, publication, delivery, webhookHistory, webhookFaults>>

DeleteSubscription(s) ==
  /\ subscription[s] = "active"
  /\ subscription' = [subscription EXCEPT ![s] = "deleted"]
  /\ log' = [d \in Deliveries |-> IF d[2] = s THEN NoRow ELSE log[d]]
  /\ UNCHANGED <<publication, delivery, webhookHistory, webhookFaults>>

\* publishEvent reads the active subscriptions once.
PublishEvent(p) ==
  /\ publication[p].at = "none"
  /\ publication' = [publication EXCEPT ![p] =
       [at |-> "creating", todo |-> {s \in Subscriptions : subscription[s] = "active"}]]
  /\ UNCHANGED <<subscription, log, delivery, webhookHistory, webhookFaults>>

\* The loop creates the rows one by one, without waiting for the deliveries.
CreateLog(p, s) ==
  LET d == <<p, s>> IN
    /\ publication[p].at = "creating" /\ s \in publication[p].todo
    /\ subscription[s] = "active"
    /\ publication' = [publication EXCEPT ![p].todo = @ \ {s}]
    /\ log' = [log EXCEPT ![d] = NewRow]
    /\ delivery' = [delivery EXCEPT ![d].at = "posting"]
    /\ UNCHANGED <<subscription, webhookHistory, webhookFaults>>

\* A row that cannot be created (its subscription is gone, or the database
\* fails) ends the loop for the subscriptions after it.
CreateLogFails(p, s) ==
  /\ publication[p].at = "creating" /\ s \in publication[p].todo
  /\ \/ subscription[s] # "active" /\ UNCHANGED webhookFaults
     \/ Fault
  /\ publication' = [publication EXCEPT ![p] = [at |-> "rejected", todo |-> {}]]
  /\ UNCHANGED <<subscription, log, delivery, webhookHistory>>

-----------------------------------------------------------------------------
\* The fetch of deliver: an answer with res.ok or without, or no answer (a
\* time-out, a refused connection).
Post(d, answer) ==
  /\ delivery[d].at = "posting"
  /\ delivery' = [delivery EXCEPT ![d].answer = answer,
                    ![d].at = IF answer = "thrown" THEN "catching" ELSE "logging"]
  /\ posted' = [posted EXCEPT ![d] = @ + 1]
  /\ taken' = IF answer = "ok" THEN taken \union {d} ELSE taken
  /\ UNCHANGED <<subscription, log, publication, unlogged, webhookFaults>>

\* mutant: one attempt too many
RetryOrEndLate(d) == IF delivery[d].attempt < MaxAttempts
                     THEN [delivery[d] EXCEPT !.at = "waiting", !.attempt = @ + 1]
                     ELSE [delivery[d] EXCEPT !.at = "over"]

\* mutant: a first attempt that failed is not retried
RetryOrEndAtOnce(d) == IF delivery[d].attempt \in 1 .. MaxAttempts - 2
                       THEN [delivery[d] EXCEPT !.at = "waiting", !.attempt = @ + 1]
                       ELSE [delivery[d] EXCEPT !.at = "over"]

\* After a failed attempt: a timer for the next one, or the end.
RetryOrEnd(d) == IF delivery[d].attempt < MaxAttempts - 1
            THEN [delivery[d] EXCEPT !.at = "waiting", !.attempt = @ + 1]
            ELSE [delivery[d] EXCEPT !.at = "over"]

\* mutant: the row counts the attempts before this one
LogAnswerBehind(d) ==
  /\ delivery[d].at = "logging" /\ log[d].exists
  /\ log' = [log EXCEPT ![d].attempts = delivery[d].attempt,
                        ![d].success = delivery[d].answer = "ok"]
  /\ delivery' = [delivery EXCEPT ![d] = IF delivery[d].answer = "ok"
                                         THEN [@ EXCEPT !.at = "over"] ELSE RetryOrEnd(d)]
  /\ UNCHANGED <<subscription, publication, webhookHistory, webhookFaults>>

LogAnswer(d) ==
  /\ delivery[d].at = "logging" /\ log[d].exists
  /\ log' = [log EXCEPT ![d].attempts = delivery[d].attempt + 1,
                        ![d].success = delivery[d].answer = "ok"]
  /\ delivery' = [delivery EXCEPT ![d] = IF delivery[d].answer = "ok"
                                         THEN [@ EXCEPT !.at = "over"] ELSE RetryOrEnd(d)]
  /\ UNCHANGED <<subscription, publication, webhookHistory, webhookFaults>>

\* The write throws inside the try, whatever the endpoint has answered.
LogAnswerFails(d) ==
  /\ delivery[d].at = "logging"
  /\ \/ ~log[d].exists /\ UNCHANGED webhookFaults
     \/ log[d].exists /\ Fault
  /\ delivery' = [delivery EXCEPT ![d].at = "catching"]
  /\ unlogged' = unlogged \union {d}
  /\ UNCHANGED <<subscription, log, publication, posted, taken>>

\* The catch logs the error (the row's success stays as it was) and retries.
LogError(d) ==
  /\ delivery[d].at = "catching" /\ log[d].exists
  /\ log' = [log EXCEPT ![d].attempts = delivery[d].attempt + 1]
  /\ delivery' = [delivery EXCEPT ![d] = RetryOrEnd(d)]
  /\ UNCHANGED <<subscription, publication, webhookHistory, webhookFaults>>

\* What dies with the process: publications and deliveries under way.
ProcessDies ==
  /\ delivery' = [d \in Deliveries |-> IF Working(d) THEN [delivery[d] EXCEPT !.at = "lost"]
                                       ELSE delivery[d]]
  /\ publication' = [p \in Publications |->
       IF publication[p].at = "creating" THEN [at |-> "rejected", todo |-> {}]
       ELSE publication[p]]

LogErrorFails(d) ==
  /\ delivery[d].at = "catching"
  /\ \/ ~log[d].exists /\ UNCHANGED webhookFaults
     \/ log[d].exists /\ Fault
  /\ IF delivery[d].attempt = 0
     THEN /\ delivery' = [delivery EXCEPT ![d].at = "over"]
          /\ UNCHANGED publication
     ELSE ProcessDies
  /\ unlogged' = unlogged \union {d}
  /\ UNCHANGED <<subscription, log, posted, taken>>

TimerFires(d) ==
  /\ delivery[d].at = "waiting"
  /\ delivery' = [delivery EXCEPT ![d].at = "posting"]
  /\ UNCHANGED <<subscription, log, publication, webhookHistory, webhookFaults>>

RestartApi ==
  /\ Fault
  /\ ProcessDies
  /\ UNCHANGED <<subscription, log, webhookHistory>>

\* What the process does of itself; the rest is the users' and the faults'.
Deliver(d) == \/ \E answer \in {"ok", "bad", "thrown"} : Post(d, answer)
              \/ LogAnswer(d) \/ LogAnswerFails(d)
              \/ LogError(d)  \/ LogErrorFails(d)
              \/ TimerFires(d)

WebhooksNext ==
  \/ \E s \in Subscriptions : CreateSubscription(s) \/ DeleteSubscription(s)
  \/ \E p \in Publications : PublishEvent(p)
  \/ \E p \in Publications, s \in Subscriptions : CreateLog(p, s) \/ CreateLogFails(p, s)
  \/ \E d \in Deliveries : Deliver(d)
  \/ RestartApi

WebhooksSpec == WebhooksInit /\ [][WebhooksNext]_webhooksVars

-----------------------------------------------------------------------------
\* What the rows and the memory hold.
LogRows == [attempts : Nat, success : BOOLEAN, exists : BOOLEAN]
PublicationRecords == [at : {"none", "creating", "rejected"}, todo : SUBSET Subscriptions]
DeliveryRecords ==
  [at : {"none", "posting", "logging", "catching", "waiting", "over", "lost"},
   attempt : 0..MaxAttempts-1, answer : {"none", "ok", "bad", "thrown"}]

\* The shape of the state.
WebhooksTypeOK ==
  /\ subscription \in [Subscriptions -> {"none", "active", "deleted"}]
  /\ log \in [Deliveries -> LogRows]
  /\ publication \in [Publications -> PublicationRecords]
  /\ delivery \in [Deliveries -> DeliveryRecords]
  /\ posted \in [Deliveries -> 0..MaxAttempts]
  /\ taken \subseteq Deliveries
  /\ unlogged \subseteq Deliveries
  /\ webhookFaults \in 0..MaxWebhookFaults

\* What the log of a finished delivery tells its subscriber is what happened,
\* unless one of its own writes failed: it says success exactly if the endpoint
\* took the event, and counts every request.  Failed writes make it undercount
\* or deny a delivery; never does it claim one that did not take place.
FinalLogIsTrue ==
  \A d \in Deliveries :
    /\ log[d].success => d \in taken
    /\ delivery[d].at = "over" /\ log[d].exists /\ d \notin unlogged
         => /\ log[d].success <=> d \in taken
            /\ log[d].attempts = posted[d]

\* A delivery that was begun is made, or tried MaxAttempts times.  It is given
\* up earlier only when the process dies (possibly by another delivery's
\* deleted subscription) or when nothing of its first attempt could be logged.
DeliveriesGetTheirDue ==
  \A d \in Deliveries :
    delivery[d].at = "posting"
      ~> \/ d \in taken \/ posted[d] = MaxAttempts
         \/ delivery[d].at = "lost"
         \/ /\ delivery[d].at = "over" /\ delivery[d].attempt = 0
            /\ d \in unlogged /\ log[d].attempts = 0
=============================================================================
