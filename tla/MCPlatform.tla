----------------------------- MODULE MCPlatform -----------------------------
(***************************************************************************)
(* The instances of the API's, the mobile app's and the monitoring         *)
(* package's components that TLC checks, in one run.  They share no state; *)
(* in each behaviour one of them, the subject, moves.                      *)
(***************************************************************************)
EXTENDS Webhooks, Breaker, Sessions, OfflineQueue, Jobs, WorkerCache, Alerts, Idempotency

VARIABLE subject

vars == <<subject, webhooksVars, breakerVars, sessionsVars, offlineVars, jobsVars,
          cacheVars, alertsVars, idempotencyVars>>

\* One metric; a rule that fires at once, one that fires after two units of time,
\* and the same disabled.
SomeDefinitions ==
  {[operator |-> ">", threshold |-> 5, forMs |-> 0, enabled |-> TRUE],
   [operator |-> ">=", threshold |-> 5, forMs |-> 2, enabled |-> TRUE],
   [operator |-> ">=", threshold |-> 5, forMs |-> 2, enabled |-> FALSE]}

Init ==
  /\ subject \in {"webhooks", "breaker", "sessions", "offline", "jobs", "cache", "alerts",
                  "idempotency"}
  /\ WebhooksInit /\ BreakerInit /\ SessionsInit /\ OfflineInit /\ JobsInit /\ CacheInit
  /\ AlertsInit /\ IdempotencyInit
  \* a variable that starts with a choice starts with one while others move
  /\ subject # "alerts" => \A r \in RuleIds : rules[r].forMs = 0
  /\ subject # "idempotency" => ~anonymous

Next ==
  /\ UNCHANGED subject
  /\ \/ /\ subject = "webhooks" /\ WebhooksNext
        /\ UNCHANGED <<breakerVars, sessionsVars, offlineVars, jobsVars, cacheVars,
                       alertsVars, idempotencyVars>>
     \/ /\ subject = "breaker" /\ BreakerNext
        /\ UNCHANGED <<webhooksVars, sessionsVars, offlineVars, jobsVars, cacheVars,
                       alertsVars, idempotencyVars>>
     \/ /\ subject = "sessions" /\ SessionsNext
        /\ UNCHANGED <<webhooksVars, breakerVars, offlineVars, jobsVars, cacheVars,
                       alertsVars, idempotencyVars>>
     \/ /\ subject = "offline" /\ OfflineNext
        /\ UNCHANGED <<webhooksVars, breakerVars, sessionsVars, jobsVars, cacheVars,
                       alertsVars, idempotencyVars>>
     \/ /\ subject = "jobs" /\ JobsNext
        /\ UNCHANGED <<webhooksVars, breakerVars, sessionsVars, offlineVars, cacheVars,
                       alertsVars, idempotencyVars>>
     \/ /\ subject = "cache" /\ CacheNext
        /\ UNCHANGED <<webhooksVars, breakerVars, sessionsVars, offlineVars, jobsVars,
                       alertsVars, idempotencyVars>>
     \/ /\ subject = "alerts" /\ AlertsNext
        /\ UNCHANGED <<webhooksVars, breakerVars, sessionsVars, offlineVars, jobsVars,
                       cacheVars, idempotencyVars>>
     \/ /\ subject = "idempotency" /\ IdempotencyNext
        /\ UNCHANGED <<webhooksVars, breakerVars, sessionsVars, offlineVars, jobsVars,
                       cacheVars, alertsVars>>

\* The process goes on with the deliveries it has begun.
Spec == Init /\ [][Next]_vars /\ \A d \in Deliveries : WF_webhooksVars(Deliver(d))

\* The shape of the state of every component.
PlatformTypeOK ==
  /\ WebhooksTypeOK /\ BreakerTypeOK /\ SessionsTypeOK /\ OfflineTypeOK
  /\ JobsTypeOK /\ CacheTypeOK /\ AlertsTypeOK /\ IdempotencyTypeOK
=============================================================================
