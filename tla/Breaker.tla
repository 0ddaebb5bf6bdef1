------------------------------ MODULE Breaker ------------------------------
(***************************************************************************)
(* The circuit breaker that every Horizon call of the API goes through     *)
(* (clients/circuitBreaker.ts; one instance shared by all methods of       *)
(* clients/stellar.client.ts).  Calls run concurrently in one process; an  *)
(* action is what a call does between two awaits.                          *)
(*                                                                         *)
(* Time is the one bit the breaker asks about: whether resetTimeoutMs have *)
(* passed since openedAt.  consecutiveFailures is only ever compared with  *)
(* the threshold, so it is counted up to there.                            *)
(***************************************************************************)
EXTENDS Naturals, FiniteSets

CONSTANTS Calls, FailureThreshold, MaxRetries

ASSUME BreakerAssumption == /\ FailureThreshold \in Nat \ {0}
                            /\ MaxRetries \in Nat \ {0}

VARIABLES
  circuit,    \* state: "closed", "open" or "half-open"
  failures,   \* consecutiveFailures, counted up to FailureThreshold
  cooled,     \* resetTimeoutMs have passed since openedAt
  call        \* each execute: idle, sending (awaiting fn) or asleep (backoff)

breakerVars == <<circuit, failures, cooled, call>>

NoCall == [at |-> "idle", attempt |-> 0]

Sending == {c \in Calls : call[c].at = "sending"}
Asleep  == {c \in Calls : call[c].at = "asleep"}

BreakerInit ==
  /\ circuit = "closed"
  /\ failures = 0
  /\ cooled = FALSE
  /\ call = [c \in Calls |-> NoCall]

\* The reset timeout of an open breaker elapses.
Cool ==
  /\ circuit = "open" /\ ~cooled
  /\ cooled' = TRUE
  /\ UNCHANGED <<circuit, failures, call>>

\* execute up to the first fn: canAttempt moves a cooled breaker to half-open
\* and lets everybody through that is not open; else CircuitOpenError, which
\* changes nothing.
Execute(c) ==
  /\ call[c].at = "idle"
  /\ circuit = "open" => cooled
  /\ circuit' = IF circuit = "open" THEN "half-open" ELSE circuit
  /\ call' = [call EXCEPT ![c] = [at |-> "sending", attempt |-> 0]]
  /\ UNCHANGED <<failures, cooled>>

\* recordSuccess: any success closes the breaker, one that was sent before it
\* opened included.
Succeed(c) ==
  /\ call[c].at = "sending"
  /\ circuit' = "closed"
  /\ failures' = 0
  /\ call' = [call EXCEPT ![c] = NoCall]
  /\ UNCHANGED cooled

\* recordFailure: a failure while open starts the reset timeout afresh.
Counted == IF failures < FailureThreshold THEN failures + 1 ELSE failures
Opens   == circuit = "half-open" \/ Counted = FailureThreshold

\* mutant: the retry loop does not look at the breaker
FailAndRetry(c, retryable) ==
  /\ call[c].at = "sending"
  /\ failures' = Counted
  /\ circuit' = IF Opens THEN "open" ELSE circuit
  /\ cooled' = (cooled /\ ~Opens)
  /\ call' = [call EXCEPT ![c] =
       IF retryable /\ @.attempt < MaxRetries - 1
       THEN [at |-> "asleep", attempt |-> @.attempt + 1] ELSE NoCall]

Fail(c, retryable) ==
  /\ call[c].at = "sending"
  /\ failures' = Counted
  /\ circuit' = IF Opens THEN "open" ELSE circuit
  /\ cooled' = (cooled /\ ~Opens)
  /\ call' = [call EXCEPT ![c] =
       IF retryable /\ @.attempt < MaxRetries - 1 /\ circuit' # "open"
       THEN [at |-> "asleep", attempt |-> @.attempt + 1] ELSE NoCall]

\* The backoff ends and fn is called again; the breaker is not asked.
Wake(c) ==
  /\ call[c].at = "asleep"
  /\ call' = [call EXCEPT ![c].at = "sending"]
  /\ UNCHANGED <<circuit, failures, cooled>>

BreakerNext ==
  \/ Cool
  \/ \E c \in Calls : \/ Execute(c) \/ Succeed(c) \/ Wake(c)
                      \/ \E retryable \in BOOLEAN : Fail(c, retryable)

BreakerSpec == BreakerInit /\ [][BreakerNext]_breakerVars

-----------------------------------------------------------------------------
\* The shape of the state.
BreakerTypeOK ==
  /\ circuit \in {"closed", "open", "half-open"}
  /\ failures \in 0..FailureThreshold
  /\ cooled \in BOOLEAN
  /\ call \in [Calls -> [at : {"idle", "sending", "asleep"}, attempt : 0..MaxRetries-1]]

\* While the breaker is open, the dependency hears only of the calls that were
\* asleep when it opened, each once: nobody else sends, and nobody goes back to
\* sleep.  Requests "piled up against a dead dependency" are so bounded by the
\* calls in backoff, although execute asks the breaker only at its start.
OpenDrains ==
  [][circuit = "open" /\ circuit' = "open" =>
       /\ Sending' \ Sending \subseteq Asleep
       /\ Asleep' \subseteq Asleep]_breakerVars
=============================================================================
