------------------------------- MODULE Alerts -------------------------------
(***************************************************************************)
(* The alert evaluator of the monitoring package (monitoring/src/          *)
(* alerts.ts): rules compare a metric with a threshold and fire once they  *)
(* have breached it for forMs.  The code keeps one time per rule; the      *)
(* model keeps the samples as well, and asks for the verdict they imply.   *)
(*                                                                         *)
(* A rule is known by its id; its definition (operator, threshold, forMs,  *)
(* enabled) may be replaced by setRules at any time.                       *)
(***************************************************************************)
EXTENDS Integers, Sequences

CONSTANTS
  RuleIds,
  Definitions,   \* the definitions a rule may be given
  Values,        \* the finite values of a metric
  MaxTime        \* bound: the clock (of now, in the unit of forMs)

Operators == {">", "<", ">=", "<=", "==", "!="}

ASSUME AlertsAssumption ==
  /\ MaxTime \in Nat
  /\ Values \subseteq Int
  /\ Definitions \subseteq [operator : Operators, threshold : Int, forMs : Nat, enabled : BOOLEAN]

VARIABLES
  now,
  rules,           \* the active rules: a partial function from ids to Definitions
  breachingSince,  \* the evaluator's state: a time, or Never
  verdict,         \* the status of each rule's last evaluation, and its forMs
  samples          \* history: what each rule's evaluations saw, and when

alertsVars == <<now, rules, breachingSince, verdict, samples>>

Never == -1
NoVerdict == [status |-> "none", forMs |-> 0]

AlertsInit ==
  /\ now = 0
  /\ rules \in [RuleIds -> Definitions]
  /\ breachingSince = [r \in RuleIds |-> Never]
  /\ verdict = [r \in RuleIds |-> NoVerdict]
  /\ samples = [r \in RuleIds |-> <<>>]

\* evaluateComparison.
Breaches(value, d) ==
  CASE d.operator = ">"  -> value > d.threshold
    [] d.operator = "<"  -> value < d.threshold
    [] d.operator = ">=" -> value >= d.threshold
    [] d.operator = "<=" -> value <= d.threshold
    [] d.operator = "==" -> value = d.threshold
    [] d.operator = "!=" -> value # d.threshold

\* A metric is missing or not finite (resolveValue gives null): <<>>.
Seen(value, d) == IF value = <<>> THEN "no-data"
                  ELSE IF Breaches(value[1], d) THEN "breach" ELSE "ok"

\* mutant: missing data does not end a run of breaches
SinceLastOk(r, kind) == IF kind = "ok" THEN Never
                        ELSE IF breachingSince[r] = Never THEN now ELSE breachingSince[r]

\* The debounce: when the rule has been breaching since, after seeing kind.
Since(r, kind) == IF kind # "breach" THEN Never
                  ELSE IF breachingSince[r] = Never THEN now ELSE breachingSince[r]

StatusOf(r, kind, d) ==
  IF kind # "breach" THEN kind
  ELSE IF now - Since(r, kind) >= d.forMs THEN "firing" ELSE "pending"

\* evaluate: every active rule against one sample of its metric.  A disabled
\* rule is passed over and keeps its state.
Evaluate(sample) ==
  LET kind == [r \in DOMAIN rules |-> Seen(sample[r], rules[r])]
      on   == {r \in DOMAIN rules : rules[r].enabled} IN
    /\ breachingSince' = [r \in RuleIds |-> IF r \in on THEN Since(r, kind[r])
                                            ELSE breachingSince[r]]
    /\ verdict' = [r \in RuleIds |->
         IF r \in on THEN [status |-> StatusOf(r, kind[r], rules[r]), forMs |-> rules[r].forMs]
         ELSE IF r \in DOMAIN rules THEN NoVerdict ELSE verdict[r]]
    /\ samples' = [r \in RuleIds |-> IF r \in on
                     THEN Append(samples[r], [at |-> now, kind |-> kind[r]]) ELSE samples[r]]
    /\ now < MaxTime
    /\ now' \in now + 1 .. MaxTime
    /\ UNCHANGED rules

\* setRules: the state of an id is kept, whatever its definition becomes, and
\* also while no rule has it.
SetRules(ids) ==
  /\ rules' \in [ids -> Definitions]
  /\ UNCHANGED <<now, breachingSince, verdict, samples>>

\* reset, for the active rules; and a new evaluator made by evaluateRules, which
\* hydrates the state of the rules it is given and forgets the others.
Forget(ids) ==
  /\ breachingSince' = [r \in RuleIds |-> IF r \in ids THEN Never ELSE breachingSince[r]]
  /\ samples' = [r \in RuleIds |-> IF r \in ids THEN <<>> ELSE samples[r]]
  /\ verdict' = [r \in RuleIds |-> IF r \in ids THEN NoVerdict ELSE verdict[r]]
  /\ UNCHANGED <<now, rules>>

Reset   == Forget(DOMAIN rules)
Hydrate == Forget(RuleIds \ DOMAIN rules)

AlertsNext ==
  \/ \E sample \in [DOMAIN rules -> {<<v>> : v \in Values} \union {<<>>}] : Evaluate(sample)
  \/ \E ids \in SUBSET RuleIds : SetRules(ids)
  \/ Reset
  \/ Hydrate

AlertsSpec == AlertsInit /\ [][AlertsNext]_alertsVars

-----------------------------------------------------------------------------
Statuses == {"none", "firing", "pending", "ok", "no-data"}

\* The shape of the state.
AlertsTypeOK ==
  /\ now \in 0..MaxTime
  /\ \E ids \in SUBSET RuleIds : rules \in [ids -> Definitions]
  /\ breachingSince \in [RuleIds -> {Never} \union 0..MaxTime]
  /\ verdict \in [RuleIds -> [status : Statuses, forMs : Nat]]
  /\ samples \in [RuleIds -> Seq([at : 0..MaxTime, kind : {"breach", "ok", "no-data"}])]

\* The samples end in a run of breaches that has lasted for at least d.
SustainedFor(h, d) ==
  \E i \in 1..Len(h) :
    /\ \A j \in i..Len(h) : h[j].kind = "breach"
    /\ h[Len(h)].at - h[i].at >= d

\* Prometheus' "for": a rule fires if and only if every sample of the last forMs
\* breached it under the definition then in force, missing data counting against;
\* short of that it is pending.  Redefining, disabling, removing or hydrating a
\* rule neither delays an alert nor lets one through that its samples do not bear.
VerdictFromSamples ==
  \A r \in RuleIds :
    LET h == samples[r] IN
      verdict[r] # NoVerdict =>
        /\ h # <<>>
        /\ verdict[r].status =
             IF h[Len(h)].kind # "breach" THEN h[Len(h)].kind
             ELSE IF SustainedFor(h, verdict[r].forMs) THEN "firing" ELSE "pending"
=============================================================================
