----------------------------- MODULE Reputation -----------------------------
(***************************************************************************)
(* The reputation contract (contracts/reputation/src/lib.rs): a score per  *)
(* worker, from reviews that managers submit, lowered by slashes, reset by *)
(* admins; and badges.  A reset clears the record and leaves the list of   *)
(* reviews; a review computes the score from all ratings since the reset,  *)
(* so that it undoes the slashes before it.                                *)
(***************************************************************************)
EXTENDS Contract, Sequences

CONSTANTS
  WorkerIds,
  Ratings,      \* what a manager may pass as a rating or a slash, legal or not
  Badges,
  MaxReviews    \* bound: reviews of a worker

ASSUME ReputationAssumption == Ratings \subseteq Nat /\ MaxReviews \in Nat

MaxScore == 10000

VARIABLES
  record,       \* DataKey::Reputation(worker)
  reviews       \* DataKey::Reviews(worker): the ratings

reputationVars == <<record, reviews>>

ReputationInit ==
  /\ record = [w \in WorkerIds |-> [score |-> 0, count |-> 0, sum |-> 0, badges |-> {}]]
  /\ reviews = [w \in WorkerIds |-> <<>>]

Manages(caller) == RequireRole(roles["manager"], caller) /\ ~paused

-----------------------------------------------------------------------------
SubmitReview(caller, w, rating) ==
  LET count == record[w].count + 1
      sum   == record[w].sum + rating IN
    /\ Manages(caller)
    /\ rating <= MaxScore
    /\ Len(reviews[w]) < MaxReviews
    /\ record' = [record EXCEPT ![w].count = count, ![w].sum = sum,
                                ![w].score = sum \div count]
    /\ reviews' = [reviews EXCEPT ![w] = Append(@, rating)]
    /\ UNCHANGED chainVars

\* saturating_sub of unsigned scores: not below zero.
SlashReputation(caller, w, slash) ==
  /\ Manages(caller)
  /\ slash <= MaxScore
  /\ record' = [record EXCEPT ![w].score = IF @ > slash THEN @ - slash ELSE 0]
  /\ UNCHANGED <<chainVars, reviews>>

\* mutant: the sum of the ratings survives a reset
ResetReputationKeepsSum(caller, w) ==
  /\ RequireRole(roles["admin"], caller) /\ ~paused
  /\ record' = [record EXCEPT ![w].score = 0, ![w].count = 0]
  /\ UNCHANGED <<chainVars, reviews>>

ResetReputation(caller, w) ==
  /\ RequireRole(roles["admin"], caller) /\ ~paused
  /\ record' = [record EXCEPT ![w].score = 0, ![w].count = 0, ![w].sum = 0]
  /\ UNCHANGED <<chainVars, reviews>>

AwardBadge(caller, w, badge) ==
  /\ Manages(caller)
  /\ badge \notin record[w].badges
  /\ record' = [record EXCEPT ![w].badges = @ \union {badge}]
  /\ UNCHANGED <<chainVars, reviews>>

RevokeBadge(caller, w, badge) ==
  /\ Manages(caller)
  /\ record' = [record EXCEPT ![w].badges = @ \ {badge}]
  /\ UNCHANGED <<chainVars, reviews>>

ReputationNext ==
  \/ Administer(TRUE, "pauser") /\ UNCHANGED reputationVars
  \/ \E c \in Deployers : Initialize(c) /\ UNCHANGED reputationVars
  \/ \E c \in Accounts :
       \/ \E w \in WorkerIds :
            \/ ResetReputation(c, w)
            \/ \E r \in Ratings : SubmitReview(c, w, r) \/ SlashReputation(c, w, r)
            \/ \E b \in Badges : AwardBadge(c, w, b) \/ RevokeBadge(c, w, b)

ReputationSpec ==
  ContractInit(TokenIds) /\ ReputationInit /\ [][ReputationNext]_<<chainVars, reputationVars>>

-----------------------------------------------------------------------------
\* The shape of the state.
ReputationTypeOK ==
  /\ record \in [WorkerIds -> [score : 0..MaxScore, count : 0..MaxReviews, sum : Nat,
                               badges : SUBSET Badges]]
  /\ reviews \in [WorkerIds -> Seq(0..MaxScore)]

\* The record and the list, stored apart, tell the same: the record sums up the
\* last reviews on the list, those since the reset, and the score never exceeds
\* their mean, whatever came between.
ScoreFromReviews ==
  \A w \in WorkerIds :
    LET n    == Len(reviews[w])
        last == (n - record[w].count + 1)..n IN
      /\ record[w].count <= n
      /\ record[w].sum = Total(last, reviews[w])
      /\ record[w].score * record[w].count <= record[w].sum
      /\ record[w].count = 0 => record[w].score = 0
=============================================================================
