--------------------------- MODULE ServicesProofs ---------------------------
(***************************************************************************)
(* Proofs about the services of MCPlatform other than the webhooks, each   *)
(* for any values of its constants: sessions, the job board, the circuit   *)
(* breaker, the response cache, the idempotency middleware, the offline    *)
(* queue and the alert evaluator; and about all of them together.          *)
(***************************************************************************)
EXTENDS MCPlatform, WebhooksProofs

(***************************************************************************)
(* The sessions of an account.                                             *)
(***************************************************************************)

\* The steps of the session handlers.
LEMMA SessionsCases ==
  ASSUME [SessionsNext]_sessionsVars
  PROVE  \/ \E r \in Requests : Login(r)
         \/ \E r \in Requests : Hand(r)
         \/ \E r \in Requests : Rotate(r)
         \/ \E r \in Requests : RevokeOld(r)
         \/ \E r \in Requests : ResetPassword(r) \/ ChangePassword(r)
         \/ \E r \in Requests : RevokeAll(r)
         \/ \E r \in Requests : WriteReset(r)
         \/ \E r \in Requests : WritePassword(r)
         \/ \E r \in Requests : BreakOff(r)
         \/ Logout \/ RequestPasswordReset \/ TokenExpires \/ DeleteExpiredSessions
         \/ UNCHANGED sessionsVars
BY Zenon DEF SessionsNext

\* A request that ends, or goes on, is well typed.
LEMMA NoRequestRecord == NoRequest \in RequestRecords
BY SMT, SessionsAssumption DEF NoRequest, RequestRecords

LEMMA RequestsKept ==
  ASSUME request \in [Requests -> RequestRecords], NEW r \in Requests
  PROVE  /\ Ends(r) => request' \in [Requests -> RequestRecords]
         /\ \A op \in {"create token", "revoke all", "write reset", "write password"} :
              Goes(r, op) => request' \in [Requests -> RequestRecords]
<1>1. Ends(r) => request' \in [Requests -> RequestRecords]
  BY NoRequestRecord DEF Ends
<1>2. ASSUME NEW op \in {"create token", "revoke all", "write reset", "write password"},
             Goes(r, op)
      PROVE  request' \in [Requests -> RequestRecords]
  BY <1>2 DEF Goes, RequestRecords
<1>3. QED BY <1>1, <1>2

\* The type invariant is inductive.
LEMMA SessionsTypeStep ==
  ASSUME SessionsTypeOK, [SessionsNext]_sessionsVars
  PROVE  SessionsTypeOK'
<1>0. /\ request \in [Requests -> RequestRecords]
      /\ \A r \in Requests : request[r].pw \in 0..MaxPassword
  BY DEF SessionsTypeOK, RequestRecords
<1> USE SessionsAssumption DEF SessionsTypeOK, account, InFlight
<1>1. ASSUME NEW r \in Requests, Login(r) PROVE SessionsTypeOK'
  <2>1. request' \in [Requests -> RequestRecords]
    <3>1. Resetting \in BOOLEAN
      BY DEF Resetting
    <3>2. [op |-> "create token", tok |-> 0, pw |-> password, overlaps |-> Resetting]
            \in RequestRecords
      <4>1. 0 \in 0..MaxTokens
        BY SessionsAssumption
      <4>2. QED BY <3>1, <4>1 DEF RequestRecords
    <3>3. QED BY <1>1, <1>0, <3>2 DEF Login
  <2>2. QED BY <1>1, <2>1 DEF Login
<1>2. ASSUME NEW r \in Requests, Hand(r) PROVE SessionsTypeOK'
  <2>1. request' \in [Requests -> RequestRecords]
    BY <1>2, <1>0, RequestsKept DEF Hand
  <2>2. used + 1 \in Tokens /\ used' \in 0..MaxTokens
    <3>1. used < MaxTokens /\ used' = used + 1
      BY <1>2 DEF Hand, CreateToken
    <3>2. QED BY <3>1 DEF Tokens
  <2>3. /\ stray' \subseteq Tokens
        /\ token' \in [Tokens -> {"none", "live", "dead"}]
        /\ proof' \in [Tokens -> 0..MaxPassword]
    BY <1>2, <1>0, <2>2 DEF Hand, CreateToken
  <2>4. QED BY <1>2, <2>1, <2>2, <2>3 DEF Hand
<1>3. ASSUME NEW r \in Requests, Rotate(r) PROVE SessionsTypeOK'
  <2>1. PICK t \in Live :
          request' = [request EXCEPT ![r] =
             [op |-> "revoke old", tok |-> t, pw |-> proof[t],
              overlaps |-> t \in stray \/ Resetting]]
    BY <1>3 DEF Rotate
  <2>2. t \in Tokens /\ t \in 0..MaxTokens
    BY DEF Live, Tokens
  <2>3. (t \in stray \/ Resetting) \in BOOLEAN
    BY DEF Resetting
  <2>4. request' \in [Requests -> RequestRecords]
    BY <2>1, <2>2, <2>3, <1>0 DEF RequestRecords
  <2>5. QED BY <1>3, <2>4 DEF Rotate
<1>4. ASSUME NEW r \in Requests, RevokeOld(r) PROVE SessionsTypeOK'
  <2>1. request' \in [Requests -> RequestRecords]
    BY <1>4, <1>0, RequestsKept DEF RevokeOld
  <2>2. token' \in [Tokens -> {"none", "live", "dead"}]
    BY <1>4 DEF RevokeOld
  <2>3. QED BY <1>4, <2>1, <2>2 DEF RevokeOld
<1>5. ASSUME NEW r \in Requests, ResetPassword(r) \/ ChangePassword(r) PROVE SessionsTypeOK'
  <2>1. request' \in [Requests -> RequestRecords]
    BY <1>5, <1>0, RequestsKept DEF ResetPassword, ChangePassword
  <2>2. QED BY <1>5, <2>1 DEF ResetPassword, ChangePassword
<1>6. ASSUME NEW r \in Requests, RevokeAll(r) PROVE SessionsTypeOK'
  <2>1. request' \in [Requests -> RequestRecords]
    BY <1>6, <1>0 DEF RevokeAll, RequestRecords
  <2>2. QED BY <1>6, <2>1 DEF RevokeAll, AllRevoked
<1>7. ASSUME NEW r \in Requests, WriteReset(r) PROVE SessionsTypeOK'
  <2>1. request' \in [Requests -> RequestRecords]
    BY <1>7, <1>0, RequestsKept DEF WriteReset
  <2>2. password' \in 0..MaxPassword
    <3>1. password < MaxPassword /\ password' = password + 1
      BY <1>7 DEF WriteReset
    <3>2. QED BY <3>1
  <2>3. QED BY <1>7, <2>1, <2>2 DEF WriteReset
<1>8. ASSUME NEW r \in Requests, WritePassword(r) PROVE SessionsTypeOK'
  <2>1. request' \in [Requests -> RequestRecords]
    BY <1>8, <1>0, RequestsKept DEF WritePassword
  <2>2. password' \in 0..MaxPassword
    <3>1. password < MaxPassword /\ password' = password + 1
      BY <1>8 DEF WritePassword
    <3>2. QED BY <3>1
  <2>3. QED BY <1>8, <2>1, <2>2 DEF WritePassword
<1>9. ASSUME NEW r \in Requests, BreakOff(r) PROVE SessionsTypeOK'
  <2>1. request' \in [Requests -> RequestRecords]
    BY <1>9, <1>0, RequestsKept DEF BreakOff
  <2>2. QED BY <1>9, <2>1 DEF BreakOff
<1>10. CASE \/ Logout \/ RequestPasswordReset \/ TokenExpires \/ DeleteExpiredSessions
            \/ UNCHANGED sessionsVars
  BY <1>10 DEF Logout, AllRevoked, RequestPasswordReset, TokenExpires,
               DeleteExpiredSessions, sessionsVars
<1>11. QED
  BY <1>1, <1>2, <1>3, <1>4, <1>5, <1>6, <1>7, <1>8, <1>9, <1>10, SessionsCases

\* It holds at the start.
LEMMA SessionsStart == SessionsInit => SessionsTypeOK
<1>1. 0 \in 0..MaxTokens /\ 0 \in 0..MaxPassword
  BY SessionsAssumption
<1>2. QED BY <1>1, NoRequestRecord DEF SessionsInit, SessionsTypeOK

\* The state of the sessions is always well typed.
THEOREM SessionsTypeCorrect == SessionsSpec => []SessionsTypeOK
<1>1. SessionsInit => SessionsTypeOK
  BY SessionsStart
<1>2. SessionsTypeOK /\ [SessionsNext]_sessionsVars => SessionsTypeOK'
  BY SessionsTypeStep
<1>3. QED BY <1>1, <1>2, PTL DEF SessionsSpec

-----------------------------------------------------------------------------
(***************************************************************************)
(* No session at rest survives a reset.                                    *)
(***************************************************************************)

\* A request that is going to hand out a session.
Renewing(r) == InFlight(r, "create token") \/ InFlight(r, "revoke old")

\* Between a reset's revocation and its write of the password, every live
\* session and every request that will hand one out is known to overlap it.
ResetCovered ==
  Resetting => /\ Live \subseteq stray
               /\ \A r \in Requests : Renewing(r) => request[r].overlaps

\* A session in the making that began before the last reset overlapped it.
RenewalsExplained ==
  \A r \in Requests : Renewing(r) /\ request[r].pw < lastReset => request[r].overlaps

\* The inductive invariant.
SessionsInv ==
  /\ SessionsTypeOK
  /\ lastReset <= password
  /\ ResetEndsSessions
  /\ ResetCovered
  /\ RenewalsExplained

\* Every step keeps it.
LEMMA SessionsInvStep ==
  ASSUME SessionsInv, [SessionsNext]_sessionsVars
  PROVE  SessionsInv'
<1>1. SessionsTypeOK'
  BY SessionsTypeStep DEF SessionsInv
<1> DEFINE Goal == /\ lastReset <= password
                   /\ ResetEndsSessions /\ ResetCovered /\ RenewalsExplained
<1> SUFFICES Goal'
  BY <1>1 DEF SessionsInv
<1>n. password \in Nat /\ lastReset \in Nat
  BY SessionsAssumption DEF SessionsInv, SessionsTypeOK
<1>u. used < MaxTokens => used + 1 \in Tokens
  BY SessionsAssumption DEF SessionsInv, SessionsTypeOK, Tokens
<1>0. /\ token \in [Tokens -> {"none", "live", "dead"}] /\ proof \in [Tokens -> Nat]
      /\ request \in [Requests -> [op : {"none", "create token", "revoke old", "revoke all",
                                         "write reset", "write password"},
                                   tok : Nat, pw : Nat, overlaps : BOOLEAN]]
  <2>1. 0..MaxPassword \subseteq Nat /\ 0..MaxTokens \subseteq Nat
    BY SessionsAssumption
  <2>2. QED BY <2>1 DEF SessionsInv, SessionsTypeOK, RequestRecords
<1>2. ASSUME NEW r \in Requests, Login(r) PROVE Goal'
  <2>1. /\ \A q \in Requests : q # r => request'[q] = request[q]
        /\ request'[r].pw = password /\ request'[r].op = "create token"
        /\ Resetting => request'[r].overlaps
        /\ UNCHANGED <<token, password, lastReset, proof, stray>>
    BY <1>0, <1>2 DEF Login, InFlight, account
  <2>2. Resetting' <=> Resetting
    BY <1>2, <2>1 DEF Login, Resetting, InFlight
  <2>3. ~(password < lastReset)
    BY <1>n DEF SessionsInv
  <2>4. lastReset' <= password' /\ ResetEndsSessions'
    BY <2>1 DEF SessionsInv, ResetEndsSessions, Live
  <2>5. ResetCovered'
    BY <2>1, <2>2 DEF SessionsInv, ResetCovered, Renewing, InFlight, Live
  <2>6. RenewalsExplained'
    BY <2>1, <2>3 DEF SessionsInv, RenewalsExplained, Renewing, InFlight
  <2>7. QED BY <2>4, <2>5, <2>6
<1>3. ASSUME NEW r \in Requests, Hand(r) PROVE Goal'
  BY <1>0, <1>n, <1>u, <1>3
  DEF Hand, CreateToken, Ends, Resetting, SessionsInv, ResetEndsSessions, ResetCovered,
      RenewalsExplained, Renewing, InFlight, Live, account, NoRequest
<1>4. ASSUME NEW r \in Requests, Rotate(r) PROVE Goal'
  <2>1. PICK t \in Live :
          request' = [request EXCEPT ![r] =
             [op |-> "revoke old", tok |-> t, pw |-> proof[t],
              overlaps |-> t \in stray \/ Resetting]]
    BY <1>4 DEF Rotate
  <2>2. /\ \A q \in Requests : q # r => request'[q] = request[q]
        /\ request'[r].pw = proof[t] /\ request'[r].op = "revoke old"
        /\ request'[r].overlaps = (t \in stray \/ Resetting)
        /\ UNCHANGED <<token, password, lastReset, proof, stray>>
    BY <1>0, <1>4, <2>1 DEF Rotate, account
  <2>3. Resetting' <=> Resetting
    BY <1>4, <2>2 DEF Rotate, Resetting, InFlight
  <2>4. QED
    BY <1>0, <2>2, <2>3 DEF SessionsInv, ResetEndsSessions, ResetCovered, RenewalsExplained,
                     Renewing, InFlight, Live
<1>5. ASSUME NEW r \in Requests, RevokeOld(r) PROVE Goal'
  <2>1. /\ \A q \in Requests : q # r => request'[q] = request[q]
        /\ \/ request'[r].op = "none"
           \/ /\ request'[r].op = "create token"
              /\ request'[r].pw = request[r].pw
              /\ request'[r].overlaps = request[r].overlaps
        /\ request[r].op = "revoke old"
        /\ UNCHANGED <<password, lastReset, proof, stray>>
    <3>1. /\ request[r].op = "revoke old"
          /\ UNCHANGED <<password, lastReset, proof, stray>>
      BY <1>5 DEF RevokeOld, InFlight, account
    <3>2. Ends(r) \/ Goes(r, "create token")
      BY <1>5 DEF RevokeOld
    <3>3. CASE Ends(r)
      <4>1. NoRequest.op = "none"
        BY DEF NoRequest
      <4>2. QED BY <1>0, <3>1, <3>3, <4>1 DEF Ends
    <3>4. CASE Goes(r, "create token")
      BY <1>0, <3>1, <3>4 DEF Goes
    <3>5. QED BY <3>2, <3>3, <3>4
  <2>2. Resetting' <=> Resetting
    BY <2>1 DEF Resetting, InFlight
  <2>3. Live' \subseteq Live
    BY <1>0, <1>5 DEF RevokeOld, Live
  <2>4. QED
    BY <1>0, <1>n, <2>1, <2>2, <2>3 DEF SessionsInv, ResetEndsSessions, ResetCovered, RenewalsExplained,
                     Renewing, InFlight, Live
<1>6. ASSUME NEW r \in Requests, ResetPassword(r) \/ ChangePassword(r) PROVE Goal'
  <2>1. /\ \A q \in Requests : q # r => request'[q] = request[q]
        /\ request'[r].op \in {"revoke all", "write password"} /\ request[r].op = "none"
        /\ UNCHANGED <<token, password, lastReset, proof, stray>>
    BY <1>0, <1>6 DEF ResetPassword, ChangePassword, Goes, InFlight, account
  <2>2. Resetting' <=> Resetting
    BY <2>1 DEF Resetting, InFlight
  <2>3. QED
    BY <1>0, <1>n, <2>1, <2>2 DEF SessionsInv, ResetEndsSessions, ResetCovered, RenewalsExplained,
                     Renewing, InFlight, Live
<1>7. ASSUME NEW r \in Requests, RevokeAll(r) PROVE Goal'
  BY <1>0, <1>7
  DEF RevokeAll, AllRevoked, Resetting, SessionsInv, ResetEndsSessions, ResetCovered,
      RenewalsExplained, Renewing, InFlight, Live, account
<1>8. ASSUME NEW r \in Requests, WriteReset(r) PROVE Goal'
  <2>1. /\ \A q \in Requests : q # r => request'[q] = request[q]
        /\ request'[r].op = "none" /\ lastReset' = password'
        /\ UNCHANGED <<token, proof, stray>>
    BY <1>0, <1>8 DEF WriteReset, Ends, NoRequest
  <2>2. Resetting
    BY <1>8 DEF WriteReset, Resetting
  <2>3. password' \in Nat
    <3>1. password' = password + 1
      BY <1>8 DEF WriteReset
    <3>2. QED BY <1>n, <3>1
  <2>4. Live' \subseteq stray' /\ \A q \in Requests : Renewing(q)' => request'[q].overlaps
    BY <2>1, <2>2 DEF SessionsInv, ResetCovered, Renewing, InFlight, Live
  <2>5. QED
    BY <1>n, <2>1, <2>3, <2>4 DEF ResetEndsSessions, ResetCovered, RenewalsExplained
<1>9. ASSUME NEW r \in Requests, WritePassword(r) PROVE Goal'
  <2>1. /\ \A q \in Requests : q # r => request'[q] = request[q]
        /\ request'[r].op = "none" /\ request[r].op = "write password"
        /\ UNCHANGED <<token, lastReset, proof, stray>>
    BY <1>0, <1>9 DEF WritePassword, Ends, InFlight, NoRequest
  <2>2. Resetting' <=> Resetting
    BY <2>1 DEF Resetting, InFlight
  <2>3. lastReset' <= password'
    <3>1. password' = password + 1 /\ lastReset' = lastReset /\ lastReset <= password
      BY <1>9 DEF WritePassword, SessionsInv
    <3>2. QED BY <1>n, <3>1
  <2>4. QED
    BY <1>0, <1>n, <2>1, <2>2, <2>3 DEF SessionsInv, ResetEndsSessions, ResetCovered, RenewalsExplained,
                     Renewing, InFlight, Live
<1>10. ASSUME NEW r \in Requests, BreakOff(r) PROVE Goal'
  BY <1>0, <1>10
  DEF BreakOff, Ends, Resetting, SessionsInv, ResetEndsSessions, ResetCovered,
      RenewalsExplained, Renewing, InFlight, Live, account, NoRequest
<1>11. CASE \/ Logout \/ RequestPasswordReset \/ TokenExpires \/ DeleteExpiredSessions
            \/ UNCHANGED sessionsVars
  BY <1>0, <1>11
  DEF Logout, AllRevoked, RequestPasswordReset, TokenExpires, DeleteExpiredSessions,
      sessionsVars, Resetting, SessionsInv, ResetEndsSessions, ResetCovered,
      RenewalsExplained, Renewing, InFlight, Live, account
<1>12. QED
  BY <1>2, <1>3, <1>4, <1>5, <1>6, <1>7, <1>8, <1>9, <1>10, <1>11, SessionsCases

\* A session from before a password reset that outlives it overlapped it, or
\* descends from one that did, whatever requests interleave.
THEOREM ResetsEndSessions == SessionsSpec => []ResetEndsSessions
<1>1. SessionsInit => SessionsInv
  <2>1. SessionsInit => SessionsTypeOK
    BY SessionsStart
  <2>2. SessionsInit => \A r \in Requests : request[r].op = "none"
    <3>1. NoRequest.op = "none"
      BY DEF NoRequest
    <3>2. QED BY <3>1 DEF SessionsInit
  <2>3. SessionsInit => lastReset = 0 /\ password = 0 /\ Live = {}
    BY DEF SessionsInit, Live
  <2>4. SessionsInit => ~Resetting /\ \A r \in Requests : ~Renewing(r)
    BY <2>2 DEF Resetting, Renewing, InFlight
  <2>5. QED
    BY <2>1, <2>3, <2>4 DEF SessionsInv, ResetEndsSessions, ResetCovered, RenewalsExplained
<1>2. SessionsInv /\ [SessionsNext]_sessionsVars => SessionsInv'
  BY SessionsInvStep
<1>3. SessionsInv => ResetEndsSessions
  BY DEF SessionsInv
<1>4. QED BY <1>1, <1>2, <1>3, PTL DEF SessionsSpec

-----------------------------------------------------------------------------
(***************************************************************************)
(* A job and the applications to it.                                       *)
(***************************************************************************)

\* The steps of the job board, grouped by what they write.
LEMMA JobsCases ==
  ASSUME [JobsNext]_jobsVars
  PROVE  \/ CreateJob \/ DeleteJob \/ Lapse \/ UNCHANGED jobsVars
         \/ \E s \in JobStatuses : UpdateJob(s)
         \/ \E w \in Workers : DeleteWorker(w)
         \/ \E r \in JobRequests : FindExpiredOpen(r) \/ RenewJob(r) \/ AcceptsElsewhere(r)
         \/ \E r \in JobRequests : WriteExpired(r) \/ WriteRenewed(r)
         \/ \E r \in JobRequests : Fill(r)
         \/ \E r \in JobRequests : Interrupt(r)
         \/ \E r \in JobRequests : CreateApplication(r)
         \/ \E r \in JobRequests : WriteWithdrawn(r)
         \/ \E r \in JobRequests, w \in Workers : ApplyToJob(r, w) \/ WithdrawApplication(r, w)
         \/ \E w \in Workers, s \in {"accepted", "rejected"} : NamesAnotherJob(w, s)
         \/ \E w \in Workers, s \in {"accepted", "rejected"}, r \in JobRequests :
              UpdateApplicationStatus(r, w, s)
BY Zenon DEF JobsNext

\* What a request remembers, and that reading and writing keeps it so.
HandlerRecords ==
  [op : {"none", "expire", "renew", "apply", "fill", "withdraw"},
   worker : SUBSET Workers, saw : JobStatuses \union {"none"}]

LEMMA NoHandlerRecord == NoHandler \in HandlerRecords
BY SMT DEF NoHandler, HandlerRecords

LEMMA HandlersKept ==
  ASSUME JobsTypeOK, NEW r \in JobRequests
  PROVE  /\ \A op \in {"expire", "renew", "apply", "fill", "withdraw"}, ws \in SUBSET Workers :
              ReadsStatus(r, op, ws) /\ job # "deleted"
                => handler' \in [JobRequests -> HandlerRecords]
         /\ [handler EXCEPT ![r] = NoHandler] \in [JobRequests -> HandlerRecords]
<1>2. handler \in [JobRequests -> HandlerRecords]
  BY DEF JobsTypeOK, HandlerRecords
<1>3. ASSUME NEW op \in {"expire", "renew", "apply", "fill", "withdraw"},
             NEW ws \in SUBSET Workers, job # "deleted"
      PROVE  [op |-> op, worker |-> ws, saw |-> job] \in HandlerRecords
  BY <1>3 DEF HandlerRecords, JobsTypeOK
<1>4. QED BY NoHandlerRecord, <1>2, <1>3 DEF ReadsStatus

\* An application exists only with its job: the job's row is created before it
\* and takes it along when deleted.  The types need this: a request that
\* accepts reads the status of a job that is there.
ApplicationsHaveAJob == \A w \in Workers : application[w] # "none" => Exists

JobsShape == JobsTypeOK /\ ApplicationsHaveAJob

\* The type invariant, with that, is inductive.
LEMMA JobsShapeStep ==
  ASSUME JobsShape, [JobsNext]_jobsVars
  PROVE  JobsShape'
<1> USE DEF JobsShape, ApplicationsHaveAJob, JobStatuses, Exists
<1>1. CASE CreateJob \/ DeleteJob \/ Lapse \/ UNCHANGED jobsVars
  BY <1>1 DEF JobsTypeOK, CreateJob, DeleteJob, Lapse, jobsVars
<1>2. ASSUME NEW s \in JobStatuses, UpdateJob(s) PROVE JobsShape'
  BY <1>2 DEF JobsTypeOK, UpdateJob
<1>3. ASSUME NEW r \in JobRequests,
             FindExpiredOpen(r) \/ RenewJob(r) \/ AcceptsElsewhere(r)
      PROVE  JobsShape'
  <2>1. handler' \in [JobRequests -> HandlerRecords]
    BY <1>3, HandlersKept DEF FindExpiredOpen, RenewJob, AcceptsElsewhere
  <2>2. UNCHANGED <<job, lapsed, application, gone>> /\ parted' \in BOOLEAN
    BY <1>3 DEF FindExpiredOpen, RenewJob, AcceptsElsewhere, JobsTypeOK
  <2>3. QED BY <2>1, <2>2 DEF JobsTypeOK, HandlerRecords
<1>4. ASSUME NEW r \in JobRequests, WriteExpired(r) \/ WriteRenewed(r) PROVE JobsShape'
  <2>1. handler' \in [JobRequests -> HandlerRecords]
    BY <1>4, HandlersKept DEF WriteExpired, WriteRenewed, WritesAfter
  <2>2. /\ job' \in JobStatuses \union {"none", "deleted"} /\ (Exists => Exists')
        /\ lapsed' \in BOOLEAN /\ parted' \in BOOLEAN /\ UNCHANGED <<application, gone>>
    BY <1>4 DEF WriteExpired, WriteRenewed, WritesOverFilled, JobsTypeOK
  <2>3. QED BY <2>1, <2>2 DEF JobsTypeOK, HandlerRecords
<1>5. ASSUME NEW r \in JobRequests, Fill(r) \/ Interrupt(r) PROVE JobsShape'
  <2>1. handler' \in [JobRequests -> HandlerRecords]
    BY <1>5, HandlersKept DEF Fill, Interrupt, WritesAfter
  <2>2. /\ job' \in JobStatuses \union {"none", "deleted"} /\ (Exists => Exists')
        /\ parted' \in BOOLEAN /\ UNCHANGED <<lapsed, application, gone>>
    BY <1>5 DEF Fill, Interrupt, JobsTypeOK
  <2>3. QED BY <2>1, <2>2 DEF JobsTypeOK, HandlerRecords
<1> USE DEF JobsTypeOK, NoHandler, ReadsStatus, WritesAfter
<1>6. ASSUME NEW r \in JobRequests, CreateApplication(r) PROVE JobsShape'
  BY <1>6 DEF CreateApplication
<1>7. ASSUME NEW r \in JobRequests, WriteWithdrawn(r) PROVE JobsShape'
  <2>1. PICK w \in handler[r].worker :
          /\ application' = IF application[w] = "none" THEN application
                            ELSE [application EXCEPT ![w] = "withdrawn"]
          /\ parted' = (parted \/ application[w] = "accepted")
    BY <1>7 DEF WriteWithdrawn
  <2>2. w \in Workers
    OBVIOUS
  <2>3. parted' \in BOOLEAN /\ application' \in
          [Workers -> {"none", "pending", "accepted", "rejected", "withdrawn"}]
    BY <2>1, <2>2
  <2>4. \A v \in Workers : application'[v] # "none" => application[v] # "none"
    BY <2>1, <2>2
  <2>5. QED BY <1>7, <2>3, <2>4 DEF WriteWithdrawn
<1>8. ASSUME NEW r \in JobRequests, NEW w \in Workers,
             ApplyToJob(r, w) \/ WithdrawApplication(r, w)
      PROVE  JobsShape'
  <2>1. job \in JobStatuses
    BY <1>8 DEF ApplyToJob, WithdrawApplication
  <2>2. CASE ApplyToJob(r, w)
    BY <2>1, <2>2 DEF ApplyToJob
  <2>3. CASE WithdrawApplication(r, w)
    BY <2>1, <2>3 DEF WithdrawApplication
  <2>4. QED BY <1>8, <2>2, <2>3
<1>9. ASSUME NEW w \in Workers, NEW s \in {"accepted", "rejected"}, NamesAnotherJob(w, s)
      PROVE  JobsShape'
  BY <1>9 DEF NamesAnotherJob
<1>10. ASSUME NEW w \in Workers, NEW s \in {"accepted", "rejected"},
              NEW r \in JobRequests, UpdateApplicationStatus(r, w, s)
       PROVE  JobsShape'
  <2>1. job \in JobStatuses
    BY <1>10 DEF UpdateApplicationStatus
  <2>2. QED BY <1>10, <2>1 DEF UpdateApplicationStatus
<1>11. ASSUME NEW w \in Workers, DeleteWorker(w) PROVE JobsShape'
  BY <1>11 DEF DeleteWorker
<1>12. QED
  BY <1>1, <1>2, <1>3, <1>4, <1>5, <1>6, <1>7, <1>8, <1>9, <1>10, <1>11, JobsCases

-----------------------------------------------------------------------------
(***************************************************************************)
(* A job is filled by an acceptance.                                       *)
(***************************************************************************)

\* What the requests in flight know: one that fills the job follows an
\* acceptance, and one that sweeps or renews it had not read it filled.
RequestsSound ==
  /\ Filling => Accepted \/ job = "deleted"
  /\ \A r \in JobRequests : handler[r].op \in {"expire", "renew"} => handler[r].saw # "filled"

\* The inductive invariant: FilledByAcceptance needs that what is about to fill
\* the job is right to.
JobsInv ==
  /\ JobsShape
  /\ FilledByAcceptance
  /\ ~parted => RequestsSound

\* Once its applications and the job have parted, nothing is claimed again.
LEMMA StaysParted ==
  ASSUME parted, [JobsNext]_jobsVars
  PROVE  parted'
BY JobsCases DEF CreateJob, DeleteJob, Lapse, jobsVars, UpdateJob, FindExpiredOpen, RenewJob,
     AcceptsElsewhere, WriteExpired, WriteRenewed, Fill, Interrupt, CreateApplication,
     WriteWithdrawn, ApplyToJob, WithdrawApplication, NamesAnotherJob, UpdateApplicationStatus,
     DeleteWorker

\* Every step keeps it.
LEMMA JobsInvStep ==
  ASSUME JobsInv, [JobsNext]_jobsVars
  PROVE  JobsInv'
<1>1. JobsShape'
  BY JobsShapeStep DEF JobsInv
<1> SUFFICES ASSUME ~parted, ~parted'
             PROVE  RequestsSound' /\ FilledByAcceptance'
  BY <1>1, StaysParted DEF JobsInv, FilledByAcceptance
<1> USE DEF JobsInv, JobsShape, JobsTypeOK, ApplicationsHaveAJob, FilledByAcceptance,
            RequestsSound, Filling, Accepted, Exists, JobStatuses, NoHandler, ReadsStatus,
            WritesAfter, WritesOverFilled
<1>2. CASE CreateJob \/ DeleteJob \/ Lapse \/ UNCHANGED jobsVars
  <2>1. CASE CreateJob
    BY <2>1 DEF CreateJob
  <2>2. CASE DeleteJob
    BY <2>2 DEF DeleteJob
  <2>3. CASE Lapse \/ UNCHANGED jobsVars
    BY <2>3 DEF Lapse, jobsVars
  <2>4. QED BY <1>2, <2>1, <2>2, <2>3
<1>3. ASSUME NEW s \in JobStatuses, UpdateJob(s) PROVE RequestsSound' /\ FilledByAcceptance'
  BY <1>3 DEF UpdateJob
<1>4. ASSUME NEW r \in JobRequests,
             FindExpiredOpen(r) \/ RenewJob(r) \/ AcceptsElsewhere(r)
      PROVE  RequestsSound' /\ FilledByAcceptance'
  BY <1>4 DEF FindExpiredOpen, RenewJob, AcceptsElsewhere
<1>5. ASSUME NEW r \in JobRequests, WriteExpired(r) \/ WriteRenewed(r)
      PROVE  RequestsSound' /\ FilledByAcceptance'
  <2>1. /\ UNCHANGED application /\ (Exists <=> Exists') /\ (~Exists => job' = job)
        /\ handler' = [handler EXCEPT ![r] = NoHandler]
        /\ job' = "filled" => job = "filled"
    BY <1>5 DEF WriteExpired, WriteRenewed
  <2>2. job # "filled"
    BY <1>5 DEF WriteExpired, WriteRenewed
  <2>3. Filling' <=> Filling
    BY <1>5, <2>1 DEF WriteExpired, WriteRenewed
  <2>4. \A q \in JobRequests : handler'[q].op \in {"expire", "renew"} => handler'[q].saw # "filled"
    BY <2>1
  <2>5. QED BY <2>1, <2>2, <2>3, <2>4
<1>6. ASSUME NEW r \in JobRequests, Fill(r) PROVE RequestsSound' /\ FilledByAcceptance'
  BY <1>6 DEF Fill
<1>7. ASSUME NEW r \in JobRequests, Interrupt(r) PROVE RequestsSound' /\ FilledByAcceptance'
  BY <1>7 DEF Interrupt
<1>8. ASSUME NEW r \in JobRequests, CreateApplication(r)
      PROVE  RequestsSound' /\ FilledByAcceptance'
  <2>1. Accepted' <=> Accepted
    BY <1>8 DEF CreateApplication
  <2>2. QED BY <1>8, <2>1 DEF CreateApplication
<1>9. ASSUME NEW r \in JobRequests, WriteWithdrawn(r)
      PROVE  RequestsSound' /\ FilledByAcceptance'
  <2>1. Accepted' <=> Accepted
    BY <1>9 DEF WriteWithdrawn
  <2>2. QED BY <1>9, <2>1 DEF WriteWithdrawn
<1>10. ASSUME NEW r \in JobRequests, NEW w \in Workers,
              ApplyToJob(r, w) \/ WithdrawApplication(r, w)
       PROVE  RequestsSound' /\ FilledByAcceptance'
  BY <1>10 DEF ApplyToJob, WithdrawApplication
<1>11. ASSUME NEW w \in Workers, NEW s \in {"accepted", "rejected"}, NamesAnotherJob(w, s)
       PROVE  RequestsSound' /\ FilledByAcceptance'
  BY <1>11 DEF NamesAnotherJob
<1>12. ASSUME NEW w \in Workers, NEW s \in {"accepted", "rejected"},
              NEW r \in JobRequests, UpdateApplicationStatus(r, w, s)
       PROVE  RequestsSound' /\ FilledByAcceptance'
  <2>1. CASE s = "accepted"
    BY <1>12, <2>1 DEF UpdateApplicationStatus
  <2>2. CASE s = "rejected"
    <3>1. Accepted' <=> Accepted
      BY <1>12, <2>2 DEF UpdateApplicationStatus
    <3>2. QED BY <1>12, <2>2, <3>1 DEF UpdateApplicationStatus
  <2>3. QED BY <2>1, <2>2
<1>13. ASSUME NEW w \in Workers, DeleteWorker(w)
       PROVE  RequestsSound' /\ FilledByAcceptance'
  <2>1. Accepted' <=> Accepted
    BY <1>13 DEF DeleteWorker
  <2>2. UNCHANGED <<job, handler>>
    BY <1>13 DEF DeleteWorker
  <2>3. QED BY <2>1, <2>2
<1>14. QED
  BY <1>2, <1>3, <1>4, <1>5, <1>6, <1>7, <1>8, <1>9, <1>10, <1>11, <1>12, <1>13, JobsCases

\* The state of the job board is always well typed.
THEOREM JobsTypeCorrect == JobsSpec => []JobsTypeOK
<1>1. JobsInit => JobsShape
  BY NoHandlerRecord
     DEF JobsInit, JobsShape, JobsTypeOK, ApplicationsHaveAJob, JobStatuses, HandlerRecords
<1>2. JobsShape /\ [JobsNext]_jobsVars => JobsShape'
  BY JobsShapeStep
<1>3. JobsShape => JobsTypeOK
  BY DEF JobsShape
<1>4. QED BY <1>1, <1>2, <1>3, PTL DEF JobsSpec

\* However the requests of the job board interleave, a job is filled exactly by
\* an acceptance, with the exceptions FilledByAcceptance names.
THEOREM AcceptancesFill == JobsSpec => []FilledByAcceptance
<1>1. JobsInit => JobsInv
  <2>1. JobsInit => JobsShape
    BY NoHandlerRecord
       DEF JobsInit, JobsShape, JobsTypeOK, ApplicationsHaveAJob, JobStatuses, HandlerRecords
  <2>2. JobsInit => FilledByAcceptance /\ RequestsSound
    BY DEF JobsInit, NoHandler, FilledByAcceptance, RequestsSound, Filling, Accepted
  <2>3. QED BY <2>1, <2>2 DEF JobsInv
<1>2. JobsInv /\ [JobsNext]_jobsVars => JobsInv'
  BY JobsInvStep
<1>3. JobsInv => FilledByAcceptance
  BY DEF JobsInv
<1>4. QED BY <1>1, <1>2, <1>3, PTL DEF JobsSpec

-----------------------------------------------------------------------------
(***************************************************************************)
(* The circuit breaker.                                                    *)
(***************************************************************************)

CallRecords == [at : {"idle", "sending", "asleep"}, attempt : 0..MaxRetries-1]

\* A call that begins, goes to sleep or ends is well typed.
LEMMA BreakerRecords ==
  /\ NoCall \in CallRecords
  /\ [at |-> "sending", attempt |-> 0] \in CallRecords
  /\ \A n \in 0..MaxRetries-1 :
       n < MaxRetries - 1 => [at |-> "asleep", attempt |-> n + 1] \in CallRecords
<1>1. /\ 0 \in 0..MaxRetries-1
      /\ \A n \in 0..MaxRetries-1 : n < MaxRetries - 1 => n + 1 \in 0..MaxRetries-1
  BY BreakerAssumption
<1>2. QED BY <1>1 DEF NoCall, CallRecords

\* The type invariant is inductive.
LEMMA BreakerTypeStep ==
  ASSUME BreakerTypeOK, [BreakerNext]_breakerVars
  PROVE  BreakerTypeOK'
<1>0. call \in [Calls -> CallRecords]
  BY DEF BreakerTypeOK, CallRecords
<1> SUFFICES /\ circuit' \in {"closed", "open", "half-open"}
             /\ failures' \in 0..FailureThreshold
             /\ cooled' \in BOOLEAN
             /\ call' \in [Calls -> CallRecords]
  BY DEF BreakerTypeOK, CallRecords
<1>1. ASSUME NEW c \in Calls, NEW retryable \in BOOLEAN, Fail(c, retryable)
      PROVE  /\ circuit' \in {"closed", "open", "half-open"}
             /\ failures' \in 0..FailureThreshold
             /\ cooled' \in BOOLEAN
             /\ call' \in [Calls -> CallRecords]
  <2>1. Counted \in 0..FailureThreshold
    BY BreakerAssumption DEF Counted, BreakerTypeOK
  <2>2. /\ failures' = Counted
        /\ circuit' = IF Opens THEN "open" ELSE circuit
        /\ cooled' = (cooled /\ ~Opens)
    BY <1>1 DEF Fail
  <2>3. call[c].attempt \in 0..MaxRetries-1
    BY <1>0 DEF CallRecords
  <2>4. \/ call' = [call EXCEPT ![c] = NoCall]
        \/ /\ call[c].attempt < MaxRetries - 1
           /\ call' = [call EXCEPT ![c] = [at |-> "asleep", attempt |-> call[c].attempt + 1]]
    BY <1>1 DEF Fail
  <2>5. call' \in [Calls -> CallRecords]
    BY <1>0, <2>3, <2>4, BreakerRecords
  <2>6. QED BY <2>1, <2>2, <2>5 DEF BreakerTypeOK
<1>2. ASSUME NEW c \in Calls, Execute(c) \/ Succeed(c) \/ Wake(c)
      PROVE  /\ circuit' \in {"closed", "open", "half-open"}
             /\ failures' \in 0..FailureThreshold
             /\ cooled' \in BOOLEAN
             /\ call' \in [Calls -> CallRecords]
  <2>1. call' \in [Calls -> CallRecords]
    <3>1. CASE Execute(c)
      BY <1>0, <3>1, BreakerRecords DEF Execute
    <3>2. CASE Succeed(c)
      BY <1>0, <3>2, BreakerRecords DEF Succeed
    <3>3. CASE Wake(c)
      BY <1>0, <3>3 DEF Wake, CallRecords
    <3>4. QED BY <1>2, <3>1, <3>2, <3>3
  <2>2. failures' = failures \/ failures' = 0
    BY <1>2 DEF Execute, Succeed, Wake
  <2>3. circuit' \in {"closed", "open", "half-open"} /\ cooled' = cooled
    BY <1>2 DEF Execute, Succeed, Wake, BreakerTypeOK
  <2>4. QED BY <2>1, <2>2, <2>3, BreakerAssumption DEF BreakerTypeOK
<1>3. CASE Cool \/ UNCHANGED breakerVars
  BY <1>0, <1>3 DEF Cool, breakerVars, BreakerTypeOK
<1>4. QED BY <1>1, <1>2, <1>3 DEF BreakerNext

\* The state of the breaker is always well typed.
THEOREM BreakerTypeCorrect == BreakerSpec => []BreakerTypeOK
<1>1. BreakerInit => BreakerTypeOK
  <2>1. 0 \in 0..FailureThreshold
    BY BreakerAssumption
  <2>2. BreakerInit => call \in [Calls -> CallRecords]
    BY BreakerRecords DEF BreakerInit
  <2>3. QED BY <2>1, <2>2 DEF BreakerInit, BreakerTypeOK, CallRecords
<1>2. BreakerTypeOK /\ [BreakerNext]_breakerVars => BreakerTypeOK'
  BY BreakerTypeStep
<1>3. QED BY <1>1, <1>2, PTL DEF BreakerSpec

\* While the breaker is open only calls that were asleep send, and none goes
\* to sleep: execute does not let a call in, and a failure does not retry.
THEOREM OpenBreakerDrains == BreakerSpec => OpenDrains
<1> DEFINE Drains == circuit = "open" /\ circuit' = "open" =>
                       /\ Sending' \ Sending \subseteq Asleep
                       /\ Asleep' \subseteq Asleep
<1>1. ASSUME BreakerTypeOK, [BreakerNext]_breakerVars PROVE Drains
  <2>0. call \in [Calls -> CallRecords]
    BY <1>1 DEF BreakerTypeOK, CallRecords
  <2>1. ASSUME NEW c \in Calls, Execute(c) \/ Succeed(c) PROVE Drains
    BY <2>1 DEF Execute, Succeed
  <2>2. ASSUME NEW c \in Calls, Wake(c) PROVE Drains
    BY <2>0, <2>2 DEF Wake, Sending, Asleep, CallRecords
  <2>3. ASSUME NEW c \in Calls, NEW retryable \in BOOLEAN, Fail(c, retryable) PROVE Drains
    <3>1. circuit' = "open" => call' = [call EXCEPT ![c] = NoCall]
      BY <2>3 DEF Fail
    <3>2. NoCall.at = "idle"
      BY DEF NoCall
    <3>3. QED BY <2>0, <3>1, <3>2 DEF Sending, Asleep
  <2>4. CASE Cool \/ UNCHANGED breakerVars
    BY <2>4 DEF Cool, breakerVars, Sending, Asleep
  <2>5. QED BY <1>1, <2>1, <2>2, <2>3, <2>4 DEF BreakerNext
<1>2. BreakerTypeOK /\ [BreakerNext]_breakerVars => [Drains]_breakerVars
  BY <1>1
<1>3. QED BY BreakerTypeCorrect, <1>2, PTL DEF BreakerSpec, OpenDrains

-----------------------------------------------------------------------------
(***************************************************************************)
(* The response cache of the worker endpoints.                             *)
(***************************************************************************)

ReaderRecords == [key : SUBSET CacheKeys, version : 0..MaxVersion]
WriterRecords == [at : {"idle", "invalidating"}, todo : SUBSET CacheKeys]

\* The records of reads and writes are well typed, and a version is not Nothing.
LEMMA CacheRecords ==
  /\ NoReader \in ReaderRecords /\ NoWriter \in WriterRecords
  /\ [at |-> "invalidating", todo |-> Matched] \in WriterRecords
  /\ NoWriter.todo = {}
  /\ Nothing \in 0..Nothing /\ 0..MaxVersion \subseteq 0..Nothing
<1>1. 0 \in 0..MaxVersion
  BY WorkerCacheAssumption
<1>2. NoReader \in ReaderRecords
  BY <1>1 DEF NoReader, ReaderRecords
<1>3. NoWriter \in WriterRecords /\ NoWriter.todo = {}
  BY DEF NoWriter, WriterRecords
<1>4. [at |-> "invalidating", todo |-> Matched] \in WriterRecords
  BY DEF Matched, WriterRecords
<1>5. Nothing \in 0..Nothing /\ 0..MaxVersion \subseteq 0..Nothing
  BY WorkerCacheAssumption DEF Nothing
<1>6. QED BY <1>2, <1>3, <1>4, <1>5

\* A write of a key or its deletion keeps every key typed.
LEMMA GoneKept ==
  ASSUME CacheTypeOK, NEW k \in CacheKeys, Gone(k)
  PROVE  /\ cached' \in [CacheKeys -> 0..Nothing] /\ cached'[k] = Nothing
         /\ \A l \in CacheKeys : l # k => cached'[l] = cached[l]
         /\ bornStale' = bornStale \ {k} /\ orphaned' = orphaned \ {k}
BY CacheRecords DEF Gone, CacheTypeOK

\* The inductive invariant is the type invariant with StaleExplained itself (each
\* action either leaves a key fresh or gives the reason it is stale for), and that
\* the last write of the four handlers is no later than the last of all.
CacheInv == CacheTypeOK /\ handled <= version /\ StaleExplained

LEMMA CacheInvStep ==
  ASSUME CacheInv, [CacheNext]_cacheVars
  PROVE  CacheInv'
<1>0. /\ CacheTypeOK /\ handled <= version /\ StaleExplained
      /\ reader \in [Readers -> ReaderRecords] /\ writer \in [Writers -> WriterRecords]
  BY DEF CacheInv, CacheTypeOK, ReaderRecords, WriterRecords
<1>1. ASSUME NEW r \in Readers, NEW k \in CacheKeys, Miss(r, k) PROVE CacheInv'
  <2>1. [key |-> {k}, version |-> version] \in ReaderRecords
    BY <1>0 DEF CacheTypeOK, ReaderRecords
  <2>2. reader' \in [Readers -> ReaderRecords]
    BY <1>0, <1>1, <2>1 DEF Miss
  <2>3. UNCHANGED <<version, handled, cached, writer, bornStale, orphaned, cacheFaults>>
    BY <1>1 DEF Miss
  <2>4. QED BY <1>0, <2>2, <2>3 DEF CacheInv, CacheTypeOK, StaleExplained, ReaderRecords
<1>2. ASSUME NEW r \in Readers, CacheSet(r) PROVE CacheInv'
  <2>1. PICK k \in reader[r].key :
          /\ cached' = [cached EXCEPT ![k] = reader[r].version]
          /\ bornStale' = IF reader[r].version < handled THEN bornStale \union {k}
                          ELSE bornStale \ {k}
          /\ orphaned' = orphaned \ {k}
    BY <1>2 DEF CacheSet
  <2>2. reader' = [reader EXCEPT ![r] = NoReader] /\ UNCHANGED <<version, handled, writer, cacheFaults>>
    BY <1>2 DEF CacheSet
  <2>3. k \in CacheKeys /\ reader[r].version \in 0..MaxVersion
    BY <1>0, <2>1 DEF ReaderRecords
  <2>4. reader' \in [Readers -> ReaderRecords]
    BY <1>0, <2>2, CacheRecords
  <2>5. reader[r].version \in 0..Nothing
    BY <2>3, CacheRecords
  <2>6. cached' \in [CacheKeys -> 0..Nothing]
    BY <1>0, <2>1, <2>5 DEF CacheTypeOK
  <2>7. ASSUME NEW l \in CacheKeys, cached'[l] \notin {Nothing, version'}
        PROVE  \/ cached'[l] >= handled'
               \/ \E w \in Writers : l \in writer'[w].todo
               \/ l \in bornStale' \union orphaned' \union BareKeys
    <3>1. CASE l = k
      <4>1. cached'[l] = reader[r].version /\ handled' = handled /\ handled \in Nat
        BY <1>0, <2>1, <2>2, <3>1 DEF CacheTypeOK
      <4>2. CASE reader[r].version < handled
        BY <2>1, <3>1, <4>2
      <4>3. CASE ~(reader[r].version < handled)
        BY <2>3, <4>1, <4>3
      <4>4. QED BY <4>2, <4>3
    <3>2. CASE l # k
      <4>1. cached'[l] = cached[l]
        BY <1>0, <2>1, <3>2 DEF CacheTypeOK
      <4>2. QED BY <1>0, <2>1, <2>2, <2>7, <3>2, <4>1 DEF StaleExplained
    <3>3. QED BY <3>1, <3>2
  <2>8. CacheTypeOK'
    BY <1>0, <2>1, <2>2, <2>3, <2>4, <2>6 DEF CacheTypeOK, ReaderRecords
  <2>9. QED BY <1>0, <2>2, <2>7, <2>8 DEF CacheInv, StaleExplained
<1>3. ASSUME NEW r \in Readers, CacheSetSkipped(r) PROVE CacheInv'
  <2>1. reader' \in [Readers -> ReaderRecords]
    BY <1>0, <1>3, CacheRecords DEF CacheSetSkipped
  <2>2. UNCHANGED <<version, handled, cached, writer, bornStale, orphaned, cacheFaults>>
    BY <1>3 DEF CacheSetSkipped
  <2>3. QED BY <1>0, <2>1, <2>2 DEF CacheInv, CacheTypeOK, StaleExplained, ReaderRecords
<1>4. ASSUME NEW k \in CacheKeys, TTLExpires(k) PROVE CacheInv'
  <2>1. Gone(k) /\ UNCHANGED <<version, handled, reader, writer, cacheFaults>>
    BY <1>4 DEF TTLExpires
  <2>2. QED BY <1>0, <2>1, GoneKept DEF CacheInv, CacheTypeOK, StaleExplained
<1>5. ASSUME NEW w \in Writers, WriteWorker(w) PROVE CacheInv'
  <2>1. /\ version < MaxVersion /\ version' = version + 1 /\ handled' = version + 1
        /\ writer[w] = NoWriter
        /\ writer' = [writer EXCEPT ![w] = [at |-> "invalidating", todo |-> Matched]]
        /\ UNCHANGED <<cached, reader, bornStale, orphaned, cacheFaults>>
    BY <1>5 DEF WriteWorker
  <2>2. version' \in 0..MaxVersion /\ handled' \in 0..MaxVersion
    BY <1>0, <2>1, WorkerCacheAssumption DEF CacheTypeOK
  <2>3. writer' \in [Writers -> WriterRecords]
    BY <1>0, <2>1, CacheRecords
  <2>4. ASSUME NEW l \in CacheKeys
        PROVE  (\E v \in Writers : l \in writer'[v].todo) \/ l \in BareKeys
    <3>1. writer'[w].todo = Matched
      BY <1>0, <2>1
    <3>2. QED BY <3>1 DEF Matched
  <2>5. QED BY <1>0, <2>1, <2>2, <2>3, <2>4 DEF CacheInv, CacheTypeOK, StaleExplained, WriterRecords
<1>6. ASSUME NEW w \in Writers, NEW k \in CacheKeys, Invalidate(w, k) PROVE CacheInv'
  <2>1. /\ Gone(k) /\ UNCHANGED <<version, handled, reader, cacheFaults>>
        /\ writer' = [writer EXCEPT ![w] = Remaining(writer[w].todo \ {k})]
    BY <1>6 DEF Invalidate
  <2>a. /\ Remaining(writer[w].todo \ {k}) \in WriterRecords
        /\ writer[w].todo \ {k} = Remaining(writer[w].todo \ {k}).todo
    BY <1>0, CacheRecords DEF Remaining, WriterRecords
  <2>2. writer' \in [Writers -> WriterRecords]
    BY <1>0, <2>1, <2>a
  <2>3. \A v \in Writers : writer[v].todo \ {k} \subseteq writer'[v].todo
    BY <1>0, <2>1, <2>a
  <2>4. QED
    BY <1>0, <2>1, <2>2, <2>3, GoneKept DEF CacheInv, CacheTypeOK, StaleExplained, WriterRecords
<1>7. ASSUME NEW w \in Writers, InvalidateFails(w) PROVE CacheInv'
  <2>1. /\ orphaned' = orphaned \union {k \in writer[w].todo : cached[k] # Nothing}
        /\ writer' = [writer EXCEPT ![w] = NoWriter]
        /\ UNCHANGED <<version, handled, cached, reader, bornStale>>
    BY <1>7 DEF InvalidateFails
  <2>2. cacheFaults' \in 0..MaxCacheFaults
    BY <1>0, <1>7, WorkerCacheAssumption DEF InvalidateFails, CacheFault, CacheTypeOK
  <2>3. writer' \in [Writers -> WriterRecords] /\ writer[w].todo \subseteq CacheKeys
    BY <1>0, <2>1, CacheRecords DEF WriterRecords
  <2>4. CacheTypeOK'
    BY <1>0, <2>1, <2>2, <2>3 DEF CacheTypeOK, WriterRecords
  <2>5. ASSUME NEW l \in CacheKeys, cached[l] \notin {Nothing, version}
        PROVE  \/ cached[l] >= handled
               \/ \E v \in Writers : l \in writer'[v].todo
               \/ l \in bornStale \union orphaned' \union BareKeys
    <3>1. CASE l \in writer[w].todo
      BY <2>1, <2>5, <3>1
    <3>2. CASE \E v \in Writers : v # w /\ l \in writer[v].todo
      BY <1>0, <2>1, <3>2
    <3>3. CASE l \in bornStale \union orphaned \union BareKeys
      BY <2>1, <3>3
    <3>4. QED BY <1>0, <2>5, <3>1, <3>2, <3>3 DEF StaleExplained
  <2>6. QED BY <1>0, <2>1, <2>4, <2>5 DEF CacheInv, StaleExplained
<1>8. CASE UNCHANGED cacheVars
  BY <1>0, <1>8 DEF cacheVars, CacheInv, CacheTypeOK, StaleExplained
<1>9. CASE WriteElsewhere
  <2>1. /\ version < MaxVersion /\ version' = version + 1
        /\ UNCHANGED <<handled, cached, reader, writer, bornStale, orphaned, cacheFaults>>
    BY <1>9 DEF WriteElsewhere
  <2>2. version' \in 0..MaxVersion
    BY <1>0, <2>1, WorkerCacheAssumption DEF CacheTypeOK
  <2>3. ASSUME NEW l \in CacheKeys, cached[l] = version
        PROVE  cached[l] >= handled
    BY <1>0, <2>1, <2>3 DEF CacheTypeOK
  <2>4. QED BY <1>0, <2>1, <2>2, <2>3 DEF CacheInv, CacheTypeOK, StaleExplained
<1>10. QED BY <1>1, <1>2, <1>3, <1>4, <1>5, <1>6, <1>7, <1>8, <1>9 DEF CacheNext

\* The state of the cache is always well typed, and a response in it that is out
\* of date has one of the reasons StaleExplained names.
THEOREM StaleResponses == CacheSpec => [](CacheTypeOK /\ StaleExplained)
<1>1. CacheInit => CacheInv
  <2>1. 0 \in 0..MaxVersion /\ 0 \in 0..MaxCacheFaults
    BY WorkerCacheAssumption
  <2>2. QED
    BY <2>1, CacheRecords
       DEF CacheInit, CacheInv, CacheTypeOK, StaleExplained, ReaderRecords, WriterRecords
<1>2. CacheInv /\ [CacheNext]_cacheVars => CacheInv'
  BY CacheInvStep
<1>3. CacheInv => CacheTypeOK /\ StaleExplained
  BY DEF CacheInv
<1>4. QED BY <1>1, <1>2, <1>3, PTL DEF CacheSpec

-----------------------------------------------------------------------------
(***************************************************************************)
(* Idempotency.                                                            *)
(***************************************************************************)

\* While no row was lost and no retry overlapped: one request at most is being
\* handled, none after one was carried out, and the one that was carried out
\* has stored its answer or is about to.
OneAtATime ==
  /\ \A p, q \in Posts : post[p] = "handling" /\ post[q] = "handling" => p = q
  /\ \A p \in Posts : post[p] = "handling" => carriedOut = {}
  /\ \A p, q \in carriedOut : p = q
  /\ \A p \in carriedOut : answer = "live" \/ post[p] = "storing"

IdempotencyInv ==
  /\ IdempotencyTypeOK
  /\ anonymous \/ overlapped \/ forgotten \/ OneAtATime

LEMMA IdempotencyInvStep ==
  ASSUME IdempotencyInv, [IdempotencyNext]_idempotencyVars
  PROVE  IdempotencyInv'
<1> USE DEF IdempotencyInv, IdempotencyTypeOK, OneAtATime, Moving
<1>1. ASSUME NEW p \in Posts, Hit(p) PROVE IdempotencyInv'
  BY <1>1 DEF Hit
<1>2. ASSUME NEW p \in Posts, MissRow(p) PROVE IdempotencyInv'
  BY <1>2 DEF MissRow, Unanswered
<1>3. ASSUME NEW p \in Posts, LookUpFails(p) \/ StoreFails(p) PROVE IdempotencyInv'
  BY <1>3 DEF LookUpFails, StoreFails
<1>4. ASSUME NEW p \in Posts, HandlerSucceeds(p) PROVE IdempotencyInv'
  BY <1>4 DEF HandlerSucceeds
<1>5. ASSUME NEW p \in Posts, HandlerFails(p) PROVE IdempotencyInv'
  BY <1>5 DEF HandlerFails
<1>6. ASSUME NEW p \in Posts, StoreAnswer(p) PROVE IdempotencyInv'
  BY <1>6 DEF StoreAnswer
<1>7. CASE Lapses \/ DeleteExpiredIdempotencyKeys \/ UNCHANGED idempotencyVars
  BY <1>7 DEF Lapses, DeleteExpiredIdempotencyKeys, idempotencyVars
<1>8. QED BY <1>1, <1>2, <1>3, <1>4, <1>5, <1>6, <1>7 DEF IdempotencyNext

\* However many times a caller repeats a request under its key, it is carried
\* out once, with the exceptions CarriedOutOnce names.
THEOREM RetriesAreAnswered == IdempotencySpec => [](IdempotencyTypeOK /\ CarriedOutOnce)
<1>1. IdempotencyInit => IdempotencyInv
  BY DEF IdempotencyInit, IdempotencyInv, IdempotencyTypeOK, OneAtATime
<1>2. IdempotencyInv /\ [IdempotencyNext]_idempotencyVars => IdempotencyInv'
  BY IdempotencyInvStep
<1>3. IdempotencyInv => IdempotencyTypeOK /\ CarriedOutOnce
  BY DEF IdempotencyInv, OneAtATime, CarriedOutOnce
<1>4. QED BY <1>1, <1>2, <1>3, PTL DEF IdempotencySpec

-----------------------------------------------------------------------------
(***************************************************************************)
(* The mobile app's offline queue.                                         *)
(***************************************************************************)

\* The passes are what they say, and hold only actions that were queued.
PassesSound ==
  /\ \A p \in Passes : pass[p].at = "idle" <=> pass[p].left = {}
  /\ \A p \in Passes : pass[p].left \subseteq 1..queued
  /\ \A a \in QueueActions : served[a] > 0 => a \in 1..queued

\* Beyond a pass that set the sync status itself, another is under way only
\* after a disconnect; and two passes hold an action only if it is shared.
PassesApart ==
  /\ \A p \in Passes : pass[p].at # "idle" /\ syncStatus # "syncing" => cut
  /\ \A p, q \in Passes : p # q /\ pass[p].at # "idle" /\ pass[q].at # "idle" => cut
  /\ \A p, q \in Passes :
       p # q => \A a \in pass[p].left \cap pass[q].left : a \in shared

\* A pass that has had its action carried out and does not know it yet.
Answering(p, a) == pass[p].at = "served" /\ Current(p, a)

\* An action carried out is about to be acknowledged, or nobody sends it again,
\* or the exceptions ServedAsQueued names apply to it.
NoResend ==
  \A a \in QueueActions : served[a] > 0 =>
    \/ a \in unsure \/ a \in shared
    \/ \E p \in Passes : Answering(p, a)
    \/ a \notin queue /\ \A p \in Passes : a \notin pass[p].left

OfflineInv ==
  /\ OfflineTypeOK /\ PassesSound /\ PassesApart /\ NoResend
  /\ \A p \in Passes, a \in QueueActions : Answering(p, a) => served[a] > 0
  /\ ServedAsQueued

\* The steps of the queue.
LEMMA OfflineCases ==
  ASSUME [OfflineNext]_offlineVars
  PROVE  \/ QueueAction \/ ClearQueue \/ FirstEvent \/ Reconnect \/ Disconnect \/ Relaunch
         \/ \E p \in Passes : Serve(p)
         \/ \E p \in Passes : Acknowledge(p)
         \/ \E p \in Passes : SendFails(p)
         \/ UNCHANGED offlineVars
BY Zenon DEF OfflineNext

\* At most one action is the current one of a pass.
LEMMA OneCurrent ==
  ASSUME OfflineTypeOK, NEW p \in Passes, NEW a, NEW b, Current(p, a), Current(p, b)
  PROVE  a = b /\ a \in QueueActions
<1>1. pass[p].left \subseteq QueueActions
  BY DEF OfflineTypeOK
<1>2. a \in pass[p].left /\ b \in pass[p].left /\ a <= b /\ b <= a
  BY DEF Current
<1>3. a \in Nat /\ b \in Nat /\ a \in QueueActions
  BY <1>1, <1>2, OfflineQueueAssumption DEF QueueActions
<1>4. QED BY <1>2, <1>3

\* A step of a pass (PassMoves) or of none: what the parts of the invariant need.
LEMMA CurrentKept ==
  ASSUME NEW p \in Passes, pass'[p] = pass[p]
  PROVE  \A a \in QueueActions : /\ Answering(p, a)' <=> Answering(p, a)
                                 /\ Current(p, a)' <=> Current(p, a)
BY DEF Answering, Current

\* New actions are in the queue, and nobody has carried one out.
LEMMA NewInQueue ==
  ASSUME OfflineInv, queued' \in 0..MaxActions, queued' >= queued,
         queue' = queue \cup (queued + 1 .. queued'),
         UNCHANGED <<served, cleared, unsure>>, shared \subseteq shared'
  PROVE  ServedAsQueued'
<1>1. SUFFICES ASSUME NEW a \in 1..queued'
               PROVE  /\ a \in queue' \/ a \in cleared' \/ served'[a] > 0
                      /\ served'[a] > 1 => a \in unsure' \/ a \in shared'
  BY DEF ServedAsQueued
<1>2. queued \in Nat /\ queued' \in Nat /\ a \in QueueActions /\ served[a] \in Nat
  BY OfflineQueueAssumption DEF OfflineInv, OfflineTypeOK, QueueActions
<1>3. CASE a \in 1..queued
  BY <1>3 DEF OfflineInv, ServedAsQueued
<1>4. CASE a \notin 1..queued
  <2>1. a \in queue'
    BY <1>2, <1>4
  <2>2. ~(served[a] > 0)
    BY <1>2, <1>4 DEF OfflineInv, PassesSound
  <2>3. QED BY <1>2, <2>1, <2>2
<1>5. QED BY <1>3, <1>4

\* What queueAction and a reconnect do: the queue, with an action more or not,
\* is given to a new pass or left alone.
LEMMA PassStarts ==
  ASSUME OfflineInv, NEW online, ProcessQueue(online, syncStatus, queue'),
         queued' \in 0..MaxActions, queued' >= queued,
         queue' = queue \cup (queued + 1 .. queued'),
         connected' \in BOOLEAN, mounted' \in BOOLEAN,
         UNCHANGED <<served, cleared, unsure, cut>>
  PROVE  OfflineInv'
<1>1. /\ queued \in 0..MaxActions /\ MaxActions \in Nat
      /\ queue \subseteq 1..queued /\ queue' \subseteq 1..queued'
      /\ 1..queued \subseteq 1..queued' /\ 1..queued' \subseteq QueueActions
  BY OfflineQueueAssumption DEF OfflineInv, OfflineTypeOK, QueueActions
<1>2. pass \in [Passes -> [at : {"idle", "sending", "served"}, left : SUBSET QueueActions]]
  BY DEF OfflineInv, OfflineTypeOK
<1>3. CASE UNCHANGED <<syncStatus, pass, shared>>
  <2>1. OfflineTypeOK'
    BY <1>1, <1>2, <1>3 DEF OfflineInv, OfflineTypeOK
  <2>2. PassesSound' /\ PassesApart'
    BY <1>1, <1>3 DEF OfflineInv, PassesSound, PassesApart
  <2>3. \A p \in Passes, a \in QueueActions : Answering(p, a)' <=> Answering(p, a)
    BY <1>3, CurrentKept
  <2>4. \A a \in QueueActions : served[a] > 0 /\ a \notin queue => a \notin queue'
    BY <1>1 DEF OfflineInv, PassesSound
  <2>5. NoResend'
    BY <1>3, <2>3, <2>4 DEF OfflineInv, NoResend
  <2>6. \A p \in Passes, a \in QueueActions : Answering(p, a)' => served'[a] > 0
    BY <2>3 DEF OfflineInv
  <2>7. ServedAsQueued'
    BY <1>1, <1>3, NewInQueue
  <2>8. QED BY <2>1, <2>2, <2>5, <2>6, <2>7 DEF OfflineInv
<1>4. CASE /\ syncStatus # "syncing" /\ queue' # {} /\ syncStatus' = "syncing"
           /\ \E p \in Passes \ Running :
                /\ pass' = [pass EXCEPT ![p] = [at |-> "sending", left |-> queue']]
                /\ shared' = IF cut THEN shared \union
                                  (queue' \intersect UNION {pass[r].left : r \in Running})
                             ELSE shared
  <2>1. PICK p \in Passes \ Running :
          /\ pass' = [pass EXCEPT ![p] = [at |-> "sending", left |-> queue']]
          /\ shared' = IF cut THEN shared \union
                            (queue' \intersect UNION {pass[r].left : r \in Running})
                       ELSE shared
    BY <1>4
  <2>2. /\ p \in Passes /\ pass[p].at = "idle" /\ pass[p].left = {}
        /\ pass'[p].at = "sending" /\ pass'[p].left = queue'
        /\ \A r \in Passes \ {p} : pass'[r] = pass[r]
    BY <1>2, <2>1 DEF Running, OfflineInv, PassesSound
  <2>3. /\ shared \subseteq shared' /\ shared' \subseteq QueueActions
        /\ \A r \in Passes : pass[r].at # "idle" => queue' \cap pass[r].left \subseteq shared'
    <3>1. shared \subseteq shared' /\ shared' \subseteq QueueActions
      BY <1>1, <2>1 DEF OfflineInv, OfflineTypeOK
    <3>2. ASSUME NEW r \in Passes, pass[r].at # "idle"
          PROVE  queue' \cap pass[r].left \subseteq shared'
      <4>1. cut
        BY <1>4, <3>2 DEF OfflineInv, PassesApart
      <4>2. pass[r].left \in {pass[x].left : x \in Running}
        BY <3>2 DEF Running
      <4>3. QED BY <2>1, <4>1, <4>2
    <3>3. QED BY <3>1, <3>2
  <2>4. OfflineTypeOK'
    <3>1. pass' \in [Passes -> [at : {"idle", "sending", "served"}, left : SUBSET QueueActions]]
      BY <1>1, <1>2, <2>1
    <3>2. QED BY <1>1, <1>4, <2>3, <3>1 DEF OfflineInv, OfflineTypeOK
  <2>5. PassesSound'
    <3>1. ASSUME NEW r \in Passes
          PROVE  /\ pass'[r].at = "idle" <=> pass'[r].left = {}
                 /\ pass'[r].left \subseteq 1..queued'
      BY <1>1, <1>4, <2>2 DEF OfflineInv, PassesSound
    <3>2. QED BY <1>1, <3>1 DEF OfflineInv, PassesSound
  <2>6. PassesApart'
    <3>1. \A r \in Passes : pass[r].at # "idle" => cut
      BY <1>4 DEF OfflineInv, PassesApart
    <3>2. \A r, q \in Passes : r # q /\ pass'[r].at # "idle" /\ pass'[q].at # "idle" => cut'
      BY <2>2, <3>1
    <3>3. ASSUME NEW r \in Passes, NEW q \in Passes, r # q,
                 NEW a \in pass'[r].left \cap pass'[q].left
          PROVE  a \in shared'
      <4>1. CASE r # p /\ q # p
        BY <2>2, <2>3, <3>3, <4>1 DEF OfflineInv, PassesApart
      <4>2. CASE r = p /\ q # p
        <5>1. pass[q].at # "idle"
          BY <2>2, <3>3, <4>2 DEF OfflineInv, PassesSound
        <5>2. QED BY <2>2, <2>3, <3>3, <4>2, <5>1
      <4>3. CASE q = p /\ r # p
        <5>1. pass[r].at # "idle"
          BY <2>2, <3>3, <4>3 DEF OfflineInv, PassesSound
        <5>2. QED BY <2>2, <2>3, <3>3, <4>3, <5>1
      <4>4. QED BY <3>3, <4>1, <4>2, <4>3
    <3>4. QED BY <1>4, <3>2, <3>3 DEF PassesApart
  <2>7. \A r \in Passes, a \in QueueActions : Answering(r, a)' <=> Answering(r, a)
    <3>1. ASSUME NEW a \in QueueActions PROVE ~Answering(p, a) /\ ~Answering(p, a)'
      BY <2>2 DEF Answering
    <3>2. QED BY <2>2, <3>1, CurrentKept
  <2>8. NoResend'
    <3>1. SUFFICES ASSUME NEW a \in QueueActions, served[a] > 0
                   PROVE  \/ a \in unsure' \/ a \in shared'
                          \/ \E r \in Passes : Answering(r, a)'
                          \/ a \notin queue' /\ \A r \in Passes : a \notin pass'[r].left
      BY DEF NoResend
    <3>2. a \notin queue => a \notin queue'
      BY <1>1, <3>1 DEF OfflineInv, PassesSound
    <3>3. \/ a \in unsure \/ a \in shared \/ \E r \in Passes : Answering(r, a)
          \/ a \notin queue /\ \A r \in Passes : a \notin pass[r].left
      BY <3>1 DEF OfflineInv, NoResend
    <3>4. QED BY <2>2, <2>3, <2>7, <3>2, <3>3
  <2>9. \A r \in Passes, a \in QueueActions : Answering(r, a)' => served'[a] > 0
    BY <2>7 DEF OfflineInv
  <2>10. ServedAsQueued'
    BY <1>1, <2>3, NewInQueue
  <2>11. QED BY <2>4, <2>5, <2>6, <2>8, <2>9, <2>10 DEF OfflineInv
<1>5. QED BY <1>3, <1>4 DEF ProcessQueue

\* What an answer, or none, does: the pass goes on to the rest of its snapshot,
\* and what it was sending is out of the queue, or the app does not know.
LEMMA PassGoesOn ==
  ASSUME OfflineInv, NEW p \in Passes, NEW a \in QueueActions, Current(p, a),
         GoOn(p, a), queue' \in {queue, queue \ {a}},
         unsure' \in {unsure, unsure \cup {a}},
         pass[p].at = "sending" => queue' = queue,
         pass[p].at = "served" => a \notin queue' \/ a \in unsure',
         UNCHANGED <<queued, connected, mounted, served, cleared, shared>>
  PROVE  OfflineInv'
<1>1. /\ pass \in [Passes -> [at : {"idle", "sending", "served"}, left : SUBSET QueueActions]]
      /\ a \in pass[p].left /\ pass[p].at # "idle"
  BY DEF OfflineInv, OfflineTypeOK, PassesSound, Current
<1>2. PICK rest \in SUBSET QueueActions : rest = pass[p].left \ {a}
  BY <1>1
<1>3. /\ pass' = [pass EXCEPT ![p] = [at |-> IF rest = {} THEN "idle" ELSE "sending",
                                      left |-> rest]]
      /\ syncStatus' = IF rest # {} THEN syncStatus ELSE IF queue' = {} THEN "idle" ELSE "error"
      /\ cut' = (cut /\ \E r \in Passes : pass'[r].at # "idle")
  BY <1>2 DEF GoOn
<1>4. /\ pass'[p].at = (IF rest = {} THEN "idle" ELSE "sending") /\ pass'[p].left = rest
      /\ \A r \in Passes \ {p} : pass'[r] = pass[r]
  BY <1>1, <1>3
<1>5. \A r \in Passes : pass'[r].left \subseteq pass[r].left
  BY <1>2, <1>4
<1>6. OfflineTypeOK'
  <2>1. pass' \in [Passes -> [at : {"idle", "sending", "served"}, left : SUBSET QueueActions]]
    BY <1>1, <1>2, <1>3
  <2>2. cut' \in BOOLEAN
    BY <1>3
  <2>3. syncStatus' \in {"idle", "syncing", "error", "offline"}
    BY <1>3 DEF OfflineInv, OfflineTypeOK
  <2>4. queue' \subseteq 1..queued' /\ unsure' \subseteq QueueActions
    BY DEF OfflineInv, OfflineTypeOK
  <2>5. QED BY <2>1, <2>2, <2>3, <2>4 DEF OfflineInv, OfflineTypeOK
<1>7. PassesSound'
  <2>1. ASSUME NEW r \in Passes PROVE pass'[r].at = "idle" <=> pass'[r].left = {}
    BY <1>4 DEF OfflineInv, PassesSound
  <2>2. \A r \in Passes : pass'[r].left \subseteq 1..queued'
    BY <1>5 DEF OfflineInv, PassesSound
  <2>3. QED BY <2>1, <2>2 DEF OfflineInv, PassesSound
<1>8. PassesApart'
  <2>1. ASSUME NEW r \in Passes, pass'[r].at # "idle"
        PROVE  syncStatus' # "syncing" => cut'
    <3>1. CASE rest # {}
      <4>1. pass[r].at # "idle" /\ syncStatus' = syncStatus
        BY <1>1, <1>3, <1>4, <2>1, <3>1
      <4>2. QED BY <1>3, <2>1, <4>1 DEF OfflineInv, PassesApart
    <3>2. CASE rest = {}
      <4>1. r # p /\ pass[r].at # "idle"
        BY <1>4, <2>1, <3>2
      <4>2. cut
        BY <1>1, <4>1 DEF OfflineInv, PassesApart
      <4>3. QED BY <1>3, <2>1, <4>2
    <3>3. QED BY <3>1, <3>2
  <2>2. ASSUME NEW r \in Passes, NEW q \in Passes, r # q,
               pass'[r].at # "idle", pass'[q].at # "idle"
        PROVE  cut'
    <3>1. pass[r].at # "idle" /\ pass[q].at # "idle"
      BY <1>1, <1>4, <2>2
    <3>2. cut
      BY <2>2, <3>1 DEF OfflineInv, PassesApart
    <3>3. QED BY <1>3, <2>2, <3>2
  <2>3. \A r, q \in Passes :
          r # q => \A b \in pass'[r].left \cap pass'[q].left : b \in shared'
    BY <1>5 DEF OfflineInv, PassesApart
  <2>4. QED BY <2>1, <2>2, <2>3 DEF PassesApart
<1>9. /\ \A b \in QueueActions : ~Answering(p, b)'
      /\ \A r \in Passes \ {p} : \A b \in QueueActions : Answering(r, b)' <=> Answering(r, b)
  <2>1. pass'[p].at # "served"
    BY <1>4
  <2>2. \A b \in QueueActions : ~Answering(p, b)'
    BY <2>1 DEF Answering
  <2>3. QED BY <1>4, <2>2, CurrentKept
<1>10. ASSUME NEW b \in QueueActions, served[b] > 0
       PROVE  \/ b \in unsure' \/ b \in shared'
              \/ \E r \in Passes : Answering(r, b)'
              \/ b \notin queue' /\ \A r \in Passes : b \notin pass'[r].left
  <2>1. CASE b \in unsure \/ b \in shared
    BY <2>1
  <2>2. CASE b \notin queue /\ \A r \in Passes : b \notin pass[r].left
    BY <1>5, <2>2
  <2>3. CASE b \notin shared /\ \E r \in Passes : Answering(r, b)
    <3>1. PICK r \in Passes : Answering(r, b)
      BY <2>3
    <3>2. CASE r # p
      BY <1>9, <3>1, <3>2
    <3>3. CASE r = p
      <4>1. a = b /\ pass[p].at = "served"
        BY <3>1, <3>3, OneCurrent DEF Answering, OfflineInv
      <4>2. \A q \in Passes \ {p} : a \notin pass[q].left
        BY <1>1, <2>3, <4>1 DEF OfflineInv, PassesApart
      <4>3. a \notin pass'[p].left
        BY <1>2, <1>4
      <4>4. QED BY <1>5, <4>1, <4>2, <4>3
    <3>4. QED BY <3>2, <3>3
  <2>4. QED BY <1>10, <2>1, <2>2, <2>3 DEF OfflineInv, NoResend
<1>11. NoResend'
  BY <1>10 DEF NoResend
<1>12. \A r \in Passes, b \in QueueActions : Answering(r, b)' => served'[b] > 0
  BY <1>9 DEF OfflineInv
<1>13. ServedAsQueued'
  <2>1. pass[p].at = "served" => served[a] > 0
    BY DEF OfflineInv, Answering
  <2>2. pass[p].at \in {"sending", "served"}
    BY <1>1
  <2>3. \A b \in 1..queued : b \in QueueActions
    BY OfflineQueueAssumption DEF OfflineInv, OfflineTypeOK, QueueActions
  <2>4. \A b \in 1..queued : b \in queue' \/ b \in cleared' \/ served'[b] > 0
    BY <2>1, <2>2 DEF OfflineInv, ServedAsQueued
  <2>5. \A b \in 1..queued : served'[b] > 1 => b \in unsure' \/ b \in shared'
    BY DEF OfflineInv, ServedAsQueued
  <2>6. QED BY <2>4, <2>5 DEF ServedAsQueued
<1>14. QED BY <1>6, <1>7, <1>8, <1>11, <1>12, <1>13 DEF OfflineInv

\* The server carries out an action a second time only if the app could not
\* learn of the first, or two passes have it.
LEMMA ServeStep ==
  ASSUME OfflineInv, NEW p \in Passes, Serve(p)
  PROVE  OfflineInv'
<1>1. PICK a \in QueueActions :
        Current(p, a) /\ served' = [served EXCEPT ![a] = IF @ < 2 THEN @ + 1 ELSE 2]
  BY DEF Serve
<1>2. /\ pass \in [Passes -> [at : {"idle", "sending", "served"}, left : SUBSET QueueActions]]
      /\ served \in [QueueActions -> 0..2]
  BY DEF OfflineInv, OfflineTypeOK
<1>3. /\ pass[p].at = "sending" /\ pass'[p].at = "served" /\ pass'[p].left = pass[p].left
      /\ \A r \in Passes \ {p} : pass'[r] = pass[r]
      /\ UNCHANGED <<queued, queue, connected, mounted, syncStatus, cleared, unsure, cut, shared>>
  BY <1>2 DEF Serve
<1>4. /\ served'[a] = IF served[a] < 2 THEN served[a] + 1 ELSE 2
      /\ \A b \in QueueActions \ {a} : served'[b] = served[b]
      /\ \A b \in QueueActions : served[b] > 0 => served'[b] > 0
      /\ served'[a] > 0
  BY <1>1, <1>2
<1>5. OfflineTypeOK'
  <2>1. pass' \in [Passes -> [at : {"idle", "sending", "served"}, left : SUBSET QueueActions]]
    BY <1>2 DEF Serve
  <2>2. served' \in [QueueActions -> 0..2]
    BY <1>1, <1>2
  <2>3. QED BY <1>3, <2>1, <2>2 DEF OfflineInv, OfflineTypeOK
<1>6. PassesSound'
  <2>1. \A r \in Passes : /\ pass'[r].at = "idle" <=> pass'[r].left = {}
                          /\ pass'[r].left \subseteq 1..queued'
    BY <1>3 DEF OfflineInv, PassesSound
  <2>2. a \in 1..queued
    BY <1>1 DEF OfflineInv, PassesSound, Current
  <2>3. QED BY <1>3, <1>4, <2>1, <2>2 DEF OfflineInv, PassesSound
<1>7. PassesApart'
  <2>1. \A r \in Passes : pass'[r].left = pass[r].left /\ (pass'[r].at # "idle" => pass[r].at # "idle")
    BY <1>3
  <2>2. QED BY <1>3, <2>1 DEF OfflineInv, PassesApart
<1>8. Answering(p, a)'
  BY <1>1, <1>3 DEF Answering, Current
<1>9. \A r \in Passes \ {p} : \A b \in QueueActions : Answering(r, b)' <=> Answering(r, b)
  BY <1>3, CurrentKept
<1>10. ASSUME NEW b \in QueueActions, b # a, served[b] > 0
       PROVE  \/ b \in unsure' \/ b \in shared'
              \/ \E r \in Passes : Answering(r, b)'
              \/ b \notin queue' /\ \A r \in Passes : b \notin pass'[r].left
  <2>1. ~Answering(p, b)
    BY <1>3 DEF Answering
  <2>2. \A r \in Passes : pass'[r].left = pass[r].left
    BY <1>3
  <2>3. QED BY <1>3, <1>9, <1>10, <2>1, <2>2 DEF OfflineInv, NoResend
<1>11. NoResend'
  <2>1. ASSUME NEW b \in QueueActions, served'[b] > 0
        PROVE  \/ b \in unsure' \/ b \in shared'
               \/ \E r \in Passes : Answering(r, b)'
               \/ b \notin queue' /\ \A r \in Passes : b \notin pass'[r].left
    <3>1. CASE b = a
      BY <1>8, <3>1
    <3>2. CASE b # a
      BY <1>4, <1>10, <2>1, <3>2
    <3>3. QED BY <3>1, <3>2
  <2>2. QED BY <2>1 DEF NoResend
<1>12. ASSUME NEW r \in Passes, NEW b \in QueueActions, Answering(r, b)'
       PROVE  served'[b] > 0
  <2>1. CASE b = a
    BY <1>4, <2>1
  <2>2. CASE b # a
    <3>1. r # p
      <4>1. Answering(p, b)' => b = a
        BY <1>5, <1>8, OneCurrent, OfflineQueueAssumption
           DEF Answering, Current, OfflineTypeOK, QueueActions
      <4>2. QED BY <1>12, <2>2, <4>1
    <3>2. QED BY <1>4, <1>9, <1>12, <3>1 DEF OfflineInv
  <2>3. QED BY <2>1, <2>2
<1>13. served[a] > 0 => a \in unsure \/ a \in shared
  <2>1. SUFFICES ASSUME served[a] > 0, a \notin unsure, a \notin shared PROVE FALSE
    OBVIOUS
  <2>2. a \in pass[p].left
    BY <1>1 DEF Current
  <2>3. PICK r \in Passes : Answering(r, a)
    BY <2>1, <2>2 DEF OfflineInv, NoResend
  <2>4. r # p /\ a \in pass[r].left
    BY <1>3, <2>3 DEF Answering, Current
  <2>5. QED BY <2>1, <2>2, <2>4 DEF OfflineInv, PassesApart
<1>14. ServedAsQueued'
  <2>1. \A b \in 1..queued : b \in QueueActions
    BY OfflineQueueAssumption DEF OfflineInv, OfflineTypeOK, QueueActions
  <2>2. \A b \in 1..queued : b \in queue' \/ b \in cleared' \/ served'[b] > 0
    BY <1>3, <1>4, <2>1 DEF OfflineInv, ServedAsQueued
  <2>3. served'[a] > 1 => served[a] > 0
    BY <1>2, <1>4
  <2>4. \A b \in 1..queued : served'[b] > 1 => b \in unsure' \/ b \in shared'
    BY <1>3, <1>4, <1>13, <2>1, <2>3 DEF OfflineInv, ServedAsQueued
  <2>5. QED BY <1>3, <2>2, <2>4 DEF ServedAsQueued
<1>15. QED BY <1>5, <1>6, <1>7, <1>11, <1>12, <1>14 DEF OfflineInv

LEMMA OfflineInvStep ==
  ASSUME OfflineInv, [OfflineNext]_offlineVars
  PROVE  OfflineInv'
<1>0. /\ queued \in 0..MaxActions /\ queue \subseteq 1..queued
      /\ connected \in BOOLEAN /\ mounted \in BOOLEAN
  BY DEF OfflineInv, OfflineTypeOK
<1>1. CASE QueueAction
  <2>1. /\ queued' = queued + 1 /\ queued' \in 0..MaxActions
        /\ queued + 1 .. queued' = {queued + 1}
    BY <1>0, <1>1, OfflineQueueAssumption DEF QueueAction
  <2>2. QED BY <1>0, <1>1, <2>1, PassStarts DEF QueueAction
<1>2. CASE Reconnect
  <2>1. queued + 1 .. queued = {} /\ queued' = queued /\ queued >= queued
    BY <1>0, <1>2, OfflineQueueAssumption DEF Reconnect
  <2>2. queue' = queue \cup (queued + 1 .. queued')
    BY <1>2, <2>1 DEF Reconnect
  <2>3. ProcessQueue(TRUE, syncStatus, queue')
    BY <1>2 DEF Reconnect
  <2>4. QED BY <1>0, <1>2, <2>1, <2>2, <2>3, PassStarts DEF Reconnect
<1>3. ASSUME NEW p \in Passes, Serve(p) PROVE OfflineInv'
  BY <1>3, ServeStep
<1>4. ASSUME NEW p \in Passes, Acknowledge(p) PROVE OfflineInv'
  <2>1. PICK a \in QueueActions : Current(p, a) /\ queue' = queue \ {a} /\ GoOn(p, a)
    BY <1>4 DEF Acknowledge
  <2>2. QED BY <1>4, <2>1, PassGoesOn DEF Acknowledge
<1>5. ASSUME NEW p \in Passes, SendFails(p) PROVE OfflineInv'
  <2>1. PICK a \in QueueActions :
          /\ Current(p, a) /\ GoOn(p, a) /\ queue' = queue
          /\ unsure' = IF pass[p].at = "served" THEN unsure \union {a} ELSE unsure
    BY <1>5 DEF SendFails
  <2>2. QED BY <1>5, <2>1, PassGoesOn DEF SendFails
<1>6. CASE ClearQueue
  <2>1. \A p \in Passes, a \in QueueActions : Answering(p, a)' <=> Answering(p, a)
    BY <1>6, CurrentKept DEF ClearQueue
  <2>2. OfflineTypeOK'
    BY <1>0, <1>6, OfflineQueueAssumption
       DEF ClearQueue, OfflineInv, OfflineTypeOK, QueueActions
  <2>3. PassesSound' /\ PassesApart'
    BY <1>6 DEF ClearQueue, OfflineInv, PassesSound, PassesApart
  <2>4. NoResend'
    BY <1>6, <2>1 DEF ClearQueue, OfflineInv, NoResend
  <2>5. ServedAsQueued'
    BY <1>6 DEF ClearQueue, OfflineInv, ServedAsQueued
  <2>6. QED BY <1>6, <2>1, <2>2, <2>3, <2>4, <2>5 DEF ClearQueue, OfflineInv
<1>7. CASE FirstEvent \/ Disconnect \/ UNCHANGED offlineVars
  <2>1. /\ UNCHANGED <<queued, queue, pass, served, cleared, unsure, shared>>
        /\ connected' \in BOOLEAN /\ mounted' \in BOOLEAN
        /\ cut => cut'
        /\ cut' \in BOOLEAN
        /\ syncStatus' \in {"idle", "syncing", "error", "offline"}
        /\ syncStatus' = "syncing" => syncStatus = "syncing"
        /\ \A p \in Passes : pass[p].at # "idle" =>
             cut' \/ syncStatus' = syncStatus
    <3>1. CASE FirstEvent \/ UNCHANGED offlineVars
      BY <3>1 DEF FirstEvent, offlineVars, OfflineInv, OfflineTypeOK
    <3>2. CASE Disconnect
      BY <3>2 DEF Disconnect, Running, OfflineInv, OfflineTypeOK
    <3>3. QED BY <1>7, <3>1, <3>2
  <2>2. \A p \in Passes, a \in QueueActions : Answering(p, a)' <=> Answering(p, a)
    BY <2>1, CurrentKept
  <2>3. OfflineTypeOK'
    BY <2>1 DEF OfflineInv, OfflineTypeOK
  <2>4. PassesSound'
    BY <2>1 DEF OfflineInv, PassesSound
  <2>5. PassesApart'
    BY <2>1 DEF OfflineInv, PassesApart
  <2>6. NoResend'
    BY <2>1, <2>2 DEF OfflineInv, NoResend
  <2>7. ServedAsQueued'
    BY <2>1 DEF OfflineInv, ServedAsQueued
  <2>8. QED BY <2>1, <2>2, <2>3, <2>4, <2>5, <2>6, <2>7 DEF OfflineInv
<1>8. CASE Relaunch
  <2>1. /\ \A p \in Passes : pass'[p].at = "idle" /\ pass'[p].left = {}
        /\ pass' \in [Passes -> [at : {"idle", "sending", "served"}, left : SUBSET QueueActions]]
    BY <1>8 DEF Relaunch, NoPass
  <2>2. OfflineTypeOK'
    BY <1>8, <2>1 DEF Relaunch, OfflineInv, OfflineTypeOK
  <2>3. PassesSound' /\ PassesApart'
    BY <1>8, <2>1 DEF Relaunch, OfflineInv, PassesSound, PassesApart
  <2>4. \A a \in QueueActions : (\E p \in Passes : Answering(p, a)) => a \in unsure'
    BY <1>8 DEF Relaunch, Answering
  <2>5. NoResend'
    BY <1>8, <2>1, <2>4 DEF Relaunch, OfflineInv, NoResend
  <2>6. \A p \in Passes, a \in QueueActions : ~Answering(p, a)'
    BY <2>1 DEF Answering
  <2>7. ServedAsQueued'
    BY <1>8 DEF Relaunch, OfflineInv, ServedAsQueued
  <2>8. QED BY <2>2, <2>3, <2>5, <2>6, <2>7 DEF OfflineInv
<1>9. QED BY <1>1, <1>2, <1>3, <1>4, <1>5, <1>6, <1>7, <1>8, OfflineCases

LEMMA OfflineStart == OfflineInit => OfflineInv
<1> SUFFICES ASSUME OfflineInit PROVE OfflineInv
  OBVIOUS
<1>1. \A p \in Passes : pass[p].at = "idle" /\ pass[p].left = {}
  BY DEF OfflineInit, NoPass
<1>2. OfflineTypeOK
  <2>1. pass \in [Passes -> [at : {"idle", "sending", "served"}, left : SUBSET QueueActions]]
    BY DEF OfflineInit, NoPass
  <2>2. 0 \in 0..MaxActions /\ served \in [QueueActions -> 0..2]
    BY OfflineQueueAssumption DEF OfflineInit
  <2>3. queue \subseteq 1..queued
    BY DEF OfflineInit
  <2>4. QED BY <2>1, <2>2, <2>3 DEF OfflineInit, OfflineTypeOK
<1>3. PassesSound /\ PassesApart /\ NoResend
  BY <1>1 DEF OfflineInit, PassesSound, PassesApart, NoResend
<1>4. ServedAsQueued /\ \A p \in Passes, a \in QueueActions : ~Answering(p, a)
  BY <1>1 DEF OfflineInit, ServedAsQueued, Answering
<1>5. QED BY <1>2, <1>3, <1>4 DEF OfflineInv

\* No action the user queued is lost, and none is carried out twice but for the
\* reasons ServedAsQueued names, for any number of actions, a queue of any size
\* and any number of passes at once.
THEOREM QueueKeepsItsWord == OfflineSpec => [](OfflineTypeOK /\ ServedAsQueued)
<1>1. OfflineInv /\ [OfflineNext]_offlineVars => OfflineInv'
  BY OfflineInvStep
<1>2. OfflineInv => OfflineTypeOK /\ ServedAsQueued
  BY DEF OfflineInv
<1>3. QED BY OfflineStart, <1>1, <1>2, PTL DEF OfflineSpec

-----------------------------------------------------------------------------
(***************************************************************************)
(* The alert evaluator.                                                    *)
(***************************************************************************)

Sample == [at : 0..MaxTime, kind : {"breach", "ok", "no-data"}]

\* The breaches that end a history begin with sample i.
RunBegins(h, i) ==
  /\ i \in 1..Len(h)
  /\ \A j \in i..Len(h) : h[j].kind = "breach"
  /\ i = 1 \/ h[i - 1].kind # "breach"

\* The one time the evaluator keeps is what its samples say: when the breaches
\* at their end began, if they end in any.
SinceExplained(h, since) ==
  IF since = Never
  THEN Len(h) = 0 \/ h[Len(h)].kind # "breach"
  ELSE \E i \in 1..Len(h) : RunBegins(h, i) /\ h[i].at = since

\* The samples are in the order of time, all before the next.
InOrder(h) ==
  /\ \A j \in 1..Len(h) : h[j].at < now
  /\ \A i, j \in 1..Len(h) : i <= j => h[i].at <= h[j].at

\* VerdictFromSamples, for one rule.
VerdictExplained(h, v) ==
  v # NoVerdict =>
    /\ Len(h) # 0
    /\ v.status = IF h[Len(h)].kind # "breach" THEN h[Len(h)].kind
                  ELSE IF SustainedFor(h, v.forMs) THEN "firing" ELSE "pending"

AlertsInv ==
  /\ AlertsTypeOK
  /\ \A r \in RuleIds : /\ SinceExplained(samples[r], breachingSince[r])
                        /\ InOrder(samples[r])
                        /\ VerdictExplained(samples[r], verdict[r])

\* The steps of the evaluator.
LEMMA AlertsCases ==
  ASSUME [AlertsNext]_alertsVars
  PROVE  \/ \E sample \in [DOMAIN rules -> {<<v>> : v \in Values} \union {<<>>}] :
              Evaluate(sample)
         \/ \E ids \in SUBSET RuleIds : SetRules(ids)
         \/ \E ids \in SUBSET RuleIds : Forget(ids)
         \/ UNCHANGED alertsVars
<1>1. Reset => \E ids \in SUBSET RuleIds : Forget(ids)
  <2>1. Reset => Forget(RuleIds \cap DOMAIN rules)
    BY DEF Reset, Forget
  <2>2. QED BY <2>1
<1>2. Hydrate => \E ids \in SUBSET RuleIds : Forget(ids)
  BY DEF Hydrate
<1>3. QED BY <1>1, <1>2, Zenon DEF AlertsNext

\* A history with one sample more.
LEMMA SampleAppended ==
  ASSUME NEW h \in Seq(Sample), NEW x \in Sample, NEW g, g = Append(h, x)
  PROVE  /\ g \in Seq(Sample) /\ Len(h) \in Nat /\ Len(g) = Len(h) + 1
         /\ \A j \in 1..Len(h) : g[j] = h[j]
         /\ g[Len(g)] = x
OBVIOUS

\* The samples of a history are records, and their times numbers.
LEMMA SampleFields ==
  ASSUME NEW h \in Seq(Sample), NEW j \in 1..Len(h)
  PROVE  /\ h[j] \in Sample /\ h[j].at \in 0..MaxTime /\ h[j].at \in Nat
         /\ h[j].kind \in {"breach", "ok", "no-data"}
<1>1. h[j] \in Sample
  OBVIOUS
<1>2. QED BY <1>1, AlertsAssumption DEF Sample

\* How long the breaches that end a history have lasted is told by where they
\* begin: no longer run of breaches ends there, and time does not go back.
LEMMA FinalRun ==
  ASSUME NEW h \in Seq(Sample), NEW i \in 1..Len(h), RunBegins(h, i), NEW d \in Nat,
         \A j, k \in 1..Len(h) : j <= k => h[j].at <= h[k].at
  PROVE  SustainedFor(h, d) <=> h[Len(h)].at - h[i].at >= d
<1>1. Len(h) \in Nat /\ i \in Nat /\ Len(h) \in 1..Len(h)
  OBVIOUS
<1>2. \A j \in 1..Len(h) : h[j].at \in Nat
  BY SampleFields
<1>3. ASSUME h[Len(h)].at - h[i].at >= d PROVE SustainedFor(h, d)
  BY <1>3 DEF SustainedFor, RunBegins
<1>4. ASSUME SustainedFor(h, d) PROVE h[Len(h)].at - h[i].at >= d
  <2>1. PICK k \in 1..Len(h) : /\ \A j \in k..Len(h) : h[j].kind = "breach"
                               /\ h[Len(h)].at - h[k].at >= d
    BY <1>4 DEF SustainedFor
  <2>2. i <= k
    <3>1. SUFFICES ASSUME k < i PROVE FALSE
      BY <1>1
    <3>2. i - 1 \in k..Len(h) /\ i # 1
      BY <1>1, <3>1
    <3>3. QED BY <2>1, <3>2 DEF RunBegins
  <2>3. h[i].at <= h[k].at
    BY <2>2
  <2>4. QED BY <1>1, <1>2, <2>1, <2>3
<1>5. QED BY <1>3, <1>4

\* A rule that is evaluated: its time and its verdict go with its new sample.
LEMMA RuleEvaluated ==
  ASSUME AlertsInv, NEW r \in RuleIds, NEW kind \in {"breach", "ok", "no-data"},
         NEW d, d.forMs \in Nat, now \in 0..MaxTime, now' \in Nat, now' > now,
         samples'[r] = Append(samples[r], [at |-> now, kind |-> kind]),
         breachingSince'[r] = Since(r, kind),
         verdict'[r] = [status |-> StatusOf(r, kind, d), forMs |-> d.forMs]
  PROVE  /\ SinceExplained(samples[r], breachingSince[r])'
         /\ InOrder(samples[r])'
         /\ VerdictExplained(samples[r], verdict[r])'
         /\ samples'[r] \in Seq(Sample)
         /\ breachingSince'[r] \in {Never} \union 0..MaxTime
         /\ verdict'[r] \in [status : Statuses, forMs : Nat]
<1>1. PICK h \in Seq(Sample) : h = samples[r]
  BY DEF AlertsInv, AlertsTypeOK, Sample
<1>2. PICK x \in Sample : x = [at |-> now, kind |-> kind]
  BY DEF Sample
<1>3. PICK g \in Seq(Sample) : g = samples'[r] /\ g = Append(h, x)
  BY <1>1, <1>2, SampleAppended
<1>4. PICK n \in Nat : n = Len(h)
  BY <1>1
<1>5. /\ Len(g) = n + 1 /\ g[n + 1] = x /\ x.at = now /\ x.kind = kind
      /\ \A j \in 1..n : g[j] = h[j]
  BY <1>2, <1>3, <1>4, SampleAppended
<1>6. now \in Nat /\ breachingSince[r] \in {Never} \union 0..MaxTime
  BY AlertsAssumption DEF AlertsInv, AlertsTypeOK
<1>7. SinceExplained(h, breachingSince[r]) /\ InOrder(h)
  BY <1>1 DEF AlertsInv
<1>8. \A j \in 1..n : h[j].at \in Nat /\ h[j].at < now
  BY <1>4, <1>7, SampleFields DEF InOrder
<1>9. /\ \A j \in 1..Len(g) : g[j].at < now'
      /\ \A i, j \in 1..Len(g) : i <= j => g[i].at <= g[j].at
  <2>1. \A j \in 1..n+1 : j \in 1..n \/ j = n + 1
    OBVIOUS
  <2>2. \A j \in 1..n+1 : g[j].at \in Nat /\ g[j].at <= now
    BY <1>5, <1>6, <1>8, <2>1
  <2>3. \A i, j \in 1..n : i <= j => h[i].at <= h[j].at
    BY <1>4, <1>7 DEF InOrder
  <2>4. ASSUME NEW i \in 1..n+1, NEW j \in 1..n+1, i <= j PROVE g[i].at <= g[j].at
    <3>1. CASE j = n + 1
      BY <1>5, <2>2, <3>1
    <3>2. CASE j \in 1..n
      <4>1. i \in 1..n
        BY <2>4, <3>2
      <4>2. QED BY <1>5, <2>3, <2>4, <3>2, <4>1
    <3>3. QED BY <2>1, <3>1, <3>2
  <2>5. QED BY <1>5, <1>6, <2>2, <2>4
<1>10. InOrder(samples[r])'
  BY <1>3, <1>9 DEF InOrder
<1>11. CASE kind # "breach"
  <2>1. breachingSince'[r] = Never /\ verdict'[r] = [status |-> kind, forMs |-> d.forMs]
    BY <1>11 DEF Since, StatusOf
  <2>2. verdict'[r].status = kind /\ verdict'[r] \in [status : Statuses, forMs : Nat]
    BY <1>11, <2>1 DEF Statuses
  <2>3. SinceExplained(g, breachingSince'[r])
    BY <1>5, <1>11, <2>1 DEF SinceExplained
  <2>4. VerdictExplained(g, verdict'[r])
    BY <1>5, <1>11, <2>2 DEF VerdictExplained
  <2>5. QED BY <1>3, <1>10, <2>1, <2>2, <2>3, <2>4
<1>12. CASE kind = "breach"
  <2>1. PICK from \in 0..MaxTime : from = Since(r, kind)
    BY <1>6, <1>12 DEF Since
  <2>2. from \in Nat /\ from # Never
    BY <2>1, AlertsAssumption DEF Never
  <2>3. \E i \in 1..Len(g) : RunBegins(g, i) /\ g[i].at = from
    <3>1. CASE breachingSince[r] = Never
      <4>1. from = now
        BY <1>12, <2>1, <3>1 DEF Since
      <4>2. n = 0 \/ g[n].kind # "breach"
        BY <1>4, <1>5, <1>7, <3>1 DEF SinceExplained
      <4>3. RunBegins(g, n + 1)
        BY <1>5, <1>12, <4>2 DEF RunBegins
      <4>4. QED BY <1>5, <4>1, <4>3
    <3>2. CASE breachingSince[r] # Never
      <4>1. PICK i \in 1..n : RunBegins(h, i) /\ h[i].at = breachingSince[r]
        BY <1>4, <1>7, <3>2 DEF SinceExplained
      <4>2. from = breachingSince[r]
        BY <1>12, <2>1, <3>2 DEF Since
      <4>3. \A j \in i..n+1 : g[j].kind = "breach"
        <5>1. \A j \in i..n+1 : j = n + 1 \/ (j \in i..n /\ j \in 1..n)
          OBVIOUS
        <5>2. QED BY <1>4, <1>5, <1>12, <4>1, <5>1 DEF RunBegins
      <4>4. i = 1 \/ g[i - 1].kind # "breach"
        <5>1. i # 1 => i - 1 \in 1..n
          OBVIOUS
        <5>2. QED BY <1>5, <4>1, <5>1 DEF RunBegins
      <4>5. RunBegins(g, i) /\ i \in 1..Len(g)
        BY <1>5, <4>3, <4>4 DEF RunBegins
      <4>6. QED BY <1>5, <4>1, <4>2, <4>5
    <3>3. QED BY <3>1, <3>2
  <2>4. SustainedFor(g, d.forMs) <=> now - from >= d.forMs
    <3>1. PICK i \in 1..Len(g) : RunBegins(g, i) /\ g[i].at = from
      BY <2>3
    <3>2. SustainedFor(g, d.forMs) <=> g[Len(g)].at - g[i].at >= d.forMs
      BY <1>9, <3>1, FinalRun
    <3>3. QED BY <1>5, <3>1, <3>2
  <2>5. PICK s \in {"firing", "pending"} :
          s = IF SustainedFor(g, d.forMs) THEN "firing" ELSE "pending"
    OBVIOUS
  <2>6. verdict'[r] = [status |-> s, forMs |-> d.forMs]
    BY <1>12, <2>1, <2>4, <2>5 DEF StatusOf
  <2>7. /\ verdict'[r].status = s /\ verdict'[r].forMs = d.forMs
        /\ verdict'[r] \in [status : Statuses, forMs : Nat]
    BY <2>5, <2>6 DEF Statuses
  <2>8. VerdictExplained(g, verdict'[r])
    BY <1>5, <1>12, <2>5, <2>7 DEF VerdictExplained
  <2>9. SinceExplained(g, from)
    BY <2>2, <2>3 DEF SinceExplained
  <2>10. QED BY <1>3, <1>10, <2>1, <2>7, <2>8, <2>9
<1>13. QED BY <1>11, <1>12

\* What the invariant says of one rule.
RuleExplained(r) ==
  /\ SinceExplained(samples[r], breachingSince[r])
  /\ InOrder(samples[r])
  /\ VerdictExplained(samples[r], verdict[r])
  /\ samples[r] \in Seq(Sample)
  /\ breachingSince[r] \in {Never} \union 0..MaxTime
  /\ verdict[r] \in [status : Statuses, forMs : Nat]

\* A rule that is passed over, or forgotten with its history.
LEMMA RuleKept ==
  ASSUME AlertsInv, NEW r \in RuleIds, now' \in Nat, now' >= now, now \in Nat,
         \/ UNCHANGED <<samples[r], breachingSince[r]>>
         \/ samples'[r] = <<>> /\ breachingSince'[r] = Never,
         verdict'[r] = NoVerdict \/ UNCHANGED <<samples[r], verdict[r]>>
  PROVE  RuleExplained(r)'
<1>1. PICK h \in Seq(Sample) : h = samples[r]
  BY DEF AlertsInv, AlertsTypeOK, Sample
<1>2. /\ samples'[r] \in Seq(Sample)
      /\ breachingSince'[r] \in {Never} \union 0..MaxTime
      /\ verdict'[r] \in [status : Statuses, forMs : Nat]
  <2>1. NoVerdict \in [status : Statuses, forMs : Nat]
    BY DEF NoVerdict, Statuses
  <2>2. verdict[r] \in [status : Statuses, forMs : Nat]
        /\ breachingSince[r] \in {Never} \union 0..MaxTime
    BY DEF AlertsInv, AlertsTypeOK
  <2>3. samples'[r] \in Seq(Sample)
    <3>1. samples'[r] = h \/ samples'[r] = <<>>
      BY <1>1
    <3>2. <<>> \in Seq(Sample)
      OBVIOUS
    <3>3. QED BY <3>1, <3>2
  <2>4. breachingSince'[r] \in {Never} \union 0..MaxTime
    BY <2>2
  <2>5. verdict'[r] \in [status : Statuses, forMs : Nat]
    BY <2>1, <2>2
  <2>6. QED BY <2>3, <2>4, <2>5
<1>3. InOrder(samples[r])'
  <2>1. CASE samples'[r] = samples[r]
    <3>1. \A j \in 1..Len(h) : h[j].at \in Nat
      BY SampleFields
    <3>2. InOrder(h)
      BY <1>1 DEF AlertsInv
    <3>3. \A j \in 1..Len(h) : h[j].at < now'
      BY <3>1, <3>2 DEF InOrder
    <3>4. QED BY <1>1, <2>1, <3>2, <3>3 DEF InOrder
  <2>2. CASE samples'[r] = <<>>
    BY <2>2 DEF InOrder
  <2>3. QED BY <2>1, <2>2
<1>4. SinceExplained(samples[r], breachingSince[r])'
  <2>1. CASE UNCHANGED <<samples[r], breachingSince[r]>>
    BY <2>1 DEF AlertsInv
  <2>2. CASE samples'[r] = <<>> /\ breachingSince'[r] = Never
    BY <2>2 DEF SinceExplained
  <2>3. QED BY <2>1, <2>2
<1>5. VerdictExplained(samples[r], verdict[r])'
  <2>1. CASE verdict'[r] = NoVerdict
    BY <2>1 DEF VerdictExplained
  <2>2. CASE UNCHANGED <<samples[r], verdict[r]>>
    BY <2>2 DEF AlertsInv, VerdictExplained, SustainedFor
  <2>3. QED BY <2>1, <2>2
<1>6. QED BY <1>2, <1>3, <1>4, <1>5 DEF RuleExplained

LEMMA RulesTogether ==
  ASSUME now' \in 0..MaxTime, \E ids \in SUBSET RuleIds : rules' \in [ids -> Definitions],
         breachingSince' = [r \in RuleIds |-> breachingSince'[r]],
         verdict' = [r \in RuleIds |-> verdict'[r]],
         samples' = [r \in RuleIds |-> samples'[r]],
         \A r \in RuleIds : RuleExplained(r)'
  PROVE  AlertsInv'
<1>1. breachingSince' \in [RuleIds -> {Never} \union 0..MaxTime]
  BY DEF RuleExplained
<1>2. verdict' \in [RuleIds -> [status : Statuses, forMs : Nat]]
  BY DEF RuleExplained
<1>3. samples' \in [RuleIds -> Seq(Sample)]
  BY DEF RuleExplained
<1>4. AlertsTypeOK'
  BY <1>1, <1>2, <1>3 DEF AlertsTypeOK, Sample
<1>5. QED BY <1>4 DEF AlertsInv, RuleExplained

LEMMA AlertsInvStep ==
  ASSUME AlertsInv, [AlertsNext]_alertsVars
  PROVE  AlertsInv'
<1>1. now \in 0..MaxTime /\ now \in Nat /\ MaxTime \in Nat
  BY AlertsAssumption DEF AlertsInv, AlertsTypeOK
<1>2. /\ breachingSince = [r \in RuleIds |-> breachingSince[r]]
      /\ verdict = [r \in RuleIds |-> verdict[r]]
      /\ samples = [r \in RuleIds |-> samples[r]]
  BY DEF AlertsInv, AlertsTypeOK
<1>3. PICK ids \in SUBSET RuleIds : rules \in [ids -> Definitions]
  BY DEF AlertsInv, AlertsTypeOK
<1>4. ASSUME NEW sample \in [DOMAIN rules -> {<<v>> : v \in Values} \union {<<>>}],
             Evaluate(sample)
      PROVE  AlertsInv'
  <2>1. DOMAIN rules = ids /\ \A r \in ids : rules[r].forMs \in Nat
    BY <1>3, AlertsAssumption
  <2>2. now' \in 0..MaxTime /\ now' \in Nat /\ now' > now /\ rules' = rules
    BY <1>1, <1>4 DEF Evaluate
  <2>3. /\ breachingSince' = [r \in RuleIds |-> breachingSince'[r]]
        /\ verdict' = [r \in RuleIds |-> verdict'[r]]
        /\ samples' = [r \in RuleIds |-> samples'[r]]
    BY <1>4, Zenon DEF Evaluate
  <2>4. ASSUME NEW r \in RuleIds PROVE RuleExplained(r)'
    <3>1. CASE r \in ids /\ rules[r].enabled
      <4>1. PICK kind \in {"breach", "ok", "no-data"} : kind = Seen(sample[r], rules[r])
        BY DEF Seen
      <4>2. /\ samples'[r] = Append(samples[r], [at |-> now, kind |-> kind])
            /\ breachingSince'[r] = Since(r, kind)
            /\ verdict'[r] = [status |-> StatusOf(r, kind, rules[r]), forMs |-> rules[r].forMs]
        BY <1>4, <2>1, <3>1, <4>1 DEF Evaluate
      <4>3. PICK d : d = rules[r]
        OBVIOUS
      <4>4. QED BY <1>1, <2>1, <2>2, <3>1, <4>2, <4>3, RuleEvaluated DEF RuleExplained
    <3>2. CASE ~(r \in ids /\ rules[r].enabled)
      <4>1. /\ UNCHANGED <<samples[r], breachingSince[r]>>
            /\ verdict'[r] = NoVerdict \/ verdict'[r] = verdict[r]
        BY <1>4, <2>1, <3>2 DEF Evaluate
      <4>2. QED BY <1>1, <2>2, <4>1, RuleKept
    <3>3. QED BY <3>1, <3>2
  <2>5. QED BY <1>3, <2>2, <2>3, <2>4, RulesTogether
<1>5. ASSUME NEW S \in SUBSET RuleIds, SetRules(S) PROVE AlertsInv'
  <2>1. UNCHANGED <<now, breachingSince, verdict, samples>> /\ rules' \in [S -> Definitions]
    BY <1>5 DEF SetRules
  <2>2. \A r \in RuleIds : RuleExplained(r)'
    BY <1>1, <2>1, RuleKept
  <2>3. QED BY <1>1, <1>2, <2>1, <2>2, RulesTogether
<1>6. ASSUME NEW S \in SUBSET RuleIds, Forget(S) PROVE AlertsInv'
  <2>1. /\ breachingSince' = [r \in RuleIds |-> breachingSince'[r]]
        /\ verdict' = [r \in RuleIds |-> verdict'[r]]
        /\ samples' = [r \in RuleIds |-> samples'[r]]
        /\ UNCHANGED <<now, rules>>
    BY <1>6, Zenon DEF Forget
  <2>2. ASSUME NEW r \in RuleIds PROVE RuleExplained(r)'
    <3>1. CASE r \in S
      <4>1. samples'[r] = <<>> /\ breachingSince'[r] = Never /\ verdict'[r] = NoVerdict
        BY <1>6, <3>1 DEF Forget
      <4>2. QED BY <1>1, <2>1, <4>1, RuleKept
    <3>2. CASE r \notin S
      <4>1. UNCHANGED <<samples[r], breachingSince[r], verdict[r]>>
        BY <1>6, <3>2 DEF Forget
      <4>2. QED BY <1>1, <2>1, <4>1, RuleKept
    <3>3. QED BY <3>1, <3>2
  <2>3. QED BY <1>1, <1>3, <2>1, <2>2, RulesTogether
<1>7. CASE UNCHANGED alertsVars
  <2>1. UNCHANGED <<now, rules, breachingSince, verdict, samples>>
    BY <1>7 DEF alertsVars
  <2>2. \A r \in RuleIds : RuleExplained(r)'
    BY <1>1, <2>1, RuleKept
  <2>3. QED BY <1>1, <1>2, <1>3, <2>1, <2>2, RulesTogether
<1>8. QED BY <1>4, <1>5, <1>6, <1>7, AlertsCases

LEMMA AlertsStart == AlertsInit => AlertsInv
<1> SUFFICES ASSUME AlertsInit PROVE AlertsInv
  OBVIOUS
<1>1. 0 \in 0..MaxTime /\ <<>> \in Seq(Sample) /\ Len(<<>>) = 0
  BY AlertsAssumption
<1>2. NoVerdict \in [status : Statuses, forMs : Nat]
  BY DEF NoVerdict, Statuses
<1>3. AlertsTypeOK
  BY <1>1, <1>2 DEF AlertsInit, AlertsTypeOK, Sample
<1>4. ASSUME NEW r \in RuleIds
      PROVE  /\ SinceExplained(samples[r], breachingSince[r])
             /\ InOrder(samples[r])
             /\ VerdictExplained(samples[r], verdict[r])
  BY <1>1 DEF AlertsInit, SinceExplained, InOrder, VerdictExplained
<1>5. QED BY <1>3, <1>4 DEF AlertsInv

\* The one time the evaluator keeps per rule is enough: every verdict is what the
\* samples since the rule was last forgotten imply, however rules are redefined,
\* disabled, removed and brought back, for any rules, metrics and times.
THEOREM VerdictsAreBorne == AlertsSpec => [](AlertsTypeOK /\ VerdictFromSamples)
<1>1. AlertsInv /\ [AlertsNext]_alertsVars => AlertsInv'
  BY AlertsInvStep
<1>2. AlertsInv => AlertsTypeOK /\ VerdictFromSamples
  <2>1. SUFFICES ASSUME AlertsInv, NEW r \in RuleIds, verdict[r] # NoVerdict
                 PROVE  LET h == samples[r] IN
                          /\ h # <<>>
                          /\ verdict[r].status =
                               IF h[Len(h)].kind # "breach" THEN h[Len(h)].kind
                               ELSE IF SustainedFor(h, verdict[r].forMs) THEN "firing"
                               ELSE "pending"
    BY DEF AlertsInv, VerdictFromSamples
  <2>2. VerdictExplained(samples[r], verdict[r])
    BY <2>1 DEF AlertsInv
  <2>3. Len(samples[r]) # 0 => samples[r] # <<>>
    OBVIOUS
  <2>4. QED BY <2>1, <2>2, <2>3 DEF VerdictExplained
<1>3. QED BY AlertsStart, <1>1, <1>2, PTL DEF AlertsSpec

-----------------------------------------------------------------------------
(***************************************************************************)
(* The services together.                                                  *)
(***************************************************************************)

\* A step of the platform is a step of its subject and leaves the rest alone.
LEMMA PlatformSteps ==
  ASSUME [Next]_vars
  PROVE  /\ [WebhooksNext]_webhooksVars /\ [BreakerNext]_breakerVars
         /\ [SessionsNext]_sessionsVars /\ [OfflineNext]_offlineVars
         /\ [JobsNext]_jobsVars /\ [CacheNext]_cacheVars
         /\ [AlertsNext]_alertsVars /\ [IdempotencyNext]_idempotencyVars
<1>1. CASE UNCHANGED vars
  BY <1>1, Zenon DEF vars
<1>2. CASE Next
  BY <1>2, Zenon DEF Next
<1>3. QED BY <1>1, <1>2

\* The platform implements the specification of each of its services: none
\* takes a step because of another that it could not take by itself.
THEOREM PlatformComposes ==
  Spec => /\ WebhooksSpec /\ BreakerSpec /\ SessionsSpec /\ OfflineSpec
          /\ JobsSpec /\ CacheSpec /\ AlertsSpec /\ IdempotencySpec
<1>1. Init => /\ WebhooksInit /\ BreakerInit /\ SessionsInit /\ OfflineInit
              /\ JobsInit /\ CacheInit /\ AlertsInit /\ IdempotencyInit
  BY Zenon DEF Init
<1>2. [Next]_vars => /\ [WebhooksNext]_webhooksVars /\ [BreakerNext]_breakerVars
                     /\ [SessionsNext]_sessionsVars /\ [OfflineNext]_offlineVars
                     /\ [JobsNext]_jobsVars /\ [CacheNext]_cacheVars
                     /\ [AlertsNext]_alertsVars /\ [IdempotencyNext]_idempotencyVars
  BY PlatformSteps
<1>3. QED
  BY <1>1, <1>2, PTL
     DEF Spec, WebhooksSpec, BreakerSpec, SessionsSpec, OfflineSpec, JobsSpec, CacheSpec,
         AlertsSpec, IdempotencySpec

\* Every service keeps its shape, whichever of them moves.
THEOREM PlatformTypeCorrect == Spec => []PlatformTypeOK
<1>1. /\ WebhooksTypeOK /\ BreakerTypeOK /\ SessionsTypeOK /\ OfflineTypeOK
      /\ JobsTypeOK /\ CacheTypeOK /\ AlertsTypeOK /\ IdempotencyTypeOK
      => PlatformTypeOK
  BY Zenon DEF PlatformTypeOK
<1>2. QED
  BY <1>1, PlatformComposes, WebhooksTypeCorrect, BreakerTypeCorrect, SessionsTypeCorrect,
     QueueKeepsItsWord, JobsTypeCorrect, StaleResponses, VerdictsAreBorne,
     RetriesAreAnswered, PTL

\* Every safety property proved of a service by itself is one of the platform.
THEOREM PlatformSafe ==
  Spec => /\ [](FinalLogIsTrue /\ ResetEndsSessions /\ ServedAsQueued /\ FilledByAcceptance)
          /\ [](StaleExplained /\ VerdictFromSamples /\ CarriedOutOnce)
          /\ OpenDrains
BY PlatformComposes, LogsAreTrue, ResetsEndSessions, QueueKeepsItsWord, AcceptancesFill,
   StaleResponses, VerdictsAreBorne, RetriesAreAnswered, OpenBreakerDrains, PTL
=============================================================================
