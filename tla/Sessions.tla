------------------------------ MODULE Sessions ------------------------------
(***************************************************************************)
(* The sessions of one account of the API: refresh tokens handed out at    *)
(* login, exchanged one for the next, revoked by logout and by a password  *)
(* reset (services/auth-session.service.ts, auth-recovery.service.ts,      *)
(* user.service.ts, the purge job).  None of these handlers runs in a      *)
(* transaction: an action is what a request does up to and including one   *)
(* database call that matters to another, and requests interleave.         *)
(*                                                                         *)
(* A password is its version.  Requests present the password or the token  *)
(* they need; one that does not is refused and changes nothing.            *)
(***************************************************************************)
EXTENDS Naturals

CONSTANTS
  Requests,       \* requests that may be in flight at once
  MaxTokens,      \* bound: refresh tokens ever created
  MaxPassword     \* bound: password changes

ASSUME SessionsAssumption == MaxTokens \in Nat /\ MaxPassword \in Nat

Tokens == 1..MaxTokens

VARIABLES
  token,       \* refreshToken rows: "none", "live" or "dead" (revoked or expired)
  used,        \* tokens created so far
  password,    \* user.password
  resetLink,   \* user.resetToken is set and has not expired
  request,     \* what each request in flight has read
  proof,       \* history: the password version a token's login verified
  lastReset,   \* history: the password version the last reset wrote
  stray        \* history: sessions of a request in flight during a reset

sessionsVars == <<token, used, password, resetLink, request, proof, lastReset, stray>>
account == <<password, resetLink, lastReset>>

NoRequest == [op |-> "none", tok |-> 0, pw |-> 0, overlaps |-> FALSE]

SessionsInit ==
  /\ token = [t \in Tokens |-> "none"]
  /\ used = 0
  /\ password = 0
  /\ resetLink = FALSE
  /\ request = [r \in Requests |-> NoRequest]
  /\ proof = [t \in Tokens |-> 0]
  /\ lastReset = 0
  /\ stray = {}

InFlight(r, op) == request[r].op = op
Resetting == \E r \in Requests : InFlight(r, "write reset")
Ends(r) == request' = [request EXCEPT ![r] = NoRequest]
Goes(r, op) == request' = [request EXCEPT ![r].op = op]
Live == {t \in Tokens : token[t] = "live"}
AllRevoked == [t \in Tokens |-> IF token[t] = "live" THEN "dead" ELSE token[t]]

\* db.refreshToken.create, for a session that descends from a login with pw.
CreateToken(pw, strayed) ==
  /\ used < MaxTokens
  /\ used' = used + 1
  /\ token' = [token EXCEPT ![used + 1] = "live"]
  /\ proof' = [proof EXCEPT ![used + 1] = pw]
  /\ stray' = IF strayed THEN stray \union {used + 1} ELSE stray

-----------------------------------------------------------------------------
\* loginUser: findByEmail and the check of the password, then the row.
Login(r) ==
  /\ InFlight(r, "none")
  /\ request' = [request EXCEPT ![r] = [op |-> "create token", tok |-> 0,
                                        pw |-> password, overlaps |-> Resetting]]
  /\ UNCHANGED <<token, used, account, proof, stray>>

\* The end of loginUser and of rotateRefreshToken.
Hand(r) ==
  /\ InFlight(r, "create token")
  /\ CreateToken(request[r].pw, request[r].overlaps)
  /\ Ends(r)
  /\ UNCHANGED account

\* rotateRefreshToken: the token is looked up, revoked, and only after another
\* look-up, of its user, replaced (or not, if the user is gone: BreakOff).
Rotate(r) ==
  /\ InFlight(r, "none")
  /\ \E t \in Live :
       request' = [request EXCEPT ![r] =
         [op |-> "revoke old", tok |-> t, pw |-> proof[t],
          overlaps |-> t \in stray \/ Resetting]]
  /\ UNCHANGED <<token, used, account, proof, stray>>

\* The update fails if the purge has deleted the row in the meantime.
RevokeOld(r) ==
  /\ InFlight(r, "revoke old")
  /\ IF token[request[r].tok] = "none" THEN Ends(r) /\ UNCHANGED token
     ELSE /\ token' = [token EXCEPT ![request[r].tok] = "dead"]
          /\ Goes(r, "create token")
  /\ UNCHANGED <<used, account, proof, stray>>

\* revokeAllRefreshTokens.
Logout ==
  /\ token' = AllRevoked
  /\ UNCHANGED <<used, account, request, proof, stray>>

-----------------------------------------------------------------------------
RequestPasswordReset ==
  /\ resetLink' = TRUE
  /\ UNCHANGED <<token, used, password, request, proof, lastReset, stray>>

\* resetPassword: the link is looked up; all tokens are revoked; the password is
\* written and the link cleared.
ResetPassword(r) ==
  /\ InFlight(r, "none") /\ resetLink
  /\ Goes(r, "revoke all")
  /\ UNCHANGED <<token, used, account, proof, stray>>

\* mutant: the reset writes the password only
RevokeAllForgotten(r) ==
  /\ InFlight(r, "revoke all")
  /\ request' = [q \in Requests |->
       IF q = r THEN [request[r] EXCEPT !.op = "write reset"]
       ELSE [request[q] EXCEPT !.overlaps = request[q].op # "none"]]
  /\ UNCHANGED <<token, used, account, proof, stray>>

\* Every other request in flight now overlaps the reset.
RevokeAll(r) ==
  /\ InFlight(r, "revoke all")
  /\ token' = AllRevoked
  /\ request' = [q \in Requests |->
       IF q = r THEN [request[r] EXCEPT !.op = "write reset"]
       ELSE [request[q] EXCEPT !.overlaps = request[q].op # "none"]]
  /\ UNCHANGED <<used, account, proof, stray>>

WriteReset(r) ==
  /\ InFlight(r, "write reset") /\ password < MaxPassword
  /\ password' = password + 1
  /\ lastReset' = password + 1
  /\ resetLink' = FALSE
  /\ Ends(r)
  /\ UNCHANGED <<token, used, proof, stray>>

\* changePassword checks the current password and writes the new one; sessions
\* stay.
ChangePassword(r) ==
  /\ InFlight(r, "none")
  /\ Goes(r, "write password")
  /\ UNCHANGED <<token, used, account, proof, stray>>

WritePassword(r) ==
  /\ InFlight(r, "write password") /\ password < MaxPassword
  /\ password' = password + 1
  /\ Ends(r)
  /\ UNCHANGED <<token, used, resetLink, proof, lastReset, stray>>

-----------------------------------------------------------------------------
\* A token's or a reset link's time runs out; the purge job deletes what is
\* revoked or expired.
TokenExpires ==
  \/ /\ \E t \in Live : token' = [token EXCEPT ![t] = "dead"]
     /\ UNCHANGED <<used, account, request, proof, stray>>
  \/ /\ resetLink
     /\ resetLink' = FALSE
     /\ UNCHANGED <<token, used, password, request, proof, lastReset, stray>>

DeleteExpiredSessions ==
  /\ token' = [t \in Tokens |-> IF token[t] = "live" THEN "live" ELSE "none"]
  /\ token' # token
  /\ UNCHANGED <<used, account, request, proof, stray>>

\* A database call fails, or the process dies: the request goes no further.
BreakOff(r) ==
  /\ ~InFlight(r, "none")
  /\ Ends(r)
  /\ UNCHANGED <<token, used, account, proof, stray>>

SessionsNext ==
  \/ \E r \in Requests :
       \/ Login(r) \/ Hand(r) \/ Rotate(r) \/ RevokeOld(r)
       \/ ResetPassword(r) \/ RevokeAll(r) \/ WriteReset(r)
       \/ ChangePassword(r) \/ WritePassword(r) \/ BreakOff(r)
  \/ Logout \/ RequestPasswordReset
  \/ TokenExpires \/ DeleteExpiredSessions

SessionsSpec == SessionsInit /\ [][SessionsNext]_sessionsVars

-----------------------------------------------------------------------------
\* What a request remembers.
RequestRecords ==
  [op : {"none", "create token", "revoke old", "revoke all", "write reset", "write password"},
   tok : 0..MaxTokens, pw : 0..MaxPassword, overlaps : BOOLEAN]

\* The shape of the state.
SessionsTypeOK ==
  /\ token \in [Tokens -> {"none", "live", "dead"}]
  /\ used \in 0..MaxTokens
  /\ password \in 0..MaxPassword
  /\ resetLink \in BOOLEAN
  /\ request \in [Requests -> RequestRecords]
  /\ proof \in [Tokens -> 0..MaxPassword]
  /\ lastReset \in 0..MaxPassword
  /\ stray \subseteq Tokens

\* "Password reset successfully - all sessions revoked": a session that can still
\* be refreshed after a reset, and began with a password from before it, belongs
\* to a login or an exchange that was in flight during the reset, or descends
\* from one.  A session at rest never survives a reset.
ResetEndsSessions ==
  \A t \in Live : proof[t] < lastReset => t \in stray
=============================================================================
