----------------------------- MODULE Idempotency -----------------------------
(***************************************************************************)
(* The idempotency middleware (middleware/idempotency.ts) for one key of   *)
(* one caller: requests that carry the key, the row that stores the answer *)
(* to the first, and the job that purges rows (services/purge.service.ts). *)
(*                                                                         *)
(* The row of an anonymous caller is written under a null user and looked  *)
(* up under '': it is never found.  A stored answer is sent through the    *)
(* same wrapped res.json that stores answers, which renews its expiry.     *)
(***************************************************************************)
EXTENDS Naturals

CONSTANTS Posts   \* requests with the key, each retry one of its own

VARIABLES
  anonymous,  \* the route has no authenticated user
  answer,     \* the caller's row: "none", "live" or "lapsed"
  post,       \* each request: "new", "handling", "storing" or "done"
  carriedOut, \* the requests whose handler succeeded
  overlapped, \* history: a request missed before another had stored its answer
  forgotten   \* history: a row lapsed, or a look-up or a write failed

idempotencyVars == <<anonymous, answer, post, carriedOut, overlapped, forgotten>>

IdempotencyInit ==
  /\ anonymous \in BOOLEAN
  /\ answer = "none"
  /\ post = [p \in Posts |-> "new"]
  /\ carriedOut = {}
  /\ overlapped = FALSE
  /\ forgotten = FALSE

Moving(p, from, to) == post[p] = from /\ post' = [post EXCEPT ![p] = to]

-----------------------------------------------------------------------------
\* findUnique finds a row that has not expired: the handler is not called.
Hit(p) ==
  /\ ~anonymous /\ answer = "live"
  /\ Moving(p, "new", "storing")
  /\ UNCHANGED <<anonymous, answer, carriedOut, overlapped, forgotten>>

Unanswered == {q \in Posts : post[q] = "handling" \/ (post[q] = "storing" /\ q \in carriedOut)}

MissRow(p) ==
  /\ anonymous \/ answer # "live"
  /\ Moving(p, "new", "handling")
  /\ overlapped' = (overlapped \/ Unanswered # {})
  /\ UNCHANGED <<anonymous, answer, carriedOut, forgotten>>

\* A failing look-up lets the request through.
LookUpFails(p) ==
  /\ Moving(p, "new", "handling")
  /\ forgotten' = TRUE
  /\ UNCHANGED <<anonymous, answer, carriedOut, overlapped>>

\* The handler answers: what is no 2xx is not stored.
HandlerSucceeds(p) ==
  /\ Moving(p, "handling", "storing")
  /\ carriedOut' = carriedOut \union {p}
  /\ UNCHANGED <<anonymous, answer, overlapped, forgotten>>

HandlerFails(p) ==
  /\ Moving(p, "handling", "done")
  /\ UNCHANGED <<anonymous, answer, carriedOut, overlapped, forgotten>>

\* mutant: every row is written under a null user
StoreAnswerUnderNull(p) ==
  /\ Moving(p, "storing", "done")
  /\ UNCHANGED <<anonymous, answer, carriedOut, overlapped, forgotten>>

\* The upsert, which nobody waits for; an error is swallowed.
StoreAnswer(p) ==
  /\ Moving(p, "storing", "done")
  /\ answer' = IF anonymous THEN answer ELSE "live"
  /\ UNCHANGED <<anonymous, carriedOut, overlapped, forgotten>>

StoreFails(p) ==
  /\ Moving(p, "storing", "done")
  /\ forgotten' = TRUE
  /\ UNCHANGED <<anonymous, answer, carriedOut, overlapped>>

Lapses ==
  /\ answer = "live"
  /\ answer' = "lapsed" /\ forgotten' = TRUE
  /\ UNCHANGED <<anonymous, post, carriedOut, overlapped>>

DeleteExpiredIdempotencyKeys ==
  /\ answer = "lapsed"
  /\ answer' = "none"
  /\ UNCHANGED <<anonymous, post, carriedOut, overlapped, forgotten>>

IdempotencyNext ==
  \/ \E p \in Posts : \/ Hit(p) \/ MissRow(p) \/ LookUpFails(p)
                      \/ HandlerSucceeds(p) \/ HandlerFails(p)
                      \/ StoreAnswer(p) \/ StoreFails(p)
  \/ Lapses \/ DeleteExpiredIdempotencyKeys

IdempotencySpec == IdempotencyInit /\ [][IdempotencyNext]_idempotencyVars

-----------------------------------------------------------------------------
\* The shape of the state.
IdempotencyTypeOK ==
  /\ anonymous \in BOOLEAN
  /\ answer \in {"none", "live", "lapsed"}
  /\ post \in [Posts -> {"new", "handling", "storing", "done"}]
  /\ carriedOut \subseteq Posts
  /\ overlapped \in BOOLEAN /\ forgotten \in BOOLEAN

\* "On retry: returns the cached response": an authenticated caller's key is
\* carried out twice only if a retry came before the first answer was stored, or
\* the row was lost.  For an anonymous caller (register) nothing prevents it.
CarriedOutOnce ==
  \A p, q \in carriedOut : p # q => anonymous \/ overlapped \/ forgotten
=============================================================================
