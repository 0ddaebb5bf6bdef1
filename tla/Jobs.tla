-------------------------------- MODULE Jobs --------------------------------
(***************************************************************************)
(* One job of the API's job board, the applications to it, and the sweep   *)
(* for expired jobs that runs before every listing (services/              *)
(* job.service.ts over repositories/job.repository.ts).  No handler uses a *)
(* transaction.  A look-up that only establishes that a row exists and     *)
(* whose it is belongs to the step of the write it guards; one that reads  *)
(* a status is a step of its own, and other requests come between.         *)
(* DELETE /workers only marks a worker; what deletes its row is an         *)
(* administrator's bulk deletion or the purge, and the schema's cascade    *)
(* takes its applications along.                                           *)
(*                                                                         *)
(* Jobs meet only where a request names one job and an application to      *)
(* another, which nothing compares: each job sees its half of that.        *)
(***************************************************************************)

CONSTANTS
  Workers,
  JobRequests    \* requests between a look-up and its write

VARIABLES
  job,           \* Job.status, "none" before creation, "deleted" after
  lapsed,        \* the job's expiresAt has passed
  application,   \* JobApplication.status of each worker, or "none"
  gone,          \* the workers whose rows have been deleted
  handler,       \* what each request has read and is about to write
  parted         \* history: something parted the job from its applications

jobsVars == <<job, lapsed, application, gone, handler, parted>>

JobStatuses == {"open", "closed", "expired", "filled"}
Exists == job \in JobStatuses
Accepted == \E w \in Workers : application[w] = "accepted"

\* saw: the job's status when the request read it.
NoHandler == [op |-> "none", worker |-> {}, saw |-> "none"]

ReadsStatus(r, op, ws) ==
  /\ handler[r] = NoHandler
  /\ handler' = [handler EXCEPT ![r] = [op |-> op, worker |-> ws, saw |-> job]]

WritesAfter(r, op) ==
  /\ handler[r].op = op
  /\ handler' = [handler EXCEPT ![r] = NoHandler]

\* A filled job is overwritten by a request that had read another status.
WritesOverFilled(r) == job = "filled" /\ handler[r].saw # "filled"

JobsInit ==
  /\ job = "none"
  /\ lapsed = FALSE
  /\ application = [w \in Workers |-> "none"]
  /\ gone = {}
  /\ handler = [r \in JobRequests |-> NoHandler]
  /\ parted = FALSE

-----------------------------------------------------------------------------
CreateJob ==
  /\ job = "none"
  /\ job' = "open"
  /\ UNCHANGED <<lapsed, application, gone, handler, parted>>

\* The poster may write any status, and a new date.
UpdateJob(s) ==
  /\ Exists
  /\ job' = s
  /\ lapsed' \in {lapsed, FALSE}
  /\ parted' = (parted \/ s # job)
  /\ UNCHANGED <<application, gone, handler>>

\* The applications go with their job.
DeleteJob ==
  /\ Exists
  /\ job' = "deleted"
  /\ application' = [w \in Workers |-> "none"]
  /\ UNCHANGED <<lapsed, handler, parted, gone>>

\* bulkDeleteWorkers, and the purge of workers soft-deleted long ago: the row
\* takes its applications along, and no job is looked at.
DeleteWorker(w) ==
  /\ w \notin gone
  /\ gone' = gone \union {w}
  /\ application' = [application EXCEPT ![w] = "none"]
  /\ parted' = (parted \/ application[w] = "accepted")
  /\ UNCHANGED <<job, lapsed, handler>>

Lapse ==
  /\ Exists /\ ~lapsed
  /\ lapsed' = TRUE
  /\ UNCHANGED <<job, application, gone, handler, parted>>

-----------------------------------------------------------------------------
\* expireJobs, before every listing: updateMany names the ids that were open.
FindExpiredOpen(r) ==
  /\ job = "open" /\ lapsed
  /\ ReadsStatus(r, "expire", {})
  /\ UNCHANGED <<job, lapsed, application, gone, parted>>

WriteExpired(r) ==
  /\ WritesAfter(r, "expire")
  /\ job' = IF Exists THEN "expired" ELSE job
  /\ parted' = (parted \/ WritesOverFilled(r))
  /\ UNCHANGED <<lapsed, application, gone>>

RenewJob(r) ==
  /\ job \in {"open", "expired"}
  /\ ReadsStatus(r, "renew", {})
  /\ UNCHANGED <<job, lapsed, application, gone, parted>>

WriteRenewed(r) ==
  /\ WritesAfter(r, "renew")
  /\ job' = IF Exists THEN "open" ELSE job
  /\ lapsed' = FALSE
  /\ parted' = (parted \/ WritesOverFilled(r))
  /\ UNCHANGED <<application, gone>>

-----------------------------------------------------------------------------
ApplyToJob(r, w) ==
  /\ job = "open" /\ application[w] = "none"
  /\ ReadsStatus(r, "apply", {w})
  /\ UNCHANGED <<job, lapsed, application, gone, parted>>

\* mutant: nothing keeps a worker from applying twice
CreateApplicationAgain(r) ==
  /\ WritesAfter(r, "apply")
  /\ application' = [w \in Workers |->
       IF w \in handler[r].worker \ gone /\ Exists THEN "pending" ELSE application[w]]
  /\ UNCHANGED <<job, lapsed, parted, gone>>

\* The row's keys refuse a job or a worker that is gone and a second application
\* of the same worker; the job's status is not looked at again.
CreateApplication(r) ==
  /\ WritesAfter(r, "apply")
  /\ application' = [w \in Workers |->
       IF w \in handler[r].worker \ gone /\ Exists /\ application[w] = "none"
       THEN "pending" ELSE application[w]]
  /\ UNCHANGED <<job, lapsed, parted, gone>>

\* updateApplicationStatus finds the application by its own id, whatever its
\* status; accepting goes on to fill the job.
UpdateApplicationStatus(r, w, s) ==
  /\ application[w] # "none"
  /\ application' = [application EXCEPT ![w] = s]
  /\ IF s = "accepted" THEN ReadsStatus(r, "fill", {}) ELSE UNCHANGED handler
  /\ parted' = (parted \/ (application[w] = "accepted" /\ s = "rejected"))
  /\ UNCHANGED <<job, lapsed, gone>>

\* The same request with another job's id and this job's application, or with
\* another job's application and this job's id.
NamesAnotherJob(w, s) ==
  /\ application[w] # "none"
  /\ application' = [application EXCEPT ![w] = s]
  /\ parted' = TRUE
  /\ UNCHANGED <<job, lapsed, handler, gone>>

AcceptsElsewhere(r) ==
  /\ Exists
  /\ ReadsStatus(r, "fill", {})
  /\ parted' = TRUE
  /\ UNCHANGED <<job, lapsed, application, gone>>

Fill(r) ==
  /\ WritesAfter(r, "fill")
  /\ job' = IF Exists THEN "filled" ELSE job
  /\ UNCHANGED <<lapsed, application, gone, parted>>

WithdrawApplication(r, w) ==
  /\ application[w] = "pending"
  /\ ReadsStatus(r, "withdraw", {w})
  /\ UNCHANGED <<job, lapsed, application, gone, parted>>

\* Written whatever the application has become, if it is still there.
WriteWithdrawn(r) ==
  /\ WritesAfter(r, "withdraw")
  /\ \E w \in handler[r].worker :
       /\ application' = IF application[w] = "none" THEN application
                         ELSE [application EXCEPT ![w] = "withdrawn"]
       /\ parted' = (parted \/ application[w] = "accepted")
  /\ UNCHANGED <<job, lapsed, gone>>

\* A database call fails, or the process dies, before the write.
Interrupt(r) ==
  /\ handler[r] # NoHandler
  /\ parted' = (parted \/ handler[r].op = "fill")
  /\ handler' = [handler EXCEPT ![r] = NoHandler]
  /\ UNCHANGED <<job, lapsed, application, gone>>

JobsNext ==
  \/ CreateJob \/ DeleteJob \/ Lapse
  \/ \E s \in JobStatuses : UpdateJob(s)
  \/ \E w \in Workers : DeleteWorker(w)
  \/ \E r \in JobRequests :
       \/ FindExpiredOpen(r) \/ WriteExpired(r) \/ RenewJob(r) \/ WriteRenewed(r)
       \/ CreateApplication(r) \/ AcceptsElsewhere(r) \/ Fill(r)
       \/ WriteWithdrawn(r) \/ Interrupt(r)
       \/ \E w \in Workers : ApplyToJob(r, w) \/ WithdrawApplication(r, w)
  \/ \E w \in Workers, s \in {"accepted", "rejected"} :
       \/ NamesAnotherJob(w, s)
       \/ \E r \in JobRequests : UpdateApplicationStatus(r, w, s)

JobsSpec == JobsInit /\ [][JobsNext]_jobsVars

-----------------------------------------------------------------------------
\* The shape of the state.
JobsTypeOK ==
  /\ job \in JobStatuses \union {"none", "deleted"}
  /\ lapsed \in BOOLEAN /\ parted \in BOOLEAN /\ gone \subseteq Workers
  /\ application \in [Workers -> {"none", "pending", "accepted", "rejected", "withdrawn"}]
  /\ handler \in [JobRequests ->
       [op : {"none", "expire", "renew", "apply", "fill", "withdraw"},
        worker : SUBSET Workers, saw : JobStatuses \union {"none"}]]

Filling == \E r \in JobRequests : handler[r].op = "fill"

\* A job is filled if and only if one of its applicants has been accepted (the
\* two writes of an acceptance aside), except where its poster wrote a status by
\* hand, turned an accepted worker down or mixed up two jobs; where the row of an
\* accepted worker was deleted, whose application goes while the job stays filled;
\* where the request broke off between its writes; and where a sweep, a renewal or
\* a withdrawal that had read before the acceptance wrote after it.
FilledByAcceptance ==
  ~parted => /\ job = "filled" => Accepted
             /\ Accepted => job = "filled" \/ Filling
=============================================================================
