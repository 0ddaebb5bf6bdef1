----------------------------- MODULE JobRegistry -----------------------------
(***************************************************************************)
(* The job registry (contracts/job_registry/src): jobs posted, assigned,   *)
(* completed, disputed and cancelled on chain.  No money moves.  Left out: *)
(* the lists of ids, to which posting appends, and what a job is about.    *)
(***************************************************************************)
EXTENDS Contract

CONSTANT JobIds

VARIABLE registered   \* DataKey::Job(id), or NoJob

NoJob == [status |-> "none"]
JobRecord == [poster : Accounts, worker : SUBSET Accounts,
              status : {"open", "assigned", "completed", "cancelled", "disputed"}]

RegistryInit == registered = [i \in JobIds |-> NoJob]

HasJob(i) == registered[i] # NoJob
BecomesJob(i, status) == /\ registered' = [registered EXCEPT ![i].status = status]
                         /\ UNCHANGED chainVars

-----------------------------------------------------------------------------
\* A budget of zero is none.
PostJob(poster, i, budget) ==
  /\ ~paused /\ ~HasJob(i) /\ budget >= 0
  /\ registered' = [registered EXCEPT ![i] =
       [poster |-> poster, worker |-> {}, status |-> "open"]]
  /\ UNCHANGED chainVars

AssignWorker(caller, i, worker) ==
  /\ ~paused /\ HasJob(i)
  /\ registered[i].poster = caller /\ registered[i].status = "open"
  /\ registered' = [registered EXCEPT ![i].worker = {worker}, ![i].status = "assigned"]
  /\ UNCHANGED chainVars

CompleteJob(caller, i) ==
  /\ ~paused /\ HasJob(i)
  /\ caller \in registered[i].worker /\ registered[i].status = "assigned"
  /\ BecomesJob(i, "completed")

\* Also a disputed one.
CancelJob(caller, i) ==
  /\ ~paused /\ HasJob(i)
  /\ registered[i].poster = caller
  /\ registered[i].status \notin {"completed", "cancelled"}
  /\ BecomesJob(i, "cancelled")

DisputeJob(caller, i) ==
  /\ ~paused /\ HasJob(i)
  /\ caller \in registered[i].worker \union {registered[i].poster}
  /\ registered[i].status = "assigned"
  /\ BecomesJob(i, "disputed")

RegistryNext ==
  \/ Administer(TRUE, "pauser") /\ UNCHANGED registered
  \/ \E c \in Deployers : Initialize(c) /\ UNCHANGED registered
  \/ \E c \in Accounts :
       \/ \E i \in JobIds :
            \/ \E b \in Amounts : PostJob(c, i, b)
            \/ \E w \in Accounts : AssignWorker(c, i, w)
            \/ CompleteJob(c, i) \/ CancelJob(c, i) \/ DisputeJob(c, i)

RegistrySpec == ContractInit(TokenIds) /\ RegistryInit /\ [][RegistryNext]_<<chainVars, registered>>

-----------------------------------------------------------------------------
\* The shape of the state; a job has a worker once it was assigned.
RegistryTypeOK ==
  /\ registered \in [JobIds -> JobRecord \union {NoJob}]
  /\ \A i \in JobIds : HasJob(i) =>
       /\ Cardinality(registered[i].worker) <= 1
       /\ registered[i].status \in {"assigned", "completed", "disputed"}
            => registered[i].worker # {}
=============================================================================
