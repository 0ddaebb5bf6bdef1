------------------------------ MODULE Indexer ------------------------------
(***************************************************************************)
(* The on-chain event indexer of the API: the poller job that fetches a    *)
(* contract's events from Horizon page by page, stores each one, announces *)
(* it to webhook subscribers and then advances a cursor kept in the        *)
(* database (services/horizon-poller.service.ts, indexer.service.ts, the   *)
(* JobRunner that schedules it).  The deployment runs several API          *)
(* instances (deploy/k8s/api-deployment.yaml asks for three), each with    *)
(* its own poller, all sharing one row per contract in the cursor table:   *)
(* an action is what one poller does between two awaits.                   *)
(*                                                                         *)
(* Events are numbered in ledger order, so "ascending" is <=.  One         *)
(* contract is modelled: the registry's and the market's polls share no    *)
(* row.  A cursor row that is missing is the same as one at ledger 0.      *)
(***************************************************************************)
EXTENDS Naturals, FiniteSets

CONSTANTS
  Instances,   \* API processes, each with a poller of its own
  N,           \* how many events the contract ever emits
  LedgerOf,    \* the ledger of each event
  TxOf,        \* the index of its transaction in that ledger
  Mapped,      \* the events resolveEventName has a webhook name for
  Limit,       \* records in a page ('limit' is 100 in the client)
  MaxFaults    \* bound: failed calls and crashes in a behaviour

Events == 1..N

ASSUME EventsAssumption ==
  /\ N \in Nat
  /\ LedgerOf \in [Events -> Nat]
  /\ TxOf \in [Events -> Nat]
  /\ \A d, e \in Events : d <= e => LedgerOf[d] <= LedgerOf[e]
  /\ Mapped \subseteq Events
  /\ Limit \in Nat
  /\ MaxFaults \in Nat

VARIABLES
  top,          \* Horizon: the last event of the last closed ledger, or 0
  rows,         \* database: contract_events
  cursor,       \* database: event_indexer_cursors
  published,    \* events whose webhook deliveries were queued
  job,          \* the poll each instance is in
  faults,       \* bounded by MaxFaults
  dropped,      \* history: records whose upsert failed and were skipped
  unpublished   \* history: records whose publishEvent failed

vars == <<top, rows, cursor, published, job, faults, dropped, unpublished>>
world == <<top, rows, cursor, published, dropped, unpublished>>

Position == [ledger : Nat, tx : Nat]
Start    == [ledger |-> 0, tx |-> 0]
PositionOf(e) == [ledger |-> LedgerOf[e], tx |-> TxOf[e]]

\* The comparison of updateCursor.
Ahead(a, b) == \/ a.ledger > b.ledger
               \/ a.ledger = b.ledger /\ a.tx > b.tx

\* What Horizon answers: the first Limit events from ledger l on, l included.
Page(l) ==
  {e \in 1..top : /\ LedgerOf[e] >= l
                  /\ Cardinality({d \in 1..e : LedgerOf[d] >= l}) <= Limit}

Idle == [at |-> "idle", todo |-> {}, last |-> Start, seen |-> Start]

\* An await fails and the caller's catch takes over, or the process dies.
Fault == /\ faults < MaxFaults
         /\ faults' = faults + 1

\* The record the for loop has reached.
Reached(p, e) == /\ e \in job[p].todo
                 /\ \A d \in job[p].todo : e <= d

At(p, here) == job[p].at = here

Init ==
  /\ top = 0
  /\ rows = {}
  /\ cursor = Start
  /\ published = {}
  /\ job = [p \in Instances |-> Idle]
  /\ faults = 0
  /\ dropped = {}
  /\ unpublished = {}

-----------------------------------------------------------------------------
(***************************************************************************)
(* The chain.                                                              *)
(***************************************************************************)

\* Horizon shows a ledger's events all at once.
CloseLedger ==
  \E t \in Events :
    /\ t > top
    /\ \A e \in Events : e > top /\ e <= t => LedgerOf[e] = LedgerOf[t]
    /\ \A e \in Events : e > t => LedgerOf[e] > LedgerOf[t]
    /\ top' = t
    /\ UNCHANGED <<rows, cursor, published, job, faults, dropped, unpublished>>

-----------------------------------------------------------------------------
(***************************************************************************)
(* One poll.                                                               *)
(***************************************************************************)

\* The interval fires with no poll of this instance in progress (else the
\* tick is skipped), and the poll reads the cursor.
Tick(p) ==
  /\ At(p, "idle")
  /\ job' = [job EXCEPT ![p] = [Idle EXCEPT !.at = "fetch", !.last = cursor]]
  /\ UNCHANGED <<world, faults>>

\* The page for the ledger of the cursor read before; an empty one ends the
\* poll without touching the cursor.
Fetch(p) ==
  /\ At(p, "fetch")
  /\ LET page == Page(job[p].last.ledger) IN
       job' = [job EXCEPT ![p] = IF page = {} THEN Idle
                                 ELSE [@ EXCEPT !.at = "ingest", !.todo = page]]
  /\ UNCHANGED <<world, faults>>

\* mutant: the position left behind is the ledger alone
FinishLedger(p, e) ==
  job' = [job EXCEPT ![p].at = "ingest",
                     ![p].todo = @ \ {e},
                     ![p].last = [ledger |-> LedgerOf[e]]]

\* The loop leaves the record behind and remembers where it was.
Finish(p, e) ==
  job' = [job EXCEPT ![p].at = "ingest",
                     ![p].todo = @ \ {e},
                     ![p].last = PositionOf(e)]

\* The upsert succeeds, a new row or an old one touched.
Ingest(p) ==
  /\ At(p, "ingest")
  /\ \E e \in job[p].todo :
       /\ Reached(p, e)
       /\ rows' = rows \cup {e}
       /\ IF e \in Mapped THEN job' = [job EXCEPT ![p].at = "publish"]
                          ELSE Finish(p, e)
  /\ UNCHANGED <<top, cursor, published, faults, dropped, unpublished>>

\* mutant: a record whose upsert throws is announced all the same
SkipRecordAnnounced(p) ==
  /\ At(p, "ingest")
  /\ \E e \in job[p].todo :
       /\ Reached(p, e)
       /\ dropped' = dropped \cup {e}
       /\ job' = [job EXCEPT ![p].at = "publish"]
  /\ Fault
  /\ UNCHANGED <<top, rows, cursor, published, unpublished>>

\* The upsert throws: the record is logged and the loop goes on, 'last' unmoved.
SkipRecord(p) ==
  /\ At(p, "ingest")
  /\ \E e \in job[p].todo :
       /\ Reached(p, e)
       /\ dropped' = dropped \cup {e}
       /\ job' = [job EXCEPT ![p].todo = @ \ {e}]
  /\ Fault
  /\ UNCHANGED <<top, rows, cursor, published, unpublished>>

\* Every active subscription gets a delivery in the log.
Publish(p) ==
  /\ At(p, "publish")
  /\ \E e \in job[p].todo :
       /\ Reached(p, e)
       /\ published' = published \cup {e}
       /\ Finish(p, e)
  /\ UNCHANGED <<top, rows, cursor, faults, dropped, unpublished>>

\* publishEvent rejects; the rejection is logged and the record counts as done.
PublishFails(p) ==
  /\ At(p, "publish")
  /\ \E e \in job[p].todo :
       /\ Reached(p, e)
       /\ unpublished' = unpublished \cup {e}
       /\ Finish(p, e)
  /\ Fault
  /\ UNCHANGED <<top, rows, cursor, published, dropped>>

\* The loop is over: updateCursor reads the row ...
Reread(p) ==
  /\ At(p, "ingest")
  /\ job[p].todo = {}
  /\ job' = [job EXCEPT ![p].at = "write", ![p].seen = cursor]
  /\ UNCHANGED <<world, faults>>

\* mutant: the runner's flag is not reset when the poll is over
AdvanceStaysRunning(p) ==
  /\ At(p, "write")
  /\ cursor' = IF Ahead(job[p].last, job[p].seen) THEN job[p].last ELSE cursor
  /\ UNCHANGED <<top, rows, published, job, faults, dropped, unpublished>>

\* mutant: the cursor names the ledger to fetch next
AdvancePastLedger(p) ==
  /\ At(p, "write")
  /\ cursor' = IF Ahead(job[p].last, job[p].seen)
               THEN [job[p].last EXCEPT !.ledger = @ + 1] ELSE cursor
  /\ job' = [job EXCEPT ![p] = Idle]
  /\ UNCHANGED <<top, rows, published, faults, dropped, unpublished>>

\* ... and, if it was behind when read, overwrites it.
Advance(p) ==
  /\ At(p, "write")
  /\ cursor' = IF Ahead(job[p].last, job[p].seen) THEN job[p].last ELSE cursor
  /\ job' = [job EXCEPT ![p] = Idle]
  /\ UNCHANGED <<top, rows, published, faults, dropped, unpublished>>

\* A call outside the loop fails and the poll's own catch ends it, or the
\* process dies anywhere and restarts: only the database survives.
Abandon(p) ==
  /\ ~At(p, "idle")
  /\ job' = [job EXCEPT ![p] = Idle]
  /\ Fault
  /\ UNCHANGED world

Proceed(p) == \/ Tick(p)    \/ Fetch(p)
              \/ Ingest(p)  \/ Publish(p)
              \/ Reread(p)  \/ Advance(p)

Fail(p) == SkipRecord(p) \/ PublishFails(p) \/ Abandon(p)

Next == \/ CloseLedger
        \/ \E p \in Instances : Proceed(p) \/ Fail(p)

Spec == Init /\ [][Next]_vars

\* Every poller's interval fires again and again, and every await of a poll
\* returns: the Horizon client gives up after ten seconds.
Fairness == \A p \in Instances : WF_vars(Proceed(p))

FairSpec == Spec /\ Fairness

-----------------------------------------------------------------------------
(***************************************************************************)
(* Properties.                                                             *)
(***************************************************************************)

Jobs == [at   : {"idle", "fetch", "ingest", "publish", "write"},
         todo : SUBSET Events,
         last : Position,
         seen : Position]

\* The type invariant of the indexer's state.
TypeOK ==
  /\ top \in 0..N
  /\ rows \subseteq Events
  /\ cursor \in Position
  /\ published \subseteq Events
  /\ job \in [Instances -> Jobs]
  /\ faults \in 0..MaxFaults
  /\ dropped \subseteq Events
  /\ unpublished \subseteq Events

\* All the poller owes an event: a row and, if it has a webhook name, queued
\* deliveries; or a logged failure of the one or of the other.
Settled(e) ==
  \/ e \in dropped
  \/ /\ e \in rows
     /\ e \in Mapped => e \in published \cup unpublished

Behind(pos) == {e \in Events : LedgerOf[e] < pos.ledger}

\* The cursor never passes an event that is still owed something: no crash
\* between the row and the delivery, no page cut in the middle of a ledger and
\* no race of two instances over the cursor row (which can move it backwards)
\* loses an event.  Only a failure caught inside the loop does.
NothingElseLost == \A e \in Behind(cursor) : Settled(e)

\* Whoever hears of an event by webhook finds it in the index, whichever
\* instance told them and whatever crashed since.
AnnouncedIsIndexed == published \subseteq rows

\* Every event of a closed ledger is settled in the end, through crashes, failed
\* fetches and pollers that undo each other's cursor: the inclusive
\* start_ledger makes up for each of them, provided no ledger fills a page.
EventsSettle == \A e \in Events : e <= top ~> Settled(e)

\* What the poller's header promises: "restarts are safe and no events are
\* missed" (services/horizon-poller.service.ts:6).  A record whose upsert fails
\* is skipped, a later one moves the cursor past its ledger, and it is never
\* fetched again.
NoneMissed == Behind(cursor) \subseteq rows
=============================================================================
