--------------------------- MODULE IndexerProofs ---------------------------
(***************************************************************************)
(* Proofs about the event indexer, for any number of API instances, events *)
(* and faults, any page size and any ledgers.                              *)
(***************************************************************************)
EXTENDS Indexer, FiniteSetTheorems, TLAPS

\* The steps of the indexer, one disjunct an action.
LEMMA StepCases ==
  ASSUME [Next]_vars
  PROVE  \/ CloseLedger
         \/ \E p \in Instances : Tick(p)
         \/ \E p \in Instances : Fetch(p)
         \/ \E p \in Instances : Ingest(p)
         \/ \E p \in Instances : SkipRecord(p)
         \/ \E p \in Instances : Publish(p)
         \/ \E p \in Instances : PublishFails(p)
         \/ \E p \in Instances : Reread(p)
         \/ \E p \in Instances : Advance(p)
         \/ \E p \in Instances : Abandon(p)
         \/ UNCHANGED vars
BY DEF Next, Proceed, Fail

\* Positions, pages and idle jobs are what their names say.
LEMMA Shapes ==
  /\ Start \in Position
  /\ Idle \in Jobs
  /\ \A e \in Events : PositionOf(e) \in Position
  /\ \A l : top \in 0..N => Page(l) \subseteq Events
<1>1. Start \in Position /\ Idle \in Jobs
  BY DEF Start, Position, Idle, Jobs
<1>2. \A e \in Events : PositionOf(e) \in Position
  BY EventsAssumption DEF PositionOf, Position
<1>3. \A l : top \in 0..N => Page(l) \subseteq Events
  BY EventsAssumption DEF Page, Events
<1>4. QED BY <1>1, <1>2, <1>3

\* Leaving a record behind keeps the job well typed.
LEMMA FinishType ==
  ASSUME TypeOK, NEW p \in Instances, NEW e \in Events, Finish(p, e)
  PROVE  job' \in [Instances -> Jobs]
<1>1. PositionOf(e) \in Position
  BY Shapes
<1>2. QED BY <1>1 DEF TypeOK, Finish, Jobs

\* The type invariant is inductive.
LEMMA TypeStep ==
  ASSUME TypeOK, [Next]_vars
  PROVE  TypeOK'
<1> USE DEF TypeOK
<1>1. CASE CloseLedger
  BY <1>1, EventsAssumption DEF CloseLedger, Events
<1>2. ASSUME NEW p \in Instances, Tick(p) PROVE TypeOK'
  BY <1>2, Shapes DEF Tick, world, Idle, Jobs
<1>3. ASSUME NEW p \in Instances, Fetch(p) PROVE TypeOK'
  BY <1>3, Shapes DEF Fetch, world, Jobs
<1>4. ASSUME NEW p \in Instances, Ingest(p) PROVE TypeOK'
  <2>1. PICK e \in job[p].todo :
          /\ rows' = rows \cup {e}
          /\ IF e \in Mapped THEN job' = [job EXCEPT ![p].at = "publish"]
                             ELSE Finish(p, e)
    BY <1>4 DEF Ingest
  <2>2. e \in Events
    BY DEF Jobs
  <2>3. job' \in [Instances -> Jobs]
    <3>1. CASE e \in Mapped
      BY <2>1, <3>1 DEF Jobs
    <3>2. CASE e \notin Mapped
      BY <2>1, <2>2, <3>2, FinishType
    <3>3. QED BY <3>1, <3>2
  <2>4. QED BY <1>4, <2>1, <2>2, <2>3 DEF Ingest
<1>5. ASSUME NEW p \in Instances, SkipRecord(p) PROVE TypeOK'
  BY <1>5, EventsAssumption DEF SkipRecord, Fault, Jobs
<1>6. ASSUME NEW p \in Instances, Publish(p) PROVE TypeOK'
  <2>1. PICK e \in job[p].todo : published' = published \cup {e} /\ Finish(p, e)
    BY <1>6 DEF Publish
  <2>2. e \in Events
    BY DEF Jobs
  <2>3. QED BY <1>6, <2>1, <2>2, FinishType DEF Publish
<1>7. ASSUME NEW p \in Instances, PublishFails(p) PROVE TypeOK'
  <2>1. PICK e \in job[p].todo : unpublished' = unpublished \cup {e} /\ Finish(p, e)
    BY <1>7 DEF PublishFails
  <2>2. e \in Events
    BY DEF Jobs
  <2>3. QED BY <1>7, <2>1, <2>2, FinishType, EventsAssumption DEF PublishFails, Fault
<1>8. ASSUME NEW p \in Instances, Reread(p) PROVE TypeOK'
  BY <1>8 DEF Reread, world, Jobs
<1>9. ASSUME NEW p \in Instances, Advance(p) PROVE TypeOK'
  BY <1>9, Shapes DEF Advance, Jobs
<1>10. ASSUME NEW p \in Instances, Abandon(p) PROVE TypeOK'
  BY <1>10, Shapes, EventsAssumption DEF Abandon, Fault, world
<1>11. CASE UNCHANGED vars
  BY <1>11 DEF vars
<1>12. QED
  BY <1>1, <1>2, <1>3, <1>4, <1>5, <1>6, <1>7, <1>8, <1>9, <1>10, <1>11, StepCases

\* The state of the indexer is always well typed.
THEOREM TypeCorrect == Spec => []TypeOK
<1>1. Init => TypeOK
  BY EventsAssumption, Shapes DEF Init, TypeOK
<1>2. TypeOK /\ [Next]_vars => TypeOK'
  BY TypeStep
<1>3. QED BY <1>1, <1>2, PTL DEF Spec

-----------------------------------------------------------------------------
(***************************************************************************)
(* Nothing else is lost.                                                   *)
(***************************************************************************)

\* What a poll in progress knows: everything behind the position it would
\* write is settled, and so is everything its loop has passed; before a record
\* is announced its row is there.
PollSound(p) ==
  /\ \A e \in Behind(job[p].last) : Settled(e)
  /\ \A m \in job[p].todo, e \in Events : e < m => e \in job[p].todo \/ Settled(e)
  /\ At(p, "publish") => \A e \in job[p].todo : Reached(p, e) => e \in rows

\* The inductive invariant.
IndInv ==
  /\ TypeOK
  /\ NothingElseLost
  /\ AnnouncedIsIndexed
  /\ \A p \in Instances : PollSound(p)

\* What was stored, announced or logged stays so.
LEMMA Grows ==
  ASSUME [Next]_vars
  PROVE  /\ rows \subseteq rows' /\ dropped \subseteq dropped'
         /\ published \subseteq published' /\ unpublished \subseteq unpublished'
BY StepCases DEF CloseLedger, Tick, Fetch, Ingest, SkipRecord, Publish, PublishFails,
     Reread, Advance, Abandon, world, vars

\* A settled event stays settled.
LEMMA SettledStays ==
  ASSUME [Next]_vars, NEW e, Settled(e)
  PROVE  Settled(e)'
BY Grows DEF Settled

\* A page has no holes: with a record it holds every earlier one from its
\* ledger on.
LEMMA PageDense ==
  ASSUME top \in 0..N, NEW l \in Nat, NEW m \in Page(l), NEW e \in Events, e < m,
         LedgerOf[e] >= l
  PROVE  e \in Page(l)
<1> DEFINE From(k) == {d \in 1..k : LedgerOf[d] >= l}
<1>1. m \in 1..top /\ Cardinality(From(m)) <= Limit
  BY DEF Page
<1>2. e \in 1..top /\ From(e) \subseteq From(m)
  BY <1>1, EventsAssumption DEF Events
<1>3. IsFiniteSet(1..m) /\ From(m) \in SUBSET (1..m)
  BY <1>1, EventsAssumption, FS_Interval
<1>4. IsFiniteSet(From(m))
  BY <1>3, FS_Subset
<1>5. /\ Cardinality(From(e)) <= Cardinality(From(m))
      /\ Cardinality(From(e)) \in Nat /\ Cardinality(From(m)) \in Nat
  <2>1. IsFiniteSet(From(e)) /\ Cardinality(From(e)) <= Cardinality(From(m))
    BY <1>2, <1>4, FS_Subset
  <2>2. QED BY <2>1, <1>4, FS_CardinalityType
<1>6. Cardinality(From(e)) <= Limit
  BY <1>1, <1>5, EventsAssumption
<1>7. QED BY <1>2, <1>6 DEF Page

\* Nothing is behind ledger 0.
LEMMA NothingBehindStart == Behind(Start) = {}
BY EventsAssumption DEF Behind, Start

\* An event in an earlier ledger than another's comes before it.
LEMMA BehindIsBefore ==
  ASSUME NEW m \in Events, NEW e \in Behind(PositionOf(m))
  PROVE  e \in Events /\ e < m
<1>1. e \in Events /\ LedgerOf[e] < LedgerOf[m]
  BY DEF Behind, PositionOf
<1>2. CASE m <= e
  BY <1>1, <1>2, EventsAssumption
<1>3. QED BY <1>1, <1>2, EventsAssumption DEF Events

\* The loop leaves behind a record that is settled now.
LEMMA FinishSound ==
  ASSUME TypeOK, [Next]_vars, NEW p \in Instances, PollSound(p),
         NEW m \in job[p].todo, Reached(p, m), Settled(m)', Finish(p, m)
  PROVE  PollSound(p)'
<1>0. m \in Events /\ job[p].todo \subseteq Events
  BY DEF TypeOK, Jobs
<1>1. /\ job'[p].at = "ingest"
      /\ job'[p].todo = job[p].todo \ {m}
      /\ job'[p].last = PositionOf(m)
  BY DEF TypeOK, Finish, Jobs
<1>2. \A e \in Events : e < m => Settled(e)'
  <2> SUFFICES ASSUME NEW e \in Events, e < m PROVE Settled(e)'
    OBVIOUS
  <2>1. e \notin job[p].todo
    BY <1>0, EventsAssumption DEF Reached, Events
  <2>2. Settled(e)
    BY <2>1 DEF PollSound
  <2>3. QED BY <2>2, SettledStays
<1>3. \A e \in Behind(job'[p].last) : Settled(e)'
  BY <1>0, <1>1, <1>2, BehindIsBefore
<1>4. \A n \in job'[p].todo, e \in Events :
        e < n => e \in job'[p].todo \/ Settled(e)'
  <2> SUFFICES ASSUME NEW n \in job'[p].todo, NEW e \in Events, e < n,
                      e \notin job'[p].todo
               PROVE  Settled(e)'
    OBVIOUS
  <2>1. n \in job[p].todo /\ (e = m \/ e \notin job[p].todo)
    BY <1>1
  <2>2. CASE e = m
    BY <2>2
  <2>3. CASE e \notin job[p].todo
    <3>1. Settled(e)
      BY <2>1, <2>3 DEF PollSound
    <3>2. QED BY <3>1, SettledStays
  <2>4. QED BY <2>1, <2>2, <2>3
<1>5. QED BY <1>1, <1>3, <1>4 DEF PollSound, Behind, At

\* A poll that the step does not touch stays sound.
LEMMA OthersSound ==
  ASSUME [Next]_vars, NEW p \in Instances, PollSound(p), job'[p] = job[p]
  PROVE  PollSound(p)'
<1>1. \A e : Settled(e) => Settled(e)'
  BY SettledStays
<1>2. rows \subseteq rows'
  BY Grows
<1>3. QED BY <1>1, <1>2 DEF PollSound, Behind, At, Reached

\* An idle poll is sound.
LEMMA IdleSound ==
  ASSUME NEW p \in Instances, job'[p] = Idle
  PROVE  PollSound(p)'
BY NothingBehindStart DEF PollSound, Behind, At, Idle

\* Every step keeps every poll sound.
LEMMA PollStep ==
  ASSUME IndInv, [Next]_vars, NEW p \in Instances
  PROVE  PollSound(p)'
<1>0. TypeOK /\ NothingElseLost /\ PollSound(p)
  BY DEF IndInv
<1>1. CASE job'[p] = job[p]
  BY <1>0, <1>1, OthersSound
<1>2. CASE job'[p] # job[p]
  <2>1. CASE Tick(p)
    <3>1. /\ job'[p].at = "fetch" /\ job'[p].todo = {}
          /\ job'[p].last = cursor
      BY <1>0, <2>1 DEF TypeOK, Tick, Idle
    <3>2. \A e \in Behind(cursor) : Settled(e)'
      BY <1>0, SettledStays DEF NothingElseLost
    <3>3. QED BY <3>1, <3>2 DEF PollSound, Behind, At
  <2>2. CASE Fetch(p)
    <3> DEFINE l == job[p].last.ledger
               page == Page(l)
    <3>0. l \in Nat /\ top \in 0..N
      BY <1>0 DEF TypeOK, Jobs, Position
    <3>1. CASE page = {}
      BY <1>0, <2>2, <3>1, IdleSound DEF Fetch, TypeOK
    <3>2. CASE page # {}
      <4>1. /\ job'[p].at = "ingest" /\ job'[p].todo = page
            /\ job'[p].last = job[p].last
        BY <1>0, <2>2, <3>2 DEF Fetch, TypeOK, Jobs
      <4>2. \A e \in Behind(job[p].last) : Settled(e)'
        BY <1>0, SettledStays DEF PollSound
      <4>3. \A m \in page, e \in Events : e < m => e \in page \/ Settled(e)'
        <5> SUFFICES ASSUME NEW m \in page, NEW e \in Events, e < m, e \notin page
                     PROVE  Settled(e)'
          OBVIOUS
        <5>1. ~(LedgerOf[e] >= l)
          BY <3>0, PageDense
        <5>2. e \in Behind(job[p].last)
          BY <3>0, <5>1, EventsAssumption DEF Behind
        <5>3. QED BY <4>2, <5>2
      <4>4. QED BY <4>1, <4>2, <4>3 DEF PollSound, Behind, At
    <3>3. QED BY <3>1, <3>2
  <2>3. CASE Ingest(p)
    <3>1. PICK m \in job[p].todo :
            /\ Reached(p, m)
            /\ rows' = rows \cup {m}
            /\ IF m \in Mapped THEN job' = [job EXCEPT ![p].at = "publish"]
                               ELSE Finish(p, m)
      BY <2>3 DEF Ingest
    <3>2. CASE m \in Mapped
      <4>1. /\ job'[p].at = "publish" /\ job'[p].todo = job[p].todo
            /\ job'[p].last = job[p].last
        BY <1>0, <3>1, <3>2 DEF TypeOK, Jobs
      <4>2. \A e \in job[p].todo : Reached(p, e) => e = m
        BY <1>0, <3>1, EventsAssumption DEF Reached, TypeOK, Jobs, Events
      <4>3. \A e : Settled(e) => Settled(e)'
        BY SettledStays
      <4>4. \A e \in job'[p].todo : Reached(p, e)' => e \in rows'
        BY <3>1, <4>1, <4>2 DEF Reached
      <4>5. QED BY <1>0, <4>1, <4>3, <4>4 DEF PollSound, Behind, At
    <3>3. CASE m \notin Mapped
      <4>1. Settled(m)'
        BY <3>1, <3>3 DEF Settled
      <4>2. QED BY <1>0, <3>1, <3>3, <4>1, FinishSound
    <3>4. QED BY <3>2, <3>3
  <2>4. CASE SkipRecord(p)
    <3>1. PICK m \in job[p].todo :
            /\ Reached(p, m)
            /\ dropped' = dropped \cup {m}
            /\ job' = [job EXCEPT ![p].todo = @ \ {m}]
      BY <2>4 DEF SkipRecord
    <3>2. /\ job'[p].at = "ingest" /\ job'[p].todo = job[p].todo \ {m}
          /\ job'[p].last = job[p].last
      BY <1>0, <2>4, <3>1 DEF SkipRecord, At, TypeOK, Jobs
    <3>3. \A e : e = m \/ Settled(e) => Settled(e)'
      BY <3>1, SettledStays DEF Settled
    <3>4. QED BY <1>0, <3>2, <3>3 DEF PollSound, Behind, At
  <2>5. CASE Publish(p)
    <3>1. PICK m \in job[p].todo :
            Reached(p, m) /\ published' = published \cup {m} /\ Finish(p, m)
      BY <2>5 DEF Publish
    <3>2. m \in rows /\ rows' = rows
      BY <1>0, <2>5, <3>1 DEF Publish, PollSound
    <3>3. Settled(m)'
      BY <3>1, <3>2 DEF Settled
    <3>4. QED BY <1>0, <3>1, <3>3, FinishSound
  <2>6. CASE PublishFails(p)
    <3>1. PICK m \in job[p].todo :
            Reached(p, m) /\ unpublished' = unpublished \cup {m} /\ Finish(p, m)
      BY <2>6 DEF PublishFails
    <3>2. m \in rows /\ rows' = rows
      BY <1>0, <2>6, <3>1 DEF PublishFails, PollSound
    <3>3. Settled(m)'
      BY <3>1, <3>2 DEF Settled
    <3>4. QED BY <1>0, <3>1, <3>3, FinishSound
  <2>7. CASE Reread(p)
    <3>1. /\ job'[p].at = "write" /\ job'[p].todo = job[p].todo
          /\ job'[p].last = job[p].last
      BY <1>0, <2>7 DEF Reread, TypeOK, Jobs
    <3>2. \A e : Settled(e) => Settled(e)'
      BY SettledStays
    <3>3. QED BY <1>0, <3>1, <3>2 DEF PollSound, Behind, At
  <2>8. CASE Advance(p) \/ Abandon(p)
    BY <1>0, <2>8, IdleSound DEF Advance, Abandon, TypeOK
  <2>9. \A q \in Instances :
          \/ Tick(q) \/ Fetch(q) \/ Ingest(q) \/ SkipRecord(q) \/ Publish(q)
          \/ PublishFails(q) \/ Reread(q) \/ Advance(q) \/ Abandon(q)
          => q = p
    BY <1>0, <1>2 DEF TypeOK, Tick, Fetch, Ingest, SkipRecord, Publish, PublishFails,
         Reread, Advance, Abandon, Finish
  <2>10. CASE CloseLedger \/ UNCHANGED vars
    BY <1>2, <2>10 DEF CloseLedger, vars
  <2>11. QED
    BY <2>1, <2>2, <2>3, <2>4, <2>5, <2>6, <2>7, <2>8, <2>9, <2>10, StepCases
<1>3. QED BY <1>1, <1>2

\* The inductive invariant is one.
LEMMA IndStep ==
  ASSUME IndInv, [Next]_vars
  PROVE  IndInv'
<1>1. TypeOK'
  BY TypeStep DEF IndInv
<1>2. \A p \in Instances : PollSound(p)'
  BY PollStep
<1>3. NothingElseLost'
  <2>1. \A e \in Behind(cursor) : Settled(e)'
    BY SettledStays DEF IndInv, NothingElseLost
  <2>2. ASSUME NEW p \in Instances, Advance(p)
        PROVE  \A e \in Behind(cursor') : Settled(e)'
    <3>1. \A e \in Behind(job[p].last) : Settled(e)'
      BY SettledStays DEF IndInv, PollSound
    <3>2. cursor' = cursor \/ cursor' = job[p].last
      BY <2>2 DEF Advance
    <3>3. QED BY <2>1, <3>1, <3>2 DEF Behind
  <2>3. cursor' = cursor \/ \E p \in Instances : Advance(p)
    BY StepCases DEF CloseLedger, Tick, Fetch, Ingest, SkipRecord, Publish, PublishFails,
         Reread, Abandon, world, vars
  <2>4. QED BY <2>1, <2>2, <2>3 DEF NothingElseLost, Behind
<1>4. AnnouncedIsIndexed'
  <2>1. published \subseteq rows'
    BY Grows DEF IndInv, AnnouncedIsIndexed
  <2>2. ASSUME NEW p \in Instances, Publish(p)
        PROVE  published' \subseteq rows'
    BY <2>1, <2>2 DEF Publish, IndInv, PollSound
  <2>3. published' = published \/ \E p \in Instances : Publish(p)
    BY StepCases DEF CloseLedger, Tick, Fetch, Ingest, SkipRecord, PublishFails,
         Reread, Advance, Abandon, world, vars
  <2>4. QED BY <2>1, <2>2, <2>3 DEF AnnouncedIsIndexed
<1>5. QED BY <1>1, <1>2, <1>3, <1>4 DEF IndInv

\* The inductive invariant holds in every reachable state.
LEMMA AlwaysInd == Spec => []IndInv
<1>1. Init => IndInv
  <2> SUFFICES ASSUME Init PROVE IndInv
    OBVIOUS
  <2>1. TypeOK
    BY EventsAssumption, Shapes DEF Init, TypeOK
  <2>2. NothingElseLost /\ AnnouncedIsIndexed
    BY NothingBehindStart DEF Init, NothingElseLost, AnnouncedIsIndexed
  <2>3. \A p \in Instances : PollSound(p)
    BY NothingBehindStart DEF Init, PollSound, At, Idle
  <2>4. QED BY <2>1, <2>2, <2>3 DEF IndInv
<1>2. IndInv /\ [Next]_vars => IndInv'
  BY IndStep
<1>3. QED BY <1>1, <1>2, PTL DEF Spec

\* The cursor never passes an event that is still owed something, however many
\* instances share it, wherever the pages are cut and whatever crashes.
THEOREM NothingElseIsLost == Spec => []NothingElseLost
<1>1. IndInv => NothingElseLost
  BY DEF IndInv
<1>2. QED BY <1>1, AlwaysInd, PTL

\* An event announced by webhook is in the index.
THEOREM AnnouncedAreIndexed == Spec => []AnnouncedIsIndexed
<1>1. IndInv => AnnouncedIsIndexed
  BY DEF IndInv
<1>2. QED BY <1>1, AlwaysInd, PTL
=============================================================================
