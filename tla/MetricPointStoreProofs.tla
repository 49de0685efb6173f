----------------------- MODULE MetricPointStoreProofs -----------------------
(***************************************************************************)
(* Proofs about MetricPointStore, for any number of concurrent flushes and *)
(* any batches: event numbers are contiguous, outbox ids follow them, each *)
(* stored point is announced exactly once per time it is stored, and the   *)
(* interleaved transactions implement the atomic append of EventLog.       *)
(*                                                                         *)
(* The events a transaction has written and not committed are what the     *)
(* proof is about: Pending says that they are numbered one above the       *)
(* committed counter and that their ids exceed those of every committed    *)
(* event of the task.  Both stay true until the commit because FOR UPDATE  *)
(* keeps the counter rows apart (Exclusive), and every task with new       *)
(* points has a locked counter because it was seeded before the statement  *)
(* took its snapshot (Stages).                                             *)
(***************************************************************************)
EXTENDS MetricPointStore, FiniteSetTheorems, SequenceTheorems, TLAPS

-----------------------------------------------------------------------------
(* The inductive invariant.                                                *)

BatchPoints(w) == {batch[w][i] : i \in 1..Len(batch[w])}

\* What a transaction has at which point of Flush.
Stages(w) ==
    /\ pc[w] \in {"idle", "seed"} => inserted[w] = {}
    /\ pc[w] # "commit" => written[w] = {}
    /\ pos[w] >= 1
    /\ pc[w] = "seed" => TasksOf(BatchPoints(w)) \subseteq toSeed[w] \cup seeded \cup seeds[w]
    /\ pc[w] \in {"insert", "commit"} => TasksOf(BatchPoints(w)) \subseteq snapshot[w]
    /\ inserted[w] \subseteq BatchPoints(w)
    /\ locked[w] \subseteq TasksOf(inserted[w])
    /\ pc[w] = "commit" => TasksOf(inserted[w]) \subseteq locked[w]

\* Transactions are kept apart by the primary key and by FOR UPDATE, and what
\* one has inserted is not committed.
Exclusive ==
    /\ \A v, w \in Workers : v # w => /\ inserted[v] \cap inserted[w] = {}
                                      /\ locked[v] \cap locked[w] = {}
    /\ \A w \in Workers : inserted[w] \cap points = {}

\* An event that is written and not committed is the next of its task.
PendingEvent(w, e) ==
    /\ e.task \in locked[w]
    /\ e.seq = counter[e.task] + 1
    /\ e.payload = PointsOfTask(inserted[w], e.task)
    /\ e.id < nextId
    /\ \A f \in events : f.task = e.task => f.id < e.id

\* A transaction about to commit has written one event per task.
Pending(w) ==
    /\ \A e \in written[w] : PendingEvent(w, e)
    /\ \A e, f \in written[w] : e.task = f.task => e = f
    /\ pc[w] = "commit" => \A t \in locked[w] : \E e \in written[w] : e.task = t

\* EventsContiguous, event by event.
Contiguous ==
    /\ \A e \in events : e.seq <= counter[e.task]
    /\ \A t \in Tasks : \A n \in 1..counter[t] : \E e \in events : e.task = t /\ e.seq = n
    /\ \A e, f \in events : e.task = f.task /\ e.seq = f.seq => e = f

Drawn == \A e \in events : e.id < nextId

\* The events that announce p are counted by its deletions and its presence.
Announced ==
    /\ \A p \in Points :
        /\ IsFiniteSet({e \in events : p \in e.payload})
        /\ Cardinality({e \in events : p \in e.payload})
              = deletions[p] + (IF p \in points THEN 1 ELSE 0)
    /\ \A e \in events : e.payload # {} /\ TasksOf(e.payload) = {e.task}

Inv ==
    /\ TypeOK
    /\ \A w \in Workers : Stages(w)
    /\ Exclusive
    /\ \A w \in Workers : Pending(w)
    /\ Contiguous
    /\ Drawn
    /\ OutboxFollowsSequence
    /\ Announced

-----------------------------------------------------------------------------
(* Types.                                                                  *)

\* The tasks of a batch are finitely many, so the locked ones are.
LEMMA LockedFinite ==
    ASSUME TypeOK, NEW w \in Workers, Stages(w)
    PROVE  IsFiniteSet(locked[w]) /\ Cardinality(locked[w]) \in Nat
<1> DEFINE n == Len(batch[w])
           f == [i \in 1..n |-> TaskOf[batch[w][i]]]
<1>1. n \in Nat
  BY DEF TypeOK
<1>2. f \in Surjection(1..n, TasksOf(BatchPoints(w)))
  BY DEF Surjection, TasksOf, BatchPoints
<1>3. IsFiniteSet(TasksOf(BatchPoints(w)))
  <2>1. IsFiniteSet(1..n)
    BY <1>1, FS_Interval
  <2> HIDE DEF n, f
  <2>2. QED
    BY <1>2, <2>1, FS_Surjection
<1>4. locked[w] \subseteq TasksOf(BatchPoints(w))
  BY DEF Stages, TasksOf
<1>5. IsFiniteSet(locked[w])
  BY <1>3, <1>4, FS_Subset
<1>6. QED
  BY <1>5, FS_CardinalityType

\* The points of a batch are points and their tasks are tasks.
LEMMA BatchType ==
    ASSUME NEW b \in Seq(Points)
    PROVE  /\ {b[i] : i \in 1..Len(b)} \subseteq Points
           /\ TasksOf({b[i] : i \in 1..Len(b)}) \subseteq Tasks
BY StoreAssumption DEF TasksOf

\* The events a transaction writes.
LEMMA WrittenEvents ==
    ASSUME TypeOK, NEW w \in Workers, Stages(w), WriteEvents(w)
    PROVE  \E id \in [locked[w] -> Nat] :
              /\ \A t \in locked[w] : nextId <= id[t] /\ id[t] < nextId'
              /\ nextId' \in Nat /\ nextId <= nextId'
              /\ written' = [written EXCEPT ![w] =
                    {[task |-> t, seq |-> counter[t] + 1,
                      payload |-> PointsOfTask(inserted[w], t), id |-> id[t]] : t \in locked[w]}]
<1>1. Cardinality(locked[w]) \in Nat /\ nextId \in Nat
  BY LockedFinite DEF TypeOK
<1>2. PICK id \in DrawIds(locked[w]) :
          written' = [written EXCEPT ![w] =
                {[task |-> t, seq |-> NextSeq(t),
                  payload |-> PointsOfTask(inserted[w], t), id |-> id[t]] : t \in locked[w]}]
  BY DEF WriteEvents
<1>3. id \in [locked[w] -> nextId..(nextId + Cardinality(locked[w]) - 1)]
  BY <1>2 DEF DrawIds
<1>4. nextId' = nextId + Cardinality(locked[w])
  BY DEF WriteEvents
<1>5. id \in [locked[w] -> Nat]
  BY <1>1, <1>3
<1>6. \A t \in locked[w] : nextId <= id[t] /\ id[t] < nextId'
  BY <1>1, <1>3, <1>4
<1>7. nextId' \in Nat /\ nextId <= nextId'
  BY <1>1, <1>4
<1>8. written' = [written EXCEPT ![w] =
          {[task |-> t, seq |-> counter[t] + 1,
            payload |-> PointsOfTask(inserted[w], t), id |-> id[t]] : t \in locked[w]}]
  BY <1>2 DEF NextSeq
<1> HIDE <1>2
<1>9. QED
  BY <1>5, <1>6, <1>7, <1>8

\* Every step keeps the types.
LEMMA TypeStep ==
    ASSUME TypeOK, \A w \in Workers : Stages(w), [Next]_vars
    PROVE  TypeOK'
<1> USE StoreAssumption DEF tables
<1>1. ASSUME NEW w \in Workers, NEW b \in Batches, Begin(w, b)
      PROVE  TypeOK'
  <2>1. b \in Seq(Points) /\ TasksOf({b[i] : i \in 1..Len(b)}) \subseteq Tasks
    BY BatchType
  <2>2. QED
    <3>1. /\ batch' \in [Workers -> Seq(Points)]
          /\ toSeed' \in [Workers -> SUBSET Tasks]
      BY <1>1, <2>1 DEF TypeOK, Begin
    <3>2. /\ flushes' \in 0..MaxFlushes
          /\ pc' \in [Workers -> {"idle", "seed", "insert", "commit"}]
      BY <1>1 DEF TypeOK, Begin
    <3>3. QED
      BY <1>1, <3>1, <3>2 DEF TypeOK, Begin
<1>2. ASSUME NEW w \in Workers, NEW t \in Tasks, SeedCounter(w, t)
      PROVE  TypeOK'
  BY <1>2 DEF TypeOK, SeedCounter
<1>3. ASSUME NEW w \in Workers, NEW t \in Tasks, LockCounter(w, t)
      PROVE  TypeOK'
  BY <1>3 DEF TypeOK, LockCounter
<1>4. ASSUME NEW w \in Workers, StartPersist(w)
      PROVE  TypeOK'
  BY <1>4 DEF TypeOK, StartPersist
<1>5. ASSUME NEW w \in Workers, InsertPoint(w)
      PROVE  TypeOK'
  <2>1. batch[w] \in Seq(Points) /\ pos[w] \in Nat
    BY DEF TypeOK
  <2>2. batch[w][pos[w]] \in Points
    BY <1>5, <2>1 DEF InsertPoint, Stages
  <2>3. QED
    <3>1. /\ inserted' \in [Workers -> SUBSET Points]
          /\ pos' \in [Workers -> Nat]
      BY <1>5, <2>2 DEF TypeOK, InsertPoint
    <3>2. QED
      BY <1>5, <3>1 DEF TypeOK, InsertPoint
<1>6. ASSUME NEW w \in Workers, WriteEvents(w)
      PROVE  TypeOK'
  <2>1. PICK id \in [locked[w] -> Nat] :
              /\ nextId' \in Nat
              /\ written' = [written EXCEPT ![w] =
                    {[task |-> t, seq |-> counter[t] + 1,
                      payload |-> PointsOfTask(inserted[w], t), id |-> id[t]] : t \in locked[w]}]
    BY <1>6, WrittenEvents
  <2>2. \A t \in locked[w] : [task |-> t, seq |-> counter[t] + 1,
                              payload |-> PointsOfTask(inserted[w], t), id |-> id[t]] \in Event
    BY DEF TypeOK, Event, PointsOfTask
  <2>3. written' \in [Workers -> SUBSET Event]
    BY <2>1, <2>2 DEF TypeOK
  <2>4. QED
    BY <1>6, <2>1, <2>3 DEF TypeOK, WriteEvents
<1>7. ASSUME NEW w \in Workers, Commit(w)
      PROVE  TypeOK'
  <2>1. /\ points' \subseteq Points /\ seeded' \subseteq Tasks /\ events' \subseteq Event
        /\ counter' \in [Tasks -> Nat]
        /\ deletions' \in [Points -> Nat] /\ deletes' \in 0..MaxDeletes
    <3>1. counter' \in [Tasks -> Nat]
      <4>1. counter' = [t \in Tasks |-> IF t \in locked[w] THEN counter[t] + 1 ELSE counter[t]]
        BY <1>7 DEF Commit
      <4>2. \A t \in Tasks : counter[t] \in Nat
        BY DEF TypeOK
      <4>3. QED
        BY <4>1, <4>2
    <3>2. points' \subseteq Points /\ seeded' \subseteq Tasks /\ events' \subseteq Event
      BY <1>7 DEF TypeOK, Commit
    <3>3. QED
      BY <1>7, <3>1, <3>2 DEF TypeOK, Commit
  <2>2. /\ pc' \in [Workers -> {"idle", "seed", "insert", "commit"}]
        /\ batch' \in [Workers -> Seq(Points)]
        /\ toSeed' \in [Workers -> SUBSET Tasks]
        /\ seeds' \in [Workers -> SUBSET Tasks]
        /\ snapshot' \in [Workers -> SUBSET Tasks]
        /\ pos' \in [Workers -> Nat]
        /\ inserted' \in [Workers -> SUBSET Points]
        /\ locked' \in [Workers -> SUBSET Tasks]
        /\ written' \in [Workers -> SUBSET Event]
        /\ nextId' \in Nat /\ flushes' \in 0..MaxFlushes
    <3>1. EndTransaction(w)
      BY <1>7 DEF Commit
    <3>2. QED
      BY <3>1 DEF TypeOK, EndTransaction
  <2>3. QED
    BY <2>1, <2>2 DEF TypeOK
<1>8. ASSUME NEW w \in Workers, Rollback(w)
      PROVE  TypeOK'
  BY <1>8 DEF TypeOK, Rollback, EndTransaction
<1>9. ASSUME NEW S \in SUBSET points, DeleteExpired(S)
      PROVE  TypeOK'
  BY <1>9 DEF TypeOK, DeleteExpired
<1>10. CASE UNCHANGED vars
  BY <1>10 DEF TypeOK, vars
<1>11. QED
  BY <1>1, <1>2, <1>3, <1>4, <1>5, <1>6, <1>7, <1>8, <1>9, <1>10 DEF Next

-----------------------------------------------------------------------------
(* What a step does.                                                       *)

WorkerStep(w) ==
    \/ \E b \in Batches : Begin(w, b)
    \/ \E t \in Tasks : SeedCounter(w, t) \/ LockCounter(w, t)
    \/ StartPersist(w)
    \/ InsertPoint(w)
    \/ WriteEvents(w)
    \/ Commit(w)
    \/ Rollback(w)

\* A step is one worker's, retention's, or nobody's.
LEMMA NextSplit ==
    ASSUME [Next]_vars
    PROVE  \/ \E w \in Workers : WorkerStep(w)
           \/ \E S \in SUBSET points : DeleteExpired(S)
           \/ UNCHANGED vars
BY DEF Next, WorkerStep

\* What belongs to the transaction of w.
Own(w) == <<pc[w], batch[w], toSeed[w], seeds[w], snapshot[w], pos[w], inserted[w], locked[w], written[w]>>

\* A transaction is touched by its own worker only.
LEMMA OthersUntouched ==
    ASSUME TypeOK, NEW w \in Workers, WorkerStep(w), NEW v \in Workers, v # w
    PROVE  Own(v)' = Own(v)
BY DEF WorkerStep, TypeOK, Own, tables, Begin, SeedCounter, LockCounter, StartPersist, InsertPoint, WriteEvents,
       Commit, Rollback, EndTransaction

\* Only a commit changes counters, seeded rows and events; outbox ids grow.
LEMMA OnlyCommit ==
    ASSUME TypeOK, \A w \in Workers : Stages(w), [Next]_vars
    PROVE  /\ (\E w \in Workers : Commit(w)) \/ (counter' = counter /\ events' = events /\ seeded' = seeded)
           /\ seeded \subseteq seeded'
           /\ nextId <= nextId' /\ nextId \in Nat /\ nextId' \in Nat
<1>1. nextId \in Nat /\ nextId' \in Nat
  BY TypeStep DEF TypeOK
<1>2. (\E w \in Workers : Commit(w)) \/ (counter' = counter /\ events' = events /\ seeded' = seeded)
  BY DEF Next, vars, tables, Begin, SeedCounter, LockCounter, StartPersist, InsertPoint, WriteEvents,
         Rollback, DeleteExpired
<1>3. seeded \subseteq seeded'
  BY <1>2 DEF Commit
<1>4. (\E w \in Workers : WriteEvents(w)) \/ nextId' = nextId
  BY DEF Next, vars, tables, Begin, SeedCounter, LockCounter, StartPersist, InsertPoint, Commit,
         Rollback, EndTransaction, DeleteExpired
<1>5. nextId <= nextId'
  <2>1. ASSUME NEW w \in Workers, WriteEvents(w)
        PROVE  nextId <= nextId'
    BY <2>1, WrittenEvents
  <2>2. QED
    BY <1>1, <1>4, <2>1
<1>6. QED
  BY <1>1, <1>2, <1>3, <1>5

-----------------------------------------------------------------------------
(* Transactions.                                                           *)

\* A transaction that ended has nothing.
LEMMA EndStages ==
    ASSUME TypeOK, NEW w \in Workers, EndTransaction(w)
    PROVE  /\ Stages(w)'
           /\ inserted'[w] = {} /\ locked'[w] = {} /\ written'[w] = {} /\ pc'[w] = "idle"
<1>1. /\ pc'[w] = "idle" /\ inserted'[w] = {} /\ locked'[w] = {} /\ written'[w] = {} /\ pos'[w] = 1
  BY DEF TypeOK, EndTransaction
<1>2. QED
  BY <1>1 DEF Stages

\* The stages of the worker that takes a step.
LEMMA OwnStages ==
    ASSUME TypeOK, NEW w \in Workers, Stages(w), WorkerStep(w)
    PROVE  Stages(w)'
<1>1. ASSUME NEW b \in Batches, Begin(w, b)
      PROVE  Stages(w)'
  <2>1. /\ pc'[w] = "seed" /\ batch'[w] = b
        /\ toSeed'[w] = TasksOf({b[i] : i \in 1..Len(b)})
        /\ inserted'[w] = inserted[w] /\ locked'[w] = locked[w] /\ written'[w] = written[w]
        /\ pos'[w] = pos[w]
    BY <1>1 DEF TypeOK, Begin
  <2>2. pc[w] = "idle"
    BY <1>1 DEF Begin
  <2>3. BatchPoints(w)' = {b[i] : i \in 1..Len(b)}
    BY <2>1 DEF BatchPoints
  <2>4. TasksOf(BatchPoints(w))' = TasksOf({b[i] : i \in 1..Len(b)})
    BY <2>3 DEF TasksOf
  <2>5. inserted[w] = {} /\ written[w] = {} /\ locked[w] = {}
    BY <2>2 DEF Stages, TasksOf
  <2>6. QED
    BY <2>1, <2>4, <2>5 DEF Stages, TasksOf
<1>2. ASSUME NEW t \in Tasks, SeedCounter(w, t)
      PROVE  Stages(w)'
  <2>1. /\ toSeed'[w] = toSeed[w] \ {t}
        /\ seeds'[w] = (IF t \in seeded THEN seeds[w] ELSE seeds[w] \cup {t})
        /\ seeded' = seeded
        /\ UNCHANGED <<pc, batch, snapshot, pos, inserted, locked, written>>
    BY <1>2 DEF TypeOK, SeedCounter, tables
  <2>2. TasksOf(BatchPoints(w))' = TasksOf(BatchPoints(w)) /\ BatchPoints(w)' = BatchPoints(w)
    BY <2>1 DEF BatchPoints, TasksOf
  <2>3. toSeed[w] \cup seeded \cup seeds[w] \subseteq toSeed'[w] \cup seeded' \cup seeds'[w]
    BY <2>1
  <2>4. QED
    BY <2>1, <2>2, <2>3 DEF Stages, TasksOf
<1>3. ASSUME NEW t \in Tasks, LockCounter(w, t)
      PROVE  Stages(w)'
  <2>1. /\ pc[w] = "insert"
        /\ locked'[w] = locked[w] \cup {t} /\ t \in TasksOf(inserted[w])
        /\ UNCHANGED <<pc, batch, toSeed, seeds, seeded, snapshot, pos, inserted, written>>
    BY <1>3 DEF TypeOK, LockCounter, PayloadTasks, tables
  <2>2. TasksOf(BatchPoints(w))' = TasksOf(BatchPoints(w)) /\ BatchPoints(w)' = BatchPoints(w)
    BY <2>1 DEF BatchPoints, TasksOf
  <2>3. QED
    BY <2>1, <2>2 DEF Stages, TasksOf
<1>4. ASSUME StartPersist(w)
      PROVE  Stages(w)'
  <2>1. /\ pc[w] = "seed" /\ toSeed[w] = {} /\ pc'[w] = "insert"
        /\ snapshot'[w] = seeded \cup seeds[w]
        /\ UNCHANGED <<batch, toSeed, seeds, seeded, pos, inserted, locked, written>>
    BY <1>4 DEF TypeOK, StartPersist, tables
  <2>2. TasksOf(BatchPoints(w))' = TasksOf(BatchPoints(w)) /\ BatchPoints(w)' = BatchPoints(w)
    BY <2>1 DEF BatchPoints, TasksOf
  <2>3. QED
    BY <2>1, <2>2 DEF Stages, TasksOf
<1>5. ASSUME InsertPoint(w)
      PROVE  Stages(w)'
  <2> DEFINE p == batch[w][pos[w]]
  <2>1. /\ pc[w] = "insert" /\ pos[w] <= Len(batch[w]) /\ pos[w] \in Nat
        /\ pos'[w] = pos[w] + 1
        /\ inserted'[w] = (IF IsNew(p) THEN inserted[w] \cup {p} ELSE inserted[w])
        /\ UNCHANGED <<pc, batch, toSeed, seeds, seeded, snapshot, locked, written>>
    BY <1>5 DEF TypeOK, InsertPoint, tables
  <2>2. TasksOf(BatchPoints(w))' = TasksOf(BatchPoints(w)) /\ BatchPoints(w)' = BatchPoints(w)
    BY <2>1 DEF BatchPoints, TasksOf
  <2>3. p \in BatchPoints(w)
    <3>1. batch[w] \in Seq(Points)
      BY DEF TypeOK
    <3>2. pos[w] \in 1..Len(batch[w])
      BY <3>1, <2>1 DEF Stages
    <3>3. QED
      BY <3>2 DEF BatchPoints
  <2> HIDE DEF p
  <2>4. inserted[w] \subseteq inserted'[w] /\ inserted'[w] \subseteq BatchPoints(w)
    BY <2>1, <2>3 DEF Stages
  <2>5. locked'[w] \subseteq TasksOf(inserted[w])'
    BY <2>1, <2>4 DEF Stages, TasksOf
  <2>6. pos'[w] >= 1
    BY <2>1
  <2>7. QED
    BY <2>1, <2>2, <2>4, <2>5, <2>6 DEF Stages
<1>6. ASSUME WriteEvents(w)
      PROVE  Stages(w)'
  <2>1. /\ pc[w] = "insert" /\ pc'[w] = "commit"
        /\ PayloadTasks(w) \subseteq locked[w]
        /\ UNCHANGED <<batch, toSeed, seeds, seeded, snapshot, pos, inserted, locked>>
    BY <1>6 DEF TypeOK, WriteEvents, tables
  <2>2. TasksOf(BatchPoints(w))' = TasksOf(BatchPoints(w)) /\ BatchPoints(w)' = BatchPoints(w)
    BY <2>1 DEF BatchPoints, TasksOf
  <2>3. TasksOf(inserted[w]) \subseteq snapshot[w]
    BY <2>1 DEF Stages, TasksOf
  <2>4. TasksOf(inserted[w]) \subseteq locked[w]
    BY <2>1, <2>3 DEF PayloadTasks
  <2>5. QED
    BY <2>1, <2>2, <2>4 DEF Stages, TasksOf
<1>7. ASSUME Commit(w) \/ Rollback(w)
      PROVE  Stages(w)'
  BY <1>7, EndStages DEF Commit, Rollback
<1>8. QED
  BY <1>1, <1>2, <1>3, <1>4, <1>5, <1>6, <1>7 DEF WorkerStep

\* Every transaction keeps its stages.
LEMMA StagesStep ==
    ASSUME TypeOK, \A w \in Workers : Stages(w), [Next]_vars, NEW v \in Workers
    PROVE  Stages(v)'
<1>1. CASE Own(v)' = Own(v)
  <2>1. seeded \subseteq seeded'
    BY OnlyCommit
  <2>2. BatchPoints(v)' = BatchPoints(v) /\ TasksOf(BatchPoints(v))' = TasksOf(BatchPoints(v))
        /\ TasksOf(inserted[v])' = TasksOf(inserted[v])
    BY <1>1 DEF Own, BatchPoints, TasksOf
  <2>3. Stages(v)
    OBVIOUS
  <2>4. QED
    BY <1>1, <2>1, <2>2, <2>3 DEF Own, Stages
<1>2. ASSUME NEW w \in Workers, WorkerStep(w)
      PROVE  Stages(v)'
  BY <1>1, <1>2, OwnStages, OthersUntouched
<1>3. (\E S \in SUBSET points : DeleteExpired(S)) \/ UNCHANGED vars => Own(v)' = Own(v)
  BY DEF Own, DeleteExpired, vars
<1>4. QED
  BY <1>1, <1>2, <1>3, NextSplit

-----------------------------------------------------------------------------
(* Exclusion.                                                              *)

\* What a worker's step does to inserted points, locks and committed points.
LEMMA HoldingsStep ==
    ASSUME TypeOK, NEW w \in Workers, WorkerStep(w)
    PROVE  /\ \A p \in inserted'[w] \ inserted[w] :
                  p \notin points /\ points' = points /\ \A v \in Workers \ {w} : p \notin inserted[v]
           /\ \A t \in locked'[w] \ locked[w] : \A v \in Workers \ {w} : t \notin locked[v]
           /\ \/ points' = points
              \/ points' = points \cup inserted[w] /\ inserted'[w] = {}
<1>1. CASE InsertPoint(w)
  BY <1>1 DEF TypeOK, InsertPoint, IsNew, tables
<1>2. ASSUME NEW t \in Tasks, LockCounter(w, t)
      PROVE  /\ locked'[w] = locked[w] \cup {t} /\ \A v \in Workers \ {w} : t \notin locked[v]
             /\ inserted'[w] = inserted[w] /\ points' = points
  BY <1>2 DEF TypeOK, LockCounter, CounterFree, tables
<1>3. CASE Commit(w)
  BY <1>3, EndStages DEF Commit
<1>4. CASE Rollback(w)
  BY <1>4, EndStages DEF Rollback, tables
<1>5. CASE \/ \E b \in Batches : Begin(w, b)
           \/ \E t \in Tasks : SeedCounter(w, t)
           \/ StartPersist(w)
           \/ WriteEvents(w)
  <2>1. inserted' = inserted /\ locked' = locked /\ points' = points
    BY <1>5 DEF Begin, SeedCounter, StartPersist, WriteEvents, tables
  <2>2. QED
    BY <2>1
<1>6. QED
  BY <1>1, <1>2, <1>3, <1>4, <1>5 DEF WorkerStep

\* The primary key and FOR UPDATE keep transactions apart.
LEMMA ExclusiveStep ==
    ASSUME TypeOK, Exclusive, [Next]_vars
    PROVE  Exclusive'
<1>1. ASSUME NEW w \in Workers, WorkerStep(w)
      PROVE  Exclusive'
  <2>1. \A v \in Workers \ {w} : inserted'[v] = inserted[v] /\ locked'[v] = locked[v]
    BY <1>1, OthersUntouched DEF Own
  <2>2. ASSUME NEW v \in Workers \ {w}
        PROVE  /\ inserted'[v] \cap inserted'[w] = {}
               /\ locked'[v] \cap locked'[w] = {}
               /\ inserted'[v] \cap points' = {}
    BY <1>1, <2>1, HoldingsStep DEF Exclusive
  <2>3. inserted'[w] \cap points' = {}
    BY <1>1, HoldingsStep DEF Exclusive
  <2>4. \A u, v \in Workers : u # v /\ u # w /\ v # w =>
            inserted'[u] \cap inserted'[v] = {} /\ locked'[u] \cap locked'[v] = {}
    BY <2>1 DEF Exclusive
  <2>5. QED
    BY <2>2, <2>3, <2>4 DEF Exclusive
<1>2. ASSUME NEW S \in SUBSET points, DeleteExpired(S)
      PROVE  Exclusive'
  BY <1>2 DEF Exclusive, DeleteExpired
<1>3. CASE UNCHANGED vars
  BY <1>3 DEF Exclusive, vars
<1>4. QED
  BY <1>1, <1>2, <1>3, NextSplit

-----------------------------------------------------------------------------
(* Written and committed events.                                           *)

\* What a commit does to the counters and the events.
LEMMA CommitEffect ==
    ASSUME Inv, NEW w \in Workers, Commit(w)
    PROVE  /\ events' = events \cup written[w]
           /\ \A t \in Tasks : counter'[t] = IF t \in locked[w] THEN counter[t] + 1 ELSE counter[t]
           /\ \A t \in Tasks : counter[t] \in Nat
           /\ \A e \in events \cup written[w] : e \in Event /\ e.task \in Tasks /\ e.seq \in Nat \ {0} /\ e.id \in Nat
           /\ \A e \in written[w] : PendingEvent(w, e)
           /\ \A t \in locked[w] : \E e \in written[w] : e.task = t
           /\ \A e, f \in written[w] : e.task = f.task => e = f
           /\ locked[w] = TasksOf(inserted[w])
           /\ locked[w] \subseteq Tasks
<1>1. pc[w] = "commit" /\ Pending(w) /\ Stages(w)
  BY DEF Commit, Inv
<1>2. /\ events' = events \cup written[w]
      /\ \A t \in Tasks : counter'[t] = IF t \in locked[w] THEN counter[t] + 1 ELSE counter[t]
  BY DEF Commit
<1>3. /\ \A t \in Tasks : counter[t] \in Nat
      /\ events \cup written[w] \subseteq Event
      /\ locked[w] \subseteq Tasks
  BY DEF Inv, TypeOK
<1>4. \A e \in Event : e.task \in Tasks /\ e.seq \in Nat \ {0} /\ e.id \in Nat
  BY DEF Event
<1>5. QED
  BY <1>1, <1>2, <1>3, <1>4 DEF Pending, Stages

\* What the transaction that writes its events has then.
LEMMA PendingWrite ==
    ASSUME Inv, NEW w \in Workers, WriteEvents(w)
    PROVE  Pending(w)'
<1>1. PICK id \in [locked[w] -> Nat] :
          /\ \A t \in locked[w] : nextId <= id[t] /\ id[t] < nextId'
          /\ written' = [written EXCEPT ![w] =
                {[task |-> t, seq |-> counter[t] + 1,
                  payload |-> PointsOfTask(inserted[w], t), id |-> id[t]] : t \in locked[w]}]
  BY WrittenEvents DEF Inv
<1>2. /\ locked' = locked /\ counter' = counter /\ inserted' = inserted /\ events' = events
  BY DEF WriteEvents, tables
<1>3. written'[w] = {[task |-> t, seq |-> counter[t] + 1,
                      payload |-> PointsOfTask(inserted[w], t), id |-> id[t]] : t \in locked[w]}
  BY <1>1 DEF Inv, TypeOK
<1>4. ASSUME NEW e \in written'[w]
      PROVE  /\ e.task \in locked[w]
             /\ e.seq = counter[e.task] + 1
             /\ e.payload = PointsOfTask(inserted[w], e.task)
             /\ e.id = id[e.task]
  BY <1>3
<1>5. ASSUME NEW e \in written'[w], NEW f \in events
      PROVE  f.id < e.id
  <2>1. f.id < nextId /\ nextId <= e.id
    BY <1>1, <1>4, <1>5 DEF Inv, Drawn
  <2>2. f.id \in Nat /\ nextId \in Nat /\ e.id \in Nat
    BY <1>1, <1>4 DEF Inv, TypeOK, Event
  <2>3. QED
    BY <2>1, <2>2
<1>6. ASSUME NEW e \in written'[w]
      PROVE  PendingEvent(w, e)'
  BY <1>1, <1>2, <1>4, <1>5 DEF PendingEvent, PointsOfTask
<1>7. ASSUME NEW e \in written'[w], NEW f \in written'[w], e.task = f.task
      PROVE  e = f
  BY <1>3, <1>7
<1>8. ASSUME NEW t \in locked'[w]
      PROVE  \E e \in written'[w] : e.task = t
  <2> DEFINE e == [task |-> t, seq |-> counter[t] + 1,
                   payload |-> PointsOfTask(inserted[w], t), id |-> id[t]]
  <2>1. e \in written'[w] /\ e.task = t
    BY <1>2, <1>3
  <2>2. QED
    BY <2>1
<1>9. QED
  BY <1>6, <1>7, <1>8 DEF Pending

\* The events of a transaction that does not commit stay pending: a commit of
\* another touches neither their counters nor the events of their tasks.
LEMMA PendingKept ==
    ASSUME Inv, [Next]_vars, NEW v \in Workers, written'[v] = written[v], locked'[v] = locked[v],
           inserted'[v] = inserted[v], pc'[v] = pc[v]
    PROVE  Pending(v)'
<1>1. ASSUME NEW e \in written[v]
      PROVE  PendingEvent(v, e)'
  <2>1. PendingEvent(v, e) /\ e.task \in Tasks /\ e.id \in Nat
    BY DEF Inv, Pending, TypeOK, Event
  <2>2. e.id < nextId'
    BY <2>1, OnlyCommit DEF Inv, PendingEvent
  <2>3. counter'[e.task] = counter[e.task] /\ \A f \in events' : f.task = e.task => f \in events
    <3>1. CASE counter' = counter /\ events' = events
      BY <3>1
    <3>2. ASSUME NEW w \in Workers, Commit(w)
          PROVE  counter'[e.task] = counter[e.task] /\ \A f \in events' : f.task = e.task => f \in events
      <4>1. CASE w = v
        BY <3>2, <4>1, EndStages DEF Commit, Inv, TypeOK
      <4>2. CASE w # v
        <5>1. e.task \notin locked[w]
          BY <4>2, <2>1 DEF Inv, Exclusive, PendingEvent
        <5>2. QED
          BY <5>1, <3>2, <2>1, CommitEffect DEF PendingEvent
      <4>3. QED
        BY <4>1, <4>2
    <3>3. QED
      BY <3>1, <3>2, OnlyCommit DEF Inv
  <2>4. QED
    BY <2>1, <2>2, <2>3 DEF PendingEvent, PointsOfTask
<1>2. QED
  BY <1>1 DEF Pending, Inv

\* Pending events stay so in every step.
LEMMA PendingStep ==
    ASSUME Inv, [Next]_vars, NEW v \in Workers
    PROVE  Pending(v)'
<1>1. CASE Own(v)' = Own(v)
  BY <1>1, PendingKept DEF Own
<1>2. CASE pc'[v] # "commit"
  <2>1. Stages(v)'
    BY StagesStep DEF Inv
  <2>2. written'[v] = {}
    BY <1>2, <2>1 DEF Stages
  <2>3. QED
    BY <1>2, <2>2 DEF Pending
<1>3. ASSUME WorkerStep(v)
      PROVE  Pending(v)'
  <2>1. WriteEvents(v) \/ pc'[v] # "commit"
    BY <1>3 DEF WorkerStep, Begin, SeedCounter, LockCounter, StartPersist, InsertPoint, Commit, Rollback,
                EndTransaction, Inv, TypeOK
  <2>2. QED
    BY <1>2, <2>1, PendingWrite
<1>4. ASSUME NEW w \in Workers, WorkerStep(w)
      PROVE  Pending(v)'
  BY <1>1, <1>3, <1>4, OthersUntouched DEF Inv
<1>5. (\E S \in SUBSET points : DeleteExpired(S)) \/ UNCHANGED vars => Own(v)' = Own(v)
  BY DEF Own, DeleteExpired, vars
<1>6. QED
  BY <1>1, <1>4, <1>5, NextSplit

\* Numbers stay contiguous, ids stay drawn and follow the numbers.
LEMMA EventsStep ==
    ASSUME Inv, [Next]_vars
    PROVE  Contiguous' /\ Drawn' /\ OutboxFollowsSequence'
<1>1. CASE counter' = counter /\ events' = events
  <2>1. Drawn'
    <3>1. \A e \in events : e.id \in Nat /\ e.id < nextId
      BY DEF Inv, Drawn, TypeOK, Event
    <3>2. nextId <= nextId' /\ nextId \in Nat /\ nextId' \in Nat
      BY OnlyCommit DEF Inv
    <3>3. QED
      BY <1>1, <3>1, <3>2 DEF Drawn
  <2>2. QED
    BY <1>1, <2>1 DEF Inv, Contiguous, OutboxFollowsSequence
<1>2. ASSUME NEW w \in Workers, Commit(w)
      PROVE  Contiguous' /\ Drawn' /\ OutboxFollowsSequence'
  <2> DEFINE new == written[w]
  <2>1. /\ events' = events \cup new
        /\ \A t \in Tasks : counter'[t] = IF t \in locked[w] THEN counter[t] + 1 ELSE counter[t]
        /\ \A t \in Tasks : counter[t] \in Nat
        /\ \A e \in events \cup new : e.task \in Tasks /\ e.seq \in Nat \ {0} /\ e.id \in Nat
        /\ \A t \in locked[w] : \E e \in new : e.task = t
        /\ \A e, f \in new : e.task = f.task => e = f
    BY <1>2, CommitEffect
  <2>2. \A e \in new : /\ e.task \in locked[w]
                       /\ e.seq = counter[e.task] + 1
                       /\ e.id < nextId
                       /\ \A f \in events : f.task = e.task => f.id < e.id
    BY <1>2, CommitEffect DEF PendingEvent
  <2>3. \A e \in events : e.seq <= counter[e.task] /\ e.id < nextId
    BY DEF Inv, Contiguous, Drawn
  <2> HIDE DEF new
  <2>4. nextId' = nextId
    BY <1>2 DEF Commit, EndTransaction
  <2>5. Drawn'
    BY <2>1, <2>2, <2>3, <2>4 DEF Drawn
  <2>6. OutboxFollowsSequence'
    <3>1. SUFFICES ASSUME NEW e \in events \cup new, NEW f \in events \cup new, e.task = f.task, e.seq < f.seq
                   PROVE  e.id < f.id
      BY <2>1 DEF OutboxFollowsSequence
    <3>2. CASE e \in new /\ f \in events
      BY <2>1, <2>2, <2>3, <3>1, <3>2
    <3>3. CASE e \in events /\ f \in new
      BY <2>2, <3>1, <3>3
    <3>4. CASE e \in new /\ f \in new
      BY <2>1, <3>1, <3>4
    <3>5. CASE e \in events /\ f \in events
      BY <3>1, <3>5 DEF Inv, OutboxFollowsSequence
    <3>6. QED
      BY <3>2, <3>3, <3>4, <3>5
  <2>7. ASSUME NEW e \in events \cup new
        PROVE  e.seq <= counter'[e.task]
    BY <2>1, <2>2, <2>3
  <2>8. ASSUME NEW e \in events \cup new, NEW f \in events \cup new, e.task = f.task, e.seq = f.seq
        PROVE  e = f
    <3>1. CASE e \in new /\ f \in new
      BY <2>1, <2>8, <3>1
    <3>2. CASE e \in events /\ f \in events
      BY <2>8, <3>2 DEF Inv, Contiguous
    <3>3. CASE e \in events /\ f \in new
      BY <2>1, <2>2, <2>3, <2>8, <3>3
    <3>4. CASE e \in new /\ f \in events
      BY <2>1, <2>2, <2>3, <2>8, <3>4
    <3>5. QED
      BY <3>1, <3>2, <3>3, <3>4
  <2>9. ASSUME NEW t \in Tasks, NEW n \in 1..counter'[t]
        PROVE  \E e \in events \cup new : e.task = t /\ e.seq = n
    <3>1. CASE n \in 1..counter[t]
      BY <3>1 DEF Inv, Contiguous
    <3>2. CASE n \notin 1..counter[t]
      <4>1. t \in locked[w] /\ n = counter[t] + 1
        BY <2>1, <2>9, <3>2
      <4>2. QED
        BY <4>1, <2>1, <2>2
    <3>3. QED
      BY <3>1, <3>2
  <2>10. QED
    BY <2>1, <2>5, <2>6, <2>7, <2>8, <2>9 DEF Contiguous
<1>3. QED
  BY <1>1, <1>2, OnlyCommit DEF Inv

\* The new event that announces a point: there is one if the transaction has
\* inserted the point, and none otherwise.
LEMMA NewAnnouncements ==
    ASSUME Inv, NEW w \in Workers, Commit(w), NEW p \in Points
    PROVE  /\ p \notin inserted[w] => {e \in written[w] : p \in e.payload} = {}
           /\ p \in inserted[w] => \E e : /\ {f \in written[w] : p \in f.payload} = {e}
                                          /\ e \notin events
<1>1. \A e \in written[w] : e.payload = PointsOfTask(inserted[w], e.task) /\ e.seq = counter[e.task] + 1
  BY CommitEffect DEF PendingEvent
<1>2. ASSUME p \in inserted[w]
      PROVE  \E e : {f \in written[w] : p \in f.payload} = {e} /\ e \notin events
  <2>1. TaskOf[p] \in locked[w]
    BY <1>2, CommitEffect DEF TasksOf
  <2>2. PICK e \in written[w] : e.task = TaskOf[p]
    BY <2>1, CommitEffect
  <2>3. p \in e.payload
    BY <1>1, <1>2, <2>2 DEF PointsOfTask
  <2>4. \A f \in written[w] : p \in f.payload => f.task = TaskOf[p]
    BY <1>1 DEF PointsOfTask
  <2>5. {f \in written[w] : p \in f.payload} = {e}
    BY <2>2, <2>3, <2>4, CommitEffect
  <2>6. e \notin events
    <3>1. e.seq = counter[e.task] + 1 /\ counter[e.task] \in Nat
      BY <1>1, <2>2, CommitEffect
    <3>2. QED
      BY <3>1 DEF Inv, Contiguous
  <2>7. QED
    BY <2>5, <2>6
<1>3. QED
  BY <1>1, <1>2 DEF PointsOfTask

\* Announcements stay in step with the points and their deletions.
LEMMA AnnouncedStep ==
    ASSUME Inv, [Next]_vars
    PROVE  Announced'
<1> DEFINE A(p) == {e \in events : p \in e.payload}
<1>1. \A p \in Points : IsFiniteSet(A(p)) /\ Cardinality(A(p)) \in Nat /\ deletions[p] \in Nat
  <2>1. \A p \in Points : IsFiniteSet(A(p)) /\ deletions[p] \in Nat
    BY DEF Inv, Announced, TypeOK
  <2>2. QED
    BY <2>1, FS_CardinalityType
<1>2. \A p \in Points : Cardinality(A(p)) = deletions[p] + (IF p \in points THEN 1 ELSE 0)
  BY DEF Inv, Announced
<1>3. ASSUME NEW w \in Workers, Commit(w)
      PROVE  Announced'
  <2>1. /\ events' = events \cup written[w] /\ deletions' = deletions
        /\ points' = points \cup inserted[w]
    BY <1>3 DEF Commit
  <2>2. ASSUME NEW p \in Points
        PROVE  /\ IsFiniteSet({e \in events' : p \in e.payload})
               /\ Cardinality({e \in events' : p \in e.payload})
                     = deletions'[p] + (IF p \in points' THEN 1 ELSE 0)
    <3> DEFINE S == A(p)
    <3>1. IsFiniteSet(S) /\ Cardinality(S) \in Nat
          /\ Cardinality(S) = deletions[p] + (IF p \in points THEN 1 ELSE 0)
      BY <1>1, <1>2
    <3>2. {e \in events' : p \in e.payload} = S \cup {e \in written[w] : p \in e.payload}
      BY <2>1
    <3>3. CASE p \notin inserted[w]
      <4>1. {e \in events' : p \in e.payload} = S
        BY <3>2, <3>3, <1>3, NewAnnouncements
      <4>2. QED
        BY <4>1, <3>1, <3>3, <2>1
    <3>4. CASE p \in inserted[w]
      <4>1. PICK e : {f \in written[w] : p \in f.payload} = {e} /\ e \notin events
        BY <3>4, <1>3, NewAnnouncements
      <4>2. {f \in events' : p \in f.payload} = S \cup {e} /\ e \notin S
        BY <3>2, <4>1
      <4>3. p \notin points /\ p \in points'
        BY <3>4, <2>1 DEF Inv, Exclusive
      <4> HIDE DEF S
      <4>4. IsFiniteSet(S \cup {e}) /\ Cardinality(S \cup {e}) = Cardinality(S) + 1
        BY <3>1, <4>2, FS_AddElement
      <4>5. deletions[p] \in Nat
        BY <1>1
      <4>6. Cardinality(S \cup {e}) = deletions'[p] + 1
        BY <3>1, <4>3, <4>4, <4>5, <2>1
      <4>7. QED
        BY <4>2, <4>3, <4>4, <4>6
    <3>5. QED
      BY <3>3, <3>4
  <2>3. ASSUME NEW e \in events'
        PROVE  e.payload # {} /\ TasksOf(e.payload) = {e.task}
    <3>1. CASE e \in events
      BY <3>1 DEF Inv, Announced
    <3>2. CASE e \in written[w]
      <4>1. e.payload = PointsOfTask(inserted[w], e.task) /\ e.task \in TasksOf(inserted[w])
        BY <3>2, <1>3, CommitEffect DEF PendingEvent
      <4>2. QED
        BY <4>1 DEF PointsOfTask, TasksOf
    <3>3. QED
      BY <2>1, <3>1, <3>2
  <2>4. QED
    BY <2>2, <2>3 DEF Announced, TasksOf
<1>4. ASSUME NEW S \in SUBSET points, DeleteExpired(S)
      PROVE  Announced'
  <2>1. /\ events' = events /\ points' = points \ S
        /\ deletions' = [p \in Points |-> IF p \in S THEN deletions[p] + 1 ELSE deletions[p]]
    BY <1>4 DEF DeleteExpired
  <2>2. ASSUME NEW p \in Points
        PROVE  Cardinality(A(p)) = deletions'[p] + (IF p \in points' THEN 1 ELSE 0)
    <3> DEFINE n == Cardinality(A(p))
    <3>1. n = deletions[p] + (IF p \in points THEN 1 ELSE 0) /\ deletions[p] \in Nat
      BY <1>1, <1>2
    <3> HIDE DEF n
    <3>2. n = deletions'[p] + (IF p \in points' THEN 1 ELSE 0)
      BY <2>1, <3>1
    <3>3. QED
      BY <3>2 DEF n
  <2>3. QED
    BY <2>1, <2>2, <1>1 DEF Inv, Announced, TasksOf
<1>5. ASSUME events' = events, points' = points, deletions' = deletions
      PROVE  Announced'
  BY <1>5 DEF Inv, Announced, TasksOf
<1>6. \/ \E w \in Workers : Commit(w)
      \/ \E S \in SUBSET points : DeleteExpired(S)
      \/ events' = events /\ points' = points /\ deletions' = deletions
  BY DEF Next, vars, tables, Begin, SeedCounter, LockCounter, StartPersist, InsertPoint, WriteEvents, Rollback
<1>7. QED
  BY <1>3, <1>4, <1>5, <1>6

-----------------------------------------------------------------------------
(* The theorems.                                                           *)

\* Inv holds in every state.
LEMMA InvInvariant == Spec => []Inv
<1>1. ASSUME Init
      PROVE  Inv
  <2> USE <1>1, StoreAssumption
  <2>1. TypeOK
    BY DEF Init, TypeOK
  <2>2. Contiguous /\ Drawn /\ OutboxFollowsSequence
    BY DEF Init, Contiguous, Drawn, OutboxFollowsSequence
  <2>3. Announced
    <3>1. \A p \in Points : {e \in events : p \in e.payload} = {} /\ deletions[p] = 0 /\ p \notin points
      BY DEF Init
    <3>2. QED
      BY <3>1, FS_EmptySet DEF Init, Announced
  <2>4. \A w \in Workers : Stages(w) /\ Pending(w)
    BY DEF Init, Stages, Pending, TasksOf, BatchPoints
  <2>5. Exclusive
    BY DEF Init, Exclusive
  <2>6. QED
    BY <2>1, <2>2, <2>3, <2>4, <2>5 DEF Inv
<1>2. ASSUME Inv, [Next]_vars
      PROVE  Inv'
  BY <1>2, TypeStep, StagesStep, ExclusiveStep, PendingStep, EventsStep, AnnouncedStep DEF Inv
<1>3. QED
  BY <1>1, <1>2, PTL DEF Spec

\* The tables and the transactions are well-formed in every state.
THEOREM TypeCorrect == Spec => []TypeOK
BY InvInvariant, PTL DEF Inv

\* The committed events of a task are numbered without gap or repetition.
THEOREM EventsContiguousAlways == Spec => []EventsContiguous
<1>1. Inv => EventsContiguous
  <2>1. SUFFICES ASSUME Inv, NEW t \in Tasks
                 PROVE  {e.seq : e \in {f \in events : f.task = t}} = 1..counter[t]
    BY DEF EventsContiguous, Inv, Contiguous
  <2>2. \A e \in events : e.seq \in Nat \ {0}
    BY <2>1 DEF Inv, TypeOK, Event
  <2>3. counter[t] \in Nat
    BY <2>1 DEF Inv, TypeOK
  <2>4. \A e \in events : e.task = t => e.seq \in 1..counter[t]
    BY <2>1, <2>2, <2>3 DEF Inv, Contiguous
  <2>5. \A n \in 1..counter[t] : \E e \in events : e.task = t /\ e.seq = n
    BY <2>1 DEF Inv, Contiguous
  <2>6. QED
    BY <2>4, <2>5
<1>2. QED
  BY <1>1, InvInvariant, PTL

\* The outbox ids of a task follow its event numbers.
THEOREM OutboxFollowsSequenceAlways == Spec => []OutboxFollowsSequence
BY InvInvariant, PTL DEF Inv

\* A point is announced exactly once for each time it is stored.
THEOREM AnnouncedOnceAlways == Spec => []AnnouncedOncePerStore
<1>1. Inv => AnnouncedOncePerStore
  BY DEF Inv, Announced, AnnouncedOncePerStore
<1>2. QED
  BY <1>1, InvInvariant, PTL

-----------------------------------------------------------------------------
(* The transactions implement EventLog.                                    *)

\* The log of a task that the refinement mapping shows.
LogOf(t) == [n \in 1..counter[t] |-> Payload(t, n)]

\* A function on 1..n is a sequence of length n.
LEMMA FunctionIsSequence ==
    ASSUME NEW S, NEW n \in Nat, NEW f \in [1..n -> S]
    PROVE  f \in Seq(S) /\ Len(f) = n
OBVIOUS

\* The payload of an event is what the log shows at its number.
LEMMA PayloadOf ==
    ASSUME Contiguous, NEW e \in events
    PROVE  Payload(e.task, e.seq) = e.payload
<1>1. \A f \in events : f.task = e.task /\ f.seq = e.seq <=> f = e
  BY DEF Contiguous
<1>2. (CHOOSE f \in events : f.task = e.task /\ f.seq = e.seq) = e
  BY <1>1
<1>3. QED
  BY <1>2 DEF Payload

\* The log of a task is a sequence of sets of points, as long as its counter.
LEMMA LogIsSequence ==
    ASSUME Inv, NEW t \in Tasks
    PROVE  /\ LogOf(t) \in Seq(SUBSET Points) /\ Len(LogOf(t)) = counter[t]
           /\ \A n \in 1..counter[t] : Payload(t, n) \in SUBSET Points
<1>1. counter[t] \in Nat
  BY DEF Inv, TypeOK
<1>2. ASSUME NEW n \in 1..counter[t]
      PROVE  Payload(t, n) \in SUBSET Points
  <2>1. PICK e \in events : e.task = t /\ e.seq = n
    BY DEF Inv, Contiguous
  <2>2. e.payload \in SUBSET Points
    BY DEF Inv, TypeOK, Event
  <2>3. QED
    BY <2>1, <2>2, PayloadOf DEF Inv
<1>3. LogOf(t) \in [1..counter[t] -> SUBSET Points]
  BY <1>2 DEF LogOf
<1>4. QED
  BY <1>1, <1>2, <1>3, FunctionIsSequence

\* A committed event keeps its place in the log.
LEMMA PayloadKept ==
    ASSUME Inv, Inv', [Next]_vars, NEW t \in Tasks, NEW n \in 1..counter[t]
    PROVE  Payload(t, n)' = Payload(t, n)
<1>1. PICK e \in events : e.task = t /\ e.seq = n
  BY DEF Inv, Contiguous
<1>2. e \in events'
  BY OnlyCommit DEF Inv, Commit
<1>3. Payload(t, n) = e.payload
  BY <1>1, PayloadOf DEF Inv
<1>4. \A f \in events' : f.task = t /\ f.seq = n <=> f = e
  BY <1>1, <1>2 DEF Inv, Contiguous
<1>5. (CHOOSE f \in events' : f.task = t /\ f.seq = n) = e
  BY <1>2, <1>4
<1>6. QED
  BY <1>3, <1>5 DEF Payload

\* A commit appends to the log of each task with new points exactly those.
LEMMA CommitAppends ==
    ASSUME Inv, Inv', [Next]_vars, NEW w \in Workers, Commit(w), NEW t \in Tasks
    PROVE  LogOf(t)' = IF PointsOfTask(inserted[w], t) = {} THEN LogOf(t)
                       ELSE Append(LogOf(t), PointsOfTask(inserted[w], t))
<1> DEFINE new == PointsOfTask(inserted[w], t)
<1>1. counter[t] \in Nat /\ new \in SUBSET Points
  BY DEF Inv, TypeOK, PointsOfTask
<1>2. new # {} <=> t \in locked[w]
  BY CommitEffect DEF PointsOfTask, TasksOf
<1>3. \A n \in 1..counter[t] : Payload(t, n)' = Payload(t, n)
  BY PayloadKept
<1>4. CASE t \notin locked[w]
  <2>1. counter'[t] = counter[t]
    BY <1>4, CommitEffect
  <2>2. LogOf(t)' = LogOf(t)
    BY <2>1, <1>3 DEF LogOf
  <2>3. QED
    BY <2>2, <1>2, <1>4
<1>5. CASE t \in locked[w]
  <2>0. PICK k \in Nat : k = counter[t] + 1
    BY <1>1
  <2>1. counter'[t] = k
    BY <1>5, <2>0, CommitEffect
  <2>2. PICK e \in written[w] : e.task = t
    BY <1>5, CommitEffect
  <2>3. e \in events' /\ e.seq = k /\ e.payload = new
    BY <2>0, <2>2, CommitEffect DEF PendingEvent
  <2>4. Payload(t, k)' = new
    <3>1. \A f \in events' : f.task = t /\ f.seq = k <=> f = e
      BY <2>2, <2>3 DEF Inv, Contiguous
    <3>2. (CHOOSE f \in events' : f.task = t /\ f.seq = k) = e
      BY <2>3, <3>1
    <3>3. QED
      BY <3>2, <2>3 DEF Payload
  <2> DEFINE l == LogOf(t)
             m == LogOf(t)'
  <2>5. l \in Seq(SUBSET Points) /\ Len(l) = counter[t]
    BY LogIsSequence
  <2>6. m \in Seq(SUBSET Points) /\ Len(m) = k
    <3>1. m = [n \in 1..k |-> Payload(t, n)']
      BY <2>1 DEF LogOf
    <3>2. \A n \in 1..k : Payload(t, n)' \in SUBSET Points
      <4>1. \A n \in 1..counter[t] : Payload(t, n) \in SUBSET Points
        BY LogIsSequence
      <4>2. \A n \in 1..k : n = k \/ n \in 1..counter[t]
        BY <2>0, <1>1
      <4>3. QED
        BY <4>1, <4>2, <1>1, <1>3, <2>4
    <3>3. m \in [1..k -> SUBSET Points]
      BY <3>1, <3>2
    <3> HIDE DEF m
    <3>4. QED
      BY <3>3, FunctionIsSequence
  <2>7. \A n \in 1..counter[t] : m[n] = l[n]
    BY <2>0, <2>1, <1>1, <1>3 DEF LogOf
  <2>8. m[k] = new
    BY <2>0, <2>1, <2>4, <1>1 DEF LogOf
  <2> HIDE DEF l, m, new
  <2>9. /\ Append(l, new) \in Seq(SUBSET Points) /\ Len(Append(l, new)) = k
        /\ \A n \in 1..counter[t] : Append(l, new)[n] = l[n]
        /\ Append(l, new)[k] = new
    BY <2>0, <2>5, <1>1, AppendProperties
  <2>10. \A n \in 1..k : m[n] = Append(l, new)[n]
    BY <2>0, <2>7, <2>8, <2>9, <1>1
  <2>11. m = Append(l, new)
    BY <2>6, <2>9, <2>10, SeqEqual
  <2>12. QED
    BY <2>11, <1>2, <1>5 DEF l, m, new
<1>6. QED
  BY <1>4, <1>5

\* Every step of the transactions and of retention is a flush, an expiry or
\* nothing to EventLog.
LEMMA LogStep ==
    ASSUME Inv, Inv', [Next]_vars
    PROVE  [Log!Next]_(Log!vars)
<1>1. ASSUME NEW w \in Workers, Commit(w)
      PROVE  Log!Next
  <2>1. inserted[w] \in SUBSET Points /\ inserted[w] \cap points = {}
    BY DEF Inv, TypeOK, Exclusive
  <2>2. points' = points \cup inserted[w]
    BY <1>1 DEF Commit
  <2>3. \A t \in Tasks : LogOf(t)' = IF PointsOfTask(inserted[w], t) = {} THEN LogOf(t)
                                     ELSE Append(LogOf(t), PointsOfTask(inserted[w], t))
    BY <1>1, CommitAppends
  <2>4. [t \in Tasks |-> LogOf(t)]' =
            [t \in Tasks |-> IF PointsOfTask(inserted[w], t) = {} THEN [u \in Tasks |-> LogOf(u)][t]
                             ELSE Append([u \in Tasks |-> LogOf(u)][t], PointsOfTask(inserted[w], t))]
    BY <2>3
  <2>5. PICK new \in SUBSET Points : new = inserted[w]
    BY <2>1
  <2>6. Log!Flush(new)
    BY <2>1, <2>2, <2>4, <2>5 DEF Log!Flush, Log!PointsOfTask, PointsOfTask, LogOf
  <2>7. QED
    BY <2>6 DEF Log!Next
<1>2. ASSUME NEW S \in SUBSET points, DeleteExpired(S)
      PROVE  Log!Next
  <2>1. S \in SUBSET Points
    BY DEF Inv, TypeOK
  <2>2. Log!Expire(S)
    BY <1>2 DEF DeleteExpired, Log!Expire, Payload
  <2>3. QED
    BY <2>1, <2>2 DEF Log!Next
<1>3. ASSUME events' = events, counter' = counter, points' = points
      PROVE  UNCHANGED Log!vars
  BY <1>3 DEF Log!vars, Payload
<1>4. \/ \E w \in Workers : Commit(w)
      \/ \E S \in SUBSET points : DeleteExpired(S)
      \/ events' = events /\ counter' = counter /\ points' = points
  BY DEF Next, vars, tables, Begin, SeedCounter, LockCounter, StartPersist, InsertPoint, WriteEvents, Rollback
<1>5. QED
  BY <1>1, <1>2, <1>3, <1>4

\* The interleaved transactions of any number of workers, with rollbacks and
\* retention at any moment, implement the atomic append of EventLog.
THEOREM Refinement == Spec => ImplementsEventLog
<1>1. Init => Log!Init
  <2>1. SUFFICES ASSUME Init PROVE Log!Init
    OBVIOUS
  <2>2. ASSUME NEW t \in Tasks
        PROVE  [n \in 1..counter[t] |-> Payload(t, n)] = <<>>
    <3> DEFINE l == [n \in 1..counter[t] |-> Payload(t, n)]
    <3>1. counter[t] = 0
      BY <2>1 DEF Init
    <3>2. l \in [1..0 -> {}]
      BY <3>1
    <3> HIDE DEF l
    <3>3. l \in Seq({}) /\ Len(l) = 0
      BY <3>2, FunctionIsSequence
    <3>4. l = <<>>
      BY <3>3, EmptySeq
    <3>5. QED
      BY <3>4 DEF l
  <2>3. QED
    BY <2>1, <2>2 DEF Init, Log!Init
<1>2. Inv /\ Inv' /\ [Next]_vars => [Log!Next]_(Log!vars)
  BY LogStep
<1>3. QED
  BY <1>1, <1>2, InvInvariant, PTL DEF Spec, ImplementsEventLog, Log!Spec
=============================================================================
