-------------------------- MODULE MetricPointStore --------------------------
(***************************************************************************)
(* MetricPointStore.Flush: concurrent READ COMMITTED transactions of       *)
(* several workers that insert metric points and append one event per task *)
(* to metric_events and metric_outbox.                                     *)
(*                                                                         *)
(* A transaction runs two statements.  The first seeds the counter rows of *)
(* its tasks.  The second, one data-modifying CTE, sees the counter rows   *)
(* that were committed when it started (and the transaction's own); it     *)
(* inserts the points, locks the counters of the tasks that really gained  *)
(* points in task order, increments them and inserts the events.           *)
(*                                                                         *)
(* PostgreSQL is modelled from how the SQL uses it: an INSERT meeting an   *)
(* uncommitted row with the same key waits for that transaction to end, a  *)
(* row lock is held to the end of the transaction, and a transaction in a  *)
(* wait cycle is aborted.                                                  *)
(*                                                                         *)
(* Retention deletes points meanwhile.  It deletes old events too, which   *)
(* is left out: events holds every event there ever was.                   *)
(***************************************************************************)
EXTENDS Integers, Sequences, FiniteSets

CONSTANTS
    Workers,     \* the processes that flush; each runs one transaction at a time
    Tasks,       \* task ids; a set of integers, for their sort order
    Points,      \* metric points, identified by (task_id, key, step, ts)
    TaskOf,      \* the task of each point
    Batches,     \* the batches a flush may be called with: sequences of points
    MaxFlushes,  \* bound: flushes begun
    MaxDeletes   \* bound: calls of retention that delete points

ASSUME StoreAssumption ==
    /\ Tasks \subseteq Int
    /\ TaskOf \in [Points -> Tasks]
    /\ Batches \subseteq Seq(Points)
    /\ MaxFlushes \in Nat /\ MaxDeletes \in Nat

VARIABLES
    \* committed tables
    points,      \* metric_points
    seeded,      \* tasks with a row in task_event_counters
    counter,     \* last_event_seq; 0 for a task without a row
    events,      \* metric_events and metric_outbox, which get the same rows:
                 \* the task, event_seq, payload and outbox id of each event
    deletions,   \* how often retention deleted each point (history variable)
    deletes,     \* calls of retention that deleted points
    nextId,      \* the identity sequence of metric_outbox, not transactional
    \* transactions
    pc,          \* where Flush stands
    batch,       \* its points
    toSeed,      \* tasks the first statement has not reached yet
    seeds,       \* counter rows inserted and not committed
    snapshot,    \* counter rows the second statement sees
    pos,         \* next element of batch to insert
    inserted,    \* points inserted and not committed
    locked,      \* tasks whose counter row is locked
    written,     \* events inserted and not committed
    flushes      \* flushes begun

tables == <<points, seeded, counter, events, deletions, deletes>>
vars == <<points, seeded, counter, events, deletions, deletes, nextId, pc, batch, toSeed, seeds,
          snapshot, pos, inserted, locked, written, flushes>>

Event == [task : Tasks, seq : Nat \ {0}, payload : SUBSET Points, id : Nat]

PointsOfTask(S, t) == {p \in S : TaskOf[p] = t}
TasksOf(S) == {TaskOf[p] : p \in S}

Init ==
    /\ points = {}
    /\ seeded = {}
    /\ counter = [t \in Tasks |-> 0]
    /\ events = {}
    /\ deletions = [p \in Points |-> 0]
    /\ deletes = 0
    /\ nextId = 1
    /\ pc = [w \in Workers |-> "idle"]
    /\ batch = [w \in Workers |-> <<>>]
    /\ toSeed = [w \in Workers |-> {}]
    /\ seeds = [w \in Workers |-> {}]
    /\ snapshot = [w \in Workers |-> {}]
    /\ pos = [w \in Workers |-> 1]
    /\ inserted = [w \in Workers |-> {}]
    /\ locked = [w \in Workers |-> {}]
    /\ written = [w \in Workers |-> {}]
    /\ flushes = 0

-----------------------------------------------------------------------------

\* encodeMetricPoints and BeginTx; an empty batch returns at once.
Begin(w, b) ==
    /\ pc[w] = "idle"
    /\ b # <<>>
    /\ flushes < MaxFlushes
    /\ flushes' = flushes + 1
    /\ pc' = [pc EXCEPT ![w] = "seed"]
    /\ batch' = [batch EXCEPT ![w] = b]
    /\ toSeed' = [toSeed EXCEPT ![w] = TasksOf({b[i] : i \in 1..Len(b)})]
    /\ UNCHANGED <<tables, nextId, seeds, snapshot, pos, inserted, locked, written>>

\* seed_task_event_counters.sql for one task (DISTINCT gives no order).
SeedCounter(w, t) ==
    /\ pc[w] = "seed"
    /\ t \in toSeed[w]
    /\ \A v \in Workers \ {w} : t \notin seeds[v]
    /\ toSeed' = [toSeed EXCEPT ![w] = @ \ {t}]
    /\ seeds' = [seeds EXCEPT ![w] = IF t \in seeded THEN @ ELSE @ \cup {t}]
    /\ UNCHANGED <<tables, nextId, pc, batch, snapshot, pos, inserted, locked, written, flushes>>

\* persist_metric_flush.sql starts, with a snapshot of its own.
StartPersist(w) ==
    /\ pc[w] = "seed"
    /\ toSeed[w] = {}
    /\ snapshot' = [snapshot EXCEPT ![w] = seeded \cup seeds[w]]
    /\ pc' = [pc EXCEPT ![w] = "insert"]
    /\ UNCHANGED <<tables, nextId, batch, toSeed, seeds, pos, inserted, locked, written, flushes>>

\* Mutant: a point that is already there is returned as inserted.
BugIsNew(p) == TRUE

\* ON CONFLICT (task_id, key, step, ts)
IsNew(p) == p \notin points

\* inserted: one row; ON CONFLICT DO NOTHING.
InsertPoint(w) ==
    LET p == batch[w][pos[w]]
    IN  /\ pc[w] = "insert"
        /\ pos[w] <= Len(batch[w])
        /\ \A v \in Workers \ {w} : p \notin inserted[v]
        /\ pos' = [pos EXCEPT ![w] = @ + 1]
        /\ inserted' = [inserted EXCEPT ![w] = IF IsNew(p) THEN @ \cup {p} ELSE @]
        /\ UNCHANGED <<tables, nextId, pc, batch, toSeed, seeds, snapshot, locked, written, flushes>>

\* Mutant: the join does not see the counters this transaction seeded.
BugPayloadTasks(w) == TasksOf(inserted[w]) \cap seeded

\* The tasks task_payloads JOIN task_event_counters yields.
PayloadTasks(w) == TasksOf(inserted[w]) \cap snapshot[w]

\* Mutant: no FOR UPDATE.
BugCounterFree(w, t) == TRUE

\* FOR UPDATE OF counters waits for the transaction that holds the row.
CounterFree(w, t) == \A v \in Workers \ {w} : t \notin locked[v]

\* locked_counters: the next row in task order.
LockCounter(w, t) ==
    /\ pc[w] = "insert"
    /\ pos[w] > Len(batch[w])
    /\ t \in PayloadTasks(w) \ locked[w]
    /\ \A u \in PayloadTasks(w) \ locked[w] : t <= u
    /\ CounterFree(w, t)
    /\ locked' = [locked EXCEPT ![w] = @ \cup {t}]
    /\ UNCHANGED <<tables, nextId, pc, batch, toSeed, seeds, snapshot, pos, inserted, written, flushes>>

\* Mutant: an event gets the number before the increment.
BugNextSeq(t) == counter[t]

NextSeq(t) == counter[t] + 1

\* Mutant: identities come from cached blocks, in any order.
BugDrawIds(S) ==
    {id \in [S -> 1..(nextId + Cardinality(S) - 1)] : \A t, u \in S : t # u => id[t] # id[u]}

\* The identity column of metric_outbox: the next numbers, in some order.
DrawIds(S) ==
    {id \in [S -> nextId..(nextId + Cardinality(S) - 1)] : \A t, u \in S : t # u => id[t] # id[u]}

\* sequenced, events and outbox: increment the locked counters and insert
\* the events.
WriteEvents(w) ==
    /\ pc[w] = "insert"
    /\ pos[w] > Len(batch[w])
    /\ PayloadTasks(w) \subseteq locked[w]
    /\ \E id \in DrawIds(locked[w]) :
          written' = [written EXCEPT ![w] =
                {[task |-> t, seq |-> NextSeq(t),
                  payload |-> PointsOfTask(inserted[w], t), id |-> id[t]] : t \in locked[w]}]
    /\ nextId' = nextId + Cardinality(locked[w])
    /\ pc' = [pc EXCEPT ![w] = "commit"]
    /\ UNCHANGED <<tables, batch, toSeed, seeds, snapshot, pos, inserted, locked, flushes>>

\* The transaction ends: its locks and uncommitted rows are gone.
EndTransaction(w) ==
    /\ pc' = [pc EXCEPT ![w] = "idle"]
    /\ batch' = [batch EXCEPT ![w] = <<>>]
    /\ toSeed' = [toSeed EXCEPT ![w] = {}]
    /\ seeds' = [seeds EXCEPT ![w] = {}]
    /\ snapshot' = [snapshot EXCEPT ![w] = {}]
    /\ pos' = [pos EXCEPT ![w] = 1]
    /\ inserted' = [inserted EXCEPT ![w] = {}]
    /\ locked' = [locked EXCEPT ![w] = {}]
    /\ written' = [written EXCEPT ![w] = {}]
    /\ UNCHANGED <<nextId, flushes>>

Commit(w) ==
    /\ pc[w] = "commit"
    /\ points' = points \cup inserted[w]
    /\ seeded' = seeded \cup seeds[w]
    /\ counter' = [t \in Tasks |-> IF t \in locked[w] THEN counter[t] + 1 ELSE counter[t]]
    /\ events' = events \cup written[w]
    /\ EndTransaction(w)
    /\ UNCHANGED <<deletions, deletes>>

\* An error of any step, a deadlock victim, a done context or the death of
\* the worker: the deferred Rollback, or PostgreSQL's own.
Rollback(w) ==
    /\ pc[w] # "idle"
    /\ EndTransaction(w)
    /\ UNCHANGED tables

\* maintain_metric_retention: committed points S have expired and are dropped
\* with their partition or deleted.
DeleteExpired(S) ==
    /\ S # {}
    /\ deletes < MaxDeletes
    /\ deletes' = deletes + 1
    /\ points' = points \ S
    /\ deletions' = [p \in Points |-> IF p \in S THEN deletions[p] + 1 ELSE deletions[p]]
    /\ UNCHANGED <<seeded, counter, events, nextId, pc, batch, toSeed, seeds, snapshot, pos,
                   inserted, locked, written, flushes>>

Next ==
    \/ \E w \in Workers :
        \/ \E b \in Batches : Begin(w, b)
        \/ \E t \in Tasks : SeedCounter(w, t) \/ LockCounter(w, t)
        \/ StartPersist(w)
        \/ InsertPoint(w)
        \/ WriteEvents(w)
        \/ Commit(w)
        \/ Rollback(w)
    \/ \E S \in SUBSET points : DeleteExpired(S)

Spec == Init /\ [][Next]_vars

-----------------------------------------------------------------------------
(* Properties.                                                             *)

\* The tables and the transactions are well-formed; an event number is never 0,
\* since last_event_seq is incremented before it is used.
TypeOK ==
    /\ points \subseteq Points
    /\ seeded \subseteq Tasks
    /\ counter \in [Tasks -> Nat]
    /\ events \subseteq Event
    /\ deletions \in [Points -> Nat]
    /\ deletes \in 0..MaxDeletes
    /\ nextId \in Nat
    /\ pc \in [Workers -> {"idle", "seed", "insert", "commit"}]
    /\ batch \in [Workers -> Seq(Points)]
    /\ toSeed \in [Workers -> SUBSET Tasks]
    /\ seeds \in [Workers -> SUBSET Tasks]
    /\ snapshot \in [Workers -> SUBSET Tasks]
    /\ pos \in [Workers -> Nat]
    /\ inserted \in [Workers -> SUBSET Points]
    /\ locked \in [Workers -> SUBSET Tasks]
    /\ written \in [Workers -> SUBSET Event]
    /\ flushes \in 0..MaxFlushes

\* The committed events of a task are numbered 1, 2, ... without gap or
\* repetition at every moment, so that a reader that saw event n has missed
\* nothing before it; a rolled back number is used again.
EventsContiguous ==
    \A t \in Tasks :
        /\ {e.seq : e \in {f \in events : f.task = t}} = 1..counter[t]
        /\ \A e, f \in events : e.task = t /\ f.task = t /\ e.seq = f.seq => e = f

\* Each time a point becomes durable it is announced once, in an event of its
\* task, whichever flushes carried it: a redelivered point is announced again
\* only if retention deleted it in between.
AnnouncedOncePerStore ==
    /\ \A p \in Points :
        Cardinality({e \in events : p \in e.payload})
            = deletions[p] + (IF p \in points THEN 1 ELSE 0)
    /\ \A e \in events : e.payload # {} /\ TasksOf(e.payload) = {e.task}

\* The outbox ids of a task follow its event numbers, so relaying by id
\* never overtakes within a task.
OutboxFollowsSequence ==
    \A e, f \in events : e.task = f.task /\ e.seq < f.seq => e.id < f.id

\* The payload of event n of task t.
Payload(t, n) == (CHOOSE e \in events : e.task = t /\ e.seq = n).payload

Log == INSTANCE EventLog
    WITH log <- [t \in Tasks |-> [n \in 1..counter[t] |-> Payload(t, n)]]

\* The interleaved transactions implement the atomic append.
ImplementsEventLog == Log!Spec
=============================================================================
