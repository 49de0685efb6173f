------------------------ MODULE PartitionMaintenance ------------------------
(***************************************************************************)
(* Daily partitions and retention: RunPartitionMaintenance and             *)
(* MaintainRetention (internal/storage/postgres/partition_maintainer.go),  *)
(* the SQL functions they call, and the partitions a flush relies on       *)
(* (ensureMetricPointPartitions in metric_point_store.go).                 *)
(*                                                                         *)
(* Time is counted in slots, SlotsPerDay of them per UTC day.  A row is    *)
(* its timestamp.  The SQL calls are atomic: an advisory lock serialises   *)
(* them.                                                                   *)
(***************************************************************************)
EXTENDS Integers, FiniteSets

CONSTANTS
    Workers,
    Timestamps,     \* timestamps of the points producers may send
    SlotsPerDay,
    PastDays,       \* partitionPastDays: 8
    FutureDays,     \* partitionFutureDays: 2
    RetentionDays,  \* retentionWindow: 168 hours
    BatchSize,      \* rows one retention call deletes
    Start, End,     \* bound: the period modelled
    MaxLagDays      \* bound: days between two passes (the ticker fires hourly)

ASSUME PartitionAssumption ==
    /\ Timestamps \subseteq Int
    /\ {SlotsPerDay, BatchSize} \subseteq Nat \ {0}
    /\ {PastDays, FutureDays, RetentionDays, MaxLagDays} \subseteq Nat
    /\ RetentionDays <= PastDays
    /\ Start \in Int /\ End \in Int /\ Start <= End

VARIABLES
    now,
    partitions,  \* days with a partition of metric_points
    rows,        \* timestamps stored
    flushed,     \* timestamps flushed so far (bound: each is flushed once)
    pc,          \* where each worker's start-up and maintenance goroutine stand
    ensured,     \* day of each worker's last ensure
    cutoff       \* cutoff of the pass under way

vars == <<now, partitions, rows, flushed, pc, ensured, cutoff>>

Day(t) == t \div SlotsPerDay
Window(day) == (day - PastDays)..(day + FutureDays)
Expired(t) == t < now - RetentionDays * SlotsPerDay

Init ==
    /\ now = Start
    /\ partitions = {}
    /\ rows = {}
    /\ flushed = {}
    /\ pc = [w \in Workers |-> "boot"]
    /\ ensured = [w \in Workers |-> Day(Start)]
    /\ cutoff = [w \in Workers |-> Start]

\* ensure_metric_daily_partitions
EnsureWindow == partitions' = partitions \cup Window(Day(now))

\* Start-up of the worker, before its goroutines run.
Boot(w) ==
    /\ pc[w] = "boot"
    /\ EnsureWindow
    /\ pc' = [pc EXCEPT ![w] = "maintain"]
    /\ ensured' = [ensured EXCEPT ![w] = Day(now)]
    /\ UNCHANGED <<now, rows, flushed, cutoff>>

Cutoff == now - RetentionDays * SlotsPerDay

\* A pass begins with the partitions ...
EnsurePartitions(w) ==
    /\ pc[w] = "maintain"
    /\ EnsureWindow
    /\ pc' = [pc EXCEPT ![w] = "cutoff"]
    /\ ensured' = [ensured EXCEPT ![w] = Day(now)]
    /\ UNCHANGED <<now, rows, flushed, cutoff>>

\* ... and looks at the clock once more, for the cutoff of all its calls.
FixCutoff(w) ==
    /\ pc[w] = "cutoff"
    /\ pc' = [pc EXCEPT ![w] = "retain"]
    /\ cutoff' = [cutoff EXCEPT ![w] = Cutoff]
    /\ UNCHANGED <<now, partitions, rows, flushed, ensured>>

\* Mutant: the day of the cutoff is dropped too.
BugDroppedDays(c) == {d \in partitions : d <= Day(c)}

\* maintain_metric_retention drops the days before the day of the cutoff ...
DroppedDays(c) == {d \in partitions : d < Day(c)}

\* Mutant: the row at the cutoff is deleted too.
BugDeletedRows(c, kept) ==
    LET expired == {t \in kept : t <= c}
    IN  {t \in expired : Cardinality({u \in expired : u < t}) < BatchSize}

\* ... and deletes the oldest rows before the cutoff, at most BatchSize.
DeletedRows(c, kept) ==
    LET expired == {t \in kept : t < c}
    IN  {t \in expired : Cardinality({u \in expired : u < t}) < BatchSize}

\* One call; the pass ends with a call that deletes less than a full batch.
RetainBatch(w) ==
    LET kept == {t \in rows : Day(t) \notin DroppedDays(cutoff[w])}
        deleted == DeletedRows(cutoff[w], kept)
    IN  /\ pc[w] = "retain"
        /\ partitions' = partitions \ DroppedDays(cutoff[w])
        /\ rows' = kept \ deleted
        /\ pc' = [pc EXCEPT ![w] = IF Cardinality(deleted) < BatchSize THEN "wait" ELSE @]
        /\ UNCHANGED <<now, flushed, ensured, cutoff>>

\* Mutant: the cutoff of the first pass is kept for the next ones.
BugTickerFires(w) ==
    /\ pc[w] = "wait"
    /\ pc' = [pc EXCEPT ![w] = "retain"]
    /\ UNCHANGED <<now, partitions, rows, flushed, ensured, cutoff>>

TickerFires(w) ==
    /\ pc[w] = "wait"
    /\ pc' = [pc EXCEPT ![w] = "maintain"]
    /\ UNCHANGED <<now, partitions, rows, flushed, ensured, cutoff>>

\* ensureMetricPointPartitions makes a partition only for a day outside the
\* window, and trusts the maintenance for the others.
PartitionsForFlush(t) ==
    IF Day(t) \in Window(Day(now)) THEN partitions ELSE partitions \cup {Day(t)}

\* A flush of one point; without a partition it fails and changes nothing.
Flush(t) ==
    /\ \E w \in Workers : pc[w] # "boot"
    /\ t \notin flushed
    /\ Day(t) \in PartitionsForFlush(t)
    /\ partitions' = PartitionsForFlush(t)
    /\ rows' = rows \cup {t}
    /\ flushed' = flushed \cup {t}
    /\ UNCHANGED <<now, pc, ensured, cutoff>>

TimePasses ==
    /\ now < End
    /\ \A w \in Workers : pc[w] # "boot" => Day(now + 1) <= ensured[w] + MaxLagDays
    /\ now' = now + 1
    /\ UNCHANGED <<partitions, rows, flushed, pc, ensured, cutoff>>

WorkerStep(w) ==
    \/ Boot(w)
    \/ EnsurePartitions(w)
    \/ FixCutoff(w)
    \/ RetainBatch(w)
    \/ TickerFires(w)

Next ==
    \/ \E w \in Workers : WorkerStep(w)
    \/ \E t \in Timestamps : Flush(t)
    \/ TimePasses

Spec == Init /\ [][Next]_vars

\* Workers start and their maintenance goroutine keeps running.
Fairness == \A w \in Workers : WF_vars(WorkerStep(w))

FairSpec == Spec /\ Fairness

-----------------------------------------------------------------------------
(* Properties.                                                             *)

\* The maintenance state is well-formed, and a pass never works with a cutoff in
\* the future.
TypeOK ==
    /\ now \in Start..End
    /\ partitions \subseteq Int
    /\ rows \subseteq flushed
    /\ flushed \subseteq Timestamps
    /\ pc \in [Workers -> {"boot", "maintain", "cutoff", "retain", "wait"}]
    /\ ensured \in [Workers -> Int]
    /\ cutoff \in [Workers -> Int]
    /\ \A w \in Workers : cutoff[w] <= now

\* Retention takes no row that is still inside the 168 hours, neither by
\* dropping a day nor row by row, however old the cutoff of a pass is.
RetainedIsKept == [][\A t \in rows : t \notin rows' => Expired(t)]_vars

\* A point whose timestamp is inside the 168 hours, or on the current or the
\* next day, always finds its partition, also while passes of several
\* workers and midnight interleave.
RecentStorable ==
    (\E w \in Workers : pc[w] # "boot") =>
        (Day(now) - RetentionDays)..(Day(now) + FutureDays - MaxLagDays) \subseteq partitions

\* Each of the past days the flush does not create a partition for has one:
\* the maintenance keeps the window of days it announces.
PastWindowStorable ==
    (\E w \in Workers : pc[w] # "boot") =>
        (Day(now) - PastDays)..Day(now) \subseteq partitions

\* A row that has left the 168 hours is deleted in the end.
ExpiredIsDeleted == \A t \in Timestamps : (t \in rows /\ Expired(t)) ~> t \notin rows
=============================================================================
