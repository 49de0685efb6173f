------------------------------ MODULE Pipeline ------------------------------
(***************************************************************************)
(* The way of a batch from POST to the queries: API, queue, worker, table. *)
(* The publisher, the consumer and the transactions have modules of their  *)
(* own (IngestPublisher, MetricConsumer, MetricPointStore) and are reduced *)
(* here to what they promise: a request answered with 200 is queued; a     *)
(* queued message may be stored in part or more than once, in any order    *)
(* with the others, and leaves the queue once it is stored or rejected.    *)
(***************************************************************************)
EXTENDS MetricQueries

CONSTANTS
    Requests,        \* the requests other clients than the simulator send
    MaxPosts,        \* bound: how many of them
    Foreign,         \* deliveries of other publishers than this API
    HistoryQueries,  \* parameters of history requests
    Cutoffs          \* now - 168h

\* Whatever a body says, decoding it yields values of the types it is decoded
\* into; only in a request is a metric that is null told from one that is 0.
ASSUME PipelineAssumption ==
    /\ \A r \in Requests : IsBatch(r.batch, Int \cup {Null})
    /\ \A d \in Foreign : IsBatch(d.body.batch, Int)

VARIABLES
    queue,        \* deliveries of the ingest queue not acked yet
    deadLetters,  \* deliveries rejected without requeue
    points,       \* metric_points
    posts         \* requests of other clients so far

pipelineVars == <<queue, deadLetters, points, posts>>

PipelineInit ==
    /\ queue = {}
    /\ deadLetters = {}
    /\ points = {}
    /\ posts = 0

\* GenerateMessageID.  Ids tell equal messages apart; nothing compares the
\* ids of different ones.
MessageID(batch) ==
    LET same == {d \in queue : d.body.task = batch.task /\ d.body.batch = batch.samples}
    IN  CHOOSE id \in 1..(Cardinality(same) + 1) : \A d \in same : d.messageID # id

\* IngestMetricBatch up to the confirm of the broker.
Publish(r) ==
    LET batch == ToMetricBatch(r)
    IN  queue' = queue \cup {MarshalIngestPublishing(NewIngestMessage(batch, MessageID(batch)))}

\* IngestMetrics: 400 changes nothing.
IngestMetrics(r) ==
    /\ posts < MaxPosts
    /\ Accepts(r)
    /\ Publish(r)
    /\ posts' = posts + 1
    /\ UNCHANGED <<deadLetters, points>>

\* Another publisher, or an API of another version.
PublishForeign(d) ==
    /\ posts < MaxPosts
    /\ queue' = queue \cup {d}
    /\ posts' = posts + 1
    /\ UNCHANGED <<deadLetters, points>>

\* A delivery that is not valid is nacked without requeue.
Reject(d) ==
    /\ ~ValidDelivery(d)
    /\ queue' = queue \ {d}
    /\ deadLetters' = deadLetters \cup {d}
    /\ UNCHANGED <<points, posts>>

Rows(d) == ExpandMetricPoints(d.body)

Stored(rows) == \A r \in ToSet(rows) : \E p \in points : Identity(p) = Identity(r)

\* A flush that holds the first rows of the message.
Flush(d, rows) ==
    /\ ~Stored(rows)
    /\ ValidDelivery(d)
    /\ \A r \in ToSet(rows) : Encodable(r) /\ FitsTable(r)
    /\ points' = Insert(points, rows)
    /\ UNCHANGED <<queue, deadLetters, posts>>

\* The message is acked after its last row.
Ack(d) ==
    /\ Stored(Rows(d))
    /\ ValidDelivery(d)
    /\ queue' = queue \ {d}
    /\ UNCHANGED <<deadLetters, points, posts>>

PipelineNext ==
    \E d \in queue :
        \/ Reject(d)
        \/ Ack(d)
        \/ \E rows \in Prefixes(Rows(d)) : Flush(d, rows)

\* What workers that run keep doing: they store a queued message whole in the
\* end and settle it (MetricConsumer: EventuallySettled); the flushes on the
\* way are theirs to choose.
WorkerProgress ==
    \E d \in queue :
        \/ \E rows \in {Rows(d)} : Flush(d, rows)
        \/ Ack(d)
        \/ Reject(d)

-----------------------------------------------------------------------------
(* Properties.                                                             *)

\* What the API accepted is accepted everywhere behind it: the worker
\* dead-letters none of it, encodeMetricPoints refuses no row, the table
\* refuses one only for want of a partition for its day (its flush then fails
\* again and again, see PastWindowStorable), never for its columns, and the
\* queries take the task id and the keys it was stored under.
AcceptedIsStorable ==
    /\ deadLetters \subseteq Foreign
    /\ \A d \in queue \ Foreign :
        /\ ValidDelivery(d)
        /\ \A r \in ToSet(Rows(d)) : Encodable(r) /\ (HasPartition(r) => FitsTable(r))
    /\ \A p \in points : ValidTaskID(p.task) /\ ValidMetricKey(p.key)

\* A task that has points gets its history: a valid request is answered with
\* series, and beyond max_points with downsampled ones.
HistoryAnswered ==
    \A cutoff \in Cutoffs : \A q \in HistoryQueries :
        ValidHistoryQuery(q) /\ Exists(points, cutoff, q.task) =>
            LET r == QueryMetrics(points, cutoff, q)
            IN  /\ r.status = 200
                /\ Oversized(Filtered(points, cutoff, q), MaxPoints(q)) # {} => r.body.downsampled

\* Whenever a history request is answered (by the embedded statement it never
\* is, see HistoryAnswered): however the points of the keys lie in time, no
\* series is longer than max_points, although all oversized keys share one
\* bucket width; and a series that was cut stands for every point it covers.
SeriesWithinLimit ==
    \A cutoff \in Cutoffs : \A q \in HistoryQueries :
        LET r == QueryMetrics(points, cutoff, q)
            h == r.body
            S == Filtered(points, cutoff, q)
        IN  r.status = 200 =>
                /\ \A k \in DOMAIN h.series :
                    /\ Cardinality(h.series[k]) <= MaxPoints(q)
                    /\ MapThenSumSet(LAMBDA b : b.count, h.series[k]) = Cardinality(OfKey(S, k))
                /\ h.downsampled <=> \E k \in DOMAIN h.series : \E b \in h.series[k] : b.count > 1

\* The summary of a task agrees with its history, whenever that is answered:
\* on the keys, on the extremes however coarse the buckets are, and on the
\* latest value, step and time when nothing is cut, also where a later point
\* has a smaller step.
SummaryAgreesWithHistory ==
    \A cutoff \in Cutoffs : \A t \in {q.task : q \in HistoryQueries} : \A n \in {1, 2, Null} :
        LET s == QuerySummary(points, cutoff, t)
            r == QueryMetrics(points, cutoff,
                    [task |-> t, keys |-> Null, from |-> Null, to |-> Null,
                     stepFrom |-> Null, stepTo |-> Null, maxPoints |-> n])
            h == r.body
            all == UNION {h.series[k] : k \in DOMAIN h.series}
        IN  r.status = 200 =>
                /\ DOMAIN s.metrics = DOMAIN h.series
                /\ \A k \in DOMAIN h.series :
                    /\ s.metrics[k].min = Min({b.min : b \in h.series[k]})
                    /\ s.metrics[k].max = Max({b.max : b \in h.series[k]})
                /\ ~h.downsampled =>
                    /\ \A k \in DOMAIN h.series : \E b \in h.series[k] :
                        /\ s.metrics[k].last = b.sum
                        /\ \A c \in h.series[k] : ~Earlier(b, c)
                    /\ \E b \in all :
                        /\ s.lastStep = b.step /\ s.updatedAt = b.ts
                        /\ \A c \in all : ~Earlier(b, c)
=============================================================================
