---------------------------- MODULE IngestCodec ----------------------------
(***************************************************************************)
(* What becomes of an ingest request on its way to the table: the checks   *)
(* of the HTTP handler, the message, the checks of the worker, the rows    *)
(* and the constraints of metric_points.  Each place states its limits     *)
(* itself; nothing in the code makes them agree.                           *)
(*                                                                         *)
(* A request has the media type of its header, the kind of its body and,   *)
(* where the body is one JSON object of the known fields, a task and a     *)
(* batch of samples.  A number may be absent or null.  JSON has no         *)
(* infinities and no NaN, and a number beyond float64 is malformed.        *)
(***************************************************************************)
EXTENDS Integers, Sequences, FiniteSets, SequencesExt

CONSTANTS
    Names,               \* task ids and metric keys, numbered in string order
    Length,              \* their lengths in bytes
    TaskIDPattern,       \* the names that match taskIDPattern
    MetricKeyPattern,    \* the names that match metricKeyPattern
    MaxBatchSize,        \* 500 in the handler, the worker and the simulator
    MaxInt32,            \* math.MaxInt32 and the limit of a PostgreSQL integer
    MaxTimestampMillis,  \* the last millisecond of the year 9999
    Unpartitioned,       \* times of the days of the window that have no partition now
    Null

ASSUME CodecAssumption ==
    /\ Names \subseteq Nat /\ IsFiniteSet(Names)
    /\ Length \in [Names -> Nat]
    /\ MetricKeyPattern \subseteq Names
    /\ TaskIDPattern \subseteq MetricKeyPattern
    /\ MaxBatchSize \in Nat /\ MaxInt32 \in Nat /\ MaxTimestampMillis \in Nat
    /\ Unpartitioned \subseteq Int
    /\ Null \notin Int

\* A sample as decoding leaves it, with metric values in V: the pointers may
\* be nil.
IsSample(s, V) ==
    /\ s \in [step : Int \cup {Null}, ts : Int \cup {Null}, metrics : [DOMAIN s.metrics -> V]]
    /\ DOMAIN s.metrics \subseteq Names

IsBatch(b, V) == b \in Seq(ToSet(b)) /\ \A i \in DOMAIN b : IsSample(b[i], V)

-----------------------------------------------------------------------------
(* The HTTP handler.                                                       *)

\* taskIDPattern and maxTaskIDLength
ValidTaskID(t) == t \in TaskIDPattern /\ Length[t] \in 1..64

ValidMetricKey(k) == k \in MetricKeyPattern /\ Length[k] \in 1..32

ValidSampleRequest(s) ==
    /\ s.step # Null /\ s.step >= 0 /\ s.step <= MaxInt32
    /\ s.ts # Null /\ s.ts > 0 /\ s.ts <= MaxTimestampMillis
    /\ DOMAIN s.metrics # {}
    /\ \A k \in DOMAIN s.metrics : ValidMetricKey(k)

ValidRequest(r) ==
    /\ ValidTaskID(r.task)
    /\ Len(r.batch) \in 1..MaxBatchSize
    /\ \A i \in DOMAIN r.batch : ValidSampleRequest(r.batch[i])

\* decodeIngestMetricsRequest: one object, known fields, at most 1 MiB.
Decodes(r) == r.body = "object"

\* hasJSONContentType
HasJSONContentType(r) == r.mediaType = "application/json"

\* IngestMetrics gets as far as its service.
Accepts(r) == HasJSONContentType(r) /\ Decodes(r) /\ ValidRequest(r)

\* ToMetricBatch.  Decoding leaves the float64 of a null metric at zero.
ToMetricBatch(r) ==
    [task |-> r.task,
     samples |-> [i \in DOMAIN r.batch |->
        [r.batch[i] EXCEPT !.metrics = [k \in DOMAIN @ |-> IF @[k] = Null THEN 0 ELSE @[k]]]]]

-----------------------------------------------------------------------------
(* The message.                                                            *)

IngestSchemaVersion == 1

NewIngestMessage(batch, id) ==
    [schemaVersion |-> IngestSchemaVersion, messageID |-> id, correlationID |-> id,
     task |-> batch.task, batch |-> batch.samples]

MarshalIngestPublishing(m) ==
    [contentType |-> "application/json",
     messageID |-> m.messageID, correlationID |-> m.correlationID,
     headers |-> [schemaVersion |-> m.schemaVersion, messageID |-> m.messageID,
                  correlationID |-> m.correlationID],
     body |-> m]

\* Mutant: the worker leaves out the largest step.
BugMaxStepValue == MaxInt32 - 1

\* maxStepValue of the worker
MaxStepValue == MaxInt32

\* The checks of DecodeIngestMessage.
ValidIngestMessage(m) ==
    /\ m.schemaVersion = IngestSchemaVersion
    /\ m.task \in TaskIDPattern /\ Length[m.task] \in 1..64
    /\ Len(m.batch) \in 1..MaxBatchSize
    /\ \A i \in DOMAIN m.batch :
        LET s == m.batch[i]
        IN  /\ s.step # Null /\ s.step >= 0 /\ s.step <= MaxStepValue
            /\ s.ts # Null /\ s.ts > 0 /\ s.ts <= MaxTimestampMillis
            /\ DOMAIN s.metrics # {}
            /\ \A k \in DOMAIN s.metrics : k \in MetricKeyPattern /\ Length[k] \in 1..32

\* validateDelivery: properties and headers repeat what the body says.
ValidDelivery(d) ==
    /\ d.contentType = "application/json"
    /\ ValidIngestMessage(d.body)
    /\ d.messageID = d.body.messageID /\ d.correlationID = d.body.correlationID
    /\ d.headers = [schemaVersion |-> IngestSchemaVersion, messageID |-> d.body.messageID,
                    correlationID |-> d.body.correlationID]

-----------------------------------------------------------------------------
(* The rows.                                                               *)

\* sort.Strings: the j-th of a set of keys.
SortedKey(K, j) == CHOOSE k \in K : Cardinality({l \in K : l < k}) = j - 1

\* ExpandMetricPoints: a row per metric, the keys of a sample in order.
ExpandMetricPoints(m) ==
    FlattenSeq([i \in DOMAIN m.batch |->
        LET s == m.batch[i]
            K == DOMAIN s.metrics
        IN  [j \in 1..Cardinality(K) |->
                LET k == SortedKey(K, j)
                IN  [task |-> m.task, key |-> k, step |-> s.step, ts |-> s.ts,
                     value |-> s.metrics[k]]]])

\* The range encodeMetricPoints can convert to int32.
Encodable(p) == p.step >= 0 /\ p.step <= MaxInt32

\* The column types and CHECK constraints of metric_points.
FitsColumns(p) == Length[p.task] <= 64 /\ Length[p.key] <= 32 /\ p.step \in 0..MaxInt32

\* metric_points is partitioned by day.  A flush makes a missing partition
\* outside the window only, and the maintenance leaves a day of the window
\* without one (PartitionMaintenance: PastWindowStorable).
HasPartition(p) == p.ts \notin Unpartitioned

\* An INSERT of the row succeeds.
FitsTable(p) == FitsColumns(p) /\ HasPartition(p)

Identity(p) == <<p.task, p.key, p.step, p.ts>>

\* INSERT ... ON CONFLICT DO NOTHING: of two rows with one identity, the
\* earlier stays.
Insert(table, rows) ==
    table \cup {rows[i] : i \in {j \in DOMAIN rows :
        /\ \A p \in table : Identity(p) # Identity(rows[j])
        /\ \A h \in 1..(j - 1) : Identity(rows[h]) # Identity(rows[j])}}
=============================================================================
