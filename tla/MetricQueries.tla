--------------------------- MODULE MetricQueries ---------------------------
(***************************************************************************)
(* The read side of the API over a set of stored points: history with      *)
(* downsampling, summary and audit.  cutoff is now - 168h.  An average is  *)
(* given as its sum and count.                                             *)
(***************************************************************************)
EXTENDS IngestCodec

CONSTANTS
    MissingLimit,     \* the widest span of steps the audit searches for gaps
    HistoryStatement  \* query_metric_history.sql as it is "embedded", or
                      \* "repaired": without its five // lines

ASSUME QueriesAssumption == HistoryStatement \in {"embedded", "repaired"}

OfTask(table, t) == {p \in table : p.task = t}
KeysOf(S) == {p.key : p \in S}
OfKey(S, k) == {p \in S : p.key = k}
Values(S) == {p.value : p \in S}
Times(S) == {p.ts : p \in S}
Steps(S) == {p.step : p \in S}

\* ORDER BY ts, step
Earlier(p, q) == p.ts < q.ts \/ (p.ts = q.ts /\ p.step < q.step)
First(S) == CHOOSE p \in S : \A q \in S \ {p} : Earlier(p, q)

-----------------------------------------------------------------------------
(* GET /tasks/:task_id/metrics                                             *)

\* parseHistoryQuery: keys is a sequence, the other parameters a number or Null.
ValidHistoryQuery(q) ==
    /\ ValidTaskID(q.task)
    /\ q.keys # Null => q.keys # <<>> /\ \A i \in DOMAIN q.keys : ValidMetricKey(q.keys[i])
    /\ \A x \in {q.from, q.to} \ {Null} : x > 0 /\ x <= MaxTimestampMillis
    /\ \A x \in {q.stepFrom, q.stepTo} \ {Null} : x >= 0 /\ x <= MaxInt32
    /\ Null \notin {q.from, q.to} => q.from < q.to
    /\ Null \notin {q.stepFrom, q.stepTo} => q.stepFrom <= q.stepTo
    /\ q.maxPoints # Null => q.maxPoints \in 1..5000

MaxPoints(q) == IF q.maxPoints = Null THEN 500 ELSE q.maxPoints

\* filtered
Filtered(table, cutoff, q) ==
    {p \in OfTask(table, q.task) :
        /\ p.ts >= cutoff
        /\ q.keys # Null => \E i \in DOMAIN q.keys : p.key = q.keys[i]
        /\ q.from # Null => p.ts >= q.from
        /\ q.to # Null => p.ts < q.to
        /\ q.stepFrom # Null => p.step >= q.stepFrom
        /\ q.stepTo # Null => p.step <= q.stepTo}

\* stats: the keys with more points than may be returned.
Oversized(S, n) == {k \in KeysOf(S) : Cardinality(OfKey(S, k)) > n}

Span(S) == Max(Times(S)) - Min(Times(S))

\* Mutant: the width without the millisecond of the last point.
BugBucketWidth(S, n) == Max({1, (Span(S) + n - 1) \div n})

\* GREATEST(1, CEIL((max_ts - min_ts + 1) / n))
BucketWidth(S, n) == Max({1, (Span(S) + 1 + n - 1) \div n})

\* bucket_config: one width for all keys, 0 when every key fits.
BucketMS(S, n) == Max({0} \cup {BucketWidth(OfKey(S, k), n) : k \in Oversized(S, n)})

\* date_bin(bucket_ms, ts, min_ts) for the points K of a key.
Bin(K, ms, p) == (p.ts - Min(Times(K))) \div ms

Aggregate(B) ==
    [step |-> First(B).step, ts |-> First(B).ts, min |-> Min(Values(B)), max |-> Max(Values(B)),
     sum |-> MapThenSumSet(LAMBDA p : p.value, B), count |-> Cardinality(B)]

\* raw_points and sampled_points of one key, which (ts, step) orders.
Series(S, n, k) ==
    LET K == OfKey(S, k)
        ms == BucketMS(S, n)
    IN  IF k \in Oversized(S, n)
        THEN {Aggregate({p \in K : Bin(K, ms, p) = b}) : b \in {Bin(K, ms, p) : p \in K}}
        ELSE {Aggregate({p}) : p \in K}

\* meta: an empty selection of a task that has points is no error.
Exists(table, cutoff, t) == \E p \in OfTask(table, t) : p.ts >= cutoff

\* What QueryHistory scans when the statement runs.
SelectHistory(table, cutoff, q) ==
    LET S == Filtered(table, cutoff, q)
        n == MaxPoints(q)
    IN  [exists |-> Exists(table, cutoff, q.task),
         bucketMS |-> BucketMS(S, n),
         downsampled |-> BucketMS(S, n) > 0,
         series |-> [k \in KeysOf(S) |-> Series(S, n, k)]]

\* A // line is no comment of PostgreSQL's: it answers the embedded text with
\* a syntax error, whatever the parameters are.
StatementFails == HistoryStatement = "embedded"

\* QueryMetrics
QueryMetrics(table, cutoff, q) ==
    IF ~ValidHistoryQuery(q) THEN [status |-> 400]
    ELSE IF StatementFails THEN [status |-> 500]
    ELSE IF ~Exists(table, cutoff, q.task) THEN [status |-> 404]
    ELSE [status |-> 200, body |-> SelectHistory(table, cutoff, q)]

-----------------------------------------------------------------------------
(* GET /tasks/:task_id/summary                                             *)

\* Mutant: the latest point is the one with the largest step.
BugLatest(S) == CHOOSE p \in S : \A q \in S : p.step >= q.step

\* key_latest, task_latest: ORDER BY ts DESC, step DESC
Latest(S) == CHOOSE p \in S : \A q \in S : ~Earlier(p, q)

QuerySummary(table, cutoff, t) ==
    LET S == {p \in OfTask(table, t) : p.ts >= cutoff}
    IN  [exists |-> S # {},
         lastStep |-> IF S = {} THEN 0 ELSE Latest(S).step,
         updatedAt |-> IF S = {} THEN 0 ELSE Latest(S).ts,
         metrics |-> [k \in KeysOf(S) |->
            LET K == OfKey(S, k)
            IN  [last |-> Latest(K).value, min |-> Min(Values(K)), max |-> Max(Values(K)),
                 sum |-> MapThenSumSet(LAMBDA p : p.value, K), count |-> Cardinality(K)]]]

-----------------------------------------------------------------------------
(* GET /admin/tasks/:task_id/audit                                         *)

\* generate_series over a NULL bound yields nothing.
MissingSteps(S) ==
    IF S = {} \/ Max(Steps(S)) - Min(Steps(S)) > MissingLimit
    THEN {}
    ELSE (Min(Steps(S))..Max(Steps(S))) \ Steps(S)

\* GetAudit; a task without points is answered with 404.
QueryAudit(table, t) ==
    LET S == OfTask(table, t)
    IN  [exists |-> S # {},
         pointCount |-> Cardinality(S),
         distinctSteps |-> Cardinality(Steps(S)),
         firstStep |-> IF S = {} THEN Null ELSE Min(Steps(S)),
         lastStep |-> IF S = {} THEN Null ELSE Max(Steps(S)),
         keys |-> KeysOf(S),
         missingSteps |-> MissingSteps(S)]
=============================================================================
