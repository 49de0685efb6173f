---------------------------- MODULE MCSimulator ----------------------------
(* Two simulated tasks, or other clients that post requests at the limits  *)
(* and requests whose points crowd, spread and tie in time.                *)
EXTENDS Simulator

\* 1, 2: simulated tasks.  3, 4, 5: task ids of 64 and 65 bytes and an empty
\* one.  6, 7, 8: the simulator's keys.  9, 10: keys of 32 and 33 bytes.
\* 11 starts with a dot, 12 has a character no pattern allows.
MCNames == 1..12
MCLength == <<13, 13, 64, 65, 0, 4, 2, 9, 32, 33, 5, 5>>
MCMetricKeyPattern == MCNames \ {5, 12}
MCTaskIDPattern == MCMetricKeyPattern \ {11}

\* A sample with value v for each of the keys.
At(n, ts, keys, v) == [step |-> n, ts |-> ts, metrics |-> [k \in keys |-> v]]
Post(t, b) == PostRequest(t, b)
One(s) == Post(3, <<s>>)

MCRequests ==
    \* limits of single fields
    {One(At(n, 2, {6}, 1)) : n \in {Null, -1, 0, MaxInt32, MaxInt32 + 1}}
    \cup {One(At(1, ts, {7}, 1)) : ts \in {Null, 0, MaxTimestampMillis, MaxTimestampMillis + 1}}
    \cup {One(At(1, 3, K, Null)) : K \in {{}, {6, 9}, {10}, {11}, {12}}}
    \cup {Post(t, <<At(1, 3, {6}, 1)>>) : t \in {4, 5, 11, 12}}
    \cup {Post(3, [i \in 1..n |-> At(1, 1, {6}, i)]) : n \in {0, 4, 5}}
    \cup {[One(At(1, 3, {6}, 1)) EXCEPT !.mediaType = "text/plain"],
          [One(At(1, 3, {6}, 1)) EXCEPT !.body = "trailing data"]}
    \* a row whose day has no partition, after one that has
    \cup {Post(3, <<At(1, 3, {6}, 1), At(2, 8, {6}, 1)>>)}
    \* points for the queries
    \cup {Post(3, <<At(1, 1, {6}, 5), At(2, 2, {6, 7}, 3), At(3, 6, {6}, 4)>>),
          Post(3, <<At(4, 6, {6}, 1), At(2, 9, {6, 7}, 2), At(1, 9, {7}, 8)>>),
          Post(3, <<At(3, 3, {7}, 7), At(3, 4, {7}, 0), At(2, 2, {6}, 9), At(2, 2, {6}, 8)>>)}

Delivery(r) == MarshalIngestPublishing(NewIngestMessage(ToMetricBatch(r), 0))
MCForeign ==
    LET d == Delivery(One(At(2, 2, {6}, 7)))
    IN  {d, [d EXCEPT !.headers.messageID = 5], [d EXCEPT !.body.schemaVersion = 2],
         Delivery(One(At(MaxInt32 + 1, 2, {6}, 7)))}

\* The first task can drop a batch between two others.
MCMaxSteps == <<3, 1>>

MCHistoryQueries ==
    [task : {3}, keys : {Null, <<7, 7>>}, from : {Null, 2}, to : {Null, 9},
     stepFrom : {Null}, stepTo : {Null, 2}, maxPoints : {1, 2}]
=============================================================================
