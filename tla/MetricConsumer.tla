--------------------------- MODULE MetricConsumer ---------------------------
(***************************************************************************)
(* The worker's RabbitMQ consumer (internal/messaging/consumer.go) against *)
(* the ingest queue and the metric point sink.                             *)
(*                                                                         *)
(* Each worker process runs one consumer.  A consumer session pushes       *)
(* deliveries into a channel; the consumer expands a delivery into rows,   *)
(* buffers the rows of several deliveries together, flushes the buffer     *)
(* when it holds BatchMax rows or when the flush timer fires, and          *)
(* acknowledges a delivery when its last row is committed.  A flush may    *)
(* therefore hold fragments of several deliveries, and a delivery may be   *)
(* spread over several flushes.                                            *)
(*                                                                         *)
(* Durations (flush interval, back-offs, jitter) are abstracted: a timer   *)
(* that is armed may fire at any later time.  The broker and the database  *)
(* are modelled from how the consumer uses them.                           *)
(***************************************************************************)
EXTENDS Naturals, Sequences, FiniteSets

CONSTANTS
    Workers,     \* worker processes, each running one consumer
    Messages,    \* messages the ingest queue may receive
    Invalid,     \* the messages validateDelivery rejects
    Points,      \* metric points, as identified by the primary key of metric_points
    PointsOf,    \* ExpandMetricPoints: the points of each message, in order
    BatchMax,    \* rows of one flush
    Prefetch,    \* unacknowledged deliveries RabbitMQ allows one session
    MaxFaults,   \* bound: lost connections, crashes, failed flushes and shutdowns
    NoMessage    \* the value of cur when no delivery is being expanded

ASSUME MessagesAssumption ==
    /\ Invalid \subseteq Messages
    /\ NoMessage \notin Messages
    /\ PointsOf \in [Messages -> Seq(Points)]

\* DecodeIngestMessage rejects an empty batch and a sample without metrics.
ASSUME NonEmptyAssumption ==
    \A m \in Messages : Len(PointsOf[m]) > 0

\* ConsumerConfig.validate
ASSUME ConfigAssumption ==
    /\ BatchMax \in Nat \ {0}
    /\ Prefetch \in Nat \ {0}
    /\ MaxFaults \in Nat

VARIABLES
    \* RabbitMQ and PostgreSQL
    published,   \* messages RabbitMQ confirmed to the API
    queue,       \* messages ready in the ingest queue
    conn,        \* conn[w]: the broker's side of w's session is alive
    unacked,     \* unacked[w]: deliveries of w's session waiting for a settlement
    acked,       \* messages acknowledged, as the broker saw it
    dead,        \* messages in the dead-letter queue
    stored,      \* points committed to metric_points
    \* one consumer per worker
    pc,          \* where Run / consumeSession / flush stands
    cancelled,   \* the context of the worker is done
    inbox,       \* the deliveries channel of the session
    cur,         \* the delivery whose points are being appended
    next,        \* index of its next point
    buffer,      \* the rows waiting for a flush
    timer,       \* timerC # nil
    batch,       \* the rows of the flush under way that are not settled yet
    after,       \* what consumeSession does once flush returned nil
    committed,   \* deliveryState.committedRows
    terminal,    \* the deliveries whose deliveryState.terminal is set
    \* environment
    faults       \* faults that may still happen

brokerVars == <<published, queue, conn, unacked, acked, dead>>
localVars  == <<inbox, cur, next, buffer, timer, batch, after, committed, terminal>>
vars == <<published, queue, conn, unacked, acked, dead, stored, pc, cancelled,
          inbox, cur, next, buffer, timer, batch, after, committed, terminal, faults>>

TotalRows(m) == Len(PointsOf[m])
Rows == {p \in [msg : Messages, row : Nat] : p.row \in 1..TotalRows(p.msg)}
PointOf(p) == PointsOf[p.msg][p.row]
RowsOf(rows, m) == {p \in rows : p.msg = m}
Deliveries(rows) == {p.msg : p \in rows}

Init ==
    /\ published = {}
    /\ queue = {}
    /\ conn = [w \in Workers |-> FALSE]
    /\ unacked = [w \in Workers |-> {}]
    /\ acked = {}
    /\ dead = {}
    /\ stored = {}
    /\ pc = [w \in Workers |-> "connecting"]
    /\ cancelled = [w \in Workers |-> FALSE]
    /\ inbox = [w \in Workers |-> {}]
    /\ cur = [w \in Workers |-> NoMessage]
    /\ next = [w \in Workers |-> 1]
    /\ buffer = [w \in Workers |-> {}]
    /\ timer = [w \in Workers |-> FALSE]
    /\ batch = [w \in Workers |-> {}]
    /\ after = [w \in Workers |-> "select"]
    /\ committed = [w \in Workers |-> [m \in Messages |-> 0]]
    /\ terminal = [w \in Workers |-> {}]
    /\ faults = MaxFaults

-----------------------------------------------------------------------------
(* RabbitMQ, as the consumer uses it.                                      *)

\* The API's publisher got a confirmation for m.
Publish(m) ==
    /\ m \notin published
    /\ published' = published \cup {m}
    /\ queue' = queue \cup {m}
    /\ UNCHANGED <<conn, unacked, acked, dead, stored, pc, cancelled, localVars, faults>>

\* The broker pushes a ready message to a session below its prefetch limit.
Push(w, m) ==
    /\ conn[w]
    /\ m \in queue
    /\ Cardinality(unacked[w]) < Prefetch
    /\ queue' = queue \ {m}
    /\ unacked' = [unacked EXCEPT ![w] = @ \cup {m}]
    /\ inbox' = [inbox EXCEPT ![w] = @ \cup {m}]
    /\ UNCHANGED <<published, conn, acked, dead, stored, pc, cancelled,
                   cur, next, buffer, timer, batch, after, committed, terminal, faults>>

\* The broker gives up a session: what it did not settle is ready again.
\* Deliveries the client already holds stay in its channel.
DropConnection(w) ==
    /\ conn[w]
    /\ faults > 0
    /\ faults' = faults - 1
    /\ conn' = [conn EXCEPT ![w] = FALSE]
    /\ queue' = queue \cup unacked[w]
    /\ unacked' = [unacked EXCEPT ![w] = {}]
    /\ UNCHANGED <<published, acked, dead, stored, pc, cancelled, localVars>>

\* Delivery.Ack(false): reaches the broker while the session is alive;
\* otherwise it is lost, whether or not the client notices.
BrokerAck(w, m) ==
    /\ acked' = IF conn[w] THEN acked \cup {m} ELSE acked
    /\ unacked' = [unacked EXCEPT ![w] = @ \ {m}]
    /\ UNCHANGED <<published, queue, conn, dead>>

\* Delivery.Nack(false, true)
BrokerRequeue(w, m) ==
    /\ queue' = IF conn[w] THEN queue \cup {m} ELSE queue
    /\ unacked' = [unacked EXCEPT ![w] = @ \ {m}]
    /\ UNCHANGED <<published, conn, acked, dead>>

\* Delivery.Nack(false, false)
BrokerDeadLetter(w, m) ==
    /\ dead' = IF conn[w] THEN dead \cup {m} ELSE dead
    /\ unacked' = [unacked EXCEPT ![w] = @ \ {m}]
    /\ UNCHANGED <<published, queue, conn, acked>>

-----------------------------------------------------------------------------
(* Run: sessions are opened and closed.                                    *)

\* consumeSession's local state is gone and the broker takes back what the
\* session left unsettled: session.Close, or the death of the process.
DiscardSession(w) ==
    /\ conn' = [conn EXCEPT ![w] = FALSE]
    /\ queue' = queue \cup unacked[w]
    /\ unacked' = [unacked EXCEPT ![w] = {}]
    /\ inbox' = [inbox EXCEPT ![w] = {}]
    /\ cur' = [cur EXCEPT ![w] = NoMessage]
    /\ next' = [next EXCEPT ![w] = 1]
    /\ buffer' = [buffer EXCEPT ![w] = {}]
    /\ timer' = [timer EXCEPT ![w] = FALSE]
    /\ batch' = [batch EXCEPT ![w] = {}]
    /\ after' = [after EXCEPT ![w] = "select"]
    /\ committed' = [committed EXCEPT ![w] = [m \in Messages |-> 0]]
    /\ terminal' = [terminal EXCEPT ![w] = {}]
    /\ UNCHANGED <<published, acked, dead, stored>>

\* consumeSession returned: Run closes the session and returns or reconnects.
EndSession(w) ==
    /\ DiscardSession(w)
    /\ pc' = [pc EXCEPT ![w] = IF cancelled[w] THEN "stopped" ELSE "connecting"]
    /\ UNCHANGED <<cancelled, faults>>

\* openSession: topology, QoS and a manual-ack consumer.
OpenSession(w) ==
    /\ pc[w] = "connecting"
    /\ ~cancelled[w]
    /\ pc' = [pc EXCEPT ![w] = "select"]
    /\ conn' = [conn EXCEPT ![w] = TRUE]
    /\ UNCHANGED <<published, queue, unacked, acked, dead, stored, cancelled, localVars, faults>>

\* ctx is done at the head of Run or while it waits to reconnect.
StopReconnecting(w) ==
    /\ pc[w] = "connecting"
    /\ cancelled[w]
    /\ pc' = [pc EXCEPT ![w] = "stopped"]
    /\ UNCHANGED <<brokerVars, stored, cancelled, localVars, faults>>

-----------------------------------------------------------------------------
(* consumeSession: the select loop.                                        *)

\* DecodeIngestMessage, or another test of validateDelivery, refuses m.
Refused(m) == m \in Invalid

\* Mutant: the loop index starts at zero.
BugReceive(w, m) ==
    /\ pc[w] = "select"
    /\ m \in inbox[w]
    /\ ~Refused(m)
    /\ inbox' = [inbox EXCEPT ![w] = @ \ {m}]
    /\ pc' = [pc EXCEPT ![w] = "append"]
    /\ cur' = [cur EXCEPT ![w] = m]
    /\ next' = [next EXCEPT ![w] = 0]
    /\ committed' = [committed EXCEPT ![w][m] = 0]
    /\ terminal' = [terminal EXCEPT ![w] = @ \ {m}]
    /\ UNCHANGED <<brokerVars, stored, cancelled, buffer, timer, batch, after, faults>>

\* A delivery that passes validateDelivery: start to expand it.
Receive(w, m) ==
    /\ pc[w] = "select"
    /\ m \in inbox[w]
    /\ ~Refused(m)
    /\ inbox' = [inbox EXCEPT ![w] = @ \ {m}]
    /\ pc' = [pc EXCEPT ![w] = "append"]
    /\ cur' = [cur EXCEPT ![w] = m]
    /\ next' = [next EXCEPT ![w] = 1]
    /\ committed' = [committed EXCEPT ![w][m] = 0]
    /\ terminal' = [terminal EXCEPT ![w] = @ \ {m}]
    /\ UNCHANGED <<brokerVars, stored, cancelled, buffer, timer, batch, after, faults>>

\* A delivery that does not: dead-letter it and go on.
Reject(w, m) ==
    /\ pc[w] = "select"
    /\ m \in inbox[w]
    /\ Refused(m)
    /\ inbox' = [inbox EXCEPT ![w] = @ \ {m}]
    /\ BrokerDeadLetter(w, m)
    /\ UNCHANGED <<stored, pc, cancelled, cur, next, buffer, timer, batch, after,
                   committed, terminal, faults>>

\* The Nack of a rejected delivery fails.
RejectFails(w, m) ==
    /\ pc[w] = "select"
    /\ m \in inbox[w]
    /\ Refused(m)
    /\ ~conn[w]
    /\ EndSession(w)

\* The deliveries channel is closed.
StreamClosed(w) ==
    /\ pc[w] = "select"
    /\ ~conn[w]
    /\ EndSession(w)

\* The flush closure hands a non-empty buffer over to flush.
BeginFlush(w, rows, then) ==
    /\ pc' = [pc EXCEPT ![w] = "flush"]
    /\ batch' = [batch EXCEPT ![w] = rows]
    /\ buffer' = [buffer EXCEPT ![w] = {}]
    /\ timer' = [timer EXCEPT ![w] = FALSE]
    /\ after' = [after EXCEPT ![w] = then]

\* Mutant: the limit is tested after it was passed.
BugBatchFull(rows) == Cardinality(rows) > BatchMax

BatchFull(rows) == Cardinality(rows) = BatchMax

\* Mutant: the timer is never armed.
BugStartTimer(w) == UNCHANGED timer

StartTimer(w) == timer' = [timer EXCEPT ![w] = TRUE]

\* One turn of the append loop: append, startTimer, flush at BatchMax.
AppendPoint(w) ==
    LET rows == buffer[w] \cup {[msg |-> cur[w], row |-> next[w]]}
    IN  /\ pc[w] = "append"
        /\ cur[w] \notin terminal[w]
        /\ next[w] <= TotalRows(cur[w])
        /\ next' = [next EXCEPT ![w] = @ + 1]
        /\ IF BatchFull(rows)
           THEN BeginFlush(w, rows, "append")
           ELSE /\ buffer' = [buffer EXCEPT ![w] = rows]
                /\ StartTimer(w)
                /\ UNCHANGED <<pc, batch, after>>
        /\ UNCHANGED <<brokerVars, stored, cancelled, inbox, cur, committed, terminal, faults>>

\* The append loop ends: all points appended, or the delivery is terminal.
AppendDone(w) ==
    /\ pc[w] = "append"
    /\ cur[w] \in terminal[w] \/ next[w] > TotalRows(cur[w])
    /\ pc' = [pc EXCEPT ![w] = "select"]
    /\ cur' = [cur EXCEPT ![w] = NoMessage]
    /\ next' = [next EXCEPT ![w] = 1]
    /\ UNCHANGED <<brokerVars, stored, cancelled, inbox, buffer, timer, batch, after,
                   committed, terminal, faults>>

\* case <-timerC
TimerFires(w) ==
    /\ pc[w] = "select"
    /\ timer[w]
    /\ BeginFlush(w, buffer[w], "select")
    /\ UNCHANGED <<brokerVars, stored, cancelled, inbox, cur, next, committed, terminal, faults>>

\* Mutant: an empty buffer is not a reason to return.
BugContextDone(w) ==
    /\ pc[w] = "select"
    /\ cancelled[w]
    /\ buffer[w] # {}
    /\ BeginFlush(w, buffer[w], "exit")
    /\ UNCHANGED <<brokerVars, stored, cancelled, inbox, cur, next, committed, terminal, faults>>

\* case <-ctx.Done(): flush what is left under the shutdown context, or return.
ContextDone(w) ==
    /\ pc[w] = "select"
    /\ cancelled[w]
    /\ IF buffer[w] = {}
       THEN EndSession(w)
       ELSE /\ BeginFlush(w, buffer[w], "exit")
            /\ UNCHANGED <<brokerVars, stored, cancelled, inbox, cur, next,
                           committed, terminal, faults>>

-----------------------------------------------------------------------------
(* flush: sink.Flush, then acknowledge or requeue.                         *)

\* The transaction of sink.Flush commits.
SinkCommits(w) ==
    /\ pc[w] = "flush"
    /\ stored' = stored \cup {PointOf(p) : p \in batch[w]}
    /\ pc' = [pc EXCEPT ![w] = "committed"]
    /\ UNCHANGED <<brokerVars, cancelled, localVars, faults>>

\* ... and sink.Flush reports it.
SinkReturns(w) ==
    /\ pc[w] = "committed"
    /\ pc' = [pc EXCEPT ![w] = "ack"]
    /\ UNCHANGED <<brokerVars, stored, cancelled, localVars, faults>>

\* sink.Flush returns an error: the transaction was rolled back, or it
\* committed and the answer was lost.  A done context is such an error too.
SinkFails(w) ==
    /\ pc[w] \in {"flush", "committed"}
    /\ cancelled[w] \/ faults > 0
    /\ faults' = IF cancelled[w] THEN faults ELSE faults - 1
    /\ pc' = [pc EXCEPT ![w] = "backoff"]
    /\ UNCHANGED <<brokerVars, stored, cancelled, localVars>>

\* Mutant: after the back-off the batch is treated as committed.
BugBackoffElapsed(w) ==
    /\ pc[w] = "backoff"
    /\ pc' = [pc EXCEPT ![w] = "ack"]
    /\ UNCHANGED <<brokerVars, stored, cancelled, localVars, faults>>

\* The failure back-off is over: requeue the deliveries of the batch.
BackoffElapsed(w) ==
    /\ pc[w] = "backoff"
    /\ pc' = [pc EXCEPT ![w] = "nack"]
    /\ UNCHANGED <<brokerVars, stored, cancelled, localVars, faults>>

\* The context (or the shutdown timeout) ends the back-off: flush returns
\* without requeueing, and closing the session requeues instead.
BackoffInterrupted(w) ==
    /\ pc[w] = "backoff"
    /\ cancelled[w]
    /\ EndSession(w)

\* Mutant: a delivery is settled once per row.
BugDropRows(w, m) == batch' = [batch EXCEPT ![w] = @ \ {CHOOSE p \in RowsOf(@, m) : TRUE}]

\* The loops below are done with delivery m of the batch.
DropRows(w, m) == batch' = [batch EXCEPT ![w] = @ \ RowsOf(@, m)]

\* One turn of the loop over the deliveries of a committed batch.
AckDelivery(w, m) ==
    LET rows == committed[w][m] + Cardinality(RowsOf(batch[w], m))
    IN  /\ pc[w] = "ack"
        /\ m \in Deliveries(batch[w])
        /\ DropRows(w, m)
        /\ committed' = IF m \in terminal[w] THEN committed
                        ELSE [committed EXCEPT ![w][m] = rows]
        /\ IF m \notin terminal[w] /\ rows = TotalRows(m)
           THEN /\ BrokerAck(w, m)
                /\ terminal' = [terminal EXCEPT ![w] = @ \cup {m}]
           ELSE UNCHANGED <<brokerVars, terminal>>
        /\ UNCHANGED <<stored, pc, cancelled, inbox, cur, next, buffer, timer, after, faults>>

\* Mutant: Nack without requeue, which dead-letters.
BugNackDelivery(w, m) ==
    /\ pc[w] = "nack"
    /\ m \in Deliveries(batch[w])
    /\ DropRows(w, m)
    /\ terminal' = [terminal EXCEPT ![w] = @ \cup {m}]
    /\ BrokerDeadLetter(w, m)
    /\ UNCHANGED <<stored, pc, cancelled, inbox, cur, next, buffer, timer, after,
                   committed, faults>>

\* One turn of the loop that requeues the deliveries of a failed batch.
NackDelivery(w, m) ==
    /\ pc[w] = "nack"
    /\ m \in Deliveries(batch[w])
    /\ DropRows(w, m)
    /\ terminal' = [terminal EXCEPT ![w] = @ \cup {m}]
    /\ BrokerRequeue(w, m)
    /\ UNCHANGED <<stored, pc, cancelled, inbox, cur, next, buffer, timer, after,
                   committed, faults>>

\* Ack or Nack returns an error, and so do flush and consumeSession.
SettleFails(w) ==
    /\ pc[w] \in {"ack", "nack"}
    /\ batch[w] # {}
    /\ ~conn[w]
    /\ EndSession(w)

\* Mutant: a flush inside the append loop ends the loop.
BugFlushReturns(w) ==
    /\ pc[w] \in {"ack", "nack"}
    /\ batch[w] = {}
    /\ IF after[w] = "exit"
       THEN EndSession(w)
       ELSE /\ pc' = [pc EXCEPT ![w] = "select"]
            /\ after' = [after EXCEPT ![w] = "select"]
            /\ UNCHANGED <<brokerVars, stored, cancelled, inbox, cur, next, buffer, timer,
                           batch, committed, terminal, faults>>

\* flush returned nil: back to the append loop or the select, or leave.
FlushReturns(w) ==
    /\ pc[w] \in {"ack", "nack"}
    /\ batch[w] = {}
    /\ IF after[w] = "exit"
       THEN EndSession(w)
       ELSE /\ pc' = [pc EXCEPT ![w] = after[w]]
            /\ after' = [after EXCEPT ![w] = "select"]
            /\ UNCHANGED <<brokerVars, stored, cancelled, inbox, cur, next, buffer, timer,
                           batch, committed, terminal, faults>>

-----------------------------------------------------------------------------
(* The processes: shutdown signals, crashes and restarts.                  *)

Cancel(w) ==
    /\ pc[w] # "stopped"
    /\ ~cancelled[w]
    /\ faults > 0
    /\ faults' = faults - 1
    /\ cancelled' = [cancelled EXCEPT ![w] = TRUE]
    /\ UNCHANGED <<brokerVars, stored, pc, localVars>>

\* The process dies; what replaces it starts from nothing.
Crash(w) ==
    /\ pc[w] # "stopped"
    /\ faults > 0
    /\ faults' = faults - 1
    /\ DiscardSession(w)
    /\ pc' = [pc EXCEPT ![w] = "connecting"]
    /\ cancelled' = [cancelled EXCEPT ![w] = FALSE]

Restart(w) ==
    /\ pc[w] = "stopped"
    /\ pc' = [pc EXCEPT ![w] = "connecting"]
    /\ cancelled' = [cancelled EXCEPT ![w] = FALSE]
    /\ UNCHANGED <<brokerVars, stored, localVars, faults>>

-----------------------------------------------------------------------------

ConsumerStep(w) ==
    \/ OpenSession(w)
    \/ StopReconnecting(w)
    \/ \E m \in Messages : \/ Receive(w, m)
                           \/ Reject(w, m)
                           \/ RejectFails(w, m)
                           \/ AckDelivery(w, m)
                           \/ NackDelivery(w, m)
    \/ StreamClosed(w)
    \/ AppendPoint(w)
    \/ AppendDone(w)
    \/ TimerFires(w)
    \/ ContextDone(w)
    \/ SinkCommits(w)
    \/ SinkReturns(w)
    \/ SinkFails(w)
    \/ BackoffElapsed(w)
    \/ BackoffInterrupted(w)
    \/ SettleFails(w)
    \/ FlushReturns(w)

Environment(w) ==
    \/ \E m \in Messages : Push(w, m)
    \/ DropConnection(w)
    \/ Cancel(w)
    \/ Crash(w)
    \/ Restart(w)

Next ==
    \/ \E m \in Messages : Publish(m)
    \/ \E w \in Workers : ConsumerStep(w) \/ Environment(w)

Spec == Init /\ [][Next]_vars

\* The process runs, a Go select takes each ready case sooner or later
\* (it chooses at random), and the broker delivers ready messages.
Fairness ==
    /\ \A w \in Workers : WF_vars(ConsumerStep(w))
    /\ \A w \in Workers : SF_vars(ContextDone(w))
    /\ WF_vars(\E w \in Workers, m \in Messages : Push(w, m))

FairSpec == Spec /\ Fairness

-----------------------------------------------------------------------------
(* Properties.                                                             *)

\* The state stays well-formed: every row in the buffer or in a flush is a row
\* of the message it came from (1..totalRows), and the append loop of
\* consumeSession never leaves its range.
TypeOK ==
    /\ published \subseteq Messages
    /\ queue \subseteq Messages
    /\ conn \in [Workers -> BOOLEAN]
    /\ unacked \in [Workers -> SUBSET Messages]
    /\ acked \subseteq Messages
    /\ dead \subseteq Messages
    /\ stored \subseteq Points
    /\ pc \in [Workers -> {"connecting", "select", "append", "flush", "committed",
                           "backoff", "ack", "nack", "stopped"}]
    /\ cancelled \in [Workers -> BOOLEAN]
    /\ inbox \in [Workers -> SUBSET Messages]
    /\ cur \in [Workers -> Messages \cup {NoMessage}]
    /\ next \in [Workers -> Nat \ {0}]
    /\ buffer \in [Workers -> SUBSET Rows]
    /\ timer \in [Workers -> BOOLEAN]
    /\ batch \in [Workers -> SUBSET Rows]
    /\ after \in [Workers -> {"select", "append", "exit"}]
    /\ committed \in [Workers -> [Messages -> Nat]]
    /\ terminal \in [Workers -> SUBSET Messages]
    /\ faults \in 0..MaxFaults

\* Rows of m that w holds and has not seen committed.
Held(w, m) == RowsOf(buffer[w] \cup batch[w], m)

\* w is still expanding m.
Expanding(w, m) == cur[w] = m /\ m \notin terminal[w]

\* An acknowledged message is durable: Ack follows the commit of every row,
\* however the rows were spread over flushes, sessions and workers
\* (consumer.go flush: committedRows == totalRows).
AckedIsDurable ==
    \A m \in acked : \A i \in 1..TotalRows(m) : PointsOf[m][i] \in stored

\* A delivery is settled at most once per session: whatever flush may still
\* ack or nack is unsettled at the broker.  A second settlement of one
\* delivery tag makes RabbitMQ close the channel and loses the session.
NoDoubleSettle ==
    \A w \in Workers, m \in Messages :
        conn[w] /\ (Held(w, m) # {} \/ Expanding(w, m)) => m \in unacked[w]

\* No delivery is forgotten: whenever the consumer waits in its select, each
\* delivery the broker holds for a live session is still in the channel, or
\* all its rows that are not committed are in the buffer, and the timer that
\* will flush them is armed.
NoForgottenDelivery ==
    \A w \in Workers : \A m \in unacked[w] :
        conn[w] /\ pc[w] = "select" =>
            \/ m \in inbox[w]
            \/ /\ {p.row : p \in RowsOf(buffer[w], m)} = (committed[w][m] + 1)..TotalRows(m)
               /\ committed[w][m] < TotalRows(m)
               /\ timer[w]

\* The equality test len(buffer) == BatchMax is enough: the buffer never
\* passes the limit and is below it whenever a new delivery is taken.
BatchWithinLimit ==
    \A w \in Workers :
        /\ Cardinality(batch[w]) <= BatchMax
        /\ Cardinality(buffer[w]) < BatchMax

\* Every message that follows the protocol is acknowledged in the end and
\* every other one is dead-lettered, unless all workers were shut down.
EventuallySettled ==
    \A m \in Messages :
        m \in published ~> \/ m \in acked \cup dead
                           \/ \A w \in Workers : pc[w] = "stopped"

\* A worker that is told to stop does stop (or dies), whatever it was doing.
ShutdownCompletes ==
    \A w \in Workers : cancelled[w] ~> (pc[w] = "stopped" \/ ~cancelled[w])

Contract == INSTANCE DeliveryContract
\* The consumer keeps the at-least-once contract: a message leaves the broker
\* once, acknowledged when all its points are durable or dead-lettered when
\* validateDelivery refuses it, and only its points become durable.
ImplementsContract == Contract!Spec
=============================================================================
