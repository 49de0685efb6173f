------------------------ MODULE MetricConsumerProofs ------------------------
(***************************************************************************)
(* Proofs about MetricConsumer, for any set of workers, any messages and   *)
(* any batch size: the invariants of the consumer, and that it implements  *)
(* DeliveryContract.                                                       *)
(*                                                                         *)
(* The properties are not inductive.  Inv adds what carries them: where a  *)
(* message is at the broker, which variables are in use at which point of  *)
(* the consumer, and that the rows a consumer holds of a delivery are      *)
(* exactly the interval from the first row not committed to the last row   *)
(* appended.                                                               *)
(***************************************************************************)
EXTENDS MetricConsumer, FiniteSetTheorems, TLAPS

-----------------------------------------------------------------------------
(* The inductive invariant.                                                *)

\* A message is in one place at the broker.
Placement ==
    /\ queue \cup acked \cup dead \subseteq published
    /\ queue \cap acked = {} /\ queue \cap dead = {} /\ acked \cap dead = {}
    /\ \A w \in Workers : /\ unacked[w] \subseteq published
                          /\ unacked[w] \cap queue = {}
                          /\ unacked[w] \cap acked = {}
                          /\ unacked[w] \cap dead = {}
    /\ \A v, w \in Workers : v # w => unacked[v] \cap unacked[w] = {}

Flushing == {"flush", "committed", "backoff", "ack", "nack"}

\* w is in the append loop, or in a flush called from it.
InAppendLoop(w) == pc[w] = "append" \/ (pc[w] \in Flushing /\ after[w] = "append")

\* What is in use where.
Control(w) ==
    /\ pc[w] \in {"connecting", "stopped"} => ~conn[w] /\ inbox[w] = {} /\ buffer[w] = {}
    /\ pc[w] \notin Flushing => batch[w] = {}
    /\ pc[w] \in Flushing => buffer[w] = {}
    /\ cur[w] # NoMessage <=> InAppendLoop(w)
    /\ buffer[w] # {} => timer[w]
    /\ ~conn[w] => unacked[w] = {}

RowRange(m, lo, hi) == {[msg |-> m, row |-> i] : i \in lo..hi}

\* What is committed or about to be acknowledged is stored.
Durable(w) ==
    /\ \A m \in Messages : \A i \in 1..committed[w][m] :
          i <= TotalRows(m) => PointsOf[m][i] \in stored
    /\ pc[w] \in {"committed", "ack"} => \A p \in batch[w] : PointOf(p) \in stored

\* The rows w holds of m are an interval.
Interval(w, m) ==
    /\ Expanding(w, m) =>
          /\ committed[w][m] < next[w]
          /\ committed[w][m] < TotalRows(m)
          /\ next[w] <= TotalRows(m) + 1
          /\ Held(w, m) = RowRange(m, committed[w][m] + 1, next[w] - 1)
    /\ ~Expanding(w, m) /\ Held(w, m) # {} =>
          /\ m \notin terminal[w]
          /\ Held(w, m) = RowRange(m, committed[w][m] + 1, TotalRows(m))

\* w has work to do for m.
InHand(w, m) == Held(w, m) # {} \/ Expanding(w, m)

\* What w has in hand and what the broker waits for are the same.
Ownership(w, m) ==
    /\ InHand(w, m) => m \in published \ Invalid
    /\ conn[w] /\ InHand(w, m) => m \in unacked[w]
    /\ conn[w] /\ m \in unacked[w] => m \in inbox[w] \/ InHand(w, m)
    /\ m \in inbox[w] => m \in published /\ ~InHand(w, m)
    /\ conn[w] /\ m \in inbox[w] => m \in unacked[w]

\* Sizes.
Limits(w) ==
    /\ IsFiniteSet(batch[w]) /\ Cardinality(batch[w]) <= BatchMax
    /\ IsFiniteSet(buffer[w]) /\ Cardinality(buffer[w]) < BatchMax

WorkerInv(w) ==
    /\ Control(w)
    /\ Durable(w)
    /\ \A m \in Messages : Interval(w, m) /\ Ownership(w, m)
    /\ Limits(w)

Settled ==
    /\ AckedIsDurable
    /\ acked \cap Invalid = {}
    /\ dead \subseteq Invalid

Inv ==
    /\ TypeOK
    /\ Placement
    /\ Settled
    /\ \A w \in Workers : WorkerInv(w)

USE DEF Refused

-----------------------------------------------------------------------------
(* Types.                                                                  *)

\* A session that ends leaves a well-typed state.
LEMMA DiscardType ==
    ASSUME TypeOK, NEW w \in Workers, DiscardSession(w),
           pc' \in [Workers -> {"connecting", "stopped"} \cup {pc[v] : v \in Workers}],
           cancelled' \in [Workers -> BOOLEAN],
           faults' \in 0..MaxFaults
    PROVE  TypeOK'
<1>1. /\ pc' \in [Workers -> {"connecting", "select", "append", "flush", "committed",
                              "backoff", "ack", "nack", "stopped"}]
  BY DEF TypeOK
<1>2. /\ cur' \in [Workers -> Messages \cup {NoMessage}]
      /\ next' \in [Workers -> Nat \ {0}]
      /\ committed' \in [Workers -> [Messages -> Nat]]
  BY DEF TypeOK, DiscardSession
<1>3. /\ buffer' \in [Workers -> SUBSET Rows]
      /\ batch' \in [Workers -> SUBSET Rows]
  BY DEF TypeOK, DiscardSession
<1>4. QED
  BY <1>1, <1>2, <1>3 DEF TypeOK, DiscardSession

\* So does the end of consumeSession, after which Run reconnects or returns.
LEMMA EndSessionType ==
    ASSUME TypeOK, NEW w \in Workers, EndSession(w)
    PROVE  TypeOK'
<1>1. pc' \in [Workers -> {"connecting", "stopped"} \cup {pc[v] : v \in Workers}]
  BY DEF EndSession, TypeOK
<1>2. QED
  BY <1>1, DiscardType DEF EndSession, TypeOK

\* The types are preserved by every step; for an append and a commit this
\* needs the delivery under way and the rows to be real ones.
LEMMA TypeStep ==
    ASSUME TypeOK, \A w \in Workers : Control(w) /\ Limits(w), [Next]_vars
    PROVE  TypeOK'
<1> USE DEF brokerVars, localVars
<1>1. CASE UNCHANGED vars
  BY <1>1 DEF TypeOK, vars
<1>2. ASSUME NEW m \in Messages, Publish(m) PROVE TypeOK'
  BY <1>2 DEF TypeOK, Publish
<1>3. ASSUME NEW w \in Workers, ConsumerStep(w) PROVE TypeOK'
  <2>1. CASE OpenSession(w)
    BY <2>1 DEF TypeOK, OpenSession
  <2>2. CASE StopReconnecting(w)
    BY <2>2 DEF TypeOK, StopReconnecting
  <2>3. ASSUME NEW m \in Messages, Receive(w, m) PROVE TypeOK'
    <3>1. committed' \in [Workers -> [Messages -> Nat]]
      BY <2>3 DEF TypeOK, Receive
    <3>2. QED
      BY <2>3, <3>1 DEF TypeOK, Receive
  <2>4. ASSUME NEW m \in Messages, Reject(w, m) PROVE TypeOK'
    BY <2>4 DEF TypeOK, Reject, BrokerDeadLetter
  <2>5. ASSUME NEW m \in Messages, RejectFails(w, m) PROVE TypeOK'
    BY <2>5, EndSessionType DEF RejectFails
  <2>6. ASSUME NEW m \in Messages, AckDelivery(w, m) PROVE TypeOK'
    <3>1. committed' \in [Workers -> [Messages -> Nat]]
      <4>1. Cardinality(RowsOf(batch[w], m)) \in Nat
        <5>1. RowsOf(batch[w], m) \subseteq batch[w] /\ IsFiniteSet(batch[w])
          BY DEF RowsOf, Limits
        <5>2. QED
          BY <5>1, FS_Subset, FS_CardinalityType
      <4>2. committed[w][m] + Cardinality(RowsOf(batch[w], m)) \in Nat
        BY <4>1 DEF TypeOK
      <4>3. QED
        BY <2>6, <4>2 DEF TypeOK, AckDelivery
    <3>2. batch' \in [Workers -> SUBSET Rows]
      BY <2>6 DEF TypeOK, AckDelivery, DropRows
    <3>3. /\ \/ BrokerAck(w, m) /\ terminal' = [terminal EXCEPT ![w] = @ \cup {m}]
             \/ UNCHANGED <<brokerVars, terminal>>
          /\ UNCHANGED <<stored, pc, cancelled, inbox, cur, next, buffer, timer, after, faults>>
      BY <2>6 DEF AckDelivery
    <3>4. /\ acked' \subseteq Messages
          /\ unacked' \in [Workers -> SUBSET Messages]
          /\ terminal' \in [Workers -> SUBSET Messages]
          /\ UNCHANGED <<published, queue, conn, dead>>
      <4>1. CASE BrokerAck(w, m) /\ terminal' = [terminal EXCEPT ![w] = @ \cup {m}]
        BY <4>1 DEF TypeOK, BrokerAck
      <4>2. CASE UNCHANGED <<brokerVars, terminal>>
        BY <4>2 DEF TypeOK
      <4>3. QED
        BY <3>3, <4>1, <4>2
    <3>5. QED
      BY <3>1, <3>2, <3>3, <3>4 DEF TypeOK
  <2>7. ASSUME NEW m \in Messages, NackDelivery(w, m) PROVE TypeOK'
    <3>1. batch' \in [Workers -> SUBSET Rows]
      BY <2>7 DEF TypeOK, NackDelivery, DropRows
    <3>2. QED
      BY <2>7, <3>1 DEF TypeOK, NackDelivery, BrokerRequeue
  <2>8. CASE StreamClosed(w)
    BY <2>8, EndSessionType DEF StreamClosed
  <2>9. CASE AppendPoint(w)
    <3> DEFINE row == [msg |-> cur[w], row |-> next[w]]
               rows == buffer[w] \cup {row}
    <3>1. cur[w] \in Messages
      BY <2>9 DEF AppendPoint, Control, InAppendLoop, TypeOK
    <3>2. next[w] <= TotalRows(cur[w]) /\ next[w] \in Nat \ {0}
      BY <2>9 DEF AppendPoint, TypeOK
    <3>3. rows \subseteq Rows
      BY <3>1, <3>2, MessagesAssumption DEF Rows, TotalRows, TypeOK
    <3>4. next' \in [Workers -> Nat \ {0}]
      BY <2>9 DEF AppendPoint, TypeOK
    <3>5. CASE BatchFull(rows)
      <4>1. /\ BeginFlush(w, rows, "append")
            /\ UNCHANGED <<brokerVars, stored, cancelled, inbox, cur, committed, terminal, faults>>
        BY <2>9, <3>5 DEF AppendPoint
      <4>2. QED
        BY <3>3, <3>4, <4>1 DEF BeginFlush, TypeOK
    <3>6. CASE ~BatchFull(rows)
      <4>1. /\ buffer' = [buffer EXCEPT ![w] = rows]
            /\ timer' = [timer EXCEPT ![w] = TRUE]
            /\ UNCHANGED <<pc, batch, after>>
            /\ UNCHANGED <<brokerVars, stored, cancelled, inbox, cur, committed, terminal, faults>>
        BY <2>9, <3>6 DEF AppendPoint, StartTimer
      <4>2. QED
        BY <3>3, <3>4, <4>1 DEF TypeOK
    <3>7. QED
      BY <3>5, <3>6
  <2>10. CASE AppendDone(w)
    BY <2>10 DEF TypeOK, AppendDone
  <2>11. CASE TimerFires(w)
    BY <2>11 DEF TypeOK, TimerFires, BeginFlush
  <2>12. CASE ContextDone(w)
    <3>1. CASE buffer[w] = {}
      BY <2>12, <3>1, EndSessionType DEF ContextDone
    <3>2. CASE buffer[w] # {}
      <4>1. /\ BeginFlush(w, buffer[w], "exit")
            /\ UNCHANGED <<brokerVars, stored, cancelled, inbox, cur, next, committed,
                           terminal, faults>>
        BY <2>12, <3>2 DEF ContextDone
      <4>2. QED
        BY <4>1 DEF TypeOK, BeginFlush
    <3>3. QED
      BY <3>1, <3>2
  <2>13. CASE SinkCommits(w)
    <3>1. ASSUME NEW p \in batch[w] PROVE PointOf(p) \in Points
      BY MessagesAssumption DEF TypeOK, Rows, PointOf, TotalRows
    <3>2. QED
      BY <2>13, <3>1 DEF TypeOK, SinkCommits
  <2>14. CASE SinkReturns(w)
    BY <2>14 DEF TypeOK, SinkReturns
  <2>15. CASE SinkFails(w)
    BY <2>15, ConfigAssumption DEF TypeOK, SinkFails
  <2>16. CASE BackoffElapsed(w)
    BY <2>16 DEF TypeOK, BackoffElapsed
  <2>17. CASE BackoffInterrupted(w)
    BY <2>17, EndSessionType DEF BackoffInterrupted
  <2>18. CASE SettleFails(w)
    BY <2>18, EndSessionType DEF SettleFails
  <2>19. CASE FlushReturns(w)
    <3>1. CASE after[w] = "exit"
      BY <2>19, <3>1, EndSessionType DEF FlushReturns
    <3>2. CASE after[w] # "exit"
      BY <2>19, <3>2 DEF TypeOK, FlushReturns
    <3>3. QED
      BY <3>1, <3>2
  <2>20. QED
    BY <1>3, <2>1, <2>2, <2>3, <2>4, <2>5, <2>6, <2>7, <2>8, <2>9, <2>10, <2>11, <2>12,
       <2>13, <2>14, <2>15, <2>16, <2>17, <2>18, <2>19 DEF ConsumerStep
<1>4. ASSUME NEW w \in Workers, Environment(w) PROVE TypeOK'
  <2>1. ASSUME NEW m \in Messages, Push(w, m) PROVE TypeOK'
    BY <2>1 DEF TypeOK, Push
  <2>2. CASE DropConnection(w)
    BY <2>2, ConfigAssumption DEF TypeOK, DropConnection
  <2>3. CASE Cancel(w)
    BY <2>3, ConfigAssumption DEF TypeOK, Cancel
  <2>4. CASE Crash(w)
    <3>1. pc' \in [Workers -> {"connecting", "stopped"} \cup {pc[v] : v \in Workers}]
      BY <2>4 DEF Crash, TypeOK
    <3>2. faults' \in 0..MaxFaults
      BY <2>4, ConfigAssumption DEF Crash, TypeOK
    <3>3. QED
      BY <2>4, <3>1, <3>2, DiscardType DEF Crash, TypeOK
  <2>5. CASE Restart(w)
    BY <2>5 DEF TypeOK, Restart
  <2>6. QED
    BY <1>4, <2>1, <2>2, <2>3, <2>4, <2>5 DEF Environment
<1>5. QED
  BY <1>1, <1>2, <1>3, <1>4 DEF Next

-----------------------------------------------------------------------------
(* A step of one worker leaves the others alone.                           *)

SameWorker(v) ==
    /\ conn'[v] = conn[v] /\ unacked'[v] = unacked[v]
    /\ pc'[v] = pc[v] /\ after'[v] = after[v]
    /\ inbox'[v] = inbox[v] /\ cur'[v] = cur[v] /\ next'[v] = next[v]
    /\ buffer'[v] = buffer[v] /\ timer'[v] = timer[v] /\ batch'[v] = batch[v]
    /\ committed'[v] = committed[v] /\ terminal'[v] = terminal[v]

Growing == stored \subseteq stored' /\ published \subseteq published'

\* What one worker knows stays true while its own state is unchanged and the
\* durable sets only grow.
LEMMA SameWorkerInv ==
    ASSUME NEW v \in Workers, WorkerInv(v), SameWorker(v), Growing
    PROVE  WorkerInv(v)'
<1>1. Control(v)'
  BY DEF WorkerInv, Control, InAppendLoop, SameWorker
<1>2. Durable(v)'
  BY DEF WorkerInv, Durable, SameWorker, Growing
<1>3. ASSUME NEW m \in Messages PROVE Interval(v, m)' /\ Ownership(v, m)'
  <2>1. Held(v, m)' = Held(v, m) /\ (Expanding(v, m)' <=> Expanding(v, m))
    BY DEF SameWorker, Held, Expanding
  <2>2. Interval(v, m) /\ Ownership(v, m)
    BY DEF WorkerInv
  <2>3. Interval(v, m)'
    BY <2>1, <2>2 DEF SameWorker, Interval
  <2>4. Ownership(v, m)'
    BY <2>1, <2>2 DEF SameWorker, Growing, Ownership, InHand
  <2>5. QED
    BY <2>3, <2>4
<1>4. Limits(v)'
  BY DEF WorkerInv, Limits, SameWorker
<1>5. QED
  BY <1>1, <1>2, <1>3, <1>4 DEF WorkerInv

\* Closing a session touches no other worker ...
LEMMA DiscardFrame ==
    ASSUME TypeOK, NEW w \in Workers, DiscardSession(w),
           NEW v \in Workers, v # w, pc'[v] = pc[v]
    PROVE  SameWorker(v) /\ Growing
BY DEF TypeOK, DiscardSession, SameWorker, Growing

\* ... nor does Run when consumeSession returns.
LEMMA EndSessionFrame ==
    ASSUME TypeOK, NEW w \in Workers, EndSession(w), NEW v \in Workers, v # w
    PROVE  SameWorker(v) /\ Growing
<1>1. pc'[v] = pc[v]
  BY DEF TypeOK, EndSession
<1>2. QED
  BY <1>1, DiscardFrame DEF EndSession

\* A step of one worker leaves the state of every other worker alone: workers
\* meet only at the broker and in the database.
LEMMA OthersUntouched ==
    ASSUME TypeOK, NEW w \in Workers, ConsumerStep(w) \/ Environment(w),
           NEW v \in Workers, v # w
    PROVE  SameWorker(v) /\ Growing
<1> USE DEF brokerVars, localVars, SameWorker, Growing
<1>1. CASE OpenSession(w)
  BY <1>1 DEF TypeOK, OpenSession
<1>2. CASE StopReconnecting(w)
  BY <1>2 DEF TypeOK, StopReconnecting
<1>3. ASSUME NEW m \in Messages, Receive(w, m) PROVE SameWorker(v) /\ Growing
  BY <1>3 DEF TypeOK, Receive
<1>4. ASSUME NEW m \in Messages, Reject(w, m) PROVE SameWorker(v) /\ Growing
  BY <1>4 DEF TypeOK, Reject, BrokerDeadLetter
<1>5. ASSUME NEW m \in Messages, RejectFails(w, m) PROVE SameWorker(v) /\ Growing
  BY <1>5, EndSessionFrame DEF RejectFails
<1>6. ASSUME NEW m \in Messages, AckDelivery(w, m) PROVE SameWorker(v) /\ Growing
  <2>1. unacked'[v] = unacked[v] /\ terminal'[v] = terminal[v] /\ conn' = conn /\ published' = published
    BY <1>6 DEF TypeOK, AckDelivery, BrokerAck
  <2>2. committed'[v] = committed[v] /\ batch'[v] = batch[v]
    BY <1>6 DEF TypeOK, AckDelivery, DropRows
  <2>3. UNCHANGED <<stored, pc, cancelled, inbox, cur, next, buffer, timer, after, faults>>
    BY <1>6 DEF AckDelivery
  <2>4. QED
    BY <2>1, <2>2, <2>3
<1>7. ASSUME NEW m \in Messages, NackDelivery(w, m) PROVE SameWorker(v) /\ Growing
  BY <1>7 DEF TypeOK, NackDelivery, BrokerRequeue, DropRows
<1>8. CASE StreamClosed(w)
  BY <1>8, EndSessionFrame DEF StreamClosed
<1>9. CASE AppendPoint(w)
  <2>1. next'[v] = next[v] /\ buffer'[v] = buffer[v] /\ timer'[v] = timer[v]
        /\ pc'[v] = pc[v] /\ batch'[v] = batch[v] /\ after'[v] = after[v]
    BY <1>9 DEF TypeOK, AppendPoint, BeginFlush, StartTimer
  <2>2. QED
    BY <1>9, <2>1 DEF AppendPoint
<1>10. CASE AppendDone(w)
  BY <1>10 DEF TypeOK, AppendDone
<1>11. CASE TimerFires(w)
  BY <1>11 DEF TypeOK, TimerFires, BeginFlush
<1>12. CASE ContextDone(w)
  <2>1. CASE EndSession(w)
    BY <2>1, EndSessionFrame
  <2>2. CASE /\ BeginFlush(w, buffer[w], "exit")
             /\ UNCHANGED <<brokerVars, stored, cancelled, inbox, cur, next, committed,
                            terminal, faults>>
    BY <2>2 DEF TypeOK, BeginFlush
  <2>3. QED
    BY <1>12, <2>1, <2>2 DEF ContextDone
<1>13. CASE SinkCommits(w)
  BY <1>13 DEF TypeOK, SinkCommits
<1>14. CASE SinkReturns(w)
  BY <1>14 DEF TypeOK, SinkReturns
<1>15. CASE SinkFails(w)
  BY <1>15 DEF TypeOK, SinkFails
<1>16. CASE BackoffElapsed(w)
  BY <1>16 DEF TypeOK, BackoffElapsed
<1>17. CASE BackoffInterrupted(w)
  BY <1>17, EndSessionFrame DEF BackoffInterrupted
<1>18. CASE SettleFails(w)
  BY <1>18, EndSessionFrame DEF SettleFails
<1>19. CASE FlushReturns(w)
  <2>1. CASE EndSession(w)
    BY <2>1, EndSessionFrame
  <2>2. CASE /\ pc' = [pc EXCEPT ![w] = after[w]]
             /\ after' = [after EXCEPT ![w] = "select"]
             /\ UNCHANGED <<brokerVars, stored, cancelled, inbox, cur, next, buffer, timer,
                            batch, committed, terminal, faults>>
    BY <2>2 DEF TypeOK
  <2>3. QED
    BY <1>19, <2>1, <2>2 DEF FlushReturns
<1>20. ASSUME NEW m \in Messages, Push(w, m) PROVE SameWorker(v) /\ Growing
  BY <1>20 DEF TypeOK, Push
<1>21. CASE DropConnection(w)
  BY <1>21 DEF TypeOK, DropConnection
<1>22. CASE Cancel(w)
  BY <1>22 DEF TypeOK, Cancel
<1>23. CASE Crash(w)
  BY <1>23, DiscardFrame DEF TypeOK, Crash
<1>24. CASE Restart(w)
  BY <1>24 DEF TypeOK, Restart
<1>25. QED
  BY <1>1, <1>2, <1>3, <1>4, <1>5, <1>6, <1>7, <1>8, <1>9, <1>10, <1>11, <1>12, <1>13,
     <1>14, <1>15, <1>16, <1>17, <1>18, <1>19, <1>20, <1>21, <1>22, <1>23, <1>24
     DEF ConsumerStep, Environment

-----------------------------------------------------------------------------
(* The broker.                                                             *)

\* Deliveries that go back to the queue keep their place.
LEMMA RequeueAllPlacement ==
    ASSUME TypeOK, Placement, NEW w \in Workers,
           queue' = queue \cup unacked[w],
           unacked' = [unacked EXCEPT ![w] = {}],
           UNCHANGED <<published, acked, dead>>
    PROVE  Placement'
<1>1. /\ unacked'[w] = {}
      /\ \A v \in Workers : v # w => unacked'[v] = unacked[v]
  BY DEF TypeOK
<1>2. (queue \cup acked \cup dead \subseteq published)'
  BY DEF Placement
<1>3. queue' \cap acked' = {} /\ queue' \cap dead' = {} /\ acked' \cap dead' = {}
  BY DEF Placement
<1>4. ASSUME NEW v \in Workers
      PROVE  /\ unacked'[v] \subseteq published'
             /\ unacked'[v] \cap queue' = {}
             /\ unacked'[v] \cap acked' = {}
             /\ unacked'[v] \cap dead' = {}
  BY <1>1 DEF Placement
<1>5. ASSUME NEW v \in Workers, NEW u \in Workers, v # u
      PROVE  unacked'[v] \cap unacked'[u] = {}
  BY <1>1, <1>5 DEF Placement
<1>6. QED
  BY <1>2, <1>3, <1>4, <1>5 DEF Placement

\* So does a delivery that moves from a session to one other place.
LEMMA SettlePlacement ==
    ASSUME TypeOK, Placement, NEW w \in Workers, NEW m \in Messages,
           conn[w] => m \in unacked[w],
           ~conn[w] => unacked[w] = {},
           BrokerAck(w, m) \/ BrokerRequeue(w, m) \/ BrokerDeadLetter(w, m)
    PROVE  Placement'
<1>1. /\ unacked'[w] = unacked[w] \ {m}
      /\ \A v \in Workers : v # w => unacked'[v] = unacked[v]
      /\ published' = published
  BY DEF TypeOK, BrokerAck, BrokerRequeue, BrokerDeadLetter
<1>2. ASSUME NEW v \in Workers, NEW u \in Workers, v # u
      PROVE  unacked'[v] \cap unacked'[u] = {}
  BY <1>1, <1>2 DEF Placement
<1>3. CASE ~conn[w]
  <2>1. queue' = queue /\ acked' = acked /\ dead' = dead
    BY <1>3 DEF BrokerAck, BrokerRequeue, BrokerDeadLetter
  <2>2. QED
    BY <1>1, <1>2, <2>1 DEF Placement
<1>4. CASE conn[w]
  <2>1. m \in unacked[w] /\ m \in published /\ m \notin queue \cup acked \cup dead
    BY <1>4 DEF Placement
  <2>2. \A v \in Workers : v # w => m \notin unacked[v]
    BY <2>1 DEF Placement
  <2>3. \A v \in Workers : m \notin unacked'[v] /\ unacked'[v] \subseteq unacked[v]
    BY <1>1, <2>2
  <2>4. \/ queue' = queue \cup {m} /\ acked' = acked /\ dead' = dead
        \/ queue' = queue /\ acked' = acked \cup {m} /\ dead' = dead
        \/ queue' = queue /\ acked' = acked /\ dead' = dead \cup {m}
    BY <1>4 DEF BrokerAck, BrokerRequeue, BrokerDeadLetter
  <2>5. /\ (queue \cup acked \cup dead \subseteq published)'
        /\ queue' \cap acked' = {} /\ queue' \cap dead' = {} /\ acked' \cap dead' = {}
    BY <1>1, <2>1, <2>4 DEF Placement
  <2>6. ASSUME NEW v \in Workers
        PROVE  /\ unacked'[v] \subseteq published'
               /\ unacked'[v] \cap queue' = {}
               /\ unacked'[v] \cap acked' = {}
               /\ unacked'[v] \cap dead' = {}
    BY <1>1, <2>3, <2>4 DEF Placement
  <2>7. QED
    BY <1>2, <2>5, <2>6 DEF Placement
<1>5. QED
  BY <1>3, <1>4

\* A delivery with rows in the batch is unsettled, if the session lives.
LEMMA BatchIsOwned ==
    ASSUME NEW w \in Workers, NEW m \in Messages, WorkerInv(w), m \in Deliveries(batch[w])
    PROVE  /\ InHand(w, m)
           /\ m \in published \ Invalid
           /\ conn[w] => m \in unacked[w]
           /\ ~conn[w] => unacked[w] = {}
           /\ m \notin inbox[w]
<1>1. Held(w, m) # {}
  BY DEF Held, RowsOf, Deliveries
<1>2. QED
  BY <1>1 DEF InHand, WorkerInv, Ownership, Control

\* Run requeues what the session left unsettled, so each message keeps one place.
LEMMA EndSessionPlacement ==
    ASSUME TypeOK, Placement, NEW w \in Workers, EndSession(w)
    PROVE  Placement'
BY RequeueAllPlacement DEF EndSession, DiscardSession

\* Every step keeps each message in one place.
LEMMA PlacementStep ==
    ASSUME Inv, [Next]_vars
    PROVE  Placement'
<1> USE DEF Inv
<1>1. CASE UNCHANGED brokerVars
  BY <1>1 DEF Placement, brokerVars
<1>2. ASSUME NEW m \in Messages, Publish(m) PROVE Placement'
  BY <1>2 DEF Placement, Publish
<1>3. ASSUME NEW w \in Workers, ConsumerStep(w) PROVE Placement'
  <2>1. CASE OpenSession(w)
    BY <2>1 DEF OpenSession, Placement
  <2>2. ASSUME NEW m \in Messages, Reject(w, m) PROVE Placement'
    <3>1. (conn[w] => m \in unacked[w]) /\ (~conn[w] => unacked[w] = {})
      BY <2>2 DEF Reject, WorkerInv, Ownership, Control
    <3>2. QED
      BY <2>2, <3>1, SettlePlacement DEF Reject
  <2>3. ASSUME NEW m \in Messages, AckDelivery(w, m) PROVE Placement'
    <3>1. (conn[w] => m \in unacked[w]) /\ (~conn[w] => unacked[w] = {})
      BY <2>3, BatchIsOwned DEF AckDelivery
    <3>2. BrokerAck(w, m) \/ UNCHANGED brokerVars
      BY <2>3 DEF AckDelivery
    <3>3. QED
      BY <1>1, <3>1, <3>2, SettlePlacement
  <2>4. ASSUME NEW m \in Messages, NackDelivery(w, m) PROVE Placement'
    <3>1. (conn[w] => m \in unacked[w]) /\ (~conn[w] => unacked[w] = {})
      BY <2>4, BatchIsOwned DEF NackDelivery
    <3>2. QED
      BY <2>4, <3>1, SettlePlacement DEF NackDelivery
  <2>5. CASE EndSession(w)
    BY <2>5, EndSessionPlacement
  <2>6. QED
    BY <1>1, <1>3, <2>1, <2>2, <2>3, <2>4, <2>5
    DEF ConsumerStep, StopReconnecting, Receive, RejectFails, StreamClosed, AppendPoint,
        AppendDone, TimerFires, ContextDone, SinkCommits, SinkReturns, SinkFails,
        BackoffElapsed, BackoffInterrupted, SettleFails, FlushReturns, brokerVars
<1>4. ASSUME NEW w \in Workers, Environment(w) PROVE Placement'
  <2>1. ASSUME NEW m \in Messages, Push(w, m) PROVE Placement'
    <3>1. /\ unacked'[w] = unacked[w] \cup {m}
          /\ \A v \in Workers : v # w => unacked'[v] = unacked[v]
          /\ queue' = queue \ {m} /\ m \in queue
          /\ UNCHANGED <<published, acked, dead>>
      BY <2>1 DEF TypeOK, Push
    <3>2. ASSUME NEW v \in Workers, NEW u \in Workers, v # u
          PROVE  unacked'[v] \cap unacked'[u] = {}
      BY <3>1, <3>2 DEF Placement
    <3>3. ASSUME NEW v \in Workers
          PROVE  /\ unacked'[v] \subseteq published'
                 /\ unacked'[v] \cap queue' = {}
                 /\ unacked'[v] \cap acked' = {}
                 /\ unacked'[v] \cap dead' = {}
      BY <3>1 DEF Placement
    <3>4. QED
      BY <3>1, <3>2, <3>3 DEF Placement
  <2>2. CASE DropConnection(w)
    BY <2>2, RequeueAllPlacement DEF DropConnection
  <2>3. CASE Crash(w)
    BY <2>3, RequeueAllPlacement DEF Crash, DiscardSession
  <2>4. QED
    BY <1>1, <1>4, <2>1, <2>2, <2>3 DEF Environment, Cancel, Restart
<1>5. QED
  BY <1>1, <1>2, <1>3, <1>4 DEF Next, vars, brokerVars

-----------------------------------------------------------------------------
(* Rows.                                                                   *)

\* committedRowsByDelivery counts an interval of rows.
LEMMA RowRangeCardinality ==
    ASSUME NEW m, NEW lo \in Nat, NEW hi \in Nat, lo <= hi + 1
    PROVE  Cardinality(RowRange(m, lo, hi)) = hi + 1 - lo
<1> DEFINE f == [i \in lo..hi |-> [msg |-> m, row |-> i]]
<1>1. f \in [lo..hi -> RowRange(m, lo, hi)]
  BY DEF RowRange
<1>2. \A i, j \in lo..hi : f[i] = f[j] => i = j
  OBVIOUS
<1>3. \A p \in RowRange(m, lo, hi) : \E i \in lo..hi : f[i] = p
  BY DEF RowRange
<1>4. f \in Bijection(lo..hi, RowRange(m, lo, hi))
  BY <1>1, <1>2, <1>3 DEF Bijection, Injection, Surjection, IsInjective
<1>5. ExistsBijection(lo..hi, RowRange(m, lo, hi))
  BY <1>4 DEF ExistsBijection
<1>6. IsFiniteSet(lo..hi) /\ Cardinality(lo..hi) = hi + 1 - lo
  BY FS_Interval
<1>7. QED
  BY <1>5, <1>6, FS_Bijection

\* deliveryState.totalRows is a positive number.
LEMMA TotalRowsType ==
    ASSUME NEW m \in Messages
    PROVE  TotalRows(m) \in Nat \ {0}
BY MessagesAssumption, NonEmptyAssumption DEF TotalRows

\* What an action that leaves the rows in place preserves.
SameHands(w) ==
    /\ buffer'[w] \cup batch'[w] = buffer[w] \cup batch[w]
    /\ cur'[w] = cur[w] /\ next'[w] = next[w]
    /\ committed'[w] = committed[w] /\ terminal'[w] = terminal[w]

\* A step that changes neither the rows nor the position of w keeps the intervals ...
LEMMA SameHandsInterval ==
    ASSUME NEW w \in Workers, WorkerInv(w), SameHands(w), NEW m \in Messages
    PROVE  /\ Interval(w, m)'
           /\ Held(w, m)' = Held(w, m)
           /\ InHand(w, m)' <=> InHand(w, m)
<1>1. Held(w, m)' = Held(w, m) /\ (Expanding(w, m)' <=> Expanding(w, m))
  BY DEF SameHands, Held, Expanding
<1>2. Interval(w, m)
  BY DEF WorkerInv
<1>3. Interval(w, m)'
  BY <1>1, <1>2 DEF SameHands, Interval
<1>4. QED
  BY <1>1, <1>3 DEF InHand

\* ... and one that leaves the broker's view of w in place as well.
LEMMA SameHandsOwnership ==
    ASSUME NEW w \in Workers, WorkerInv(w), SameHands(w), NEW m \in Messages,
           conn'[w] = conn[w], unacked'[w] = unacked[w], inbox'[w] = inbox[w],
           published \subseteq published'
    PROVE  Interval(w, m)' /\ Ownership(w, m)'
<1>1. Interval(w, m)' /\ (InHand(w, m)' <=> InHand(w, m))
  BY SameHandsInterval
<1>2. Ownership(w, m)
  BY DEF WorkerInv
<1>3. QED
  BY <1>1, <1>2 DEF Ownership

\* A new or closed session holds nothing.
LEMMA FreshWorker ==
    ASSUME NEW w \in Workers, TypeOK',
           ~conn'[w], unacked'[w] = {}, inbox'[w] = {}, cur'[w] = NoMessage,
           buffer'[w] = {}, batch'[w] = {}, pc'[w] \in {"connecting", "stopped"},
           \A m \in Messages : committed'[w][m] = 0
    PROVE  WorkerInv(w)'
<1>1. Control(w)'
  BY DEF Control, InAppendLoop, Flushing
<1>2. Durable(w)'
  BY DEF Durable
<1>3. ASSUME NEW m \in Messages PROVE Interval(w, m)' /\ Ownership(w, m)'
  <2>1. Held(w, m)' = {} /\ ~Expanding(w, m)'
    BY MessagesAssumption DEF Held, RowsOf, Expanding
  <2>2. QED
    BY <2>1 DEF Interval, Ownership, InHand
<1>4. Limits(w)'
  BY FS_EmptySet, ConfigAssumption DEF Limits
<1>5. QED
  BY <1>1, <1>2, <1>3, <1>4 DEF WorkerInv

\* The end of a session, whatever ended it, leaves w with nothing in hand.
LEMMA EndSessionWorker ==
    ASSUME TypeOK, TypeOK', NEW w \in Workers, EndSession(w)
    PROVE  WorkerInv(w)'
<1>1. pc'[w] \in {"connecting", "stopped"}
  BY DEF EndSession, TypeOK
<1>2. QED
  BY <1>1, FreshWorker DEF EndSession, DiscardSession, TypeOK

\* Handing the buffer to flush from the select loop (timer or shutdown) moves the
\* rows from buffer to batch and loses none.
LEMMA BeginFlushWorker ==
    ASSUME TypeOK, NEW w \in Workers, WorkerInv(w), pc[w] = "select",
           NEW then \in {"select", "exit"}, BeginFlush(w, buffer[w], then),
           UNCHANGED <<brokerVars, stored, cancelled, inbox, cur, next, committed, terminal, faults>>
    PROVE  WorkerInv(w)'
<1> USE DEF brokerVars
<1>0. batch[w] = {} /\ cur[w] = NoMessage
  BY DEF WorkerInv, Control, InAppendLoop, Flushing
<1>1. /\ pc'[w] = "flush" /\ batch'[w] = buffer[w] /\ buffer'[w] = {}
      /\ timer'[w] = FALSE /\ after'[w] = then
  BY DEF TypeOK, BeginFlush
<1>2. Control(w)'
  BY <1>0, <1>1 DEF WorkerInv, Control, InAppendLoop, Flushing
<1>3. Durable(w)'
  BY <1>1 DEF WorkerInv, Durable
<1>4. SameHands(w)
  BY <1>0, <1>1 DEF SameHands
<1>5. \A m \in Messages : Interval(w, m)' /\ Ownership(w, m)'
  BY <1>4, SameHandsOwnership
<1>6. Limits(w)'
  <2>1. Cardinality(buffer[w]) \in Nat
    BY FS_CardinalityType DEF WorkerInv, Limits
  <2>2. QED
    BY <1>1, <2>1, FS_EmptySet, ConfigAssumption DEF WorkerInv, Limits
<1>7. QED
  BY <1>2, <1>3, <1>5, <1>6 DEF WorkerInv

-----------------------------------------------------------------------------
(* The steps that change what a worker holds.                              *)

\* Receiving a delivery starts an empty interval of rows for it.
LEMMA ReceiveWorker ==
    ASSUME TypeOK, NEW w \in Workers, WorkerInv(w), NEW m \in Messages, Receive(w, m)
    PROVE  WorkerInv(w)'
<1> USE DEF brokerVars
<1>1. /\ pc[w] = "select" /\ pc'[w] = "append" /\ cur'[w] = m /\ next'[w] = 1
      /\ inbox'[w] = inbox[w] \ {m} /\ m \in inbox[w] /\ m \notin Invalid
      /\ terminal'[w] = terminal[w] \ {m}
      /\ UNCHANGED <<brokerVars, stored, cancelled, buffer, timer, batch, after, faults>>
  BY DEF TypeOK, Receive
<1>2. committed'[w] = [committed[w] EXCEPT ![m] = 0]
  BY DEF TypeOK, Receive
<1>3. committed'[w][m] = 0 /\ \A k \in Messages : k # m => committed'[w][k] = committed[w][k]
  BY <1>2 DEF TypeOK
<1>4. batch[w] = {} /\ cur[w] = NoMessage
  BY <1>1 DEF WorkerInv, Control, InAppendLoop, Flushing
<1>5. Control(w)'
  BY <1>1, <1>4, MessagesAssumption DEF WorkerInv, Control, InAppendLoop, Flushing
<1>6. Durable(w)'
  <2>1. ASSUME NEW k \in Messages, NEW i \in 1..committed'[w][k], i <= TotalRows(k)
        PROVE  PointsOf[k][i] \in stored'
    <3>1. CASE k = m
      BY <1>3, <2>1, <3>1
    <3>2. CASE k # m
      BY <1>1, <1>3, <2>1, <3>2 DEF WorkerInv, Durable
    <3>3. QED
      BY <3>1, <3>2
  <2>2. QED
    BY <1>1, <2>1 DEF Durable
<1>7. ASSUME NEW k \in Messages PROVE Interval(w, k)' /\ Ownership(w, k)'
  <2>1. Held(w, k)' = Held(w, k) /\ Interval(w, k) /\ Ownership(w, k)
    BY <1>1 DEF Held, WorkerInv
  <2>2. CASE k = m
    <3>1. Held(w, m) = {} /\ Expanding(w, m)' /\ m \in published
      BY <1>1, <2>1, <2>2 DEF Ownership, InHand, Expanding
    <3>2. RowRange(m, committed'[w][m] + 1, next'[w] - 1) = {}
      BY <1>1, <1>3 DEF RowRange
    <3>3. Interval(w, m)'
      <4>1. /\ committed'[w][m] < next'[w]
            /\ committed'[w][m] < TotalRows(m)
            /\ next'[w] <= TotalRows(m) + 1
        BY <1>1, <1>3, TotalRowsType
      <4>2. Held(w, m)' = RowRange(m, committed'[w][m] + 1, next'[w] - 1)
        BY <2>1, <2>2, <3>1, <3>2
      <4>3. QED
        BY <3>1, <4>1, <4>2 DEF Interval
    <3>4. Ownership(w, m)'
      BY <1>1, <2>1, <2>2, <3>1 DEF Ownership, InHand
    <3>5. QED
      BY <2>2, <3>3, <3>4
  <2>3. CASE k # m
    <3>1. ~Expanding(w, k)' /\ ~Expanding(w, k) /\ (k \in terminal'[w] <=> k \in terminal[w])
      BY <1>1, <1>4, <2>3, MessagesAssumption DEF Expanding
    <3>2. Interval(w, k)'
      BY <1>1, <1>3, <2>1, <2>3, <3>1 DEF Interval
    <3>3. Ownership(w, k)'
      BY <1>1, <2>1, <2>3, <3>1 DEF Ownership, InHand
    <3>4. QED
      BY <3>2, <3>3
  <2>4. QED
    BY <2>2, <2>3
<1>8. Limits(w)'
  BY <1>1 DEF WorkerInv, Limits
<1>9. QED
  BY <1>5, <1>6, <1>7, <1>8 DEF WorkerInv

\* One turn of the append loop lengthens the interval by a row, and the flush at
\* BatchMax moves it to the batch.
LEMMA AppendPointWorker ==
    ASSUME TypeOK, NEW w \in Workers, WorkerInv(w), AppendPoint(w)
    PROVE  WorkerInv(w)'
<1> USE DEF brokerVars
<1>0. PICK m \in Messages : m = cur[w]
  BY DEF AppendPoint, WorkerInv, Control, InAppendLoop, TypeOK
<1> DEFINE row == [msg |-> m, row |-> next[w]]
           rows == buffer[w] \cup {row}
<1>1. /\ pc[w] = "append" /\ m \notin terminal[w] /\ next[w] <= TotalRows(m)
      /\ next'[w] = next[w] + 1
      /\ UNCHANGED <<brokerVars, stored, cancelled, inbox, cur, committed, terminal, faults>>
  BY <1>0 DEF TypeOK, AppendPoint
<1>2. \/ /\ pc'[w] = "flush" /\ batch'[w] = rows /\ buffer'[w] = {}
         /\ timer'[w] = FALSE /\ after'[w] = "append" /\ Cardinality(rows) = BatchMax
      \/ /\ pc'[w] = pc[w] /\ batch'[w] = batch[w] /\ buffer'[w] = rows
         /\ timer'[w] = TRUE /\ after'[w] = after[w] /\ Cardinality(rows) # BatchMax
  BY <1>0 DEF TypeOK, AppendPoint, BeginFlush, BatchFull, StartTimer
<1>3. batch[w] = {}
  BY <1>1 DEF WorkerInv, Control, Flushing
<1>4. Control(w)'
  BY <1>0, <1>1, <1>2, <1>3, MessagesAssumption DEF WorkerInv, Control, InAppendLoop, Flushing
<1>5. Durable(w)'
  BY <1>1, <1>2 DEF WorkerInv, Durable
<1>6. buffer'[w] \cup batch'[w] = (buffer[w] \cup batch[w]) \cup {row}
  BY <1>2, <1>3
<1>7. ASSUME NEW k \in Messages PROVE Interval(w, k)' /\ Ownership(w, k)'
  <2>1. Interval(w, k) /\ Ownership(w, k) /\ (Expanding(w, k)' <=> Expanding(w, k))
    BY <1>1 DEF WorkerInv, Expanding
  <2>2. CASE k = m
    <3>1. Expanding(w, m)
      BY <1>0, <1>1 DEF Expanding
    <3>2. Held(w, m)' = Held(w, m) \cup {row}
      BY <1>6 DEF Held, RowsOf
    <3>3. /\ next[w] \in Nat \ {0} /\ committed[w][m] \in Nat
          /\ committed[w][m] < next[w] /\ committed[w][m] < TotalRows(m)
          /\ Held(w, m) = RowRange(m, committed[w][m] + 1, next[w] - 1)
      BY <1>3, <2>1, <2>2, <3>1 DEF Interval, TypeOK
    <3>4. RowRange(m, committed[w][m] + 1, next[w])
              = RowRange(m, committed[w][m] + 1, next[w] - 1) \cup {row}
      BY <3>3 DEF RowRange
    <3>5. next'[w] - 1 = next[w]
      BY <1>1, <3>3
    <3>6. Held(w, m)' = RowRange(m, committed'[w][m] + 1, next'[w] - 1)
      BY <1>1, <3>2, <3>3, <3>4, <3>5
    <3>7. Interval(w, m)'
      BY <1>1, <1>3, <2>1, <2>2, <3>1, <3>3, <3>6, TotalRowsType DEF Interval
    <3>8. Ownership(w, m)'
      BY <1>1, <2>1, <2>2, <3>1 DEF Ownership, InHand
    <3>9. QED
      BY <2>2, <3>7, <3>8
  <2>3. CASE k # m
    <3>1. Held(w, k)' = Held(w, k) /\ ~Expanding(w, k)
      BY <1>0, <1>6, <2>3 DEF Held, RowsOf, Expanding
    <3>2. Interval(w, k)'
      BY <1>1, <2>1, <3>1 DEF Interval
    <3>3. Ownership(w, k)'
      BY <1>1, <2>1, <3>1 DEF Ownership, InHand
    <3>4. QED
      BY <3>2, <3>3
  <2>4. QED
    BY <2>2, <2>3
<1>8. Limits(w)'
  <2>1. /\ IsFiniteSet(rows) /\ Cardinality(rows) \in Nat
        /\ Cardinality(rows) <= Cardinality(buffer[w]) + 1
        /\ Cardinality(buffer[w]) \in Nat /\ Cardinality(buffer[w]) < BatchMax
    <3>1. /\ IsFiniteSet(buffer[w]) /\ Cardinality(buffer[w]) < BatchMax
          /\ Cardinality(buffer[w]) \in Nat
      BY FS_CardinalityType DEF WorkerInv, Limits
    <3>2. /\ IsFiniteSet(rows)
          /\ Cardinality(rows) = IF row \in buffer[w] THEN Cardinality(buffer[w])
                                 ELSE Cardinality(buffer[w]) + 1
      BY <3>1, FS_AddElement
    <3>3. QED
      BY <3>1, <3>2
  <2>2. Cardinality(rows) <= BatchMax
    BY <2>1, ConfigAssumption
  <2>3. Cardinality({}) = 0 /\ IsFiniteSet({}) /\ 0 < BatchMax
    BY FS_EmptySet, ConfigAssumption
  <2>4. CASE batch'[w] = rows /\ buffer'[w] = {}
    BY <2>1, <2>2, <2>3, <2>4 DEF Limits
  <2>5. CASE batch'[w] = {} /\ buffer'[w] = rows /\ Cardinality(rows) # BatchMax
    BY <2>1, <2>2, <2>3, <2>5, ConfigAssumption DEF Limits
  <2>6. QED
    BY <1>2, <1>3, <2>4, <2>5
<1>9. QED
  BY <1>4, <1>5, <1>7, <1>8 DEF WorkerInv

\* The append loop ends with all rows held or with the delivery settled.
LEMMA AppendDoneWorker ==
    ASSUME TypeOK, NEW w \in Workers, WorkerInv(w), AppendDone(w)
    PROVE  WorkerInv(w)'
<1> USE DEF brokerVars
<1>1. /\ pc[w] = "append" /\ pc'[w] = "select" /\ cur'[w] = NoMessage
      /\ cur[w] \in terminal[w] \/ next[w] > TotalRows(cur[w])
      /\ UNCHANGED <<brokerVars, stored, cancelled, inbox, buffer, timer, batch, after,
                     committed, terminal, faults>>
  BY DEF TypeOK, AppendDone
<1>2. batch[w] = {} /\ cur[w] \in Messages
  BY <1>1 DEF WorkerInv, Control, InAppendLoop, Flushing, TypeOK
<1>3. Control(w)'
  BY <1>1, <1>2 DEF WorkerInv, Control, InAppendLoop, Flushing
<1>4. Durable(w)'
  BY <1>1 DEF WorkerInv, Durable
<1>5. ASSUME NEW k \in Messages PROVE Interval(w, k)' /\ Ownership(w, k)'
  <2>1. /\ Interval(w, k) /\ Ownership(w, k)
        /\ ~Expanding(w, k)' /\ Held(w, k)' = Held(w, k)
    BY <1>1, MessagesAssumption DEF WorkerInv, Expanding, Held
  <2>2. CASE ~Expanding(w, k)
    BY <1>1, <2>1, <2>2 DEF Interval, Ownership, InHand
  <2>3. CASE Expanding(w, k)
    <3>1. next[w] = TotalRows(k) + 1
      <4>1. next[w] > TotalRows(k) /\ next[w] <= TotalRows(k) + 1
        BY <1>1, <2>1, <2>3 DEF Interval, Expanding
      <4>2. next[w] \in Nat /\ TotalRows(k) \in Nat
        BY TotalRowsType DEF TypeOK
      <4>3. QED
        BY <4>1, <4>2
    <3>2. Held(w, k) = RowRange(k, committed[w][k] + 1, TotalRows(k))
      BY <2>1, <2>3, <3>1, TotalRowsType DEF Interval
    <3>3. Held(w, k) # {}
      <4>1. committed[w][k] + 1 \in (committed[w][k] + 1)..TotalRows(k)
        BY <2>1, <2>3, TotalRowsType DEF Interval, TypeOK
      <4>2. QED
        BY <3>2, <4>1 DEF RowRange
    <3>4. Interval(w, k)'
      BY <1>1, <2>1, <2>3, <3>2 DEF Interval, Expanding
    <3>5. Ownership(w, k)'
      BY <1>1, <2>1, <2>3, <3>3 DEF Ownership, InHand
    <3>6. QED
      BY <3>4, <3>5
  <2>4. QED
    BY <2>2, <2>3
<1>6. Limits(w)'
  BY <1>1 DEF WorkerInv, Limits
<1>7. QED
  BY <1>3, <1>4, <1>5, <1>6 DEF WorkerInv

\* Dropping the rows of m from the batch leaves nothing of m and all of the rest.
LEMMA DropRowsHeld ==
    ASSUME TypeOK, NEW w \in Workers, NEW m \in Messages, DropRows(w, m),
           buffer[w] = {}, buffer' = buffer
    PROVE  /\ Held(w, m)' = {}
           /\ \A k \in Messages : k # m => Held(w, k)' = Held(w, k)
           /\ batch'[w] \subseteq batch[w]
<1>1. batch'[w] = batch[w] \ RowsOf(batch[w], m)
  BY DEF TypeOK, DropRows
<1>2. QED
  BY <1>1 DEF Held, RowsOf

\* A smaller batch is within the limits.
LEMMA SmallerBatch ==
    ASSUME NEW w \in Workers, WorkerInv(w), batch'[w] \subseteq batch[w], buffer' = buffer
    PROVE  Limits(w)'
<1>1. IsFiniteSet(batch[w]) /\ Cardinality(batch[w]) <= BatchMax /\ Cardinality(batch[w]) \in Nat
  BY FS_CardinalityType DEF WorkerInv, Limits
<1>2. /\ IsFiniteSet(batch'[w]) /\ Cardinality(batch'[w]) <= Cardinality(batch[w])
      /\ Cardinality(batch'[w]) \in Nat
  BY <1>1, FS_Subset, FS_CardinalityType
<1>3. QED
  BY <1>1, <1>2, ConfigAssumption DEF WorkerInv, Limits

\* The rows a committed batch adds to committedRows: they reach up to the
\* last row appended, and all of them are stored.
LEMMA AckedRows ==
    ASSUME TypeOK, NEW w \in Workers, WorkerInv(w), NEW m \in Messages,
           pc[w] = "ack", m \in Deliveries(batch[w])
    PROVE  LET rows == committed[w][m] + Cardinality(RowsOf(batch[w], m))
           IN  /\ rows = IF Expanding(w, m) THEN next[w] - 1 ELSE TotalRows(m)
               /\ rows \in Nat /\ rows <= TotalRows(m)
               /\ m \notin terminal[w]
               /\ \A i \in 1..rows : PointsOf[m][i] \in stored
<1> DEFINE hi == IF Expanding(w, m) THEN next[w] - 1 ELSE TotalRows(m)
<1>1. buffer[w] = {} /\ RowsOf(batch[w], m) = Held(w, m) /\ Held(w, m) # {}
  BY DEF WorkerInv, Control, Flushing, Held, RowsOf, Deliveries
<1>2. Interval(w, m)
  BY DEF WorkerInv
<1>3. /\ m \notin terminal[w]
      /\ Held(w, m) = RowRange(m, committed[w][m] + 1, hi)
  BY <1>1, <1>2 DEF Interval, Expanding
<1>4. committed[w][m] \in Nat /\ TotalRows(m) \in Nat /\ next[w] \in Nat \ {0}
  BY TotalRowsType DEF TypeOK
<1>5. hi \in Nat /\ hi <= TotalRows(m)
  BY <1>2, <1>4 DEF Interval
<1>6. committed[w][m] + 1 <= hi
  <2>1. PICK p \in RowRange(m, committed[w][m] + 1, hi) : TRUE
    BY <1>1, <1>3
  <2>2. PICK i \in (committed[w][m] + 1)..hi : p = [msg |-> m, row |-> i]
    BY <2>1 DEF RowRange
  <2>3. QED
    BY <1>4, <1>5, <2>2
<1>7. Cardinality(RowsOf(batch[w], m)) = hi + 1 - (committed[w][m] + 1)
  BY <1>1, <1>3, <1>4, <1>5, <1>6, RowRangeCardinality
<1>8. committed[w][m] + Cardinality(RowsOf(batch[w], m)) = hi
  BY <1>4, <1>5, <1>7
<1>9. ASSUME NEW i \in 1..hi PROVE PointsOf[m][i] \in stored
  <2>1. CASE i <= committed[w][m]
    BY <1>4, <1>5, <2>1 DEF WorkerInv, Durable
  <2>2. CASE i > committed[w][m]
    <3>1. [msg |-> m, row |-> i] \in RowRange(m, committed[w][m] + 1, hi)
      BY <1>4, <1>5, <2>2 DEF RowRange
    <3>2. [msg |-> m, row |-> i] \in batch[w]
      BY <1>1, <1>3, <3>1 DEF RowsOf
    <3>3. PointOf([msg |-> m, row |-> i]) \in stored
      BY <3>2 DEF WorkerInv, Durable
    <3>4. QED
      BY <3>3 DEF PointOf
  <2>3. QED
    BY <1>4, <2>1, <2>2
<1>10. QED
  BY <1>3, <1>5, <1>8, <1>9

\* One turn of the acknowledgement loop moves committedRows to the end of the rows
\* of the batch, and settles the delivery exactly when no row is left.
LEMMA AckWorker ==
    ASSUME TypeOK, NEW w \in Workers, WorkerInv(w), NEW m \in Messages, AckDelivery(w, m)
    PROVE  WorkerInv(w)'
<1> USE DEF brokerVars
<1> DEFINE rows == committed[w][m] + Cardinality(RowsOf(batch[w], m))
<1>1. /\ pc[w] = "ack" /\ m \in Deliveries(batch[w]) /\ DropRows(w, m)
      /\ UNCHANGED <<stored, pc, cancelled, inbox, cur, next, buffer, timer, after, faults>>
  BY DEF AckDelivery
<1>2. /\ rows = IF Expanding(w, m) THEN next[w] - 1 ELSE TotalRows(m)
      /\ rows \in Nat /\ rows <= TotalRows(m)
      /\ m \notin terminal[w]
      /\ \A i \in 1..rows : PointsOf[m][i] \in stored
  BY <1>1, AckedRows
<1>3. committed'[w][m] = rows /\ \A k \in Messages : k # m => committed'[w][k] = committed[w][k]
  BY <1>2 DEF TypeOK, AckDelivery
<1>4. /\ conn' = conn /\ published' = published
      /\ \A k \in Messages : k # m => /\ k \in unacked'[w] <=> k \in unacked[w]
                                      /\ k \in terminal'[w] <=> k \in terminal[w]
      /\ unacked'[w] \subseteq unacked[w]
      /\ IF rows = TotalRows(m) THEN m \notin unacked'[w] /\ m \in terminal'[w]
         ELSE unacked'[w] = unacked[w] /\ terminal'[w] = terminal[w]
  BY <1>2 DEF TypeOK, AckDelivery, BrokerAck
<1>5. buffer[w] = {}
  BY <1>1 DEF WorkerInv, Control, Flushing
<1>6. /\ Held(w, m)' = {}
      /\ \A k \in Messages : k # m => Held(w, k)' = Held(w, k)
      /\ batch'[w] \subseteq batch[w]
  BY <1>1, <1>5, DropRowsHeld
<1>7. Control(w)'
  BY <1>1, <1>4 DEF WorkerInv, Control, InAppendLoop, Flushing
<1>8. Durable(w)'
  <2>1. ASSUME NEW k \in Messages, NEW i \in 1..committed'[w][k], i <= TotalRows(k)
        PROVE  PointsOf[k][i] \in stored'
    <3>1. CASE k = m
      BY <1>1, <1>2, <1>3, <3>1
    <3>2. CASE k # m
      BY <1>1, <1>3, <2>1, <3>2 DEF WorkerInv, Durable
    <3>3. QED
      BY <3>1, <3>2
  <2>2. \A p \in batch'[w] : PointOf(p) \in stored'
    BY <1>1, <1>6 DEF WorkerInv, Durable
  <2>3. QED
    BY <2>1, <2>2 DEF Durable
<1>9. ASSUME NEW k \in Messages PROVE Interval(w, k)' /\ Ownership(w, k)'
  <2>1. Interval(w, k) /\ Ownership(w, k)
    BY DEF WorkerInv
  <2>2. CASE k # m
    <3>1. Held(w, k)' = Held(w, k) /\ (Expanding(w, k)' <=> Expanding(w, k))
      BY <1>1, <1>4, <1>6, <2>2 DEF Expanding
    <3>2. Interval(w, k)'
      BY <1>1, <1>3, <1>4, <2>1, <2>2, <3>1 DEF Interval
    <3>3. Ownership(w, k)'
      BY <1>1, <1>4, <2>1, <2>2, <3>1 DEF Ownership, InHand
    <3>4. QED
      BY <3>2, <3>3
  <2>3. CASE k = m /\ rows = TotalRows(m)
    <3>1. ~Expanding(w, m)' /\ ~InHand(w, m)'
      BY <1>4, <1>6, <2>3 DEF Expanding, InHand
    <3>2. Interval(w, m)'
      BY <1>6, <3>1 DEF Interval
    <3>3. m \notin inbox[w]
      BY <1>1, BatchIsOwned
    <3>4. Ownership(w, m)'
      BY <1>1, <1>4, <2>3, <3>1, <3>3 DEF Ownership
    <3>5. QED
      BY <2>3, <3>2, <3>4
  <2>4. CASE k = m /\ rows # TotalRows(m)
    <3>1. Expanding(w, m) /\ rows = next[w] - 1
      BY <1>2, <2>4
    <3>2. Expanding(w, m)'
      BY <1>1, <1>4, <2>4, <3>1 DEF Expanding
    <3>3. next[w] \in Nat \ {0} /\ TotalRows(m) \in Nat
      BY TotalRowsType DEF TypeOK
    <3>4. RowRange(m, committed'[w][m] + 1, next'[w] - 1) = {}
      BY <1>1, <1>3, <3>1, <3>3 DEF RowRange
    <3>5. /\ committed'[w][m] < next'[w]
          /\ committed'[w][m] < TotalRows(m)
          /\ next'[w] <= TotalRows(m) + 1
      BY <1>1, <1>2, <1>3, <2>4, <3>1, <3>3
    <3>6. Interval(w, m)'
      BY <1>6, <3>2, <3>4, <3>5 DEF Interval
    <3>7. Ownership(w, m)'
      BY <1>1, <1>4, <2>1, <2>4, <3>1, <3>2 DEF Ownership, InHand
    <3>8. QED
      BY <2>4, <3>6, <3>7
  <2>5. QED
    BY <2>2, <2>3, <2>4
<1>10. Limits(w)'
  BY <1>1, <1>6, SmallerBatch
<1>11. QED
  BY <1>7, <1>8, <1>9, <1>10 DEF WorkerInv

\* One turn of the requeue loop leaves nothing of the delivery in hand.
LEMMA NackWorker ==
    ASSUME TypeOK, NEW w \in Workers, WorkerInv(w), NEW m \in Messages, NackDelivery(w, m)
    PROVE  WorkerInv(w)'
<1>1. /\ pc[w] = "nack" /\ m \in Deliveries(batch[w]) /\ DropRows(w, m)
      /\ UNCHANGED <<stored, pc, cancelled, inbox, cur, next, buffer, timer, after, committed, faults>>
  BY DEF NackDelivery
<1>2. /\ conn' = conn /\ published' = published
      /\ unacked'[w] = unacked[w] \ {m} /\ terminal'[w] = terminal[w] \cup {m}
  BY DEF TypeOK, NackDelivery, BrokerRequeue
<1>3. buffer[w] = {}
  BY <1>1 DEF WorkerInv, Control, Flushing
<1>4. /\ Held(w, m)' = {}
      /\ \A k \in Messages : k # m => Held(w, k)' = Held(w, k)
      /\ batch'[w] \subseteq batch[w]
  BY <1>1, <1>3, DropRowsHeld
<1>5. Control(w)'
  BY <1>1, <1>2 DEF WorkerInv, Control, InAppendLoop, Flushing
<1>6. Durable(w)'
  BY <1>1, <1>4 DEF WorkerInv, Durable
<1>7. ASSUME NEW k \in Messages PROVE Interval(w, k)' /\ Ownership(w, k)'
  <2>1. Interval(w, k) /\ Ownership(w, k)
    BY DEF WorkerInv
  <2>2. CASE k # m
    <3>1. Held(w, k)' = Held(w, k) /\ (Expanding(w, k)' <=> Expanding(w, k))
      BY <1>1, <1>2, <1>4, <2>2 DEF Expanding
    <3>2. Interval(w, k)'
      BY <1>1, <1>2, <2>1, <2>2, <3>1 DEF Interval
    <3>3. Ownership(w, k)'
      BY <1>1, <1>2, <2>1, <2>2, <3>1 DEF Ownership, InHand
    <3>4. QED
      BY <3>2, <3>3
  <2>3. CASE k = m
    <3>1. ~Expanding(w, m)' /\ ~InHand(w, m)'
      BY <1>2, <1>4 DEF Expanding, InHand
    <3>2. Interval(w, m)'
      BY <1>4, <3>1 DEF Interval
    <3>3. m \notin inbox[w]
      BY <1>1, BatchIsOwned
    <3>4. Ownership(w, m)'
      BY <1>1, <1>2, <3>1, <3>3 DEF Ownership
    <3>5. QED
      BY <2>3, <3>2, <3>4
  <2>4. QED
    BY <2>2, <2>3
<1>8. Limits(w)'
  BY <1>1, <1>4, SmallerBatch
<1>9. QED
  BY <1>5, <1>6, <1>7, <1>8 DEF WorkerInv

-----------------------------------------------------------------------------
(* Induction.                                                              *)

\* Every step of w preserves w's part of the invariant.
LEMMA OwnStep ==
    ASSUME Inv, TypeOK', NEW w \in Workers, ConsumerStep(w) \/ Environment(w)
    PROVE  WorkerInv(w)'
<1> USE DEF brokerVars, localVars
<1>0. TypeOK /\ WorkerInv(w) /\ Placement
  BY DEF Inv
<1>1. CASE OpenSession(w)
  <2>1. /\ pc[w] = "connecting" /\ pc'[w] = "select"
        /\ UNCHANGED <<published, queue, unacked, acked, dead, stored, cancelled, localVars, faults>>
    BY <1>0, <1>1 DEF TypeOK, OpenSession
  <2>2. /\ ~conn[w] /\ unacked[w] = {} /\ inbox[w] = {} /\ buffer[w] = {} /\ batch[w] = {}
        /\ cur[w] = NoMessage
    BY <1>0, <2>1 DEF WorkerInv, Control, InAppendLoop, Flushing
  <2>3. Control(w)' /\ Durable(w)' /\ Limits(w)'
    BY <1>0, <2>1, <2>2 DEF WorkerInv, Control, InAppendLoop, Flushing, Durable, Limits
  <2>4. ASSUME NEW m \in Messages PROVE Interval(w, m)' /\ Ownership(w, m)'
    <3>1. Held(w, m)' = {} /\ ~Expanding(w, m)'
      BY <2>1, <2>2, MessagesAssumption DEF Held, RowsOf, Expanding
    <3>2. QED
      BY <2>1, <2>2, <3>1 DEF Interval, Ownership, InHand
  <2>5. QED
    BY <2>3, <2>4 DEF WorkerInv
<1>2. CASE StopReconnecting(w)
  <2>1. pc[w] = "connecting" /\ pc'[w] = "stopped" /\ UNCHANGED <<brokerVars, stored, localVars>>
    BY <1>0, <1>2 DEF TypeOK, StopReconnecting
  <2>2. Control(w)' /\ Durable(w)' /\ Limits(w)'
    BY <1>0, <2>1 DEF WorkerInv, Control, InAppendLoop, Flushing, Durable, Limits
  <2>3. QED
    BY <1>0, <2>1, <2>2, SameHandsOwnership DEF SameHands, WorkerInv
<1>3. ASSUME NEW m \in Messages, Receive(w, m) PROVE WorkerInv(w)'
  BY <1>0, <1>3, ReceiveWorker
<1>4. ASSUME NEW m \in Messages, Reject(w, m) PROVE WorkerInv(w)'
  <2>1. /\ pc[w] = "select" /\ m \in inbox[w] /\ m \in Invalid
        /\ inbox'[w] = inbox[w] \ {m} /\ unacked'[w] = unacked[w] \ {m}
        /\ conn' = conn /\ published' = published
        /\ UNCHANGED <<stored, pc, cancelled, cur, next, buffer, timer, batch, after,
                       committed, terminal, faults>>
    BY <1>0, <1>4 DEF TypeOK, Reject, BrokerDeadLetter
  <2>2. Control(w)' /\ Durable(w)' /\ Limits(w)'
    BY <1>0, <2>1 DEF WorkerInv, Control, InAppendLoop, Flushing, Durable, Limits
  <2>3. ASSUME NEW k \in Messages PROVE Interval(w, k)' /\ Ownership(w, k)'
    <3>1. Interval(w, k)' /\ (InHand(w, k)' <=> InHand(w, k))
      BY <1>0, <2>1, SameHandsInterval DEF SameHands
    <3>2. Ownership(w, k) /\ Ownership(w, m)
      BY <1>0 DEF WorkerInv
    <3>3. Ownership(w, k)'
      BY <2>1, <3>1, <3>2 DEF Ownership
    <3>4. QED
      BY <3>1, <3>3
  <2>4. QED
    BY <2>2, <2>3 DEF WorkerInv
<1>5. CASE EndSession(w)
  BY <1>0, <1>5, EndSessionWorker
<1>6. ASSUME NEW m \in Messages, AckDelivery(w, m) PROVE WorkerInv(w)'
  BY <1>0, <1>6, AckWorker
<1>7. ASSUME NEW m \in Messages, NackDelivery(w, m) PROVE WorkerInv(w)'
  BY <1>0, <1>7, NackWorker
<1>8. CASE AppendPoint(w)
  BY <1>0, <1>8, AppendPointWorker
<1>9. CASE AppendDone(w)
  BY <1>0, <1>9, AppendDoneWorker
<1>10. CASE TimerFires(w)
  BY <1>0, <1>10, BeginFlushWorker DEF TimerFires
<1>11. CASE ContextDone(w)
  <2>1. pc[w] = "select" /\ (EndSession(w) \/
            /\ BeginFlush(w, buffer[w], "exit")
            /\ UNCHANGED <<brokerVars, stored, cancelled, inbox, cur, next, committed,
                           terminal, faults>>)
    BY <1>11 DEF ContextDone
  <2>2. QED
    BY <1>0, <1>5, <2>1, BeginFlushWorker
<1>12. CASE SinkCommits(w)
  <2>1. /\ pc[w] = "flush" /\ pc'[w] = "committed"
        /\ stored' = stored \cup {PointOf(p) : p \in batch[w]}
        /\ UNCHANGED <<brokerVars, localVars>>
    BY <1>0, <1>12 DEF TypeOK, SinkCommits
  <2>2. Control(w)' /\ Durable(w)' /\ Limits(w)'
    BY <1>0, <2>1 DEF WorkerInv, Control, InAppendLoop, Flushing, Durable, Limits, PointOf
  <2>3. QED
    BY <1>0, <2>1, <2>2, SameHandsOwnership DEF SameHands, WorkerInv
<1>13. CASE SinkReturns(w) \/ SinkFails(w) \/ BackoffElapsed(w)
  <2>1. /\ pc[w] \in Flushing /\ pc'[w] \in Flushing
        /\ pc'[w] = "ack" => pc[w] = "committed"
        /\ pc'[w] # "committed"
        /\ UNCHANGED <<brokerVars, stored, localVars>>
    BY <1>0, <1>13 DEF TypeOK, SinkReturns, SinkFails, BackoffElapsed, Flushing
  <2>2. Control(w)' /\ Durable(w)' /\ Limits(w)'
    BY <1>0, <2>1 DEF WorkerInv, Control, InAppendLoop, Flushing, Durable, Limits
  <2>3. QED
    BY <1>0, <2>1, <2>2, SameHandsOwnership DEF SameHands, WorkerInv
<1>14. CASE FlushReturns(w)
  <2>1. CASE EndSession(w)
    BY <1>5, <2>1
  <2>2. CASE /\ after[w] # "exit"
             /\ pc' = [pc EXCEPT ![w] = after[w]]
             /\ after' = [after EXCEPT ![w] = "select"]
             /\ UNCHANGED <<brokerVars, stored, cancelled, inbox, cur, next, buffer, timer,
                            batch, committed, terminal, faults>>
    <3>1. /\ pc[w] \in Flushing /\ batch[w] = {} /\ pc'[w] = after[w]
          /\ after[w] \in {"select", "append"}
      BY <1>0, <1>14, <2>2 DEF TypeOK, FlushReturns, Flushing
    <3>2. Control(w)' /\ Durable(w)' /\ Limits(w)'
      BY <1>0, <2>2, <3>1 DEF WorkerInv, Control, InAppendLoop, Flushing, Durable, Limits
    <3>3. QED
      BY <1>0, <2>2, <3>2, SameHandsOwnership DEF SameHands, WorkerInv
  <2>3. QED
    BY <1>14, <2>1, <2>2 DEF FlushReturns
<1>15. ASSUME NEW m \in Messages, Push(w, m) PROVE WorkerInv(w)'
  <2>1. /\ conn[w] /\ m \in queue
        /\ unacked'[w] = unacked[w] \cup {m} /\ inbox'[w] = inbox[w] \cup {m}
        /\ UNCHANGED <<published, conn, acked, dead, stored, pc, cancelled,
                       cur, next, buffer, timer, batch, after, committed, terminal, faults>>
    BY <1>0, <1>15 DEF TypeOK, Push
  <2>2. Control(w)' /\ Durable(w)' /\ Limits(w)'
    BY <1>0, <2>1 DEF WorkerInv, Control, InAppendLoop, Flushing, Durable, Limits
  <2>3. ASSUME NEW k \in Messages PROVE Interval(w, k)' /\ Ownership(w, k)'
    <3>1. Interval(w, k)' /\ (InHand(w, k)' <=> InHand(w, k))
      BY <1>0, <2>1, SameHandsInterval DEF SameHands
    <3>2. m \in published /\ m \notin unacked[w]
      BY <1>0, <2>1 DEF Placement
    <3>3. Ownership(w, k) /\ ~InHand(w, m)
      BY <1>0, <2>1, <3>2 DEF WorkerInv, Ownership
    <3>4. Ownership(w, k)'
      BY <2>1, <3>1, <3>2, <3>3 DEF Ownership
    <3>5. QED
      BY <3>1, <3>4
  <2>4. QED
    BY <2>2, <2>3 DEF WorkerInv
<1>16. CASE DropConnection(w)
  <2>1. /\ conn'[w] = FALSE /\ unacked'[w] = {}
        /\ UNCHANGED <<published, acked, dead, stored, pc, cancelled, localVars>>
    BY <1>0, <1>16 DEF TypeOK, DropConnection
  <2>2. Control(w)' /\ Durable(w)' /\ Limits(w)'
    BY <1>0, <2>1 DEF WorkerInv, Control, InAppendLoop, Flushing, Durable, Limits
  <2>3. ASSUME NEW k \in Messages PROVE Interval(w, k)' /\ Ownership(w, k)'
    <3>1. Interval(w, k)' /\ (InHand(w, k)' <=> InHand(w, k))
      BY <1>0, <2>1, SameHandsInterval DEF SameHands
    <3>2. Ownership(w, k)
      BY <1>0 DEF WorkerInv
    <3>3. QED
      BY <2>1, <3>1, <3>2 DEF Ownership
  <2>4. QED
    BY <2>2, <2>3 DEF WorkerInv
<1>17. CASE Cancel(w)
  BY <1>0, <1>17, SameWorkerInv DEF Cancel, SameWorker, Growing
<1>18. CASE Crash(w)
  <2>1. /\ ~conn'[w] /\ unacked'[w] = {} /\ inbox'[w] = {} /\ cur'[w] = NoMessage
        /\ buffer'[w] = {} /\ batch'[w] = {} /\ pc'[w] = "connecting"
    BY <1>0, <1>18 DEF TypeOK, Crash, DiscardSession
  <2>2. \A m \in Messages : committed'[w][m] = 0
    BY <1>0, <1>18 DEF TypeOK, Crash, DiscardSession
  <2>3. QED
    BY <2>1, <2>2, FreshWorker
<1>19. CASE Restart(w)
  <2>1. pc[w] = "stopped" /\ pc'[w] = "connecting" /\ UNCHANGED <<brokerVars, stored, localVars>>
    BY <1>0, <1>19 DEF TypeOK, Restart
  <2>2. Control(w)' /\ Durable(w)' /\ Limits(w)'
    BY <1>0, <2>1 DEF WorkerInv, Control, InAppendLoop, Flushing, Durable, Limits
  <2>3. QED
    BY <1>0, <2>1, <2>2, SameHandsOwnership DEF SameHands, WorkerInv
<1>20. QED
  BY <1>1, <1>2, <1>3, <1>4, <1>5, <1>6, <1>7, <1>8, <1>9, <1>10, <1>11, <1>12, <1>13,
     <1>14, <1>15, <1>16, <1>17, <1>18, <1>19
     DEF ConsumerStep, Environment, RejectFails, StreamClosed, BackoffInterrupted, SettleFails

\* acked grows by a message whose rows are all stored, dead by an invalid one.
LEMMA SettledStep ==
    ASSUME Inv, [Next]_vars
    PROVE  Settled'
<1> USE DEF brokerVars
<1>1. ASSUME stored \subseteq stored', acked' = acked, dead' = dead PROVE Settled'
  BY <1>1 DEF Inv, Settled, AckedIsDurable
<1>2. ASSUME NEW w \in Workers, NEW m \in Messages, Reject(w, m) PROVE Settled'
  <2>1. /\ m \in Invalid /\ stored' = stored /\ acked' = acked
        /\ dead' = dead \/ dead' = dead \cup {m}
    BY <1>2 DEF Reject, BrokerDeadLetter
  <2>2. QED
    BY <2>1 DEF Inv, Settled, AckedIsDurable
<1>3. ASSUME NEW w \in Workers, NEW m \in Messages, AckDelivery(w, m) PROVE Settled'
  <2> DEFINE rows == committed[w][m] + Cardinality(RowsOf(batch[w], m))
  <2>1. TypeOK /\ WorkerInv(w) /\ pc[w] = "ack" /\ m \in Deliveries(batch[w])
    BY <1>3 DEF Inv, AckDelivery
  <2>2. m \notin Invalid
    BY <2>1, BatchIsOwned
  <2>3. \A i \in 1..rows : PointsOf[m][i] \in stored
    BY <2>1, AckedRows
  <2>4. /\ stored' = stored /\ dead' = dead
        /\ acked' = acked \/ (acked' = acked \cup {m} /\ rows = TotalRows(m))
    BY <1>3 DEF AckDelivery, BrokerAck
  <2>5. AckedIsDurable'
    <3>1. AckedIsDurable
      BY DEF Inv, Settled
    <3>2. QED
      BY <2>3, <2>4, <3>1 DEF AckedIsDurable
  <2>6. QED
    BY <2>2, <2>4, <2>5 DEF Inv, Settled
<1>4. ASSUME NEW w \in Workers, NEW m \in Messages, NackDelivery(w, m) PROVE Settled'
  BY <1>1, <1>4 DEF NackDelivery, BrokerRequeue
<1>5. ASSUME NEW w \in Workers, ConsumerStep(w) PROVE Settled'
  BY <1>1, <1>2, <1>3, <1>4, <1>5
  DEF ConsumerStep, OpenSession, StopReconnecting, Receive, RejectFails, StreamClosed,
      AppendPoint, AppendDone, TimerFires, ContextDone, SinkCommits, SinkReturns, SinkFails,
      BackoffElapsed, BackoffInterrupted, SettleFails, FlushReturns, EndSession, DiscardSession
<1>6. ASSUME NEW w \in Workers, Environment(w) PROVE Settled'
  BY <1>1, <1>6 DEF Environment, Push, DropConnection, Cancel, Crash, Restart, DiscardSession
<1>7. QED
  BY <1>1, <1>5, <1>6 DEF Next, vars, Publish

\* The invariant holds when the workers start.
LEMMA InitInv == Init => Inv
<1> SUFFICES ASSUME Init PROVE Inv
  OBVIOUS
<1> USE DEF Init
<1>1. TypeOK
  <2>1. 1 \in Nat \ {0} /\ MaxFaults \in 0..MaxFaults /\ 0 \in Nat
    BY ConfigAssumption
  <2>2. QED
    BY <2>1 DEF TypeOK
<1>2. Placement /\ Settled
  BY DEF Placement, Settled, AckedIsDurable
<1>3. ASSUME NEW w \in Workers PROVE WorkerInv(w)
  <2>1. Control(w) /\ Durable(w)
    BY DEF Control, InAppendLoop, Flushing, Durable
  <2>2. ASSUME NEW m \in Messages PROVE Interval(w, m) /\ Ownership(w, m)
    <3>1. Held(w, m) = {} /\ ~Expanding(w, m)
      BY MessagesAssumption DEF Held, RowsOf, Expanding
    <3>2. QED
      BY <3>1 DEF Interval, Ownership, InHand
  <2>3. Limits(w)
    BY FS_EmptySet, ConfigAssumption DEF Limits
  <2>4. QED
    BY <2>1, <2>2, <2>3 DEF WorkerInv
<1>4. QED
  BY <1>1, <1>2, <1>3 DEF Inv

\* Every step preserves the invariant.
LEMMA NextInv == Inv /\ [Next]_vars => Inv'
<1> SUFFICES ASSUME Inv, [Next]_vars PROVE Inv'
  OBVIOUS
<1>1. TypeOK'
  BY TypeStep DEF Inv, WorkerInv
<1>2. Placement'
  BY PlacementStep
<1>3. Settled'
  BY SettledStep
<1>4. ASSUME NEW v \in Workers PROVE WorkerInv(v)'
  <2>1. WorkerInv(v) /\ TypeOK
    BY DEF Inv
  <2>2. CASE UNCHANGED vars
    BY <2>1, <2>2, SameWorkerInv DEF vars, SameWorker, Growing
  <2>3. ASSUME NEW m \in Messages, Publish(m) PROVE WorkerInv(v)'
    BY <2>1, <2>3, SameWorkerInv DEF Publish, localVars, SameWorker, Growing
  <2>4. ASSUME NEW w \in Workers, ConsumerStep(w) \/ Environment(w) PROVE WorkerInv(v)'
    <3>1. CASE w = v
      BY <1>1, <2>4, <3>1, OwnStep
    <3>2. CASE w # v
      BY <2>1, <2>4, <3>2, OthersUntouched, SameWorkerInv
    <3>3. QED
      BY <3>1, <3>2
  <2>5. QED
    BY <2>2, <2>3, <2>4 DEF Next
<1>5. QED
  BY <1>1, <1>2, <1>3, <1>4 DEF Inv

\* The invariant that carries the properties below holds in every behaviour.
THEOREM Invariance == Spec => []Inv
BY InitInv, NextInv, PTL DEF Spec

-----------------------------------------------------------------------------
(* Theorems.                                                               *)

\* The variables keep their types; in particular every row the consumer
\* buffers is a row of a real message, and every stored point a real point.
THEOREM TypeCorrect == Spec => []TypeOK
<1>1. Inv => TypeOK
  BY DEF Inv
<1>2. QED
  BY <1>1, Invariance, PTL

\* flush acknowledges a delivery only when all its points are durable, for
\* any batch size, any number of workers, and any failures.
THEOREM AckedDurable == Spec => []AckedIsDurable
<1>1. Inv => AckedIsDurable
  BY DEF Inv, Settled
<1>2. QED
  BY <1>1, Invariance, PTL

\* No delivery tag is settled twice on a live session.
THEOREM SettledOnce == Spec => []NoDoubleSettle
<1>1. Inv => NoDoubleSettle
  BY DEF Inv, WorkerInv, Ownership, InHand, NoDoubleSettle
<1>2. QED
  BY <1>1, Invariance, PTL

\* When the consumer waits, each delivery it owes an answer is in the channel
\* or has all its uncommitted rows in the buffer with the timer armed.
THEOREM NothingForgotten == Spec => []NoForgottenDelivery
<1>1. ASSUME Inv, NEW w \in Workers, NEW m \in unacked[w], conn[w], pc[w] = "select",
             m \notin inbox[w]
      PROVE  /\ {p.row : p \in RowsOf(buffer[w], m)} = (committed[w][m] + 1)..TotalRows(m)
             /\ committed[w][m] < TotalRows(m)
             /\ timer[w]
  <2>1. TypeOK /\ WorkerInv(w) /\ m \in Messages
    BY <1>1 DEF Inv, TypeOK
  <2>2. batch[w] = {} /\ cur[w] = NoMessage
    BY <1>1, <2>1 DEF WorkerInv, Control, InAppendLoop, Flushing
  <2>3. ~Expanding(w, m) /\ Held(w, m) = RowsOf(buffer[w], m)
    BY <2>1, <2>2, MessagesAssumption DEF Expanding, Held
  <2>4. Held(w, m) # {}
    BY <1>1, <2>1, <2>3 DEF WorkerInv, Ownership, InHand
  <2>5. Held(w, m) = RowRange(m, committed[w][m] + 1, TotalRows(m))
    BY <2>1, <2>3, <2>4 DEF WorkerInv, Interval
  <2>6. {p.row : p \in RowRange(m, committed[w][m] + 1, TotalRows(m))}
            = (committed[w][m] + 1)..TotalRows(m)
    <3> DEFINE rows == RowRange(m, committed[w][m] + 1, TotalRows(m))
               range == (committed[w][m] + 1)..TotalRows(m)
    <3>1. \A i \in range : \E p \in rows : p.row = i
      <4>1. \A i \in range : [msg |-> m, row |-> i] \in rows
        BY DEF RowRange
      <4>2. QED
        BY <4>1
    <3>2. \A p \in rows : p.row \in range
      BY DEF RowRange
    <3> HIDE DEF rows, range
    <3>3. {p.row : p \in rows} = range
      BY <3>1, <3>2, Zenon
    <3>4. QED
      BY <3>3 DEF rows, range
  <2>7. committed[w][m] < TotalRows(m)
    <3>1. PICK i \in (committed[w][m] + 1)..TotalRows(m) : TRUE
      BY <2>4, <2>5 DEF RowRange
    <3>2. committed[w][m] \in Nat /\ TotalRows(m) \in Nat
      BY <2>1, TotalRowsType DEF TypeOK
    <3>3. QED
      BY <3>1, <3>2
  <2>8. timer[w]
    BY <2>1, <2>3, <2>4 DEF WorkerInv, Control, RowsOf
  <2>9. QED
    BY <2>3, <2>5, <2>6, <2>7, <2>8
<1>2. Inv => NoForgottenDelivery
  BY <1>1 DEF NoForgottenDelivery
<1>3. QED
  BY <1>2, Invariance, PTL

\* The equality test on the length of the buffer bounds buffer and batch.
THEOREM BatchBounded == Spec => []BatchWithinLimit
<1>1. Inv => BatchWithinLimit
  BY DEF Inv, WorkerInv, Limits, BatchWithinLimit
<1>2. QED
  BY <1>1, Invariance, PTL

\* A step that settles nothing and stores nothing is a stutter of the contract.
LEMMA QuietStep ==
    ASSUME UNCHANGED <<published, stored, acked, dead>>
    PROVE  UNCHANGED Contract!vars
BY DEF Contract!vars

\* The end of a session settles nothing and stores nothing.
LEMMA EndSessionQuiet ==
    ASSUME NEW w \in Workers, EndSession(w)
    PROVE  UNCHANGED <<published, stored, acked, dead>>
BY DEF EndSession, DiscardSession

\* Each step of the consumers is a step of the contract or a stutter.
LEMMA ContractStep ==
    ASSUME Inv, [Next]_vars
    PROVE  [Contract!Next]_(Contract!vars)
<1> USE DEF brokerVars, localVars
<1>1. CASE UNCHANGED vars
  BY <1>1, QuietStep DEF vars
<1>2. ASSUME NEW m \in Messages, Publish(m) PROVE Contract!Next
  BY <1>2 DEF Publish, Contract!Next, Contract!Accept
<1>3. ASSUME NEW w \in Workers, NEW m \in Messages, Reject(w, m)
      PROVE  Contract!Next \/ UNCHANGED <<published, stored, acked, dead>>
  <2>1. CASE ~conn[w]
    BY <1>3, <2>1 DEF Reject, BrokerDeadLetter
  <2>2. CASE conn[w]
    <3>1. m \in published /\ m \in Invalid /\ m \notin dead
      BY <1>3, <2>2 DEF Reject, Inv, WorkerInv, Ownership, Placement
    <3>2. dead' = dead \cup {m} /\ UNCHANGED <<published, stored, acked>>
      BY <1>3, <2>2 DEF Reject, BrokerDeadLetter
    <3>3. Contract!DeadLetter(m)
      BY <3>1, <3>2 DEF Contract!DeadLetter
    <3>4. QED
      BY <3>3 DEF Contract!Next
  <2>3. QED
    BY <2>1, <2>2
<1>4. ASSUME NEW w \in Workers, NEW m \in Messages, AckDelivery(w, m)
      PROVE  Contract!Next \/ UNCHANGED <<published, stored, acked, dead>>
  <2> DEFINE rows == committed[w][m] + Cardinality(RowsOf(batch[w], m))
  <2>1. TypeOK /\ WorkerInv(w) /\ pc[w] = "ack" /\ m \in Deliveries(batch[w])
    BY <1>4 DEF Inv, AckDelivery
  <2>2. CASE conn[w] /\ BrokerAck(w, m) /\ rows = TotalRows(m)
    <3>1. m \in published \ Invalid /\ m \in unacked[w]
      BY <2>1, <2>2, BatchIsOwned
    <3>2. m \notin acked \cup dead
      BY <3>1 DEF Inv, Placement
    <3>3. Contract!RangeOf(m) \subseteq stored
      BY <2>1, <2>2, AckedRows DEF Contract!RangeOf, TotalRows
    <3>4. acked' = acked \cup {m} /\ UNCHANGED <<published, stored, dead>>
      BY <1>4, <2>2 DEF AckDelivery, BrokerAck
    <3>5. Contract!Acknowledge(m)
      BY <3>1, <3>2, <3>3, <3>4 DEF Contract!Acknowledge
    <3>6. QED
      BY <3>5 DEF Contract!Next
  <2>3. CASE ~conn[w] \/ UNCHANGED brokerVars
    BY <1>4, <2>3 DEF AckDelivery, BrokerAck
  <2>4. QED
    BY <1>4, <2>2, <2>3 DEF AckDelivery
<1>5. ASSUME NEW w \in Workers, SinkCommits(w) PROVE Contract!Next
  <2> DEFINE new == {PointOf(p) : p \in batch[w]}
  <2>1. TypeOK /\ WorkerInv(w)
    BY DEF Inv
  <2>2. ASSUME NEW p \in batch[w]
        PROVE  /\ PointOf(p) \in Points
               /\ \E m \in published \ Invalid : PointOf(p) \in Contract!RangeOf(m)
    <3>1. p.msg \in Messages /\ p.row \in 1..Len(PointsOf[p.msg])
      BY <2>1 DEF TypeOK, Rows, TotalRows
    <3>2. p.msg \in Deliveries(batch[w])
      BY DEF Deliveries
    <3>3. p.msg \in published \ Invalid
      BY <2>1, <3>1, <3>2, BatchIsOwned
    <3>4. PointOf(p) \in Contract!RangeOf(p.msg)
      BY <3>1 DEF PointOf, Contract!RangeOf
    <3>5. PointOf(p) \in Points
      BY <3>1, MessagesAssumption DEF PointOf
    <3>6. QED
      BY <3>3, <3>4, <3>5
  <2>3. new \in SUBSET Points /\ \A q \in new : \E m \in published \ Invalid : q \in Contract!RangeOf(m)
    BY <2>2
  <2>4. stored' = stored \cup new /\ UNCHANGED <<published, acked, dead>>
    BY <1>5 DEF SinkCommits
  <2>5. Contract!Persist(new)
    BY <2>3, <2>4 DEF Contract!Persist
  <2>6. QED
    BY <2>3, <2>5 DEF Contract!Next
<1>6. ASSUME NEW w \in Workers, NEW m \in Messages, Receive(w, m) \/ NackDelivery(w, m)
      PROVE  UNCHANGED <<published, stored, acked, dead>>
  BY <1>6 DEF Receive, NackDelivery, BrokerRequeue
<1>7. ASSUME NEW w \in Workers, ConsumerStep(w)
      PROVE  Contract!Next \/ UNCHANGED <<published, stored, acked, dead>>
  BY <1>3, <1>4, <1>5, <1>6, <1>7, EndSessionQuiet
  DEF ConsumerStep, OpenSession, StopReconnecting, RejectFails, StreamClosed, AppendPoint,
      AppendDone, TimerFires, ContextDone, SinkReturns, SinkFails, BackoffElapsed,
      BackoffInterrupted, SettleFails, FlushReturns
<1>8. ASSUME NEW w \in Workers, Environment(w)
      PROVE  UNCHANGED <<published, stored, acked, dead>>
  BY <1>8 DEF Environment, Push, DropConnection, Cancel, Crash, Restart, DiscardSession
<1>9. QED
  BY <1>1, <1>2, <1>7, <1>8, QuietStep DEF Next

\* The consumers implement the at-least-once contract: they acknowledge only
\* what is durable, dead-letter only what breaks the protocol, and store
\* only points of accepted messages, under every interleaving and failure.
THEOREM Refinement == Spec => ImplementsContract
<1>1. Init => Contract!Init
  BY DEF Init, Contract!Init
<1>2. Inv /\ [Next]_vars => [Contract!Next]_(Contract!vars)
  BY ContractStep
<1>3. QED
  BY <1>1, <1>2, Invariance, PTL DEF Spec, ImplementsContract, Contract!Spec
=============================================================================
