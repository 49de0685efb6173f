---------------------------- MODULE EventStream ----------------------------
(***************************************************************************)
(* The realtime path of one API process for one task: the event bridge     *)
(* (internal/messaging/event_bridge.go), the hub (internal/sse/hub.go) and *)
(* the SSE handlers (internal/transport/http/stream.go).                   *)
(*                                                                         *)
(* The bridge takes events from its own exclusive queue and publishes each *)
(* to the hub, which sends it to the channel of every subscriber while it  *)
(* holds the hub's read lock.  A handler subscribes, reads the bounds of   *)
(* the event table, replays what its client missed, and then forwards its  *)
(* channel.  Subscribing and closing take the write lock.                  *)
(*                                                                         *)
(* Events are their numbers.  Heartbeats are left out: they carry no id.   *)
(* An error of the database ends a request before it streamed anything.    *)
(***************************************************************************)
EXTENDS Integers, Sequences, SequencesExt

CONSTANTS
    Clients,        \* SSE clients; each holds at most one connection
    ChanCap,        \* capacity of a subscriber channel (64 in the code)
    Cursors,        \* cursors clients may invent besides the one they were given
    MaxSeq,         \* bound: events of the task
    Budgets         \* bounds: how often a behaviour meets each kind of event below

\* connections that are made, clients that stop reading, events that leave the
\* retention window, events relayed again, bridge sessions that are lost
Kinds == {"connections", "stalls", "expired", "duplicates", "drops"}

ASSUME StreamAssumption ==
    /\ ChanCap \in Nat \ {0}
    /\ Cursors \subseteq Nat
    /\ MaxSeq \in Nat
    /\ Budgets \subseteq [Kinds -> Nat]

VARIABLES
    \* the event table and the relay
    latest,      \* number of the last committed event
    oldest,      \* number of the first event in the retention window
    relayed,     \* number of the last event relayed for the first time
    \* the bridge
    up,          \* its session and queue exist
    queue,       \* its queue
    last,        \* the number it remembers
    current,     \* the event it is publishing to the hub, 0 when it is not:
                 \* the hub's read lock is held exactly while current > 0
    targets,     \* subscribers Publish has not sent it to yet
    \* the hub and the handlers
    subs,        \* subscribed handlers
    chan,        \* their channels
    pc,          \* where StreamMetrics stands
    after,       \* its variable after; the presented cursor before Bounds
    hasCursor,
    replay,      \* events read from the table and not written yet
    stalled,     \* the client does not read, so a write blocks
    received,    \* what the client got, after the number its stream starts from
    \* environment
    lost,        \* events the exchange dropped, or a queue died with
    budget       \* how many of each kind are left

bridgeVars == <<up, queue, last, current, targets>>
tableVars == <<latest, oldest, relayed>>
clientVars == <<subs, pc, after, hasCursor, replay, stalled, received>>
vars == <<latest, oldest, relayed, up, queue, last, current, targets, subs, chan, pc,
          after, hasCursor, replay, stalled, received, lost, budget>>

Init ==
    /\ latest = 0
    /\ oldest = 1
    /\ relayed = 0
    /\ up = FALSE
    /\ queue = <<>>
    /\ last = 0
    /\ current = 0
    /\ targets = {}
    /\ subs = {}
    /\ chan = [c \in Clients |-> <<>>]
    /\ pc = [c \in Clients |-> "idle"]
    /\ after = [c \in Clients |-> 0]
    /\ hasCursor = [c \in Clients |-> FALSE]
    /\ replay = [c \in Clients |-> <<>>]
    /\ stalled = [c \in Clients |-> FALSE]
    /\ received = [c \in Clients |-> <<>>]
    /\ lost = {}
    /\ budget \in Budgets

Spend(kind) == /\ budget[kind] > 0
               /\ budget' = [budget EXCEPT ![kind] = @ - 1]

-----------------------------------------------------------------------------
(* The event table and the relay (MetricPointStore, OutboxRelay).          *)

CommitEvent ==
    /\ latest < MaxSeq
    /\ latest' = latest + 1
    /\ UNCHANGED <<lost, oldest, relayed, bridgeVars, chan, clientVars, budget>>

ExpireEvent ==
    /\ oldest <= latest
    /\ Spend("expired")
    /\ oldest' = oldest + 1
    /\ UNCHANGED <<lost, latest, relayed, bridgeVars, chan, clientVars>>

\* The fanout exchange copies an event to the queues bound at that moment.
Fanout(n) == queue' = IF up THEN Append(queue, n) ELSE queue

\* First publications keep the order of the task (OutboxRelay, SentInOrder).
RelayEvent ==
    /\ relayed < latest
    /\ relayed' = relayed + 1
    /\ Fanout(relayed + 1)
    /\ lost' = IF up THEN lost ELSE lost \cup {relayed + 1}
    /\ UNCHANGED <<latest, oldest, up, last, current, targets, chan, clientVars, budget>>

RelayAgain(n) ==
    /\ n <= relayed
    /\ Spend("duplicates")
    /\ Fanout(n)
    /\ UNCHANGED <<lost, tableVars, up, last, current, targets, chan, clientVars>>

-----------------------------------------------------------------------------
(* The bridge and Hub.Publish.                                             *)

\* openSession: a new, empty, exclusive queue bound to the exchange.
OpenBridge ==
    /\ ~up
    /\ current = 0
    /\ up' = TRUE
    /\ queue' = <<>>
    /\ UNCHANGED <<lost, tableVars, last, current, targets, chan, clientVars, budget>>

\* The session ends and its queue with it.
DropBridge ==
    /\ up
    /\ Spend("drops")
    /\ up' = FALSE
    /\ queue' = <<>>
    /\ lost' = lost \cup {queue[i] : i \in 1..Len(queue)}
    /\ UNCHANGED <<tableVars, last, current, targets, chan, clientVars>>

\* Mutant: the next event counts as seen.
BugSeen(n) == n <= last + 1

\* The bridge forwarded this event or a later one of the task.
Seen(n) == n <= last

\* A delivery that is seen is acknowledged; any other goes to the hub.
TakeEvent ==
    /\ current = 0
    /\ queue # <<>>
    /\ queue' = Tail(queue)
    /\ IF Seen(Head(queue))
       THEN UNCHANGED <<current, targets>>
       ELSE /\ current' = Head(queue)
            /\ targets' = subs
    /\ UNCHANGED <<lost, tableVars, up, last, chan, clientVars, budget>>

\* ch <- event
SendToSubscriber(c) ==
    /\ current > 0
    /\ c \in targets
    /\ Len(chan[c]) < ChanCap
    /\ chan' = [chan EXCEPT ![c] = Append(@, current)]
    /\ targets' = targets \ {c}
    /\ UNCHANGED <<lost, tableVars, up, queue, last, current, clientVars, budget>>

\* Mutant: Publish keeps the read lock.
BugPublishDone ==
    /\ current > 0
    /\ targets = {}
    /\ last' = current
    /\ UNCHANGED <<lost, tableVars, up, queue, current, targets, chan, clientVars, budget>>

\* HandleMetricEvent returned: remember, then Ack.
PublishDone ==
    /\ current > 0
    /\ targets = {}
    /\ last' = current
    /\ current' = 0
    /\ UNCHANGED <<lost, tableVars, up, queue, targets, chan, clientVars, budget>>

-----------------------------------------------------------------------------
(* StreamMetrics.                                                          *)

\* Mutant: Subscribe and Close do not take the lock.
BugHubLockFree == TRUE

\* h.mu.Lock does not wait.
HubLockFree == current = 0

\* A request arrives and Subscribe gets the write lock.  A client that has
\* a history presents its last number, or starts afresh.
Subscribe(c, cursor) ==
    /\ pc[c] = "idle"
    /\ HubLockFree
    /\ Spend("connections")
    /\ pc' = [pc EXCEPT ![c] = "bounds"]
    /\ subs' = subs \cup {c}
    /\ hasCursor' = [hasCursor EXCEPT ![c] = cursor >= 0]
    /\ after' = [after EXCEPT ![c] = cursor]
    /\ UNCHANGED <<lost, tableVars, bridgeVars, chan, replay, stalled, received>>

NoCursor == -1

PresentedCursors(c) ==
    {NoCursor} \cup Cursors \cup (IF received[c] = <<>> THEN {} ELSE {Last(received[c])})

\* query_metric_event_bounds.sql: 0 when no event is in the window.
Oldest == IF oldest <= latest THEN oldest ELSE 0

\* Bounds, and the test of the cursor against the window.
CursorRefused(c) ==
    /\ hasCursor[c]
    /\ \/ Oldest > 0 /\ after[c] < Oldest - 1
       \/ Oldest = 0 /\ latest > after[c]

\* A client without a cursor starts after the latest event.
StartAfter(c) == IF hasCursor[c] THEN after[c] ELSE latest

\* The client goes on with the stream it had.
Resumes(c) == hasCursor[c] /\ received[c] # <<>> /\ after[c] = Last(received[c])

ReadBounds(c) ==
    /\ pc[c] = "bounds"
    /\ ~CursorRefused(c)
    /\ pc' = [pc EXCEPT ![c] = "query"]
    /\ after' = [after EXCEPT ![c] = StartAfter(c)]
    /\ received' = [received EXCEPT ![c] = IF Resumes(c) THEN @ ELSE <<StartAfter(c)>>]
    /\ UNCHANGED <<lost, tableVars, bridgeVars, chan, subs, hasCursor, replay, stalled, budget>>

\* 400: the client will have to start afresh.
RefuseCursor(c) ==
    /\ pc[c] = "bounds"
    /\ CursorRefused(c)
    /\ pc' = [pc EXCEPT ![c] = "close"]
    /\ received' = [received EXCEPT ![c] = <<>>]
    /\ UNCHANGED <<lost, tableVars, bridgeVars, chan, subs, after, hasCursor, replay, stalled, budget>>

\* Mutant: the replay begins one event late.
BugReplayFrom(c) == IF after[c] < oldest THEN oldest + 1 ELSE after[c] + 2

\* event_seq > after, inside the window
ReplayFrom(c) == IF after[c] < oldest THEN oldest ELSE after[c] + 1

\* query_metric_events.sql: the events in the window above after, in order.
QueryEvents(c) ==
    LET from == ReplayFrom(c)
    IN  /\ pc[c] = "query"
        /\ replay' = [replay EXCEPT ![c] =
                         IF from > latest THEN <<>> ELSE [i \in 1..(latest - from + 1) |-> from + i - 1]]
        /\ pc' = [pc EXCEPT ![c] = "stream"]
        /\ UNCHANGED <<lost, tableVars, bridgeVars, chan, subs, after, hasCursor, stalled, received, budget>>

\* Mutant: every event is written.
BugWriteEvent(c, n) ==
    /\ ~stalled[c]
    /\ after' = [after EXCEPT ![c] = n]
    /\ received' = [received EXCEPT ![c] = Append(@, n)]

\* writeEvent: drops what is not above after, blocks on a client that does not read.
WriteEvent(c, n) ==
    /\ n > after[c] => ~stalled[c]
    /\ after' = [after EXCEPT ![c] = IF n > @ THEN n ELSE @]
    /\ received' = [received EXCEPT ![c] = IF n > after[c] THEN Append(@, n) ELSE @]

WriteReplay(c) ==
    /\ pc[c] = "stream"
    /\ replay[c] # <<>>
    /\ WriteEvent(c, Head(replay[c]))
    /\ replay' = [replay EXCEPT ![c] = Tail(@)]
    /\ UNCHANGED <<lost, tableVars, bridgeVars, chan, subs, pc, hasCursor, stalled, budget>>

WriteLive(c) ==
    /\ pc[c] = "stream"
    /\ replay[c] = <<>>
    /\ chan[c] # <<>>
    /\ WriteEvent(c, Head(chan[c]))
    /\ chan' = [chan EXCEPT ![c] = Tail(@)]
    /\ UNCHANGED <<lost, tableVars, bridgeVars, subs, pc, hasCursor, replay, stalled, budget>>

\* The client disconnects: the request context ends, a blocked write fails.
ClientLeaves(c) ==
    /\ pc[c] \in {"bounds", "query", "stream"}
    /\ pc' = [pc EXCEPT ![c] = "close"]
    /\ UNCHANGED <<lost, tableVars, bridgeVars, chan, subs, after, hasCursor, replay, stalled, received, budget>>

\* The deferred sub.Close gets the write lock.
CloseSubscription(c) ==
    /\ pc[c] = "close"
    /\ HubLockFree
    /\ pc' = [pc EXCEPT ![c] = "idle"]
    /\ subs' = subs \ {c}
    /\ chan' = [chan EXCEPT ![c] = <<>>]
    /\ replay' = [replay EXCEPT ![c] = <<>>]
    /\ stalled' = [stalled EXCEPT ![c] = FALSE]
    /\ after' = [after EXCEPT ![c] = 0]
    /\ hasCursor' = [hasCursor EXCEPT ![c] = FALSE]
    /\ UNCHANGED <<lost, tableVars, bridgeVars, received, budget>>

ClientStalls(c) ==
    /\ pc[c] = "stream"
    /\ ~stalled[c]
    /\ Spend("stalls")
    /\ stalled' = [stalled EXCEPT ![c] = TRUE]
    /\ UNCHANGED <<lost, tableVars, bridgeVars, chan, subs, pc, after, hasCursor, replay, received>>

-----------------------------------------------------------------------------

HandlerStep(c) ==
    \/ ReadBounds(c)
    \/ RefuseCursor(c)
    \/ QueryEvents(c)
    \/ WriteReplay(c)
    \/ WriteLive(c)

BridgeStep ==
    \/ OpenBridge
    \/ TakeEvent
    \/ \E c \in Clients : SendToSubscriber(c)
    \/ PublishDone

Next ==
    \/ CommitEvent
    \/ ExpireEvent
    \/ RelayEvent
    \/ \E n \in 1..MaxSeq : RelayAgain(n)
    \/ BridgeStep
    \/ DropBridge
    \/ \E c \in Clients :
          \/ HandlerStep(c)
          \/ CloseSubscription(c)
          \/ \E cursor \in PresentedCursors(c) : Subscribe(c, cursor)
          \/ ClientLeaves(c)
          \/ ClientStalls(c)

Spec == Init /\ [][Next]_vars

\* Goroutines run, a waiting writer gets the lock of the hub in the end
\* (sync.RWMutex holds new readers back), events are relayed (OutboxRelay,
\* EventuallyPublished), and a client that stopped reading is disconnected.
Fairness ==
    /\ WF_vars(RelayEvent)
    /\ WF_vars(BridgeStep)
    /\ \A c \in Clients :
          /\ WF_vars(HandlerStep(c))
          /\ SF_vars(CloseSubscription(c))
          /\ WF_vars(stalled[c] /\ ClientLeaves(c))

FairSpec == Spec /\ Fairness

-----------------------------------------------------------------------------
(* Properties.                                                             *)

\* Bridge, hub and handlers are well-formed: only numbers of events that exist
\* travel through queue, channels and replays.
TypeOK ==
    /\ latest \in 0..MaxSeq
    /\ oldest \in 1..(MaxSeq + 1)
    /\ relayed \in 0..MaxSeq
    /\ up \in BOOLEAN
    /\ queue \in Seq(1..MaxSeq)
    /\ last \in 0..MaxSeq
    /\ current \in 0..MaxSeq
    /\ targets \subseteq Clients
    /\ subs \subseteq Clients
    /\ chan \in [Clients -> Seq(1..MaxSeq)]
    /\ pc \in [Clients -> {"idle", "bounds", "query", "stream", "close"}]
    /\ after \in [Clients -> Nat \cup {NoCursor}]
    /\ hasCursor \in [Clients -> BOOLEAN]
    /\ replay \in [Clients -> Seq(1..MaxSeq)]
    /\ stalled \in [Clients -> BOOLEAN]
    /\ received \in [Clients -> Seq(Nat)]

\* A client sees each event at most once and in order, over replay and live
\* events, duplicates of the relay, and its own reconnections.
StreamIncreasing ==
    \A c \in Clients : \A i \in 1..(Len(received[c]) - 1) : received[c][i] < received[c][i + 1]

\* A client misses nothing between two events it got, except events that
\* left the retention window: replay and live events meet without a hole
\* (stream.go subscribes before it reads the bounds), and the bridge, built
\* again after a lost connection, takes up where it stopped.
StreamHasNoGap ==
    \A c \in Clients : \A i \in 1..(Len(received[c]) - 1) :
        \A n \in (received[c][i] + 1)..(received[c][i + 1] - 1) : n < oldest

\* The same, for what the code ensures: a hole can only consist of events
\* that were relayed while the bridge had no queue, or that died with it.
GapsAreOutages ==
    \A c \in Clients : \A i \in 1..(Len(received[c]) - 1) :
        \A n \in (received[c][i] + 1)..(received[c][i + 1] - 1) : n < oldest \/ n \in lost

\* A subscriber channel never holds more than its capacity, and only a
\* subscriber's channel holds events: Publish never sends on a closed one.
ChannelsBelongToSubscribers ==
    /\ \A c \in Clients : Len(chan[c]) <= ChanCap /\ (c \notin subs => chan[c] = <<>>)
    /\ targets \subseteq subs

\* Publish waits, under the read lock, for room in the channel of a handler
\* that has returned: nobody drains the channel, and the handler's Close waits
\* for the write lock.
Wedged == current > 0 /\ \E c \in targets : pc[c] = "close" /\ Len(chan[c]) = ChanCap

\* Events that a stream owes its client: neither lost with the bridge's queue
\* nor out of the retention window before they could be replayed.
Owed(c) == {n \in (after[c] + 1)..latest : n >= oldest /\ n \notin lost}

\* An open stream gets every event that it owes, or ends, whatever the other
\* clients do: full channels, clients that stop reading and leave, duplicates
\* and reconnections only delay it, and nothing but a wedged hub can stop it.
StreamDelivers ==
    \A c \in Clients :
        pc[c] = "stream" /\ ~stalled[c] /\ Owed(c) # {}
            ~> Owed(c) = {} \/ pc[c] # "stream" \/ stalled[c] \/ Wedged

\* Hub.Publish returns, whatever its subscribers do: one that stopped reading
\* is disconnected in the end and cannot hold the hub for ever.
HubPublishReturns == current > 0 ~> current = 0

\* A handler that returns does unsubscribe, unless the hub is wedged: no full
\* channel of a client that still reads, or is still connected, and no order
\* of Publish, Subscribe and Close keeps it from the lock.
HandlersFinish == \A c \in Clients : pc[c] = "close" ~> pc[c] = "idle" \/ Wedged
=============================================================================
