------------------------- MODULE EventStreamProofs -------------------------
(***************************************************************************)
(* Proofs about EventStream, for any number of clients, events, capacity,  *)
(* cursors and faults: a client gets events in increasing order, what it   *)
(* misses between two of them was lost with the bridge's queue or has left *)
(* the retention window, and only subscribers' channels hold events.       *)
(*                                                                         *)
(* GapsAreOutages is the meeting of three arguments.  The bridge accounts *)
(* for every relayed event: it has forwarded it, or a later one that it    *)
(* found without it in between; or the event is lost, or in the queue      *)
(* behind all the missing smaller ones (BridgeInv).  A channel is          *)
(* increasing and ends at what the hub sent (ChanInv).  And a stream has   *)
(* above its variable after nothing but what is in the replay, in the      *)
(* channel, lost or expired (StreamInv); this begins to hold with the      *)
(* query, because the handler has subscribed before.                       *)
(***************************************************************************)
EXTENDS EventStream, SequenceTheorems, TLAPS

-----------------------------------------------------------------------------
(* Sequences of event numbers.                                             *)

Has(s, m) == \E j \in 1..Len(s) : s[j] = m

Increasing(s) == \A i, j \in 1..Len(s) : i < j => s[i] < s[j]

Consecutive(s) == \A i \in 1..Len(s) : s[i] = s[1] + i - 1

\* Before each number of s, every number above base is missing or comes first.
InTurn(s, base, missing) ==
    \A i \in 1..Len(s) : \A m \in Nat :
        base < m /\ m < s[i] => m \in missing \/ \E j \in 1..(i - 1) : s[j] = m

Excused(m) == m < oldest \/ m \in lost

-----------------------------------------------------------------------------
(* The inductive invariant.                                                *)

\* The last event the bridge gave to the hub.
Forwarded == IF current > 0 THEN current ELSE last

\* The last event the hub sent to a subscriber.
Sent(c) == IF current > 0 /\ c \notin targets THEN current ELSE last

HubInv ==
    /\ \A c \in Clients : c \in subs <=> pc[c] # "idle"
    /\ current = 0 => targets = {}
    /\ ChannelsBelongToSubscribers

BridgeInv ==
    /\ relayed <= latest
    /\ last <= relayed
    /\ current > 0 => last < current /\ current <= relayed
    /\ current > 0 => \A m \in Nat : last < m /\ m < current => m \in lost
    /\ ~up => queue = <<>>
    /\ \A i \in 1..Len(queue) : queue[i] <= relayed
    /\ InTurn(queue, Forwarded, lost)
    /\ \A m \in 1..relayed : m <= Forwarded \/ m \in lost \/ Has(queue, m)

ChanInv(c) ==
    /\ Increasing(chan[c])
    /\ \A i \in 1..Len(chan[c]) : chan[c][i] <= Sent(c)

StreamInv(c) ==
    /\ pc[c] = "bounds" /\ hasCursor[c] => after[c] >= 0
    /\ pc[c] \in {"query", "stream"} =>
          after[c] >= 0 /\ received[c] # <<>> /\ after[c] = Last(received[c])
    /\ pc[c] = "stream" =>
          /\ Consecutive(replay[c])
          /\ replay[c] # <<>> => /\ after[c] < replay[c][1]
                                 /\ \A m \in Nat : after[c] < m /\ m < replay[c][1] => Excused(m)
          /\ \A m \in Nat : after[c] < m /\ m <= Sent(c) =>
                Excused(m) \/ Has(replay[c], m) \/ Has(chan[c], m)

Inv ==
    /\ TypeOK
    /\ HubInv
    /\ BridgeInv
    /\ \A c \in Clients : ChanInv(c) /\ StreamInv(c)
    /\ StreamIncreasing
    /\ GapsAreOutages

-----------------------------------------------------------------------------
(* Facts about these sequences.                                            *)

\* Head and Tail by positions.
LEMMA TakeFirst ==
    ASSUME NEW S, NEW s \in Seq(S), s # <<>>
    PROVE  /\ Len(s) \in Nat \ {0} /\ 1 \in 1..Len(s)
           /\ Head(s) = s[1] /\ Head(s) \in S
           /\ Tail(s) \in Seq(S) /\ Len(Tail(s)) = Len(s) - 1
           /\ \A i \in 1..(Len(s) - 1) : Tail(s)[i] = s[i + 1]
<1>1. Len(s) \in Nat \ {0}
  BY EmptySeq
<1>2. 1 \in 1..Len(s)
  BY <1>1
<1>3. Head(s) = s[1] /\ s[1] \in S
  BY <1>2
<1>4. Tail(s) \in Seq(S) /\ Len(Tail(s)) = Len(s) - 1
  BY <1>1
<1>5. \A i \in 1..(Len(s) - 1) : Tail(s)[i] = s[i + 1]
  BY <1>1, <1>4
<1>6. QED
  BY <1>1, <1>2, <1>3, <1>4, <1>5

\* Append by positions.
LEMMA PutLast ==
    ASSUME NEW S, NEW s \in Seq(S), NEW e \in S
    PROVE  /\ Append(s, e) \in Seq(S) /\ Append(s, e) # <<>>
           /\ Len(s) \in Nat /\ Len(Append(s, e)) = Len(s) + 1
           /\ \A i \in 1..Len(s) : Append(s, e)[i] = s[i]
           /\ Append(s, e)[Len(s) + 1] = e
           /\ \A i \in 1..(Len(s) + 1) : i \in 1..Len(s) \/ i = Len(s) + 1
           /\ Len(s) + 1 \in 1..(Len(s) + 1)
           /\ \A i \in 1..Len(s) : i \in 1..(Len(s) + 1)
<1>1. /\ Append(s, e) \in Seq(S) /\ Append(s, e) # <<>> /\ Len(Append(s, e)) = Len(s) + 1
      /\ \A i \in 1..Len(s) : Append(s, e)[i] = s[i]
      /\ Append(s, e)[Len(s) + 1] = e
  BY AppendProperties
<1>2. Len(s) \in Nat
  OBVIOUS
<1>3. QED
  BY <1>1, <1>2

\* What is in a queue after one end of it has changed.
LEMMA HasAppend ==
    ASSUME NEW s \in Seq(Nat), NEW e \in Nat
    PROVE  /\ Has(Append(s, e), e)
           /\ \A m : Has(s, m) => Has(Append(s, e), m)
<1>1. PICK t : t = Append(s, e)
  OBVIOUS
<1>2. Has(t, e)
  BY <1>1, PutLast DEF Has
<1>3. ASSUME NEW m, Has(s, m)
      PROVE  Has(t, m)
  <2>1. PICK j \in 1..Len(s) : s[j] = m
    BY <1>3 DEF Has
  <2>2. j \in 1..Len(t) /\ t[j] = m
    BY <1>1, <2>1, PutLast
  <2>3. QED
    BY <2>2 DEF Has
<1>4. QED
  BY <1>1, <1>2, <1>3

\* What Tail leaves.
LEMMA HasTail ==
    ASSUME NEW s \in Seq(Nat), s # <<>>, NEW m, Has(s, m), m # Head(s)
    PROVE  Has(Tail(s), m)
<1>1. PICK j \in 1..Len(s) : s[j] = m
  BY DEF Has
<1>2. PICK t : t = Tail(s)
  OBVIOUS
<1>3. Len(s) \in Nat \ {0} /\ Len(t) = Len(s) - 1 /\ s[1] # m
  BY <1>2, TakeFirst
<1>4. j # 1
  BY <1>1, <1>3
<1>5. j - 1 \in 1..(Len(s) - 1) /\ (j - 1) + 1 = j
  BY <1>3, <1>4
<1>6. t[j - 1] = s[(j - 1) + 1]
  BY <1>2, <1>5, TakeFirst
<1>7. QED
  BY <1>1, <1>2, <1>3, <1>5, <1>6 DEF Has

\* Tail of an increasing sequence; its head is the least of it.
LEMMA IncreasingTail ==
    ASSUME NEW s \in Seq(Nat), s # <<>>, Increasing(s)
    PROVE  /\ Increasing(Tail(s))
           /\ \A m \in Nat : Has(s, m) => Head(s) <= m
<1>1. PICK t : t = Tail(s)
  OBVIOUS
<1>2. /\ Len(s) \in Nat \ {0} /\ 1 \in 1..Len(s) /\ Head(s) = s[1] /\ Head(s) \in Nat /\ Len(t) = Len(s) - 1
      /\ \A i \in 1..(Len(s) - 1) : t[i] = s[i + 1]
  BY <1>1, TakeFirst
<1>3. Increasing(t)
  <2>1. SUFFICES ASSUME NEW i \in 1..Len(t), NEW j \in 1..Len(t), i < j
                 PROVE  t[i] < t[j]
    BY DEF Increasing
  <2>2. t[i] = s[i + 1] /\ t[j] = s[j + 1]
    BY <1>2
  <2>3. i + 1 \in 1..Len(s) /\ j + 1 \in 1..Len(s) /\ i + 1 < j + 1
    BY <1>2, <2>1
  <2>4. QED
    BY <2>2, <2>3 DEF Increasing
<1>4. ASSUME NEW m \in Nat, Has(s, m)
      PROVE  Head(s) <= m
  <2>1. PICK j \in 1..Len(s) : s[j] = m
    BY <1>4 DEF Has
  <2>2. CASE j = 1
    BY <1>2, <2>1, <2>2
  <2>3. CASE j # 1
    <3>1. 1 < j
      BY <1>2, <2>3
    <3>2. s[1] < s[j]
      BY <1>2, <3>1 DEF Increasing
    <3>3. QED
      BY <1>2, <2>1, <3>2
  <2>4. QED
    BY <2>2, <2>3
<1>5. QED
  BY <1>1, <1>3, <1>4

\* A number above all of an increasing sequence can be appended.
LEMMA IncreasingAppend ==
    ASSUME NEW s \in Seq(Nat), NEW e \in Nat, Increasing(s), \A i \in 1..Len(s) : s[i] < e
    PROVE  Increasing(Append(s, e))
<1>1. PICK t : t = Append(s, e)
  OBVIOUS
<1>2. /\ Len(s) \in Nat /\ Len(t) = Len(s) + 1 /\ t[Len(s) + 1] = e
      /\ \A i \in 1..Len(s) : t[i] = s[i]
  BY <1>1, PutLast
<1>3. SUFFICES ASSUME NEW i \in 1..Len(t), NEW j \in 1..Len(t), i < j
               PROVE  t[i] < t[j]
  BY <1>1 DEF Increasing
<1>4. i \in 1..Len(s) /\ (j \in 1..Len(s) \/ j = Len(s) + 1)
  BY <1>2, <1>3
<1>5. QED
  BY <1>2, <1>3, <1>4 DEF Increasing

\* Tail of a run of numbers.
LEMMA ConsecutiveTail ==
    ASSUME NEW s \in Seq(Nat), s # <<>>, Consecutive(s)
    PROVE  /\ Consecutive(Tail(s))
           /\ Tail(s) # <<>> => Tail(s)[1] = Head(s) + 1
<1>1. PICK t : t = Tail(s)
  OBVIOUS
<1>2. /\ Len(s) \in Nat \ {0} /\ Head(s) = s[1] /\ Head(s) \in Nat /\ Len(t) = Len(s) - 1 /\ t \in Seq(Nat)
      /\ \A i \in 1..(Len(s) - 1) : t[i] = s[i + 1]
  BY <1>1, TakeFirst
<1>3. \A i \in 1..Len(t) : t[i] = s[1] + i
  <2>1. TAKE i \in 1..Len(t)
  <2>2. i + 1 \in 1..Len(s) /\ t[i] = s[i + 1]
    BY <1>2
  <2>3. s[i + 1] = s[1] + (i + 1) - 1
    BY <2>2 DEF Consecutive
  <2>4. QED
    BY <1>2, <2>2, <2>3
<1>4. t # <<>> => 1 \in 1..Len(t)
  BY <1>2, TakeFirst
<1>5. \A i \in 1..Len(t) : 1 \in 1..Len(t)
  BY <1>2
<1>6. \A i \in 1..Len(t) : t[1] = s[1] + 1 /\ t[i] = t[1] + i - 1
  BY <1>2, <1>3, <1>5
<1>7. QED
  BY <1>1, <1>2, <1>4, <1>6 DEF Consecutive

\* A number can be queued when all before it are missing, forwarded or queued.
LEMMA InTurnAppend ==
    ASSUME NEW s \in Seq(Nat), NEW e \in Nat, NEW base \in Nat, NEW missing, InTurn(s, base, missing),
           \A m \in Nat : base < m /\ m < e => m \in missing \/ Has(s, m)
    PROVE  InTurn(Append(s, e), base, missing)
<1>1. PICK t : t = Append(s, e)
  OBVIOUS
<1>2. /\ Len(s) \in Nat /\ Len(t) = Len(s) + 1 /\ t[Len(s) + 1] = e
      /\ \A i \in 1..Len(s) : t[i] = s[i]
  BY <1>1, PutLast
<1>3. SUFFICES ASSUME NEW i \in 1..Len(t), NEW m \in Nat, base < m, m < t[i], m \notin missing
               PROVE  \E j \in 1..(i - 1) : t[j] = m
  BY <1>1 DEF InTurn
<1>4. CASE i \in 1..Len(s)
  <2>1. PICK j \in 1..(i - 1) : s[j] = m
    BY <1>2, <1>3, <1>4 DEF InTurn
  <2>2. j \in 1..Len(s)
    BY <1>2, <1>4
  <2>3. QED
    BY <1>2, <2>1, <2>2
<1>5. CASE i = Len(s) + 1
  <2>1. PICK j \in 1..Len(s) : s[j] = m
    BY <1>2, <1>3, <1>5 DEF Has
  <2>2. i - 1 = Len(s)
    BY <1>2, <1>5
  <2>3. QED
    BY <1>2, <2>1, <2>2
<1>6. QED
  BY <1>2, <1>4, <1>5

\* The head of a queue is taken: what it skips is missing, and the rest is in
\* turn after it.
LEMMA InTurnTail ==
    ASSUME NEW s \in Seq(Nat), s # <<>>, NEW base \in Nat, NEW missing, InTurn(s, base, missing),
           NEW next \in Nat, base <= next, Head(s) <= next
    PROVE  /\ InTurn(Tail(s), next, missing)
           /\ \A m \in Nat : base < m /\ m < Head(s) => m \in missing
<1>1. PICK t : t = Tail(s)
  OBVIOUS
<1>2. /\ Len(s) \in Nat \ {0} /\ 1 \in 1..Len(s) /\ Head(s) = s[1] /\ Head(s) \in Nat /\ Len(t) = Len(s) - 1
      /\ \A i \in 1..(Len(s) - 1) : t[i] = s[i + 1]
  BY <1>1, TakeFirst
<1>3. InTurn(t, next, missing)
  <2>1. SUFFICES ASSUME NEW i \in 1..Len(t), NEW m \in Nat, next < m, m < t[i], m \notin missing
                 PROVE  \E j \in 1..(i - 1) : t[j] = m
    BY DEF InTurn
  <2>2. i + 1 \in 1..Len(s) /\ t[i] = s[i + 1] /\ base < m /\ i \in Nat /\ (i + 1) - 1 = i
    BY <1>2, <2>1
  <2>3. PICK j \in 1..i : s[j] = m
    BY <2>1, <2>2 DEF InTurn
  <2>4. j # 1
    BY <1>2, <2>1, <2>3
  <2>5. j - 1 \in 1..(i - 1) /\ j - 1 \in 1..(Len(s) - 1) /\ (j - 1) + 1 = j
    BY <1>2, <2>2, <2>3, <2>4
  <2>6. t[j - 1] = s[(j - 1) + 1]
    BY <1>2, <2>5
  <2>7. QED
    BY <2>3, <2>5, <2>6
<1>4. \A m \in Nat : base < m /\ m < Head(s) => m \in missing
  <2>1. 1..(1 - 1) = {}
    OBVIOUS
  <2>2. QED
    BY <1>2, <2>1 DEF InTurn
<1>5. QED
  BY <1>1, <1>3, <1>4

\* A stream goes on with an event above its last one.
LEMMA StreamAppend ==
    ASSUME NEW s \in Seq(Nat), s # <<>>, NEW e \in Nat, Last(s) < e, NEW missed,
           \A i \in 1..(Len(s) - 1) : s[i] < s[i + 1],
           \A i \in 1..(Len(s) - 1) : \A n \in (s[i] + 1)..(s[i + 1] - 1) : n \in missed,
           \A n \in (Last(s) + 1)..(e - 1) : n \in missed
    PROVE  /\ \A i \in 1..(Len(Append(s, e)) - 1) : Append(s, e)[i] < Append(s, e)[i + 1]
           /\ \A i \in 1..(Len(Append(s, e)) - 1) :
                \A n \in (Append(s, e)[i] + 1)..(Append(s, e)[i + 1] - 1) : n \in missed
           /\ Last(Append(s, e)) = e
<1>1. PICK t : t = Append(s, e)
  OBVIOUS
<1>2. /\ Len(s) \in Nat \ {0} /\ Len(t) = Len(s) + 1 /\ t[Len(s) + 1] = e
      /\ \A i \in 1..Len(s) : t[i] = s[i]
  BY <1>1, PutLast, TakeFirst
<1>3. Last(s) = s[Len(s)] /\ Last(t) = e
  BY <1>2 DEF Last
<1>4. ASSUME NEW i \in 1..(Len(t) - 1)
      PROVE  t[i] < t[i + 1] /\ \A n \in (t[i] + 1)..(t[i + 1] - 1) : n \in missed
  <2>1. CASE i \in 1..(Len(s) - 1)
    <3>1. t[i] = s[i] /\ t[i + 1] = s[i + 1]
      BY <1>2, <2>1
    <3>2. QED
      BY <2>1, <3>1
  <2>2. CASE i = Len(s)
    <3>1. t[i] = Last(s) /\ t[i + 1] = e
      BY <1>2, <1>3, <2>2
    <3>2. QED
      BY <3>1
  <2>3. QED
    BY <1>2, <2>1, <2>2
<1>5. QED
  BY <1>1, <1>3, <1>4

-----------------------------------------------------------------------------
(* Types.                                                                  *)

\* The queue and what leaves it.
LEMMA TypesInUse ==
    ASSUME TypeOK
    PROVE  /\ latest \in Nat /\ oldest \in Nat \ {0} /\ relayed \in Nat /\ last \in Nat /\ current \in Nat
           /\ queue \in Seq(Nat)
           /\ Forwarded \in Nat
           /\ \A c \in Clients : /\ Sent(c) \in Nat /\ after[c] \in Int
                                 /\ chan[c] \in Seq(Nat) /\ replay[c] \in Seq(Nat) /\ received[c] \in Seq(Nat)
<1> USE StreamAssumption DEF StreamAssumption
<1>1. latest \in Nat /\ oldest \in Nat \ {0} /\ relayed \in Nat /\ last \in Nat /\ current \in Nat
  BY DEF TypeOK
<1>2. ASSUME NEW s \in Seq(1..MaxSeq)
      PROVE  s \in Seq(Nat)
  BY 1..MaxSeq \subseteq Nat
<1>3. queue \in Seq(Nat) /\ \A c \in Clients : chan[c] \in Seq(Nat) /\ replay[c] \in Seq(Nat)
  <2>1. queue \in Seq(1..MaxSeq) /\ \A c \in Clients : chan[c] \in Seq(1..MaxSeq) /\ replay[c] \in Seq(1..MaxSeq)
    BY DEF TypeOK
  <2>2. QED
    BY <1>2, <2>1
<1>4. \A c \in Clients : received[c] \in Seq(Nat) /\ after[c] \in Int
  BY DEF TypeOK, NoCursor
<1>5. QED
  BY <1>1, <1>3, <1>4 DEF Forwarded, Sent

\* A number that is relayed is put in a queue of numbers.
LEMMA FanoutType ==
    ASSUME TypeOK, NEW n \in 1..MaxSeq, Fanout(n)
    PROVE  queue' \in Seq(1..MaxSeq)
<1>1. queue \in Seq(1..MaxSeq)
  BY DEF TypeOK
<1>2. QED
  BY <1>1, PutLast DEF Fanout

\* A write keeps types.
LEMMA WriteEventType ==
    ASSUME TypeOK, NEW c \in Clients, NEW n \in 1..MaxSeq, WriteEvent(c, n)
    PROVE  /\ after' \in [Clients -> Nat \cup {NoCursor}]
           /\ received' \in [Clients -> Seq(Nat)]
<1>1. n \in Nat /\ received[c] \in Seq(Nat) /\ after[c] \in Nat \cup {NoCursor}
  BY StreamAssumption DEF TypeOK, StreamAssumption
<1>2. Append(received[c], n) \in Seq(Nat)
  BY <1>1, PutLast
<1>3. received' \in [Clients -> Seq(Nat)]
  BY <1>1, <1>2 DEF WriteEvent, TypeOK
<1>4. QED
  BY <1>1, <1>3 DEF WriteEvent, TypeOK

\* Steps of the table, the relay and the bridge keep TypeOK.
LEMMA TypeStepBridge ==
    ASSUME Inv, CommitEvent \/ ExpireEvent \/ RelayEvent \/ (\E n \in 1..MaxSeq : RelayAgain(n)) \/ BridgeStep
                \/ DropBridge
    PROVE  TypeOK'
<1> USE StreamAssumption DEF StreamAssumption
<1>0. TypeOK /\ <<>> \in Seq(1..MaxSeq)
  BY EmptySeq DEF Inv
<1>1. CASE CommitEvent \/ ExpireEvent
  <2>1. latest' \in 0..MaxSeq /\ oldest' \in 1..(MaxSeq + 1)
    BY <1>0, <1>1 DEF TypeOK, CommitEvent, ExpireEvent
  <2>2. UNCHANGED <<relayed, bridgeVars, chan, clientVars>>
    BY <1>1 DEF CommitEvent, ExpireEvent
  <2>3. QED
    BY <1>0, <2>1, <2>2 DEF TypeOK, bridgeVars, clientVars
<1>2. CASE RelayEvent
  <2>1. relayed + 1 \in 1..MaxSeq
    BY <1>0, <1>2 DEF TypeOK, RelayEvent
  <2>2. queue' \in Seq(1..MaxSeq)
    BY <1>0, <1>2, <2>1, FanoutType DEF RelayEvent
  <2>3. QED
    BY <1>0, <1>2, <2>1, <2>2 DEF TypeOK, RelayEvent, clientVars
<1>3. CASE \E n \in 1..MaxSeq : RelayAgain(n)
  <2>1. queue' \in Seq(1..MaxSeq)
    BY <1>0, <1>3, FanoutType DEF RelayAgain
  <2>2. QED
    BY <1>0, <1>3, <2>1 DEF TypeOK, RelayAgain, tableVars, clientVars
<1>4. CASE OpenBridge \/ DropBridge
  BY <1>0, <1>4 DEF TypeOK, OpenBridge, DropBridge, tableVars, clientVars
<1>5. CASE TakeEvent
  <2>1. queue \in Seq(1..MaxSeq) /\ queue # <<>>
    BY <1>0, <1>5 DEF TypeOK, TakeEvent
  <2>2. Tail(queue) \in Seq(1..MaxSeq) /\ Head(queue) \in 1..MaxSeq
    BY <2>1, TakeFirst
  <2>3. /\ queue' \in Seq(1..MaxSeq) /\ current' \in 0..MaxSeq /\ targets' \subseteq Clients
    BY <1>0, <1>5, <2>2 DEF TypeOK, TakeEvent
  <2>4. QED
    BY <1>0, <1>5, <2>3 DEF TypeOK, TakeEvent, tableVars, clientVars
<1>6. CASE \E c \in Clients : SendToSubscriber(c)
  <2>1. PICK c \in Clients : SendToSubscriber(c)
    BY <1>6
  <2>2. current \in 1..MaxSeq /\ chan[c] \in Seq(1..MaxSeq)
    BY <1>0, <2>1 DEF TypeOK, SendToSubscriber
  <2>3. Append(chan[c], current) \in Seq(1..MaxSeq)
    BY <2>2, PutLast
  <2>4. chan' \in [Clients -> Seq(1..MaxSeq)]
    BY <1>0, <2>1, <2>3 DEF TypeOK, SendToSubscriber
  <2>5. QED
    BY <1>0, <2>1, <2>4 DEF TypeOK, SendToSubscriber, tableVars, clientVars
<1>7. CASE PublishDone
  BY <1>0, <1>7 DEF TypeOK, PublishDone, tableVars, clientVars
<1>8. QED
  BY <1>1, <1>2, <1>3, <1>4, <1>5, <1>6, <1>7 DEF BridgeStep

\* A cursor that is presented is a number, or none.
LEMMA CursorType ==
    ASSUME TypeOK, NEW c \in Clients, NEW cursor \in PresentedCursors(c)
    PROVE  cursor \in Nat \cup {NoCursor}
<1>1. received[c] \in Seq(Nat)
  BY DEF TypeOK
<1>2. received[c] # <<>> => Last(received[c]) \in Nat
  <2>1. SUFFICES ASSUME received[c] # <<>> PROVE Last(received[c]) \in Nat
    OBVIOUS
  <2>2. Len(received[c]) \in 1..Len(received[c])
    BY <1>1, <2>1, TakeFirst
  <2>3. QED
    BY <1>1, <2>2 DEF Last
<1>3. QED
  BY <1>2, StreamAssumption DEF PresentedCursors, StreamAssumption

\* The stream starts from a number.
LEMMA StartAfterType ==
    ASSUME Inv, NEW c \in Clients, pc[c] = "bounds"
    PROVE  StartAfter(c) \in Nat
<1>1. hasCursor[c] => after[c] >= 0
  BY DEF Inv, StreamInv
<1>2. after[c] \in Nat \cup {NoCursor} /\ latest \in Nat
  BY StreamAssumption DEF Inv, TypeOK, StreamAssumption
<1>3. QED
  BY <1>1, <1>2 DEF StartAfter, NoCursor

\* The replay is a run of existing events, from ReplayFrom to the latest.
LEMMA ReplayRun ==
    ASSUME Inv, NEW c \in Clients, QueryEvents(c)
    PROVE  /\ replay' \in [Clients -> Seq(1..MaxSeq)]
           /\ \A d \in Clients \ {c} : replay'[d] = replay[d]
           /\ Consecutive(replay'[c])
           /\ ReplayFrom(c) \in Nat
           /\ replay'[c] # <<>> => replay'[c][1] = ReplayFrom(c)
           /\ \A m \in Nat : ReplayFrom(c) <= m /\ m <= latest => Has(replay'[c], m)
<1> DEFINE from == ReplayFrom(c)
           run == IF from > latest THEN <<>> ELSE [i \in 1..(latest - from + 1) |-> from + i - 1]
<1>1. after[c] \in Nat /\ latest \in Nat /\ latest <= MaxSeq /\ oldest \in Nat \ {0} /\ MaxSeq \in Nat
  <2>1. after[c] >= 0 /\ after[c] \in Int
    BY TypesInUse DEF QueryEvents, Inv, StreamInv
  <2>2. QED
    BY <2>1, StreamAssumption DEF Inv, TypeOK, StreamAssumption
<1>2. from \in Nat \ {0}
  BY <1>1 DEF ReplayFrom
<1>3. replay' = [replay EXCEPT ![c] = run] /\ replay \in [Clients -> Seq(1..MaxSeq)]
  BY DEF QueryEvents, Inv, TypeOK
<1> HIDE DEF from
<1>4. CASE from > latest
  <2>1. run = <<>> /\ run \in Seq(1..MaxSeq)
    BY <1>4, EmptySeq
  <2> HIDE DEF run
  <2>2. Consecutive(run)
    <3>1. Len(run) = 0 /\ 1..0 = {}
      BY <2>1
    <3>2. QED
      BY <3>1 DEF Consecutive
  <2>3. \A m \in Nat : ~(from <= m /\ m <= latest)
    BY <1>1, <1>2, <1>4
  <2>4. QED
    BY <1>2, <1>3, <2>1, <2>2, <2>3 DEF from
<1>5. CASE ~(from > latest)
  <2>1. PICK k \in Nat : k = latest - from + 1
    BY <1>1, <1>2, <1>5
  <2>2. run = [i \in 1..k |-> from + i - 1]
    BY <1>5, <2>1
  <2>3. \A i \in 1..k : from + i - 1 \in 1..MaxSeq
    BY <1>1, <1>2, <2>1
  <2> HIDE DEF run
  <2>4. run \in Seq(1..MaxSeq) /\ Len(run) = k /\ \A i \in 1..k : run[i] = from + i - 1
    <3>1. run \in [1..k -> 1..MaxSeq] /\ \A i \in 1..k : run[i] = from + i - 1
      BY <2>2, <2>3
    <3>2. run \in Seq(1..MaxSeq)
      <4> DEFINE S == 1..MaxSeq
      <4> HIDE DEF S
      <4>1. run \in [1..k -> S]
        BY <3>1 DEF S
      <4>2. run \in Seq(S)
        BY <2>1, <4>1
      <4>3. QED
        BY <4>2 DEF S
    <3>3. DOMAIN run = 1..k /\ DOMAIN run = 1..Len(run) /\ Len(run) \in Nat
      BY <3>1, <3>2, LenProperties
    <3>4. Len(run) = k
      BY <2>1, <3>3
    <3>5. QED
      BY <3>1, <3>2, <3>4
  <2>5. k >= 1 /\ 1 \in 1..k
    BY <1>1, <1>2, <1>5, <2>1
  <2>6. run[1] = from
    BY <1>2, <2>4, <2>5
  <2>7. Consecutive(run)
    BY <2>4, <2>6 DEF Consecutive
  <2>8. ASSUME NEW m \in Nat, from <= m, m <= latest
        PROVE  Has(run, m)
    <3>1. m - from + 1 \in 1..k /\ from + (m - from + 1) - 1 = m
      BY <1>1, <1>2, <2>1, <2>8
    <3>2. QED
      BY <2>4, <3>1 DEF Has
  <2>9. QED
    BY <1>2, <1>3, <2>4, <2>6, <2>7, <2>8 DEF from
<1>6. QED
  BY <1>4, <1>5

\* Steps of the handlers keep TypeOK.
LEMMA TypeStepClient ==
    ASSUME Inv, NEW c \in Clients,
           \/ HandlerStep(c) \/ CloseSubscription(c) \/ ClientLeaves(c) \/ ClientStalls(c)
           \/ \E cursor \in PresentedCursors(c) : Subscribe(c, cursor)
    PROVE  TypeOK'
<1> USE StreamAssumption DEF StreamAssumption
<1>0. TypeOK /\ <<>> \in Seq(1..MaxSeq) /\ <<>> \in Seq(Nat)
  BY EmptySeq DEF Inv
<1>1. CASE ReadBounds(c)
  <2>1. StartAfter(c) \in Nat
    BY <1>1, StartAfterType DEF ReadBounds
  <2>2. <<StartAfter(c)>> \in Seq(Nat)
    BY <2>1
  <2>3. received' \in [Clients -> Seq(Nat)]
    BY <1>0, <1>1, <2>2 DEF TypeOK, ReadBounds
  <2>4. QED
    BY <1>0, <1>1, <2>1, <2>3 DEF TypeOK, ReadBounds, tableVars, bridgeVars
<1>2. CASE RefuseCursor(c) \/ ClientLeaves(c) \/ ClientStalls(c)
  BY <1>0, <1>2 DEF TypeOK, RefuseCursor, ClientLeaves, ClientStalls, tableVars, bridgeVars
<1>3. CASE QueryEvents(c)
  BY <1>0, <1>3, ReplayRun DEF TypeOK, QueryEvents, tableVars, bridgeVars
<1>4. CASE WriteReplay(c)
  <2>1. replay[c] \in Seq(1..MaxSeq) /\ replay[c] # <<>>
    BY <1>0, <1>4 DEF TypeOK, WriteReplay
  <2>2. Tail(replay[c]) \in Seq(1..MaxSeq) /\ Head(replay[c]) \in 1..MaxSeq
    BY <2>1, TakeFirst
  <2>3. /\ after' \in [Clients -> Nat \cup {NoCursor}]
        /\ received' \in [Clients -> Seq(Nat)]
    BY <1>0, <1>4, <2>2, WriteEventType DEF WriteReplay
  <2>4. replay' \in [Clients -> Seq(1..MaxSeq)]
    BY <1>0, <1>4, <2>2 DEF TypeOK, WriteReplay
  <2>5. QED
    BY <1>0, <1>4, <2>3, <2>4 DEF TypeOK, WriteReplay, tableVars, bridgeVars
<1>5. CASE WriteLive(c)
  <2>1. chan[c] \in Seq(1..MaxSeq) /\ chan[c] # <<>>
    BY <1>0, <1>5 DEF TypeOK, WriteLive
  <2>2. Tail(chan[c]) \in Seq(1..MaxSeq) /\ Head(chan[c]) \in 1..MaxSeq
    BY <2>1, TakeFirst
  <2>3. /\ after' \in [Clients -> Nat \cup {NoCursor}]
        /\ received' \in [Clients -> Seq(Nat)]
    BY <1>0, <1>5, <2>2, WriteEventType DEF WriteLive
  <2>4. chan' \in [Clients -> Seq(1..MaxSeq)]
    BY <1>0, <1>5, <2>2 DEF TypeOK, WriteLive
  <2>5. QED
    BY <1>0, <1>5, <2>3, <2>4 DEF TypeOK, WriteLive, tableVars, bridgeVars
<1>6. CASE CloseSubscription(c)
  <2>1. /\ chan' \in [Clients -> Seq(1..MaxSeq)]
        /\ replay' \in [Clients -> Seq(1..MaxSeq)]
    BY <1>0, <1>6 DEF TypeOK, CloseSubscription
  <2>2. QED
    BY <1>0, <1>6, <2>1 DEF TypeOK, CloseSubscription, tableVars, bridgeVars
<1>7. CASE \E cursor \in PresentedCursors(c) : Subscribe(c, cursor)
  <2>1. PICK cursor \in PresentedCursors(c) : Subscribe(c, cursor)
    BY <1>7
  <2>2. cursor \in Nat \cup {NoCursor} /\ (cursor >= 0) \in BOOLEAN
    BY <1>0, CursorType
  <2>3. QED
    BY <1>0, <2>1, <2>2 DEF TypeOK, Subscribe, tableVars, bridgeVars
<1>8. QED
  BY <1>1, <1>2, <1>3, <1>4, <1>5, <1>6, <1>7 DEF HandlerStep

-----------------------------------------------------------------------------
(* The hub: who is subscribed and whose channel holds events.              *)

TableStep == CommitEvent \/ ExpireEvent \/ RelayEvent \/ (\E n \in 1..MaxSeq : RelayAgain(n))

ClientStep(c) ==
    \/ HandlerStep(c) \/ CloseSubscription(c) \/ ClientLeaves(c) \/ ClientStalls(c)
    \/ \E cursor \in PresentedCursors(c) : Subscribe(c, cursor)

\* A step is one of the table, of the bridge, or of a client.
LEMMA NextSplit ==
    ASSUME Next
    PROVE  TableStep \/ BridgeStep \/ DropBridge \/ \E c \in Clients : ClientStep(c)
BY DEF Next, TableStep, ClientStep

\* Handlers leave the bridge and the table alone, and other clients.
LEMMA ClientFrame ==
    ASSUME TypeOK, NEW c \in Clients, ClientStep(c)
    PROVE  /\ UNCHANGED <<latest, oldest, relayed, up, queue, last, current, targets, lost>>
           /\ \A d \in Clients \ {c} :
                /\ chan'[d] = chan[d] /\ pc'[d] = pc[d] /\ after'[d] = after[d] /\ hasCursor'[d] = hasCursor[d]
                /\ replay'[d] = replay[d] /\ received'[d] = received[d] /\ (d \in subs' <=> d \in subs)
<1>1. UNCHANGED <<latest, oldest, relayed, up, queue, last, current, targets, lost>>
  BY DEF ClientStep, HandlerStep, ReadBounds, RefuseCursor, QueryEvents, WriteReplay, WriteLive, CloseSubscription,
         ClientLeaves, ClientStalls, Subscribe, tableVars, bridgeVars
<1>2. ASSUME NEW d \in Clients \ {c}
      PROVE  /\ chan'[d] = chan[d] /\ pc'[d] = pc[d] /\ after'[d] = after[d] /\ hasCursor'[d] = hasCursor[d]
             /\ replay'[d] = replay[d] /\ received'[d] = received[d] /\ (d \in subs' <=> d \in subs)
  BY <1>2 DEF TypeOK, ClientStep, HandlerStep, ReadBounds, RefuseCursor, QueryEvents, WriteReplay, WriteLive,
         WriteEvent, CloseSubscription, ClientLeaves, ClientStalls, Subscribe
<1>3. QED
  BY <1>1, <1>2

\* The table, the relay and the bridge leave the handlers alone.
LEMMA BridgeFrame ==
    ASSUME TableStep \/ BridgeStep \/ DropBridge
    PROVE  UNCHANGED <<subs, pc, after, hasCursor, replay, stalled, received>>
BY DEF TableStep, BridgeStep, DropBridge, CommitEvent, ExpireEvent, RelayEvent, RelayAgain, OpenBridge, TakeEvent,
       SendToSubscriber, PublishDone, clientVars

\* A channel holds events only between Subscribe and Close.
LEMMA HubStep ==
    ASSUME Inv, Next
    PROVE  HubInv'
<1> USE StreamAssumption DEF StreamAssumption
<1>0. TypeOK /\ HubInv
  BY DEF Inv
<1>1. CASE TableStep \/ OpenBridge \/ DropBridge
  <2>1. UNCHANGED <<subs, pc, current, targets, chan>>
    BY <1>1 DEF TableStep, OpenBridge, DropBridge, CommitEvent, ExpireEvent, RelayEvent, RelayAgain, clientVars,
                bridgeVars
  <2>2. QED
    BY <1>0, <2>1 DEF HubInv, ChannelsBelongToSubscribers
<1>2. CASE TakeEvent
  <2>1. UNCHANGED <<subs, pc, chan>> /\ current = 0
    BY <1>2 DEF TakeEvent, clientVars
  <2>2. \/ current' = current /\ targets' = targets
        \/ current' = Head(queue) /\ targets' = subs
    BY <1>2 DEF TakeEvent, Seen
  <2>3. Head(queue) \in 1..MaxSeq
    BY <1>0, <1>2, TakeFirst DEF TakeEvent, TypeOK
  <2>4. QED
    BY <1>0, <2>1, <2>2, <2>3 DEF HubInv, ChannelsBelongToSubscribers
<1>3. CASE \E c \in Clients : SendToSubscriber(c)
  <2>1. PICK c \in Clients : SendToSubscriber(c)
    BY <1>3
  <2>2. /\ UNCHANGED <<subs, pc, current>> /\ current > 0 /\ targets' = targets \ {c} /\ c \in targets
        /\ Len(chan[c]) < ChanCap /\ chan'[c] = Append(chan[c], current)
        /\ \A d \in Clients \ {c} : chan'[d] = chan[d]
    BY <1>0, <2>1 DEF SendToSubscriber, clientVars, TypeOK
  <2>3. chan[c] \in Seq(Nat) /\ current \in Nat
    BY <1>0, TypesInUse
  <2>4. Len(chan'[c]) = Len(chan[c]) + 1 /\ Len(chan[c]) \in Nat
    BY <2>2, <2>3, PutLast
  <2>5. Len(chan'[c]) <= ChanCap
    BY <2>2, <2>4
  <2>6. c \in subs /\ targets' \subseteq subs'
    BY <1>0, <2>2 DEF HubInv, ChannelsBelongToSubscribers
  <2>7. \A d \in Clients : Len(chan'[d]) <= ChanCap /\ (d \notin subs' => chan'[d] = <<>>)
    BY <1>0, <2>2, <2>5, <2>6 DEF HubInv, ChannelsBelongToSubscribers
  <2>8. QED
    BY <1>0, <2>2, <2>3, <2>6, <2>7 DEF HubInv, ChannelsBelongToSubscribers
<1>4. CASE PublishDone
  BY <1>0, <1>4 DEF PublishDone, clientVars, HubInv, ChannelsBelongToSubscribers
<1>5. CASE \E c \in Clients : ClientStep(c)
  <2>1. PICK c \in Clients : ClientStep(c)
    BY <1>5
  <2>2. UNCHANGED <<current, targets>> /\ \A d \in Clients \ {c} : chan'[d] = chan[d] /\ pc'[d] = pc[d] /\ (d \in subs' <=> d \in subs)
    BY <1>0, <2>1, ClientFrame
  <2>3. SUFFICES /\ c \in subs' <=> pc'[c] # "idle"
                 /\ Len(chan'[c]) <= ChanCap /\ (c \notin subs' => chan'[c] = <<>>)
                 /\ subs' \subseteq Clients /\ (c \in targets => c \in subs')
    BY <1>0, <2>2 DEF HubInv, ChannelsBelongToSubscribers, TypeOK
  <2>4. c \in subs <=> pc[c] # "idle"
    BY <1>0 DEF HubInv
  <2>5. Len(chan[c]) <= ChanCap /\ (c \notin subs => chan[c] = <<>>) /\ targets \subseteq subs
    BY <1>0 DEF HubInv, ChannelsBelongToSubscribers
  <2>6. CASE ReadBounds(c) \/ RefuseCursor(c) \/ QueryEvents(c) \/ WriteReplay(c) \/ ClientLeaves(c) \/ ClientStalls(c)
    <3>1. chan' = chan /\ subs' = subs /\ pc[c] # "idle" /\ pc'[c] # "idle"
      BY <1>0, <2>6 DEF ReadBounds, RefuseCursor, QueryEvents, WriteReplay, ClientLeaves, ClientStalls, TypeOK
    <3>2. QED
      BY <1>0, <2>4, <2>5, <3>1 DEF TypeOK
  <2>7. CASE WriteLive(c)
    <3>1. chan'[c] = Tail(chan[c]) /\ chan[c] # <<>> /\ subs' = subs /\ pc' = pc
      BY <1>0, <2>7 DEF WriteLive, TypeOK
    <3>2. Len(Tail(chan[c])) = Len(chan[c]) - 1 /\ Len(chan[c]) \in Nat
      BY <1>0, <3>1, TypesInUse, TakeFirst
    <3>3. Len(chan'[c]) <= ChanCap
      BY <2>5, <3>1, <3>2
    <3>4. QED
      BY <1>0, <2>4, <2>5, <3>1, <3>3 DEF TypeOK
  <2>8. CASE CloseSubscription(c)
    <3>1. chan'[c] = <<>> /\ subs' = subs \ {c} /\ pc'[c] = "idle" /\ current = 0
      BY <1>0, <2>8 DEF CloseSubscription, HubLockFree, TypeOK
    <3>2. targets = {} /\ Len(<<>>) = 0
      BY <1>0, <3>1 DEF HubInv
    <3>3. QED
      BY <1>0, <3>1, <3>2 DEF TypeOK
  <2>9. CASE \E cursor \in PresentedCursors(c) : Subscribe(c, cursor)
    <3>1. chan' = chan /\ subs' = subs \cup {c} /\ pc'[c] = "bounds"
      BY <1>0, <2>9 DEF Subscribe, TypeOK
    <3>2. QED
      BY <1>0, <2>5, <3>1 DEF TypeOK
  <2>10. QED
    BY <2>1, <2>6, <2>7, <2>8, <2>9 DEF ClientStep, HandlerStep
<1>6. QED
  BY <1>1, <1>2, <1>3, <1>4, <1>5, NextSplit DEF BridgeStep

-----------------------------------------------------------------------------
(* The bridge accounts for every relayed event.                            *)

\* An event enters the queue.
LEMMA QueueStep ==
    ASSUME Inv, NEW n \in 1..MaxSeq, Fanout(n), up, n <= relayed + 1, relayed' \in Nat, n <= relayed',
           relayed <= relayed', relayed' <= relayed + 1, relayed' = relayed + 1 => n = relayed + 1
    PROVE  /\ \A i \in 1..Len(queue') : queue'[i] <= relayed'
           /\ InTurn(queue', Forwarded, lost)
           /\ \A m \in 1..relayed' : m <= Forwarded \/ m \in lost \/ Has(queue', m)
<1>1. queue' = Append(queue, n) /\ n \in Nat /\ MaxSeq \in Nat
  BY StreamAssumption DEF Fanout, StreamAssumption
<1>2. BridgeInv /\ queue \in Seq(Nat) /\ Forwarded \in Nat /\ relayed \in Nat
  BY TypesInUse DEF Inv
<1>3. \A i \in 1..Len(queue') : queue'[i] <= relayed'
  <2>1. TAKE i \in 1..Len(queue')
  <2>2. CASE i \in 1..Len(queue)
    <3>1. queue'[i] = queue[i] /\ queue[i] <= relayed
      BY <1>1, <1>2, <2>2, PutLast DEF BridgeInv
    <3>2. queue[i] \in Nat
      BY <1>2, <2>2
    <3>3. QED
      BY <1>2, <3>1, <3>2
  <2>3. CASE i = Len(queue) + 1
    BY <1>1, <1>2, <2>3, PutLast
  <2>4. QED
    BY <1>1, <1>2, <2>2, <2>3, PutLast
<1>4. InTurn(queue', Forwarded, lost)
  <2>1. \A m \in Nat : Forwarded < m /\ m < n => m \in lost \/ Has(queue, m)
    <3>1. TAKE m \in Nat
    <3>2. HAVE Forwarded < m /\ m < n
    <3>3. m \in 1..relayed /\ ~(m <= Forwarded)
      BY <1>1, <1>2, <3>2
    <3>4. QED
      BY <1>2, <3>3 DEF BridgeInv
  <2>2. QED
    BY <1>1, <1>2, <2>1, InTurnAppend DEF BridgeInv
<1>5. \A m \in 1..relayed' : m <= Forwarded \/ m \in lost \/ Has(queue', m)
  <2>1. TAKE m \in 1..relayed'
  <2>2. CASE m \in 1..relayed
    BY <1>1, <1>2, <2>2, HasAppend DEF BridgeInv
  <2>3. CASE m \notin 1..relayed
    <3>1. m = n
      BY <1>2, <2>3
    <3>2. QED
      BY <1>1, <1>2, <3>1, HasAppend
  <2>4. QED
    BY <2>2, <2>3
<1>6. QED
  BY <1>3, <1>4, <1>5

\* More lost events excuse more.
LEMMA InTurnMore ==
    ASSUME NEW s, NEW base, NEW missing, NEW more, missing \subseteq more, InTurn(s, base, missing)
    PROVE  InTurn(s, base, more)
BY DEF InTurn

\* Every step keeps the account.
LEMMA BridgeInvStep ==
    ASSUME Inv, Next
    PROVE  BridgeInv'
<1> USE StreamAssumption DEF StreamAssumption
<1>0. /\ TypeOK /\ HubInv /\ BridgeInv /\ queue \in Seq(Nat) /\ Forwarded \in Nat
      /\ relayed \in Nat /\ latest \in Nat /\ last \in Nat /\ current \in Nat
  BY TypesInUse DEF Inv
<1>1. CASE CommitEvent \/ ExpireEvent
  <2>1. UNCHANGED <<relayed, up, queue, last, current, lost>> /\ latest' >= latest
    BY <1>0, <1>1 DEF CommitEvent, ExpireEvent, bridgeVars
  <2>2. latest' \in Nat
    BY <1>0, <1>1 DEF CommitEvent, ExpireEvent
  <2>3. Forwarded' = Forwarded
    BY <2>1 DEF Forwarded
  <2>4. QED
    BY <1>0, <2>1, <2>2, <2>3 DEF BridgeInv, InTurn, Has
<1>2. CASE RelayEvent /\ up
  <2>1. /\ UNCHANGED <<latest, up, last, current, lost>> /\ relayed' = relayed + 1 /\ Fanout(relayed + 1)
        /\ relayed < latest /\ up
    BY <1>2 DEF RelayEvent
  <2>2. Forwarded' = Forwarded
    BY <2>1 DEF Forwarded
  <2>3. relayed + 1 \in 1..MaxSeq
    BY <1>0, <2>1 DEF TypeOK
  <2>4. /\ \A i \in 1..Len(queue') : queue'[i] <= relayed'
        /\ InTurn(queue', Forwarded, lost)
        /\ \A m \in 1..relayed' : m <= Forwarded \/ m \in lost \/ Has(queue', m)
    BY <1>0, <2>1, <2>3, QueueStep
  <2>5. QED
    BY <1>0, <2>1, <2>2, <2>4 DEF BridgeInv, InTurn, Has
<1>3. CASE RelayEvent /\ ~up
  <2>1. /\ UNCHANGED <<latest, up, last, current, queue>> /\ relayed' = relayed + 1
        /\ relayed < latest /\ ~up /\ lost' = lost \cup {relayed + 1} /\ queue = <<>>
    BY <1>0, <1>3 DEF RelayEvent, Fanout, BridgeInv
  <2>2. Forwarded' = Forwarded
    BY <2>1 DEF Forwarded
  <2>3. \A m \in 1..relayed' : m <= Forwarded \/ m \in lost' \/ Has(queue, m)
    <3>1. \A m \in 1..(relayed + 1) : m \in 1..relayed \/ m = relayed + 1
      BY <1>0
    <3>2. QED
      BY <1>0, <2>1, <3>1 DEF BridgeInv
  <2>4. InTurn(queue, Forwarded, lost')
    BY <1>0, <2>1, InTurnMore DEF BridgeInv
  <2>5. \A i \in 1..Len(queue) : queue[i] <= relayed + 1
    BY <2>1
  <2>6. QED
    BY <1>0, <2>1, <2>2, <2>3, <2>4, <2>5 DEF BridgeInv, InTurn, Has
<1>4. CASE \E n \in 1..MaxSeq : RelayAgain(n)
  <2>1. PICK n \in 1..MaxSeq : RelayAgain(n)
    BY <1>4
  <2>2. UNCHANGED <<latest, relayed, up, last, current, lost>> /\ Fanout(n) /\ n <= relayed
    BY <2>1 DEF RelayAgain, tableVars
  <2>3. Forwarded' = Forwarded
    BY <2>2 DEF Forwarded
  <2>4. CASE up
    <3>1. /\ \A i \in 1..Len(queue') : queue'[i] <= relayed'
          /\ InTurn(queue', Forwarded, lost)
          /\ \A m \in 1..relayed' : m <= Forwarded \/ m \in lost \/ Has(queue', m)
      BY <1>0, <2>2, <2>4, QueueStep
    <3>2. QED
      BY <1>0, <2>2, <2>3, <2>4, <3>1 DEF BridgeInv, InTurn, Has
  <2>5. CASE ~up
    <3>1. queue' = queue
      BY <2>2, <2>5 DEF Fanout
    <3>2. QED
      BY <1>0, <2>2, <2>3, <3>1 DEF BridgeInv, InTurn, Has
  <2>6. QED
    BY <2>4, <2>5
<1>5. CASE OpenBridge \/ DropBridge
  <2>1. UNCHANGED <<latest, relayed, last, current>> /\ queue' = <<>>
    BY <1>5 DEF OpenBridge, DropBridge, tableVars
  <2>2. \A m : Has(queue, m) => m \in lost'
    <3>1. CASE OpenBridge
      <4>1. queue = <<>>
        BY <1>0, <3>1 DEF OpenBridge, BridgeInv
      <4>2. Len(queue) = 0 /\ 1..0 = {}
        BY <4>1
      <4>3. QED
        BY <4>2 DEF Has
    <3>2. CASE DropBridge
      BY <3>2 DEF DropBridge, Has
    <3>3. QED
      BY <1>5, <3>1, <3>2
  <2>3. lost \subseteq lost'
    BY <1>5 DEF OpenBridge, DropBridge
  <2>4. Forwarded' = Forwarded
    BY <2>1 DEF Forwarded
  <2>5. Len(queue') = 0 /\ 1..0 = {}
    BY <2>1
  <2>6. InTurn(queue', Forwarded, lost')
    BY <2>5 DEF InTurn
  <2>7. QED
    BY <1>0, <2>1, <2>2, <2>3, <2>4, <2>5, <2>6 DEF BridgeInv, InTurn, Has
<1>6. CASE TakeEvent
  <2>1. /\ UNCHANGED <<latest, relayed, up, last, lost>> /\ current = 0 /\ queue # <<>> /\ queue' = Tail(queue)
        /\ Forwarded = last
    BY <1>6 DEF TakeEvent, tableVars, Forwarded
  <2>2. Head(queue) \in Nat \ {0} /\ Head(queue) <= relayed
    <3>1. Head(queue) \in 1..MaxSeq /\ Head(queue) = queue[1] /\ 1 \in 1..Len(queue)
      BY <1>0, <2>1, TakeFirst DEF TypeOK
    <3>2. QED
      BY <1>0, <3>1 DEF BridgeInv
  <2>3. PICK h \in Nat : h = Head(queue)
    BY <2>2
  <2>4. Forwarded' = IF h <= last THEN last ELSE h
    BY <1>0, <1>6, <2>1, <2>2, <2>3 DEF TakeEvent, Seen, Forwarded
  <2>5. PICK next \in Nat : next = Forwarded' /\ last <= next /\ h <= next
    BY <1>0, <2>3, <2>4
  <2>6. /\ InTurn(Tail(queue), next, lost)
        /\ \A m \in Nat : last < m /\ m < h => m \in lost
    BY <1>0, <2>1, <2>3, <2>5, InTurnTail DEF BridgeInv
  <2>7. \A i \in 1..Len(queue') : queue'[i] <= relayed
    <3>1. TAKE i \in 1..Len(queue')
    <3>2. i + 1 \in 1..Len(queue) /\ queue'[i] = queue[i + 1]
      BY <1>0, <2>1, TakeFirst
    <3>3. QED
      BY <1>0, <3>2 DEF BridgeInv
  <2>8. \A m \in 1..relayed : m <= next \/ m \in lost \/ Has(queue', m)
    <3>1. TAKE m \in 1..relayed
    <3>2. CASE m = h
      BY <2>5, <3>2
    <3>3. CASE m # h
      <4>1. m <= last \/ m \in lost \/ Has(queue, m)
        BY <1>0, <2>1 DEF BridgeInv
      <4>2. Has(queue, m) => Has(queue', m)
        BY <1>0, <2>1, <2>3, <3>3, HasTail
      <4>3. m <= last => m <= next
        BY <1>0, <2>5
      <4>4. QED
        BY <4>1, <4>2, <4>3
    <3>4. QED
      BY <3>2, <3>3
  <2>9. \/ current' = 0
        \/ current' = h /\ last < h
    BY <1>0, <1>6, <2>1, <2>3 DEF TakeEvent, Seen
  <2>10. current' > 0 => last' < current' /\ current' <= relayed' /\ \A m \in Nat : last' < m /\ m < current' => m \in lost'
    BY <2>1, <2>2, <2>3, <2>6, <2>9
  <2>11. ~up' => queue' = <<>>
    BY <1>0, <2>1 DEF BridgeInv
  <2>12. InTurn(queue', Forwarded', lost')
    BY <2>1, <2>5, <2>6
  <2>13. QED
    BY <1>0, <2>1, <2>5, <2>7, <2>8, <2>10, <2>11, <2>12 DEF BridgeInv, InTurn, Has
<1>7. CASE \E c \in Clients : SendToSubscriber(c)
  <2>1. UNCHANGED <<latest, relayed, up, queue, last, current, lost>>
    BY <1>7 DEF SendToSubscriber, tableVars
  <2>2. QED
    BY <1>0, <2>1 DEF BridgeInv, Forwarded, InTurn, Has
<1>8. CASE PublishDone
  <2>1. UNCHANGED <<latest, relayed, up, queue, lost>> /\ last' = current /\ current' = 0 /\ current > 0
    BY <1>8 DEF PublishDone, tableVars
  <2>2. Forwarded' = Forwarded
    BY <2>1 DEF Forwarded
  <2>3. QED
    BY <1>0, <2>1, <2>2 DEF BridgeInv, InTurn, Has
<1>9. CASE \E c \in Clients : ClientStep(c)
  <2>1. UNCHANGED <<latest, relayed, up, queue, last, current, lost>>
    BY <1>0, <1>9, ClientFrame
  <2>2. QED
    BY <1>0, <2>1 DEF BridgeInv, Forwarded, InTurn, Has
<1>10. QED
  BY <1>1, <1>2, <1>3, <1>4, <1>5, <1>6, <1>7, <1>8, <1>9, NextSplit DEF TableStep, BridgeStep

-----------------------------------------------------------------------------
(* Channels.                                                               *)

\* What a step of the bridge does to a channel and to what was sent on it.
LEMMA SentStep ==
    ASSUME Inv, TableStep \/ BridgeStep \/ DropBridge, NEW c \in Clients
    PROVE  \/ chan'[c] = chan[c] /\ Sent(c)' = Sent(c)
           \/ chan'[c] = chan[c] /\ c \notin subs
           \/ /\ chan'[c] = Append(chan[c], current) /\ Sent(c) = last /\ Sent(c)' = current /\ current \in Nat
              /\ last < current /\ \A m \in Nat : last < m /\ m < current => m \in lost
<1>0. TypeOK /\ HubInv /\ BridgeInv
  BY DEF Inv
<1>1. CASE TableStep \/ OpenBridge \/ DropBridge
  BY <1>1 DEF TableStep, OpenBridge, DropBridge, CommitEvent, ExpireEvent, RelayEvent, RelayAgain, bridgeVars, Sent
<1>2. CASE TakeEvent
  <2>1. /\ chan' = chan /\ last' = last /\ current = 0
        /\ \/ current' = current /\ targets' = targets
           \/ targets' = subs
    BY <1>2 DEF TakeEvent, Seen
  <2>2. QED
    BY <2>1 DEF Sent
<1>3. CASE \E d \in Clients : SendToSubscriber(d)
  <2>1. PICK d \in Clients : SendToSubscriber(d)
    BY <1>3
  <2>2. /\ UNCHANGED <<current, last>> /\ current > 0 /\ targets' = targets \ {d} /\ d \in targets
        /\ chan'[d] = Append(chan[d], current) /\ \A e \in Clients \ {d} : chan'[e] = chan[e]
    BY <1>0, <2>1 DEF SendToSubscriber, TypeOK
  <2>3. CASE c = d
    <3>1. Sent(c) = last /\ Sent(c)' = current
      BY <2>2, <2>3 DEF Sent
    <3>2. current \in Nat /\ last < current /\ \A m \in Nat : last < m /\ m < current => m \in lost
      BY <1>0, <2>2, TypesInUse DEF BridgeInv
    <3>3. QED
      BY <2>2, <2>3, <3>1, <3>2
  <2>4. CASE c # d
    BY <2>2, <2>4 DEF Sent
  <2>5. QED
    BY <2>3, <2>4
<1>4. CASE PublishDone
  BY <1>0, <1>4 DEF PublishDone, Sent
<1>5. QED
  BY <1>1, <1>2, <1>3, <1>4 DEF BridgeStep

\* A channel stays increasing and ends at what was sent last.
LEMMA ChanStep ==
    ASSUME Inv, Next, NEW c \in Clients
    PROVE  ChanInv(c)'
<1>0. /\ TypeOK /\ HubInv /\ ChanInv(c) /\ chan[c] \in Seq(Nat) /\ Sent(c) \in Nat
  BY TypesInUse DEF Inv
<1>1. CASE TableStep \/ BridgeStep \/ DropBridge
  <2>1. CASE chan'[c] = chan[c] /\ Sent(c)' = Sent(c)
    BY <1>0, <2>1 DEF ChanInv, Increasing
  <2>2. CASE chan'[c] = chan[c] /\ c \notin subs
    <3>1. Len(chan'[c]) = 0 /\ 1..0 = {}
      BY <1>0, <2>2 DEF HubInv, ChannelsBelongToSubscribers
    <3>2. QED
      BY <3>1 DEF ChanInv, Increasing
  <2>3. CASE /\ chan'[c] = Append(chan[c], current) /\ Sent(c) = last /\ Sent(c)' = current
             /\ current \in Nat /\ last < current
    <3>1. \A i \in 1..Len(chan[c]) : chan[c][i] \in Nat /\ chan[c][i] <= Sent(c)
      BY <1>0 DEF ChanInv
    <3>2. \A i \in 1..Len(chan[c]) : chan[c][i] < current
      BY <1>0, <2>3, <3>1
    <3>3. Increasing(Append(chan[c], current))
      BY <1>0, <2>3, <3>2, IncreasingAppend DEF ChanInv
    <3>4. \A i \in 1..Len(chan'[c]) : chan'[c][i] <= current
      <4>1. TAKE i \in 1..Len(chan'[c])
      <4>2. CASE i \in 1..Len(chan[c])
        <5>1. chan'[c][i] = chan[c][i]
          BY <1>0, <2>3, <4>2, PutLast
        <5>2. QED
          BY <2>3, <3>1, <3>2, <4>2, <5>1
      <4>3. CASE i = Len(chan[c]) + 1
        <5>1. chan'[c][i] = current
          BY <1>0, <2>3, <4>3, PutLast
        <5>2. QED
          BY <2>3, <5>1
      <4>4. QED
        BY <1>0, <2>3, <4>2, <4>3, PutLast
    <3>5. QED
      BY <2>3, <3>3, <3>4 DEF ChanInv, Increasing
  <2>4. QED
    BY <1>1, <2>1, <2>2, <2>3, SentStep
<1>2. ASSUME NEW d \in Clients, ClientStep(d)
      PROVE  ChanInv(c)'
  <2>1. Sent(c)' = Sent(c)
    BY <1>0, <1>2, ClientFrame DEF Sent
  <2>2. \/ chan'[c] = chan[c]
        \/ chan'[c] = Tail(chan[c]) /\ chan[c] # <<>>
        \/ chan'[c] = <<>>
    BY <1>0, <1>2 DEF TypeOK, ClientStep, HandlerStep, ReadBounds, RefuseCursor, QueryEvents, WriteReplay, WriteLive,
         CloseSubscription, ClientLeaves, ClientStalls, Subscribe
  <2>3. CASE chan'[c] = chan[c]
    BY <1>0, <2>1, <2>3 DEF ChanInv, Increasing
  <2>4. CASE chan'[c] = <<>>
    <3>1. Len(chan'[c]) = 0 /\ 1..0 = {}
      BY <2>4
    <3>2. QED
      BY <3>1 DEF ChanInv, Increasing
  <2>5. CASE chan'[c] = Tail(chan[c]) /\ chan[c] # <<>>
    <3>1. Increasing(Tail(chan[c]))
      BY <1>0, <2>5, IncreasingTail DEF ChanInv
    <3>2. \A i \in 1..Len(chan'[c]) : chan'[c][i] <= Sent(c)
      <4>1. TAKE i \in 1..Len(chan'[c])
      <4>2. i + 1 \in 1..Len(chan[c]) /\ chan'[c][i] = chan[c][i + 1]
        BY <1>0, <2>5, TakeFirst
      <4>3. QED
        BY <1>0, <4>2 DEF ChanInv
    <3>3. QED
      BY <2>1, <2>5, <3>1, <3>2 DEF ChanInv, Increasing
  <2>6. QED
    BY <2>2, <2>3, <2>4, <2>5
<1>3. QED
  BY <1>1, <1>2, NextSplit

-----------------------------------------------------------------------------
(* Streams.                                                                *)

\* Events do not come back: what is excused stays so.
LEMMA ExcusedStays ==
    ASSUME Inv, Next
    PROVE  \A m \in Nat : Excused(m) => Excused(m)'
<1>1. oldest \in Nat /\ oldest' \in Nat /\ oldest <= oldest' /\ lost \subseteq lost'
  <2>1. oldest \in Nat
    BY TypesInUse DEF Inv
  <2>2. (oldest' = oldest \/ oldest' = oldest + 1) /\ lost \subseteq lost'
    <3>1. CASE TableStep \/ BridgeStep \/ DropBridge
      BY <3>1 DEF TableStep, BridgeStep, DropBridge, CommitEvent, ExpireEvent, RelayEvent, RelayAgain, OpenBridge,
                  TakeEvent, SendToSubscriber, PublishDone, tableVars
    <3>2. CASE \E c \in Clients : ClientStep(c)
      BY <3>2, ClientFrame DEF Inv
    <3>3. QED
      BY <3>1, <3>2, NextSplit
  <2>3. QED
    BY <2>1, <2>2
<1>2. QED
  BY <1>1 DEF Excused

\* The bridge leaves a stream with nothing unaccounted for.
LEMMA StreamStepBridge ==
    ASSUME Inv, Next, TableStep \/ BridgeStep \/ DropBridge, NEW c \in Clients
    PROVE  StreamInv(c)'
<1>0. /\ TypeOK /\ HubInv /\ StreamInv(c) /\ chan[c] \in Seq(Nat) /\ Sent(c) \in Nat
      /\ UNCHANGED <<subs, pc, after, hasCursor, replay, received>>
      /\ \A m \in Nat : Excused(m) => Excused(m)'
  BY TypesInUse, BridgeFrame, ExcusedStays DEF Inv
<1>1. SUFFICES ASSUME pc[c] = "stream", NEW m \in Nat, after[c] < m, m <= Sent(c)'
               PROVE  Excused(m)' \/ Has(replay[c], m) \/ Has(chan[c]', m)
  BY <1>0 DEF StreamInv, Consecutive, Has
<1>2. m <= Sent(c) => Excused(m) \/ Has(replay[c], m) \/ Has(chan[c], m)
  BY <1>0, <1>1 DEF StreamInv
<1>3. c \in subs
  BY <1>0, <1>1 DEF HubInv
<1>4. CASE chan'[c] = chan[c] /\ Sent(c)' = Sent(c)
  BY <1>0, <1>1, <1>2, <1>4
<1>5. CASE /\ chan'[c] = Append(chan[c], current) /\ Sent(c) = last /\ Sent(c)' = current /\ current \in Nat
           /\ last < current /\ \A k \in Nat : last < k /\ k < current => k \in lost
  <2>1. Has(Append(chan[c], current), current) /\ (Has(chan[c], m) => Has(Append(chan[c], current), m))
    BY <1>0, <1>5, HasAppend
  <2>2. CASE m <= last
    BY <1>0, <1>2, <1>5, <2>1, <2>2
  <2>3. CASE m = current
    BY <1>5, <2>1, <2>3
  <2>4. CASE last < m /\ m < current
    <3>1. Excused(m)
      BY <1>5, <2>4 DEF Excused
    <3>2. QED
      BY <1>0, <3>1
  <2>5. QED
    BY <1>0, <1>1, <1>5, <2>2, <2>3, <2>4
<1>6. QED
  BY <1>3, <1>4, <1>5, SentStep

\* What writeEvent does to the stream of its client.
LEMMA WriteStep ==
    ASSUME Inv, NEW c \in Clients, pc[c] = "stream", NEW n \in Nat, WriteEvent(c, n),
           \A m \in Nat : after[c] < m /\ m < n => Excused(m)
    PROVE  /\ after'[c] \in Nat /\ after'[c] = IF n > after[c] THEN n ELSE after[c]
           /\ received'[c] # <<>> /\ after'[c] = Last(received'[c])
           /\ \A i \in 1..(Len(received'[c]) - 1) : received'[c][i] < received'[c][i + 1]
           /\ \A i \in 1..(Len(received'[c]) - 1) :
                 \A k \in (received'[c][i] + 1)..(received'[c][i + 1] - 1) : k \in {m \in Int : Excused(m)}
<1> DEFINE s == received[c]
           missed == {m \in Int : Excused(m)}
<1>1. /\ s \in Seq(Nat) /\ s # <<>> /\ after[c] = Last(s) /\ after[c] \in Nat
  <2>1. after[c] \in Int /\ s \in Seq(Nat)
    BY TypesInUse DEF Inv
  <2>2. QED
    BY <2>1 DEF Inv, StreamInv
<1>2. /\ \A i \in 1..(Len(s) - 1) : s[i] < s[i + 1]
      /\ \A i \in 1..(Len(s) - 1) : \A k \in (s[i] + 1)..(s[i + 1] - 1) : k \in missed
  BY DEF Inv, StreamIncreasing, GapsAreOutages, Excused
<1>3. /\ after'[c] = IF n > after[c] THEN n ELSE after[c]
      /\ received'[c] = IF n > after[c] THEN Append(s, n) ELSE s
  BY DEF WriteEvent, Inv, TypeOK
<1>4. CASE n > after[c]
  <2>1. \A k \in (Last(s) + 1)..(n - 1) : k \in missed
    <3>1. TAKE k \in (Last(s) + 1)..(n - 1)
    <3>2. k \in Nat /\ after[c] < k /\ k < n
      BY <1>1
    <3>3. QED
      BY <3>2
  <2>2. Last(s) < n
    BY <1>1, <1>4
  <2> HIDE DEF missed, s
  <2>3. /\ \A i \in 1..(Len(Append(s, n)) - 1) : Append(s, n)[i] < Append(s, n)[i + 1]
        /\ \A i \in 1..(Len(Append(s, n)) - 1) :
             \A k \in (Append(s, n)[i] + 1)..(Append(s, n)[i + 1] - 1) : k \in missed
        /\ Last(Append(s, n)) = n
    BY <1>1, <1>2, <2>1, <2>2, StreamAppend
  <2>4. Append(s, n) # <<>>
    BY <1>1, PutLast
  <2>5. QED
    BY <1>3, <1>4, <2>3, <2>4 DEF missed
<1>5. CASE ~(n > after[c])
  <2> HIDE DEF missed, s
  <2>1. QED
    BY <1>1, <1>2, <1>3, <1>5 DEF missed
<1>6. QED
  BY <1>4, <1>5

\* The next event of the replay: what lies between it and after is excused.
LEMMA ReplayNext ==
    ASSUME Inv, NEW c \in Clients, WriteReplay(c)
    PROVE  /\ Head(replay[c]) \in Nat /\ after[c] < Head(replay[c])
           /\ \A m \in Nat : after[c] < m /\ m < Head(replay[c]) => Excused(m)
<1>1. pc[c] = "stream" /\ replay[c] # <<>> /\ replay[c] \in Seq(Nat)
  BY TypesInUse DEF WriteReplay, Inv
<1>2. Head(replay[c]) = replay[c][1] /\ Head(replay[c]) \in Nat
  BY <1>1, TakeFirst
<1>3. QED
  BY <1>1, <1>2 DEF Inv, StreamInv

\* The next live event, when the replay is over: the same.
LEMMA LiveNext ==
    ASSUME Inv, NEW c \in Clients, WriteLive(c)
    PROVE  /\ Head(chan[c]) \in Nat
           /\ \A m \in Nat : after[c] < m /\ m < Head(chan[c]) => Excused(m)
<1>1. pc[c] = "stream" /\ replay[c] = <<>> /\ chan[c] # <<>> /\ chan[c] \in Seq(Nat) /\ Sent(c) \in Nat
  BY TypesInUse DEF WriteLive, Inv
<1>2. Head(chan[c]) = chan[c][1] /\ Head(chan[c]) \in Nat /\ 1 \in 1..Len(chan[c])
  BY <1>1, TakeFirst
<1>3. Head(chan[c]) <= Sent(c)
  BY <1>2 DEF Inv, ChanInv
<1>4. SUFFICES ASSUME NEW m \in Nat, after[c] < m, m < Head(chan[c])
               PROVE  Excused(m)
  BY <1>2
<1>5. Excused(m) \/ Has(replay[c], m) \/ Has(chan[c], m)
  <2>1. m <= Sent(c)
    BY <1>1, <1>2, <1>3, <1>4
  <2>2. QED
    BY <1>1, <1>4, <2>1 DEF Inv, StreamInv
<1>6. ~Has(replay[c], m)
  <2>1. Len(replay[c]) = 0 /\ 1..0 = {}
    BY <1>1
  <2>2. QED
    BY <2>1 DEF Has
<1>7. ~Has(chan[c], m)
  <2>1. \A k \in Nat : Has(chan[c], k) => Head(chan[c]) <= k
    BY <1>1, IncreasingTail DEF Inv, ChanInv
  <2>2. QED
    BY <1>2, <1>4, <2>1
<1>8. QED
  BY <1>5, <1>6, <1>7

\* The handler of a client keeps the account of its own stream.
LEMMA StreamStepOwn ==
    ASSUME Inv, Next, NEW c \in Clients, ClientStep(c)
    PROVE  StreamInv(c)'
<1>0. /\ TypeOK /\ HubInv /\ StreamInv(c) /\ Sent(c) \in Nat /\ after[c] \in Int /\ latest \in Nat /\ oldest \in Nat
      /\ chan[c] \in Seq(Nat) /\ replay[c] \in Seq(Nat) /\ received[c] \in Seq(Nat)
  BY TypesInUse DEF Inv
<1>1. UNCHANGED <<latest, oldest, relayed, up, queue, last, current, targets, lost>>
  BY <1>0, ClientFrame
<1>2. Sent(c)' = Sent(c) /\ \A m : Excused(m)' = Excused(m)
  BY <1>1 DEF Sent, Excused
<1>3. CASE RefuseCursor(c) \/ ClientLeaves(c) \/ CloseSubscription(c)
  <2>1. pc'[c] \in {"close", "idle"}
    BY <1>0, <1>3 DEF RefuseCursor, ClientLeaves, CloseSubscription, TypeOK
  <2>2. QED
    BY <2>1 DEF StreamInv
<1>4. CASE ClientStalls(c)
  <2>1. UNCHANGED <<pc, after, hasCursor, replay, received, chan>>
    BY <1>4 DEF ClientStalls
  <2>2. QED
    BY <1>0, <1>2, <2>1 DEF StreamInv, Consecutive, Has
<1>5. CASE \E cursor \in PresentedCursors(c) : Subscribe(c, cursor)
  <2>1. pc'[c] = "bounds" /\ (hasCursor'[c] => after'[c] >= 0)
    <3>1. PICK cursor \in PresentedCursors(c) : Subscribe(c, cursor)
      BY <1>5
    <3>2. pc'[c] = "bounds" /\ hasCursor'[c] = (cursor >= 0) /\ after'[c] = cursor
      BY <1>0, <3>1 DEF Subscribe, TypeOK
    <3>3. QED
      BY <3>2
  <2>2. QED
    BY <2>1 DEF StreamInv
<1>6. CASE ReadBounds(c)
  <2>1. StartAfter(c) \in Nat
    BY <1>6, StartAfterType DEF ReadBounds
  <2>2. PICK v \in Nat : v = StartAfter(c)
    BY <2>1
  <2>3. /\ pc'[c] = "query" /\ after'[c] = v
        /\ received'[c] = IF Resumes(c) THEN received[c] ELSE <<v>>
    BY <1>0, <1>6, <2>2 DEF ReadBounds, TypeOK
  <2>4. received'[c] # <<>> /\ Last(received'[c]) = v
    <3>1. CASE Resumes(c)
      BY <2>2, <2>3, <3>1 DEF Resumes, StartAfter
    <3>2. CASE ~Resumes(c)
      <4>1. Len(<<v>>) = 1 /\ <<v>>[1] = v /\ <<v>> # <<>>
        OBVIOUS
      <4>2. QED
        BY <2>3, <3>2, <4>1 DEF Last
    <3>3. QED
      BY <3>1, <3>2
  <2>5. QED
    BY <2>2, <2>3, <2>4 DEF StreamInv, Last
<1>7. CASE QueryEvents(c)
  <2>1. /\ pc[c] = "query" /\ pc'[c] = "stream" /\ after' = after /\ received' = received /\ chan' = chan
    BY <1>0, <1>7 DEF QueryEvents, TypeOK
  <2>2. after[c] >= 0 /\ received[c] # <<>> /\ after[c] = Last(received[c])
    BY <1>0, <2>1 DEF StreamInv
  <2>3. /\ Consecutive(replay'[c]) /\ ReplayFrom(c) \in Nat
        /\ replay'[c] # <<>> => replay'[c][1] = ReplayFrom(c)
        /\ \A m \in Nat : ReplayFrom(c) <= m /\ m <= latest => Has(replay'[c], m)
    BY <1>7, ReplayRun
  <2>4. /\ after[c] < ReplayFrom(c)
        /\ \A m \in Nat : after[c] < m /\ m < ReplayFrom(c) => Excused(m)
    BY <1>0, <2>2 DEF ReplayFrom, Excused
  <2>5. Sent(c) <= latest
    BY <1>0, TypesInUse DEF Inv, BridgeInv, Sent
  <2>6. ASSUME NEW m \in Nat, after[c] < m, m <= Sent(c)
        PROVE  Excused(m) \/ Has(replay'[c], m)
    <3>1. CASE m < ReplayFrom(c)
      BY <2>4, <2>6, <3>1
    <3>2. CASE ~(m < ReplayFrom(c))
      <4>1. ReplayFrom(c) <= m /\ m <= latest
        BY <1>0, <2>3, <2>5, <2>6, <3>2
      <4>2. QED
        BY <2>3, <4>1
    <3>3. QED
      BY <3>1, <3>2
  <2>7. QED
    BY <1>2, <2>1, <2>2, <2>3, <2>4, <2>6 DEF StreamInv, Consecutive, Has, Last
<1>8. CASE WriteReplay(c)
  <2>1. /\ pc[c] = "stream" /\ pc' = pc /\ chan' = chan /\ replay[c] # <<>> /\ replay'[c] = Tail(replay[c])
        /\ WriteEvent(c, Head(replay[c]))
    BY <1>0, <1>8 DEF WriteReplay, TypeOK
  <2>2. PICK h \in Nat : h = Head(replay[c]) /\ after[c] < h /\ \A m \in Nat : after[c] < m /\ m < h => Excused(m)
    BY <1>8, ReplayNext
  <2>3. after'[c] = h /\ received'[c] # <<>> /\ after'[c] = Last(received'[c])
    <3>1. WriteEvent(c, h)
      BY <2>1, <2>2
    <3>2. /\ after'[c] = IF h > after[c] THEN h ELSE after[c]
          /\ received'[c] # <<>> /\ after'[c] = Last(received'[c])
      BY <2>1, <2>2, <3>1, WriteStep
    <3>3. QED
      BY <1>0, <2>2, <3>2
  <2>4. /\ Consecutive(replay'[c])
        /\ replay'[c] # <<>> => replay'[c][1] = h + 1
    BY <1>0, <2>1, <2>2, ConsecutiveTail DEF StreamInv
  <2>5. ASSUME NEW m \in Nat, h < m, m <= Sent(c)
        PROVE  Excused(m) \/ Has(replay'[c], m) \/ Has(chan[c], m)
    <3>1. after[c] < m /\ m # h
      BY <1>0, <2>2, <2>5
    <3>2. Excused(m) \/ Has(replay[c], m) \/ Has(chan[c], m)
      BY <1>0, <2>1, <2>5, <3>1 DEF StreamInv
    <3>3. Has(replay[c], m) => Has(Tail(replay[c]), m)
      BY <1>0, <2>1, <2>2, <3>1, HasTail
    <3>4. QED
      BY <2>1, <3>2, <3>3
  <2>6. \A m \in Nat : ~(h < m /\ m < h + 1)
    OBVIOUS
  <2>7. replay'[c] # <<>> => /\ after'[c] < replay'[c][1]
                             /\ \A m \in Nat : ~(after'[c] < m /\ m < replay'[c][1])
    BY <2>3, <2>4, <2>6
  <2>8. QED
    BY <1>2, <2>1, <2>3, <2>4, <2>5, <2>7 DEF StreamInv, Consecutive, Has, Last
<1>9. CASE WriteLive(c)
  <2>1. /\ pc[c] = "stream" /\ pc' = pc /\ replay' = replay /\ chan[c] # <<>> /\ chan'[c] = Tail(chan[c])
        /\ WriteEvent(c, Head(chan[c])) /\ replay[c] = <<>>
    BY <1>0, <1>9 DEF WriteLive, TypeOK
  <2>2. PICK h \in Nat : h = Head(chan[c]) /\ \A m \in Nat : after[c] < m /\ m < h => Excused(m)
    BY <1>9, LiveNext
  <2>3. /\ after'[c] \in Nat /\ after[c] <= after'[c] /\ h <= after'[c]
        /\ received'[c] # <<>> /\ after'[c] = Last(received'[c])
    <3>1. WriteEvent(c, h)
      BY <2>1, <2>2
    <3>2. /\ after'[c] \in Nat /\ after'[c] = IF h > after[c] THEN h ELSE after[c]
          /\ received'[c] # <<>> /\ after'[c] = Last(received'[c])
      BY <2>1, <2>2, <3>1, WriteStep
    <3>3. QED
      BY <1>0, <2>2, <3>2
  <2>4. ASSUME NEW m \in Nat, after'[c] < m, m <= Sent(c)
        PROVE  Excused(m) \/ Has(replay[c], m) \/ Has(chan'[c], m)
    <3>1. after[c] < m /\ m # h
      BY <1>0, <2>2, <2>3, <2>4
    <3>2. Excused(m) \/ Has(replay[c], m) \/ Has(chan[c], m)
      BY <1>0, <2>1, <2>4, <3>1 DEF StreamInv
    <3>3. Has(chan[c], m) => Has(Tail(chan[c]), m)
      BY <1>0, <2>1, <2>2, <3>1, HasTail
    <3>4. QED
      BY <2>1, <3>2, <3>3
  <2>5. QED
    BY <1>0, <1>2, <2>1, <2>3, <2>4 DEF StreamInv, Consecutive, Has, Last
<1>10. QED
  BY <1>3, <1>4, <1>5, <1>6, <1>7, <1>8, <1>9 DEF ClientStep, HandlerStep

\* Every step keeps the account of every stream.
LEMMA StreamStep ==
    ASSUME Inv, Next, NEW c \in Clients
    PROVE  StreamInv(c)'
<1>1. CASE TableStep \/ BridgeStep \/ DropBridge
  BY <1>1, StreamStepBridge
<1>2. ASSUME NEW d \in Clients, ClientStep(d)
      PROVE  StreamInv(c)'
  <2>1. CASE d = c
    BY <1>2, <2>1, StreamStepOwn
  <2>2. CASE d # c
    <3>1. /\ UNCHANGED <<latest, oldest, relayed, up, queue, last, current, targets, lost>>
          /\ chan'[c] = chan[c] /\ pc'[c] = pc[c] /\ after'[c] = after[c] /\ hasCursor'[c] = hasCursor[c]
          /\ replay'[c] = replay[c] /\ received'[c] = received[c]
      BY <1>2, <2>2, ClientFrame DEF Inv
    <3>2. StreamInv(c)
      BY DEF Inv
    <3>3. QED
      BY <3>1, <3>2 DEF StreamInv, Consecutive, Has, Last, Excused, Sent
  <2>3. QED
    BY <2>1, <2>2
<1>3. QED
  BY <1>1, <1>2, NextSplit

\* What a client has got grows by the next event only, or starts anew.
LEMMA ReceivedStep ==
    ASSUME Inv, Next
    PROVE  StreamIncreasing' /\ GapsAreOutages'
<1> DEFINE Rising(c) == \A i \in 1..(Len(received[c]) - 1) : received[c][i] < received[c][i + 1]
           Whole(c) == \A i \in 1..(Len(received[c]) - 1) :
                          \A n \in (received[c][i] + 1)..(received[c][i + 1] - 1) : Excused(n)
<1>1. \A c \in Clients : Rising(c) /\ Whole(c) /\ received[c] \in Seq(Nat)
  BY TypesInUse DEF Inv, StreamIncreasing, GapsAreOutages, Excused
<1>2. SUFFICES ASSUME NEW c \in Clients
               PROVE  Rising(c)' /\ Whole(c)'
  BY DEF StreamIncreasing, GapsAreOutages, Excused
<1>3. ASSUME received'[c] = received[c]
      PROVE  Rising(c)' /\ Whole(c)'
  <2>1. ASSUME NEW i \in 1..(Len(received[c]) - 1), NEW n \in (received[c][i] + 1)..(received[c][i + 1] - 1)
        PROVE  Excused(n)'
    <3>1. received[c][i] \in Nat
      <4>1. i \in 1..Len(received[c])
        BY <1>1
      <4>2. QED
        BY <1>1, <4>1
    <3>2. n \in Nat
      BY <2>1, <3>1
    <3>3. Excused(n)
      BY <1>1, <2>1
    <3>4. QED
      BY <3>2, <3>3, ExcusedStays
  <2>2. QED
    BY <1>1, <1>3, <2>1
<1>4. ASSUME received'[c] = <<>> \/ \E v : received'[c] = <<v>>
      PROVE  Rising(c)' /\ Whole(c)'
  <2>1. Len(received'[c]) = 0 \/ Len(received'[c]) = 1
    <3>1. CASE received'[c] = <<>>
      BY <3>1
    <3>2. CASE \E v : received'[c] = <<v>>
      <4>1. PICK v : received'[c] = <<v>>
        BY <3>2
      <4>2. Len(<<v>>) = 1
        OBVIOUS
      <4>3. QED
        BY <4>1, <4>2
    <3>3. QED
      BY <1>4, <3>1, <3>2
  <2>2. 1..(Len(received'[c]) - 1) = {}
    <3>1. 1..(0 - 1) = {} /\ 1..(1 - 1) = {}
      OBVIOUS
    <3>2. QED
      BY <2>1, <3>1
  <2>3. QED
    BY <2>2
<1>5. ASSUME NEW n \in Nat, pc[c] = "stream", WriteEvent(c, n), ClientStep(c),
             \A m \in Nat : after[c] < m /\ m < n => Excused(m)
      PROVE  Rising(c)' /\ Whole(c)'
  <2>1. /\ \A i \in 1..(Len(received'[c]) - 1) : received'[c][i] < received'[c][i + 1]
        /\ \A i \in 1..(Len(received'[c]) - 1) :
              \A k \in (received'[c][i] + 1)..(received'[c][i + 1] - 1) : k \in {m \in Int : Excused(m)}
    BY <1>5, WriteStep
  <2>2. \A m : Excused(m)' = Excused(m)
    BY <1>5, ClientFrame DEF Inv, Excused
  <2>3. QED
    BY <2>1, <2>2
<1>6. CASE TableStep \/ BridgeStep \/ DropBridge
  BY <1>3, <1>6, BridgeFrame
<1>7. ASSUME NEW d \in Clients, ClientStep(d)
      PROVE  Rising(c)' /\ Whole(c)'
  <2>1. CASE d # c
    BY <1>3, <1>7, <2>1, ClientFrame DEF Inv
  <2>2. CASE d = c
    <3>1. ClientStep(c) /\ TypeOK
      BY <1>7, <2>2 DEF Inv
    <3>2. CASE WriteReplay(c)
      <4>1. pc[c] = "stream" /\ WriteEvent(c, Head(replay[c]))
        BY <3>2 DEF WriteReplay
      <4>2. QED
        BY <1>5, <3>1, <3>2, <4>1, ReplayNext
    <3>3. CASE WriteLive(c)
      <4>1. pc[c] = "stream" /\ WriteEvent(c, Head(chan[c]))
        BY <3>3 DEF WriteLive
      <4>2. QED
        BY <1>5, <3>1, <3>3, <4>1, LiveNext
    <3>4. CASE ReadBounds(c)
      <4>1. received'[c] = received[c] \/ received'[c] = <<StartAfter(c)>>
        BY <3>1, <3>4 DEF ReadBounds, TypeOK
      <4>2. QED
        BY <1>3, <1>4, <4>1
    <3>5. CASE RefuseCursor(c)
      <4>1. received'[c] = <<>>
        BY <3>1, <3>5 DEF RefuseCursor, TypeOK
      <4>2. QED
        BY <1>4, <4>1
    <3>6. CASE \/ QueryEvents(c) \/ CloseSubscription(c) \/ ClientLeaves(c) \/ ClientStalls(c)
               \/ \E cursor \in PresentedCursors(c) : Subscribe(c, cursor)
      <4>1. received' = received
        BY <3>6 DEF QueryEvents, CloseSubscription, ClientLeaves, ClientStalls, Subscribe
      <4>2. QED
        BY <1>3, <4>1
    <3>7. QED
      BY <3>1, <3>2, <3>3, <3>4, <3>5, <3>6 DEF ClientStep, HandlerStep
  <2>3. QED
    BY <2>1, <2>2
<1>8. QED
  BY <1>6, <1>7, NextSplit

-----------------------------------------------------------------------------
(* The theorems.                                                           *)

\* Inv holds in every state.
LEMMA InvInvariant == Spec => []Inv
<1>1. ASSUME Init
      PROVE  Inv
  <2> USE <1>1, StreamAssumption DEF StreamAssumption
  <2>1. <<>> \in Seq(1..MaxSeq) /\ <<>> \in Seq(Nat) /\ Len(<<>>) = 0 /\ 1..0 = {}
    BY EmptySeq
  <2>2. /\ chan \in [Clients -> Seq(1..MaxSeq)] /\ replay \in [Clients -> Seq(1..MaxSeq)]
        /\ received \in [Clients -> Seq(Nat)] /\ queue \in Seq(1..MaxSeq)
    BY <2>1 DEF Init
  <2>3. TypeOK
    <3>1. /\ pc \in [Clients -> {"idle", "bounds", "query", "stream", "close"}]
          /\ after \in [Clients -> Nat \cup {NoCursor}]
          /\ hasCursor \in [Clients -> BOOLEAN] /\ stalled \in [Clients -> BOOLEAN]
      BY DEF Init
    <3>2. 0 \in 0..MaxSeq /\ 1 \in 1..(MaxSeq + 1)
      OBVIOUS
    <3>3. /\ latest \in 0..MaxSeq /\ oldest \in 1..(MaxSeq + 1) /\ relayed \in 0..MaxSeq /\ last \in 0..MaxSeq
          /\ current \in 0..MaxSeq /\ up \in BOOLEAN /\ targets \subseteq Clients /\ subs \subseteq Clients
      BY <3>2, Zenon DEF Init
    <3>4. QED
      BY <2>2, <3>1, <3>3, Zenon DEF TypeOK
  <2>4. HubInv
    BY <2>1 DEF Init, HubInv, ChannelsBelongToSubscribers
  <2>5. BridgeInv
    BY <2>1 DEF Init, BridgeInv, InTurn, Has
  <2>6. ASSUME NEW c \in Clients
        PROVE  ChanInv(c) /\ StreamInv(c)
    <3>1. Len(chan[c]) = 0 /\ pc[c] = "idle"
      BY <2>1 DEF Init
    <3>2. QED
      BY <2>1, <3>1 DEF ChanInv, StreamInv, Increasing
  <2>7. StreamIncreasing /\ GapsAreOutages
    <3>1. \A c \in Clients : Len(received[c]) = 0
      BY <2>1 DEF Init
    <3>2. 1..(0 - 1) = {}
      OBVIOUS
    <3>3. QED
      BY <3>1, <3>2 DEF StreamIncreasing, GapsAreOutages
  <2>8. QED
    BY <2>3, <2>4, <2>5, <2>6, <2>7 DEF Inv
<1>2. ASSUME Inv, Next
      PROVE  Inv'
  <2>1. TypeOK'
    <3>1. CASE TableStep \/ BridgeStep \/ DropBridge
      BY <1>2, <3>1, TypeStepBridge DEF TableStep
    <3>2. CASE \E c \in Clients : ClientStep(c)
      BY <1>2, <3>2, TypeStepClient DEF ClientStep
    <3>3. QED
      BY <1>2, <3>1, <3>2, NextSplit
  <2>2. QED
    BY <1>2, <2>1, HubStep, BridgeInvStep, ChanStep, StreamStep, ReceivedStep DEF Inv
<1>3. ASSUME Inv, UNCHANGED vars
      PROVE  Inv'
  BY <1>3 DEF vars, Inv, TypeOK, HubInv, ChannelsBelongToSubscribers, BridgeInv, Forwarded, ChanInv, StreamInv,
              StreamIncreasing, GapsAreOutages, Excused, Sent, Has, InTurn, Increasing, Consecutive, Last
<1>4. QED
  BY <1>1, <1>2, <1>3, PTL DEF Spec

\* Only numbers of events that exist travel through queue, channels and
\* replays.
THEOREM TypeCorrect == Spec => []TypeOK
BY InvInvariant, PTL DEF Inv

\* A channel never exceeds its capacity, and only a subscriber's channel holds
\* or is sent events.
THEOREM ChannelsBelongAlways == Spec => []ChannelsBelongToSubscribers
<1>1. Inv => ChannelsBelongToSubscribers
  BY DEF Inv, HubInv
<1>2. QED
  BY <1>1, InvInvariant, PTL

\* A client sees each event at most once and in order.
THEOREM StreamIncreasingAlways == Spec => []StreamIncreasing
<1>1. Inv => StreamIncreasing
  BY DEF Inv
<1>2. QED
  BY <1>1, InvInvariant, PTL

\* A hole in a stream consists of events that expired, or that were relayed
\* while the bridge had no queue or died with it.
THEOREM GapsAreOutagesAlways == Spec => []GapsAreOutages
<1>1. Inv => GapsAreOutages
  BY DEF Inv
<1>2. QED
  BY <1>1, InvInvariant, PTL
=============================================================================
