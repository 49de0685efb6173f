------------------------- MODULE OutboxRelayProofs -------------------------
(***************************************************************************)
(* Proofs about OutboxRelay, for any number of workers, tasks, rows, claim *)
(* sizes and failures: first publications respect the order of each task,  *)
(* published_at is set only after the exchange has the event, and a claim  *)
(* is ended only by its owner or after its lease.                          *)
(*                                                                         *)
(* SentInOrder is not inductive.  It rests on HeldIsNext: what a relay has *)
(* in hand, even one that has lost its lock and its lease, was claimed     *)
(* when everything before it was published, and published_at is never      *)
(* cleared.  HeldIsNext in turn needs that a row appended later is never   *)
(* an earlier event of its task, which Numbered says.                      *)
(***************************************************************************)
EXTENDS OutboxRelay, FiniteSetTheorems, TLAPS

-----------------------------------------------------------------------------
(* The inductive invariant.                                                *)

\* The rows of the task of row i.
SameTask(i) == {j \in Ids : outbox[j].task = outbox[i].task}

\* The number of an event does not exceed the number of events of its task.
Numbered == \A i \in Ids : outbox[i].seq <= Cardinality(SameTask(i))

\* A relay that is about to mark a row has that row in hand, and a relay that
\* will mark it published has seen the broker's confirm for it.
MarksWhatItSent ==
    \A w \in Workers :
        /\ pc[w] \in {"mark", "markFailed"} => todo[w] # {}
        /\ pc[w] = "mark" => First(w) \in sent

Inv ==
    /\ TypeOK
    /\ Numbered
    /\ HeldIsNext
    /\ MarksWhatItSent
    /\ PublishedWasSent
    /\ SentInOrder

-----------------------------------------------------------------------------
(* The operators of the model.                                             *)

\* A nonempty finite set of numbers has a least element.
LEMMA LeastElement ==
    ASSUME NEW S \in SUBSET Nat, IsFiniteSet(S), S # {}
    PROVE  /\ Min(S) \in S
           /\ \A y \in S : Min(S) <= y
<1> DEFINE Below(x) == {y \in S : y < x}
           Family == {Below(x) : x \in S}
<1>1. IsWellFoundedOn(StrictSubsetOrdering(S), SUBSET S)
  BY FS_StrictSubsetOrderingWellFounded, FS_FiniteSubsetsOfFinite
<1>2. Family \subseteq SUBSET S /\ Family # {}
  OBVIOUS
<1> HIDE DEF Family
<1>3. PICK U \in Family : \A V \in Family : ~(<<V, U>> \in StrictSubsetOrdering(S))
  BY <1>1, <1>2, WFMin
<1>4. PICK x \in S : U = Below(x)
  BY <1>3 DEF Family
<1>5. ASSUME NEW y \in S, y < x
      PROVE  FALSE
  <2>1. Below(y) \in Family
    BY DEF Family
  <2>2. Below(y) \subseteq U /\ y \in U /\ y \notin Below(y)
    <3>1. \A z \in S : z \in Nat
      OBVIOUS
    <3>2. \A z \in S : z < y => z < x
      BY <3>1, <1>5
    <3>3. Below(y) \subseteq Below(x)
      BY <3>2
    <3>4. y \in Below(x)
      BY <1>5
    <3>5. y \notin Below(y)
      BY <3>1
    <3>6. QED
      BY <3>3, <3>4, <3>5, <1>4
  <2>3. <<Below(y), U>> \in StrictSubsetOrdering(S)
    BY <2>1, <2>2, <1>2, <1>3 DEF StrictSubsetOrdering
  <2>4. QED
    BY <2>1, <2>3, <1>3
<1>6. \A y \in S : x <= y
  BY <1>5
<1>7. QED
  BY <1>6 DEF Min

\* The first row in hand is in hand.
LEMMA FirstInHand ==
    ASSUME TypeOK, NEW w \in Workers, todo[w] # {}
    PROVE  First(w) \in todo[w] /\ First(w) \in Ids
<1>1. todo[w] \in SUBSET Ids /\ Ids \subseteq Nat /\ Len(outbox) \in Nat
  BY DEF TypeOK, Ids
<1>2. IsFiniteSet(todo[w])
  <2>1. IsFiniteSet(1..Len(outbox))
    BY <1>1, FS_Interval
  <2>2. QED
    BY <1>1, <2>1, FS_Subset DEF Ids
<1>3. QED
  BY <1>1, <1>2, LeastElement DEF First

\* There is always a token that no row and no relay has: newClaimToken draws
\* a random uuid.
LEMMA NewTokenIsFresh ==
    ASSUME TypeOK
    PROVE  /\ NewToken \in Tokens
           /\ \A i \in 1..MaxEvents : token[i] # NewToken
           /\ \A w \in Workers : claim[w] # NewToken
<1> USE RelayAssumption
<1> DEFINE OfRows == {token[i] : i \in 1..MaxEvents}
           OfRelays == {claim[w] : w \in Workers}
<1>1. IsFiniteSet(OfRows) /\ Cardinality(OfRows) <= MaxEvents
  <2>1. IsFiniteSet(1..MaxEvents) /\ Cardinality(1..MaxEvents) <= MaxEvents
    BY FS_Interval
  <2>2. token \in Surjection(1..MaxEvents, OfRows)
    BY DEF TypeOK, Surjection
  <2>3. IsFiniteSet(OfRows) /\ Cardinality(OfRows) <= Cardinality(1..MaxEvents)
    BY <2>1, <2>2, FS_Surjection
  <2>4. QED
    BY <2>1, <2>3, FS_CardinalityType
<1>2. IsFiniteSet(OfRelays) /\ Cardinality(OfRelays) <= Cardinality(Workers)
  <2>1. claim \in Surjection(Workers, OfRelays)
    BY DEF TypeOK, Surjection
  <2>2. QED
    BY <2>1, FS_Surjection
<1> HIDE DEF OfRows, OfRelays
<1>3. /\ IsFiniteSet(OfRows \cup OfRelays)
      /\ Cardinality(OfRows \cup OfRelays) <= MaxEvents + Cardinality(Workers)
  <2>1. /\ IsFiniteSet(OfRows \cup OfRelays)
        /\ Cardinality(OfRows \cup OfRelays)
              = Cardinality(OfRows) + Cardinality(OfRelays) - Cardinality(OfRows \cap OfRelays)
    BY <1>1, <1>2, FS_Union
  <2>2. IsFiniteSet(OfRows \cap OfRelays)
    BY <1>1, FS_Intersection
  <2>3. /\ Cardinality(OfRows) \in Nat /\ Cardinality(OfRelays) \in Nat
        /\ Cardinality(OfRows \cap OfRelays) \in Nat
        /\ Cardinality(Workers) \in Nat
    BY <1>1, <1>2, <2>2, FS_CardinalityType
  <2>4. QED
    BY <1>1, <1>2, <2>1, <2>3
<1>4. PICK t \in Tokens : t \notin OfRows \cup OfRelays
  <2>1. SUFFICES ASSUME Tokens \subseteq OfRows \cup OfRelays
                 PROVE  FALSE
    OBVIOUS
  <2>2. IsFiniteSet(Tokens) /\ Cardinality(Tokens) <= Cardinality(OfRows \cup OfRelays)
    BY <2>1, <1>3, FS_Subset
  <2>3. /\ Cardinality(Tokens) \in Nat /\ Cardinality(OfRows \cup OfRelays) \in Nat
        /\ Cardinality(Workers) \in Nat
    BY <1>3, <2>2, FS_CardinalityType
  <2>4. QED
    BY <1>3, <2>2, <2>3
<1>5. /\ \A i \in 1..MaxEvents : token[i] # t
      /\ \A w \in Workers : claim[w] # t
  BY <1>4 DEF OfRows, OfRelays
<1>6. QED
  BY <1>5 DEF NewToken

-----------------------------------------------------------------------------
(* What a step does to the rows, and types.                                *)

\* Well-formed rows: the part of TypeOK that speaks of metric_outbox.
RowsOK ==
    /\ outbox \in Seq([task : Tasks, seq : Nat])
    /\ Len(outbox) <= MaxEvents
    /\ published \subseteq Ids
    /\ token \in [1..MaxEvents -> Tokens \cup {None}]
    /\ leased \subseteq Ids
    /\ delayed \subseteq Ids
    /\ \A i \in published : token[i] = None /\ i \notin leased

\* Marking or releasing a row that is there leaves well-formed rows.
LEMMA MarkRows ==
    ASSUME TypeOK, NEW w \in Workers, NEW i \in Ids,
           MarkPublishedRow(w, i) \/ MarkFailedRow(w, i) \/ ReleaseClaimRow(w, i) \/ UNCHANGED rows
    PROVE  RowsOK' /\ outbox' = outbox
<1>1. Ids \subseteq 1..MaxEvents
  BY RelayAssumption DEF TypeOK, Ids
<1>2. CASE UNCHANGED rows
  BY <1>2 DEF TypeOK, RowsOK, rows, Ids
<1>3. CASE Owns(w, i) /\ MarkPublishedRow(w, i)
  <2>1. /\ outbox' = outbox
        /\ published' = published \cup {i}
        /\ delayed' = delayed
        /\ token' = [token EXCEPT ![i] = None]
        /\ leased' = leased \ {i}
    BY <1>3 DEF MarkPublishedRow, Unclaim
  <2>2. Ids' = Ids
    BY <2>1 DEF Ids
  <2>3. token' \in [1..MaxEvents -> Tokens \cup {None}]
    BY <2>1 DEF TypeOK
  <2>4. \A j \in published' : token'[j] = None /\ j \notin leased'
    BY <1>1, <2>1 DEF TypeOK
  <2>5. QED
    BY <2>1, <2>2, <2>3, <2>4 DEF TypeOK, RowsOK
<1>4. CASE Owns(w, i) /\ MarkFailedRow(w, i)
  <2>1. /\ outbox' = outbox
        /\ published' = published
        /\ delayed' = delayed \cup {i}
        /\ token' = [token EXCEPT ![i] = None]
        /\ leased' = leased \ {i}
    BY <1>4 DEF MarkFailedRow, Unclaim
  <2>2. Ids' = Ids
    BY <2>1 DEF Ids
  <2>3. token' \in [1..MaxEvents -> Tokens \cup {None}]
    BY <2>1 DEF TypeOK
  <2>4. \A j \in published' : token'[j] = None /\ j \notin leased'
    BY <1>1, <2>1 DEF TypeOK
  <2>5. QED
    BY <2>1, <2>2, <2>3, <2>4 DEF TypeOK, RowsOK
<1>5. CASE Owns(w, i) /\ ReleaseClaimRow(w, i)
  <2>1. /\ outbox' = outbox
        /\ published' = published
        /\ delayed' = delayed
        /\ token' = [token EXCEPT ![i] = None]
        /\ leased' = leased \ {i}
    BY <1>5 DEF ReleaseClaimRow, Unclaim
  <2>2. Ids' = Ids
    BY <2>1 DEF Ids
  <2>3. token' \in [1..MaxEvents -> Tokens \cup {None}]
    BY <2>1 DEF TypeOK
  <2>4. \A j \in published' : token'[j] = None /\ j \notin leased'
    BY <1>1, <2>1 DEF TypeOK
  <2>5. QED
    BY <2>1, <2>2, <2>3, <2>4 DEF TypeOK, RowsOK
<1> QED
  BY <1>2, <1>3, <1>4, <1>5 DEF MarkPublishedRow, MarkFailedRow, ReleaseClaimRow

\* So does a claim.
LEMMA ClaimRowsOK ==
    ASSUME TypeOK, ClaimRows
    PROVE  RowsOK' /\ outbox' = outbox
<1>1. Claimable \subseteq Ids \ published
  BY DEF Claimable, Candidates
<1>2. token' \in [1..MaxEvents -> Tokens \cup {None}]
  BY NewTokenIsFresh DEF ClaimRows, TypeOK
<1>3. Ids \subseteq 1..MaxEvents
  BY RelayAssumption DEF TypeOK, Ids
<1>4. QED
  BY <1>1, <1>2, <1>3 DEF ClaimRows, TypeOK, RowsOK, Ids

\* The first row in hand when it is marked.
LEMMA MarksFirst ==
    ASSUME TypeOK, MarksWhatItSent, NEW w \in Workers, pc[w] \in {"mark", "markFailed"}
    PROVE  First(w) \in todo[w] /\ First(w) \in Ids
<1>1. todo[w] # {}
  BY DEF MarksWhatItSent
<1>2. QED
  BY <1>1, FirstInHand

\* Every step of a relay keeps the types.
LEMMA RelayStepType ==
    ASSUME TypeOK, MarksWhatItSent, NEW w \in Workers, RelayStep(w) \/ Crash(w)
    PROVE  TypeOK' /\ outbox' = outbox
<1> USE RelayAssumption
<1>a. CASE TryAcquireLeader(w)
  BY <1>a DEF TypeOK, Ids, rows, TryAcquireLeader
<1>b. CASE Release(w)
  BY <1>b DEF TypeOK, Ids, rows, Release
<1>c. CASE Claim(w)
  <2>1. RowsOK' /\ outbox' = outbox
    BY <1>c, ClaimRowsOK DEF Claim
  <2>2. NewToken \in Tokens /\ Claimable \subseteq Ids
    BY NewTokenIsFresh DEF Claimable, Candidates
  <2>3. QED
    BY <1>c, <2>1, <2>2 DEF TypeOK, RowsOK, Ids, Claim
<1>d. CASE ClaimFails(w)
  <2>1. RowsOK' /\ outbox' = outbox
    BY <1>d, ClaimRowsOK DEF ClaimFails, TypeOK, RowsOK, rows, Ids
  <2>2. QED
    BY <1>d, <2>1 DEF TypeOK, RowsOK, Ids, ClaimFails, Fault
<1>e. CASE Publish(w)
  BY <1>e, FirstInHand DEF TypeOK, Ids, rows, Publish
<1>f. CASE PublishFails(w)
  <2>1. First(w) \in Ids
    BY <1>f, FirstInHand DEF PublishFails
  <2>2. sent' \subseteq Ids
    BY <1>f, <2>1 DEF TypeOK, PublishFails
  <2>3. faults' \in 0..MaxFaults
    BY <1>f DEF TypeOK, PublishFails, Fault
  <2>4. QED
    BY <1>f, <2>2, <2>3 DEF TypeOK, Ids, rows, PublishFails
<1>g. CASE MarkPublished(w)
  <2>1. RowsOK' /\ outbox' = outbox
    BY <1>g, MarksFirst, MarkRows DEF MarkPublished
  <2>2. QED
    BY <1>g, <2>1 DEF TypeOK, RowsOK, Ids, MarkPublished
<1>h. CASE MarkFailed(w)
  <2>1. RowsOK' /\ outbox' = outbox
    BY <1>h, MarksFirst, MarkRows DEF MarkFailed
  <2>2. QED
    BY <1>h, <2>1 DEF TypeOK, RowsOK, Ids, MarkFailed
<1>i. CASE MarkErrs(w)
  <2>1. RowsOK' /\ outbox' = outbox
    BY <1>i, MarksFirst, MarkRows DEF MarkErrs
  <2>2. QED
    BY <1>i, <2>1 DEF TypeOK, RowsOK, Ids, MarkErrs, Fault
<1>j. CASE ReleaseClaim(w)
  <2>1. RowsOK' /\ outbox' = outbox
    BY <1>j, FirstInHand, MarkRows DEF ReleaseClaim
  <2>2. faults' \in 0..MaxFaults
    BY <1>j DEF ReleaseClaim, Fault, TypeOK
  <2>3. QED
    BY <1>j, <2>1, <2>2 DEF TypeOK, RowsOK, Ids, ReleaseClaim
<1>k. CASE ReleaseDone(w)
  BY <1>k DEF TypeOK, Ids, rows, ReleaseDone
<1>l. CASE BatchDone(w)
  BY <1>l DEF TypeOK, Ids, rows, BatchDone
<1>m. CASE Crash(w)
  BY <1>m DEF TypeOK, Ids, rows, Crash, Fault
<1> QED
  BY <1>a, <1>b, <1>c, <1>d, <1>e, <1>f, <1>g, <1>h, <1>i, <1>j, <1>k, <1>l, <1>m DEF RelayStep

\* An appended row is a new one, and the old ones stay.
LEMMA AppendRow ==
    ASSUME TypeOK, NEW t \in Tasks, AppendEvent(t)
    PROVE  /\ outbox' \in Seq([task : Tasks, seq : Nat])
           /\ Len(outbox') = Len(outbox) + 1
           /\ Ids' = Ids \cup {Len(outbox) + 1}
           /\ Len(outbox) + 1 \notin Ids
           /\ \A i \in Ids : outbox'[i] = outbox[i]
           /\ outbox'[Len(outbox) + 1].task = t
           /\ outbox'[Len(outbox) + 1].seq = Cardinality({j \in Ids : outbox[j].task = t}) + 1
<1>1. Len(outbox) \in Nat
  BY DEF TypeOK
<1>2. IsFiniteSet({j \in Ids : outbox[j].task = t})
  <2>1. IsFiniteSet(Ids)
    BY <1>1, FS_Interval DEF Ids
  <2>2. QED
    BY <2>1, FS_Subset
<1>3. Cardinality({j \in Ids : outbox[j].task = t}) \in Nat
  BY <1>2, FS_CardinalityType
<1> DEFINE n == Cardinality({j \in Ids : outbox[j].task = t})
<1> HIDE DEF n
<1>4. outbox' = Append(outbox, [task |-> t, seq |-> n + 1]) /\ n \in Nat
  BY <1>3 DEF AppendEvent, n
<1>5. [task |-> t, seq |-> n + 1] \in [task : Tasks, seq : Nat]
  BY <1>4
<1>6. QED
  BY <1>1, <1>4, <1>5 DEF TypeOK, Ids, n

\* Every step keeps the types.
LEMMA TypeStep ==
    ASSUME TypeOK, MarksWhatItSent, [Next]_vars
    PROVE  TypeOK'
<1> USE RelayAssumption
<1>1. ASSUME NEW t \in Tasks, AppendEvent(t)
      PROVE  TypeOK'
  <2>1. Len(outbox') <= MaxEvents
    BY <1>1, AppendRow DEF AppendEvent, TypeOK
  <2>2. Ids \subseteq Ids'
    BY <1>1, AppendRow
  <2>3. QED
    BY <1>1, <2>1, <2>2, AppendRow DEF AppendEvent, TypeOK
<1>2. ASSUME NEW i \in 1..MaxEvents, LeaseExpires(i) \/ RetryDue(i)
      PROVE  TypeOK'
  BY <1>2 DEF TypeOK, Ids, LeaseExpires, RetryDue
<1>3. ASSUME NEW w \in Workers, RelayStep(w) \/ Crash(w)
      PROVE  TypeOK'
  BY <1>3, RelayStepType
<1>4. CASE LoseLock
  BY <1>4 DEF TypeOK, Ids, rows, LoseLock, Fault
<1>5. CASE UNCHANGED vars
  BY <1>5 DEF TypeOK, Ids, vars
<1>6. QED
  BY <1>1, <1>2, <1>3, <1>4, <1>5 DEF Next

-----------------------------------------------------------------------------
(* The rows of a task.                                                     *)

\* A step appends a row or leaves the outbox as it is.
LEMMA OutboxStep ==
    ASSUME TypeOK, MarksWhatItSent, [Next]_vars
    PROVE  outbox' = outbox \/ \E t \in Tasks : AppendEvent(t)
<1>1. ASSUME NEW w \in Workers, RelayStep(w) \/ Crash(w)
      PROVE  outbox' = outbox
  BY <1>1, RelayStepType
<1>2. QED
  BY <1>1 DEF Next, LeaseExpires, RetryDue, LoseLock, rows, vars

\* The rows of a task are finitely many, and events have numbers.
LEMMA SameTaskFinite ==
    ASSUME TypeOK, NEW t
    PROVE  /\ IsFiniteSet({j \in Ids : outbox[j].task = t})
           /\ Cardinality({j \in Ids : outbox[j].task = t}) \in Nat
           /\ \A i \in Ids : outbox[i].seq \in Nat
<1>1. \A i \in Ids : outbox[i].seq \in Nat
  <2> DEFINE Rows == [task : Tasks, seq : Nat]
  <2>1. outbox \in Seq(Rows)
    BY DEF TypeOK
  <2> HIDE DEF Rows
  <2>2. \A i \in Ids : outbox[i] \in Rows
    BY <2>1 DEF Ids
  <2>3. QED
    BY <2>2 DEF Rows
<1>2. IsFiniteSet(Ids)
  <2>1. Len(outbox) \in Nat
    BY DEF TypeOK
  <2>2. QED
    BY <2>1, FS_Interval DEF Ids
<1>3. IsFiniteSet({j \in Ids : outbox[j].task = t})
  BY <1>2, FS_Subset
<1>4. QED
  BY <1>1, <1>3, FS_CardinalityType

\* The numbering is kept.
LEMMA NumberedStep ==
    ASSUME Inv, [Next]_vars
    PROVE  Numbered'
<1>1. CASE outbox' = outbox
  BY <1>1 DEF Inv, Numbered, SameTask, Ids
<1>2. ASSUME NEW t \in Tasks, AppendEvent(t), NEW i \in Ids'
      PROVE  outbox'[i].seq <= Cardinality(SameTask(i)')
  <2> DEFINE n == Len(outbox) + 1
             old(u) == {j \in Ids : outbox[j].task = u}
  <2>1. /\ Ids' = Ids \cup {n}
        /\ n \notin Ids
        /\ \A j \in Ids : outbox'[j] = outbox[j]
        /\ outbox'[n].task = t
        /\ outbox'[n].seq = Cardinality(old(t)) + 1
    BY <1>2, AppendRow DEF Inv
  <2> HIDE DEF n
  <2>2. \A u : IsFiniteSet(old(u)) /\ Cardinality(old(u)) \in Nat
    BY SameTaskFinite DEF Inv
  <2> DEFINE O == old(t)
  <2>3. CASE outbox'[i].task = t
    <3>1. SameTask(i)' = old(t) \cup {n}
      BY <2>1, <2>3 DEF SameTask
    <3>2. n \notin old(t)
      BY <2>1
    <3>3. IsFiniteSet(O) /\ n \notin O /\ Cardinality(O) \in Nat
      BY <2>2, <3>2
    <3> HIDE DEF O
    <3>4. Cardinality(O \cup {n}) = Cardinality(O) + 1
      BY <3>3, FS_AddElement
    <3>5. Cardinality(SameTask(i)') = Cardinality(O) + 1
      BY <3>1, <3>4 DEF O
    <3>6. CASE i = n
      BY <3>3, <3>5, <3>6, <2>1 DEF O
    <3>7. CASE i \in Ids
      <4>1. outbox'[i] = outbox[i] /\ SameTask(i) = O
        BY <3>7, <2>1, <2>3 DEF SameTask, O
      <4>2. outbox[i].seq <= Cardinality(O)
        BY <4>1, <3>7 DEF Inv, Numbered
      <4>3. outbox[i].seq \in Nat
        BY <3>7, SameTaskFinite DEF Inv
      <4>4. QED
        BY <4>1, <4>2, <4>3, <3>3, <3>5
    <3>8. QED
      BY <3>6, <3>7, <2>1
  <2>4. CASE outbox'[i].task # t
    <3>1. i \in Ids /\ outbox'[i] = outbox[i]
      BY <2>1, <2>4
    <3>2. SameTask(i)' = SameTask(i)
      BY <2>1, <2>4, <3>1 DEF SameTask
    <3>3. QED
      BY <3>1, <3>2 DEF Inv, Numbered
  <2>5. QED
    BY <2>3, <2>4
<1>3. QED
  BY <1>1, <1>2, OutboxStep DEF Inv, Numbered

\* A step never puts a row before one that is already there: a flush commits
\* the next event of its task.
LEMMA PreviousKept ==
    ASSUME TypeOK, Numbered, MarksWhatItSent, [Next]_vars, NEW i \in Ids
    PROVE  Previous(i)' = Previous(i)
<1>1. CASE outbox' = outbox
  BY <1>1 DEF Previous, Ids
<1>2. ASSUME NEW t \in Tasks, AppendEvent(t)
      PROVE  Previous(i)' = Previous(i)
  <2> DEFINE n == Len(outbox) + 1
  <2>1. /\ Ids' = Ids \cup {n}
        /\ n \notin Ids
        /\ \A j \in Ids : outbox'[j] = outbox[j]
        /\ outbox'[n].task = t
        /\ outbox'[n].seq = Cardinality({j \in Ids : outbox[j].task = t}) + 1
    BY <1>2, AppendRow
  <2> HIDE DEF n
  <2>2. n \notin Previous(i)'
    <3>1. SUFFICES ASSUME outbox[i].task = t
                   PROVE  ~(outbox'[n].seq < outbox[i].seq)
      BY <2>1 DEF Previous
    <3>2. outbox[i].seq <= Cardinality({j \in Ids : outbox[j].task = t})
      BY <3>1 DEF Numbered, SameTask
    <3>3. /\ outbox[i].seq \in Nat
          /\ Cardinality({j \in Ids : outbox[j].task = t}) \in Nat
      BY SameTaskFinite
    <3>4. QED
      BY <2>1, <3>2, <3>3
  <2>3. QED
    BY <2>1, <2>2 DEF Previous
<1>3. QED
  BY <1>1, <1>2, OutboxStep

-----------------------------------------------------------------------------
(* What a step does to published_at, to the exchange and to what is in     *)
(* hand.                                                                   *)

\* What a step may do to published, sent and todo.
LEMMA Monotone ==
    ASSUME TypeOK, MarksWhatItSent, [Next]_vars
    PROVE  /\ published \subseteq published'
           /\ sent \subseteq sent'
           /\ \A w \in Workers : todo'[w] \subseteq todo[w] \/ todo'[w] \subseteq Claimable
<1> USE DEF TypeOK
<1>1. ASSUME NEW w \in Workers, RelayStep(w)
      PROVE  /\ published \subseteq published'
             /\ sent \subseteq sent'
             /\ \A v \in Workers : todo'[v] \subseteq todo[v] \/ todo'[v] \subseteq Claimable
  <2>1. published \subseteq published'
    BY <1>1 DEF RelayStep, TryAcquireLeader, Release, Claim, ClaimFails, ClaimRows, Publish,
                PublishFails, MarkPublished, MarkFailed, MarkErrs, ReleaseClaim, ReleaseDone,
                BatchDone, MarkPublishedRow, MarkFailedRow, ReleaseClaimRow, rows
  <2>2. sent \subseteq sent'
    BY <1>1 DEF RelayStep, TryAcquireLeader, Release, Claim, ClaimFails, Publish,
                PublishFails, MarkPublished, MarkFailed, MarkErrs, ReleaseClaim, ReleaseDone,
                BatchDone
  <2>3. \A v \in Workers : todo'[v] \subseteq todo[v] \/ todo'[v] \subseteq Claimable
    <3>1. \/ todo' = todo
          \/ todo' = [todo EXCEPT ![w] = Claimable]
          \/ \E i : todo' = [todo EXCEPT ![w] = todo[w] \ {i}]
      BY <1>1, Zenon DEF RelayStep, TryAcquireLeader, Release, Claim, ClaimFails, Publish,
                  PublishFails, MarkPublished, MarkFailed, MarkErrs, ReleaseClaim, ReleaseDone,
                  BatchDone
    <3>2. \A v \in Workers : v \in DOMAIN todo
      OBVIOUS
    <3>3. QED
      BY <3>1, <3>2
  <2>4. QED
    BY <2>1, <2>2, <2>3
<1>2. ASSUME NEW w \in Workers, Crash(w)
      PROVE  /\ published \subseteq published'
             /\ sent \subseteq sent'
             /\ \A v \in Workers : todo'[v] \subseteq todo[v]
  BY <1>2 DEF Crash, rows
<1>3. QED
  BY <1>1, <1>2 DEF Next, AppendEvent, LeaseExpires, RetryDue, LoseLock, rows, vars

\* What a relay has in hand stays next in its task.
LEMMA HeldStep ==
    ASSUME Inv, [Next]_vars
    PROVE  HeldIsNext'
<1>1. SUFFICES ASSUME NEW w \in Workers, NEW i \in todo'[w]
               PROVE  Previous(i)' \subseteq published'
  BY DEF HeldIsNext
<1>2. published \subseteq published'
  BY Monotone DEF Inv
<1>3. i \in Ids /\ Previous(i) \subseteq published
  <2>1. CASE i \in todo[w]
    BY <2>1 DEF Inv, HeldIsNext, TypeOK
  <2>2. CASE i \in Claimable
    BY <2>2 DEF Claimable, Candidates
  <2>3. QED
    BY <2>1, <2>2, Monotone DEF Inv
<1>4. QED
  BY <1>2, <1>3, PreviousKept DEF Inv

\* What a step adds to sent was in hand, and what it adds to published was sent.
LEMMA SentStep ==
    ASSUME Inv, [Next]_vars
    PROVE  /\ \A i \in sent' \ sent : \E w \in Workers : i \in todo[w]
           /\ published' \subseteq published \cup sent
<1> USE DEF Inv
<1>1. ASSUME NEW w \in Workers, RelayStep(w)
      PROVE  /\ \A i \in sent' \ sent : i \in todo[w]
             /\ published' \subseteq published \cup sent
  <2>1. \A i \in sent' \ sent : i \in todo[w]
    BY <1>1, FirstInHand
       DEF RelayStep, TryAcquireLeader, Release, Claim, ClaimFails, Publish,
           PublishFails, MarkPublished, MarkFailed, MarkErrs, ReleaseClaim, ReleaseDone, BatchDone
  <2>2. pc[w] = "mark" => First(w) \in sent
    BY DEF MarksWhatItSent
  <2>3. published' \subseteq published \cup sent
    BY <1>1, <2>2
       DEF RelayStep, TryAcquireLeader, Release, Claim, ClaimFails, ClaimRows, Publish,
           PublishFails, MarkPublished, MarkFailed, MarkErrs, ReleaseClaim, ReleaseDone,
           BatchDone, MarkPublishedRow, MarkFailedRow, ReleaseClaimRow, rows
  <2>4. QED
    BY <2>1, <2>3
<1>2. ASSUME NEW w \in Workers, Crash(w)
      PROVE  published' = published /\ sent' = sent
  BY <1>2 DEF Crash, rows
<1>3. QED
  BY <1>1, <1>2 DEF Next, AppendEvent, LeaseExpires, RetryDue, LoseLock, rows, vars

\* published_at stays behind the exchange.
LEMMA PublishedStep ==
    ASSUME Inv, [Next]_vars
    PROVE  PublishedWasSent'
BY SentStep, Monotone DEF Inv, PublishedWasSent

\* The order of first publications is kept.
LEMMA OrderStep ==
    ASSUME Inv, [Next]_vars
    PROVE  SentInOrder'
<1>1. SUFFICES ASSUME NEW i \in sent'
               PROVE  Previous(i)' \subseteq sent'
  BY DEF SentInOrder
<1>2. sent \subseteq sent'
  BY Monotone DEF Inv
<1>3. i \in Ids /\ Previous(i) \subseteq sent
  <2>1. CASE i \in sent
    BY <2>1 DEF Inv, SentInOrder, TypeOK
  <2>2. CASE i \notin sent
    <3>1. PICK w \in Workers : i \in todo[w]
      BY <2>2, SentStep
    <3>2. QED
      BY <3>1 DEF Inv, HeldIsNext, PublishedWasSent, TypeOK
  <2>3. QED
    BY <2>1, <2>2
<1>4. QED
  BY <1>2, <1>3, PreviousKept DEF Inv

\* A relay marks what it sent.
LEMMA MarksStep ==
    ASSUME Inv, [Next]_vars
    PROVE  MarksWhatItSent'
<1>1. SUFFICES ASSUME NEW w \in Workers
               PROVE  /\ pc'[w] \in {"mark", "markFailed"} => todo'[w] # {}
                      /\ pc'[w] = "mark" => Min(todo'[w]) \in sent'
  BY DEF MarksWhatItSent, First
<1>2. CASE pc'[w] = pc[w] /\ todo'[w] = todo[w]
  BY <1>2, Monotone DEF Inv, MarksWhatItSent, First
<1>3. CASE Publish(w) \/ PublishFails(w)
  BY <1>3 DEF Publish, PublishFails, First, Inv, TypeOK
<1>4. CASE pc'[w] \notin {"mark", "markFailed"}
  BY <1>4
<1>5. ASSUME NEW v \in Workers, RelayStep(v) \/ Crash(v)
      PROVE  \/ pc'[w] = pc[w] /\ todo'[w] = todo[w]
             \/ Publish(w) \/ PublishFails(w)
             \/ pc'[w] \notin {"mark", "markFailed"}
  BY <1>5
     DEF Inv, TypeOK, RelayStep, Crash, TryAcquireLeader, Release, Claim, ClaimFails, MarkPublished,
         Publish, PublishFails, MarkFailed, MarkErrs, ReleaseClaim, ReleaseDone, BatchDone
<1>6. QED
  BY <1>2, <1>3, <1>4, <1>5 DEF Next, AppendEvent, LeaseExpires, RetryDue, LoseLock, vars

-----------------------------------------------------------------------------
(* The theorems.                                                           *)

\* Init and every step establish the inductive invariant.
LEMMA InvInvariant == Spec => []Inv
<1>1. Init => Inv
  <2>1. SUFFICES ASSUME Init PROVE Inv
    OBVIOUS
  <2>2. Ids = {} /\ sent = {} /\ published = {}
    BY <2>1 DEF Init, Ids
  <2>3. TypeOK
    BY <2>1, <2>2, RelayAssumption DEF Init, TypeOK
  <2>4. QED
    BY <2>1, <2>2, <2>3 DEF Init, Inv, Numbered, HeldIsNext, MarksWhatItSent, PublishedWasSent, SentInOrder
<1>2. Inv /\ [Next]_vars => Inv'
  BY TypeStep, NumberedStep, HeldStep, MarksStep, PublishedStep, OrderStep DEF Inv
<1>3. QED
  BY <1>1, <1>2, PTL DEF Spec

\* metric_outbox and the relays are well-formed in every state, and a
\* published row carries no claim.
THEOREM TypeCorrect == Spec => []TypeOK
BY InvInvariant, PTL DEF Inv

\* First publications respect the order of each task, however many relays
\* believe they lead and whichever calls fail.
THEOREM SentInOrderAlways == Spec => []SentInOrder
BY InvInvariant, PTL DEF Inv

\* published_at is set only for an event the exchange received.
THEOREM PublishedWasSentAlways == Spec => []PublishedWasSent
BY InvInvariant, PTL DEF Inv

\* What a relay has in hand is next in its task, lock or no lock.
THEOREM HeldIsNextAlways == Spec => []HeldIsNext
BY InvInvariant, PTL DEF Inv

\* A step of a relay changes a claim only if the lease has run out or the
\* relay holds the claim and has just dealt with the row.
LEMMA ClaimStep ==
    ASSUME Inv, NEW w \in Workers, RelayStep(w) \/ Crash(w),
           NEW i \in 1..MaxEvents, token[i] # None, token'[i] # token[i]
    PROVE  i \notin leased \/ (claim[w] = token[i] /\ todo'[w] = todo[w] \ {i})
<1>1. CASE ClaimRows
  BY <1>1 DEF ClaimRows, Claimable, Candidates
<1>2. ASSUME NEW j,
             MarkPublishedRow(w, j) \/ MarkFailedRow(w, j) \/ ReleaseClaimRow(w, j),
             todo' = [todo EXCEPT ![w] = @ \ {j}]
      PROVE  claim[w] = token[i] /\ todo'[w] = todo[w] \ {i}
  <2>1. Owns(w, j) /\ token' = [token EXCEPT ![j] = None]
    BY <1>2 DEF MarkPublishedRow, MarkFailedRow, ReleaseClaimRow, Unclaim, rows
  <2>2. i = j
    BY <2>1 DEF Inv, TypeOK
  <2>3. QED
    BY <1>2, <2>1, <2>2 DEF Owns, Inv, TypeOK
<1>3. QED
  BY <1>1, <1>2
     DEF RelayStep, Crash, TryAcquireLeader, Release, Claim, ClaimFails, MarkPublished, MarkFailed,
         Publish, PublishFails, MarkErrs, ReleaseClaim, ReleaseDone, BatchDone, rows

\* A claim is ended only by the relay that holds it, or after its lease.
THEOREM ClaimsAreExclusive == Spec => ClaimsExclusive
<1> DEFINE Kept == \A i \in 1..MaxEvents :
                      token[i] # None /\ token'[i] # token[i] =>
                          \/ i \notin leased
                          \/ \E w \in Workers : /\ claim[w] = token[i]
                                                /\ todo'[w] = todo[w] \ {i}
<1>1. Inv /\ [Next]_vars => Kept
  <2>1. SUFFICES ASSUME Inv, [Next]_vars, NEW i \in 1..MaxEvents, token[i] # None, token'[i] # token[i]
                 PROVE  \/ i \notin leased
                        \/ \E w \in Workers : claim[w] = token[i] /\ todo'[w] = todo[w] \ {i}
    OBVIOUS
  <2>2. PICK w \in Workers : RelayStep(w) \/ Crash(w)
    BY <2>1 DEF Next, AppendEvent, LeaseExpires, RetryDue, LoseLock, rows, vars
  <2>3. QED
    BY <2>1, <2>2, ClaimStep
<1>2. QED
  BY <1>1, InvInvariant, PTL DEF Spec, ClaimsExclusive
=============================================================================
