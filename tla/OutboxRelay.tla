---------------------------- MODULE OutboxRelay ----------------------------
(***************************************************************************)
(* The outbox relay of the workers (internal/messaging/outbox_relay.go)    *)
(* over metric_outbox (internal/storage/postgres/outbox_store.go).         *)
(*                                                                         *)
(* One worker at a time should relay: it holds a session-level advisory    *)
(* lock.  The lock is taken once and not checked again, so a leader whose  *)
(* lock connection died goes on beside its successor; claims, with a token *)
(* and a lease, keep the two apart.                                        *)
(*                                                                         *)
(* metric_outbox is a sequence, a row's index being its id.  Time is       *)
(* abstracted: a lease or a retry delay may run out at any moment.         *)
(***************************************************************************)
EXTENDS Integers, Sequences, FiniteSets, FiniteSetsExt

CONSTANTS
    Workers,    \* worker processes, each running one relay
    Tasks,
    Tokens,     \* claim tokens: random uuids, so there is always a new one
    BatchSize,  \* rows of one claim
    MaxEvents,  \* bound: rows of the outbox
    MaxFaults,  \* bound: failed calls, lost locks and crashes
    None

ASSUME RelayAssumption ==
    /\ BatchSize \in Nat \ {0}
    /\ MaxEvents \in Nat
    /\ MaxFaults \in Nat
    /\ None \notin Workers \cup Tokens
    /\ IsFiniteSet(Workers)
    /\ IsFiniteSet(Tokens) => Cardinality(Tokens) > MaxEvents + Cardinality(Workers)

VARIABLES
    \* metric_outbox
    outbox,      \* the task and event_seq of each row
    published,   \* rows with published_at set
    token,       \* claim_token of each row
    leased,      \* rows with claimed_until in the future
    delayed,     \* rows with next_attempt_at in the future
    \* PostgreSQL and RabbitMQ
    lock,        \* the worker whose session holds the advisory lock
    sent,        \* rows the event exchange has received at least once
    \* one relay per worker
    pc,          \* where Run / runLeader stands
    claim,       \* the token of the last claim
    todo,        \* its rows not dealt with yet; the least id comes first
    failed,      \* batchBackoff > 0
    \* environment
    faults

rows == <<outbox, published, token, leased, delayed>>
vars == <<outbox, published, token, leased, delayed, lock, sent, pc, claim, todo, failed, faults>>

Ids == 1..Len(outbox)

\* An earlier event of the same task.
Previous(i) == {j \in Ids : outbox[j].task = outbox[i].task /\ outbox[j].seq < outbox[i].seq}

Init ==
    /\ outbox = <<>>
    /\ published = {}
    /\ token = [i \in 1..MaxEvents |-> None]
    /\ leased = {}
    /\ delayed = {}
    /\ lock = None
    /\ sent = {}
    /\ pc = [w \in Workers |-> "elect"]
    /\ claim = [w \in Workers |-> None]
    /\ todo = [w \in Workers |-> {}]
    /\ failed = [w \in Workers |-> FALSE]
    /\ faults = MaxFaults

-----------------------------------------------------------------------------
(* The flush transactions and the clock.                                   *)

\* A flush commits the next event of t (MetricPointStore: ids follow numbers).
AppendEvent(t) ==
    /\ Len(outbox) < MaxEvents
    /\ outbox' = Append(outbox, [task |-> t,
                                 seq |-> Cardinality({j \in Ids : outbox[j].task = t}) + 1])
    /\ UNCHANGED <<published, token, leased, delayed, lock, sent, pc, claim, todo, failed, faults>>

LeaseExpires(i) ==
    /\ i \in leased
    /\ leased' = leased \ {i}
    /\ UNCHANGED <<outbox, published, token, delayed, lock, sent, pc, claim, todo, failed, faults>>

RetryDue(i) ==
    /\ i \in delayed
    /\ delayed' = delayed \ {i}
    /\ UNCHANGED <<outbox, published, token, leased, lock, sent, pc, claim, todo, failed, faults>>

-----------------------------------------------------------------------------
(* Run and runLeader.                                                      *)

Fault == faults > 0 /\ faults' = faults - 1

TryAcquireLeader(w) ==
    /\ pc[w] = "elect"
    /\ lock = None
    /\ lock' = w
    /\ pc' = [pc EXCEPT ![w] = "claim"]
    /\ UNCHANGED <<rows, sent, claim, todo, failed, faults>>

\* Mutant: the advisory lock is not released.
BugRelease(w) ==
    /\ pc[w] = "unlock"
    /\ pc' = [pc EXCEPT ![w] = "elect"]
    /\ claim' = [claim EXCEPT ![w] = None]
    /\ failed' = [failed EXCEPT ![w] = FALSE]
    /\ UNCHANGED <<rows, lock, sent, todo, faults>>

\* runLeader returned: release unlocks, if the session is still there.
Release(w) ==
    /\ pc[w] = "unlock"
    /\ lock' = IF lock = w THEN None ELSE lock
    /\ pc' = [pc EXCEPT ![w] = "elect"]
    /\ claim' = [claim EXCEPT ![w] = None]
    /\ failed' = [failed EXCEPT ![w] = FALSE]
    /\ UNCHANGED <<rows, sent, todo, faults>>

\* Mutant: a previous event that waits for its retry does not hold the row back.
BugCandidatesSkipDelayed ==
    {i \in Ids \ (published \cup delayed \cup leased) : Previous(i) \subseteq published \cup delayed}

\* claim_metric_outbox.sql: rows that may be claimed now ...
Candidates == {i \in Ids \ (published \cup delayed \cup leased) : Previous(i) \subseteq published}

\* ... of which the first BatchSize by id are.
Claimable == {i \in Candidates : Cardinality({j \in Candidates : j < i}) < BatchSize}

\* newClaimToken: a token no row and no relay has.
NewToken == CHOOSE t \in Tokens : /\ \A i \in 1..MaxEvents : token[i] # t
                                 /\ \A w \in Workers : claim[w] # t

ClaimRows ==
    /\ token' = [i \in 1..MaxEvents |-> IF i \in Claimable THEN NewToken ELSE token[i]]
    /\ leased' = leased \cup Claimable
    /\ UNCHANGED <<outbox, published, delayed>>

\* An empty claim waits a poll interval and tries again.
Claim(w) ==
    /\ pc[w] = "claim"
    /\ Claimable # {}
    /\ ClaimRows
    /\ claim' = [claim EXCEPT ![w] = NewToken]
    /\ todo' = [todo EXCEPT ![w] = Claimable]
    /\ failed' = [failed EXCEPT ![w] = FALSE]
    /\ pc' = [pc EXCEPT ![w] = "publish"]
    /\ UNCHANGED <<lock, sent, faults>>

\* Claim returns an error, before or after the statement took effect.
ClaimFails(w) ==
    /\ pc[w] = "claim"
    /\ Fault
    /\ ClaimRows \/ UNCHANGED rows
    /\ pc' = [pc EXCEPT ![w] = "unlock"]
    /\ UNCHANGED <<lock, sent, claim, todo, failed>>

First(w) == Min(todo[w])

\* publisher.Publish: the broker confirmed the event ...
Publish(w) ==
    /\ pc[w] = "publish"
    /\ todo[w] # {}
    /\ sent' = sent \cup {First(w)}
    /\ pc' = [pc EXCEPT ![w] = "mark"]
    /\ UNCHANGED <<rows, lock, claim, todo, failed, faults>>

\* Mutant: a failed publication is marked as published.
BugPublishFails(w) ==
    /\ pc[w] = "publish"
    /\ todo[w] # {}
    /\ Fault
    /\ sent' \in {sent, sent \cup {First(w)}}
    /\ pc' = [pc EXCEPT ![w] = "mark"]
    /\ UNCHANGED <<rows, lock, claim, todo, failed>>

\* ... or failed, or did not answer in time and may have received it.
PublishFails(w) ==
    /\ pc[w] = "publish"
    /\ todo[w] # {}
    /\ Fault
    /\ sent' \in {sent, sent \cup {First(w)}}
    /\ pc' = [pc EXCEPT ![w] = "markFailed"]
    /\ UNCHANGED <<rows, lock, claim, todo, failed>>

\* Mutant: no claim_token in the WHERE clause.
BugOwns(w, i) == i \notin published

\* The row still carries w's token: RowsAffected is 1.
Owns(w, i) == token[i] = claim[w] /\ i \notin published

\* Mutant: the claim columns are not cleared.
BugUnclaim(i) == UNCHANGED <<token, leased>>

Unclaim(i) == /\ token' = [token EXCEPT ![i] = None]
              /\ leased' = leased \ {i}

\* mark_metric_outbox_published.sql
MarkPublishedRow(w, i) ==
    IF Owns(w, i) THEN /\ published' = published \cup {i}
                       /\ Unclaim(i)
                       /\ UNCHANGED <<outbox, delayed>>
                  ELSE UNCHANGED rows

\* mark_metric_outbox_failed.sql
MarkFailedRow(w, i) ==
    IF Owns(w, i) THEN /\ delayed' = delayed \cup {i}
                       /\ Unclaim(i)
                       /\ UNCHANGED <<outbox, published>>
                  ELSE UNCHANGED rows

\* release_metric_outbox_claim.sql
ReleaseClaimRow(w, i) ==
    IF Owns(w, i) THEN /\ Unclaim(i)
                       /\ UNCHANGED <<outbox, published, delayed>>
                  ELSE UNCHANGED rows

MarkPublished(w) ==
    /\ pc[w] = "mark"
    /\ MarkPublishedRow(w, First(w))
    /\ todo' = [todo EXCEPT ![w] = @ \ {First(w)}]
    /\ pc' = [pc EXCEPT ![w] = IF Owns(w, First(w)) THEN "publish" ELSE "release"]
    /\ UNCHANGED <<lock, sent, claim, failed, faults>>

\* A failed event does not stop the batch.
MarkFailed(w) ==
    /\ pc[w] = "markFailed"
    /\ MarkFailedRow(w, First(w))
    /\ todo' = [todo EXCEPT ![w] = @ \ {First(w)}]
    /\ failed' = [failed EXCEPT ![w] = IF Owns(w, First(w)) THEN TRUE ELSE @]
    /\ pc' = [pc EXCEPT ![w] = IF Owns(w, First(w)) THEN "publish" ELSE "release"]
    /\ UNCHANGED <<lock, sent, claim, faults>>

\* Either mark returns a database error, before or after it took effect.
MarkErrs(w) ==
    /\ pc[w] \in {"mark", "markFailed"}
    /\ Fault
    /\ \/ UNCHANGED rows
       \/ pc[w] = "mark" /\ MarkPublishedRow(w, First(w))
       \/ pc[w] = "markFailed" /\ MarkFailedRow(w, First(w))
    /\ todo' = [todo EXCEPT ![w] = @ \ {First(w)}]
    /\ pc' = [pc EXCEPT ![w] = "release"]
    /\ UNCHANGED <<lock, sent, claim, failed>>

\* releaseClaims: one row after the other, whatever each call returns.
ReleaseClaim(w) ==
    /\ pc[w] = "release"
    /\ todo[w] # {}
    /\ \/ ReleaseClaimRow(w, First(w)) /\ UNCHANGED faults
       \/ Fault /\ UNCHANGED rows
    /\ todo' = [todo EXCEPT ![w] = @ \ {First(w)}]
    /\ UNCHANGED <<lock, sent, pc, claim, failed>>

ReleaseDone(w) ==
    /\ pc[w] = "release"
    /\ todo[w] = {}
    /\ pc' = [pc EXCEPT ![w] = "unlock"]
    /\ UNCHANGED <<rows, lock, sent, claim, todo, failed, faults>>

\* The batch is done: after a failure the leader backs off and steps down.
BatchDone(w) ==
    /\ pc[w] = "publish"
    /\ todo[w] = {}
    /\ pc' = [pc EXCEPT ![w] = IF failed[w] THEN "unlock" ELSE "claim"]
    /\ claim' = [claim EXCEPT ![w] = None]
    /\ UNCHANGED <<rows, lock, sent, todo, failed, faults>>

-----------------------------------------------------------------------------
(* Failures.                                                               *)

\* The session that holds the lock ends; its worker does not notice.
LoseLock ==
    /\ lock # None
    /\ Fault
    /\ lock' = None
    /\ UNCHANGED <<rows, sent, pc, claim, todo, failed>>

\* The process dies and is started again.  Its claims stay in the table.
Crash(w) ==
    /\ Fault
    /\ lock' = IF lock = w THEN None ELSE lock
    /\ pc' = [pc EXCEPT ![w] = "elect"]
    /\ claim' = [claim EXCEPT ![w] = None]
    /\ todo' = [todo EXCEPT ![w] = {}]
    /\ failed' = [failed EXCEPT ![w] = FALSE]
    /\ UNCHANGED <<rows, sent>>

-----------------------------------------------------------------------------

RelayStep(w) ==
    \/ TryAcquireLeader(w)
    \/ Release(w)
    \/ Claim(w)
    \/ ClaimFails(w)
    \/ Publish(w)
    \/ PublishFails(w)
    \/ MarkPublished(w)
    \/ MarkFailed(w)
    \/ MarkErrs(w)
    \/ ReleaseClaim(w)
    \/ ReleaseDone(w)
    \/ BatchDone(w)

Next ==
    \/ \E t \in Tasks : AppendEvent(t)
    \/ \E i \in 1..MaxEvents : LeaseExpires(i) \/ RetryDue(i)
    \/ \E w \in Workers : RelayStep(w) \/ Crash(w)
    \/ LoseLock

Spec == Init /\ [][Next]_vars

\* Relays run, and leases and delays are finite.
Fairness ==
    /\ \A w \in Workers : WF_vars(RelayStep(w))
    /\ WF_vars(\E i \in 1..MaxEvents : LeaseExpires(i) \/ RetryDue(i))

FairSpec == Spec /\ Fairness

-----------------------------------------------------------------------------
(* Properties.                                                             *)

\* The rows of metric_outbox and the relays are well-formed, and a published row
\* carries no claim (mark_metric_outbox_published.sql clears both columns).
TypeOK ==
    /\ outbox \in Seq([task : Tasks, seq : Nat])
    /\ Len(outbox) <= MaxEvents
    /\ published \subseteq Ids
    /\ token \in [1..MaxEvents -> Tokens \cup {None}]
    /\ leased \subseteq Ids
    /\ delayed \subseteq Ids
    /\ lock \in Workers \cup {None}
    /\ sent \subseteq Ids
    /\ pc \in [Workers -> {"elect", "claim", "publish", "mark", "markFailed", "release", "unlock"}]
    /\ claim \in [Workers -> Tokens \cup {None}]
    /\ todo \in [Workers -> SUBSET Ids]
    /\ failed \in [Workers -> BOOLEAN]
    /\ faults \in 0..MaxFaults
    /\ \A i \in published : token[i] = None /\ i \notin leased

\* The first publication of each event comes after the first publication of
\* every earlier event of its task, however many relays believe they lead
\* and whichever calls fail.  The event bridge, which drops an event below
\* the last one it forwarded, relies on it.
SentInOrder == \A i \in sent : Previous(i) \subseteq sent

\* published_at is set only for an event the exchange received.
PublishedWasSent == published \subseteq sent

\* Whatever a relay has in hand, even one that lost its lock, its lease or
\* both, everything before it in the task is already marked as published.
HeldIsNext ==
    \A w \in Workers : \A i \in todo[w] : Previous(i) \subseteq published

\* A claim is ended only by the relay that holds it, or after its lease:
\* a leader that lost its lock cannot disturb the claims of its successor.
ClaimsExclusive ==
    [][\A i \in 1..MaxEvents :
        token[i] # None /\ token'[i] # token[i] =>
            \/ i \notin leased
            \/ \E w \in Workers : /\ claim[w] = token[i]
                                  /\ todo'[w] = todo[w] \ {i}]_vars

\* Every event of the outbox is published in the end.
EventuallyPublished ==
    \A i \in 1..MaxEvents : i \in Ids ~> i \in published
=============================================================================
