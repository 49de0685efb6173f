-------------------------- MODULE IngestPublisher --------------------------
(***************************************************************************)
(* The API's ingest path: IngestMetrics (internal/transport/http/          *)
(* ingest.go) and the publisher pool (internal/messaging/publisher.go) in  *)
(* front of RabbitMQ with publisher confirms.                              *)
(*                                                                         *)
(* A request submits a job to a bounded channel and waits for its result.  *)
(* A pool worker publishes the job's message on its own session and waits  *)
(* for the confirm; a failed attempt closes the session, and the next one  *)
(* publishes the same message on a new session.                            *)
(*                                                                         *)
(* One request stands for its message.  Requests the validation refuses    *)
(* reach no other state and are left out; durations are abstracted.        *)
(***************************************************************************)
EXTENDS Naturals, Sequences, FiniteSets

CONSTANTS
    Requests,     \* ingest requests that passed validation
    Publishers,   \* the workers of the pool
    JobsCap,      \* capacity of the jobs channel (16 per worker in the code)
    MaxAttempts,  \* publish attempts per job
    MaxFaults,    \* bound: failures of the broker, timeouts, clients that leave
    NoRequest

ASSUME PublisherAssumption ==
    /\ JobsCap \in Nat \ {0}
    /\ MaxAttempts \in Nat \ {0}
    /\ MaxFaults \in Nat
    /\ NoRequest \notin Requests

VARIABLES
    \* requests
    request,   \* where PublishMetricBatch stands, then the answer
    gone,      \* requests whose context is done
    result,    \* job.result
    \* the pool
    jobs,      \* the jobs channel
    closed,    \* p.done
    pc,        \* where runWorker / publishWithRetry / publishOnce stands
    job,       \* the job of each worker
    attempt,
    session,   \* "none", "open" or "broken" (the broker or the network ended it)
    confirms,  \* session.confirms: the message confirmed and whether by an ack
    returns,   \* session.returns
    \* RabbitMQ
    wire,      \* messages published on a session and not handled by the broker yet
    orphans,   \* messages written on a session that is gone
    queued,    \* messages the ingest queue has received
    faults

poolVars == <<jobs, closed, pc, job, attempt, session, confirms, returns>>
vars == <<request, gone, result, jobs, closed, pc, job, attempt, session, confirms,
          returns, wire, orphans, queued, faults>>

Init ==
    /\ request = [r \in Requests |-> "new"]
    /\ gone = {}
    /\ result = [r \in Requests |-> "none"]
    /\ jobs = <<>>
    /\ closed = FALSE
    /\ pc = [w \in Publishers |-> "idle"]
    /\ job = [w \in Publishers |-> NoRequest]
    /\ attempt = [w \in Publishers |-> 1]
    /\ session = [w \in Publishers |-> "open"]
    /\ confirms = [w \in Publishers |-> <<>>]
    /\ returns = [w \in Publishers |-> <<>>]
    /\ wire = [w \in Publishers |-> <<>>]
    /\ orphans = {}
    /\ queued = {}
    /\ faults = MaxFaults

Fault == faults > 0 /\ faults' = faults - 1

-----------------------------------------------------------------------------
(* IngestMetrics and PublishMetricBatch.                                   *)

Arrive(r) ==
    /\ request[r] = "new"
    /\ request' = [request EXCEPT ![r] = "submitting"]
    /\ UNCHANGED <<gone, result, poolVars, wire, orphans, queued, faults>>

\* First select: p.jobs <- job
Submit(r) ==
    /\ request[r] = "submitting"
    /\ Len(jobs) < JobsCap
    /\ jobs' = Append(jobs, r)
    /\ request' = [request EXCEPT ![r] = "waiting"]
    /\ UNCHANGED <<gone, result, closed, pc, job, attempt, session, confirms, returns,
                   wire, orphans, queued, faults>>

\* Mutant: the selects have no case for the closed publisher.
BugGiveUp(r) ==
    /\ request[r] \in {"submitting", "waiting"}
    /\ r \in gone
    /\ request' = [request EXCEPT ![r] = "error"]
    /\ UNCHANGED <<gone, result, poolVars, wire, orphans, queued, faults>>

\* Either select: the context is done, or the publisher closed.  503; a job
\* that was submitted stays in the channel or with its worker.
GiveUp(r) ==
    /\ request[r] \in {"submitting", "waiting"}
    /\ r \in gone \/ closed
    /\ request' = [request EXCEPT ![r] = "error"]
    /\ UNCHANGED <<gone, result, poolVars, wire, orphans, queued, faults>>

\* Second select: the result.  200 for nil, 503 for an error.
Answer(r) ==
    /\ request[r] = "waiting"
    /\ result[r] # "none"
    /\ request' = [request EXCEPT ![r] = result[r]]
    /\ UNCHANGED <<gone, result, poolVars, wire, orphans, queued, faults>>

ClientLeaves(r) ==
    /\ request[r] \in {"submitting", "waiting"}
    /\ r \notin gone
    /\ Fault
    /\ gone' = gone \cup {r}
    /\ UNCHANGED <<request, result, poolVars, wire, orphans, queued>>

Close ==
    /\ ~closed
    /\ Fault
    /\ closed' = TRUE
    /\ UNCHANGED <<request, gone, result, jobs, pc, job, attempt, session, confirms, returns,
                   wire, orphans, queued>>

-----------------------------------------------------------------------------
(* runWorker, publishWithRetry and publishOnce.                            *)

\* Mutant: a failed attempt keeps its session.
BugCloseSession(w) == UNCHANGED <<session, confirms, returns, wire>>

\* closePublisherSession: what was written may still reach the broker, and
\* the channels of the session are gone.
CloseSession(w) ==
    /\ session' = [session EXCEPT ![w] = "none"]
    /\ confirms' = [confirms EXCEPT ![w] = <<>>]
    /\ returns' = [returns EXCEPT ![w] = <<>>]
    /\ wire' = [wire EXCEPT ![w] = <<>>]

OnWire(w) == {wire[w][i] : i \in 1..Len(wire[w])}

\* Mutant: the worker looks at done only when it gets a job.
BugStopWorker(w) ==
    /\ pc[w] = "idle"
    /\ closed
    /\ jobs # <<>>
    /\ pc' = [pc EXCEPT ![w] = "stopped"]
    /\ CloseSession(w)
    /\ orphans' = orphans \cup OnWire(w)
    /\ UNCHANGED <<request, gone, result, jobs, closed, job, attempt, queued, faults>>

\* runWorker sees p.done.
StopWorker(w) ==
    /\ pc[w] = "idle"
    /\ closed
    /\ pc' = [pc EXCEPT ![w] = "stopped"]
    /\ CloseSession(w)
    /\ orphans' = orphans \cup OnWire(w)
    /\ UNCHANGED <<request, gone, result, jobs, closed, job, attempt, queued, faults>>

TakeJob(w) ==
    /\ pc[w] = "idle"
    /\ jobs # <<>>
    /\ job' = [job EXCEPT ![w] = Head(jobs)]
    /\ jobs' = Tail(jobs)
    /\ attempt' = [attempt EXCEPT ![w] = 1]
    /\ pc' = [pc EXCEPT ![w] = "open"]
    /\ UNCHANGED <<request, gone, result, closed, session, confirms, returns,
                   wire, orphans, queued, faults>>

\* job.result <- err, and on to the next job.
Finish(w, outcome) ==
    /\ result' = [result EXCEPT ![job[w]] = outcome]
    /\ job' = [job EXCEPT ![w] = NoRequest]
    /\ attempt' = [attempt EXCEPT ![w] = 1]
    /\ pc' = [pc EXCEPT ![w] = "idle"]

\* NewIngestMessage or MarshalIngestPublishing fails, before the first attempt.
MessageFails(w) ==
    /\ pc[w] = "open"
    /\ attempt[w] = 1
    /\ Fault
    /\ Finish(w, "error")
    /\ UNCHANGED <<request, gone, jobs, closed, session, confirms, returns,
                   wire, orphans, queued>>

\* The session of the worker, or a new one.
OpenSession(w) ==
    /\ pc[w] = "open"
    /\ session[w] # "none" \/ ~(job[w] \in gone \/ closed)
    /\ session' = [session EXCEPT ![w] = IF @ = "none" THEN "open" ELSE @]
    /\ pc' = [pc EXCEPT ![w] = "publish"]
    /\ UNCHANGED <<request, gone, result, jobs, closed, job, attempt, confirms, returns,
                   wire, orphans, queued, faults>>

LastAttempt(w) == attempt[w] = MaxAttempts

\* An attempt failed: close the session; give up after MaxAttempts, wait otherwise.
AttemptFails(w, written) ==
    /\ CloseSession(w)
    /\ orphans' = orphans \cup OnWire(w) \cup written
    /\ IF LastAttempt(w)
       THEN Finish(w, "error")
       ELSE /\ pc' = [pc EXCEPT ![w] = "backoff"]
            /\ UNCHANGED <<result, job, attempt>>
    /\ UNCHANGED <<request, gone, jobs, closed, queued>>

\* openSession fails, or a context of its own is done.
OpenFails(w) ==
    /\ pc[w] = "open"
    /\ session[w] = "none"
    /\ \/ Fault
       \/ (job[w] \in gone \/ closed) /\ UNCHANGED faults
    /\ AttemptFails(w, {})

Publish(w) ==
    /\ pc[w] = "publish"
    /\ session[w] = "open"
    /\ job[w] \notin gone
    /\ wire' = [wire EXCEPT ![w] = Append(@, job[w])]
    /\ pc' = [pc EXCEPT ![w] = "confirm"]
    /\ UNCHANGED <<request, gone, result, jobs, closed, job, attempt, session, confirms, returns,
                   orphans, queued, faults>>

\* The context is done, the session is broken, or the write fails, in part or after it.
PublishFails(w) ==
    /\ pc[w] = "publish"
    /\ \/ (session[w] = "broken" \/ job[w] \in gone) /\ UNCHANGED faults /\ AttemptFails(w, {})
       \/ Fault /\ \E written \in {{}, {job[w]}} : AttemptFails(w, written)

\* Mutant: a returned message counts as accepted once it is acked.
BugAccepted(w) == confirms[w] # <<>> /\ Head(confirms[w]).ack

\* confirmation.Ack, and the returns channel is empty
Accepted(w) == confirms[w] # <<>> /\ Head(confirms[w]).ack /\ returns[w] = <<>>

\* A confirm, with nothing returned: the attempt succeeds on an ack only.
Confirmed(w) ==
    /\ pc[w] = "confirm"
    /\ session[w] = "open"
    /\ Accepted(w)
    /\ confirms' = [confirms EXCEPT ![w] = Tail(@)]
    /\ Finish(w, "ok")
    /\ UNCHANGED <<request, gone, jobs, closed, session, returns, wire, orphans, queued, faults>>

\* Nack, mandatory return (seen before or after its confirm), closed channels,
\* publisher closed, context done, or the confirm timeout.
NotConfirmed(w) ==
    /\ pc[w] = "confirm"
    /\ \/ /\ \/ confirms[w] # <<>> /\ ~Head(confirms[w]).ack
             \/ returns[w] # <<>>
             \/ session[w] = "broken"
             \/ closed
             \/ job[w] \in gone
          /\ UNCHANGED faults
       \/ Fault
    /\ AttemptFails(w, {})

BackoffElapsed(w) ==
    /\ pc[w] = "backoff"
    /\ attempt' = [attempt EXCEPT ![w] = @ + 1]
    /\ pc' = [pc EXCEPT ![w] = "open"]
    /\ UNCHANGED <<request, gone, result, jobs, closed, job, session, confirms, returns,
                   wire, orphans, queued, faults>>

BackoffInterrupted(w) ==
    /\ pc[w] = "backoff"
    /\ job[w] \in gone \/ closed
    /\ Finish(w, "error")
    /\ UNCHANGED <<request, gone, jobs, closed, session, confirms, returns,
                   wire, orphans, queued, faults>>

-----------------------------------------------------------------------------
(* RabbitMQ.                                                               *)

\* The broker handles the next message of a session: it queues and acks it,
\* refuses it, or returns and then acks a message it cannot route.
BrokerHandles(w, outcome) ==
    LET r == Head(wire[w])
    IN  /\ session[w] = "open"
        /\ wire[w] # <<>>
        /\ wire' = [wire EXCEPT ![w] = Tail(@)]
        /\ IF outcome = "queue" THEN UNCHANGED faults ELSE Fault
        /\ queued' = IF outcome = "queue" THEN queued \cup {r} ELSE queued
        /\ returns' = IF outcome = "return" THEN [returns EXCEPT ![w] = Append(@, r)] ELSE returns
        /\ confirms' = [confirms EXCEPT ![w] = Append(@, [msg |-> r, ack |-> outcome # "nack"])]
        /\ UNCHANGED <<request, gone, result, jobs, closed, pc, job, attempt, session, orphans>>

SessionBreaks(w) ==
    /\ session[w] = "open"
    /\ Fault
    /\ session' = [session EXCEPT ![w] = "broken"]
    /\ UNCHANGED <<request, gone, result, jobs, closed, pc, job, attempt, confirms, returns,
                   wire, orphans, queued>>

\* A message of a session that is gone arrives after all, or never.
OrphanArrives(r) ==
    /\ r \in orphans
    /\ orphans' = orphans \ {r}
    /\ queued' \in {queued, queued \cup {r}}
    /\ UNCHANGED <<request, gone, result, poolVars, wire, faults>>

-----------------------------------------------------------------------------

RequestStep(r) == Arrive(r) \/ Submit(r) \/ GiveUp(r) \/ Answer(r)

WorkerStep(w) ==
    \/ StopWorker(w)
    \/ TakeJob(w)
    \/ MessageFails(w)
    \/ OpenSession(w)
    \/ OpenFails(w)
    \/ Publish(w)
    \/ PublishFails(w)
    \/ Confirmed(w)
    \/ NotConfirmed(w)
    \/ BackoffElapsed(w)
    \/ BackoffInterrupted(w)

Broker(w) == \E outcome \in {"queue", "nack", "return"} : BrokerHandles(w, outcome)

Next ==
    \/ \E r \in Requests : RequestStep(r) \/ ClientLeaves(r) \/ OrphanArrives(r)
    \/ \E w \in Publishers : WorkerStep(w) \/ Broker(w) \/ SessionBreaks(w)
    \/ Close

Spec == Init /\ [][Next]_vars

\* Goroutines run, the broker answers (or the confirm times out), and a Go
\* select takes each ready case sooner or later.
Fairness ==
    /\ \A r \in Requests : WF_vars(RequestStep(r))
    /\ \A w \in Publishers : WF_vars(WorkerStep(w)) /\ WF_vars(Broker(w)) /\ SF_vars(StopWorker(w))

FairSpec == Spec /\ Fairness

-----------------------------------------------------------------------------
(* Properties.                                                             *)

\* The pool is well-formed: the jobs channel stays within its capacity and no
\* worker makes more than MaxAttempts attempts for a job.
TypeOK ==
    /\ request \in [Requests -> {"new", "submitting", "waiting", "ok", "error"}]
    /\ gone \subseteq Requests
    /\ result \in [Requests -> {"none", "ok", "error"}]
    /\ jobs \in Seq(Requests)
    /\ Len(jobs) <= JobsCap
    /\ closed \in BOOLEAN
    /\ pc \in [Publishers -> {"idle", "open", "publish", "confirm", "backoff", "stopped"}]
    /\ job \in [Publishers -> Requests \cup {NoRequest}]
    /\ attempt \in [Publishers -> 1..MaxAttempts]
    /\ session \in [Publishers -> {"none", "open", "broken"}]
    /\ confirms \in [Publishers -> Seq([msg : Requests, ack : BOOLEAN])]
    /\ returns \in [Publishers -> Seq(Requests)]
    /\ wire \in [Publishers -> Seq(Requests)]
    /\ orphans \subseteq Requests
    /\ queued \subseteq Requests
    /\ faults \in 0..MaxFaults

\* The API answers 200 only for a message the ingest queue has received:
\* not for one that was nacked or returned as unroutable, and not because of
\* the confirm of another message.
AcceptedIsQueued == \A r \in Requests : request[r] = "ok" => r \in queued

\* What a worker reads from the channels of its session always concerns the
\* job it is publishing: no confirm or return outlives its attempt.
NoStaleConfirm ==
    \A w \in Publishers :
        /\ \A i \in 1..Len(confirms[w]) : confirms[w][i].msg = job[w]
        /\ \A i \in 1..Len(returns[w]) : returns[w][i] = job[w]
        /\ Len(confirms[w]) + Len(wire[w]) <= 1

\* A request is answered, even when its client leaves, all attempts fail or
\* the publisher is closed under it.
RequestsAnswered ==
    \A r \in Requests : request[r] \in {"submitting", "waiting"} ~> request[r] \in {"ok", "error"}

\* Close returns: every worker of the pool stops.
CloseReturns == closed ~> \A w \in Publishers : pc[w] = "stopped"
=============================================================================
