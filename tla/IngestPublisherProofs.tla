----------------------- MODULE IngestPublisherProofs -----------------------
(***************************************************************************)
(* Proofs about IngestPublisher, for any number of requests, workers and   *)
(* attempts: the API answers 200 only for a message the ingest queue has   *)
(* received, and no confirm or return outlives its attempt.                *)
(*                                                                         *)
(* A confirm carries no message id that publishOnce compares; what makes   *)
(* it the confirm of the worker's own job is that a session never carries  *)
(* more than one message, and that every failed attempt closes it.         *)
(* WorkerInv says so, and adds that an ack without a return means the      *)
(* message is in the queue.                                                *)
(***************************************************************************)
EXTENDS IngestPublisher, SequenceTheorems, TLAPS

-----------------------------------------------------------------------------
(* The inductive invariant.                                                *)

Busy == {"open", "publish", "confirm", "backoff"}

\* What a worker of the pool has in hand, and what its session carries.
WorkerInv(w) ==
    /\ pc[w] \in Busy => job[w] \in Requests
    /\ pc[w] = "backoff" => attempt[w] < MaxAttempts
    /\ pc[w] # "confirm" => confirms[w] = <<>> /\ returns[w] = <<>> /\ wire[w] = <<>>
    /\ Len(confirms[w]) + Len(wire[w]) <= 1
    /\ \A i \in 1..Len(wire[w]) : wire[w][i] = job[w]
    /\ \A i \in 1..Len(returns[w]) : returns[w][i] = job[w]
    /\ \A i \in 1..Len(confirms[w]) :
          /\ confirms[w][i].msg = job[w]
          /\ confirms[w][i].ack /\ returns[w] = <<>> => job[w] \in queued

\* A job that ended well is in the queue, and so is a request answered with 200.
Acknowledged ==
    /\ \A r \in Requests : result[r] = "ok" => r \in queued
    /\ AcceptedIsQueued

Inv ==
    /\ TypeOK
    /\ \A w \in Publishers : WorkerInv(w)
    /\ Acknowledged

-----------------------------------------------------------------------------
(* Sequences of at most one element.                                       *)

\* A sequence of length 0 is the empty one.
LEMMA NoElement ==
    ASSUME NEW S, NEW s \in Seq(S), Len(s) = 0
    PROVE  s = <<>>
BY EmptySeq

\* What is left of a sequence of length 1.
LEMMA TailOfOne ==
    ASSUME NEW S, NEW s \in Seq(S), Len(s) <= 1, s # <<>>
    PROVE  /\ Tail(s) = <<>> /\ Len(s) = 1 /\ Head(s) = s[1] /\ Head(s) \in S
<1> DEFINE n == Len(s)
<1>1. n \in Nat /\ n # 0 /\ n <= 1
  BY EmptySeq
<1> HIDE DEF n
<1>2. n = 1
  BY <1>1
<1> USE DEF n
<1>3. Tail(s) \in Seq(S) /\ Len(Tail(s)) = 0
  BY <1>2
<1>4. Tail(s) = <<>>
  BY <1>3, NoElement
<1>5. Head(s) = s[1] /\ s[1] \in S
  BY <1>2
<1>6. QED
  BY <1>2, <1>4, <1>5

\* The first element put in an empty sequence.
LEMMA AppendFirst ==
    ASSUME NEW S, NEW e \in S
    PROVE  /\ Append(<<>>, e) \in Seq(S) /\ Len(Append(<<>>, e)) = 1
           /\ Append(<<>>, e)[1] = e
BY EmptySeq, AppendProperties

-----------------------------------------------------------------------------
(* Types.                                                                  *)

Confirmation == [msg : Requests, ack : BOOLEAN]

\* A closed session is well-typed.
LEMMA CloseSessionType ==
    ASSUME TypeOK, NEW w \in Publishers, CloseSession(w)
    PROVE  /\ session' \in [Publishers -> {"none", "open", "broken"}]
           /\ confirms' \in [Publishers -> Seq(Confirmation)]
           /\ returns' \in [Publishers -> Seq(Requests)]
           /\ wire' \in [Publishers -> Seq(Requests)]
           /\ OnWire(w) \subseteq Requests
           /\ confirms'[w] = <<>> /\ returns'[w] = <<>> /\ wire'[w] = <<>>
<1> USE DEF Confirmation
<1>1. confirms \in [Publishers -> Seq(Confirmation)]
  BY DEF TypeOK
<1> HIDE DEF Confirmation
<1>2. confirms' \in [Publishers -> Seq(Confirmation)] /\ confirms'[w] = <<>>
  BY <1>1, EmptySeq DEF CloseSession
<1>3. /\ returns' \in [Publishers -> Seq(Requests)] /\ returns'[w] = <<>>
      /\ wire' \in [Publishers -> Seq(Requests)] /\ wire'[w] = <<>>
  BY EmptySeq DEF CloseSession, TypeOK
<1>4. session' \in [Publishers -> {"none", "open", "broken"}]
  BY DEF CloseSession, TypeOK
<1>5. OnWire(w) \subseteq Requests
  <2>1. wire[w] \in Seq(Requests)
    BY DEF TypeOK
  <2>2. QED
    BY <2>1 DEF OnWire
<1>6. QED
  BY <1>2, <1>3, <1>4, <1>5

\* So is a worker that finished its job.
LEMMA FinishType ==
    ASSUME TypeOK, NEW w \in Publishers, job[w] \in Requests, NEW outcome \in {"ok", "error"},
           Finish(w, outcome)
    PROVE  /\ result' \in [Requests -> {"none", "ok", "error"}]
           /\ job' \in [Publishers -> Requests \cup {NoRequest}]
           /\ attempt' \in [Publishers -> 1..MaxAttempts]
           /\ pc' \in [Publishers -> {"idle", "open", "publish", "confirm", "backoff", "stopped"}]
BY PublisherAssumption DEF TypeOK, Finish

\* The types of a state after a failed attempt.
LEMMA AttemptFailsType ==
    ASSUME TypeOK, NEW w \in Publishers, job[w] \in Requests, NEW written \in SUBSET Requests,
           AttemptFails(w, written), faults' \in 0..MaxFaults
    PROVE  TypeOK'
<1>1. /\ result' \in [Requests -> {"none", "ok", "error"}]
      /\ job' \in [Publishers -> Requests \cup {NoRequest}]
      /\ attempt' \in [Publishers -> 1..MaxAttempts]
      /\ pc' \in [Publishers -> {"idle", "open", "publish", "confirm", "backoff", "stopped"}]
  <2>1. CASE LastAttempt(w)
    BY <2>1, FinishType DEF AttemptFails
  <2>2. CASE ~LastAttempt(w)
    BY <2>2 DEF AttemptFails, TypeOK
  <2>3. QED
    BY <2>1, <2>2
<1>2. CloseSession(w)
  BY DEF AttemptFails
<1>3. orphans' \subseteq Requests
  BY <1>2, CloseSessionType DEF AttemptFails, TypeOK
<1>4. QED
  BY <1>1, <1>2, <1>3, CloseSessionType DEF AttemptFails, TypeOK, Confirmation

\* A fault is one of the budget.
LEMMA FaultType ==
    ASSUME TypeOK, Fault \/ UNCHANGED faults
    PROVE  faults' \in 0..MaxFaults
BY PublisherAssumption DEF TypeOK, Fault

\* Every step of a request keeps the types.
LEMMA RequestType ==
    ASSUME TypeOK, NEW r \in Requests, RequestStep(r) \/ ClientLeaves(r) \/ OrphanArrives(r)
    PROVE  TypeOK'
<1> USE DEF poolVars
<1>1. CASE Arrive(r) \/ GiveUp(r)
  BY <1>1 DEF Arrive, GiveUp, TypeOK
<1>2. CASE Submit(r)
  <2>1. jobs' \in Seq(Requests) /\ Len(jobs') = Len(jobs) + 1 /\ Len(jobs) \in Nat
    BY <1>2, AppendProperties DEF Submit, TypeOK
  <2>2. Len(jobs') <= JobsCap
    BY <1>2, <2>1, PublisherAssumption DEF Submit
  <2>3. QED
    BY <1>2, <2>1, <2>2 DEF Submit, TypeOK
<1>3. CASE Answer(r)
  BY <1>3 DEF Answer, TypeOK
<1>4. CASE ClientLeaves(r)
  BY <1>4, FaultType DEF ClientLeaves, TypeOK
<1>5. CASE OrphanArrives(r)
  <2>1. queued' \subseteq Requests /\ orphans' \subseteq Requests
    BY <1>5 DEF OrphanArrives, TypeOK
  <2>2. QED
    BY <1>5, <2>1 DEF OrphanArrives, TypeOK
<1>6. QED
  BY <1>1, <1>2, <1>3, <1>4, <1>5 DEF RequestStep

\* Every step of a worker keeps the types.
LEMMA WorkerType ==
    ASSUME TypeOK, NEW w \in Publishers, WorkerInv(w), WorkerStep(w)
    PROVE  TypeOK'
<1> USE PublisherAssumption
<1>1. CASE StopWorker(w)
  <2>1. CloseSession(w)
    BY <1>1 DEF StopWorker
  <2>2. QED
    BY <1>1, <2>1, CloseSessionType DEF StopWorker, TypeOK, Confirmation
<1>2. CASE TakeJob(w)
  <2>1. jobs # <<>> /\ jobs \in Seq(Requests)
    BY <1>2 DEF TakeJob, TypeOK
  <2>2. /\ Head(jobs) \in Requests /\ Tail(jobs) \in Seq(Requests)
        /\ Len(Tail(jobs)) = Len(jobs) - 1 /\ Len(jobs) \in Nat
    BY <2>1
  <2>3. jobs' \in Seq(Requests) /\ Len(jobs') <= JobsCap
    BY <1>2, <2>2 DEF TakeJob, TypeOK
  <2>4. job' \in [Publishers -> Requests \cup {NoRequest}] /\ attempt' \in [Publishers -> 1..MaxAttempts]
    BY <1>2, <2>2 DEF TakeJob, TypeOK
  <2>5. QED
    BY <1>2, <2>3, <2>4 DEF TakeJob, TypeOK
<1>3. CASE MessageFails(w)
  <2>1. job[w] \in Requests
    BY <1>3 DEF MessageFails, WorkerInv, Busy
  <2>2. QED
    BY <1>3, <2>1, FinishType, FaultType DEF MessageFails, TypeOK
<1>4. CASE OpenSession(w)
  BY <1>4 DEF OpenSession, TypeOK
<1>5. CASE OpenFails(w)
  <2>1. job[w] \in Requests
    BY <1>5 DEF OpenFails, WorkerInv, Busy
  <2>2. QED
    BY <1>5, <2>1, AttemptFailsType, FaultType DEF OpenFails
<1>6. CASE Publish(w)
  <2>1. job[w] \in Requests /\ wire[w] \in Seq(Requests)
    BY <1>6 DEF Publish, WorkerInv, Busy, TypeOK
  <2>2. Append(wire[w], job[w]) \in Seq(Requests)
    BY <2>1
  <2>3. wire' \in [Publishers -> Seq(Requests)]
    BY <1>6, <2>2 DEF Publish, TypeOK
  <2>4. QED
    BY <1>6, <2>3 DEF Publish, TypeOK
<1>7. CASE PublishFails(w)
  <2>1. job[w] \in Requests
    BY <1>7 DEF PublishFails, WorkerInv, Busy
  <2>2. PICK written \in SUBSET Requests : AttemptFails(w, written) /\ (Fault \/ UNCHANGED faults)
    BY <1>7, <2>1 DEF PublishFails
  <2>3. QED
    BY <2>1, <2>2, AttemptFailsType, FaultType
<1>8. CASE Confirmed(w)
  <2>1. job[w] \in Requests /\ confirms[w] # <<>>
    BY <1>8 DEF Confirmed, Accepted, WorkerInv, Busy
  <2>2. confirms \in [Publishers -> Seq(Confirmation)]
    BY DEF TypeOK, Confirmation
  <2>3. confirms' \in [Publishers -> Seq(Confirmation)]
    BY <1>8, <2>1, <2>2 DEF Confirmed
  <2>4. QED
    BY <1>8, <2>1, <2>3, FinishType DEF Confirmed, TypeOK, Confirmation
<1>9. CASE NotConfirmed(w)
  <2>1. job[w] \in Requests
    BY <1>9 DEF NotConfirmed, WorkerInv, Busy
  <2>2. QED
    BY <1>9, <2>1, AttemptFailsType, FaultType DEF NotConfirmed
<1>10. CASE BackoffElapsed(w)
  <2>1. attempt' \in [Publishers -> 1..MaxAttempts]
    BY <1>10 DEF BackoffElapsed, WorkerInv, TypeOK
  <2>2. QED
    BY <1>10, <2>1 DEF BackoffElapsed, TypeOK
<1>11. CASE BackoffInterrupted(w)
  <2>1. job[w] \in Requests
    BY <1>11 DEF BackoffInterrupted, WorkerInv, Busy
  <2>2. QED
    BY <1>11, <2>1, FinishType DEF BackoffInterrupted, TypeOK
<1>12. QED
  BY <1>1, <1>2, <1>3, <1>4, <1>5, <1>6, <1>7, <1>8, <1>9, <1>10, <1>11 DEF WorkerStep

\* What the broker does with the message of a session.
LEMMA BrokerEffect ==
    ASSUME TypeOK, NEW w \in Publishers, WorkerInv(w),
           NEW outcome \in {"queue", "nack", "return"}, BrokerHandles(w, outcome)
    PROVE  /\ pc[w] = "confirm" /\ job[w] \in Requests
           /\ wire' \in [Publishers -> Seq(Requests)] /\ wire'[w] = <<>>
           /\ confirms' = [confirms EXCEPT ![w] = Append(<<>>, [msg |-> job[w], ack |-> outcome # "nack"])]
           /\ returns' = IF outcome = "return" THEN [returns EXCEPT ![w] = Append(@, job[w])] ELSE returns
           /\ queued' = IF outcome = "queue" THEN queued \cup {job[w]} ELSE queued
<1>1. wire[w] \in Seq(Requests) /\ confirms[w] \in Seq(Confirmation)
  BY DEF TypeOK, Confirmation
<1>2. wire[w] # <<>>
  BY DEF BrokerHandles
<1>3. pc[w] = "confirm" /\ job[w] \in Requests
  BY <1>2 DEF WorkerInv, Busy
<1>4. Len(wire[w]) \in Nat /\ Len(confirms[w]) \in Nat /\ Len(wire[w]) # 0
  BY <1>1, <1>2, NoElement
<1>5. Len(wire[w]) = 1 /\ Len(confirms[w]) = 0 /\ Len(wire[w]) <= 1
  <2>1. Len(confirms[w]) + Len(wire[w]) <= 1
    BY DEF WorkerInv
  <2>2. \A a, b \in Nat : a + b <= 1 /\ b # 0 => b = 1 /\ a = 0 /\ b <= 1
    OBVIOUS
  <2>3. QED
    BY <1>4, <2>1, <2>2
<1>6. confirms[w] = <<>>
  BY <1>1, <1>5, NoElement
<1>7. Head(wire[w]) = job[w] /\ Tail(wire[w]) = <<>>
  <2>1. wire[w][1] = job[w]
    BY <1>5 DEF WorkerInv
  <2>2. Head(wire[w]) = wire[w][1] /\ Tail(wire[w]) = <<>>
    BY <1>1, <1>2, <1>5, TailOfOne
  <2>3. QED
    BY <2>1, <2>2
<1>8. wire' \in [Publishers -> Seq(Requests)] /\ wire'[w] = <<>>
  BY <1>7, EmptySeq DEF BrokerHandles, TypeOK
<1>9. confirms' = [confirms EXCEPT ![w] = Append(confirms[w], [msg |-> job[w], ack |-> outcome # "nack"])]
  BY <1>7 DEF BrokerHandles
<1>10. /\ returns' = IF outcome = "return" THEN [returns EXCEPT ![w] = Append(@, job[w])] ELSE returns
       /\ queued' = IF outcome = "queue" THEN queued \cup {job[w]} ELSE queued
  BY <1>7 DEF BrokerHandles
<1>11. QED
  BY <1>3, <1>6, <1>8, <1>9, <1>10

\* Every step of the broker keeps the types.
LEMMA BrokerType ==
    ASSUME TypeOK, NEW w \in Publishers, WorkerInv(w), Broker(w)
    PROVE  TypeOK'
<1>1. PICK outcome \in {"queue", "nack", "return"} : BrokerHandles(w, outcome)
  BY DEF Broker
<1>2. [msg |-> job[w], ack |-> outcome # "nack"] \in Confirmation
  BY <1>1, BrokerEffect DEF Confirmation
<1>3. confirms \in [Publishers -> Seq(Confirmation)]
  BY DEF TypeOK, Confirmation
<1>4. confirms' \in [Publishers -> Seq(Confirmation)]
  <2>1. PICK e : e = Append(<<>>, [msg |-> job[w], ack |-> outcome # "nack"])
    OBVIOUS
  <2>2. e \in Seq(Confirmation)
    BY <1>2, <2>1, AppendFirst
  <2>3. confirms' = [confirms EXCEPT ![w] = e]
    BY <1>1, <2>1, BrokerEffect
  <2>4. QED
    BY <1>3, <2>2, <2>3
<1>5. returns' \in [Publishers -> Seq(Requests)]
  <2>1. returns[w] \in Seq(Requests) /\ job[w] \in Requests
    <3>1. returns[w] \in Seq(Requests)
      BY DEF TypeOK
    <3>2. QED
      BY <1>1, <3>1, BrokerEffect
  <2>2. Append(returns[w], job[w]) \in Seq(Requests)
    BY <2>1
  <2>3. returns \in [Publishers -> Seq(Requests)]
    BY DEF TypeOK
  <2>4. QED
    BY <1>1, <2>2, <2>3, BrokerEffect
<1>6. queued' \subseteq Requests /\ wire' \in [Publishers -> Seq(Requests)]
  <2>1. queued \subseteq Requests
    BY DEF TypeOK
  <2>2. QED
    BY <1>1, <2>1, BrokerEffect
<1>7. Fault \/ UNCHANGED faults
  BY <1>1 DEF BrokerHandles
<1>8. QED
  BY <1>1, <1>4, <1>5, <1>6, <1>7, FaultType DEF BrokerHandles, TypeOK, Confirmation

\* Every step keeps the types.
LEMMA TypeStep ==
    ASSUME TypeOK, \A w \in Publishers : WorkerInv(w), [Next]_vars
    PROVE  TypeOK'
<1>1. ASSUME NEW w \in Publishers, SessionBreaks(w)
      PROVE  TypeOK'
  BY <1>1, FaultType DEF SessionBreaks, TypeOK
<1>2. CASE Close
  BY <1>2, FaultType DEF Close, TypeOK
<1>3. CASE UNCHANGED vars
  BY <1>3 DEF vars, TypeOK
<1>4. QED
  BY <1>1, <1>2, <1>3, RequestType, WorkerType, BrokerType DEF Next

-----------------------------------------------------------------------------
(* Sessions.                                                               *)

\* A worker whose session carries nothing.
LEMMA QuietWorker ==
    ASSUME NEW w \in Publishers,
           confirms'[w] = <<>>, returns'[w] = <<>>, wire'[w] = <<>>,
           pc'[w] \in Busy => job'[w] \in Requests,
           pc'[w] = "backoff" => attempt'[w] < MaxAttempts
    PROVE  WorkerInv(w)'
<1>1. Len(<<>>) = 0
  OBVIOUS
<1>2. /\ Len(confirms'[w]) + Len(wire'[w]) <= 1
      /\ 1..Len(confirms'[w]) = {} /\ 1..Len(returns'[w]) = {} /\ 1..Len(wire'[w]) = {}
  BY <1>1
<1>3. QED
  BY <1>2 DEF WorkerInv

\* A failed attempt leaves a session that carries nothing.
LEMMA AttemptFailsQuiet ==
    ASSUME TypeOK, NEW w \in Publishers, job[w] \in Requests, NEW written, AttemptFails(w, written)
    PROVE  WorkerInv(w)'
<1>1. confirms'[w] = <<>> /\ returns'[w] = <<>> /\ wire'[w] = <<>>
  BY CloseSessionType DEF AttemptFails
<1>2. CASE LastAttempt(w)
  <2>1. pc'[w] = "idle"
    BY <1>2 DEF AttemptFails, Finish, TypeOK
  <2>2. QED
    BY <1>1, <2>1, QuietWorker DEF Busy
<1>3. CASE ~LastAttempt(w)
  <2>1. job'[w] = job[w] /\ attempt'[w] = attempt[w]
    BY <1>3 DEF AttemptFails
  <2>2. attempt[w] < MaxAttempts
    BY <1>3, PublisherAssumption DEF LastAttempt, TypeOK
  <2>3. QED
    BY <1>1, <2>1, <2>2, QuietWorker
<1>4. QED
  BY <1>2, <1>3

\* The worker that takes a step.
LEMMA OwnStep ==
    ASSUME TypeOK, NEW w \in Publishers, WorkerInv(w), WorkerStep(w)
    PROVE  WorkerInv(w)'
<1> DEFINE Quiet == confirms[w] = <<>> /\ returns[w] = <<>> /\ wire[w] = <<>>
<1>1. CASE StopWorker(w)
  <2>1. pc'[w] = "stopped" /\ CloseSession(w)
    BY <1>1 DEF StopWorker, TypeOK
  <2>2. QED
    BY <2>1, CloseSessionType, QuietWorker DEF Busy
<1>2. CASE TakeJob(w)
  <2>1. jobs # <<>> /\ jobs \in Seq(Requests)
    BY <1>2 DEF TakeJob, TypeOK
  <2>2. Head(jobs) \in Requests
    BY <2>1
  <2>3. pc'[w] = "open" /\ job'[w] = Head(jobs)
    BY <1>2 DEF TakeJob, TypeOK
  <2>4. Quiet
    BY <1>2 DEF TakeJob, WorkerInv
  <2>5. UNCHANGED <<confirms, returns, wire>>
    BY <1>2 DEF TakeJob
  <2>6. QED
    BY <2>2, <2>3, <2>4, <2>5, QuietWorker
<1>3. CASE MessageFails(w)
  <2>1. Quiet
    BY <1>3 DEF MessageFails, WorkerInv
  <2>2. pc'[w] = "idle" /\ UNCHANGED <<confirms, returns, wire>>
    BY <1>3 DEF MessageFails, Finish, TypeOK
  <2>3. QED
    BY <2>1, <2>2, QuietWorker DEF Busy
<1>4. CASE OpenSession(w)
  <2>1. Quiet /\ job[w] \in Requests
    BY <1>4 DEF OpenSession, WorkerInv, Busy
  <2>2. pc'[w] = "publish" /\ UNCHANGED <<confirms, returns, wire, job>>
    BY <1>4 DEF OpenSession, TypeOK
  <2>3. QED
    BY <2>1, <2>2, QuietWorker
<1>5. CASE OpenFails(w)
  <2>1. job[w] \in Requests
    BY <1>5 DEF OpenFails, WorkerInv, Busy
  <2>2. QED
    BY <1>5, <2>1, AttemptFailsQuiet DEF OpenFails
<1>6. CASE Publish(w)
  <2>1. Quiet /\ job[w] \in Requests
    BY <1>6 DEF Publish, WorkerInv, Busy
  <2>2. /\ pc'[w] = "confirm" /\ UNCHANGED <<confirms, returns, job>>
        /\ wire'[w] = Append(<<>>, job[w])
    BY <1>6, <2>1 DEF Publish, TypeOK
  <2>3. Len(wire'[w]) = 1 /\ wire'[w][1] = job'[w]
    BY <2>1, <2>2, AppendFirst
  <2>4. /\ Len(confirms'[w]) = 0 /\ Len(returns'[w]) = 0
    BY <2>1, <2>2
  <2>5. QED
    BY <2>1, <2>2, <2>3, <2>4 DEF WorkerInv
<1>7. CASE PublishFails(w)
  <2>1. job[w] \in Requests
    BY <1>7 DEF PublishFails, WorkerInv, Busy
  <2>2. \E written : AttemptFails(w, written)
    BY <1>7 DEF PublishFails
  <2>3. QED
    BY <2>1, <2>2, AttemptFailsQuiet
<1>8. CASE Confirmed(w)
  <2>1. confirms[w] # <<>> /\ returns[w] = <<>>
    BY <1>8 DEF Confirmed, Accepted
  <2>2. confirms[w] \in Seq(Confirmation) /\ wire[w] \in Seq(Requests)
    BY DEF TypeOK, Confirmation
  <2>3. Len(confirms[w]) + Len(wire[w]) <= 1
    BY DEF WorkerInv
  <2>4. Len(confirms[w]) \in Nat \ {0} /\ Len(wire[w]) \in Nat
    BY <2>1, <2>2, EmptySeq
  <2>5. \A a \in Nat \ {0}, b \in Nat : a + b <= 1 => a <= 1 /\ b = 0
    OBVIOUS
  <2>6. Len(confirms[w]) <= 1 /\ Len(wire[w]) = 0
    BY <2>3, <2>4, <2>5
  <2>7. Tail(confirms[w]) = <<>> /\ wire[w] = <<>>
    BY <2>1, <2>2, <2>6, TailOfOne, NoElement
  <2>8. /\ pc'[w] = "idle" /\ confirms'[w] = Tail(confirms[w])
        /\ UNCHANGED <<returns, wire>>
    BY <1>8 DEF Confirmed, Finish, TypeOK
  <2>9. QED
    BY <2>1, <2>7, <2>8, QuietWorker DEF Busy
<1>9. CASE NotConfirmed(w)
  <2>1. job[w] \in Requests
    BY <1>9 DEF NotConfirmed, WorkerInv, Busy
  <2>2. QED
    BY <1>9, <2>1, AttemptFailsQuiet DEF NotConfirmed
<1>10. CASE BackoffElapsed(w)
  <2>1. Quiet /\ job[w] \in Requests
    BY <1>10 DEF BackoffElapsed, WorkerInv, Busy
  <2>2. pc'[w] = "open" /\ UNCHANGED <<confirms, returns, wire, job>>
    BY <1>10 DEF BackoffElapsed, TypeOK
  <2>3. QED
    BY <2>1, <2>2, QuietWorker
<1>11. CASE BackoffInterrupted(w)
  <2>1. Quiet
    BY <1>11 DEF BackoffInterrupted, WorkerInv
  <2>2. pc'[w] = "idle" /\ UNCHANGED <<confirms, returns, wire>>
    BY <1>11 DEF BackoffInterrupted, Finish, TypeOK
  <2>3. QED
    BY <2>1, <2>2, QuietWorker DEF Busy
<1>12. QED
  BY <1>1, <1>2, <1>3, <1>4, <1>5, <1>6, <1>7, <1>8, <1>9, <1>10, <1>11 DEF WorkerStep

\* The session whose message the broker handles: an ack without a return
\* means that the message was queued.
LEMMA BrokerStep ==
    ASSUME TypeOK, NEW w \in Publishers, WorkerInv(w), Broker(w)
    PROVE  WorkerInv(w)'
<1>1. PICK outcome \in {"queue", "nack", "return"} : BrokerHandles(w, outcome)
  BY DEF Broker
<1>2. /\ pc[w] = "confirm" /\ job[w] \in Requests
      /\ wire'[w] = <<>>
      /\ confirms' = [confirms EXCEPT ![w] = Append(<<>>, [msg |-> job[w], ack |-> outcome # "nack"])]
      /\ returns' = IF outcome = "return" THEN [returns EXCEPT ![w] = Append(@, job[w])] ELSE returns
      /\ queued' = IF outcome = "queue" THEN queued \cup {job[w]} ELSE queued
  BY <1>1, BrokerEffect
<1>3. pc' = pc /\ job' = job /\ attempt' = attempt
  BY <1>1 DEF BrokerHandles
<1>4. PICK e : e = [msg |-> job[w], ack |-> outcome # "nack"]
  OBVIOUS
<1>5. confirms'[w] = Append(<<>>, e)
  BY <1>2, <1>4 DEF TypeOK
<1>6. Len(confirms'[w]) = 1 /\ confirms'[w][1] = e
  <2>1. e \in {e}
    OBVIOUS
  <2>2. QED
    BY <1>5, <2>1, AppendFirst
<1>7. \A i \in 1..Len(returns'[w]) : returns'[w][i] = job[w]
  <2>1. returns[w] \in Seq(Requests) /\ \A i \in 1..Len(returns[w]) : returns[w][i] = job[w]
    BY DEF TypeOK, WorkerInv
  <2>2. CASE outcome # "return"
    BY <1>2, <2>1, <2>2
  <2>3. CASE outcome = "return"
    <3>1. returns'[w] = Append(returns[w], job[w])
      BY <1>2, <2>3 DEF TypeOK
    <3>2. /\ Len(returns'[w]) = Len(returns[w]) + 1
          /\ \A i \in 1..Len(returns[w]) : returns'[w][i] = returns[w][i]
          /\ returns'[w][Len(returns[w]) + 1] = job[w]
          /\ Len(returns[w]) \in Nat
      BY <1>2, <2>1, <3>1, AppendProperties
    <3>3. QED
      BY <2>1, <3>2
  <2>4. QED
    BY <2>2, <2>3
<1>8. e.ack /\ returns'[w] = <<>> => job[w] \in queued'
  <2>1. CASE outcome = "queue"
    BY <1>2, <2>1
  <2>2. CASE outcome = "nack"
    BY <1>4, <2>2
  <2>3. CASE outcome = "return"
    <3>1. returns[w] \in Seq(Requests)
      BY DEF TypeOK
    <3>2. returns'[w] = Append(returns[w], job[w])
      BY <1>2, <2>3 DEF TypeOK
    <3>3. returns'[w] # <<>>
      BY <1>2, <3>1, <3>2, AppendProperties
    <3>4. QED
      BY <3>3
  <2>4. QED
    BY <2>1, <2>2, <2>3
<1>9. e.msg = job[w]
  BY <1>4
<1>10. Len(wire'[w]) = 0
  BY <1>2
<1>11. QED
  BY <1>2, <1>3, <1>6, <1>7, <1>8, <1>9, <1>10 DEF WorkerInv

\* What belongs to the worker w.
Own(w) == <<pc[w], job[w], attempt[w], confirms[w], returns[w], wire[w]>>

\* A step concerns one worker at most, and the queue only grows.
LEMMA OthersUntouched ==
    ASSUME TypeOK, NEW w \in Publishers, WorkerStep(w) \/ Broker(w) \/ SessionBreaks(w),
           NEW v \in Publishers, v # w
    PROVE  Own(v)' = Own(v)
<1>1. CASE WorkerStep(w)
  BY <1>1 DEF WorkerStep, Own, TypeOK, StopWorker, TakeJob, MessageFails, OpenSession, OpenFails, Publish, PublishFails,
              Confirmed, NotConfirmed, BackoffElapsed, BackoffInterrupted, AttemptFails, Finish, CloseSession
<1>2. CASE Broker(w) \/ SessionBreaks(w)
  BY <1>2 DEF Own, TypeOK, Broker, BrokerHandles, SessionBreaks
<1>3. QED
  BY <1>1, <1>2

\* The queue only grows.
LEMMA QueueGrows ==
    ASSUME [Next]_vars
    PROVE  queued \subseteq queued'
BY DEF Next, vars, poolVars, RequestStep, Arrive, Submit, GiveUp, Answer, ClientLeaves, OrphanArrives, WorkerStep,
       StopWorker, TakeJob, MessageFails, OpenSession, OpenFails, Publish, PublishFails, Confirmed, NotConfirmed,
       BackoffElapsed, BackoffInterrupted, AttemptFails, Broker, BrokerHandles, SessionBreaks, Close

\* Every worker keeps its invariant.
LEMMA WorkersStep ==
    ASSUME TypeOK, \A w \in Publishers : WorkerInv(w), [Next]_vars, NEW v \in Publishers
    PROVE  WorkerInv(v)'
<1>1. CASE Own(v)' = Own(v)
  <2>1. queued \subseteq queued'
    BY QueueGrows
  <2>2. WorkerInv(v)
    OBVIOUS
  <2>3. QED
    BY <1>1, <2>1, <2>2 DEF Own, WorkerInv
<1>2. ASSUME NEW w \in Publishers, WorkerStep(w) \/ Broker(w)
      PROVE  WorkerInv(v)'
  <2>1. CASE w = v
    BY <1>2, <2>1, OwnStep, BrokerStep
  <2>2. CASE w # v
    BY <1>1, <1>2, <2>2, OthersUntouched
  <2>3. QED
    BY <2>1, <2>2
<1>3. ASSUME \/ \E r \in Requests : RequestStep(r) \/ ClientLeaves(r) \/ OrphanArrives(r)
             \/ \E w \in Publishers : SessionBreaks(w)
             \/ Close
             \/ UNCHANGED vars
      PROVE  Own(v)' = Own(v)
  BY <1>3 DEF Own, vars, poolVars, RequestStep, Arrive, Submit, GiveUp, Answer, ClientLeaves, OrphanArrives,
              SessionBreaks, Close
<1>4. QED
  BY <1>1, <1>2, <1>3 DEF Next

\* A result is "ok" only for a message in the queue, and so is the answer.
LEMMA AcknowledgedStep ==
    ASSUME Inv, [Next]_vars
    PROVE  Acknowledged'
<1>1. queued \subseteq queued'
  BY QueueGrows
<1>2. ASSUME NEW w \in Publishers, Confirmed(w)
      PROVE  job[w] \in queued /\ result' = [result EXCEPT ![job[w]] = "ok"]
  <2>1. confirms[w] # <<>> /\ Head(confirms[w]).ack /\ returns[w] = <<>>
    BY <1>2 DEF Confirmed, Accepted
  <2>2. confirms[w] \in Seq(Confirmation)
    BY DEF Inv, TypeOK, Confirmation
  <2>3. Len(confirms[w]) \in Nat \ {0} /\ Head(confirms[w]) = confirms[w][1]
    BY <2>1, <2>2, EmptySeq
  <2>4. 1 \in 1..Len(confirms[w])
    BY <2>3
  <2>5. confirms[w][1].ack /\ returns[w] = <<>> => job[w] \in queued
    <3>1. WorkerInv(w)
      BY DEF Inv
    <3>2. QED
      BY <2>4, <3>1, Zenon DEF WorkerInv
  <2>6. confirms[w][1].ack
    BY <2>1, <2>3, Zenon
  <2>7. job[w] \in queued
    BY <2>1, <2>5, <2>6, Zenon
  <2>8. QED
    BY <1>2, <2>7 DEF Confirmed, Finish
<1>3. \A r \in Requests : result'[r] = "ok" => result[r] = "ok" \/ r \in queued
  <2>1. ASSUME NEW w \in Publishers, WorkerStep(w)
        PROVE  \A r \in Requests : result'[r] = "ok" => result[r] = "ok" \/ r \in queued
    <3>1. CASE Confirmed(w)
      BY <1>2, <3>1 DEF Inv, TypeOK
    <3>2. CASE ~Confirmed(w)
      <4>1. Finish(w, "error") \/ result' = result
        BY <2>1, <3>2 DEF WorkerStep, StopWorker, TakeJob, MessageFails, OpenSession, OpenFails, Publish, PublishFails,
              NotConfirmed, BackoffElapsed, BackoffInterrupted, AttemptFails
      <4>2. QED
        BY <4>1 DEF Finish, Inv, TypeOK
    <3>3. QED
      BY <3>1, <3>2
  <2>2. (\A w \in Publishers : ~WorkerStep(w)) => result' = result
    BY DEF Next, vars, RequestStep, Arrive, Submit, GiveUp, Answer, ClientLeaves, OrphanArrives, Broker, BrokerHandles,
           SessionBreaks, Close
  <2>3. QED
    BY <2>1, <2>2
<1>4. \A r \in Requests : request'[r] = "ok" => request[r] = "ok" \/ result[r] = "ok"
  <2>1. ASSUME NEW r \in Requests, RequestStep(r)
        PROVE  \A q \in Requests : request'[q] = "ok" => request[q] = "ok" \/ result[q] = "ok"
    BY <2>1 DEF RequestStep, Arrive, Submit, GiveUp, Answer, Inv, TypeOK
  <2>2. (\A r \in Requests : ~RequestStep(r)) => request' = request
    BY DEF Next, vars, ClientLeaves, OrphanArrives, WorkerStep,
           StopWorker, TakeJob, MessageFails, OpenSession, OpenFails, Publish, PublishFails, Confirmed, NotConfirmed,
           BackoffElapsed, BackoffInterrupted, AttemptFails, Broker, BrokerHandles, SessionBreaks, Close
  <2>3. QED
    BY <2>1, <2>2
<1>5. QED
  BY <1>1, <1>3, <1>4 DEF Inv, Acknowledged, AcceptedIsQueued

-----------------------------------------------------------------------------
(* The theorems.                                                           *)

\* Inv holds in every state.
LEMMA InvInvariant == Spec => []Inv
<1>1. ASSUME Init
      PROVE  Inv
  <2> USE <1>1, PublisherAssumption
  <2>1. TypeOK
    <3>1. confirms \in [Publishers -> Seq(Confirmation)]
      <4>1. <<>> \in Seq(Confirmation)
        BY EmptySeq
      <4>2. QED
        BY <4>1, Zenon DEF Init
    <3>2. /\ jobs \in Seq(Requests) /\ Len(jobs) <= JobsCap
          /\ returns \in [Publishers -> Seq(Requests)]
          /\ wire \in [Publishers -> Seq(Requests)]
      BY EmptySeq DEF Init, PublisherAssumption
    <3>3. /\ request \in [Requests -> {"new", "submitting", "waiting", "ok", "error"}]
          /\ result \in [Requests -> {"none", "ok", "error"}]
          /\ pc \in [Publishers -> {"idle", "open", "publish", "confirm", "backoff", "stopped"}]
          /\ session \in [Publishers -> {"none", "open", "broken"}]
      BY DEF Init
    <3>4. /\ job \in [Publishers -> Requests \cup {NoRequest}]
          /\ attempt \in [Publishers -> 1..MaxAttempts]
          /\ faults \in 0..MaxFaults
      BY DEF Init, PublisherAssumption
    <3>5. gone \subseteq Requests /\ closed \in BOOLEAN /\ orphans \subseteq Requests /\ queued \subseteq Requests
      BY DEF Init
    <3>6. QED
      BY <3>1, <3>2, <3>3, <3>4, <3>5, Zenon DEF TypeOK, Confirmation
  <2>2. \A w \in Publishers : WorkerInv(w)
    BY DEF Init, WorkerInv, Busy
  <2>3. Acknowledged
    BY DEF Init, Acknowledged, AcceptedIsQueued
  <2>4. QED
    BY <2>1, <2>2, <2>3 DEF Inv
<1>2. ASSUME Inv, [Next]_vars
      PROVE  Inv'
  BY <1>2, TypeStep, WorkersStep, AcknowledgedStep DEF Inv
<1>3. QED
  BY <1>1, <1>2, PTL DEF Spec

\* The pool is well-formed: the jobs channel within its capacity, attempts
\* within MaxAttempts.
THEOREM TypeCorrect == Spec => []TypeOK
BY InvInvariant, PTL DEF Inv

\* The API answers 200 only for a message the ingest queue has received.
THEOREM AcceptedIsQueuedAlways == Spec => []AcceptedIsQueued
<1>1. Inv => AcceptedIsQueued
  BY DEF Inv, Acknowledged
<1>2. QED
  BY <1>1, InvInvariant, PTL

\* What a worker reads from its session concerns the job it is publishing.
THEOREM NoStaleConfirmEver == Spec => []NoStaleConfirm
<1>1. Inv => NoStaleConfirm
  BY DEF Inv, WorkerInv, NoStaleConfirm
<1>2. QED
  BY <1>1, InvInvariant, PTL
=============================================================================
