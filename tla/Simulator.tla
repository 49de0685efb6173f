----------------------------- MODULE Simulator -----------------------------
(***************************************************************************)
(* The simulator against the pipeline: a goroutine per task posts batches, *)
(* repeating or dropping some, and keeps what it expects to be stored;     *)
(* when all have ended, the audit of every task is compared with that.     *)
(*                                                                         *)
(* The simulator runs alone or other clients do: their tasks are different *)
(* ones, and every query and every audit is about one task.                *)
(***************************************************************************)
EXTENDS Pipeline

CONSTANTS
    SimTasks,      \* the task ids <prefix>-0001, <prefix>-0002, ...
    PrefixLength,
    BatchSize,
    Loss, LR, EvalLoss, \* metric keys; the optional ones besides eval_loss are left out
    EvalEvery,
    StartTS,
    Interval,      \* milliseconds between samples
    Audit,         \* the -audit flag
    MaxSteps,      \* bound: steps the generator of each task makes
    MaxFaults      \* bound: calls to the API that fail

\* Config.Validate; StartTS and Interval are NewGenerator's.
ASSUME SimulatorAssumption ==
    /\ SimTasks \subseteq TaskIDPattern /\ SimTasks # {}
    /\ PrefixLength \in 1..48 /\ \A t \in SimTasks : Length[t] = PrefixLength + 5
    /\ BatchSize \in 1..MaxBatchSize
    /\ EvalEvery \in Nat \ {0}
    /\ {Loss, LR, EvalLoss} \subseteq Names
    /\ StartTS \in Nat \ {0} /\ Interval \in Nat \ {0}
    /\ Audit \in BOOLEAN

VARIABLES
    running,   \* tasks whose goroutine has not ended
    step,      \* the generator's next step
    history,   \* batches that were accepted
    expected,  \* expectedState
    failures,  \* tasks whose post failed
    phase,     \* off, posting, auditing, done
    audited,   \* tasks of this round of auditOnce
    pass,      \* AuditResult.Pass
    faults     \* calls that failed

simulatorVars == <<running, step, history, expected, failures, phase, audited, pass, faults>>
goroutineVars == <<running, step, history, expected, failures>>
auditVars == <<phase, audited, pass, faults>>
vars == <<pipelineVars, simulatorVars>>

Init ==
    /\ PipelineInit
    /\ \/ phase = "posting" /\ running = SimTasks
       \/ phase = "off" /\ running = {}
    /\ step = [t \in SimTasks |-> 0]
    /\ history = [t \in SimTasks |-> {}]
    /\ expected = [t \in SimTasks |->
            [batches |-> {}, pointCount |-> 0, steps |-> {}, keys |-> {}]]
    /\ failures = {}
    /\ audited = {}
    /\ pass = [t \in SimTasks |-> TRUE]
    /\ faults = 0

-----------------------------------------------------------------------------
(* The goroutine of a task.                                                *)

\* A sample of the generator.  What a value is matters to nobody.
Sample(n) ==
    [step |-> n, ts |-> StartTS + n * Interval,
     metrics |-> [k \in {Loss, LR} \cup (IF n % EvalEvery = 0 THEN {EvalLoss} ELSE {}) |-> n]]

NextBatch(t) == [i \in 1..BatchSize |-> Sample(step[t] + i - 1)]

\* postBatch
PostRequest(t, b) ==
    [mediaType |-> "application/json", body |-> "object", task |-> t, batch |-> b]

\* batchFingerprint
Fingerprint(b) == <<b[1].step, b[Len(b)].step>>

\* Mutant: a repeated batch is expected again.
BugAddExpected(e, b) ==
    [batches |-> e.batches \cup {Fingerprint(b)},
     pointCount |-> e.pointCount + MapThenSumSet(LAMBDA i : Cardinality(DOMAIN b[i].metrics), DOMAIN b),
     steps |-> e.steps \cup {b[i].step : i \in DOMAIN b},
     keys |-> e.keys \cup UNION {DOMAIN b[i].metrics : i \in DOMAIN b}]

\* addExpected, called for the first post of a batch.
AddExpected(e, b) ==
    IF Fingerprint(b) \in e.batches THEN e
    ELSE [batches |-> e.batches \cup {Fingerprint(b)},
          pointCount |-> e.pointCount
                + MapThenSumSet(LAMBDA i : Cardinality(DOMAIN b[i].metrics), DOMAIN b),
          steps |-> e.steps \cup {b[i].step : i \in DOMAIN b},
          keys |-> e.keys \cup UNION {DOMAIN b[i].metrics : i \in DOMAIN b}]

\* One turn of the loop generates a batch even when it sends an old one or,
\* by FailureRate, nothing.
Turn(t) ==
    /\ t \in running
    /\ step[t] < MaxSteps[t]
    /\ step' = [step EXCEPT ![t] = @ + BatchSize]

DropBatch(t) ==
    /\ Turn(t)
    /\ UNCHANGED <<pipelineVars, running, history, expected, failures, auditVars>>

PostAccepted(t, b) ==
    /\ Turn(t)
    /\ Accepts(PostRequest(t, b))
    /\ Publish(PostRequest(t, b))
    /\ history' = [history EXCEPT ![t] = @ \cup {b}]
    /\ expected' = [expected EXCEPT ![t] = AddExpected(@, b)]
    /\ UNCHANGED <<deadLetters, points, posts, running, failures, auditVars>>

\* An error, or no answer: the batch may have been queued all the same.
PostFails(t, b) ==
    /\ Turn(t)
    /\ faults < MaxFaults
    /\ faults' = faults + 1
    /\ \/ Accepts(PostRequest(t, b)) /\ Publish(PostRequest(t, b))
       \/ UNCHANGED queue
    /\ running' = running \ {t}
    /\ failures' = failures \cup {t}
    /\ UNCHANGED <<deadLetters, points, posts, history, expected, phase, audited, pass>>

\* The duration is over or the context done.
StopPosting(t) ==
    /\ t \in running
    /\ running' = running \ {t}
    /\ UNCHANGED <<pipelineVars, step, history, expected, failures, auditVars>>

-----------------------------------------------------------------------------
(* The report.                                                             *)

\* wg.Wait and the collection of the results.
CollectReport ==
    /\ phase = "posting"
    /\ running = {}
    /\ phase' = IF Audit THEN "auditing" ELSE "done"
    /\ UNCHANGED <<pipelineVars, goroutineVars, audited, pass, faults>>

\* finish
ExpectedMissing(e) ==
    IF e.steps = {} THEN {} ELSE (Min(e.steps)..Max(e.steps)) \ e.steps

\* Mutant: no look at the number of points.
BugMatches(e, a) ==
    /\ a.exists
    /\ a.distinctSteps = Cardinality(e.steps)
    /\ a.keys = e.keys
    /\ a.missingSteps = ExpectedMissing(e)

\* compareAudit; 404 is an error.
Matches(e, a) ==
    /\ a.exists
    /\ a.pointCount = e.pointCount
    /\ a.distinctSteps = Cardinality(e.steps)
    /\ a.firstStep = IF e.steps = {} THEN Null ELSE Min(e.steps)
    /\ a.lastStep = IF e.steps = {} THEN Null ELSE Max(e.steps)
    /\ a.keys = e.keys
    /\ a.missingSteps = ExpectedMissing(e)

\* auditOnce: the next task in order.
NextToAudit(t) ==
    /\ phase = "auditing"
    /\ t \in SimTasks \ audited
    /\ \A u \in SimTasks \ audited : t <= u

CompareAudit(t) ==
    /\ NextToAudit(t)
    /\ pass' = [pass EXCEPT ![t] = Matches(expected[t], QueryAudit(points, t))]
    /\ audited' = audited \cup {t}
    /\ UNCHANGED <<pipelineVars, goroutineVars, phase, faults>>

\* A failed call, an answer that is not 2xx, or a done context.
AuditCallFails(t) ==
    /\ NextToAudit(t)
    /\ faults < MaxFaults
    /\ faults' = faults + 1
    /\ pass' = [pass EXCEPT ![t] = FALSE]
    /\ audited' = audited \cup {t}
    /\ UNCHANGED <<pipelineVars, goroutineVars, phase>>

RoundOver == phase = "auditing" /\ audited = SimTasks

AllAuditResultsPass ==
    /\ RoundOver
    /\ \A t \in SimTasks : pass[t]
    /\ phase' = "done"
    /\ UNCHANGED <<pipelineVars, goroutineVars, audited, pass, faults>>

\* The interval passes before the deadline.  auditOnce starts each result
\* afresh, and nobody looks at one before the round is over.
NextRound ==
    /\ RoundOver
    /\ \E t \in SimTasks : ~pass[t]
    /\ audited' = {}
    /\ pass' = [t \in SimTasks |-> TRUE]
    /\ UNCHANGED <<pipelineVars, goroutineVars, phase, faults>>

\* The deadline, a done context, or no timeout at all: one round only.
GiveUp ==
    /\ RoundOver
    /\ \E t \in SimTasks : ~pass[t]
    /\ phase' = "done"
    /\ UNCHANGED <<pipelineVars, goroutineVars, audited, pass, faults>>

\* Report.Pass
ReportPass == phase = "done" /\ failures = {} /\ \A t \in SimTasks : pass[t]

Next ==
    \/ PipelineNext /\ UNCHANGED simulatorVars
    \/ \E r \in Requests : phase = "off" /\ IngestMetrics(r) /\ UNCHANGED simulatorVars
    \/ \E d \in Foreign : phase = "off" /\ PublishForeign(d) /\ UNCHANGED simulatorVars
    \/ \E t \in SimTasks :
        \/ DropBatch(t)
        \/ \E b \in {NextBatch(t)} \cup history[t] : PostAccepted(t, b) \/ PostFails(t, b)
        \/ StopPosting(t)
        \/ CompareAudit(t)
        \/ AuditCallFails(t)
    \/ CollectReport
    \/ AllAuditResultsPass
    \/ NextRound
    \/ GiveUp

Spec == Init /\ [][Next]_vars

\* The workers go on, and so does the audit loop; that it gives up is never
\* assumed.
FairSpec ==
    /\ Spec
    /\ WF_vars(UNCHANGED simulatorVars /\ WorkerProgress)
    /\ WF_simulatorVars((\E t \in SimTasks : CompareAudit(t)) \/ AllAuditResultsPass \/ NextRound)

-----------------------------------------------------------------------------
(* Properties.                                                             *)

\* Everything the goroutine of a task was told is accepted.
SentPoints(t) ==
    UNION {{Identity(p) : p \in ToSet(ExpandMetricPoints([task |-> t, batch |-> b]))} : b \in history[t]}

\* An audited run that passes means what it says: the points of the
\* simulator's tasks are the ones whose posts were accepted, none missing,
\* none extra, though the audit compares counts, steps and keys only, and
\* looks at the tasks one after the other while the workers go on.
PassMeansStored ==
    Audit /\ ReportPass =>
        \A t \in SimTasks : {Identity(p) : p \in OfTask(points, t)} = SentPoints(t)

\* The run can be audited: every post was answered with 200, every task sent
\* something, the days of its samples have partitions (the simulator starts
\* its clock now), and the audit lists the gaps of its steps.
Auditable ==
    /\ phase = "auditing"
    /\ failures = {}
    /\ \A t \in SimTasks :
        /\ expected[t].steps # {}
        /\ \A n \in expected[t].steps : Sample(n).ts \notin Unpartitioned
        /\ Max(expected[t].steps) - Min(expected[t].steps) <= MissingLimit

\* The audit of such a run, if it is given the time, ends by passing: the
\* points arrive, and repeated and redelivered batches are counted by neither
\* side.
AuditPasses == Auditable ~> phase = "done"
=============================================================================
