------------------------------ MODULE EventLog ------------------------------
(***************************************************************************)
(* What flushing metric points promises, as one atomic step: the points    *)
(* that are new become durable, and for each task with new points one      *)
(* event holding exactly those points is appended to the task's log.       *)
(***************************************************************************)
EXTENDS Naturals, Sequences

CONSTANTS Tasks, Points, TaskOf

VARIABLES points,  \* durable points
          log      \* log[t]: the sets of points of the events of t, in order

vars == <<points, log>>

PointsOfTask(new, t) == {p \in new : TaskOf[p] = t}

Init == /\ points = {}
        /\ log = [t \in Tasks |-> <<>>]

Flush(new) ==
    /\ new \cap points = {}
    /\ points' = points \cup new
    /\ log' = [t \in Tasks |-> IF PointsOfTask(new, t) = {} THEN log[t]
                               ELSE Append(log[t], PointsOfTask(new, t))]

\* Retention takes points away and leaves the log as it is.
Expire(old) ==
    /\ old \subseteq points
    /\ points' = points \ old
    /\ UNCHANGED log

Next == \E S \in SUBSET Points : Flush(S) \/ Expire(S)

Spec == Init /\ [][Next]_vars
=============================================================================
