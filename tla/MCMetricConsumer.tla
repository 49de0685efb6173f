-------------------------- MODULE MCMetricConsumer --------------------------
(* A small instance of MetricConsumer: a message of three rows, which no    *)
(* batch holds at once, and an invalid message.                             *)
EXTENDS MetricConsumer, TLC

CONSTANTS m, bad, p1, p2, p3, p4

MCMessages == {m, bad}
MCInvalid == {bad}
MCPoints == {p1, p2, p3, p4}
MCPointsOf == m :> <<p1, p2, p3>> @@ bad :> <<p4>>
=============================================================================
