------------------------- MODULE MCMetricPointStore -------------------------
(* Two tasks, four points, batches that overlap, repeat a point and list    *)
(* the tasks in both orders; three points of task 1, so that two flushes    *)
(* can meet on a counter that a third one has seeded.                       *)
EXTENDS MetricPointStore, TLC

CONSTANTS a, b, c, d

MCPoints == {a, b, c, d}
MCTaskOf == a :> 1 @@ b :> 2 @@ c :> 1 @@ d :> 1
MCBatches == {<<a, b>>, <<b, a>>, <<c, c>>, <<a, c>>, <<b, d>>, <<>>}

MCSymmetry == Permutations(Workers)
=============================================================================
