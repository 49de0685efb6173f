----------------------- MODULE MCPartitionMaintenance -----------------------
(* The window and retention of the code over three and a half days.  The    *)
(* timestamps lie around the limits of the window at the start (day 0):     *)
(* before it, on its first day, and around the retention limit.             *)
EXTENDS PartitionMaintenance

MCStart == 0
MCEnd == 6
MCTimestamps == {-18, -15, -14, -13}
=============================================================================
