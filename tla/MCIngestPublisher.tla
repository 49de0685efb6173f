------------------------- MODULE MCIngestPublisher -------------------------
(* A small instance of IngestPublisher: two requests that compete for a     *)
(* channel of one place and a pool of two workers with two attempts each.   *)
EXTENDS IngestPublisher

CONSTANTS r1, r2, w1, w2

MCRequests == {r1, r2}
MCPublishers == {w1, w2}
=============================================================================
