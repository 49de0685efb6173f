--------------------------- MODULE MCOutboxRelay ---------------------------
(* A small instance of OutboxRelay.                                         *)
EXTENDS OutboxRelay
=============================================================================
