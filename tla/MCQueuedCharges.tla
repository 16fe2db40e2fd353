--------------------------- MODULE MCQueuedCharges ---------------------------
(* Small instances of QueuedCharges for TLC. *)
EXTENDS QueuedCharges
=============================================================================
