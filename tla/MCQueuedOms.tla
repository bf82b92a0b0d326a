---------------------------- MODULE MCQueuedOms -----------------------------
(* Instances of QueuedOms. *)
EXTENDS QueuedOms, TLC
=============================================================================
