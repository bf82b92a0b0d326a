----------------------------- MODULE MCBulkhead -----------------------------
(* Instances of Bulkhead. *)
EXTENDS Bulkhead
=============================================================================
