------------------------------- MODULE MCBrain -------------------------------
(* Instances of Brain. *)
EXTENDS Brain
=============================================================================
