----------------------------- MODULE MCStreamBus ----------------------------
(* Instances of StreamBus. *)
EXTENDS StreamBus, TLC

(* Nothing tells one message, consumer or caller from another. *)
Alike == Permutations(Messages) \union Permutations(Consumers) \union Permutations(Claimers)
=============================================================================
