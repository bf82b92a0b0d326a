---------------------------- MODULE OrderPromise ----------------------------
(***************************************************************************)
(* What an order book promises to the owner of an order, whatever the      *)
(* statuses, callbacks and sweeps inside: an order that was accepted only  *)
(* ever accumulates executions up to its size, is done as soon as it is    *)
(* completely executed, and nothing happens to it once it is done.         *)
(* Several orders may move in one step (a sweep, a sibling cancellation).  *)
(***************************************************************************)
EXTENDS Naturals

CONSTANTS
  Orders      (* the identities orders can have *)

VARIABLES
  phase,      (* [Orders -> {"none", "open", "done"}]            *)
  size,       (* [Orders -> Nat], fixed when the order is placed *)
  executed    (* [Orders -> Nat], the quantity executed so far   *)

vars == <<phase, size, executed>>

Init ==
  /\ phase = [o \in Orders |-> "none"]
  /\ size = [o \in Orders |-> 0]
  /\ executed = [o \in Orders |-> 0]

Place(o) ==
  /\ phase[o] = "none" /\ phase'[o] = "open"
  /\ executed'[o] = executed[o]

Execute(o) ==
  /\ phase[o] = "open" /\ size'[o] = size[o]
  /\ executed'[o] > executed[o] /\ executed'[o] <= size[o]
  /\ phase'[o] = IF executed'[o] = size[o] THEN "done" ELSE "open"

Close(o) ==
  /\ phase[o] = "open" /\ phase'[o] = "done"
  /\ size'[o] = size[o] /\ executed'[o] = executed[o]

Rest(o) ==
  /\ phase'[o] = phase[o] /\ size'[o] = size[o] /\ executed'[o] = executed[o]

Next == \A o \in Orders : Place(o) \/ Execute(o) \/ Close(o) \/ Rest(o)

Spec == Init /\ [][Next]_vars

=============================================================================
