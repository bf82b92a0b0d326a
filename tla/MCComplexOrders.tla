-------------------------- MODULE MCComplexOrders --------------------------
(* Instances of ComplexOrders: the families of ids a cfg leaves empty do   *)
(* not occur in it.                                                        *)
EXTENDS ComplexOrders, TLC

CONSTANTS o1, o2, Quantity

MCLegsOf == [g \in OcoIds |-> {o1, o2}]
MCOrders == UNION {MCLegsOf[g] : g \in OcoIds} \union Entries \union Icebergs
              \union ExitIds \union SliceIds
MCRequests == { [side |-> "BUY", order_type |-> "LIMIT", quantity |-> Quantity,
                 price |-> 2, expires |-> FALSE] }

(* The two legs of an OCO pair are interchangeable. *)
Symmetry == Permutations({o1, o2})
=============================================================================
