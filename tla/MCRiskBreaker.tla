--------------------------- MODULE MCRiskBreaker ---------------------------
(* Instances of RiskBreaker: positions are interchangeable. *)
EXTENDS RiskBreaker, TLC

Symmetry == Permutations(PositionIds)
=============================================================================
