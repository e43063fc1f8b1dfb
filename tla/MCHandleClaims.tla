--------------------------- MODULE MCHandleClaims ---------------------------
(* Small instances of HandleClaims. *)
EXTENDS HandleClaims, TLC

MCIdentity == [n \in Names |-> n]

TwoPayloads == {<<1>>, <<2, 2>>}

Symmetry == Permutations(Handles)
=============================================================================
