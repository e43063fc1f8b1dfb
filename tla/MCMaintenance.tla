---------------------------- MODULE MCMaintenance ----------------------------
(* Small instances of Maintenance. *)
EXTENDS Maintenance

ExactLike == [n \in Names |-> n]

(* Two different bytes in a row show bytes lost, doubled or out of order. *)
TwoBytes == {<<0, 1>>}

Symmetry == Permutations(Names)
=============================================================================
