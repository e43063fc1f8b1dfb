------------------------- MODULE MCNamespaceClaims -------------------------
(***************************************************************************)
(* Small instances for the statements of NamespaceClaims.                  *)
(***************************************************************************)
EXTENDS NamespaceClaims

ExactLike == [n \in Names |-> n]

(* SQLite's LIKE: the names differ in case only. *)
FoldedLike == [n \in Names |-> CHOOSE m \in Names : TRUE]

TinyPayloads == {<<b>> : b \in Bytes}

Symmetry == Permutations(Names) \cup Permutations(Bytes)
=============================================================================
