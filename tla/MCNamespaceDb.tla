--------------------------- MODULE MCNamespaceDb ---------------------------
(***************************************************************************)
(* Small instances of NamespaceDb and of its refinement of FileSystem.     *)
(***************************************************************************)
EXTENDS NamespaceRefinement

(* A backend whose LIKE is case sensitive: PostgreSQL, MySQL, Oracle. *)
ExactLike == [n \in Names |-> n]

(* The instance for directory trees: contents hardly matter. *)
TinyPayloads == {<<b>> : b \in Bytes}

(* The instance for block graphs: empty data, a partial block, and data that
   spans two blocks and whose halves differ. *)
BlockPayloads ==
  {<<>>} \cup {<<b>> : b \in Bytes}
         \cup {<<p[1], p[1], p[2]>> : p \in {q \in Bytes \X Bytes : q[1] # q[2]}}

Symmetry == Permutations(Names) \cup Permutations(Bytes)
=============================================================================
