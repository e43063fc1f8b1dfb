------------------------------ MODULE MCHandles ------------------------------
(* Small instances of Handles. *)
EXTENDS Handles, TLC

MCIdentity == [n \in Names |-> n]

TwoPayloads == {<<1>>, <<2, 2>>}
BytePayloads == {<<1>>}

Symmetry == Permutations(Handles) \cup Permutations(Threads)
=============================================================================
