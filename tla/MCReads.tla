------------------------------- MODULE MCReads -------------------------------
(***************************************************************************)
(* Small instances of Reads, and beside them, as behaviors of their own in *)
(* which nothing is stored, the examples of MCRanges: their blocks are     *)
(* longer and more than those of the files.                                *)
(***************************************************************************)
EXTENDS Reads, MCRanges, TLC

ExactLike == [n \in Names |-> n]

(* Contents that differ in length, and of one length in their bytes. *)
SomePayloads == {<<x, x>> : x \in Bytes} \cup {<<x>> : x \in Bytes}

NothingStored == disk = EmptyDb /\ reader = [r \in Readers |-> Nobody]

InitBoth == Init /\ NoExample

ReadsOrRanges ==
  /\ InitBoth
  /\ [][\/ NoExample /\ Next /\ UNCHANGED rangeVars
        \/ NothingStored /\ NextExample /\ UNCHANGED vars]_<<vars, rangeVars>>

Symmetry == Permutations(Bytes)

(* The disagreement.  usage.md:226-228: a read handle raises FileConflictError
   instead of returning mixed bytes from two versions.  So what it returns of a
   file that is still there is of the content that the file had when it was
   opened. *)
HandleReadsOneVersion ==
  \A r \in Readers :
    ReturnedBytes(r) /\ reader[r].kind = "range" /\ reader[r].node \in NodeIds(disk)
      => reader[r].truth = reader[r].file.was
=============================================================================
