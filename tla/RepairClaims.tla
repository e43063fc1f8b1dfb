---------------------------- MODULE RepairClaims ----------------------------
(* What the documents and tests say of fsspec_repair and the code does not
   do. *)
EXTENDS Repair

(* The test of the recovery ends with fsspec_fsck finding no errors: after a
   recovery that exits 0 no file has descendants.  A descendant that is a file
   itself and has descendants takes its conflict along to the recovery
   prefix. *)
RecoveryEndsConflicts ==
  JustRepaired /\ last.recover /\ last.outcome = "ok" =>
    "path_conflict" \notin Findings(db, last.scope)

(* What the recovery moves is a descendant of a file: in a global run, rows
   of one namespace are taken for descendants of a file of another. *)
OnlyDescendantsMove ==
  [][last'.op = "repair" =>
       \A n \in NodeIds(db) :
         db'.nodes[n].path # db.nodes[n].path =>
           \E f \in TypedIn(db, db.nodes[n].ns, "file") :
             LikeBelow(db.nodes[f].path, db.nodes[n].path)]_vars

(* A repair exits 0 when no unresolved damage remains, so it does not while
   fsspec_fsck has a critical finding: a node of no known type is ignored. *)
NoCriticalAfterRepair ==
  JustRepaired /\ last.outcome = "ok" =>
    Findings(db, last.scope) \cap {"invalid_node_type", "shared_storage_block"} = {}
=============================================================================
