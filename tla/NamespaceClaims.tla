-------------------------- MODULE NamespaceClaims --------------------------
(***************************************************************************)
(* Statements that the documentation, a docstring or the design notes make *)
(* about the operations and that some interleaving or some argument of     *)
(* theirs refutes.  Each has a configuration of its own, under which TLC    *)
(* finds the counterexample.                                               *)
(***************************************************************************)
EXTENDS NamespaceDb

(* copy_file: "Copy a file from src to dst (no block reuse, copies data)".
   When the copy commits, the destination holds the bytes of the row that was
   looked up.  A copy of a file onto itself, or onto a path that the source
   has been moved to, releases the source's blocks before it lists them and
   commits an empty file. *)
CopyCopies ==
  [][tx.open /\ Copying /\ db' # db /\ tx.call.node \in NodeIds(db) =>
       \E k \in NodesAt(db', tx.call.dst) :
         Content(db', k) = Content(db, tx.call.node)]_vars

(* Recursive mv "rewrites paths and leaves block rows untouched": every row at
   or below the source is still there after the move.  With overwrite and a
   destination above the source, clearing the destination deletes them. *)
MoveKeepsSource ==
  [][\A src, dst \in Paths, ow \in BOOLEAN :
       MoveDirectory(src, dst, ow) => Tree(src) \subseteq NodeIds(db')]_vars

(* remove_directory: "Remove a durable or implicit directory".  It never
   removes a file unless it is recursive.  The type is checked before the
   lock: a file that has replaced the directory by then is removed. *)
RmdirKeepsFiles ==
  [][\A r \in inflight :
       RemoveDirectoryDelete(r) /\ ~r.recursive =>
         \A n \in NodeIds(db) : db.nodes[n].type = "file" => n \in NodeIds(db')]_vars

(* "Recursively delete directory": what rm deletes is at or below its path.
   path__startswith ignores case on SQLite and reaches the siblings whose
   names differ in case only. *)
DeleteStaysBelow ==
  [][\A p \in Paths, rec \in BOOLEAN :
       DeleteFile(p, rec) =>
         \A n \in NodeIds(db) \ NodeIds(db') :
           db.nodes[n].path = p \/ Below(p, db.nodes[n].path)]_vars

(* "no file path may have a file or directory descendant".  On SQLite
   make_directory takes a directory that differs in case for the parent and
   stops looking for a file above. *)
NoFileAboveAnother ==
  \A m, n \in NodeIds(db) :
    db.nodes[m].type = "file" => ~Below(db.nodes[m].path, db.nodes[n].path)
=============================================================================
