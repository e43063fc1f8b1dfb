------------------------ MODULE NamespaceRefinement ------------------------
(***************************************************************************)
(* The tables implement the file system of FileSystem: the mapping reads   *)
(* the tree off the FileNode rows and each file's bytes off its blocks.    *)
(***************************************************************************)
EXTENDS NamespaceDb

EntryOf(n) ==
  LET row == db.nodes[n]
  IN  IF row.type = "directory" THEN [type |-> "directory", id |-> n]
      ELSE [type |-> "file", id |-> n, ver |-> row.ver, data |-> Content(db, n)]

Entries ==
  [p \in {db.nodes[n].path : n \in NodeIds(db)} |-> EntryOf(CHOOSE n \in NodesAt(db, p) : TRUE)]

CallsUnderWay == inflight \cup IF tx.open /\ Copying THEN {tx.call} ELSE {}

FS == INSTANCE FileSystem WITH tree <- Entries, nextId <- db.nodeSeq, calls <- CallsUnderWay

(* Every operation of operations.py, however many rows, blocks and statements
   it takes, is one step of the file system its callers see: a writer shows
   nothing until commit() and then all of its chunks at once. *)
ImplementsFileSystem == FS!FsSpec
=============================================================================
