----------------------------- MODULE NamespaceDb -----------------------------
(***************************************************************************)
(* The operations of operations.py on one namespace, as its callers run    *)
(* them concurrently.                                                      *)
(*                                                                         *)
(* Every operation that changes rows runs in transaction.atomic() and      *)
(* takes the namespace row's lock first.  The ones that finish in a single *)
(* call are one action, enabled while the lock is free.  A                 *)
(* StreamingFileWriter keeps its transaction open from start() to commit() *)
(* or discard(): tx is that transaction, with the database value only it   *)
(* sees, and db is what everybody else reads.  An operation that raises    *)
(* rolls back; where nothing else happens its error conditions are the     *)
(* negated guards.  copy_file and remove_directory look at the database    *)
(* before they take the lock: inflight holds the calls between the two.    *)
(***************************************************************************)
EXTENDS Tables

CONSTANTS
  Payloads,      \* the chunks that callers pass to write_chunk
  MaxNodes,      \* bound on FileNode ids handed out
  MaxBlocks,     \* bound on StorageBlock ids handed out
  MaxVersion,    \* bound on FileNode.version
  MaxInflight    \* bound on concurrent copy_file/remove_directory calls

ASSUME NamespaceAssumption ==
  /\ Payloads \subseteq Seq(Bytes)
  /\ MaxNodes \in Nat /\ MaxBlocks \in Nat /\ MaxVersion \in Nat /\ MaxInflight \in Nat

VARIABLES
  db,        \* the committed database value
  tx,        \* the open writer transaction, if there is one
  inflight   \* copy_file and remove_directory calls past their unlocked lookup

vars == <<db, tx, inflight>>

NoTransaction == [open |-> FALSE]

NoCall == [op |-> "none"]

CopyCalls == [op : {"copy"}, node : Nat, src : Paths, dst : Paths]
RmdirCalls == [op : {"rmdir"}, path : Paths, recursive : BOOLEAN]

(* The transaction of writer w on the working value d; for a copy, the call
   and the mappings of its source that it has still to feed to the writer. *)
Transaction(d, w, call, todo) ==
  [open |-> TRUE, d |-> d, w |-> w, call |-> call, todo |-> todo]

LockFree == ~tx.open

Copying == tx.call.op = "copy"

Init == db = EmptyDb /\ tx = NoTransaction /\ inflight = {}

-----------------------------------------------------------------------------
(* The model's bounds: ids and versions grow without limit in the code.  The
   actions that hand out ids or raise a version stay within them. *)
Bounded(d) ==
  /\ d.nodeSeq <= MaxNodes + 1
  /\ d.blockSeq <= MaxBlocks + 1
  /\ \A n \in NodeIds(d) : d.nodes[n].ver <= MaxVersion

WithinBounds == Bounded(db) /\ (tx.open => Bounded(tx.d))

-----------------------------------------------------------------------------
(* Writers: a handle on p opened in one of the modes.  write_file,
   create_file_exclusive and append_file are a start, one chunk and a commit;
   a DjangoFile writes as many chunks as it flushes. *)

Begin(mode, p, bs) ==
  LET d == StartDb(db, mode, p, bs) IN [d |-> d, w |-> StartWriter(d, mode, p, bs)]

WriterStart(mode, p, bs) ==
  /\ LockFree
  /\ CanStart(db, mode, p)
  /\ LET b == Begin(mode, p, bs) IN tx' = Transaction(b.d, b.w, NoCall, {})
  /\ UNCHANGED <<db, inflight>>
  /\ WithinBounds'

Fed(chunk, todo) ==
  Transaction(WriteChunkDb(tx.d, tx.w, chunk), WriteChunk(tx.w, chunk), tx.call, todo)

WriterChunk(chunk) ==
  /\ tx.open /\ ~Copying
  /\ chunk # <<>> /\ FitsLimit(tx.w, chunk)
  /\ tx' = Fed(chunk, {})
  /\ UNCHANGED <<db, inflight>>
  /\ WithinBounds'

(* write_chunk(final=True) has flushed the last chunk: _finalize, commit(). *)
WriterCommit ==
  /\ tx.open /\ tx.todo = {}
  /\ CanFinalize(tx.d, tx.w)
  /\ db' = FinalizeDb(tx.d, tx.w)
  /\ tx' = NoTransaction
  /\ UNCHANGED inflight
  /\ WithinBounds'

(* discard() after any exception (a chunk over the limit, a copy that finds a
   bad block), or the connection is lost: the transaction is rolled back. *)
WriterRollback ==
  /\ tx.open
  /\ tx' = NoTransaction
  /\ UNCHANGED <<db, inflight>>

-----------------------------------------------------------------------------
(* copy_file reads the source row without the lock ... *)
CopyLookup(src, dst) ==
  /\ Cardinality(inflight) < MaxInflight
  /\ \E n \in NodesAt(db, src) :
       /\ db.nodes[n].type = "file"
       /\ inflight' = inflight \cup {[op |-> "copy", node |-> n, src |-> src, dst |-> dst]}
  /\ UNCHANGED <<db, tx>>

(* ... starts a "wb" writer on dst and lists the mappings that the source row
   has by then ... *)
CopyStart(r) ==
  /\ r.op = "copy" /\ LockFree
  /\ IF CanStart(db, "wb", r.dst)
     THEN LET b == Begin("wb", r.dst, BlockSize)
          IN  tx' = Transaction(b.d, b.w, r, MapsOf(b.d, r.node))
     ELSE UNCHANGED tx
  /\ inflight' = inflight \ {r}
  /\ UNCHANGED db
  /\ WithinBounds'

(* Mutant of CopyBlock: the last block first. *)
CopyBlockLast ==
  /\ tx.open /\ Copying
  /\ \E m \in tx.todo :
       /\ \A k \in tx.todo : m.seq >= k.seq
       /\ FitsLimit(tx.w, tx.d.blocks[m.block].data)
       /\ tx' = Fed(tx.d.blocks[m.block].data, tx.todo \ {m})
  /\ UNCHANGED <<db, inflight>>
  /\ WithinBounds'

(* ... and writes block after block. *)
CopyBlock ==
  /\ tx.open /\ Copying
  /\ \E m \in tx.todo :
       /\ \A k \in tx.todo : m.seq <= k.seq
       /\ FitsLimit(tx.w, tx.d.blocks[m.block].data)
       /\ tx' = Fed(tx.d.blocks[m.block].data, tx.todo \ {m})
  /\ UNCHANGED <<db, inflight>>
  /\ WithinBounds'

-----------------------------------------------------------------------------
(* make_directory: base is the number of leading segments of p that exist
   (0 is the root).  Without create_parents that is the parent; with it the
   recursion creates every missing ancestor, the shallowest first. *)

MakeDirectory(p, createParents, base) ==
  /\ LockFree
  /\ ~Exists(db, p)
  /\ base \in 0..(Len(p) - 1)
  /\ ~createParents => base = Len(p) - 1
  /\ base > 0 => Exists(db, Upto(p, base)) /\ ~FileAt(db, Upto(p, base))
  /\ \A k \in (base + 1)..(Len(p) - 1) : ~Exists(db, Upto(p, k))
  /\ LET first == db.nodeSeq - base - 1
         new   == {first + k : k \in (base + 1)..Len(p)}
     IN  db' = [db EXCEPT !.nodes = [n \in DOMAIN @ \cup new |->
                              IF n \in new THEN DirectoryRow(Upto(p, n - first))
                                           ELSE @[n]],
                          !.nodeSeq = @ + Len(p) - base]
  /\ UNCHANGED <<tx, inflight>>
  /\ WithinBounds'

(* The locked part of delete_file, also reached from remove_directory. *)
Deleted(p) ==
  IF FileAt(db, p)
  THEN {n \in NodesAt(db, p) : db.nodes[n].type = "file"}
  ELSE NodesAt(db, p) \cup NodesLikeBelow(db, p)

CanDelete(p, recursive) ==
  /\ Deleted(p) # {}
  /\ ~FileAt(db, p) /\ HasDescendants(db, p) => recursive

(* Mutant of DeleteTransaction: the mappings go by the cascade alone. *)
DeleteByCascade(p) ==
  db' = DeleteNodes(db, Deleted(p))

DeleteTransaction(p) ==
  db' = DeleteNodes(ReleaseFileBlocks(db, Deleted(p)), Deleted(p))

DeleteFile(p, recursive) ==
  /\ LockFree
  /\ CanDelete(p, recursive)
  /\ DeleteTransaction(p)
  /\ UNCHANGED <<tx, inflight>>

(* remove_directory checks the node's type without the lock ... *)
RemoveDirectoryCheck(p, recursive) ==
  /\ ~FileAt(db, p)
  /\ Cardinality(inflight) < MaxInflight
  /\ inflight' = inflight \cup {[op |-> "rmdir", path |-> p, recursive |-> recursive]}
  /\ UNCHANGED <<db, tx>>

(* ... and then calls delete_file, which looks again and raises or deletes. *)
RemoveDirectoryDelete(r) ==
  /\ r.op = "rmdir" /\ LockFree
  /\ IF CanDelete(r.path, r.recursive) THEN DeleteTransaction(r.path) ELSE UNCHANGED db
  /\ inflight' = inflight \ {r}
  /\ UNCHANGED tx

-----------------------------------------------------------------------------
(* move_file rewrites the path of one file row; with overwrite a file at the
   destination is released and deleted first. *)
MoveFile(src, dst, overwrite) ==
  /\ LockFree
  /\ src # dst
  /\ ParentOk(db, dst)
  /\ FileAt(db, src)
  /\ IF HasNode(db, dst) THEN overwrite /\ FileAt(db, dst) ELSE ~HasDescendants(db, dst)
  /\ LET old == NodesAt(db, dst)
         d1  == DeleteNodes(ReleaseFileBlocks(db, old), old)
     IN  \E f \in NodesAt(db, src) : db' = [d1 EXCEPT !.nodes[f].path = dst]
  /\ UNCHANGED <<tx, inflight>>

(* Mutant of Tree: the rows below a directory without its own. *)
TreeWithoutItself(p) == NodesLikeBelow(db, p)

(* move_directory: the rows at and below src, as found before the destination
   is cleared, are renamed; a row that the clearing removed is not there to be
   renamed.  The two rewriting passes (through a temporary prefix) are one
   step of the transaction; a new path that is too long, or that two rows
   would share, makes the database refuse it. *)
Tree(p) == NodesAt(db, p) \cup NodesLikeBelow(db, p)

Renamed(d, ids, src, dst) ==
  [d EXCEPT !.nodes = [n \in DOMAIN d.nodes |->
     IF n \in ids
     THEN [d.nodes[n] EXCEPT !.path = Rebase(src, dst, d.nodes[n].path)]
     ELSE d.nodes[n]]]

MoveDirectory(src, dst, overwrite) ==
  /\ LockFree
  /\ src # dst /\ ~Below(src, dst)
  /\ ParentOk(db, dst)
  /\ ~FileAt(db, src)
  /\ Tree(src) # {}
  /\ Tree(dst) # {} => overwrite
  /\ LET d1   == DeleteNodes(ReleaseFileBlocks(db, Tree(dst)), Tree(dst))
         left == Tree(src) \ Tree(dst)
         path(n) == Rebase(src, dst, db.nodes[n].path)
     IN  /\ \A n \in left : path(n) \in Paths
         /\ \A m, n \in left : path(m) = path(n) => m = n
         /\ db' = Renamed(d1, left, src, dst)
  /\ UNCHANGED <<tx, inflight>>

-----------------------------------------------------------------------------
Next ==
  \/ \E mode \in Modes, p \in Paths, bs \in BlockSizes : WriterStart(mode, p, bs)
  \/ \E chunk \in Payloads : WriterChunk(chunk)
  \/ WriterCommit
  \/ WriterRollback
  \/ \E src, dst \in Paths : CopyLookup(src, dst)
  \/ \E r \in inflight : CopyStart(r)
  \/ CopyBlock
  \/ \E p \in Paths, cp \in BOOLEAN, base \in 0..(MaxDepth - 1) : MakeDirectory(p, cp, base)
  \/ \E p \in Paths, rec \in BOOLEAN : DeleteFile(p, rec)
  \/ \E p \in Paths, rec \in BOOLEAN : RemoveDirectoryCheck(p, rec)
  \/ \E r \in inflight : RemoveDirectoryDelete(r)
  \/ \E src, dst \in Paths, ow \in BOOLEAN : MoveFile(src, dst, ow)
  \/ \E src, dst \in Paths, ow \in BOOLEAN : MoveDirectory(src, dst, ow)

Spec == Init /\ [][Next]_vars

-----------------------------------------------------------------------------
(* The committed rows and those of an open transaction have the types of
   models.py, and the calls in flight those of their arguments. *)
TypeOK ==
  /\ TypeSound(db)
  /\ tx.open \in BOOLEAN
  /\ ~tx.open => tx = NoTransaction
  /\ tx.open => /\ DOMAIN tx = {"open", "d", "w", "call", "todo"}
                /\ TypeSound(tx.d)
                /\ WriterSound(tx.w)
                /\ tx.call \in {NoCall} \cup CopyCalls
                /\ tx.todo \subseteq MapRow
  /\ inflight \subseteq CopyCalls \cup RmdirCalls

(* Paths stay unique without the unique constraint ever refusing an
   operation, and no operation leaves a file where a path passes through it:
   every operation checks only its own ancestors or descendants. *)
TreeOK == TreeSound(db)

(* Blocks are owned by exactly one mapping while they are in use, a released
   block is free, and sequences have no gaps: write, append, overwrite,
   delete, move and copy keep the three tables consistent with each other. *)
BlockGraphOK == GraphSound(db)

(* The size and checksum that _finalize writes from the writer's running
   counters are those of the stored blocks. *)
ContentOK == RowsMatchContent(db)

(* The open transaction is as sound as the committed database, its writer's
   row is there in the version that _finalize will ask for, so among the
   operations that take the lock none makes another's last UPDATE raise
   FileConflictError (rechunk takes no lock), and the next chunk goes
   where the stored sequences end, also after an append to blocks of other
   sizes and while a copy lists its source before it writes. *)
TransactionOK ==
  tx.open =>
    /\ TreeSound(tx.d) /\ GraphSound(tx.d)
    /\ CanFinalize(tx.d, tx.w)
    /\ tx.d.nodes[tx.w.node].type = "file"
    /\ SequencesOf(tx.d, tx.w.node) = 0..(tx.w.seq - 1)
    /\ \A m \in tx.todo : m.block \in DOMAIN tx.d.blocks

(* A file's bytes never change under an unchanged (id, version): this is what
   lets a read handle detect an overwrite, and no id is ever handed out
   again. *)
VersionGuardsContent ==
  [][/\ \A n \in NodeIds(db) \cap NodeIds(db') :
          /\ db'.nodes[n].ver >= db.nodes[n].ver
          /\ Content(db', n) # Content(db, n) => db'.nodes[n].ver > db.nodes[n].ver
     /\ \A n \in NodeIds(db') \ NodeIds(db) : n >= db.nodeSeq]_vars

(* A free block is never taken back into use and a block's bytes are never
   rewritten: fsspec_gc may delete what it has once seen free. *)
FreeBlocksStayFree ==
  [][\A b \in DOMAIN db.blocks : b \in DOMAIN db'.blocks =>
       /\ db.blocks[b].free => db'.blocks[b].free
       /\ db'.blocks[b].data = db.blocks[b].data]_vars
=============================================================================
