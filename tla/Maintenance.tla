---------------------------- MODULE Maintenance ----------------------------
(***************************************************************************)
(* fsspec_rechunk and fsspec_gc next to the writers of one namespace,      *)
(* statement by statement.                                                 *)
(*                                                                         *)
(* The writers take the lock of the namespace, so there is one at a time.  *)
(* The two commands do not take it: rechunking locks the row of its file,  *)
(* gc nothing.  The isolation is READ COMMITTED: a statement of            *)
(* transaction t sees disk changed by what t has done, and waits for the   *)
(* rows that it changes.  A statement runs when its locks are granted.     *)
(* One that touches only rows nobody else can see yet, or whose rows t     *)
(* already holds, is joined with the one before.                           *)
(*                                                                         *)
(* At any step a transaction may be rolled back: by an error, by a crash   *)
(* of its process or because the database found it in a deadlock.          *)
(***************************************************************************)
EXTENDS Tables

CONSTANTS
  Rechunkers,    \* concurrent runs of fsspec_rechunk
  Collectors,    \* concurrent runs of fsspec_gc
  Operations,    \* what writers do: "overwrite", "append", "delete", "move"
  Payloads,      \* what writers write
  Keep,          \* --keep of fsspec_gc
  MaxNodes,      \* bound on FileNode ids handed out
  MaxBlocks,     \* bound on StorageBlock ids handed out
  MaxVersion     \* bound on FileNode.version

ASSUME MaintenanceAssumption ==
  /\ "writer" \notin Rechunkers
  /\ Operations \subseteq {"overwrite", "append", "delete", "move"}
  /\ Payloads \subseteq Seq(Bytes)
  /\ Keep \in Nat /\ MaxNodes \in Nat /\ MaxBlocks \in Nat /\ MaxVersion \in Nat

VARIABLES
  disk,    \* what is committed, and the id sequences
  tx,      \* the open transactions: what each has changed, locked and remembers
  gc       \* the collectors: what each has counted and listed

vars == <<disk, tx, gc>>

Transactions == Rechunkers \cup {"writer"}

NoRows == [i \in {} |-> {}]
NoChange == [nodes |-> NoRows, gone |-> {}, blocks |-> NoRows, maps |-> {}, unmaps |-> {}]
Idle == [at |-> "idle", change |-> NoChange, locked |-> {}, shared |-> {}]

-----------------------------------------------------------------------------
(* Transactions *)

(* The entries of f, and those of g elsewhere. *)
Over(f, g) == [i \in DOMAIN f \cup DOMAIN g |-> IF i \in DOMAIN f THEN f[i] ELSE g[i]]

Differing(f, g) == [i \in {j \in DOMAIN g : j \notin DOMAIN f \/ f[j] # g[j]} |-> g[i]]

Change(d, e) ==
  [nodes |-> Differing(d.nodes, e.nodes), gone |-> NodeIds(d) \ NodeIds(e),
   blocks |-> Differing(d.blocks, e.blocks), maps |-> e.maps \ d.maps, unmaps |-> d.maps \ e.maps]

Apply(d, c) ==
  [d EXCEPT !.nodes = [n \in (DOMAIN @ \cup DOMAIN c.nodes) \ c.gone |->
                         IF n \in DOMAIN c.nodes THEN c.nodes[n] ELSE @[n]],
            !.blocks = Over(c.blocks, @),
            !.maps = (@ \ c.unmaps) \cup c.maps]

View(t) == Apply(disk, tx[t].change)

Others(t) == {tx[u] : u \in Transactions \ {t}}

(* Mutant of NodeFree: rows are not locked. *)
NodeAlwaysFree(t, n) == TRUE

(* No other transaction holds a lock that conflicts with FOR UPDATE, UPDATE or
   DELETE of node n, with FOR KEY SHARE, with UPDATE of block b, with DELETE
   of mapping m. *)
NodeFree(t, n) == \A u \in Others(t) : n \notin u.locked \cup u.shared
NodeSharable(t, n) == \A u \in Others(t) : n \notin u.locked
BlockFree(t, b) == \A u \in Others(t) : b \notin DOMAIN u.change.blocks
MapFree(t, m) == \A u \in Others(t) : m \notin u.change.unmaps

(* Transaction t continues with c after a statement that makes e of its view;
   ids are drawn from the sequences for good. *)
Continue(t, c, e) ==
  /\ disk' = [disk EXCEPT !.blockSeq = e.blockSeq]
  /\ tx' = [tx EXCEPT ![t] = [c EXCEPT !.change = Change(disk, e)]]
  /\ UNCHANGED gc

Commit(t, e) ==
  /\ disk' = e
  /\ tx' = [tx EXCEPT ![t] = Idle]
  /\ UNCHANGED gc

Rollback(t) ==
  /\ tx[t].at # "idle"
  /\ tx' = [tx EXCEPT ![t] = Idle]
  /\ UNCHANGED <<disk, gc>>

(* The three statements of _release_file_blocks, which rechunking has too. *)
ListedBlocks(d, ids) == {m.block : m \in {k \in d.maps : k.file \in ids}}

Unmapped(d, ids) == [d EXCEPT !.maps = {m \in @ : m.file \notin ids}]

(* Mutant of Freed: nothing is freed. *)
FreedNone(d, bs) == d

Freed(d, bs) ==
  LET ownerless == {b \in bs \cap DOMAIN d.blocks : \A m \in d.maps : m.block # b}
  IN  [d EXCEPT !.blocks = [b \in DOMAIN @ |->
                              IF b \in ownerless THEN [@[b] EXCEPT !.free = TRUE] ELSE @[b]]]

ListBlocks(t) ==
  /\ tx[t].at = "list"
  /\ Continue(t, Over([at |-> "unmap", listed |-> ListedBlocks(View(t), tx[t].ids)], tx[t]), View(t))

DeleteMappings(t) ==
  /\ tx[t].at = "unmap"
  /\ \A m \in View(t).maps : m.file \in tx[t].ids => MapFree(t, m)
  /\ Continue(t, [tx[t] EXCEPT !.at = "free"], Unmapped(View(t), tx[t].ids))

-----------------------------------------------------------------------------
(* _rechunk_file, of a file that was a candidate when the command listed them *)

RechunkLock(t, n, bs) ==
  /\ tx[t].at = "idle"
  /\ n \in NodeIds(disk)
  /\ NodeFree(t, n)
  /\ disk.nodes[n].type = "file" /\ disk.nodes[n].bsize # bs
  /\ Continue(t, Over([at |-> "load", ids |-> {n}, locked |-> {n}, node |-> n,
                       row |-> disk.nodes[n], bsize |-> bs], tx[t]), disk)

(* What _load_file_data verifies with "metadata" and require_unshared. *)
Loadable(d, n, row) ==
  /\ SequencesOf(d, n) = 0..(Cardinality(MapsOf(d, n)) - 1)
  /\ row.size = Len(Content(d, n))
  /\ \A m \in MapsOf(d, n) :
       /\ ~d.blocks[m.block].free
       /\ \A k \in d.maps : k.block = m.block => k.file = n

(* Mutant of RechunkLoad: the file is taken for no longer than its row's block. *)
RechunkLoadFirst(t) ==
  /\ tx[t].at = "load"
  /\ Loadable(View(t), tx[t].node, tx[t].row)
  /\ LET data == Content(View(t), tx[t].node)
     IN  Continue(t, Over([at |-> "list", data |-> SubSeq(data, 1, tx[t].row.bsize)], tx[t]), View(t))

(* A file that fails the checks is skipped, its transaction rolled back. *)
RechunkLoad(t) ==
  /\ tx[t].at = "load"
  /\ Loadable(View(t), tx[t].node, tx[t].row)
  /\ Continue(t, Over([at |-> "list", data |-> Content(View(t), tx[t].node)], tx[t]), View(t))

(* With the old mappings gone, the new blocks are made and mapped, the old
   ones freed.  A sequence that is taken is an IntegrityError. *)
RechunkAttach(t) ==
  LET c == tx[t]
      e == AttachBlocks(View(t), c.node, 0, Chunks(c.data, c.bsize))
  IN  /\ t \in Rechunkers /\ c.at = "free"
      /\ e.blockSeq <= MaxBlocks + 1
      /\ \A k \in SequencesOf(View(t), c.node) : k >= Len(Chunks(c.data, c.bsize))
      /\ \A b \in c.listed : BlockFree(t, b)
      /\ Continue(t, [c EXCEPT !.at = "update"], Freed(e, c.listed))

RechunkRow(c) ==
  [c.row EXCEPT !.size = Len(c.data), !.bsize = c.bsize, !.sum = Hash(c.data), !.ver = @ + 1]

RechunkUpdate(t) ==
  LET c == tx[t]
  IN  /\ c.at = "update"
      /\ c.row.ver < MaxVersion
      /\ NodeFree(t, c.node)
      /\ c.node \in NodeIds(View(t)) /\ View(t).nodes[c.node].ver = c.row.ver
      /\ Commit(t, [View(t) EXCEPT !.nodes[c.node] = RechunkRow(c)])

-----------------------------------------------------------------------------
(* Writers, which hold the lock of the namespace *)

Writer == tx["writer"]

Continues(c, e) == Continue("writer", Over(c, Writer), e)

Begins(op) == op \in Operations /\ Writer.at = "idle"

(* The rows that a recursive delete, or a move over p, takes away. *)
Taken(p) == NodesAt(disk, p) \cup IF FileAt(disk, p) THEN {} ELSE NodesLikeBelow(disk, p)

(* A new file: nobody else can see any of it before the commit. *)
Create(p, data, bs) ==
  LET d == StartDb(disk, "wb", p, bs)
      w == StartWriter(d, "wb", p, bs)
      e == WriteChunkDb(d, w, data)
  IN  /\ Writer.at = "idle"
      /\ CanStart(disk, "wb", p) /\ ~HasNode(disk, p)
      /\ FitsLimit(w, data)
      /\ e.nodeSeq <= MaxNodes + 1 /\ e.blockSeq <= MaxBlocks + 1
      /\ Commit("writer", FinalizeDb(e, WriteChunk(w, data)))

(* start() of an overwrite up to its query for the row ... *)
OverwriteRead(p, bs) ==
  /\ Begins("overwrite")
  /\ CanStart(disk, "wb", p)
  /\ \E n \in NodesAt(disk, p) :
       Continues([at |-> "claim", op |-> "overwrite", ids |-> {n}, row |-> disk.nodes[n], bsize |-> bs], disk)

(* ... its guarded UPDATE; a version that has changed is a FileConflictError. *)
OverwriteClaim ==
  /\ Writer.at = "claim"
  /\ Writer.row.ver < MaxVersion
  /\ \E n \in Writer.ids :
       LET row == [disk.nodes[n] EXCEPT !.size = 0, !.bsize = Writer.bsize, !.sum = NoHash, !.ver = @ + 1]
       IN  /\ NodeFree("writer", n)
           /\ disk.nodes[n].ver = Writer.row.ver
           /\ Continues([at |-> "list", locked |-> {n},
                         w |-> [node |-> n, mode |-> "wb", ver |-> row.ver, size |-> 0,
                                hashed |-> <<>>, seq |-> 0, bsize |-> Writer.bsize]],
                        [View("writer") EXCEPT !.nodes[n] = row])

(* delete_file locks the rows that it finds. *)
DeleteLock(p) ==
  /\ Begins("delete")
  /\ Taken(p) # {}
  /\ \A n \in Taken(p) : NodeFree("writer", n)
  /\ Continues([at |-> "list", op |-> "delete", ids |-> Taken(p), locked |-> Taken(p)], disk)

(* move_directory with overwrite only lists the rows at and below its
   destination p.  The rows that it moves keep their blocks and are left out. *)
MoveList(p) ==
  /\ Begins("move")
  /\ Taken(p) # {}
  /\ Continues([at |-> "list", op |-> "move", ids |-> Taken(p)], disk)

WriterFree ==
  /\ Writer.at = "free"
  /\ \A b \in Writer.listed : BlockFree("writer", b)
  /\ Continues([at |-> IF Writer.op = "overwrite" THEN "write" ELSE "drop"],
               Freed(View("writer"), Writer.listed))

(* The rows go, and by the cascade what is still mapped to them. *)
DropNodes ==
  /\ Writer.at = "drop"
  /\ \A n \in Writer.ids : NodeFree("writer", n)
  /\ \A m \in View("writer").maps : m.file \in Writer.ids => MapFree("writer", m)
  /\ Commit("writer", DeleteNodes(View("writer"), Writer.ids))

(* start() of an append: row, next sequence and digest are three queries. *)
AppendRead(p, bs) ==
  /\ Begins("append")
  /\ CanStart(disk, "ab", p)
  /\ \E n \in NodesAt(disk, p) :
       Continues([at |-> "seq", op |-> "append", row |-> disk.nodes[n],
                  w |-> [node |-> n, mode |-> "ab", ver |-> disk.nodes[n].ver, size |-> disk.nodes[n].size,
                         hashed |-> <<>>, seq |-> 0, bsize |-> bs]], disk)

AppendSequence ==
  /\ Writer.at = "seq"
  /\ Continues([at |-> "hash", w |-> [Writer.w EXCEPT !.seq = NextSequence(disk, Writer.w.node)]], disk)

(* Mutant of AppendHash: only the new bytes are hashed. *)
AppendUnhashed ==
  /\ Writer.at = "hash"
  /\ Continues([at |-> "write"], disk)

AppendHash ==
  /\ Writer.at = "hash"
  /\ Continues([at |-> "write", w |-> [Writer.w EXCEPT !.hashed = Content(disk, Writer.w.node)]], disk)

(* write_chunk; a sequence that is taken by now is an IntegrityError. *)
Write(data) ==
  LET e == WriteChunkDb(View("writer"), Writer.w, data)
      w == WriteChunk(Writer.w, data)
  IN  /\ Writer.at = "write"
      /\ FitsLimit(Writer.w, data)
      /\ e.blockSeq <= MaxBlocks + 1
      /\ NodeSharable("writer", w.node)
      /\ \A k \in w.seq - Len(Chunks(data, w.bsize)) .. w.seq - 1 :
           k \notin SequencesOf(View("writer"), w.node)
      /\ Continues([at |-> "finish", w |-> w, shared |-> {w.node}], e)

(* _finalize, guarded by the version, and the commit. *)
Finish ==
  /\ Writer.at = "finish"
  /\ Writer.w.ver <= MaxVersion - IF Writer.w.mode = "ab" THEN 1 ELSE 0
  /\ NodeFree("writer", Writer.w.node)
  /\ CanFinalize(View("writer"), Writer.w)
  /\ Commit("writer", FinalizeDb(View("writer"), Writer.w))

-----------------------------------------------------------------------------
(* fsspec_gc *)

FreeBlocks(d) == {b \in DOMAIN d.blocks : d.blocks[b].free}

(* Mutant of Garbage: ids are taken whether free or not. *)
FirstBlocks(d, k) == {b \in DOMAIN d.blocks : Cardinality({a \in DOMAIN d.blocks : a <= b}) <= k}

(* The k free blocks with the lowest ids. *)
Garbage(d, k) == {b \in FreeBlocks(d) : Cardinality({a \in FreeBlocks(d) : a <= b}) <= k}

Resting == [at |-> "idle", excess |-> 0, ids |-> {}]

CountFree(g) ==
  /\ gc[g] = Resting
  /\ Cardinality(FreeBlocks(disk)) > Keep
  /\ gc' = [gc EXCEPT ![g] = [at |-> "list", excess |-> Cardinality(FreeBlocks(disk)) - Keep, ids |-> {}]]
  /\ UNCHANGED <<disk, tx>>

ListGarbage(g) ==
  /\ gc[g].at = "list"
  /\ gc' = [gc EXCEPT ![g].at = "delete", ![g].ids = Garbage(disk, gc[g].excess)]
  /\ UNCHANGED <<disk, tx>>

DeleteGarbage(g) ==
  /\ gc[g].at = "delete"
  /\ \A b \in gc[g].ids, t \in Transactions : b \notin DOMAIN tx[t].change.blocks
  /\ disk' = [disk EXCEPT !.blocks = [b \in DOMAIN @ \ gc[g].ids |-> @[b]]]
  /\ gc' = [gc EXCEPT ![g] = Resting]
  /\ UNCHANGED tx

(* A collector that is stopped has changed nothing. *)
StopCollecting(g) == gc[g] # Resting /\ gc' = [gc EXCEPT ![g] = Resting] /\ UNCHANGED <<disk, tx>>

-----------------------------------------------------------------------------
Init ==
  /\ disk = EmptyDb
  /\ tx = [t \in Transactions |-> Idle]
  /\ gc = [g \in Collectors |-> Resting]

RechunkStep(t) ==
  \/ \E n \in NodeIds(disk), bs \in BlockSizes : RechunkLock(t, n, bs)
  \/ RechunkLoad(t) \/ RechunkAttach(t) \/ RechunkUpdate(t)

WriterStep ==
  \/ \E p \in Paths, bs \in BlockSizes :
       \/ OverwriteRead(p, bs) \/ AppendRead(p, bs)
       \/ \E data \in Payloads : Create(p, data, bs)
  \/ \E p \in Paths : DeleteLock(p) \/ MoveList(p)
  \/ \E data \in Payloads : Write(data)
  \/ OverwriteClaim \/ WriterFree \/ DropNodes
  \/ AppendSequence \/ AppendHash \/ Finish

Next ==
  \/ \E t \in Rechunkers : RechunkStep(t)
  \/ WriterStep
  \/ \E t \in Transactions : ListBlocks(t) \/ DeleteMappings(t) \/ Rollback(t)
  \/ \E g \in Collectors : CountFree(g) \/ ListGarbage(g) \/ DeleteGarbage(g) \/ StopCollecting(g)

Spec == Init /\ [][Next]_vars

-----------------------------------------------------------------------------
(* Whatever commits next to each other, the size and the checksum of a file
   and of its blocks describe the bytes in them. *)
RowsDescribeContent == RowsMatchContent(disk)

(* ... every used block has the one mapping that owns it and sequences have no
   gap: no commit interleaves with another so that a block is lost in use. *)
NothingLeaks == GraphSound(disk)

(* ... to which the one exception is a move over an existing directory, which
   does not lock the rows it is about to replace: no other commit leaves a
   used block without an owner, a block with two, or a gap. *)
OnlyMovesLeak ==
  [][disk' # disk /\ GraphSound(disk) /\ ~(Writer.at = "drop" /\ Writer.op = "move")
       => GraphSound(disk')]_vars

(* A commit that lays out a file anew gives it a later version: open read
   handles and appends can rely on it. *)
LayoutBumpsVersion ==
  [][\A n \in NodeIds(disk) \cap NodeIds(disk') :
       MapsOf(disk, n) # MapsOf(disk', n) => disk'.nodes[n].ver > disk.nodes[n].ver]_vars

(* Rechunking undoes nothing that a writer committed after the command read
   the file: its commit leaves the content of every file. *)
RechunkKeepsContent ==
  [][\A t \in Rechunkers :
       tx[t].at = "update" /\ disk' # disk /\ tx'[t] = Idle
         => /\ NodeIds(disk') = NodeIds(disk)
            /\ \A n \in NodeIds(disk) : Content(disk', n) = Content(disk, n)]_vars

(* What gc is about to delete is mapped by no file, nor by a transaction that
   may still commit: its DELETE never meets the PROTECT of FileBlock.block. *)
GcListsGarbage ==
  \A g \in Collectors, t \in Transactions :
    \A m \in disk.maps \cup tx[t].change.maps : m.block \notin gc[g].ids

(* fsspec_gc.py:14: --keep is the number of free blocks to retain. *)
GcKeeps ==
  [][\A g \in Collectors :
       gc[g].at = "delete" /\ disk' # disk /\ gc'[g] = Resting
         => Cardinality(FreeBlocks(disk')) >= Keep]_vars
=============================================================================
