------------------------------- MODULE Tables -------------------------------
(***************************************************************************)
(* The rows of one namespace and the helpers of operations.py that read    *)
(* and change them, as operators on a database value d with the fields     *)
(*                                                                         *)
(*   nodes    FileNode rows, by primary key                                *)
(*   blocks   StorageBlock rows, by primary key                            *)
(*   maps     FileBlock rows                                               *)
(*   nodeSeq, blockSeq   the next AUTOINCREMENT values                     *)
(*                                                                         *)
(* A value d is what one transaction sees; the modules that use this one   *)
(* decide who holds which transaction.  Timestamps and content types are   *)
(* left out.  SHA-256 is taken to be injective.                            *)
(***************************************************************************)
EXTENDS Paths, FiniteSets, SequencesExt

CONSTANTS
  Bytes,         \* the bytes a file may hold
  BlockSizes,    \* the block sizes that writers are opened with
  BlockSize,     \* DJANGO_FSSPEC_BLOCK_SIZE, the default one
  MaxFileSize    \* DJANGO_FSSPEC_MAX_FILE_SIZE

ASSUME TablesAssumption ==
  /\ BlockSizes \subseteq Nat \ {0}
  /\ BlockSize \in BlockSizes
  /\ MaxFileSize \in Nat

(* The digest of data; the blank checksum of an unfinished file is <<>>. *)
Hash(data) == <<data>>
NoHash == <<>>

MapRow == [file : Nat, block : Nat, seq : Nat]

EmptyDb ==
  [nodes |-> [n \in {} |-> {}], blocks |-> [b \in {} |-> {}], maps |-> {},
   nodeSeq |-> 1, blockSeq |-> 1]

-----------------------------------------------------------------------------
(* Lookups *)

NodeIds(d) == DOMAIN d.nodes

NodesAt(d, p) == {n \in NodeIds(d) : d.nodes[n].path = p}

NodesLikeBelow(d, p) == {n \in NodeIds(d) : LikeBelow(p, d.nodes[n].path)}

HasNode(d, p) == NodesAt(d, p) # {}

FileAt(d, p) == \E n \in NodesAt(d, p) : d.nodes[n].type = "file"

DirectoryAt(d, p) == \E n \in NodesAt(d, p) : d.nodes[n].type = "directory"

HasDescendants(d, p) == NodesLikeBelow(d, p) # {}

(* get_file_info finds a row or an implicit directory. *)
Exists(d, p) == HasNode(d, p) \/ HasDescendants(d, p)

(* _ensure_parent_directory raises nothing: no ancestor is a file.  Missing
   ancestors are allowed, they become implicit directories. *)
ParentOk(d, p) == \A q \in Ancestors(p) : ~FileAt(d, q)

(* Mutant of TargetOk: a directory without a row of its own is overlooked. *)
TargetOkByRow(d, p) == ~DirectoryAt(d, p)

(* _ensure_file_target raises nothing: p is free or a file without
   descendants. *)
TargetOk(d, p) == ~DirectoryAt(d, p) /\ ~HasDescendants(d, p)

MapsOf(d, f) == {m \in d.maps : m.file = f}

(* _ordered_file_blocks: the mappings of file f by sequence. *)
OrderedMaps(d, f) ==
  LET ms == MapsOf(d, f)
      Before(m) == {k \in ms : k.seq < m.seq}
  IN  [i \in 1..Cardinality(ms) |->
         CHOOSE m \in ms : Cardinality(Before(m)) = i - 1]

OrderedData(d, f) ==
  [i \in 1..Cardinality(MapsOf(d, f)) |-> d.blocks[OrderedMaps(d, f)[i].block].data]

(* The bytes a reader of file f joins together. *)
Content(d, f) == FlattenSeq(OrderedData(d, f))

-----------------------------------------------------------------------------
(* Row changes *)

InsertNode(d, row) ==
  [d EXCEPT !.nodes = [n \in DOMAIN @ \cup {d.nodeSeq} |->
                         IF n = d.nodeSeq THEN row ELSE @[n]],
            !.nodeSeq = @ + 1]

(* Deleting nodes cascades to their mappings. *)
DeleteNodes(d, ids) ==
  [d EXCEPT !.nodes = [n \in DOMAIN @ \ ids |-> @[n]],
            !.maps = {m \in @ : m.file \notin ids}]

(* Mutant of NewFileRow: the block size is left to _finalize. *)
NewFileRowWithoutBlockSize(p, bs) ==
  [path |-> p, type |-> "file", size |-> 0, bsize |-> 0, sum |-> NoHash, ver |-> 1]

NewFileRow(p, bs) ==
  [path |-> p, type |-> "file", size |-> 0, bsize |-> bs, sum |-> NoHash, ver |-> 1]

DirectoryRow(p) ==
  [path |-> p, type |-> "directory", size |-> 0, bsize |-> BlockSize, sum |-> NoHash, ver |-> 1]

(* Mutant of ReleaseFileBlocks: the mappings go, their blocks stay in use. *)
DropMappings(d, ids) == [d EXCEPT !.maps = {m \in @ : m.file \notin ids}]

(* _release_file_blocks: drop the mappings of the files, free the blocks
   that no mapping owns any more. *)
ReleaseFileBlocks(d, ids) ==
  LET mine  == {m.block : m \in {k \in d.maps : k.file \in ids}}
      left  == {m \in d.maps : m.file \notin ids}
      owned == {m.block : m \in left}
  IN  [d EXCEPT !.maps = left,
                !.blocks = [b \in DOMAIN @ |->
                   IF b \in mine \ owned THEN [@[b] EXCEPT !.free = TRUE] ELSE @[b]]]

(* _chunk_data *)
Chunks(data, bs) ==
  [i \in 1..((Len(data) + bs - 1) \div bs) |->
     SubSeq(data, (i - 1) * bs + 1, IF i * bs < Len(data) THEN i * bs ELSE Len(data))]

NewBlock(chunk) ==
  [data |-> chunk, size |-> Len(chunk), sum |-> Hash(chunk), free |-> FALSE]

(* Mutant of AttachBlocks: a single chunk goes to a block of the free pool. *)
AttachPooledBlock(d, f, seq, cs) ==
  LET pool  == {b \in DOMAIN d.blocks : d.blocks[b].free}
      reuse == Len(cs) = 1 /\ pool # {}
      at    == CHOOSE b \in pool : TRUE
      first == d.blockSeq - 1
      Id(i) == IF reuse THEN at ELSE first + i
  IN  [d EXCEPT !.blocks = [b \in DOMAIN @ \cup {Id(i) : i \in 1..Len(cs)} |->
                              IF \E i \in 1..Len(cs) : b = Id(i)
                              THEN NewBlock(cs[IF reuse THEN 1 ELSE b - first]) ELSE @[b]],
                !.blockSeq = @ + IF reuse THEN 0 ELSE Len(cs),
                !.maps = @ \cup {[file |-> f, block |-> Id(i), seq |-> seq + i - 1] :
                                   i \in 1..Len(cs)}]

(* _allocate_blocks and the mappings that bind them to file f from sequence
   seq on: blocks are always new, the free pool is never reused. *)
AttachBlocks(d, f, seq, cs) ==
  LET first == d.blockSeq - 1
      new   == {first + i : i \in 1..Len(cs)}
  IN  [d EXCEPT !.blocks = [b \in DOMAIN @ \cup new |->
                              IF b \in new THEN NewBlock(cs[b - first]) ELSE @[b]],
                !.blockSeq = @ + Len(cs),
                !.maps = @ \cup {[file |-> f, block |-> first + i, seq |-> seq + i - 1] :
                                   i \in 1..Len(cs)}]

(* _rechunk_file as a whole: the content of file f in new blocks. *)
RechunkDb(d, f, bs) ==
  LET data == Content(d, f)
      e    == AttachBlocks(ReleaseFileBlocks(d, {f}), f, 0, Chunks(data, bs))
  IN  [e EXCEPT !.nodes[f].size = Len(data), !.nodes[f].bsize = bs,
                !.nodes[f].sum = Hash(data), !.nodes[f].ver = @ + 1]

-----------------------------------------------------------------------------
(* StreamingFileWriter.  A writer w keeps its node, the version it started
   from, the running size, the running digest (as the bytes hashed so far),
   the next sequence and its block size. *)

Modes == {"wb", "ab", "xb"}

CanStart(d, mode, p) ==
  /\ ParentOk(d, p)
  /\ TargetOk(d, p)
  /\ mode = "xb" => ~HasNode(d, p)

(* Mutants of StartDb: an overwrite that keeps the version, and one that keeps
   the old blocks. *)
StartDbSameVersion(d, mode, p, bs) ==
  IF ~HasNode(d, p)
  THEN InsertNode(d, NewFileRow(p, bs))
  ELSE LET f == CHOOSE n \in NodesAt(d, p) : TRUE
       IN  IF mode = "ab" THEN d
           ELSE [ReleaseFileBlocks(d, {f}) EXCEPT
                   !.nodes[f].size = 0, !.nodes[f].bsize = bs, !.nodes[f].sum = NoHash]

StartDbKeepingBlocks(d, mode, p, bs) ==
  IF ~HasNode(d, p)
  THEN InsertNode(d, NewFileRow(p, bs))
  ELSE LET f == CHOOSE n \in NodesAt(d, p) : TRUE
       IN  IF mode = "ab" THEN d
           ELSE [d EXCEPT !.nodes[f].size = 0, !.nodes[f].bsize = bs,
                          !.nodes[f].sum = NoHash, !.nodes[f].ver = @ + 1]

StartDb(d, mode, p, bs) ==
  IF ~HasNode(d, p)
  THEN InsertNode(d, NewFileRow(p, bs))
  ELSE LET f == CHOOSE n \in NodesAt(d, p) : TRUE
       IN  IF mode = "ab" THEN d
           ELSE [ReleaseFileBlocks(d, {f}) EXCEPT
                   !.nodes[f].size = 0, !.nodes[f].bsize = bs,
                   !.nodes[f].sum = NoHash, !.nodes[f].ver = @ + 1]

SequencesOf(d, f) == {m.seq : m \in MapsOf(d, f)}

(* Mutant of NextSequence: the last sequence instead of the next one. *)
LastSequence(d, f) ==
  IF SequencesOf(d, f) = {} THEN 0 ELSE Max(SequencesOf(d, f))

NextSequence(d, f) ==
  IF SequencesOf(d, f) = {} THEN 0 ELSE Max(SequencesOf(d, f)) + 1

(* Mutant of StartWriter: an append does not hash the existing blocks. *)
StartWriterUnhashed(d, mode, p, bs) ==
  LET f == CHOOSE n \in NodesAt(d, p) : TRUE
  IN  [node |-> f, mode |-> mode, ver |-> d.nodes[f].ver, size |-> d.nodes[f].size,
       hashed |-> <<>>, seq |-> NextSequence(d, f), bsize |-> bs]

(* The writer after start(), read from the database that start() left. *)
StartWriter(d, mode, p, bs) ==
  LET f == CHOOSE n \in NodesAt(d, p) : TRUE
  IN  [node |-> f, mode |-> mode, ver |-> d.nodes[f].ver, size |-> d.nodes[f].size,
       hashed |-> Content(d, f), seq |-> NextSequence(d, f), bsize |-> bs]

FitsLimit(w, chunk) == chunk = <<>> \/ w.size + Len(chunk) <= MaxFileSize

WriteChunkDb(d, w, chunk) == AttachBlocks(d, w.node, w.seq, Chunks(chunk, w.bsize))

WriteChunk(w, chunk) ==
  [w EXCEPT !.size = @ + Len(chunk), !.hashed = @ \o chunk,
            !.seq = @ + Len(Chunks(chunk, w.bsize))]

(* Mutant of CanFinalize: the version is not compared. *)
CanFinalizeAnyway(d, w) == w.node \in NodeIds(d)

(* The guarded UPDATE of _finalize matches a row. *)
CanFinalize(d, w) == w.node \in NodeIds(d) /\ d.nodes[w.node].ver = w.ver

(* Mutant of FinalizeDb: the checksum is left blank. *)
FinalizeDbBlank(d, w) ==
  [d EXCEPT !.nodes[w.node].size = w.size, !.nodes[w.node].bsize = w.bsize,
            !.nodes[w.node].ver = IF w.mode = "ab" THEN @ + 1 ELSE @]

FinalizeDb(d, w) ==
  [d EXCEPT !.nodes[w.node].size = w.size, !.nodes[w.node].bsize = w.bsize,
            !.nodes[w.node].sum = Hash(w.hashed),
            !.nodes[w.node].ver = IF w.mode = "ab" THEN @ + 1 ELSE @]

-----------------------------------------------------------------------------
(* What the rows of a committed database are expected to be *)

NodeRowSound(row) ==
  /\ DOMAIN row = {"path", "type", "size", "bsize", "sum", "ver"}
  /\ row.path \in Paths
  /\ row.type \in {"file", "directory"}
  /\ row.size \in Nat
  /\ row.bsize \in Nat \ {0}
  /\ row.ver \in Nat \ {0}

BlockRowSound(row) ==
  /\ DOMAIN row = {"data", "size", "sum", "free"}
  /\ row.data \in Seq(Bytes)
  /\ row.size \in Nat
  /\ row.free \in BOOLEAN

WriterSound(w) ==
  /\ DOMAIN w = {"node", "mode", "ver", "size", "hashed", "seq", "bsize"}
  /\ w.node \in Nat /\ w.mode \in Modes /\ w.ver \in Nat \ {0}
  /\ w.size \in Nat /\ w.seq \in Nat /\ w.bsize \in BlockSizes

TypeSound(d) ==
  /\ DOMAIN d = {"nodes", "blocks", "maps", "nodeSeq", "blockSeq"}
  /\ d.nodeSeq \in Nat \ {0} /\ d.blockSeq \in Nat \ {0}
  /\ NodeIds(d) \subseteq 1..(d.nodeSeq - 1)
  /\ \A n \in NodeIds(d) : NodeRowSound(d.nodes[n])
  /\ DOMAIN d.blocks \subseteq 1..(d.blockSeq - 1)
  /\ \A b \in DOMAIN d.blocks : BlockRowSound(d.blocks[b])
  /\ d.maps \subseteq MapRow

(* One row per path, and no file is an ancestor of another row. *)
TreeSound(d) ==
  /\ \A m, n \in NodeIds(d) : d.nodes[m].path = d.nodes[n].path => m = n
  /\ \A m, n \in NodeIds(d) :
       d.nodes[m].type = "file" => ~Below(d.nodes[m].path, d.nodes[n].path)

(* Mappings bind files to used blocks that no other mapping owns, the
   sequences of a file count up from 0, and a block in use has an owner. *)
GraphSound(d) ==
  /\ \A m \in d.maps :
       /\ m.file \in NodeIds(d) /\ d.nodes[m.file].type = "file"
       /\ m.block \in DOMAIN d.blocks /\ ~d.blocks[m.block].free
  /\ \A m, k \in d.maps :
       m.block = k.block \/ (m.file = k.file /\ m.seq = k.seq) => m = k
  /\ \A f \in NodeIds(d) : \E n \in 0..d.blockSeq : SequencesOf(d, f) = 0..(n - 1)
  /\ \A b \in DOMAIN d.blocks :
       ~d.blocks[b].free => \E m \in d.maps : m.block = b

(* Stored sizes and checksums describe the bytes a reader gets. *)
RowsMatchContent(d) ==
  /\ \A n \in NodeIds(d) : d.nodes[n].type = "file" =>
       /\ d.nodes[n].size = Len(Content(d, n))
       /\ d.nodes[n].sum = Hash(Content(d, n))
  /\ \A b \in DOMAIN d.blocks :
       /\ d.blocks[b].size = Len(d.blocks[b].data)
       /\ d.blocks[b].sum = Hash(d.blocks[b].data)
=============================================================================
