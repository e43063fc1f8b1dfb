-------------------------------- MODULE Reads --------------------------------
(***************************************************************************)
(* Readers of one namespace among committed changes.                       *)
(*                                                                         *)
(* Readers take no lock.  A read is two to four queries: the file's row,   *)
(* for a checked read the rows below its path, the blocks.  Each query     *)
(* sees what is committed by then, so commits fall between them.  Writers  *)
(* show their changes only when they commit (NamespaceRefinement), here    *)
(* one action each.                                                        *)
(*                                                                         *)
(*   read_file         a "whole" read, the row looked up by path           *)
(*   DjangoFile "rb"   "range" reads, the row looked up by the id and      *)
(*                     checked against the version taken at open           *)
(*   WebDAV GET        a "stream" read of the size that get_file_info      *)
(*                     gave, the row looked up by path a second time       *)
(***************************************************************************)
EXTENDS Tables, Ranges

CONSTANTS
  Readers,       \* concurrent readers
  Policies,      \* read integrity policies: "off", "metadata", "checksum"
  Payloads,      \* what writers write
  MaxNodes,      \* bound on FileNode ids handed out
  MaxBlocks,     \* bound on StorageBlock ids handed out
  MaxVersion     \* bound on FileNode.version

ASSUME ReadsAssumption ==
  /\ Policies \subseteq {"off", "metadata", "checksum"}
  /\ Payloads \subseteq Seq(Bytes)
  /\ MaxNodes \in Nat /\ MaxBlocks \in Nat /\ MaxVersion \in Nat

VARIABLES
  disk,    \* the committed database value
  reader   \* the call, or the open handle, of each reader

vars == <<disk, reader>>

Nobody == [stage |-> "idle"]

(* A read past its row lookup.  truth and calm are history variables: the
   content of the file when its blocks were read, and whether the row was
   still the same then. *)
Call(kind, n, policy, s, e, file) ==
  [stage |-> "row", kind |-> kind, node |-> n, row |-> disk.nodes[n], policy |-> policy,
   s |-> s, e |-> e, file |-> file, loaded |-> <<>>, out |-> <<>>, truth |-> <<>>, calm |-> TRUE]

(* What get_file_info told DjangoFile.__init__; was is a history variable, the
   content then. *)
Handle(n) ==
  [node |-> n, ver |-> disk.nodes[n].ver, size |-> disk.nodes[n].size, was |-> Content(disk, n)]

NoHandle == [node |-> 0]

-----------------------------------------------------------------------------
(* Committed changes *)

Bounded(d) ==
  /\ d.nodeSeq <= MaxNodes + 1 /\ d.blockSeq <= MaxBlocks + 1
  /\ \A n \in NodeIds(d) : d.nodes[n].ver <= MaxVersion

CommitWrite(mode, p, data, bs) ==
  /\ CanStart(disk, mode, p)
  /\ LET d == StartDb(disk, mode, p, bs)
         w == StartWriter(d, mode, p, bs)
     IN  /\ FitsLimit(w, data)
         /\ disk' = FinalizeDb(WriteChunkDb(d, w, data), WriteChunk(w, data))
  /\ Bounded(disk')
  /\ UNCHANGED reader

CommitDelete(p) ==
  /\ FileAt(disk, p)
  /\ disk' = DeleteNodes(ReleaseFileBlocks(disk, NodesAt(disk, p)), NodesAt(disk, p))
  /\ UNCHANGED reader

CommitRechunk(n, bs) ==
  /\ disk.nodes[n].type = "file" /\ disk.nodes[n].bsize # bs
  /\ disk' = RechunkDb(disk, n, bs)
  /\ Bounded(disk')
  /\ UNCHANGED reader

-----------------------------------------------------------------------------
(* The first query *)

Step(r, c) == reader' = [reader EXCEPT ![r] = c] /\ UNCHANGED disk

ReadFile(r, p, policy) ==
  /\ reader[r] = Nobody
  /\ \E n \in NodesAt(disk, p) :
       disk.nodes[n].type = "file" /\ Step(r, Call("whole", n, policy, 0, 0, NoHandle))

OpenHandle(r, p) ==
  /\ reader[r] = Nobody
  /\ \E n \in NodesAt(disk, p) :
       disk.nodes[n].type = "file" /\ Step(r, [stage |-> "open", file |-> Handle(n)])

(* Mutant of Unchanged: the version is not compared. *)
StillThere(f) == f.node \in NodeIds(disk)

(* The row is there, with the version of the handle. *)
Unchanged(f) == f.node \in NodeIds(disk) /\ disk.nodes[f.node].ver = f.ver

(* DjangoFile._fetch_range, of a range that its cache asks for. *)
Fetch(r, s, e, policy) ==
  /\ reader[r].stage = "open"
  /\ s < e /\ e <= reader[r].file.size
  /\ Unchanged(reader[r].file)
  /\ Step(r, Call("range", reader[r].file.node, policy, s, e, reader[r].file))

(* FileNotFoundError or FileConflictError: this file can no longer be read. *)
FetchRaises(r) ==
  /\ reader[r].stage = "open"
  /\ ~Unchanged(reader[r].file)
  /\ Step(r, Nobody)

CloseHandle(r) == reader[r].stage = "open" /\ Step(r, Nobody)

(* WebDAV GET: the headers are made from one row, the body, whole or a range,
   is produced later from whatever file is at the path then. *)
GetHeaders(r, p) ==
  /\ reader[r] = Nobody
  /\ \E n \in NodesAt(disk, p) :
       disk.nodes[n].type = "file"
       /\ Step(r, [stage |-> "headers", path |-> p, size |-> disk.nodes[n].size])

GetBody(r, s, e) ==
  /\ reader[r].stage = "headers"
  /\ e <= reader[r].size
  /\ s < e \/ (s = 0 /\ e = reader[r].size)
  /\ IF FileAt(disk, reader[r].path)
     THEN \E n \in NodesAt(disk, reader[r].path) :
            Step(r, Call("stream", n, "off", s, e, NoHandle))
     ELSE Step(r, Nobody)

-----------------------------------------------------------------------------
(* The other queries *)

Checked(c) == c.policy # "off" /\ c.kind # "stream"

(* The rows that _ordered_file_blocks joins, in order. *)
BlockRows(n) ==
  [i \in 1..Cardinality(MapsOf(disk, n)) |->
     LET m == OrderedMaps(disk, n)[i] IN [seq |-> m.seq, block |-> disk.blocks[m.block]]]

DataOf(rows) == [i \in 1..Len(rows) |-> rows[i].block.data]

Damaged == [error |-> "DataIntegrityError"]
Returned(data) == [error |-> "none", data |-> data]

SequencesSound(rows) == \A i \in 1..Len(rows) : rows[i].seq = i - 1

BlockSound(b, policy) ==
  /\ ~b.free
  /\ b.size = Len(b.data)
  /\ policy = "checksum" => b.sum \in {NoHash, Hash(b.data)}

(* Mutant of RangeResult: the end of the range is taken as inclusive. *)
RangeResultInclusive(c, rows) ==
  IF c.kind = "stream" THEN Returned(WalkedRange(DataOf(rows), c.s, c.e + 1))
  ELSE Returned(IndexedRange(DataOf(rows), c.s, c.e + 1))

(* read_file_range after its checks of the row. *)
RangeResult(c, rows) ==
  LET data == DataOf(rows)
  IN  IF c.kind = "stream" THEN Returned(WalkedRange(data, c.s, c.e))
      ELSE IF c.policy = "off" THEN Returned(IndexedRange(data, c.s, c.e))
      ELSE IF /\ SequencesSound(rows)
              /\ Len(FlattenSeq(data)) = c.row.size
              /\ \A i \in Walked(data, c.s, c.e) : BlockSound(rows[i].block, c.policy)
           THEN Returned(WalkedRange(data, c.s, c.e)) ELSE Damaged

(* Mutant of WholeSound: the file's own checksum is not compared. *)
WholeSoundBySize(c) ==
  /\ SequencesSound(c.loaded)
  /\ \A i \in 1..Len(c.loaded) : BlockSound(c.loaded[i].block, c.policy)
  /\ c.row.size = Len(FlattenSeq(DataOf(c.loaded)))

(* The checks of _load_file_data on what it has loaded. *)
WholeSound(c) ==
  /\ SequencesSound(c.loaded)
  /\ \A i \in 1..Len(c.loaded) : BlockSound(c.loaded[i].block, c.policy)
  /\ c.row.size = Len(FlattenSeq(DataOf(c.loaded)))
  /\ c.policy = "checksum" => c.row.sum \in {NoHash, Hash(FlattenSeq(DataOf(c.loaded)))}

(* No row but the file's own matches its path as a prefix. *)
TreeClear(c) == NodesLikeBelow(disk, c.row.path) \ {c.node} = {}

Calm(c) == c.node \in NodeIds(disk) /\ disk.nodes[c.node] = c.row

(* A checked range read asks for rows below the path before the blocks. *)
CheckTree(r) ==
  LET c == reader[r]
  IN  /\ c.stage = "row" /\ c.kind = "range" /\ Checked(c)
      /\ Step(r, IF TreeClear(c) THEN [c EXCEPT !.stage = "tree"]
                 ELSE [c EXCEPT !.stage = "done", !.out = Damaged, !.calm = Calm(c)])

(* The query for the blocks; ranges and unchecked reads are done with it. *)
LoadBlocks(r) ==
  LET c    == reader[r]
      rows == BlockRows(c.node)
      read == [c EXCEPT !.truth = FlattenSeq(DataOf(rows)), !.calm = Calm(c)]
  IN  /\ c.stage \in {"row", "tree"}
      /\ c.stage = "tree" <=> c.kind = "range" /\ Checked(c)
      /\ Step(r, IF c.kind # "whole" THEN [read EXCEPT !.stage = "done", !.out = RangeResult(c, rows)]
                 ELSE IF Checked(c) THEN [read EXCEPT !.stage = "loaded", !.loaded = rows]
                 ELSE [read EXCEPT !.stage = "done", !.out = Returned(FlattenSeq(DataOf(rows)))])

(* A checked whole read asks for rows below the path after the blocks. *)
CheckWhole(r) ==
  LET c == reader[r]
  IN  /\ c.stage = "loaded"
      /\ Step(r, [c EXCEPT !.stage = "done", !.loaded = <<>>, !.calm = @ /\ Calm(c),
                           !.out = IF TreeClear(c) /\ WholeSound(c)
                                   THEN Returned(FlattenSeq(DataOf(c.loaded))) ELSE Damaged])

Return(r) ==
  /\ reader[r].stage = "done"
  /\ Step(r, IF reader[r].file = NoHandle THEN Nobody
             ELSE [stage |-> "open", file |-> reader[r].file])

Init == disk = EmptyDb /\ reader = [r \in Readers |-> Nobody]

Positions == 0..MaxFileSize

Next ==
  \/ \E mode \in {"wb", "ab"}, p \in Paths, data \in Payloads, bs \in BlockSizes :
       CommitWrite(mode, p, data, bs)
  \/ \E p \in Paths : CommitDelete(p)
  \/ \E n \in NodeIds(disk), bs \in BlockSizes : CommitRechunk(n, bs)
  \/ \E r \in Readers, p \in Paths :
       \/ OpenHandle(r, p)
       \/ GetHeaders(r, p)
       \/ \E policy \in Policies : ReadFile(r, p, policy)
  \/ \E r \in Readers, s, e \in Positions :
       \/ GetBody(r, s, e)
       \/ \E policy \in Policies : Fetch(r, s, e, policy)
  \/ \E r \in Readers :
       \/ FetchRaises(r) \/ CloseHandle(r)
       \/ CheckTree(r) \/ LoadBlocks(r) \/ CheckWhole(r) \/ Return(r)

Spec == Init /\ [][Next]_vars

-----------------------------------------------------------------------------
Done(r) == reader[r].stage = "done"

ReturnedBytes(r) == Done(r) /\ reader[r].out.error = "none"

Wanted(c) == IF c.kind = "whole" THEN c.truth ELSE Slice(c.truth, c.s, c.e)

(* A call that returns gives the bytes asked for of one committed content of
   the file, never of two, whatever the policy and the layout of the blocks. *)
ReadsAreSlices == \A r \in Readers : ReturnedBytes(r) => reader[r].out.data = Wanted(reader[r])

(* No false alarm: a read during which the file does not change succeeds
   under every policy, whatever happens to other files. *)
CalmReadsSucceed == \A r \in Readers : Done(r) /\ reader[r].calm => ReturnedBytes(r)

(* A whole read that is checked with "checksum" returns the bytes that the
   row it looked up describes, also when a commit fell in between. *)
ChecksumReadsRow ==
  \A r \in Readers :
    ReturnedBytes(r) /\ reader[r].kind = "whole" /\ reader[r].policy = "checksum"
      => /\ Hash(reader[r].out.data) = reader[r].row.sum
         /\ Len(reader[r].out.data) = reader[r].row.size

(* A handle whose file was overwritten, appended to or replaced since it was
   opened does not begin another read of it: id and version tell. *)
StaleHandlesRaise ==
  [][\A r \in Readers :
       reader[r].stage = "open" /\ reader'[r].stage = "row"
         => Content(disk, reader[r].file.node) = reader[r].file.was]_vars
=============================================================================
