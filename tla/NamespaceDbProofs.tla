------------------------- MODULE NamespaceDbProofs -------------------------
(***************************************************************************)
(* Proofs about NamespaceDb for every value of its constants, on every     *)
(* backend, whatever its LIKE confuses.  First the tables: types, and      *)
(* mappings and blocks that own each other.  Then what the rows say about  *)
(* the bytes: sizes and checksums describe the content that a reader joins *)
(* together, the bytes of a file do not change under its version, the      *)
(* bytes of a block do not change at all, and a free block stays free.     *)
(* Then the tree of paths.  Last that the tables implement FileSystem:     *)
(* every step of the operations is, under the mapping of                   *)
(* NamespaceRefinement, one step of the abstract file system or no step at *)
(* all.                                                                    *)
(***************************************************************************)
EXTENDS NamespaceRefinement, TableProofs

-----------------------------------------------------------------------------
(* The inductive invariant of the tables.  BlockGraphOK is not inductive by
   itself: a commit publishes the working value, so the graph of the open
   transaction and the writer's next sequence belong to it. *)

GraphInv ==
  /\ TypeOK
  /\ GraphSound(db)
  /\ tx.open => /\ WritesSoundly(tx.d, tx.w)
                /\ \A m \in tx.todo : m.block \in DOMAIN tx.d.blocks

LEMMA GraphInit == Init => GraphInv
  <1> SUFFICES ASSUME Init PROVE GraphInv
    OBVIOUS
  <1>1. db = EmptyDb /\ tx = NoTransaction /\ inflight = {}
    BY DEF Init
  <1>2. TypeSound(EmptyDb)
    BY DEF TypeSound, EmptyDb, NodeIds
  <1>3. GraphSound(EmptyDb)
    BY DEF GraphSound, EmptyDb, NodeIds
  <1>4. ~tx.open /\ tx.open \in BOOLEAN
    BY <1>1 DEF NoTransaction
  <1> QED
    BY <1>1, <1>2, <1>3, <1>4 DEF GraphInv, TypeOK

(* Steps of the operations that finish in one call. *)
LEMMA DbStepGraph ==
  ASSUME GraphInv, Sound(db'), tx' = tx, inflight' \subseteq CopyCalls \cup RmdirCalls
  PROVE  GraphInv'
  BY DEF GraphInv, TypeOK, Sound

(* Steps inside a writer's transaction. *)
LEMMA TxStepGraph ==
  ASSUME GraphInv, db' = db, inflight' \subseteq CopyCalls \cup RmdirCalls,
         NEW d, NEW w, NEW call \in {NoCall} \cup CopyCalls, NEW todo,
         tx' = Transaction(d, w, call, todo),
         WritesSoundly(d, w), todo \subseteq MapRow,
         \A m \in todo : m.block \in DOMAIN d.blocks
  PROVE  GraphInv'
  <1>1. /\ tx'.open = TRUE /\ tx'.d = d /\ tx'.w = w /\ tx'.call = call /\ tx'.todo = todo
        /\ DOMAIN tx' = {"open", "d", "w", "call", "todo"}
    BY DEF Transaction
  <1>2. TypeSound(d) /\ WriterSound(w)
    BY DEF WritesSoundly, Sound
  <1>3. TypeOK'
    BY <1>1, <1>2 DEF GraphInv, TypeOK
  <1>4. GraphSound(db')
    BY DEF GraphInv
  <1>5. WritesSoundly(tx'.d, tx'.w) /\ \A m \in tx'.todo : m.block \in DOMAIN tx'.d.blocks
    BY <1>1
  <1> QED
    BY <1>3, <1>4, <1>5 DEF GraphInv

LEMMA TxEndGraph ==
  ASSUME GraphInv, Sound(db'), tx' = NoTransaction, inflight' = inflight
  PROVE  GraphInv'
  <1>1. tx'.open = FALSE
    BY DEF NoTransaction
  <1>2. tx'.open \in BOOLEAN /\ ~tx'.open
    BY <1>1
  <1> QED
    BY <1>2 DEF GraphInv, TypeOK, Sound

LEMMA MakeDirectoryShape ==
  ASSUME Sound(db), NEW p \in Paths, NEW cp \in BOOLEAN, NEW base \in 0..(MaxDepth - 1),
         MakeDirectory(p, cp, base)
  PROVE  LET first == db.nodeSeq - base - 1
             new   == {first + k : k \in (base + 1)..Len(p)}
         IN  /\ Sound(db')
             /\ new \cap NodeIds(db) = {}
             /\ NodeIds(db') = NodeIds(db) \cup new
             /\ \A n \in NodeIds(db) : db'.nodes[n] = db.nodes[n]
             /\ \A n \in new : /\ n - first \in (base + 1)..Len(p)
                               /\ db'.nodes[n] = DirectoryRow(Upto(p, n - first))
  <1> DEFINE first == db.nodeSeq - base - 1
             new   == {first + k : k \in (base + 1)..Len(p)}
  <1>1. /\ Len(p) \in Nat /\ base \in 0..(Len(p) - 1) /\ base \in Nat
        /\ TypeSound(db) /\ GraphSound(db) /\ db.nodeSeq \in Nat \ {0}
    BY PathsType DEF MakeDirectory, Sound, TypeSound
  <1>2. db' = [db EXCEPT !.nodes = [n \in DOMAIN db.nodes \cup new |->
                           IF n \in new THEN DirectoryRow(Upto(p, n - first))
                                        ELSE db.nodes[n]],
                         !.nodeSeq = @ + Len(p) - base]
    BY DEF MakeDirectory
  <1>3. \A n \in new : n - first \in (base + 1)..Len(p) /\ n \in Nat /\ n >= db.nodeSeq
                       /\ n <= db.nodeSeq + Len(p) - base - 1
    BY <1>1
  <1> HIDE DEF new, first
  <1>4. new \cap NodeIds(db) = {}
    BY <1>1, <1>3 DEF TypeSound
  <1>5. /\ DOMAIN db' = DOMAIN db
        /\ NodeIds(db') = NodeIds(db) \cup new
        /\ \A n \in NodeIds(db) : db'.nodes[n] = db.nodes[n]
        /\ \A n \in new : db'.nodes[n] = DirectoryRow(Upto(p, n - first))
        /\ db'.maps = db.maps /\ db'.blocks = db.blocks /\ db'.blockSeq = db.blockSeq
        /\ db'.nodeSeq = db.nodeSeq + Len(p) - base
    BY <1>1, <1>2, <1>4 DEF NodeIds, TypeSound
  <1>6. ASSUME NEW n \in new PROVE NodeRowSound(db'.nodes[n])
    <2>1. Upto(p, n - first) \in Paths
      BY <1>1, <1>3, UptoPath
    <2>2. BlockSize \in Nat \ {0}
      BY TablesAssumption
    <2> HIDE DEF new
    <2>3. NodeRowSound(DirectoryRow(Upto(p, n - first)))
      BY <2>1, <2>2 DEF NodeRowSound, DirectoryRow
    <2> QED
      BY <1>5, <2>3
  <1>7. TypeSound(db')
    BY <1>1, <1>3, <1>5, <1>6 DEF TypeSound, NodeIds
  <1>8. \A m \in db.maps : m.file \in NodeIds(db') /\ db'.nodes[m.file].type = "file"
    BY <1>1, <1>5 DEF GraphSound
  <1>9. GraphSound(db')
    BY <1>1, <1>5, <1>8, NodesChangeGraph
  <1> QED
    BY <1>3, <1>4, <1>5, <1>7, <1>9 DEF new, first, Sound

LEMMA DeleteShape ==
  ASSUME Sound(db), NEW p, DeleteTransaction(p)
  PROVE  /\ Sound(db')
         /\ NodeIds(db') = NodeIds(db) \ Deleted(p)
         /\ \A n \in NodeIds(db') : db'.nodes[n] = db.nodes[n]
  BY DeleteGraph DEF DeleteTransaction, Sound

(* Changing the paths of some rows. *)
LEMMA RepathSound ==
  ASSUME NEW d, Sound(d), NEW e,
         DOMAIN e = DOMAIN d, NodeIds(e) = NodeIds(d),
         \A n \in NodeIds(d) : NodeRowSound(e.nodes[n]) /\ e.nodes[n].type = d.nodes[n].type,
         e.nodeSeq = d.nodeSeq, e.maps = d.maps, e.blocks = d.blocks, e.blockSeq = d.blockSeq
  PROVE  Sound(e)
  <1>1. TypeSound(d) /\ GraphSound(d)
    BY DEF Sound
  <1>2. TypeSound(e)
    BY <1>1 DEF TypeSound
  <1>3. \A m \in d.maps : m.file \in NodeIds(e) /\ e.nodes[m.file].type = "file"
    BY <1>1 DEF GraphSound
  <1>4. GraphSound(e)
    BY <1>1, <1>3, NodesChangeGraph
  <1> QED
    BY <1>2, <1>4 DEF Sound

LEMMA MoveFileShape ==
  ASSUME Sound(db), NEW src \in Paths, NEW dst \in Paths, NEW ow \in BOOLEAN,
         MoveFile(src, dst, ow)
  PROVE  \E f \in NodesAt(db, src) :
           /\ Sound(db')
           /\ f \notin NodesAt(db, dst)
           /\ NodeIds(db') = NodeIds(db) \ NodesAt(db, dst)
           /\ db'.nodes[f].path = dst /\ db'.nodes[f].type = db.nodes[f].type
           /\ \A n \in NodeIds(db') \ {f} : db'.nodes[n] = db.nodes[n]
  <1> DEFINE old == NodesAt(db, dst)
             d   == DeleteNodes(ReleaseFileBlocks(db, old), old)
  <1>1. PICK f \in NodesAt(db, src) : db' = [d EXCEPT !.nodes[f].path = dst]
    BY DEF MoveFile
  <1>2. /\ TypeSound(d) /\ GraphSound(d)
        /\ NodeIds(d) = NodeIds(db) \ old
        /\ \A n \in NodeIds(d) : d.nodes[n] = db.nodes[n]
    BY DeleteGraph DEF Sound
  <1> HIDE DEF d
  <1>3. f \in NodeIds(d) /\ f \notin old
    BY <1>1, <1>2 DEF MoveFile, NodesAt
  <1>4. /\ DOMAIN db' = DOMAIN d /\ NodeIds(db') = NodeIds(d)
        /\ db'.nodes[f] = [d.nodes[f] EXCEPT !.path = dst]
        /\ \A n \in NodeIds(d) \ {f} : db'.nodes[n] = d.nodes[n]
        /\ db'.nodeSeq = d.nodeSeq /\ db'.maps = d.maps /\ db'.blocks = d.blocks
        /\ db'.blockSeq = d.blockSeq
    BY <1>1, <1>2, <1>3 DEF TypeSound, NodeIds
  <1>5. /\ db'.nodes[f].path = dst /\ db'.nodes[f].type = d.nodes[f].type
        /\ NodeRowSound(db'.nodes[f])
    BY <1>2, <1>3, <1>4 DEF TypeSound, NodeRowSound
  <1>6. \A n \in NodeIds(d) : NodeRowSound(db'.nodes[n]) /\ db'.nodes[n].type = d.nodes[n].type
    BY <1>2, <1>4, <1>5 DEF TypeSound
  <1>7. Sound(db')
    BY <1>2, <1>4, <1>6, RepathSound DEF Sound
  <1> HIDE DEF old
  <1>8. /\ NodeIds(db') = NodeIds(db) \ old
        /\ db'.nodes[f].type = db.nodes[f].type
        /\ \A n \in NodeIds(db') \ {f} : db'.nodes[n] = db.nodes[n]
    BY <1>2, <1>3, <1>4, <1>5
  <1> QED
    BY <1>1, <1>3, <1>5, <1>7, <1>8 DEF old

LEMMA MoveDirectoryShape ==
  ASSUME Sound(db), NEW src \in Paths, NEW dst \in Paths, NEW ow \in BOOLEAN,
         MoveDirectory(src, dst, ow)
  PROVE  LET left == Tree(src) \ Tree(dst)
         IN  /\ Sound(db')
             /\ NodeIds(db') = NodeIds(db) \ Tree(dst)
             /\ \A n \in NodeIds(db') : db'.nodes[n].type = db.nodes[n].type
             /\ \A n \in NodeIds(db') \ left : db'.nodes[n].path = db.nodes[n].path
             /\ \A n \in left : db'.nodes[n].path = Rebase(src, dst, db.nodes[n].path)
             /\ \A m, n \in left : db'.nodes[m].path = db'.nodes[n].path => m = n
  <1> DEFINE left == Tree(src) \ Tree(dst)
             d    == DeleteNodes(ReleaseFileBlocks(db, Tree(dst)), Tree(dst))
  <1>1. /\ \A n \in left : Rebase(src, dst, db.nodes[n].path) \in Paths
        /\ \A m, n \in left : Rebase(src, dst, db.nodes[m].path)
                                = Rebase(src, dst, db.nodes[n].path) => m = n
        /\ db' = Renamed(d, left, src, dst)
    BY DEF MoveDirectory
  <1>2. /\ TypeSound(d) /\ GraphSound(d)
        /\ NodeIds(d) = NodeIds(db) \ Tree(dst)
        /\ \A n \in NodeIds(d) : d.nodes[n] = db.nodes[n]
    BY DeleteGraph DEF Sound
  <1> HIDE DEF d
  <1>3. left \subseteq NodeIds(d)
    BY <1>2 DEF Tree, NodesAt, NodesLikeBelow
  <1> HIDE DEF left
  <1>4. /\ DOMAIN db' = DOMAIN d /\ NodeIds(db') = NodeIds(d)
        /\ \A n \in left : db'.nodes[n] = [d.nodes[n] EXCEPT !.path = Rebase(src, dst, d.nodes[n].path)]
        /\ \A n \in NodeIds(d) \ left : db'.nodes[n] = d.nodes[n]
        /\ db'.nodeSeq = d.nodeSeq /\ db'.maps = d.maps /\ db'.blocks = d.blocks
        /\ db'.blockSeq = d.blockSeq
    <2>1. DOMAIN d = {"nodes", "blocks", "maps", "nodeSeq", "blockSeq"}
      BY <1>2 DEF TypeSound
    <2>2. /\ DOMAIN db' = DOMAIN d
          /\ db'.nodes = [n \in DOMAIN d.nodes |->
               IF n \in left THEN [d.nodes[n] EXCEPT !.path = Rebase(src, dst, d.nodes[n].path)]
                             ELSE d.nodes[n]]
          /\ db'.nodeSeq = d.nodeSeq /\ db'.maps = d.maps /\ db'.blocks = d.blocks
          /\ db'.blockSeq = d.blockSeq
      BY <1>1, <2>1 DEF Renamed
    <2> QED
      BY <1>3, <2>2 DEF NodeIds
  <1>5. ASSUME NEW n \in left
        PROVE  /\ db'.nodes[n].path = Rebase(src, dst, db.nodes[n].path)
               /\ db'.nodes[n].type = d.nodes[n].type
               /\ NodeRowSound(db'.nodes[n])
    <2>1. NodeRowSound(d.nodes[n]) /\ d.nodes[n] = db.nodes[n]
      BY <1>2, <1>3 DEF TypeSound
    <2>2. Rebase(src, dst, d.nodes[n].path) \in Paths
      BY <1>1, <2>1
    <2> DEFINE q == Rebase(src, dst, d.nodes[n].path)
    <2>3. db'.nodes[n] = [d.nodes[n] EXCEPT !.path = q]
      BY <1>4
    <2> HIDE DEF q
    <2>4. /\ db'.nodes[n].path = q /\ db'.nodes[n].type = d.nodes[n].type
          /\ (q \in Paths => NodeRowSound(db'.nodes[n]))
      BY <2>1, <2>3 DEF NodeRowSound
    <2> QED
      BY <2>1, <2>2, <2>4 DEF q
  <1>6. \A n \in NodeIds(d) : NodeRowSound(db'.nodes[n]) /\ db'.nodes[n].type = d.nodes[n].type
    BY <1>2, <1>4, <1>5 DEF TypeSound
  <1>7. Sound(db')
    BY <1>2, <1>4, <1>6, RepathSound DEF Sound
  <1>8. /\ NodeIds(db') = NodeIds(db) \ Tree(dst)
        /\ \A n \in NodeIds(db') : db'.nodes[n].type = db.nodes[n].type
        /\ \A n \in NodeIds(db') \ left : db'.nodes[n].path = db.nodes[n].path
    BY <1>2, <1>4, <1>6
  <1>9. \A m, n \in left : db'.nodes[m].path = db'.nodes[n].path => m = n
    BY <1>1, <1>5
  <1> QED
    BY <1>5, <1>7, <1>8, <1>9 DEF left

-----------------------------------------------------------------------------
(* One lemma per action: it keeps GraphInv. *)

LEMMA WriterStartGraph ==
  ASSUME GraphInv, NEW mode \in Modes, NEW p \in Paths, NEW bs \in BlockSizes,
         WriterStart(mode, p, bs)
  PROVE  GraphInv'
  <1> DEFINE d == StartDb(db, mode, p, bs)
             w == StartWriter(d, mode, p, bs)
  <1>1. Sound(d) /\ HasNode(d, p) /\ \A n \in NodesAt(d, p) : d.nodes[n].type = "file"
    BY StartDbSound DEF GraphInv, TypeOK, Sound, WriterStart
  <1>2. tx' = Transaction(d, w, NoCall, {}) /\ db' = db /\ inflight' = inflight
    BY DEF WriterStart, Begin
  <1> HIDE DEF d
  <1>3. WritesSoundly(d, w)
    BY <1>1, StartWriterSound
  <1> HIDE DEF w
  <1> DEFINE todo == {}
  <1>4. /\ inflight' \subseteq CopyCalls \cup RmdirCalls
        /\ NoCall \in {NoCall} \cup CopyCalls
        /\ tx' = Transaction(d, w, NoCall, todo)
        /\ todo \subseteq MapRow /\ \A m \in todo : m.block \in DOMAIN d.blocks
    BY <1>2 DEF GraphInv, TypeOK
  <1> HIDE DEF todo
  <1> QED
    BY <1>2, <1>3, <1>4, TxStepGraph

LEMMA CopyStartGraph ==
  ASSUME GraphInv, NEW r \in inflight, CopyStart(r)
  PROVE  GraphInv'
  <1> DEFINE d == StartDb(db, "wb", r.dst, BlockSize)
             w == StartWriter(d, "wb", r.dst, BlockSize)
  <1>1. r \in CopyCalls /\ r.dst \in Paths /\ BlockSize \in BlockSizes /\ "wb" \in Modes
    <2>1. r \in CopyCalls \cup RmdirCalls /\ r.op = "copy"
      BY DEF GraphInv, TypeOK, CopyStart
    <2>2. r \in CopyCalls
      BY <2>1 DEF RmdirCalls
    <2> QED
      BY <2>2, TablesAssumption DEF CopyCalls, Modes
  <1>2. inflight' \subseteq CopyCalls \cup RmdirCalls /\ db' = db
    BY DEF GraphInv, TypeOK, CopyStart
  <1>3. CASE ~CanStart(db, "wb", r.dst)
    <2>1. tx' = tx
      BY <1>3 DEF CopyStart
    <2> QED
      BY <1>2, <2>1, DbStepGraph DEF GraphInv, TypeOK, Sound
  <1>4. CASE CanStart(db, "wb", r.dst)
    <2>1. Sound(d) /\ HasNode(d, r.dst) /\ \A n \in NodesAt(d, r.dst) : d.nodes[n].type = "file"
      BY <1>1, <1>4, StartDbSound DEF GraphInv, TypeOK, Sound
    <2>2. tx' = Transaction(d, w, r, MapsOf(d, r.node))
      BY <1>4 DEF CopyStart, Begin
    <2> HIDE DEF d
    <2>3. WritesSoundly(d, w)
      BY <1>1, <2>1, StartWriterSound
    <2> HIDE DEF w
    <2>4. /\ MapsOf(d, r.node) \subseteq MapRow
          /\ \A m \in MapsOf(d, r.node) : m.block \in DOMAIN d.blocks
      BY <2>1 DEF Sound, TypeSound, GraphSound, MapsOf
    <2> QED
      BY <1>1, <1>2, <2>2, <2>3, <2>4, TxStepGraph
  <1> QED
    BY <1>3, <1>4

(* write_chunk, from a caller or for a block of the source. *)
LEMMA FedGraph ==
  ASSUME GraphInv, tx.open, NEW chunk \in Seq(Bytes), NEW todo \in SUBSET tx.todo,
         tx' = Fed(chunk, todo), UNCHANGED <<db, inflight>>
  PROVE  GraphInv'
  <1> DEFINE d == WriteChunkDb(tx.d, tx.w, chunk)
             w == WriteChunk(tx.w, chunk)
  <1>1. WritesSoundly(d, w) /\ DOMAIN tx.d.blocks \subseteq DOMAIN d.blocks
    BY WriteChunkSound DEF GraphInv
  <1>2. tx' = Transaction(d, w, tx.call, todo)
    BY DEF Fed
  <1> HIDE DEF d, w
  <1>3. /\ todo \subseteq MapRow /\ tx.call \in {NoCall} \cup CopyCalls
        /\ \A m \in todo : m.block \in DOMAIN d.blocks
    BY <1>1 DEF GraphInv, TypeOK
  <1>4. db' = db /\ inflight' \subseteq CopyCalls \cup RmdirCalls
    BY DEF GraphInv, TypeOK
  <1> QED
    BY <1>1, <1>2, <1>3, <1>4, TxStepGraph

LEMMA WriterChunkGraph ==
  ASSUME GraphInv, NEW chunk \in Payloads, WriterChunk(chunk)
  PROVE  GraphInv'
  <1>1. chunk \in Seq(Bytes) /\ {} \in SUBSET tx.todo
    BY NamespaceAssumption
  <1> QED
    BY <1>1, FedGraph DEF WriterChunk

LEMMA CopyBlockGraph ==
  ASSUME GraphInv, CopyBlock
  PROVE  GraphInv'
  <1>1. PICK m \in tx.todo : tx' = Fed(tx.d.blocks[m.block].data, tx.todo \ {m})
    BY DEF CopyBlock
  <1>2. tx.open /\ db' = db /\ inflight' = inflight
    BY DEF CopyBlock
  <1>3. tx.d.blocks[m.block].data \in Seq(Bytes)
    BY <1>1, <1>2 DEF GraphInv, WritesSoundly, Sound, TypeSound, BlockRowSound
  <1>4. tx.todo \ {m} \in SUBSET tx.todo
    OBVIOUS
  <1> QED
    BY <1>1, <1>2, <1>3, <1>4, FedGraph

LEMMA WriterCommitGraph ==
  ASSUME GraphInv, WriterCommit
  PROVE  GraphInv'
  BY FinalizeSound, TxEndGraph DEF GraphInv, WriterCommit

LEMMA WriterRollbackGraph ==
  ASSUME GraphInv, WriterRollback
  PROVE  GraphInv'
  BY TxEndGraph DEF GraphInv, TypeOK, Sound, WriterRollback

(* The unlocked lookups only add a call. *)
LEMMA LookupGraph ==
  ASSUME GraphInv, NEW p \in Paths, NEW q \in Paths, NEW rec \in BOOLEAN,
         CopyLookup(p, q) \/ RemoveDirectoryCheck(p, rec)
  PROVE  GraphInv'
  <1>1. inflight' \subseteq CopyCalls \cup RmdirCalls
    <2>1. CASE CopyLookup(p, q)
      <3>1. PICK n \in NodesAt(db, p) :
              inflight' = inflight \cup {[op |-> "copy", node |-> n, src |-> p, dst |-> q]}
        BY <2>1 DEF CopyLookup
      <3>2. n \in Nat
        BY DEF GraphInv, TypeOK, TypeSound, NodesAt
      <3>3. [op |-> "copy", node |-> n, src |-> p, dst |-> q] \in CopyCalls
        BY <3>2 DEF CopyCalls
      <3> QED
        BY <3>1, <3>3 DEF GraphInv, TypeOK
    <2>2. CASE RemoveDirectoryCheck(p, rec)
      <3>1. [op |-> "rmdir", path |-> p, recursive |-> rec] \in RmdirCalls
        BY DEF RmdirCalls
      <3> QED
        BY <2>2, <3>1 DEF GraphInv, TypeOK, RemoveDirectoryCheck
    <2> QED
      BY <2>1, <2>2
  <1>2. db' = db /\ tx' = tx
    BY DEF CopyLookup, RemoveDirectoryCheck
  <1> QED
    BY <1>1, <1>2, DbStepGraph DEF GraphInv, TypeOK, Sound

LEMMA OperationGraph ==
  ASSUME GraphInv, NEW p \in Paths, NEW q \in Paths, NEW b \in BOOLEAN,
         NEW base \in 0..(MaxDepth - 1),
         \/ MakeDirectory(p, b, base) \/ DeleteFile(p, b)
         \/ MoveFile(p, q, b) \/ MoveDirectory(p, q, b)
  PROVE  GraphInv'
  <1>1. Sound(db)
    BY DEF GraphInv, TypeOK, Sound
  <1>2. Sound(db')
    <2>1. CASE MakeDirectory(p, b, base)
      BY <1>1, <2>1, MakeDirectoryShape
    <2>2. CASE DeleteFile(p, b)
      BY <1>1, <2>2, DeleteShape DEF DeleteFile
    <2>3. CASE MoveFile(p, q, b)
      BY <1>1, <2>3, MoveFileShape
    <2>4. CASE MoveDirectory(p, q, b)
      BY <1>1, <2>4, MoveDirectoryShape
    <2> QED
      BY <2>1, <2>2, <2>3, <2>4
  <1>3. tx' = tx /\ inflight' = inflight
    BY DEF MakeDirectory, DeleteFile, MoveFile, MoveDirectory
  <1> QED
    BY <1>2, <1>3, DbStepGraph DEF GraphInv, TypeOK

LEMMA RemoveDirectoryGraph ==
  ASSUME GraphInv, NEW r \in inflight, RemoveDirectoryDelete(r)
  PROVE  GraphInv'
  <1>1. Sound(db)
    BY DEF GraphInv, TypeOK, Sound
  <1>2. Sound(db')
    <2>1. CASE DeleteTransaction(r.path)
      BY <1>1, <2>1, DeleteShape
    <2>2. CASE UNCHANGED db
      BY <1>1, <2>2
    <2> QED
      BY <2>1, <2>2 DEF RemoveDirectoryDelete
  <1>3. tx' = tx /\ inflight' \subseteq CopyCalls \cup RmdirCalls
    BY DEF RemoveDirectoryDelete, GraphInv, TypeOK
  <1> QED
    BY <1>2, <1>3, DbStepGraph

LEMMA GraphStep == GraphInv /\ [Next]_vars => GraphInv'
  <1> SUFFICES ASSUME GraphInv, [Next]_vars PROVE GraphInv'
    OBVIOUS
  <1>1. CASE UNCHANGED vars
    BY <1>1 DEF vars, GraphInv, TypeOK, TransactionOK
  <1>2. CASE Next
    <2>1. \A mode \in Modes, p \in Paths, bs \in BlockSizes :
            WriterStart(mode, p, bs) => GraphInv'
      BY WriterStartGraph
    <2>2. \A chunk \in Payloads : WriterChunk(chunk) => GraphInv'
      BY WriterChunkGraph
    <2>3. WriterCommit \/ WriterRollback \/ CopyBlock => GraphInv'
      BY WriterCommitGraph, WriterRollbackGraph, CopyBlockGraph
    <2>4. \A src, dst \in Paths : CopyLookup(src, dst) => GraphInv'
      BY LookupGraph
    <2>5. \A r \in inflight : CopyStart(r) \/ RemoveDirectoryDelete(r) => GraphInv'
      BY CopyStartGraph, RemoveDirectoryGraph
    <2>6. 0 \in 0..(MaxDepth - 1)
      BY PathsAssumption
    <2>7. \A p \in Paths, b \in BOOLEAN :
            DeleteFile(p, b) \/ RemoveDirectoryCheck(p, b) => GraphInv'
      BY <2>6, OperationGraph, LookupGraph
    <2>8. \A p \in Paths, b \in BOOLEAN, base \in 0..(MaxDepth - 1) :
            MakeDirectory(p, b, base) => GraphInv'
      BY OperationGraph
    <2>9. \A src, dst \in Paths, b \in BOOLEAN :
            MoveFile(src, dst, b) \/ MoveDirectory(src, dst, b) => GraphInv'
      BY <2>6, OperationGraph
    <2> QED
      BY <1>2, <2>1, <2>2, <2>3, <2>4, <2>5, <2>7, <2>8, <2>9 DEF Next
  <1> QED
    BY <1>1, <1>2

(* The rows of the committed database and of every open transaction keep their
   types, whatever operations run and however they interleave. *)
THEOREM TypeCorrect == Spec => []TypeOK
  <1>1. GraphInv => TypeOK
    BY DEF GraphInv
  <1> QED
    BY <1>1, GraphInit, GraphStep, PTL DEF Spec

(* Used blocks have exactly one owner, owned blocks are used, and sequences
   have no gaps: on every backend, for any number of files, blocks, versions
   and concurrent calls. *)
THEOREM BlockGraphCorrect == Spec => []BlockGraphOK
  <1>1. GraphInv => BlockGraphOK
    BY DEF GraphInv, BlockGraphOK
  <1> QED
    BY <1>1, GraphInit, GraphStep, PTL DEF Spec

-----------------------------------------------------------------------------
(* Content and versions *)

IdsAreNew(d, e) ==
  /\ e.nodeSeq \in Nat /\ d.nodeSeq <= e.nodeSeq
  /\ \A n \in NodeIds(e) \ NodeIds(d) : n \in Nat /\ n >= d.nodeSeq

FileContinues(d, e, n) ==
  \/ e.nodes[n].ver > d.nodes[n].ver
  \/ e.nodes[n].ver = d.nodes[n].ver /\ MapsOf(e, n) = MapsOf(d, n)

Continues(d, e) ==
  /\ BlocksKept(d, e)
  /\ IdsAreNew(d, e)
  /\ \A n \in NodeIds(d) \cap NodeIds(e) : FileContinues(d, e, n)

(* ... where an open writer w has still to raise the version of the file that
   it appends to. *)
WriterContinues(d, e, w) ==
  /\ BlocksKept(d, e)
  /\ IdsAreNew(d, e)
  /\ \A n \in NodeIds(d) \cap NodeIds(e) :
       \/ FileContinues(d, e, n)
       \/ n = w.node /\ w.mode = "ab" /\ e.nodes[n].ver = d.nodes[n].ver
  /\ w.node \in NodeIds(d) /\ w.mode # "ab" => e.nodes[w.node].ver > d.nodes[w.node].ver

VersionInv == tx.open => WriterContinues(db, tx.d, tx.w)

(* What every operation but a writer's leaves as it is: it may remove rows,
   rename them and add directories. *)
RowsKept(d, e) ==
  /\ BlocksKept(d, e) /\ BlocksAmong(d, e) /\ IdsAreNew(d, e)
  /\ \A n \in NodeIds(d) \cap NodeIds(e) :
       /\ MapsOf(e, n) = MapsOf(d, n)
       /\ e.nodes[n].type = d.nodes[n].type /\ e.nodes[n].size = d.nodes[n].size
       /\ e.nodes[n].sum = d.nodes[n].sum /\ e.nodes[n].ver = d.nodes[n].ver
  /\ \A n \in NodeIds(e) \ NodeIds(d) : e.nodes[n].type = "directory"

(* While a writer is at work, the row of its file says nothing about the
   content, but its counters do. *)
WriterMatches(d, w) ==
  /\ BlocksMatch(d)
  /\ \A n \in NodeIds(d) \ {w.node} : FileMatches(d, n)
  /\ w.hashed = Content(d, w.node)
  /\ w.size = Len(w.hashed)

ContentInv ==
  /\ RowsMatchContent(db)
  /\ tx.open => WriterMatches(tx.d, tx.w)

-----------------------------------------------------------------------------
(* The operations that no writer is needed for *)

LEMMA DeleteKeeps ==
  ASSUME NEW d, TypeSound(d), GraphSound(d), NEW ids
  PROVE  LET e == DeleteNodes(ReleaseFileBlocks(d, ids), ids)
         IN  /\ TypeSound(e) /\ RowsKept(d, e)
             /\ NodeIds(e) = NodeIds(d) \ ids /\ e.nodeSeq = d.nodeSeq
             /\ \A n \in NodeIds(e) : e.nodes[n] = d.nodes[n]
  <1> DEFINE r == ReleaseFileBlocks(d, ids)
             e == DeleteNodes(r, ids)
  <1>1. /\ BlocksKept(d, r) /\ BlocksAmong(d, r)
        /\ \A n : n \notin ids => MapsOf(r, n) = MapsOf(d, n)
    BY ReleaseContinues, ReleaseBlocks
  <1>2. /\ TypeSound(e)
        /\ NodeIds(e) = NodeIds(d) \ ids /\ e.nodeSeq = d.nodeSeq
        /\ \A n \in NodeIds(e) : e.nodes[n] = d.nodes[n]
    BY DeleteGraph
  <1>3. TypeSound(r)
    BY ReleaseType
  <1> HIDE DEF r
  <1>4. e.blocks = r.blocks /\ e.maps = {m \in r.maps : m.file \notin ids}
    BY <1>3 DEF DeleteNodes, TypeSound
  <1> HIDE DEF e
  <1>5. \A n \in NodeIds(e) : MapsOf(e, n) = MapsOf(d, n)
    BY <1>1, <1>2, <1>4 DEF MapsOf
  <1>6. BlocksKept(d, e) /\ BlocksAmong(d, e) /\ IdsAreNew(d, e)
    BY <1>1, <1>2, <1>4 DEF BlocksKept, BlocksAmong, IdsAreNew, TypeSound
  <1>7. RowsKept(d, e)
    BY <1>2, <1>5, <1>6 DEF RowsKept
  <1> QED
    BY <1>2, <1>7 DEF e, r

LEMMA DeletionKeeps ==
  ASSUME GraphInv, NEW p, DeleteTransaction(p)
  PROVE  RowsKept(db, db')
  BY DeleteKeeps DEF GraphInv, TypeOK, DeleteTransaction

LEMMA MakeDirectoryKeeps ==
  ASSUME GraphInv, NEW p \in Paths, NEW cp \in BOOLEAN, NEW base \in 0..(MaxDepth - 1),
         MakeDirectory(p, cp, base)
  PROVE  RowsKept(db, db')
  <1> DEFINE first == db.nodeSeq - base - 1
             new   == {first + k : k \in (base + 1)..Len(p)}
  <1>1. Sound(db) /\ db.nodeSeq \in Nat /\ Len(p) \in Nat /\ base \in 0..(Len(p) - 1)
    BY PathsType DEF GraphInv, TypeOK, Sound, TypeSound, MakeDirectory
  <1>2. /\ NodeIds(db') = NodeIds(db) \cup new
        /\ \A n \in NodeIds(db) : db'.nodes[n] = db.nodes[n]
        /\ \A n \in new : db'.nodes[n] = DirectoryRow(Upto(p, n - first))
    BY <1>1, MakeDirectoryShape
  <1>3. \A n \in new : n \in Nat /\ n >= db.nodeSeq
    BY <1>1
  <1>4. db'.maps = db.maps /\ db'.blocks = db.blocks /\ db'.nodeSeq = db.nodeSeq + Len(p) - base
    BY <1>1 DEF MakeDirectory, Sound, TypeSound
  <1>5. \A q : DirectoryRow(q).type = "directory"
    BY DEF DirectoryRow
  <1> HIDE DEF new, first
  <1>6. \A n \in new : db'.nodes[n].type = "directory"
    BY <1>2, <1>5
  <1>7. BlocksKept(db, db') /\ BlocksAmong(db, db')
    BY <1>4 DEF BlocksKept, BlocksAmong
  <1>8. IdsAreNew(db, db')
    BY <1>1, <1>2, <1>3, <1>4 DEF IdsAreNew
  <1> QED
    BY <1>2, <1>4, <1>6, <1>7, <1>8 DEF RowsKept, MapsOf

(* Renaming rows changes nothing but their paths. *)
LEMMA RepathKeeps ==
  ASSUME NEW c, NEW d, RowsKept(c, d), NEW e, NodeIds(e) = NodeIds(d),
         e.nodeSeq = d.nodeSeq, e.maps = d.maps, e.blocks = d.blocks,
         \A n \in NodeIds(d) :
           /\ e.nodes[n].type = d.nodes[n].type /\ e.nodes[n].size = d.nodes[n].size
           /\ e.nodes[n].sum = d.nodes[n].sum /\ e.nodes[n].ver = d.nodes[n].ver
  PROVE  RowsKept(c, e)
  BY DEF RowsKept, BlocksKept, BlocksAmong, IdsAreNew, MapsOf

LEMMA MoveFileKeeps ==
  ASSUME GraphInv, NEW src, NEW dst, NEW ow, MoveFile(src, dst, ow)
  PROVE  RowsKept(db, db')
  <1> DEFINE old == NodesAt(db, dst)
             d   == DeleteNodes(ReleaseFileBlocks(db, old), old)
  <1>1. PICK f : db' = [d EXCEPT !.nodes[f].path = dst]
    BY DEF MoveFile
  <1>2. TypeSound(d) /\ RowsKept(db, d)
    BY DeleteKeeps DEF GraphInv, TypeOK
  <1> HIDE DEF d
  <1>3. /\ NodeIds(db') = NodeIds(d) /\ db'.nodeSeq = d.nodeSeq
        /\ db'.maps = d.maps /\ db'.blocks = d.blocks
        /\ \A n \in NodeIds(d) :
             /\ db'.nodes[n].type = d.nodes[n].type /\ db'.nodes[n].size = d.nodes[n].size
             /\ db'.nodes[n].sum = d.nodes[n].sum /\ db'.nodes[n].ver = d.nodes[n].ver
    BY <1>1, <1>2 DEF TypeSound, NodeRowSound, NodeIds
  <1> QED
    BY <1>2, <1>3, RepathKeeps

LEMMA MoveDirectoryKeeps ==
  ASSUME GraphInv, NEW src, NEW dst, NEW ow, MoveDirectory(src, dst, ow)
  PROVE  RowsKept(db, db')
  <1> DEFINE left == Tree(src) \ Tree(dst)
             d    == DeleteNodes(ReleaseFileBlocks(db, Tree(dst)), Tree(dst))
  <1>1. db' = Renamed(d, left, src, dst)
    BY DEF MoveDirectory
  <1>2. TypeSound(d) /\ RowsKept(db, d)
    BY DeleteKeeps DEF GraphInv, TypeOK
  <1> HIDE DEF d, left
  <1>3. /\ db'.nodes = [n \in DOMAIN d.nodes |->
             IF n \in left THEN [d.nodes[n] EXCEPT !.path = Rebase(src, dst, d.nodes[n].path)]
                           ELSE d.nodes[n]]
        /\ db'.nodeSeq = d.nodeSeq /\ db'.maps = d.maps /\ db'.blocks = d.blocks
    BY <1>1, <1>2 DEF Renamed, TypeSound
  <1>4. ASSUME NEW n \in NodeIds(d)
        PROVE  /\ db'.nodes[n].type = d.nodes[n].type /\ db'.nodes[n].size = d.nodes[n].size
               /\ db'.nodes[n].sum = d.nodes[n].sum /\ db'.nodes[n].ver = d.nodes[n].ver
    <2> DEFINE q == Rebase(src, dst, d.nodes[n].path)
    <2>1. db'.nodes[n] = [d.nodes[n] EXCEPT !.path = q] \/ db'.nodes[n] = d.nodes[n]
      BY <1>3 DEF NodeIds
    <2> HIDE DEF q
    <2> QED
      BY <1>2, <2>1 DEF TypeSound, NodeRowSound
  <1>5. /\ NodeIds(db') = NodeIds(d) /\ db'.nodeSeq = d.nodeSeq
        /\ db'.maps = d.maps /\ db'.blocks = d.blocks
    BY <1>3 DEF NodeIds
  <1> QED
    BY <1>2, <1>4, <1>5, RepathKeeps

LEMMA OperationKeeps ==
  ASSUME GraphInv, NEW p \in Paths, NEW b \in BOOLEAN,
         \/ DeleteFile(p, b)
         \/ \E base \in 0..(MaxDepth - 1) : MakeDirectory(p, b, base)
         \/ \E q \in Paths : MoveFile(p, q, b) \/ MoveDirectory(p, q, b)
  PROVE  LockFree /\ tx' = tx /\ RowsKept(db, db')
  <1>1. LockFree /\ tx' = tx
    BY DEF DeleteFile, MakeDirectory, MoveFile, MoveDirectory
  <1>2. RowsKept(db, db')
    BY DeletionKeeps, MakeDirectoryKeeps, MoveFileKeeps, MoveDirectoryKeeps DEF DeleteFile
  <1> QED
    BY <1>1, <1>2

(* The steps of Next by what they do to the transaction and the database. *)
StartStep(mode, p, bs) ==
  /\ CanStart(db, mode, p) /\ LockFree /\ db' = db
  /\ tx'.open
  /\ tx'.d = StartDb(db, mode, p, bs)
  /\ tx'.w = StartWriter(StartDb(db, mode, p, bs), mode, p, bs)

FeedStep(chunk) ==
  /\ tx.open /\ tx'.open /\ db' = db /\ FitsLimit(tx.w, chunk)
  /\ tx'.d = WriteChunkDb(tx.d, tx.w, chunk) /\ tx'.w = WriteChunk(tx.w, chunk)

StepKinds ==
  \/ \E mode \in Modes, p \in Paths, bs \in BlockSizes : StartStep(mode, p, bs)
  \/ \E chunk \in Seq(Bytes) : FeedStep(chunk)
  \/ WriterCommit
  \/ db' = db /\ (tx' = tx \/ tx' = NoTransaction)
  \/ LockFree /\ tx' = tx /\ RowsKept(db, db')

LEMMA StepIsKind == GraphInv /\ [Next]_vars => StepKinds
  <1> SUFFICES ASSUME GraphInv, [Next]_vars PROVE StepKinds
    OBVIOUS
  <1>1. ASSUME db' = db, tx' = tx \/ tx' = NoTransaction PROVE StepKinds
    BY <1>1 DEF StepKinds
  <1>2. ASSUME NEW mode \in Modes, NEW p \in Paths, NEW bs \in BlockSizes, LockFree,
               CanStart(db, mode, p), db' = db, NEW call, NEW todo,
               tx' = Transaction(Begin(mode, p, bs).d, Begin(mode, p, bs).w, call, todo)
        PROVE  StepKinds
    <2>1. StartStep(mode, p, bs)
      BY <1>2 DEF StartStep, Begin, Transaction
    <2> QED
      BY <2>1 DEF StepKinds
  <1>3. ASSUME NEW chunk \in Seq(Bytes), NEW todo, tx.open, FitsLimit(tx.w, chunk),
               tx' = Fed(chunk, todo), db' = db
        PROVE  StepKinds
    <2>1. FeedStep(chunk)
      BY <1>3 DEF FeedStep, Fed, Transaction
    <2> QED
      BY <2>1 DEF StepKinds
  <1>4. ASSUME NEW mode \in Modes, NEW p \in Paths, NEW bs \in BlockSizes,
               WriterStart(mode, p, bs)
        PROVE  StepKinds
    <2> DEFINE todo == {}
    <2>1. /\ LockFree /\ CanStart(db, mode, p) /\ db' = db
          /\ tx' = Transaction(Begin(mode, p, bs).d, Begin(mode, p, bs).w, NoCall, todo)
      BY <1>4 DEF WriterStart
    <2> HIDE DEF todo
    <2> QED
      BY <1>2, <2>1
  <1>5. ASSUME NEW r \in inflight, CopyStart(r) PROVE StepKinds
    <2>1. r \in CopyCalls \cup RmdirCalls /\ r.op = "copy" /\ LockFree /\ db' = db
      BY <1>5 DEF GraphInv, TypeOK, CopyStart
    <2>2. r.dst \in Paths /\ BlockSize \in BlockSizes /\ "wb" \in Modes
      BY <2>1, TablesAssumption DEF CopyCalls, RmdirCalls, Modes
    <2>3. CASE CanStart(db, "wb", r.dst)
      <3> DEFINE b    == Begin("wb", r.dst, BlockSize)
                 todo == MapsOf(b.d, r.node)
      <3>1. tx' = Transaction(b.d, b.w, r, todo)
        BY <1>5, <2>3 DEF CopyStart
      <3> HIDE DEF todo
      <3> QED
        BY <1>2, <2>1, <2>2, <2>3, <3>1
    <2>4. CASE ~CanStart(db, "wb", r.dst)
      BY <1>1, <1>5, <2>1, <2>4 DEF CopyStart
    <2> QED
      BY <2>3, <2>4
  <1>6. ASSUME NEW chunk \in Payloads, WriterChunk(chunk) PROVE StepKinds
    BY <1>3, <1>6, NamespaceAssumption DEF WriterChunk
  <1>7. ASSUME CopyBlock PROVE StepKinds
    <2>1. PICK m \in tx.todo : /\ tx' = Fed(tx.d.blocks[m.block].data, tx.todo \ {m})
                               /\ FitsLimit(tx.w, tx.d.blocks[m.block].data)
      BY <1>7 DEF CopyBlock
    <2>2. tx.open /\ db' = db
      BY <1>7 DEF CopyBlock
    <2>3. tx.d.blocks[m.block].data \in Seq(Bytes)
      BY <2>1, <2>2 DEF GraphInv, WritesSoundly, Sound, TypeSound, BlockRowSound
    <2> QED
      BY <1>3, <2>1, <2>2, <2>3
  <1>8. WriterCommit \/ WriterRollback => StepKinds
    BY DEF WriterRollback, StepKinds
  <1>9. \A p, q \in Paths, b \in BOOLEAN :
          CopyLookup(p, q) \/ RemoveDirectoryCheck(p, b) => StepKinds
    BY <1>1 DEF CopyLookup, RemoveDirectoryCheck
  <1>10. \A p \in Paths, b \in BOOLEAN :
           (\/ DeleteFile(p, b)
            \/ \E base \in 0..(MaxDepth - 1) : MakeDirectory(p, b, base)
            \/ \E q \in Paths : MoveFile(p, q, b) \/ MoveDirectory(p, q, b)) => StepKinds
    BY OperationKeeps DEF StepKinds
  <1>11. ASSUME NEW r \in inflight, RemoveDirectoryDelete(r) PROVE StepKinds
    BY <1>11, DeletionKeeps DEF RemoveDirectoryDelete, StepKinds
  <1>12. CASE UNCHANGED vars
    BY <1>1, <1>12 DEF vars
  <1>13. CASE Next
    <2>1. \A p \in Paths, b \in BOOLEAN : RemoveDirectoryCheck(p, b) => StepKinds
      BY <1>9
    <2>2. \A p, q \in Paths : CopyLookup(p, q) => StepKinds
      BY <1>9
    <2>3. \A p, q \in Paths, b \in BOOLEAN : MoveFile(p, q, b) \/ MoveDirectory(p, q, b) => StepKinds
      BY <1>10
    <2>4. \A p \in Paths, b \in BOOLEAN, base \in 0..(MaxDepth - 1) :
            DeleteFile(p, b) \/ MakeDirectory(p, b, base) => StepKinds
      BY <1>10
    <2>5. \A p \in Paths, b \in BOOLEAN : DeleteFile(p, b) => StepKinds
      BY <1>10
    <2>6. \A mode \in Modes, p \in Paths, bs \in BlockSizes : WriterStart(mode, p, bs) => StepKinds
      BY <1>4
    <2>7. \A chunk \in Payloads : WriterChunk(chunk) => StepKinds
      BY <1>6
    <2>8. \A r \in inflight : CopyStart(r) \/ RemoveDirectoryDelete(r) => StepKinds
      BY <1>5, <1>11
    <2> QED
      BY <1>7, <1>8, <1>13, <2>1, <2>2, <2>3, <2>4, <2>5, <2>6, <2>7, <2>8 DEF Next
  <1> QED
    BY <1>12, <1>13

-----------------------------------------------------------------------------
(* Versions: what comes after a database value *)

LEMMA RowsContinue ==
  ASSUME NEW d, NEW e, RowsKept(d, e)
  PROVE  Continues(d, e)
  BY DEF RowsKept, Continues, FileContinues

LEMMA StartContinues ==
  ASSUME NEW d, Sound(d), NEW mode, NEW p, NEW e, NEW w, Started(d, mode, p, e, w)
  PROVE  WriterContinues(d, e, w)
  <1>1. TypeSound(d) /\ d.nodeSeq \in Nat /\ d.nodeSeq \notin NodeIds(d)
    BY DEF Sound, TypeSound
  <1>2. \A n \in NodeIds(d) : d.nodes[n].ver \in Nat
    BY <1>1 DEF TypeSound, NodeRowSound
  <1>3. NodesAt(d, p) \subseteq NodeIds(d)
    BY DEF NodesAt
  <1>4. IdsAreNew(d, e)
    BY <1>1, <1>3 DEF Started, IdsAreNew
  <1>5. \A n \in NodeIds(d) \cap NodeIds(e) : n # w.node => FileContinues(d, e, n)
    BY DEF Started, FileContinues
  <1>6. w.node \in NodeIds(d) =>
          IF w.mode = "ab" THEN e.nodes[w.node].ver = d.nodes[w.node].ver
                           ELSE e.nodes[w.node].ver > d.nodes[w.node].ver
    BY <1>1, <1>2, <1>3 DEF Started
  <1>7. BlocksKept(d, e)
    BY DEF Started
  <1> QED
    BY <1>4, <1>5, <1>6, <1>7 DEF WriterContinues, FileContinues

LEMMA ChunkContinues ==
  ASSUME NEW c, NEW d, TypeSound(d), NEW w, WriterSound(w), WriterContinues(c, d, w),
         NEW chunk \in Seq(Bytes)
  PROVE  WriterContinues(c, WriteChunkDb(d, w, chunk), WriteChunk(w, chunk))
  <1> DEFINE e == WriteChunkDb(d, w, chunk)
             v == WriteChunk(w, chunk)
  <1>1. v.node = w.node /\ v.mode = w.mode
    BY DEF WriterSound, WriteChunk
  <1>2. Chunks(chunk, w.bsize) \in Seq(Seq(Bytes))
    BY TablesAssumption, ChunksType DEF WriterSound
  <1>3. /\ BlocksKept(d, e)
        /\ e.nodes = d.nodes /\ e.nodeSeq = d.nodeSeq
        /\ \A n : n # w.node => MapsOf(e, n) = MapsOf(d, n)
    BY <1>2, AttachContinues DEF WriteChunkDb
  <1> HIDE DEF e, v
  <1>4. BlocksKept(c, e) /\ IdsAreNew(c, e) /\ NodeIds(e) = NodeIds(d)
    BY <1>3 DEF WriterContinues, BlocksKept, IdsAreNew, NodeIds
  <1>5. ASSUME NEW n \in NodeIds(c) \cap NodeIds(e)
        PROVE  \/ FileContinues(c, e, n)
               \/ n = v.node /\ v.mode = "ab" /\ e.nodes[n].ver = c.nodes[n].ver
    <2>1. CASE n = w.node /\ w.mode = "ab"
      BY <1>1, <1>3, <1>4, <2>1 DEF WriterContinues, FileContinues
    <2>2. CASE n = w.node /\ w.mode # "ab"
      BY <1>3, <2>2 DEF WriterContinues, FileContinues
    <2>3. CASE n # w.node
      BY <1>3, <1>4, <2>3 DEF WriterContinues, FileContinues
    <2> QED
      BY <2>1, <2>2, <2>3
  <1>6. v.node \in NodeIds(c) /\ v.mode # "ab" => e.nodes[v.node].ver > c.nodes[v.node].ver
    BY <1>1, <1>3 DEF WriterContinues
  <1> QED
    BY <1>4, <1>5, <1>6 DEF e, v, WriterContinues

(* _finalize: now every file that was there, and the writer's, has its bytes
   under its old version or another version. *)
LEMMA FinalizeContinues ==
  ASSUME NEW c, NEW d, TypeSound(c), TypeSound(d), NEW w, WriterSound(w), CanFinalize(d, w),
         WriterContinues(c, d, w)
  PROVE  Continues(c, FinalizeDb(d, w))
  <1> DEFINE e == FinalizeDb(d, w)
  <1>1. w.node \in NodeIds(d) /\ d.nodes[w.node].ver \in Nat
    BY DEF CanFinalize, TypeSound, NodeRowSound
  <1>2. /\ NodeIds(e) = NodeIds(d) /\ e.nodeSeq = d.nodeSeq
        /\ e.maps = d.maps /\ e.blocks = d.blocks
        /\ \A n \in NodeIds(d) \ {w.node} : e.nodes[n] = d.nodes[n]
        /\ e.nodes[w.node].ver = d.nodes[w.node].ver + IF w.mode = "ab" THEN 1 ELSE 0
    BY FinalizeShape DEF CanFinalize
  <1> HIDE DEF e
  <1>3. BlocksKept(c, e) /\ IdsAreNew(c, e)
    BY <1>2 DEF WriterContinues, BlocksKept, IdsAreNew
  <1>4. ASSUME NEW n \in NodeIds(c) \cap NodeIds(e)
        PROVE  FileContinues(c, e, n)
    <2>1. c.nodes[n].ver \in Nat /\ MapsOf(e, n) = MapsOf(d, n)
      BY <1>2 DEF TypeSound, NodeRowSound, MapsOf
    <2>2. CASE n = w.node /\ w.mode = "ab"
      <3>1. d.nodes[n].ver >= c.nodes[n].ver
        BY <1>1, <1>2, <2>1, <2>2 DEF WriterContinues, FileContinues
      <3>2. e.nodes[n].ver = d.nodes[n].ver + 1
        BY <1>2, <2>2
      <3> QED
        BY <1>1, <2>1, <2>2, <3>1, <3>2 DEF FileContinues
    <2>3. CASE n = w.node /\ w.mode # "ab"
      BY <1>1, <1>2, <2>3 DEF WriterContinues, FileContinues
    <2>4. CASE n # w.node
      BY <1>2, <2>1, <2>4 DEF WriterContinues, FileContinues
    <2> QED
      BY <2>2, <2>3, <2>4
  <1> QED
    BY <1>3, <1>4 DEF e, Continues

LEMMA VersionInit == Init => VersionInv
  BY DEF Init, VersionInv, NoTransaction

LEMMA VersionStep == GraphInv /\ VersionInv /\ [Next]_vars => VersionInv' /\ Continues(db, db')
  <1> SUFFICES ASSUME GraphInv, VersionInv, [Next]_vars
               PROVE  VersionInv' /\ Continues(db, db')
    OBVIOUS
  <1>1. Sound(db)
    BY DEF GraphInv, TypeOK, Sound
  <1>2. db' = db => Continues(db, db')
    BY <1>1 DEF Continues, BlocksKept, IdsAreNew, FileContinues, Sound, TypeSound
  <1>3. ASSUME NEW mode \in Modes, NEW p \in Paths, NEW bs \in BlockSizes,
               StartStep(mode, p, bs)
        PROVE  WriterContinues(db', tx'.d, tx'.w)
    <2>1. Started(db, mode, p, tx'.d, tx'.w) /\ db' = db
      BY <1>1, <1>3, StartShape DEF StartStep
    <2> QED
      BY <1>1, <2>1, StartContinues
  <1>4. ASSUME NEW chunk \in Seq(Bytes), FeedStep(chunk)
        PROVE  WriterContinues(db', tx'.d, tx'.w)
    BY <1>4, ChunkContinues DEF FeedStep, GraphInv, WritesSoundly, Sound, VersionInv
  <1>5. WriterCommit => Continues(db, db') /\ ~tx'.open
    BY FinalizeContinues
       DEF GraphInv, TypeOK, WritesSoundly, Sound, VersionInv, WriterCommit, NoTransaction
  <1>6. RowsKept(db, db') => Continues(db, db')
    BY RowsContinue
  <1>7. StepKinds
    BY StepIsKind
  <1>8. CASE \E mode \in Modes, p \in Paths, bs \in BlockSizes : StartStep(mode, p, bs)
    BY <1>2, <1>3, <1>8 DEF StartStep, VersionInv
  <1>9. CASE \E chunk \in Seq(Bytes) : FeedStep(chunk)
    BY <1>2, <1>4, <1>9 DEF FeedStep, VersionInv
  <1>10. CASE WriterCommit
    BY <1>5, <1>10 DEF VersionInv
  <1>11. CASE db' = db /\ (tx' = tx \/ tx' = NoTransaction)
    BY <1>2, <1>11 DEF VersionInv, NoTransaction
  <1>12. CASE LockFree /\ tx' = tx /\ RowsKept(db, db')
    BY <1>6, <1>12 DEF VersionInv, LockFree
  <1> QED
    BY <1>7, <1>8, <1>9, <1>10, <1>11, <1>12 DEF StepKinds

(* gc may delete what it has once seen free, and a reader may keep the bytes
   of a block that it has once read: whatever the operations do, a free block
   stays free and no block is rewritten. *)
THEOREM FreedForGood == Spec => FreeBlocksStayFree
  <1> DEFINE Step == \A b \in DOMAIN db.blocks : b \in DOMAIN db'.blocks =>
                       /\ db.blocks[b].free => db'.blocks[b].free
                       /\ db'.blocks[b].data = db.blocks[b].data
  <1>1. GraphInv /\ VersionInv /\ [Next]_vars => Step
    BY VersionStep DEF Continues, BlocksKept
  <1>2. GraphInv /\ VersionInv /\ [Next]_vars => VersionInv'
    BY VersionStep
  <1>3. Spec => [][Step]_vars
    BY <1>1, <1>2, GraphInit, GraphStep, VersionInit, PTL DEF Spec
  <1> QED
    BY <1>3 DEF FreeBlocksStayFree

(* A reader that finds the (id, version) of its file unchanged has the bytes
   of the file as it is: an overwrite, an append and a copy over it raise the
   version, a rename changes no bytes, and an id is never handed out again. *)
THEOREM VersionsTell == Spec => VersionGuardsContent
  <1> DEFINE Step == /\ \A n \in NodeIds(db) \cap NodeIds(db') :
                          /\ db'.nodes[n].ver >= db.nodes[n].ver
                          /\ Content(db', n) # Content(db, n) => db'.nodes[n].ver > db.nodes[n].ver
                     /\ \A n \in NodeIds(db') \ NodeIds(db) : n >= db.nodeSeq
  <1>1. ASSUME GraphInv, GraphInv', Continues(db, db') PROVE Step
    <2>1. TypeSound(db) /\ GraphSound(db) /\ BlocksKept(db, db')
      BY <1>1 DEF GraphInv, TypeOK, Continues
    <2>2. ASSUME NEW n \in NodeIds(db) \cap NodeIds(db')
          PROVE  /\ db'.nodes[n].ver >= db.nodes[n].ver
                 /\ Content(db', n) # Content(db, n) => db'.nodes[n].ver > db.nodes[n].ver
      <3>1. db.nodes[n].ver \in Nat /\ db'.nodes[n].ver \in Nat
        BY <1>1, <2>1 DEF GraphInv, TypeOK, TypeSound, NodeRowSound
      <3>2. FileContinues(db, db', n)
        BY <1>1 DEF Continues
      <3> QED
        BY <2>1, <3>1, <3>2, SameContent, GraphParts DEF FileContinues
    <2> QED
      BY <1>1, <2>2 DEF Continues, IdsAreNew
  <1>2. GraphInv /\ VersionInv /\ [Next]_vars => VersionInv'
    BY VersionStep
  <1>3. GraphInv /\ VersionInv /\ [Next]_vars => Step
    BY <1>1, VersionStep, GraphStep
  <1>4. Spec => [][Step]_vars
    BY <1>2, <1>3, GraphInit, GraphStep, VersionInit, PTL DEF Spec
  <1> QED
    BY <1>4 DEF VersionGuardsContent

-----------------------------------------------------------------------------
(* Sizes and checksums *)

LEMMA RowsStillMatch ==
  ASSUME NEW d, TypeSound(d), GraphSound(d), RowsMatchContent(d), NEW e, RowsKept(d, e)
  PROVE  RowsMatchContent(e)
  <1>1. BlocksKept(d, e) /\ BlocksAmong(d, e) /\ BlocksMatch(d) /\ \A n \in NodeIds(d) : FileMatches(d, n)
    BY MatchParts DEF RowsKept
  <1>2. \A n \in NodeIds(e) : e.nodes[n].type = "file" =>
          /\ n \in NodeIds(d) /\ MapsOf(e, n) = MapsOf(d, n)
          /\ e.nodes[n].type = d.nodes[n].type /\ e.nodes[n].size = d.nodes[n].size
          /\ e.nodes[n].sum = d.nodes[n].sum
    BY DEF RowsKept
  <1>3. \A n \in NodeIds(e) : e.nodes[n].type = "file" => FileMatches(e, n)
    BY <1>1, <1>2, FileStillMatches
  <1>4. \A n \in NodeIds(e) : FileMatches(e, n)
    BY <1>3 DEF FileMatches
  <1> QED
    BY <1>1, <1>4, MatchParts, BlocksStillMatch

LEMMA WriterMatchesParts ==
  ASSUME NEW d, NEW w
  PROVE  WriterMatches(d, w) <=> RowsMatchBut(d, {w.node}) /\ WriterKnows(d, w)
  BY DEF WriterMatches, RowsMatchBut, WriterKnows

LEMMA StartMatches ==
  ASSUME NEW d, Sound(d), RowsMatchContent(d), NEW mode, NEW p, NEW e, NEW w,
         Started(d, mode, p, e, w), e.nodes[w.node].type = "file"
  PROVE  WriterMatches(e, w)
  <1>1. RowsMatchBut(d, {})
    BY MatchParts DEF RowsMatchBut
  <1>2. RowsMatchBut(e, {} \cup {w.node}) /\ WriterKnows(e, w)
    BY <1>1, StartKnows
  <1>3. {} \cup {w.node} = {w.node}
    OBVIOUS
  <1> QED
    BY <1>2, <1>3, WriterMatchesParts

LEMMA ChunkMatches ==
  ASSUME NEW d, NEW w, WritesSoundly(d, w), WriterMatches(d, w), NEW chunk \in Seq(Bytes)
  PROVE  WriterMatches(WriteChunkDb(d, w, chunk), WriteChunk(w, chunk))
  <1>1. WriteChunk(w, chunk).node = w.node
    BY DEF WriteChunk, WritesSoundly, WriterSound
  <1> QED
    BY <1>1, ChunkKnows, WriterMatchesParts

LEMMA FinalizeMatches ==
  ASSUME NEW d, TypeSound(d), NEW w, CanFinalize(d, w), WriterMatches(d, w)
  PROVE  RowsMatchContent(FinalizeDb(d, w))
  <1>1. RowsMatchBut(FinalizeDb(d, w), {w.node} \ {w.node})
    BY FinalizeKnows, WriterMatchesParts
  <1>2. RowsMatchBut(FinalizeDb(d, w), {})
    BY <1>1 DEF RowsMatchBut
  <1> QED
    BY <1>2, MatchParts DEF RowsMatchBut

LEMMA ContentInit == Init => ContentInv
  BY DEF Init, EmptyDb, NoTransaction, ContentInv, RowsMatchContent, NodeIds

LEMMA ContentStep == GraphInv /\ ContentInv /\ [Next]_vars => ContentInv'
  <1> SUFFICES ASSUME GraphInv, ContentInv, [Next]_vars PROVE ContentInv'
    OBVIOUS
  <1>1. Sound(db) /\ RowsMatchContent(db) /\ GraphInv'
    BY GraphStep DEF GraphInv, TypeOK, Sound, ContentInv
  <1>2. ASSUME NEW mode \in Modes, NEW p \in Paths, NEW bs \in BlockSizes,
               StartStep(mode, p, bs)
        PROVE  WriterMatches(tx'.d, tx'.w) /\ db' = db
    <2>1. Started(db, mode, p, tx'.d, tx'.w) /\ tx'.open /\ db' = db
      BY <1>1, <1>2, StartShape DEF StartStep
    <2>2. tx'.d.nodes[tx'.w.node].type = "file"
      BY <1>1, <2>1 DEF GraphInv, WritesSoundly
    <2> QED
      BY <1>1, <2>1, <2>2, StartMatches
  <1>3. ASSUME NEW chunk \in Seq(Bytes), FeedStep(chunk)
        PROVE  WriterMatches(tx'.d, tx'.w) /\ db' = db
    BY <1>3, ChunkMatches DEF FeedStep, GraphInv, ContentInv
  <1>4. WriterCommit => RowsMatchContent(db') /\ ~tx'.open
    BY FinalizeMatches DEF GraphInv, WritesSoundly, Sound, ContentInv, WriterCommit, NoTransaction
  <1>5. RowsKept(db, db') => RowsMatchContent(db')
    BY <1>1, RowsStillMatch DEF Sound
  <1>6. StepKinds
    BY StepIsKind
  <1>7. CASE \E mode \in Modes, p \in Paths, bs \in BlockSizes : StartStep(mode, p, bs)
    BY <1>1, <1>2, <1>7 DEF ContentInv
  <1>8. CASE \E chunk \in Seq(Bytes) : FeedStep(chunk)
    BY <1>1, <1>3, <1>8 DEF ContentInv
  <1>9. CASE WriterCommit
    BY <1>4, <1>9 DEF ContentInv
  <1>10. CASE db' = db /\ (tx' = tx \/ tx' = NoTransaction)
    BY <1>1, <1>10 DEF ContentInv, NoTransaction
  <1>11. CASE LockFree /\ tx' = tx /\ RowsKept(db, db')
    BY <1>5, <1>11 DEF ContentInv, LockFree
  <1> QED
    BY <1>6, <1>7, <1>8, <1>9, <1>10, <1>11 DEF StepKinds

(* Stored sizes and checksums describe the bytes that a reader gets, after any
   writes, appends, overwrites, copies, moves and deletions, interleaved in any
   way, for data of any length and blocks of any sizes. *)
THEOREM ContentCorrect == Spec => []ContentOK
  <1>1. ContentInv => ContentOK
    BY DEF ContentInv, ContentOK
  <1> QED
    BY <1>1, GraphInit, GraphStep, ContentInit, ContentStep, PTL DEF Spec

-----------------------------------------------------------------------------
(* The tree.  No sequence and no interleaving of the operations puts a file
   above another row or two rows at one path, provided that the backend's LIKE
   tells names apart.  make_directory and move_directory need that; the others
   only need that LIKE finds at least the exact descendants. *)

-----------------------------------------------------------------------------
(* Facts about paths *)

(* A rebased path is the destination, followed by what came after the source. *)
LEMMA RebaseShape ==
  ASSUME NEW src \in Paths, NEW dst \in Paths, NEW p \in Paths, p = src \/ LikeBelow(src, p)
  PROVE  LET r == Rebase(src, dst, p)
         IN  /\ Len(src) <= Len(p)
             /\ Len(r) = Len(dst) + Len(p) - Len(src)
             /\ \A i \in 1..Len(dst) : r[i] = dst[i]
             /\ \A i \in (Len(src) + 1)..Len(p) : r[Len(dst) + i - Len(src)] = p[i]
  <1>1. /\ src \in Seq(Names) /\ dst \in Seq(Names) /\ p \in Seq(Names)
        /\ Len(src) \in Nat /\ Len(dst) \in Nat /\ Len(p) \in Nat /\ Len(src) <= Len(p)
    BY PathsType DEF LikeBelow
  <1> DEFINE s == SubSeq(p, Len(src) + 1, Len(p))
  <1>2. /\ s \in Seq(Names) /\ Len(s) = Len(p) - Len(src)
        /\ \A j \in 1..(Len(p) - Len(src)) : s[j] = p[Len(src) + j]
    BY <1>1
  <1> HIDE DEF s
  <1>3. /\ Len(dst \o s) = Len(dst) + Len(s)
        /\ \A i \in 1..Len(dst) : (dst \o s)[i] = dst[i]
        /\ \A j \in 1..Len(s) : (dst \o s)[Len(dst) + j] = s[j]
    <2>1. s \in Seq(Names) /\ dst \in Seq(Names)
      BY <1>1, <1>2
    <2>2. Len(dst \o s) = Len(dst) + Len(s)
      BY <2>1
    <2>3. ASSUME NEW i \in 1..Len(dst) PROVE (dst \o s)[i] = dst[i]
      BY <2>1
    <2>4. ASSUME NEW j \in 1..Len(s) PROVE (dst \o s)[Len(dst) + j] = s[j]
      BY <2>1
    <2> QED
      BY <2>2, <2>3, <2>4
  <1>4. ASSUME NEW i \in (Len(src) + 1)..Len(p)
        PROVE  (dst \o s)[Len(dst) + i - Len(src)] = p[i]
    <2> DEFINE j == i - Len(src)
    <2>1. j \in 1..Len(s) /\ Len(src) + j = i /\ Len(dst) + j = Len(dst) + i - Len(src)
      BY <1>1, <1>2
    <2> QED
      BY <1>2, <1>3, <2>1
  <1> QED
    BY <1>1, <1>2, <1>3, <1>4 DEF s, Rebase

-----------------------------------------------------------------------------
(* move_file: nothing was below the destination, nothing above it is a file. *)
LEMMA MoveFileTree ==
  ASSUME Sound(db), TreeSound(db), NEW src \in Paths, NEW dst \in Paths, NEW ow \in BOOLEAN,
         MoveFile(src, dst, ow)
  PROVE  TreeSound(db')
  <1>1. PICK f \in NodesAt(db, src) :
           /\ f \notin NodesAt(db, dst)
           /\ NodeIds(db') = NodeIds(db) \ NodesAt(db, dst)
           /\ db'.nodes[f].path = dst /\ db'.nodes[f].type = db.nodes[f].type
           /\ \A n \in NodeIds(db') \ {f} : db'.nodes[n] = db.nodes[n]
    BY MoveFileShape
  <1>2. Pathed(db)
    BY TypePathed DEF Sound
  <1>3. \A n \in NodeIds(db) : ~Below(dst, db.nodes[n].path)
    <2>1. CASE HasNode(db, dst)
      <3>1. \E m \in NodesAt(db, dst) : db.nodes[m].type = "file"
        BY <2>1 DEF MoveFile, FileAt
      <3> QED
        BY <3>1 DEF TreeSound, NodesAt
    <2>2. CASE ~HasNode(db, dst)
      <3>1. ~HasDescendants(db, dst)
        BY <2>2 DEF MoveFile
      <3> QED
        BY <1>2, <3>1, BelowLike DEF HasDescendants, NodesLikeBelow, Pathed
    <2> QED
      BY <2>1, <2>2
  <1>4. \A m \in NodeIds(db) : db.nodes[m].type = "file" => ~Below(db.nodes[m].path, dst)
    BY <1>2, FileAboveFound DEF MoveFile, ParentOk
  <1>5. ~Below(dst, dst)
    BY BelowOrder
  <1>6. ASSUME NEW m \in NodeIds(db'), NEW n \in NodeIds(db'),
               db'.nodes[m].path = db'.nodes[n].path
        PROVE  m = n
    BY <1>1, <1>6 DEF TreeSound, NodesAt
  <1>7. ASSUME NEW m \in NodeIds(db'), NEW n \in NodeIds(db'), db'.nodes[m].type = "file"
        PROVE  ~Below(db'.nodes[m].path, db'.nodes[n].path)
    <2>1. CASE m # f /\ n # f
      BY <1>1, <1>7, <2>1 DEF TreeSound
    <2>2. CASE m # f /\ n = f
      BY <1>1, <1>4, <1>7, <2>2
    <2>3. CASE m = f /\ n # f
      BY <1>1, <1>3, <2>3
    <2>4. CASE m = f /\ n = f
      BY <1>1, <1>5, <2>4
    <2> QED
      BY <2>1, <2>2, <2>3, <2>4
  <1> QED
    BY <1>6, <1>7 DEF TreeSound

(* make_directory: the new rows are directories on paths where nothing
   existed; a file above them would be above the deepest existing ancestor,
   which exists and, LIKE being case sensitive, is not below a file. *)
LEMMA MakeDirectoryTree ==
  ASSUME CaseSensitiveLike, Sound(db), TreeSound(db), NEW p \in Paths, NEW cp \in BOOLEAN,
         NEW base \in 0..(MaxDepth - 1), MakeDirectory(p, cp, base)
  PROVE  TreeSound(db')
  <1> DEFINE first == db.nodeSeq - base - 1
             new   == {first + k : k \in (base + 1)..Len(p)}
  <1>1. /\ new \cap NodeIds(db) = {}
        /\ NodeIds(db') = NodeIds(db) \cup new
        /\ \A n \in NodeIds(db) : db'.nodes[n] = db.nodes[n]
        /\ \A n \in new : /\ n - first \in (base + 1)..Len(p)
                          /\ db'.nodes[n] = DirectoryRow(Upto(p, n - first))
    BY MakeDirectoryShape
  <1>2. /\ base \in 0..(Len(p) - 1) /\ Len(p) \in Nat /\ db.nodeSeq \in Nat
        /\ \A k \in (base + 1)..Len(p) : k \in 1..Len(p)
    BY PathsType DEF MakeDirectory, Sound, TypeSound
  <1>3. Pathed(db)
    BY TypePathed DEF Sound
  <1>4. \A k \in (base + 1)..Len(p) : ~Exists(db, Upto(p, k))
    <2>1. Upto(p, Len(p)) = p
      BY PathsType DEF Upto
    <2> QED
      BY <1>2, <2>1 DEF MakeDirectory
  <1>5. \A n \in new : \E k \in (base + 1)..Len(p) :
          /\ n = first + k
          /\ db'.nodes[n].path = Upto(p, k) /\ db'.nodes[n].type = "directory"
    <2> TAKE n \in new
    <2>1. PICK k \in (base + 1)..Len(p) : n = first + k
      OBVIOUS
    <2>2. n - first = k
      BY <1>2, <2>1
    <2>3. db'.nodes[n] = DirectoryRow(Upto(p, k))
      BY <1>1, <2>2
    <2>4. db'.nodes[n].path = Upto(p, k) /\ db'.nodes[n].type = "directory"
      BY <2>3 DEF DirectoryRow
    <2> QED
      BY <2>1, <2>4
  <1>6. ASSUME NEW m \in NodeIds(db), db.nodes[m].type = "file",
               NEW k \in (base + 1)..Len(p)
        PROVE  ~Below(db.nodes[m].path, Upto(p, k))
    <2> SUFFICES ASSUME Below(db.nodes[m].path, Upto(p, k)) PROVE FALSE
      OBVIOUS
    <2> DEFINE q == db.nodes[m].path
               j == Len(q)
    <2>1. /\ q \in Paths /\ Upto(p, k) \in Paths
          /\ \A i \in 1..k : Upto(p, k)[i] = p[i]
          /\ Len(Upto(p, k)) = k
      BY <1>2, <1>3, UptoPath DEF Pathed
    <2>2. j \in 1..(k - 1) /\ q = Upto(p, j)
      <3>1. j \in 1..(k - 1) /\ Below(q, p)
        BY <1>2, <2>1, PathsType DEF Below
      <3> QED
        BY <2>1, <3>1, BelowAncestor
    <2>3. FileAt(db, q) /\ Exists(db, q)
      BY <1>6 DEF FileAt, NodesAt, Exists, HasNode
    <2>4. CASE j > base
      <3>1. j \in (base + 1)..Len(p)
        BY <1>2, <2>2, <2>4
      <3> QED
        BY <1>4, <2>2, <2>3, <3>1
    <2>5. CASE j = base
      <3>1. ~FileAt(db, Upto(p, base))
        BY <2>2, <2>5 DEF MakeDirectory
      <3> QED
        BY <2>2, <2>3, <2>5, <3>1
    <2>6. CASE j < base
      <3> DEFINE u == Upto(p, base)
      <3>1. /\ u \in Paths /\ Len(u) = base /\ \A i \in 1..base : u[i] = p[i]
            /\ Exists(db, u)
        BY <1>2, <2>2, <2>6, UptoPath DEF MakeDirectory
      <3> HIDE DEF u
      <3>2. Below(q, u)
        <4>1. \A i \in 1..j : p[i] = q[i]
          BY <2>1, <2>2, <1>2 DEF Below
        <4> QED
          BY <1>2, <2>2, <2>6, <3>1, <4>1 DEF Below
      <3>3. PICK n \in NodeIds(db) : db.nodes[n].path = u \/ LikeBelow(u, db.nodes[n].path)
        BY <3>1 DEF Exists, HasNode, HasDescendants, NodesAt, NodesLikeBelow
      <3>4. Below(q, db.nodes[n].path)
        BY <1>3, <2>1, <3>1, <3>2, <3>3, BelowLike, BelowOrder DEF Pathed
      <3> QED
        BY <1>6, <3>4 DEF TreeSound
    <2> QED
      BY <1>2, <2>2, <2>4, <2>5, <2>6
  <1>7. ASSUME NEW m \in NodeIds(db'), NEW n \in NodeIds(db'),
               db'.nodes[m].path = db'.nodes[n].path
        PROVE  m = n
    <2>1. CASE m \in NodeIds(db) /\ n \in NodeIds(db)
      BY <1>1, <1>7, <2>1 DEF TreeSound
    <2>2. ASSUME NEW a \in NodeIds(db), NEW b \in new PROVE db'.nodes[a].path # db'.nodes[b].path
      BY <1>1, <1>4, <1>5 DEF Exists, HasNode, NodesAt
    <2>3. CASE m \in new /\ n \in new
      <3>1. PICK k \in (base + 1)..Len(p) : m = first + k /\ db'.nodes[m].path = Upto(p, k)
        BY <1>5, <2>3
      <3>2. PICK l \in (base + 1)..Len(p) : n = first + l /\ db'.nodes[n].path = Upto(p, l)
        BY <1>5, <2>3
      <3>3. Len(Upto(p, k)) = k /\ Len(Upto(p, l)) = l
        BY <1>2, UptoPath
      <3> QED
        BY <1>7, <3>1, <3>2, <3>3
    <2> QED
      BY <1>1, <1>7, <2>1, <2>2, <2>3
  <1>8. ASSUME NEW m \in NodeIds(db'), NEW n \in NodeIds(db'), db'.nodes[m].type = "file"
        PROVE  ~Below(db'.nodes[m].path, db'.nodes[n].path)
    <2>1. m \in NodeIds(db) /\ db.nodes[m].type = "file" /\ db'.nodes[m] = db.nodes[m]
      <3>1. m \notin new
        BY <1>5, <1>8
      <3> QED
        BY <1>1, <1>8, <3>1
    <2>2. CASE n \in NodeIds(db)
      BY <1>1, <2>1, <2>2 DEF TreeSound
    <2>3. CASE n \in new
      BY <1>5, <1>6, <2>1, <2>3
    <2> QED
      BY <1>1, <2>2, <2>3
  <1> QED
    BY <1>7, <1>8 DEF TreeSound

(* Rebasing keeps the order of two paths of the source tree. *)
LEMMA RebaseOrder ==
  ASSUME CaseSensitiveLike, NEW src \in Paths, NEW dst \in Paths,
         NEW p \in Paths, p = src \/ Below(src, p),
         NEW q \in Paths, q = src \/ Below(src, q),
         Below(Rebase(src, dst, p), Rebase(src, dst, q))
  PROVE  Below(p, q)
  <1> DEFINE r == Rebase(src, dst, p)
             s == Rebase(src, dst, q)
  <1>0. (p = src \/ LikeBelow(src, p)) /\ (q = src \/ LikeBelow(src, q))
    BY BelowLike
  <1>1. /\ Len(src) <= Len(p) /\ Len(r) = Len(dst) + Len(p) - Len(src)
        /\ \A i \in (Len(src) + 1)..Len(p) : r[Len(dst) + i - Len(src)] = p[i]
    BY <1>0, RebaseShape
  <1>2. /\ Len(src) <= Len(q) /\ Len(s) = Len(dst) + Len(q) - Len(src)
        /\ \A i \in (Len(src) + 1)..Len(q) : s[Len(dst) + i - Len(src)] = q[i]
    BY <1>0, RebaseShape
  <1>3. Len(r) < Len(s) /\ \A i \in 1..Len(r) : s[i] = r[i]
    BY DEF Below
  <1> HIDE DEF r, s
  <1>4. Len(src) \in Nat /\ Len(dst) \in Nat /\ Len(p) \in Nat /\ Len(q) \in Nat
    BY PathsType
  <1>5. Len(p) < Len(q)
    BY <1>1, <1>2, <1>3, <1>4
  <1>6. ASSUME NEW i \in 1..Len(p) PROVE q[i] = p[i]
    <2>1. CASE i <= Len(src)
      BY <1>4, <2>1 DEF Below
    <2>2. CASE i > Len(src)
      <3> DEFINE j == Len(dst) + i - Len(src)
      <3>1. j \in 1..Len(r) /\ i \in (Len(src) + 1)..Len(p) /\ i \in (Len(src) + 1)..Len(q)
        BY <1>1, <1>4, <1>5, <2>2
      <3> QED
        BY <1>1, <1>2, <1>3, <3>1
    <2> QED
      BY <1>4, <2>1, <2>2
  <1> QED
    BY <1>5, <1>6 DEF Below

LEMMA RebaseBelow ==
  ASSUME NEW src \in Paths, NEW dst \in Paths, NEW p \in Paths,
         p = src \/ LikeBelow(src, p)
  PROVE  LET r == Rebase(src, dst, p) IN r \in Paths => r = dst \/ Below(dst, r)
  <1> DEFINE r == Rebase(src, dst, p)
  <1>1. /\ Len(src) <= Len(p) /\ Len(r) = Len(dst) + Len(p) - Len(src)
        /\ \A i \in 1..Len(dst) : r[i] = dst[i]
    BY RebaseShape
  <1> HIDE DEF r
  <1>2. Len(src) \in Nat /\ Len(dst) \in Nat /\ Len(p) \in Nat
    BY PathsType
  <1>3. CASE Len(p) = Len(src)
    <2>1. Len(r) = Len(dst)
      BY <1>1, <1>2, <1>3
    <2>2. r \in Paths => r \in Seq(Names) /\ dst \in Seq(Names)
      BY PathsType
    <2> QED
      BY <1>1, <2>1, <2>2 DEF r
  <1>4. CASE Len(p) > Len(src)
    BY <1>1, <1>2, <1>4 DEF Below, r
  <1> QED
    BY <1>1, <1>2, <1>3, <1>4

(* move_directory: the renamed rows keep their order among themselves; the
   rows that stay are neither below the destination, which was cleared, nor
   files above it. *)
LEMMA MoveDirectoryTree ==
  ASSUME CaseSensitiveLike, Sound(db), TreeSound(db), NEW src \in Paths, NEW dst \in Paths,
         NEW ow \in BOOLEAN, MoveDirectory(src, dst, ow)
  PROVE  TreeSound(db')
  <1> DEFINE left == Tree(src) \ Tree(dst)
             kept == NodeIds(db') \ left
             path(n) == db'.nodes[n].path
  <1>1. /\ NodeIds(db') = NodeIds(db) \ Tree(dst)
        /\ \A n \in NodeIds(db') : db'.nodes[n].type = db.nodes[n].type
        /\ \A n \in kept : path(n) = db.nodes[n].path
        /\ \A n \in left : path(n) = Rebase(src, dst, db.nodes[n].path)
        /\ \A m, n \in left : path(m) = path(n) => m = n
        /\ Sound(db')
    BY MoveDirectoryShape
  <1>2. Pathed(db) /\ Pathed(db')
    BY <1>1, TypePathed DEF Sound
  <1>3. \A n \in NodeIds(db) : n \in Tree(dst) <=>
          db.nodes[n].path = dst \/ LikeBelow(dst, db.nodes[n].path)
    BY DEF Tree, NodesAt, NodesLikeBelow
  <1>4. \A n \in left : /\ n \in NodeIds(db) /\ n \in NodeIds(db')
                        /\ db.nodes[n].path = src \/ Below(src, db.nodes[n].path)
    <2>1. ASSUME NEW n \in left PROVE n \in NodeIds(db) /\ n \in NodeIds(db')
      BY <1>1 DEF Tree, NodesAt, NodesLikeBelow
    <2>2. ASSUME NEW n \in left PROVE db.nodes[n].path = src \/ Below(src, db.nodes[n].path)
      BY <1>2, <2>1, BelowLike DEF Tree, NodesAt, NodesLikeBelow, Pathed
    <2> QED
      BY <2>1, <2>2
  <1>5. \A n \in left : path(n) \in Paths /\ (path(n) = dst \/ Below(dst, path(n)))
    <2> TAKE n \in left
    <2>1. /\ db.nodes[n].path \in Paths /\ path(n) \in Paths
          /\ db.nodes[n].path = src \/ LikeBelow(src, db.nodes[n].path)
      BY <1>2, <1>4, BelowLike DEF Pathed
    <2> QED
      BY <1>1, <2>1, RebaseBelow
  <1>6. \A n \in kept : /\ n \in NodeIds(db) /\ path(n) = db.nodes[n].path /\ path(n) \in Paths
                        /\ path(n) # dst /\ ~Below(dst, path(n))
    <2> TAKE n \in kept
    <2>1. n \in NodeIds(db) /\ n \notin Tree(dst) /\ path(n) = db.nodes[n].path
      BY <1>1
    <2>2. path(n) \in Paths
      BY <1>2, <2>1 DEF Pathed
    <2> QED
      BY <1>3, <2>1, <2>2, BelowLike
  <1>7. \A n \in kept : db'.nodes[n].type = "file" => ~Below(path(n), dst)
    <2> TAKE n \in kept
    <2>1. db'.nodes[n].type = db.nodes[n].type
      BY <1>1
    <2> QED
      BY <1>2, <1>6, <2>1, FileAboveFound DEF MoveDirectory, ParentOk
  <1>8. NodeIds(db') = left \cup kept
    BY <1>4
  <1> HIDE DEF left, kept
  <1>9. ASSUME NEW m \in NodeIds(db'), NEW n \in NodeIds(db'), path(m) = path(n)
        PROVE  m = n
    <2>1. CASE m \in left /\ n \in left
      BY <1>1, <1>9, <2>1
    <2>2. CASE m \in kept /\ n \in kept
      BY <1>6, <1>9, <2>2 DEF TreeSound
    <2>3. CASE m \in left /\ n \in kept
      BY <1>5, <1>6, <1>9, <2>3
    <2>4. CASE m \in kept /\ n \in left
      BY <1>5, <1>6, <1>9, <2>4
    <2> QED
      BY <1>8, <2>1, <2>2, <2>3, <2>4
  <1>10. ASSUME NEW m \in NodeIds(db'), NEW n \in NodeIds(db'), db'.nodes[m].type = "file",
                Below(path(m), path(n))
         PROVE  FALSE
    <2>1. CASE m \in left /\ n \in left
      <3> DEFINE p == db.nodes[m].path
                 q == db.nodes[n].path
      <3>1. p \in Paths /\ q \in Paths /\ db.nodes[m].type = "file"
        BY <1>1, <1>2, <1>4, <1>10, <2>1 DEF Pathed
      <3>2. Below(Rebase(src, dst, p), Rebase(src, dst, q))
        BY <1>1, <1>10, <2>1
      <3>3. Below(p, q)
        BY <1>4, <2>1, <3>1, <3>2, RebaseOrder
      <3> QED
        BY <1>4, <2>1, <3>1, <3>3 DEF TreeSound
    <2>2. CASE m \in kept /\ n \in kept
      BY <1>1, <1>6, <1>10, <2>2 DEF TreeSound
    <2>3. CASE m \in left /\ n \in kept
      BY <1>5, <1>6, <1>10, <2>3, BelowOrder
    <2>4. CASE m \in kept /\ n \in left
      <3>1. path(m) \in Paths /\ path(n) \in Paths /\ path(m) # dst /\ ~Below(dst, path(m))
        BY <1>5, <1>6, <2>4
      <3>2. Below(path(m), dst)
        <4>1. CASE path(n) = dst
          BY <1>10, <4>1
        <4>2. CASE Below(dst, path(n))
          BY <1>10, <3>1, <4>2, BelowOrder
        <4> QED
          BY <1>5, <2>4, <4>1, <4>2
      <3> QED
        BY <1>7, <1>10, <2>4, <3>2
    <2> QED
      BY <1>8, <2>1, <2>2, <2>3, <2>4
  <1> QED
    BY <1>9, <1>10 DEF TreeSound

-----------------------------------------------------------------------------
(* The invariant: the committed rows form a sound tree, and so do those that
   the open transaction works on. *)
TreeInv ==
  /\ GraphInv
  /\ TreeSound(db)
  /\ tx.open => TreeSound(tx.d)

LEMMA TreeInit == Init => TreeInv
  <1>1. Init => TreeSound(db)
    BY DEF Init, EmptyDb, TreeSound, NodeIds
  <1>2. Init => ~tx.open
    BY DEF Init, NoTransaction
  <1> QED
    BY <1>1, <1>2, GraphInit DEF TreeInv

(* Starting a writer; chunks and finalizing leave paths and types alone. *)
LEMMA StartStepTree ==
  ASSUME TreeInv, NEW mode \in Modes, NEW p \in Paths, NEW bs \in BlockSizes,
         NEW call, NEW todo, CanStart(db, mode, p), UNCHANGED db,
         tx' = Transaction(StartDb(db, mode, p, bs),
                           StartWriter(StartDb(db, mode, p, bs), mode, p, bs), call, todo)
  PROVE  TreeSound(db') /\ (tx'.open => TreeSound(tx'.d))
  <1>1. TreeSound(StartDb(db, mode, p, bs))
    BY StartTree DEF TreeInv, GraphInv, TypeOK, Sound
  <1>2. tx'.d = StartDb(db, mode, p, bs)
    BY DEF Transaction
  <1> QED
    BY <1>1, <1>2 DEF TreeInv

LEMMA FedTree ==
  ASSUME TreeInv, tx.open, NEW chunk \in Seq(Bytes), NEW todo,
         tx' = Fed(chunk, todo), UNCHANGED db
  PROVE  TreeSound(db') /\ (tx'.open => TreeSound(tx'.d))
  <1>1. tx'.d = WriteChunkDb(tx.d, tx.w, chunk)
    BY DEF Fed, Transaction
  <1>2. WriteChunkDb(tx.d, tx.w, chunk).nodes = tx.d.nodes
    BY WriteChunkSound DEF TreeInv, GraphInv
  <1>3. tx'.d.nodes = tx.d.nodes
    BY <1>1, <1>2
  <1> QED
    BY <1>3 DEF TreeInv, TreeSound, NodeIds

LEMMA CommitTree ==
  ASSUME TreeInv, WriterCommit
  PROVE  TreeSound(db') /\ (tx'.open => TreeSound(tx'.d))
  <1>1. tx.open /\ db' = FinalizeDb(tx.d, tx.w) /\ ~tx'.open
    BY DEF WriterCommit, NoTransaction
  <1>2. /\ NodeIds(db') = NodeIds(tx.d)
        /\ \A n \in NodeIds(tx.d) : /\ db'.nodes[n].path = tx.d.nodes[n].path
                                    /\ db'.nodes[n].type = tx.d.nodes[n].type
    BY <1>1, FinalizeSound DEF TreeInv, GraphInv
  <1> QED
    BY <1>1, <1>2, TreeSame DEF TreeInv

LEMMA DeleteTree ==
  ASSUME TreeInv, NEW p, DeleteTransaction(p) \/ UNCHANGED db, tx' = tx
  PROVE  TreeSound(db') /\ (tx'.open => TreeSound(tx'.d))
  <1>1. CASE UNCHANGED db
    BY <1>1 DEF TreeInv
  <1>2. CASE DeleteTransaction(p)
    <2>1. /\ NodeIds(db') = NodeIds(db) \ Deleted(p)
          /\ \A n \in NodeIds(db') : db'.nodes[n] = db.nodes[n]
      BY <1>2, DeleteShape DEF TreeInv, GraphInv, TypeOK, Sound
    <2> QED
      BY <2>1, TreeSame DEF TreeInv
  <1> QED
    BY <1>1, <1>2

LEMMA WriterTree ==
  ASSUME TreeInv,
         \/ \E mode \in Modes, p \in Paths, bs \in BlockSizes : WriterStart(mode, p, bs)
         \/ \E chunk \in Payloads : WriterChunk(chunk)
         \/ WriterCommit
         \/ WriterRollback
  PROVE  TreeSound(db') /\ (tx'.open => TreeSound(tx'.d))
  <1>1. ASSUME NEW mode \in Modes, NEW p \in Paths, NEW bs \in BlockSizes,
               WriterStart(mode, p, bs)
        PROVE  TreeSound(db') /\ (tx'.open => TreeSound(tx'.d))
    <2>1. /\ tx' = Transaction(StartDb(db, mode, p, bs),
                               StartWriter(StartDb(db, mode, p, bs), mode, p, bs), NoCall, {})
          /\ CanStart(db, mode, p) /\ UNCHANGED db
      BY <1>1 DEF WriterStart, Begin
    <2> QED
      BY <2>1, StartStepTree
  <1>2. ASSUME NEW chunk \in Payloads, WriterChunk(chunk)
        PROVE  TreeSound(db') /\ (tx'.open => TreeSound(tx'.d))
    <2>1. chunk \in Seq(Bytes) /\ tx.open /\ tx' = Fed(chunk, {}) /\ UNCHANGED db
      BY <1>2, NamespaceAssumption DEF WriterChunk
    <2> QED
      BY <2>1, FedTree
  <1>3. CASE WriterRollback
    BY <1>3 DEF WriterRollback, NoTransaction, TreeInv
  <1> QED
    BY <1>1, <1>2, <1>3, CommitTree

LEMMA CopyTree ==
  ASSUME TreeInv, (\E r \in inflight : CopyStart(r)) \/ CopyBlock
  PROVE  TreeSound(db') /\ (tx'.open => TreeSound(tx'.d))
  <1>1. ASSUME NEW r \in inflight, CopyStart(r)
        PROVE  TreeSound(db') /\ (tx'.open => TreeSound(tx'.d))
    <2> DEFINE d == StartDb(db, "wb", r.dst, BlockSize)
    <2>1. r.dst \in Paths /\ BlockSize \in BlockSizes /\ "wb" \in Modes
      <3>1. r \in CopyCalls \cup RmdirCalls /\ r.op = "copy"
        BY <1>1 DEF TreeInv, GraphInv, TypeOK, CopyStart
      <3>2. r \in CopyCalls
        BY <3>1 DEF RmdirCalls
      <3> QED
        BY <3>2, TablesAssumption DEF CopyCalls, Modes
    <2>2. CASE UNCHANGED tx
      BY <1>1, <2>2 DEF CopyStart, TreeInv
    <2>3. CASE CanStart(db, "wb", r.dst)
      <3>1. /\ tx' = Transaction(d, StartWriter(d, "wb", r.dst, BlockSize), r, MapsOf(d, r.node))
            /\ UNCHANGED db
        BY <1>1, <2>3 DEF CopyStart, Begin
      <3> QED
        BY <2>1, <2>3, <3>1, StartStepTree
    <2> QED
      BY <1>1, <2>2, <2>3 DEF CopyStart
  <1>2. CASE CopyBlock
    <2>1. PICK m \in tx.todo : tx' = Fed(tx.d.blocks[m.block].data, tx.todo \ {m})
      BY <1>2 DEF CopyBlock
    <2>2. tx.open /\ UNCHANGED db
      BY <1>2 DEF CopyBlock
    <2>3. tx.d.blocks[m.block].data \in Seq(Bytes)
      BY <2>1, <2>2 DEF TreeInv, GraphInv, WritesSoundly, Sound, TypeSound, BlockRowSound
    <2> QED
      BY <2>1, <2>2, <2>3, FedTree
  <1> QED
    BY <1>1, <1>2

LEMMA OperationTree ==
  ASSUME CaseSensitiveLike, TreeInv, NEW p \in Paths, NEW q \in Paths, NEW b \in BOOLEAN,
         NEW base \in 0..(MaxDepth - 1),
         \/ MakeDirectory(p, b, base) \/ DeleteFile(p, b)
         \/ MoveFile(p, q, b) \/ MoveDirectory(p, q, b)
  PROVE  TreeSound(db') /\ (tx'.open => TreeSound(tx'.d))
  <1>1. Sound(db) /\ TreeSound(db)
    BY DEF TreeInv, GraphInv, TypeOK, Sound
  <1>2. tx' = tx
    BY DEF MakeDirectory, DeleteFile, MoveFile, MoveDirectory
  <1>3. TreeSound(db')
    <2>1. CASE MakeDirectory(p, b, base)
      BY <1>1, <2>1, MakeDirectoryTree
    <2>2. CASE DeleteFile(p, b)
      BY <1>2, <2>2, DeleteTree DEF DeleteFile
    <2>3. CASE MoveFile(p, q, b)
      BY <1>1, <2>3, MoveFileTree
    <2>4. CASE MoveDirectory(p, q, b)
      BY <1>1, <2>4, MoveDirectoryTree
    <2> QED
      BY <2>1, <2>2, <2>3, <2>4
  <1> QED
    BY <1>2, <1>3 DEF TreeInv

LEMMA TreeStep ==
  ASSUME CaseSensitiveLike
  PROVE  TreeInv /\ [Next]_vars => TreeInv'
  <1> SUFFICES ASSUME TreeInv, [Next]_vars PROVE TreeInv'
    OBVIOUS
  <1>1. GraphInv'
    BY GraphStep DEF TreeInv
  <1>2. TreeSound(db') /\ (tx'.open => TreeSound(tx'.d))
    <2>1. CASE UNCHANGED vars
      BY <2>1 DEF vars, TreeInv
    <2>2. \A p, q \in Paths, b \in BOOLEAN, base \in 0..(MaxDepth - 1) :
            (\/ MakeDirectory(p, b, base) \/ DeleteFile(p, b)
             \/ MoveFile(p, q, b) \/ MoveDirectory(p, q, b))
              => TreeSound(db') /\ (tx'.open => TreeSound(tx'.d))
      BY OperationTree
    <2>3. \A r \in inflight : RemoveDirectoryDelete(r)
            => TreeSound(db') /\ (tx'.open => TreeSound(tx'.d))
      <3> SUFFICES ASSUME NEW r \in inflight, RemoveDirectoryDelete(r)
                   PROVE  TreeSound(db') /\ (tx'.open => TreeSound(tx'.d))
        OBVIOUS
      <3>1. (DeleteTransaction(r.path) \/ UNCHANGED db) /\ tx' = tx
        BY DEF RemoveDirectoryDelete
      <3> QED
        BY <3>1, DeleteTree
    <2>4. \A p, q \in Paths, rec \in BOOLEAN : CopyLookup(p, q) \/ RemoveDirectoryCheck(p, rec)
            => TreeSound(db') /\ (tx'.open => TreeSound(tx'.d))
      BY DEF CopyLookup, RemoveDirectoryCheck, TreeInv
    <2>5. 0 \in 0..(MaxDepth - 1) /\ TRUE \in BOOLEAN
      BY PathsAssumption
    <2>6. CASE Next
      BY <2>2, <2>3, <2>4, <2>5, <2>6, WriterTree, CopyTree DEF Next
    <2> QED
      BY <2>1, <2>6
  <1> QED
    BY <1>1, <1>2 DEF TreeInv

(* On a backend whose LIKE tells upper from lower case, whatever calls run
   concurrently and for any number of them, paths stay unique and no file has
   a row below it. *)
THEOREM TreeCorrect ==
  ASSUME CaseSensitiveLike
  PROVE  Spec => []TreeOK
  <1>1. TreeInv => TreeOK
    BY DEF TreeInv, TreeOK
  <1>2. TreeInv /\ [Next]_vars => TreeInv'
    BY TreeStep
  <1> QED
    BY <1>1, <1>2, TreeInit, PTL DEF Spec

(* On such a backend the transaction of an open writer is sound too: its row
   is there in the version that _finalize asks for, its next chunk goes where
   the stored sequences end. *)
THEOREM TransactionCorrect ==
  ASSUME CaseSensitiveLike
  PROVE  Spec => []TransactionOK
  <1>1. TreeInv => TransactionOK
    BY DEF TreeInv, GraphInv, TransactionOK, WritesSoundly, Sound
  <1>2. TreeInv /\ [Next]_vars => TreeInv'
    BY TreeStep
  <1> QED
    BY <1>1, <1>2, TreeInit, PTL DEF Spec

-----------------------------------------------------------------------------
(* The refinement.  The invariant LinkInv adds to TreeInv and ContentInv what an
   open writer's transaction still has to do with the committed rows (WriterOn),
   and what a copy between its lookup and its commit knows of its source (CallInv).
   Then there is one lemma for each operation. *)

(* What the transaction d of an open writer w is to the committed c: only the
   writer's file differs, by what start() did to it and the data since. *)
WriterOn(c, d, w) ==
  LET p == d.nodes[w.node].path
  IN  /\ CanStart(c, w.mode, p)
      /\ NodeIds(d) = NodeIds(c) \cup {w.node}
      /\ BlocksKept(c, d)
      /\ \A n \in NodeIds(d) \ {w.node} : d.nodes[n] = c.nodes[n] /\ MapsOf(d, n) = MapsOf(c, n)
      /\ \/ /\ ~HasNode(c, p)
            /\ w.node = c.nodeSeq /\ d.nodeSeq = c.nodeSeq + 1 /\ w.ver = 1
         \/ /\ w.node \in NodesAt(c, p) /\ d.nodeSeq = c.nodeSeq
            /\ w.ver = c.nodes[w.node].ver + IF w.mode = "ab" THEN 0 ELSE 1
      /\ w.size <= MaxFileSize
      /\ w.node \in NodeIds(c) /\ w.mode = "ab" =>
           \E data \in Seq(Bytes) : w.hashed = Content(c, w.node) \o data

(* No committed file is longer than the limit that write_chunk checks. *)
SizesFit(d) == \A n \in NodeIds(d) : d.nodes[n].type = "file" => d.nodes[n].size <= MaxFileSize

(* The source of a call between its lookup and its end is still that file, or
   gone for good. *)
LookedUp(d, r) ==
  r.op = "copy" => /\ r.node < d.nodeSeq
                   /\ r.node \in NodeIds(d) => d.nodes[r.node].type = "file"

(* The first k blocks of file s are in the writer's file, the others are listed. *)
CopiedUpTo(c, s, k, todo, data) ==
  /\ k \in 0..Len(OrderedData(c, s))
  /\ todo = {m \in MapsOf(c, s) : m.seq >= k}
  /\ data = FlattenSeq(SubSeq(OrderedData(c, s), 1, k))

(* What a copy of file s has written so far: the source row may be gone, or be
   the row the copy itself has emptied, and then there is nothing to read. *)
Copied(c, s, w, todo) ==
  IF s \in NodeIds(c) /\ s # w.node
  THEN \E k \in Nat : CopiedUpTo(c, s, k, todo, w.hashed)
  ELSE todo = {} /\ w.hashed = <<>>

(* What the calls past their unlocked lookup may rely on under the lock. *)
CallInv ==
  /\ \A r \in CallsUnderWay : LookedUp(db, r)
  /\ tx.open /\ Copying => /\ tx.w.mode = "wb" /\ tx.d.nodes[tx.w.node].path = tx.call.dst
                           /\ Copied(db, tx.call.node, tx.w, tx.todo)

WriterInv == tx.open => WriterOn(db, tx.d, tx.w)

-----------------------------------------------------------------------------
(* The writer of the open transaction *)

(* start() leaves the writer as WriterOn says. *)
LEMMA StartOn ==
  ASSUME NEW d, Sound(d), SizesFit(d), NEW mode \in Modes, NEW p \in Paths,
         CanStart(d, mode, p), NEW e, NEW w, Started(d, mode, p, e, w)
  PROVE  WriterOn(d, e, w)
  <1>1. TypeSound(d) /\ GraphSound(d) /\ MaxFileSize \in Nat
    BY TablesAssumption DEF Sound
  <1>2. /\ w.node \in NodeIds(e) /\ w.mode = mode /\ e.nodes[w.node].path = p
        /\ w.ver = e.nodes[w.node].ver /\ w.size = e.nodes[w.node].size
        /\ w.hashed = Content(e, w.node)
        /\ BlocksKept(d, e) /\ NodeIds(e) = NodeIds(d) \cup {w.node}
        /\ \A n \in NodeIds(e) \ {w.node} : e.nodes[n] = d.nodes[n] /\ MapsOf(e, n) = MapsOf(d, n)
    BY DEF Started
  <1>3. CASE ~HasNode(d, p)
    <2>1. /\ w.node = d.nodeSeq /\ e.nodeSeq = d.nodeSeq + 1
          /\ w.ver = 1 /\ w.size = 0
      BY <1>2, <1>3 DEF Started, HasNode
    <2>2. w.node \notin NodeIds(d)
      BY <1>1, <2>1 DEF TypeSound
    <2> QED
      BY <1>1, <1>2, <1>3, <2>1, <2>2 DEF WriterOn
  <1>4. CASE HasNode(d, p) /\ mode = "ab"
    <2>1. w.node \in NodesAt(d, p) /\ e = d
      BY <1>4 DEF Started
    <2>2. w.node \in NodeIds(d) /\ d.nodes[w.node].path = p /\ d.nodes[w.node].type = "file"
      BY <1>1, <1>4, <2>1 DEF CanStart, TargetOk, DirectoryAt, NodesAt, TypeSound, NodeRowSound
    <2>3. w.size <= MaxFileSize
      BY <1>2, <2>1, <2>2 DEF SizesFit
    <2>4. \E data \in Seq(Bytes) : w.hashed = Content(d, w.node) \o data
      <3>1. Content(d, w.node) \in Seq(Bytes)
        BY <1>1, <2>2, ContentType, GraphParts
      <3>2. w.hashed = Content(d, w.node) \o <<>> /\ <<>> \in Seq(Bytes)
        BY <1>2, <2>1, <3>1
      <3> QED
        BY <3>2
    <2>5. d.nodes[w.node].ver \in Nat /\ w.ver = d.nodes[w.node].ver + 0
      BY <1>1, <1>2, <2>1, <2>2 DEF TypeSound, NodeRowSound
    <2> QED
      BY <1>2, <1>4, <2>1, <2>2, <2>3, <2>4, <2>5 DEF WriterOn
  <1>5. CASE HasNode(d, p) /\ mode # "ab"
    <2>1. /\ w.node \in NodesAt(d, p) /\ e.nodeSeq = d.nodeSeq
          /\ w.ver = d.nodes[w.node].ver + 1 /\ w.size = 0
      BY <1>2, <1>5 DEF Started
    <2> QED
      BY <1>1, <1>2, <1>5, <2>1 DEF WriterOn
  <1> QED
    BY <1>3, <1>4, <1>5

(* ... and every chunk keeps it so. *)
LEMMA FeedOn ==
  ASSUME NEW c, TypeSound(c), GraphSound(c), NEW d, NEW w, WritesSoundly(d, w), WriterMatches(d, w),
         WriterOn(c, d, w), NEW chunk \in Seq(Bytes), FitsLimit(w, chunk)
  PROVE  WriterOn(c, WriteChunkDb(d, w, chunk), WriteChunk(w, chunk))
  <1> DEFINE e == WriteChunkDb(d, w, chunk)
             v == WriteChunk(w, chunk)
             p == d.nodes[w.node].path
  <1>1. /\ v.node = w.node /\ v.mode = w.mode /\ v.ver = w.ver
        /\ v.size = w.size + Len(chunk) /\ v.hashed = w.hashed \o chunk
    BY DEF WriteChunk, WritesSoundly, WriterSound
  <1>2. TypeSound(d) /\ GraphSound(d) /\ WriterSound(w) /\ w.size \in Nat
    BY DEF WritesSoundly, Sound, WriterSound
  <1>3. Chunks(chunk, w.bsize) \in Seq(Seq(Bytes))
    BY <1>2, TablesAssumption, ChunksType DEF WriterSound
  <1>4. /\ BlocksKept(d, e)
        /\ e.nodes = d.nodes /\ e.nodeSeq = d.nodeSeq
        /\ \A n : n # w.node => MapsOf(e, n) = MapsOf(d, n)
    BY <1>2, <1>3, AttachContinues DEF WriteChunkDb
  <1>5. v.size <= MaxFileSize
    <2>1. chunk = <<>> => Len(chunk) = 0
      OBVIOUS
    <2> QED
      BY <1>1, <1>2, <2>1 DEF FitsLimit, WriterOn
  <1>6. w.node \in NodeIds(c) /\ w.mode = "ab" =>
          \E data \in Seq(Bytes) : w.hashed \o chunk = Content(c, w.node) \o data
    <2> SUFFICES ASSUME w.node \in NodeIds(c), w.mode = "ab"
                 PROVE  \E data \in Seq(Bytes) : w.hashed \o chunk = Content(c, w.node) \o data
      OBVIOUS
    <2>1. PICK data \in Seq(Bytes) : w.hashed = Content(c, w.node) \o data
      BY DEF WriterOn
    <2> DEFINE base == Content(c, w.node)
    <2>2. base \in Seq(Bytes)
      BY ContentType, GraphParts
    <2> HIDE DEF base
    <2>3. (base \o data) \o chunk = base \o (data \o chunk) /\ data \o chunk \in Seq(Bytes)
      BY <2>2, ConcatAssociative
    <2> QED
      BY <2>1, <2>3 DEF base
  <1> HIDE DEF e, v
  <1>7. BlocksKept(c, e) /\ NodeIds(e) = NodeIds(d) /\ e.nodes[v.node].path = p
    BY <1>1, <1>4 DEF WriterOn, BlocksKept, NodeIds
  <1>8. WriterOn(c, e, v)
    BY <1>1, <1>4, <1>5, <1>6, <1>7 DEF WriterOn
  <1> QED
    BY <1>8 DEF e, v

(* What commit() makes of the committed rows. *)
LEMMA CommitShape ==
  ASSUME NEW c, TypeSound(c), GraphSound(c), NEW d, NEW w, WritesSoundly(d, w), WriterMatches(d, w),
         WriterOn(c, d, w)
  PROVE  LET e == FinalizeDb(d, w)
         IN  /\ NodeIds(e) = NodeIds(c) \cup {w.node} /\ e.nodeSeq = d.nodeSeq
             /\ \A n \in NodeIds(c) \ {w.node} :
                  e.nodes[n] = c.nodes[n] /\ Content(e, n) = Content(c, n)
             /\ e.nodes[w.node].path = d.nodes[w.node].path
             /\ e.nodes[w.node].type = "file" /\ e.nodes[w.node].size = w.size
             /\ e.nodes[w.node].ver = w.ver + IF w.mode = "ab" THEN 1 ELSE 0
             /\ Content(e, w.node) = w.hashed
  <1> DEFINE e == FinalizeDb(d, w)
  <1>1. TypeSound(d) /\ GraphSound(d) /\ CanFinalize(d, w) /\ d.nodes[w.node].type = "file"
    BY DEF WritesSoundly, Sound
  <1>2. /\ w.node \in NodeIds(d) /\ NodeIds(e) = NodeIds(d)
        /\ e.nodeSeq = d.nodeSeq /\ e.maps = d.maps /\ e.blocks = d.blocks
        /\ \A n \in NodeIds(d) \ {w.node} : e.nodes[n] = d.nodes[n]
        /\ e.nodes[w.node].path = d.nodes[w.node].path
        /\ e.nodes[w.node].type = d.nodes[w.node].type
        /\ e.nodes[w.node].size = w.size
        /\ e.nodes[w.node].ver = w.ver + IF w.mode = "ab" THEN 1 ELSE 0
    BY <1>1, FinalizeShape
  <1> HIDE DEF e
  <1>3. \A n : Content(e, n) = Content(d, n)
    BY <1>2 DEF Content, OrderedData, OrderedMaps, MapsOf
  <1>4. \A n \in NodeIds(c) \ {w.node} : d.nodes[n] = c.nodes[n] /\ Content(d, n) = Content(c, n)
    BY SameContent, GraphParts DEF WriterOn
  <1>5. Content(d, w.node) = w.hashed
    BY DEF WriterMatches
  <1> QED
    BY <1>1, <1>2, <1>3, <1>4, <1>5 DEF e, WriterOn

(* No step disturbs an open writer: nobody else changes rows under the lock. *)
LEMMA WriterInvStep ==
  GraphInv /\ ContentInv /\ SizesFit(db) /\ WriterInv /\ [Next]_vars => SizesFit(db') /\ WriterInv'
  <1> SUFFICES ASSUME GraphInv, ContentInv, SizesFit(db), WriterInv, [Next]_vars
               PROVE  SizesFit(db') /\ WriterInv'
    OBVIOUS
  <1>1. Sound(db) /\ TypeSound(db) /\ GraphSound(db)
    BY DEF GraphInv, TypeOK, Sound
  <1>2. ASSUME NEW mode \in Modes, NEW p \in Paths, NEW bs \in BlockSizes,
               StartStep(mode, p, bs)
        PROVE  WriterOn(db', tx'.d, tx'.w) /\ db' = db
    <2>1. Started(db, mode, p, tx'.d, tx'.w) /\ db' = db /\ CanStart(db, mode, p)
      BY <1>1, <1>2, StartShape DEF StartStep
    <2> QED
      BY <1>1, <2>1, StartOn
  <1>3. ASSUME NEW chunk \in Seq(Bytes), FeedStep(chunk)
        PROVE  WriterOn(db', tx'.d, tx'.w) /\ db' = db
    BY <1>1, <1>3, FeedOn DEF FeedStep, GraphInv, ContentInv, WriterInv
  <1>4. ASSUME WriterCommit PROVE SizesFit(db') /\ ~tx'.open
    <2>1. /\ WritesSoundly(tx.d, tx.w) /\ WriterMatches(tx.d, tx.w) /\ WriterOn(db, tx.d, tx.w)
          /\ db' = FinalizeDb(tx.d, tx.w) /\ ~tx'.open
      BY <1>4 DEF GraphInv, ContentInv, WriterInv, WriterCommit, NoTransaction
    <2>2. /\ NodeIds(db') = NodeIds(db) \cup {tx.w.node}
          /\ \A n \in NodeIds(db) \ {tx.w.node} : db'.nodes[n] = db.nodes[n]
          /\ db'.nodes[tx.w.node].size = tx.w.size
      BY <1>1, <2>1, CommitShape
    <2>3. tx.w.size <= MaxFileSize
      BY <2>1 DEF WriterOn
    <2> QED
      BY <2>1, <2>2, <2>3 DEF SizesFit
  <1>5. RowsKept(db, db') => SizesFit(db')
    BY DEF RowsKept, SizesFit
  <1>6. StepKinds
    BY StepIsKind
  <1>7. CASE \E mode \in Modes, p \in Paths, bs \in BlockSizes : StartStep(mode, p, bs)
    BY <1>2, <1>7 DEF WriterInv
  <1>8. CASE \E chunk \in Seq(Bytes) : FeedStep(chunk)
    BY <1>3, <1>8 DEF WriterInv
  <1>9. CASE WriterCommit
    BY <1>4, <1>9 DEF WriterInv
  <1>10. CASE db' = db /\ (tx' = tx \/ tx' = NoTransaction)
    BY <1>10 DEF WriterInv, NoTransaction
  <1>11. CASE LockFree /\ tx' = tx /\ RowsKept(db, db')
    BY <1>5, <1>11 DEF WriterInv, LockFree
  <1> QED
    BY <1>6, <1>7, <1>8, <1>9, <1>10, <1>11 DEF StepKinds

-----------------------------------------------------------------------------
(* Calls between their lookup and their end *)

LEMMA CallsType ==
  ASSUME TypeOK
  PROVE  \A r \in CallsUnderWay : r \in CopyCalls \cup RmdirCalls
  BY DEF TypeOK, CallsUnderWay, Copying, NoCall

LEMMA CallParts ==
  /\ \A r \in CopyCalls : r.op = "copy" /\ r.node \in Nat /\ r.src \in Paths /\ r.dst \in Paths
  /\ \A r \in RmdirCalls : r.op = "rmdir" /\ r.path \in Paths /\ r.recursive \in BOOLEAN
  BY DEF CopyCalls, RmdirCalls

(* An id is not handed out again, and its row stays a file. *)
LEMMA LookedUpKept ==
  ASSUME NEW d, TypeSound(d), NEW e, IdsAreNew(d, e),
         \A n \in NodeIds(d) \cap NodeIds(e) : d.nodes[n].type = "file" => e.nodes[n].type = "file",
         NEW r \in CopyCalls \cup RmdirCalls, LookedUp(d, r)
  PROVE  LookedUp(e, r)
  <1>1. d.nodeSeq \in Nat
    BY DEF TypeSound
  <1>2. r.op = "copy" => r.node \in Nat
    BY CallParts
  <1> QED
    BY <1>1, <1>2 DEF LookedUp, IdsAreNew

(* What a lookup has seen of the source holds after any step of anybody. *)
LEMMA LookupsLast ==
  ASSUME GraphInv, ContentInv, WriterInv, [Next]_vars, NEW r \in CopyCalls \cup RmdirCalls,
         LookedUp(db, r)
  PROVE  LookedUp(db', r)
  <1>1. TypeSound(db) /\ GraphSound(db)
    BY DEF GraphInv, TypeOK
  <1>2. CASE db' = db
    BY <1>2
  <1>3. CASE RowsKept(db, db')
    BY <1>1, <1>3, LookedUpKept DEF RowsKept
  <1>4. CASE WriterCommit
    <2>1. /\ WritesSoundly(tx.d, tx.w) /\ WriterMatches(tx.d, tx.w) /\ WriterOn(db, tx.d, tx.w)
          /\ db' = FinalizeDb(tx.d, tx.w)
      BY <1>4 DEF GraphInv, ContentInv, WriterInv, WriterCommit
    <2>2. /\ NodeIds(db') = NodeIds(db) \cup {tx.w.node} /\ db'.nodeSeq = tx.d.nodeSeq
          /\ \A n \in NodeIds(db) \ {tx.w.node} : db'.nodes[n] = db.nodes[n]
          /\ db'.nodes[tx.w.node].type = "file"
      BY <1>1, <2>1, CommitShape
    <2>3. IdsAreNew(db, db')
      BY <1>1, <2>1, <2>2 DEF WriterOn, IdsAreNew, NodesAt, TypeSound
    <2> QED
      BY <1>1, <2>2, <2>3, LookedUpKept
  <1>5. StepKinds
    BY StepIsKind
  <1> QED
    BY <1>2, <1>3, <1>4, <1>5 DEF StepKinds, StartStep, FeedStep

(* A copy that starts has all of its source before it. *)
LEMMA StartCopied ==
  ASSUME NEW d, Sound(d), NEW p, NEW e, NEW w, GraphSound(e), Started(d, "wb", p, e, w), NEW s
  PROVE  Copied(d, s, w, MapsOf(e, s))
  <1>1. /\ MapsOf(e, w.node) = {} /\ NodeIds(e) = NodeIds(d) \cup {w.node}
        /\ w.hashed = Content(e, w.node)
        /\ \A n \in NodeIds(e) \ {w.node} : MapsOf(e, n) = MapsOf(d, n)
    BY DEF Started
  <1>2. w.hashed = <<>>
    BY <1>1, NoMapsNoContent
  <1>3. CASE s \in NodeIds(d) /\ s # w.node
    <2> DEFINE o == OrderedData(d, s)
    <2>1. PICK n \in Nat : SequencesOf(d, s) = 0..(n - 1)
      BY <1>3 DEF Sound, TypeSound, GraphSound
    <2>2. o \in Seq(Seq(Bytes))
      BY <2>1, OrderedDataShape, GraphParts DEF BlocksInOrder, Sound
    <2>3. MapsOf(e, s) = {m \in MapsOf(d, s) : m.seq >= 0}
      BY <1>1, <1>3 DEF MapsOf, Sound, TypeSound, MapRow
    <2> HIDE DEF o
    <2>4. SubSeq(o, 1, 0) = <<>> /\ 0 \in 0..Len(o)
      BY <2>2
    <2>5. CopiedUpTo(d, s, 0, MapsOf(e, s), w.hashed)
      BY <1>2, <2>3, <2>4, FlattenEmpty DEF CopiedUpTo, o
    <2> QED
      BY <1>3, <2>5 DEF Copied
  <1>4. CASE ~(s \in NodeIds(d) /\ s # w.node)
    <2>1. MapsOf(e, s) = {}
      BY <1>1, <1>4 DEF MapsOf, GraphSound
    <2> QED
      BY <1>2, <1>4, <2>1 DEF Copied
  <1> QED
    BY <1>3, <1>4

(* One more block of the source. *)
LEMMA FeedCopied ==
  ASSUME NEW c, TypeSound(c), GraphSound(c), NEW s, NEW w, NEW todo, Copied(c, s, w, todo),
         NEW m \in todo, \A h \in todo : m.seq <= h.seq,
         NEW v, v.node = w.node, v.hashed = w.hashed \o c.blocks[m.block].data
  PROVE  Copied(c, s, v, todo \ {m}) /\ m \in c.maps
  <1> DEFINE o == OrderedData(c, s)
             l == Len(o)
  <1>1. s \in NodeIds(c) /\ s # w.node
    BY DEF Copied
  <1>2. PICK k \in Nat : CopiedUpTo(c, s, k, todo, w.hashed)
    BY <1>1 DEF Copied
  <1>3. PICK n \in Nat : SequencesOf(c, s) = 0..(n - 1)
    BY <1>1 DEF TypeSound, GraphSound
  <1>4. /\ o \in Seq(Seq(Bytes)) /\ l = n
        /\ \A h \in MapsOf(c, s) : h.seq + 1 \in 1..n /\ o[h.seq + 1] = c.blocks[h.block].data
    BY <1>3, OrderedDataShape, GraphParts DEF BlocksInOrder
  <1>5. /\ k \in 0..l /\ todo = {h \in MapsOf(c, s) : h.seq >= k}
        /\ w.hashed = FlattenSeq(SubSeq(o, 1, k))
    BY <1>2 DEF CopiedUpTo
  <1> HIDE DEF o
  <1>6. m \in MapsOf(c, s) /\ m.seq >= k /\ m.seq \in Nat
    BY <1>5 DEF MapsOf, TypeSound, MapRow
  <1>7. k < n /\ m.seq = k
    <2>1. m.seq + 1 \in 1..n
      BY <1>4, <1>6
    <2>2. k < n /\ k \in 0..(n - 1)
      BY <1>6, <2>1
    <2>3. PICK h \in MapsOf(c, s) : h.seq = k
      BY <1>3, <2>2, SequencesMaps
    <2>4. m.seq <= k
      BY <1>5, <2>3
    <2> QED
      BY <1>6, <2>2, <2>4
  <1>8. todo \ {m} = {h \in MapsOf(c, s) : h.seq >= k + 1}
    <2>1. \A h \in MapsOf(c, s) : h.seq \in Nat /\ (h.seq = k => h = m)
      BY <1>6, <1>7 DEF MapsOf, GraphSound, TypeSound, MapRow
    <2> QED
      BY <1>5, <1>7, <2>1
  <1>9. v.hashed = FlattenSeq(SubSeq(o, 1, k + 1))
    <2> DEFINE part == SubSeq(o, 1, k)
               x    == c.blocks[m.block].data
    <2>1. k + 1 \in 1..l /\ l \in Nat
      BY <1>4, <1>7
    <2>2. part \in Seq(Seq(Bytes)) /\ o[k + 1] \in Seq(Bytes)
      BY <1>4, <2>1
    <2>3. SubSeq(o, 1, k + 1) = Append(part, o[k + 1])
      BY <1>4, <2>1
    <2>4. o[k + 1] = x
      BY <1>4, <1>6, <1>7
    <2> HIDE DEF part, x
    <2>5. FlattenSeq(Append(part, o[k + 1])) = FlattenSeq(part) \o o[k + 1]
      BY <2>2, FlattenAppend
    <2> QED
      BY <1>5, <2>3, <2>4, <2>5 DEF part, x
  <1>10. CopiedUpTo(c, s, k + 1, todo \ {m}, v.hashed)
    <2>1. k + 1 \in 0..l
      BY <1>4, <1>7
    <2> QED
      BY <1>8, <1>9, <2>1 DEF CopiedUpTo, o
  <1> QED
    BY <1>1, <1>6, <1>10 DEF Copied, MapsOf

(* Nothing is left of the source. *)
LEMMA DoneCopied ==
  ASSUME NEW c, TypeSound(c), GraphSound(c), NEW s \in NodeIds(c), NEW w, s # w.node,
         Copied(c, s, w, {})
  PROVE  w.hashed = Content(c, s)
  <1> DEFINE o == OrderedData(c, s)
  <1>1. PICK k \in Nat : CopiedUpTo(c, s, k, {}, w.hashed)
    BY DEF Copied
  <1>2. PICK n \in Nat : SequencesOf(c, s) = 0..(n - 1)
    BY DEF TypeSound, GraphSound
  <1>3. o \in Seq(Seq(Bytes)) /\ Len(o) = n
    BY <1>2, OrderedDataShape, GraphParts DEF BlocksInOrder
  <1>4. /\ k \in 0..n /\ {} = {h \in MapsOf(c, s) : h.seq >= k}
        /\ w.hashed = FlattenSeq(SubSeq(o, 1, k))
    BY <1>1, <1>3 DEF CopiedUpTo
  <1> HIDE DEF o
  <1>5. k = n
    <2> SUFFICES ASSUME k # n PROVE FALSE
      OBVIOUS
    <2>1. k \in SequencesOf(c, s)
      BY <1>2, <1>4
    <2>2. PICK h \in MapsOf(c, s) : h.seq = k
      BY <2>1, SequencesMaps
    <2> QED
      BY <1>4, <2>2
  <1>6. SubSeq(o, 1, n) = o
    BY <1>3, SubSeqFull
  <1> QED
    BY <1>4, <1>5, <1>6 DEF Content, o

(* A call that is new among those under way has just done its lookup. *)
LEMMA CallsStay ==
  ASSUME GraphInv, Next
  PROVE  \A r \in CallsUnderWay' : r \in CallsUnderWay \/ LookedUp(db', r)
  <1> DEFINE Stay == \A r \in CallsUnderWay' : r \in CallsUnderWay \/ LookedUp(db', r)
  <1>1. ASSUME inflight' = inflight, tx' = NoTransaction \/ tx'.call = NoCall \/ tx' = tx
               \/ (tx.open /\ tx'.call = tx.call)
        PROVE  Stay
    BY <1>1 DEF CallsUnderWay, Copying, NoTransaction, NoCall
  <1>2. ASSUME NEW r \in inflight, CopyStart(r) PROVE Stay
    <2>1. inflight' = inflight \ {r} /\ (tx' = tx \/ tx'.call = r)
      BY <1>2 DEF CopyStart, Transaction
    <2> QED
      BY <2>1 DEF CallsUnderWay, Copying
  <1>3. ASSUME NEW src, NEW dst, CopyLookup(src, dst) PROVE Stay
    <2>1. PICK n \in NodesAt(db, src) :
            /\ db.nodes[n].type = "file"
            /\ inflight' = inflight \cup {[op |-> "copy", node |-> n, src |-> src, dst |-> dst]}
      BY <1>3 DEF CopyLookup
    <2> DEFINE r == [op |-> "copy", node |-> n, src |-> src, dst |-> dst]
    <2>2. n < db.nodeSeq
      BY <2>1 DEF NodesAt, GraphInv, TypeOK, TypeSound
    <2>3. LookedUp(db, r)
      BY <2>1, <2>2 DEF LookedUp
    <2> HIDE DEF r
    <2>4. db' = db /\ tx' = tx /\ inflight' = inflight \cup {r}
      BY <1>3, <2>1 DEF CopyLookup, r
    <2> QED
      BY <2>3, <2>4 DEF CallsUnderWay, Copying
  <1>4. ASSUME NEW p, NEW rec, RemoveDirectoryCheck(p, rec) PROVE Stay
    BY <1>4 DEF RemoveDirectoryCheck, CallsUnderWay, Copying, LookedUp
  <1>5. ASSUME NEW r \in inflight, RemoveDirectoryDelete(r) PROVE Stay
    BY <1>5 DEF RemoveDirectoryDelete, CallsUnderWay, Copying
  <1>6. ASSUME \/ \E mode \in Modes, p \in Paths, bs \in BlockSizes : WriterStart(mode, p, bs)
               \/ WriterCommit \/ WriterRollback
        PROVE  Stay
    <2>1. inflight' = inflight /\ (tx' = NoTransaction \/ tx'.call = NoCall)
      BY <1>6 DEF WriterStart, Transaction, WriterCommit, WriterRollback
    <2> QED
      BY <1>1, <2>1
  <1>7. ASSUME (\E chunk \in Payloads : WriterChunk(chunk)) \/ CopyBlock PROVE Stay
    <2>1. inflight' = inflight /\ tx.open /\ tx'.call = tx.call
      BY <1>7 DEF WriterChunk, CopyBlock, Fed, Transaction
    <2> QED
      BY <1>1, <2>1
  <1>8. ASSUME NEW p \in Paths, NEW q \in Paths, NEW b \in BOOLEAN, NEW base,
               \/ MakeDirectory(p, b, base) \/ DeleteFile(p, b)
               \/ MoveFile(p, q, b) \/ MoveDirectory(p, q, b)
        PROVE  Stay
    <2>1. inflight' = inflight /\ tx' = tx
      BY <1>8 DEF MakeDirectory, DeleteFile, MoveFile, MoveDirectory
    <2> QED
      BY <1>1, <2>1
  <1> HIDE DEF Stay
  <1>9. 0 \in 0..(MaxDepth - 1) /\ TRUE \in BOOLEAN
    BY PathsAssumption
  <1>10. Stay
    BY <1>2, <1>3, <1>4, <1>5, <1>6, <1>7, <1>8, <1>9 DEF Next
  <1> QED
    BY <1>10 DEF Stay

(* A copy that goes on has its blocks in order. *)
LEMMA CopiedStep ==
  ASSUME GraphInv, WriterInv, CallInv, Next, tx'.open, Copying'
  PROVE  /\ tx'.w.mode = "wb" /\ tx'.d.nodes[tx'.w.node].path = tx'.call.dst
         /\ Copied(db', tx'.call.node, tx'.w, tx'.todo)
  <1> DEFINE Going == /\ tx'.w.mode = "wb" /\ tx'.d.nodes[tx'.w.node].path = tx'.call.dst
                      /\ Copied(db', tx'.call.node, tx'.w, tx'.todo)
  <1>0. /\ Sound(db) /\ TypeSound(db) /\ GraphSound(db)
        /\ tx.open /\ Copying => /\ tx.w.mode = "wb" /\ tx.d.nodes[tx.w.node].path = tx.call.dst
                                 /\ Copied(db, tx.call.node, tx.w, tx.todo)
    BY DEF GraphInv, TypeOK, Sound, CallInv
  <1>1. ASSUME NEW r \in inflight, CopyStart(r), CanStart(db, "wb", r.dst) PROVE Going
    <2> DEFINE e == StartDb(db, "wb", r.dst, BlockSize)
               w == StartWriter(e, "wb", r.dst, BlockSize)
    <2>1. /\ tx' = Transaction(e, w, r, MapsOf(e, r.node)) /\ db' = db
          /\ r.dst \in Paths /\ BlockSize \in BlockSizes /\ "wb" \in Modes
      <3>1. r \in CopyCalls \cup RmdirCalls /\ r.op = "copy"
        BY <1>1 DEF GraphInv, TypeOK, CopyStart
      <3> QED
        BY <1>1, <3>1, CallParts, TablesAssumption DEF CopyStart, Begin, Modes
    <2>2. Started(db, "wb", r.dst, e, w)
      BY <1>0, <1>1, <2>1, StartShape
    <2>3. GraphSound(e)
      BY <1>0, <1>1, <2>1, StartDbSound DEF Sound
    <2> HIDE DEF e, w
    <2>4. Copied(db, r.node, w, MapsOf(e, r.node))
      BY <1>0, <2>2, <2>3, StartCopied
    <2>5. /\ tx'.d = e /\ tx'.w = w /\ tx'.call = r /\ tx'.todo = MapsOf(e, r.node)
      BY <2>1 DEF Transaction
    <2> QED
      BY <2>1, <2>2, <2>4, <2>5 DEF Started
  <1>2. ASSUME CopyBlock PROVE Going
    <2>1. PICK m \in tx.todo : /\ \A k \in tx.todo : m.seq <= k.seq
                               /\ tx' = Fed(tx.d.blocks[m.block].data, tx.todo \ {m})
      BY <1>2 DEF CopyBlock
    <2> DEFINE x == tx.d.blocks[m.block].data
               v == WriteChunk(tx.w, x)
    <2>2. /\ tx.open /\ Copying /\ db' = db
          /\ Copied(db, tx.call.node, tx.w, tx.todo)
          /\ WritesSoundly(tx.d, tx.w) /\ BlocksKept(db, tx.d)
          /\ tx.w.mode = "wb" /\ tx.d.nodes[tx.w.node].path = tx.call.dst
      BY <1>0, <1>2 DEF CopyBlock, GraphInv, WriterInv, WriterOn
    <2>3. /\ v.node = tx.w.node /\ v.mode = tx.w.mode
          /\ v.hashed = tx.w.hashed \o x
      BY <2>2 DEF WriteChunk, WritesSoundly, WriterSound
    <2>4. m \in db.maps
      <3> DEFINE u == [tx.w EXCEPT !.hashed = @ \o db.blocks[m.block].data]
      <3>1. u.node = tx.w.node /\ u.hashed = tx.w.hashed \o db.blocks[m.block].data
        BY <2>2 DEF WritesSoundly, WriterSound
      <3> HIDE DEF u
      <3> QED
        BY <1>0, <2>1, <2>2, <3>1, FeedCopied
    <2>5. x = db.blocks[m.block].data /\ x \in Seq(Bytes)
      <3>1. m.block \in DOMAIN db.blocks
        BY <1>0, <2>4 DEF GraphSound
      <3>2. x = db.blocks[m.block].data
        BY <2>2, <3>1 DEF BlocksKept
      <3> QED
        BY <1>0, <3>1, <3>2 DEF TypeSound, BlockRowSound
    <2> HIDE DEF x, v
    <2>6. Copied(db, tx.call.node, v, tx.todo \ {m})
      BY <1>0, <2>1, <2>2, <2>3, <2>5, FeedCopied
    <2>7. WriteChunkDb(tx.d, tx.w, x).nodes = tx.d.nodes
      BY <2>2, <2>5, WriteChunkSound
    <2>8. /\ tx'.d = WriteChunkDb(tx.d, tx.w, x) /\ tx'.w = v /\ tx'.call = tx.call
          /\ tx'.todo = tx.todo \ {m}
      BY <2>1 DEF Fed, Transaction, x, v
    <2> QED
      BY <2>2, <2>3, <2>6, <2>7, <2>8
  <1>3. ASSUME tx' = tx, db' = db \/ LockFree PROVE Going
    BY <1>0, <1>3 DEF LockFree, Copying
  <1>4. ~(\E mode \in Modes, p \in Paths, bs \in BlockSizes : WriterStart(mode, p, bs))
    BY DEF WriterStart, Transaction, Copying, NoCall
  <1>5. ~(\E chunk \in Payloads : WriterChunk(chunk))
    BY DEF WriterChunk, Fed, Transaction, Copying
  <1>6. ~WriterCommit /\ ~WriterRollback
    BY DEF WriterCommit, WriterRollback, NoTransaction
  <1>7. \A r \in inflight : CopyStart(r) => Going
    BY <1>1, <1>3 DEF CopyStart
  <1>8. \A r \in inflight : RemoveDirectoryDelete(r) => Going
    BY <1>3 DEF RemoveDirectoryDelete
  <1>9. \A p, q \in Paths, b \in BOOLEAN : CopyLookup(p, q) \/ RemoveDirectoryCheck(p, b) => Going
    BY <1>3 DEF CopyLookup, RemoveDirectoryCheck
  <1>10. \A p, q \in Paths, b \in BOOLEAN, base \in 0..(MaxDepth - 1) :
           (\/ MakeDirectory(p, b, base) \/ DeleteFile(p, b)
            \/ MoveFile(p, q, b) \/ MoveDirectory(p, q, b)) => Going
    BY <1>3 DEF MakeDirectory, DeleteFile, MoveFile, MoveDirectory
  <1> HIDE DEF Going
  <1>11. 0 \in 0..(MaxDepth - 1) /\ TRUE \in BOOLEAN
    BY PathsAssumption
  <1>12. Going
    BY <1>2, <1>4, <1>5, <1>6, <1>7, <1>8, <1>9, <1>10, <1>11 DEF Next
  <1> QED
    BY <1>12 DEF Going

(* The invariant of the refinement. *)
LinkInv == TreeInv /\ ContentInv /\ SizesFit(db) /\ WriterInv /\ CallInv

LEMMA LinkInit == Init => LinkInv
  <1> SUFFICES ASSUME Init PROVE LinkInv
    OBVIOUS
  <1>1. NodeIds(db) = {} /\ ~tx.open /\ CallsUnderWay = {}
    BY DEF Init, EmptyDb, NodeIds, NoTransaction, CallsUnderWay
  <1> QED
    BY <1>1, TreeInit, ContentInit DEF LinkInv, SizesFit, WriterInv, CallInv

LEMMA LinkStep ==
  ASSUME CaseSensitiveLike
  PROVE  LinkInv /\ [Next]_vars => LinkInv'
  <1> SUFFICES ASSUME LinkInv, [Next]_vars PROVE LinkInv'
    OBVIOUS
  <1>1. GraphInv /\ ContentInv /\ SizesFit(db) /\ WriterInv /\ CallInv /\ TypeOK
    BY DEF LinkInv, TreeInv, GraphInv
  <1>2. TreeInv' /\ ContentInv' /\ SizesFit(db)' /\ WriterInv'
    BY <1>1, TreeStep, ContentStep, WriterInvStep DEF LinkInv
  <1>3. CASE UNCHANGED vars
    <2>1. CallInv'
      BY <1>1, <1>3 DEF vars, CallInv, CallsUnderWay, Copying
    <2> QED
      BY <1>2, <2>1 DEF LinkInv
  <1>4. CASE Next
    <2>1. \A r \in CallsUnderWay' : LookedUp(db', r)
      <3>1. \A r \in CallsUnderWay : LookedUp(db', r)
        BY <1>1, CallsType, LookupsLast DEF CallInv
      <3>2. \A r \in CallsUnderWay' : r \in CallsUnderWay \/ LookedUp(db', r)
        BY <1>1, <1>4, CallsStay
      <3> QED
        BY <3>1, <3>2
    <2>2. tx'.open /\ Copying' =>
            /\ tx'.w.mode = "wb" /\ tx'.d.nodes[tx'.w.node].path = tx'.call.dst
            /\ Copied(db', tx'.call.node, tx'.w, tx'.todo)
      BY <1>1, <1>4, CopiedStep
    <2>3. CallInv'
      BY <2>1, <2>2 DEF CallInv
    <2> QED
      BY <1>2, <2>3 DEF LinkInv
  <1> QED
    BY <1>3, <1>4

-----------------------------------------------------------------------------
(* What the abstract file system reads off a database value *)

(* EntryOf and Entries of any database value, not only the committed one. *)
EntryIn(d, n) ==
  IF d.nodes[n].type = "directory" THEN [type |-> "directory", id |-> n]
  ELSE [type |-> "file", id |-> n, ver |-> d.nodes[n].ver, data |-> Content(d, n)]

PathOf(d, n) == d.nodes[n].path

Listed(d) == {PathOf(d, n) : n \in NodeIds(d)}

(* t is the tree of d. *)
Shows(d, t) ==
  /\ DOMAIN t = Listed(d)
  /\ \A n \in NodeIds(d) : t[PathOf(d, n)] = EntryIn(d, n)

EntriesIn(d) == [p \in Listed(d) |-> EntryIn(d, CHOOSE n \in NodesAt(d, p) : TRUE)]

LEMMA EntriesSeen == Entries = EntriesIn(db) /\ Entries' = EntriesIn(db')
  BY DEF Entries, EntriesIn, EntryOf, EntryIn, Listed, PathOf

(* One row per path: the mapping reads a single tree off the rows. *)
LEMMA EntriesShow ==
  ASSUME NEW d, TreeSound(d)
  PROVE  Shows(d, EntriesIn(d))
  <1>1. ASSUME NEW n \in NodeIds(d)
        PROVE  EntriesIn(d)[PathOf(d, n)] = EntryIn(d, n)
    <2> DEFINE p == PathOf(d, n)
    <2>1. NodesAt(d, p) = {n}
      BY <1>1 DEF NodesAt, TreeSound, PathOf
    <2>2. p \in Listed(d)
      BY <1>1 DEF Listed
    <2> QED
      BY <2>1, <2>2 DEF EntriesIn
  <1> QED
    BY <1>1 DEF Shows, EntriesIn

(* A function that shows the tree is the tree. *)
LEMMA ShownOnce ==
  ASSUME NEW d, NEW t, Shows(d, t), t = [p \in DOMAIN t |-> t[p]], TreeSound(d)
  PROVE  EntriesIn(d) = t
  <1>1. Shows(d, EntriesIn(d)) /\ EntriesIn(d) = [p \in DOMAIN EntriesIn(d) |-> EntriesIn(d)[p]]
    BY EntriesShow DEF EntriesIn
  <1> HIDE DEF EntriesIn
  <1>2. \A p \in Listed(d) : EntriesIn(d)[p] = t[p]
    BY <1>1 DEF Shows, Listed
  <1> QED
    BY <1>1, <1>2 DEF Shows

(* The entries of a file and of a directory. *)
LEMMA EntryParts ==
  ASSUME NEW d, NEW n, d.nodes[n].type \in {"file", "directory"}
  PROVE  /\ EntryIn(d, n).id = n
         /\ EntryIn(d, n).type = "file" <=> d.nodes[n].type = "file"
         /\ d.nodes[n].type = "file" =>
              /\ EntryIn(d, n) = FS!File(n, d.nodes[n].ver, Content(d, n))
              /\ EntryIn(d, n).ver = d.nodes[n].ver /\ EntryIn(d, n).data = Content(d, n)
         /\ d.nodes[n].type = "directory" => EntryIn(d, n) = FS!Directory(n)
  <1> DEFINE e == EntryIn(d, n)
             x == Content(d, n)
  <1>1. CASE d.nodes[n].type = "directory"
    <2>1. e = [type |-> "directory", id |-> n]
      BY <1>1 DEF EntryIn
    <2> HIDE DEF e
    <2>2. e.id = n /\ e.type = "directory"
      BY <2>1
    <2> QED
      BY <1>1, <2>1, <2>2 DEF FS!Directory, e
  <1>2. CASE d.nodes[n].type = "file"
    <2> HIDE DEF x
    <2>1. e = [type |-> "file", id |-> n, ver |-> d.nodes[n].ver, data |-> x]
      BY <1>2 DEF EntryIn, x
    <2> HIDE DEF e
    <2>2. e.id = n /\ e.type = "file" /\ e.ver = d.nodes[n].ver /\ e.data = x
      BY <2>1
    <2>3. e = FS!File(n, d.nodes[n].ver, x)
      BY <2>1 DEF FS!File
    <2> QED
      BY <1>2, <2>2, <2>3 DEF e, x
  <1> QED
    BY <1>1, <1>2

(* FileSystem's paths are the paths of the tables. *)
LEMMA SameNotions ==
  /\ FS!Paths = Paths
  /\ \A p, q : FS!Below(p, q) = Below(p, q)
  /\ \A p : FS!Ancestors(p) = Ancestors(p)
  /\ \A p, k : FS!Upto(p, k) = Upto(p, k)
  /\ \A p, q, r : FS!Rebase(p, q, r) = Rebase(p, q, r)
  <1>1. FS!Paths = Paths
    BY DEF FS!Paths, Paths
  <1>2. \A p, q : FS!Below(p, q) = Below(p, q)
    BY DEF FS!Below, Below
  <1>3. \A p : FS!Ancestors(p) = Ancestors(p)
    BY DEF FS!Ancestors, Ancestors, FS!Upto, Upto
  <1>4. \A p, k : FS!Upto(p, k) = Upto(p, k)
    BY DEF FS!Upto, Upto
  <1>5. \A p, q, r : FS!Rebase(p, q, r) = Rebase(p, q, r)
    BY DEF FS!Rebase, Rebase
  <1> QED
    BY <1>1, <1>2, <1>3, <1>4, <1>5

(* The rows at p and below it. *)
LEMMA TreeRows ==
  ASSUME CaseSensitiveLike, TypeOK, NEW p \in Paths
  PROVE  /\ Tree(p) \subseteq NodeIds(db)
         /\ \A n \in NodeIds(db) : /\ PathOf(db, n) \in Paths
                                   /\ n \in Tree(p) <=> PathOf(db, n) = p \/ Below(p, PathOf(db, n))
  <1>1. \A n \in NodeIds(db) : PathOf(db, n) \in Paths
    BY DEF TypeOK, TypeSound, NodeRowSound, PathOf
  <1> QED
    BY <1>1, BelowLike DEF Tree, NodesAt, NodesLikeBelow, PathOf

(* The file that the tree shows at p is the row at p ... *)
LEMMA SeenFile ==
  ASSUME TypeOK, TreeSound(db), NEW p
  PROVE  /\ FS!IsFile(p) <=> FileAt(db, p)
         /\ \A n \in NodesAt(db, p) : /\ p \in Listed(db) /\ Entries[p].id = n
                                      /\ db.nodes[n].type = "file" =>
                                           /\ Entries[p].ver = db.nodes[n].ver
                                           /\ Entries[p].data = Content(db, n)
  <1>1. Shows(db, Entries)
    BY EntriesSeen, EntriesShow
  <1>2. \A n \in NodesAt(db, p) : n \in NodeIds(db) /\ PathOf(db, n) = p
    BY DEF NodesAt, PathOf
  <1>3. p \in Listed(db) <=> \E n \in NodeIds(db) : n \in NodesAt(db, p)
    BY DEF Listed, NodesAt, PathOf
  <1>4. \A n \in NodesAt(db, p) : p \in Listed(db) /\ Entries[p] = EntryIn(db, n)
    BY <1>1, <1>2, <1>3 DEF Shows
  <1>5. \A n \in NodesAt(db, p) :
          /\ Entries[p].id = n
          /\ Entries[p].type = "file" <=> db.nodes[n].type = "file"
          /\ db.nodes[n].type = "file" =>
               Entries[p].ver = db.nodes[n].ver /\ Entries[p].data = Content(db, n)
    <2>1. \A n \in NodesAt(db, p) : db.nodes[n].type \in {"file", "directory"}
      BY <1>2 DEF TypeOK, TypeSound, NodeRowSound
    <2> QED
      BY <1>4, <2>1, EntryParts
  <1>6. FS!IsFile(p) <=> FileAt(db, p)
    BY <1>1, <1>3, <1>5 DEF FS!IsFile, FileAt, Shows, NodesAt
  <1> QED
    BY <1>4, <1>5, <1>6

(* ... and the lookups of operations.py decide what FileSystem asks of the tree. *)
LEMMA SeenTree ==
  ASSUME CaseSensitiveLike, TypeOK, TreeSound(db), NEW p \in Paths
  PROVE  /\ FS!TreeAt(p) = {PathOf(db, n) : n \in Tree(p)}
         /\ FS!Present(p) <=> Exists(db, p)
         /\ FS!IsDirectory(p) <=> Exists(db, p) /\ ~FileAt(db, p)
         /\ FS!Reachable(p) <=> ParentOk(db, p)
         /\ FS!CanWrite(p) <=> CanStart(db, "wb", p)
  <1>1. Shows(db, Entries)
    BY EntriesSeen, EntriesShow
  <1>2. FS!TreeAt(p) = {PathOf(db, n) : n \in Tree(p)}
    <2>1. \A q : q \in FS!TreeAt(p) <=> q \in Listed(db) /\ (q = p \/ Below(p, q))
      BY <1>1, SameNotions DEF FS!TreeAt, Shows
    <2>2. \A q : q \in {PathOf(db, n) : n \in Tree(p)} <=> q \in Listed(db) /\ (q = p \/ Below(p, q))
      BY TreeRows DEF Listed
    <2> HIDE DEF FS!TreeAt
    <2> QED
      BY <2>1, <2>2
  <1>3. Exists(db, p) <=> Tree(p) # {}
    BY DEF Exists, HasNode, HasDescendants, Tree
  <1>4. FS!Present(p) <=> Exists(db, p)
    BY <1>2, <1>3 DEF FS!Present
  <1>5. \A q : FS!IsFile(q) <=> FileAt(db, q)
    BY SeenFile
  <1>6. FS!IsDirectory(p) <=> Exists(db, p) /\ ~FileAt(db, p)
    BY <1>4, <1>5 DEF FS!IsDirectory
  <1>7. FS!Reachable(p) <=> ParentOk(db, p)
    BY <1>5, SameNotions DEF FS!Reachable, ParentOk
  <1>8. TargetOk(db, p) <=> ~(Exists(db, p) /\ ~FileAt(db, p))
    <2>1. \A n \in NodesAt(db, p) : db.nodes[n].type \in {"file", "directory"}
      BY DEF NodesAt, TypeOK, TypeSound, NodeRowSound
    <2>2. \A m, n \in NodesAt(db, p) : m = n
      BY DEF NodesAt, TreeSound
    <2>3. FileAt(db, p) => ~HasDescendants(db, p)
      <3>1. \A m \in NodesAt(db, p), n \in NodeIds(db) : db.nodes[m].type = "file" => ~Below(p, PathOf(db, n))
        BY DEF NodesAt, TreeSound, PathOf
      <3>2. \A n \in NodesLikeBelow(db, p) : n \in NodeIds(db) /\ Below(p, PathOf(db, n))
        BY TreeRows, BelowLike DEF NodesLikeBelow, PathOf
      <3> QED
        BY <3>1, <3>2 DEF FileAt, HasDescendants
    <2> QED
      BY <2>1, <2>2, <2>3 DEF TargetOk, Exists, HasNode, DirectoryAt, FileAt
  <1>9. FS!CanWrite(p) <=> CanStart(db, "wb", p)
    BY <1>6, <1>7, <1>8 DEF FS!CanWrite, CanStart
  <1> QED
    BY <1>2, <1>4, <1>6, <1>7, <1>9

-----------------------------------------------------------------------------
(* What the steps do to the tree *)

LEMMA LinkParts ==
  ASSUME LinkInv
  PROVE  /\ TypeOK /\ TypeSound(db) /\ GraphSound(db) /\ TreeSound(db) /\ Sound(db)
         /\ GraphInv /\ TreeInv /\ CallInv
         /\ tx.open => /\ WritesSoundly(tx.d, tx.w) /\ WriterMatches(tx.d, tx.w)
                       /\ WriterOn(db, tx.d, tx.w)
         /\ \A r \in inflight : r \in CopyCalls \cup RmdirCalls
  BY DEF LinkInv, TreeInv, GraphInv, TypeOK, Sound, ContentInv, WriterInv

LEMMA StartsAlike ==
  ASSUME NEW d, NEW mode, NEW p, CanStart(d, mode, p)
  PROVE  CanStart(d, "wb", p)
  BY DEF CanStart

(* On a path where a writer may start there is a file or nothing. *)
LEMMA StartsOnFile ==
  ASSUME TypeOK, NEW mode, NEW p, CanStart(db, mode, p)
  PROVE  FileAt(db, p) <=> HasNode(db, p)
  BY DEF CanStart, TargetOk, DirectoryAt, FileAt, HasNode, NodesAt, TypeOK, TypeSound, NodeRowSound

LEMMA IsContents ==
  ASSUME NEW data \in Seq(Bytes), Len(data) <= MaxFileSize
  PROVE  data \in FS!Contents
  <1>1. Len(data) \in 0..MaxFileSize /\ data \in [1..Len(data) -> Bytes]
    BY TablesAssumption
  <1> QED
    BY <1>1 DEF FS!Contents

LEMMA WriterData ==
  ASSUME NEW d, NEW w, WritesSoundly(d, w), WriterMatches(d, w)
  PROVE  w.node \in NodeIds(d) /\ PathOf(d, w.node) \in Paths /\ w.hashed \in Seq(Bytes)
  <1>1. w.node \in NodeIds(d) /\ TypeSound(d) /\ GraphSound(d)
    BY DEF WritesSoundly, Sound, CanFinalize
  <1>2. Content(d, w.node) \in Seq(Bytes)
    BY <1>1, ContentType, GraphParts
  <1> QED
    BY <1>1, <1>2 DEF PathOf, TypeSound, NodeRowSound, WriterMatches

(* commit() shows the writer's file, whole. *)
LEMMA CommitTreeBecomes ==
  ASSUME LinkInv, LinkInv', WriterCommit
  PROVE  LET w == tx.w
             p == PathOf(tx.d, w.node)
         IN  Entries' = FS!Set(Entries, p, FS!File(w.node, w.ver + IF w.mode = "ab" THEN 1 ELSE 0, w.hashed))
  <1> DEFINE w == tx.w
             p == PathOf(tx.d, w.node)
             v == w.ver + IF w.mode = "ab" THEN 1 ELSE 0
             t == FS!Set(Entries, p, FS!File(w.node, v, w.hashed))
  <1>1. /\ tx.open /\ db' = FinalizeDb(tx.d, w)
        /\ WritesSoundly(tx.d, w) /\ WriterMatches(tx.d, w) /\ WriterOn(db, tx.d, w)
        /\ TypeSound(db) /\ GraphSound(db) /\ TreeSound(db) /\ TypeOK
    BY LinkParts DEF WriterCommit
  <1>2. TreeSound(db')
    BY DEF LinkInv, TreeInv
  <1>3. /\ NodeIds(db') = NodeIds(db) \cup {w.node}
        /\ \A n \in NodeIds(db) \ {w.node} :
             db'.nodes[n] = db.nodes[n] /\ Content(db', n) = Content(db, n)
        /\ PathOf(db', w.node) = p /\ db'.nodes[w.node].type = "file"
        /\ db'.nodes[w.node].ver = v /\ Content(db', w.node) = w.hashed
    BY <1>1, CommitShape DEF PathOf
  <1>4. w.node \in NodeIds(db) => PathOf(db, w.node) = p
    BY <1>1 DEF WriterOn, NodesAt, PathOf, TypeSound
  <1>5. \A n \in NodeIds(db) \ {w.node} : PathOf(db, n) # p
    BY <1>1 DEF WriterOn, NodesAt, PathOf, HasNode, TreeSound
  <1>6. Shows(db, Entries)
    BY <1>1, EntriesSeen, EntriesShow
  <1>7. t = [q \in DOMAIN Entries \cup {p} |-> IF q = p THEN FS!File(w.node, v, w.hashed) ELSE Entries[q]]
    BY DEF FS!Set
  <1> HIDE DEF t, v, p
  <1>8. Shows(db', t)
    <2>1. \A n \in NodeIds(db) \ {w.node} : PathOf(db', n) = PathOf(db, n)
      BY <1>3 DEF PathOf
    <2>2. Listed(db') = Listed(db) \cup {p}
      <3>1. \A q \in Listed(db') : q \in Listed(db) \cup {p}
        BY <1>3, <2>1 DEF Listed
      <3>2. \A q \in Listed(db) \cup {p} : q \in Listed(db')
        BY <1>3, <1>4, <2>1 DEF Listed
      <3> QED
        BY <3>1, <3>2
    <2>3. DOMAIN t = Listed(db')
      BY <1>6, <1>7, <2>2 DEF Shows
    <2>4. ASSUME NEW n \in NodeIds(db') PROVE t[PathOf(db', n)] = EntryIn(db', n)
      <3>1. CASE n = w.node
        <4>1. t[p] = FS!File(w.node, v, w.hashed)
          BY <1>7
        <4>2. EntryIn(db', w.node) = FS!File(w.node, v, w.hashed)
          BY <1>3, EntryParts
        <4> QED
          BY <1>3, <3>1, <4>1, <4>2
      <3>2. CASE n # w.node
        <4>1. n \in NodeIds(db) \ {w.node} /\ PathOf(db', n) = PathOf(db, n) /\ PathOf(db, n) # p
          BY <1>3, <1>5, <2>1, <2>4, <3>2
        <4>2. PathOf(db, n) \in DOMAIN Entries /\ Entries[PathOf(db, n)] = EntryIn(db, n)
          BY <1>6, <4>1 DEF Shows, Listed
        <4>3. EntryIn(db', n) = EntryIn(db, n)
          BY <1>3, <4>1 DEF EntryIn
        <4> QED
          BY <1>7, <4>1, <4>2, <4>3
      <3> QED
        BY <3>1, <3>2
    <2> QED
      BY <2>3, <2>4 DEF Shows
  <1>9. t = [q \in DOMAIN t |-> t[q]]
    BY <1>7
  <1>10. EntriesIn(db') = t
    BY <1>2, <1>8, <1>9, ShownOnce
  <1> QED
    BY <1>10, EntriesSeen DEF t, v, p

(* What a commit in another mode than "ab" leaves: FileSystem's Replaced. *)
LEMMA CommitReplaces ==
  ASSUME CaseSensitiveLike, LinkInv, LinkInv', WriterCommit, tx.w.mode # "ab"
  PROVE  LET w == tx.w
             p == PathOf(tx.d, w.node)
         IN  /\ p \in Paths /\ FS!CanWrite(p)
             /\ db'.nodeSeq = IF FS!IsFile(p) THEN db.nodeSeq ELSE db.nodeSeq + 1
             /\ Entries' = FS!Set(Entries, p, FS!Replaced(p, w.hashed))
             /\ w.hashed \in Seq(Bytes) /\ Len(w.hashed) <= MaxFileSize
  <1> DEFINE w == tx.w
             p == PathOf(tx.d, w.node)
  <1>1. /\ tx.open /\ db' = FinalizeDb(tx.d, w)
        /\ WritesSoundly(tx.d, w) /\ WriterMatches(tx.d, w) /\ WriterOn(db, tx.d, w)
        /\ TypeSound(db) /\ GraphSound(db) /\ TreeSound(db) /\ TypeOK
    BY LinkParts DEF WriterCommit
  <1>2. p \in Paths /\ w.hashed \in Seq(Bytes)
    BY <1>1, WriterData
  <1>3. Len(w.hashed) <= MaxFileSize
    BY <1>1 DEF WriterMatches, WriterOn
  <1>4. CanStart(db, w.mode, p)
    BY <1>1 DEF WriterOn, PathOf
  <1>5. FS!CanWrite(p)
    BY <1>1, <1>2, <1>4, StartsAlike, SeenTree
  <1>6. FS!IsFile(p) <=> HasNode(db, p)
    BY <1>1, <1>4, StartsOnFile, SeenFile
  <1>7. db'.nodeSeq = tx.d.nodeSeq
    BY <1>1, CommitShape
  <1>8. Entries' = FS!Set(Entries, p, FS!File(w.node, w.ver + 0, w.hashed)) /\ w.ver + 0 = w.ver
    BY <1>1, CommitTreeBecomes DEF WritesSoundly, WriterSound
  <1>9. CASE HasNode(db, p)
    <2>1. /\ w.node \in NodesAt(db, p) /\ tx.d.nodeSeq = db.nodeSeq
          /\ w.ver = db.nodes[w.node].ver + 1
      BY <1>1, <1>9 DEF WriterOn, PathOf
    <2>2. db.nodes[w.node].type = "file"
      <3>1. PICK n \in NodesAt(db, p) : db.nodes[n].type = "file"
        BY <1>1, <1>4, <1>9, StartsOnFile DEF FileAt
      <3>2. n = w.node
        BY <1>1, <2>1, <3>1 DEF TreeSound, NodesAt
      <3> QED
        BY <3>1, <3>2
    <2>3. Entries[p].id = w.node /\ Entries[p].ver = db.nodes[w.node].ver
      BY <1>1, <2>1, <2>2, SeenFile
    <2>4. FS!Replaced(p, w.hashed) = FS!File(w.node, w.ver, w.hashed)
      BY <1>6, <1>9, <2>1, <2>3 DEF FS!Replaced
    <2> QED
      BY <1>2, <1>3, <1>5, <1>6, <1>7, <1>8, <1>9, <2>1, <2>4
  <1>10. CASE ~HasNode(db, p)
    <2>1. w.node = db.nodeSeq /\ tx.d.nodeSeq = db.nodeSeq + 1 /\ w.ver = 1
      BY <1>1, <1>10 DEF WriterOn, PathOf, HasNode
    <2>2. FS!Replaced(p, w.hashed) = FS!File(w.node, w.ver, w.hashed)
      BY <1>6, <1>10, <2>1 DEF FS!Replaced
    <2> QED
      BY <1>2, <1>3, <1>5, <1>6, <1>7, <1>8, <1>10, <2>1, <2>2
  <1> QED
    BY <1>9, <1>10

(* What a step is to the abstract file system: one of its steps, or none. *)
Performs ==
  \/ \E p \in Paths : FS!Call(p)
  \/ \E r \in CallsUnderWay' \ CallsUnderWay : FS!BeginCall(r)
  \/ \E r \in CallsUnderWay : FS!EndCall(r)

Stutters == Entries' = Entries /\ db'.nodeSeq = db.nodeSeq /\ CallsUnderWay' = CallsUnderWay

(* commit() of a write or of an append is one Overwrite or Extend. *)
LEMMA CommitPerforms ==
  ASSUME CaseSensitiveLike, LinkInv, LinkInv', WriterCommit, ~Copying
  PROVE  Performs
  <1> DEFINE w == tx.w
             p == PathOf(tx.d, w.node)
  <1>1. /\ tx.open /\ db' = FinalizeDb(tx.d, w)
        /\ WritesSoundly(tx.d, w) /\ WriterMatches(tx.d, w) /\ WriterOn(db, tx.d, w)
        /\ TypeSound(db) /\ GraphSound(db) /\ TreeSound(db) /\ TypeOK
    BY LinkParts DEF WriterCommit
  <1>2. CallsUnderWay' = CallsUnderWay
    BY DEF WriterCommit, CallsUnderWay, NoTransaction
  <1>3. w.node \in NodeIds(tx.d) /\ p \in Paths /\ w.hashed \in Seq(Bytes)
    BY <1>1, WriterData
  <1>4. CASE w.mode # "ab"
    <2>1. /\ FS!CanWrite(p)
          /\ db'.nodeSeq = IF FS!IsFile(p) THEN db.nodeSeq ELSE db.nodeSeq + 1
          /\ Entries' = FS!Set(Entries, p, FS!Replaced(p, w.hashed))
          /\ Len(w.hashed) <= MaxFileSize
      BY <1>4, CommitReplaces
    <2>2. FS!Overwrite(p, w.hashed)
      BY <1>2, <2>1 DEF FS!Overwrite, FS!Store
    <2>3. w.hashed \in FS!Contents
      BY <1>3, <2>1, IsContents
    <2> QED
      BY <1>3, <2>2, <2>3 DEF Performs, FS!Call
  <1>5. CASE w.mode = "ab"
    <2>1. CanStart(db, "ab", p) /\ Len(w.hashed) <= MaxFileSize
      BY <1>1, <1>5 DEF WriterOn, WriterMatches, PathOf
    <2>2. FS!CanWrite(p) /\ (FS!IsFile(p) <=> HasNode(db, p)) /\ (FS!Present(p) <=> Exists(db, p))
      BY <1>1, <1>3, <2>1, StartsAlike, StartsOnFile, SeenFile, SeenTree
    <2>3. Entries' = FS!Set(Entries, p, FS!File(w.node, w.ver + 1, w.hashed))
      BY <1>5, CommitTreeBecomes
    <2>4. db'.nodeSeq = tx.d.nodeSeq
      BY <1>1, CommitShape
    <2>5. CASE HasNode(db, p)
      <3>1. /\ w.node \in NodesAt(db, p) /\ tx.d.nodeSeq = db.nodeSeq
            /\ w.ver = db.nodes[w.node].ver + 0
        BY <1>1, <1>5, <2>5 DEF WriterOn, PathOf
      <3>2. w.node \in NodeIds(db) /\ db.nodes[w.node].type = "file" /\ w.ver = db.nodes[w.node].ver
        <4>1. w.node \in NodeIds(db) /\ w.ver = db.nodes[w.node].ver
          BY <1>1, <3>1 DEF NodesAt, TypeSound, NodeRowSound
        <4>2. PICK n \in NodesAt(db, p) : db.nodes[n].type = "file"
          BY <1>1, <2>1, <2>5, StartsOnFile DEF FileAt
        <4>3. n = w.node
          BY <1>1, <3>1, <4>2 DEF TreeSound, NodesAt
        <4> QED
          BY <4>1, <4>2, <4>3
      <3>3. /\ Entries[p].id = w.node /\ Entries[p].ver = w.ver
            /\ Entries[p].data = Content(db, w.node)
        BY <1>1, <3>1, <3>2, SeenFile
      <3>4. PICK data \in Seq(Bytes) : w.hashed = Content(db, w.node) \o data
        BY <1>1, <1>5, <3>2 DEF WriterOn
      <3>5. FS!Replaced(p, w.hashed) = FS!File(w.node, w.ver + 1, w.hashed)
        BY <2>2, <2>5, <3>3 DEF FS!Replaced
      <3>6. FS!Store(p, w.hashed)
        BY <1>2, <2>1, <2>2, <2>3, <2>4, <2>5, <3>1, <3>5 DEF FS!Store
      <3>7. FS!Extend(p, data)
        BY <2>2, <2>5, <3>3, <3>4, <3>6 DEF FS!Extend
      <3>8. Len(data) <= MaxFileSize
        <4> DEFINE base == Content(db, w.node)
        <4>1. base \in Seq(Bytes)
          BY <1>1, <3>2, ContentType, GraphParts
        <4> HIDE DEF base
        <4>2. Len(base \o data) = Len(base) + Len(data) /\ Len(base) \in Nat /\ Len(data) \in Nat
          BY <4>1
        <4>3. Len(base \o data) <= MaxFileSize /\ MaxFileSize \in Nat
          BY <2>1, <3>4, TablesAssumption DEF base
        <4> QED
          BY <4>2, <4>3
      <3>9. data \in FS!Contents
        BY <3>8, IsContents
      <3> QED
        BY <1>3, <3>7, <3>9 DEF Performs, FS!Call
    <2>6. CASE ~HasNode(db, p)
      <3>1. w.node = db.nodeSeq /\ tx.d.nodeSeq = db.nodeSeq + 1 /\ w.ver + 1 = 2
        BY <1>1, <2>6 DEF WriterOn, PathOf, HasNode
      <3>2. ~FS!Present(p)
        BY <2>1, <2>2, <2>6 DEF CanStart, TargetOk, Exists
      <3>3. FS!Extend(p, w.hashed)
        BY <1>2, <2>1, <2>2, <2>3, <2>4, <3>1, <3>2 DEF FS!Extend
      <3>4. w.hashed \in FS!Contents
        BY <1>3, <2>1, IsContents
      <3> QED
        BY <1>3, <3>3, <3>4 DEF Performs, FS!Call
    <2> QED
      BY <2>5, <2>6
  <1> QED
    BY <1>4, <1>5

(* A copy that commits has read the source as it is now. *)
LEMMA CopyPerforms ==
  ASSUME CaseSensitiveLike, LinkInv, LinkInv', WriterCommit, Copying
  PROVE  Performs
  <1> DEFINE w == tx.w
             r == tx.call
             p == PathOf(tx.d, w.node)
             source == {q \in DOMAIN Entries : Entries[q].id = r.node /\ q # p}
             data   == IF source = {} THEN <<>> ELSE Entries[CHOOSE q \in source : TRUE].data
  <1>1. /\ tx.open /\ tx.todo = {}
        /\ WritesSoundly(tx.d, w) /\ WriterMatches(tx.d, w) /\ WriterOn(db, tx.d, w)
        /\ TypeSound(db) /\ GraphSound(db) /\ TreeSound(db) /\ TypeOK
    BY LinkParts DEF WriterCommit
  <1>2. /\ w.mode = "wb" /\ p = r.dst /\ Copied(db, r.node, w, {})
        /\ r \in CallsUnderWay /\ LookedUp(db, r) /\ r.op = "copy"
    BY <1>1 DEF LinkInv, CallInv, PathOf, CallsUnderWay, Copying
  <1>3. CallsUnderWay' \in {CallsUnderWay, CallsUnderWay \ {r}}
    BY <1>1 DEF WriterCommit, CallsUnderWay, NoTransaction, Copying
  <1>4. /\ FS!CanWrite(p)
        /\ db'.nodeSeq = IF FS!IsFile(p) THEN db.nodeSeq ELSE db.nodeSeq + 1
        /\ Entries' = FS!Set(Entries, p, FS!Replaced(p, w.hashed))
    BY <1>2, CommitReplaces
  <1>5. Shows(db, Entries)
    BY <1>1, EntriesSeen, EntriesShow
  <1>6. \A n \in NodeIds(db) : PathOf(db, n) \in DOMAIN Entries /\ Entries[PathOf(db, n)].id = n
    BY <1>1, <1>5, EntryParts DEF Shows, Listed, TypeSound, NodeRowSound
  <1>7. \A q \in DOMAIN Entries : \E n \in NodeIds(db) : q = PathOf(db, n)
    BY <1>5 DEF Shows, Listed
  <1>8. data = w.hashed
    <2>1. CASE r.node \in NodeIds(db) /\ r.node # w.node
      <3> DEFINE s == PathOf(db, r.node)
      <3>1. s # p
        BY <1>1, <2>1 DEF WriterOn, PathOf, HasNode, NodesAt, TreeSound
      <3>2. source = {s}
        BY <1>6, <1>7, <2>1, <3>1
      <3>3. data = Entries[s].data
        BY <3>2
      <3>4. Entries[s].data = Content(db, r.node)
        <4>1. r.node \in NodesAt(db, s) /\ db.nodes[r.node].type = "file"
          BY <1>2, <2>1 DEF LookedUp, NodesAt, PathOf
        <4> QED
          BY <1>1, <4>1, SeenFile
      <3>5. w.hashed = Content(db, r.node)
        BY <1>1, <1>2, <2>1, DoneCopied
      <3> QED
        BY <3>3, <3>4, <3>5
    <2>2. CASE ~(r.node \in NodeIds(db) /\ r.node # w.node)
      <3>1. w.node \in NodeIds(db) => PathOf(db, w.node) = p
        BY <1>1 DEF WriterOn, NodesAt, PathOf, TypeSound
      <3>2. source = {}
        BY <1>6, <1>7, <2>2, <3>1
      <3>3. w.hashed = <<>>
        BY <1>2, <2>2 DEF Copied
      <3> QED
        BY <3>2, <3>3
    <2> QED
      BY <2>1, <2>2
  <1>9. FS!CopyInto(r.node, p)
    BY <1>4, <1>8 DEF FS!CopyInto
  <1>10. FS!EndCall(r)
    BY <1>2, <1>3, <1>9 DEF FS!EndCall
  <1> QED
    BY <1>2, <1>10 DEF Performs

-----------------------------------------------------------------------------
(* Deletions, directories and moves *)

(* A row that stays keeps its entry. *)
LEMMA RowsShow ==
  ASSUME NEW d, TypeSound(d), GraphSound(d), NEW e, RowsKept(d, e),
         NEW n \in NodeIds(d) \cap NodeIds(e)
  PROVE  EntryIn(e, n) = EntryIn(d, n)
  <1>1. /\ MapsOf(e, n) = MapsOf(d, n) /\ e.nodes[n].type = d.nodes[n].type
        /\ e.nodes[n].ver = d.nodes[n].ver /\ BlocksKept(d, e)
    BY DEF RowsKept
  <1>2. Content(e, n) = Content(d, n)
    BY <1>1, SameContent, GraphParts
  <1> QED
    BY <1>1, <1>2 DEF EntryIn

(* The rows of a tree are those whose paths the abstract tree has. *)
LEMMA TreeSeen ==
  ASSUME CaseSensitiveLike, TypeOK, TreeSound(db), NEW p \in Paths
  PROVE  /\ DOMAIN Entries = Listed(db)
         /\ FS!TreeAt(p) \subseteq Listed(db)
         /\ \A n \in NodeIds(db) : /\ PathOf(db, n) \in Listed(db)
                                   /\ PathOf(db, n) \in FS!TreeAt(p) <=> n \in Tree(p)
  <1>1. Shows(db, Entries)
    BY EntriesSeen, EntriesShow
  <1>2. FS!TreeAt(p) = {q \in Listed(db) : q = p \/ Below(p, q)}
    BY <1>1, SameNotions DEF FS!TreeAt, Shows
  <1>3. \A n \in NodeIds(db) : PathOf(db, n) \in Listed(db)
    BY DEF Listed
  <1> QED
    BY <1>1, <1>2, <1>3, TreeRows DEF Shows

(* A file is all of its tree. *)
LEMMA FileTree ==
  ASSUME CaseSensitiveLike, TypeOK, TreeSound(db), NEW p \in Paths, FileAt(db, p)
  PROVE  /\ NodesLikeBelow(db, p) = {} /\ Tree(p) = NodesAt(db, p)
         /\ \A n \in NodesAt(db, p) : db.nodes[n].type = "file"
  <1>1. PICK m \in NodesAt(db, p) : db.nodes[m].type = "file"
    BY DEF FileAt
  <1>2. \A n \in NodesAt(db, p) : n = m
    BY <1>1 DEF NodesAt, TreeSound
  <1>3. \A n \in NodeIds(db) : ~Below(p, PathOf(db, n))
    BY <1>1 DEF TreeSound, PathOf, NodesAt
  <1>4. \A n \in NodesLikeBelow(db, p) : n \in NodeIds(db) /\ Below(p, PathOf(db, n))
    BY TreeRows, BelowLike DEF NodesLikeBelow, PathOf
  <1>5. NodesLikeBelow(db, p) = {}
    BY <1>3, <1>4
  <1> QED
    BY <1>1, <1>2, <1>5 DEF Tree

(* delete_file, and remove_directory past its check, erase the tree at p. *)
LEMMA DeletionErases ==
  ASSUME CaseSensitiveLike, LinkInv, LinkInv', NEW p \in Paths, NEW rec \in BOOLEAN,
         CanDelete(p, rec), DeleteTransaction(p)
  PROVE  FS!Erase(p, rec)
  <1> DEFINE t == FS!Without(Entries, FS!TreeAt(p))
  <1>1. TypeOK /\ TypeSound(db) /\ GraphSound(db) /\ TreeSound(db) /\ GraphInv
    BY LinkParts
  <1>2. TreeSound(db')
    BY DEF LinkInv, TreeInv
  <1>3. Deleted(p) = Tree(p)
    <2>1. CASE FileAt(db, p)
      BY <1>1, <2>1, FileTree DEF Deleted
    <2>2. CASE ~FileAt(db, p)
      BY <2>2 DEF Deleted, Tree
    <2> QED
      BY <2>1, <2>2
  <1>4. /\ RowsKept(db, db') /\ NodeIds(db') = NodeIds(db) \ Tree(p) /\ db'.nodeSeq = db.nodeSeq
        /\ \A n \in NodeIds(db') : db'.nodes[n] = db.nodes[n]
    BY <1>1, <1>3, DeleteKeeps DEF DeleteTransaction
  <1>5. \A n \in NodeIds(db') : /\ n \in NodeIds(db) /\ n \notin Tree(p)
                                /\ PathOf(db', n) = PathOf(db, n)
                                /\ EntryIn(db', n) = EntryIn(db, n)
    BY <1>1, <1>4, RowsShow DEF PathOf
  <1>6. /\ DOMAIN Entries = Listed(db)
        /\ FS!TreeAt(p) \subseteq Listed(db)
        /\ \A n \in NodeIds(db) : PathOf(db, n) \in FS!TreeAt(p) <=> n \in Tree(p)
        /\ \A n \in NodeIds(db) : Entries[PathOf(db, n)] = EntryIn(db, n)
    BY <1>1, TreeSeen, EntriesSeen, EntriesShow DEF Shows
  <1>7. t = [q \in Listed(db) \ FS!TreeAt(p) |-> Entries[q]]
    BY <1>6 DEF FS!Without
  <1>8. /\ FS!Present(p) <=> Exists(db, p)
        /\ FS!TreeAt(p) = {PathOf(db, n) : n \in Tree(p)}
    BY <1>1, SeenTree
  <1>9. Tree(p) # {} => Exists(db, p)
    BY DEF Exists, HasNode, HasDescendants, Tree
  <1> HIDE DEF t, FS!TreeAt
  <1>10. Shows(db', t)
    <2>1. DOMAIN t = Listed(db')
      <3>1. \A q : q \in Listed(db) \ FS!TreeAt(p) <=>
                     \E n \in NodeIds(db) : q = PathOf(db, n) /\ n \notin Tree(p)
        BY <1>6 DEF Listed
      <3>2. \A q : q \in Listed(db') <=> \E n \in NodeIds(db') : q = PathOf(db', n)
        BY DEF Listed
      <3>3. \A q : q \in Listed(db) \ FS!TreeAt(p) <=> q \in Listed(db')
        BY <1>4, <1>5, <3>1, <3>2
      <3> QED
        BY <1>7, <3>3
    <2>2. \A n \in NodeIds(db') : t[PathOf(db', n)] = EntryIn(db', n)
      BY <1>5, <1>6, <1>7 DEF Listed
    <2> QED
      BY <2>1, <2>2 DEF Shows
  <1>11. Entries' = t
    <2>1. t = [q \in DOMAIN t |-> t[q]]
      BY <1>7
    <2> QED
      BY <1>2, <1>10, <2>1, ShownOnce, EntriesSeen
  <1>12. FS!CanErase(p, rec)
    <2>1. FS!Present(p)
      BY <1>3, <1>8, <1>9 DEF CanDelete
    <2>2. ASSUME FS!TreeAt(p) # {p} PROVE rec
      <3>1. Tree(p) # {}
        BY <1>3 DEF CanDelete
      <3>2. PICK n \in Tree(p) : PathOf(db, n) # p
        BY <1>8, <2>2, <3>1
      <3>3. n \in NodesLikeBelow(db, p)
        BY <3>2 DEF Tree, NodesAt, PathOf
      <3>4. ~FileAt(db, p)
        BY <1>1, <3>3, FileTree
      <3> QED
        BY <3>3, <3>4 DEF CanDelete, HasDescendants
    <2> QED
      BY <2>1, <2>2 DEF FS!CanErase
  <1> QED
    BY <1>4, <1>11, <1>12 DEF FS!Erase, t

(* make_directory creates the missing levels in one step. *)
LEMMA MakeDirectoryCreates ==
  ASSUME CaseSensitiveLike, LinkInv, LinkInv', NEW p \in Paths, NEW cp \in BOOLEAN,
         NEW base \in 0..(MaxDepth - 1), MakeDirectory(p, cp, base)
  PROVE  FS!CreateDirectory(p, base) /\ base \in 0..(Len(p) - 1)
  <1> DEFINE first == db.nodeSeq - base - 1
             new   == {first + k : k \in (base + 1)..Len(p)}
             made  == {Upto(p, k) : k \in (base + 1)..Len(p)}
             t     == [q \in DOMAIN Entries \cup made |->
                         IF q \in made THEN FS!Directory(db.nodeSeq + Len(q) - base - 1)
                                       ELSE Entries[q]]
  <1>1. TypeOK /\ TypeSound(db) /\ GraphSound(db) /\ TreeSound(db) /\ Sound(db) /\ GraphInv
    BY LinkParts
  <1>2. TreeSound(db')
    BY DEF LinkInv, TreeInv
  <1>3. /\ base \in 0..(Len(p) - 1) /\ Len(p) \in Nat /\ db.nodeSeq \in Nat
        /\ \A k \in (base + 1)..Len(p) : k \in 1..Len(p)
    BY <1>1, PathsType DEF MakeDirectory, TypeSound
  <1>4. /\ NodeIds(db') = NodeIds(db) \cup new
        /\ \A n \in NodeIds(db) : db'.nodes[n] = db.nodes[n]
        /\ \A n \in new : db'.nodes[n] = DirectoryRow(Upto(p, n - first))
    BY <1>1, MakeDirectoryShape
  <1>5. db'.nodeSeq = db.nodeSeq + Len(p) - base
    BY <1>1 DEF MakeDirectory, TypeSound
  <1>6. RowsKept(db, db')
    BY <1>1, MakeDirectoryKeeps
  <1>7. \A n \in NodeIds(db) : PathOf(db', n) = PathOf(db, n) /\ EntryIn(db', n) = EntryIn(db, n)
    BY <1>1, <1>4, <1>6, RowsShow DEF PathOf
  <1>8. \A k \in (base + 1)..Len(p) :
          /\ first + k \in new /\ PathOf(db', first + k) = Upto(p, k)
          /\ EntryIn(db', first + k) = FS!Directory(first + k)
          /\ Upto(p, k) \in Paths /\ Len(Upto(p, k)) = k
    <2> TAKE k \in (base + 1)..Len(p)
    <2> DEFINE n == first + k
    <2>1. n \in new /\ n - first = k
      BY <1>3
    <2>2. db'.nodes[n] = DirectoryRow(Upto(p, k))
      BY <1>4, <2>1
    <2>3. db'.nodes[n].path = Upto(p, k) /\ db'.nodes[n].type = "directory"
      BY <2>2 DEF DirectoryRow
    <2>4. Upto(p, k) \in Paths /\ Len(Upto(p, k)) = k
      BY <1>3, UptoPath
    <2> HIDE DEF n
    <2>5. EntryIn(db', n) = FS!Directory(n)
      BY <2>3, EntryParts
    <2> QED
      BY <2>1, <2>3, <2>4, <2>5 DEF n, PathOf
  <1>9. \A k \in (base + 1)..Len(p) : ~Exists(db, Upto(p, k))
    <2>1. Upto(p, Len(p)) = p
      BY PathsType DEF Upto
    <2> QED
      BY <1>3, <2>1 DEF MakeDirectory
  <1>10. /\ DOMAIN Entries = Listed(db)
         /\ \A n \in NodeIds(db) : /\ PathOf(db, n) \in Listed(db)
                                   /\ Entries[PathOf(db, n)] = EntryIn(db, n)
    BY <1>1, EntriesSeen, EntriesShow DEF Shows, Listed
  <1>11. \A n \in NodeIds(db) : PathOf(db, n) \notin made
    BY <1>9 DEF Exists, HasNode, NodesAt, PathOf
  <1>12. \A n \in new : \E k \in (base + 1)..Len(p) : n = first + k
    OBVIOUS
  <1>13. t = [q \in Listed(db) \cup made |->
                IF q \in made THEN FS!Directory(db.nodeSeq + Len(q) - base - 1) ELSE Entries[q]]
    BY <1>10
  <1>14. \A k \in (base + 1)..Len(p) : Upto(p, k) \in made
    OBVIOUS
  <1>15. \A q \in made : \E k \in (base + 1)..Len(p) : q = Upto(p, k)
    OBVIOUS
  <1>16. \A k \in (base + 1)..Len(p) : db.nodeSeq + k - base - 1 = first + k
    BY <1>3
  <1> HIDE DEF t, new, made, first
  <1>17. Shows(db', t)
    <2>1. \A q : q \in Listed(db) \cup made <=> q \in Listed(db')
      <3>1. \A q \in Listed(db) \cup made : q \in Listed(db')
        BY <1>4, <1>7, <1>8, <1>15 DEF Listed
      <3>2. \A q \in Listed(db') : q \in Listed(db) \cup made
        BY <1>4, <1>7, <1>8, <1>12, <1>14 DEF Listed
      <3> QED
        BY <3>1, <3>2
    <2>2. DOMAIN t = Listed(db')
      BY <1>13, <2>1
    <2>3. ASSUME NEW n \in NodeIds(db') PROVE t[PathOf(db', n)] = EntryIn(db', n)
      <3>1. CASE n \in NodeIds(db)
        BY <1>7, <1>10, <1>11, <1>13, <3>1
      <3>2. CASE n \in new
        <4>1. PICK k \in (base + 1)..Len(p) : n = first + k
          BY <1>12, <3>2
        <4>2. t[Upto(p, k)] = FS!Directory(db.nodeSeq + Len(Upto(p, k)) - base - 1)
          BY <1>13, <1>14
        <4>3. t[Upto(p, k)] = FS!Directory(n)
          BY <1>8, <1>16, <4>1, <4>2
        <4> QED
          BY <1>8, <4>1, <4>3
      <3> QED
        BY <1>4, <2>3, <3>1, <3>2
    <2> QED
      BY <2>2, <2>3 DEF Shows
  <1>18. Entries' = t
    <2>1. t = [q \in DOMAIN t |-> t[q]]
      BY <1>13
    <2> QED
      BY <1>2, <1>17, <2>1, ShownOnce, EntriesSeen
  <1>19. /\ ~FS!Present(p)
         /\ base > 0 => FS!IsDirectory(Upto(p, base))
         /\ \A k \in (base + 1)..Len(p) : ~FS!Present(Upto(p, k))
    <2>1. base > 0 => Upto(p, base) \in Paths
      BY <1>3, UptoPath
    <2> QED
      BY <1>1, <1>8, <1>9, <2>1, SeenTree DEF MakeDirectory
  <1>20. CallsUnderWay' = CallsUnderWay
    BY DEF MakeDirectory, CallsUnderWay, Copying
  <1>21. \A k : FS!Upto(p, k) = Upto(p, k)
    BY SameNotions
  <1> QED
    BY <1>3, <1>5, <1>18, <1>19, <1>20, <1>21 DEF FS!CreateDirectory, t, made

(* Rewriting the prefix back gives the old path. *)
LEMMA RebaseBack ==
  ASSUME NEW src \in Paths, NEW dst \in Paths, NEW p \in Paths, p = src \/ Below(src, p),
         Rebase(src, dst, p) \in Paths
  PROVE  /\ Rebase(src, dst, p) = dst \/ Below(dst, Rebase(src, dst, p))
         /\ Rebase(dst, src, Rebase(src, dst, p)) = p
  <1> DEFINE r == Rebase(src, dst, p)
             s == Rebase(dst, src, r)
  <1>1. p = src \/ LikeBelow(src, p)
    BY BelowLike
  <1>2. r = dst \/ Below(dst, r)
    BY <1>1, RebaseBelow
  <1>3. /\ Len(src) <= Len(p) /\ Len(r) = Len(dst) + Len(p) - Len(src)
        /\ \A i \in (Len(src) + 1)..Len(p) : r[Len(dst) + i - Len(src)] = p[i]
    BY <1>1, RebaseShape
  <1> HIDE DEF r
  <1>4. r \in Paths
    BY DEF r
  <1>5. r = dst \/ LikeBelow(dst, r)
    BY <1>2, <1>4, BelowLike
  <1>6. /\ Len(s) = Len(src) + Len(r) - Len(dst)
        /\ \A i \in 1..Len(src) : s[i] = src[i]
        /\ \A i \in (Len(dst) + 1)..Len(r) : s[Len(src) + i - Len(dst)] = r[i]
    BY <1>4, <1>5, RebaseShape
  <1>7. s \in Seq(Names)
    <2>1. src \in Seq(Names) /\ r \in Seq(Names) /\ Len(dst) + 1 \in 1..(Len(r) + 1)
      BY <1>3, <1>4, PathsType
    <2> QED
      BY <2>1 DEF Rebase
  <1> HIDE DEF s
  <1>8. /\ p \in Seq(Names) /\ Len(p) \in Nat /\ Len(src) \in Nat /\ Len(dst) \in Nat
        /\ \A i \in 1..Len(src) : p[i] = src[i]
    BY PathsType DEF Below
  <1>9. Len(s) = Len(p)
    BY <1>3, <1>6, <1>8
  <1>10. ASSUME NEW i \in 1..Len(p) PROVE s[i] = p[i]
    <2>1. CASE i <= Len(src)
      BY <1>6, <1>8, <2>1
    <2>2. CASE i > Len(src)
      <3> DEFINE j == Len(dst) + i - Len(src)
      <3>1. i \in (Len(src) + 1)..Len(p) /\ j \in (Len(dst) + 1)..Len(r)
            /\ Len(src) + j - Len(dst) = i
        BY <1>3, <1>8, <2>2
      <3>2. r[j] = p[i]
        BY <1>3, <3>1
      <3> HIDE DEF j
      <3> QED
        BY <1>6, <3>1, <3>2
    <2> QED
      BY <1>8, <2>1, <2>2
  <1>11. s = p
    BY <1>7, <1>8, <1>9, <1>10
  <1> QED
    BY <1>2, <1>11 DEF r, s

(* What a move does to the rows, of a file or of a directory. *)
Moves(src, dst) ==
  /\ src # dst /\ ~Below(src, dst)
  /\ RowsKept(db, db') /\ db'.nodeSeq = db.nodeSeq
  /\ NodeIds(db') = NodeIds(db) \ Tree(dst)
  /\ \A n \in NodeIds(db') \ Tree(src) : PathOf(db', n) = PathOf(db, n)
  /\ \A n \in Tree(src) \ Tree(dst) : PathOf(db', n) = Rebase(src, dst, PathOf(db, n))

(* Where the rows below the source go. *)
LEMMA MovedRows ==
  ASSUME CaseSensitiveLike, LinkInv, LinkInv', NEW src \in Paths, NEW dst \in Paths,
         Moves(src, dst), NEW n \in Tree(src) \ Tree(dst)
  PROVE  LET r == PathOf(db', n)
         IN  /\ n \in NodeIds(db') /\ r \in Paths
             /\ r = dst \/ Below(dst, r)
             /\ r # src /\ ~Below(src, r)
             /\ Rebase(dst, src, r) = PathOf(db, n)
  <1> DEFINE p == PathOf(db, n)
             r == PathOf(db', n)
  <1>1. TypeOK /\ TypeSound(db) /\ TypeSound(db')
    BY LinkParts DEF LinkInv, TreeInv, GraphInv, TypeOK
  <1>2. /\ n \in NodeIds(db) /\ p \in Paths /\ (p = src \/ Below(src, p))
        /\ p # dst /\ ~Below(dst, p)
    BY <1>1, TreeRows
  <1>3. n \in NodeIds(db') /\ r = Rebase(src, dst, p) /\ src # dst /\ ~Below(src, dst)
    BY <1>2 DEF Moves
  <1>4. r \in Paths
    BY <1>1, <1>3 DEF TypeSound, NodeRowSound, PathOf
  <1> HIDE DEF p, r
  <1>5. (r = dst \/ Below(dst, r)) /\ Rebase(dst, src, r) = p
    BY <1>2, <1>3, <1>4, RebaseBack
  <1>6. ~Below(dst, src)
    BY <1>2, BelowOrder
  <1>7. r # src /\ ~Below(src, r)
    BY <1>3, <1>4, <1>5, <1>6, BelowOrder
  <1> QED
    BY <1>3, <1>4, <1>5, <1>7 DEF p, r

(* The tree after a move of rows is the moved tree. *)
LEMMA MoveShows ==
  ASSUME CaseSensitiveLike, LinkInv, LinkInv', NEW src \in Paths, NEW dst \in Paths,
         Moves(src, dst)
  PROVE  LET moved == FS!TreeAt(src) \ FS!TreeAt(dst)
             kept  == DOMAIN Entries \ (FS!TreeAt(src) \cup FS!TreeAt(dst))
         IN  Entries' = [q \in kept \cup {Rebase(src, dst, p) : p \in moved} |->
                           IF q \in kept THEN Entries[q] ELSE Entries[Rebase(dst, src, q)]]
  <1> DEFINE moved == FS!TreeAt(src) \ FS!TreeAt(dst)
             kept  == DOMAIN Entries \ (FS!TreeAt(src) \cup FS!TreeAt(dst))
             t     == [q \in kept \cup {Rebase(src, dst, p) : p \in moved} |->
                         IF q \in kept THEN Entries[q] ELSE Entries[Rebase(dst, src, q)]]
             left  == Tree(src) \ Tree(dst)
             stay  == NodeIds(db) \ (Tree(src) \cup Tree(dst))
  <1>1. TypeOK /\ TypeSound(db) /\ GraphSound(db) /\ TreeSound(db) /\ TreeSound(db')
    BY LinkParts DEF LinkInv, TreeInv
  <1>2. /\ DOMAIN Entries = Listed(db)
        /\ FS!TreeAt(src) \subseteq Listed(db) /\ FS!TreeAt(dst) \subseteq Listed(db)
        /\ \A n \in NodeIds(db) : /\ PathOf(db, n) \in FS!TreeAt(src) <=> n \in Tree(src)
                                  /\ PathOf(db, n) \in FS!TreeAt(dst) <=> n \in Tree(dst)
        /\ \A n \in NodeIds(db) : Entries[PathOf(db, n)] = EntryIn(db, n)
    BY <1>1, TreeSeen, EntriesSeen, EntriesShow DEF Shows
  <1>3. Tree(src) \subseteq NodeIds(db) /\ Tree(dst) \subseteq NodeIds(db)
    BY <1>1, TreeRows
  <1>4. /\ \A q \in moved : \E n \in left : q = PathOf(db, n)
        /\ \A n \in left : PathOf(db, n) \in moved
        /\ \A q \in kept : \E n \in stay : q = PathOf(db, n)
        /\ \A n \in stay : PathOf(db, n) \in kept
    <2> HIDE DEF FS!TreeAt
    <2> QED
      BY <1>2, <1>3 DEF Listed
  <1>5. NodeIds(db') = stay \cup left
    BY <1>3 DEF Moves
  <1>6. \A n \in NodeIds(db') : EntryIn(db', n) = EntryIn(db, n)
    BY <1>1, <1>3, <1>5, RowsShow DEF Moves
  <1>7. \A n \in stay : PathOf(db', n) = PathOf(db, n)
    BY <1>5 DEF Moves
  <1>8. \A n \in left : /\ PathOf(db', n) = Rebase(src, dst, PathOf(db, n))
                        /\ Rebase(dst, src, PathOf(db', n)) = PathOf(db, n)
    BY MovedRows DEF Moves
  <1>9. \A n \in left : PathOf(db', n) \notin kept
    <2>1. ASSUME NEW n \in left, PathOf(db', n) \in kept PROVE FALSE
      <3>1. PathOf(db', n) = dst \/ Below(dst, PathOf(db', n))
        BY MovedRows
      <3>2. PICK m \in stay : PathOf(db', n) = PathOf(db, m)
        BY <1>4, <2>1
      <3> QED
        BY <1>1, <3>1, <3>2, TreeRows
    <2> QED
      BY <2>1
  <1> DEFINE shift == {Rebase(src, dst, p) : p \in moved}
  <1>10. \A q : q \in shift <=> \E n \in left : q = PathOf(db', n)
    <2> HIDE DEF moved, left, stay, kept
    <2> QED
      BY <1>4, <1>8
  <1> HIDE DEF moved, left, stay, kept, shift
  <1>11. t = [q \in kept \cup shift |->
                IF q \in kept THEN Entries[q] ELSE Entries[Rebase(dst, src, q)]]
    BY DEF shift
  <1> HIDE DEF t
  <1>12. Shows(db', t)
    <2>1. \A q : q \in kept \cup shift <=> q \in Listed(db')
      BY <1>4, <1>5, <1>7, <1>10 DEF Listed
    <2>2. DOMAIN t = Listed(db')
      BY <1>11, <2>1
    <2>3. ASSUME NEW n \in NodeIds(db') PROVE t[PathOf(db', n)] = EntryIn(db', n)
      <3>0. PathOf(db', n) \in kept \cup shift
        BY <2>1 DEF Listed
      <3>1. CASE n \in stay
        <4>1. PathOf(db', n) \in kept /\ n \in NodeIds(db)
          BY <1>4, <1>7, <3>1 DEF stay
        <4>2. t[PathOf(db', n)] = Entries[PathOf(db, n)]
          BY <1>7, <1>11, <3>0, <3>1, <4>1
        <4> QED
          BY <1>2, <1>6, <4>1, <4>2
      <3>2. CASE n \in left
        <4>1. PathOf(db', n) \notin kept /\ n \in NodeIds(db)
          BY <1>3, <1>9, <3>2 DEF left
        <4>2. t[PathOf(db', n)] = Entries[PathOf(db, n)]
          BY <1>8, <1>11, <3>0, <3>2, <4>1
        <4> QED
          BY <1>2, <1>6, <4>1, <4>2
      <3> QED
        BY <1>5, <2>3, <3>1, <3>2
    <2> QED
      BY <2>2, <2>3 DEF Shows
  <1>13. t = [q \in DOMAIN t |-> t[q]]
    BY <1>11
  <1>14. Entries' = t
    BY <1>1, <1>12, <1>13, ShownOnce, EntriesSeen
  <1> QED
    BY <1>14 DEF t, moved, kept

(* Nothing is left at the source. *)
LEMMA SourceGone ==
  ASSUME CaseSensitiveLike, LinkInv, LinkInv', NEW src \in Paths, NEW dst \in Paths,
         Moves(src, dst)
  PROVE  ~FS!Present(src)'
  <1>1. TypeOK /\ TypeSound(db) /\ TreeSound(db) /\ TreeSound(db')
    BY LinkParts DEF LinkInv, TreeInv
  <1>2. ASSUME NEW n \in NodeIds(db') PROVE PathOf(db', n) # src /\ ~Below(src, PathOf(db', n))
    <2>1. CASE n \in Tree(src)
      BY <1>2, <2>1, MovedRows DEF Moves
    <2>2. CASE n \notin Tree(src)
      <3>1. n \in NodeIds(db) /\ PathOf(db', n) = PathOf(db, n)
        BY <1>2, <2>2 DEF Moves
      <3> QED
        BY <1>1, <2>2, <3>1, TreeRows
    <2> QED
      BY <2>1, <2>2
  <1>3. DOMAIN Entries' = Listed(db')
    BY EntriesSeen DEF EntriesIn
  <1>4. \A q \in DOMAIN Entries' : q # src /\ ~Below(src, q)
    BY <1>2, <1>3 DEF Listed
  <1>5. \A q \in DOMAIN Entries' : q # src /\ ~FS!Below(src, q)
    BY <1>4, SameNotions
  <1> QED
    BY <1>5 DEF FS!Present, FS!TreeAt

-----------------------------------------------------------------------------
(* The operations, one by one *)

LEMMA MovePerforms ==
  ASSUME CaseSensitiveLike, LinkInv, LinkInv', NEW src \in Paths, NEW dst \in Paths,
         NEW ow \in BOOLEAN, Moves(src, dst), FS!CanMove(src, dst, ow), tx' = tx, inflight' = inflight
  PROVE  Performs
  <1> DEFINE moved == FS!TreeAt(src) \ FS!TreeAt(dst)
             kept  == DOMAIN Entries \ (FS!TreeAt(src) \cup FS!TreeAt(dst))
  <1>1. Entries' = [q \in kept \cup {Rebase(src, dst, p) : p \in moved} |->
                      IF q \in kept THEN Entries[q] ELSE Entries[Rebase(dst, src, q)]]
    BY MoveShows
  <1>2. \A p, q, r : FS!Rebase(p, q, r) = Rebase(p, q, r)
    BY SameNotions
  <1>3. CallsUnderWay' = CallsUnderWay /\ db'.nodeSeq = db.nodeSeq
    BY DEF CallsUnderWay, Copying, Moves
  <1>4. Entries' = [q \in kept \cup {FS!Rebase(src, dst, p) : p \in moved} |->
                      IF q \in kept THEN Entries[q] ELSE Entries[FS!Rebase(dst, src, q)]]
    <2> HIDE DEF moved, kept
    <2>1. {FS!Rebase(src, dst, p) : p \in moved} = {Rebase(src, dst, p) : p \in moved}
      BY <1>2
    <2> QED
      BY <1>1, <1>2, <2>1
  <1>5. FS!Move(src, dst, ow)
    BY <1>3, <1>4 DEF FS!Move
  <1>6. ~FS!Present(src)'
    BY SourceGone
  <1>7. dst \in FS!Paths
    BY SameNotions
  <1> QED
    BY <1>5, <1>6, <1>7 DEF Performs, FS!Call

LEMMA MoveFilePerforms ==
  ASSUME CaseSensitiveLike, LinkInv, LinkInv', NEW src \in Paths, NEW dst \in Paths,
         NEW ow \in BOOLEAN, MoveFile(src, dst, ow)
  PROVE  Performs
  <1>1. /\ TypeOK /\ TypeSound(db) /\ GraphSound(db) /\ TreeSound(db) /\ Sound(db) /\ GraphInv
    BY LinkParts
  <1>2. PICK f \in NodesAt(db, src) :
           /\ NodeIds(db') = NodeIds(db) \ NodesAt(db, dst)
           /\ db'.nodes[f].path = dst
           /\ \A n \in NodeIds(db') \ {f} : db'.nodes[n] = db.nodes[n]
    BY <1>1, MoveFileShape
  <1>3. /\ src # dst /\ ParentOk(db, dst) /\ FileAt(db, src)
        /\ IF HasNode(db, dst) THEN ow /\ FileAt(db, dst) ELSE ~HasDescendants(db, dst)
        /\ tx' = tx /\ inflight' = inflight
    BY DEF MoveFile
  <1>4. Tree(src) = NodesAt(db, src) /\ Tree(src) = {f}
    BY <1>1, <1>2, <1>3, FileTree DEF NodesAt, TreeSound
  <1>5. Tree(dst) = NodesAt(db, dst)
    <2>1. CASE HasNode(db, dst)
      BY <1>1, <1>3, <2>1, FileTree
    <2>2. CASE ~HasNode(db, dst)
      BY <1>3, <2>2 DEF Tree, HasDescendants
    <2> QED
      BY <2>1, <2>2
  <1>6. ~Below(src, dst)
    BY <1>3, BelowAncestor DEF ParentOk
  <1>7. RowsKept(db, db') /\ db'.nodeSeq = db.nodeSeq
    <2> DEFINE old == NodesAt(db, dst)
               d   == DeleteNodes(ReleaseFileBlocks(db, old), old)
    <2>1. PICK g : db' = [d EXCEPT !.nodes[g].path = dst]
      BY DEF MoveFile
    <2>2. TypeSound(d) /\ d.nodeSeq = db.nodeSeq
      BY <1>1, DeleteKeeps
    <2> HIDE DEF d
    <2>3. db'.nodeSeq = d.nodeSeq
      BY <2>1, <2>2 DEF TypeSound
    <2> QED
      BY <1>1, <2>2, <2>3, MoveFileKeeps
  <1>8. PathOf(db, f) = src /\ Rebase(src, dst, src) = dst
    <2>1. SubSeq(src, Len(src) + 1, Len(src)) = <<>> /\ dst \in Seq(Names)
      BY PathsType
    <2> QED
      BY <1>2, <2>1 DEF NodesAt, PathOf, Rebase
  <1>9. Moves(src, dst)
    BY <1>2, <1>3, <1>4, <1>5, <1>6, <1>7, <1>8 DEF Moves, PathOf
  <1>10. FS!CanMove(src, dst, ow)
    <2>1. FS!Present(src) /\ FS!Reachable(dst)
      BY <1>1, <1>3, SeenTree DEF Exists, HasNode, FileAt
    <2>2. FS!Present(dst) => ow /\ FS!IsFile(dst)
      BY <1>1, <1>3, SeenTree, SeenFile DEF Exists
    <2> QED
      BY <1>3, <1>6, <2>1, <2>2, SameNotions DEF FS!CanMove
  <1> QED
    BY <1>3, <1>9, <1>10, MovePerforms

LEMMA MoveDirectoryPerforms ==
  ASSUME CaseSensitiveLike, LinkInv, LinkInv', NEW src \in Paths, NEW dst \in Paths,
         NEW ow \in BOOLEAN, MoveDirectory(src, dst, ow)
  PROVE  Performs
  <1> DEFINE left == Tree(src) \ Tree(dst)
  <1>1. /\ TypeOK /\ TypeSound(db) /\ GraphSound(db) /\ TreeSound(db) /\ Sound(db) /\ GraphInv
    BY LinkParts
  <1>2. /\ NodeIds(db') = NodeIds(db) \ Tree(dst)
        /\ \A n \in NodeIds(db') \ left : db'.nodes[n].path = db.nodes[n].path
        /\ \A n \in left : db'.nodes[n].path = Rebase(src, dst, db.nodes[n].path)
    BY <1>1, MoveDirectoryShape
  <1>3. /\ src # dst /\ ~Below(src, dst) /\ ParentOk(db, dst) /\ ~FileAt(db, src)
        /\ Tree(src) # {} /\ (Tree(dst) # {} => ow)
        /\ tx' = tx /\ inflight' = inflight
    BY DEF MoveDirectory
  <1>4. RowsKept(db, db') /\ db'.nodeSeq = db.nodeSeq
    <2> DEFINE d == DeleteNodes(ReleaseFileBlocks(db, Tree(dst)), Tree(dst))
    <2>1. db' = Renamed(d, left, src, dst)
      BY DEF MoveDirectory
    <2>2. TypeSound(d) /\ d.nodeSeq = db.nodeSeq
      BY <1>1, DeleteKeeps
    <2> HIDE DEF d, left
    <2>3. db'.nodeSeq = d.nodeSeq
      BY <2>1, <2>2 DEF TypeSound, Renamed
    <2> QED
      BY <1>1, <2>2, <2>3, MoveDirectoryKeeps
  <1>5. Moves(src, dst)
    BY <1>2, <1>3, <1>4 DEF Moves, PathOf
  <1>6. FS!CanMove(src, dst, ow)
    <2>1. \A p \in Paths : FS!Present(p) <=> Tree(p) # {}
      BY <1>1, SeenTree DEF Exists, HasNode, HasDescendants, Tree
    <2>2. FS!Reachable(dst) /\ ~FS!IsFile(src)
      BY <1>1, <1>3, SeenTree, SeenFile
    <2> QED
      BY <1>3, <2>1, <2>2, SameNotions DEF FS!CanMove
  <1> QED
    BY <1>3, <1>5, <1>6, MovePerforms

-----------------------------------------------------------------------------
(* Writers that are open, and the two halves of copy and rmdir *)

LEMMA SameDb ==
  ASSUME db' = db
  PROVE  Entries' = Entries /\ db'.nodeSeq = db.nodeSeq
  BY EntriesSeen

(* An open writer shows nothing. *)
LEMMA WriterStutters ==
  ASSUME \/ \E mode \in Modes, p \in Paths, bs \in BlockSizes : WriterStart(mode, p, bs)
         \/ \E chunk \in Payloads : WriterChunk(chunk)
         \/ CopyBlock
         \/ \E r \in inflight : CopyStart(r) /\ CanStart(db, "wb", r.dst)
  PROVE  Stutters
  <1>1. ASSUME NEW mode \in Modes, NEW p \in Paths, NEW bs \in BlockSizes, WriterStart(mode, p, bs)
        PROVE  db' = db /\ CallsUnderWay' = CallsUnderWay
    BY <1>1 DEF WriterStart, LockFree, Transaction, CallsUnderWay, Copying, NoCall
  <1>2. ASSUME (\E chunk \in Payloads : WriterChunk(chunk)) \/ CopyBlock
        PROVE  db' = db /\ CallsUnderWay' = CallsUnderWay
    BY <1>2 DEF WriterChunk, CopyBlock, Fed, Transaction, CallsUnderWay, Copying
  <1>3. ASSUME NEW r \in inflight, CopyStart(r), CanStart(db, "wb", r.dst)
        PROVE  db' = db /\ CallsUnderWay' = CallsUnderWay
    <2>1. /\ db' = db /\ inflight' = inflight \ {r} /\ ~tx.open /\ r.op = "copy"
          /\ tx'.open /\ tx'.call = r
      BY <1>3 DEF CopyStart, LockFree, Transaction
    <2> QED
      BY <2>1 DEF CallsUnderWay, Copying
  <1> QED
    BY <1>1, <1>2, <1>3, SameDb DEF Stutters

(* A copy that is refused or rolled back ends without effect. *)
LEMMA RefusedPerforms ==
  ASSUME \/ WriterRollback
         \/ \E r \in inflight : CopyStart(r) /\ ~CanStart(db, "wb", r.dst)
  PROVE  Performs \/ Stutters
  <1>1. ASSUME NEW r \in CallsUnderWay, db' = db, CallsUnderWay' \in {CallsUnderWay, CallsUnderWay \ {r}}
        PROVE  Performs
    BY <1>1, SameDb DEF Performs, FS!EndCall
  <1>2. ASSUME NEW r \in inflight, CopyStart(r), ~CanStart(db, "wb", r.dst) PROVE Performs
    <2>1. db' = db /\ inflight' = inflight \ {r} /\ tx' = tx /\ ~tx.open
      BY <1>2 DEF CopyStart, LockFree
    <2> QED
      BY <1>1, <2>1 DEF CallsUnderWay
  <1>3. ASSUME WriterRollback PROVE Performs \/ Stutters
    <2>1. db' = db /\ inflight' = inflight /\ tx.open /\ ~tx'.open
      BY <1>3 DEF WriterRollback, NoTransaction
    <2>2. CASE Copying
      BY <1>1, <2>1, <2>2 DEF CallsUnderWay
    <2>3. CASE ~Copying
      BY <2>1, <2>3, SameDb DEF CallsUnderWay, Stutters
    <2> QED
      BY <2>2, <2>3
  <1> QED
    BY <1>2, <1>3

(* The unlocked lookups begin a call. *)
LEMMA LookupPerforms ==
  ASSUME CaseSensitiveLike, LinkInv, NEW p \in Paths, NEW q \in Paths, NEW rec \in BOOLEAN,
         CopyLookup(p, q) \/ RemoveDirectoryCheck(p, rec)
  PROVE  Performs \/ Stutters
  <1>1. TypeOK /\ TreeSound(db)
    BY LinkParts
  <1>2. ASSUME NEW r, db' = db, tx' = tx, inflight' = inflight \cup {r},
               r.op = "copy" => FS!IsFile(r.src) /\ Entries[r.src].id = r.node,
               r.op = "rmdir" => ~FS!IsFile(r.path)
        PROVE  Performs \/ Stutters
    <2>1. Entries' = Entries /\ db'.nodeSeq = db.nodeSeq
      BY <1>2, SameDb
    <2>2. CallsUnderWay' = CallsUnderWay \cup {r}
      BY <1>2 DEF CallsUnderWay, Copying
    <2>3. CASE r \in CallsUnderWay
      BY <2>1, <2>2, <2>3 DEF Stutters
    <2>4. CASE r \notin CallsUnderWay
      BY <1>2, <2>1, <2>2, <2>4 DEF Performs, FS!BeginCall
    <2> QED
      BY <2>3, <2>4
  <1>3. CASE CopyLookup(p, q)
    <2>1. PICK n \in NodesAt(db, p) :
            /\ db.nodes[n].type = "file"
            /\ inflight' = inflight \cup {[op |-> "copy", node |-> n, src |-> p, dst |-> q]}
      BY <1>3 DEF CopyLookup
    <2> DEFINE r == [op |-> "copy", node |-> n, src |-> p, dst |-> q]
    <2>2. r.op = "copy" /\ r.src = p /\ r.node = n
      OBVIOUS
    <2>3. FS!IsFile(p) /\ Entries[p].id = n
      BY <1>1, <2>1, SeenFile DEF FileAt
    <2>4. db' = db /\ tx' = tx /\ inflight' = inflight \cup {r}
      BY <1>3, <2>1 DEF CopyLookup
    <2> HIDE DEF r
    <2> QED
      BY <1>2, <2>2, <2>3, <2>4
  <1>4. CASE RemoveDirectoryCheck(p, rec)
    <2> DEFINE r == [op |-> "rmdir", path |-> p, recursive |-> rec]
    <2>1. r.op = "rmdir" /\ r.path = p
      OBVIOUS
    <2>2. db' = db /\ tx' = tx /\ inflight' = inflight \cup {r} /\ ~FileAt(db, p)
      BY <1>4 DEF RemoveDirectoryCheck
    <2>3. ~FS!IsFile(p)
      BY <1>1, <2>2, SeenFile
    <2> HIDE DEF r
    <2> QED
      BY <1>2, <2>1, <2>2, <2>3
  <1> QED
    BY <1>3, <1>4

LEMMA RemovalPerforms ==
  ASSUME CaseSensitiveLike, LinkInv, LinkInv', NEW r \in inflight, RemoveDirectoryDelete(r)
  PROVE  Performs
  <1>1. /\ r.op = "rmdir" /\ ~tx.open /\ tx' = tx /\ inflight' = inflight \ {r}
    BY DEF RemoveDirectoryDelete, LockFree
  <1>2. r.path \in Paths /\ r.recursive \in BOOLEAN
    BY <1>1, LinkParts, CallParts
  <1>3. r \in CallsUnderWay /\ CallsUnderWay' = CallsUnderWay \ {r}
    BY <1>1 DEF CallsUnderWay
  <1>4. \/ Entries' = Entries /\ db'.nodeSeq = db.nodeSeq
        \/ FS!Erase(r.path, r.recursive)
    BY <1>2, DeletionErases, SameDb DEF RemoveDirectoryDelete
  <1>5. FS!EndCall(r)
    BY <1>1, <1>3, <1>4 DEF FS!EndCall
  <1> QED
    BY <1>3, <1>5 DEF Performs

LEMMA OperationPerforms ==
  ASSUME CaseSensitiveLike, LinkInv, LinkInv', NEW p \in Paths, NEW b \in BOOLEAN,
         \/ DeleteFile(p, b)
         \/ \E base \in 0..(MaxDepth - 1) : MakeDirectory(p, b, base)
         \/ \E q \in Paths : MoveFile(p, q, b) \/ MoveDirectory(p, q, b)
  PROVE  Performs
  <1>1. CASE DeleteFile(p, b)
    <2>1. FS!Erase(p, b) /\ CallsUnderWay' = CallsUnderWay
      BY <1>1, DeletionErases DEF DeleteFile, CallsUnderWay, Copying
    <2> QED
      BY <2>1 DEF FS!Delete, FS!Call, Performs
  <1>2. ASSUME NEW base \in 0..(MaxDepth - 1), MakeDirectory(p, b, base) PROVE Performs
    <2>1. FS!CreateDirectory(p, base) /\ base \in 0..(Len(p) - 1)
      BY <1>2, MakeDirectoryCreates
    <2> QED
      BY <2>1 DEF FS!Call, Performs
  <1>3. ASSUME NEW q \in Paths, MoveFile(p, q, b) \/ MoveDirectory(p, q, b) PROVE Performs
    BY <1>3, MoveFilePerforms, MoveDirectoryPerforms
  <1> QED
    BY <1>1, <1>2, <1>3

(* Every step of the operations. *)
LEMMA NextPerforms ==
  ASSUME CaseSensitiveLike, LinkInv, LinkInv', Next
  PROVE  Performs \/ Stutters
  <1>1. CASE \/ \E mode \in Modes, p \in Paths, bs \in BlockSizes : WriterStart(mode, p, bs)
             \/ \E chunk \in Payloads : WriterChunk(chunk)
             \/ CopyBlock
    BY <1>1, WriterStutters
  <1>2. CASE WriterCommit
    BY <1>2, CommitPerforms, CopyPerforms
  <1>3. CASE WriterRollback
    BY <1>3, RefusedPerforms
  <1>4. CASE \E r \in inflight : CopyStart(r)
    BY <1>4, WriterStutters, RefusedPerforms
  <1>5. CASE \E p, q \in Paths : CopyLookup(p, q)
    <2>1. TRUE \in BOOLEAN
      OBVIOUS
    <2> QED
      BY <1>5, <2>1, LookupPerforms
  <1>6. CASE \E p \in Paths, rec \in BOOLEAN : RemoveDirectoryCheck(p, rec)
    BY <1>6, LookupPerforms
  <1>7. CASE \E r \in inflight : RemoveDirectoryDelete(r)
    BY <1>7, RemovalPerforms
  <1>8. CASE \E p \in Paths, b \in BOOLEAN :
               \/ DeleteFile(p, b)
               \/ \E base \in 0..(MaxDepth - 1) : MakeDirectory(p, b, base)
               \/ \E q \in Paths : MoveFile(p, q, b) \/ MoveDirectory(p, q, b)
    BY <1>8, OperationPerforms
  <1> QED
    BY <1>1, <1>2, <1>3, <1>4, <1>5, <1>6, <1>7, <1>8 DEF Next

LEMMA StepRefines ==
  ASSUME CaseSensitiveLike, LinkInv, LinkInv', [Next]_vars
  PROVE  [FS!FsNext]_(FS!fsVars)
  <1>1. CASE UNCHANGED vars
    BY <1>1, SameDb DEF vars, FS!fsVars, CallsUnderWay, Copying
  <1>2. CASE Stutters
    BY <1>2 DEF Stutters, FS!fsVars
  <1>3. CASE Performs
    <2>1. FS!Paths = Paths
      BY SameNotions
    <2>2. CASE FS!fsVars' = FS!fsVars
      BY <2>2
    <2>3. CASE FS!fsVars' # FS!fsVars
      BY <1>3, <2>1, <2>3 DEF Performs, FS!FsNext
    <2> QED
      BY <2>2, <2>3
  <1> QED
    BY <1>1, <1>2, <1>3, NextPerforms

LEMMA InitRefines == Init => FS!FsInit
  <1> SUFFICES ASSUME Init PROVE FS!FsInit
    OBVIOUS
  <1>1. NodeIds(db) = {} /\ db.nodeSeq = 1 /\ CallsUnderWay = {}
    BY DEF Init, EmptyDb, NodeIds, NoTransaction, CallsUnderWay
  <1>2. Listed(db) = {}
    BY <1>1 DEF Listed
  <1>3. Entries = [p \in {} |-> {}]
    BY <1>2, EntriesSeen DEF EntriesIn
  <1> QED
    BY <1>1, <1>3 DEF FS!FsInit

(* ImplementsFileSystem, for every number of paths, chunks, block sizes, ids
   and calls under way: whatever rows, blocks and statements an operation of
   operations.py takes, its callers see one step of the file system, and a
   file that is being written is seen whole or not at all.  A case-insensitive
   LIKE breaks it, as it breaks TreeOK. *)
THEOREM RefinementCorrect ==
  ASSUME CaseSensitiveLike
  PROVE  Spec => ImplementsFileSystem
  <1>1. Init => LinkInv /\ FS!FsInit
    BY LinkInit, InitRefines
  <1>2. LinkInv /\ [Next]_vars => LinkInv'
    BY LinkStep
  <1>3. LinkInv /\ LinkInv' /\ [Next]_vars => [FS!FsNext]_(FS!fsVars)
    BY StepRefines
  <1> QED
    BY <1>1, <1>2, <1>3, PTL DEF Spec, ImplementsFileSystem, FS!FsSpec
=============================================================================
