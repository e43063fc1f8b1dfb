------------------------- MODULE MaintenanceProofs -------------------------
(***************************************************************************)
(* Proofs about Maintenance: rechunks, gc and a writer whose statements    *)
(* meet in every order, with rollbacks at any step.                        *)
(***************************************************************************)
EXTENDS Maintenance, TableProofs

-----------------------------------------------------------------------------
(* The inductive invariant.  What a transaction c knows and has changed is
   related to what is committed, d. *)

MapsOfAll(d, ids) == {m \in d.maps : m.file \in ids}

BlocksOf(d, ids) == {m.block : m \in MapsOfAll(d, ids)}

ChangeTyped(d, c) ==
  /\ DOMAIN c = {"nodes", "gone", "blocks", "maps", "unmaps"}
  /\ \A n \in DOMAIN c.nodes : n \in NodeIds(d) /\ NodeRowSound(c.nodes[n])
  /\ \A b \in DOMAIN c.blocks : b \in 1..(d.blockSeq - 1) /\ BlockRowSound(c.blocks[b])
  /\ c.gone = {}
  /\ c.maps \subseteq MapRow

(* A change maps only blocks that it has made.  Of the committed ones it
   frees those whose mappings it has removed, and else none. *)
ChangeOk(d, c) ==
  /\ ChangeTyped(d, c)
  /\ \A m \in c.maps : /\ m.block \in DOMAIN c.blocks /\ m.block \notin DOMAIN d.blocks
                       /\ ~c.blocks[m.block].free
  /\ \A b \in DOMAIN c.blocks :
       /\ c.blocks[b].size = Len(c.blocks[b].data) /\ c.blocks[b].sum = Hash(c.blocks[b].data)
       /\ c.blocks[b].free \/ \E m \in c.maps : m.block = b
       /\ b \in DOMAIN d.blocks =>
            /\ c.blocks[b].free /\ c.blocks[b].data = d.blocks[b].data
            /\ \A m \in d.maps : m.block = b => m \in c.unmaps

Untouched(c) == c.change = NoChange

(* The mappings of the files ids are removed, and their blocks listed ... *)
Removed(d, c) ==
  /\ c.change.maps = {}
  /\ c.change.unmaps = MapsOfAll(d, c.ids)
  /\ c.listed = BlocksOf(d, c.ids)

(* ... or freed as well. *)
Released(d, c) ==
  /\ c.change.unmaps = MapsOfAll(d, c.ids)
  /\ \A b \in BlocksOf(d, c.ids) : b \in DOMAIN c.change.blocks

(* File n has got the chunks cs in new blocks, from sequence s on. *)
Attached(d, c, n, s, cs) ==
  \E first \in 0..d.blockSeq :
    /\ c.change.maps = {[file |-> n, block |-> first + i, seq |-> s + i - 1] : i \in 1..Len(cs)}
    /\ \A i \in 1..Len(cs) : /\ first + i \in DOMAIN c.change.blocks
                             /\ c.change.blocks[first + i] = NewBlock(cs[i])
    /\ s + Len(cs) <= d.blockSeq

RechunkOk(d, c) ==
  /\ {"ids", "node", "row", "bsize"} \subseteq DOMAIN c
  /\ c.at \in {"load", "list", "unmap", "free", "update"}
  /\ c.ids = {c.node} /\ c.locked = {c.node} /\ c.shared = {}
  /\ c.node \in NodeIds(d) /\ d.nodes[c.node] = c.row /\ c.row.type = "file"
  /\ c.bsize \in BlockSizes
  /\ DOMAIN c.change.nodes = {}
  /\ c.at # "load" => /\ {"data"} \subseteq DOMAIN c
                      /\ c.data = Content(d, c.node) /\ c.row.size = Len(c.data)
  /\ c.at \in {"load", "list", "unmap"} => Untouched(c)
  /\ c.at \in {"unmap", "free", "update"} => {"listed"} \subseteq DOMAIN c
  /\ c.at = "unmap" => c.listed = BlocksOf(d, c.ids)
  /\ c.at = "free" => Removed(d, c) /\ DOMAIN c.change.blocks = {}
  /\ c.at = "update" => Released(d, c) /\ Attached(d, c, c.node, 0, Chunks(c.data, c.bsize))

WriterFields(d, w) ==
  /\ DOMAIN w = {"node", "mode", "ver", "size", "hashed", "seq", "bsize"}
  /\ w.node \in NodeIds(d) /\ d.nodes[w.node].type = "file"
  /\ w.ver \in Nat \ {0} /\ w.size \in Nat /\ w.seq \in Nat /\ w.bsize \in BlockSizes

(* An overwrite holds its row from the guarded UPDATE on, and gives it its
   next version. *)
OverwriteHeld(d, c) ==
  /\ {"w"} \subseteq DOMAIN c /\ WriterFields(d, c.w) /\ c.w.mode = "wb"
  /\ c.ids = {c.w.node} /\ c.locked = {c.w.node} /\ c.shared \subseteq {c.w.node}
  /\ DOMAIN c.change.nodes = {c.w.node}
  /\ c.change.nodes[c.w.node].ver = c.w.ver
  /\ c.change.nodes[c.w.node].type = "file"
  /\ c.w.ver = d.nodes[c.w.node].ver + 1

OverwriteAt(d, c) ==
  /\ c.at \in {"list", "unmap", "free", "write", "finish"}
  /\ c.at # "finish" => c.w.seq = 0 /\ c.w.hashed = <<>> /\ c.w.size = 0 /\ c.change.maps = {}
  /\ c.at \in {"list", "unmap"} => c.change.unmaps = {} /\ DOMAIN c.change.blocks = {}
  /\ c.at \in {"unmap", "free", "write", "finish"} => {"listed"} \subseteq DOMAIN c
  /\ c.at = "unmap" => c.listed = BlocksOf(d, c.ids)
  /\ c.at = "free" => Removed(d, c) /\ DOMAIN c.change.blocks = {}
  /\ c.at \in {"write", "finish"} => Released(d, c)
  /\ c.at = "finish" => \E data \in Payloads :
       /\ c.w.hashed = data /\ c.w.size = Len(data)
       /\ Attached(d, c, c.w.node, 0, Chunks(data, c.w.bsize))

OverwriteOk(d, c) ==
  /\ {"op", "ids", "row", "bsize"} \subseteq DOMAIN c /\ c.op = "overwrite"
  /\ c.bsize \in BlockSizes
  /\ \/ /\ c.at = "claim" /\ Untouched(c) /\ c.locked = {} /\ c.shared = {}
        /\ \E n \in NodeIds(d) : c.ids = {n} /\ d.nodes[n].type = "file"
     \/ OverwriteHeld(d, c) /\ OverwriteAt(d, c)

(* An append relies on the version: as long as it is the one it has read, so
   is what it has read after it. *)
AppendOk(d, c) ==
  LET n == c.w.node
  IN  /\ {"op", "w"} \subseteq DOMAIN c /\ c.op = "append"
      /\ WriterFields(d, c.w) /\ c.w.mode = "ab" /\ c.w.ver <= d.nodes[n].ver
      /\ c.locked = {} /\ c.shared = IF c.at = "finish" THEN {n} ELSE {}
      /\ c.at \in {"seq", "hash", "write", "finish"}
      /\ c.at # "finish" => Untouched(c)
      /\ DOMAIN c.change.nodes = {} /\ c.change.unmaps = {}
      /\ \A m \in c.change.maps : m.file = n
      /\ c.w.ver = d.nodes[n].ver =>
           /\ c.at # "finish" => c.w.size = d.nodes[n].size
           /\ c.at \in {"hash", "write"} => c.w.seq = NextSequence(d, n)
           /\ c.at = "write" => c.w.hashed = Content(d, n)
           /\ c.at = "finish" => \E data \in Payloads :
                /\ c.w.size = d.nodes[n].size + Len(data)
                /\ c.w.hashed = Content(d, n) \o data
                /\ Attached(d, c, n, NextSequence(d, n), Chunks(data, c.w.bsize))

(* A delete holds the rows that it takes, a move over a directory does not. *)
RemoveOk(d, c) ==
  /\ {"op", "ids"} \subseteq DOMAIN c /\ c.op \in {"delete", "move"}
  /\ c.ids \subseteq NodeIds(d)
  /\ c.locked = (IF c.op = "delete" THEN c.ids ELSE {}) /\ c.shared = {}
  /\ c.at \in {"list", "unmap", "free", "drop"}
  /\ DOMAIN c.change.nodes = {} /\ c.change.maps = {}
  /\ \A m \in c.change.unmaps : m.file \in c.ids
  /\ c.at \in {"list", "unmap"} => Untouched(c)
  /\ c.at \in {"unmap", "free", "drop"} => {"listed"} \subseteq DOMAIN c
  /\ c.op = "delete" => /\ c.at = "unmap" => c.listed = BlocksOf(d, c.ids)
                        /\ c.at = "free" => Removed(d, c)
                        /\ c.at = "drop" => Released(d, c)

TxOk(d, t, c) ==
  \/ c = Idle
  \/ /\ {"at", "change", "locked", "shared"} \subseteq DOMAIN c
     /\ \/ t \in Rechunkers /\ RechunkOk(d, c)
        \/ t = "writer" /\ (OverwriteOk(d, c) \/ AppendOk(d, c) \/ RemoveOk(d, c))

Apart(c, u) ==
  /\ DOMAIN c.change.blocks \cap DOMAIN u.change.blocks = {}
  /\ c.locked \cap (u.locked \cup u.shared) = {}

(* The blocks a collector has listed are free, or gone. *)
ListOk(d, q) ==
  /\ DOMAIN q = {"at", "excess", "ids"}
  /\ \A b \in q.ids : b \in 1..(d.blockSeq - 1) /\ (b \in DOMAIN d.blocks => d.blocks[b].free)

MaintenanceInv ==
  /\ TypeSound(disk) /\ MapsSound(disk) /\ RowsMatchContent(disk)
  /\ DOMAIN tx = Transactions /\ DOMAIN gc = Collectors
  /\ \A t \in Transactions : TxOk(disk, t, tx[t]) /\ ChangeOk(disk, tx[t].change)
  /\ \A t, u \in Transactions : t # u => Apart(tx[t], tx[u])
  /\ \A g \in Collectors : ListOk(disk, gc[g])
  /\ \A g \in Collectors, t \in Transactions : \A b \in gc[g].ids :
       b \notin DOMAIN disk.blocks => b \notin DOMAIN tx[t].change.blocks
-----------------------------------------------------------------------------
(* What a step may do to the rows that others rely on *)

(* File n is in e as it is in d. *)
Kept(d, e, n) ==
  /\ n \in NodeIds(e) /\ e.nodes[n] = d.nodes[n] /\ MapsOf(e, n) = MapsOf(d, n)
  /\ \A m \in MapsOf(d, n) : e.blocks[m.block].data = d.blocks[m.block].data

(* Whoever lays out a file anew gives it a later version. *)
LaysOut(d, e) ==
  \A n \in NodeIds(d) \cap NodeIds(e) :
    /\ e.nodes[n].type = d.nodes[n].type
    /\ Kept(d, e, n) \/ e.nodes[n].ver > d.nodes[n].ver

(* The step from d to e of somebody else respects what transaction c of t holds ... *)
RowsLet(d, e, t, c) ==
  /\ e.blockSeq \in Nat /\ d.blockSeq <= e.blockSeq
  /\ LaysOut(d, e)
  /\ \A n \in NodeIds(d) : n \in c.locked \cup c.shared => Kept(d, e, n)
  /\ t = "writer" => NodeIds(d) \subseteq NodeIds(e)

(* ... and the blocks that it has made or is about to free. *)
BlocksLet(d, e, c) ==
  /\ \A b \in DOMAIN c.blocks : b \in DOMAIN e.blocks =>
       b \in DOMAIN d.blocks /\ e.blocks[b].data = d.blocks[b].data
  /\ \A m \in e.maps : m.block \in DOMAIN c.blocks => m \in d.maps

LEMMA KeptParts ==
  ASSUME NEW d, TypeSound(d), MapsSound(d), NEW e, NEW n \in NodeIds(d), Kept(d, e, n)
  PROVE  /\ Content(e, n) = Content(d, n)
         /\ SequencesOf(e, n) = SequencesOf(d, n) /\ NextSequence(e, n) = NextSequence(d, n)
  <1>1. MapsOf(e, n) = MapsOf(d, n)
    BY DEF Kept
  <1>2. SequencesOf(e, n) = SequencesOf(d, n)
    BY <1>1 DEF SequencesOf
  <1>3. NextSequence(e, n) = NextSequence(d, n)
    BY <1>2 DEF NextSequence
  <1>4. Content(e, n) = Content(d, n)
    BY <1>1, SameFile DEF Kept
  <1> QED
    BY <1>2, <1>3, <1>4

LEMMA AllKept ==
  ASSUME NEW d, NEW e, NEW ids, ids \subseteq NodeIds(d), \A n \in ids : Kept(d, e, n)
  PROVE  MapsOfAll(e, ids) = MapsOfAll(d, ids) /\ BlocksOf(e, ids) = BlocksOf(d, ids)
  <1>1. \A n \in ids : MapsOf(e, n) = MapsOf(d, n)
    BY DEF Kept
  <1>2. MapsOfAll(e, ids) = MapsOfAll(d, ids)
    <2>1. ASSUME NEW m PROVE m \in MapsOfAll(e, ids) <=> m \in MapsOfAll(d, ids)
      BY <1>1 DEF MapsOfAll, MapsOf
    <2> QED
      BY <2>1 DEF MapsOfAll
  <1> QED
    BY <1>2 DEF BlocksOf

LEMMA AttachedKept ==
  ASSUME NEW d, d.blockSeq \in Nat, NEW e, e.blockSeq \in Nat, d.blockSeq <= e.blockSeq,
         NEW c, NEW n, NEW s \in Nat, NEW cs \in Seq(Seq(Bytes)), Attached(d, c, n, s, cs)
  PROVE  Attached(e, c, n, s, cs)
  <1>1. PICK first \in 0..d.blockSeq :
          /\ c.change.maps = {[file |-> n, block |-> first + i, seq |-> s + i - 1] : i \in 1..Len(cs)}
          /\ \A i \in 1..Len(cs) : /\ first + i \in DOMAIN c.change.blocks
                                   /\ c.change.blocks[first + i] = NewBlock(cs[i])
          /\ s + Len(cs) <= d.blockSeq
    BY DEF Attached
  <1>2. first \in 0..e.blockSeq /\ s + Len(cs) <= e.blockSeq
    BY <1>1
  <1> QED
    BY <1>1, <1>2 DEF Attached

-----------------------------------------------------------------------------
(* What a transaction knows stays true while the others respect it. *)

LEMMA RechunkKept ==
  ASSUME NEW d, TypeSound(d), MapsSound(d), NEW e, TypeSound(e), NEW t, NEW c,
         RechunkOk(d, c), RowsLet(d, e, t, c)
  PROVE  RechunkOk(e, c)
  <1> DEFINE n == c.node
  <1>1. /\ n \in NodeIds(d) /\ c.ids = {n} /\ c.locked = {n} /\ d.nodes[n] = c.row
        /\ c.row.type = "file" /\ c.bsize \in BlockSizes
    BY DEF RechunkOk
  <1>2. Kept(d, e, n) /\ d.blockSeq \in Nat /\ e.blockSeq \in Nat /\ d.blockSeq <= e.blockSeq
    BY <1>1 DEF RowsLet, TypeSound
  <1>3. n \in NodeIds(e) /\ e.nodes[n] = c.row
    BY <1>1, <1>2 DEF Kept
  <1>4. Content(e, n) = Content(d, n) /\ Content(d, n) \in Seq(Bytes)
    BY <1>1, <1>2, KeptParts, ContentType
  <1>5. MapsOfAll(e, c.ids) = MapsOfAll(d, c.ids) /\ BlocksOf(e, c.ids) = BlocksOf(d, c.ids)
    BY <1>1, <1>2, AllKept
  <1>6. ASSUME c.data = Content(d, n), Attached(d, c, n, 0, Chunks(c.data, c.bsize))
        PROVE  Attached(e, c, n, 0, Chunks(c.data, c.bsize))
    <2> DEFINE cs == Chunks(c.data, c.bsize)
    <2>1. cs \in Seq(Seq(Bytes))
      BY <1>1, <1>4, <1>6, ChunksType, TablesAssumption
    <2>2. Attached(d, c, n, 0, cs)
      BY <1>6
    <2> HIDE DEF cs, n
    <2>3. Attached(e, c, n, 0, cs)
      BY <1>2, <2>1, <2>2, AttachedKept
    <2> QED
      BY <2>3 DEF cs, n
  <1>7. Removed(d, c) => Removed(e, c)
    BY <1>5 DEF Removed
  <1>8. Released(d, c) => Released(e, c)
    BY <1>5 DEF Released
  <1> QED
    BY <1>3, <1>4, <1>5, <1>6, <1>7, <1>8 DEF RechunkOk

LEMMA WriterKept ==
  ASSUME NEW d, TypeSound(d), NEW e, TypeSound(e), NEW c, RowsLet(d, e, "writer", c),
         NEW w, WriterFields(d, w)
  PROVE  WriterFields(e, w)
  BY DEF RowsLet, LaysOut, WriterFields

LEMMA OverwriteKept ==
  ASSUME NEW d, TypeSound(d), MapsSound(d), NEW e, TypeSound(e), NEW c,
         OverwriteOk(d, c), RowsLet(d, e, "writer", c)
  PROVE  OverwriteOk(e, c)
  <1>1. CASE c.at = "claim"
    <2>1. \A n \in NodeIds(d) : n \in NodeIds(e) /\ e.nodes[n].type = d.nodes[n].type
      BY DEF RowsLet, LaysOut
    <2> QED
      BY <1>1, <2>1 DEF OverwriteOk, OverwriteAt
  <1>2. CASE c.at # "claim"
    <2> DEFINE n == c.w.node
    <2>1. /\ WriterFields(d, c.w) /\ n \in NodeIds(d) /\ c.ids = {n} /\ c.locked = {n}
          /\ c.w.ver = d.nodes[n].ver + 1
      BY <1>2 DEF OverwriteOk, OverwriteHeld, WriterFields
    <2>2. Kept(d, e, n) /\ d.blockSeq \in Nat /\ e.blockSeq \in Nat /\ d.blockSeq <= e.blockSeq
      BY <2>1 DEF RowsLet, TypeSound
    <2>3. e.nodes[n].ver = d.nodes[n].ver
      BY <2>2 DEF Kept
    <2>4. WriterFields(e, c.w)
      BY <2>1, WriterKept
    <2>5. MapsOfAll(e, c.ids) = MapsOfAll(d, c.ids) /\ BlocksOf(e, c.ids) = BlocksOf(d, c.ids)
      BY <2>1, <2>2, AllKept
    <2>6. ASSUME NEW data \in Payloads, Attached(d, c, n, 0, Chunks(data, c.w.bsize))
          PROVE  Attached(e, c, n, 0, Chunks(data, c.w.bsize))
      <3> DEFINE cs == Chunks(data, c.w.bsize)
      <3>1. cs \in Seq(Seq(Bytes))
        BY <2>1, ChunksType, TablesAssumption, MaintenanceAssumption DEF WriterFields
      <3>2. Attached(d, c, n, 0, cs)
        BY <2>6
      <3> HIDE DEF cs, n
      <3>3. Attached(e, c, n, 0, cs)
        BY <2>2, <3>1, <3>2, AttachedKept
      <3> QED
        BY <3>3 DEF cs, n
    <2>7. Removed(d, c) => Removed(e, c)
      BY <2>5 DEF Removed
    <2>8. Released(d, c) => Released(e, c)
      BY <2>5 DEF Released
    <2>9. c.at = "finish" => \E data \in Payloads :
            /\ c.w.hashed = data /\ c.w.size = Len(data)
            /\ Attached(e, c, n, 0, Chunks(data, c.w.bsize))
      <3>1. SUFFICES ASSUME c.at = "finish"
                     PROVE  \E data \in Payloads :
                              /\ c.w.hashed = data /\ c.w.size = Len(data)
                              /\ Attached(e, c, n, 0, Chunks(data, c.w.bsize))
        OBVIOUS
      <3>2. PICK data \in Payloads :
              /\ c.w.hashed = data /\ c.w.size = Len(data)
              /\ Attached(d, c, n, 0, Chunks(data, c.w.bsize))
        BY <1>2, <3>1 DEF OverwriteOk, OverwriteAt
      <3> QED
        BY <2>6, <3>2
    <2> QED
      BY <1>2, <2>3, <2>4, <2>5, <2>7, <2>8, <2>9 DEF OverwriteOk, OverwriteHeld, OverwriteAt
  <1> QED
    BY <1>1, <1>2

LEMMA AppendKept ==
  ASSUME NEW d, TypeSound(d), MapsSound(d), NEW e, TypeSound(e), NEW c,
         AppendOk(d, c), RowsLet(d, e, "writer", c)
  PROVE  AppendOk(e, c)
  <1> DEFINE n == c.w.node
  <1>1. WriterFields(d, c.w) /\ n \in NodeIds(d) /\ c.w.ver \in Nat /\ c.w.ver <= d.nodes[n].ver
    BY DEF AppendOk, WriterFields
  <1>2. WriterFields(e, c.w) /\ n \in NodeIds(e)
    BY <1>1, WriterKept, SMTT(60) DEF WriterFields
  <1>3. Kept(d, e, n) \/ e.nodes[n].ver > d.nodes[n].ver
    BY <1>1, <1>2 DEF RowsLet, LaysOut
  <1>4. d.nodes[n].ver \in Nat /\ e.nodes[n].ver \in Nat
    BY <1>1, <1>2 DEF TypeSound, NodeRowSound
  <1>5. c.w.ver <= e.nodes[n].ver
    BY <1>1, <1>3, <1>4 DEF Kept
  <1>6. ASSUME c.w.ver = e.nodes[n].ver
        PROVE  /\ c.at # "finish" => c.w.size = e.nodes[n].size
               /\ c.at \in {"hash", "write"} => c.w.seq = NextSequence(e, n)
               /\ c.at = "write" => c.w.hashed = Content(e, n)
               /\ c.at = "finish" => \E data \in Payloads :
                    /\ c.w.size = e.nodes[n].size + Len(data)
                    /\ c.w.hashed = Content(e, n) \o data
                    /\ Attached(e, c, n, NextSequence(e, n), Chunks(data, c.w.bsize))
    <2>1. Kept(d, e, n) /\ e.nodes[n] = d.nodes[n] /\ c.w.ver = d.nodes[n].ver
      BY <1>1, <1>3, <1>4, <1>6 DEF Kept
    <2>2. Content(e, n) = Content(d, n) /\ NextSequence(e, n) = NextSequence(d, n)
      BY <1>1, <2>1, KeptParts
    <2>3. NextSequence(d, n) \in Nat
      BY <1>1, NextSequenceSound
    <2>4. ASSUME NEW data \in Payloads,
                 Attached(d, c, n, NextSequence(d, n), Chunks(data, c.w.bsize))
          PROVE  Attached(e, c, n, NextSequence(e, n), Chunks(data, c.w.bsize))
      <3> DEFINE cs == Chunks(data, c.w.bsize)
                 s  == NextSequence(d, n)
      <3>1. cs \in Seq(Seq(Bytes))
        BY <1>1, ChunksType, TablesAssumption, MaintenanceAssumption DEF WriterFields
      <3>2. Attached(d, c, n, s, cs) /\ s \in Nat
        BY <2>3, <2>4
      <3>3. d.blockSeq \in Nat /\ e.blockSeq \in Nat /\ d.blockSeq <= e.blockSeq
        BY DEF RowsLet, TypeSound
      <3> HIDE DEF cs, n, s
      <3>4. Attached(e, c, n, s, cs)
        BY <3>1, <3>2, <3>3, AttachedKept
      <3> QED
        BY <2>2, <3>4 DEF cs, n, s
    <2>5. c.at = "finish" => \E data \in Payloads :
            /\ c.w.size = d.nodes[n].size + Len(data)
            /\ c.w.hashed = Content(d, n) \o data
            /\ Attached(d, c, n, NextSequence(d, n), Chunks(data, c.w.bsize))
      BY <2>1 DEF AppendOk
    <2>6. /\ c.at # "finish" => c.w.size = d.nodes[n].size
          /\ c.at \in {"hash", "write"} => c.w.seq = NextSequence(d, n)
          /\ c.at = "write" => c.w.hashed = Content(d, n)
      BY <2>1 DEF AppendOk
    <2> HIDE DEF n
    <2> QED
      BY <2>1, <2>2, <2>4, <2>5, <2>6
  <1> QED
    BY <1>2, <1>5, <1>6 DEF AppendOk

LEMMA RemoveKept ==
  ASSUME NEW d, TypeSound(d), NEW e, NEW c, RemoveOk(d, c), RowsLet(d, e, "writer", c)
  PROVE  RemoveOk(e, c)
  <1>1. c.ids \subseteq NodeIds(e) /\ c.ids \subseteq NodeIds(d)
    BY DEF RemoveOk, RowsLet
  <1>2. ASSUME c.op = "delete"
        PROVE  /\ MapsOfAll(e, c.ids) = MapsOfAll(d, c.ids)
               /\ BlocksOf(e, c.ids) = BlocksOf(d, c.ids)
    <2>1. \A n \in c.ids : Kept(d, e, n)
      BY <1>1, <1>2 DEF RemoveOk, RowsLet
    <2> QED
      BY <1>1, <2>1, AllKept
  <1> QED
    BY <1>1, <1>2 DEF RemoveOk, Removed, Released

LEMMA TxKept ==
  ASSUME NEW d, TypeSound(d), MapsSound(d), NEW e, TypeSound(e), NEW t, NEW c,
         TxOk(d, t, c), RowsLet(d, e, t, c)
  PROVE  TxOk(e, t, c)
  BY RechunkKept, OverwriteKept, AppendKept, RemoveKept DEF TxOk

LEMMA ChangeKept ==
  ASSUME NEW d, TypeSound(d), NEW e, TypeSound(e), NEW c, ChangeOk(d, c),
         d.blockSeq <= e.blockSeq, DOMAIN c.nodes \subseteq NodeIds(e), BlocksLet(d, e, c)
  PROVE  ChangeOk(e, c)
  <1>1. ChangeTyped(e, c)
    BY DEF ChangeOk, ChangeTyped, TypeSound
  <1>2. \A m \in c.maps : /\ m.block \in DOMAIN c.blocks /\ m.block \notin DOMAIN e.blocks
                          /\ ~c.blocks[m.block].free
    BY DEF ChangeOk, BlocksLet
  <1>3. ASSUME NEW b \in DOMAIN c.blocks, b \in DOMAIN e.blocks
        PROVE  /\ c.blocks[b].free /\ c.blocks[b].data = e.blocks[b].data
               /\ \A m \in e.maps : m.block = b => m \in c.unmaps
    BY <1>3 DEF ChangeOk, BlocksLet
  <1> QED
    BY <1>1, <1>2, <1>3 DEF ChangeOk

-----------------------------------------------------------------------------
(* Views and changes *)

(* The blocks and mappings of e are those of d changed by c. *)
ChangedBy(d, c, e) ==
  /\ e.maps = (d.maps \ c.unmaps) \cup c.maps
  /\ DOMAIN e.blocks = DOMAIN d.blocks \cup DOMAIN c.blocks
  /\ \A b \in DOMAIN c.blocks : e.blocks[b] = c.blocks[b]
  /\ \A b \in DOMAIN d.blocks \ DOMAIN c.blocks : e.blocks[b] = d.blocks[b]
  /\ e.blockSeq = d.blockSeq /\ e.nodeSeq = d.nodeSeq

LEMMA ApplyShape ==
  ASSUME NEW d, TypeSound(d), NEW c, ChangeTyped(d, c)
  PROVE  LET v == Apply(d, c)
         IN  /\ ChangedBy(d, c, v)
             /\ TypeSound(v)
             /\ NodeIds(v) = NodeIds(d)
             /\ \A n \in DOMAIN c.nodes : v.nodes[n] = c.nodes[n]
             /\ \A n \in NodeIds(d) \ DOMAIN c.nodes : v.nodes[n] = d.nodes[n]
  <1> DEFINE v == Apply(d, c)
  <1>1. /\ DOMAIN v = DOMAIN d
        /\ v.nodes = [n \in (DOMAIN d.nodes \cup DOMAIN c.nodes) \ c.gone |->
                        IF n \in DOMAIN c.nodes THEN c.nodes[n] ELSE d.nodes[n]]
        /\ v.blocks = Over(c.blocks, d.blocks)
        /\ v.maps = (d.maps \ c.unmaps) \cup c.maps
        /\ v.blockSeq = d.blockSeq /\ v.nodeSeq = d.nodeSeq
    BY DEF Apply, TypeSound
  <1> HIDE DEF v
  <1>3. ChangedBy(d, c, v)
    BY <1>1 DEF ChangedBy, Over
  <1>4. /\ NodeIds(v) = NodeIds(d)
        /\ \A n \in DOMAIN c.nodes : v.nodes[n] = c.nodes[n]
        /\ \A n \in NodeIds(d) \ DOMAIN c.nodes : v.nodes[n] = d.nodes[n]
    BY <1>1 DEF ChangeTyped, NodeIds
  <1>5. TypeSound(v)
    <2>1. \A n \in NodeIds(v) : NodeRowSound(v.nodes[n])
      BY <1>4 DEF TypeSound, ChangeTyped
    <2>2. DOMAIN v.blocks \subseteq 1..(v.blockSeq - 1) /\ \A b \in DOMAIN v.blocks : BlockRowSound(v.blocks[b])
      BY <1>3 DEF ChangedBy, TypeSound, ChangeTyped
    <2>3. v.maps \subseteq MapRow
      BY <1>1 DEF TypeSound, ChangeTyped
    <2> QED
      BY <1>1, <1>4, <2>1, <2>2, <2>3 DEF TypeSound
  <1> QED
    BY <1>3, <1>4, <1>5 DEF v

(* What the statement of a transaction that sees v of d makes of it, e: the
   blocks F may be freed, whose mappings are gone, and new ones may be made
   and mapped. *)
Evolves(d, v, e, F) ==
  /\ TypeSound(e) /\ NodeIds(e) = NodeIds(d) /\ d.blockSeq <= e.blockSeq
  /\ \A b \in DOMAIN v.blocks :
       /\ b \in DOMAIN e.blocks
       /\ \/ e.blocks[b] = v.blocks[b]
          \/ /\ b \in F /\ e.blocks[b].free
             /\ e.blocks[b].data = v.blocks[b].data
             /\ e.blocks[b].size = v.blocks[b].size /\ e.blocks[b].sum = v.blocks[b].sum
             /\ \A m \in e.maps : m.block # b
  /\ \A b \in DOMAIN e.blocks \ DOMAIN v.blocks :
       /\ b >= d.blockSeq
       /\ e.blocks[b].size = Len(e.blocks[b].data) /\ e.blocks[b].sum = Hash(e.blocks[b].data)
       /\ \E m \in e.maps : m.block = b
  /\ \A m \in e.maps \ v.maps :
       m.block \in DOMAIN e.blocks \ DOMAIN v.blocks /\ ~e.blocks[m.block].free
  /\ v.maps \ e.maps \subseteq d.maps

Ticked(d, e) == [d EXCEPT !.blockSeq = e.blockSeq]

LEMMA ChangeShape ==
  ASSUME NEW d, NEW e
  PROVE  LET c == Change(d, e)
         IN  /\ DOMAIN c = {"nodes", "gone", "blocks", "maps", "unmaps"}
             /\ DOMAIN c.nodes \subseteq DOMAIN e.nodes
             /\ \A n \in DOMAIN e.nodes : n \notin DOMAIN c.nodes => e.nodes[n] = d.nodes[n] /\ n \in DOMAIN d.nodes
             /\ \A n \in DOMAIN c.nodes : /\ c.nodes[n] = e.nodes[n]
                                          /\ n \in DOMAIN d.nodes => e.nodes[n] # d.nodes[n]
             /\ c.gone = NodeIds(d) \ NodeIds(e)
             /\ DOMAIN c.blocks \subseteq DOMAIN e.blocks
             /\ \A b \in DOMAIN e.blocks : b \notin DOMAIN c.blocks => e.blocks[b] = d.blocks[b] /\ b \in DOMAIN d.blocks
             /\ \A b \in DOMAIN c.blocks : /\ c.blocks[b] = e.blocks[b]
                                           /\ b \in DOMAIN d.blocks => e.blocks[b] # d.blocks[b]
             /\ c.maps = e.maps \ d.maps /\ c.unmaps = d.maps \ e.maps
  BY DEF Change, Differing

LEMMA TickedSame ==
  ASSUME NEW d, TypeSound(d), NEW e, e.blockSeq \in Nat, d.blockSeq <= e.blockSeq
  PROVE  LET k == Ticked(d, e)
         IN  /\ TypeSound(k) /\ DOMAIN k = DOMAIN d
             /\ NodeIds(k) = NodeIds(d) /\ k.nodes = d.nodes /\ k.blocks = d.blocks
             /\ k.maps = d.maps /\ k.nodeSeq = d.nodeSeq /\ k.blockSeq = e.blockSeq
             /\ \A n \in NodeIds(d) : Kept(d, k, n)
             /\ LaysOut(d, k)
             /\ \A t, c : RowsLet(d, k, t, c)
  <1> DEFINE k == Ticked(d, e)
  <1>1. /\ TypeSound(k) /\ DOMAIN k = DOMAIN d
        /\ NodeIds(k) = NodeIds(d) /\ k.nodes = d.nodes /\ k.blocks = d.blocks
        /\ k.maps = d.maps /\ k.nodeSeq = d.nodeSeq /\ k.blockSeq = e.blockSeq
    BY DEF Ticked, TypeSound, NodeIds
  <1> HIDE DEF k
  <1>3. \A n \in NodeIds(d) : Kept(d, k, n)
    BY <1>1 DEF Kept, MapsOf
  <1>4. LaysOut(d, k)
    BY <1>1, <1>3 DEF LaysOut
  <1>5. \A t, c : RowsLet(d, k, t, c)
    BY <1>1, <1>3, <1>4 DEF RowsLet, TypeSound
  <1> QED
    BY <1>1, <1>3, <1>4, <1>5 DEF k

LEMMA TickedSound ==
  ASSUME NEW d, TypeSound(d), MapsSound(d), RowsMatchContent(d),
         NEW e, e.blockSeq \in Nat, d.blockSeq <= e.blockSeq
  PROVE  MapsSound(Ticked(d, e)) /\ RowsMatchContent(Ticked(d, e))
  <1> DEFINE k == Ticked(d, e)
  <1>1. /\ NodeIds(k) = NodeIds(d) /\ k.nodes = d.nodes /\ k.blocks = d.blocks
        /\ k.maps = d.maps /\ k.blockSeq = e.blockSeq
        /\ \A n \in NodeIds(d) : Kept(d, k, n)
    BY TickedSame
  <1> HIDE DEF k
  <1>2. \A n \in NodeIds(d) : Content(k, n) = Content(d, n) /\ SequencesOf(k, n) = SequencesOf(d, n)
    BY <1>1, KeptParts
  <1>3. RowsMatchContent(k)
    BY <1>1, <1>2 DEF RowsMatchContent
  <1>4. \A n \in 0..d.blockSeq : n \in 0..k.blockSeq
    BY <1>1 DEF TypeSound
  <1>5. MapsSound(k)
    BY <1>1, <1>2, <1>4 DEF MapsSound
  <1> QED
    BY <1>3, <1>5 DEF k

LEMMA EvolveOk ==
  ASSUME NEW d, TypeSound(d), MapsSound(d), BlocksMatch(d), NEW c, ChangeOk(d, c),
         NEW e, NEW F, Evolves(d, Apply(d, c), e, F)
  PROVE  /\ ChangeOk(Ticked(d, e), Change(d, e))
         /\ \A b \in DOMAIN Change(d, e).blocks : b \in DOMAIN c.blocks \/ b >= d.blockSeq \/ (b \in F /\ b \in DOMAIN d.blocks)
  <1> DEFINE v == Apply(d, c)
             h == Change(d, e)
             k == Ticked(d, e)
  <1>1. ChangedBy(d, c, v) /\ TypeSound(v) /\ NodeIds(v) = NodeIds(d)
    BY ApplyShape DEF ChangeOk
  <1>2. /\ DOMAIN h = {"nodes", "gone", "blocks", "maps", "unmaps"}
        /\ DOMAIN h.nodes \subseteq DOMAIN e.nodes
        /\ \A n \in DOMAIN h.nodes : h.nodes[n] = e.nodes[n]
        /\ h.gone = NodeIds(d) \ NodeIds(e)
        /\ DOMAIN h.blocks \subseteq DOMAIN e.blocks
        /\ \A b \in DOMAIN e.blocks : b \notin DOMAIN h.blocks => e.blocks[b] = d.blocks[b] /\ b \in DOMAIN d.blocks
        /\ \A b \in DOMAIN h.blocks : /\ h.blocks[b] = e.blocks[b]
                                      /\ b \in DOMAIN d.blocks => e.blocks[b] # d.blocks[b]
        /\ h.maps = e.maps \ d.maps /\ h.unmaps = d.maps \ e.maps
    BY ChangeShape
  <1>3. /\ TypeSound(e) /\ NodeIds(e) = NodeIds(d) /\ e.blockSeq \in Nat /\ d.blockSeq <= e.blockSeq
    BY DEF Evolves, TypeSound
  <1>4. /\ TypeSound(k)
        /\ NodeIds(k) = NodeIds(d) /\ k.blocks = d.blocks
        /\ k.maps = d.maps /\ k.blockSeq = e.blockSeq
    BY <1>3, TickedSame
  <1> HIDE DEF k, h
  <1>5. ChangeTyped(k, h)
    BY <1>2, <1>3, <1>4 DEF ChangeTyped, TypeSound, NodeIds
  <1>a. Evolves(d, v, e, F)
    OBVIOUS
  <1> HIDE DEF v
  <1>b. DOMAIN d.blocks \subseteq DOMAIN v.blocks /\ \A b \in DOMAIN d.blocks : ~(b >= d.blockSeq)
    BY <1>1 DEF ChangedBy, TypeSound
  <1>6. ASSUME NEW m \in h.maps
        PROVE  m.block \in DOMAIN h.blocks /\ m.block \notin DOMAIN d.blocks /\ ~h.blocks[m.block].free
    <2>1. m \in e.maps /\ m \notin d.maps
      BY <1>2
    <2>2. CASE m \in v.maps
      <3>1. m \in c.maps
        BY <1>1, <2>1, <2>2 DEF ChangedBy
      <3>2. m.block \in DOMAIN c.blocks /\ m.block \notin DOMAIN d.blocks /\ ~c.blocks[m.block].free
        BY <3>1 DEF ChangeOk
      <3>3. m.block \in DOMAIN v.blocks /\ v.blocks[m.block] = c.blocks[m.block]
        BY <1>1, <3>2 DEF ChangedBy
      <3>4. e.blocks[m.block] = v.blocks[m.block] /\ m.block \in DOMAIN e.blocks
        BY <1>a, <2>1, <3>3 DEF Evolves
      <3> QED
        BY <1>2, <3>2, <3>3, <3>4
    <2>3. CASE m \notin v.maps
      <3>1. m.block \in DOMAIN e.blocks \ DOMAIN v.blocks /\ ~e.blocks[m.block].free
        BY <1>a, <2>1, <2>3 DEF Evolves
      <3>2. m.block \notin DOMAIN d.blocks
        BY <1>b, <3>1
      <3> QED
        BY <1>2, <3>1, <3>2
    <2> QED
      BY <2>2, <2>3
  <1>7. ASSUME NEW b \in DOMAIN h.blocks
        PROVE  /\ h.blocks[b].size = Len(h.blocks[b].data) /\ h.blocks[b].sum = Hash(h.blocks[b].data)
               /\ h.blocks[b].free \/ \E m \in h.maps : m.block = b
               /\ b \in DOMAIN d.blocks =>
                    /\ h.blocks[b].free /\ h.blocks[b].data = d.blocks[b].data
                    /\ \A m \in d.maps : m.block = b => m \in h.unmaps
               /\ b \in DOMAIN c.blocks \/ b >= d.blockSeq \/ (b \in F /\ b \in DOMAIN d.blocks)
    <2>1. b \in DOMAIN e.blocks /\ h.blocks[b] = e.blocks[b] /\ (b \in DOMAIN d.blocks => e.blocks[b] # d.blocks[b])
      BY <1>2
    <2>2. CASE b \notin DOMAIN v.blocks
      <3>1. /\ b >= d.blockSeq
            /\ e.blocks[b].size = Len(e.blocks[b].data) /\ e.blocks[b].sum = Hash(e.blocks[b].data)
            /\ \E m \in e.maps : m.block = b
        BY <1>a, <2>1, <2>2 DEF Evolves
      <3>2. \A m \in d.maps : m.block # b
        BY <1>b, <2>2 DEF MapsSound
      <3> QED
        BY <1>2, <1>b, <2>1, <2>2, <3>1, <3>2
    <2>3. CASE b \in DOMAIN c.blocks /\ e.blocks[b] = v.blocks[b]
      <3>1. e.blocks[b] = c.blocks[b]
        BY <1>1, <2>3 DEF ChangedBy
      <3>2. /\ c.blocks[b].size = Len(c.blocks[b].data) /\ c.blocks[b].sum = Hash(c.blocks[b].data)
            /\ c.blocks[b].free \/ \E m \in c.maps : m.block = b
            /\ b \in DOMAIN d.blocks =>
                 /\ c.blocks[b].free /\ c.blocks[b].data = d.blocks[b].data
                 /\ \A m \in d.maps : m.block = b => m \in c.unmaps
        BY <2>3 DEF ChangeOk
      <3>3. ASSUME NEW m \in c.maps, m.block = b PROVE m \in h.maps
        <4>1. b \notin DOMAIN d.blocks
          BY <3>3 DEF ChangeOk
        <4>2. m \notin d.maps
          BY <3>3, <4>1 DEF MapsSound
        <4>3. m \in v.maps
          BY <1>1 DEF ChangedBy
        <4>4. m \in e.maps
          BY <1>a, <4>2, <4>3 DEF Evolves
        <4> QED
          BY <1>2, <4>2, <4>4
      <3>4. ASSUME NEW m \in d.maps, b \in DOMAIN d.blocks, m.block = b PROVE m \in h.unmaps
        <4>1. m \in c.unmaps
          BY <3>2, <3>4
        <4>2. m \notin c.maps
          BY <3>4 DEF ChangeOk
        <4>3. m \notin v.maps
          BY <1>1, <4>1, <4>2 DEF ChangedBy
        <4>4. m \notin e.maps
          BY <1>a, <1>b, <3>4, <4>3 DEF Evolves
        <4> QED
          BY <1>2, <4>4
      <3> QED
        BY <2>1, <2>3, <3>1, <3>2, <3>3, <3>4
    <2>4. CASE b \in DOMAIN v.blocks /\ e.blocks[b] # v.blocks[b]
      <3>1. /\ b \in F /\ e.blocks[b].free
            /\ e.blocks[b].data = v.blocks[b].data
            /\ e.blocks[b].size = v.blocks[b].size /\ e.blocks[b].sum = v.blocks[b].sum
            /\ \A m \in e.maps : m.block # b
        BY <1>a, <2>4 DEF Evolves
      <3>2. /\ v.blocks[b].size = Len(v.blocks[b].data) /\ v.blocks[b].sum = Hash(v.blocks[b].data)
            /\ b \in DOMAIN d.blocks => v.blocks[b].data = d.blocks[b].data
            /\ b \in DOMAIN c.blocks \/ b \in DOMAIN d.blocks
        PROOF
        <4>1. CASE b \in DOMAIN c.blocks
          BY <1>1, <4>1 DEF ChangedBy, ChangeOk
        <4>2. CASE b \notin DOMAIN c.blocks
          <5>1. b \in DOMAIN d.blocks /\ v.blocks[b] = d.blocks[b]
            BY <1>1, <2>4, <4>2 DEF ChangedBy
          <5>2. d.blocks[b].size = Len(d.blocks[b].data) /\ d.blocks[b].sum = Hash(d.blocks[b].data)
            BY <5>1 DEF BlocksMatch
          <5> QED
            BY <5>1, <5>2
        <4> QED
          BY <4>1, <4>2
      <3>3. ASSUME NEW m \in d.maps, m.block = b PROVE m \in h.unmaps
        BY <1>2, <3>1, <3>3
      <3> QED
        BY <2>1, <3>1, <3>2, <3>3
    <2>5. CASE b \in DOMAIN v.blocks /\ e.blocks[b] = v.blocks[b] /\ b \notin DOMAIN c.blocks
      BY <1>1, <2>1, <2>5 DEF ChangedBy
    <2> QED
      BY <2>2, <2>3, <2>4, <2>5
  <1>8. ChangeOk(k, h)
    BY <1>4, <1>5, <1>6, <1>7 DEF ChangeOk
  <1> QED
    BY <1>7, <1>8 DEF h, k

-----------------------------------------------------------------------------
(* A step keeps the invariant, lays out no file under its old version, and
   leaves no used block without an owner unless it is a move over a directory
   that replaces rows. *)
StepOk ==
  /\ MaintenanceInv'
  /\ LaysOut(disk, disk')
  /\ BlocksOwned(disk) /\ ~(Writer.at = "drop" /\ Writer.op = "move") => BlocksOwned(disk')

LEMMA IdleOk ==
  ASSUME NEW d, NEW t
  PROVE  /\ TxOk(d, t, Idle) /\ ChangeOk(d, NoChange)
         /\ Idle.change = NoChange /\ DOMAIN NoChange.blocks = {}
         /\ Idle.locked = {} /\ Idle.shared = {} /\ Idle.at = "idle"
  <1>1. /\ Idle.change = NoChange /\ DOMAIN NoChange.blocks = {}
        /\ Idle.locked = {} /\ Idle.shared = {} /\ Idle.at = "idle"
    BY DEF Idle, NoChange, NoRows
  <1>2. ChangeTyped(d, NoChange)
    BY DEF ChangeTyped, NoChange, NoRows
  <1>3. ChangeOk(d, NoChange)
    BY <1>2 DEF ChangeOk, NoChange, NoRows
  <1> QED
    BY <1>1, <1>3 DEF TxOk

LEMMA RowsBlocksMatch ==
  ASSUME NEW d, RowsMatchContent(d)
  PROVE  BlocksMatch(d)
  BY DEF RowsMatchContent, BlocksMatch

(* A statement in the middle of a transaction *)
LEMMA ContinueInv ==
  ASSUME MaintenanceInv, NEW t \in Transactions, NEW c, NEW e, NEW F,
         Continue(t, c, e), Evolves(disk, View(t), e, F),
         \A b \in F : b \in DOMAIN disk.blocks => BlockFree(t, b),
         {"at", "change", "locked", "shared"} \subseteq DOMAIN c,
         \A u \in Others(t) : /\ c.locked \cap (u.locked \cup u.shared) = {}
                              /\ u.locked \cap (c.locked \cup c.shared) = {},
         TxOk(Ticked(disk, e), t, [c EXCEPT !.change = Change(disk, e)])
  PROVE  StepOk
  <1> DEFINE k == Ticked(disk, e)
             h == Change(disk, e)
             c1 == [c EXCEPT !.change = h]
  <1>1. /\ TypeSound(disk) /\ MapsSound(disk) /\ RowsMatchContent(disk)
        /\ DOMAIN tx = Transactions /\ DOMAIN gc = Collectors
        /\ \A u \in Transactions : TxOk(disk, u, tx[u]) /\ ChangeOk(disk, tx[u].change)
        /\ \A u, w \in Transactions : u # w => Apart(tx[u], tx[w])
        /\ \A g \in Collectors : ListOk(disk, gc[g])
        /\ \A g \in Collectors, u \in Transactions : \A b \in gc[g].ids :
             b \notin DOMAIN disk.blocks => b \notin DOMAIN tx[u].change.blocks
    BY DEF MaintenanceInv
  <1>2. disk' = k /\ tx' = [tx EXCEPT ![t] = c1] /\ gc' = gc
    BY DEF Continue, Ticked
  <1>3. e.blockSeq \in Nat /\ disk.blockSeq <= e.blockSeq
    BY DEF Evolves, TypeSound
  <1>4. TypeSound(k) /\ MapsSound(k) /\ RowsMatchContent(k)
    BY <1>1, <1>3, TickedSame, TickedSound
  <1>5. /\ NodeIds(k) = NodeIds(disk) /\ k.blocks = disk.blocks
        /\ k.maps = disk.maps /\ k.blockSeq = e.blockSeq
        /\ LaysOut(disk, k)
    BY <1>1, <1>3, TickedSame
  <1>r. ASSUME NEW u PROVE RowsLet(disk, k, u, tx[u])
    BY <1>1, <1>3, TickedSame
  <1>6. /\ ChangeOk(k, h)
        /\ \A b \in DOMAIN h.blocks : b \in DOMAIN tx[t].change.blocks \/ b >= disk.blockSeq
                                      \/ (b \in F /\ b \in DOMAIN disk.blocks)
    BY <1>1, RowsBlocksMatch, EvolveOk DEF View
  <1>7. TxOk(k, t, c1) /\ c1.change = h /\ c1.locked = c.locked /\ c1.shared = c.shared
    OBVIOUS
  <1> HIDE DEF k, h, c1
  <1>8. tx'[t] = c1 /\ \A u \in Transactions : u # t => tx'[u] = tx[u]
    BY <1>1, <1>2
  <1>9. ASSUME NEW u \in Transactions PROVE TxOk(k, u, tx'[u])
    <2>1. CASE u = t
      BY <1>7, <1>8, <2>1
    <2>2. CASE u # t
      <3>1. TxOk(disk, u, tx[u]) /\ RowsLet(disk, k, u, tx[u])
        BY <1>1, <1>r
      <3>2. TxOk(k, u, tx[u])
        BY <1>1, <1>4, <3>1, TxKept
      <3> QED
        BY <1>8, <2>2, <3>2
    <2> QED
      BY <2>1, <2>2
  <1>10. ASSUME NEW u \in Transactions PROVE ChangeOk(k, tx'[u].change)
    <2>1. CASE u = t
      BY <1>6, <1>7, <1>8, <2>1
    <2>2. CASE u # t
      <3>1. ChangeOk(disk, tx[u].change)
        BY <1>1
      <3>2. DOMAIN tx[u].change.nodes \subseteq NodeIds(k)
        BY <1>5, <3>1 DEF ChangeOk, ChangeTyped
      <3>3. BlocksLet(disk, k, tx[u].change)
        BY <1>5 DEF BlocksLet
      <3>4. ChangeOk(k, tx[u].change)
        BY <1>1, <1>3, <1>4, <1>5, <3>1, <3>2, <3>3, ChangeKept
      <3> QED
        BY <1>8, <2>2, <3>4
    <2> QED
      BY <2>1, <2>2
  <1>11. ASSUME NEW u \in Transactions, u # t
         PROVE  Apart(c1, tx[u]) /\ Apart(tx[u], c1)
    <2>1. tx[u] \in Others(t)
      BY <1>11 DEF Others
    <2>2. /\ c.locked \cap (tx[u].locked \cup tx[u].shared) = {}
          /\ tx[u].locked \cap (c.locked \cup c.shared) = {}
      BY <2>1
    <2>3. ASSUME NEW b \in DOMAIN h.blocks PROVE b \notin DOMAIN tx[u].change.blocks
      <3>1. CASE b \in DOMAIN tx[t].change.blocks
        BY <1>1, <1>11, <3>1 DEF Apart
      <3>2. CASE b >= disk.blockSeq
        BY <1>1, <3>2 DEF ChangeOk, ChangeTyped, TypeSound
      <3>3. CASE b \in F /\ b \in DOMAIN disk.blocks
        BY <2>1, <3>3 DEF BlockFree
      <3> QED
        BY <1>6, <3>1, <3>2, <3>3
    <2> QED
      BY <1>7, <2>2, <2>3 DEF Apart
  <1>12. \A u, w \in Transactions : u # w => Apart(tx'[u], tx'[w])
    BY <1>1, <1>8, <1>11
  <1>13. \A g \in Collectors : ListOk(k, gc'[g])
    BY <1>1, <1>2, <1>3, <1>5 DEF ListOk, TypeSound
  <1>14. ASSUME NEW g \in Collectors, NEW u \in Transactions, NEW b \in gc'[g].ids,
                b \notin DOMAIN k.blocks
         PROVE  b \notin DOMAIN tx'[u].change.blocks
    <2>1. b \in gc[g].ids /\ b \notin DOMAIN disk.blocks /\ b \in 1..(disk.blockSeq - 1)
      BY <1>1, <1>2, <1>5, <1>14 DEF ListOk
    <2>2. CASE u # t
      BY <1>1, <1>8, <2>1, <2>2
    <2>3. CASE u = t
      <3>1. b \notin DOMAIN tx[t].change.blocks /\ ~(b >= disk.blockSeq)
        BY <1>1, <2>1 DEF TypeSound
      <3> QED
        BY <1>6, <1>7, <1>8, <2>1, <2>3, <3>1
    <2> QED
      BY <2>2, <2>3
  <1>15. DOMAIN tx' = Transactions /\ DOMAIN gc' = Collectors
    BY <1>1, <1>2
  <1>16. MaintenanceInv'
    BY <1>2, <1>4, <1>9, <1>10, <1>12, <1>13, <1>14, <1>15 DEF MaintenanceInv
  <1>17. BlocksOwned(disk) => BlocksOwned(k)
    BY <1>5 DEF BlocksOwned
  <1> QED
    BY <1>2, <1>5, <1>16, <1>17 DEF StepOk

(* What the commit of a transaction with the changes c leaves, e. *)
Publishes(d, c, e) ==
  /\ TypeSound(e) /\ MapsSound(e) /\ RowsMatchContent(e)
  /\ d.blockSeq <= e.blockSeq
  /\ \A b \in DOMAIN d.blocks :
       b \in DOMAIN e.blocks /\ e.blocks[b] = IF b \in DOMAIN c.blocks THEN c.blocks[b] ELSE d.blocks[b]
  /\ \A b \in DOMAIN e.blocks \ DOMAIN d.blocks : b \in DOMAIN c.blocks \/ b >= d.blockSeq
  /\ \A m \in e.maps \ d.maps : m.block \in DOMAIN e.blocks \ DOMAIN d.blocks
  /\ LaysOut(d, e)

LEMMA CommitInv ==
  ASSUME MaintenanceInv, NEW t \in Transactions, NEW e, Commit(t, e),
         Publishes(disk, tx[t].change, e),
         t # "writer" => NodeIds(disk) \subseteq NodeIds(e),
         \A n \in NodeIds(disk) : Kept(disk, e, n) \/ NodeFree(t, n),
         BlocksOwned(disk) /\ ~(Writer.at = "drop" /\ Writer.op = "move") => BlocksOwned(e)
  PROVE  StepOk
  <1> DEFINE c == tx[t].change
  <1>1. /\ TypeSound(disk) /\ MapsSound(disk) /\ RowsMatchContent(disk)
        /\ DOMAIN tx = Transactions /\ DOMAIN gc = Collectors
        /\ \A u \in Transactions : TxOk(disk, u, tx[u]) /\ ChangeOk(disk, tx[u].change)
        /\ \A u, w \in Transactions : u # w => Apart(tx[u], tx[w])
        /\ \A g \in Collectors : ListOk(disk, gc[g])
        /\ \A g \in Collectors, u \in Transactions : \A b \in gc[g].ids :
             b \notin DOMAIN disk.blocks => b \notin DOMAIN tx[u].change.blocks
    BY DEF MaintenanceInv
  <1>2. disk' = e /\ tx' = [tx EXCEPT ![t] = Idle] /\ gc' = gc
    BY DEF Commit
  <1>3. /\ TypeSound(e) /\ MapsSound(e) /\ RowsMatchContent(e)
        /\ e.blockSeq \in Nat /\ disk.blockSeq \in Nat /\ disk.blockSeq <= e.blockSeq
        /\ LaysOut(disk, e)
    BY <1>1 DEF Publishes, TypeSound
  <1>4. /\ \A b \in DOMAIN disk.blocks :
             b \in DOMAIN e.blocks /\ e.blocks[b] = IF b \in DOMAIN c.blocks THEN c.blocks[b] ELSE disk.blocks[b]
        /\ \A b \in DOMAIN e.blocks \ DOMAIN disk.blocks : b \in DOMAIN c.blocks \/ b >= disk.blockSeq
        /\ \A m \in e.maps \ disk.maps : m.block \in DOMAIN e.blocks \ DOMAIN disk.blocks
    BY DEF Publishes
  <1> HIDE DEF c
  <1>5. tx'[t] = Idle /\ \A u \in Transactions : u # t => tx'[u] = tx[u]
    BY <1>1, <1>2
  <1>6. ASSUME NEW u \in Transactions, u # t
        PROVE  TxOk(e, u, tx[u]) /\ ChangeOk(e, tx[u].change)
    <2>1. u = "writer" => NodeIds(disk) \subseteq NodeIds(e)
      BY <1>6
    <2>2. \A n \in NodeIds(disk) : n \in tx[u].locked \cup tx[u].shared => Kept(disk, e, n)
      <3>1. tx[u] \in Others(t)
        BY <1>6 DEF Others
      <3> QED
        BY <3>1 DEF NodeFree
    <2>3. RowsLet(disk, e, u, tx[u])
      BY <1>3, <2>1, <2>2 DEF RowsLet
    <2>4. TxOk(disk, u, tx[u]) /\ ChangeOk(disk, tx[u].change)
      BY <1>1
    <2>5. TxOk(e, u, tx[u])
      BY <1>1, <1>3, <2>3, <2>4, TxKept
    <2>6. ASSUME NEW b \in DOMAIN tx[u].change.blocks
          PROVE  b \notin DOMAIN c.blocks /\ ~(b >= disk.blockSeq)
      <3>1. b \notin DOMAIN c.blocks
        BY <1>1, <1>6 DEF Apart, c
      <3>2. b \in 1..(disk.blockSeq - 1)
        BY <2>4 DEF ChangeOk, ChangeTyped
      <3> QED
        BY <1>3, <3>1, <3>2
    <2>7. BlocksLet(disk, e, tx[u].change)
      BY <1>4, <2>6 DEF BlocksLet
    <2>8. DOMAIN tx[u].change.nodes \subseteq NodeIds(e)
      <3>1. CASE u = "writer"
        BY <2>1, <2>4, <3>1 DEF ChangeOk, ChangeTyped
      <3>2. CASE u # "writer"
        <4>1. DOMAIN tx[u].change.nodes = {}
          BY <2>4, <3>2 DEF TxOk, RechunkOk, Idle, NoChange, NoRows
        <4> QED
          BY <4>1
      <3> QED
        BY <3>1, <3>2
    <2>9. ChangeOk(e, tx[u].change)
      BY <1>1, <1>3, <2>4, <2>7, <2>8, ChangeKept
    <2> QED
      BY <2>5, <2>9
  <1>7. \A u \in Transactions : TxOk(e, u, tx'[u]) /\ ChangeOk(e, tx'[u].change)
    BY <1>5, <1>6, IdleOk
  <1>8. \A u \in Transactions : Apart(Idle, tx[u]) /\ Apart(tx[u], Idle)
    BY IdleOk DEF Apart
  <1>9. \A u, w \in Transactions : u # w => Apart(tx'[u], tx'[w])
    BY <1>1, <1>5, <1>8
  <1>10. ASSUME NEW g \in Collectors, NEW b \in gc[g].ids
         PROVE  /\ b \in 1..(e.blockSeq - 1)
                /\ b \in DOMAIN e.blocks => e.blocks[b].free
                /\ b \notin DOMAIN e.blocks => b \notin DOMAIN disk.blocks
    <2>1. b \in 1..(disk.blockSeq - 1) /\ (b \in DOMAIN disk.blocks => disk.blocks[b].free)
      BY <1>1 DEF ListOk
    <2>2. ~(b >= disk.blockSeq) /\ b \in 1..(e.blockSeq - 1)
      BY <1>3, <2>1
    <2>3. ASSUME b \in DOMAIN e.blocks PROVE e.blocks[b].free
      <3>1. CASE b \in DOMAIN disk.blocks
        <4>1. b \in DOMAIN c.blocks => c.blocks[b].free
          BY <1>1, <3>1 DEF ChangeOk, c
        <4> QED
          BY <1>4, <2>1, <3>1, <4>1
      <3>2. CASE b \notin DOMAIN disk.blocks
        BY <1>1, <1>4, <2>2, <2>3, <3>2 DEF c
      <3> QED
        BY <3>1, <3>2
    <2> QED
      BY <1>4, <2>2, <2>3
  <1>11. \A g \in Collectors : ListOk(e, gc'[g])
    BY <1>1, <1>2, <1>10 DEF ListOk
  <1>12. \A g \in Collectors, u \in Transactions : \A b \in gc'[g].ids :
           b \notin DOMAIN e.blocks => b \notin DOMAIN tx'[u].change.blocks
    BY <1>1, <1>2, <1>5, <1>10, IdleOk
  <1>13. DOMAIN tx' = Transactions /\ DOMAIN gc' = Collectors
    BY <1>1, <1>2
  <1>14. MaintenanceInv'
    BY <1>2, <1>3, <1>7, <1>9, <1>11, <1>12, <1>13 DEF MaintenanceInv
  <1> QED
    BY <1>2, <1>3, <1>14 DEF StepOk

LEMMA RollbackInv ==
  ASSUME MaintenanceInv, NEW t \in Transactions, Rollback(t)
  PROVE  StepOk
  <1>1. disk' = disk /\ gc' = gc /\ tx' = [tx EXCEPT ![t] = Idle]
    BY DEF Rollback
  <1>2. tx'[t] = Idle /\ (\A u \in Transactions : u # t => tx'[u] = tx[u]) /\ DOMAIN tx' = Transactions
    BY <1>1 DEF MaintenanceInv
  <1>3. \A u \in Transactions : Apart(Idle, tx[u]) /\ Apart(tx[u], Idle)
    BY IdleOk DEF Apart
  <1>4. \A u, w \in Transactions : u # w => Apart(tx'[u], tx'[w])
    BY <1>2, <1>3 DEF MaintenanceInv
  <1>5. \A u \in Transactions : TxOk(disk, u, tx'[u]) /\ ChangeOk(disk, tx'[u].change)
    BY <1>2, IdleOk DEF MaintenanceInv
  <1>6. \A g \in Collectors, u \in Transactions : \A b \in gc'[g].ids :
           b \notin DOMAIN disk.blocks => b \notin DOMAIN tx'[u].change.blocks
    BY <1>1, <1>2, IdleOk DEF MaintenanceInv
  <1>7. MaintenanceInv'
    BY <1>1, <1>2, <1>4, <1>5, <1>6 DEF MaintenanceInv
  <1>8. LaysOut(disk, disk)
    BY DEF LaysOut, Kept
  <1> QED
    BY <1>1, <1>7, <1>8 DEF StepOk

-----------------------------------------------------------------------------
(* Collectors *)

(* A collector that changes only what it has listed, of free blocks. *)
LEMMA CollectInv ==
  ASSUME MaintenanceInv, NEW g \in Collectors, NEW q, gc' = [gc EXCEPT ![g] = q],
         UNCHANGED <<disk, tx>>, DOMAIN q = {"at", "excess", "ids"},
         q.ids \subseteq FreeBlocks(disk)
  PROVE  StepOk
  <1>1. disk' = disk /\ tx' = tx /\ TypeSound(disk)
    BY DEF MaintenanceInv
  <1>2. gc'[g] = q /\ (\A h \in Collectors : h # g => gc'[h] = gc[h]) /\ DOMAIN gc' = Collectors
    BY DEF MaintenanceInv
  <1>3. ListOk(disk, q) /\ \A b \in q.ids : b \in DOMAIN disk.blocks
    BY <1>1 DEF ListOk, FreeBlocks, TypeSound
  <1>4. \A h \in Collectors : ListOk(disk, gc'[h])
    BY <1>2, <1>3 DEF MaintenanceInv
  <1>5. \A h \in Collectors, u \in Transactions : \A b \in gc'[h].ids :
           b \notin DOMAIN disk.blocks => b \notin DOMAIN tx[u].change.blocks
    BY <1>2, <1>3 DEF MaintenanceInv
  <1>6. MaintenanceInv'
    BY <1>1, <1>2, <1>4, <1>5 DEF MaintenanceInv
  <1>7. LaysOut(disk, disk)
    BY DEF LaysOut, Kept
  <1> QED
    BY <1>1, <1>6, <1>7 DEF StepOk

LEMMA CollectorIdleInv ==
  ASSUME MaintenanceInv, NEW g \in Collectors,
         CountFree(g) \/ ListGarbage(g) \/ StopCollecting(g)
  PROVE  StepOk
  <1>1. CASE CountFree(g)
    <2> DEFINE q == [at |-> "list", excess |-> Cardinality(FreeBlocks(disk)) - Keep, ids |-> {}]
    <2>1. /\ gc' = [gc EXCEPT ![g] = q] /\ UNCHANGED <<disk, tx>>
          /\ DOMAIN q = {"at", "excess", "ids"} /\ q.ids \subseteq FreeBlocks(disk)
      BY <1>1 DEF CountFree
    <2> HIDE DEF q
    <2> QED
      BY <2>1, CollectInv
  <1>2. CASE ListGarbage(g)
    <2> DEFINE q == [gc[g] EXCEPT !.at = "delete", !.ids = Garbage(disk, gc[g].excess)]
    <2>1. gc' = [gc EXCEPT ![g] = q] /\ UNCHANGED <<disk, tx>>
      BY <1>2 DEF ListGarbage, MaintenanceInv
    <2>2. DOMAIN q = {"at", "excess", "ids"} /\ q.ids = Garbage(disk, gc[g].excess)
      BY DEF MaintenanceInv, ListOk
    <2>3. q.ids \subseteq FreeBlocks(disk)
      BY <2>2 DEF Garbage
    <2> HIDE DEF q
    <2> QED
      BY <2>1, <2>2, <2>3, CollectInv
  <1>3. CASE StopCollecting(g)
    <2>1. /\ gc' = [gc EXCEPT ![g] = Resting] /\ UNCHANGED <<disk, tx>>
          /\ DOMAIN Resting = {"at", "excess", "ids"} /\ Resting.ids \subseteq FreeBlocks(disk)
      BY <1>3 DEF StopCollecting, Resting
    <2> QED
      BY <2>1, CollectInv
  <1> QED
    BY <1>1, <1>2, <1>3

LEMMA DeleteGarbageInv ==
  ASSUME MaintenanceInv, NEW g \in Collectors, DeleteGarbage(g)
  PROVE  StepOk
  <1> DEFINE ids == gc[g].ids
             e == [disk EXCEPT !.blocks = [b \in DOMAIN @ \ ids |-> @[b]]]
  <1>1. /\ TypeSound(disk) /\ MapsSound(disk) /\ RowsMatchContent(disk)
        /\ DOMAIN tx = Transactions /\ DOMAIN gc = Collectors
        /\ \A u \in Transactions : TxOk(disk, u, tx[u]) /\ ChangeOk(disk, tx[u].change)
        /\ \A u, w \in Transactions : u # w => Apart(tx[u], tx[w])
        /\ \A h \in Collectors : ListOk(disk, gc[h])
        /\ \A h \in Collectors, u \in Transactions : \A b \in gc[h].ids :
             b \notin DOMAIN disk.blocks => b \notin DOMAIN tx[u].change.blocks
    BY DEF MaintenanceInv
  <1>2. /\ disk' = e /\ gc' = [gc EXCEPT ![g] = Resting] /\ tx' = tx
        /\ \A b \in ids, u \in Transactions : b \notin DOMAIN tx[u].change.blocks
    BY DEF DeleteGarbage
  <1>3. /\ DOMAIN e = DOMAIN disk
        /\ e.nodes = disk.nodes /\ NodeIds(e) = NodeIds(disk) /\ e.maps = disk.maps
        /\ e.nodeSeq = disk.nodeSeq /\ e.blockSeq = disk.blockSeq
        /\ DOMAIN e.blocks = DOMAIN disk.blocks \ ids
        /\ \A b \in DOMAIN e.blocks : e.blocks[b] = disk.blocks[b]
    BY <1>1 DEF TypeSound, NodeIds
  <1>4. \A b \in ids : b \in DOMAIN disk.blocks => disk.blocks[b].free
    BY <1>1 DEF ListOk
  <1> HIDE DEF e, ids
  <1>5. TypeSound(e) /\ disk.blockSeq \in Nat
    BY <1>1, <1>3 DEF TypeSound
  <1>6. \A m \in disk.maps : m.block \in DOMAIN e.blocks /\ e.blocks[m.block] = disk.blocks[m.block]
    BY <1>1, <1>3, <1>4 DEF MapsSound
  <1>7. \A n \in NodeIds(disk) : Kept(disk, e, n)
    BY <1>3, <1>6 DEF Kept, MapsOf
  <1>8. LaysOut(disk, e)
    BY <1>3, <1>7 DEF LaysOut
  <1>9. \A n \in NodeIds(disk) : Content(e, n) = Content(disk, n) /\ SequencesOf(e, n) = SequencesOf(disk, n)
    BY <1>1, <1>7, KeptParts
  <1>10. RowsMatchContent(e)
    BY <1>1, <1>3, <1>9 DEF RowsMatchContent
  <1>11. MapsSound(e)
    BY <1>1, <1>3, <1>6, <1>9 DEF MapsSound
  <1>12. ASSUME NEW u \in Transactions
         PROVE  TxOk(e, u, tx[u]) /\ ChangeOk(e, tx[u].change)
    <2>1. RowsLet(disk, e, u, tx[u])
      BY <1>3, <1>5, <1>7, <1>8 DEF RowsLet
    <2>2. TxOk(disk, u, tx[u]) /\ ChangeOk(disk, tx[u].change)
      BY <1>1
    <2>3. TxOk(e, u, tx[u])
      BY <1>1, <1>5, <2>1, <2>2, TxKept
    <2>4. BlocksLet(disk, e, tx[u].change)
      BY <1>3 DEF BlocksLet
    <2>5. DOMAIN tx[u].change.nodes \subseteq NodeIds(e) /\ disk.blockSeq <= e.blockSeq
      BY <1>3, <1>5, <2>2 DEF ChangeOk, ChangeTyped
    <2>6. ChangeOk(e, tx[u].change)
      BY <1>1, <1>5, <2>2, <2>4, <2>5, ChangeKept
    <2> QED
      BY <2>3, <2>6
  <1>13. /\ gc'[g] = Resting /\ (\A h \in Collectors : h # g => gc'[h] = gc[h])
         /\ DOMAIN gc' = Collectors /\ Resting.ids = {} /\ DOMAIN Resting = {"at", "excess", "ids"}
    BY <1>1, <1>2 DEF Resting
  <1>14. \A h \in Collectors : ListOk(e, gc'[h])
    BY <1>1, <1>3, <1>13 DEF ListOk
  <1>15. \A h \in Collectors, u \in Transactions : \A b \in gc'[h].ids :
            b \notin DOMAIN e.blocks => b \notin DOMAIN tx[u].change.blocks
    BY <1>1, <1>2, <1>3, <1>13
  <1>16. MaintenanceInv'
    BY <1>1, <1>2, <1>5, <1>10, <1>11, <1>12, <1>13, <1>14, <1>15 DEF MaintenanceInv
  <1>17. BlocksOwned(disk) => BlocksOwned(e)
    BY <1>3 DEF BlocksOwned
  <1> QED
    BY <1>2, <1>8, <1>16, <1>17 DEF StepOk

-----------------------------------------------------------------------------
(* Statements of a transaction *)

LEMMA IdleIs ==
  ASSUME NEW d, NEW t, NEW c, TxOk(d, t, c), c.at = "idle"
  PROVE  c = Idle
  BY DEF TxOk, RechunkOk, OverwriteOk, OverwriteAt, AppendOk, RemoveOk

(* d and e have the same rows. *)
SameRows(d, e) ==
  /\ NodeIds(e) = NodeIds(d) /\ \A n \in NodeIds(d) : e.nodes[n] = d.nodes[n]
  /\ DOMAIN e.blocks = DOMAIN d.blocks /\ \A b \in DOMAIN d.blocks : e.blocks[b] = d.blocks[b]
  /\ e.maps = d.maps

LEMMA ChangeNone ==
  ASSUME NEW d, NEW e, SameRows(d, e)
  PROVE  Change(d, e) = NoChange
  <1>1. \A n \in DOMAIN e.nodes : n \in DOMAIN d.nodes /\ e.nodes[n] = d.nodes[n]
    BY DEF SameRows, NodeIds
  <1>2. \A b \in DOMAIN e.blocks : b \in DOMAIN d.blocks /\ e.blocks[b] = d.blocks[b]
    BY DEF SameRows
  <1>3. /\ Differing(d.nodes, e.nodes) = NoRows /\ Differing(d.blocks, e.blocks) = NoRows
    BY <1>1, <1>2 DEF Differing, NoRows
  <1>4. NodeIds(d) \ NodeIds(e) = {} /\ e.maps \ d.maps = {} /\ d.maps \ e.maps = {}
    BY DEF SameRows
  <1> QED
    BY <1>3, <1>4 DEF Change, NoChange

(* Until a transaction changes something, it sees what is committed. *)
LEMMA SeesDisk ==
  ASSUME NEW d, TypeSound(d)
  PROVE  /\ SameRows(d, Apply(d, NoChange)) /\ SameRows(d, d)
         /\ TypeSound(Apply(d, NoChange)) /\ Apply(d, NoChange).blockSeq = d.blockSeq
  <1>1. ChangeTyped(d, NoChange)
    BY IdleOk DEF ChangeOk
  <1>2. DOMAIN NoChange.nodes = {} /\ DOMAIN NoChange.blocks = {} /\ NoChange.maps = {} /\ NoChange.unmaps = {}
    BY DEF NoChange, NoRows
  <1>3. /\ ChangedBy(d, NoChange, Apply(d, NoChange)) /\ TypeSound(Apply(d, NoChange))
        /\ NodeIds(Apply(d, NoChange)) = NodeIds(d)
        /\ \A n \in NodeIds(d) \ DOMAIN NoChange.nodes : Apply(d, NoChange).nodes[n] = d.nodes[n]
    BY <1>1, ApplyShape
  <1> HIDE DEF NoChange
  <1>4. SameRows(d, Apply(d, NoChange)) /\ Apply(d, NoChange).blockSeq = d.blockSeq
    BY <1>2, <1>3 DEF SameRows, ChangedBy
  <1>5. SameRows(d, d)
    BY DEF SameRows
  <1> QED
    BY <1>3, <1>4, <1>5

LEMMA EvolvesSame ==
  ASSUME NEW d, TypeSound(d), NEW c, ChangeTyped(d, c)
  PROVE  Evolves(d, Apply(d, c), Apply(d, c), {})
  <1>1. ChangedBy(d, c, Apply(d, c)) /\ TypeSound(Apply(d, c)) /\ NodeIds(Apply(d, c)) = NodeIds(d)
    BY ApplyShape
  <1> QED
    BY <1>1 DEF Evolves, ChangedBy, TypeSound

LEMMA EvolvesDisk ==
  ASSUME NEW d, TypeSound(d)
  PROVE  Evolves(d, Apply(d, NoChange), d, {})
  <1>1. SameRows(d, Apply(d, NoChange))
    BY SeesDisk
  <1> HIDE DEF NoChange
  <1> QED
    BY <1>1 DEF Evolves, SameRows, TypeSound

LEMMA ContinueHeld ==
  ASSUME MaintenanceInv, NEW t \in Transactions, NEW c, NEW e, NEW F,
         Continue(t, c, e), Evolves(disk, View(t), e, F),
         \A b \in F : b \in DOMAIN disk.blocks => BlockFree(t, b),
         {"at", "change", "locked", "shared"} \subseteq DOMAIN c,
         c.locked = tx[t].locked, c.shared = tx[t].shared,
         TxOk(Ticked(disk, e), t, [c EXCEPT !.change = Change(disk, e)])
  PROVE  StepOk
  <1>1. \A u \in Others(t) : /\ c.locked \cap (u.locked \cup u.shared) = {}
                             /\ u.locked \cap (c.locked \cup c.shared) = {}
    BY DEF MaintenanceInv, Others, Apart
  <1> QED
    BY <1>1, ContinueInv

(* A statement that makes no block *)
LEMMA TxTicked ==
  ASSUME MaintenanceInv, NEW t, NEW c, NEW e, NEW v, NEW F, Evolves(disk, v, e, F), TxOk(disk, t, c)
  PROVE  TxOk(Ticked(disk, e), t, c)
  <1>1. TypeSound(disk) /\ MapsSound(disk) /\ e.blockSeq \in Nat /\ disk.blockSeq <= e.blockSeq
    BY DEF MaintenanceInv, Evolves, TypeSound
  <1>2. TypeSound(Ticked(disk, e)) /\ RowsLet(disk, Ticked(disk, e), t, c)
    BY <1>1, TickedSame
  <1> QED
    BY <1>1, <1>2, TxKept

LEMMA RechunkLockInv ==
  ASSUME MaintenanceInv, NEW t \in Rechunkers, NEW n \in NodeIds(disk), NEW bs \in BlockSizes,
         RechunkLock(t, n, bs)
  PROVE  StepOk
  <1> DEFINE f == [at |-> "load", ids |-> {n}, locked |-> {n}, node |-> n, row |-> disk.nodes[n], bsize |-> bs]
             c == Over(f, tx[t])
             c1 == [c EXCEPT !.change = Change(disk, disk)]
  <1>1. /\ t \in Transactions /\ tx[t].at = "idle" /\ NodeFree(t, n)
        /\ disk.nodes[n].type = "file" /\ Continue(t, c, disk) /\ TypeSound(disk)
    BY DEF RechunkLock, MaintenanceInv, Transactions
  <1>2. tx[t] = Idle
    BY <1>1, IdleIs DEF MaintenanceInv
  <1>3. DOMAIN f = {"at", "ids", "locked", "node", "row", "bsize"} /\ DOMAIN Idle = {"at", "change", "locked", "shared"}
    BY DEF Idle
  <1>4. /\ DOMAIN c = DOMAIN f \cup DOMAIN Idle
        /\ c.at = "load" /\ c.ids = {n} /\ c.locked = {n} /\ c.node = n /\ c.row = disk.nodes[n]
        /\ c.bsize = bs /\ c.shared = {}
    <2>1. f.at = "load" /\ f.ids = {n} /\ f.locked = {n} /\ f.node = n /\ f.row = disk.nodes[n] /\ f.bsize = bs
      OBVIOUS
    <2> HIDE DEF f
    <2> QED
      BY <1>2, <1>3, <2>1, IdleOk DEF Over
  <1>5. Change(disk, disk) = NoChange
    BY <1>1, SeesDisk, ChangeNone
  <1>6. Evolves(disk, View(t), disk, {})
    BY <1>1, <1>2, EvolvesDisk, IdleOk DEF View
  <1> HIDE DEF c, f
  <1>7. /\ DOMAIN c1 = DOMAIN c /\ c1.change = NoChange
        /\ c1.at = "load" /\ c1.ids = {n} /\ c1.locked = {n} /\ c1.node = n /\ c1.row = disk.nodes[n]
        /\ c1.bsize = bs /\ c1.shared = {}
    BY <1>3, <1>4, <1>5
  <1> HIDE DEF c1
  <1>8. RechunkOk(disk, c1)
    BY <1>1, <1>3, <1>4, <1>7, IdleOk DEF RechunkOk, Untouched, NoChange, NoRows
  <1>9. TxOk(disk, t, c1)
    BY <1>3, <1>4, <1>7, <1>8 DEF TxOk
  <1>10. TxOk(Ticked(disk, disk), t, c1)
    BY <1>6, <1>9, TxTicked
  <1>11. \A u \in Others(t) : /\ c.locked \cap (u.locked \cup u.shared) = {}
                              /\ u.locked \cap (c.locked \cup c.shared) = {}
    BY <1>1, <1>4 DEF NodeFree
  <1>12. {"at", "change", "locked", "shared"} \subseteq DOMAIN c
    BY <1>3, <1>4
  <1> QED
    BY <1>1, <1>6, <1>10, <1>11, <1>12, ContinueInv DEF c1

LEMMA SameRowsContent ==
  ASSUME NEW d, TypeSound(d), MapsSound(d), NEW e, SameRows(d, e)
  PROVE  /\ \A n \in NodeIds(d) : Content(e, n) = Content(d, n)
         /\ \A n : MapsOf(e, n) = MapsOf(d, n)
         /\ \A ids : ListedBlocks(e, ids) = BlocksOf(d, ids)
  <1>1. \A n : MapsOf(e, n) = MapsOf(d, n)
    BY DEF SameRows, MapsOf
  <1>2. \A m \in d.maps : e.blocks[m.block].data = d.blocks[m.block].data
    BY DEF SameRows, MapsSound
  <1>3. \A n \in NodeIds(d) : Content(e, n) = Content(d, n)
    BY <1>1, <1>2, SameFile DEF MapsOf
  <1>4. \A ids : ListedBlocks(e, ids) = BlocksOf(d, ids)
    BY DEF SameRows, ListedBlocks, BlocksOf, MapsOfAll
  <1> QED
    BY <1>1, <1>3, <1>4

LEMMA UntouchedView ==
  ASSUME MaintenanceInv, NEW t \in Transactions, Untouched(tx[t])
  PROVE  /\ SameRows(disk, View(t)) /\ Change(disk, View(t)) = NoChange /\ Change(disk, disk) = NoChange
         /\ Evolves(disk, View(t), View(t), {}) /\ Evolves(disk, View(t), disk, {})
  <1>1. TypeSound(disk) /\ tx[t].change = NoChange /\ ChangeTyped(disk, NoChange)
    BY IdleOk DEF MaintenanceInv, Untouched, ChangeOk
  <1>2. SameRows(disk, Apply(disk, NoChange)) /\ SameRows(disk, disk)
    BY <1>1, SeesDisk
  <1>3. Change(disk, Apply(disk, NoChange)) = NoChange /\ Change(disk, disk) = NoChange
    BY <1>2, ChangeNone
  <1>4. /\ Evolves(disk, Apply(disk, NoChange), Apply(disk, NoChange), {})
        /\ Evolves(disk, Apply(disk, NoChange), disk, {})
    BY <1>1, EvolvesSame, EvolvesDisk
  <1> QED
    BY <1>1, <1>2, <1>3, <1>4 DEF View

LEMMA RechunkLoadInv ==
  ASSUME MaintenanceInv, NEW t \in Rechunkers, RechunkLoad(t)
  PROVE  StepOk
  <1> DEFINE f == [at |-> "list", data |-> Content(View(t), tx[t].node)]
             c == Over(f, tx[t])
             c1 == [c EXCEPT !.change = Change(disk, View(t))]
  <1>1. /\ t \in Transactions /\ tx[t].at = "load" /\ Loadable(View(t), tx[t].node, tx[t].row)
        /\ Continue(t, c, View(t)) /\ TypeSound(disk) /\ MapsSound(disk) /\ t # "writer"
    BY MaintenanceAssumption DEF RechunkLoad, MaintenanceInv, Transactions
  <1>2. /\ RechunkOk(disk, tx[t]) /\ Untouched(tx[t])
        /\ {"at", "change", "locked", "shared"} \subseteq DOMAIN tx[t]
    BY <1>1, IdleOk DEF MaintenanceInv, TxOk, RechunkOk
  <1>3. /\ SameRows(disk, View(t)) /\ Change(disk, View(t)) = NoChange
        /\ Evolves(disk, View(t), View(t), {})
    BY <1>1, <1>2, UntouchedView
  <1>4. tx[t].node \in NodeIds(disk)
    BY <1>2 DEF RechunkOk
  <1>5. Content(View(t), tx[t].node) = Content(disk, tx[t].node) /\ tx[t].row.size = Len(Content(disk, tx[t].node))
    BY <1>1, <1>3, <1>4, SameRowsContent DEF Loadable
  <1>6. /\ DOMAIN f = {"at", "data"} /\ f.at = "list" /\ f.data = Content(disk, tx[t].node)
    BY <1>5
  <1> HIDE DEF f
  <1>7. /\ DOMAIN c = {"at", "data"} \cup DOMAIN tx[t]
        /\ c.at = "list" /\ c.data = Content(disk, tx[t].node)
        /\ \A i \in DOMAIN tx[t] : i # "at" /\ i # "data" => c[i] = tx[t][i]
    BY <1>6 DEF Over
  <1> HIDE DEF c
  <1>8. /\ DOMAIN c1 = DOMAIN c /\ c1.change = NoChange
        /\ c1.at = "list" /\ c1.data = Content(disk, tx[t].node)
        /\ \A i \in DOMAIN tx[t] : i \notin {"at", "data", "change"} => c1[i] = tx[t][i]
    BY <1>2, <1>3, <1>7
  <1> HIDE DEF c1
  <1>9. RechunkOk(disk, c1)
    BY <1>2, <1>5, <1>7, <1>8, IdleOk DEF RechunkOk, Untouched, NoChange, NoRows
  <1>10. TxOk(disk, t, c1)
    BY <1>2, <1>7, <1>8, <1>9 DEF TxOk
  <1>11. TxOk(Ticked(disk, View(t)), t, c1)
    BY <1>3, <1>10, TxTicked
  <1>12. {"at", "change", "locked", "shared"} \subseteq DOMAIN c /\ c.locked = tx[t].locked /\ c.shared = tx[t].shared
    BY <1>2, <1>7
  <1> QED
    BY <1>1, <1>3, <1>11, <1>12, ContinueHeld DEF c1

LEMMA NodesChanged ==
  ASSUME NEW d, NEW e, NodeIds(e) = NodeIds(d), NEW ids, ids \subseteq NodeIds(d),
         \A n \in NodeIds(d) \ ids : e.nodes[n] = d.nodes[n],
         \A n \in ids : e.nodes[n] # d.nodes[n]
  PROVE  DOMAIN Change(d, e).nodes = ids /\ \A n \in ids : Change(d, e).nodes[n] = e.nodes[n]
  BY DEF Change, Differing, NodeIds

LEMMA OverwriteHeldNext ==
  ASSUME NEW d, TypeSound(d), NEW c, ChangeTyped(d, c.change), OverwriteHeld(d, c),
         NEW e, NodeIds(e) = NodeIds(d),
         \A n \in NodeIds(d) : e.nodes[n] = Apply(d, c.change).nodes[n],
         NEW c1, {"w"} \subseteq DOMAIN c1, WriterFields(d, c1.w),
         c1.w.mode = c.w.mode, c1.w.node = c.w.node, c1.w.ver = c.w.ver,
         c1.ids = c.ids, c1.locked = c.locked, c1.shared \subseteq {c.w.node},
         c1.change = Change(d, e)
  PROVE  OverwriteHeld(d, c1)
  <1> DEFINE n == c.w.node
             v == Apply(d, c.change)
  <1>1. /\ n \in NodeIds(d) /\ DOMAIN c.change.nodes = {n} /\ c.change.nodes[n].ver = c.w.ver
        /\ c.change.nodes[n].type = "file" /\ c.w.ver = d.nodes[n].ver + 1
    BY DEF OverwriteHeld, WriterFields
  <1>2. /\ v.nodes[n] = c.change.nodes[n]
        /\ \A i \in NodeIds(d) \ {n} : v.nodes[i] = d.nodes[i]
    BY <1>1, ApplyShape
  <1>3. d.nodes[n].ver \in Nat
    BY <1>1 DEF TypeSound, NodeRowSound
  <1> HIDE DEF v, n
  <1>4. e.nodes[n] = c.change.nodes[n] /\ e.nodes[n] # d.nodes[n]
    BY <1>1, <1>2, <1>3 DEF v
  <1>5. \A i \in NodeIds(d) \ {n} : e.nodes[i] = d.nodes[i]
    BY <1>2 DEF v
  <1>6. DOMAIN c1.change.nodes = {n} /\ c1.change.nodes[n] = c.change.nodes[n]
    BY <1>1, <1>4, <1>5, NodesChanged
  <1> QED
    BY <1>1, <1>6 DEF OverwriteHeld, n

LEMMA NoBlocksChanged ==
  ASSUME NEW d, TypeSound(d), NEW c, ChangeTyped(d, c),
         c.maps = {}, c.unmaps = {}, DOMAIN c.blocks = {}
  PROVE  LET v == Apply(d, c)
             h == Change(d, v)
         IN  v.maps = d.maps /\ h.maps = {} /\ h.unmaps = {} /\ DOMAIN h.blocks = {}
  <1>1. ChangedBy(d, c, Apply(d, c))
    BY ApplyShape
  <1> QED
    BY <1>1, ChangeShape DEF ChangedBy

LEMMA ListBlocksInv ==
  ASSUME MaintenanceInv, NEW t \in Transactions, ListBlocks(t)
  PROVE  StepOk
  <1> DEFINE f == [at |-> "unmap", listed |-> ListedBlocks(View(t), tx[t].ids)]
             c == Over(f, tx[t])
             h == Change(disk, View(t))
             c1 == [c EXCEPT !.change = h]
  <1>1. /\ tx[t].at = "list" /\ Continue(t, c, View(t)) /\ TypeSound(disk) /\ MapsSound(disk)
        /\ TxOk(disk, t, tx[t]) /\ ChangeOk(disk, tx[t].change) /\ ChangeTyped(disk, tx[t].change)
    BY DEF ListBlocks, MaintenanceInv, ChangeOk
  <1>2. /\ {"at", "change", "locked", "shared"} \subseteq DOMAIN tx[t]
        /\ tx[t].change.maps = {} /\ tx[t].change.unmaps = {} /\ DOMAIN tx[t].change.blocks = {}
    BY <1>1, IdleOk DEF TxOk, RechunkOk, OverwriteOk, OverwriteAt, AppendOk, RemoveOk,
                        Untouched, NoChange, NoRows
  <1>3. View(t).maps = disk.maps /\ h.maps = {} /\ h.unmaps = {} /\ DOMAIN h.blocks = {}
    BY <1>1, <1>2, NoBlocksChanged DEF View
  <1>4. Evolves(disk, View(t), View(t), {})
    BY <1>1, EvolvesSame DEF View
  <1>5. ListedBlocks(View(t), tx[t].ids) = BlocksOf(disk, tx[t].ids)
    BY <1>3 DEF ListedBlocks, BlocksOf, MapsOfAll
  <1>6. DOMAIN f = {"at", "listed"} /\ f.at = "unmap" /\ f.listed = BlocksOf(disk, tx[t].ids)
    BY <1>5
  <1> HIDE DEF f, h
  <1>7. /\ DOMAIN c = {"at", "listed"} \cup DOMAIN tx[t]
        /\ c.at = "unmap" /\ c.listed = BlocksOf(disk, tx[t].ids)
        /\ \A i \in DOMAIN tx[t] : i # "at" /\ i # "listed" => c[i] = tx[t][i]
    BY <1>6 DEF Over
  <1> HIDE DEF c
  <1>8. /\ DOMAIN c1 = DOMAIN c /\ c1.change = h
        /\ c1.at = "unmap" /\ c1.listed = BlocksOf(disk, tx[t].ids)
        /\ \A i \in DOMAIN tx[t] : i \notin {"at", "listed", "change"} => c1[i] = tx[t][i]
    BY <1>2, <1>7
  <1> HIDE DEF c1
  <1>9. ASSUME Untouched(tx[t]) PROVE h = NoChange
    BY <1>9, UntouchedView DEF h
  <1>10. ASSUME t \in Rechunkers PROVE TxOk(disk, t, c1)
    <2>1. RechunkOk(disk, tx[t]) /\ Untouched(tx[t])
      BY <1>1, <1>10, MaintenanceAssumption, IdleOk DEF TxOk, RechunkOk
    <2>2. {"ids", "node", "row", "bsize", "data"} \subseteq DOMAIN tx[t]
      BY <1>1, <2>1 DEF RechunkOk
    <2>3. /\ c1.ids = tx[t].ids /\ c1.locked = tx[t].locked /\ c1.shared = tx[t].shared
          /\ c1.node = tx[t].node /\ c1.row = tx[t].row /\ c1.bsize = tx[t].bsize /\ c1.data = tx[t].data
          /\ {"listed", "ids", "node", "row", "bsize", "data"} \subseteq DOMAIN c1
      BY <1>2, <1>7, <1>8, <2>2
    <2>4. c1.change = NoChange /\ DOMAIN NoChange.nodes = {}
      BY <1>8, <1>9, <2>1 DEF NoChange, NoRows
    <2>5. RechunkOk(disk, c1)
      BY <1>1, <1>8, <2>1, <2>3, <2>4 DEF RechunkOk, Untouched
    <2> QED
      BY <1>2, <1>7, <1>8, <1>10, <2>5 DEF TxOk
  <1>11. ASSUME t = "writer", OverwriteOk(disk, tx[t]) PROVE TxOk(disk, t, c1)
    <2>1. OverwriteHeld(disk, tx[t]) /\ OverwriteAt(disk, tx[t])
      BY <1>1, <1>11 DEF OverwriteOk
    <2>2. /\ NodeIds(View(t)) = NodeIds(disk) /\ WriterFields(disk, tx[t].w)
          /\ tx[t].shared \subseteq {tx[t].w.node} /\ {"w"} \subseteq DOMAIN tx[t]
      BY <1>1, <2>1, ApplyShape DEF View, OverwriteHeld
    <2>3. {"op", "ids", "row", "bsize"} \subseteq DOMAIN tx[t] /\ tx[t].op = "overwrite" /\ tx[t].bsize \in BlockSizes
      BY <1>11 DEF OverwriteOk
    <2>4. /\ c1.w = tx[t].w /\ c1.ids = tx[t].ids /\ c1.locked = tx[t].locked /\ c1.shared = tx[t].shared
          /\ c1.op = tx[t].op /\ c1.bsize = tx[t].bsize /\ {"w", "listed", "op", "ids", "row", "bsize"} \subseteq DOMAIN c1
      BY <1>2, <1>7, <1>8, <2>2, <2>3
    <2>5. OverwriteHeld(disk, c1)
      BY <1>1, <1>8, <2>1, <2>2, <2>4, OverwriteHeldNext DEF View, h
    <2>6. OverwriteAt(disk, c1)
      BY <1>1, <1>3, <1>8, <2>1, <2>4 DEF OverwriteAt
    <2>7. OverwriteOk(disk, c1)
      BY <2>3, <2>4, <2>5, <2>6 DEF OverwriteOk
    <2> QED
      BY <1>2, <1>7, <1>8, <1>11, <2>7 DEF TxOk
  <1>12. ASSUME t = "writer", RemoveOk(disk, tx[t]) PROVE TxOk(disk, t, c1)
    <2>1. Untouched(tx[t])
      BY <1>1, <1>12 DEF RemoveOk
    <2>2. {"op", "ids"} \subseteq DOMAIN tx[t]
      BY <1>12 DEF RemoveOk
    <2>3. /\ c1.ids = tx[t].ids /\ c1.locked = tx[t].locked /\ c1.shared = tx[t].shared
          /\ c1.op = tx[t].op /\ {"listed", "op", "ids"} \subseteq DOMAIN c1
      BY <1>2, <1>7, <1>8, <2>2
    <2>4. RemoveOk(disk, c1)
      BY <1>1, <1>3, <1>8, <1>9, <1>12, <2>1, <2>3 DEF RemoveOk, Untouched
    <2> QED
      BY <1>2, <1>7, <1>8, <1>12, <2>4 DEF TxOk
  <1>13. TxOk(disk, t, c1)
    <2>1. ~AppendOk(disk, tx[t]) /\ tx[t] # Idle
      BY <1>1, IdleOk DEF AppendOk
    <2> QED
      BY <1>1, <1>10, <1>11, <1>12, <2>1 DEF TxOk
  <1>14. TxOk(Ticked(disk, View(t)), t, c1)
    BY <1>4, <1>13, TxTicked
  <1>15. {"at", "change", "locked", "shared"} \subseteq DOMAIN c /\ c.locked = tx[t].locked /\ c.shared = tx[t].shared
    BY <1>2, <1>7
  <1> QED
    BY <1>1, <1>4, <1>14, <1>15, ContinueHeld DEF c1, h

LEMMA UnmappedShape ==
  ASSUME NEW d, TypeSound(d), NEW ids
  PROVE  LET e == Unmapped(d, ids)
         IN  /\ TypeSound(e) /\ NodeIds(e) = NodeIds(d) /\ e.nodes = d.nodes /\ e.blocks = d.blocks
             /\ e.maps = {m \in d.maps : m.file \notin ids}
             /\ e.nodeSeq = d.nodeSeq /\ e.blockSeq = d.blockSeq
  BY DEF Unmapped, TypeSound, NodeIds

LEMMA UnmappedEvolves ==
  ASSUME NEW d, TypeSound(d), NEW c, ChangeTyped(d, c),
         c.maps = {}, c.unmaps = {}, DOMAIN c.blocks = {}, NEW ids
  PROVE  LET v == Apply(d, c)
             e == Unmapped(v, ids)
             h == Change(d, e)
         IN  /\ Evolves(d, v, e, {})
             /\ NodeIds(e) = NodeIds(d) /\ e.nodes = v.nodes
             /\ h.maps = {} /\ h.unmaps = MapsOfAll(d, ids) /\ DOMAIN h.blocks = {}
  <1> DEFINE v == Apply(d, c)
             e == Unmapped(v, ids)
             h == Change(d, e)
  <1>1. ChangedBy(d, c, v) /\ TypeSound(v) /\ NodeIds(v) = NodeIds(d)
    BY ApplyShape
  <1> HIDE DEF v
  <1>2. /\ TypeSound(e) /\ NodeIds(e) = NodeIds(v) /\ e.nodes = v.nodes /\ e.blocks = v.blocks
        /\ e.maps = {m \in v.maps : m.file \notin ids}
        /\ e.nodeSeq = v.nodeSeq /\ e.blockSeq = v.blockSeq
    BY <1>1, UnmappedShape
  <1> HIDE DEF e
  <1>3. v.maps = d.maps /\ DOMAIN v.blocks = DOMAIN d.blocks /\ \A b \in DOMAIN d.blocks : v.blocks[b] = d.blocks[b]
    BY <1>1 DEF ChangedBy
  <1>4. Evolves(d, v, e, {})
    BY <1>1, <1>2, <1>3 DEF Evolves, ChangedBy, TypeSound
  <1>5. h.maps = {} /\ h.unmaps = MapsOfAll(d, ids) /\ DOMAIN h.blocks = {}
    BY <1>2, <1>3, ChangeShape DEF MapsOfAll
  <1> QED
    BY <1>1, <1>2, <1>4, <1>5 DEF e, v

LEMMA DeleteMappingsInv ==
  ASSUME MaintenanceInv, NEW t \in Transactions, DeleteMappings(t)
  PROVE  StepOk
  <1> DEFINE c == [tx[t] EXCEPT !.at = "free"]
             e == Unmapped(View(t), tx[t].ids)
             h == Change(disk, e)
             c1 == [c EXCEPT !.change = h]
  <1>1. /\ tx[t].at = "unmap" /\ Continue(t, c, e) /\ TypeSound(disk) /\ MapsSound(disk)
        /\ TxOk(disk, t, tx[t]) /\ ChangeOk(disk, tx[t].change) /\ ChangeTyped(disk, tx[t].change)
    BY DEF DeleteMappings, MaintenanceInv, ChangeOk
  <1>2. /\ {"at", "change", "locked", "shared"} \subseteq DOMAIN tx[t]
        /\ tx[t].change.maps = {} /\ tx[t].change.unmaps = {} /\ DOMAIN tx[t].change.blocks = {}
    BY <1>1, IdleOk DEF TxOk, RechunkOk, OverwriteOk, OverwriteAt, AppendOk, RemoveOk,
                        Untouched, NoChange, NoRows
  <1>3. /\ Evolves(disk, View(t), e, {})
        /\ NodeIds(e) = NodeIds(disk) /\ e.nodes = View(t).nodes
        /\ h.maps = {} /\ h.unmaps = MapsOfAll(disk, tx[t].ids) /\ DOMAIN h.blocks = {}
    BY <1>1, <1>2, UnmappedEvolves DEF View
  <1> HIDE DEF e, h
  <1>4. DOMAIN c = DOMAIN tx[t] /\ c.at = "free" /\ \A i \in DOMAIN tx[t] : i # "at" => c[i] = tx[t][i]
    BY <1>2
  <1> HIDE DEF c
  <1>5. /\ DOMAIN c1 = DOMAIN tx[t] /\ c1.change = h /\ c1.at = "free"
        /\ \A i \in DOMAIN tx[t] : i \notin {"at", "change"} => c1[i] = tx[t][i]
    BY <1>2, <1>4
  <1> HIDE DEF c1
  <1>6. NodeIds(View(t)) = NodeIds(disk)
    BY <1>1, ApplyShape DEF View
  <1>7. ASSUME DOMAIN tx[t].change.nodes = {} PROVE DOMAIN h.nodes = {}
    <2>1. \A n \in NodeIds(disk) : e.nodes[n] = disk.nodes[n]
      BY <1>1, <1>3, <1>7, ApplyShape DEF View
    <2> QED
      BY <1>3, <2>1, NodesChanged DEF h
  <1>8. ASSUME t \in Rechunkers PROVE TxOk(disk, t, c1)
    <2>1. RechunkOk(disk, tx[t]) /\ Untouched(tx[t])
      BY <1>1, <1>8, MaintenanceAssumption, IdleOk DEF TxOk, RechunkOk
    <2>2. {"ids", "node", "row", "bsize", "data", "listed"} \subseteq DOMAIN tx[t] /\ DOMAIN tx[t].change.nodes = {}
      BY <1>1, <2>1 DEF RechunkOk
    <2>3. /\ c1.ids = tx[t].ids /\ c1.locked = tx[t].locked /\ c1.shared = tx[t].shared
          /\ c1.node = tx[t].node /\ c1.row = tx[t].row /\ c1.bsize = tx[t].bsize /\ c1.data = tx[t].data
          /\ c1.listed = tx[t].listed
      BY <1>2, <1>5, <2>2
    <2>4. DOMAIN h.nodes = {}
      BY <1>7, <2>2
    <2>5. RechunkOk(disk, c1)
      BY <1>1, <1>3, <1>5, <2>1, <2>2, <2>3, <2>4 DEF RechunkOk, Removed
    <2> QED
      BY <1>2, <1>5, <1>8, <2>5 DEF TxOk
  <1>9. ASSUME t = "writer", OverwriteOk(disk, tx[t]) PROVE TxOk(disk, t, c1)
    <2>1. OverwriteHeld(disk, tx[t]) /\ OverwriteAt(disk, tx[t])
      BY <1>1, <1>9 DEF OverwriteOk
    <2>2. /\ WriterFields(disk, tx[t].w)
          /\ tx[t].shared \subseteq {tx[t].w.node} /\ {"w"} \subseteq DOMAIN tx[t]
      BY <2>1 DEF OverwriteHeld
    <2>3. /\ {"op", "ids", "row", "bsize"} \subseteq DOMAIN tx[t] /\ tx[t].op = "overwrite" /\ tx[t].bsize \in BlockSizes
          /\ {"listed"} \subseteq DOMAIN tx[t] /\ tx[t].listed = BlocksOf(disk, tx[t].ids)
      BY <1>1, <1>9, <2>1 DEF OverwriteOk, OverwriteAt
    <2>4. /\ c1.w = tx[t].w /\ c1.ids = tx[t].ids /\ c1.locked = tx[t].locked /\ c1.shared = tx[t].shared
          /\ c1.op = tx[t].op /\ c1.bsize = tx[t].bsize /\ c1.listed = tx[t].listed
      BY <1>2, <1>5, <2>2, <2>3
    <2>5. OverwriteHeld(disk, c1)
      BY <1>1, <1>3, <1>5, <2>1, <2>2, <2>4, OverwriteHeldNext DEF View, h
    <2>6. OverwriteAt(disk, c1)
      BY <1>1, <1>3, <1>5, <2>1, <2>3, <2>4 DEF OverwriteAt, Removed
    <2>7. OverwriteOk(disk, c1)
      BY <1>5, <2>3, <2>4, <2>5, <2>6 DEF OverwriteOk
    <2> QED
      BY <1>2, <1>5, <1>9, <2>7 DEF TxOk
  <1>10. ASSUME t = "writer", RemoveOk(disk, tx[t]) PROVE TxOk(disk, t, c1)
    <2>1. {"op", "ids", "listed"} \subseteq DOMAIN tx[t] /\ DOMAIN tx[t].change.nodes = {}
      BY <1>1, <1>10 DEF RemoveOk
    <2>2. /\ c1.ids = tx[t].ids /\ c1.locked = tx[t].locked /\ c1.shared = tx[t].shared
          /\ c1.op = tx[t].op /\ c1.listed = tx[t].listed
      BY <1>2, <1>5, <2>1
    <2>3. DOMAIN h.nodes = {} /\ \A m \in h.unmaps : m.file \in tx[t].ids
      BY <1>3, <1>7, <2>1 DEF MapsOfAll
    <2>4. RemoveOk(disk, c1)
      BY <1>1, <1>3, <1>5, <1>10, <2>1, <2>2, <2>3 DEF RemoveOk, Removed
    <2> QED
      BY <1>2, <1>5, <1>10, <2>4 DEF TxOk
  <1>11. TxOk(disk, t, c1)
    <2>1. ~AppendOk(disk, tx[t]) /\ tx[t] # Idle
      BY <1>1, IdleOk DEF AppendOk
    <2> QED
      BY <1>1, <1>8, <1>9, <1>10, <2>1 DEF TxOk
  <1>12. TxOk(Ticked(disk, e), t, c1)
    BY <1>3, <1>11, TxTicked
  <1>13. {"at", "change", "locked", "shared"} \subseteq DOMAIN c /\ c.locked = tx[t].locked /\ c.shared = tx[t].shared
    BY <1>2, <1>4
  <1> QED
    BY <1>1, <1>3, <1>12, <1>13, ContinueHeld DEF c1, h

LEMMA FreedShape ==
  ASSUME NEW d, TypeSound(d), NEW bs
  PROVE  LET e == Freed(d, bs)
         IN  /\ TypeSound(e) /\ NodeIds(e) = NodeIds(d) /\ e.nodes = d.nodes /\ e.maps = d.maps
             /\ e.nodeSeq = d.nodeSeq /\ e.blockSeq = d.blockSeq
             /\ DOMAIN e.blocks = DOMAIN d.blocks
             /\ \A b \in DOMAIN d.blocks :
                  \/ /\ e.blocks[b] = d.blocks[b]
                     /\ b \notin bs \/ \E m \in d.maps : m.block = b
                  \/ /\ b \in bs /\ \A m \in d.maps : m.block # b
                     /\ e.blocks[b].free /\ e.blocks[b].data = d.blocks[b].data
                     /\ e.blocks[b].size = d.blocks[b].size /\ e.blocks[b].sum = d.blocks[b].sum
  <1> DEFINE e == Freed(d, bs)
             free == {b \in bs \cap DOMAIN d.blocks : \A m \in d.maps : m.block # b}
  <1>1. /\ DOMAIN e = DOMAIN d /\ e.nodes = d.nodes /\ e.maps = d.maps
        /\ e.nodeSeq = d.nodeSeq /\ e.blockSeq = d.blockSeq
        /\ DOMAIN e.blocks = DOMAIN d.blocks
        /\ \A b \in DOMAIN d.blocks :
             e.blocks[b] = IF b \in free THEN [d.blocks[b] EXCEPT !.free = TRUE] ELSE d.blocks[b]
    BY DEF Freed, TypeSound
  <1> HIDE DEF e
  <1>2. \A b \in DOMAIN d.blocks : BlockRowSound(d.blocks[b])
    BY DEF TypeSound
  <1>3. ASSUME NEW b \in free
        PROVE  /\ e.blocks[b].free /\ e.blocks[b].data = d.blocks[b].data
               /\ e.blocks[b].size = d.blocks[b].size /\ e.blocks[b].sum = d.blocks[b].sum
               /\ BlockRowSound(e.blocks[b])
    BY <1>1, <1>2 DEF BlockRowSound
  <1>4. \A b \in DOMAIN d.blocks : b \notin free => e.blocks[b] = d.blocks[b]
    BY <1>1
  <1>5. TypeSound(e)
    BY <1>1, <1>2, <1>3, <1>4 DEF TypeSound, NodeIds
  <1> QED
    BY <1>1, <1>3, <1>4, <1>5 DEF e, NodeIds

LEMMA FreedEvolves ==
  ASSUME NEW d, NEW v, NEW u, Evolves(d, v, u, {}), NEW bs
  PROVE  Evolves(d, v, Freed(u, bs), bs)
  <1> DEFINE e == Freed(u, bs)
  <1>1. /\ TypeSound(u) /\ NodeIds(u) = NodeIds(d) /\ d.blockSeq <= u.blockSeq
        /\ \A b \in DOMAIN v.blocks : b \in DOMAIN u.blocks /\ u.blocks[b] = v.blocks[b]
        /\ \A b \in DOMAIN u.blocks \ DOMAIN v.blocks :
             /\ b >= d.blockSeq
             /\ u.blocks[b].size = Len(u.blocks[b].data) /\ u.blocks[b].sum = Hash(u.blocks[b].data)
             /\ \E m \in u.maps : m.block = b
        /\ \A m \in u.maps \ v.maps :
             m.block \in DOMAIN u.blocks \ DOMAIN v.blocks /\ ~u.blocks[m.block].free
        /\ v.maps \ u.maps \subseteq d.maps
    BY DEF Evolves
  <1>2. /\ TypeSound(e) /\ NodeIds(e) = NodeIds(u) /\ e.maps = u.maps /\ e.blockSeq = u.blockSeq
        /\ DOMAIN e.blocks = DOMAIN u.blocks
        /\ \A b \in DOMAIN u.blocks :
             \/ /\ e.blocks[b] = u.blocks[b]
                /\ b \notin bs \/ \E m \in u.maps : m.block = b
             \/ /\ b \in bs /\ \A m \in u.maps : m.block # b
                /\ e.blocks[b].free /\ e.blocks[b].data = u.blocks[b].data
                /\ e.blocks[b].size = u.blocks[b].size /\ e.blocks[b].sum = u.blocks[b].sum
    BY <1>1, FreedShape
  <1> HIDE DEF e
  <1>3. \A b \in DOMAIN u.blocks \ DOMAIN v.blocks : e.blocks[b] = u.blocks[b]
    BY <1>1, <1>2
  <1>4. \A b \in DOMAIN v.blocks :
          /\ b \in DOMAIN e.blocks
          /\ \/ e.blocks[b] = v.blocks[b]
             \/ /\ b \in bs /\ e.blocks[b].free
                /\ e.blocks[b].data = v.blocks[b].data
                /\ e.blocks[b].size = v.blocks[b].size /\ e.blocks[b].sum = v.blocks[b].sum
                /\ \A m \in e.maps : m.block # b
    BY <1>1, <1>2
  <1>5. /\ TypeSound(e) /\ NodeIds(e) = NodeIds(d) /\ d.blockSeq <= e.blockSeq
        /\ v.maps \ e.maps \subseteq d.maps
    BY <1>1, <1>2
  <1>6. \A m \in e.maps \ v.maps :
          m.block \in DOMAIN e.blocks \ DOMAIN v.blocks /\ ~e.blocks[m.block].free
    BY <1>1, <1>2, <1>3
  <1>7. \A b \in DOMAIN e.blocks \ DOMAIN v.blocks :
          /\ b >= d.blockSeq
          /\ e.blocks[b].size = Len(e.blocks[b].data) /\ e.blocks[b].sum = Hash(e.blocks[b].data)
          /\ \E m \in e.maps : m.block = b
    BY <1>1, <1>2, <1>3
  <1> QED
    BY <1>4, <1>5, <1>6, <1>7 DEF Evolves, e

(* What e has more than v is the chunks cs, in blocks from first + 1 on. *)
Grown(v, e, f, first, seq, cs) ==
  /\ TypeSound(e) /\ NodeIds(e) = NodeIds(v) /\ e.nodes = v.nodes /\ e.nodeSeq = v.nodeSeq
  /\ e.blockSeq = v.blockSeq + Len(cs) /\ Len(cs) \in Nat /\ first \in Nat /\ first = v.blockSeq - 1
  /\ e.maps = v.maps \cup Added(f, first, seq, cs)
  /\ \A b \in DOMAIN v.blocks : b \in DOMAIN e.blocks /\ e.blocks[b] = v.blocks[b]
  /\ \A i \in 1..Len(cs) : /\ first + i \in DOMAIN e.blocks /\ first + i \notin DOMAIN v.blocks
                           /\ e.blocks[first + i] = NewBlock(cs[i])
  /\ \A b \in DOMAIN e.blocks \ DOMAIN v.blocks : \E i \in 1..Len(cs) : b = first + i

LEMMA AttachShape ==
  ASSUME NEW d, TypeSound(d), NEW f \in Nat, NEW seq \in Nat, NEW cs \in Seq(Seq(Bytes))
  PROVE  Grown(d, AttachBlocks(d, f, seq, cs), f, d.blockSeq - 1, seq, cs)
  <1> DEFINE first == d.blockSeq - 1
             new   == {first + i : i \in 1..Len(cs)}
             e     == AttachBlocks(d, f, seq, cs)
  <1>1. /\ e.nodes = d.nodes /\ e.nodeSeq = d.nodeSeq
        /\ e.blockSeq = d.blockSeq + Len(cs)
        /\ DOMAIN e.blocks = DOMAIN d.blocks \cup new
        /\ \A b \in DOMAIN e.blocks :
             e.blocks[b] = IF b \in new THEN NewBlock(cs[b - first]) ELSE d.blocks[b]
        /\ e.maps = d.maps \cup Added(f, first, seq, cs)
    BY DEF AttachBlocks, TypeSound, Added
  <1>2. Len(cs) \in Nat /\ first \in Nat /\ DOMAIN d.blocks \subseteq 1..first
    BY DEF TypeSound
  <1>3. TypeSound(e)
    BY AttachType
  <1> HIDE DEF e
  <1>4. ASSUME NEW i \in 1..Len(cs)
        PROVE  /\ first + i \in DOMAIN e.blocks /\ first + i \notin DOMAIN d.blocks
               /\ e.blocks[first + i] = NewBlock(cs[i])
    <2>1. first + i \in new /\ (first + i) - first = i /\ first + i \notin DOMAIN d.blocks
      BY <1>2
    <2> HIDE DEF new
    <2> QED
      BY <1>1, <2>1
  <1>5. \A b \in DOMAIN d.blocks : b \notin new
    BY <1>2
  <1>6. \A b \in new : \E i \in 1..Len(cs) : b = first + i
    OBVIOUS
  <1> HIDE DEF new, first
  <1>7. \A b \in DOMAIN d.blocks : b \in DOMAIN e.blocks /\ e.blocks[b] = d.blocks[b]
    BY <1>1, <1>5
  <1>8. \A b \in DOMAIN e.blocks \ DOMAIN d.blocks : \E i \in 1..Len(cs) : b = first + i
    BY <1>1, <1>6
  <1> QED
    <2>1. first = d.blockSeq - 1
      BY DEF first
    <2>2. Grown(d, e, f, first, seq, cs)
      BY <1>1, <1>2, <1>3, <1>4, <1>7, <1>8, <2>1 DEF Grown, NodeIds
    <2> QED
      BY <2>2 DEF e, first

LEMMA AttachEvolves ==
  ASSUME NEW d, TypeSound(d), NEW v, TypeSound(v), NodeIds(v) = NodeIds(d), v.blockSeq = d.blockSeq,
         NEW f \in Nat, NEW seq \in Nat, NEW cs \in Seq(Seq(Bytes))
  PROVE  Evolves(d, v, AttachBlocks(v, f, seq, cs), {})
  <1> DEFINE e == AttachBlocks(v, f, seq, cs)
             first == v.blockSeq - 1
             added == Added(f, first, seq, cs)
  <1>1. /\ TypeSound(e) /\ NodeIds(e) = NodeIds(v)
        /\ e.blockSeq = v.blockSeq + Len(cs) /\ Len(cs) \in Nat /\ first \in Nat
        /\ e.maps = v.maps \cup added
        /\ \A b \in DOMAIN v.blocks : b \in DOMAIN e.blocks /\ e.blocks[b] = v.blocks[b]
        /\ \A i \in 1..Len(cs) : /\ first + i \in DOMAIN e.blocks /\ first + i \notin DOMAIN v.blocks
                                 /\ e.blocks[first + i] = NewBlock(cs[i])
        /\ \A b \in DOMAIN e.blocks \ DOMAIN v.blocks : \E i \in 1..Len(cs) : b = first + i
    <2>1. Grown(v, e, f, first, seq, cs)
      BY AttachShape
    <2> HIDE DEF e, first
    <2> QED
      BY <2>1 DEF Grown
  <1>2. d.blockSeq \in Nat /\ d.blockSeq <= e.blockSeq /\ \A i \in 1..Len(cs) : first + i >= d.blockSeq
    BY <1>1 DEF TypeSound
  <1> HIDE DEF e, first, added
  <1>3. AddedOnly(added, f, first, seq, Len(cs))
    BY <1>1, AddedShape DEF added
  <1>4. ASSUME NEW b \in DOMAIN e.blocks \ DOMAIN v.blocks
        PROVE  /\ b >= d.blockSeq
               /\ e.blocks[b].size = Len(e.blocks[b].data) /\ e.blocks[b].sum = Hash(e.blocks[b].data)
               /\ \E m \in e.maps : m.block = b
    <2>1. PICK i \in 1..Len(cs) : b = first + i
      BY <1>1
    <2>2. e.blocks[b] = NewBlock(cs[i])
      BY <1>1, <2>1
    <2>3. \E m \in added : m.block = first + i
      BY <1>3 DEF AddedOnly
    <2> QED
      BY <1>1, <1>2, <2>1, <2>2, <2>3 DEF NewBlock
  <1>5. ASSUME NEW m \in e.maps \ v.maps
        PROVE  m.block \in DOMAIN e.blocks \ DOMAIN v.blocks /\ ~e.blocks[m.block].free
    <2>1. PICK i \in 1..Len(cs) : m.block = first + i
      BY <1>1, <1>3 DEF AddedOnly
    <2>2. e.blocks[m.block] = NewBlock(cs[i])
      BY <1>1, <2>1
    <2> QED
      BY <1>1, <2>1, <2>2 DEF NewBlock
  <1> QED
    BY <1>1, <1>2, <1>4, <1>5 DEF Evolves, e

(* Blocks that have lost their mapping are freed, and the change says so. *)
LEMMA FreedReleases ==
  ASSUME NEW d, TypeSound(d), MapsSound(d), NEW e, TypeSound(e), NEW ids,
         DOMAIN d.blocks \subseteq DOMAIN e.blocks,
         \A b \in BlocksOf(d, ids) : \A m \in e.maps : m.block # b
  PROVE  \A b \in BlocksOf(d, ids) : b \in DOMAIN Change(d, Freed(e, BlocksOf(d, ids))).blocks
  <1> DEFINE bs == BlocksOf(d, ids)
             u == Freed(e, bs)
  <1>1. \A b \in bs : b \in DOMAIN d.blocks /\ ~d.blocks[b].free
    BY DEF BlocksOf, MapsOfAll, MapsSound
  <1> HIDE DEF bs
  <1>2. /\ DOMAIN u.blocks = DOMAIN e.blocks
        /\ \A b \in DOMAIN e.blocks :
             \/ b \notin bs \/ \E m \in e.maps : m.block = b
             \/ u.blocks[b].free
    BY FreedShape
  <1> HIDE DEF u
  <1>3. \A b \in bs : b \in DOMAIN u.blocks /\ u.blocks[b].free
    BY <1>1, <1>2 DEF bs
  <1>4. \A b \in bs : b \in DOMAIN Change(d, u).blocks
    BY <1>1, <1>3, ChangeShape
  <1> QED
    BY <1>4 DEF bs, u

LEMMA GrownChange ==
  ASSUME NEW d, TypeSound(d), MapsSound(d), NEW c, ChangeTyped(d, c), c.maps = {},
         NEW v, ChangedBy(d, c, v), NEW n \in Nat, NEW s \in Nat, NEW cs \in Seq(Seq(Bytes)),
         NEW first, NEW u, Grown(v, u, n, first, s, cs), NEW g, g.maps = u.maps,
         \A i \in 1..Len(cs) : first + i \in DOMAIN g.blocks /\ g.blocks[first + i] = NewBlock(cs[i])
  PROVE  /\ Change(d, g).maps = Added(n, first, s, cs)
         /\ Change(d, g).unmaps = d.maps \cap c.unmaps
         /\ \A i \in 1..Len(cs) : /\ first + i \in DOMAIN Change(d, g).blocks
                                  /\ Change(d, g).blocks[first + i] = NewBlock(cs[i])
  <1> DEFINE added == Added(n, first, s, cs)
             h == Change(d, g)
  <1>1. /\ u.maps = v.maps \cup added /\ first \in Nat
        /\ \A i \in 1..Len(cs) : first + i \notin DOMAIN v.blocks
    BY DEF Grown
  <1>2. v.maps = d.maps \ c.unmaps /\ DOMAIN d.blocks \subseteq DOMAIN v.blocks
    BY DEF ChangedBy
  <1>3. AddedOnly(added, n, first, s, Len(cs))
    BY <1>1, AddedShape
  <1>4. /\ DOMAIN h.blocks \subseteq DOMAIN g.blocks
        /\ \A b \in DOMAIN g.blocks : b \notin DOMAIN h.blocks => b \in DOMAIN d.blocks
        /\ \A b \in DOMAIN h.blocks : h.blocks[b] = g.blocks[b]
        /\ h.maps = g.maps \ d.maps /\ h.unmaps = d.maps \ g.maps
    BY ChangeShape
  <1> HIDE DEF added, h
  <1>5. ASSUME NEW m \in added PROVE m \notin d.maps
    <2>1. PICK i \in 1..Len(cs) : m.block = first + i
      BY <1>3 DEF AddedOnly
    <2>2. m.block \notin DOMAIN d.blocks
      BY <1>1, <1>2, <2>1
    <2> QED
      BY <2>2 DEF MapsSound
  <1>6. h.maps = added /\ h.unmaps = d.maps \cap c.unmaps
    BY <1>1, <1>2, <1>4, <1>5
  <1>7. ASSUME NEW i \in 1..Len(cs)
        PROVE  first + i \in DOMAIN h.blocks /\ h.blocks[first + i] = NewBlock(cs[i])
    <2>1. first + i \in DOMAIN g.blocks /\ first + i \notin DOMAIN d.blocks
      BY <1>1, <1>2
    <2> QED
      BY <1>4, <2>1
  <1> QED
    BY <1>6, <1>7 DEF h, added

LEMMA GrownMaps ==
  ASSUME NEW d, TypeSound(d), MapsSound(d), NEW c, ChangeTyped(d, c), c.maps = {},
         NEW v, ChangedBy(d, c, v), NEW n \in Nat, NEW s \in Nat, NEW cs \in Seq(Seq(Bytes)),
         NEW first, NEW e, Grown(v, e, n, first, s, cs), NEW h, h = Change(d, e)
  PROVE  h.maps = Added(n, first, s, cs) /\ h.unmaps = d.maps \cap c.unmaps
  <1>1. /\ e.maps = e.maps
        /\ \A i \in 1..Len(cs) : first + i \in DOMAIN e.blocks /\ e.blocks[first + i] = NewBlock(cs[i])
    BY DEF Grown
  <1>2. /\ Change(d, e).maps = Added(n, first, s, cs)
        /\ Change(d, e).unmaps = d.maps \cap c.unmaps
    BY <1>1, GrownChange
  <1> QED
    BY <1>2

(* A change that has just mapped the chunks cs has them attached. *)
LEMMA GrownAttached ==
  ASSUME NEW d, TypeSound(d), MapsSound(d), NEW c, ChangeTyped(d, c), c.maps = {},
         NEW v, ChangedBy(d, c, v), NEW n \in Nat, NEW s \in Nat, s <= d.blockSeq,
         NEW cs \in Seq(Seq(Bytes)),
         NEW first, NEW u, Grown(v, u, n, first, s, cs), NEW g, g.maps = u.maps, g.blockSeq = u.blockSeq,
         \A i \in 1..Len(cs) : first + i \in DOMAIN g.blocks /\ g.blocks[first + i] = NewBlock(cs[i]),
         NEW c1, c1.change = Change(d, g)
  PROVE  Attached(Ticked(d, g), c1, n, s, cs)
  <1> DEFINE k == Ticked(d, g)
  <1>1. /\ c1.change.maps = Added(n, first, s, cs)
        /\ \A i \in 1..Len(cs) : /\ first + i \in DOMAIN c1.change.blocks
                                 /\ c1.change.blocks[first + i] = NewBlock(cs[i])
    BY GrownChange
  <1>2. k.blockSeq = d.blockSeq + Len(cs) /\ d.blockSeq \in Nat /\ Len(cs) \in Nat /\ first = d.blockSeq - 1
    BY DEF Ticked, Grown, ChangedBy, TypeSound
  <1> HIDE DEF k
  <1>3. first \in 0..k.blockSeq /\ s + Len(cs) <= k.blockSeq
    BY <1>2 DEF Grown
  <1> QED
    BY <1>1, <1>3 DEF Attached, Added, k

LEMMA NodesSame ==
  ASSUME NEW d, NEW e, NodeIds(e) = NodeIds(d), \A n \in NodeIds(d) : e.nodes[n] = d.nodes[n]
  PROVE  DOMAIN Change(d, e).nodes = {}
  <1>1. \A n \in NodeIds(e) : n \in NodeIds(d) /\ e.nodes[n] = d.nodes[n]
    OBVIOUS
  <1> QED
    BY <1>1, ChangeShape DEF NodeIds

LEMMA ViewParts ==
  ASSUME MaintenanceInv, NEW t \in Transactions
  PROVE  /\ TypeSound(disk) /\ MapsSound(disk) /\ disk.blockSeq \in Nat
         /\ TxOk(disk, t, tx[t]) /\ ChangeOk(disk, tx[t].change) /\ ChangeTyped(disk, tx[t].change)
         /\ ChangedBy(disk, tx[t].change, View(t)) /\ TypeSound(View(t))
         /\ NodeIds(View(t)) = NodeIds(disk) /\ View(t).blockSeq = disk.blockSeq
         /\ \A n \in DOMAIN tx[t].change.nodes : View(t).nodes[n] = tx[t].change.nodes[n]
         /\ \A n \in NodeIds(disk) \ DOMAIN tx[t].change.nodes : View(t).nodes[n] = disk.nodes[n]
         /\ {"at", "change", "locked", "shared"} \subseteq DOMAIN tx[t]
  <1>1. /\ TypeSound(disk) /\ MapsSound(disk) /\ disk.blockSeq \in Nat
        /\ TxOk(disk, t, tx[t]) /\ ChangeOk(disk, tx[t].change) /\ ChangeTyped(disk, tx[t].change)
    BY DEF MaintenanceInv, ChangeOk, TypeSound
  <1>2. /\ ChangedBy(disk, tx[t].change, View(t)) /\ TypeSound(View(t))
        /\ NodeIds(View(t)) = NodeIds(disk)
        /\ \A n \in DOMAIN tx[t].change.nodes : View(t).nodes[n] = tx[t].change.nodes[n]
        /\ \A n \in NodeIds(disk) \ DOMAIN tx[t].change.nodes : View(t).nodes[n] = disk.nodes[n]
    BY <1>1, ApplyShape DEF View
  <1>3. View(t).blockSeq = disk.blockSeq
    BY <1>2 DEF ChangedBy
  <1>4. {"at", "change", "locked", "shared"} \subseteq DOMAIN tx[t]
    BY <1>1 DEF TxOk, Idle
  <1> QED
    BY <1>1, <1>2, <1>3, <1>4

(* Once the mappings of ids are removed nothing maps their blocks. *)
LEMMA RemovedUnowned ==
  ASSUME NEW d, MapsSound(d), NEW ids, NEW S, S \cap DOMAIN d.blocks = {},
         NEW ms, \A m \in ms : m \in d.maps \ MapsOfAll(d, ids) \/ m.block \in S
  PROVE  \A b \in BlocksOf(d, ids) : \A m \in ms : m.block # b
  <1> SUFFICES ASSUME NEW b \in BlocksOf(d, ids), NEW m \in ms, m.block = b
               PROVE  FALSE
    OBVIOUS
  <1>1. PICK k \in d.maps : k.file \in ids /\ k.block = b
    BY DEF BlocksOf, MapsOfAll
  <1>2. CASE m \in d.maps \ MapsOfAll(d, ids)
    BY <1>1, <1>2 DEF MapsSound, MapsOfAll
  <1>3. CASE m.block \in S
    BY <1>1, <1>3 DEF MapsSound
  <1> QED
    BY <1>2, <1>3

LEMMA RechunkAttachInv ==
  ASSUME MaintenanceInv, NEW t \in Rechunkers, RechunkAttach(t)
  PROVE  StepOk
  <1> DEFINE n  == tx[t].node
             cs == Chunks(tx[t].data, tx[t].bsize)
             u  == AttachBlocks(View(t), n, 0, cs)
             bs == tx[t].listed
             g  == Freed(u, bs)
             c  == [tx[t] EXCEPT !.at = "update"]
             h  == Change(disk, g)
             c1 == [c EXCEPT !.change = h]
             first == View(t).blockSeq - 1
             k  == Ticked(disk, g)
  <1>1. /\ t \in Transactions /\ tx[t].at = "free" /\ t # "writer"
        /\ \A b \in bs : BlockFree(t, b)
        /\ Continue(t, c, g)
    BY MaintenanceAssumption DEF RechunkAttach, Transactions
  <1>2. /\ TypeSound(disk) /\ MapsSound(disk) /\ disk.blockSeq \in Nat
        /\ TxOk(disk, t, tx[t]) /\ ChangeTyped(disk, tx[t].change)
        /\ ChangedBy(disk, tx[t].change, View(t)) /\ TypeSound(View(t))
        /\ NodeIds(View(t)) = NodeIds(disk) /\ View(t).blockSeq = disk.blockSeq
        /\ \A i \in NodeIds(disk) \ DOMAIN tx[t].change.nodes : View(t).nodes[i] = disk.nodes[i]
        /\ {"at", "change", "locked", "shared"} \subseteq DOMAIN tx[t]
    BY <1>1, ViewParts
  <1>3. RechunkOk(disk, tx[t]) /\ Removed(disk, tx[t])
    BY <1>1, <1>2, IdleOk DEF TxOk, RechunkOk
  <1>4. /\ n \in NodeIds(disk) /\ tx[t].ids = {n} /\ tx[t].bsize \in BlockSizes
        /\ tx[t].data = Content(disk, n) /\ DOMAIN tx[t].change.nodes = {}
        /\ {"ids", "node", "row", "bsize", "data", "listed"} \subseteq DOMAIN tx[t]
        /\ bs = BlocksOf(disk, tx[t].ids) /\ tx[t].change.maps = {}
        /\ tx[t].change.unmaps = MapsOfAll(disk, tx[t].ids)
    BY <1>1, <1>3 DEF RechunkOk, Removed
  <1>5. cs \in Seq(Seq(Bytes)) /\ n \in Nat
    <2>1. tx[t].data \in Seq(Bytes) /\ n \in Nat
      BY <1>2, <1>4, ContentType DEF TypeSound
    <2> HIDE DEF n
    <2> QED
      BY <1>4, <2>1, ChunksType, TablesAssumption
  <1> HIDE DEF cs, n, bs
  <1>6. Grown(View(t), u, n, first, 0, cs)
    BY <1>2, <1>5, AttachShape
  <1>7. Evolves(disk, View(t), u, {})
    BY <1>2, <1>5, AttachEvolves
  <1>8. Evolves(disk, View(t), g, bs)
    BY <1>7, FreedEvolves
  <1> HIDE DEF u, first
  <1>9. /\ TypeSound(u) /\ u.maps = View(t).maps \cup Added(n, first, 0, cs) /\ first \in Nat
        /\ u.nodes = View(t).nodes
        /\ DOMAIN View(t).blocks \subseteq DOMAIN u.blocks
        /\ \A i \in 1..Len(cs) : /\ first + i \in DOMAIN u.blocks /\ first + i \notin DOMAIN View(t).blocks
                                 /\ u.blocks[first + i] = NewBlock(cs[i])
    BY <1>6 DEF Grown
  <1>10. AddedOnly(Added(n, first, 0, cs), n, first, 0, Len(cs))
    BY <1>5, <1>9, AddedShape
  <1>11. /\ TypeSound(g) /\ NodeIds(g) = NodeIds(u) /\ g.nodes = u.nodes /\ g.maps = u.maps
         /\ g.blockSeq = u.blockSeq /\ DOMAIN g.blocks = DOMAIN u.blocks
         /\ \A b \in DOMAIN u.blocks : (\E m \in u.maps : m.block = b) => g.blocks[b] = u.blocks[b]
    BY <1>9, FreedShape
  <1>12. /\ DOMAIN disk.blocks \subseteq DOMAIN View(t).blocks
         /\ View(t).maps = disk.maps \ MapsOfAll(disk, tx[t].ids)
    BY <1>2, <1>4 DEF ChangedBy
  <1>13. \A b \in BlocksOf(disk, tx[t].ids) : b \in DOMAIN h.blocks
    <2> DEFINE S == {first + i : i \in 1..Len(cs)}
               ids == tx[t].ids
    <2>1. S \cap DOMAIN disk.blocks = {}
      BY <1>9, <1>12
    <2>2. \A m \in u.maps : m \in disk.maps \ MapsOfAll(disk, ids) \/ m.block \in S
      BY <1>9, <1>10, <1>12, ZenonT(90) DEF AddedOnly
    <2> HIDE DEF S, ids
    <2>3. \A b \in BlocksOf(disk, ids) : \A m \in u.maps : m.block # b
      <3> DEFINE ms == u.maps
      <3>1. \A m \in ms : m \in disk.maps \ MapsOfAll(disk, ids) \/ m.block \in S
        BY <2>2
      <3> HIDE DEF ms
      <3>2. \A b \in BlocksOf(disk, ids) : \A m \in ms : m.block # b
        BY <1>2, <2>1, <3>1, RemovedUnowned
      <3> QED
        BY <3>2 DEF ms
    <2>4. DOMAIN disk.blocks \subseteq DOMAIN u.blocks
      BY <1>9, <1>12
    <2>5. \A b \in BlocksOf(disk, ids) : b \in DOMAIN Change(disk, Freed(u, BlocksOf(disk, ids))).blocks
      BY <1>2, <1>9, <2>3, <2>4, FreedReleases
    <2> QED
      BY <1>4, <2>5 DEF ids
  <1>14. \A i \in 1..Len(cs) : first + i \in DOMAIN g.blocks /\ g.blocks[first + i] = NewBlock(cs[i])
    <2>1. ASSUME NEW i \in 1..Len(cs) PROVE \E m \in u.maps : m.block = first + i
      BY <1>9, <1>10 DEF AddedOnly
    <2> QED
      BY <1>9, <1>11, <2>1
  <1> HIDE DEF g
  <1>15. /\ h.maps = Added(n, first, 0, cs)
         /\ h.unmaps = disk.maps \cap tx[t].change.unmaps
    BY <1>2, <1>4, <1>5, <1>6, <1>11, <1>14, GrownChange
  <1>16. DOMAIN h.nodes = {}
    <2>1. NodeIds(g) = NodeIds(disk) /\ \A i \in NodeIds(disk) : g.nodes[i] = disk.nodes[i]
      BY <1>2, <1>4, <1>9, <1>11 DEF NodeIds
    <2> QED
      BY <2>1, NodesSame
  <1> HIDE DEF h
  <1>17. h.unmaps = MapsOfAll(disk, tx[t].ids)
    BY <1>4, <1>15 DEF MapsOfAll
  <1>18. DOMAIN c = DOMAIN tx[t] /\ c.at = "update" /\ \A i \in DOMAIN tx[t] : i # "at" => c[i] = tx[t][i]
    BY <1>2
  <1> HIDE DEF c
  <1>19. /\ DOMAIN c1 = DOMAIN tx[t] /\ c1.change = h /\ c1.at = "update"
         /\ \A i \in DOMAIN tx[t] : i \notin {"at", "change"} => c1[i] = tx[t][i]
    BY <1>2, <1>18
  <1> HIDE DEF c1
  <1>20. /\ c1.ids = tx[t].ids /\ c1.locked = tx[t].locked /\ c1.shared = tx[t].shared
         /\ c1.node = n /\ c1.row = tx[t].row /\ c1.bsize = tx[t].bsize /\ c1.data = tx[t].data
         /\ c1.listed = bs /\ {"ids", "node", "row", "bsize", "data", "listed"} \subseteq DOMAIN c1
    BY <1>2, <1>4, <1>19 DEF n, bs
  <1>21. /\ TypeSound(k) /\ NodeIds(k) = NodeIds(disk) /\ k.nodes = disk.nodes /\ k.maps = disk.maps
         /\ Kept(disk, k, n)
    <2>1. g.blockSeq \in Nat /\ disk.blockSeq <= g.blockSeq
      BY <1>8 DEF Evolves, TypeSound
    <2> QED
      BY <1>2, <1>4, <2>1, TickedSame
  <1>22. Attached(k, c1, n, 0, cs)
    <2>1. c1.change = Change(disk, g) /\ 0 <= disk.blockSeq /\ 0 \in Nat
      BY <1>2, <1>19 DEF h
    <2> QED
      BY <1>2, <1>4, <1>5, <1>6, <1>11, <1>14, <2>1, GrownAttached
  <1> HIDE DEF k
  <1>23. Content(k, n) = Content(disk, n)
    BY <1>2, <1>4, <1>21, KeptParts
  <1>24. MapsOfAll(k, tx[t].ids) = MapsOfAll(disk, tx[t].ids) /\ BlocksOf(k, tx[t].ids) = BlocksOf(disk, tx[t].ids)
    BY <1>21 DEF MapsOfAll, BlocksOf
  <1>25. Released(k, c1)
    BY <1>13, <1>17, <1>19, <1>20, <1>24 DEF Released, h
  <1>26. c1.data = Content(k, n) /\ c1.row.size = Len(c1.data) /\ cs = Chunks(c1.data, c1.bsize)
    BY <1>1, <1>3, <1>4, <1>20, <1>23 DEF RechunkOk, cs
  <1>27. RechunkOk(k, c1)
    BY <1>1, <1>3, <1>4, <1>16, <1>19, <1>20, <1>21, <1>22, <1>25, <1>26 DEF RechunkOk, n
  <1>28. TxOk(k, t, c1)
    BY <1>2, <1>19, <1>27 DEF TxOk
  <1>29. {"at", "change", "locked", "shared"} \subseteq DOMAIN c /\ c.locked = tx[t].locked /\ c.shared = tx[t].shared
    BY <1>2, <1>18
  <1>30. TxOk(Ticked(disk, g), t, [c EXCEPT !.change = Change(disk, g)])
    BY <1>28 DEF k, c1, h
  <1> QED
    BY <1>1, <1>8, <1>29, <1>30, ContinueHeld

-----------------------------------------------------------------------------
(* Commits *)

LEMMA AttachedCommits ==
  ASSUME NEW d, TypeSound(d), MapsSound(d), NEW c, ChangeOk(d, c.change),
         NEW n \in NodeIds(d), c.change.unmaps \subseteq MapsOf(d, n),
         NEW d0, TypeSound(d0), MapsSound(d0), d0.maps = d.maps \ c.change.unmaps,
         d0.nodes = d.nodes, d0.blocks = d.blocks, d0.blockSeq = d.blockSeq,
         NEW e, TypeSound(e), ChangedBy(d, c.change, e), NodeIds(e) = NodeIds(d),
         \A i \in NodeIds(d) \ {n} : e.nodes[i] = d.nodes[i], e.nodes[n].type = "file",
         d.nodes[n].type = "file",
         NEW s \in Nat, SequencesOf(d0, n) = 0..(s - 1), NEW cs \in Seq(Seq(Bytes)),
         Attached(d, c, n, s, cs)
  PROVE  /\ MapsSound(e)
         /\ Content(e, n) = Content(d0, n) \o FlattenSeq(cs)
         /\ \A g \in NodeIds(d) \ {n} : Kept(d, e, g)
  <1> DEFINE h == c.change
  <1>1. PICK first \in 0..d.blockSeq :
          /\ h.maps = Added(n, first, s, cs)
          /\ \A i \in 1..Len(cs) : /\ first + i \in DOMAIN h.blocks
                                   /\ h.blocks[first + i] = NewBlock(cs[i])
          /\ s + Len(cs) <= d.blockSeq
    BY DEF Attached, Added
  <1>2. /\ first \in Nat /\ d.blockSeq \in Nat /\ e.blockSeq = d.blockSeq
        /\ NodeIds(d0) = NodeIds(d) /\ n \in Nat
    BY <1>1 DEF TypeSound, ChangedBy, NodeIds
  <1>3. /\ e.maps = (d.maps \ h.unmaps) \cup h.maps
        /\ DOMAIN e.blocks = DOMAIN d.blocks \cup DOMAIN h.blocks
        /\ \A b \in DOMAIN h.blocks : e.blocks[b] = h.blocks[b]
        /\ \A b \in DOMAIN d.blocks \ DOMAIN h.blocks : e.blocks[b] = d.blocks[b]
    BY DEF ChangedBy
  <1>4. /\ \A m \in h.maps : m.block \notin DOMAIN d.blocks
        /\ \A b \in DOMAIN h.blocks : b \in DOMAIN d.blocks =>
             \A m \in d.maps : m.block = b => m \in h.unmaps
    BY DEF ChangeOk
  <1> HIDE DEF h
  <1>5. AddedOnly(h.maps, n, first, s, Len(cs))
    BY <1>1, <1>2, AddedShape
  <1>6. ASSUME NEW i \in 1..Len(cs) PROVE first + i \notin DOMAIN d.blocks
    <2>1. \E m \in h.maps : m.block = first + i
      BY <1>5 DEF AddedOnly
    <2> QED
      BY <1>4, <2>1
  <1>7. ASSUME NEW m \in d0.maps
        PROVE  /\ m \in d.maps /\ m.block \in DOMAIN d.blocks /\ m.block \notin DOMAIN h.blocks
               /\ m.block \in DOMAIN e.blocks /\ e.blocks[m.block] = d.blocks[m.block]
               /\ ~d.blocks[m.block].free /\ m.file \in NodeIds(e) /\ e.nodes[m.file].type = "file"
    <2>1. m \in d.maps /\ m \notin h.unmaps
      BY DEF h
    <2>2. /\ m.file \in NodeIds(d) /\ d.nodes[m.file].type = "file"
          /\ m.block \in DOMAIN d.blocks /\ ~d.blocks[m.block].free
      BY <2>1 DEF MapsSound
    <2>3. m.block \notin DOMAIN h.blocks
      BY <1>4, <2>1, <2>2
    <2> QED
      BY <1>3, <2>1, <2>2, <2>3
  <1>8. Attaches(d0, e, n, s, cs, first)
    <2>1. e.maps = d0.maps \cup Added(n, first, s, cs)
      BY <1>1, <1>3 DEF h
    <2>2. \A i \in 1..Len(cs) : /\ first + i \in DOMAIN e.blocks /\ first + i \notin DOMAIN d0.blocks
                                /\ e.blocks[first + i] = NewBlock(cs[i])
      BY <1>1, <1>3, <1>6
    <2>3. \A m \in d0.maps : /\ m.file \in NodeIds(e) /\ e.nodes[m.file].type = "file"
                             /\ m.block \in DOMAIN e.blocks /\ ~e.blocks[m.block].free
                             /\ e.blocks[m.block].data = d0.blocks[m.block].data
      BY <1>7
    <2> QED
      BY <1>1, <1>2, <2>1, <2>2, <2>3 DEF Attaches
  <1>9. MapsSound(e)
    BY <1>2, <1>8, AttachesMaps
  <1>10. Content(e, n) = Content(d0, n) \o FlattenSeq(cs)
    <2>1. /\ Content(e, n) = Content(d0, n) \o FlattenSeq(cs)
          /\ \A g \in NodeIds(d0) \ {n} : Content(e, g) = Content(d0, g)
      BY <1>2, <1>8, AttachesContent
    <2> QED
      BY <2>1
  <1>11. ASSUME NEW g \in NodeIds(d) \ {n} PROVE Kept(d, e, g)
    <2>1. MapsOf(e, g) = MapsOf(d0, g)
      BY <1>8, AttachesOthers
    <2>2. MapsOf(d0, g) = MapsOf(d, g)
      BY DEF MapsOf
    <2>3. \A m \in MapsOf(d, g) : m \in d0.maps
      BY <2>2 DEF MapsOf
    <2> QED
      BY <1>7, <2>1, <2>2, <2>3 DEF Kept
  <1> QED
    BY <1>9, <1>10, <1>11

(* A file that is laid out anew: its mappings removed, then attached. *)
LEMMA UnmappedSound ==
  ASSUME NEW d, TypeSound(d), MapsSound(d), NEW n \in NodeIds(d)
  PROVE  LET e == Unmapped(d, {n})
         IN  /\ TypeSound(e) /\ MapsSound(e) /\ e.maps = d.maps \ MapsOfAll(d, {n})
             /\ e.nodes = d.nodes /\ e.blocks = d.blocks /\ e.blockSeq = d.blockSeq
             /\ SequencesOf(e, n) = 0..(0 - 1) /\ Content(e, n) = <<>>
  <1> DEFINE e == Unmapped(d, {n})
  <1>1. /\ TypeSound(e) /\ NodeIds(e) = NodeIds(d) /\ e.nodes = d.nodes /\ e.blocks = d.blocks
        /\ e.maps = {m \in d.maps : m.file \notin {n}} /\ e.blockSeq = d.blockSeq
    BY UnmappedShape
  <1> HIDE DEF e
  <1>2. e.maps = d.maps \ MapsOfAll(d, {n})
    BY <1>1 DEF MapsOfAll
  <1>3. MapsOf(e, n) = {} /\ \A g : g # n => MapsOf(e, g) = MapsOf(d, g)
    BY <1>1 DEF MapsOf
  <1>4. SequencesOf(e, n) = {} /\ \A g : g # n => SequencesOf(e, g) = SequencesOf(d, g)
    BY <1>3 DEF SequencesOf
  <1>5. 0..(0 - 1) = {} /\ 0 \in 0..d.blockSeq
    BY DEF TypeSound
  <1>6. \A f \in NodeIds(e) : \E k \in 0..e.blockSeq : SequencesOf(e, f) = 0..(k - 1)
    BY <1>1, <1>4, <1>5 DEF MapsSound
  <1>7. MapsSound(e)
    BY <1>1, <1>6 DEF MapsSound
  <1>8. Content(e, n) = <<>>
    BY <1>3, NoMapsNoContent
  <1> QED
    BY <1>1, <1>2, <1>4, <1>5, <1>7, <1>8 DEF e

(* A commit that describes its files as they are may be published. *)
LEMMA CommitPublishes ==
  ASSUME NEW d, TypeSound(d), MapsSound(d), RowsMatchContent(d), NEW h, ChangeOk(d, h),
         NEW e, TypeSound(e), MapsSound(e), d.blockSeq <= e.blockSeq,
         DOMAIN e.blocks = DOMAIN d.blocks \cup DOMAIN h.blocks,
         \A b \in DOMAIN h.blocks : e.blocks[b] = h.blocks[b],
         \A b \in DOMAIN d.blocks \ DOMAIN h.blocks : e.blocks[b] = d.blocks[b],
         e.maps \subseteq d.maps \cup h.maps,
         \A n \in NodeIds(e) : (n \in NodeIds(d) /\ Kept(d, e, n)) \/ FileMatches(e, n),
         LaysOut(d, e)
  PROVE  Publishes(d, h, e)
  <1>1. BlocksMatch(e)
    <2>1. \A b \in DOMAIN d.blocks : d.blocks[b].size = Len(d.blocks[b].data) /\ d.blocks[b].sum = Hash(d.blocks[b].data)
      BY DEF RowsMatchContent
    <2>2. \A b \in DOMAIN h.blocks : h.blocks[b].size = Len(h.blocks[b].data) /\ h.blocks[b].sum = Hash(h.blocks[b].data)
      BY DEF ChangeOk
    <2> QED
      BY <2>1, <2>2 DEF BlocksMatch
  <1>2. ASSUME NEW n \in NodeIds(e) PROVE FileMatches(e, n)
    <2>1. CASE n \in NodeIds(d) /\ Kept(d, e, n)
      <3>1. Content(e, n) = Content(d, n) /\ e.nodes[n] = d.nodes[n]
        BY <2>1, KeptParts DEF Kept
      <3> QED
        BY <2>1, <3>1 DEF FileMatches, RowsMatchContent
    <2>2. CASE FileMatches(e, n)
      BY <2>2
    <2> QED
      BY <2>1, <2>2
  <1>3. RowsMatchContent(e)
    BY <1>1, <1>2 DEF RowsMatchContent, FileMatches, BlocksMatch
  <1>4. \A m \in e.maps \ d.maps : m.block \in DOMAIN e.blocks \ DOMAIN d.blocks
    BY DEF ChangeOk
  <1> QED
    BY <1>3, <1>4 DEF Publishes

(* ... and leaves no used block without an owner, if it has freed the blocks
   whose mappings are gone. *)
LEMMA CommitOwned ==
  ASSUME NEW d, NEW h, ChangeOk(d, h), NEW e, BlocksOwned(d),
         DOMAIN e.blocks = DOMAIN d.blocks \cup DOMAIN h.blocks,
         \A b \in DOMAIN h.blocks : e.blocks[b] = h.blocks[b],
         \A b \in DOMAIN d.blocks \ DOMAIN h.blocks : e.blocks[b] = d.blocks[b],
         h.maps \subseteq e.maps,
         \A m \in d.maps : m \in e.maps \/ m.block \in DOMAIN h.blocks
  PROVE  BlocksOwned(e)
  <1> SUFFICES ASSUME NEW b \in DOMAIN e.blocks, ~e.blocks[b].free
               PROVE  \E m \in e.maps : m.block = b
    BY DEF BlocksOwned
  <1>1. CASE b \in DOMAIN h.blocks
    BY <1>1 DEF ChangeOk
  <1>2. CASE b \notin DOMAIN h.blocks
    BY <1>2 DEF BlocksOwned
  <1> QED
    BY <1>1, <1>2

LEMMA AttachCommitInv ==
  ASSUME MaintenanceInv, NEW t \in Transactions, NEW e, Commit(t, e),
         NEW n \in NodeIds(disk), disk.nodes[n].type = "file", NodeFree(t, n),
         tx[t].change.unmaps \subseteq MapsOf(disk, n),
         \A m \in tx[t].change.unmaps : m.block \in DOMAIN tx[t].change.blocks,
         NEW d0, TypeSound(d0), MapsSound(d0), d0.maps = disk.maps \ tx[t].change.unmaps,
         d0.nodes = disk.nodes, d0.blocks = disk.blocks, d0.blockSeq = disk.blockSeq,
         NEW s \in Nat, SequencesOf(d0, n) = 0..(s - 1),
         NEW data \in Seq(Bytes), NEW bs \in BlockSizes,
         Attached(disk, tx[t], n, s, Chunks(data, bs)),
         TypeSound(e), e.maps = View(t).maps, e.blocks = View(t).blocks,
         e.blockSeq = View(t).blockSeq, e.nodeSeq = View(t).nodeSeq,
         NodeIds(e) = NodeIds(disk), \A i \in NodeIds(disk) \ {n} : e.nodes[i] = disk.nodes[i],
         e.nodes[n].type = "file", e.nodes[n].ver > disk.nodes[n].ver,
         e.nodes[n].size = Len(Content(d0, n) \o data), e.nodes[n].sum = Hash(Content(d0, n) \o data)
  PROVE  /\ StepOk
         /\ Content(e, n) = Content(d0, n) \o data
         /\ \A i \in NodeIds(disk) \ {n} : Kept(disk, e, i)
  <1> DEFINE cs == Chunks(data, bs)
             h == tx[t].change
  <1>1. /\ TypeSound(disk) /\ MapsSound(disk) /\ disk.blockSeq \in Nat /\ RowsMatchContent(disk)
        /\ ChangeOk(disk, h) /\ ChangedBy(disk, h, View(t))
    BY ViewParts DEF MaintenanceInv
  <1>2. ChangedBy(disk, h, e)
    BY <1>1 DEF ChangedBy
  <1>3. cs \in Seq(Seq(Bytes)) /\ FlattenSeq(cs) = data
    BY ChunksType, ChunksJoin, TablesAssumption
  <1>a. Attached(disk, tx[t], n, s, cs)
    OBVIOUS
  <1> HIDE DEF cs
  <1>4. /\ MapsSound(e) /\ Content(e, n) = Content(d0, n) \o FlattenSeq(cs)
        /\ \A g \in NodeIds(disk) \ {n} : Kept(disk, e, g)
    <2>1. ChangeOk(disk, tx[t].change) /\ ChangedBy(disk, tx[t].change, e)
      BY <1>1, <1>2
    <2> DEFINE c == tx[t]
    <2> HIDE DEF c, h
    <2>2. /\ ChangeOk(disk, c.change) /\ ChangedBy(disk, c.change, e)
          /\ c.change.unmaps \subseteq MapsOf(disk, n) /\ d0.maps = disk.maps \ c.change.unmaps
          /\ Attached(disk, c, n, s, cs)
      BY <1>a, <2>1 DEF c
    <2>3. /\ MapsSound(e) /\ Content(e, n) = Content(d0, n) \o FlattenSeq(cs)
          /\ \A g \in NodeIds(disk) \ {n} : Kept(disk, e, g)
      BY <1>1, <1>3, <2>2, AttachedCommits, SMTT(60)
    <2> QED
      BY <2>3
  <1>5. FileMatches(e, n)
    BY <1>3, <1>4 DEF FileMatches
  <1>6. LaysOut(disk, e)
    BY <1>4 DEF LaysOut, Kept
  <1>7. /\ DOMAIN e.blocks = DOMAIN disk.blocks \cup DOMAIN h.blocks
        /\ \A b \in DOMAIN h.blocks : e.blocks[b] = h.blocks[b]
        /\ \A b \in DOMAIN disk.blocks \ DOMAIN h.blocks : e.blocks[b] = disk.blocks[b]
        /\ e.maps = (disk.maps \ h.unmaps) \cup h.maps /\ e.blockSeq = disk.blockSeq
    BY <1>2 DEF ChangedBy
  <1> HIDE DEF h
  <1>8. \A i \in NodeIds(e) : (i \in NodeIds(disk) /\ Kept(disk, e, i)) \/ FileMatches(e, i)
    BY <1>4, <1>5
  <1>9. Publishes(disk, h, e)
    BY <1>1, <1>4, <1>6, <1>7, <1>8, CommitPublishes
  <1>10. BlocksOwned(disk) => BlocksOwned(e)
    <2>1. \A m \in disk.maps : m \in e.maps \/ m.block \in DOMAIN h.blocks
      BY <1>7 DEF h
    <2> QED
      BY <1>1, <1>7, <2>1, CommitOwned
  <1>11. \A i \in NodeIds(disk) : Kept(disk, e, i) \/ NodeFree(t, i)
    BY <1>4
  <1>12. StepOk
    BY <1>9, <1>10, <1>11, CommitInv DEF h
  <1> QED
    BY <1>3, <1>4, <1>12

(* A rechunk or an overwrite commits a file that is laid out anew. *)
LEMMA AnewCommitInv ==
  ASSUME MaintenanceInv, NEW t \in Transactions, NEW e, Commit(t, e),
         NEW n \in NodeIds(disk), disk.nodes[n].type = "file", NodeFree(t, n),
         tx[t].ids = {n}, Released(disk, tx[t]),
         NEW data \in Seq(Bytes), NEW bs \in BlockSizes,
         Attached(disk, tx[t], n, 0, Chunks(data, bs)),
         TypeSound(e), e.maps = View(t).maps, e.blocks = View(t).blocks,
         e.blockSeq = View(t).blockSeq, e.nodeSeq = View(t).nodeSeq,
         NodeIds(e) = NodeIds(disk), \A i \in NodeIds(disk) \ {n} : e.nodes[i] = disk.nodes[i],
         e.nodes[n].type = "file", e.nodes[n].ver > disk.nodes[n].ver,
         e.nodes[n].size = Len(data), e.nodes[n].sum = Hash(data)
  PROVE  /\ StepOk
         /\ Content(e, n) = data
         /\ \A i \in NodeIds(disk) \ {n} : Kept(disk, e, i)
  <1> DEFINE d0 == Unmapped(disk, {n})
  <1>1. TypeSound(disk) /\ MapsSound(disk)
    BY ViewParts
  <1>2. /\ TypeSound(d0) /\ MapsSound(d0) /\ d0.maps = disk.maps \ MapsOfAll(disk, {n})
        /\ d0.nodes = disk.nodes /\ d0.blocks = disk.blocks /\ d0.blockSeq = disk.blockSeq
        /\ SequencesOf(d0, n) = 0..(0 - 1) /\ Content(d0, n) = <<>>
    BY <1>1, UnmappedSound
  <1> HIDE DEF d0
  <1>3. /\ tx[t].change.unmaps = MapsOfAll(disk, {n})
        /\ tx[t].change.unmaps \subseteq MapsOf(disk, n)
        /\ \A m \in tx[t].change.unmaps : m.block \in DOMAIN tx[t].change.blocks
    BY DEF Released, BlocksOf, MapsOfAll, MapsOf
  <1>4. Content(d0, n) \o data = data
    BY <1>2
  <1>5. /\ e.nodes[n].size = Len(Content(d0, n) \o data)
        /\ e.nodes[n].sum = Hash(Content(d0, n) \o data)
    BY <1>4
  <1>6. d0.maps = disk.maps \ tx[t].change.unmaps /\ 0 \in Nat
    BY <1>2, <1>3
  <1>7. /\ StepOk
        /\ Content(e, n) = Content(d0, n) \o data
        /\ \A i \in NodeIds(disk) \ {n} : Kept(disk, e, i)
    BY <1>2, <1>3, <1>5, <1>6, AttachCommitInv, ZenonT(90)
  <1> QED
    BY <1>4, <1>7

SetRow(v, n, row) == [v EXCEPT !.nodes[n] = row]

LEMMA RowUpdate ==
  ASSUME NEW v, TypeSound(v), NEW n \in NodeIds(v), NEW row, NodeRowSound(row),
         NEW e, e = SetRow(v, n, row)
  PROVE  /\ TypeSound(e) /\ e.maps = v.maps /\ e.blocks = v.blocks
         /\ e.blockSeq = v.blockSeq /\ e.nodeSeq = v.nodeSeq
         /\ NodeIds(e) = NodeIds(v) /\ e.nodes[n] = row
         /\ \A i \in NodeIds(v) \ {n} : e.nodes[i] = v.nodes[i]
  BY DEF TypeSound, NodeIds, SetRow

LEMMA RechunkUpdateInv ==
  ASSUME MaintenanceInv, NEW t \in Rechunkers, RechunkUpdate(t)
  PROVE  /\ StepOk
         /\ NodeIds(disk') = NodeIds(disk)
         /\ \A n \in NodeIds(disk) : Content(disk', n) = Content(disk, n)
  <1> DEFINE n   == tx[t].node
             row == RechunkRow(tx[t])
             e   == [View(t) EXCEPT !.nodes[n] = row]
  <1>1. /\ t \in Transactions /\ t # "writer" /\ tx[t].at = "update"
        /\ NodeFree(t, n) /\ Commit(t, e)
    BY MaintenanceAssumption DEF RechunkUpdate, Transactions
  <1>2. /\ TypeSound(disk) /\ MapsSound(disk)
        /\ TxOk(disk, t, tx[t]) /\ TypeSound(View(t)) /\ NodeIds(View(t)) = NodeIds(disk)
        /\ \A i \in NodeIds(disk) \ DOMAIN tx[t].change.nodes : View(t).nodes[i] = disk.nodes[i]
    BY <1>1, ViewParts
  <1>3. RechunkOk(disk, tx[t])
    BY <1>1, <1>2, IdleOk DEF TxOk
  <1>4. /\ n \in NodeIds(disk) /\ tx[t].ids = {n} /\ tx[t].bsize \in BlockSizes
        /\ tx[t].data = Content(disk, n) /\ DOMAIN tx[t].change.nodes = {}
        /\ tx[t].row = disk.nodes[n] /\ tx[t].row.type = "file"
        /\ Released(disk, tx[t]) /\ Attached(disk, tx[t], n, 0, Chunks(tx[t].data, tx[t].bsize))
    BY <1>1, <1>3 DEF RechunkOk
  <1>5. tx[t].data \in Seq(Bytes) /\ tx[t].bsize \in Nat \ {0}
    <2>1. tx[t].bsize \in Nat \ {0}
      BY <1>4, TablesAssumption
    <2> HIDE DEF n
    <2>2. Content(disk, n) \in Seq(Bytes)
      BY <1>2, <1>4, ContentType
    <2> QED
      BY <1>4, <2>1, <2>2
  <1>6. NodeRowSound(tx[t].row) /\ tx[t].row.ver \in Nat
    BY <1>2, <1>4 DEF TypeSound, NodeRowSound
  <1>7. /\ NodeRowSound(row) /\ row.type = "file" /\ row.ver = tx[t].row.ver + 1
        /\ row.size = Len(tx[t].data) /\ row.sum = Hash(tx[t].data)
    BY <1>4, <1>5, <1>6 DEF RechunkRow, NodeRowSound
  <1> HIDE DEF row, n
  <1>8. /\ TypeSound(e) /\ e.maps = View(t).maps /\ e.blocks = View(t).blocks
        /\ e.blockSeq = View(t).blockSeq /\ e.nodeSeq = View(t).nodeSeq
        /\ NodeIds(e) = NodeIds(disk) /\ e.nodes[n] = row
        /\ \A i \in NodeIds(disk) \ {n} : e.nodes[i] = View(t).nodes[i]
    <2>1. e = SetRow(View(t), n, row)
      BY DEF SetRow
    <2> HIDE DEF e
    <2> QED
      BY <1>2, <1>4, <1>7, <2>1, RowUpdate
  <1> HIDE DEF e
  <1>9. \A i \in NodeIds(disk) \ {n} : e.nodes[i] = disk.nodes[i]
    BY <1>2, <1>4, <1>8
  <1>10. e.nodes[n].ver > disk.nodes[n].ver /\ disk.nodes[n].type = "file" /\ e.nodes[n].type = "file"
         /\ e.nodes[n].size = Len(tx[t].data) /\ e.nodes[n].sum = Hash(tx[t].data)
    BY <1>4, <1>6, <1>7, <1>8
  <1>11. /\ StepOk /\ Content(e, n) = tx[t].data
         /\ \A i \in NodeIds(disk) \ {n} : Kept(disk, e, i)
    BY <1>1, <1>4, <1>5, <1>8, <1>9, <1>10, AnewCommitInv
  <1>12. \A i \in NodeIds(disk) : Content(e, i) = Content(disk, i)
    BY <1>2, <1>4, <1>11, KeptParts
  <1>13. disk' = e
    BY <1>1 DEF Commit
  <1> QED
    BY <1>8, <1>11, <1>12, <1>13

-----------------------------------------------------------------------------
(* The writer *)

LEMMA WriterParts ==
  ASSUME MaintenanceInv
  PROVE  /\ "writer" \in Transactions /\ Writer = tx["writer"]
         /\ TypeSound(disk) /\ TxOk(disk, "writer", Writer)
         /\ Writer.at = "idle" => Writer = Idle
  <1>1. "writer" \in Transactions /\ Writer = tx["writer"]
    BY DEF Transactions, Writer
  <1>2. TypeSound(disk) /\ TxOk(disk, "writer", Writer)
    BY <1>1, ViewParts
  <1> QED
    BY <1>1, <1>2, IdleIs

(* A transaction that begins knows f, has changed nothing and takes the locks
   that f names. *)
LEMMA BeginInv ==
  ASSUME MaintenanceInv, Writer.at = "idle", NEW f, NEW c, c = Over(f, Writer),
         Continue("writer", c, disk), "at" \in DOMAIN f, "shared" \notin DOMAIN f,
         \A n \in c.locked : NodeFree("writer", n),
         NEW c1, c1 = [c EXCEPT !.change = NoChange], OverwriteOk(disk, c1) \/ AppendOk(disk, c1) \/ RemoveOk(disk, c1)
  PROVE  StepOk
  <1>0. "writer" \in Transactions
    BY DEF Transactions
  <1>1. Writer = Idle /\ TypeSound(disk)
    BY <1>0, WriterParts
  <1>2. Change(disk, disk) = NoChange /\ Evolves(disk, View("writer"), disk, {})
    <2>1. Untouched(tx["writer"])
      BY <1>1, IdleOk DEF Untouched, Writer
    <2> QED
      BY <1>0, <2>1, UntouchedView
  <1>3. DOMAIN Idle = {"at", "change", "locked", "shared"}
    BY DEF Idle
  <1>4. DOMAIN c = DOMAIN f \cup DOMAIN Idle /\ c.shared = {}
    BY <1>1, <1>3, IdleOk DEF Over
  <1>5. DOMAIN c1 = DOMAIN c
    OBVIOUS
  <1>6. TxOk(disk, "writer", c1)
    BY <1>3, <1>4, <1>5 DEF TxOk
  <1>7. TxOk(Ticked(disk, disk), "writer", c1)
    BY <1>2, <1>6, TxTicked
  <1>8. \A u \in Others("writer") : /\ c.locked \cap (u.locked \cup u.shared) = {}
                                    /\ u.locked \cap (c.locked \cup c.shared) = {}
    BY <1>4 DEF NodeFree
  <1>9. TxOk(Ticked(disk, disk), "writer", [c EXCEPT !.change = Change(disk, disk)])
    BY <1>2, <1>7
  <1>10. {"at", "change", "locked", "shared"} \subseteq DOMAIN c
    BY <1>3, <1>4
  <1> HIDE DEF NoChange
  <1> QED
    BY <1>0, <1>2, <1>8, <1>9, <1>10, ContinueInv

LEMMA OverwriteReadInv ==
  ASSUME MaintenanceInv, NEW p \in Paths, NEW bs \in BlockSizes, OverwriteRead(p, bs)
  PROVE  StepOk
  <1>1. PICK n \in NodesAt(disk, p) :
          Continues([at |-> "claim", op |-> "overwrite", ids |-> {n}, row |-> disk.nodes[n], bsize |-> bs], disk)
    BY DEF OverwriteRead
  <1> DEFINE f == [at |-> "claim", op |-> "overwrite", ids |-> {n}, row |-> disk.nodes[n], bsize |-> bs]
             c == Over(f, Writer)
             c1 == [c EXCEPT !.change = NoChange]
  <1>2. Writer.at = "idle" /\ Continue("writer", c, disk) /\ "writer" \in Transactions
    BY <1>1 DEF OverwriteRead, Begins, Continues, Transactions
  <1>3. Writer = Idle /\ TypeSound(disk)
    BY <1>2, WriterParts
  <1>4. n \in NodeIds(disk) /\ disk.nodes[n].type = "file"
    BY <1>3 DEF OverwriteRead, CanStart, TargetOk, DirectoryAt, NodesAt, TypeSound, NodeRowSound
  <1>5. /\ DOMAIN f = {"at", "op", "ids", "row", "bsize"}
        /\ f.at = "claim" /\ f.op = "overwrite" /\ f.ids = {n} /\ f.row = disk.nodes[n] /\ f.bsize = bs
    OBVIOUS
  <1> HIDE DEF f
  <1>6. DOMAIN Idle = {"at", "change", "locked", "shared"}
    BY DEF Idle
  <1>7. /\ DOMAIN c = DOMAIN f \cup DOMAIN Idle
        /\ c.at = "claim" /\ c.op = "overwrite" /\ c.ids = {n} /\ c.bsize = bs
        /\ c.locked = {} /\ c.shared = {}
    BY <1>3, <1>5, <1>6, IdleOk DEF Over
  <1>a. c = Over(f, Writer)
    OBVIOUS
  <1> HIDE DEF c, NoChange
  <1>8. /\ DOMAIN c1 = DOMAIN c /\ c1.change = NoChange
        /\ c1.at = "claim" /\ c1.op = "overwrite" /\ c1.ids = {n} /\ c1.bsize = bs
        /\ c1.locked = {} /\ c1.shared = {}
    BY <1>6, <1>7
  <1>b. c1 = [c EXCEPT !.change = NoChange]
    OBVIOUS
  <1> HIDE DEF c1
  <1>9. OverwriteOk(disk, c1)
    BY <1>4, <1>5, <1>6, <1>7, <1>8 DEF OverwriteOk, Untouched
  <1> QED
    BY <1>2, <1>5, <1>7, <1>9, <1>a, <1>b, BeginInv

LEMMA AppendReadInv ==
  ASSUME MaintenanceInv, NEW p \in Paths, NEW bs \in BlockSizes, AppendRead(p, bs)
  PROVE  StepOk
  <1> DEFINE g(n) == [node |-> n, mode |-> "ab", ver |-> disk.nodes[n].ver, size |-> disk.nodes[n].size,
                      hashed |-> <<>>, seq |-> 0, bsize |-> bs]
  <1>1. PICK n \in NodesAt(disk, p) :
          Continues([at |-> "seq", op |-> "append", row |-> disk.nodes[n], w |-> g(n)], disk)
    BY DEF AppendRead
  <1> DEFINE f == [at |-> "seq", op |-> "append", row |-> disk.nodes[n], w |-> g(n)]
             w == g(n)
             c == Over(f, Writer)
             c1 == [c EXCEPT !.change = NoChange]
  <1>2. Writer.at = "idle" /\ Continue("writer", c, disk) /\ "writer" \in Transactions
    BY <1>1 DEF AppendRead, Begins, Continues, Transactions
  <1>3. Writer = Idle /\ TypeSound(disk)
    BY <1>2, WriterParts
  <1>4. n \in NodeIds(disk) /\ disk.nodes[n].type = "file" /\ NodeRowSound(disk.nodes[n])
    BY <1>3 DEF AppendRead, CanStart, TargetOk, DirectoryAt, NodesAt, TypeSound, NodeRowSound
  <1>w. /\ DOMAIN w = {"node", "mode", "ver", "size", "hashed", "seq", "bsize"}
        /\ w.node = n /\ w.mode = "ab" /\ w.ver = disk.nodes[n].ver /\ w.size = disk.nodes[n].size
        /\ w.seq = 0 /\ w.bsize = bs
    OBVIOUS
  <1>5. /\ DOMAIN f = {"at", "op", "row", "w"}
        /\ f.at = "seq" /\ f.op = "append" /\ f.w = w
    OBVIOUS
  <1> HIDE DEF f, w, g
  <1>6. DOMAIN Idle = {"at", "change", "locked", "shared"}
    BY DEF Idle
  <1>7. /\ DOMAIN c = DOMAIN f \cup DOMAIN Idle
        /\ c.at = "seq" /\ c.op = "append" /\ c.w = w
        /\ c.locked = {} /\ c.shared = {}
    BY <1>3, <1>5, <1>6, IdleOk DEF Over
  <1>a. c = Over(f, Writer)
    OBVIOUS
  <1> HIDE DEF c, NoChange
  <1>8. /\ DOMAIN c1 = DOMAIN c /\ c1.change = NoChange
        /\ c1.at = "seq" /\ c1.op = "append" /\ c1.w = w
        /\ c1.locked = {} /\ c1.shared = {}
    BY <1>6, <1>7
  <1>b. c1 = [c EXCEPT !.change = NoChange]
    OBVIOUS
  <1> HIDE DEF c1
  <1>9. WriterFields(disk, w) /\ disk.nodes[n].ver \in Nat
    BY <1>4, <1>w DEF WriterFields, NodeRowSound
  <1>10. DOMAIN NoChange.nodes = {} /\ NoChange.unmaps = {} /\ NoChange.maps = {}
    BY DEF NoChange, NoRows
  <1>11. AppendOk(disk, c1)
    BY <1>w, <1>5, <1>6, <1>7, <1>8, <1>9, <1>10 DEF AppendOk, Untouched
  <1> QED
    BY <1>2, <1>5, <1>7, <1>11, <1>a, <1>b, BeginInv

LEMMA RemoveReadInv ==
  ASSUME MaintenanceInv, NEW p \in Paths, DeleteLock(p) \/ MoveList(p)
  PROVE  StepOk
  <1> DEFINE op == IF DeleteLock(p) THEN "delete" ELSE "move"
             held == IF DeleteLock(p) THEN Taken(p) ELSE {}
  <1>0. "writer" \in Transactions /\ Writer.at = "idle"
    BY DEF Transactions, DeleteLock, MoveList, Begins
  <1>1. Writer = Idle /\ TypeSound(disk)
    BY <1>0, WriterParts
  <1>2. \A n \in held : NodeFree("writer", n)
    BY DEF DeleteLock
  <1>3. PICK f : /\ DOMAIN f \in {{"at", "op", "ids", "locked"}, {"at", "op", "ids"}}
                 /\ f.at = "list" /\ f.op = op /\ f.ids = Taken(p)
                 /\ "locked" \in DOMAIN f => f.locked = held
                 /\ "locked" \notin DOMAIN f => held = {}
                 /\ Continue("writer", Over(f, Writer), disk)
    <2>1. CASE DeleteLock(p)
      <3> DEFINE f == [at |-> "list", op |-> "delete", ids |-> Taken(p), locked |-> Taken(p)]
      <3>1. Continue("writer", Over(f, Writer), disk)
        BY <2>1 DEF DeleteLock, Continues
      <3>2. DOMAIN f = {"at", "op", "ids", "locked"} /\ f.at = "list" /\ f.op = op /\ f.ids = Taken(p) /\ f.locked = held
        BY <2>1
      <3> QED
        BY <3>1, <3>2
    <2>2. CASE ~DeleteLock(p)
      <3> DEFINE f == [at |-> "list", op |-> "move", ids |-> Taken(p)]
      <3>1. Continue("writer", Over(f, Writer), disk)
        BY <2>2 DEF MoveList, Continues
      <3>2. DOMAIN f = {"at", "op", "ids"} /\ f.at = "list" /\ f.op = op /\ f.ids = Taken(p) /\ held = {}
        BY <2>2
      <3> QED
        BY <3>1, <3>2
    <2> QED
      BY <2>1, <2>2
  <1>4. Taken(p) \subseteq NodeIds(disk)
    BY DEF Taken, NodesAt, NodesLikeBelow
  <1>5. op \in {"delete", "move"} /\ held = IF op = "delete" THEN Taken(p) ELSE {}
    OBVIOUS
  <1> DEFINE c == Over(f, Writer)
             c1 == [c EXCEPT !.change = NoChange]
  <1> HIDE DEF op, held
  <1>6. DOMAIN Idle = {"at", "change", "locked", "shared"}
    BY DEF Idle
  <1>7. /\ DOMAIN c = DOMAIN f \cup DOMAIN Idle
        /\ c.at = "list" /\ c.op = op /\ c.ids = Taken(p)
        /\ c.locked = held /\ c.shared = {}
    <2>1. "at" \in DOMAIN f /\ "op" \in DOMAIN f /\ "ids" \in DOMAIN f /\ "shared" \notin DOMAIN f
      BY <1>3
    <2> QED
      BY <1>1, <1>3, <1>6, <2>1, IdleOk DEF Over
  <1>a. c = Over(f, Writer) /\ "at" \in DOMAIN f /\ "op" \in DOMAIN f /\ "ids" \in DOMAIN f /\ "shared" \notin DOMAIN f
    BY <1>3
  <1> HIDE DEF c, NoChange
  <1>8. /\ DOMAIN c1 = DOMAIN c /\ c1.change = NoChange
        /\ c1.at = "list" /\ c1.op = op /\ c1.ids = Taken(p)
        /\ c1.locked = held /\ c1.shared = {}
    BY <1>6, <1>7
  <1>b. c1 = [c EXCEPT !.change = NoChange]
    OBVIOUS
  <1> HIDE DEF c1
  <1>9. DOMAIN NoChange.nodes = {} /\ NoChange.unmaps = {} /\ NoChange.maps = {}
    BY DEF NoChange, NoRows
  <1>10. RemoveOk(disk, c1)
    BY <1>4, <1>5, <1>7, <1>8, <1>9, <1>a DEF RemoveOk, Untouched
  <1>11. Continue("writer", c, disk)
    BY <1>3 DEF c
  <1> QED
    BY <1>0, <1>2, <1>7, <1>10, <1>11, <1>a, <1>b, BeginInv

LEMMA OverwriteClaimInv ==
  ASSUME MaintenanceInv, OverwriteClaim
  PROVE  StepOk
  <1> DEFINE Row(n) == [disk.nodes[n] EXCEPT !.size = 0, !.bsize = Writer.bsize, !.sum = NoHash, !.ver = @ + 1]
             Held(n) == [node |-> n, mode |-> "wb", ver |-> Row(n).ver, size |-> 0,
                         hashed |-> <<>>, seq |-> 0, bsize |-> Writer.bsize]
  <1>1. PICK n \in Writer.ids :
          /\ NodeFree("writer", n)
          /\ Continues([at |-> "list", locked |-> {n}, w |-> Held(n)], [View("writer") EXCEPT !.nodes[n] = Row(n)])
    BY DEF OverwriteClaim
  <1> DEFINE row == Row(n)
             w == Held(n)
             f == [at |-> "list", locked |-> {n}, w |-> w]
             v == View("writer")
             e == [v EXCEPT !.nodes[n] = row]
             h == Change(disk, e)
             c == Over(f, Writer)
             c1 == [c EXCEPT !.change = h]
  <1>2. /\ Writer.at = "claim" /\ Continue("writer", c, e) /\ "writer" \in Transactions
        /\ Writer = tx["writer"] /\ TxOk(disk, "writer", Writer) /\ TypeSound(disk)
    BY <1>1, WriterParts DEF OverwriteClaim, Continues
  <1>3. OverwriteOk(disk, Writer) /\ {"at", "change", "locked", "shared"} \subseteq DOMAIN Writer
    BY <1>2, MaintenanceAssumption, IdleOk DEF TxOk, AppendOk, RemoveOk
  <1>4. /\ Untouched(Writer) /\ Writer.locked = {} /\ Writer.shared = {}
        /\ n \in NodeIds(disk) /\ Writer.ids = {n} /\ disk.nodes[n].type = "file"
        /\ {"op", "ids", "row", "bsize"} \subseteq DOMAIN Writer /\ Writer.op = "overwrite"
        /\ Writer.bsize \in BlockSizes
    BY <1>2, <1>3 DEF OverwriteOk, OverwriteAt
  <1>5. NodeRowSound(disk.nodes[n]) /\ Writer.bsize \in Nat \ {0}
    BY <1>2, <1>4, TablesAssumption DEF TypeSound
  <1>6. /\ NodeRowSound(row) /\ row.type = "file" /\ row.ver = disk.nodes[n].ver + 1 /\ row.ver \in Nat \ {0}
        /\ disk.nodes[n].ver \in Nat
    BY <1>4, <1>5 DEF NodeRowSound
  <1>7. /\ DOMAIN w = {"node", "mode", "ver", "size", "hashed", "seq", "bsize"}
        /\ w.node = n /\ w.mode = "wb" /\ w.ver = row.ver /\ w.size = 0
        /\ w.hashed = <<>> /\ w.seq = 0 /\ w.bsize = Writer.bsize
    OBVIOUS
  <1>8. DOMAIN f = {"at", "locked", "w"} /\ f.at = "list" /\ f.locked = {n} /\ f.w = w
    OBVIOUS
  <1> HIDE DEF f, w, row, Row, Held
  <1>9. SameRows(disk, v) /\ TypeSound(v)
    BY <1>2, <1>4, UntouchedView, ViewParts DEF Untouched
  <1>10. /\ TypeSound(e) /\ e.maps = v.maps /\ e.blocks = v.blocks
         /\ e.blockSeq = v.blockSeq /\ NodeIds(e) = NodeIds(v) /\ e.nodes[n] = row
         /\ \A i \in NodeIds(v) \ {n} : e.nodes[i] = v.nodes[i]
    <2>1. n \in NodeIds(v)
      BY <1>4, <1>9 DEF SameRows
    <2>2. e = SetRow(v, n, row) /\ TypeSound(v)
      BY <1>9 DEF SetRow
    <2> HIDE DEF v, e
    <2> QED
      BY <1>6, <2>1, <2>2, RowUpdate
  <1>v. v.blockSeq = disk.blockSeq /\ disk.blockSeq \in Nat
    BY <1>2, ViewParts
  <1> HIDE DEF e, v
  <1>11. Evolves(disk, v, e, {})
    BY <1>9, <1>10, <1>v DEF Evolves, SameRows
  <1>12. /\ NodeIds(e) = NodeIds(disk) /\ e.nodes[n] # disk.nodes[n]
         /\ \A i \in NodeIds(disk) \ {n} : e.nodes[i] = disk.nodes[i]
    BY <1>4, <1>6, <1>9, <1>10 DEF SameRows
  <1>13. DOMAIN h.nodes = {n} /\ h.nodes[n] = row
    BY <1>4, <1>10, <1>12, NodesChanged
  <1>14. h.maps = {} /\ h.unmaps = {} /\ DOMAIN h.blocks = {}
    BY <1>9, <1>10, ChangeShape DEF SameRows
  <1> HIDE DEF h
  <1>15. /\ DOMAIN c = {"at", "locked", "w"} \cup DOMAIN Writer
         /\ c.at = "list" /\ c.locked = {n} /\ c.w = w
         /\ \A i \in DOMAIN Writer : i \notin {"at", "locked", "w"} => c[i] = Writer[i]
    BY <1>8 DEF Over
  <1> HIDE DEF c
  <1>16. /\ DOMAIN c1 = DOMAIN c /\ c1.change = h
         /\ c1.at = "list" /\ c1.locked = {n} /\ c1.w = w
         /\ \A i \in DOMAIN Writer : i \notin {"at", "locked", "w", "change"} => c1[i] = Writer[i]
    BY <1>3, <1>15
  <1> HIDE DEF c1
  <1>17. /\ c1.ids = {n} /\ c1.shared = {} /\ c1.op = "overwrite" /\ c1.bsize = Writer.bsize
         /\ {"w", "op", "ids", "row", "bsize", "at", "change", "locked", "shared"} \subseteq DOMAIN c1
    BY <1>3, <1>4, <1>15, <1>16
  <1>18. WriterFields(disk, w)
    BY <1>4, <1>6, <1>7 DEF WriterFields
  <1>19. OverwriteHeld(disk, c1)
    BY <1>6, <1>7, <1>13, <1>16, <1>17, <1>18 DEF OverwriteHeld
  <1>20. OverwriteAt(disk, c1)
    BY <1>7, <1>14, <1>16 DEF OverwriteAt
  <1>21. OverwriteOk(disk, c1)
    BY <1>4, <1>17, <1>19, <1>20 DEF OverwriteOk
  <1>22. TxOk(disk, "writer", c1)
    BY <1>17, <1>21 DEF TxOk
  <1>23. TxOk(Ticked(disk, e), "writer", [c EXCEPT !.change = Change(disk, e)])
    BY <1>11, <1>22, TxTicked DEF c1, h
  <1>24. \A u \in Others("writer") : /\ c.locked \cap (u.locked \cup u.shared) = {}
                                     /\ u.locked \cap (c.locked \cup c.shared) = {}
    <2>1. c.locked = {n} /\ c.shared = {}
      BY <1>3, <1>4, <1>15
    <2> QED
      BY <1>1, <2>1 DEF NodeFree
  <1>25. {"at", "change", "locked", "shared"} \subseteq DOMAIN c
    BY <1>3, <1>15
  <1>26. Evolves(disk, View("writer"), e, {})
    BY <1>11 DEF v
  <1> QED
    BY <1>2, <1>23, <1>24, <1>25, <1>26, ContinueInv

LEMMA WriterFreeInv ==
  ASSUME MaintenanceInv, WriterFree
  PROVE  StepOk
  <1> DEFINE f == [at |-> IF Writer.op = "overwrite" THEN "write" ELSE "drop"]
             bs == Writer.listed
             v == View("writer")
             g == Freed(v, bs)
             h == Change(disk, g)
             c == Over(f, Writer)
             c1 == [c EXCEPT !.change = h]
             ids == Writer.ids
  <1>1. /\ Writer.at = "free" /\ Continue("writer", c, g) /\ "writer" \in Transactions
        /\ \A b \in bs : BlockFree("writer", b)
        /\ Writer = tx["writer"] /\ TxOk(disk, "writer", Writer) /\ TypeSound(disk)
    BY WriterParts DEF WriterFree, Continues
  <1>2. /\ MapsSound(disk) /\ disk.blockSeq \in Nat
        /\ ChangeTyped(disk, Writer.change) /\ ChangedBy(disk, Writer.change, v) /\ TypeSound(v)
        /\ v = Apply(disk, Writer.change)
        /\ NodeIds(v) = NodeIds(disk) /\ v.blockSeq = disk.blockSeq
        /\ \A n \in NodeIds(disk) \ DOMAIN Writer.change.nodes : v.nodes[n] = disk.nodes[n]
        /\ {"at", "change", "locked", "shared"} \subseteq DOMAIN Writer
    BY <1>1, ViewParts DEF View
  <1> HIDE DEF v, bs, ids
  <1>3. /\ TypeSound(g) /\ NodeIds(g) = NodeIds(v) /\ g.nodes = v.nodes /\ g.maps = v.maps
        /\ g.blockSeq = v.blockSeq
    BY <1>2, FreedShape
  <1>4. Evolves(disk, v, v, {})
    BY <1>1, <1>2, EvolvesSame
  <1>5. Evolves(disk, v, g, bs)
    BY <1>4, FreedEvolves
  <1>6. Writer.change.maps = {}
    BY <1>1, IdleOk, MaintenanceAssumption DEF TxOk, OverwriteOk, OverwriteAt, AppendOk, RemoveOk
  <1>7. v.maps = disk.maps \ Writer.change.unmaps /\ DOMAIN disk.blocks \subseteq DOMAIN v.blocks
    BY <1>2, <1>6 DEF ChangedBy
  <1>8. h.maps = {} /\ h.unmaps = disk.maps \cap Writer.change.unmaps
    BY <1>3, <1>7, ChangeShape
  <1>9. ASSUME Removed(disk, Writer)
        PROVE  h.unmaps = MapsOfAll(disk, ids) /\ \A b \in BlocksOf(disk, ids) : b \in DOMAIN h.blocks
    <2>1. Writer.change.unmaps = MapsOfAll(disk, ids) /\ bs = BlocksOf(disk, ids)
      BY <1>9 DEF Removed, bs, ids
    <2>2. h.unmaps = MapsOfAll(disk, ids)
      BY <1>8, <2>1 DEF MapsOfAll
    <2>3. \A b \in BlocksOf(disk, ids) : \A m \in v.maps : m.block # b
      <3>1. v.maps = disk.maps \ MapsOfAll(disk, ids)
        BY <1>7, <2>1
      <3> QED
        BY <1>2, <3>1 DEF MapsSound, BlocksOf, MapsOfAll
    <2>4. \A b \in BlocksOf(disk, ids) : b \in DOMAIN Change(disk, Freed(v, BlocksOf(disk, ids))).blocks
      BY <1>1, <1>2, <1>7, <2>3, FreedReleases
    <2> QED
      BY <2>1, <2>2, <2>4
  <1>10. ASSUME DOMAIN Writer.change.nodes = {} PROVE DOMAIN h.nodes = {}
    <2>1. NodeIds(g) = NodeIds(disk) /\ \A n \in NodeIds(disk) : g.nodes[n] = disk.nodes[n]
      BY <1>2, <1>3, <1>10
    <2> HIDE DEF g
    <2> QED
      BY <2>1, NodesSame
  <1>11. \A n \in NodeIds(disk) : g.nodes[n] = Apply(disk, Writer.change).nodes[n]
    BY <1>2, <1>3
  <1> HIDE DEF g, h
  <1>12. DOMAIN f = {"at"} /\ (Writer.op = "overwrite" => f.at = "write") /\ (Writer.op # "overwrite" => f.at = "drop")
    OBVIOUS
  <1> HIDE DEF f
  <1>13. DOMAIN c = DOMAIN Writer /\ c.at = f.at /\ \A i \in DOMAIN Writer : i # "at" => c[i] = Writer[i]
    BY <1>2, <1>12 DEF Over
  <1> HIDE DEF c
  <1>14. /\ DOMAIN c1 = DOMAIN Writer /\ c1.change = h /\ c1.at = f.at
         /\ \A i \in DOMAIN Writer : i \notin {"at", "change"} => c1[i] = Writer[i]
    BY <1>2, <1>13
  <1>c. c1.change = Change(disk, g)
    BY <1>14 DEF h
  <1> HIDE DEF c1
  <1>15. ASSUME OverwriteOk(disk, Writer) PROVE TxOk(disk, "writer", c1)
    <2>1. OverwriteHeld(disk, Writer) /\ OverwriteAt(disk, Writer)
      BY <1>1, <1>15 DEF OverwriteOk
    <2>2. /\ WriterFields(disk, Writer.w)
          /\ Writer.shared \subseteq {Writer.w.node} /\ {"w"} \subseteq DOMAIN Writer
      BY <2>1 DEF OverwriteHeld
    <2>3. /\ {"op", "ids", "row", "bsize"} \subseteq DOMAIN Writer /\ Writer.op = "overwrite" /\ Writer.bsize \in BlockSizes
          /\ {"listed"} \subseteq DOMAIN Writer /\ Removed(disk, Writer)
      BY <1>1, <1>15, <2>1 DEF OverwriteOk, OverwriteAt
    <2>4. /\ c1.w = Writer.w /\ c1.ids = Writer.ids /\ c1.locked = Writer.locked /\ c1.shared = Writer.shared
          /\ c1.op = Writer.op /\ c1.bsize = Writer.bsize /\ c1.listed = Writer.listed /\ c1.at = "write"
      BY <1>2, <1>12, <1>14, <2>2, <2>3
    <2>5. OverwriteHeld(disk, c1)
      BY <1>1, <1>2, <1>3, <1>11, <1>14, <1>c, <2>1, <2>2, <2>4, OverwriteHeldNext
    <2>6. Released(disk, c1)
      BY <1>9, <1>14, <2>3, <2>4 DEF Released, ids
    <2>7. OverwriteAt(disk, c1)
      BY <1>1, <1>8, <1>14, <2>1, <2>3, <2>4, <2>6 DEF OverwriteAt
    <2>8. OverwriteOk(disk, c1)
      BY <1>14, <2>3, <2>4, <2>5, <2>7 DEF OverwriteOk
    <2> QED
      BY <1>2, <1>14, <2>8 DEF TxOk
  <1>16. ASSUME RemoveOk(disk, Writer) PROVE TxOk(disk, "writer", c1)
    <2>1. /\ {"op", "ids", "listed"} \subseteq DOMAIN Writer /\ DOMAIN Writer.change.nodes = {}
          /\ Writer.op \in {"delete", "move"}
      BY <1>1, <1>16 DEF RemoveOk
    <2>2. /\ c1.ids = Writer.ids /\ c1.locked = Writer.locked /\ c1.shared = Writer.shared
          /\ c1.op = Writer.op /\ c1.listed = Writer.listed /\ c1.at = "drop"
      BY <1>2, <1>12, <1>14, <2>1
    <2>3. DOMAIN h.nodes = {} /\ \A m \in h.unmaps : m.file \in Writer.ids
      BY <1>8, <1>10, <1>16, <2>1 DEF RemoveOk
    <2>4. Removed(disk, Writer) => Released(disk, c1)
      BY <1>9, <1>14, <2>2 DEF Released, ids
    <2>5. RemoveOk(disk, c1)
      BY <1>1, <1>8, <1>14, <1>16, <2>1, <2>2, <2>3, <2>4 DEF RemoveOk
    <2> QED
      BY <1>2, <1>14, <2>5 DEF TxOk
  <1>17. TxOk(disk, "writer", c1)
    <2>1. ~AppendOk(disk, Writer) /\ Writer # Idle /\ "writer" \notin Rechunkers
      BY <1>1, IdleOk, MaintenanceAssumption DEF AppendOk
    <2> QED
      BY <1>1, <1>15, <1>16, <2>1 DEF TxOk
  <1>18. TxOk(Ticked(disk, g), "writer", [c EXCEPT !.change = Change(disk, g)])
    BY <1>5, <1>17, TxTicked DEF c1, h
  <1>19. {"at", "change", "locked", "shared"} \subseteq DOMAIN c /\ c.locked = tx["writer"].locked /\ c.shared = tx["writer"].shared
    BY <1>1, <1>2, <1>13
  <1>20. Evolves(disk, View("writer"), g, bs)
    BY <1>5 DEF v
  <1> QED
    BY <1>1, <1>18, <1>19, <1>20, ContinueHeld

(* An append that reads: it learns f. *)
LEMMA AppendReads ==
  ASSUME MaintenanceInv, Untouched(Writer), AppendOk(disk, Writer), Writer.at \in {"seq", "hash"},
         NEW at \in {"hash", "write"}, NEW w, NEW f, DOMAIN f = {"at", "w"}, f.at = at, f.w = w,
         Continue("writer", Over(f, Writer), disk), WriterFields(disk, w),
         w.mode = "ab", w.node = Writer.w.node, w.ver = Writer.w.ver, w.size = Writer.w.size,
         w.ver = disk.nodes[w.node].ver =>
           w.seq = NextSequence(disk, w.node) /\ (at = "write" => w.hashed = Content(disk, w.node))
  PROVE  StepOk
  <1> DEFINE c == Over(f, Writer)
             c1 == [c EXCEPT !.change = NoChange]
  <1>1. "writer" \in Transactions /\ Writer = tx["writer"]
    BY WriterParts
  <1>2. Change(disk, disk) = NoChange /\ Evolves(disk, View("writer"), disk, {})
    <2>1. Untouched(tx["writer"])
      BY <1>1
    <2> QED
      BY <1>1, <2>1, UntouchedView
  <1>3. {"at", "change", "locked", "shared", "op", "w"} \subseteq DOMAIN Writer
    <2>1. {"at", "change", "locked", "shared"} \subseteq DOMAIN tx["writer"]
      BY <1>1, ViewParts
    <2>2. {"op", "w"} \subseteq DOMAIN Writer
      BY DEF AppendOk
    <2> QED
      BY <1>1, <2>1, <2>2
  <1>4. /\ DOMAIN c = DOMAIN Writer /\ c.at = at /\ c.w = w
        /\ \A i \in DOMAIN Writer : i \notin {"at", "w"} => c[i] = Writer[i]
    BY <1>3 DEF Over
  <1> HIDE DEF c
  <1>5. /\ DOMAIN c1 = DOMAIN Writer /\ c1.at = at /\ c1.w = w /\ c1.change = NoChange
        /\ \A i \in DOMAIN Writer : i \notin {"at", "w", "change"} => c1[i] = Writer[i]
    BY <1>3, <1>4
  <1> HIDE DEF c1
  <1>6. /\ c1.op = Writer.op /\ c1.locked = Writer.locked /\ c1.shared = Writer.shared
        /\ c1.change = Writer.change
    BY <1>3, <1>5 DEF Untouched
  <1>7. AppendOk(disk, c1)
    BY <1>3, <1>5, <1>6 DEF AppendOk, Untouched
  <1>8. TxOk(disk, "writer", c1)
    BY <1>3, <1>5, <1>7 DEF TxOk
  <1>9. TxOk(Ticked(disk, disk), "writer", c1)
    BY <1>2, <1>8, TxTicked
  <1>10. TxOk(Ticked(disk, disk), "writer", [c EXCEPT !.change = Change(disk, disk)])
    BY <1>2, <1>9 DEF c1
  <1>11. {"at", "change", "locked", "shared"} \subseteq DOMAIN c
         /\ c.locked = tx["writer"].locked /\ c.shared = tx["writer"].shared
    BY <1>1, <1>3, <1>4
  <1>12. Continue("writer", c, disk)
    BY DEF c
  <1> QED
    BY <1>1, <1>2, <1>10, <1>11, <1>12, ContinueHeld

LEMMA AppendReadsInv ==
  ASSUME MaintenanceInv, AppendSequence \/ AppendHash
  PROVE  StepOk
  <1>1. /\ Writer = tx["writer"] /\ TxOk(disk, "writer", Writer) /\ TypeSound(disk) /\ MapsSound(disk)
    BY WriterParts DEF MaintenanceInv
  <1>2. Writer.at \in {"seq", "hash"}
    BY DEF AppendSequence, AppendHash
  <1>3. AppendOk(disk, Writer)
    BY <1>1, <1>2, IdleOk, MaintenanceAssumption DEF TxOk, OverwriteOk, OverwriteAt, RemoveOk
  <1>4. /\ Untouched(Writer) /\ WriterFields(disk, Writer.w) /\ Writer.w.mode = "ab"
        /\ Writer.w.ver = disk.nodes[Writer.w.node].ver /\ Writer.at = "hash"
             => Writer.w.seq = NextSequence(disk, Writer.w.node)
    BY <1>2, <1>3 DEF AppendOk
  <1> DEFINE n == Writer.w.node
  <1>5. CASE AppendSequence
    <2> DEFINE w == [Writer.w EXCEPT !.seq = NextSequence(disk, n)]
               f == [at |-> "hash", w |-> w]
    <2>1. Continue("writer", Over(f, Writer), disk) /\ DOMAIN f = {"at", "w"} /\ f.at = "hash" /\ f.w = w
      BY <1>5 DEF AppendSequence, Continues
    <2>2. NextSequence(disk, n) \in Nat
      <3>1. n \in NodeIds(disk)
        BY <1>4 DEF WriterFields
      <3> HIDE DEF n
      <3> QED
        BY <1>1, <3>1, NextSequenceSound
    <2>3. /\ WriterFields(disk, w) /\ w.mode = "ab" /\ w.node = n /\ w.ver = Writer.w.ver
          /\ w.size = Writer.w.size /\ w.seq = NextSequence(disk, n)
      BY <1>4, <2>2 DEF WriterFields
    <2> HIDE DEF f, w
    <2> QED
      BY <1>2, <1>3, <1>4, <2>1, <2>3, AppendReads
  <1>6. CASE AppendHash
    <2> DEFINE w == [Writer.w EXCEPT !.hashed = Content(disk, n)]
               f == [at |-> "write", w |-> w]
    <2>1. Continue("writer", Over(f, Writer), disk) /\ DOMAIN f = {"at", "w"} /\ f.at = "write" /\ f.w = w
          /\ Writer.at = "hash"
      BY <1>6 DEF AppendHash, Continues
    <2>3. /\ WriterFields(disk, w) /\ w.mode = "ab" /\ w.node = n /\ w.ver = Writer.w.ver
          /\ w.size = Writer.w.size /\ w.seq = Writer.w.seq /\ w.hashed = Content(disk, n)
      BY <1>4 DEF WriterFields
    <2> HIDE DEF f, w
    <2> QED
      BY <1>2, <1>3, <1>4, <2>1, <2>3, AppendReads
  <1> QED
    BY <1>5, <1>6

LEMMA WriteInv ==
  ASSUME MaintenanceInv, NEW data \in Payloads, Write(data)
  PROVE  StepOk
  <1> DEFINE w0 == Writer.w
             n  == w0.node
             cs == Chunks(data, w0.bsize)
             v  == View("writer")
             first == v.blockSeq - 1
             e  == AttachBlocks(v, n, w0.seq, cs)
             w  == WriteChunk(w0, data)
             f  == [at |-> "finish", w |-> w, shared |-> {w.node}]
             h  == Change(disk, e)
             c  == Over(f, Writer)
             c1 == [c EXCEPT !.change = h]
             k  == Ticked(disk, e)
  <1>1. /\ Writer.at = "write" /\ "writer" \in Transactions /\ Writer = tx["writer"]
        /\ TxOk(disk, "writer", Writer) /\ TypeSound(disk) /\ MapsSound(disk) /\ disk.blockSeq \in Nat
        /\ ChangeOk(disk, Writer.change) /\ ChangeTyped(disk, Writer.change)
        /\ ChangedBy(disk, Writer.change, v) /\ TypeSound(v) /\ v = Apply(disk, Writer.change)
        /\ NodeIds(v) = NodeIds(disk) /\ v.blockSeq = disk.blockSeq
        /\ \A i \in NodeIds(disk) \ DOMAIN Writer.change.nodes : v.nodes[i] = disk.nodes[i]
        /\ {"at", "change", "locked", "shared"} \subseteq DOMAIN Writer
    BY WriterParts, ViewParts DEF Write, View
  <1>2. /\ Continue("writer", c, e) /\ NodeSharable("writer", w.node)
    BY DEF Write, Continues, WriteChunkDb
  <1>3. OverwriteOk(disk, Writer) \/ AppendOk(disk, Writer)
    BY <1>1, IdleOk, MaintenanceAssumption DEF TxOk, RemoveOk
  <1>4. OverwriteOk(disk, Writer) => OverwriteHeld(disk, Writer) /\ OverwriteAt(disk, Writer) /\ Released(disk, Writer)
    BY <1>1 DEF OverwriteOk, OverwriteAt
  <1>5. /\ WriterFields(disk, w0) /\ Writer.change.maps = {} /\ {"w", "op"} \subseteq DOMAIN Writer
    <2>1. CASE OverwriteOk(disk, Writer)
      BY <1>1, <1>4, <2>1 DEF OverwriteHeld, OverwriteAt, OverwriteOk
    <2>2. CASE AppendOk(disk, Writer)
      BY <1>1, <2>2 DEF AppendOk, Untouched, NoChange
    <2> QED
      BY <1>3, <2>1, <2>2
  <1>6. /\ n \in NodeIds(disk) /\ n \in Nat /\ w0.seq \in Nat /\ w0.bsize \in BlockSizes
        /\ w0.size \in Nat /\ disk.nodes[n].type = "file" /\ data \in Seq(Bytes)
    BY <1>1, <1>5, MaintenanceAssumption DEF WriterFields, TypeSound
  <1>7. cs \in Seq(Seq(Bytes))
    BY <1>6, ChunksType, TablesAssumption
  <1>8. /\ DOMAIN w = {"node", "mode", "ver", "size", "hashed", "seq", "bsize"}
        /\ w.node = n /\ w.mode = w0.mode /\ w.ver = w0.ver /\ w.size = w0.size + Len(data)
        /\ w.hashed = w0.hashed \o data /\ w.seq = w0.seq + Len(cs) /\ w.bsize = w0.bsize
    BY <1>5 DEF WriteChunk, WriterFields
  <1> HIDE DEF w0, n, cs, v, w
  <1>9. WriterFields(disk, w)
    <2>1. Len(data) \in Nat /\ Len(cs) \in Nat
      BY <1>6, <1>7
    <2> QED
      BY <1>5, <1>6, <1>8, <2>1 DEF WriterFields, n
  <1>10. Grown(v, e, n, first, w0.seq, cs)
    BY <1>1, <1>6, <1>7, AttachShape
  <1>11. Evolves(disk, v, e, {})
    BY <1>1, <1>6, <1>7, AttachEvolves
  <1> HIDE DEF e, first
  <1>12. /\ TypeSound(e) /\ NodeIds(e) = NodeIds(v) /\ e.nodes = v.nodes /\ first \in Nat
         /\ \A b \in DOMAIN v.blocks : b \in DOMAIN e.blocks /\ e.blocks[b] = v.blocks[b]
         /\ \A i \in 1..Len(cs) : first + i \in DOMAIN e.blocks /\ e.blocks[first + i] = NewBlock(cs[i])
         /\ e.blockSeq = v.blockSeq + Len(cs)
    BY <1>10 DEF Grown
  <1>13. /\ h.maps = Added(n, first, w0.seq, cs)
         /\ h.unmaps = disk.maps \cap Writer.change.unmaps
    <2> DEFINE ch == Writer.change
    <2>1. ChangeTyped(disk, ch) /\ ch.maps = {} /\ ChangedBy(disk, ch, v)
      BY <1>1, <1>5
    <2> DEFINE s == w0.seq
    <2>s. s \in Nat /\ Grown(v, e, n, first, s, cs)
      BY <1>6, <1>10
    <2>h. h = Change(disk, e)
      OBVIOUS
    <2> HIDE DEF ch, s, h
    <2>2. h.maps = Added(n, first, s, cs) /\ h.unmaps = disk.maps \cap ch.unmaps
      <3>1. TypeSound(disk) /\ MapsSound(disk) /\ n \in Nat
        BY <1>1, <1>6
      <3> QED
        BY <1>7, <2>1, <2>h, <2>s, <3>1, GrownMaps
    <2> QED
      BY <2>2 DEF ch, s
  <1>14. ASSUME NEW b \in DOMAIN Writer.change.blocks, b \in DOMAIN disk.blocks, ~disk.blocks[b].free
         PROVE  b \in DOMAIN h.blocks
    <2>1. v.blocks[b] = Writer.change.blocks[b] /\ b \in DOMAIN v.blocks
      BY <1>1 DEF ChangedBy
    <2>2. Writer.change.blocks[b].free
      BY <1>1, <1>14 DEF ChangeOk
    <2>3. b \in DOMAIN e.blocks /\ e.blocks[b] # disk.blocks[b]
      BY <1>12, <1>14, <2>1, <2>2
    <2> QED
      BY <2>3, ChangeShape
  <1>15. ASSUME DOMAIN Writer.change.nodes = {} PROVE DOMAIN h.nodes = {}
    <2>1. NodeIds(e) = NodeIds(disk) /\ \A i \in NodeIds(disk) : e.nodes[i] = disk.nodes[i]
      BY <1>1, <1>12, <1>15
    <2> QED
      BY <2>1, NodesSame
  <1>16. \A i \in NodeIds(disk) : e.nodes[i] = Apply(disk, Writer.change).nodes[i]
    BY <1>1, <1>12
  <1>17. DOMAIN f = {"at", "w", "shared"} /\ f.at = "finish" /\ f.w = w /\ f.shared = {n}
    BY <1>8
  <1> HIDE DEF f, h
  <1>18. /\ DOMAIN c = DOMAIN Writer /\ c.at = "finish" /\ c.w = w /\ c.shared = {n}
         /\ \A i \in DOMAIN Writer : i \notin {"at", "w", "shared"} => c[i] = Writer[i]
    BY <1>1, <1>5, <1>17 DEF Over
  <1> HIDE DEF c
  <1>19. /\ DOMAIN c1 = DOMAIN Writer /\ c1.at = "finish" /\ c1.w = w /\ c1.shared = {n} /\ c1.change = h
         /\ \A i \in DOMAIN Writer : i \notin {"at", "w", "shared", "change"} => c1[i] = Writer[i]
    BY <1>1, <1>18
  <1>c. c1.change = Change(disk, e) /\ c1.op = Writer.op /\ c1.locked = Writer.locked
    BY <1>1, <1>5, <1>19 DEF h
  <1> HIDE DEF c1
  <1>20. /\ TypeSound(k) /\ NodeIds(k) = NodeIds(disk) /\ k.nodes = disk.nodes /\ k.maps = disk.maps
         /\ Kept(disk, k, n)
    <2>1. e.blockSeq \in Nat /\ disk.blockSeq <= e.blockSeq
      BY <1>11 DEF Evolves, TypeSound
    <2> QED
      BY <1>1, <1>6, <2>1, TickedSame
  <1>21. ASSUME w0.seq <= disk.blockSeq PROVE Attached(k, c1, n, w0.seq, cs)
    <2> DEFINE ch == Writer.change
    <2>1. ChangeTyped(disk, ch) /\ ch.maps = {} /\ ChangedBy(disk, ch, v)
      BY <1>1, <1>5
    <2> DEFINE s == w0.seq
    <2>s. s \in Nat /\ s <= disk.blockSeq /\ Grown(v, e, n, first, s, cs)
      BY <1>6, <1>10, <1>21
    <2> HIDE DEF ch, s
    <2>2. Attached(Ticked(disk, e), c1, n, s, cs)
      <3>1. /\ TypeSound(disk) /\ MapsSound(disk) /\ n \in Nat /\ e.maps = e.maps /\ e.blockSeq = e.blockSeq
            /\ \A i \in 1..Len(cs) : first + i \in DOMAIN e.blocks /\ e.blocks[first + i] = NewBlock(cs[i])
            /\ c1.change = Change(disk, e)
        BY <1>1, <1>6, <1>12, <1>c
      <3> QED
        BY <1>7, <2>1, <2>s, <3>1, GrownAttached
    <2> QED
      BY <2>2 DEF k, s
  <1> HIDE DEF k
  <1>22. /\ MapsOfAll(k, Writer.ids) = MapsOfAll(disk, Writer.ids) /\ BlocksOf(k, Writer.ids) = BlocksOf(disk, Writer.ids)
         /\ Content(k, n) = Content(disk, n) /\ NextSequence(k, n) = NextSequence(disk, n)
    BY <1>1, <1>6, <1>20, KeptParts DEF MapsOfAll, BlocksOf
  <1>23. WriterFields(k, w)
    BY <1>9, <1>20 DEF WriterFields
  <1>24. ASSUME OverwriteOk(disk, Writer) PROVE OverwriteOk(k, c1)
    <2>1. OverwriteHeld(disk, Writer) /\ OverwriteAt(disk, Writer) /\ Released(disk, Writer)
      BY <1>4, <1>24
    <2>2. /\ w0.seq = 0 /\ w0.hashed = <<>> /\ w0.size = 0 /\ {"listed"} \subseteq DOMAIN Writer
      BY <1>1, <2>1 DEF OverwriteAt, w0
    <2>3. /\ {"op", "ids", "row", "bsize"} \subseteq DOMAIN Writer /\ Writer.op = "overwrite" /\ Writer.bsize \in BlockSizes
          /\ Writer.ids = {n}
      BY <1>1, <1>24, <2>1 DEF OverwriteOk, OverwriteHeld, w0, n
    <2>4. c1.ids = Writer.ids /\ c1.bsize = Writer.bsize
      BY <1>19, <2>3
    <2>5. OverwriteHeld(disk, c1)
      <3>1. c1.w.mode = Writer.w.mode /\ c1.w.node = Writer.w.node /\ c1.w.ver = Writer.w.ver /\ c1.shared \subseteq {Writer.w.node}
        BY <1>8, <1>19 DEF w0, n
      <3>2. WriterFields(disk, c1.w) /\ {"w"} \subseteq DOMAIN c1 /\ NodeIds(e) = NodeIds(disk)
        BY <1>1, <1>5, <1>9, <1>12, <1>19
      <3> QED
        BY <1>1, <1>16, <1>c, <2>1, <2>4, <3>1, <3>2, OverwriteHeldNext
    <2>6. OverwriteHeld(k, c1)
      BY <1>19, <1>20, <1>23, <2>5 DEF OverwriteHeld
    <2>7. Writer.change.unmaps = MapsOfAll(disk, Writer.ids) /\ \A b \in BlocksOf(disk, Writer.ids) : b \in DOMAIN Writer.change.blocks
      BY <2>1 DEF Released
    <2>8. \A b \in BlocksOf(disk, Writer.ids) : b \in DOMAIN disk.blocks /\ ~disk.blocks[b].free
      BY <1>1 DEF MapsSound, BlocksOf, MapsOfAll
    <2>9. h.unmaps = MapsOfAll(disk, Writer.ids)
      BY <1>13, <2>7 DEF MapsOfAll
    <2>10. Released(k, c1)
      BY <1>14, <1>19, <1>22, <2>4, <2>7, <2>8, <2>9 DEF Released
    <2>11. Attached(k, c1, n, 0, cs)
      <3>1. w0.seq <= disk.blockSeq
        BY <1>1, <2>2
      <3> QED
        BY <1>21, <2>2, <3>1
    <2>12. /\ c1.w.hashed = data /\ c1.w.size = Len(data) /\ cs = Chunks(data, c1.w.bsize) /\ c1.w.node = n
      BY <1>6, <1>8, <1>19, <2>2 DEF cs
    <2>13. \E d \in Payloads : /\ c1.w.hashed = d /\ c1.w.size = Len(d)
                               /\ Attached(k, c1, c1.w.node, 0, Chunks(d, c1.w.bsize))
      BY <2>11, <2>12
    <2>14. OverwriteAt(k, c1)
      BY <1>19, <2>2, <2>10, <2>13 DEF OverwriteAt
    <2> QED
      BY <1>19, <1>c, <2>3, <2>4, <2>6, <2>14 DEF OverwriteOk
  <1>25. ASSUME AppendOk(disk, Writer) PROVE AppendOk(k, c1)
    <2>1. /\ Writer.op = "append" /\ w0.mode = "ab" /\ w0.ver <= disk.nodes[n].ver /\ Writer.locked = {}
          /\ DOMAIN Writer.change.nodes = {} /\ Writer.change.unmaps = {}
      BY <1>25 DEF AppendOk, w0, n
    <2>2. ASSUME w0.ver = disk.nodes[n].ver
          PROVE  /\ w0.size = disk.nodes[n].size /\ w0.seq = NextSequence(disk, n)
                 /\ w0.hashed = Content(disk, n)
      BY <1>1, <1>25, <2>2 DEF AppendOk, w0, n
    <2>3. \A m \in h.maps : m.file = n
      <3>1. AddedOnly(Added(n, first, w0.seq, cs), n, first, w0.seq, Len(cs))
        BY <1>6, <1>7, <1>12, AddedShape
      <3> QED
        BY <1>13, <3>1 DEF AddedOnly
    <2>4. h.unmaps = {} /\ DOMAIN h.nodes = {}
      BY <1>13, <1>15, <2>1
    <2>5. ASSUME w.ver = k.nodes[n].ver
          PROVE  \E d \in Payloads :
                   /\ w.size = k.nodes[n].size + Len(d)
                   /\ w.hashed = Content(k, n) \o d
                   /\ Attached(k, c1, n, NextSequence(k, n), Chunks(d, w.bsize))
      <3>1. w0.ver = disk.nodes[n].ver
        BY <1>8, <1>20, <2>5
      <3>2. w0.size = disk.nodes[n].size /\ w0.seq = NextSequence(disk, n) /\ w0.hashed = Content(disk, n)
        BY <2>2, <3>1
      <3>3. w0.seq <= disk.blockSeq
        BY <1>1, <1>6, <3>2, NextSequenceSound
      <3>4. Attached(k, c1, n, NextSequence(k, n), cs)
        BY <1>21, <1>22, <3>2, <3>3
      <3>5. w.size = k.nodes[n].size + Len(data) /\ w.hashed = Content(k, n) \o data /\ cs = Chunks(data, w.bsize)
        BY <1>8, <1>20, <1>22, <3>2 DEF cs
      <3> QED
        BY <3>4, <3>5
    <2> QED
      BY <1>5, <1>8, <1>19, <1>20, <1>23, <1>c, <2>1, <2>3, <2>4, <2>5 DEF AppendOk
  <1>26. TxOk(k, "writer", c1)
    BY <1>1, <1>3, <1>19, <1>24, <1>25 DEF TxOk
  <1>27. TxOk(Ticked(disk, e), "writer", [c EXCEPT !.change = Change(disk, e)])
    BY <1>26 DEF k, c1, h
  <1>28. \A u \in Others("writer") : /\ c.locked \cap (u.locked \cup u.shared) = {}
                                     /\ u.locked \cap (c.locked \cup c.shared) = {}
    <2>1. ASSUME NEW u \in Others("writer")
          PROVE  /\ c.locked \cap (u.locked \cup u.shared) = {}
                 /\ u.locked \cap c.locked = {} /\ n \notin u.locked
      <3>1. c.locked = tx["writer"].locked
        BY <1>1, <1>18
      <3>2. n \notin u.locked
        BY <1>2, <1>8 DEF NodeSharable
      <3> QED
        BY <1>1, <3>1, <3>2 DEF MaintenanceInv, Others, Apart
    <2> QED
      BY <1>18, <2>1
  <1>29. {"at", "change", "locked", "shared"} \subseteq DOMAIN c
    BY <1>1, <1>18
  <1>30. Evolves(disk, View("writer"), e, {})
    BY <1>11 DEF v
  <1> QED
    BY <1>1, <1>2, <1>27, <1>28, <1>29, <1>30, ContinueInv

LEMMA FinalizeTyped ==
  ASSUME NEW d, TypeSound(d), NEW w, CanFinalize(d, w), w.size \in Nat, w.bsize \in Nat \ {0}
  PROVE  TypeSound(FinalizeDb(d, w)) /\ FinalizeDb(d, w).blockSeq = d.blockSeq
  <1> DEFINE e == FinalizeDb(d, w)
  <1>1. w.node \in NodeIds(d) /\ w.node \in DOMAIN d.nodes /\ NodeRowSound(d.nodes[w.node])
    BY DEF CanFinalize, TypeSound, NodeIds
  <1>2. /\ DOMAIN e = DOMAIN d /\ e.nodeSeq = d.nodeSeq /\ e.blockSeq = d.blockSeq
        /\ e.maps = d.maps /\ e.blocks = d.blocks /\ DOMAIN e.nodes = DOMAIN d.nodes
        /\ \A n \in DOMAIN d.nodes : n # w.node => e.nodes[n] = d.nodes[n]
        /\ e.nodes[w.node] = [d.nodes[w.node] EXCEPT !.size = w.size, !.bsize = w.bsize,
             !.sum = Hash(w.hashed), !.ver = IF w.mode = "ab" THEN @ + 1 ELSE @]
    BY <1>1 DEF FinalizeDb, TypeSound, NodeRowSound
  <1> HIDE DEF e
  <1>3. NodeRowSound(e.nodes[w.node])
    BY <1>1, <1>2 DEF NodeRowSound
  <1>4. \A n \in NodeIds(e) : NodeRowSound(e.nodes[n])
    BY <1>2, <1>3 DEF TypeSound, NodeIds
  <1> QED
    BY <1>2, <1>4 DEF TypeSound, NodeIds, e

LEMMA FinishInv ==
  ASSUME MaintenanceInv, Finish
  PROVE  StepOk
  <1> DEFINE w == Writer.w
             n == w.node
             v == View("writer")
             e == FinalizeDb(v, w)
  <1>1. /\ Writer.at = "finish" /\ "writer" \in Transactions /\ Writer = tx["writer"]
        /\ NodeFree("writer", n) /\ CanFinalize(v, w) /\ Commit("writer", e)
    BY WriterParts DEF Finish
  <1>2. /\ TxOk(disk, "writer", Writer) /\ TypeSound(disk) /\ MapsSound(disk) /\ RowsMatchContent(disk)
        /\ TypeSound(v) /\ NodeIds(v) = NodeIds(disk)
        /\ \A i \in DOMAIN Writer.change.nodes : v.nodes[i] = Writer.change.nodes[i]
        /\ \A i \in NodeIds(disk) \ DOMAIN Writer.change.nodes : v.nodes[i] = disk.nodes[i]
    BY <1>1, WriterParts, ViewParts DEF MaintenanceInv
  <1>3. OverwriteOk(disk, Writer) \/ AppendOk(disk, Writer)
    BY <1>1, <1>2, IdleOk, MaintenanceAssumption DEF TxOk, RemoveOk
  <1>4. WriterFields(disk, w)
    BY <1>1, <1>3 DEF OverwriteOk, OverwriteHeld, AppendOk
  <1>5. /\ n \in NodeIds(disk) /\ disk.nodes[n].type = "file" /\ w.size \in Nat
        /\ w.bsize \in BlockSizes /\ w.bsize \in Nat \ {0} /\ w.ver \in Nat
        /\ disk.nodes[n].ver \in Nat
    BY <1>2, <1>4, TablesAssumption DEF WriterFields, TypeSound, NodeRowSound
  <1> HIDE DEF v, w
  <1>6. /\ NodeIds(e) = NodeIds(disk)
        /\ e.nodeSeq = v.nodeSeq /\ e.maps = v.maps /\ e.blocks = v.blocks
        /\ \A i \in NodeIds(disk) \ {n} : e.nodes[i] = v.nodes[i]
        /\ e.nodes[n].type = v.nodes[n].type
        /\ e.nodes[n].size = w.size /\ e.nodes[n].sum = Hash(w.hashed)
        /\ e.nodes[n].ver = w.ver + IF w.mode = "ab" THEN 1 ELSE 0
    BY <1>1, <1>2, FinalizeShape
  <1>7. TypeSound(e) /\ e.blockSeq = v.blockSeq
    BY <1>1, <1>2, <1>5, FinalizeTyped
  <1> HIDE DEF e, n
  <1>8. CASE OverwriteOk(disk, Writer)
    <2>1. OverwriteHeld(disk, Writer) /\ OverwriteAt(disk, Writer)
      BY <1>1, <1>8 DEF OverwriteOk
    <2>2. /\ tx["writer"].ids = {n} /\ DOMAIN Writer.change.nodes = {n} /\ w.mode = "wb"
          /\ Writer.change.nodes[n].type = "file" /\ w.ver = disk.nodes[n].ver + 1
      BY <1>1, <2>1 DEF OverwriteHeld, w, n
    <2>3. Released(disk, tx["writer"])
      BY <1>1, <2>1 DEF OverwriteAt
    <2>4. PICK data \in Payloads : /\ w.hashed = data /\ w.size = Len(data)
                                   /\ Attached(disk, tx["writer"], n, 0, Chunks(data, w.bsize))
      BY <1>1, <2>1 DEF OverwriteAt, w, n
    <2>5. data \in Seq(Bytes)
      BY MaintenanceAssumption
    <2>6. /\ \A i \in NodeIds(disk) \ {n} : e.nodes[i] = disk.nodes[i]
          /\ e.nodes[n].type = "file"
      BY <1>2, <1>5, <1>6, <2>2
    <2>7. e.nodes[n].ver > disk.nodes[n].ver /\ e.nodes[n].size = Len(data) /\ e.nodes[n].sum = Hash(data)
      BY <1>5, <1>6, <2>2, <2>4
    <2> DEFINE bs == w.bsize
    <2>8. bs \in BlockSizes /\ Attached(disk, tx["writer"], n, 0, Chunks(data, bs))
      BY <1>5, <2>4
    <2> HIDE DEF bs
    <2>9. /\ e.maps = View("writer").maps /\ e.blocks = View("writer").blocks
          /\ e.blockSeq = View("writer").blockSeq /\ e.nodeSeq = View("writer").nodeSeq
      BY <1>6, <1>7 DEF v
    <2> QED
      BY <1>1, <1>5, <1>6, <1>7, <2>2, <2>3, <2>5, <2>6, <2>7, <2>8, <2>9, AnewCommitInv
  <1>9. CASE AppendOk(disk, Writer)
    <2>1. /\ w.mode = "ab" /\ DOMAIN Writer.change.nodes = {} /\ tx["writer"].change.unmaps = {}
          /\ w.ver = disk.nodes[n].ver
      <3>1. w.mode = "ab" /\ DOMAIN Writer.change.nodes = {} /\ tx["writer"].change.unmaps = {}
        BY <1>1, <1>9 DEF AppendOk, w
      <3>2. v.nodes[n].ver = w.ver /\ v.nodes[n] = disk.nodes[n]
        BY <1>1, <1>2, <1>5, <3>1 DEF CanFinalize, n
      <3> QED
        BY <3>1, <3>2
    <2> DEFINE s == NextSequence(disk, n)
               bs == w.bsize
               old == Content(disk, n)
    <2>2. PICK data \in Payloads : /\ w.size = disk.nodes[n].size + Len(data)
                                   /\ w.hashed = old \o data
                                   /\ Attached(disk, tx["writer"], n, s, Chunks(data, bs))
      BY <1>1, <1>9, <2>1 DEF AppendOk, w, n
    <2>3. data \in Seq(Bytes) /\ old \in Seq(Bytes)
      BY <1>2, <1>5, ContentType, MaintenanceAssumption
    <2>4. /\ \A i \in NodeIds(disk) \ {n} : e.nodes[i] = disk.nodes[i]
          /\ e.nodes[n].type = "file"
      BY <1>2, <1>5, <1>6, <2>1
    <2>5. disk.nodes[n].size = Len(old)
      BY <1>2, <1>5 DEF RowsMatchContent
    <2>6. s \in Nat /\ SequencesOf(disk, n) = 0..(s - 1)
      BY <1>2, <1>5, NextSequenceSound
    <2> HIDE DEF s, old
    <2>7. /\ e.nodes[n].ver > disk.nodes[n].ver
          /\ e.nodes[n].size = Len(old \o data) /\ e.nodes[n].sum = Hash(old \o data)
      BY <1>5, <1>6, <2>1, <2>2, <2>3, <2>5
    <2>8. bs \in BlockSizes
      BY <1>5
    <2> HIDE DEF bs
    <2>9. /\ e.maps = View("writer").maps /\ e.blocks = View("writer").blocks
          /\ e.blockSeq = View("writer").blockSeq /\ e.nodeSeq = View("writer").nodeSeq
      BY <1>6, <1>7 DEF v
    <2> DEFINE d0 == disk
    <2>10. /\ tx["writer"].change.unmaps \subseteq MapsOf(disk, n)
           /\ \A m \in tx["writer"].change.unmaps : m.block \in DOMAIN tx["writer"].change.blocks
           /\ d0.maps = disk.maps \ tx["writer"].change.unmaps
           /\ d0.nodes = disk.nodes /\ d0.blocks = disk.blocks /\ d0.blockSeq = disk.blockSeq
           /\ TypeSound(d0) /\ MapsSound(d0) /\ s \in Nat /\ SequencesOf(d0, n) = 0..(s - 1)
      BY <1>2, <2>1, <2>6
    <2>11. /\ e.nodes[n].size = Len(Content(d0, n) \o data)
           /\ e.nodes[n].sum = Hash(Content(d0, n) \o data)
      BY <2>7 DEF old
    <2> HIDE DEF d0
    <2>12. /\ StepOk
           /\ Content(e, n) = Content(d0, n) \o data
           /\ \A i \in NodeIds(disk) \ {n} : Kept(disk, e, i)
      <3>1. e.nodes[n].ver > disk.nodes[n].ver
        BY <2>7
      <3>2. Attached(disk, tx["writer"], n, s, Chunks(data, bs))
        BY <2>2
      <3> QED
        BY <1>1, <1>5, <1>6, <1>7, <2>3, <2>4, <2>8, <2>9, <2>10, <2>11, <3>1, <3>2, AttachCommitInv, ZenonT(90)
    <2> QED
      BY <2>12
  <1> QED
    BY <1>3, <1>8, <1>9

LEMMA DeleteNodesShape ==
  ASSUME NEW d, TypeSound(d), NEW ids
  PROVE  LET e == DeleteNodes(d, ids)
         IN  /\ NodeIds(e) = NodeIds(d) \ ids /\ \A n \in NodeIds(e) : e.nodes[n] = d.nodes[n]
             /\ e.maps = {m \in d.maps : m.file \notin ids} /\ e.blocks = d.blocks
             /\ e.blockSeq = d.blockSeq /\ e.nodeSeq = d.nodeSeq
  BY DEF TypeSound, DeleteNodes, NodeIds

LEMMA DropNodesInv ==
  ASSUME MaintenanceInv, DropNodes
  PROVE  StepOk
  <1> DEFINE h == tx["writer"].change
             ids == Writer.ids
             v == View("writer")
             e == DeleteNodes(v, ids)
  <1>1. /\ Writer.at = "drop" /\ "writer" \in Transactions /\ Writer = tx["writer"]
        /\ Commit("writer", e) /\ \A n \in ids : NodeFree("writer", n)
    BY WriterParts DEF DropNodes
  <1>2. /\ TxOk(disk, "writer", Writer) /\ TypeSound(disk) /\ MapsSound(disk) /\ RowsMatchContent(disk)
        /\ TypeSound(v) /\ NodeIds(v) = NodeIds(disk) /\ ChangeOk(disk, h) /\ ChangedBy(disk, h, v)
        /\ \A i \in NodeIds(disk) \ DOMAIN h.nodes : v.nodes[i] = disk.nodes[i]
    BY <1>1, WriterParts, ViewParts DEF MaintenanceInv
  <1>3. RemoveOk(disk, Writer)
    BY <1>1, <1>2, IdleOk, MaintenanceAssumption DEF TxOk, OverwriteOk, OverwriteAt, AppendOk
  <1>4. /\ ids \subseteq NodeIds(disk) /\ DOMAIN h.nodes = {} /\ h.maps = {}
        /\ \A m \in h.unmaps : m.file \in ids
        /\ Writer.op = "delete" => \A b \in BlocksOf(disk, ids) : b \in DOMAIN h.blocks
        /\ Writer.op \in {"delete", "move"}
    BY <1>1, <1>3 DEF RemoveOk, Released
  <1>5. /\ NodeIds(e) = NodeIds(v) \ ids /\ \A n \in NodeIds(e) : e.nodes[n] = v.nodes[n]
        /\ e.maps = {m \in v.maps : m.file \notin ids} /\ e.blocks = v.blocks
        /\ e.blockSeq = v.blockSeq /\ TypeSound(e)
    BY <1>2, DeleteNodesShape, DeleteNodesType
  <1> HIDE DEF e, ids, h, v
  <1>6. NodeIds(e) = NodeIds(disk) \ ids /\ \A n \in NodeIds(e) : e.nodes[n] = disk.nodes[n]
    BY <1>2, <1>4, <1>5
  <1>7. e.maps = {m \in disk.maps : m.file \notin ids}
    BY <1>2, <1>4, <1>5 DEF ChangedBy
  <1>8. /\ DOMAIN e.blocks = DOMAIN disk.blocks \cup DOMAIN h.blocks
        /\ \A b \in DOMAIN h.blocks : e.blocks[b] = h.blocks[b]
        /\ \A b \in DOMAIN disk.blocks \ DOMAIN h.blocks : e.blocks[b] = disk.blocks[b]
        /\ disk.blockSeq <= e.blockSeq /\ disk.blockSeq = e.blockSeq
    BY <1>2, <1>5 DEF ChangedBy, TypeSound
  <1>9. ASSUME NEW m \in e.maps
        PROVE  /\ m \in disk.maps /\ m.file \in NodeIds(e) /\ e.nodes[m.file].type = "file"
               /\ m.block \in DOMAIN e.blocks /\ e.blocks[m.block] = disk.blocks[m.block]
               /\ ~e.blocks[m.block].free
    <2>1. m \in disk.maps /\ m.file \notin ids /\ m \notin h.unmaps
      BY <1>4, <1>7
    <2>2. /\ m.file \in NodeIds(disk) /\ disk.nodes[m.file].type = "file"
          /\ m.block \in DOMAIN disk.blocks /\ ~disk.blocks[m.block].free
      BY <1>2, <2>1 DEF MapsSound
    <2>3. m.block \notin DOMAIN h.blocks
      BY <1>2, <2>1, <2>2 DEF ChangeOk
    <2> QED
      BY <1>6, <1>8, <2>1, <2>2, <2>3
  <1>10. ASSUME NEW n \in NodeIds(e) PROVE Kept(disk, e, n)
    <2>1. MapsOf(e, n) = MapsOf(disk, n)
      BY <1>6, <1>7 DEF MapsOf
    <2>2. \A m \in MapsOf(disk, n) : e.blocks[m.block].data = disk.blocks[m.block].data
      BY <1>9, <2>1 DEF MapsOf
    <2> QED
      BY <1>6, <2>1, <2>2 DEF Kept
  <1>11. MapsSound(e)
    <2>1. \A m, k \in e.maps : m.block = k.block \/ (m.file = k.file /\ m.seq = k.seq) => m = k
      BY <1>2, <1>9 DEF MapsSound
    <2>2. \A f \in NodeIds(e) : \E n \in 0..e.blockSeq : SequencesOf(e, f) = 0..(n - 1)
      BY <1>2, <1>6, <1>8, <1>10 DEF MapsSound, Kept, SequencesOf
    <2> QED
      BY <1>9, <2>1, <2>2 DEF MapsSound
  <1>12. LaysOut(disk, e)
    BY <1>6, <1>10 DEF LaysOut
  <1>13. Publishes(disk, h, e)
    <2>1. e.maps \subseteq disk.maps \cup h.maps
      BY <1>7
    <2>2. \A n \in NodeIds(e) : (n \in NodeIds(disk) /\ Kept(disk, e, n)) \/ FileMatches(e, n)
      BY <1>6, <1>10
    <2> QED
      BY <1>2, <1>5, <1>8, <1>11, <1>12, <2>1, <2>2, CommitPublishes
  <1>14. ASSUME BlocksOwned(disk), ~(Writer.at = "drop" /\ Writer.op = "move")
         PROVE  BlocksOwned(e)
    <2>1. ASSUME NEW m \in disk.maps PROVE m \in e.maps \/ m.block \in DOMAIN h.blocks
      <3>1. m \notin e.maps => m.block \in BlocksOf(disk, ids)
        BY <1>7 DEF BlocksOf, MapsOfAll
      <3> QED
        BY <1>1, <1>4, <1>14, <3>1
    <2>2. h.maps \subseteq e.maps
      BY <1>4
    <2> QED
      BY <1>2, <1>8, <1>14, <2>1, <2>2, CommitOwned
  <1>15. \A n \in NodeIds(disk) : Kept(disk, e, n) \/ NodeFree("writer", n)
    BY <1>1, <1>6, <1>10
  <1> QED
    BY <1>1, <1>13, <1>14, <1>15, CommitInv DEF h

(* start() of a file that does not exist ... *)
NoSequences(d, n) == SequencesOf(d, n) = {}

LEMMA InsertFile ==
  ASSUME NEW d, TypeSound(d), MapsSound(d), NEW p \in Paths, NEW bs \in BlockSizes, ~HasNode(d, p),
         NEW e, e = StartDb(d, "wb", p, bs), NEW n, n = d.nodeSeq,
         NEW w, w = StartWriter(e, "wb", p, bs)
  PROVE  /\ TypeSound(e) /\ MapsSound(e) /\ n \in Nat /\ n \notin NodeIds(d)
         /\ NodeIds(e) = NodeIds(d) \cup {n} /\ \A i \in NodeIds(d) : e.nodes[i] = d.nodes[i]
         /\ e.nodes[n].type = "file" /\ e.nodes[n].ver = 1
         /\ e.maps = d.maps /\ e.blocks = d.blocks /\ e.blockSeq = d.blockSeq
         /\ NoSequences(e, n) /\ Content(e, n) = <<>>
         /\ DOMAIN w = {"node", "mode", "ver", "size", "hashed", "seq", "bsize"}
         /\ w.node = n /\ w.mode = "wb" /\ w.ver = 1 /\ w.size = 0 /\ w.hashed = <<>>
         /\ w.seq = 0 /\ w.bsize = bs
  <1> DEFINE row == NewFileRow(p, bs)
  <1>1. e = InsertNode(d, row) /\ NodeRowSound(row)
    BY TablesAssumption DEF StartDb, NodeRowSound, NewFileRow
  <1>2. row.path = p /\ row.type = "file" /\ row.size = 0 /\ row.ver = 1
    BY DEF NewFileRow
  <1> HIDE DEF row
  <1>3. TypeSound(e) /\ n \notin NodeIds(d) /\ n \in Nat /\ d.blockSeq \in Nat
    BY <1>1, InsertNodeType DEF TypeSound
  <1>4. /\ NodeIds(e) = NodeIds(d) \cup {n} /\ e.nodes[n] = row
        /\ \A i \in NodeIds(d) : e.nodes[i] = d.nodes[i]
        /\ e.maps = d.maps /\ e.blocks = d.blocks /\ e.blockSeq = d.blockSeq
    <2>1. InsertNode(d, row).nodes = [i \in DOMAIN d.nodes \cup {d.nodeSeq} |->
                                        IF i = d.nodeSeq THEN row ELSE d.nodes[i]]
      BY DEF TypeSound, InsertNode
    <2>2. /\ InsertNode(d, row).maps = d.maps /\ InsertNode(d, row).blocks = d.blocks
          /\ InsertNode(d, row).blockSeq = d.blockSeq
      BY DEF TypeSound, InsertNode
    <2> QED
      BY <1>1, <1>3, <2>1, <2>2 DEF NodeIds
  <1>5. NodesAt(e, p) = {n}
    BY <1>2, <1>3, <1>4 DEF HasNode, NodesAt
  <1>6. MapsOf(e, n) = {} /\ SequencesOf(e, n) = {}
    BY <1>3, <1>4 DEF MapsOf, SequencesOf, MapsSound
  <1>7. Content(e, n) = <<>> /\ NextSequence(e, n) = 0
    BY <1>6, NoMapsNoContent DEF NextSequence
  <1>8. (CHOOSE m \in NodesAt(e, p) : TRUE) = n
    BY <1>5
  <1>9. w = [node |-> n, mode |-> "wb", ver |-> row.ver, size |-> row.size, hashed |-> <<>>, seq |-> 0, bsize |-> bs]
    BY <1>4, <1>7, <1>8 DEF StartWriter
  <1>10. 0..(0 - 1) = {} /\ 0 \in 0..e.blockSeq
    BY <1>3, <1>4
  <1>11. \A i \in NodeIds(d) : SequencesOf(e, i) = SequencesOf(d, i)
    BY <1>4 DEF SequencesOf, MapsOf
  <1>12. \A i \in NodeIds(e) : \E k \in 0..e.blockSeq : SequencesOf(e, i) = 0..(k - 1)
    BY <1>4, <1>6, <1>10, <1>11, SMTT(60) DEF MapsSound
  <1>13. MapsSound(e)
    BY <1>4, <1>12 DEF MapsSound
  <1> QED
    BY <1>2, <1>3, <1>4, <1>6, <1>7, <1>9, <1>13 DEF NoSequences

(* ... and the file as it is committed. *)
Created(d, e, n, data) ==
  /\ TypeSound(e) /\ MapsSound(e) /\ n \notin NodeIds(d) /\ d.blockSeq <= e.blockSeq
  /\ NodeIds(e) = NodeIds(d) \cup {n}
  /\ e.nodes[n].size = Len(data) /\ e.nodes[n].sum = Hash(data) /\ Content(e, n) = data
  /\ \A i \in NodeIds(d) : Kept(d, e, i)
  /\ \A b \in DOMAIN d.blocks : b \in DOMAIN e.blocks /\ e.blocks[b] = d.blocks[b]
  /\ d.maps \subseteq e.maps
  /\ \A m \in e.maps \ d.maps : m.block \in DOMAIN e.blocks \ DOMAIN d.blocks
  /\ \A b \in DOMAIN e.blocks \ DOMAIN d.blocks :
       /\ b >= d.blockSeq /\ \E m \in e.maps : m.block = b
       /\ e.blocks[b].size = Len(e.blocks[b].data) /\ e.blocks[b].sum = Hash(e.blocks[b].data)

LEMMA FirstAttached ==
  ASSUME NEW d, TypeSound(d), MapsSound(d), NEW e, TypeSound(e), NEW f, NoSequences(d, f),
         NEW cs \in Seq(Seq(Bytes)), NEW first \in Nat, Attaches(d, e, f, 0, cs, first)
  PROVE  MapsSound(e) /\ Content(e, f) = Content(d, f) \o FlattenSeq(cs)
  <1> DEFINE n == 0
  <1>1. n \in Nat /\ SequencesOf(d, f) = 0..(n - 1) /\ Attaches(d, e, f, n, cs, first)
    <2>1. 0..(0 - 1) = {}
      OBVIOUS
    <2> QED
      BY <2>1 DEF NoSequences
  <1> HIDE DEF n
  <1>2. MapsSound(e)
    BY <1>1, AttachesMaps
  <1>3. /\ Content(e, f) = Content(d, f) \o FlattenSeq(cs)
        /\ \A g \in NodeIds(d) \ {f} : Content(e, g) = Content(d, g)
    BY <1>1, AttachesContent
  <1> QED
    BY <1>2, <1>3

(* The five calls that make the file. *)
Creates(d, p, bs, data, d1, w, u, w1, e) ==
  /\ ~HasNode(d, p) /\ d1 = StartDb(d, "wb", p, bs) /\ w = StartWriter(d1, "wb", p, bs)
  /\ u = WriteChunkDb(d1, w, data) /\ w1 = WriteChunk(w, data) /\ e = FinalizeDb(u, w1)

LEMMA CreateShape ==
  ASSUME NEW d, TypeSound(d), MapsSound(d), NEW p \in Paths, NEW bs \in BlockSizes,
         NEW data \in Seq(Bytes), NEW d1, NEW w, NEW u, NEW w1, NEW e,
         Creates(d, p, bs, data, d1, w, u, w1, e)
  PROVE  Created(d, e, d.nodeSeq, data)
  <1> DEFINE n == d.nodeSeq
             cs == Chunks(data, bs)
             first == d1.blockSeq - 1
  <1>1. /\ TypeSound(d1) /\ MapsSound(d1) /\ n \in Nat /\ n \notin NodeIds(d)
        /\ NodeIds(d1) = NodeIds(d) \cup {n} /\ \A i \in NodeIds(d) : d1.nodes[i] = d.nodes[i]
        /\ d1.nodes[n].type = "file" /\ d1.nodes[n].ver = 1
        /\ d1.maps = d.maps /\ d1.blocks = d.blocks /\ d1.blockSeq = d.blockSeq
        /\ NoSequences(d1, n) /\ Content(d1, n) = <<>>
        /\ DOMAIN w = {"node", "mode", "ver", "size", "hashed", "seq", "bsize"}
        /\ w.node = n /\ w.mode = "wb" /\ w.ver = 1 /\ w.size = 0 /\ w.hashed = <<>>
        /\ w.seq = 0 /\ w.bsize = bs
    <2>1. /\ n = d.nodeSeq /\ ~HasNode(d, p)
          /\ d1 = StartDb(d, "wb", p, bs) /\ w = StartWriter(d1, "wb", p, bs)
      BY DEF Creates
    <2> HIDE DEF n
    <2> QED
      BY <2>1, InsertFile
  <1>2. bs \in Nat \ {0}
    BY TablesAssumption
  <1>3. cs \in Seq(Seq(Bytes)) /\ FlattenSeq(cs) = data /\ Len(cs) \in Nat
    BY <1>2, ChunksType, ChunksJoin
  <1>4. u = AttachBlocks(d1, n, 0, cs)
    BY <1>1 DEF WriteChunkDb, Creates
  <1>5. /\ w1.node = n /\ w1.mode = "wb" /\ w1.ver = 1 /\ w1.size = Len(data)
        /\ w1.hashed = data /\ w1.bsize = bs
    BY <1>1 DEF WriteChunk, Creates
  <1> HIDE DEF n, cs
  <1>6. Grown(d1, u, n, first, 0, cs)
    BY <1>1, <1>3, <1>4, AttachShape
  <1> HIDE DEF first
  <1>7. /\ TypeSound(u) /\ NodeIds(u) = NodeIds(d1) /\ u.nodes = d1.nodes
        /\ u.blockSeq = d1.blockSeq + Len(cs) /\ first \in Nat /\ first = d1.blockSeq - 1
        /\ u.maps = d1.maps \cup Added(n, first, 0, cs)
        /\ \A b \in DOMAIN d1.blocks : b \in DOMAIN u.blocks /\ u.blocks[b] = d1.blocks[b]
        /\ \A i \in 1..Len(cs) : /\ first + i \in DOMAIN u.blocks /\ first + i \notin DOMAIN d1.blocks
                                 /\ u.blocks[first + i] = NewBlock(cs[i])
        /\ \A b \in DOMAIN u.blocks \ DOMAIN d1.blocks : \E i \in 1..Len(cs) : b = first + i
    BY <1>6 DEF Grown
  <1>8. CanFinalize(u, w1) /\ w1.size \in Nat
    BY <1>1, <1>5, <1>7 DEF CanFinalize
  <1>9. /\ NodeIds(e) = NodeIds(u) /\ e.maps = u.maps /\ e.blocks = u.blocks
        /\ \A i \in NodeIds(u) \ {n} : e.nodes[i] = u.nodes[i]
        /\ e.nodes[n].type = u.nodes[n].type
        /\ e.nodes[n].size = Len(data) /\ e.nodes[n].sum = Hash(data)
    <2>1. e = FinalizeDb(u, w1)
      BY DEF Creates
    <2> QED
      BY <1>5, <1>7, <1>8, <2>1, FinalizeShape
  <1>10. TypeSound(e) /\ e.blockSeq = u.blockSeq
    <2>1. e = FinalizeDb(u, w1)
      BY DEF Creates
    <2> QED
      BY <1>2, <1>5, <1>7, <1>8, <2>1, FinalizeTyped
  <1>11. /\ NodeIds(e) = NodeIds(d) \cup {n} /\ \A i \in NodeIds(d) : e.nodes[i] = d.nodes[i]
         /\ e.nodes[n].type = "file"
    <2>1. ASSUME NEW i \in NodeIds(d) PROVE e.nodes[i] = d.nodes[i]
      <3>1. i \in NodeIds(u) \ {n} /\ u.nodes[i] = d.nodes[i]
        BY <1>1, <1>7
      <3> QED
        BY <1>9, <3>1
    <2> QED
      BY <1>1, <1>7, <1>9, <2>1
  <1>12. /\ e.blockSeq = d.blockSeq + Len(cs) /\ d.blockSeq \in Nat /\ d1.blockSeq \in Nat
         /\ d.blockSeq <= e.blockSeq /\ 0 + Len(cs) <= e.blockSeq /\ d1.blockSeq <= e.blockSeq
    BY <1>1, <1>3, <1>7, <1>10 DEF TypeSound
  <1>13. Attaches(d1, e, n, 0, cs, first)
    <2>1. ASSUME NEW m \in d1.maps
          PROVE  /\ m.file \in NodeIds(e) /\ e.nodes[m.file].type = "file"
                 /\ m.block \in DOMAIN e.blocks /\ ~e.blocks[m.block].free
                 /\ e.blocks[m.block].data = d1.blocks[m.block].data
      <3>1. /\ m.file \in NodeIds(d) /\ d.nodes[m.file].type = "file"
            /\ m.block \in DOMAIN d.blocks /\ ~d.blocks[m.block].free
        BY <1>1 DEF MapsSound
      <3> QED
        BY <1>1, <1>7, <1>9, <1>11, <3>1
    <2>2. e.maps = d1.maps \cup Added(n, first, 0, cs)
      BY <1>7, <1>9
    <2>3. \A i \in 1..Len(cs) : /\ first + i \in DOMAIN e.blocks /\ first + i \notin DOMAIN d1.blocks
                                /\ e.blocks[first + i] = NewBlock(cs[i])
      BY <1>7, <1>9
    <2>4. n \in NodeIds(e) /\ NodeIds(e) \ {n} \subseteq NodeIds(d1)
      BY <1>1, <1>11
    <2>5. e.blockSeq \in Nat
      BY <1>10 DEF TypeSound
    <2> QED
      BY <1>11, <1>12, <2>1, <2>2, <2>3, <2>4, <2>5 DEF Attaches
  <1>14. MapsSound(e) /\ Content(e, n) = Content(d1, n) \o FlattenSeq(cs)
    <2>1. /\ NoSequences(d1, n) /\ TypeSound(d1) /\ MapsSound(d1)
          /\ TypeSound(e) /\ cs \in Seq(Seq(Bytes)) /\ first \in Nat
      BY <1>1, <1>3, <1>7, <1>10
    <2> QED
      BY <1>13, <2>1, FirstAttached
  <1>15. Content(e, n) = data
    BY <1>1, <1>3, <1>14
  <1>16. ASSUME NEW i \in NodeIds(d) PROVE Kept(d, e, i)
    <2>1. MapsOf(e, i) = MapsOf(d1, i) /\ MapsOf(d1, i) = MapsOf(d, i)
      BY <1>1, <1>13, AttachesOthers DEF MapsOf
    <2>2. \A m \in MapsOf(d, i) : e.blocks[m.block] = d.blocks[m.block]
      BY <1>1, <1>7, <1>9 DEF MapsOf, MapsSound
    <2> QED
      BY <1>11, <2>1, <2>2 DEF Kept
  <1>17. AddedOnly(Added(n, first, 0, cs), n, first, 0, Len(cs))
    BY <1>3, <1>7, AddedShape
  <1>18. ASSUME NEW b \in DOMAIN e.blocks \ DOMAIN d.blocks
         PROVE  /\ b >= d.blockSeq /\ \E m \in e.maps : m.block = b
                /\ e.blocks[b].size = Len(e.blocks[b].data) /\ e.blocks[b].sum = Hash(e.blocks[b].data)
    <2>1. PICK i \in 1..Len(cs) : b = first + i
      BY <1>1, <1>7, <1>9
    <2>2. e.blocks[b] = NewBlock(cs[i]) /\ \E m \in e.maps : m.block = b
      <3>1. u.blocks[first + i] = NewBlock(cs[i])
        BY <1>7
      <3>2. PICK m \in Added(n, first, 0, cs) : m.block = first + i
        BY <1>17 DEF AddedOnly
      <3>3. m \in e.maps
        BY <1>7, <1>9
      <3> QED
        BY <1>9, <2>1, <3>1, <3>2, <3>3
    <2>3. b >= d.blockSeq
      BY <1>1, <1>7, <1>12, <2>1
    <2> QED
      BY <2>2, <2>3 DEF NewBlock
  <1>19. ASSUME NEW m \in e.maps \ d.maps PROVE m.block \in DOMAIN e.blocks \ DOMAIN d.blocks
    <2>1. m \in Added(n, first, 0, cs)
      BY <1>1, <1>7, <1>9
    <2>2. PICK i \in 1..Len(cs) : m.block = first + i
      BY <1>17, <2>1 DEF AddedOnly
    <2> QED
      BY <1>1, <1>7, <1>9, <2>2
  <1>20. /\ \A b \in DOMAIN d.blocks : b \in DOMAIN e.blocks /\ e.blocks[b] = d.blocks[b]
         /\ d.maps \subseteq e.maps
    BY <1>1, <1>7, <1>9
  <1> QED
    BY <1>1, <1>9, <1>10, <1>11, <1>12, <1>14, <1>15, <1>16, <1>18, <1>19, <1>20 DEF Created, n

LEMMA CreateInv ==
  ASSUME MaintenanceInv, NEW p \in Paths, NEW bs \in BlockSizes, NEW data \in Payloads,
         Create(p, data, bs)
  PROVE  StepOk
  <1> DEFINE g  == StartDb(disk, "wb", p, bs)
             w  == StartWriter(g, "wb", p, bs)
             u  == WriteChunkDb(g, w, data)
             w1 == WriteChunk(w, data)
             e  == FinalizeDb(u, w1)
             n  == disk.nodeSeq
  <1>1. Writer.at = "idle" /\ ~HasNode(disk, p) /\ Commit("writer", e)
    BY DEF Create
  <1>2. /\ "writer" \in Transactions /\ tx["writer"].change = NoChange /\ TypeSound(disk)
        /\ MapsSound(disk) /\ RowsMatchContent(disk) /\ data \in Seq(Bytes)
    BY <1>1, WriterParts, IdleOk, MaintenanceAssumption DEF MaintenanceInv
  <1>3. Created(disk, e, n, data)
    <2>1. Creates(disk, p, bs, data, g, w, u, w1, e)
      BY <1>1 DEF Creates
    <2> HIDE DEF g, w, u, w1, e
    <2> QED
      BY <1>2, <2>1, CreateShape
  <1> HIDE DEF e, n
  <1>4. /\ TypeSound(e) /\ MapsSound(e) /\ n \notin NodeIds(disk) /\ disk.blockSeq <= e.blockSeq
        /\ NodeIds(e) = NodeIds(disk) \cup {n}
        /\ e.nodes[n].size = Len(data) /\ e.nodes[n].sum = Hash(data) /\ Content(e, n) = data
        /\ \A i \in NodeIds(disk) : Kept(disk, e, i)
        /\ \A b \in DOMAIN disk.blocks : b \in DOMAIN e.blocks /\ e.blocks[b] = disk.blocks[b]
        /\ disk.maps \subseteq e.maps
        /\ \A m \in e.maps \ disk.maps : m.block \in DOMAIN e.blocks \ DOMAIN disk.blocks
        /\ \A b \in DOMAIN e.blocks \ DOMAIN disk.blocks :
             /\ b >= disk.blockSeq /\ \E m \in e.maps : m.block = b
             /\ e.blocks[b].size = Len(e.blocks[b].data) /\ e.blocks[b].sum = Hash(e.blocks[b].data)
    BY <1>3 DEF Created
  <1>5. LaysOut(disk, e)
    BY <1>4 DEF LaysOut, Kept
  <1>6. RowsMatchContent(e)
    <2>1. ASSUME NEW i \in NodeIds(e), e.nodes[i].type = "file"
          PROVE  e.nodes[i].size = Len(Content(e, i)) /\ e.nodes[i].sum = Hash(Content(e, i))
      <3>1. CASE i = n
        BY <1>4, <3>1
      <3>2. CASE i # n
        <4>1. i \in NodeIds(disk) /\ Kept(disk, e, i)
          BY <1>4, <3>2
        <4>2. Content(e, i) = Content(disk, i) /\ e.nodes[i] = disk.nodes[i]
          BY <1>2, <4>1, KeptParts DEF Kept
        <4> QED
          BY <1>2, <2>1, <4>1, <4>2 DEF RowsMatchContent
      <3> QED
        BY <3>1, <3>2
    <2>2. ASSUME NEW b \in DOMAIN e.blocks
          PROVE  e.blocks[b].size = Len(e.blocks[b].data) /\ e.blocks[b].sum = Hash(e.blocks[b].data)
      BY <1>2, <1>4 DEF RowsMatchContent
    <2> QED
      BY <2>1, <2>2 DEF RowsMatchContent
  <1>7. Publishes(disk, tx["writer"].change, e)
    BY <1>2, <1>4, <1>5, <1>6, IdleOk DEF Publishes
  <1>8. BlocksOwned(disk) => BlocksOwned(e)
    BY <1>4 DEF BlocksOwned
  <1> QED
    BY <1>1, <1>2, <1>4, <1>7, <1>8, CommitInv

-----------------------------------------------------------------------------
(* The theorems *)

LEMMA MaintenanceInit ==
  Init => MaintenanceInv
  <1> SUFFICES ASSUME Init PROVE MaintenanceInv
    OBVIOUS
  <1>1. /\ DOMAIN disk = {"nodes", "blocks", "maps", "nodeSeq", "blockSeq"}
        /\ NodeIds(disk) = {} /\ DOMAIN disk.blocks = {} /\ disk.maps = {}
        /\ disk.nodeSeq = 1 /\ disk.blockSeq = 1
    BY DEF Init, EmptyDb, NodeIds
  <1>2. TypeSound(disk)
    BY <1>1 DEF TypeSound
  <1>3. MapsSound(disk) /\ RowsMatchContent(disk)
    BY <1>1 DEF MapsSound, RowsMatchContent
  <1>4. /\ DOMAIN tx = Transactions /\ \A t \in Transactions : tx[t] = Idle
        /\ DOMAIN gc = Collectors /\ \A g \in Collectors : gc[g] = Resting
    BY DEF Init
  <1>5. \A t \in Transactions : TxOk(disk, t, tx[t]) /\ ChangeOk(disk, tx[t].change)
    BY <1>4, IdleOk
  <1>6. \A t, u \in Transactions : t # u => Apart(tx[t], tx[u])
    BY <1>4, IdleOk DEF Apart
  <1>7. DOMAIN Resting = {"at", "excess", "ids"} /\ Resting.ids = {}
    BY DEF Resting
  <1>8. /\ \A g \in Collectors : ListOk(disk, gc[g])
        /\ \A g \in Collectors, t \in Transactions : \A b \in gc[g].ids :
             b \notin DOMAIN disk.blocks => b \notin DOMAIN tx[t].change.blocks
    BY <1>4, <1>7 DEF ListOk
  <1> QED
    BY <1>2, <1>3, <1>4, <1>5, <1>6, <1>8 DEF MaintenanceInv

LEMMA MaintenanceNext ==
  ASSUME MaintenanceInv, Next
  PROVE  StepOk
  <1>1. ASSUME NEW t \in Rechunkers, RechunkStep(t) PROVE StepOk
    BY <1>1, RechunkLockInv, RechunkLoadInv, RechunkAttachInv, RechunkUpdateInv DEF RechunkStep
  <1>2. ASSUME WriterStep PROVE StepOk
    <2>1. ASSUME NEW p \in Paths, NEW bs \in BlockSizes,
                 OverwriteRead(p, bs) \/ AppendRead(p, bs) \/ \E data \in Payloads : Create(p, data, bs)
          PROVE  StepOk
      BY <2>1, OverwriteReadInv, AppendReadInv, CreateInv
    <2>2. ASSUME NEW p \in Paths, DeleteLock(p) \/ MoveList(p) PROVE StepOk
      BY <2>2, RemoveReadInv
    <2>3. ASSUME NEW data \in Payloads, Write(data) PROVE StepOk
      BY <2>3, WriteInv
    <2>4. ASSUME OverwriteClaim \/ WriterFree \/ DropNodes \/ AppendSequence \/ AppendHash \/ Finish
          PROVE  StepOk
      BY <2>4, OverwriteClaimInv, WriterFreeInv, DropNodesInv, AppendReadsInv, FinishInv
    <2> QED
      BY <1>2, <2>1, <2>2, <2>3, <2>4 DEF WriterStep
  <1>3. ASSUME NEW t \in Transactions, ListBlocks(t) \/ DeleteMappings(t) \/ Rollback(t) PROVE StepOk
    BY <1>3, ListBlocksInv, DeleteMappingsInv, RollbackInv
  <1>4. ASSUME NEW g \in Collectors,
               CountFree(g) \/ ListGarbage(g) \/ DeleteGarbage(g) \/ StopCollecting(g)
        PROVE  StepOk
    BY <1>4, CollectorIdleInv, DeleteGarbageInv
  <1> QED
    BY <1>1, <1>2, <1>3, <1>4 DEF Next

LEMMA MaintenanceStep ==
  MaintenanceInv /\ [Next]_vars => MaintenanceInv'
  <1>1. ASSUME MaintenanceInv, UNCHANGED vars PROVE MaintenanceInv'
    BY <1>1 DEF MaintenanceInv, vars, Transactions
  <1> QED
    BY <1>1, MaintenanceNext DEF StepOk

(* Whatever rechunks, collections and writes run next to each other, where
   each is rolled back or stopped: the size and checksum of every committed
   file and block (_finalize, _rechunk_file) describe the bytes in it. *)
THEOREM RowsCorrect == Spec => []RowsDescribeContent
  <1>1. MaintenanceInv => RowsDescribeContent
    BY DEF MaintenanceInv, RowsDescribeContent
  <1> QED
    BY <1>1, MaintenanceInit, MaintenanceStep, PTL DEF Spec

LEMMA GarbageUnmapped ==
  ASSUME MaintenanceInv
  PROVE  GcListsGarbage
  <1> SUFFICES ASSUME NEW g \in Collectors, NEW t \in Transactions,
                      NEW m \in disk.maps \cup tx[t].change.maps, m.block \in gc[g].ids
               PROVE  FALSE
    BY DEF GcListsGarbage
  <1>1. m.block \in DOMAIN disk.blocks => disk.blocks[m.block].free
    BY DEF MaintenanceInv, ListOk
  <1>2. CASE m \in disk.maps
    BY <1>1, <1>2 DEF MaintenanceInv, MapsSound
  <1>3. CASE m \in tx[t].change.maps
    <2>1. m.block \in DOMAIN tx[t].change.blocks /\ m.block \notin DOMAIN disk.blocks
      BY <1>3 DEF MaintenanceInv, ChangeOk
    <2> QED
      BY <2>1 DEF MaintenanceInv
  <1> QED
    BY <1>2, <1>3

(* A block that fsspec_gc has listed is mapped by no committed file and by no
   open transaction, for any number of collectors, rechunks and blocks. *)
THEOREM GarbageCorrect == Spec => []GcListsGarbage
  <1> QED
    BY GarbageUnmapped, MaintenanceInit, MaintenanceStep, PTL DEF Spec

(* No commit lays out a file anew under the version it had. *)
THEOREM LayoutsCorrect == Spec => LayoutBumpsVersion
  <1>1. ASSUME MaintenanceInv, Next
        PROVE  \A n \in NodeIds(disk) \cap NodeIds(disk') :
                 MapsOf(disk, n) # MapsOf(disk', n) => disk'.nodes[n].ver > disk.nodes[n].ver
    <2>1. LaysOut(disk, disk')
      BY <1>1, MaintenanceNext DEF StepOk
    <2> QED
      BY <2>1 DEF LaysOut, Kept
  <1> QED
    BY <1>1, MaintenanceInit, MaintenanceStep, PTL DEF Spec, LayoutBumpsVersion

(* No commit but that of a move over a directory leaves a used block without
   an owner, one with two, or a gap in the sequences of a file. *)
THEOREM LeaksCorrect == Spec => OnlyMovesLeak
  <1>1. ASSUME MaintenanceInv, Next, GraphSound(disk), ~(Writer.at = "drop" /\ Writer.op = "move")
        PROVE  GraphSound(disk')
    <2>1. BlocksOwned(disk') /\ MaintenanceInv'
      BY <1>1, MaintenanceNext, GraphParts DEF StepOk
    <2>2. MapsSound(disk')
      BY <2>1 DEF MaintenanceInv
    <2> QED
      BY <2>1, <2>2, GraphParts
  <1>2. ASSUME MaintenanceInv, Next
        PROVE  disk' # disk /\ GraphSound(disk) /\ ~(Writer.at = "drop" /\ Writer.op = "move")
                 => GraphSound(disk')
    BY <1>1, <1>2
  <1> QED
    BY <1>2, MaintenanceInit, MaintenanceStep, PTL DEF Spec, OnlyMovesLeak

(* A step of transaction u is not one of transaction t. *)
LEMMA OthersRest ==
  ASSUME MaintenanceInv, NEW t \in Transactions, NEW u \in Transactions, u # t,
         NEW c, tx' = [tx EXCEPT ![u] = c]
  PROVE  tx'[t] = tx[t]
  BY DEF MaintenanceInv

Steps(u) == \E c : tx' = [tx EXCEPT ![u] = c]

LEMMA ContinueSteps ==
  ASSUME NEW u, NEW c, NEW e, Continue(u, c, e)
  PROVE  Steps(u)
  BY DEF Continue, Steps

LEMMA CommitSteps ==
  ASSUME NEW u, NEW e, Commit(u, e)
  PROVE  Steps(u)
  BY DEF Commit, Steps

(* A rechunk at its last statement ends by that statement or by a rollback. *)
LEMMA RechunkEnds ==
  ASSUME MaintenanceInv, Next, NEW t \in Rechunkers,
         tx[t].at = "update", disk' # disk, tx'[t] = Idle
  PROVE  RechunkUpdate(t)
  <1>1. t \in Transactions /\ t # "writer" /\ tx[t] # Idle /\ tx[t].at \notin {"idle", "load", "list", "unmap", "free"}
    BY MaintenanceAssumption, IdleOk DEF Transactions
  <1>2. ASSUME NEW u \in Transactions, Steps(u) PROVE u = t
    <2>1. PICK c : tx' = [tx EXCEPT ![u] = c]
      BY <1>2 DEF Steps
    <2> QED
      BY <1>1, <2>1, OthersRest
  <1>3. ~Steps("writer")
    BY <1>1, <1>2 DEF Transactions
  <1>4. ~UNCHANGED tx
    BY <1>1
  <1>5. ASSUME NEW u \in Rechunkers, RechunkStep(u) PROVE RechunkUpdate(t)
    <2>1. Steps(u)
      BY <1>5, ContinueSteps, CommitSteps
         DEF RechunkStep, RechunkLock, RechunkLoad, RechunkAttach, RechunkUpdate
    <2>2. u = t
      BY <1>2, <2>1 DEF Transactions
    <2> QED
      BY <1>1, <1>5, <2>2 DEF RechunkStep, RechunkLock, RechunkLoad, RechunkAttach
  <1>6. ASSUME WriterStep PROVE FALSE
    <2>1. \A f, e : ~Continues(f, e)
      BY <1>3, ContinueSteps DEF Continues
    <2>2. \A e : ~Commit("writer", e)
      BY <1>3, CommitSteps
    <2> QED
      BY <1>6, <2>1, <2>2, ZenonT(90) DEF WriterStep, OverwriteRead, AppendRead, Create, DeleteLock, MoveList, Write,
         OverwriteClaim, WriterFree, DropNodes, AppendSequence, AppendHash, Finish
  <1>7. ASSUME NEW u \in Transactions, ListBlocks(u) \/ DeleteMappings(u) \/ Rollback(u) PROVE FALSE
    <2>1. Steps(u)
      BY <1>7, ContinueSteps DEF ListBlocks, DeleteMappings, Rollback, Steps
    <2>2. u = t
      BY <1>2, <2>1
    <2> QED
      BY <1>1, <1>7, <2>2 DEF ListBlocks, DeleteMappings, Rollback
  <1>8. ASSUME NEW g \in Collectors,
               CountFree(g) \/ ListGarbage(g) \/ DeleteGarbage(g) \/ StopCollecting(g)
        PROVE  FALSE
    BY <1>4, <1>8 DEF CountFree, ListGarbage, DeleteGarbage, StopCollecting
  <1> QED
    BY <1>5, <1>6, <1>7, <1>8 DEF Next

(* _rechunk_file commits the bytes that every file has at that moment, its own
   and the others': no writer that commits between its read and its update is
   undone. *)
THEOREM RechunksCorrect == Spec => RechunkKeepsContent
  <1>1. ASSUME MaintenanceInv, Next
        PROVE  \A t \in Rechunkers :
                 tx[t].at = "update" /\ disk' # disk /\ tx'[t] = Idle
                   => /\ NodeIds(disk') = NodeIds(disk)
                      /\ \A n \in NodeIds(disk) : Content(disk', n) = Content(disk, n)
    BY <1>1, RechunkEnds, RechunkUpdateInv
  <1> QED
    BY <1>1, MaintenanceInit, MaintenanceStep, PTL DEF Spec, RechunkKeepsContent
=============================================================================
