------------------------------- MODULE Repair -------------------------------
(***************************************************************************)
(* fsspec_fsck and fsspec_repair over the rows of several namespaces, some *)
(* of them damaged by hand, and the writes between two runs.               *)
(*                                                                         *)
(* A repair is one transaction and one action here: nothing runs next to   *)
(* it (it takes no lock; what may happen then is not modelled).  Node rows *)
(* have one more field, ns, and scope is the --namespace option, or "all". *)
(* last says what the latest command was and how it ended.                 *)
(***************************************************************************)
EXTENDS Tables

CONSTANTS
  Namespaces,     \* names of the namespaces, a subset of Names
  Stamps,         \* the timestamps of the recoveries, as names
  InvalidNames,   \* segments that validate_path refuses, as ".."
  Scenarios,      \* what is written and damaged in one behavior, see scenario
  MaxDamage,      \* bound on damaged fields
  MaxBlocks,      \* bound on StorageBlock ids handed out
  MaxSequence     \* bound on the sequences that the damager sets

ASSUME RepairAssumption ==
  /\ Namespaces \subseteq Names /\ "all" \notin Namespaces
  /\ InvalidNames \subseteq Names
  /\ Stamps \in Seq(Names \ InvalidNames)
  /\ Scenarios \subseteq
       [paths : SUBSET Paths, payloads : SUBSET Seq(Bytes),
        damage : SUBSET {"block", "node", "type", "mapping", "path"},
        nodes : Nat, versions : Nat]
  /\ MaxDamage \in Nat /\ MaxBlocks \in Nat /\ MaxSequence \in Nat

VARIABLES
  db,         \* the committed rows
  last,       \* the latest command: op, scope, recover, outcome
  damage,     \* how many fields were damaged
  recovered,  \* how many recoveries took a timestamp
  scenario    \* the paths and payloads of this behavior, what is damaged in it, and
              \* bounds on its FileNode ids and versions

vars == <<db, last, damage, recovered, scenario>>

Scopes == Namespaces \cup {"all"}

Nothing == [op |-> "none", scope |-> "all", recover |-> FALSE, outcome |-> "ok"]

Init ==
  /\ scenario \in Scenarios
  /\ db = EmptyDb /\ last = Nothing /\ damage = 0 /\ recovered = 0

-----------------------------------------------------------------------------
(* Rows of a scope *)

NodesIn(d, scope) == {n \in NodeIds(d) : scope \in {"all", d.nodes[n].ns}}

TypedIn(d, scope, t) == {n \in NodesIn(d, scope) : d.nodes[n].type = t}

MapsIn(d, scope) == {m \in d.maps : m.file \in NodesIn(d, scope)}

MappedIn(d, scope) == {m.block : m \in MapsIn(d, scope)}

(* validate_path accepts p. *)
Valid(p) == \A i \in 1..Len(p) : p[i] \notin InvalidNames

(* The column of the path holds p (where the backend minds). *)
Fits(p) == Len(p) <= MaxDepth

InvalidPaths(d, scope) == {n \in NodesIn(d, scope) : ~Valid(d.nodes[n].path)}

OwnersOf(d, b, scope) == {m.file : m \in {k \in MapsIn(d, scope) : k.block = b}}

Contiguous(d, f) == SequencesOf(d, f) = 0..(Cardinality(MapsOf(d, f)) - 1)

Describes(row, data) == row.size = Len(data) /\ row.sum = Hash(data)

-----------------------------------------------------------------------------
(* fsspec_fsck: the codes of its findings *)

Found(code, rows) == IF rows = {} THEN {} ELSE {code}

(* _check_blocks: the used blocks of the scope; a blank checksum is not a
   finding. *)
BlockFindings(d, scope) ==
  LET checked == {b \in DOMAIN d.blocks :
                    ~d.blocks[b].free /\ (scope = "all" \/ b \in MappedIn(d, scope))}
      Actual(b) == d.blocks[b].data
  IN  Found("block_checksum_mismatch",
            {b \in checked : d.blocks[b].sum \notin {NoHash, Hash(Actual(b))}})
      \cup Found("block_size_mismatch", {b \in checked : d.blocks[b].size # Len(Actual(b))})

(* The files of a namespace that have descendants in it. *)
ConflictsWithin(d, scope) ==
  {f \in TypedIn(d, scope, "file") :
     \E n \in NodesIn(d, d.nodes[f].ns) : LikeBelow(d.nodes[f].path, d.nodes[n].path)}

(* _check_file_node, for a directory and for any other node. *)
NodeFindings(d, scope) ==
  LET directories == TypedIn(d, scope, "directory")
      others == NodesIn(d, scope) \ directories
      row(n) == d.nodes[n]
  IN  Found("invalid_path", InvalidPaths(d, scope))
      \cup Found("invalid_node_type", others \ TypedIn(d, scope, "file"))
      \cup Found("path_conflict", ConflictsWithin(d, scope))
      \cup Found("directory_has_blocks", {n \in directories : MapsOf(d, n) # {}})
      \cup Found("directory_size_mismatch", {n \in directories : row(n).size # 0})
      \cup Found("directory_checksum_mismatch", {n \in directories : row(n).sum # NoHash})
      \cup Found("file_size_mismatch", {n \in others : row(n).size # Len(Content(d, n))})
      \cup Found("file_checksum_mismatch",
                 {n \in others : row(n).sum \notin {NoHash, Hash(Content(d, n))}})
      \cup Found("non_contiguous_sequences", {n \in others : ~Contiguous(d, n)})

(* _check_block_graph: the owners of a block are counted within the scope. *)
GraphFindings(d, scope) ==
  Found("file_blocks_to_free_storage", {b \in MappedIn(d, scope) : d.blocks[b].free})
  \cup Found("shared_storage_block",
             {b \in MappedIn(d, scope) : Cardinality(OwnersOf(d, b, scope)) > 1})
  \cup Found("used_block_without_owner",
             {b \in DOMAIN d.blocks :
                scope = "all" /\ ~d.blocks[b].free /\ b \notin MappedIn(d, "all")})

Findings(d, scope) ==
  BlockFindings(d, scope) \cup NodeFindings(d, scope) \cup GraphFindings(d, scope)

-----------------------------------------------------------------------------
(* fsspec_repair, phase by phase *)

(* _repair_free_referenced_blocks *)
UseReferenced(d, scope) ==
  [d EXCEPT !.blocks = [b \in DOMAIN @ |->
     IF b \in MappedIn(d, scope) THEN [@[b] EXCEPT !.free = FALSE] ELSE @[b]]]

(* Mutant of FixDirectories: the blocks of the dropped mappings are freed even
   if a file maps them too. *)
FixDirectoriesFreeingAll(d, scope) ==
  LET directories == TypedIn(d, scope, "directory")
      theirs == {m.block : m \in {k \in d.maps : k.file \in directories}}
  IN  [d EXCEPT !.maps = {m \in @ : m.file \notin directories},
                !.blocks = [b \in DOMAIN @ |->
                   IF b \in theirs THEN [@[b] EXCEPT !.free = TRUE] ELSE @[b]],
                !.nodes = [n \in DOMAIN @ |->
                   IF n \in directories THEN [@[n] EXCEPT !.size = 0, !.sum = NoHash] ELSE @[n]]]

(* Mutant of FixDirectories: their checksums are left. *)
FixDirectorySizes(d, scope) ==
  LET directories == TypedIn(d, scope, "directory")
  IN  [ReleaseFileBlocks(d, directories) EXCEPT
         !.nodes = [n \in DOMAIN @ |->
            IF n \in directories THEN [@[n] EXCEPT !.size = 0] ELSE @[n]]]

(* _repair_directories *)
FixDirectories(d, scope) ==
  LET directories == TypedIn(d, scope, "directory")
  IN  [ReleaseFileBlocks(d, directories) EXCEPT
         !.nodes = [n \in DOMAIN @ |->
            IF n \in directories THEN [@[n] EXCEPT !.size = 0, !.sum = NoHash] ELSE @[n]]]

(* The place of mapping m in the order of its file. *)
RankOf(d, m) == Cardinality({k \in MapsOf(d, m.file) : k.seq < m.seq})

(* Mutant of StaleRow: renumbered sequences alone do not bump the version. *)
StaleFields(d, f) == ~Describes(d.nodes[f], Content(d, f))

StaleRow(d, f) == ~Describes(d.nodes[f], Content(d, f)) \/ ~Contiguous(d, f)

(* Mutant of FixFiles: the namespace is not filtered. *)
FixAllFiles(d, scope) ==
  LET files == TypedIn(d, "all", "file")
  IN  [d EXCEPT
         !.maps = {IF m.file \in files THEN [m EXCEPT !.seq = RankOf(d, m)] ELSE m : m \in @},
         !.nodes = [n \in DOMAIN @ |->
            IF n \in files /\ StaleRow(d, n)
            THEN [@[n] EXCEPT !.size = Len(Content(d, n)), !.sum = Hash(Content(d, n)),
                              !.ver = d.nodes[n].ver + 1]
            ELSE @[n]]]

(* _repair_file_nodes: sequences, size and checksum from what is mapped, and
   a new version for a file that needed any of them. *)
FixFiles(d, scope) ==
  LET files == TypedIn(d, scope, "file")
  IN  [d EXCEPT
         !.maps = {IF m.file \in files THEN [m EXCEPT !.seq = RankOf(d, m)] ELSE m : m \in @},
         !.nodes = [n \in DOMAIN @ |->
            IF n \in files /\ StaleRow(d, n)
            THEN [@[n] EXCEPT !.size = Len(Content(d, n)), !.sum = Hash(Content(d, n)),
                              !.ver = d.nodes[n].ver + 1]
            ELSE @[n]]]

(* Mutant of FixBlocks: the sizes are left. *)
FixSums(d, scope) ==
  [d EXCEPT !.blocks = [b \in DOMAIN @ |-> [@[b] EXCEPT !.sum = Hash(d.blocks[b].data)]]]

(* _repair_block_metadata *)
FixBlocks(d, scope) ==
  LET blocks == IF scope = "all" THEN {b \in DOMAIN d.blocks : ~d.blocks[b].free}
                ELSE MappedIn(d, scope)
  IN  [d EXCEPT !.blocks = [b \in DOMAIN @ |->
         IF b \in blocks
         THEN [@[b] EXCEPT !.size = Len(d.blocks[b].data), !.sum = Hash(d.blocks[b].data)]
         ELSE @[b]]]

(* _repair_unreferenced_used_blocks, in a global repair only. *)
FreeUnreferenced(d, scope) ==
  IF scope # "all" THEN d
  ELSE [d EXCEPT !.blocks = [b \in DOMAIN @ |->
          IF b \in MappedIn(d, "all") THEN @[b] ELSE [@[b] EXCEPT !.free = TRUE]]]

(* Mutant of Repaired: block rows first, referenced blocks marked used last. *)
RepairedBlocksFirst(d, scope) ==
  UseReferenced(FreeUnreferenced(FixFiles(FixDirectories(FixBlocks(d, scope), scope), scope),
                                 scope), scope)

(* Mutant of Repaired: what comes after a gap in the sequences is dropped. *)
RepairedUpToGap(d, scope) ==
  LET upTo == [d EXCEPT !.maps = {m \in @ : 0..m.seq \subseteq SequencesOf(d, m.file)}]
  IN  FreeUnreferenced(FixBlocks(FixFiles(FixDirectories(UseReferenced(upTo, scope), scope),
                                          scope), scope), scope)

Repaired(d, scope) ==
  FreeUnreferenced(FixBlocks(FixFiles(FixDirectories(UseReferenced(d, scope), scope), scope),
                             scope), scope)

(* _path_conflict_files: the descendants of file f are looked for among all
   nodes of the scope. *)
DescendantsIn(d, scope, f) ==
  {n \in NodesIn(d, scope) : LikeBelow(d.nodes[f].path, d.nodes[n].path)}

ConflictFiles(d, scope) ==
  {f \in TypedIn(d, scope, "file") : DescendantsIn(d, scope, f) # {}}

(* The recovery prefix of the conflicts of file f. *)
RecoveryRoot(d, f, stamp) == <<d.nodes[f].ns, stamp>>

(* Mutant of Recovered: rows of all namespaces are moved. *)
RecoveredAnywhere(d, scope, stamp) ==
  LET Above(n) == {f \in ConflictFiles(d, scope) : LikeBelow(d.nodes[f].path, d.nodes[n].path)}
  IN  [d EXCEPT !.nodes = [n \in DOMAIN @ |->
         IF Above(n) = {} THEN @[n]
         ELSE [@[n] EXCEPT
                 !.path = RecoveryRoot(d, Max(Above(n)), stamp) \o d.nodes[n].path]]]

(* _repair_path_conflicts with --recover-path-conflicts.  A row below several
   files is saved once for each, the last time for the last file. *)
Recovered(d, scope, stamp) ==
  LET Above(n) == {f \in ConflictFiles(d, scope) : n \in DescendantsIn(d, scope, f)}
  IN  [d EXCEPT !.nodes = [n \in DOMAIN @ |->
         IF Above(n) = {} THEN @[n]
         ELSE [@[n] EXCEPT
                 !.path = RecoveryRoot(d, Max(Above(n)), stamp) \o d.nodes[n].path]]]

SharedBlocks(d, scope) ==
  {b \in MappedIn(d, scope) : Cardinality(OwnersOf(d, b, "all")) > 1}

(* Mutant of Unresolved: the verdict on conflicts is overwritten. *)
UnresolvedByInspection(d, scope, recover) ==
  SharedBlocks(d, scope) # {} \/ InvalidPaths(d, scope) # {}

Unresolved(d, scope, recover) ==
  \/ ~recover /\ ConflictFiles(d, scope) # {}
  \/ SharedBlocks(d, scope) # {}
  \/ InvalidPaths(d, scope) # {}

Moves(d, scope, recover) == recover /\ ConflictFiles(d, scope) # {}

(* The rows of d that have another path in e. *)
Moved(d, e) == {n \in NodeIds(d) : e.nodes[n].path # d.nodes[n].path}

(* What a repair leaves, and how it ends.  A recovered path that is refused
   rolls all of it back. *)
RepairResult(d, scope, recover, stamp) ==
  LET fixed == Repaired(d, scope)
      done  == IF Moves(d, scope, recover) THEN Recovered(fixed, scope, stamp) ELSE fixed
  IN  IF \E n \in Moved(d, done) : ~Valid(done.nodes[n].path)
      THEN [db |-> d, outcome |-> "invalid path"]
      ELSE IF \E n \in Moved(d, done) : ~Fits(done.nodes[n].path)
      THEN [db |-> d, outcome |-> "path too long"]
      ELSE [db |-> done, outcome |-> IF Unresolved(done, scope, recover) THEN "attention" ELSE "ok"]

(* Mutant of PreviewOutcome: nothing is inspected. *)
PreviewWithoutInspection(d, scope, recover, stamp) ==
  IF ~recover /\ ConflictFiles(d, scope) # {} THEN "attention" ELSE "ok"

(* How a repair with --dry-run ends: the same checks on rows left alone; no
   path is put to the test of the column. *)
PreviewOutcome(d, scope, recover, stamp) ==
  LET moved == Recovered(d, scope, stamp)
  IN  IF Moves(d, scope, recover) /\ \E n \in Moved(d, moved) : ~Valid(moved.nodes[n].path)
      THEN "invalid path"
      ELSE IF Unresolved(d, scope, recover) THEN "attention" ELSE "ok"

-----------------------------------------------------------------------------
(* Actions *)

(* The rows of one namespace alone. *)
Within(d, ns) == [d EXCEPT !.nodes = [n \in NodesIn(d, ns) |-> @[n]]]

InNamespace(row, ns) ==
  [k \in DOMAIN row \cup {"ns"} |-> IF k = "ns" THEN ns ELSE row[k]]

(* write_file: create, or overwrite what stands at p. *)
WriteDb(d, ns, p, data) ==
  LET at == NodesAt(Within(d, ns), p)
      f  == IF at = {} THEN d.nodeSeq ELSE CHOOSE n \in at : TRUE
      e  == IF at = {} THEN InsertNode(d, InNamespace(NewFileRow(p, BlockSize), ns))
            ELSE [ReleaseFileBlocks(d, {f}) EXCEPT !.nodes[f].ver = @ + 1]
  IN  [AttachBlocks(e, f, 0, Chunks(data, BlockSize)) EXCEPT
         !.nodes[f].size = Len(data), !.nodes[f].bsize = BlockSize, !.nodes[f].sum = Hash(data)]

Write(ns, p, data) ==
  /\ Valid(p)
  /\ ParentOk(Within(db, ns), p) /\ TargetOk(Within(db, ns), p)
  /\ IF HasNode(Within(db, ns), p)
     THEN \A n \in NodesAt(Within(db, ns), p) : db.nodes[n].ver < scenario.versions
     ELSE db.nodeSeq <= scenario.nodes
  /\ db.blockSeq + Len(Chunks(data, BlockSize)) <= MaxBlocks + 1
  /\ db' = WriteDb(db, ns, p, data)
  /\ last' = Nothing
  /\ UNCHANGED <<damage, recovered>>

Repair(scope, recover) ==
  LET stamp  == IF recovered < Len(Stamps) THEN Stamps[recovered + 1] ELSE Stamps[1]
      result == RepairResult(db, scope, recover, stamp)
      moves  == Moves(db, scope, recover)
  IN  /\ moves => recovered < Len(Stamps)
      /\ db' = result.db
      /\ last' = [op |-> "repair", scope |-> scope, recover |-> recover,
                  outcome |-> result.outcome]
      /\ recovered' = recovered + IF moves THEN 1 ELSE 0
      /\ UNCHANGED damage

(* Rows changed by hand, within what the columns and their constraints take. *)
Damage(kind, d) ==
  /\ kind \in scenario.damage
  /\ damage < MaxDamage
  /\ damage' = damage + 1
  /\ db' = d
  /\ last' = Nothing
  /\ UNCHANGED recovered

DamageBlock ==
  \E b \in DOMAIN db.blocks : LET row == db.blocks[b] IN
    \E new \in {[row EXCEPT !.free = ~@], [row EXCEPT !.size = @ + 1],
                [row EXCEPT !.sum = NoHash], [row EXCEPT !.sum = Hash(<<>>)],
                [row EXCEPT !.data = <<>>]} :
      Damage("block", [db EXCEPT !.blocks[b] = new])

DamageNode ==
  \E n \in NodeIds(db) : LET row == db.nodes[n] IN
    \E new \in {[row EXCEPT !.size = @ + 1], [row EXCEPT !.sum = NoHash],
                [row EXCEPT !.sum = Hash(<<>>)]} :
      Damage("node", [db EXCEPT !.nodes[n] = new])

DamageType ==
  \E n \in NodeIds(db), t \in {"file", "directory", "other"} :
    t # db.nodes[n].type /\ Damage("type", [db EXCEPT !.nodes[n].type = t])

(* A mapping is added or removed; a changed sequence is both. *)
DamageMapping ==
  \/ \E m \in db.maps : Damage("mapping", [db EXCEPT !.maps = @ \ {m}])
  \/ \E f \in NodeIds(db), b \in DOMAIN db.blocks, s \in 0..MaxSequence :
       /\ s \notin SequencesOf(db, f)
       /\ Damage("mapping",
                 [db EXCEPT !.maps = @ \cup {[file |-> f, block |-> b, seq |-> s]}])

DamagePath ==
  \E n \in NodeIds(db), p \in scenario.paths :
    /\ ~HasNode(Within(db, db.nodes[n].ns), p)
    /\ Damage("path", [db EXCEPT !.nodes[n].path = p])

Step ==
  \/ \E ns \in Namespaces, p \in scenario.paths, data \in scenario.payloads : Write(ns, p, data)
  \/ \E scope \in Scopes, recover \in BOOLEAN : Repair(scope, recover)
  \/ DamageBlock
  \/ DamageNode
  \/ DamageType
  \/ DamageMapping
  \/ DamagePath

Next == Step /\ UNCHANGED scenario

Spec == Init /\ [][Next]_vars

-----------------------------------------------------------------------------
(* Properties *)

JustRepaired == last.op = "repair"

(* The repair was committed. *)
Ended == last.outcome \in {"ok", "attention"}

(* A repair that exits 0 leaves nothing that fsspec_fsck of the same scope
   reports, as long as every node is a file or a directory.  With recovery,
   conflicts among the moved rows may remain. *)
RepairedPassesFsck ==
  last.outcome = "ok"
  /\ NodesIn(db, last.scope) = TypedIn(db, last.scope, "file") \cup TypedIn(db, last.scope, "directory")
  => Findings(db, last.scope) \subseteq IF last.recover THEN {"path_conflict"} ELSE {}

(* Whatever else remains unresolved, every file of the scope is then read under
   the "checksum" policy, and gc takes none of its blocks. *)
RepairedFilesVerify ==
  \A f \in TypedIn(db, last.scope, "file") :
    /\ Describes(db.nodes[f], Content(db, f))
    /\ \A m \in MapsOf(db, f) :
         ~db.blocks[m.block].free /\ Describes(db.blocks[m.block], db.blocks[m.block].data)

(* One run of the command is enough (fsspec_repair.py: handle): when it has
   committed, fsck and every file of the scope are content as above, and to
   repair again changes nothing, so that no version is bumped twice and no block
   freed by one run is taken back by the next. *)
RepairSettles ==
  JustRepaired /\ Ended =>
    RepairedPassesFsck /\ RepairedFilesVerify /\ Repaired(db, last.scope) = db

(* Repair invents and loses no bytes: each file reads as before. *)
RepairKeepsContent ==
  [][last'.op = "repair" =>
       \A f \in TypedIn(db, "all", "file") : Content(db', f) = Content(db, f)]_vars

(* A handle opened before the repair notices it: the version of a file grows
   exactly when what a reader relies on, its size, checksum or the sequences
   of its blocks, is changed. *)
RepairBumpsVersion ==
  [][last'.op = "repair" =>
       \A f \in TypedIn(db, "all", "file") :
         LET Relied(d) == <<d.nodes[f].size, d.nodes[f].sum, MapsOf(d, f)>>
         IN  db'.nodes[f].ver = db.nodes[f].ver + IF Relied(db') = Relied(db) THEN 0 ELSE 1]_vars

(* On damaged rows too, neither an overwrite nor a repair gives to gc a block
   that was in use and still belongs to a file. *)
LiveBlocksStayLive ==
  [][damage' = damage =>
       \A m \in db'.maps :
         m.block \in DOMAIN db.blocks /\ ~db.blocks[m.block].free => ~db'.blocks[m.block].free]_vars

(* repair --namespace changes no row and no mapping of another namespace. *)
RepairStaysInScope ==
  [][last'.op = "repair" =>
       \A n \in NodeIds(db) :
         last'.scope \notin {"all", db.nodes[n].ns} =>
           db'.nodes[n] = db.nodes[n] /\ MapsOf(db', n) = MapsOf(db, n)]_vars

(* The dry run of a repair that leaves damage or that meets an invalid path
   does not end well either. *)
PreviewWarns ==
  [][last'.op = "repair" /\ last'.outcome \in {"attention", "invalid path"} =>
       PreviewOutcome(db, last'.scope, last'.recover, Stamps[1]) # "ok"]_vars
=============================================================================
