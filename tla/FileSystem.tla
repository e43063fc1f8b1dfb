----------------------------- MODULE FileSystem -----------------------------
(***************************************************************************)
(* What operations.py promises its callers, with no tables in sight: a     *)
(* namespace is a partial map from paths to entries, a file entry carries  *)
(* its bytes and the (id, version) pair that read handles compare, and     *)
(* each operation changes the map in one step.  A directory exists when it *)
(* has an entry or something below it.                                     *)
(***************************************************************************)
EXTENDS Paths, FiniteSets

CONSTANTS Bytes, MaxFileSize

VARIABLES
  tree,     \* path -> entry
  nextId,   \* the id of the next entry created
  calls     \* copy_file and remove_directory calls past their first lookup

fsVars == <<tree, nextId, calls>>

File(id, ver, data) == [type |-> "file", id |-> id, ver |-> ver, data |-> data]
Directory(id) == [type |-> "directory", id |-> id]

IsFile(p) == p \in DOMAIN tree /\ tree[p].type = "file"
TreeAt(p) == {q \in DOMAIN tree : q = p \/ Below(p, q)}
Present(p) == TreeAt(p) # {}
IsDirectory(p) == Present(p) /\ ~IsFile(p)

(* A path that may hold a file: nothing above it is one. *)
Reachable(p) == \A q \in Ancestors(p) : ~IsFile(q)

Set(t, p, e) == [q \in DOMAIN t \cup {p} |-> IF q = p THEN e ELSE t[q]]
Without(t, S) == [q \in DOMAIN t \ S |-> t[q]]

FsInit == tree = [p \in {} |-> {}] /\ nextId = 1 /\ calls = {}

Contents == UNION {[1..n -> Bytes] : n \in 0..MaxFileSize}

-----------------------------------------------------------------------------
CanWrite(p) == Reachable(p) /\ ~IsDirectory(p)

(* Replacing a file keeps its id and raises its version. *)
Replaced(p, data) ==
  IF IsFile(p) THEN File(tree[p].id, tree[p].ver + 1, data) ELSE File(nextId, 1, data)

Store(p, data) ==
  /\ UNCHANGED calls
  /\ nextId' = IF IsFile(p) THEN nextId ELSE nextId + 1
  /\ CanWrite(p)
  /\ Len(data) <= MaxFileSize
  /\ tree' = Set(tree, p, Replaced(p, data))

(* create_file_exclusive is the case of an absent p. *)
Overwrite(p, data) == Store(p, data)

(* Appending nothing to a full file is allowed; creating a file by appending
   also passes through its first version. *)
Extend(p, data) ==
  \/ nextId' = nextId + 1 /\ UNCHANGED calls
     /\ ~Present(p) /\ CanWrite(p) /\ Len(data) <= MaxFileSize
     /\ tree' = Set(tree, p, File(nextId, 2, data))
  \/ IsFile(p) /\ Store(p, tree[p].data \o data)

(* One directory entry for every missing level down to p. *)
CreateDirectory(p, base) ==
  /\ ~Present(p)
  /\ base > 0 => IsDirectory(Upto(p, base))
  /\ \A k \in (base + 1)..Len(p) : ~Present(Upto(p, k))
  /\ LET levels == (base + 1)..Len(p)
         made   == {Upto(p, k) : k \in levels}
     IN  tree' = [q \in DOMAIN tree \cup made |->
                    IF q \in made THEN Directory(nextId + Len(q) - base - 1) ELSE tree[q]]
  /\ nextId' = nextId + Len(p) - base
  /\ UNCHANGED calls

(* makedirs with exist_ok, of the root too: whatever is there will do, a file as
   well. *)
CanMakedirs(p) == p = <<>> \/ Present(p) \/ Reachable(p)

Makedirs(p) ==
  IF p = <<>> \/ Present(p) THEN UNCHANGED fsVars
  ELSE \E base \in 0..(Len(p) - 1) : CreateDirectory(p, base)

CanErase(p, recursive) == Present(p) /\ (TreeAt(p) # {p} => recursive)

Erase(p, recursive) ==
  /\ CanErase(p, recursive)
  /\ tree' = Without(tree, TreeAt(p))
  /\ UNCHANGED nextId

Delete(p, recursive) == Erase(p, recursive) /\ UNCHANGED calls

BeginCall(r) ==
  /\ r.op = "copy" => IsFile(r.src) /\ tree[r.src].id = r.node
  /\ r.op = "rmdir" => ~IsFile(r.path)
  /\ calls' = calls \cup {r}
  /\ UNCHANGED <<tree, nextId>>

(* copy_file past its lookup of the source: the file with that id is read under
   the lock, wherever it is by then; if it is gone, or is the destination, which
   has just been emptied, there is nothing to read. *)
CopyInto(node, dst) ==
  /\ CanWrite(dst)
  /\ LET source == {q \in DOMAIN tree : tree[q].id = node /\ q # dst}
         data   == IF source = {} THEN <<>> ELSE tree[CHOOSE q \in source : TRUE].data
     IN  tree' = Set(tree, dst, Replaced(dst, data))
  /\ nextId' = IF IsFile(dst) THEN nextId ELSE nextId + 1

(* A call that raises ends without effect.  An equal call of another caller
   may still be under way. *)
EndCall(r) ==
  /\ calls' \in {calls, calls \ {r}}
  /\ \/ UNCHANGED <<tree, nextId>>
     \/ r.op = "rmdir" /\ Erase(r.path, r.recursive)
     \/ r.op = "copy" /\ CopyInto(r.node, r.dst)

CanMove(src, dst, overwrite) ==
  /\ src # dst /\ ~Below(src, dst)
  /\ Present(src)
  /\ Reachable(dst)
  /\ Present(dst) => overwrite /\ (IsFile(src) => IsFile(dst))

(* A move keeps ids, versions and bytes and leaves nothing at the source; what
   was at the destination is gone. *)
Move(src, dst, overwrite) ==
  /\ UNCHANGED <<nextId, calls>>
  /\ CanMove(src, dst, overwrite)
  /\ LET moved == TreeAt(src) \ TreeAt(dst)
         kept  == DOMAIN tree \ (TreeAt(src) \cup TreeAt(dst))
     IN  tree' = [q \in kept \cup {Rebase(src, dst, p) : p \in moved} |->
                    IF q \in kept THEN tree[q] ELSE tree[Rebase(dst, src, q)]]

(* What a step changes. *)
Differs(p) ==
  \/ (p \in DOMAIN tree) # (p \in DOMAIN tree')
  \/ p \in DOMAIN tree /\ p \in DOMAIN tree' /\ tree[p] # tree'[p]

Changed == {p \in DOMAIN tree \cup DOMAIN tree' : Differs(p)}

Call(p) ==
  \/ \E data \in Contents : Overwrite(p, data) \/ Extend(p, data)
  \/ \E base \in 0..(Len(p) - 1) : CreateDirectory(p, base)
  \/ \E rec \in BOOLEAN : Delete(p, rec)
  \/ ~Present(p)' /\ \E dst \in Paths, ow \in BOOLEAN : Move(p, dst, ow)

FsNext ==
  /\ fsVars' # fsVars
  /\ \/ \E p \in Paths : Call(p)
     \/ \E r \in calls' \ calls : BeginCall(r)
     \/ \E r \in calls : EndCall(r)

FsSpec == FsInit /\ [][FsNext]_fsVars
=============================================================================
