------------------------------- MODULE Adapter -------------------------------
(***************************************************************************)
(* The methods of DjangoFileSystem that make several calls of operations:  *)
(* mv, recursive copy and touch, with rm and makedirs beside them.  Every  *)
(* call sees and changes the file system in one step, and other programs   *)
(* come in between.  The path <<>> is "/", which is always a directory     *)
(* here.  slash says that the destination was written with a trailing      *)
(* "/", contents that the source was.                                      *)
(***************************************************************************)
EXTENDS FileSystem, SequencesExt

CONSTANTS
  Programs,   \* the threads that call the methods
  Calls       \* what they may call

ASSUME AdapterAssumption ==
  \A call \in Calls :
    IF call.op \in {"mv", "copy"}
    THEN call.src \in Seq(Names) \ {<<>>} /\ call.dst \in Seq(Names)
    ELSE call.path \in Seq(Names) \ {<<>>}

VARIABLE task  \* the last call of each program and how far it is

NoCall == [phase |-> "none"]

AdapterInit == task = [p \in Programs |-> NoCall]

Running(p) == task[p].phase \notin {"none", "over"}

BeginTask(p, call) ==
  /\ ~Running(p)
  /\ task' = [task EXCEPT ![p] =
       [phase |-> "begin", call |-> call, asDirectory |-> FALSE, to |-> <<>>,
        found |-> {}, left |-> {}, prefix |-> <<>>, item |-> <<>>, node |-> 0,
        outcome |-> "none"]]
  /\ UNCHANGED fsVars

Doing(p, op, phase) == task[p].phase = phase /\ task[p].call.op = op
Arg(p) == task[p].call
Look == UNCHANGED fsVars

Proceed(p, phase) == task' = [task EXCEPT ![p].phase = phase]
Over(p, outcome) == task' = [task EXCEPT ![p].phase = "over", ![p].outcome = outcome]
Return(p) == Over(p, "returned")
Raise(p) == Over(p, "raised")

(* AbstractFileSystem.isdir over DjangoFileSystem.info. *)
IsDir(q) == q = <<>> \/ IsDirectory(q)

(* The last segment of the source goes below a destination that is a directory. *)
IntoDirectory(src, dst) == Append(dst, Last(src))

-----------------------------------------------------------------------------
(* mv *)

MvLook(p) ==
  /\ Doing(p, "mv", "begin") /\ Look
  /\ IF Arg(p).src = Arg(p).dst THEN Return(p)
     ELSE task' = [task EXCEPT ![p].phase = "target",
                               ![p].asDirectory = Arg(p).recursive \/ IsDir(Arg(p).src)]

MvTarget(p) ==
  /\ Doing(p, "mv", "target") /\ Look
  /\ task' = [task EXCEPT ![p].phase = "move",
       ![p].to = IF IsDir(Arg(p).dst) THEN IntoDirectory(Arg(p).src, Arg(p).dst) ELSE Arg(p).dst]

(* move_directory or move_file, which look again. *)
MvMove(p) ==
  /\ Doing(p, "mv", "move")
  /\ LET src == Arg(p).src
         to  == task[p].to
     IN  CASE to = src -> Return(p) /\ Look
           [] to # src /\ IsFile(src) # task[p].asDirectory /\ CanMove(src, to, Arg(p).overwrite) ->
                Return(p) /\ Move(src, to, Arg(p).overwrite)
           [] OTHER -> Raise(p) /\ Look

-----------------------------------------------------------------------------
(* copy with recursive=True *)

(* Mutant of FoundBelow: no more than the children. *)
FoundChildren(src) ==
  {q \in UNION {Ancestors(r) \cup {r} : r \in DOMAIN tree} :
     Below(src, q) /\ Len(q) = Len(src) + 1}

(* find with withdirs: everything below, implicit directories too, but not the
   source itself. *)
FoundBelow(src) ==
  {q \in UNION {Ancestors(r) \cup {r} : r \in DOMAIN tree} : Below(src, q)}

CopyFindInfo(p) ==
  /\ Doing(p, "copy", "begin") /\ Look
  /\ IF IsFile(Arg(p).src)
     THEN task' = [task EXCEPT ![p].phase = "target", ![p].found = {Arg(p).src}]
     ELSE Proceed(p, "nodes")

CopyFindNodes(p) ==
  /\ Doing(p, "copy", "nodes") /\ Look
  /\ LET found == FoundBelow(Arg(p).src)
     IN  task' = [task EXCEPT ![p].phase = IF found = {} THEN "isfile" ELSE "target",
                              ![p].found = found]

CopyIsFile(p) ==
  /\ Doing(p, "copy", "isfile") /\ Look
  /\ IF IsFile(Arg(p).src)
     THEN task' = [task EXCEPT ![p].phase = "target", ![p].found = {Arg(p).src}]
     ELSE Proceed(p, "isdir")

CopyIsDir(p) ==
  /\ Doing(p, "copy", "isdir") /\ Look
  /\ CASE IsDir(Arg(p).src) -> Proceed(p, "empty")
       [] ~IsDir(Arg(p).src) /\ Arg(p).ignore -> Return(p)
       [] OTHER -> Raise(p)

(* An empty directory. *)
CopyEmptyTarget(p) ==
  /\ Doing(p, "copy", "empty") /\ Look
  /\ task' = [task EXCEPT ![p].phase = "mkempty",
       ![p].to = IF Arg(p).slash \/ IsDir(Arg(p).dst)
                 THEN IntoDirectory(Arg(p).src, Arg(p).dst) ELSE Arg(p).dst]

CopyMakeEmpty(p) ==
  /\ Doing(p, "copy", "mkempty")
  /\ IF CanMakedirs(task[p].to) THEN Makedirs(task[p].to) /\ Return(p) ELSE Raise(p) /\ Look

(* fsspec.utils.common_prefix: the longest path that all of them begin with. *)
CommonPrefix(S) ==
  LET r == CHOOSE q \in S : TRUE
      common == {k \in 0..Len(r) : \A q \in S : k <= Len(q) /\ Upto(q, k) = Upto(r, k)}
  IN  Upto(r, CHOOSE k \in common : \A j \in common : j <= k)

(* fsspec.utils.other_paths: the prefix that the destination takes the place of. *)
ReplacedPrefix(S, exists) == IF exists THEN Parent(CommonPrefix(S)) ELSE CommonPrefix(S)

CopyTarget(p) ==
  /\ Doing(p, "copy", "target") /\ Look
  /\ LET exists == (Arg(p).slash \/ IsDir(Arg(p).dst)) /\ ~Arg(p).contents
     IN  task' = [task EXCEPT ![p].phase = "items", ![p].left = task[p].found,
                              ![p].prefix = ReplacedPrefix(task[p].found, exists)]

ItemTarget(p) == Arg(p).dst \o SubSeq(task[p].item, Len(task[p].prefix) + 1, Len(task[p].item))

NextItem(p) == Proceed(p, "items")

(* The sources are sorted, so that a directory comes before what is in it; the
   order of siblings is left open. *)
ItemLook(p) ==
  /\ Doing(p, "copy", "items") /\ Look
  /\ IF task[p].left = {} THEN Return(p)
     ELSE \E q \in task[p].left :
            /\ \A r \in task[p].left : ~Below(r, q)
            /\ task' = [task EXCEPT ![p].phase = IF IsDir(q) THEN "mkitem" ELSE "source",
                                    ![p].item = q, ![p].left = @ \ {q}]

ItemMakedirs(p) ==
  /\ Doing(p, "copy", "mkitem")
  /\ IF CanMakedirs(ItemTarget(p)) THEN Makedirs(ItemTarget(p)) /\ NextItem(p)
     ELSE Raise(p) /\ Look

(* copy_file: a lookup of the source, ... *)
ItemSource(p) ==
  /\ Doing(p, "copy", "source") /\ Look
  /\ LET q == task[p].item
     IN  CASE IsFile(q) -> task' = [task EXCEPT ![p].phase = "write", ![p].node = tree[q].id]
           [] ~Present(q) /\ Arg(p).ignore -> NextItem(p)
           [] OTHER -> Raise(p)

(* ... then its writer, with what the source holds by then. *)
ItemWrite(p) ==
  /\ Doing(p, "copy", "write")
  /\ IF ItemTarget(p) # <<>> /\ CanWrite(ItemTarget(p))
     THEN CopyInto(task[p].node, ItemTarget(p)) /\ UNCHANGED calls /\ NextItem(p)
     ELSE Raise(p) /\ Look

-----------------------------------------------------------------------------
(* touch, makedirs, rm *)

TouchLook(p) ==
  /\ Doing(p, "touch", "begin") /\ Look
  /\ IF Arg(p).truncate \/ ~Present(Arg(p).path) THEN Proceed(p, "write") ELSE Return(p)

(* open(path, "wb") and close: what is there by now is emptied. *)
TouchWrite(p) ==
  /\ Doing(p, "touch", "write")
  /\ IF CanWrite(Arg(p).path) THEN Store(Arg(p).path, <<>>) /\ Return(p) ELSE Raise(p) /\ Look

MakedirsCall(p) ==
  /\ Doing(p, "makedirs", "begin")
  /\ IF CanMakedirs(Arg(p).path) /\ (Present(Arg(p).path) => Arg(p).existOk)
     THEN Makedirs(Arg(p).path) /\ Return(p) ELSE Raise(p) /\ Look

RmCall(p) ==
  /\ Doing(p, "rm", "begin")
  /\ IF CanErase(Arg(p).path, Arg(p).recursive)
     THEN Delete(Arg(p).path, Arg(p).recursive) /\ Return(p) ELSE Raise(p) /\ Look

-----------------------------------------------------------------------------
AdapterStep(p) ==
  \/ MvLook(p) \/ MvTarget(p) \/ MvMove(p)
  \/ CopyFindInfo(p) \/ CopyFindNodes(p) \/ CopyIsFile(p) \/ CopyIsDir(p)
  \/ CopyEmptyTarget(p) \/ CopyMakeEmpty(p) \/ CopyTarget(p)
  \/ ItemLook(p) \/ ItemMakedirs(p) \/ ItemSource(p) \/ ItemWrite(p)
  \/ TouchLook(p) \/ TouchWrite(p) \/ MakedirsCall(p) \/ RmCall(p)
=============================================================================
