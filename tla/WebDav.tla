------------------------------- MODULE WebDav -------------------------------
(***************************************************************************)
(* The WebDAV view: each handler is a few calls of operations.py, each of  *)
(* them one step on the file system, with other requests between them.     *)
(* The path <<>> is the root collection.  Authentication, which reads only *)
(* users and groups, is left out; GET and HEAD are in Reads, PROPFIND in    *)
(* Listings.                                                               *)
(***************************************************************************)
EXTENDS FileSystem

CONSTANTS
  Clients,    \* HTTP clients
  Requests    \* what they may send

ASSUME WebDavAssumption ==
  \A r \in Requests : r.path \in Seq(Names) /\ r.dest \in Seq(Names)

VARIABLE web  \* the last request of each client and how far its handler is

NoRequest == [phase |-> "none"]

WebInit == web = [c \in Clients |-> NoRequest]

Busy(c) == web[c].phase \notin {"none", "done"}

Receive(c, r) ==
  /\ ~Busy(c)
  /\ web' = [web EXCEPT ![c] =
       [phase |-> "look", req |-> r, existed |-> FALSE, node |-> 0, status |-> 0]]
  /\ UNCHANGED fsVars

Handles(c, methods, phase) ==
  /\ web[c].phase = phase
  /\ web[c].req.method \in methods

Goto(c, phase) == web' = [web EXCEPT ![c].phase = phase]
Answer(c, status) == web' = [web EXCEPT ![c].phase = "done", ![c].status = status]
NoChange == UNCHANGED fsVars

Req(c) == web[c].req
Existed(c) == web[c].existed
CreatedOrReplaced(c) == IF Existed(c) THEN 204 ELSE 201

-----------------------------------------------------------------------------
(* PUT *)

PutLook(c) ==
  /\ Handles(c, {"PUT"}, "look") /\ NoChange
  /\ LET existed == Present(Req(c).path)
     IN  CASE Req(c).path = <<>> -> Answer(c, 405)
           [] Req(c).path # <<>> /\ Req(c).none /\ existed -> Answer(c, 412)
           [] OTHER -> web' = [web EXCEPT ![c].phase = "write", ![c].existed = existed]

(* The writer, from start() to commit(): one step for everybody else.  Whether
   the file may be replaced is not asked again. *)
PutWrite(c) ==
  /\ Handles(c, {"PUT"}, "write")
  /\ CASE ~CanWrite(Req(c).path) -> Answer(c, 409) /\ NoChange
       [] CanWrite(Req(c).path) /\ Len(Req(c).data) > MaxFileSize -> Answer(c, 413) /\ NoChange
       [] OTHER -> Answer(c, CreatedOrReplaced(c)) /\ Store(Req(c).path, Req(c).data)

(* The body breaks off: the writer is discarded. *)
PutBreaksOff(c) ==
  /\ Handles(c, {"PUT"}, "write")
  /\ Answer(c, 400) /\ NoChange

-----------------------------------------------------------------------------
(* DELETE and MKCOL *)

HandleDelete(c) ==
  /\ Handles(c, {"DELETE"}, "look")
  /\ LET p == Req(c).path
     IN  CASE p = <<>> -> Answer(c, 405) /\ NoChange
           [] p # <<>> /\ Present(p) -> Answer(c, 204) /\ Delete(p, TRUE)
           [] OTHER -> Answer(c, 404) /\ NoChange

MkcolLook(c) ==
  /\ Handles(c, {"MKCOL"}, "look") /\ NoChange
  /\ IF Req(c).path = <<>> \/ Present(Req(c).path) THEN Answer(c, 405) ELSE Goto(c, "make")

(* Mutant of MkcolMake: a directory that has appeared is as good as made. *)
MkcolMakeExisting(c) ==
  /\ Handles(c, {"MKCOL"}, "make")
  /\ LET p == Req(c).path
     IN  CASE IsDirectory(p) -> Answer(c, 201) /\ NoChange
           [] ~Present(p) /\ CanMakedirs(p) -> Answer(c, 201) /\ Makedirs(p)
           [] OTHER -> Answer(c, 409) /\ NoChange

(* make_directory with create_parents=False, which looks again. *)
MkcolMake(c) ==
  /\ Handles(c, {"MKCOL"}, "make")
  /\ LET p      == Req(c).path
         parent == Parent(p)
     IN  CASE Present(p) \/ IsFile(parent) -> Answer(c, 409) /\ NoChange
           [] ~Present(p) /\ parent # <<>> /\ ~Present(parent) -> Answer(c, 404) /\ NoChange
           [] OTHER -> Answer(c, 201) /\ CreateDirectory(p, Len(p) - 1)

-----------------------------------------------------------------------------
(* COPY and MOVE *)

CopyMove == {"COPY", "MOVE"}

SourceLook(c) ==
  /\ Handles(c, CopyMove, "look") /\ NoChange
  /\ LET p == Req(c).path
         d == Req(c).dest
     IN  CASE d = p -> Answer(c, 204)
           [] d # p /\ <<>> \in {p, d} -> Answer(c, 405)
           [] d # p /\ <<>> \notin {p, d} /\ ~Present(p) -> Answer(c, 404)
           [] d # p /\ <<>> \notin {p, d} /\ IsDirectory(p) -> Answer(c, 409)
           [] OTHER -> Goto(c, "dest")

DestLook(c) ==
  /\ Handles(c, CopyMove, "dest") /\ NoChange
  /\ LET existed == Present(Req(c).dest)
     IN  IF existed /\ ~Req(c).overwrite THEN Answer(c, 412)
         ELSE web' = [web EXCEPT ![c].phase = "do", ![c].existed = existed]

(* copy_file looks the source up again and keeps its id, ... *)
CopyBegin(c) ==
  /\ Handles(c, {"COPY"}, "do") /\ NoChange
  /\ LET p == Req(c).path
     IN  CASE ~Present(p) -> Answer(c, 404)
           [] IsDirectory(p) -> Answer(c, 409)
           [] OTHER -> web' = [web EXCEPT ![c].phase = "copying", ![c].node = tree[p].id]

(* ... then its writer replaces what is at the destination by now. *)
CopyWrite(c) ==
  /\ Handles(c, {"COPY"}, "copying")
  /\ IF CanWrite(Req(c).dest)
     THEN CopyInto(web[c].node, Req(c).dest) /\ UNCHANGED calls /\ Answer(c, CreatedOrReplaced(c))
     ELSE Answer(c, 409) /\ NoChange

(* Mutant of MoveFlag: the handler has looked, the move need not. *)
FlagOfLook(c) == TRUE

(* move_file gets the header's word and looks again. *)
MoveFlag(c) == Req(c).overwrite

(* Mutant of MoveDo: the source is copied and stays. *)
MoveByCopy(c) ==
  /\ Handles(c, {"MOVE"}, "do")
  /\ IF IsFile(Req(c).path) /\ CanMove(Req(c).path, Req(c).dest, MoveFlag(c))
     THEN CopyInto(tree[Req(c).path].id, Req(c).dest) /\ UNCHANGED calls
          /\ Answer(c, CreatedOrReplaced(c))
     ELSE Answer(c, 409) /\ NoChange

MoveDo(c) ==
  /\ Handles(c, {"MOVE"}, "do")
  /\ LET p == Req(c).path
         d == Req(c).dest
     IN  CASE Reachable(d) /\ ~Present(p) -> Answer(c, 404) /\ NoChange
           [] IsFile(p) /\ CanMove(p, d, MoveFlag(c)) ->
                Answer(c, CreatedOrReplaced(c)) /\ Move(p, d, MoveFlag(c))
           [] OTHER -> Answer(c, 409) /\ NoChange

-----------------------------------------------------------------------------
WebStep(c) ==
  \/ PutLook(c) \/ PutWrite(c) \/ PutBreaksOff(c)
  \/ HandleDelete(c) \/ MkcolLook(c) \/ MkcolMake(c)
  \/ SourceLook(c) \/ DestLook(c) \/ CopyBegin(c) \/ CopyWrite(c) \/ MoveDo(c)
=============================================================================
