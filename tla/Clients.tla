------------------------------- MODULE Clients -------------------------------
(***************************************************************************)
(* WebDAV clients and programs with a DjangoFileSystem on one namespace,   *)
(* their handlers and methods interleaved call by call.                    *)
(***************************************************************************)
EXTENDS WebDav, Adapter

CONSTANTS
  Trees,        \* the file systems to begin with
  MaxRequests   \* bound on the requests and calls together

ASSUME ClientsAssumption ==
  /\ Clients \cap Programs = {}
  /\ MaxRequests \in Nat

(* Trees that the operations can have made, see SoundTree of Listings. *)
ASSUME TreesAssumption ==
  \A t \in Trees :
    /\ DOMAIN t \subseteq Seq(Names) \ {<<>>}
    /\ \A p \in DOMAIN t : t[p].type \in {"file", "directory"}
    /\ \A p, q \in DOMAIN t : t[p].type = "file" => ~Below(p, q)
    /\ IsFiniteSet(DOMAIN t)
    /\ \A p, q \in DOMAIN t : t[p].id \in 1..Cardinality(DOMAIN t)
                              /\ (t[p].id = t[q].id => p = q)

VARIABLES
  requests,  \* requests and calls so far
  before,    \* history: the tree when each agent's last request or call began
  raced,     \* history: the agents in whose way another one has come since
  wins       \* history: path -> exclusive creations since nothing was there

vars == <<fsVars, web, task, requests, before, raced, wins>>

Agents == Clients \cup Programs
NoTree == [p \in {} |-> {}]

Init ==
  /\ tree \in Trees /\ nextId = Cardinality(DOMAIN tree) + 1 /\ calls = {}
  /\ WebInit /\ AdapterInit
  /\ requests = 0 /\ raced = {} /\ wins = [p \in {} |-> 0]
  /\ before = [a \in Agents |-> NoTree]

-----------------------------------------------------------------------------
(* The paths a request or call is about, and what comes in its way *)

Watched(a) ==
  IF a \in Clients
  THEN {Req(a).path} \cup (IF Req(a).method \in CopyMove THEN {Req(a).dest} ELSE {})
                     \cup (IF Req(a).method = "MKCOL" THEN {Parent(Req(a).path)} ELSE {})
  ELSE IF Arg(a).op \in {"mv", "copy"} THEN {Arg(a).src, Arg(a).dst} ELSE {Arg(a).path}

Active(a) == IF a \in Clients THEN Busy(a) ELSE Running(a)

Related(p, q) == p = q \/ Below(p, q) \/ Below(q, p)

InTheWayOf(b) == \E p \in Changed : \E w \in Watched(b) : Related(p, w)

(* The path that the agent has just been told it created, where nothing was to
   be replaced. *)
Exclusive(c) ==
  IF web'[c].phase # "done" \/ web'[c].status # 201 THEN {}
  ELSE CASE Req(c).method = "MKCOL" -> {Req(c).path}
         [] Req(c).method = "MOVE" /\ ~Req(c).overwrite -> {Req(c).dest}
         [] OTHER -> {}

Wins(p) == IF p \in DOMAIN wins THEN wins[p] ELSE 0

Begun(a) ==
  /\ requests < MaxRequests /\ requests' = requests + 1
  /\ before' = [before EXCEPT ![a] = tree]
  /\ raced' = raced \ {a}
  /\ UNCHANGED wins

Moved(a, created) ==
  /\ raced' = raced \cup {b \in Agents \ {a} : Active(b) /\ InTheWayOf(b)}
  /\ wins' = [p \in {q \in DOMAIN wins \cup created : Present(q)'} |->
                Wins(p) + IF p \in created THEN 1 ELSE 0]
  /\ UNCHANGED <<requests, before>>

ClientStep(c) ==
  /\ \/ (\E r \in Requests : Receive(c, r)) /\ Begun(c)
     \/ WebStep(c) /\ Moved(c, Exclusive(c))
  /\ UNCHANGED task

ProgramStep(p) ==
  /\ \/ (\E call \in Calls : BeginTask(p, call)) /\ Begun(p)
     \/ AdapterStep(p) /\ Moved(p, {})
  /\ UNCHANGED web

Next == (\E c \in Clients : ClientStep(c)) \/ (\E p \in Programs : ProgramStep(p))

Spec == Init /\ [][Next]_vars
-----------------------------------------------------------------------------
(* Properties *)

(* MKCOL, and MOVE with "Overwrite: F", look before they ask the operation, which
   looks again under the lock: of all who are told that they created a path
   (views.py: mkcol, _copy_or_move), only one is, until the path is empty
   again. *)
ExclusiveCreates == \A p \in DOMAIN wins : wins[p] <= 1

(* The parts of an old tree t. *)
Subtree(t, p) == {q \in DOMAIN t : q = p \/ Below(p, q)}
WasFile(t, p) == p \in DOMAIN t /\ t[p].type = "file"
WasDirectory(t, p) == p = <<>> \/ (Subtree(t, p) # {} /\ ~WasFile(t, p))
Unchanged(t, p) ==
  Subtree(t, p) = Subtree(tree, p) /\ \A q \in Subtree(t, p) : t[q] = tree[q]

(* What the answer of a client that nobody came in the way of says. *)
Promised(c) ==
  LET r == Req(c)
      t == before[c]
      target == IF r.method \in CopyMove THEN r.dest ELSE r.path
      absent == Subtree(t, target) = {}
  IN  CASE web[c].status \notin {201, 204} -> \A w \in Watched(c) : Unchanged(t, w)
        [] web[c].status \in {201, 204} /\ r.method = "DELETE" -> ~Present(r.path) /\ ~absent
        [] web[c].status = 201 /\ r.method = "MKCOL" -> absent /\ IsDirectory(r.path)
        [] web[c].status \in {201, 204} /\ r.method = "PUT" ->
             /\ IsFile(r.path) /\ tree[r.path].data = r.data
             /\ (web[c].status = 201) = absent /\ (r.none => absent)
        [] web[c].status \in {201, 204} /\ r.method \in CopyMove /\ r.path = r.dest ->
             Unchanged(t, r.path)
        [] web[c].status \in {201, 204} /\ r.method = "COPY" /\ r.path # r.dest ->
             /\ WasFile(t, r.path) /\ Unchanged(t, r.path)
             /\ IsFile(r.dest) /\ tree[r.dest].data = t[r.path].data
             /\ (web[c].status = 201) = absent /\ (absent \/ r.overwrite)
        [] web[c].status \in {201, 204} /\ r.method = "MOVE" /\ r.path # r.dest ->
             /\ WasFile(t, r.path) /\ ~Present(r.path)
             /\ IsFile(r.dest) /\ tree[r.dest] = t[r.path]
             /\ (web[c].status = 201) = absent /\ (absent \/ r.overwrite)
        [] OTHER -> FALSE

(* Where mv and a recursive copy put the source. *)
Place(t, call, whenDirectory) ==
  IF whenDirectory \/ WasDirectory(t, call.dst) THEN IntoDirectory(call.src, call.dst) ELSE call.dst

(* For a directory a file that was there will do: makedirs with exist_ok does not
   mind. *)
CopyOf(t, q, p) == IF WasFile(t, q) THEN IsFile(p) /\ tree[p].data = t[q].data ELSE Present(p)

Copied(p) ==
  LET call  == Arg(p)
      t     == before[p]
      place == IF call.contents THEN call.dst ELSE Place(t, call, call.slash)
  IN  \A q \in Subtree(t, call.src) : CopyOf(t, q, Rebase(call.src, place, q))

(* What a method has done when it returns, if nobody came in its way. *)
Delivered(p) ==
  LET call  == Arg(p)
      t     == before[p]
      place == Place(t, call, FALSE)
  IN  CASE call.op = "mv" /\ call.src # call.dst /\ place # call.src
             /\ ~Below(place, call.src) ->
             /\ Subtree(t, call.src) # {} /\ ~Present(call.src)
             /\ \A q \in Subtree(t, call.src) :
                  LET at == Rebase(call.src, place, q) IN at \in DOMAIN tree /\ tree[at] = t[q]
        [] call.op = "copy" /\ ~Related(call.src, call.dst)
             /\ (task[p].found = {} \/ WasFile(t, call.src)
                 \/ CommonPrefix(task[p].found) = call.src) ->
             Unchanged(t, call.src) /\ Copied(p)
        [] call.op = "touch" ->
             IF Subtree(t, call.path) = {} \/ call.truncate
             THEN IsFile(call.path) /\ tree[call.path].data = <<>>
             ELSE Unchanged(t, call.path)
        [] OTHER -> TRUE

(* A handler takes up to four calls (views.py), mv, a recursive copy and touch
   many (fs.py).  When nobody else has touched the paths of one between its first
   call and its last, the outcome is true: 201 and 204 say whether something was
   replaced and the request is done, anything else that nothing has changed; a
   method that returns has put the whole tree where it should be and left a
   source that is copied as it was.  Copies whose sources do not have the source
   directory itself as their common prefix are left to RecursiveCopyKeepsPaths, moves
   onto a directory above the source to MoveKeepsSource of NamespaceClaims. *)
QuietOutcomesAreTrue ==
  [][/\ \A c \in Clients :
          Busy(c) /\ web'[c].phase = "done" /\ c \notin raced' => Promised(c)'
     /\ \A p \in Programs :
          Running(p) /\ task'[p].outcome = "returned" /\ p \notin raced' => Delivered(p)']_vars

(* What agent a may destroy at p. *)
MayLose(a, p) ==
  IF a \in Clients
  THEN LET r == Req(a)
       IN  CASE r.method = "DELETE" -> p = r.path \/ Below(r.path, p)
             [] r.method = "PUT" -> p = r.path /\ (r.none => a \in raced)
             [] r.method = "COPY" -> p = r.dest /\ (r.overwrite \/ a \in raced)
             [] r.method = "MOVE" -> p = r.dest /\ r.overwrite
             [] OTHER -> FALSE
  ELSE LET call == Arg(a)
       IN  CASE call.op = "rm" -> p = call.path \/ Below(call.path, p)
             [] call.op = "mv" -> (p = task[a].to \/ Below(task[a].to, p)) /\ call.overwrite
             [] call.op = "copy" -> p = ItemTarget(a)
             [] call.op = "touch" -> p = call.path /\ (call.truncate \/ a \in raced)
             [] OTHER -> FALSE

(* The file at p is gone or has other bytes; a file that moves is not lost. *)
Lost(p) ==
  IsFile(p) /\ ~\E q \in DOMAIN tree' : tree'[q].id = tree[p].id /\ tree'[q].data = tree[p].data

(* No interleaving destroys a file that nobody asked to replace or delete.  A
   move without overwrite (move_file, move_directory) never does; conditional
   PUT and COPY and touch with truncate=False do only when somebody came between
   their look and their write. *)
LossesAreAsked ==
  [][\A p \in DOMAIN tree : Lost(p) =>
       \E a \in Agents : (IF a \in Clients THEN web[a] # web'[a] ELSE task[a] # task'[a])
                         /\ Active(a) /\ MayLose(a, p)]_<<web, task>>
=============================================================================
