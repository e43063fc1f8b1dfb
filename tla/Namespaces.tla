----------------------------- MODULE Namespaces -----------------------------
(***************************************************************************)
(* The rows of Namespace: the fsspec_namespace command, which looks and    *)
(* changes in statements of their own, next to WebDAV requests, which find *)
(* the namespace and ask for the rights of their user in one query after   *)
(* another and only then reach the operation.  Of the files, only whether  *)
(* a namespace has any is kept.                                            *)
(***************************************************************************)
EXTENDS Naturals

CONSTANTS
  NamespaceNames,
  DefaultName,    \* the name that the migrations give to namespace 1
  Groups,
  Users,          \* authenticated users
  Anonymous,      \* stands for a request without one
  WritesAll,      \* the users that may write everywhere: superusers, write_namespace
  ReadsAll,       \* the users with the permission read_namespace
  Visitors,       \* HTTP clients
  Operators,      \* callers of the command
  Commands,       \* [op |-> "create" | "update" | "delete", name, fields, readers, writers]
  MaxNamespaces,  \* bound on the ids given
  MaxVisits       \* bound on requests, commands and changes of groups together

Default == 1

ASSUME NamespacesAssumption ==
  /\ DefaultName \in NamespaceNames
  /\ Anonymous \notin Users
  /\ WritesAll \cup ReadsAll \subseteq Users
  /\ Commands \subseteq
       [op : {"create", "update", "delete"}, name : NamespaceNames,
        fields : SUBSET {"readers", "writers"}, readers : SUBSET Groups,
        writers : SUBSET Groups]
  /\ MaxNamespaces \in Nat /\ MaxVisits \in Nat

VARIABLES
  namespaces,  \* id -> [name, readers, writers]
  nextNamespace,
  filled,      \* the namespaces that have files
  groupsOf,    \* user -> groups
  visit,       \* the last request of each visitor
  command,     \* the last command of each operator
  visits,      \* requests, commands and changes of groups so far
  steady       \* history: the visitors in whose request nobody has come so far

namespaceVars ==
  <<namespaces, nextNamespace, filled, groupsOf, visit, command, visits, steady>>

NoVisit == [at |-> "none"]
Row(name, readers, writers) == [name |-> name, readers |-> readers, writers |-> writers]

NamespacesInit ==
  /\ namespaces = [id \in {Default} |-> Row(DefaultName, {}, {})]
  /\ nextNamespace = Default + 1
  /\ filled = {}
  /\ groupsOf = [user \in Users |-> {}]
  /\ visit = [c \in Visitors |-> NoVisit]
  /\ command = [o \in Operators |-> NoVisit]
  /\ visits = 0
  /\ steady = {}

Exists(id) == id \in DOMAIN namespaces
Named(name) == {id \in DOMAIN namespaces : namespaces[id].name = name}

-----------------------------------------------------------------------------
(* A request: WebDAVView.dispatch, has_namespace_perm, the operation *)

Writes(c) == visit[c].method # "GET"
Advance(c, at) == visit' = [visit EXCEPT ![c].at = at]
Respond(c, status) == visit' = [visit EXCEPT ![c].at = "answered", ![c].status = status]
KeepsRows == UNCHANGED <<namespaces, nextNamespace, filled>>

(* What the documented rule says of the request, at this moment. *)
Entitled(r) ==
  /\ r.user # Anonymous
  /\ \/ r.user \in WritesAll
     \/ r.method = "GET" /\ r.user \in ReadsAll
     \/ /\ Exists(r.id)
        /\ LET row == namespaces[r.id]
           IN  groupsOf[r.user] \cap (row.writers \cup IF r.method = "GET" THEN row.readers ELSE {})
                 # {}

Arrive(c, user, id, method, basic) ==
  /\ visit[c].at \in {"none", "answered"}
  /\ visit' = [visit EXCEPT ![c] =
       [at |-> "find", user |-> user, id |-> id, method |-> method, basic |-> basic,
        groups |-> {}, status |-> 0]]
  /\ KeepsRows

FindNamespace(c) ==
  /\ visit[c].at = "find" /\ KeepsRows
  /\ CASE ~Exists(visit[c].id) -> Respond(c, 404)
       [] Exists(visit[c].id) /\ Writes(c) /\ ~visit[c].basic -> Respond(c, 401)
       [] OTHER -> Advance(c, "global")

GlobalRights(c) ==
  /\ visit[c].at = "global" /\ KeepsRows
  /\ CASE visit[c].user = Anonymous -> Respond(c, 401)
       [] visit[c].user \in WritesAll \/ (~Writes(c) /\ visit[c].user \in ReadsAll) ->
            Advance(c, "handle")
       [] OTHER -> Advance(c, "row")

FetchNamespace(c) ==
  /\ visit[c].at = "row" /\ KeepsRows
  /\ IF Exists(visit[c].id) THEN Advance(c, "groups") ELSE Respond(c, 403)

FetchGroups(c) ==
  /\ visit[c].at = "groups" /\ KeepsRows
  /\ LET groups == groupsOf[visit[c].user]
     IN  IF groups = {} THEN Respond(c, 403)
         ELSE visit' = [visit EXCEPT ![c].groups = groups,
                                     ![c].at = IF Writes(c) THEN "writers" ELSE "readers"]

Among(c, field) ==
  Exists(visit[c].id) /\ visit[c].groups \cap namespaces[visit[c].id][field] # {}

(* Mutant of AskReaders: who may write need not be asked. *)
AskReadersOnly(c) ==
  /\ visit[c].at = "readers" /\ KeepsRows
  /\ IF Among(c, "readers") THEN Advance(c, "handle") ELSE Respond(c, 403)

AskReaders(c) ==
  /\ visit[c].at = "readers" /\ KeepsRows
  /\ Advance(c, IF Among(c, "readers") THEN "handle" ELSE "writers")

AskWriters(c) ==
  /\ visit[c].at = "writers" /\ KeepsRows
  /\ IF Among(c, "writers") THEN Advance(c, "handle") ELSE Respond(c, 403)

(* A writer takes the row of the namespace first, a reader finds no file without
   it.  The namespace has one file or none; a read may be of the directory. *)
Handle(c) ==
  /\ visit[c].at = "handle"
  /\ CASE ~Exists(visit[c].id) \/ (visit[c].method = "DELETE" /\ visit[c].id \notin filled) ->
            Respond(c, 404) /\ UNCHANGED filled
       [] Exists(visit[c].id) /\ visit[c].method = "PUT" ->
            Respond(c, 201) /\ filled' = filled \cup {visit[c].id}
       [] visit[c].id \in filled /\ visit[c].method = "DELETE" ->
            Respond(c, 204) /\ filled' = filled \ {visit[c].id}
       [] OTHER -> Respond(c, 200) /\ UNCHANGED filled
  /\ UNCHANGED <<namespaces, nextNamespace>>

-----------------------------------------------------------------------------
(* fsspec_namespace *)

Issue(o, cmd) ==
  /\ command[o].at \in {"none", "ended"}
  /\ command' = [command EXCEPT ![o] =
       [at |-> "look", op |-> cmd.op, name |-> cmd.name, fields |-> cmd.fields,
        readers |-> cmd.readers, writers |-> cmd.writers, id |-> 0,
        old |-> [readers |-> {}, writers |-> {}], outcome |-> "none"]]
  /\ KeepsRows

Carries(o, op, at) == command[o].at = at /\ command[o].op = op
Continue(o, at) == command' = [command EXCEPT ![o].at = at]
EndCommand(o, outcome) == command' = [command EXCEPT ![o].at = "ended", ![o].outcome = outcome]

CreateLook(o) ==
  /\ Carries(o, "create", "look") /\ KeepsRows
  /\ IF Named(command[o].name) # {} THEN EndCommand(o, "failed") ELSE Continue(o, "insert")

(* Mutant of CreateInsert: the name was free when the command looked. *)
CreateInsertAnyway(o) ==
  /\ Carries(o, "create", "insert")
  /\ nextNamespace <= MaxNamespaces
  /\ nextNamespace' = nextNamespace + 1
  /\ namespaces' = [id \in DOMAIN namespaces \cup {nextNamespace} |->
       IF id = nextNamespace THEN Row(command[o].name, command[o].readers, command[o].writers)
       ELSE namespaces[id]]
  /\ EndCommand(o, "done") /\ UNCHANGED filled

(* One transaction; full_clean and the unique constraint look at the name once
   more. *)
CreateInsert(o) ==
  /\ Carries(o, "create", "insert")
  /\ IF Named(command[o].name) # {} THEN EndCommand(o, "failed") /\ KeepsRows
     ELSE /\ nextNamespace <= MaxNamespaces
          /\ nextNamespace' = nextNamespace + 1
          /\ namespaces' = [id \in DOMAIN namespaces \cup {nextNamespace} |->
               IF id = nextNamespace
               THEN Row(command[o].name, command[o].readers, command[o].writers)
               ELSE namespaces[id]]
          /\ EndCommand(o, "done") /\ UNCHANGED filled

FindByName(o) ==
  /\ command[o].at = "look" /\ command[o].op \in {"update", "delete"} /\ KeepsRows
  /\ IF Named(command[o].name) = {} \/ (command[o].op = "delete" /\ Default \in Named(command[o].name))
     THEN EndCommand(o, "failed")
     ELSE \E id \in Named(command[o].name) :
            command' = [command EXCEPT ![o].id = id,
                          ![o].at = IF command[o].op = "update" THEN "readers" ELSE "files"]

(* A field that is given is set in two statements: the groups that the row has are
   read, and what differs from them is removed and added.  Without groups it is
   cleared, and nothing is read. *)
ReadOld(o, field, next) ==
  LET cmd == command[o]
      old == IF field \in cmd.fields /\ cmd[field] # {} /\ Exists(cmd.id)
             THEN namespaces[cmd.id][field] ELSE {}
  IN  /\ Carries(o, "update", field) /\ KeepsRows
      /\ command' = [command EXCEPT ![o].at = next, ![o].old[field] = old]

UpdateRead(o) == ReadOld(o, "readers", "writers") \/ ReadOld(o, "writers", "set")

(* What the transaction leaves of the groups that the field has by now. *)
Updated(cmd, field, now) ==
  CASE field \notin cmd.fields -> now
    [] field \in cmd.fields /\ cmd[field] = {} -> {}
    [] OTHER -> (now \ (cmd.old[field] \ cmd[field])) \cup (cmd[field] \ cmd.old[field])

(* A group cannot be added to a row that is gone; otherwise the row is not looked
   at. *)
UpdateSet(o) ==
  /\ Carries(o, "update", "set")
  /\ LET cmd == command[o]
         set(row) == Row(row.name, Updated(cmd, "readers", row.readers),
                                   Updated(cmd, "writers", row.writers))
     IN  IF Exists(cmd.id)
         THEN /\ namespaces' = [namespaces EXCEPT ![cmd.id] = set(@)]
              /\ EndCommand(o, "done")
         ELSE /\ UNCHANGED namespaces
              /\ EndCommand(o, IF \A field \in cmd.fields : cmd[field] \subseteq cmd.old[field]
                               THEN "done" ELSE "failed")
  /\ UNCHANGED <<nextNamespace, filled>>

DeleteLook(o) ==
  /\ Carries(o, "delete", "files") /\ KeepsRows
  /\ IF command[o].id \in filled THEN EndCommand(o, "failed") ELSE Continue(o, "delete")

(* Mutant of DeleteRow: nothing protects the files. *)
DeleteCascades(o) ==
  /\ Carries(o, "delete", "delete")
  /\ namespaces' = [id \in DOMAIN namespaces \ {command[o].id} |-> namespaces[id]]
  /\ EndCommand(o, "done") /\ UNCHANGED <<nextNamespace, filled>>

(* The foreign key of FileNode protects the row. *)
DeleteRow(o) ==
  /\ Carries(o, "delete", "delete")
  /\ IF command[o].id \in filled THEN EndCommand(o, "failed") /\ KeepsRows
     ELSE /\ namespaces' = [id \in DOMAIN namespaces \ {command[o].id} |-> namespaces[id]]
          /\ EndCommand(o, "done") /\ UNCHANGED <<nextNamespace, filled>>
-----------------------------------------------------------------------------
VisitStep(c) ==
  \/ FindNamespace(c) \/ GlobalRights(c) \/ FetchNamespace(c) \/ FetchGroups(c)
  \/ AskReaders(c) \/ AskWriters(c) \/ Handle(c)

CommandStep(o) ==
  \/ CreateLook(o) \/ CreateInsert(o) \/ FindByName(o) \/ UpdateRead(o) \/ UpdateSet(o)
  \/ DeleteLook(o) \/ DeleteRow(o)

(* The changes that a request can notice. *)
Disturbs(c) ==
  LET id == visit[c].id
      user == visit[c].user
      there == DOMAIN namespaces \cap {id}
  IN  \/ there # DOMAIN namespaces' \cap {id}
      \/ \E n \in there : namespaces[n] # namespaces'[n]
      \/ user # Anonymous /\ groupsOf[user] # groupsOf'[user]

StaySteady == steady' = {c \in steady : ~Disturbs(c)}
Counted == visits < MaxVisits /\ visits' = visits + 1

BeginVisit(c) ==
  /\ Counted
  /\ \E user \in Users \cup {Anonymous}, id \in 1..MaxNamespaces,
        method \in {"GET", "PUT", "DELETE"}, basic \in BOOLEAN :
        (user = Anonymous => ~basic) /\ Arrive(c, user, id, method, basic)
  /\ steady' = steady \cup {c}
  /\ UNCHANGED <<groupsOf, command>>

BeginCommand(o) ==
  /\ Counted
  /\ \E cmd \in Commands : Issue(o, cmd)
  /\ UNCHANGED <<groupsOf, visit, steady>>

ChangeGroups(user) ==
  /\ Counted
  /\ \E groups \in SUBSET Groups : groupsOf' = [groupsOf EXCEPT ![user] = groups]
  /\ KeepsRows /\ StaySteady
  /\ UNCHANGED <<visit, command>>

NamespacesNext ==
  \/ \E c \in Visitors :
       \/ BeginVisit(c)
       \/ VisitStep(c) /\ UNCHANGED <<groupsOf, command, visits, steady>>
  \/ \E o \in Operators :
       \/ BeginCommand(o)
       \/ CommandStep(o) /\ UNCHANGED <<groupsOf, visit, visits>> /\ StaySteady
  \/ \E user \in Users : ChangeGroups(user)

NamespacesSpec == NamespacesInit /\ [][NamespacesNext]_namespaceVars
-----------------------------------------------------------------------------
(* Properties *)

(* No interleaving of a delete, which looks for files before it deletes the row,
   with requests, which find the namespace long before they write, leaves files
   without a namespace (fsspec_namespace.py: _handle_delete; operations.py:
   _lock_namespace_for_write; models.py: PROTECT), and the default namespace is
   never deleted. *)
FilesHaveNamespace == filled \cup {Default} \subseteq DOMAIN namespaces

(* Two creates of one name, each of which has found it free, make one namespace
   (fsspec_namespace.py: _handle_create; models.py: unique). *)
NamesStayUnique ==
  \A m, n \in DOMAIN namespaces : namespaces[m].name = namespaces[n].name => m = n

(* Through every interleaving of commands and requests, each of which looks long
   before it changes something, files keep their namespace and names stay
   unique. *)
NamespaceRowsOK == FilesHaveNamespace /\ NamesStayUnique

RightDecision(c) ==
  c \in steady /\ visit[c].at # visit'[c].at =>
    /\ visit'[c].at = "handle" => Entitled(visit[c])
    /\ visit'[c].at = "answered" /\ visit'[c].status = 403 => ~Entitled(visit[c])

(* has_namespace_perm asks up to five queries.  When nobody changes the groups of
   the user or the namespace meanwhile, they come to what the rule in its
   docstring says: a request is let through to its operation if and only if its
   user is entitled to it. *)
SteadyDecisionsAreRight == [][\A c \in Visitors : RightDecision(c)]_namespaceVars
=============================================================================
