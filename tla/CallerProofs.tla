---------------------------- MODULE CallerProofs ----------------------------
(***************************************************************************)
(* What holds of the callers for any number of them, of paths, requests    *)
(* and commands.  Clients: exclusive creation over WebDAV has one winner,  *)
(* no file is lost that nobody asked to replace or delete, and an agent    *)
(* that nobody comes in the way of is told the truth.                      *)
(* Namespaces: the rows stay consistent, and the decisions about requests  *)
(* right.  Listings: what nobody touches is listed, and nothing that was   *)
(* never there.                                                            *)
(***************************************************************************)
EXTENDS Clients, Listings, Namespaces, SequenceTheorems, FiniteSetTheorems,
  WellFoundedInduction, TLAPS

-----------------------------------------------------------------------------
(* Clients *)

IsRequest(r) ==
  r = [phase |-> r.phase, req |-> r.req, existed |-> r.existed, node |-> r.node,
       status |-> r.status]

WebShape == web \in [Clients -> {web[c] : c \in Clients}]
            /\ \A c \in Clients : web[c] = NoRequest \/ IsRequest(web[c])

(* Who won is still there, and won alone. *)
WinsInv == \A p \in DOMAIN wins : Present(p) /\ wins[p] \in {0, 1}

ClientInv == WebShape /\ WinsInv

-----------------------------------------------------------------------------
LEMMA InitClients ==
  ASSUME Init
  PROVE  ClientInv
BY DEF Init, WebInit, ClientInv, WebShape, WinsInv

(* A handler that is at work has a request. *)
LEMMA WorkingHasRequest ==
  ASSUME WebShape, NEW c \in Clients, WebStep(c)
  PROVE  IsRequest(web[c])
<1>1. web[c].phase # "none"
  BY DEF WebStep, PutLook, PutWrite, PutBreaksOff, HandleDelete, MkcolLook, MkcolMake,
         SourceLook, DestLook, CopyBegin, CopyWrite, MoveDo, Handles
<1> QED BY <1>1 DEF WebShape, NoRequest

LEMMA AnswerSays ==
  ASSUME WebShape, NEW c \in Clients, IsRequest(web[c]), NEW status, Answer(c, status)
  PROVE  /\ web'[c].phase = "done" /\ web'[c].status = status
         /\ WebShape'
<1>1. web'[c].phase = "done" /\ web'[c].status = status /\ IsRequest(web'[c])
  BY DEF Answer, WebShape, IsRequest
<1>2. \A e \in Clients \ {c} : web'[e] = web[e]
  BY DEF Answer, WebShape
<1>3. web' \in [Clients -> {web'[e] : e \in Clients}]
  BY DEF Answer, WebShape
<1> QED BY <1>1, <1>2, <1>3 DEF WebShape

LEMMA GotoShape ==
  ASSUME WebShape, NEW c \in Clients, IsRequest(web[c]), NEW phase,
         Goto(c, phase)
  PROVE  WebShape' /\ web'[c].phase = phase
<1>1. web'[c].phase = phase /\ IsRequest(web'[c])
  BY DEF Goto, WebShape, IsRequest
<1>2. \A e \in Clients \ {c} : web'[e] = web[e]
  BY DEF Goto, WebShape
<1>3. web' \in [Clients -> {web'[e] : e \in Clients}]
  BY DEF Goto, WebShape
<1> QED BY <1>1, <1>2, <1>3 DEF WebShape

LEMMA LookedShape ==
  ASSUME WebShape, NEW c \in Clients, IsRequest(web[c]), NEW phase, NEW existed,
         web' = [web EXCEPT ![c].phase = phase, ![c].existed = existed]
  PROVE  WebShape' /\ web'[c].phase = phase
<1>1. web'[c].phase = phase /\ IsRequest(web'[c])
  BY DEF WebShape, IsRequest
<1>2. \A e \in Clients \ {c} : web'[e] = web[e]
  BY DEF WebShape
<1>3. web' \in [Clients -> {web'[e] : e \in Clients}]
  BY DEF WebShape
<1> QED BY <1>1, <1>2, <1>3 DEF WebShape

LEMMA FoundShape ==
  ASSUME WebShape, NEW c \in Clients, IsRequest(web[c]), NEW phase, NEW node,
         web' = [web EXCEPT ![c].phase = phase, ![c].node = node]
  PROVE  WebShape' /\ web'[c].phase = phase
<1>1. web'[c].phase = phase /\ IsRequest(web'[c])
  BY DEF WebShape, IsRequest
<1>2. \A e \in Clients \ {c} : web'[e] = web[e]
  BY DEF WebShape
<1>3. web' \in [Clients -> {web'[e] : e \in Clients}]
  BY DEF WebShape
<1> QED BY <1>1, <1>2, <1>3 DEF WebShape

LEMMA ReceiveShape ==
  ASSUME WebShape, NEW c \in Clients, NEW r, Receive(c, r)
  PROVE  WebShape'
<1>1. IsRequest(web'[c])
  BY DEF Receive, WebShape, IsRequest
<1>2. \A e \in Clients \ {c} : web'[e] = web[e]
  BY DEF Receive, WebShape
<1>3. web' \in [Clients -> {web'[e] : e \in Clients}]
  BY DEF Receive, WebShape
<1> QED BY <1>1, <1>2, <1>3 DEF WebShape

(* A step of a handler goes on to another call or answers.  An answer that counts
   as an exclusive creation comes from an operation that found nothing there. *)
LEMMA CreatesWhereNothingIs ==
  ASSUME WebShape, NEW c \in Clients, WebStep(c)
  PROVE  WebShape' /\ \A p \in Exclusive(c) : ~Present(p)
<1> USE WorkingHasRequest
<1> DEFINE Fine == WebShape' /\ \A p \in Exclusive(c) : ~Present(p)
<1>1. ASSUME NEW status, Answer(c, status), status # 201
      PROVE  Fine
  BY <1>1, AnswerSays DEF Exclusive
<1>2. ASSUME NEW status, Answer(c, status), Req(c).method \in {"PUT", "COPY"}
      PROVE  Fine
  BY <1>2, AnswerSays DEF Exclusive
<1>3. ASSUME NEW phase, phase # "done", WebShape', web'[c].phase = phase
      PROVE  Fine
  BY <1>3 DEF Exclusive
<1> SUFFICES Fine
  OBVIOUS
<1> HIDE DEF Fine
<1>4. CASE PutLook(c)
  <2>1. \/ Answer(c, 405) \/ Answer(c, 412)
        \/ web' = [web EXCEPT ![c].phase = "write", ![c].existed = Present(Req(c).path)]
    BY <1>4 DEF PutLook
  <2>2. CASE web' = [web EXCEPT ![c].phase = "write", ![c].existed = Present(Req(c).path)]
    <3>1. WebShape' /\ web'[c].phase = "write"
      BY <2>2, LookedShape
    <3> QED BY <1>3, <3>1
  <2> QED BY <1>1, <2>1, <2>2
<1>5. CASE PutWrite(c)
  <2>1. Req(c).method = "PUT"
    BY <1>5 DEF PutWrite, Handles, Req
  <2>2. Answer(c, 409) \/ Answer(c, 413) \/ Answer(c, CreatedOrReplaced(c))
    BY <1>5 DEF PutWrite
  <2> QED BY <1>2, <2>1, <2>2
<1>6. CASE PutBreaksOff(c)
  BY <1>1, <1>6 DEF PutBreaksOff
<1>7. CASE HandleDelete(c)
  <2>1. Answer(c, 405) \/ Answer(c, 204) \/ Answer(c, 404)
    BY <1>7 DEF HandleDelete
  <2> QED BY <1>1, <2>1
<1>8. CASE MkcolLook(c)
  <2>1. Answer(c, 405) \/ Goto(c, "make")
    BY <1>8 DEF MkcolLook
  <2>2. CASE Goto(c, "make")
    <3>1. WebShape' /\ web'[c].phase = "make"
      BY <2>2, GotoShape
    <3> QED BY <1>3, <3>1
  <2> QED BY <1>1, <2>1, <2>2
<1>9. CASE MkcolMake(c)
  <2>1. \/ Answer(c, 409) \/ Answer(c, 404)
        \/ Answer(c, 201) /\ CreateDirectory(Req(c).path, Len(Req(c).path) - 1)
    BY <1>9 DEF MkcolMake
  <2>2. CASE Answer(c, 201) /\ CreateDirectory(Req(c).path, Len(Req(c).path) - 1)
    <3>1. Req(c).method = "MKCOL" /\ ~Present(Req(c).path)
      BY <1>9, <2>2 DEF MkcolMake, Handles, Req, CreateDirectory
    <3>2. Exclusive(c) \subseteq {Req(c).path}
      BY <3>1 DEF Exclusive
    <3>3. WebShape'
      BY <2>2, AnswerSays
    <3> QED BY <3>1, <3>2, <3>3 DEF Fine
  <2> QED BY <1>1, <2>1, <2>2
<1>10. CASE SourceLook(c)
  <2>1. \/ Answer(c, 204) \/ Answer(c, 405) \/ Answer(c, 404) \/ Answer(c, 409)
        \/ Goto(c, "dest")
    BY <1>10 DEF SourceLook
  <2>2. CASE Goto(c, "dest")
    <3>1. WebShape' /\ web'[c].phase = "dest"
      BY <2>2, GotoShape
    <3> QED BY <1>3, <3>1
  <2> QED BY <1>1, <2>1, <2>2
<1>11. CASE DestLook(c)
  <2>1. \/ Answer(c, 412)
        \/ web' = [web EXCEPT ![c].phase = "do", ![c].existed = Present(Req(c).dest)]
    BY <1>11 DEF DestLook
  <2>2. CASE web' = [web EXCEPT ![c].phase = "do", ![c].existed = Present(Req(c).dest)]
    <3>1. WebShape' /\ web'[c].phase = "do"
      BY <2>2, LookedShape
    <3> QED BY <1>3, <3>1
  <2> QED BY <1>1, <2>1, <2>2
<1>12. CASE CopyBegin(c)
  <2>1. \/ Answer(c, 404) \/ Answer(c, 409)
        \/ web' = [web EXCEPT ![c].phase = "copying", ![c].node = tree[Req(c).path].id]
    BY <1>12 DEF CopyBegin
  <2>2. CASE web' = [web EXCEPT ![c].phase = "copying", ![c].node = tree[Req(c).path].id]
    <3>1. WebShape' /\ web'[c].phase = "copying"
      BY <2>2, FoundShape
    <3> QED BY <1>3, <3>1
  <2> QED BY <1>1, <2>1, <2>2
<1>13. CASE CopyWrite(c)
  <2>1. Req(c).method = "COPY"
    BY <1>13 DEF CopyWrite, Handles, Req
  <2>2. Answer(c, 409) \/ Answer(c, CreatedOrReplaced(c))
    BY <1>13 DEF CopyWrite
  <2> QED BY <1>2, <2>1, <2>2
<1>14. CASE MoveDo(c)
  <2>1. \/ Answer(c, 409) \/ Answer(c, 404)
        \/ /\ Answer(c, CreatedOrReplaced(c))
           /\ Move(Req(c).path, Req(c).dest, MoveFlag(c))
    BY <1>14 DEF MoveDo
  <2>2. CASE /\ Answer(c, CreatedOrReplaced(c))
             /\ Move(Req(c).path, Req(c).dest, MoveFlag(c))
    <3>1. Req(c).method = "MOVE"
      BY <1>14 DEF MoveDo, Handles, Req
    <3>2. Present(Req(c).dest) => Req(c).overwrite
      BY <2>2 DEF Move, CanMove, MoveFlag
    <3>3. \A p \in Exclusive(c) : p = Req(c).dest /\ ~Req(c).overwrite
      BY <3>1 DEF Exclusive
    <3>4. WebShape'
      BY <2>2, AnswerSays
    <3> QED BY <3>2, <3>3, <3>4 DEF Fine
  <2> QED BY <1>1, <2>1, <2>2
<1> QED
  BY <1>4, <1>5, <1>6, <1>7, <1>8, <1>9, <1>10, <1>11, <1>12, <1>13, <1>14 DEF WebStep

(* The count of a path starts when it is created where nothing was, and ends when
   nothing is there any more. *)
LEMMA WinsKept ==
  ASSUME WinsInv, NEW a, NEW created, Moved(a, created),
         \A p \in created : ~Present(p)
  PROVE  WinsInv'
<1> DEFINE domain == {q \in DOMAIN wins \cup created : Present(q)'}
<1>1. wins' = [p \in domain |-> Wins(p) + IF p \in created THEN 1 ELSE 0]
  BY DEF Moved
<1> SUFFICES ASSUME NEW p \in domain
             PROVE  Present(p)' /\ wins'[p] \in {0, 1}
  BY <1>1 DEF WinsInv
<1>2. Present(p)'
  OBVIOUS
<1>3. CASE p \in created
  <2>1. Wins(p) = 0
    BY <1>3 DEF Wins, WinsInv
  <2> QED BY <1>1, <1>2, <1>3, <2>1
<1>4. CASE p \notin created
  <2>1. Wins(p) \in {0, 1}
    BY <1>4 DEF Wins, WinsInv
  <2> QED BY <1>1, <1>2, <1>4, <2>1
<1> QED BY <1>3, <1>4

LEMMA ClientsStep ==
  ASSUME ClientInv, [Next]_vars
  PROVE  ClientInv'
<1> USE DEF ClientInv
<1>1. CASE UNCHANGED vars
  BY <1>1 DEF vars, fsVars, WebShape, WinsInv, Present, TreeAt
<1>2. ASSUME NEW c \in Clients, ClientStep(c)
      PROVE  ClientInv'
  <2>1. ASSUME NEW r \in Requests, Receive(c, r), Begun(c)
        PROVE  ClientInv'
    <3>1. WinsInv'
      BY <2>1 DEF Receive, Begun, fsVars, WinsInv, Present, TreeAt
    <3> QED BY <2>1, <3>1, ReceiveShape
  <2>2. ASSUME WebStep(c), Moved(c, Exclusive(c))
        PROVE  ClientInv'
    <3>1. WebShape' /\ \A p \in Exclusive(c) : ~Present(p)
      BY <2>2, CreatesWhereNothingIs
    <3> HIDE DEF ClientInv
    <3>2. WinsInv'
      BY <2>2, <3>1, WinsKept DEF ClientInv
    <3> QED BY <3>1, <3>2 DEF ClientInv
  <2> QED BY <1>2, <2>1, <2>2 DEF ClientStep
<1>3. ASSUME NEW q \in Programs, ProgramStep(q)
      PROVE  ClientInv'
  <2>1. WebShape'
    BY <1>3 DEF ProgramStep, WebShape
  <2>2. ASSUME NEW call \in Calls, BeginTask(q, call), Begun(q)
        PROVE  WinsInv'
    BY <2>2 DEF BeginTask, Begun, fsVars, WinsInv, Present, TreeAt
  <2>3. ASSUME Moved(q, {})
        PROVE  WinsInv'
    BY <2>3, WinsKept
  <2> QED BY <1>3, <2>1, <2>2, <2>3 DEF ProgramStep
<1> QED BY <1>1, <1>2, <1>3 DEF Next

(* However many clients send MKCOL, or MOVE with "Overwrite: F", to a path, and
   whatever programs do meanwhile, one of them is told that it created it. *)
THEOREM CreationsAreExclusive == Spec => []ExclusiveCreates
<1>1. ClientInv => ExclusiveCreates
  BY DEF ClientInv, WinsInv, ExclusiveCreates
<1> QED BY <1>1, InitClients, ClientsStep, PTL DEF Spec

-----------------------------------------------------------------------------
(* Namespaces *)

RowRecord == [name : NamespaceNames, readers : SUBSET Groups, writers : SUBSET Groups]

VisitRecord ==
  [at : {"find", "global", "row", "groups", "readers", "writers", "handle", "answered"},
   user : Users \cup {Anonymous}, id : Nat, method : {"GET", "PUT", "DELETE"},
   basic : BOOLEAN, groups : SUBSET Groups, status : Nat]

CommandRecord ==
  [at : {"look", "insert", "readers", "writers", "set", "files", "delete", "ended"},
   op : {"create", "update", "delete"}, name : NamespaceNames,
   fields : SUBSET {"readers", "writers"}, readers : SUBSET Groups,
   writers : SUBSET Groups, id : Nat, old : [readers : SUBSET Groups, writers : SUBSET Groups],
   outcome : {"none", "done", "failed"}]

TypeInv ==
  /\ DOMAIN namespaces \subseteq Nat
  /\ namespaces \in [DOMAIN namespaces -> RowRecord]
  /\ nextNamespace \in Nat
  /\ groupsOf \in [Users -> SUBSET Groups]
  /\ visit \in [Visitors -> {NoVisit} \cup VisitRecord]
  /\ command \in [Operators -> {NoVisit} \cup CommandRecord]
  /\ steady \subseteq Visitors

-----------------------------------------------------------------------------
(* Types *)

LEMMA InitTyped ==
  ASSUME NamespacesInit
  PROVE  TypeInv
BY NamespacesAssumption DEF NamespacesInit, TypeInv, Row, RowRecord, Default

(* Every step of a request keeps the rows and moves a request on. *)
LEMMA VisitTyped ==
  ASSUME TypeInv, NEW c \in Visitors, VisitStep(c)
  PROVE  visit' \in [Visitors -> {NoVisit} \cup VisitRecord]
<1>1. CASE visit[c] = NoVisit
  BY <1>1 DEF VisitStep, FindNamespace, GlobalRights, FetchNamespace, FetchGroups,
              AskReaders, AskWriters, Handle, NoVisit
<1>2. CASE visit[c] \in VisitRecord
  <2> USE <1>2
  <2>1. ASSUME NEW at \in {"global", "row", "groups", "readers", "writers", "handle"},
               Advance(c, at)
        PROVE  visit' \in [Visitors -> {NoVisit} \cup VisitRecord]
    BY <2>1 DEF Advance, TypeInv, VisitRecord
  <2>2. ASSUME NEW status \in Nat, Respond(c, status)
        PROVE  visit' \in [Visitors -> {NoVisit} \cup VisitRecord]
    BY <2>2 DEF Respond, TypeInv, VisitRecord
  <2>3. CASE FindNamespace(c)
    BY <2>1, <2>2, <2>3 DEF FindNamespace
  <2>4. CASE GlobalRights(c)
    BY <2>1, <2>2, <2>4 DEF GlobalRights
  <2>5. CASE FetchNamespace(c)
    BY <2>1, <2>2, <2>5 DEF FetchNamespace
  <2>6. CASE FetchGroups(c)
    <3>1. CASE groupsOf[visit[c].user] = {}
      BY <2>2, <2>6, <3>1 DEF FetchGroups
    <3>2. CASE groupsOf[visit[c].user] # {}
      BY <2>6, <3>2 DEF FetchGroups, TypeInv, VisitRecord
    <3> QED BY <3>1, <3>2
  <2>7. CASE AskReaders(c)
    BY <2>1, <2>7 DEF AskReaders
  <2>8. CASE AskWriters(c)
    BY <2>1, <2>2, <2>8 DEF AskWriters
  <2>9. CASE Handle(c)
    BY <2>2, <2>9 DEF Handle
  <2> QED BY <2>3, <2>4, <2>5, <2>6, <2>7, <2>8, <2>9 DEF VisitStep
<1> QED BY <1>1, <1>2 DEF TypeInv

LEMMA CommandTyped ==
  ASSUME TypeInv, NEW o \in Operators, CommandStep(o)
  PROVE  /\ command' \in [Operators -> {NoVisit} \cup CommandRecord]
         /\ nextNamespace' \in Nat
         /\ DOMAIN namespaces' \subseteq Nat
         /\ namespaces' \in [DOMAIN namespaces' -> RowRecord]
<1>1. command[o] \in CommandRecord
  <2>1. CASE command[o] = NoVisit
    BY <2>1 DEF CommandStep, CreateLook, CreateInsert, FindByName, UpdateRead,
                ReadOld, UpdateSet, DeleteLook, DeleteRow, Carries, NoVisit
  <2> QED BY <2>1 DEF TypeInv
<1> USE <1>1
<1>2. ASSUME NEW at \in {"insert", "delete"}, Continue(o, at)
      PROVE  command' \in [Operators -> {NoVisit} \cup CommandRecord]
  BY <1>2 DEF Continue, TypeInv, CommandRecord
<1>3. ASSUME NEW outcome \in {"done", "failed"}, EndCommand(o, outcome)
      PROVE  command' \in [Operators -> {NoVisit} \cup CommandRecord]
  BY <1>3 DEF EndCommand, TypeInv, CommandRecord
<1>4. ASSUME KeepsRows
      PROVE  /\ nextNamespace' \in Nat
             /\ DOMAIN namespaces' \subseteq Nat
             /\ namespaces' \in [DOMAIN namespaces' -> RowRecord]
  BY <1>4 DEF KeepsRows, TypeInv
<1>5. CASE CreateLook(o)
  BY <1>2, <1>3, <1>4, <1>5 DEF CreateLook
<1>6. CASE CreateInsert(o)
  <2>1. CASE Named(command[o].name) # {}
    BY <1>3, <1>4, <1>6, <2>1 DEF CreateInsert
  <2>2. CASE Named(command[o].name) = {}
    <3>1. EndCommand(o, "done") /\ nextNamespace' = nextNamespace + 1
      BY <1>6, <2>2 DEF CreateInsert
    <3>2. Row(command[o].name, command[o].readers, command[o].writers) \in RowRecord
      BY DEF Row, RowRecord, CommandRecord
    <3>3. namespaces' = [id \in DOMAIN namespaces \cup {nextNamespace} |->
            IF id = nextNamespace
            THEN Row(command[o].name, command[o].readers, command[o].writers)
            ELSE namespaces[id]]
      BY <1>6, <2>2 DEF CreateInsert
    <3>4. DOMAIN namespaces' \subseteq Nat /\ namespaces' \in [DOMAIN namespaces' -> RowRecord]
      BY <3>2, <3>3 DEF TypeInv
    <3> QED BY <1>3, <3>1, <3>4 DEF TypeInv
  <2> QED BY <2>1, <2>2
<1>7. CASE FindByName(o)
  <2>1. CASE EndCommand(o, "failed")
    BY <1>3, <1>4, <1>7, <2>1 DEF FindByName
  <2>2. CASE \E id \in Named(command[o].name) :
               command' = [command EXCEPT ![o].id = id,
                             ![o].at = IF command[o].op = "update" THEN "readers" ELSE "files"]
    <3>1. PICK id \in Named(command[o].name) :
            command' = [command EXCEPT ![o].id = id,
                          ![o].at = IF command[o].op = "update" THEN "readers" ELSE "files"]
      BY <2>2
    <3>2. id \in Nat
      BY DEF Named, TypeInv
    <3>3. (IF command[o].op = "update" THEN "readers" ELSE "files") \in {"readers", "files"}
      OBVIOUS
    <3>4. command' \in [Operators -> {NoVisit} \cup CommandRecord]
      BY <3>1, <3>2, <3>3 DEF TypeInv, CommandRecord
    <3> QED BY <1>4, <1>7, <3>4 DEF FindByName
  <2> QED BY <1>7, <2>1, <2>2 DEF FindByName
<1>8. CASE UpdateSet(o)
  <2>1. command' \in [Operators -> {NoVisit} \cup CommandRecord]
    BY <1>3, <1>8 DEF UpdateSet
  <2>2. CASE namespaces' = namespaces
    BY <1>8, <2>1, <2>2 DEF UpdateSet, TypeInv
  <2>3. CASE Exists(command[o].id)
    <3> DEFINE row == namespaces[command[o].id]
               set == Row(row.name, Updated(command[o], "readers", row.readers),
                                    Updated(command[o], "writers", row.writers))
    <3>1. namespaces' = [namespaces EXCEPT ![command[o].id] = set]
      BY <1>8, <2>3 DEF UpdateSet
    <3>2. row \in RowRecord
      BY <2>3 DEF Exists, TypeInv
    <3>3. row.readers \in SUBSET Groups /\ row.writers \in SUBSET Groups
      BY <3>2 DEF RowRecord
    <3>4. set \in RowRecord
      <4>1. /\ Updated(command[o], "readers", row.readers) \in SUBSET Groups
            /\ Updated(command[o], "writers", row.writers) \in SUBSET Groups
        BY <3>3 DEF Updated, CommandRecord
      <4> QED BY <3>2, <4>1 DEF Row, RowRecord
    <3> HIDE DEF set
    <3>5. DOMAIN namespaces' \subseteq Nat /\ namespaces' \in [DOMAIN namespaces' -> RowRecord]
      BY <3>1, <3>4 DEF TypeInv
    <3> QED BY <1>8, <2>1, <3>5 DEF UpdateSet, TypeInv
  <2> QED BY <1>8, <2>2, <2>3 DEF UpdateSet
<1>9. CASE DeleteLook(o)
  BY <1>2, <1>3, <1>4, <1>9 DEF DeleteLook
<1>10. CASE DeleteRow(o)
  <2>1. CASE command[o].id \in filled
    BY <1>3, <1>4, <1>10, <2>1 DEF DeleteRow
  <2>2. CASE command[o].id \notin filled
    <3>1. namespaces' = [id \in DOMAIN namespaces \ {command[o].id} |-> namespaces[id]]
      BY <1>10, <2>2 DEF DeleteRow
    <3> QED BY <1>3, <1>10, <2>2, <3>1 DEF DeleteRow, TypeInv
  <2> QED BY <2>1, <2>2
<1>11. CASE UpdateRead(o)
  <2>1. PICK field \in {"readers", "writers"}, next \in {"writers", "set"} :
          ReadOld(o, field, next)
    BY <1>11 DEF UpdateRead
  <2> DEFINE old == IF field \in command[o].fields /\ command[o][field] # {}
                        /\ Exists(command[o].id)
                    THEN namespaces[command[o].id][field] ELSE {}
  <2>2. old \in SUBSET Groups
    <3>1. CASE Exists(command[o].id)
      <4>1. namespaces[command[o].id] \in RowRecord
        BY <3>1 DEF Exists, TypeInv
      <4> QED BY <4>1 DEF RowRecord
    <3> QED BY <3>1
  <2>3. command' = [command EXCEPT ![o].at = next, ![o].old[field] = old] /\ KeepsRows
    BY <2>1 DEF ReadOld
  <2> HIDE DEF old
  <2>4. [command[o].old EXCEPT ![field] = old]
          \in [readers : SUBSET Groups, writers : SUBSET Groups]
    BY <2>2 DEF CommandRecord
  <2>5. [command[o] EXCEPT !.at = next, !.old[field] = old] \in CommandRecord
    BY <2>4 DEF CommandRecord
  <2> QED BY <1>4, <2>3, <2>5 DEF TypeInv
<1> QED BY <1>5, <1>6, <1>7, <1>8, <1>9, <1>10, <1>11 DEF CommandStep

LEMMA TypeStep ==
  ASSUME TypeInv, [NamespacesNext]_namespaceVars
  PROVE  TypeInv'
<1>1. CASE UNCHANGED namespaceVars
  BY <1>1 DEF namespaceVars, TypeInv
<1>2. ASSUME NEW c \in Visitors, BeginVisit(c)
      PROVE  TypeInv'
  <2>1. PICK user \in Users \cup {Anonymous}, id \in 1..MaxNamespaces,
             method \in {"GET", "PUT", "DELETE"}, basic \in BOOLEAN :
             Arrive(c, user, id, method, basic)
    BY <1>2 DEF BeginVisit
  <2>2. visit' \in [Visitors -> {NoVisit} \cup VisitRecord]
    BY <2>1 DEF Arrive, TypeInv, VisitRecord
  <2> QED BY <1>2, <2>1, <2>2 DEF BeginVisit, Arrive, KeepsRows, TypeInv
<1>3. ASSUME NEW c \in Visitors, VisitStep(c), UNCHANGED <<groupsOf, command, visits, steady>>
      PROVE  TypeInv'
  <2>1. UNCHANGED <<namespaces, nextNamespace>>
    BY <1>3 DEF VisitStep, FindNamespace, GlobalRights, FetchNamespace, FetchGroups,
                AskReaders, AskWriters, Handle, KeepsRows
  <2> QED BY <1>3, <2>1, VisitTyped DEF TypeInv
<1>4. ASSUME NEW o \in Operators, BeginCommand(o)
      PROVE  TypeInv'
  <2>1. PICK cmd \in Commands : Issue(o, cmd)
    BY <1>4 DEF BeginCommand
  <2>2. command' \in [Operators -> {NoVisit} \cup CommandRecord]
    BY <2>1, NamespacesAssumption DEF Issue, TypeInv, CommandRecord
  <2> QED BY <1>4, <2>1, <2>2 DEF BeginCommand, Issue, KeepsRows, TypeInv
<1>5. ASSUME NEW o \in Operators, CommandStep(o), UNCHANGED <<groupsOf, visit, visits>>, StaySteady
      PROVE  TypeInv'
  BY <1>5, CommandTyped DEF StaySteady, TypeInv
<1>6. ASSUME NEW user \in Users, ChangeGroups(user)
      PROVE  TypeInv'
  BY <1>6 DEF ChangeGroups, KeepsRows, StaySteady, TypeInv
<1> QED BY <1>1, <1>2, <1>3, <1>4, <1>5, <1>6 DEF NamespacesNext

(* The states of requests and commands, and the rows, have their types. *)
THEOREM NamespacesTyped == NamespacesSpec => []TypeInv
BY InitTyped, TypeStep, PTL DEF NamespacesSpec

-----------------------------------------------------------------------------
(* The rows *)

(* A delete that has passed its checks has not found the default namespace. *)
SparesDefault ==
  \A o \in Operators :
    command[o].at = "files" \/ Carries(o, "delete", "delete") => command[o].id # Default

RowsInv == FilesHaveNamespace /\ NamesStayUnique /\ SparesDefault

LEMMA RowsInit ==
  ASSUME NamespacesInit
  PROVE  RowsInv
<1>1. FilesHaveNamespace /\ NamesStayUnique
  BY DEF NamespacesInit, FilesHaveNamespace, NamesStayUnique
<1>2. SparesDefault
  BY DEF NamespacesInit, SparesDefault, Carries, NoVisit
<1> QED BY <1>1, <1>2 DEF RowsInv

(* A request that stores a file holds the row of its namespace. *)
LEMMA VisitKeepsRows ==
  ASSUME TypeInv, RowsInv, NEW c \in Visitors, VisitStep(c), UNCHANGED command
  PROVE  RowsInv'
<1>1. UNCHANGED namespaces
  BY DEF VisitStep, FindNamespace, GlobalRights, FetchNamespace, FetchGroups, AskReaders,
         AskWriters, Handle, KeepsRows
<1>2. FilesHaveNamespace'
  <2>1. CASE Handle(c)
    <3>1. \/ filled' = filled
          \/ Exists(visit[c].id) /\ filled' = filled \cup {visit[c].id}
          \/ filled' = filled \ {visit[c].id}
      BY <2>1 DEF Handle
    <3> QED BY <1>1, <3>1 DEF RowsInv, FilesHaveNamespace, Exists
  <2>2. CASE ~Handle(c)
    BY <1>1, <2>2 DEF VisitStep, FindNamespace, GlobalRights, FetchNamespace, FetchGroups,
       AskReaders, AskWriters, KeepsRows, RowsInv, FilesHaveNamespace
  <2> QED BY <2>1, <2>2
<1> QED BY <1>1, <1>2 DEF RowsInv, NamesStayUnique, SparesDefault, Carries

LEMMA CommandKeepsRows ==
  ASSUME TypeInv, RowsInv, NEW o \in Operators, CommandStep(o)
  PROVE  RowsInv'
<1>1. command[o] \in CommandRecord
  <2>1. CASE command[o] = NoVisit
    BY <2>1 DEF CommandStep, CreateLook, CreateInsert, FindByName, UpdateRead,
                ReadOld, UpdateSet, DeleteLook, DeleteRow, Carries, NoVisit
  <2> QED BY <2>1 DEF TypeInv
<1> USE <1>1
<1>2. ASSUME NEW outcome, EndCommand(o, outcome)
      PROVE  SparesDefault'
  BY <1>2 DEF EndCommand, TypeInv, RowsInv, SparesDefault, Carries, CommandRecord
<1>3. ASSUME KeepsRows
      PROVE  (FilesHaveNamespace /\ NamesStayUnique)'
  BY <1>3 DEF KeepsRows, RowsInv, FilesHaveNamespace, NamesStayUnique
<1>4. CASE CreateLook(o)
  <2>1. CASE Continue(o, "insert")
    BY <1>3, <1>4, <2>1 DEF CreateLook, Continue, TypeInv, RowsInv, SparesDefault, Carries,
       CommandRecord
  <2> QED BY <1>2, <1>3, <1>4, <2>1 DEF CreateLook, RowsInv
<1>5. CASE CreateInsert(o)
  <2>1. CASE Named(command[o].name) # {}
    BY <1>2, <1>3, <1>5, <2>1 DEF CreateInsert, RowsInv
  <2>2. CASE Named(command[o].name) = {}
    <3>1. EndCommand(o, "done") /\ UNCHANGED filled
      BY <1>5, <2>2 DEF CreateInsert
    <3>2. namespaces' = [id \in DOMAIN namespaces \cup {nextNamespace} |->
            IF id = nextNamespace
            THEN Row(command[o].name, command[o].readers, command[o].writers)
            ELSE namespaces[id]]
      BY <1>5, <2>2 DEF CreateInsert
    <3>3. FilesHaveNamespace'
      BY <3>1, <3>2 DEF RowsInv, FilesHaveNamespace
    <3>4. NamesStayUnique'
      BY <2>2, <3>2 DEF RowsInv, NamesStayUnique, Named, Row
    <3> QED BY <1>2, <3>1, <3>3, <3>4 DEF RowsInv
  <2> QED BY <2>1, <2>2
<1>6. CASE FindByName(o)
  <2>1. CASE EndCommand(o, "failed")
    BY <1>2, <1>3, <1>6, <2>1 DEF FindByName, RowsInv
  <2>2. CASE ~EndCommand(o, "failed")
    <3>1. PICK id \in Named(command[o].name) :
            command' = [command EXCEPT ![o].id = id,
                          ![o].at = IF command[o].op = "update" THEN "readers" ELSE "files"]
      BY <1>6, <2>2 DEF FindByName
    <3>2. command[o].op = "delete" => id # Default
      BY <1>6, <2>2 DEF FindByName
    <3>3. command[o].op \in {"update", "delete"}
      BY <1>6 DEF FindByName
    <3>4. SparesDefault'
      BY <3>1, <3>2, <3>3 DEF TypeInv, RowsInv, SparesDefault, Carries, CommandRecord
    <3> QED BY <1>3, <1>6, <3>4 DEF FindByName, RowsInv
  <2> QED BY <2>1, <2>2
<1>7. CASE UpdateSet(o)
  <2>1. DOMAIN namespaces' = DOMAIN namespaces
    BY <1>7 DEF UpdateSet, TypeInv
  <2>2. \A id \in DOMAIN namespaces : namespaces'[id].name = namespaces[id].name
    <3>1. CASE namespaces' = namespaces
      BY <3>1
    <3>2. CASE Exists(command[o].id)
      <4> DEFINE row == namespaces[command[o].id]
                 set == Row(row.name, Updated(command[o], "readers", row.readers),
                                      Updated(command[o], "writers", row.writers))
      <4>1. namespaces' = [namespaces EXCEPT ![command[o].id] = set]
        BY <1>7, <3>2 DEF UpdateSet
      <4>2. set.name = row.name
        BY DEF Row
      <4> HIDE DEF set
      <4> QED BY <4>1, <4>2 DEF TypeInv
    <3> QED BY <1>7, <3>1, <3>2 DEF UpdateSet
  <2>3. SparesDefault' /\ UNCHANGED filled
    BY <1>2, <1>7 DEF UpdateSet
  <2> QED BY <2>1, <2>2, <2>3 DEF RowsInv, FilesHaveNamespace, NamesStayUnique
<1>8. CASE DeleteLook(o)
  <2>1. CASE Continue(o, "delete")
    <3>1. command[o].id # Default
      BY <1>8 DEF DeleteLook, Carries, RowsInv, SparesDefault
    <3>2. SparesDefault'
      BY <2>1, <3>1 DEF Continue, TypeInv, RowsInv, SparesDefault, Carries, CommandRecord
    <3> QED BY <1>3, <1>8, <3>2 DEF DeleteLook, RowsInv
  <2> QED BY <1>2, <1>3, <1>8, <2>1 DEF DeleteLook, RowsInv
<1>9. CASE DeleteRow(o)
  <2>1. CASE command[o].id \in filled
    BY <1>2, <1>3, <1>9, <2>1 DEF DeleteRow, RowsInv
  <2>2. CASE command[o].id \notin filled
    <3>1. /\ namespaces' = [id \in DOMAIN namespaces \ {command[o].id} |-> namespaces[id]]
          /\ EndCommand(o, "done") /\ UNCHANGED filled
      BY <1>9, <2>2 DEF DeleteRow
    <3>2. command[o].id # Default
      BY <1>9 DEF DeleteRow, Carries, RowsInv, SparesDefault
    <3> QED BY <1>2, <2>2, <3>1, <3>2 DEF RowsInv, FilesHaveNamespace, NamesStayUnique
  <2> QED BY <2>1, <2>2
<1>10. CASE UpdateRead(o)
  <2>1. PICK field \in {"readers", "writers"}, next \in {"writers", "set"} :
          ReadOld(o, field, next)
    BY <1>10 DEF UpdateRead
  <2>2. KeepsRows
    BY <2>1 DEF ReadOld
  <2>3. SparesDefault'
    <3>1. command[o].op = "update"
      BY <2>1 DEF ReadOld, Carries
    <3>2. PICK old : command' = [command EXCEPT ![o].at = next, ![o].old[field] = old]
      BY <2>1 DEF ReadOld
    <3>3. command' = [command EXCEPT ![o] =
                        [command[o] EXCEPT !.at = next, !.old[field] = old]]
      BY <3>2
    <3>4. /\ [command[o] EXCEPT !.at = next, !.old[field] = old].at = next
          /\ [command[o] EXCEPT !.at = next, !.old[field] = old].op = "update"
      BY <3>1 DEF CommandRecord
    <3>5. /\ command'[o].at = next /\ command'[o].op = "update"
          /\ \A p \in Operators : p # o => command'[p] = command[p]
      BY <3>3, <3>4 DEF TypeInv
    <3> QED BY <3>5 DEF RowsInv, SparesDefault, Carries
  <2> QED BY <1>3, <2>2, <2>3 DEF RowsInv
<1> QED BY <1>4, <1>5, <1>6, <1>7, <1>8, <1>9, <1>10 DEF CommandStep

LEMMA RowsStep ==
  ASSUME TypeInv, RowsInv, [NamespacesNext]_namespaceVars
  PROVE  RowsInv'
<1> USE DEF RowsInv, FilesHaveNamespace, NamesStayUnique, SparesDefault, Carries
<1>1. CASE UNCHANGED namespaceVars
  BY <1>1 DEF namespaceVars
<1>2. ASSUME NEW c \in Visitors, BeginVisit(c)
      PROVE  RowsInv'
  BY <1>2 DEF BeginVisit, Arrive, KeepsRows
<1>3. ASSUME NEW c \in Visitors, VisitStep(c), UNCHANGED command
      PROVE  RowsInv'
  BY <1>3, VisitKeepsRows
<1>4. ASSUME NEW o \in Operators, BeginCommand(o)
      PROVE  RowsInv'
  <2>1. PICK cmd \in Commands : Issue(o, cmd)
    BY <1>4 DEF BeginCommand
  <2>2. SparesDefault'
    BY <2>1 DEF Issue, TypeInv
  <2> QED BY <2>1, <2>2 DEF Issue, KeepsRows
<1>5. ASSUME NEW o \in Operators, CommandStep(o)
      PROVE  RowsInv'
  BY <1>5, CommandKeepsRows
<1>6. ASSUME NEW user \in Users, ChangeGroups(user)
      PROVE  RowsInv'
  BY <1>6 DEF ChangeGroups, KeepsRows
<1> QED BY <1>1, <1>2, <1>3, <1>4, <1>5, <1>6 DEF NamespacesNext

(* Whatever requests, creates and deletes of namespaces come between each other,
   no file is left without a namespace, the default namespace is there, and of
   all creates of a name one makes a namespace. *)
THEOREM NamespaceRowsCorrect == NamespacesSpec => []NamespaceRowsOK
<1>1. NamespacesInit => TypeInv /\ RowsInv
  BY InitTyped, RowsInit
<1>2. TypeInv /\ RowsInv /\ [NamespacesNext]_namespaceVars => (TypeInv /\ RowsInv)'
  BY TypeStep, RowsStep
<1>3. RowsInv => NamespaceRowsOK
  BY DEF RowsInv, NamespaceRowsOK
<1> QED BY <1>1, <1>2, <1>3, PTL DEF NamespacesSpec

-----------------------------------------------------------------------------
(* The decisions *)

(* What a request knows of its user and of the row, as long as nobody has come in
   its way. *)
Knows(r) ==
  /\ r.at \in {"row", "groups", "readers", "writers"} =>
       /\ r.user \in Users /\ r.user \notin WritesAll
       /\ r.method = "GET" => r.user \notin ReadsAll
  /\ r.at \in {"groups", "readers", "writers"} => Exists(r.id)
  /\ r.at \in {"readers", "writers"} => r.groups = groupsOf[r.user]
  /\ r.at = "readers" => r.method = "GET"
  /\ r.at = "writers" /\ r.method = "GET" => r.groups \cap namespaces[r.id].readers = {}

SteadyInv == \A c \in steady : visit[c] \in VisitRecord /\ Knows(visit[c])

LEMMA SteadyInit ==
  ASSUME NamespacesInit
  PROVE  SteadyInv
BY DEF NamespacesInit, SteadyInv

(* What a change does not disturb keeps what it knows. *)
LEMMA UndisturbedStaysInformed ==
  ASSUME TypeInv, SteadyInv, StaySteady, UNCHANGED visit
  PROVE  SteadyInv'
<1> SUFFICES ASSUME NEW c \in steady, ~Disturbs(c)
             PROVE  Knows(visit[c])'
  BY DEF SteadyInv, StaySteady
<1> DEFINE r == visit[c]
<1>1. r \in VisitRecord /\ Knows(r)
  BY DEF SteadyInv
<1>2. Exists(r.id) => Exists(r.id)' /\ namespaces'[r.id] = namespaces[r.id]
  BY DEF Disturbs, Exists
<1>3. r.user \in Users => groupsOf'[r.user] = groupsOf[r.user]
  BY NamespacesAssumption DEF Disturbs
<1>4. r' = r
  OBVIOUS
<1> HIDE DEF r
<1>5. Knows(r)'
  BY <1>1, <1>2, <1>3, <1>4 DEF Knows
<1> QED BY <1>5 DEF r

(* Each query of a request adds one thing that it knows, or decides. *)
LEMMA QueryInforms ==
  ASSUME TypeInv, SteadyInv, NEW c \in Visitors, c \in steady, VisitStep(c),
         UNCHANGED groupsOf
  PROVE  Knows(visit[c])' /\ visit'[c] \in VisitRecord /\ RightDecision(c)
<1> DEFINE r == visit[c]
<1>1. r \in VisitRecord /\ Knows(r)
  BY DEF SteadyInv
<1>2. visit'[c] \in VisitRecord
  <2>1. visit'[c] # NoVisit
    <3>1. visit'[c].at # "none"
      BY <1>1 DEF VisitStep, FindNamespace, GlobalRights, FetchNamespace, FetchGroups, AskReaders,
         AskWriters, Handle, Advance, Respond, TypeInv, VisitRecord
    <3> QED BY <3>1 DEF NoVisit
  <2> QED BY <2>1, VisitTyped
<1>3. UNCHANGED namespaces
  BY DEF VisitStep, FindNamespace, GlobalRights, FetchNamespace, FetchGroups, AskReaders,
         AskWriters, Handle, KeepsRows
<1>4. ASSUME NEW at \in {"global", "row", "groups", "readers", "writers", "handle"}, Advance(c, at)
      PROVE  visit'[c] = [r EXCEPT !.at = at]
  BY <1>4 DEF Advance, TypeInv
<1>5. ASSUME NEW status \in Nat, Respond(c, status)
      PROVE  Knows(visit[c])' /\ visit'[c].at = "answered" /\ visit'[c].status = status
  <2>1. visit'[c].at = "answered" /\ visit'[c].status = status
    BY <1>1, <1>5 DEF Respond, TypeInv, VisitRecord
  <2> QED BY <2>1 DEF Knows
<1>6. (\E status \in Nat \ {403} : Respond(c, status)) =>
        Knows(visit[c])' /\ RightDecision(c)
  BY <1>5 DEF RightDecision
<1> USE <1>2
<1>7. CASE FindNamespace(c)
  <2>1. CASE Advance(c, "global")
    BY <1>1, <1>4, <2>1 DEF Knows, RightDecision, VisitRecord
  <2>2. CASE Respond(c, 404) \/ Respond(c, 401)
    BY <1>6, <2>2
  <2>3. Respond(c, 404) \/ Respond(c, 401) \/ Advance(c, "global")
    BY <1>7 DEF FindNamespace
  <2> QED BY <2>1, <2>2, <2>3
<1>8. CASE GlobalRights(c)
  <2>1. CASE r.user = Anonymous
    <3>1. Respond(c, 401)
      BY <1>8, <2>1, NamespacesAssumption DEF GlobalRights
    <3> QED BY <1>6, <3>1
  <2>2. CASE r.user # Anonymous /\ (r.user \in WritesAll \/ (~Writes(c) /\ r.user \in ReadsAll))
    <3>1. Advance(c, "handle")
      BY <1>8, <2>2 DEF GlobalRights
    <3>2. visit'[c].at = "handle" /\ Knows(visit[c])'
      BY <1>1, <1>4, <3>1 DEF Knows, VisitRecord
    <3>3. Entitled(r)
      BY <2>2 DEF Entitled, Writes
    <3> QED BY <3>2, <3>3 DEF RightDecision
  <2>3. CASE r.user # Anonymous /\ ~(r.user \in WritesAll \/ (~Writes(c) /\ r.user \in ReadsAll))
    <3>1. Advance(c, "row")
      BY <1>8, <2>3 DEF GlobalRights
    <3>2. visit'[c] = [r EXCEPT !.at = "row"]
      BY <1>4, <3>1
    <3>3. r.user \in Users /\ r.user \notin WritesAll /\ (r.method = "GET" => r.user \notin ReadsAll)
      BY <1>1, <2>3 DEF VisitRecord, Writes
    <3>4. visit'[c].at = "row" /\ Knows(visit[c])'
      BY <1>1, <3>2, <3>3 DEF Knows, VisitRecord
    <3> QED BY <3>4 DEF RightDecision
  <2> QED BY <2>1, <2>2, <2>3
<1>9. CASE FetchNamespace(c)
  <2>1. CASE Exists(r.id)
    <3>1. visit'[c] = [r EXCEPT !.at = "groups"] /\ r.at = "row"
      BY <1>4, <1>9, <2>1 DEF FetchNamespace
    <3>2. visit'[c].at = "groups" /\ Knows(visit[c])'
      BY <1>1, <1>3, <2>1, <3>1 DEF Knows, VisitRecord, Exists
    <3> QED BY <3>2 DEF RightDecision
  <2>2. CASE ~Exists(r.id)
    <3>1. Respond(c, 403) /\ r.at = "row"
      BY <1>9, <2>2 DEF FetchNamespace
    <3>2. ~Entitled(r)
      BY <1>1, <2>2, <3>1 DEF Knows, Entitled
    <3> QED BY <1>5, <3>1, <3>2 DEF RightDecision
  <2> QED BY <2>1, <2>2
<1>10. CASE FetchGroups(c)
  <2>1. r.at = "groups" /\ Exists(r.id) /\ r.user \in Users
    BY <1>1, <1>10 DEF FetchGroups, Knows
  <2>2. CASE groupsOf[r.user] = {}
    <3>1. Respond(c, 403)
      BY <1>10, <2>2 DEF FetchGroups
    <3>2. ~Entitled(r)
      BY <1>1, <2>1, <2>2 DEF Knows, Entitled
    <3> QED BY <1>5, <3>1, <3>2 DEF RightDecision
  <2>3. CASE groupsOf[r.user] # {}
    <3> DEFINE at == IF Writes(c) THEN "writers" ELSE "readers"
    <3>1. visit'[c] = [r EXCEPT !.groups = groupsOf[r.user], !.at = at]
      BY <1>10, <2>3 DEF FetchGroups, TypeInv
    <3>2. visit'[c].at = at /\ visit'[c].groups = groupsOf[r.user]
      BY <1>1, <3>1 DEF VisitRecord
    <3>3. /\ visit'[c].user = r.user /\ visit'[c].id = r.id /\ visit'[c].method = r.method
      BY <1>1, <3>1 DEF VisitRecord
    <3>4. Knows(visit[c])'
      BY <1>1, <1>3, <2>1, <3>2, <3>3 DEF Knows, Exists, Writes
    <3> QED BY <3>2, <3>4 DEF RightDecision
  <2> QED BY <2>2, <2>3
<1>11. CASE AskReaders(c)
  <2>1. /\ r.at = "readers" /\ r.method = "GET" /\ Exists(r.id) /\ r.user \in Users
        /\ r.groups = groupsOf[r.user]
    BY <1>1, <1>11 DEF AskReaders, Knows
  <2>2. CASE Among(c, "readers")
    <3>1. visit'[c] = [r EXCEPT !.at = "handle"]
      BY <1>4, <1>11, <2>2 DEF AskReaders
    <3>2. visit'[c].at = "handle" /\ Knows(visit[c])'
      BY <1>1, <3>1 DEF Knows, VisitRecord
    <3>3. Entitled(r)
      BY <2>1, <2>2, NamespacesAssumption DEF Among, Entitled
    <3> QED BY <3>2, <3>3 DEF RightDecision
  <2>3. CASE ~Among(c, "readers")
    <3>1. visit'[c] = [r EXCEPT !.at = "writers"]
      BY <1>4, <1>11, <2>3 DEF AskReaders
    <3>2. r.groups \cap namespaces[r.id].readers = {}
      BY <2>1, <2>3 DEF Among
    <3>3. visit'[c].at = "writers" /\ Knows(visit[c])'
      BY <1>1, <1>3, <2>1, <3>1, <3>2 DEF Knows, VisitRecord, Exists
    <3> QED BY <3>3 DEF RightDecision
  <2> QED BY <2>2, <2>3
<1>12. CASE AskWriters(c)
  <2>1. /\ r.at = "writers" /\ Exists(r.id) /\ r.user \in Users /\ r.user \notin WritesAll
        /\ r.groups = groupsOf[r.user] /\ (r.method = "GET" => r.user \notin ReadsAll)
        /\ r.method = "GET" => r.groups \cap namespaces[r.id].readers = {}
    BY <1>1, <1>12 DEF AskWriters, Knows
  <2>2. CASE Among(c, "writers")
    <3>1. visit'[c] = [r EXCEPT !.at = "handle"]
      BY <1>4, <1>12, <2>2 DEF AskWriters
    <3>2. visit'[c].at = "handle" /\ Knows(visit[c])'
      BY <1>1, <3>1 DEF Knows, VisitRecord
    <3>3. Entitled(r)
      BY <2>1, <2>2, NamespacesAssumption DEF Among, Entitled
    <3> QED BY <3>2, <3>3 DEF RightDecision
  <2>3. CASE ~Among(c, "writers")
    <3>1. Respond(c, 403)
      BY <1>12, <2>3 DEF AskWriters
    <3>2. groupsOf[r.user] \cap namespaces[r.id].writers = {}
      BY <2>1, <2>3 DEF Among
    <3>3. ~Entitled(r)
      BY <2>1, <3>2 DEF Entitled
    <3> QED BY <1>5, <3>1, <3>3 DEF RightDecision
  <2> QED BY <2>2, <2>3
<1>13. CASE Handle(c)
  BY <1>6, <1>13 DEF Handle
<1>14. Knows(visit[c])' /\ RightDecision(c)
  BY <1>7, <1>8, <1>9, <1>10, <1>11, <1>12, <1>13 DEF VisitStep
<1> QED BY <1>14

LEMMA SteadyStep ==
  ASSUME TypeInv, SteadyInv, [NamespacesNext]_namespaceVars
  PROVE  SteadyInv' /\ \A c \in Visitors : visit'[c].at # visit[c].at => RightDecision(c)
<1>1. CASE UNCHANGED namespaceVars
  BY <1>1 DEF namespaceVars, SteadyInv, Knows, Exists
<1>2. ASSUME NEW c \in Visitors, BeginVisit(c)
      PROVE  SteadyInv' /\ \A e \in Visitors : visit'[e].at # visit[e].at => RightDecision(e)
  <2>1. PICK user \in Users \cup {Anonymous}, id \in 1..MaxNamespaces,
             method \in {"GET", "PUT", "DELETE"}, basic \in BOOLEAN :
             Arrive(c, user, id, method, basic)
    BY <1>2 DEF BeginVisit
  <2>2. visit'[c].at = "find" /\ visit'[c] \in VisitRecord
    BY <2>1 DEF Arrive, TypeInv, VisitRecord
  <2>3. \A e \in Visitors \ {c} : visit'[e] = visit[e]
    BY <2>1 DEF Arrive, TypeInv
  <2>4. UNCHANGED <<namespaces, groupsOf>> /\ steady' = steady \cup {c}
    BY <1>2, <2>1 DEF BeginVisit, Arrive, KeepsRows
  <2>5. Knows(visit[c])'
    BY <2>2 DEF Knows
  <2>6. \A e \in steady \ {c} : Knows(visit[e])'
    BY <2>3, <2>4 DEF SteadyInv, Knows, Exists, TypeInv
  <2>7. SteadyInv'
    BY <2>2, <2>3, <2>4, <2>5, <2>6 DEF SteadyInv, TypeInv
  <2> QED BY <2>2, <2>3, <2>7 DEF RightDecision
<1>3. ASSUME NEW c \in Visitors, VisitStep(c), UNCHANGED <<groupsOf, command, visits, steady>>
      PROVE  SteadyInv' /\ \A e \in Visitors : visit'[e].at # visit[e].at => RightDecision(e)
  <2>1. UNCHANGED namespaces
    BY <1>3 DEF VisitStep, FindNamespace, GlobalRights, FetchNamespace, FetchGroups, AskReaders,
           AskWriters, Handle, KeepsRows
  <2>2. \A e \in Visitors \ {c} : visit'[e] = visit[e]
    BY <1>3 DEF VisitStep, FindNamespace, GlobalRights, FetchNamespace, FetchGroups, AskReaders,
           AskWriters, Handle, Advance, Respond, TypeInv
  <2>3. \A e \in steady \ {c} : visit'[e] \in VisitRecord /\ Knows(visit[e])'
    BY <1>3, <2>1, <2>2 DEF SteadyInv, Knows, Exists, TypeInv
  <2>4. c \in steady => visit'[c] \in VisitRecord /\ Knows(visit[c])'
    BY <1>3, QueryInforms
  <2>5. RightDecision(c)
    BY <1>3, QueryInforms DEF RightDecision
  <2> QED BY <1>3, <2>2, <2>3, <2>4, <2>5 DEF SteadyInv
<1>4. ASSUME NEW o \in Operators, BeginCommand(o)
      PROVE  SteadyInv' /\ UNCHANGED visit
  BY <1>4 DEF BeginCommand, Issue, KeepsRows, SteadyInv, Knows, Exists
<1>5. ASSUME NEW o \in Operators, CommandStep(o), UNCHANGED <<groupsOf, visit, visits>>, StaySteady
      PROVE  SteadyInv' /\ UNCHANGED visit
  BY <1>5, UndisturbedStaysInformed
<1>6. ASSUME NEW user \in Users, ChangeGroups(user)
      PROVE  SteadyInv' /\ UNCHANGED visit
  BY <1>6, UndisturbedStaysInformed DEF ChangeGroups
<1> QED BY <1>1, <1>2, <1>3, <1>4, <1>5, <1>6 DEF NamespacesNext, namespaceVars

(* A request in whose way nobody comes is let through exactly if its user is
   entitled to it, however many queries has_namespace_perm asks. *)
THEOREM DecisionsAreRight == NamespacesSpec => SteadyDecisionsAreRight
<1>1. NamespacesInit => TypeInv /\ SteadyInv
  BY InitTyped, SteadyInit
<1>2. TypeInv /\ SteadyInv /\ [NamespacesNext]_namespaceVars => (TypeInv /\ SteadyInv)'
  BY TypeStep, SteadyStep
<1>3. TypeInv /\ SteadyInv /\ [NamespacesNext]_namespaceVars
        => [\A c \in Visitors : RightDecision(c)]_namespaceVars
  BY SteadyStep DEF RightDecision
<1> QED BY <1>1, <1>2, <1>3, PTL DEF NamespacesSpec, SteadyDecisionsAreRight

-----------------------------------------------------------------------------
(* Listings: what the operations make of a tree *)

LEMMA LeastNumber ==
  ASSUME NEW W \in SUBSET Nat, W # {}
  PROVE  \E n \in W : \A m \in W : n <= m
<1> DEFINE R == OpToRel(<, Nat)
<1>1. IsWellFoundedOn(R, Nat)
  BY NatLessThanWellFounded
<1>2. \A x, y \in Nat : y < x => <<y, x>> \in R
  BY DEF OpToRel
<1> HIDE DEF R
<1>3. PICK n \in W : \A m \in W : ~(<<m, n>> \in R)
  BY <1>1, WFMin
<1>4. ASSUME NEW m \in W
      PROVE  n <= m
  <2>1. n \in Nat /\ m \in Nat /\ ~(m < n)
    BY <1>2, <1>3
  <2> QED BY <2>1
<1> QED BY <1>4

LEMMA BelowSays ==
  ASSUME NEW p \in Seq(Names), NEW q \in Seq(Names), NEW r \in Seq(Names)
  PROVE  /\ ~Below(p, p)
         /\ Below(p, q) => Len(p) < Len(q)
         /\ Below(p, q) /\ Below(q, r) => Below(p, r)
         /\ Below(p, r) /\ Below(q, r) => p = q \/ Below(p, q) \/ Below(q, p)
<1>1. Below(p, q) /\ Below(q, r) => Below(p, r)
  BY DEF Below
<1>2. ASSUME Below(p, r), Below(q, r)
      PROVE  p = q \/ Below(p, q) \/ Below(q, p)
  <2>1. CASE Len(p) = Len(q)
    <3>1. \A i \in 1..Len(p) : p[i] = q[i]
      BY <1>2, <2>1 DEF Below
    <3> QED BY <2>1, <3>1
  <2>2. CASE Len(p) # Len(q)
    BY <1>2, <2>2 DEF Below
  <2> QED BY <2>1, <2>2
<1>3. ~Below(p, p) /\ (Below(p, q) => Len(p) < Len(q))
  BY DEF Below
<1> QED BY <1>1, <1>2, <1>3

LEMMA UptoSays ==
  ASSUME NEW q \in Seq(Names), NEW k \in 0..Len(q)
  PROVE  /\ Upto(q, k) \in Seq(Names) /\ Len(Upto(q, k)) = k
         /\ \A i \in 1..k : Upto(q, k)[i] = q[i]
         /\ IF k = Len(q) THEN Upto(q, k) = q ELSE Below(Upto(q, k), q)
<1> DEFINE u == Upto(q, k)
<1>1. u \in Seq(Names) /\ Len(u) = k /\ \A i \in 1..k : u[i] = q[i]
  BY DEF Upto
<1> HIDE DEF u
<1>2. k # Len(q) => Below(u, q)
  BY <1>1 DEF Below
<1>3. k = Len(q) => u = q
  BY <1>1
<1> QED BY <1>1, <1>2, <1>3 DEF u

(* What is above a path are the prefixes of it. *)
LEMMA AboveSays ==
  ASSUME NEW p \in Seq(Names), NEW q \in Seq(Names)
  PROVE  /\ p = q \/ Below(p, q) => p = Upto(q, Len(p)) /\ Len(p) \in 0..Len(q)
         /\ p # <<>> => (p \in Ancestors(q) <=> Below(p, q))
<1>1. ASSUME p = q \/ Below(p, q)
      PROVE  p = Upto(q, Len(p)) /\ Len(p) \in 0..Len(q)
  <2>1. Len(p) \in 0..Len(q) /\ \A i \in 1..Len(p) : q[i] = p[i]
    BY <1>1 DEF Below
  <2> DEFINE u == Upto(q, Len(p))
  <2>2. u \in Seq(Names) /\ Len(u) = Len(p) /\ \A i \in 1..Len(p) : u[i] = q[i]
    BY <2>1, UptoSays
  <2> HIDE DEF u
  <2>3. p = u
    BY <2>1, <2>2
  <2> QED BY <2>1, <2>3 DEF u
<1>2. ASSUME p # <<>>, Below(p, q)
      PROVE  p \in Ancestors(q)
  <2>1. Len(p) \in 1..(Len(q) - 1)
    BY <1>2 DEF Below
  <2> QED BY <1>1, <1>2, <2>1 DEF Ancestors
<1>3. ASSUME p \in Ancestors(q)
      PROVE  Below(p, q)
  <2>1. PICK k \in 1..(Len(q) - 1) : p = Upto(q, k)
    BY <1>3 DEF Ancestors
  <2>2. k \in 0..Len(q) /\ k # Len(q)
    OBVIOUS
  <2> QED BY <2>1, <2>2, UptoSays
<1> QED BY <1>1, <1>2, <1>3

LEMMA ChangedPathsSay ==
  ASSUME NEW p \in ChangedPaths
  PROVE  p \in Seq(Names) \ {<<>>} /\ p \in Seq(Names) /\ p # <<>> /\ Len(p) \in Nat \ {0}
BY ListingsAssumption, PathsAssumption DEF Paths

LEMMA WriteSound ==
  ASSUME SoundTree, NEW p \in Seq(Names) \ {<<>>}, NEW data, CanWrite(p),
         tree' = Set(tree, p, Replaced(p, data))
  PROVE  SoundTree'
<1> DEFINE e == Replaced(p, data)
<1>1. tree' = Set(tree, p, e) /\ Reachable(p) /\ ~IsDirectory(p)
  BY DEF CanWrite
<1>2. e.type = "file"
  BY DEF Replaced, File
<1> HIDE DEF e
<1>3. /\ DOMAIN tree' = DOMAIN tree \cup {p} /\ tree'[p] = e
      /\ \A q \in DOMAIN tree \ {p} : tree'[q] = tree[q]
  BY <1>1 DEF Set
<1>4. p \in Seq(Names) \ {<<>>}
  OBVIOUS
<1>5. DOMAIN tree' \subseteq Seq(Names) \ {<<>>}
  BY <1>3, <1>4 DEF SoundTree
<1>6. \A q \in DOMAIN tree : ~Below(p, q)
  BY <1>1 DEF IsDirectory, IsFile, Present, TreeAt, SoundTree
<1>7. \A q \in DOMAIN tree : tree[q].type = "file" => ~Below(q, p)
  <2>1. \A q \in Ancestors(p) : ~IsFile(q)
    BY <1>1 DEF Reachable
  <2> QED BY <1>4, <2>1, AboveSays DEF SoundTree, IsFile
<1>8. ~Below(p, p)
  BY <1>4, BelowSays
<1>9. ASSUME NEW q \in DOMAIN tree', NEW r \in DOMAIN tree', tree'[q].type = "file"
      PROVE  ~Below(q, r)
  BY <1>3, <1>6, <1>7, <1>8, <1>9 DEF SoundTree, IsFile
<1>10. \A q \in DOMAIN tree' : tree'[q].type \in {"file", "directory"}
  BY <1>2, <1>3 DEF SoundTree
<1> QED BY <1>5, <1>9, <1>10 DEF SoundTree, IsFile

LEMMA OverwriteSound ==
  ASSUME SoundTree, NEW p \in Seq(Names) \ {<<>>}, NEW data, Overwrite(p, data)
  PROVE  SoundTree'
BY WriteSound DEF Overwrite, Store

LEMMA DeleteSound ==
  ASSUME SoundTree, NEW p, NEW recursive, Delete(p, recursive)
  PROVE  SoundTree'
<1>1. /\ DOMAIN tree' \subseteq DOMAIN tree
      /\ \A q \in DOMAIN tree' : tree'[q] = tree[q]
  BY DEF Delete, Erase, Without
<1> QED BY <1>1 DEF SoundTree, IsFile

LEMMA CreateDirectorySound ==
  ASSUME SoundTree, NEW p \in Seq(Names) \ {<<>>}, NEW base \in 0..(Len(p) - 1),
         CreateDirectory(p, base)
  PROVE  SoundTree'
<1> DEFINE levels == (base + 1)..Len(p)
           made == {Upto(p, k) : k \in levels}
<1>1. /\ base > 0 => IsDirectory(Upto(p, base))
      /\ \A k \in levels : ~Present(Upto(p, k))
      /\ tree' = [q \in DOMAIN tree \cup made |->
                    IF q \in made THEN Directory(nextId + Len(q) - base - 1) ELSE tree[q]]
  BY DEF CreateDirectory
<1>2. p \in Seq(Names) /\ Len(p) \in Nat \ {0}
  OBVIOUS
<1>3. ASSUME NEW k \in levels
      PROVE  /\ k \in 0..Len(p) /\ Upto(p, k) \in Seq(Names) \ {<<>>} /\ Len(Upto(p, k)) = k
  BY <1>2, UptoSays
<1>4. \A q \in DOMAIN tree : q \notin made
  BY <1>1 DEF Present, TreeAt
<1>5. /\ DOMAIN tree' = DOMAIN tree \cup made
      /\ \A q \in made : tree'[q].type = "directory"
      /\ \A q \in DOMAIN tree : tree'[q] = tree[q]
  BY <1>1, <1>4 DEF Directory
<1>6. ASSUME NEW q \in DOMAIN tree, tree[q].type = "file", NEW k \in levels, Below(q, Upto(p, k))
      PROVE  FALSE
  <2> DEFINE m == Upto(p, k)
             u == Upto(p, base)
  <2>1. m \in Seq(Names) /\ Len(m) = k /\ q \in Seq(Names) /\ q # <<>>
    BY <1>3 DEF SoundTree
  <2>2. m = p \/ Below(m, p)
    BY <1>2, <1>3, UptoSays
  <2>3. Below(q, p)
    <3> HIDE DEF m
    <3> QED BY <1>2, <1>6, <2>1, <2>2, BelowSays DEF m
  <2>4. q = Upto(p, Len(q)) /\ Len(q) \in 1..Len(p)
    BY <1>2, <2>1, <2>3, AboveSays
  <2>5. Len(q) \notin levels
    BY <1>4, <2>4
  <2>6. base > 0 /\ Len(q) <= base /\ base \in 0..Len(p)
    BY <1>2, <2>4, <2>5
  <2>7. u \in Seq(Names) /\ Len(u) = base /\ (u = p \/ Below(u, p))
    BY <1>2, <2>6, UptoSays
  <2>8. IsDirectory(u)
    BY <1>1, <2>6
  <2> HIDE DEF u, m
  <2>9. q = u \/ Below(q, u)
    <3>1. ~Below(u, q)
      BY <2>1, <2>6, <2>7, BelowSays
    <3> QED BY <1>2, <2>1, <2>3, <2>7, <3>1, BelowSays
  <2>10. PICK r \in DOMAIN tree : r = u \/ Below(u, r)
    BY <2>8 DEF IsDirectory, Present, TreeAt
  <2>11. r \in Seq(Names)
    BY DEF SoundTree
  <2>12. q = r \/ Below(q, r)
    BY <2>1, <2>7, <2>9, <2>10, <2>11, BelowSays
  <2>13. ~Below(q, r)
    BY <1>6 DEF SoundTree, IsFile
  <2>14. q = u
    BY <2>1, <2>7, <2>9, <2>10, <2>11, <2>12, <2>13, BelowSays
  <2> QED BY <1>6, <2>8, <2>14 DEF IsDirectory, IsFile
<1>7. ASSUME NEW q \in DOMAIN tree', NEW r \in DOMAIN tree', tree'[q].type = "file"
      PROVE  ~Below(q, r)
  <2>1. q \in DOMAIN tree /\ tree[q].type = "file"
    BY <1>5, <1>7
  <2> QED BY <1>5, <1>6, <2>1 DEF SoundTree, IsFile
<1>8. DOMAIN tree' \subseteq Seq(Names) \ {<<>>}
  BY <1>3, <1>5 DEF SoundTree
<1>9. \A q \in DOMAIN tree' : tree'[q].type \in {"file", "directory"}
  BY <1>5 DEF SoundTree
<1> QED BY <1>7, <1>8, <1>9 DEF SoundTree, IsFile

LEMMA RebaseSays ==
  ASSUME NEW src \in Seq(Names), NEW dst \in Seq(Names), NEW p \in Seq(Names),
         p = src \/ Below(src, p)
  PROVE  /\ Rebase(src, dst, p) \in Seq(Names)
         /\ Len(Rebase(src, dst, p)) = Len(dst) + Len(p) - Len(src)
         /\ \A i \in 1..Len(dst) : Rebase(src, dst, p)[i] = dst[i]
         /\ \A i \in 1..(Len(p) - Len(src)) : Rebase(src, dst, p)[i + Len(dst)] = p[i + Len(src)]
         /\ Rebase(src, dst, p) = dst \/ Below(dst, Rebase(src, dst, p))
<1> DEFINE s == SubSeq(p, Len(src) + 1, Len(p))
           r == Rebase(src, dst, p)
<1>1. Len(src) \in 0..Len(p) /\ Len(p) \in Nat /\ Len(dst) \in Nat
  BY DEF Below
<1>2. /\ s \in Seq(Names) /\ Len(s) = Len(p) - Len(src)
      /\ \A i \in 1..(Len(p) - Len(src)) : s[i] = p[i + Len(src)]
  BY <1>1
<1>3. r = dst \o s
  BY DEF Rebase
<1> HIDE DEF r, s
<1>4. /\ r \in Seq(Names) /\ Len(r) = Len(dst) + Len(s)
      /\ \A i \in 1..Len(dst) : r[i] = dst[i]
      /\ \A i \in 1..Len(s) : r[i + Len(dst)] = s[i]
  <2>1. /\ r \in Seq(Names) /\ Len(r) = Len(dst) + Len(s)
        /\ \A i \in 1..(Len(dst) + Len(s)) : r[i] = IF i <= Len(dst) THEN dst[i] ELSE s[i - Len(dst)]
    <3>1. s \in Seq(Names)
      BY <1>2
    <3>2. /\ dst \o s \in Seq(Names) /\ Len(dst \o s) = Len(dst) + Len(s)
          /\ \A i \in 1..(Len(dst) + Len(s)) :
               (dst \o s)[i] = IF i <= Len(dst) THEN dst[i] ELSE s[i - Len(dst)]
      BY <3>1, ConcatProperties, Zenon
    <3> QED BY <1>3, <3>2, Zenon
  <2>2. \A i \in 1..Len(dst) : i \in 1..(Len(dst) + Len(s)) /\ i <= Len(dst)
    BY <1>1, <1>2
  <2>3. \A i \in 1..Len(s) : /\ i + Len(dst) \in 1..(Len(dst) + Len(s))
                            /\ ~(i + Len(dst) <= Len(dst)) /\ (i + Len(dst)) - Len(dst) = i
    BY <1>1, <1>2
  <2> QED BY <2>1, <2>2, <2>3
<1>5. Len(r) = Len(dst) => r = dst
  BY <1>4
<1>6. Len(r) # Len(dst) => Below(dst, r)
  BY <1>1, <1>2, <1>4 DEF Below
<1> QED BY <1>1, <1>2, <1>4, <1>5, <1>6 DEF r

LEMMA RebaseBack ==
  ASSUME NEW src \in Seq(Names), NEW dst \in Seq(Names), NEW p \in Seq(Names),
         p = src \/ Below(src, p)
  PROVE  Rebase(dst, src, Rebase(src, dst, p)) = p
<1> DEFINE r == Rebase(src, dst, p)
           b == Rebase(dst, src, r)
<1>1. /\ r \in Seq(Names) /\ Len(r) = Len(dst) + Len(p) - Len(src)
      /\ \A i \in 1..(Len(p) - Len(src)) : r[i + Len(dst)] = p[i + Len(src)]
      /\ r = dst \/ Below(dst, r)
  BY RebaseSays
<1> HIDE DEF r
<1>2. /\ b \in Seq(Names) /\ Len(b) = Len(src) + Len(r) - Len(dst)
      /\ \A i \in 1..Len(src) : b[i] = src[i]
      /\ \A i \in 1..(Len(r) - Len(dst)) : b[i + Len(src)] = r[i + Len(dst)]
  BY <1>1, RebaseSays
<1> HIDE DEF b
<1>3. /\ Len(b) = Len(p) /\ Len(src) \in 0..Len(p) /\ Len(p) \in Nat
      /\ \A i \in 1..Len(src) : p[i] = src[i]
  BY <1>1, <1>2 DEF Below
<1>4. ASSUME NEW i \in 1..Len(p)
      PROVE  b[i] = p[i]
  <2>1. CASE i <= Len(src)
    BY <1>2, <1>3, <2>1
  <2>2. CASE i > Len(src)
    <3>1. i - Len(src) \in 1..(Len(p) - Len(src)) /\ (i - Len(src)) + Len(src) = i
      BY <1>3, <2>2
    <3>2. Len(p) - Len(src) = Len(r) - Len(dst)
      BY <1>1, <1>3
    <3> QED BY <1>1, <1>2, <3>1, <3>2
  <2> QED BY <1>3, <2>1, <2>2
<1> QED BY <1>2, <1>3, <1>4 DEF b, r

LEMMA RebaseBelow ==
  ASSUME NEW src \in Seq(Names), NEW dst \in Seq(Names),
         NEW p \in Seq(Names), p = src \/ Below(src, p),
         NEW q \in Seq(Names), q = src \/ Below(src, q),
         Below(Rebase(src, dst, p), Rebase(src, dst, q))
  PROVE  Below(p, q)
<1> DEFINE a == Rebase(src, dst, p)
           b == Rebase(src, dst, q)
<1>1. /\ Len(a) = Len(dst) + Len(p) - Len(src) /\ Len(b) = Len(dst) + Len(q) - Len(src)
      /\ \A i \in 1..(Len(p) - Len(src)) : a[i + Len(dst)] = p[i + Len(src)]
      /\ \A i \in 1..(Len(q) - Len(src)) : b[i + Len(dst)] = q[i + Len(src)]
  BY RebaseSays
<1>2. Len(a) < Len(b) /\ \A i \in 1..Len(a) : b[i] = a[i]
  BY DEF Below
<1> HIDE DEF a, b
<1>3. /\ Len(src) \in 0..Len(p) /\ Len(src) \in 0..Len(q) /\ Len(dst) \in Nat
      /\ \A i \in 1..Len(src) : p[i] = src[i] /\ q[i] = src[i]
  BY DEF Below
<1>4. Len(p) < Len(q) /\ Len(p) \in Nat
  BY <1>1, <1>2, <1>3
<1>5. ASSUME NEW i \in 1..Len(p)
      PROVE  q[i] = p[i]
  <2>1. CASE i <= Len(src)
    BY <1>3, <2>1
  <2>2. CASE i > Len(src)
    <3> DEFINE j == i - Len(src)
    <3>1. /\ j \in 1..(Len(p) - Len(src)) /\ j \in 1..(Len(q) - Len(src)) /\ j + Len(src) = i
          /\ j + Len(dst) \in 1..Len(a)
      BY <1>1, <1>3, <1>4, <2>2
    <3> HIDE DEF j
    <3>2. a[j + Len(dst)] = p[i] /\ b[j + Len(dst)] = q[i]
      BY <1>1, <3>1
    <3> QED BY <1>2, <3>1, <3>2
  <2> QED BY <1>3, <2>1, <2>2
<1> QED BY <1>4, <1>5 DEF Below

(* A row that an operation does not take away is still there, if under another
   path. *)
Spares(P) == \A p \in DOMAIN tree \ P : \E q \in DOMAIN tree' : tree'[q] = tree[p]

LEMMA MoveSound ==
  ASSUME SoundTree, NEW src \in Seq(Names), NEW dst \in Seq(Names) \ {<<>>},
         NEW overwrite, Move(src, dst, overwrite)
  PROVE  SoundTree' /\ Spares(TreeAt(dst))
<1> DEFINE moved == TreeAt(src) \ TreeAt(dst)
           kept == DOMAIN tree \ (TreeAt(src) \cup TreeAt(dst))
           new == {Rebase(src, dst, p) : p \in moved}
<1>1. /\ Reachable(dst)
      /\ tree' = [q \in kept \cup new |-> IF q \in kept THEN tree[q] ELSE tree[Rebase(dst, src, q)]]
  BY DEF Move, CanMove
<1>2. /\ src \in Seq(Names) /\ dst \in Seq(Names) /\ dst # <<>>
  OBVIOUS
<1>3. ASSUME NEW p \in moved
      PROVE  p \in DOMAIN tree /\ p \in Seq(Names) /\ (p = src \/ Below(src, p))
  BY DEF TreeAt, SoundTree
<1>4. ASSUME NEW p \in moved
      PROVE  LET r == Rebase(src, dst, p) IN
             /\ r \in Seq(Names) \ {<<>>} /\ (r = dst \/ Below(dst, r))
             /\ Rebase(dst, src, r) = p /\ r \notin kept
  <2> DEFINE r == Rebase(src, dst, p)
  <2>1. /\ r \in Seq(Names) /\ (r = dst \/ Below(dst, r)) /\ Rebase(dst, src, r) = p
    BY <1>2, <1>3, RebaseSays, RebaseBack
  <2> HIDE DEF r
  <2>2. r # <<>>
    BY <1>2, <2>1 DEF Below
  <2>3. r \notin kept
    BY <2>1 DEF TreeAt
  <2> QED BY <2>1, <2>2, <2>3 DEF r
<1>5. /\ DOMAIN tree' = kept \cup new
      /\ \A q \in kept : q \in DOMAIN tree /\ tree'[q] = tree[q]
      /\ \A p \in moved : tree'[Rebase(src, dst, p)] = tree[p]
  <2>1. ASSUME NEW p \in moved
        PROVE  tree'[Rebase(src, dst, p)] = tree[p]
    <3> DEFINE r == Rebase(src, dst, p)
    <3>1. r \in new /\ r \notin kept /\ Rebase(dst, src, r) = p
      BY <1>4
    <3> HIDE DEF r, kept, new, moved
    <3> QED BY <1>1, <3>1 DEF r
  <2>2. DOMAIN tree' = kept \cup new /\ \A q \in kept : tree'[q] = tree[q]
    BY <1>1
  <2> QED BY <2>1, <2>2
<1> HIDE DEF moved, kept
<1>6. ASSUME NEW q \in DOMAIN tree', NEW r \in DOMAIN tree', tree'[q].type = "file"
      PROVE  ~Below(q, r)
  <2>1. CASE q \in kept /\ r \in kept
    BY <1>5, <1>6, <2>1 DEF SoundTree, IsFile
  <2>2. CASE q \in kept /\ r \in new
    <3>1. r \in Seq(Names) /\ (r = dst \/ Below(dst, r))
      BY <1>4, <2>2
    <3>2. q \in Seq(Names) /\ q # <<>> /\ tree[q].type = "file" /\ q \in DOMAIN tree
      BY <1>5, <1>6, <2>2 DEF SoundTree
    <3>3. ~Below(q, dst)
      BY <1>1, <1>2, <3>2, AboveSays DEF Reachable, IsFile
    <3>4. q # dst /\ ~Below(dst, q)
      BY <2>2, <3>2 DEF kept, TreeAt
    <3> QED BY <1>2, <3>1, <3>2, <3>3, <3>4, BelowSays
  <2>3. CASE q \in new /\ r \in kept
    <3>1. q \in Seq(Names) /\ (q = dst \/ Below(dst, q))
      BY <1>4, <2>3
    <3>2. r \in Seq(Names) /\ r \in DOMAIN tree /\ ~Below(dst, r)
      BY <1>5, <2>3 DEF SoundTree, kept, TreeAt
    <3> QED BY <1>2, <3>1, <3>2, BelowSays
  <2>4. CASE q \in new /\ r \in new
    <3>1. PICK a \in moved, b \in moved : q = Rebase(src, dst, a) /\ r = Rebase(src, dst, b)
      BY <2>4
    <3>2. /\ a \in DOMAIN tree /\ a \in Seq(Names) /\ (a = src \/ Below(src, a))
          /\ b \in DOMAIN tree /\ b \in Seq(Names) /\ (b = src \/ Below(src, b))
          /\ tree[a].type = "file"
      BY <1>3, <1>5, <1>6, <3>1
    <3>3. ~Below(a, b)
      BY <3>2 DEF SoundTree, IsFile
    <3> QED BY <1>2, <3>1, <3>2, <3>3, RebaseBelow
  <2> QED BY <1>5, <2>1, <2>2, <2>3, <2>4
<1>7. DOMAIN tree' \subseteq Seq(Names) \ {<<>>}
  BY <1>4, <1>5 DEF SoundTree
<1>8. ASSUME NEW q \in DOMAIN tree'
      PROVE  tree'[q].type \in {"file", "directory"}
  <2>1. CASE q \in kept
    BY <1>5, <2>1 DEF SoundTree
  <2>2. CASE q \in new
    BY <1>3, <1>5, <2>2 DEF SoundTree
  <2> QED BY <1>5, <2>1, <2>2
<1>9. Spares(TreeAt(dst))
  <2>1. \A p \in DOMAIN tree \ TreeAt(dst) : p \in kept \/ p \in moved
    BY DEF kept, moved
  <2>2. \A p \in moved : Rebase(src, dst, p) \in DOMAIN tree'
    BY <1>5
  <2> QED BY <1>5, <2>1, <2>2 DEF Spares
<1> QED BY <1>6, <1>7, <1>8, <1>9 DEF SoundTree, IsFile

-----------------------------------------------------------------------------
(* Listings: what a listing knows *)

AtPath == {"info", "self", "check", "recheck", "names"}
AtChild == {"child", "node", "load"}
AtChildren == AtChild \cup {"children"}

ListingShape ==
  /\ listing = [phase |-> listing.phase, query |-> listing.query, call |-> listing.call,
                item |-> listing.item, left |-> listing.left, found |-> listing.found,
                node |-> listing.node, outcome |-> listing.outcome]
  /\ listing.phase \in AtPath \cup AtChildren \cup {"done"}
  /\ listing.query \in {"row", "below"}
  /\ listing.call.path \in Seq(Names)
  /\ listing.phase = "self" => ~Called("ls")

(* The history has what is now at every path that it has, or that something is at. *)
Recorded == {i.path : i \in was}
HistoryInv == \A p \in Places \cup Recorded : [path |-> p, type |-> KindOf(p)] \in was

IsChild(q) ==
  /\ q \in Seq(Names)
  /\ Below(listing.call.path, q) /\ Len(q) = Len(listing.call.path) + 1

(* The children that are still to be reported.  Something is there, unless it
   has been disturbed. *)
Current == listing.left \cup (IF listing.phase \in AtChild THEN {listing.item} ELSE {})
ChildrenInv == \A q \in Current : IsChild(q) /\ q \in Recorded /\ (Stable(q) => Present(q))

(* Between the two queries of a lookup, and in the second look of a tolerant
   listing. *)
LookInv ==
  listing.phase = "child" /\ listing.query = "below" =>
    /\ \E type \in {"none", "directory"} : [path |-> listing.item, type |-> type] \in was
    /\ Stable(listing.item) => listing.item \notin DOMAIN tree

TolerantInv ==
  listing.phase \in {"node", "load"} =>
    /\ Called("ls") /\ listing.call.tolerant
    /\ [path |-> listing.item, type |-> "file"] \in was
    /\ Stable(listing.item) =>
         IsFile(listing.item) /\ (listing.phase = "load" => tree[listing.item] = listing.node)

(* Of the children that nobody disturbs, those are reported that are not still
   to be looked up, each once and as what it is. *)
ItemsOf(q) == {i \in listing.found : i.path = q}

ReportsInv ==
  /\ listing.phase \in AtPath => \A i \in listing.found : i.path = listing.call.path
  /\ listing.phase \in AtChildren => \A q \in StableChildren :
       /\ ~(q \in listing.left /\ listing.phase \in AtChild /\ listing.item = q)
       /\ ItemsOf(q) = IF q \in Current THEN {} ELSE {[path |-> q, type |-> KindOf(q)]}

ListingInv ==
  /\ SoundTree
  /\ listing # NoListing =>
       /\ ListingShape
       /\ HistoryInv
       /\ Listing => ChildrenInv /\ LookInv /\ TolerantInv /\ ReportsInv
       /\ ListingsAreTrue

-----------------------------------------------------------------------------
(* One query *)

LEMMA LookSays ==
  ASSUME SoundTree, NEW p \in Seq(Names), LookedUp = p,
         listing.query \in {"row", "below"}, listing.query = "row" => p \in DOMAIN tree
  PROVE  /\ Info \in {"file", "directory", "none"}
         /\ Info # "none" => p \in Places /\ Info = KindOf(p)
         /\ Info = "none" => listing.query = "below" /\ \A q \in DOMAIN tree : ~Below(p, q)
<1>1. CASE listing.query = "row"
  <2>1. Info = tree[p].type /\ p \in DOMAIN tree /\ tree[p].type \in {"file", "directory"}
    BY <1>1 DEF Info, SoundTree
  <2>2. Present(p) /\ p \in Places
    BY <2>1 DEF Present, TreeAt, Places
  <2> QED BY <2>1, <2>2 DEF KindOf, IsFile
<1>2. CASE listing.query = "below"
  <2>1. Info = IF \E q \in DOMAIN tree : Below(p, q) THEN "directory" ELSE "none"
    BY <1>2 DEF Info
  <2>2. ASSUME NEW q \in DOMAIN tree, Below(p, q)
        PROVE  p \in Places /\ KindOf(p) = "directory"
    <3>1. ~IsFile(p) /\ Present(p)
      BY <2>2 DEF SoundTree, IsFile, Present, TreeAt
    <3>2. p = <<>> \/ p \in Ancestors(q)
      BY <2>2, AboveSays DEF SoundTree
    <3> QED BY <3>1, <3>2 DEF KindOf, Places
  <2> QED BY <1>2, <2>1, <2>2
<1> QED BY <1>1, <1>2

(* A child that is there has an entry at or below it. *)
LEMMA PlacesSay ==
  ASSUME SoundTree, NEW q \in Places, q # <<>>
  PROVE  q \in Seq(Names) /\ Present(q) /\ \E r \in DOMAIN tree : r = q \/ Below(q, r)
<1>1. \E r \in DOMAIN tree : r = q \/ q \in Ancestors(r)
  BY DEF Places
<1>2. PICK r \in DOMAIN tree : r = q \/ q \in Ancestors(r)
  BY <1>1
<1>3. r \in Seq(Names)
  BY DEF SoundTree
<1>4. q \in Ancestors(r) => q \in Seq(Names)
  BY <1>3, UptoSays DEF Ancestors
<1>5. q \in Seq(Names) /\ (r = q \/ Below(q, r))
  BY <1>2, <1>3, <1>4, AboveSays
<1> QED BY <1>5 DEF Present, TreeAt

LEMMA PresentPlace ==
  ASSUME SoundTree, NEW q \in Seq(Names), q # <<>>, Present(q)
  PROVE  q \in Places
<1>1. PICK r \in DOMAIN tree : r = q \/ Below(q, r)
  BY DEF Present, TreeAt
<1>2. r = q \/ q \in Ancestors(r)
  BY <1>1, AboveSays DEF SoundTree
<1> QED BY <1>1, <1>2 DEF Places

(* A directory with a child is one for every query. *)
LEMMA ParentSays ==
  ASSUME SoundTree, ListingShape, StableChildren # {}, LookedUp = listing.call.path,
         listing.query = "row" => LookedUp \in DOMAIN tree
  PROVE  Info = "directory"
<1> DEFINE p == listing.call.path
<1>1. p \in Seq(Names) /\ listing.query \in {"row", "below"}
  BY DEF ListingShape
<1>2. PICK q \in Places : Below(p, q)
  BY DEF StableChildren
<1>3. q # <<>>
  BY <1>1, <1>2 DEF Below
<1>4. PICK r \in DOMAIN tree : r = q \/ Below(q, r)
  BY <1>2, <1>3, PlacesSay
<1>5. q \in Seq(Names) /\ r \in Seq(Names)
  BY <1>2, <1>3, PlacesSay DEF SoundTree
<1>6. Below(p, r)
  BY <1>1, <1>2, <1>4, <1>5, BelowSays
<1>7. ~IsFile(p)
  BY <1>4, <1>6 DEF SoundTree, IsFile
<1>8. Info \in {"file", "directory", "none"} /\ (Info # "none" => Info = KindOf(p)) /\ Info # "none"
  BY <1>1, <1>4, <1>6, LookSays
<1> QED BY <1>7, <1>8 DEF KindOf

(* What a lookup of a child finds. *)
LEMMA ChildSays ==
  ASSUME SoundTree, ListingShape, HistoryInv, ChildrenInv, LookInv, Informed("child")
  PROVE  LET q == listing.item IN
         /\ q \in Seq(Names) /\ q # <<>> /\ IsChild(q)
         /\ Info \in {"file", "directory", "none"}
         /\ Info # "none" => [path |-> q, type |-> Info] \in was /\ Info = KindOf(q)
         /\ Info = "none" =>
              /\ ~Stable(q)
              /\ \E type \in {"none", "directory"} : [path |-> q, type |-> type] \in was
<1> DEFINE q == listing.item
<1>1. listing.phase = "child" /\ (listing.query = "row" => q \in DOMAIN tree) /\ LookedUp = q
  BY DEF Informed, LookedUp
<1>2. IsChild(q) /\ (Stable(q) => Present(q))
  BY <1>1 DEF ChildrenInv, Current, AtChild
<1>3. q \in Seq(Names) /\ q # <<>>
  BY <1>2 DEF IsChild, ListingShape
<1>4. /\ Info \in {"file", "directory", "none"}
      /\ Info # "none" => q \in Places /\ Info = KindOf(q)
      /\ Info = "none" => listing.query = "below" /\ \A r \in DOMAIN tree : ~Below(q, r)
  BY <1>1, <1>3, LookSays DEF ListingShape
<1>5. Info # "none" => [path |-> q, type |-> Info] \in was
  BY <1>4 DEF HistoryInv
<1>6. ASSUME Info = "none"
      PROVE  /\ ~Stable(q)
             /\ \E type \in {"none", "directory"} : [path |-> q, type |-> type] \in was
  BY <1>1, <1>2, <1>4, <1>6 DEF LookInv, Present, TreeAt
<1> QED BY <1>2, <1>3, <1>4, <1>5, <1>6

-----------------------------------------------------------------------------
(* What others do to a listing *)

LEMMA PlacesLater ==
  (SoundTree => \A q \in Places \ {<<>>} : q \in Seq(Names) /\ Present(q))'
<1>1. SoundTree => \A q \in Places \ {<<>>} : q \in Seq(Names) /\ Present(q)
  BY PlacesSay
<1> QED BY <1>1, PTL

LEMMA StableKept ==
  ASSUME disturbed' = disturbed \cup Changed, NEW p, Stable(p)'
  PROVE  /\ Stable(p) /\ KindOf(p)' = KindOf(p)
         /\ Present(p)' <=> Present(p)
         /\ IsFile(p)' <=> IsFile(p)
         /\ p \in DOMAIN tree' <=> p \in DOMAIN tree
         /\ p \in DOMAIN tree => tree'[p] = tree[p]
<1>1. Stable(p) /\ \A q \in Changed : q # p /\ ~Below(p, q)
  BY DEF Stable
<1>2. ASSUME NEW q, q = p \/ Below(p, q)
      PROVE  /\ q \in DOMAIN tree' <=> q \in DOMAIN tree
             /\ q \in DOMAIN tree => tree'[q] = tree[q]
  BY <1>1, <1>2 DEF Changed, Differs
<1>3. TreeAt(p)' = TreeAt(p)
  BY <1>2 DEF TreeAt
<1>4. Present(p)' <=> Present(p)
  BY <1>3 DEF Present
<1>5. IsFile(p)' <=> IsFile(p)
  BY <1>2 DEF IsFile
<1>6. KindOf(p)' = KindOf(p)
  BY <1>4, <1>5 DEF KindOf
<1> QED BY <1>1, <1>2, <1>4, <1>5, <1>6

LEMMA OtherSound ==
  ASSUME SoundTree, OtherChange
  PROVE  SoundTree'
<1>1. PICK p \in ChangedPaths :
        \/ \E data \in ChangedData : Overwrite(p, data)
        \/ Delete(p, TRUE)
        \/ \E base \in 0..(Len(p) - 1) : CreateDirectory(p, base)
        \/ \E q \in ChangedPaths : Move(p, q, TRUE)
  BY DEF OtherChange
<1> QED BY <1>1, ChangedPathsSay, OverwriteSound, DeleteSound, CreateDirectorySound, MoveSound

LEMMA OtherHistory ==
  ASSUME HistoryInv, OtherChange
  PROVE  HistoryInv' /\ was \subseteq was' /\ Recorded \subseteq Recorded'
<1>1. was' = was \cup {[path |-> p, type |-> KindOf(p)'] : p \in Recorded \cup Places'}
  BY DEF OtherChange, Recorded
<1>2. was \subseteq was' /\ Recorded \subseteq Recorded'
  BY <1>1 DEF Recorded
<1>3. Recorded' \subseteq Recorded \cup Places'
  <2>1. Recorded' = {i.path : i \in was'}
    BY DEF Recorded
  <2>2. \A i \in was' : i.path \in Recorded \cup Places'
    BY <1>1 DEF Recorded
  <2> QED BY <2>1, <2>2
<1>4. \A p \in Places' \cup Recorded' : [path |-> p, type |-> KindOf(p)'] \in was'
  BY <1>1, <1>3
<1> QED BY <1>2, <1>4 DEF HistoryInv

LEMMA OtherChildren ==
  ASSUME SoundTree, SoundTree', ListingShape, OtherChange
  PROVE  StableChildren' \subseteq StableChildren
<1>1. ASSUME NEW q \in StableChildren'
      PROVE  q \in StableChildren
  <2>1. /\ q \in Places' /\ Stable(q)' /\ listing' = listing
        /\ Below(listing.call.path, q) /\ Len(q) = Len(listing.call.path) + 1
    BY DEF StableChildren, OtherChange
  <2>2. q # <<>>
    BY <2>1 DEF Below, ListingShape
  <2>3. q \in Seq(Names) /\ Present(q)'
    BY <2>1, <2>2, PlacesLater
  <2>4. Stable(q) /\ Present(q)
    BY <2>1, <2>3, StableKept DEF OtherChange
  <2>5. q \in Places
    BY <2>2, <2>3, <2>4, PresentPlace
  <2> QED BY <2>1, <2>4, <2>5 DEF StableChildren
<1> QED BY <1>1

LEMMA OtherKeeps ==
  ASSUME ListingInv, OtherChange
  PROVE  ListingInv'
<1>1. listing # NoListing /\ Listing /\ listing' = listing /\ listing.phase # "done"
  BY DEF OtherChange, Listing, NoListing
<1>2. /\ SoundTree /\ ListingShape /\ HistoryInv /\ ChildrenInv /\ LookInv /\ TolerantInv
      /\ ReportsInv /\ ListedWereThere
  BY <1>1 DEF ListingInv, ListingsAreTrue
<1>3. SoundTree'
  BY <1>2, OtherSound
<1>4. HistoryInv' /\ was \subseteq was' /\ Recorded \subseteq Recorded'
  BY <1>2, OtherHistory
<1>5. StableChildren' \subseteq StableChildren
  BY <1>2, <1>3, OtherChildren
<1>6. \A p : Stable(p)' =>
        /\ Stable(p) /\ KindOf(p)' = KindOf(p)
        /\ Present(p)' <=> Present(p)
        /\ IsFile(p)' <=> IsFile(p)
        /\ p \in DOMAIN tree' <=> p \in DOMAIN tree
        /\ p \in DOMAIN tree => tree'[p] = tree[p]
  BY StableKept DEF OtherChange
<1>7. ListingShape' /\ Listing'
  BY <1>1, <1>2 DEF ListingShape, Listing, Called
<1>8. ChildrenInv'
  BY <1>1, <1>2, <1>4, <1>6 DEF ChildrenInv, Current, IsChild
<1>9. LookInv'
  BY <1>1, <1>2, <1>4, <1>6 DEF LookInv
<1>10. TolerantInv'
  <2>1. listing.phase = "load" /\ Stable(listing.item)' => tree'[listing.item] = listing.node
    BY <1>1, <1>2, <1>6 DEF TolerantInv, IsFile
  <2> QED BY <1>1, <1>2, <1>4, <1>6, <2>1 DEF TolerantInv, Called
<1>11. ReportsInv'
  <2>1. \A q \in StableChildren' : KindOf(q)' = KindOf(q)
    BY <1>6 DEF StableChildren
  <2> QED BY <1>1, <1>2, <1>5, <2>1 DEF ReportsInv, ItemsOf, Current
<1>12. ListedWereThere'
  BY <1>1, <1>2, <1>4, <1>6 DEF ListedWereThere, Listing, Called
<1>13. StableChildrenListed'
  BY <1>1 DEF StableChildrenListed
<1> QED BY <1>3, <1>4, <1>7, <1>8, <1>9, <1>10, <1>11, <1>12, <1>13
         DEF ListingInv, ListingsAreTrue

-----------------------------------------------------------------------------
(* The steps of a listing *)

(* A query changes nothing but the listing. *)
Asked ==
  /\ listing # NoListing /\ Listing /\ UNCHANGED <<fsVars, changes, was, disturbed>>
  /\ ListingShape' /\ listing'.call = listing.call

LEMMA AskedKnows ==
  ASSUME ListingInv, Listing
  PROVE  /\ SoundTree /\ ListingShape /\ HistoryInv /\ ChildrenInv /\ LookInv /\ TolerantInv
         /\ ReportsInv /\ ListedWereThere /\ listing # NoListing /\ listing.phase # "done"
BY DEF ListingInv, ListingsAreTrue, Listing, NoListing

LEMMA AskedFrame ==
  ASSUME Asked
  PROVE  /\ tree' = tree /\ was' = was /\ Places' = Places /\ Recorded' = Recorded
         /\ StableChildren' = StableChildren
         /\ ListsChildren' <=> ListsChildren
         /\ \A p : /\ Stable(p)' <=> Stable(p)
                   /\ IsChild(p)' <=> IsChild(p)
                   /\ KindOf(p)' = KindOf(p)
                   /\ Present(p)' <=> Present(p)
                   /\ IsFile(p)' <=> IsFile(p)
<1>1. tree' = tree /\ was' = was /\ disturbed' = disturbed /\ listing'.call = listing.call
  BY DEF Asked, fsVars
<1>2. Places' = Places /\ Recorded' = Recorded
  BY <1>1 DEF Places, Recorded
<1>3. \A p : /\ Stable(p)' <=> Stable(p)
             /\ IsChild(p)' <=> IsChild(p)
             /\ Present(p)' <=> Present(p)
             /\ IsFile(p)' <=> IsFile(p)
  BY <1>1 DEF Stable, IsChild, Present, TreeAt, IsFile
<1>4. \A p : KindOf(p)' = KindOf(p)
  BY <1>3 DEF KindOf
<1>5. StableChildren' = StableChildren
  BY <1>1, <1>2, <1>3 DEF StableChildren
<1>6. ListsChildren' <=> ListsChildren
  BY <1>1 DEF ListsChildren, Called
<1> QED BY <1>1, <1>2, <1>3, <1>4, <1>5, <1>6

(* What a query must see to. *)
LEMMA AskedKeeps ==
  ASSUME ListingInv, Asked, ChildrenInv', LookInv', TolerantInv', ReportsInv', ListedWereThere',
         listing'.phase # "done"
  PROVE  ListingInv'
<1>1. SoundTree /\ HistoryInv
  BY AskedKnows DEF Asked
<1>2. SoundTree'
  BY <1>1, AskedFrame DEF SoundTree
<1>3. HistoryInv'
  BY <1>1, AskedFrame DEF HistoryInv
<1>4. StableChildrenListed'
  BY DEF StableChildrenListed
<1> QED BY <1>2, <1>3, <1>4 DEF ListingInv, ListingsAreTrue, Asked

LEMMA EndKeeps ==
  ASSUME ListingInv, Asked, StableChildrenListed', ListedWereThere', listing'.phase = "done"
  PROVE  ListingInv'
<1>1. SoundTree /\ HistoryInv
  BY AskedKnows DEF Asked
<1>2. SoundTree'
  BY <1>1, AskedFrame DEF SoundTree
<1>3. HistoryInv'
  BY <1>1, AskedFrame DEF HistoryInv
<1>4. ~Listing'
  BY DEF Listing
<1> QED BY <1>2, <1>3, <1>4 DEF ListingInv, ListingsAreTrue, Asked

(* With the same items, nothing is listed that was never there. *)
LEMMA SameItems ==
  ASSUME ListedWereThere, Asked, listing'.found = listing.found
  PROVE  ListedWereThere'
<1>1. listing'.call = listing.call /\ was' = was /\ Listing
  BY AskedFrame DEF Asked
<1>2. \A i \in listing.found : Stable(i.path)' <=> Stable(i.path)
  BY AskedFrame
<1> QED BY <1>1, <1>2 DEF ListedWereThere, Called

(* Where the path is being looked at still, or where the children are. *)
LEMMA AtPathKeeps ==
  ASSUME ListingInv, Asked, listing'.phase \in AtPath, listing.phase \in AtPath,
         listing'.left = listing.left,
         \A i \in listing'.found : i.path = listing.call.path, ListedWereThere'
  PROVE  ListingInv'
<1>1. listing'.phase \notin AtChildren \cup {"done", "node", "load", "child"}
  BY DEF AtPath, AtChildren, AtChild
<1>2. listing.phase \notin AtChild /\ listing'.phase \notin AtChild
  BY DEF AtPath, AtChild
<1>3. ChildrenInv'
  <2>1. ChildrenInv
    BY AskedKnows DEF Asked
  <2>2. Current' = Current
    BY <1>2 DEF Current
  <2> QED BY <2>1, <2>2, AskedFrame DEF ChildrenInv
<1>4. LookInv' /\ TolerantInv'
  BY <1>1 DEF LookInv, TolerantInv
<1>5. ReportsInv'
  BY <1>1 DEF ReportsInv, Asked
<1> QED BY <1>1, <1>3, <1>4, <1>5, AskedKeeps

(* An end at the path: it has no child that nobody disturbs. *)
LEMMA PathEnds ==
  ASSUME ListingInv, Asked, listing'.phase = "done", ListedWereThere',
         LookedUp = listing.call.path, listing.query = "row" => LookedUp \in DOMAIN tree,
         Info # "directory"
  PROVE  ListingInv'
<1>1. StableChildren = {}
  BY AskedKnows, ParentSays DEF Asked
<1>2. StableChildrenListed'
  BY <1>1, AskedFrame DEF StableChildrenListed
<1> QED BY <1>2, EndKeeps

-----------------------------------------------------------------------------
(* What the steps make of the listing *)

Quiet == UNCHANGED <<fsVars, changes, was, disturbed>>

LEMMA EndsSays ==
  ASSUME ListingInv, Listing, Quiet, NEW outcome, Ends(outcome)
  PROVE  /\ Asked /\ listing'.phase = "done" /\ listing'.outcome = outcome
         /\ listing'.found = listing.found
<1>1. ListingShape /\ listing # NoListing
  BY AskedKnows
<1>2. listing' = [listing EXCEPT !.phase = "done", !.outcome = outcome]
  BY DEF Ends
<1>3. /\ listing'.phase = "done" /\ listing'.outcome = outcome /\ listing'.query = listing.query
      /\ listing'.call = listing.call /\ listing'.item = listing.item
      /\ listing'.left = listing.left /\ listing'.found = listing.found
      /\ listing'.node = listing.node
      /\ listing' = [phase |-> listing'.phase, query |-> listing'.query, call |-> listing'.call,
                     item |-> listing'.item, left |-> listing'.left, found |-> listing'.found,
                     node |-> listing'.node, outcome |-> listing'.outcome]
  BY <1>1, <1>2 DEF ListingShape
<1>4. ListingShape'
  BY <1>1, <1>3 DEF ListingShape
<1> QED BY <1>1, <1>3, <1>4 DEF Asked, Quiet

LEMMA ThenSays ==
  ASSUME ListingInv, Listing, Quiet, NEW phase \in AtPath \cup AtChildren, listing' = Then(phase),
         phase = "self" => ~Called("ls")
  PROVE  /\ Asked /\ listing'.phase = phase /\ listing'.query = "row"
         /\ listing'.item = listing.item /\ listing'.left = listing.left
         /\ listing'.found = listing.found /\ listing'.node = listing.node
<1>1. ListingShape /\ listing # NoListing
  BY AskedKnows
<1>2. listing' = [listing EXCEPT !.phase = phase, !.query = "row"]
  BY DEF Then
<1>3. /\ listing'.phase = phase /\ listing'.query = "row" /\ listing'.outcome = listing.outcome
      /\ listing'.call = listing.call /\ listing'.item = listing.item
      /\ listing'.left = listing.left /\ listing'.found = listing.found
      /\ listing'.node = listing.node
      /\ listing' = [phase |-> listing'.phase, query |-> listing'.query, call |-> listing'.call,
                     item |-> listing'.item, left |-> listing'.left, found |-> listing'.found,
                     node |-> listing'.node, outcome |-> listing'.outcome]
  BY <1>1, <1>2 DEF ListingShape
<1>4. ListingShape'
  BY <1>1, <1>3 DEF ListingShape, Called
<1> QED BY <1>1, <1>3, <1>4 DEF Asked, Quiet

LEMMA ReportSays ==
  ASSUME ListingInv, Listing, Quiet, NEW type, ReportChild(type)
  PROVE  /\ Asked /\ listing'.phase = "children" /\ listing'.query = "row"
         /\ listing'.left = listing.left
         /\ listing'.found = listing.found \cup {[path |-> listing.item, type |-> type]}
<1>1. ListingShape /\ listing # NoListing
  BY AskedKnows
<1> DEFINE f == Reported(listing.item, type)
<1>2. listing' = [[listing EXCEPT !.phase = "children", !.query = "row"] EXCEPT !.found = f]
  BY DEF ReportChild, Then
<1> HIDE DEF f
<1>3. /\ listing'.phase = "children" /\ listing'.query = "row"
      /\ listing'.outcome = listing.outcome
      /\ listing'.call = listing.call /\ listing'.item = listing.item
      /\ listing'.left = listing.left /\ listing'.found = f
      /\ listing'.node = listing.node
      /\ listing' = [phase |-> listing'.phase, query |-> listing'.query, call |-> listing'.call,
                     item |-> listing'.item, left |-> listing'.left, found |-> listing'.found,
                     node |-> listing'.node, outcome |-> listing'.outcome]
  BY <1>1, <1>2 DEF ListingShape
<1>4. ListingShape'
  BY <1>1, <1>3 DEF ListingShape, AtChildren
<1> QED BY <1>1, <1>3, <1>4 DEF Asked, Quiet, f, Reported

(* A child is reported as what it is, if nobody disturbs it, and as what it has
   been, unless the two ways of ls to list what has gone apply. *)
WasThere(p, type) ==
  \/ [path |-> p, type |-> type] \in was
  \/ /\ Called("ls") /\ [path |-> p, type |-> "none"] \in was
     /\ type = "directory" /\ ~listing.call.tolerant
  \/ Called("ls") /\ type = "corrupt" /\ ~Stable(p)

LEMMA NewItem ==
  ASSUME ListedWereThere, Asked, NEW p, NEW type, WasThere(p, type),
         listing'.found \subseteq listing.found \cup {[path |-> p, type |-> type]}
  PROVE  ListedWereThere'
<1>1. listing'.call = listing.call /\ was' = was /\ Listing
  BY AskedFrame DEF Asked
<1>2. \A r : Stable(r)' <=> Stable(r)
  BY AskedFrame
<1>3. \A i \in listing.found : WasThere(i.path, i.type)
  BY <1>1 DEF ListedWereThere, WasThere
<1>4. \A i \in listing'.found : WasThere(i.path, i.type)
  BY <1>3
<1>5. \A i \in listing'.found : WasThere(i.path, i.type)'
  BY <1>1, <1>2, <1>4 DEF WasThere, Called
<1> QED BY <1>5 DEF ListedWereThere, WasThere

LEMMA ReportKeeps ==
  ASSUME ListingInv, Listing, Quiet, listing.phase \in AtChild, NEW type, ReportChild(type),
         WasThere(listing.item, type), Stable(listing.item) => type = KindOf(listing.item)
  PROVE  ListingInv'
<1> DEFINE item == listing.item
<1>1. /\ Asked /\ listing'.phase = "children" /\ listing'.query = "row"
      /\ listing'.left = listing.left
      /\ listing'.found = listing.found \cup {[path |-> item, type |-> type]}
  BY ReportSays
<1>2. ChildrenInv /\ ReportsInv /\ ListedWereThere
  BY AskedKnows
<1>3. Current' = listing.left /\ Current = listing.left \cup {item}
  BY <1>1 DEF Current, AtChild
<1>4. ChildrenInv'
  BY <1>1, <1>2, <1>3, AskedFrame DEF ChildrenInv
<1>5. LookInv' /\ TolerantInv'
  BY <1>1 DEF LookInv, TolerantInv
<1>6. listing.phase \in AtChildren /\ listing'.phase \notin AtChild \cup AtPath
  BY <1>1 DEF AtChildren, AtChild, AtPath
<1>7. ASSUME NEW q \in StableChildren
      PROVE  ItemsOf(q)' = IF q \in Current' THEN {} ELSE {[path |-> q, type |-> KindOf(q)]}
  <2>1. /\ ~(q \in listing.left /\ item = q)
        /\ ItemsOf(q) = IF q \in Current THEN {} ELSE {[path |-> q, type |-> KindOf(q)]}
    BY <1>2, <1>6 DEF ReportsInv
  <2>2. ItemsOf(q)' = IF q = item THEN ItemsOf(q) \cup {[path |-> item, type |-> type]} ELSE ItemsOf(q)
    BY <1>1 DEF ItemsOf
  <2>3. q = item => type = KindOf(q)
    BY DEF StableChildren
  <2> QED BY <1>3, <2>1, <2>2, <2>3
<1>8. ReportsInv'
  BY <1>1, <1>6, <1>7, AskedFrame DEF ReportsInv
<1>9. ListedWereThere'
  BY <1>1, <1>2, NewItem
<1> QED BY <1>1, <1>4, <1>5, <1>8, <1>9, AskedKeeps

-----------------------------------------------------------------------------
(* The steps, one by one *)

LEMMA RowMissingKeeps ==
  ASSUME ListingInv, Listing, Quiet, RowMissing
  PROVE  ListingInv'
<1>1. /\ ListingShape /\ HistoryInv /\ ChildrenInv /\ TolerantInv /\ ReportsInv
      /\ ListedWereThere /\ listing # NoListing
  BY AskedKnows
<1>2. listing' = [listing EXCEPT !.query = "below"] /\ LookedUp \notin DOMAIN tree
  BY DEF RowMissing
<1>3. /\ listing'.query = "below" /\ listing'.phase = listing.phase
      /\ listing'.outcome = listing.outcome
      /\ listing'.call = listing.call /\ listing'.item = listing.item
      /\ listing'.left = listing.left /\ listing'.found = listing.found
      /\ listing'.node = listing.node
      /\ listing' = [phase |-> listing'.phase, query |-> listing'.query, call |-> listing'.call,
                     item |-> listing'.item, left |-> listing'.left, found |-> listing'.found,
                     node |-> listing'.node, outcome |-> listing'.outcome]
  BY <1>1, <1>2 DEF ListingShape
<1>4. Asked
  BY <1>1, <1>3 DEF Asked, Quiet, ListingShape, Called
<1>5. Current' = Current
  BY <1>3 DEF Current
<1>6. ChildrenInv'
  BY <1>1, <1>4, <1>5, AskedFrame DEF ChildrenInv
<1>7. LookInv'
  <2>1. SUFFICES ASSUME listing.phase = "child"
                 PROVE  LookInv'
    BY <1>3 DEF LookInv
  <2> DEFINE item == listing.item
  <2>2. item \in Recorded /\ item \notin DOMAIN tree
    BY <1>1, <1>2, <2>1 DEF ChildrenInv, Current, AtChild, LookedUp
  <2>3. [path |-> item, type |-> KindOf(item)] \in was /\ KindOf(item) \in {"none", "directory"}
    BY <1>1, <2>2 DEF HistoryInv, KindOf, IsFile
  <2> QED BY <1>3, <1>4, <2>2, <2>3, AskedFrame DEF LookInv
<1>8. TolerantInv'
  BY <1>1, <1>3, <1>4, AskedFrame DEF TolerantInv, Called
<1>9. ReportsInv'
  BY <1>1, <1>3, <1>4, <1>5, AskedFrame DEF ReportsInv, ItemsOf
<1>10. ListedWereThere' /\ listing'.phase # "done"
  BY <1>1, <1>3, <1>4, SameItems, AskedKnows
<1> QED BY <1>4, <1>6, <1>7, <1>8, <1>9, <1>10, AskedKeeps

LEMMA CheckKeeps ==
  ASSUME ListingInv, Listing, Quiet, Check
  PROVE  ListingInv'
<1>1. ListingShape /\ ReportsInv /\ ListedWereThere
  BY AskedKnows
<1>2. /\ listing.phase \in {"check", "recheck"} /\ LookedUp = listing.call.path
      /\ listing.query = "row" => LookedUp \in DOMAIN tree
  BY DEF Check, Informed, LookedUp
<1>3. CASE \E phase \in {"recheck", "names"} : listing' = Then(phase)
  <2>1. PICK phase \in {"recheck", "names"} : listing' = Then(phase)
    BY <1>3
  <2>2. /\ Asked /\ listing'.phase = phase /\ listing'.left = listing.left
        /\ listing'.found = listing.found
    BY <2>1, ThenSays DEF AtPath
  <2>3. ListedWereThere'
    BY <1>1, <2>2, SameItems
  <2>4. \A i \in listing'.found : i.path = listing.call.path
    BY <1>1, <1>2, <2>2 DEF ReportsInv, AtPath
  <2> QED BY <1>2, <2>2, <2>3, <2>4, AtPathKeeps DEF AtPath
<1>4. CASE Info # "directory" /\ \E outcome \in {"raised", "returned"} : Ends(outcome)
  <2>1. PICK outcome \in {"raised", "returned"} : Ends(outcome)
    BY <1>4
  <2>2. Asked /\ listing'.phase = "done" /\ listing'.found = listing.found
    BY <2>1, EndsSays
  <2>3. ListedWereThere'
    BY <1>1, <2>2, SameItems
  <2> QED BY <1>2, <1>4, <2>2, <2>3, PathEnds
<1> QED BY <1>3, <1>4 DEF Check

LEMMA ChildrenSay ==
  ASSUME SoundTree, NEW p \in Seq(Names)
  PROVE  /\ \A q \in Children(p) : /\ q \in Seq(Names) /\ Below(p, q) /\ Len(q) = Len(p) + 1
                                   /\ Present(q)
         /\ \A q \in Places : Below(p, q) /\ Len(q) = Len(p) + 1 => q \in Children(p)
<1>1. ASSUME NEW q \in Children(p)
      PROVE  q \in Seq(Names) /\ Below(p, q) /\ Len(q) = Len(p) + 1 /\ Present(q)
  <2>1. PICK r \in DOMAIN tree : Below(p, r) /\ q = Upto(r, Len(p) + 1)
    BY <1>1 DEF Children
  <2>2. r \in Seq(Names) /\ Len(p) + 1 \in 0..Len(r) /\ Len(p) \in Nat
    BY <2>1 DEF SoundTree, Below
  <2>3. /\ q \in Seq(Names) /\ Len(q) = Len(p) + 1
        /\ \A i \in 1..(Len(p) + 1) : q[i] = r[i]
        /\ q = r \/ Below(q, r)
    BY <2>1, <2>2, UptoSays
  <2>4. Below(p, q)
    BY <2>1, <2>2, <2>3 DEF Below
  <2> QED BY <2>3, <2>4 DEF Present, TreeAt
<1>2. ASSUME NEW q \in Places, Below(p, q), Len(q) = Len(p) + 1
      PROVE  q \in Children(p)
  <2>1. q # <<>>
    BY <1>2 DEF Below
  <2>2. PICK r \in DOMAIN tree : r = q \/ Below(q, r)
    BY <2>1, PlacesSay
  <2>3. q \in Seq(Names) /\ r \in Seq(Names)
    BY <2>1, PlacesSay DEF SoundTree
  <2>4. Below(p, r) /\ q = Upto(r, Len(p) + 1)
    BY <1>2, <2>2, <2>3, BelowSays, AboveSays
  <2> QED BY <2>4 DEF Children
<1> QED BY <1>1, <1>2

LEMMA ListNamesKeeps ==
  ASSUME ListingInv, Listing, Quiet, ListNames
  PROVE  ListingInv'
<1>1. /\ SoundTree /\ ListingShape /\ HistoryInv /\ ReportsInv /\ ListedWereThere
      /\ listing # NoListing /\ listing.phase = "names"
  BY AskedKnows DEF ListNames
<1> DEFINE path == listing.call.path
           names == Children(path)
<1>2. listing' = [[listing EXCEPT !.phase = "children", !.query = "row"] EXCEPT !.left = names]
  BY DEF ListNames, Then
<1> HIDE DEF names
<1>3. /\ listing'.phase = "children" /\ listing'.query = "row"
      /\ listing'.outcome = listing.outcome
      /\ listing'.call = listing.call /\ listing'.item = listing.item
      /\ listing'.left = names /\ listing'.found = listing.found
      /\ listing'.node = listing.node
      /\ listing' = [phase |-> listing'.phase, query |-> listing'.query, call |-> listing'.call,
                     item |-> listing'.item, left |-> listing'.left, found |-> listing'.found,
                     node |-> listing'.node, outcome |-> listing'.outcome]
  BY <1>1, <1>2 DEF ListingShape
<1>4. Asked
  BY <1>1, <1>3 DEF Asked, Quiet, ListingShape, Called, AtChildren
<1>5. Current' = names
  BY <1>3 DEF Current, AtChild
<1>6. path \in Seq(Names)
  BY <1>1 DEF ListingShape
<1>7. ASSUME NEW q \in names
      PROVE  IsChild(q) /\ q \in Recorded /\ Present(q)
  <2>1. q \in Seq(Names) /\ Below(path, q) /\ Len(q) = Len(path) + 1 /\ Present(q)
    BY <1>1, <1>6, ChildrenSay DEF names
  <2>2. q \in Places
    BY <1>1, <2>1, PresentPlace DEF Below
  <2>3. [path |-> q, type |-> KindOf(q)] \in was
    BY <1>1, <2>2 DEF HistoryInv
  <2> QED BY <2>1, <2>3 DEF IsChild, Recorded
<1>8. ChildrenInv'
  BY <1>4, <1>5, <1>7, AskedFrame DEF ChildrenInv
<1>9. LookInv' /\ TolerantInv'
  BY <1>3 DEF LookInv, TolerantInv
<1>10. ASSUME NEW q \in StableChildren
       PROVE  q \in names /\ ItemsOf(q)' = {}
  <2>1. q \in Places /\ Below(path, q) /\ Len(q) = Len(path) + 1
    BY DEF StableChildren
  <2>2. q \in names
    BY <1>1, <1>6, <2>1, ChildrenSay DEF names
  <2>3. q # path
    BY <1>6, <2>1
  <2>4. \A i \in listing.found : i.path = path
    BY <1>1 DEF ReportsInv, AtPath
  <2> QED BY <1>3, <2>2, <2>3, <2>4 DEF ItemsOf
<1>11. ReportsInv'
  BY <1>3, <1>4, <1>5, <1>10, AskedFrame DEF ReportsInv, AtPath, AtChild
<1>12. ListedWereThere' /\ listing'.phase # "done"
  BY <1>1, <1>3, <1>4, SameItems
<1> QED BY <1>4, <1>8, <1>9, <1>11, <1>12, AskedKeeps

LEMMA NextChildKeeps ==
  ASSUME ListingInv, Listing, Quiet, NextChild
  PROVE  ListingInv'
<1>1. /\ ListingShape /\ ChildrenInv /\ ReportsInv /\ ListedWereThere
      /\ listing # NoListing /\ listing.phase = "children"
  BY AskedKnows DEF NextChild
<1>2. Current = listing.left
  BY <1>1 DEF Current, AtChild
<1>3. CASE listing.left = {}
  <2>1. Ends("returned")
    BY <1>3 DEF NextChild
  <2>2. /\ Asked /\ listing'.phase = "done" /\ listing'.outcome = "returned"
        /\ listing'.found = listing.found
    BY <2>1, EndsSays
  <2>3. ListedWereThere'
    BY <1>1, <2>2, SameItems
  <2>4. \A q \in StableChildren : ItemsOf(q)' = {[path |-> q, type |-> KindOf(q)]}
    BY <1>1, <1>2, <1>3, <2>2 DEF ReportsInv, AtChildren, ItemsOf
  <2>5. StableChildrenListed'
    BY <2>2, <2>4, AskedFrame DEF StableChildrenListed, ItemsOf
  <2> QED BY <2>2, <2>3, <2>5, EndKeeps
<1>4. CASE listing.left # {}
  <2>1. PICK q \in listing.left : listing' = [Then("child") EXCEPT !.item = q, !.left = @ \ {q}]
    BY <1>4 DEF NextChild
  <2>2. listing' = [[listing EXCEPT !.phase = "child", !.query = "row"]
                      EXCEPT !.item = q, !.left = listing.left \ {q}]
    <3>1. [listing EXCEPT !.phase = "child", !.query = "row"].left = listing.left
      BY <1>1 DEF ListingShape
    <3> QED BY <2>1, <3>1 DEF Then
  <2>3. /\ listing'.phase = "child" /\ listing'.query = "row"
        /\ listing'.outcome = listing.outcome
        /\ listing'.call = listing.call /\ listing'.item = q
        /\ listing'.left = listing.left \ {q} /\ listing'.found = listing.found
        /\ listing'.node = listing.node
        /\ listing' = [phase |-> listing'.phase, query |-> listing'.query, call |-> listing'.call,
                       item |-> listing'.item, left |-> listing'.left, found |-> listing'.found,
                       node |-> listing'.node, outcome |-> listing'.outcome]
    BY <1>1, <2>2 DEF ListingShape
  <2>4. Asked
    BY <1>1, <2>3 DEF Asked, Quiet, ListingShape, Called, AtChildren, AtChild
  <2>5. Current' = Current
    BY <1>2, <2>3 DEF Current, AtChild
  <2>6. ChildrenInv'
    BY <1>1, <2>4, <2>5, AskedFrame DEF ChildrenInv
  <2>7. LookInv' /\ TolerantInv'
    BY <2>3 DEF LookInv, TolerantInv
  <2>8. \A r \in StableChildren : ItemsOf(r)' = ItemsOf(r)
    BY <2>3 DEF ItemsOf
  <2>9. ReportsInv'
    BY <1>1, <2>3, <2>4, <2>5, <2>8, AskedFrame DEF ReportsInv, AtPath, AtChildren
  <2>10. ListedWereThere' /\ listing'.phase # "done"
    BY <1>1, <2>3, <2>4, SameItems
  <2> QED BY <2>4, <2>6, <2>7, <2>9, <2>10, AskedKeeps
<1> QED BY <1>3, <1>4

LEMMA LsInfoKeeps ==
  ASSUME ListingInv, Listing, Quiet, LsInfo
  PROVE  ListingInv'
<1> DEFINE path == listing.call.path
<1>1. /\ SoundTree /\ ListingShape /\ HistoryInv /\ ReportsInv /\ ListedWereThere
      /\ listing # NoListing
  BY AskedKnows
<1>2. /\ listing.phase = "info" /\ LookedUp = path
      /\ listing.query = "row" => LookedUp \in DOMAIN tree
  BY DEF LsInfo, Informed, LookedUp
<1>3. CASE Info = "file"
  <2>1. listing' = [listing EXCEPT !.phase = "done", !.outcome = "returned",
                                   !.found = Reported(path, "file")]
    BY <1>3 DEF LsInfo
  <2> DEFINE f == Reported(path, "file")
  <2> HIDE DEF f
  <2>2. /\ listing'.phase = "done" /\ listing'.query = listing.query
        /\ listing'.outcome = "returned"
        /\ listing'.call = listing.call /\ listing'.item = listing.item
        /\ listing'.left = listing.left /\ listing'.found = f
        /\ listing'.node = listing.node
        /\ listing' = [phase |-> listing'.phase, query |-> listing'.query, call |-> listing'.call,
                       item |-> listing'.item, left |-> listing'.left, found |-> listing'.found,
                       node |-> listing'.node, outcome |-> listing'.outcome]
    BY <1>1, <2>1 DEF ListingShape, f
  <2>3. Asked
    BY <1>1, <2>2 DEF Asked, Quiet, ListingShape
  <2>4. path \in Places /\ KindOf(path) = "file"
    BY <1>1, <1>2, <1>3, LookSays DEF ListingShape
  <2>5. [path |-> path, type |-> "file"] \in was
    BY <1>1, <2>4 DEF HistoryInv
  <2>6. WasThere(path, "file")
    BY <2>5 DEF WasThere
  <2>7. listing'.found = listing.found \cup {[path |-> path, type |-> "file"]}
    BY <2>2 DEF f, Reported
  <2>8. ListedWereThere'
    BY <1>1, <2>3, <2>6, <2>7, NewItem
  <2> QED BY <1>2, <1>3, <2>2, <2>3, <2>8, PathEnds
<1>4. CASE Info # "file"
  <2>1. listing' = Then("check")
    BY <1>4 DEF LsInfo
  <2>2. /\ Asked /\ listing'.phase = "check" /\ listing'.left = listing.left
        /\ listing'.found = listing.found
    BY <2>1, ThenSays DEF AtPath
  <2>3. ListedWereThere'
    BY <1>1, <2>2, SameItems
  <2>4. \A i \in listing'.found : i.path = listing.call.path
    BY <1>1, <1>2, <2>2 DEF ReportsInv, AtPath
  <2> QED BY <1>2, <2>2, <2>3, <2>4, AtPathKeeps DEF AtPath
<1> QED BY <1>3, <1>4

LEMMA LsChildKeeps ==
  ASSUME ListingInv, Listing, Quiet, LsChild
  PROVE  ListingInv'
<1> DEFINE item == listing.item
<1>1. /\ SoundTree /\ ListingShape /\ HistoryInv /\ ChildrenInv /\ LookInv /\ ReportsInv
      /\ ListedWereThere /\ listing # NoListing
  BY AskedKnows
<1>2. listing.phase = "child" /\ Called("ls") /\ Informed("child")
  BY DEF LsChild, Informed
<1>3. /\ item \in Seq(Names) /\ IsChild(item)
      /\ Info \in {"file", "directory", "none"}
      /\ Info # "none" => [path |-> item, type |-> Info] \in was /\ Info = KindOf(item)
      /\ Info = "none" =>
           /\ ~Stable(item)
           /\ \E type \in {"none", "directory"} : [path |-> item, type |-> type] \in was
  BY <1>1, <1>2, ChildSays
<1>4. CASE Info = "file" /\ listing.call.tolerant
  <2>1. listing' = Then("node")
    BY <1>4 DEF LsChild
  <2>2. /\ Asked /\ listing'.phase = "node" /\ listing'.query = "row"
        /\ listing'.item = item /\ listing'.left = listing.left
        /\ listing'.found = listing.found
    BY <2>1, ThenSays DEF AtChildren, AtChild
  <2>3. Current' = Current
    BY <1>2, <2>2 DEF Current, AtChild
  <2>4. ChildrenInv'
    BY <1>1, <2>2, <2>3, AskedFrame DEF ChildrenInv
  <2>5. LookInv'
    BY <2>2 DEF LookInv
  <2>6. KindOf(item) = "file" /\ [path |-> item, type |-> "file"] \in was /\ IsFile(item)
    BY <1>3, <1>4 DEF KindOf
  <2>7. TolerantInv'
    BY <1>2, <1>4, <2>2, <2>6, AskedFrame DEF TolerantInv, Called, Asked
  <2>8. \A q \in StableChildren : ItemsOf(q)' = ItemsOf(q)
    BY <2>2 DEF ItemsOf
  <2>9. ReportsInv'
    BY <1>1, <1>2, <2>2, <2>3, <2>8, AskedFrame DEF ReportsInv, AtPath, AtChildren, AtChild
  <2>10. ListedWereThere' /\ listing'.phase # "done"
    BY <1>1, <2>2, SameItems
  <2> QED BY <2>2, <2>4, <2>5, <2>7, <2>9, <2>10, AskedKeeps
<1>5. CASE Info = "none"
  <2>1. PICK type \in {"corrupt", "directory"} :
          ReportChild(type) /\ (type = "directory" => ~listing.call.tolerant)
    BY <1>5 DEF LsChild
  <2>2. WasThere(item, type)
    BY <1>2, <1>3, <1>5, <2>1 DEF WasThere
  <2> QED BY <1>2, <1>3, <1>5, <2>1, <2>2, ReportKeeps DEF AtChild
<1>6. CASE Info # "none" /\ ~(Info = "file" /\ listing.call.tolerant)
  <2>1. ReportChild(Info)
    BY <1>6 DEF LsChild
  <2>2. PICK type : type = Info
    OBVIOUS
  <2>3. WasThere(item, type) /\ type = KindOf(item)
    BY <1>3, <1>6, <2>2 DEF WasThere
  <2> QED BY <1>2, <2>1, <2>2, <2>3, ReportKeeps DEF AtChild
<1> QED BY <1>4, <1>5, <1>6

LEMMA LsNodeKeeps ==
  ASSUME ListingInv, Listing, Quiet, LsNode
  PROVE  ListingInv'
<1> DEFINE item == listing.item
<1>1. /\ SoundTree /\ ListingShape /\ ChildrenInv /\ TolerantInv /\ ReportsInv
      /\ ListedWereThere /\ listing # NoListing
  BY AskedKnows
<1>2. /\ listing.phase = "node" /\ Called("ls") /\ listing.call.tolerant
      /\ [path |-> item, type |-> "file"] \in was /\ (Stable(item) => IsFile(item))
  BY <1>1 DEF LsNode, TolerantInv
<1>3. CASE KindOf(item) = "file"
  <2>1. listing' = [Then("load") EXCEPT !.node = tree[item]]
    BY <1>3 DEF LsNode
  <2>2. listing' = [[listing EXCEPT !.phase = "load", !.query = "row"] EXCEPT !.node = tree[item]]
    BY <2>1 DEF Then
  <2>3. /\ listing'.phase = "load" /\ listing'.query = "row"
        /\ listing'.outcome = listing.outcome
        /\ listing'.call = listing.call /\ listing'.item = listing.item
        /\ listing'.left = listing.left /\ listing'.found = listing.found
        /\ listing'.node = tree[item]
        /\ listing' = [phase |-> listing'.phase, query |-> listing'.query, call |-> listing'.call,
                       item |-> listing'.item, left |-> listing'.left, found |-> listing'.found,
                       node |-> listing'.node, outcome |-> listing'.outcome]
    BY <1>1, <2>2 DEF ListingShape
  <2>4. Asked
    BY <1>1, <2>3 DEF Asked, Quiet, ListingShape, Called, AtChildren, AtChild
  <2>5. Current' = Current
    BY <1>2, <2>3 DEF Current, AtChild
  <2>6. ChildrenInv'
    BY <1>1, <2>4, <2>5, AskedFrame DEF ChildrenInv
  <2>7. LookInv'
    BY <2>3 DEF LookInv
  <2>8. TolerantInv'
    BY <1>2, <2>3, <2>4, AskedFrame DEF TolerantInv, Called
  <2>9. \A q \in StableChildren : ItemsOf(q)' = ItemsOf(q)
    BY <2>3 DEF ItemsOf
  <2>10. ReportsInv'
    BY <1>1, <1>2, <2>3, <2>4, <2>5, <2>9, AskedFrame DEF ReportsInv, AtPath, AtChildren, AtChild
  <2>11. ListedWereThere' /\ listing'.phase # "done"
    BY <1>1, <2>3, <2>4, SameItems
  <2> QED BY <2>4, <2>6, <2>7, <2>8, <2>10, <2>11, AskedKeeps
<1>4. CASE Ends("raised")
  <2>1. /\ Asked /\ listing'.phase = "done" /\ listing'.outcome = "raised"
        /\ listing'.found = listing.found
    BY <1>4, EndsSays
  <2>2. ListedWereThere'
    BY <1>1, <2>1, SameItems
  <2>3. StableChildrenListed'
    BY <1>2, <2>1 DEF StableChildrenListed, Asked, Called
  <2> QED BY <2>1, <2>2, <2>3, EndKeeps
<1>5. CASE ReportChild("corrupt") /\ KindOf(item) # "file"
  <2>1. ~Stable(item)
    BY <1>2, <1>5 DEF KindOf
  <2>2. WasThere(item, "corrupt")
    BY <1>2, <2>1 DEF WasThere
  <2> QED BY <1>2, <1>5, <2>1, <2>2, ReportKeeps DEF AtChild
<1> QED BY <1>3, <1>4, <1>5 DEF LsNode

LEMMA LsLoadKeeps ==
  ASSUME ListingInv, Listing, Quiet, LsLoad
  PROVE  ListingInv'
<1> DEFINE item == listing.item
<1>1. /\ listing.phase = "load" /\ Called("ls")
      /\ [path |-> item, type |-> "file"] \in was
      /\ Stable(item) => IsFile(item) /\ tree[item] = listing.node
  BY AskedKnows DEF LsLoad, TolerantInv
<1>2. CASE ReportChild("file")
  <2>1. WasThere(item, "file") /\ (Stable(item) => KindOf(item) = "file")
    BY <1>1 DEF WasThere, KindOf
  <2> QED BY <1>1, <1>2, <2>1, ReportKeeps DEF AtChild
<1>3. CASE ReportChild("corrupt") /\ (item \in DOMAIN tree => tree[item] # listing.node)
  <2>1. ~Stable(item)
    BY <1>1, <1>3 DEF IsFile
  <2>2. WasThere(item, "corrupt")
    BY <1>1, <2>1 DEF WasThere
  <2> QED BY <1>1, <1>3, <2>1, <2>2, ReportKeeps DEF AtChild
<1> QED BY <1>2, <1>3 DEF LsLoad

LEMMA PropfindInfoKeeps ==
  ASSUME ListingInv, Listing, Quiet, PropfindInfo
  PROVE  ListingInv'
<1>1. ListingShape /\ ReportsInv /\ ListedWereThere
  BY AskedKnows
<1>2. /\ listing.phase = "info" /\ LookedUp = listing.call.path /\ ~Called("ls")
      /\ listing.query = "row" => LookedUp \in DOMAIN tree
  BY DEF PropfindInfo, Informed, LookedUp, Called
<1>3. CASE Info = "none"
  <2>1. Ends("missing")
    BY <1>3 DEF PropfindInfo
  <2>2. Asked /\ listing'.phase = "done" /\ listing'.found = listing.found
    BY <2>1, EndsSays
  <2>3. ListedWereThere'
    BY <1>1, <2>2, SameItems
  <2> QED BY <1>2, <1>3, <2>2, <2>3, PathEnds
<1>4. CASE Info # "none"
  <2>1. listing' = Then("self")
    BY <1>4 DEF PropfindInfo
  <2>2. /\ Asked /\ listing'.phase = "self" /\ listing'.left = listing.left
        /\ listing'.found = listing.found
    BY <1>2, <2>1, ThenSays DEF AtPath
  <2>3. ListedWereThere'
    BY <1>1, <2>2, SameItems
  <2>4. \A i \in listing'.found : i.path = listing.call.path
    BY <1>1, <1>2, <2>2 DEF ReportsInv, AtPath
  <2> QED BY <1>2, <2>2, <2>3, <2>4, AtPathKeeps DEF AtPath
<1> QED BY <1>3, <1>4

LEMMA PropfindSelfKeeps ==
  ASSUME ListingInv, Listing, Quiet, PropfindSelf
  PROVE  ListingInv'
<1> DEFINE path == listing.call.path
           f == IF Info = "none" THEN {} ELSE Reported(path, Info)
           next == CASE listing.call.depth = 0 -> "done"
                     [] listing.call.depth = 1 /\ path = <<>> -> "names"
                     [] OTHER -> "check"
           out == IF next = "done" THEN "returned" ELSE listing.outcome
<1>1. /\ SoundTree /\ ListingShape /\ HistoryInv /\ ReportsInv /\ ListedWereThere
      /\ listing # NoListing
  BY AskedKnows
<1>2. /\ listing.phase = "self" /\ LookedUp = path
      /\ listing.query = "row" => LookedUp \in DOMAIN tree
  BY DEF PropfindSelf, Informed, LookedUp
<1>3. listing' = [[listing EXCEPT !.phase = next, !.query = "row"]
                    EXCEPT !.found = f, !.outcome = out]
  <2>1. [listing EXCEPT !.phase = next, !.query = "row"].outcome = listing.outcome
    BY <1>1 DEF ListingShape
  <2> HIDE DEF f, next
  <2>2. listing' = [[listing EXCEPT !.phase = next, !.query = "row"] EXCEPT
                      !.found = f, !.outcome = IF next = "done" THEN "returned" ELSE @]
    BY DEF PropfindSelf, Then, f, next
  <2> QED BY <2>1, <2>2
<1>4. next \in {"done", "names", "check"} /\ (next = "done" => listing.call.depth = 0)
  OBVIOUS
<1>5. ~Called("ls")
  BY <1>1, <1>2 DEF ListingShape
<1> HIDE DEF f, next, out
<1>6. /\ listing'.phase = next /\ listing'.query = "row" /\ listing'.outcome = out
      /\ listing'.call = listing.call /\ listing'.item = listing.item
      /\ listing'.left = listing.left /\ listing'.found = f
      /\ listing'.node = listing.node
      /\ listing' = [phase |-> listing'.phase, query |-> listing'.query, call |-> listing'.call,
                     item |-> listing'.item, left |-> listing'.left, found |-> listing'.found,
                     node |-> listing'.node, outcome |-> listing'.outcome]
  BY <1>1, <1>3 DEF ListingShape
<1>7. Asked
  BY <1>1, <1>4, <1>6 DEF Asked, Quiet, ListingShape, Called, AtPath
<1>8. ListedWereThere'
  <2>1. CASE Info = "none"
    <3>1. listing'.found = {}
      BY <1>6, <2>1 DEF f
    <3> QED BY <3>1 DEF ListedWereThere
  <2>2. CASE Info # "none"
    <3>1. path \in Seq(Names) /\ path \in Places /\ Info = KindOf(path)
      BY <1>1, <1>2, <2>2, LookSays DEF ListingShape
    <3>2. [path |-> path, type |-> KindOf(path)] \in was
      BY <1>1, <3>1 DEF HistoryInv
    <3>3. PICK type : type = Info
      OBVIOUS
    <3>4. WasThere(path, type)
      BY <3>1, <3>2, <3>3 DEF WasThere
    <3>5. listing'.found = listing.found \cup {[path |-> path, type |-> type]}
      BY <1>6, <2>2, <3>3 DEF f, Reported
    <3> QED BY <1>1, <1>7, <3>4, <3>5, NewItem
  <2> QED BY <2>1, <2>2
<1>9. CASE next = "done"
  <2>1. ~ListsChildren
    BY <1>4, <1>5, <1>9 DEF ListsChildren
  <2>2. StableChildrenListed'
    BY <1>7, <2>1, AskedFrame DEF StableChildrenListed
  <2> QED BY <1>6, <1>7, <1>8, <1>9, <2>2, EndKeeps
<1>10. CASE next # "done"
  <2>1. \A i \in f : i.path = path
    BY <1>1, <1>2 DEF f, Reported, ReportsInv, AtPath
  <2> QED BY <1>2, <1>4, <1>6, <1>7, <1>8, <1>10, <2>1, AtPathKeeps DEF AtPath
<1> QED BY <1>9, <1>10

LEMMA PropfindChildKeeps ==
  ASSUME ListingInv, Listing, Quiet, PropfindChild
  PROVE  ListingInv'
<1> DEFINE item == listing.item
<1>1. /\ SoundTree /\ ListingShape /\ HistoryInv /\ ChildrenInv /\ LookInv /\ ReportsInv
      /\ ListedWereThere
  BY AskedKnows
<1>2. listing.phase = "child" /\ Informed("child")
  BY DEF PropfindChild, Informed
<1>3. /\ Info \in {"file", "directory", "none"}
      /\ Info # "none" => [path |-> item, type |-> Info] \in was /\ Info = KindOf(item)
      /\ Info = "none" => ~Stable(item)
  BY <1>1, <1>2, ChildSays
<1>4. CASE Info = "none"
  <2>1. listing' = Then("children")
    BY <1>4 DEF PropfindChild
  <2>2. /\ Asked /\ listing'.phase = "children" /\ listing'.query = "row"
        /\ listing'.left = listing.left /\ listing'.found = listing.found
    BY <2>1, ThenSays DEF AtChildren
  <2>3. Current' = listing.left /\ Current = listing.left \cup {item}
    BY <1>2, <2>2 DEF Current, AtChild
  <2>4. ChildrenInv'
    BY <1>1, <2>2, <2>3, AskedFrame DEF ChildrenInv
  <2>5. LookInv' /\ TolerantInv'
    BY <2>2 DEF LookInv, TolerantInv
  <2>6. \A q \in StableChildren : q # item /\ ItemsOf(q)' = ItemsOf(q)
    BY <1>3, <1>4, <2>2 DEF ItemsOf, StableChildren
  <2>7. ReportsInv'
    BY <1>1, <1>2, <2>2, <2>3, <2>6, AskedFrame DEF ReportsInv, AtPath, AtChildren, AtChild
  <2>8. ListedWereThere' /\ listing'.phase # "done"
    BY <1>1, <2>2, SameItems
  <2> QED BY <2>2, <2>4, <2>5, <2>7, <2>8, AskedKeeps
<1>5. CASE Info # "none"
  <2>1. ReportChild(Info)
    BY <1>5 DEF PropfindChild
  <2>2. PICK type : type = Info
    OBVIOUS
  <2>3. WasThere(item, type) /\ type = KindOf(item)
    BY <1>3, <1>5, <2>2 DEF WasThere
  <2> QED BY <1>2, <2>1, <2>2, <2>3, ReportKeeps DEF AtChild
<1> QED BY <1>4, <1>5

LEMMA BeginKeeps ==
  ASSUME ListingInv, NEW call \in ListingCalls, BeginListing(call)
  PROVE  ListingInv'
<1> DEFINE ph == IF call.op = "ls" /\ call.path = <<>> THEN "names" ELSE "info"
<1>1. /\ listing' = [phase |-> ph, query |-> "row", call |-> call, item |-> <<>>, left |-> {},
                     found |-> {}, node |-> NoListing, outcome |-> "none"]
      /\ was' = {[path |-> p, type |-> KindOf(p)] : p \in Places}
      /\ tree' = tree /\ disturbed' = disturbed
  BY DEF BeginListing, fsVars
<1>2. ph \in {"names", "info"} /\ call.path \in Seq(Names)
  BY ListingsAssumption
<1> HIDE DEF ph
<1>3. /\ listing'.phase = ph /\ listing'.query = "row" /\ listing'.call = call
      /\ listing'.item = <<>> /\ listing'.left = {} /\ listing'.found = {}
      /\ listing'.node = NoListing /\ listing'.outcome = "none"
  BY <1>1
<1>4. ListingShape'
  BY <1>1, <1>2, <1>3 DEF ListingShape, AtPath
<1>5. SoundTree'
  BY <1>1 DEF SoundTree, ListingInv, IsFile
<1>6. HistoryInv'
  <2>1. Places' = Places /\ \A p : KindOf(p)' = KindOf(p)
    BY <1>1 DEF Places, KindOf, IsFile, Present, TreeAt
  <2>2. Recorded' \subseteq Places
    BY <1>1 DEF Recorded
  <2> QED BY <1>1, <2>1, <2>2 DEF HistoryInv
<1>7. ChildrenInv' /\ LookInv' /\ TolerantInv'
  BY <1>2, <1>3 DEF ChildrenInv, LookInv, TolerantInv, Current, AtChild
<1>8. ReportsInv'
  BY <1>2, <1>3 DEF ReportsInv, AtChildren, AtChild
<1>9. ListingsAreTrue'
  BY <1>2, <1>3 DEF ListingsAreTrue, StableChildrenListed, ListedWereThere
<1> QED BY <1>4, <1>5, <1>6, <1>7, <1>8, <1>9 DEF ListingInv

LEMMA StepKeeps ==
  ASSUME ListingInv, ListingStep
  PROVE  ListingInv'
<1>1. Listing /\ Quiet
  BY DEF ListingStep, Quiet
<1> QED BY <1>1, RowMissingKeeps, CheckKeeps, ListNamesKeeps, NextChildKeeps, LsInfoKeeps,
           LsChildKeeps, LsNodeKeeps, LsLoadKeeps, PropfindInfoKeeps, PropfindSelfKeeps,
           PropfindChildKeeps DEF ListingStep

LEMMA ListingStutters ==
  ASSUME ListingInv, UNCHANGED <<fsVars, listingVars>>
  PROVE  ListingInv'
<1>1. tree' = tree /\ listing' = listing /\ was' = was /\ disturbed' = disturbed
  BY DEF fsVars, listingVars
<1>2. Places' = Places /\ Recorded' = Recorded
  BY <1>1 DEF Places, Recorded
<1>3. \A p : /\ Stable(p)' <=> Stable(p)
             /\ IsChild(p)' <=> IsChild(p)
             /\ Present(p)' <=> Present(p)
             /\ IsFile(p)' <=> IsFile(p)
             /\ ItemsOf(p)' = ItemsOf(p)
  BY <1>1 DEF Stable, IsChild, Present, TreeAt, IsFile, ItemsOf
<1>4. \A p : KindOf(p)' = KindOf(p)
  BY <1>3 DEF KindOf
<1>5. StableChildren' = StableChildren /\ Current' = Current
  BY <1>1, <1>2, <1>3 DEF StableChildren, Current
<1>6. SoundTree' <=> SoundTree
  BY <1>1 DEF SoundTree, IsFile
<1>7. (ListingShape' <=> ListingShape) /\ (HistoryInv' <=> HistoryInv)
  BY <1>1, <1>2, <1>4 DEF ListingShape, HistoryInv, Called
<1>8. (ChildrenInv' <=> ChildrenInv) /\ (LookInv' <=> LookInv) /\ (TolerantInv' <=> TolerantInv)
  BY <1>1, <1>2, <1>3, <1>5 DEF ChildrenInv, LookInv, TolerantInv, Called
<1>9. ReportsInv' <=> ReportsInv
  BY <1>1, <1>3, <1>4, <1>5 DEF ReportsInv
<1>10. ListingsAreTrue' <=> ListingsAreTrue
  BY <1>1, <1>3, <1>4, <1>5
     DEF ListingsAreTrue, StableChildrenListed, ListedWereThere, ListsChildren, Called, Listing
<1> QED BY <1>1, <1>6, <1>7, <1>8, <1>9, <1>10 DEF ListingInv, Listing

(* Every listing, by ls with details or PROPFIND, taken query by query while
   others overwrite, delete, create and move what they like, has every child
   that nobody has touched, once and as what it is, and has nothing that has not
   been there since the call began (operations.py: list_directory,
   list_directory_detail, get_file_info; responses.py: propfind_response). *)
THEOREM ListingsCorrect == ListingSpec => []ListingsAreTrue
<1>1. SoundTree /\ ListingInit => ListingInv
  BY DEF ListingInit, ListingInv
<1>2. ListingInv /\ [ListingNext]_<<fsVars, listingVars>> => ListingInv'
  <2> SUFFICES ASSUME ListingInv, [ListingNext]_<<fsVars, listingVars>>
               PROVE  ListingInv'
    OBVIOUS
  <2>1. CASE \E call \in ListingCalls : BeginListing(call)
    BY <2>1, BeginKeeps
  <2>2. CASE ListingStep
    BY <2>2, StepKeeps
  <2>3. CASE OtherChange
    BY <2>3, OtherKeeps
  <2>4. CASE UNCHANGED <<fsVars, listingVars>>
    BY <2>4, ListingStutters
  <2> QED BY <2>1, <2>2, <2>3, <2>4 DEF ListingNext
<1>3. ListingInv => ListingsAreTrue
  <2>1. listing = NoListing => ListingsAreTrue
    BY DEF NoListing, ListingsAreTrue, StableChildrenListed, ListedWereThere, Listing
  <2> QED BY <2>1 DEF ListingInv
<1> QED BY <1>1, <1>2, <1>3, PTL DEF ListingSpec
-----------------------------------------------------------------------------
(* Clients and programs: what an operation leaves of a tree *)

LEMMA StoreSpares ==
  ASSUME SoundTree, NEW p \in Seq(Names) \ {<<>>}, NEW data, Store(p, data)
  PROVE  SoundTree' /\ Spares({p})
<1>1. tree' = Set(tree, p, Replaced(p, data)) /\ CanWrite(p)
  BY DEF Store
<1>2. Spares({p})
  BY <1>1 DEF Spares, Set
<1> QED BY <1>1, <1>2, WriteSound

LEMMA CopyIntoSpares ==
  ASSUME SoundTree, NEW node, NEW p \in Seq(Names) \ {<<>>}, CopyInto(node, p)
  PROVE  SoundTree' /\ Spares({p})
<1>1. CanWrite(p) /\ \E data : tree' = Set(tree, p, Replaced(p, data))
  BY DEF CopyInto
<1>2. PICK data : tree' = Set(tree, p, Replaced(p, data))
  BY <1>1
<1>3. Spares({p})
  BY <1>2 DEF Spares, Set
<1> QED BY <1>1, <1>2, <1>3, WriteSound

LEMMA DeleteSpares ==
  ASSUME SoundTree, NEW p, NEW recursive, Delete(p, recursive)
  PROVE  SoundTree' /\ Spares(TreeAt(p))
<1>1. Spares(TreeAt(p))
  BY DEF Spares, Delete, Erase, Without
<1> QED BY <1>1, DeleteSound

LEMMA CreateDirectorySpares ==
  ASSUME SoundTree, NEW p \in Seq(Names) \ {<<>>}, NEW base \in 0..(Len(p) - 1),
         CreateDirectory(p, base)
  PROVE  SoundTree' /\ Spares({})
<1> DEFINE made == {Upto(p, k) : k \in (base + 1)..Len(p)}
<1>1. /\ \A q \in made : ~Present(q)
      /\ tree' = [q \in DOMAIN tree \cup made |->
                    IF q \in made THEN Directory(nextId + Len(q) - base - 1) ELSE tree[q]]
  BY DEF CreateDirectory
<1>2. \A q \in DOMAIN tree : Present(q)
  BY DEF Present, TreeAt
<1> HIDE DEF made
<1>3. \A q \in DOMAIN tree : q \in DOMAIN tree' /\ tree'[q] = tree[q]
  BY <1>1, <1>2
<1>4. Spares({})
  BY <1>3 DEF Spares
<1> QED BY <1>4, CreateDirectorySound

LEMMA MakedirsSpares ==
  ASSUME SoundTree, NEW p \in Seq(Names), Makedirs(p)
  PROVE  SoundTree' /\ Spares({})
<1>1. CASE p = <<>> \/ Present(p)
  <2>1. tree' = tree
    BY <1>1 DEF Makedirs, fsVars
  <2>2. SoundTree'
    BY <2>1 DEF SoundTree, IsFile
  <2> QED BY <2>1, <2>2 DEF Spares
<1>2. CASE ~(p = <<>> \/ Present(p))
  <2>1. PICK base \in 0..(Len(p) - 1) : CreateDirectory(p, base)
    BY <1>2 DEF Makedirs
  <2> QED BY <1>2, <2>1, CreateDirectorySpares
<1> QED BY <1>1, <1>2

(* A move takes away what was at its destination: nothing, or what it may
   overwrite, which for a file is a file. *)
LEMMA MoveSpares ==
  ASSUME SoundTree, NEW src \in Seq(Names), NEW dst \in Seq(Names) \ {<<>>},
         NEW overwrite, Move(src, dst, overwrite)
  PROVE  /\ SoundTree' /\ Spares(TreeAt(dst))
         /\ TreeAt(dst) # {} => overwrite
         /\ IsFile(src) => TreeAt(dst) \subseteq {dst}
<1>1. Present(dst) => overwrite /\ (IsFile(src) => IsFile(dst))
  BY DEF Move, CanMove
<1>2. ASSUME IsFile(dst)
      PROVE  TreeAt(dst) \subseteq {dst}
  BY <1>2 DEF SoundTree, IsFile, TreeAt
<1> QED BY <1>1, <1>2, MoveSound DEF Present

(* What is spared is not lost. *)
LEMMA SparedIsNotLost ==
  ASSUME NEW P, Spares(P), NEW p \in DOMAIN tree, Lost(p)
  PROVE  p \in P
BY DEF Spares, Lost

LEMMA SameTreeLosesNothing ==
  ASSUME tree' = tree, NEW p \in DOMAIN tree
  PROVE  ~Lost(p)
BY DEF Lost

(* Who comes where nothing was is in the way of those who watch it. *)
LEMMA AbsentStays ==
  ASSUME NEW a, NEW created, Moved(a, created), NEW b \in Agents \ {a}, Active(b), b \notin raced',
         NEW w \in Watched(b), ~Present(w)
  PROVE  ~Present(w)' /\ b \notin raced
<1>1. b \notin raced /\ ~InTheWayOf(b)
  BY DEF Moved
<1>2. ASSUME NEW q \in DOMAIN tree', q = w \/ Below(w, q)
      PROVE  FALSE
  <2>1. q \notin DOMAIN tree
    BY <1>2 DEF Present, TreeAt
  <2>2. q \in Changed /\ Related(q, w)
    BY <1>2, <2>1 DEF Changed, Differs, Related
  <2> QED BY <1>1, <2>2 DEF InTheWayOf
<1> QED BY <1>1, <1>2 DEF Present, TreeAt

-----------------------------------------------------------------------------
(* Clients: how a handler goes on *)

(* The client's handler is in another phase of the same request. *)
Goes(c, phase) ==
  /\ web'[c].phase = phase /\ web'[c].req = web[c].req /\ IsRequest(web'[c])
  /\ \A e \in Clients \ {c} : web'[e] = web[e]

(* What the looks of a handler have established about its paths. *)
RequestWell(c) ==
  /\ Req(c) \in Requests
  /\ web[c].phase \in {"write", "make"} => Req(c).path # <<>>
  /\ web[c].phase \in {"dest", "do", "copying"} =>
       Req(c).method \in CopyMove /\ Req(c).path # <<>> /\ Req(c).dest # <<>>

RequestsInv == \A c \in Clients : web[c] # NoRequest => RequestWell(c)

LEMMA HandlerGoes ==
  ASSUME WebShape, NEW c \in Clients, IsRequest(web[c]), NEW phase,
         \/ Goto(c, phase)
         \/ phase = "done" /\ \E status : Answer(c, status)
         \/ \E existed : web' = [web EXCEPT ![c].phase = phase, ![c].existed = existed]
         \/ \E node : web' = [web EXCEPT ![c].phase = phase, ![c].node = node]
  PROVE  Goes(c, phase)
<1>1. DOMAIN web = Clients
  BY DEF WebShape
<1>2. CASE Goto(c, phase)
  BY <1>1, <1>2 DEF Goto, Goes, IsRequest
<1>3. ASSUME NEW status, Answer(c, status), phase = "done"
      PROVE  Goes(c, phase)
  BY <1>1, <1>3 DEF Answer, Goes, IsRequest
<1>4. ASSUME NEW existed, web' = [web EXCEPT ![c].phase = phase, ![c].existed = existed]
      PROVE  Goes(c, phase)
  BY <1>1, <1>4 DEF Goes, IsRequest
<1>5. ASSUME NEW node, web' = [web EXCEPT ![c].phase = phase, ![c].node = node]
      PROVE  Goes(c, phase)
  BY <1>1, <1>5 DEF Goes, IsRequest
<1> QED BY <1>2, <1>3, <1>4, <1>5

(* A call that only looks, with what it has found for the next one. *)
HandlerLooks(c) ==
  /\ UNCHANGED fsVars
  /\ \/ Goes(c, "done")
     \/ Goes(c, "write") /\ Req(c).path # <<>> /\ (Req(c).none => ~Present(Req(c).path))
     \/ Goes(c, "make") /\ Req(c).path # <<>>
     \/ /\ Goes(c, "dest") /\ Req(c).method \in CopyMove
        /\ Req(c).path # <<>> /\ Req(c).dest # <<>>
     \/ /\ Goes(c, "do") /\ web[c].phase = "dest"
        /\ Req(c).overwrite \/ ~Present(Req(c).dest)
     \/ Goes(c, "copying") /\ web[c].phase = "do"

(* A call that changes the tree; it is the last one. *)
HandlerWrites(c) ==
  /\ Goes(c, "done")
  /\ \/ /\ web[c].phase = "write" /\ Req(c).method = "PUT"
        /\ Store(Req(c).path, Req(c).data)
     \/ Req(c).method = "DELETE" /\ Req(c).path # <<>> /\ Delete(Req(c).path, TRUE)
     \/ web[c].phase = "make" /\ CreateDirectory(Req(c).path, Len(Req(c).path) - 1)
     \/ /\ web[c].phase = "copying" /\ Req(c).method = "COPY"
        /\ CopyInto(web[c].node, Req(c).dest)
     \/ /\ web[c].phase = "do" /\ Req(c).method = "MOVE"
        /\ IsFile(Req(c).path) /\ Move(Req(c).path, Req(c).dest, Req(c).overwrite)

LEMMA HandlerSays ==
  ASSUME WebShape, NEW c \in Clients, WebStep(c)
  PROVE  Busy(c) /\ IsRequest(web[c]) /\ (HandlerLooks(c) \/ HandlerWrites(c))
<1>1. Busy(c)
  BY DEF WebStep, PutLook, PutWrite, PutBreaksOff, HandleDelete, MkcolLook, MkcolMake,
         SourceLook, DestLook, CopyBegin, CopyWrite, MoveDo, Handles, Busy
<1>2. IsRequest(web[c])
  BY WorkingHasRequest
<1>3. ASSUME NEW status, Answer(c, status)
      PROVE  Goes(c, "done")
  BY <1>2, <1>3, HandlerGoes
<1>4. ASSUME NEW phase, Goto(c, phase)
      PROVE  Goes(c, phase)
  BY <1>2, <1>4, HandlerGoes
<1>5. CASE PutLook(c)
  <2>1. UNCHANGED fsVars
    BY <1>5 DEF PutLook, NoChange
  <2>2. \/ \E status : Answer(c, status)
        \/ /\ Req(c).path # <<>> /\ (Req(c).none => ~Present(Req(c).path))
           /\ web' = [web EXCEPT ![c].phase = "write", ![c].existed = Present(Req(c).path)]
    BY <1>5 DEF PutLook
  <2>3. CASE /\ Req(c).path # <<>> /\ (Req(c).none => ~Present(Req(c).path))
             /\ web' = [web EXCEPT ![c].phase = "write", ![c].existed = Present(Req(c).path)]
    <3>1. Goes(c, "write")
      BY <1>2, <2>3, HandlerGoes
    <3> QED BY <1>1, <1>2, <2>1, <2>3, <3>1 DEF HandlerLooks
  <2> QED BY <1>1, <1>2, <1>3, <2>1, <2>2, <2>3 DEF HandlerLooks
<1>6. CASE PutWrite(c)
  <2>1. web[c].phase = "write" /\ Req(c).method = "PUT"
    BY <1>6 DEF PutWrite, Handles, Req
  <2>2. /\ \E status : Answer(c, status)
        /\ NoChange \/ Store(Req(c).path, Req(c).data)
    BY <1>6 DEF PutWrite
  <2> QED BY <1>1, <1>2, <1>3, <2>1, <2>2 DEF HandlerLooks, HandlerWrites, NoChange
<1>7. CASE PutBreaksOff(c)
  BY <1>1, <1>2, <1>3, <1>7 DEF PutBreaksOff, HandlerLooks, NoChange
<1>8. CASE HandleDelete(c)
  <2>1. Req(c).method = "DELETE"
    BY <1>8 DEF HandleDelete, Handles, Req
  <2>2. /\ \E status : Answer(c, status)
        /\ NoChange \/ (Req(c).path # <<>> /\ Delete(Req(c).path, TRUE))
    BY <1>8 DEF HandleDelete
  <2> QED BY <1>1, <1>2, <1>3, <2>1, <2>2 DEF HandlerLooks, HandlerWrites, NoChange
<1>9. CASE MkcolLook(c)
  <2>1. UNCHANGED fsVars
    BY <1>9 DEF MkcolLook, NoChange
  <2>2. Answer(c, 405) \/ (Req(c).path # <<>> /\ Goto(c, "make"))
    BY <1>9 DEF MkcolLook
  <2> QED BY <1>1, <1>2, <1>3, <1>4, <2>1, <2>2 DEF HandlerLooks
<1>10. CASE MkcolMake(c)
  <2>1. web[c].phase = "make"
    BY <1>10 DEF MkcolMake, Handles
  <2>2. /\ \E status : Answer(c, status)
        /\ NoChange \/ CreateDirectory(Req(c).path, Len(Req(c).path) - 1)
    BY <1>10 DEF MkcolMake
  <2> QED BY <1>1, <1>2, <1>3, <2>1, <2>2 DEF HandlerLooks, HandlerWrites, NoChange
<1>11. CASE SourceLook(c)
  <2>1. UNCHANGED fsVars /\ Req(c).method \in CopyMove
    BY <1>11 DEF SourceLook, NoChange, Handles, Req
  <2>2. \/ \E status : Answer(c, status)
        \/ Req(c).path # <<>> /\ Req(c).dest # <<>> /\ Goto(c, "dest")
    BY <1>11 DEF SourceLook
  <2> QED BY <1>1, <1>2, <1>3, <1>4, <2>1, <2>2 DEF HandlerLooks
<1>12. CASE DestLook(c)
  <2>1. UNCHANGED fsVars /\ web[c].phase = "dest"
    BY <1>12 DEF DestLook, NoChange, Handles
  <2>2. \/ Answer(c, 412)
        \/ /\ Req(c).overwrite \/ ~Present(Req(c).dest)
           /\ web' = [web EXCEPT ![c].phase = "do", ![c].existed = Present(Req(c).dest)]
    BY <1>12 DEF DestLook
  <2>3. CASE /\ Req(c).overwrite \/ ~Present(Req(c).dest)
             /\ web' = [web EXCEPT ![c].phase = "do", ![c].existed = Present(Req(c).dest)]
    BY <1>1, <1>2, <2>1, <2>3, HandlerGoes DEF HandlerLooks
  <2> QED BY <1>1, <1>2, <1>3, <2>1, <2>2, <2>3 DEF HandlerLooks
<1>13. CASE CopyBegin(c)
  <2>1. UNCHANGED fsVars /\ web[c].phase = "do"
    BY <1>13 DEF CopyBegin, NoChange, Handles
  <2>2. \/ \E status : Answer(c, status)
        \/ web' = [web EXCEPT ![c].phase = "copying", ![c].node = tree[Req(c).path].id]
    BY <1>13 DEF CopyBegin
  <2>3. CASE web' = [web EXCEPT ![c].phase = "copying", ![c].node = tree[Req(c).path].id]
    BY <1>1, <1>2, <2>1, <2>3, HandlerGoes DEF HandlerLooks
  <2> QED BY <1>1, <1>2, <1>3, <2>1, <2>2, <2>3 DEF HandlerLooks
<1>14. CASE CopyWrite(c)
  <2>1. web[c].phase = "copying" /\ Req(c).method = "COPY"
    BY <1>14 DEF CopyWrite, Handles, Req
  <2>2. /\ \E status : Answer(c, status)
        /\ NoChange \/ CopyInto(web[c].node, Req(c).dest)
    BY <1>14 DEF CopyWrite
  <2> QED BY <1>1, <1>2, <1>3, <2>1, <2>2 DEF HandlerLooks, HandlerWrites, NoChange
<1>15. CASE MoveDo(c)
  <2>1. web[c].phase = "do" /\ Req(c).method = "MOVE"
    BY <1>15 DEF MoveDo, Handles, Req
  <2>2. /\ \E status : Answer(c, status)
        /\ \/ NoChange
           \/ /\ IsFile(Req(c).path)
              /\ Move(Req(c).path, Req(c).dest, Req(c).overwrite)
    BY <1>15 DEF MoveDo, MoveFlag
  <2> QED BY <1>1, <1>2, <1>3, <2>1, <2>2 DEF HandlerLooks, HandlerWrites, NoChange
<1> QED
  BY <1>5, <1>6, <1>7, <1>8, <1>9, <1>10, <1>11, <1>12, <1>13, <1>14, <1>15 DEF WebStep

-----------------------------------------------------------------------------
(* Clients: a conditional request that nobody has come in the way of is about to
   write where nothing is. *)

LookedFirst(c) ==
  /\ web[c].phase = "write" /\ Req(c).none => ~Present(Req(c).path)
  /\ web[c].phase \in {"do", "copying"} /\ ~Req(c).overwrite => ~Present(Req(c).dest)

HandlersInv == WebShape /\ RequestsInv /\ \A c \in Clients \ raced : LookedFirst(c)

LEMMA HandlersInvInit ==
  ASSUME Init
  PROVE  HandlersInv
<1>1. \A c \in Clients : web[c] = NoRequest
  BY DEF Init, WebInit
<1>2. WebShape
  BY DEF Init, WebInit, WebShape
<1> QED BY <1>1, <1>2 DEF HandlersInv, RequestsInv, LookedFirst, NoRequest

LEMMA SamePresent ==
  ASSUME tree' = tree
  PROVE  \A p : Present(p)' = Present(p)
BY DEF Present, TreeAt

(* Another handler is left as it was, unless somebody has come in its way. *)
LEMMA HandlerLeft ==
  ASSUME HandlersInv, NEW a, NEW created, Moved(a, created), NEW c \in Clients \ {a},
         web'[c] = web[c], c \notin raced'
  PROVE  LookedFirst(c)'
<1>1. c \notin raced /\ Req(c)' = Req(c)
  BY DEF Moved, Req
<1>2. LookedFirst(c)
  BY <1>1 DEF HandlersInv
<1>3. CASE web[c].phase = "write" /\ Req(c).none
  <2>1. Active(c) /\ Req(c).path \in Watched(c) /\ c \in Agents \ {a}
    BY <1>3 DEF Active, Busy, Watched, Agents
  <2>2. ~Present(Req(c).path)'
    <3> DEFINE w == Req(c).path
    <3>1. ~Present(w) /\ w \in Watched(c)
      BY <1>2, <1>3, <2>1 DEF LookedFirst
    <3> HIDE DEF w
    <3>2. PICK v : v = w
      OBVIOUS
    <3>3. ~Present(v)'
      BY <2>1, <3>1, <3>2, AbsentStays
    <3>4. v = w'
      BY <1>1, <3>2 DEF w
    <3> QED BY <3>3, <3>4 DEF w
  <2> QED BY <1>1, <1>3, <2>2 DEF LookedFirst
<1>4. CASE web[c].phase \in {"do", "copying"} /\ ~Req(c).overwrite
  <2>1. web[c] # NoRequest
    BY <1>4 DEF NoRequest
  <2>2. Active(c) /\ Req(c).dest \in Watched(c) /\ c \in Agents \ {a}
    BY <1>4, <2>1 DEF HandlersInv, RequestsInv, RequestWell, Active, Busy, Watched, Agents
  <2>3. ~Present(Req(c).dest)'
    <3> DEFINE w == Req(c).dest
    <3>1. ~Present(w) /\ w \in Watched(c)
      BY <1>2, <1>4, <2>2 DEF LookedFirst
    <3> HIDE DEF w
    <3>2. PICK v : v = w
      OBVIOUS
    <3>3. ~Present(v)'
      BY <2>2, <3>1, <3>2, AbsentStays
    <3>4. v = w'
      BY <1>1, <3>2 DEF w
    <3> QED BY <3>3, <3>4 DEF w
  <2> QED BY <1>1, <1>4, <2>3 DEF LookedFirst
<1> QED BY <1>1, <1>3, <1>4 DEF LookedFirst

LEMMA ReceiveKeeps ==
  ASSUME HandlersInv, NEW c \in Clients, NEW r \in Requests, Receive(c, r), Begun(c)
  PROVE  HandlersInv'
<1>1. WebShape'
  BY ReceiveShape DEF HandlersInv
<1>2. /\ web'[c].phase = "look" /\ web'[c].req = r
      /\ \A e \in Clients \ {c} : web'[e] = web[e]
      /\ tree' = tree /\ raced' = raced \ {c}
  BY DEF HandlersInv, WebShape, Receive, Begun, fsVars
<1>3. RequestsInv'
  BY <1>2 DEF HandlersInv, RequestsInv, RequestWell, Req, CopyMove
<1>4. ASSUME NEW e \in Clients, e \notin raced'
      PROVE  LookedFirst(e)'
  <2>1. CASE e = c
    BY <1>2, <2>1 DEF LookedFirst
  <2>2. CASE e # c
    <3>1. LookedFirst(e) /\ web'[e] = web[e]
      BY <1>2, <1>4, <2>2 DEF HandlersInv
    <3> QED BY <1>2, <3>1, SamePresent DEF LookedFirst, Req
  <2> QED BY <2>1, <2>2
<1> QED BY <1>1, <1>3, <1>4 DEF HandlersInv

LEMMA HandlerKeeps ==
  ASSUME HandlersInv, NEW c \in Clients, WebStep(c), NEW created, Moved(c, created)
  PROVE  HandlersInv'
<1>1. WebShape' /\ IsRequest(web[c]) /\ Busy(c) /\ (HandlerLooks(c) \/ HandlerWrites(c))
  BY CreatesWhereNothingIs, HandlerSays DEF HandlersInv
<1>2. RequestWell(c)
  BY <1>1 DEF HandlersInv, RequestsInv, Busy, NoRequest
<1>3. c \in raced' <=> c \in raced
  BY DEF Moved
<1>4. \A e \in Clients \ {c} : web'[e] = web[e]
  BY <1>1 DEF HandlerLooks, HandlerWrites, Goes
<1>5. RequestWell(c)' /\ (c \notin raced => LookedFirst(c)')
  <2>1. ASSUME Goes(c, "done")
        PROVE  RequestWell(c)' /\ LookedFirst(c)'
    BY <1>2, <2>1 DEF Goes, RequestWell, LookedFirst, Req
  <2>2. ASSUME UNCHANGED fsVars
        PROVE  tree' = tree
    BY <2>2 DEF fsVars
  <2>3. ASSUME UNCHANGED fsVars, Goes(c, "write"), Req(c).path # <<>>,
               Req(c).none => ~Present(Req(c).path)
        PROVE  RequestWell(c)' /\ LookedFirst(c)'
    <3>1. Req(c)' = Req(c) /\ web'[c].phase = "write"
      BY <2>3 DEF Goes, Req
    <3>2. LookedFirst(c)'
      BY <2>2, <2>3, <3>1, SamePresent DEF LookedFirst
    <3> QED BY <1>2, <2>3, <3>1, <3>2 DEF RequestWell
  <2>4. ASSUME Goes(c, "make"), Req(c).path # <<>>
        PROVE  RequestWell(c)' /\ LookedFirst(c)'
    BY <1>2, <2>4 DEF Goes, RequestWell, LookedFirst, Req
  <2>5. ASSUME Goes(c, "dest"), Req(c).method \in CopyMove, Req(c).path # <<>>, Req(c).dest # <<>>
        PROVE  RequestWell(c)' /\ LookedFirst(c)'
    BY <1>2, <2>5 DEF Goes, RequestWell, LookedFirst, Req
  <2>6. ASSUME UNCHANGED fsVars, Goes(c, "do"), web[c].phase = "dest",
               Req(c).overwrite \/ ~Present(Req(c).dest)
        PROVE  RequestWell(c)' /\ LookedFirst(c)'
    <3>1. Req(c)' = Req(c) /\ web'[c].phase = "do"
      BY <2>6 DEF Goes, Req
    <3>2. LookedFirst(c)'
      BY <2>2, <2>6, <3>1, SamePresent DEF LookedFirst
    <3> QED BY <1>2, <2>6, <3>1, <3>2 DEF RequestWell
  <2>7. ASSUME UNCHANGED fsVars, Goes(c, "copying"), web[c].phase = "do"
        PROVE  RequestWell(c)' /\ (c \notin raced => LookedFirst(c)')
    <3>1. Req(c)' = Req(c) /\ web'[c].phase = "copying"
      BY <2>7 DEF Goes, Req
    <3>2. ASSUME c \notin raced
          PROVE  LookedFirst(c)'
      <4>1. LookedFirst(c)
        BY <3>2 DEF HandlersInv
      <4> QED BY <2>2, <2>7, <3>1, <4>1, SamePresent DEF LookedFirst
    <3> QED BY <1>2, <2>7, <3>1, <3>2 DEF RequestWell
  <2>8. CASE HandlerWrites(c)
    BY <2>1, <2>8 DEF HandlerWrites
  <2>9. CASE HandlerLooks(c)
    BY <2>1, <2>3, <2>4, <2>5, <2>6, <2>7, <2>9 DEF HandlerLooks
  <2> QED BY <1>1, <2>8, <2>9
<1>6. RequestsInv'
  BY <1>4, <1>5 DEF HandlersInv, RequestsInv, RequestWell, Req
<1>7. ASSUME NEW e \in Clients, e \notin raced'
      PROVE  LookedFirst(e)'
  <2>1. CASE e = c
    BY <1>3, <1>5, <1>7, <2>1
  <2>2. CASE e # c
    BY <1>4, <1>7, <2>2, HandlerLeft
  <2> QED BY <2>1, <2>2
<1> QED BY <1>1, <1>6, <1>7 DEF HandlersInv

(* A step of a handler leaves a sound tree, and loses what it may lose. *)
LEMMA HandlerLoses ==
  ASSUME HandlersInv, SoundTree, NEW c \in Clients, WebStep(c)
  PROVE  /\ SoundTree'
         /\ \A p \in DOMAIN tree : Lost(p) => web[c] # web'[c] /\ Active(c) /\ MayLose(c, p)
<1> DEFINE path == Req(c).path
           dest == Req(c).dest
           Fine == /\ SoundTree'
                   /\ \A p \in DOMAIN tree : Lost(p) => MayLose(c, p)
<1>1. Busy(c) /\ (HandlerLooks(c) \/ HandlerWrites(c))
  BY HandlerSays DEF HandlersInv
<1>2. RequestWell(c) /\ path \in Seq(Names) /\ dest \in Seq(Names)
  BY <1>1, WebDavAssumption DEF HandlersInv, RequestsInv, RequestWell, Busy, NoRequest
<1>3. ASSUME UNCHANGED fsVars
      PROVE  SoundTree' /\ \A p \in DOMAIN tree : ~Lost(p)
  <2>1. tree' = tree
    BY <1>3 DEF fsVars
  <2> QED BY <2>1, SameTreeLosesNothing DEF SoundTree, IsFile
<1>4. CASE HandlerLooks(c)
  BY <1>3, <1>4 DEF HandlerLooks
<1>5. CASE HandlerWrites(c)
  <2>1. web'[c].phase = "done" /\ web[c] # web'[c] /\ Active(c)
    BY <1>1, <1>5 DEF HandlerWrites, Goes, Busy, Active
  <2>2. ASSUME web[c].phase = "write", Req(c).method = "PUT", Store(path, Req(c).data)
        PROVE  Fine
    <3>1. SoundTree' /\ Spares({path})
      BY <1>2, <2>2, StoreSpares DEF RequestWell
    <3>2. ASSUME NEW p \in DOMAIN tree, Lost(p)
          PROVE  p = path /\ (Req(c).none => c \in raced)
      <4>1. p = path
        BY <3>1, <3>2, SparedIsNotLost
      <4>2. Present(path)
        BY <4>1 DEF Present, TreeAt
      <4> QED BY <2>2, <4>1, <4>2 DEF HandlersInv, LookedFirst
    <3> QED BY <2>2, <3>1, <3>2 DEF MayLose
  <2>3. ASSUME Req(c).method = "DELETE", Delete(path, TRUE)
        PROVE  Fine
    <3>1. SoundTree' /\ Spares(TreeAt(path))
      BY <2>3, DeleteSpares
    <3>2. \A p \in DOMAIN tree : Lost(p) => p \in TreeAt(path)
      BY <3>1, SparedIsNotLost
    <3> QED BY <2>3, <3>1, <3>2 DEF MayLose, TreeAt
  <2>4. ASSUME web[c].phase = "make", CreateDirectory(path, Len(path) - 1)
        PROVE  Fine
    <3>1. path \in Seq(Names) \ {<<>>} /\ Len(path) - 1 \in 0..(Len(path) - 1)
      BY <1>2, <2>4 DEF RequestWell
    <3>2. SoundTree' /\ Spares({})
      BY <2>4, <3>1, CreateDirectorySpares
    <3> QED BY <3>2, SparedIsNotLost
  <2>5. ASSUME web[c].phase = "copying", Req(c).method = "COPY", CopyInto(web[c].node, dest)
        PROVE  Fine
    <3>1. SoundTree' /\ Spares({dest})
      BY <1>2, <2>5, CopyIntoSpares DEF RequestWell
    <3>2. ASSUME NEW p \in DOMAIN tree, Lost(p)
          PROVE  p = dest /\ (Req(c).overwrite \/ c \in raced)
      <4>1. p = dest
        BY <3>1, <3>2, SparedIsNotLost
      <4>2. Present(dest)
        BY <4>1 DEF Present, TreeAt
      <4> QED BY <2>5, <4>1, <4>2 DEF HandlersInv, LookedFirst
    <3> QED BY <2>5, <3>1, <3>2 DEF MayLose
  <2>6. ASSUME web[c].phase = "do", Req(c).method = "MOVE", IsFile(path),
               Move(path, dest, Req(c).overwrite)
        PROVE  Fine
    <3>1. /\ SoundTree' /\ Spares(TreeAt(dest))
          /\ TreeAt(dest) # {} => Req(c).overwrite
          /\ TreeAt(dest) \subseteq {dest}
      BY <1>2, <2>6, MoveSpares DEF RequestWell
    <3>2. \A p \in DOMAIN tree : Lost(p) => p \in TreeAt(dest)
      BY <3>1, SparedIsNotLost
    <3>3. \A p \in DOMAIN tree : Lost(p) => p = dest /\ Req(c).overwrite
      BY <3>1, <3>2
    <3> QED BY <2>6, <3>1, <3>3 DEF MayLose
  <2>7. Fine
    BY <1>5, <2>2, <2>3, <2>4, <2>5, <2>6 DEF HandlerWrites
  <2> QED BY <2>1, <2>7
<1> QED BY <1>1, <1>4, <1>5

-----------------------------------------------------------------------------
(* Programs: how a method goes on *)

IsTask(t) ==
  t = [phase |-> t.phase, call |-> t.call, asDirectory |-> t.asDirectory, to |-> t.to,
       found |-> t.found, left |-> t.left, prefix |-> t.prefix, item |-> t.item,
       node |-> t.node, outcome |-> t.outcome]

(* What a method has found out: paths, at least one of them to be copied. *)
TaskWell(t) ==
  /\ IsTask(t) /\ t.call \in Calls
  /\ t.to \in Seq(Names) /\ t.item \in Seq(Names) /\ Len(t.prefix) \in Nat
  /\ t.found \subseteq Seq(Names) /\ t.left \subseteq Seq(Names)
  /\ t.phase = "target" /\ t.call.op = "copy" => t.found # {}
  /\ t.phase = "move" => t.to # <<>>

TasksInv ==
  /\ task \in [Programs -> {task[p] : p \in Programs}]
  /\ \A p \in Programs : task[p] = NoCall \/ TaskWell(task[p])

(* A touch that keeps what is there, and that nobody has come in the way of. *)
TouchesNothing(p) ==
  Doing(p, "touch", "write") /\ ~Arg(p).truncate => ~Present(Arg(p).path)

MethodsInv == TasksInv /\ \A p \in Programs \ raced : TouchesNothing(p)

LEMMA MethodsInvInit ==
  ASSUME Init
  PROVE  MethodsInv
<1>1. \A p \in Programs : task[p] = NoCall
  BY DEF Init, AdapterInit
<1>2. TasksInv
  BY DEF Init, AdapterInit, TasksInv
<1> QED BY <1>1, <1>2 DEF MethodsInv, TouchesNothing, Doing, NoCall

(* The call is in another phase. *)
Turns(p, phase) ==
  /\ task'[p].phase = phase /\ task'[p].call = task[p].call
  /\ \A o \in Programs \ {p} : task'[o] = task[o]

(* A step of a method: its record changes, the others do not. *)
Steps(p) ==
  /\ task' \in [Programs -> {task'[o] : o \in Programs}]
  /\ TaskWell(task'[p])
  /\ \A o \in Programs \ {p} : task'[o] = task[o]

LEMMA TasksKept ==
  ASSUME TasksInv, NEW p \in Programs, Steps(p)
  PROVE  TasksInv'
BY DEF TasksInv, Steps

LEMMA BeginTaskSays ==
  ASSUME TasksInv, NEW p \in Programs, NEW call \in Calls, BeginTask(p, call)
  PROVE  /\ TasksInv' /\ task'[p].phase = "begin"
         /\ \A o \in Programs \ {p} : task'[o] = task[o]
<1> DEFINE t == [phase |-> "begin", call |-> call, asDirectory |-> FALSE, to |-> <<>>,
                 found |-> {}, left |-> {}, prefix |-> <<>>, item |-> <<>>, node |-> 0,
                 outcome |-> "none"]
<1>1. task' = [task EXCEPT ![p] = t]
  BY DEF BeginTask
<1>2. TaskWell(t) /\ t.phase = "begin"
  BY DEF TaskWell, IsTask
<1> HIDE DEF t
<1>3. Steps(p) /\ task'[p] = t
  BY <1>1, <1>2 DEF Steps, TasksInv
<1> QED BY <1>2, <1>3, TasksKept DEF Steps

(* The record of a call after a step. *)
LEMMA PhaseSays ==
  ASSUME TasksInv, NEW p \in Programs, TaskWell(task[p]), NEW phase,
         Proceed(p, phase), phase # "target", phase # "move"
  PROVE  TasksInv' /\ Turns(p, phase)
<1> DEFINE t == [task[p] EXCEPT !.phase = phase]
<1>1. task' = [task EXCEPT ![p] = t]
  BY DEF Proceed
<1>2. TaskWell(t) /\ t.phase = phase /\ t.call = task[p].call
  BY DEF TaskWell, IsTask
<1> HIDE DEF t
<1>3. Steps(p) /\ task'[p] = t
  BY <1>1, <1>2 DEF Steps, TasksInv
<1> QED BY <1>2, <1>3, TasksKept DEF Steps, Turns

LEMMA OverSays ==
  ASSUME TasksInv, NEW p \in Programs, TaskWell(task[p]), Return(p) \/ Raise(p)
  PROVE  TasksInv' /\ Turns(p, "over")
<1>1. PICK outcome : Over(p, outcome)
  BY DEF Return, Raise
<1>2. task' = [task EXCEPT ![p].phase = "over", ![p].outcome = outcome]
  BY <1>1 DEF Over
<1>3. /\ task' \in [Programs -> {task'[o] : o \in Programs}]
      /\ \A o \in Programs \ {p} : task'[o] = task[o]
  BY <1>2 DEF TasksInv
<1>4. TaskWell(task'[p]) /\ task'[p].phase = "over" /\ task'[p].call = task[p].call
  BY <1>2 DEF TaskWell, IsTask, TasksInv
<1>5. Steps(p)
  BY <1>3, <1>4 DEF Steps
<1>6. TasksInv'
  BY <1>5, TasksKept
<1> QED BY <1>3, <1>4, <1>6 DEF Turns

LEMMA StepHasTask ==
  ASSUME TasksInv, NEW p \in Programs, AdapterStep(p)
  PROVE  Running(p) /\ TaskWell(task[p])
<1>1. Running(p)
  BY DEF AdapterStep, MvLook, MvTarget, MvMove, CopyFindInfo, CopyFindNodes, CopyIsFile,
         CopyIsDir, CopyEmptyTarget, CopyMakeEmpty, CopyTarget, ItemLook, ItemMakedirs,
         ItemSource, ItemWrite, TouchLook, TouchWrite, MakedirsCall, RmCall, Doing, Running
<1> QED BY <1>1 DEF TasksInv, Running, NoCall

LEMMA CallSays ==
  ASSUME NEW call \in Calls
  PROVE  IF call.op \in {"mv", "copy"}
         THEN call.src \in Seq(Names) \ {<<>>} /\ call.dst \in Seq(Names)
         ELSE call.path \in Seq(Names) \ {<<>>}
BY AdapterAssumption

LEMMA IntoSays ==
  ASSUME NEW src \in Seq(Names) \ {<<>>}, NEW dst \in Seq(Names)
  PROVE  IntoDirectory(src, dst) \in Seq(Names) \ {<<>>}
<1>1. Last(src) \in Names
  BY DEF Last
<1> DEFINE n == Last(src)
<1> HIDE DEF n
<1>2. Append(dst, n) \in Seq(Names) /\ Append(dst, n) # <<>>
  BY <1>1, AppendProperties DEF n
<1> QED BY <1>2 DEF IntoDirectory, n

(* What the paths to be copied have in common is one of their beginnings. *)
LEMMA PrefixSays ==
  ASSUME NEW S \in SUBSET Seq(Names), S # {}, NEW exists
  PROVE  Len(ReplacedPrefix(S, exists)) \in Nat
<1> DEFINE r == CHOOSE q \in S : TRUE
           common == {k \in 0..Len(r) : \A q \in S : k <= Len(q) /\ Upto(q, k) = Upto(r, k)}
           longest == CHOOSE k \in common : \A j \in common : j <= k
<1>1. r \in S /\ r \in Seq(Names) /\ Len(r) \in Nat
  OBVIOUS
<1> HIDE DEF r
<1>2. ASSUME NEW q \in Seq(Names)
      PROVE  Upto(q, 0) = <<>> /\ Len(q) \in Nat
  BY <1>2 DEF Upto
<1>3. 0 \in common
  BY <1>1, <1>2
<1>4. \E k \in common : \A j \in common : j <= k
  <2> DEFINE W == {Len(r) - k : k \in common}
  <2>1. W \in SUBSET Nat /\ W # {}
    BY <1>1, <1>3
  <2> HIDE DEF W
  <2>2. PICK n \in W : \A m \in W : n <= m
    BY <2>1, LeastNumber
  <2>3. PICK k \in common : n = Len(r) - k
    BY DEF W
  <2>4. ASSUME NEW j \in common
        PROVE  j <= k
    <3>1. Len(r) - j \in W
      BY DEF W
    <3>2. Len(r) - k <= Len(r) - j
      BY <2>2, <2>3, <3>1
    <3>3. j \in Nat /\ k \in Nat
      BY <1>1
    <3> QED BY <1>1, <3>2, <3>3
  <2> QED BY <2>4
<1>5. longest \in common
  BY <1>4
<1>6. longest \in 0..Len(r)
  BY <1>5
<1>7. CommonPrefix(S) = Upto(r, longest)
  BY DEF CommonPrefix, r
<1> HIDE DEF longest, common
<1>8. CommonPrefix(S) \in Seq(Names) /\ Len(CommonPrefix(S)) \in Nat
  BY <1>1, <1>6, <1>7, UptoSays
<1>9. Len(Parent(CommonPrefix(S))) \in Nat
  <2> DEFINE c == CommonPrefix(S)
  <2>1. c \in Seq(Names)
    BY <1>8
  <2> HIDE DEF c
  <2>2. CASE Len(c) = 0
    BY <2>1, <2>2 DEF Parent, Upto, c
  <2>3. CASE Len(c) # 0
    BY <2>1, <2>3, UptoSays DEF Parent, c
  <2> QED BY <2>2, <2>3
<1> QED BY <1>8, <1>9 DEF ReplacedPrefix

-----------------------------------------------------------------------------
(* A call of a method that only looks. *)
MethodLooks(p) ==
  /\ UNCHANGED fsVars
  /\ TasksInv' /\ task'[p].call = task[p].call
  /\ \A o \in Programs \ {p} : task'[o] = task[o]
  /\ Doing(p, "touch", "write")' => Arg(p).truncate \/ ~Present(Arg(p).path)

(* A call of a method that changes the tree; a recursive copy has more of them. *)
MethodWrites(p) ==
  /\ TasksInv' /\ task'[p] # task[p]
  /\ \A o \in Programs \ {p} : task'[o] = task[o]
  /\ ~Doing(p, "touch", "write")'
  /\ \/ /\ Arg(p).op = "mv" /\ task[p].to # <<>>
        /\ Move(Arg(p).src, task[p].to, Arg(p).overwrite)
     \/ \E q \in Seq(Names) : Makedirs(q)
     \/ /\ Arg(p).op = "copy" /\ ItemTarget(p) \in Seq(Names) \ {<<>>}
        /\ CopyInto(task[p].node, ItemTarget(p))
     \/ Doing(p, "touch", "write") /\ Store(Arg(p).path, <<>>)
     \/ Arg(p).op = "rm" /\ Delete(Arg(p).path, Arg(p).recursive)

LEMMA OverLooks ==
  ASSUME TasksInv, NEW p \in Programs, TaskWell(task[p]), Return(p) \/ Raise(p),
         UNCHANGED fsVars
  PROVE  MethodLooks(p)
BY OverSays DEF MethodLooks, Turns, Doing

LEMMA PhaseLooks ==
  ASSUME TasksInv, NEW p \in Programs, TaskWell(task[p]), NEW phase, Proceed(p, phase),
         phase \notin {"target", "move"}, UNCHANGED fsVars,
         Arg(p).op = "touch" /\ phase = "write" => Arg(p).truncate \/ ~Present(Arg(p).path)
  PROVE  MethodLooks(p)
<1>1. TasksInv' /\ Turns(p, phase)
  BY PhaseSays
<1> QED BY <1>1 DEF MethodLooks, Turns, Doing, Arg

LEMMA StepLooks ==
  ASSUME TasksInv, NEW p \in Programs, Steps(p), UNCHANGED fsVars,
         task'[p].call = task[p].call, Arg(p).op # "touch"
  PROVE  MethodLooks(p)
<1>1. TasksInv'
  BY TasksKept
<1> QED BY <1>1 DEF MethodLooks, Steps, Doing, Arg

LEMMA OverWrites ==
  ASSUME TasksInv, NEW p \in Programs, TaskWell(task[p]), Return(p), Running(p)
  PROVE  /\ TasksInv' /\ task'[p] # task[p] /\ ~Doing(p, "touch", "write")'
         /\ \A o \in Programs \ {p} : task'[o] = task[o]
BY OverSays DEF Turns, Running, Doing

(* What is left of a path behind some of its segments. *)
LEMMA BehindSays ==
  ASSUME NEW s \in Seq(Names), NEW n \in Nat
  PROVE  SubSeq(s, n + 1, Len(s)) \in Seq(Names)
<1> DEFINE m == n + 1
<1>1. \A i \in m..Len(s) : s[i] \in Names
  OBVIOUS
<1> QED BY <1>1, SubSeqProperties

LEMMA ItemPathsSay ==
  ASSUME TasksInv, NEW p \in Programs, TaskWell(task[p]), Arg(p).op = "copy"
  PROVE  ItemTarget(p) \in Seq(Names)
<1> DEFINE item == task[p].item
           n == Len(task[p].prefix)
           s == SubSeq(item, n + 1, Len(item))
<1>1. item \in Seq(Names) /\ n \in Nat /\ Arg(p).dst \in Seq(Names)
  BY CallSays DEF TaskWell, Arg
<1>2. s \in Seq(Names)
  BY <1>1, BehindSays
<1> HIDE DEF s
<1>3. Arg(p).dst \o s \in Seq(Names)
  BY <1>1, <1>2, ConcatProperties, Zenon
<1> QED BY <1>3 DEF ItemTarget, s

LEMMA MvSays ==
  ASSUME TasksInv, NEW p \in Programs, TaskWell(task[p]), Running(p),
         MvLook(p) \/ MvTarget(p) \/ MvMove(p)
  PROVE  MethodLooks(p) \/ MethodWrites(p)
<1>1. Arg(p).op = "mv" /\ Arg(p).src \in Seq(Names) \ {<<>>} /\ Arg(p).dst \in Seq(Names)
  <2>1. Arg(p).op = "mv" /\ Arg(p) \in Calls
    BY DEF MvLook, MvTarget, MvMove, Doing, Arg, TaskWell
  <2> QED BY <2>1, CallSays
<1>2. CASE MvLook(p)
  <2>1. UNCHANGED fsVars
    BY <1>2 DEF MvLook, Look
  <2>2. CASE Return(p)
    BY <2>1, <2>2, OverLooks
  <2>3. CASE ~Return(p)
    <3>1. PICK dir : task' = [task EXCEPT ![p].phase = "target", ![p].asDirectory = dir]
      BY <1>2, <2>3 DEF MvLook
    <3>2. Steps(p) /\ task'[p].call = task[p].call
      BY <1>1, <3>1 DEF Steps, TasksInv, TaskWell, IsTask, Arg
    <3> QED BY <1>1, <2>1, <3>2, StepLooks
  <2> QED BY <2>2, <2>3
<1>3. CASE MvTarget(p)
  <2>1. UNCHANGED fsVars
    BY <1>3 DEF MvTarget, Look
  <2> DEFINE to == IF IsDir(Arg(p).dst) THEN IntoDirectory(Arg(p).src, Arg(p).dst) ELSE Arg(p).dst
  <2>2. to \in Seq(Names) \ {<<>>}
    <3>1. CASE IsDir(Arg(p).dst)
      BY <1>1, <3>1, IntoSays
    <3>2. CASE ~IsDir(Arg(p).dst)
      BY <1>1, <3>2 DEF IsDir
    <3> QED BY <3>1, <3>2
  <2>3. task' = [task EXCEPT ![p].phase = "move", ![p].to = to]
    BY <1>3 DEF MvTarget
  <2> HIDE DEF to
  <2>4. Steps(p) /\ task'[p].call = task[p].call
    BY <1>1, <2>2, <2>3 DEF Steps, TasksInv, TaskWell, IsTask
  <2> QED BY <1>1, <2>1, <2>4, StepLooks
<1>4. CASE MvMove(p)
  <2>1. CASE UNCHANGED fsVars
    <3>1. Return(p) \/ Raise(p)
      BY <1>4 DEF MvMove
    <3> QED BY <2>1, <3>1, OverLooks
  <2>2. CASE ~(UNCHANGED fsVars)
    <3>1. /\ Return(p) /\ task[p].phase = "move"
          /\ Move(Arg(p).src, task[p].to, Arg(p).overwrite)
      BY <1>4, <2>2 DEF MvMove, Look, Doing
    <3>2. task[p].to # <<>>
      BY <3>1 DEF TaskWell
    <3> QED BY <1>1, <3>1, <3>2, OverWrites DEF MethodWrites
  <2> QED BY <2>1, <2>2
<1> QED BY <1>2, <1>3, <1>4

LEMMA FoundBelowSays ==
  ASSUME SoundTree, NEW src \in Seq(Names)
  PROVE  FoundBelow(src) \subseteq Seq(Names)
<1> SUFFICES ASSUME NEW r \in DOMAIN tree, NEW q \in Ancestors(r) \cup {r}
             PROVE  q \in Seq(Names)
  BY DEF FoundBelow
<1>1. r \in Seq(Names)
  BY DEF SoundTree
<1> QED BY <1>1, UptoSays DEF Ancestors

(* The lookups of a recursive copy. *)
LEMMA CopyLooks ==
  ASSUME TasksInv, SoundTree, NEW p \in Programs, TaskWell(task[p]), Running(p),
         \/ CopyFindInfo(p) \/ CopyFindNodes(p) \/ CopyIsFile(p) \/ CopyIsDir(p)
         \/ CopyEmptyTarget(p) \/ CopyTarget(p) \/ ItemLook(p) \/ ItemSource(p)
  PROVE  MethodLooks(p)
<1>1. UNCHANGED fsVars
  BY DEF CopyFindInfo, CopyFindNodes, CopyIsFile, CopyIsDir, CopyEmptyTarget, CopyTarget,
         ItemLook, ItemSource, Look
<1>2. /\ Arg(p).op = "copy" /\ Arg(p).src \in Seq(Names) \ {<<>>} /\ Arg(p).dst \in Seq(Names)
  <2>1. Arg(p).op = "copy" /\ Arg(p) \in Calls
    BY DEF CopyFindInfo, CopyFindNodes, CopyIsFile, CopyIsDir, CopyEmptyTarget, CopyTarget,
           ItemLook, ItemSource, Doing, Arg, TaskWell
  <2> QED BY <2>1, CallSays
<1>3. ASSUME Return(p) \/ Raise(p)
      PROVE  MethodLooks(p)
  BY <1>1, <1>3, OverLooks
<1>4. ASSUME NEW phase, Proceed(p, phase), phase \notin {"target", "move"}
      PROVE  MethodLooks(p)
  BY <1>1, <1>2, <1>4, PhaseLooks
<1>5. ASSUME Steps(p), task'[p].call = task[p].call
      PROVE  MethodLooks(p)
  BY <1>1, <1>2, <1>5, StepLooks
<1>6. ASSUME NEW phase \in {"target", "isfile"}, NEW found \in SUBSET Seq(Names),
             phase = "target" => found # {},
             task' = [task EXCEPT ![p].phase = phase, ![p].found = found]
      PROVE  MethodLooks(p)
  <2>1. Steps(p) /\ task'[p].call = task[p].call
    BY <1>6 DEF Steps, TasksInv, TaskWell, IsTask
  <2> QED BY <1>5, <2>1
<1>7. CASE CopyFindInfo(p)
  <2>1. \/ task' = [task EXCEPT ![p].phase = "target", ![p].found = {Arg(p).src}]
        \/ Proceed(p, "nodes")
    BY <1>7 DEF CopyFindInfo
  <2>2. CASE task' = [task EXCEPT ![p].phase = "target", ![p].found = {Arg(p).src}]
    <3> DEFINE found == {Arg(p).src}
    <3>1. found \in SUBSET Seq(Names) /\ found # {}
      BY <1>2
    <3>2. task' = [task EXCEPT ![p].phase = "target", ![p].found = found]
      BY <2>2
    <3> HIDE DEF found
    <3> QED BY <1>6, <3>1, <3>2
  <2> QED BY <1>4, <2>1, <2>2
<1>8. CASE CopyFindNodes(p)
  <2> DEFINE found == FoundBelow(Arg(p).src)
             phase == IF found = {} THEN "isfile" ELSE "target"
  <2>1. task' = [task EXCEPT ![p].phase = phase, ![p].found = found]
    BY <1>8 DEF CopyFindNodes
  <2>2. found \in SUBSET Seq(Names)
    BY <1>2, FoundBelowSays
  <2>3. phase \in {"target", "isfile"} /\ (phase = "target" => found # {})
    OBVIOUS
  <2> HIDE DEF found, phase
  <2> QED BY <1>6, <2>1, <2>2, <2>3
<1>9. CASE CopyIsFile(p)
  <2>1. \/ task' = [task EXCEPT ![p].phase = "target", ![p].found = {Arg(p).src}]
        \/ Proceed(p, "isdir")
    BY <1>9 DEF CopyIsFile
  <2>2. CASE task' = [task EXCEPT ![p].phase = "target", ![p].found = {Arg(p).src}]
    <3> DEFINE found == {Arg(p).src}
    <3>1. found \in SUBSET Seq(Names) /\ found # {}
      BY <1>2
    <3>2. task' = [task EXCEPT ![p].phase = "target", ![p].found = found]
      BY <2>2
    <3> HIDE DEF found
    <3> QED BY <1>6, <3>1, <3>2
  <2> QED BY <1>4, <2>1, <2>2
<1>10. CASE CopyIsDir(p)
  <2>1. Proceed(p, "empty") \/ Return(p) \/ Raise(p)
    BY <1>10 DEF CopyIsDir
  <2> QED BY <1>3, <1>4, <2>1
<1>11. CASE CopyEmptyTarget(p)
  <2> DEFINE to == IF Arg(p).slash \/ IsDir(Arg(p).dst)
                   THEN IntoDirectory(Arg(p).src, Arg(p).dst) ELSE Arg(p).dst
  <2>1. task' = [task EXCEPT ![p].phase = "mkempty", ![p].to = to]
    BY <1>11 DEF CopyEmptyTarget
  <2>2. IntoDirectory(Arg(p).src, Arg(p).dst) \in Seq(Names)
    BY <1>2, IntoSays
  <2>3. to \in Seq(Names)
    BY <1>2, <2>2
  <2> HIDE DEF to
  <2>4. Steps(p) /\ task'[p].call = task[p].call
    BY <2>1, <2>3 DEF Steps, TasksInv, TaskWell, IsTask
  <2> QED BY <1>5, <2>4
<1>12. CASE CopyTarget(p)
  <2>1. PICK exists : task' = [task EXCEPT ![p].phase = "items", ![p].left = task[p].found,
                                   ![p].prefix = ReplacedPrefix(task[p].found, exists)]
    BY <1>12 DEF CopyTarget
  <2>2. task[p].found \in SUBSET Seq(Names) /\ task[p].found # {}
    BY <1>2, <1>12 DEF CopyTarget, Doing, TaskWell
  <2> DEFINE prefix == ReplacedPrefix(task[p].found, exists)
  <2>3. Len(prefix) \in Nat
    BY <2>2, PrefixSays
  <2> HIDE DEF prefix
  <2>4. task' = [task EXCEPT ![p].phase = "items", ![p].left = task[p].found, ![p].prefix = prefix]
    BY <2>1 DEF prefix
  <2>5. Steps(p) /\ task'[p].call = task[p].call
    BY <2>3, <2>4 DEF Steps, TasksInv, TaskWell, IsTask
  <2> QED BY <1>5, <2>5
<1>13. CASE ItemLook(p)
  <2>1. CASE task[p].left = {}
    BY <1>3, <1>13, <2>1 DEF ItemLook
  <2>2. CASE task[p].left # {}
    <3>1. PICK q \in task[p].left :
            task' = [task EXCEPT ![p].phase = IF IsDir(q) THEN "mkitem" ELSE "source",
                                 ![p].item = q, ![p].left = @ \ {q}]
      BY <1>13, <2>2 DEF ItemLook
    <3> DEFINE phase == IF IsDir(q) THEN "mkitem" ELSE "source"
               left == task[p].left \ {q}
    <3>2. q \in Seq(Names) /\ left \subseteq Seq(Names) /\ phase \in {"mkitem", "source"}
      BY DEF TaskWell
    <3>3. task' = [task EXCEPT ![p].phase = phase, ![p].item = q, ![p].left = left]
      BY <3>1 DEF TasksInv
    <3> HIDE DEF phase, left
    <3>4. Steps(p) /\ task'[p].call = task[p].call
      BY <3>2, <3>3 DEF Steps, TasksInv, TaskWell, IsTask
    <3> QED BY <1>5, <3>4
  <2> QED BY <2>1, <2>2
<1>14. CASE ItemSource(p)
  <2>1. \/ \E node : task' = [task EXCEPT ![p].phase = "write", ![p].node = node]
        \/ Proceed(p, "items") \/ Raise(p)
    BY <1>14 DEF ItemSource, NextItem
  <2>2. ASSUME NEW node, task' = [task EXCEPT ![p].phase = "write", ![p].node = node]
        PROVE  MethodLooks(p)
    <3>1. Steps(p) /\ task'[p].call = task[p].call
      BY <2>2 DEF Steps, TasksInv, TaskWell, IsTask
    <3> QED BY <1>5, <3>1
  <2> QED BY <1>3, <1>4, <2>1, <2>2
<1> QED BY <1>7, <1>8, <1>9, <1>10, <1>11, <1>12, <1>13, <1>14

(* The directories and files of a recursive copy, and the methods of one call. *)
LEMMA PhaseWrites ==
  ASSUME TasksInv, NEW p \in Programs, TaskWell(task[p]), NextItem(p), task[p].phase # "items"
  PROVE  /\ TasksInv' /\ task'[p] # task[p] /\ ~Doing(p, "touch", "write")'
         /\ \A o \in Programs \ {p} : task'[o] = task[o]
BY PhaseSays DEF NextItem, Turns, Doing

LEMMA OthersSay ==
  ASSUME TasksInv, SoundTree, NEW p \in Programs, TaskWell(task[p]), Running(p),
         \/ CopyMakeEmpty(p) \/ ItemMakedirs(p) \/ ItemWrite(p)
         \/ TouchLook(p) \/ TouchWrite(p) \/ MakedirsCall(p) \/ RmCall(p)
  PROVE  MethodLooks(p) \/ MethodWrites(p)
<1>1. Arg(p) \in Calls
  BY DEF TaskWell, Arg
<1>2. ASSUME Return(p) \/ Raise(p), Look
      PROVE  MethodLooks(p)
  BY <1>2, OverLooks DEF Look
<1>3. CASE CopyMakeEmpty(p)
  <2>1. task[p].to \in Seq(Names)
    BY DEF TaskWell
  <2>2. CASE Makedirs(task[p].to) /\ Return(p)
    BY <2>1, <2>2, OverWrites DEF MethodWrites
  <2> QED BY <1>2, <1>3, <2>2 DEF CopyMakeEmpty
<1>4. CASE ItemMakedirs(p)
  <2>1. Arg(p).op = "copy" /\ task[p].phase = "mkitem"
    BY <1>4 DEF ItemMakedirs, Doing, Arg
  <2>2. ItemTarget(p) \in Seq(Names)
    BY <2>1, ItemPathsSay
  <2>3. CASE Makedirs(ItemTarget(p)) /\ NextItem(p)
    BY <2>1, <2>2, <2>3, PhaseWrites DEF MethodWrites
  <2> QED BY <1>2, <1>4, <2>3 DEF ItemMakedirs
<1>5. CASE ItemWrite(p)
  <2>1. Arg(p).op = "copy" /\ task[p].phase = "write"
    BY <1>5 DEF ItemWrite, Doing, Arg
  <2>2. ItemTarget(p) \in Seq(Names)
    BY <2>1, ItemPathsSay
  <2>3. CASE ItemTarget(p) # <<>> /\ CopyInto(task[p].node, ItemTarget(p)) /\ NextItem(p)
    BY <2>1, <2>2, <2>3, PhaseWrites DEF MethodWrites
  <2> QED BY <1>2, <1>5, <2>3 DEF ItemWrite
<1>6. CASE TouchLook(p)
  <2>1. UNCHANGED fsVars
    BY <1>6 DEF TouchLook, Look
  <2>2. CASE Proceed(p, "write") /\ (Arg(p).truncate \/ ~Present(Arg(p).path))
    BY <2>1, <2>2, PhaseLooks
  <2> QED BY <1>2, <1>6, <2>2 DEF TouchLook
<1>7. CASE TouchWrite(p)
  <2>1. Doing(p, "touch", "write")
    BY <1>7 DEF TouchWrite
  <2>2. CASE Store(Arg(p).path, <<>>) /\ Return(p)
    BY <2>1, <2>2, OverWrites DEF MethodWrites
  <2> QED BY <1>2, <1>7, <2>2 DEF TouchWrite
<1>8. CASE MakedirsCall(p)
  <2>1. Arg(p).op = "makedirs"
    BY <1>8 DEF MakedirsCall, Doing, Arg
  <2>2. Arg(p).path \in Seq(Names)
    BY <1>1, <2>1, CallSays
  <2>3. CASE Makedirs(Arg(p).path) /\ Return(p)
    BY <2>2, <2>3, OverWrites DEF MethodWrites
  <2> QED BY <1>2, <1>8, <2>3 DEF MakedirsCall
<1>9. CASE RmCall(p)
  <2>1. Arg(p).op = "rm"
    BY <1>9 DEF RmCall, Doing, Arg
  <2>2. CASE Delete(Arg(p).path, Arg(p).recursive) /\ Return(p)
    BY <2>1, <2>2, OverWrites DEF MethodWrites
  <2> QED BY <1>2, <1>9, <2>2 DEF RmCall
<1> QED BY <1>3, <1>4, <1>5, <1>6, <1>7, <1>8, <1>9

LEMMA MethodSays ==
  ASSUME TasksInv, SoundTree, NEW p \in Programs, AdapterStep(p)
  PROVE  Running(p) /\ TaskWell(task[p]) /\ (MethodLooks(p) \/ MethodWrites(p))
<1>1. Running(p) /\ TaskWell(task[p])
  BY StepHasTask
<1>2. CASE MvLook(p) \/ MvTarget(p) \/ MvMove(p)
  BY <1>1, <1>2, MvSays
<1>3. CASE \/ CopyFindInfo(p) \/ CopyFindNodes(p) \/ CopyIsFile(p) \/ CopyIsDir(p)
           \/ CopyEmptyTarget(p) \/ CopyTarget(p) \/ ItemLook(p) \/ ItemSource(p)
  BY <1>1, <1>3, CopyLooks
<1>4. CASE \/ CopyMakeEmpty(p) \/ ItemMakedirs(p) \/ ItemWrite(p)
           \/ TouchLook(p) \/ TouchWrite(p) \/ MakedirsCall(p) \/ RmCall(p)
  BY <1>1, <1>4, OthersSay
<1> QED BY <1>1, <1>2, <1>3, <1>4 DEF AdapterStep

(* Another touch is left as it was, unless somebody has come in its way. *)
LEMMA MethodLeft ==
  ASSUME MethodsInv, NEW a, NEW created, Moved(a, created), NEW p \in Programs \ {a},
         task'[p] = task[p], p \notin raced'
  PROVE  TouchesNothing(p)'
<1>1. p \notin raced /\ Arg(p)' = Arg(p) /\ (Doing(p, "touch", "write")' <=> Doing(p, "touch", "write"))
  BY DEF Moved, Arg, Doing
<1>2. TouchesNothing(p)
  BY <1>1 DEF MethodsInv
<1>3. CASE Doing(p, "touch", "write") /\ ~Arg(p).truncate
  <2>1. p \notin Clients
    BY ClientsAssumption
  <2>2. Active(p) /\ Arg(p).path \in Watched(p) /\ p \in Agents \ {a}
    BY <1>3, <2>1 DEF Active, Running, Watched, Agents, Doing, Arg
  <2> DEFINE w == Arg(p).path
  <2>3. ~Present(w) /\ w \in Watched(p)
    BY <1>2, <1>3, <2>2 DEF TouchesNothing
  <2> HIDE DEF w
  <2>4. PICK v : v = w
    OBVIOUS
  <2>5. ~Present(v)'
    BY <2>2, <2>3, <2>4, AbsentStays
  <2>6. v = w'
    BY <1>1, <2>4 DEF w
  <2> QED BY <2>5, <2>6 DEF TouchesNothing, w
<1> QED BY <1>1, <1>3 DEF TouchesNothing

LEMMA TouchesSame ==
  ASSUME NEW p, tree' = tree, task'[p] = task[p], TouchesNothing(p)
  PROVE  TouchesNothing(p)'
BY SamePresent DEF TouchesNothing, Doing, Arg

LEMMA BeginKeepsMethods ==
  ASSUME MethodsInv, NEW p \in Programs, NEW call \in Calls, BeginTask(p, call), Begun(p)
  PROVE  MethodsInv'
<1>1. /\ TasksInv' /\ task'[p].phase = "begin"
      /\ \A o \in Programs \ {p} : task'[o] = task[o]
  BY BeginTaskSays DEF MethodsInv
<1>2. tree' = tree /\ raced' = raced \ {p}
  BY DEF BeginTask, Begun, fsVars
<1>3. ASSUME NEW o \in Programs, o \notin raced'
      PROVE  TouchesNothing(o)'
  <2>1. CASE o = p
    BY <1>1, <2>1 DEF TouchesNothing, Doing
  <2>2. CASE o # p
    BY <1>1, <1>2, <1>3, <2>2, TouchesSame DEF MethodsInv
  <2> QED BY <2>1, <2>2
<1> QED BY <1>1, <1>3 DEF MethodsInv

LEMMA MethodKeeps ==
  ASSUME MethodsInv, SoundTree, NEW p \in Programs, AdapterStep(p), NEW created, Moved(p, created)
  PROVE  MethodsInv'
<1>1. MethodLooks(p) \/ MethodWrites(p)
  BY MethodSays DEF MethodsInv
<1>2. TasksInv' /\ \A o \in Programs \ {p} : task'[o] = task[o]
  BY <1>1 DEF MethodLooks, MethodWrites
<1>3. TouchesNothing(p)'
  <2>1. CASE MethodWrites(p)
    BY <2>1 DEF MethodWrites, TouchesNothing
  <2>2. CASE MethodLooks(p)
    <3>1. tree' = tree /\ Arg(p)' = Arg(p)
      BY <2>2 DEF MethodLooks, fsVars, Arg
    <3> QED BY <2>2, <3>1, SamePresent DEF MethodLooks, TouchesNothing
  <2> QED BY <1>1, <2>1, <2>2
<1>4. \A o \in Programs \ raced' : TouchesNothing(o)'
  BY <1>2, <1>3, MethodLeft
<1> QED BY <1>2, <1>4 DEF MethodsInv

(* A step of a method leaves a sound tree, and loses what it may lose. *)
LEMMA MethodLoses ==
  ASSUME MethodsInv, SoundTree, NEW p \in Programs, AdapterStep(p)
  PROVE  /\ SoundTree'
         /\ \A q \in DOMAIN tree : Lost(q) => task[p] # task'[p] /\ Active(p) /\ MayLose(p, q)
<1> DEFINE Fine == /\ SoundTree'
                   /\ \A q \in DOMAIN tree : Lost(q) => MayLose(p, q)
<1>1. Running(p) /\ TaskWell(task[p]) /\ (MethodLooks(p) \/ MethodWrites(p))
  BY MethodSays DEF MethodsInv
<1>2. p \notin Clients /\ Arg(p) \in Calls /\ TasksInv
  BY <1>1, ClientsAssumption DEF TaskWell, Arg, MethodsInv
<1>3. CASE MethodLooks(p)
  <2>1. tree' = tree
    BY <1>3 DEF MethodLooks, fsVars
  <2> QED BY <2>1, SameTreeLosesNothing DEF SoundTree, IsFile
<1>4. CASE MethodWrites(p)
  <2>1. task[p] # task'[p] /\ Active(p)
    BY <1>1, <1>2, <1>4 DEF MethodWrites, Active
  <2>2. ASSUME Arg(p).op = "mv", task[p].to # <<>>,
               Move(Arg(p).src, task[p].to, Arg(p).overwrite)
        PROVE  Fine
    <3>1. Arg(p).src \in Seq(Names) /\ task[p].to \in Seq(Names) \ {<<>>}
      BY <1>1, <1>2, <2>2, CallSays DEF TaskWell
    <3>2. /\ SoundTree' /\ Spares(TreeAt(task[p].to))
          /\ TreeAt(task[p].to) # {} => Arg(p).overwrite
      BY <2>2, <3>1, MoveSpares
    <3>3. \A q \in DOMAIN tree : Lost(q) => q \in TreeAt(task[p].to)
      BY <3>2, SparedIsNotLost
    <3> QED BY <1>2, <2>2, <3>2, <3>3 DEF MayLose, TreeAt
  <2>3. ASSUME NEW q \in Seq(Names), Makedirs(q)
        PROVE  Fine
    <3>1. SoundTree' /\ Spares({})
      BY <2>3, MakedirsSpares
    <3> QED BY <3>1, SparedIsNotLost
  <2>4. ASSUME Arg(p).op = "copy", ItemTarget(p) \in Seq(Names) \ {<<>>},
               CopyInto(task[p].node, ItemTarget(p))
        PROVE  Fine
    <3>1. SoundTree' /\ Spares({ItemTarget(p)})
      BY <2>4, CopyIntoSpares
    <3>2. \A q \in DOMAIN tree : Lost(q) => q = ItemTarget(p)
      BY <3>1, SparedIsNotLost
    <3> QED BY <1>2, <2>4, <3>1, <3>2 DEF MayLose
  <2>5. ASSUME Doing(p, "touch", "write"), Store(Arg(p).path, <<>>)
        PROVE  Fine
    <3>1. Arg(p).op = "touch"
      BY <2>5 DEF Doing, Arg
    <3>2. Arg(p).path \in Seq(Names) \ {<<>>}
      BY <1>2, <3>1, CallSays
    <3>3. SoundTree' /\ Spares({Arg(p).path})
      BY <2>5, <3>2, StoreSpares
    <3>4. ASSUME NEW q \in DOMAIN tree, Lost(q)
          PROVE  q = Arg(p).path /\ (Arg(p).truncate \/ p \in raced)
      <4>1. q = Arg(p).path
        BY <3>3, <3>4, SparedIsNotLost
      <4>2. Present(Arg(p).path)
        BY <4>1 DEF Present, TreeAt
      <4> QED BY <2>5, <4>1, <4>2 DEF MethodsInv, TouchesNothing
    <3> QED BY <1>2, <3>1, <3>3, <3>4 DEF MayLose
  <2>6. ASSUME Arg(p).op = "rm", Delete(Arg(p).path, Arg(p).recursive)
        PROVE  Fine
    <3>1. SoundTree' /\ Spares(TreeAt(Arg(p).path))
      BY <2>6, DeleteSpares
    <3>2. \A q \in DOMAIN tree : Lost(q) => q \in TreeAt(Arg(p).path)
      BY <3>1, SparedIsNotLost
    <3> QED BY <1>2, <2>6, <3>1, <3>2 DEF MayLose, TreeAt
  <2>7. Fine
    BY <1>4, <2>2, <2>3, <2>4, <2>5, <2>6 DEF MethodWrites
  <2> QED BY <2>1, <2>7
<1> QED BY <1>1, <1>3, <1>4

(* All of them together. *)
LossInv == SoundTree /\ HandlersInv /\ MethodsInv

LEMMA LossInvInit ==
  ASSUME Init
  PROVE  LossInv
<1>1. SoundTree
  BY TreesAssumption DEF Init, SoundTree, IsFile
<1> QED BY <1>1, HandlersInvInit, MethodsInvInit DEF LossInv

LEMMA LossStep ==
  ASSUME LossInv, Next
  PROVE  /\ LossInv'
         /\ \A p \in DOMAIN tree : Lost(p) =>
              \E a \in Agents : (IF a \in Clients THEN web[a] # web'[a] ELSE task[a] # task'[a])
                                /\ Active(a) /\ MayLose(a, p)
<1> USE DEF LossInv
<1>1. ASSUME NEW c \in Clients, ClientStep(c)
      PROVE  /\ LossInv'
             /\ \A p \in DOMAIN tree : Lost(p) =>
                  \E a \in Agents : (IF a \in Clients THEN web[a] # web'[a] ELSE task[a] # task'[a])
                                    /\ Active(a) /\ MayLose(a, p)
  <2>1. task' = task /\ c \in Agents
    BY <1>1 DEF ClientStep, Agents
  <2>2. ASSUME NEW r \in Requests, Receive(c, r), Begun(c)
        PROVE  LossInv' /\ \A p \in DOMAIN tree : ~Lost(p)
    <3>1. tree' = tree /\ raced' = raced \ {c}
      BY <2>2 DEF Receive, Begun, fsVars
    <3>2. SoundTree'
      BY <3>1 DEF SoundTree, IsFile
    <3>3. c \notin Programs
      BY ClientsAssumption
    <3>4. TasksInv'
      BY <2>1 DEF MethodsInv, TasksInv
    <3>5. \A p \in Programs \ raced' : TouchesNothing(p)'
      BY <2>1, <3>1, <3>3, TouchesSame DEF MethodsInv
    <3> QED BY <2>2, <3>1, <3>2, <3>4, <3>5, ReceiveKeeps, SameTreeLosesNothing DEF MethodsInv
  <2>3. ASSUME WebStep(c), Moved(c, Exclusive(c))
        PROVE  /\ LossInv'
               /\ \A p \in DOMAIN tree : Lost(p) => web[c] # web'[c] /\ Active(c) /\ MayLose(c, p)
    <3>1. HandlersInv'
      BY <2>3, HandlerKeeps
    <3>2. /\ SoundTree'
          /\ \A p \in DOMAIN tree : Lost(p) => web[c] # web'[c] /\ Active(c) /\ MayLose(c, p)
      BY <2>3, HandlerLoses
    <3>3. \A p \in Programs : p # c
      BY ClientsAssumption
    <3>4. TasksInv'
      BY <2>1 DEF MethodsInv, TasksInv
    <3>5. \A p \in Programs \ raced' : TouchesNothing(p)'
      BY <2>1, <2>3, <3>3, MethodLeft
    <3> QED BY <3>1, <3>2, <3>4, <3>5 DEF MethodsInv
  <2> QED BY <1>1, <2>1, <2>2, <2>3 DEF ClientStep
<1>2. ASSUME NEW q \in Programs, ProgramStep(q)
      PROVE  /\ LossInv'
             /\ \A p \in DOMAIN tree : Lost(p) =>
                  \E a \in Agents : (IF a \in Clients THEN web[a] # web'[a] ELSE task[a] # task'[a])
                                    /\ Active(a) /\ MayLose(a, p)
  <2>1. web' = web /\ q \in Agents /\ q \notin Clients
    BY <1>2, ClientsAssumption DEF ProgramStep, Agents
  <2>2. WebShape' /\ RequestsInv'
    BY <2>1 DEF HandlersInv, WebShape, RequestsInv, RequestWell, Req
  <2>3. ASSUME NEW call \in Calls, BeginTask(q, call), Begun(q)
        PROVE  LossInv' /\ \A p \in DOMAIN tree : ~Lost(p)
    <3>1. tree' = tree /\ raced' = raced \ {q}
      BY <2>3 DEF BeginTask, Begun, fsVars
    <3>2. SoundTree'
      BY <3>1 DEF SoundTree, IsFile
    <3>3. \A c \in Clients \ raced' : LookedFirst(c)'
      BY <2>1, <3>1, SamePresent DEF HandlersInv, LookedFirst, Req
    <3> QED BY <2>2, <2>3, <3>1, <3>2, <3>3, BeginKeepsMethods, SameTreeLosesNothing DEF HandlersInv
  <2>4. ASSUME AdapterStep(q), Moved(q, {})
        PROVE  /\ LossInv'
               /\ \A p \in DOMAIN tree : Lost(p) => task[q] # task'[q] /\ Active(q) /\ MayLose(q, p)
    <3>1. MethodsInv'
      BY <2>4, MethodKeeps
    <3>2. /\ SoundTree'
          /\ \A p \in DOMAIN tree : Lost(p) => task[q] # task'[q] /\ Active(q) /\ MayLose(q, p)
      BY <2>4, MethodLoses
    <3>3. \A c \in Clients \ raced' : LookedFirst(c)'
      BY <2>1, <2>4, HandlerLeft
    <3> QED BY <2>2, <3>1, <3>2, <3>3 DEF HandlersInv
  <2> QED BY <1>2, <2>1, <2>3, <2>4 DEF ProgramStep
<1> QED BY <1>1, <1>2 DEF Next

LEMMA LossStutters ==
  ASSUME LossInv, UNCHANGED vars
  PROVE  LossInv'
<1> USE DEF vars, fsVars, LossInv
<1>1. SoundTree'
  BY DEF SoundTree, IsFile
<1>2. HandlersInv'
  BY SamePresent DEF HandlersInv, WebShape, RequestsInv, RequestWell, LookedFirst, Req
<1>3. MethodsInv'
  BY SamePresent DEF MethodsInv, TasksInv, TouchesNothing, Doing, Arg
<1> QED BY <1>1, <1>2, <1>3

(* Whatever clients and programs do at the same time, no file is destroyed that
   the agent at work was not asked to replace or delete; those that asked to
   replace nothing do it only when somebody has come between their look and their
   write. *)
THEOREM OnlyAskedLosses == Spec => LossesAreAsked
<1> DEFINE Right == \A p \in DOMAIN tree : Lost(p) =>
                      \E a \in Agents :
                        (IF a \in Clients THEN web[a] # web'[a] ELSE task[a] # task'[a])
                        /\ Active(a) /\ MayLose(a, p)
<1>1. Init => LossInv
  BY LossInvInit
<1>2. LossInv /\ [Next]_vars => LossInv'
  BY LossStep, LossStutters
<1>3. LossInv /\ [Next]_vars => [Right]_<<web, task>>
  BY LossStep DEF vars
<1> QED BY <1>1, <1>2, <1>3, PTL DEF Spec, LossesAreAsked

-----------------------------------------------------------------------------
(* Clients and programs: the rows and their numbers *)

(* Every row has a number of its own, which has been given out. *)
NumberedTree ==
  /\ SoundTree /\ nextId \in Nat
  /\ \A p \in DOMAIN tree : tree[p].id \in Nat /\ tree[p].id < nextId
  /\ \A p, q \in DOMAIN tree : tree[p].id = tree[q].id => p = q

LEMMA NumberedInit ==
  ASSUME Init
  PROVE  NumberedTree
<1> DEFINE n == Cardinality(DOMAIN tree)
<1>1. /\ DOMAIN tree \subseteq Seq(Names) \ {<<>>}
      /\ \A p \in DOMAIN tree : tree[p].type \in {"file", "directory"}
      /\ \A p, q \in DOMAIN tree : tree[p].type = "file" => ~Below(p, q)
      /\ IsFiniteSet(DOMAIN tree) /\ nextId = n + 1
      /\ \A p, q \in DOMAIN tree : tree[p].id \in 1..n /\ (tree[p].id = tree[q].id => p = q)
  BY TreesAssumption DEF Init
<1>2. n \in Nat
  BY <1>1, FS_CardinalityType
<1> HIDE DEF n
<1>3. SoundTree
  BY <1>1 DEF SoundTree, IsFile
<1> QED BY <1>1, <1>2, <1>3 DEF NumberedTree

(* One row is written: with the number that it has, or a new one. *)
LEMMA WriteNumbered ==
  ASSUME NumberedTree, NEW p \in Seq(Names) \ {<<>>}, NEW data, CanWrite(p),
         tree' = Set(tree, p, Replaced(p, data)),
         nextId' = IF IsFile(p) THEN nextId ELSE nextId + 1
  PROVE  /\ NumberedTree'
         /\ DOMAIN tree' = DOMAIN tree \cup {p}
         /\ tree'[p].type = "file" /\ tree'[p].data = data
         /\ \A q \in DOMAIN tree \ {p} : tree'[q] = tree[q]
<1> DEFINE e == Replaced(p, data)
<1>1. SoundTree'
  BY WriteSound DEF NumberedTree
<1>2. p \in DOMAIN tree => IsFile(p)
  BY DEF CanWrite, IsDirectory, Present, TreeAt
<1>3. IsFile(p) => p \in DOMAIN tree
  BY DEF IsFile
<1>4. /\ e.type = "file" /\ e.data = data
      /\ e.id = IF IsFile(p) THEN tree[p].id ELSE nextId
  BY DEF Replaced, File
<1> HIDE DEF e
<1>5. /\ DOMAIN tree' = DOMAIN tree \cup {p} /\ tree'[p] = e
      /\ \A q \in DOMAIN tree \ {p} : tree'[q] = tree[q]
  BY DEF Set, e
<1>6. nextId \in Nat /\ nextId' \in Nat /\ nextId' >= nextId
  BY DEF NumberedTree
<1>7. ASSUME NEW q \in DOMAIN tree'
      PROVE  tree'[q].id \in Nat /\ tree'[q].id < nextId'
  BY <1>3, <1>4, <1>5, <1>6 DEF NumberedTree
<1>8. ASSUME NEW q \in DOMAIN tree'
      PROVE  tree'[q].id = tree'[p].id => q = p
  <2>1. CASE q # p
    <3>1. q \in DOMAIN tree /\ tree'[q].id = tree[q].id /\ tree[q].id \in Nat /\ tree[q].id < nextId
      BY <1>5, <2>1 DEF NumberedTree
    <3>2. CASE IsFile(p)
      BY <1>3, <1>4, <1>5, <2>1, <3>1, <3>2 DEF NumberedTree
    <3>3. CASE ~IsFile(p)
      BY <1>4, <1>5, <1>6, <3>1, <3>3
    <3> QED BY <3>2, <3>3
  <2> QED BY <2>1
<1>9. ASSUME NEW q \in DOMAIN tree', NEW r \in DOMAIN tree', tree'[q].id = tree'[r].id
      PROVE  q = r
  BY <1>5, <1>8, <1>9 DEF NumberedTree
<1> QED BY <1>1, <1>4, <1>5, <1>6, <1>7, <1>9 DEF NumberedTree

LEMMA StoreNumbered ==
  ASSUME NumberedTree, NEW p \in Seq(Names) \ {<<>>}, NEW data, Store(p, data)
  PROVE  /\ NumberedTree'
         /\ DOMAIN tree' = DOMAIN tree \cup {p}
         /\ tree'[p].type = "file" /\ tree'[p].data = data
         /\ \A q \in DOMAIN tree \ {p} : tree'[q] = tree[q]
BY WriteNumbered DEF Store

(* A copy writes what the file with that number holds. *)
LEMMA CopyIntoNumbered ==
  ASSUME NumberedTree, NEW node, NEW p \in Seq(Names) \ {<<>>}, CopyInto(node, p)
  PROVE  /\ NumberedTree'
         /\ DOMAIN tree' = DOMAIN tree \cup {p}
         /\ tree'[p].type = "file"
         /\ \A q \in DOMAIN tree \ {p} :
              tree'[q] = tree[q] /\ (tree[q].id = node => tree'[p].data = tree[q].data)
<1> DEFINE from == {q \in DOMAIN tree : tree[q].id = node /\ q # p}
           data == IF from = {} THEN <<>> ELSE tree[CHOOSE q \in from : TRUE].data
<1>1. /\ CanWrite(p) /\ tree' = Set(tree, p, Replaced(p, data))
      /\ nextId' = IF IsFile(p) THEN nextId ELSE nextId + 1
  BY DEF CopyInto
<1>2. ASSUME NEW q \in DOMAIN tree \ {p}, tree[q].id = node
      PROVE  data = tree[q].data
  <2>1. q \in from
    BY <1>2
  <2>2. (CHOOSE r \in from : TRUE) \in from
    BY <2>1
  <2>3. \A r \in from : r = q
    BY <1>2 DEF NumberedTree
  <2> QED BY <2>1, <2>2, <2>3
<1> HIDE DEF data, from
<1> QED BY <1>1, <1>2, WriteNumbered

LEMMA DeleteNumbered ==
  ASSUME NumberedTree, NEW p, NEW recursive, Delete(p, recursive)
  PROVE  NumberedTree' /\ DOMAIN tree' = DOMAIN tree \ TreeAt(p)
<1>1. /\ DOMAIN tree' = DOMAIN tree \ TreeAt(p) /\ nextId' = nextId
      /\ \A q \in DOMAIN tree' : q \in DOMAIN tree /\ tree'[q] = tree[q]
  BY DEF Delete, Erase, Without
<1>2. SoundTree'
  BY DeleteSound DEF NumberedTree
<1> QED BY <1>1, <1>2 DEF NumberedTree

LEMMA CreateDirectoryNumbered ==
  ASSUME NumberedTree, NEW p \in Seq(Names) \ {<<>>}, NEW base \in 0..(Len(p) - 1),
         CreateDirectory(p, base)
  PROVE  /\ NumberedTree' /\ p \in DOMAIN tree' /\ tree'[p].type = "directory"
         /\ DOMAIN tree \subseteq DOMAIN tree'
         /\ \A q \in DOMAIN tree : tree'[q] = tree[q]
         /\ \A q \in DOMAIN tree' \ DOMAIN tree : q = p \/ Below(q, p)
<1> DEFINE levels == (base + 1)..Len(p)
           made == {Upto(p, k) : k \in levels}
<1>1. /\ \A k \in levels : ~Present(Upto(p, k))
      /\ tree' = [q \in DOMAIN tree \cup made |->
                    IF q \in made THEN Directory(nextId + Len(q) - base - 1) ELSE tree[q]]
      /\ nextId' = nextId + Len(p) - base
  BY DEF CreateDirectory
<1>2. p \in Seq(Names) /\ Len(p) \in Nat \ {0} /\ base \in Nat /\ base < Len(p) /\ nextId \in Nat
  BY DEF NumberedTree
<1>3. ASSUME NEW k \in levels
      PROVE  /\ k \in 0..Len(p) /\ k \in Nat
             /\ Upto(p, k) \in Seq(Names) \ {<<>>} /\ Len(Upto(p, k)) = k
             /\ Upto(p, k) = p \/ Below(Upto(p, k), p)
             /\ k = Len(p) => Upto(p, k) = p
  BY <1>2, UptoSays
<1>4. \A q \in DOMAIN tree : q \notin made
  BY <1>1 DEF Present, TreeAt
<1>5. /\ DOMAIN tree' = DOMAIN tree \cup made
      /\ \A q \in made : tree'[q] = Directory(nextId + Len(q) - base - 1)
      /\ \A q \in DOMAIN tree : tree'[q] = tree[q]
  BY <1>1, <1>4
<1>6. ASSUME NEW q \in made
      PROVE  /\ q = p \/ Below(q, p)
             /\ tree'[q].type = "directory" /\ Len(q) \in levels /\ q = Upto(p, Len(q))
             /\ tree'[q].id = nextId + Len(q) - base - 1
  <2>1. PICK k \in levels : q = Upto(p, k)
    OBVIOUS
  <2>2. Len(q) = k /\ (q = p \/ Below(q, p))
    BY <1>3, <2>1
  <2>3. tree'[q] = Directory(nextId + Len(q) - base - 1)
    BY <1>5, Zenon
  <2>4. tree'[q].type = "directory" /\ tree'[q].id = nextId + Len(q) - base - 1
    BY <2>3 DEF Directory
  <2> QED BY <2>1, <2>2, <2>4
<1>7. SoundTree'
  BY CreateDirectorySound DEF NumberedTree
<1>8. nextId' \in Nat /\ nextId' >= nextId
  BY <1>1, <1>2
<1>9. p \in made
  <2>1. Len(p) \in levels
    BY <1>2
  <2> QED BY <1>3, <2>1
<1> HIDE DEF made
<1>10. ASSUME NEW q \in DOMAIN tree'
       PROVE  tree'[q].id \in Nat /\ tree'[q].id < nextId'
  <2>1. CASE q \in made
    BY <1>1, <1>2, <1>6, <2>1
  <2>2. CASE q \in DOMAIN tree
    BY <1>2, <1>5, <1>8, <2>2 DEF NumberedTree
  <2> QED BY <1>5, <2>1, <2>2
<1>11. ASSUME NEW q \in DOMAIN tree', NEW r \in DOMAIN tree', tree'[q].id = tree'[r].id
       PROVE  q = r
  <2>1. \A s \in made : tree'[s].id >= nextId
    BY <1>2, <1>6
  <2>2. \A s \in DOMAIN tree : tree'[s].id < nextId /\ tree'[s].id \in Nat
    BY <1>5 DEF NumberedTree
  <2>3. CASE q \in made /\ r \in made
    <3>1. Len(q) = Len(r)
      BY <1>2, <1>6, <1>11, <2>3
    <3> QED BY <1>6, <2>3, <3>1
  <2>4. CASE q \in DOMAIN tree /\ r \in DOMAIN tree
    BY <1>5, <1>11, <2>4 DEF NumberedTree
  <2> QED BY <1>2, <1>5, <1>11, <2>1, <2>2, <2>3, <2>4
<1>12. tree'[p].type = "directory"
  BY <1>6, <1>9
<1>13. \A q \in DOMAIN tree' \ DOMAIN tree : q = p \/ Below(q, p)
  BY <1>5, <1>6
<1> QED BY <1>5, <1>7, <1>8, <1>9, <1>10, <1>11, <1>12, <1>13 DEF NumberedTree

LEMMA MakedirsNumbered ==
  ASSUME NumberedTree, NEW p \in Seq(Names), Makedirs(p)
  PROVE  /\ NumberedTree' /\ DOMAIN tree \subseteq DOMAIN tree'
         /\ p # <<>> => Present(p)'
         /\ \A q \in DOMAIN tree : tree'[q] = tree[q]
         /\ \A q \in DOMAIN tree' \ DOMAIN tree : q = p \/ Below(q, p)
<1>1. CASE p = <<>> \/ Present(p)
  <2>1. tree' = tree /\ nextId' = nextId
    BY <1>1 DEF Makedirs, fsVars
  <2>2. NumberedTree'
    BY <2>1 DEF NumberedTree, SoundTree, IsFile
  <2>3. p # <<>> => Present(p)'
    BY <1>1, <2>1, SamePresent
  <2> QED BY <2>1, <2>2, <2>3
<1>2. CASE ~(p = <<>> \/ Present(p))
  <2>1. PICK base \in 0..(Len(p) - 1) : CreateDirectory(p, base)
    BY <1>2 DEF Makedirs
  <2>2. p \in DOMAIN tree' => Present(p)'
    BY DEF Present, TreeAt
  <2> QED BY <1>2, <2>1, <2>2, CreateDirectoryNumbered
<1> QED BY <1>1, <1>2

(* A move takes every row of the source to its place at the destination. *)
LEMMA MoveTakes ==
  ASSUME NumberedTree, NEW src \in Seq(Names), NEW dst \in Seq(Names) \ {<<>>},
         NEW overwrite, Move(src, dst, overwrite)
  PROVE  LET moved == TreeAt(src) \ TreeAt(dst)
             kept == DOMAIN tree \ (TreeAt(src) \cup TreeAt(dst))
             new == {Rebase(src, dst, p) : p \in moved}
         IN  /\ DOMAIN tree' = kept \cup new /\ kept \cap new = {}
             /\ \A q \in kept : tree'[q] = tree[q]
             /\ \A p \in moved : /\ Rebase(src, dst, p) \in new
                                 /\ tree'[Rebase(src, dst, p)] = tree[p]
             /\ \A q \in new : q \in Seq(Names) /\ (q = dst \/ Below(dst, q))
<1> DEFINE moved == TreeAt(src) \ TreeAt(dst)
           kept == DOMAIN tree \ (TreeAt(src) \cup TreeAt(dst))
           new == {Rebase(src, dst, p) : p \in moved}
<1>1. tree' = [q \in kept \cup new |-> IF q \in kept THEN tree[q] ELSE tree[Rebase(dst, src, q)]]
  BY DEF Move
<1>2. ASSUME NEW p \in moved
      PROVE  LET r == Rebase(src, dst, p) IN
             /\ r \in Seq(Names) /\ (r = dst \/ Below(dst, r))
             /\ Rebase(dst, src, r) = p /\ r \notin kept
  <2> DEFINE r == Rebase(src, dst, p)
  <2>1. p \in Seq(Names) /\ (p = src \/ Below(src, p))
    BY DEF TreeAt, NumberedTree, SoundTree
  <2>2. /\ r \in Seq(Names) /\ (r = dst \/ Below(dst, r)) /\ Rebase(dst, src, r) = p
    BY <2>1, RebaseSays, RebaseBack
  <2> HIDE DEF r
  <2>3. r \notin kept
    BY <2>2 DEF TreeAt
  <2> QED BY <2>2, <2>3 DEF r
<1>3. ASSUME NEW p \in moved
      PROVE  Rebase(src, dst, p) \in new /\ tree'[Rebase(src, dst, p)] = tree[p]
  <2> DEFINE r == Rebase(src, dst, p)
  <2>1. r \in new /\ r \notin kept /\ Rebase(dst, src, r) = p
    BY <1>2
  <2> HIDE DEF r, kept, new, moved
  <2> QED BY <1>1, <2>1 DEF r
<1>4. DOMAIN tree' = kept \cup new /\ \A q \in kept : tree'[q] = tree[q]
  BY <1>1
<1>5. \A q \in new : q \notin kept /\ q \in Seq(Names) /\ (q = dst \/ Below(dst, q))
  BY <1>2
<1> QED BY <1>3, <1>4, <1>5

LEMMA MoveNumbered ==
  ASSUME NumberedTree, NEW src \in Seq(Names), NEW dst \in Seq(Names) \ {<<>>},
         NEW overwrite, Move(src, dst, overwrite)
  PROVE  NumberedTree'
<1> DEFINE moved == TreeAt(src) \ TreeAt(dst)
           kept == DOMAIN tree \ (TreeAt(src) \cup TreeAt(dst))
           new == {Rebase(src, dst, p) : p \in moved}
<1>1. /\ DOMAIN tree' = kept \cup new /\ kept \cap new = {}
      /\ \A q \in kept : tree'[q] = tree[q]
      /\ \A p \in moved : /\ Rebase(src, dst, p) \in new
                          /\ tree'[Rebase(src, dst, p)] = tree[p]
      /\ \A q \in new : q \in Seq(Names) /\ (q = dst \/ Below(dst, q))
  BY MoveTakes, Zenon
<1>2. nextId' = nextId
  BY DEF Move
<1>3. kept \subseteq DOMAIN tree /\ moved \subseteq DOMAIN tree /\ kept \cap moved = {}
  BY DEF TreeAt
<1>4. SoundTree'
  BY MoveSound DEF NumberedTree
<1>5. \A q \in new : \E p \in moved : q = Rebase(src, dst, p)
  OBVIOUS
<1> HIDE DEF moved, kept, new
<1>6. ASSUME NEW q \in DOMAIN tree'
      PROVE  tree'[q].id \in Nat /\ tree'[q].id < nextId'
  BY <1>1, <1>2, <1>3, <1>5 DEF NumberedTree
<1>7. ASSUME NEW q \in DOMAIN tree', NEW r \in DOMAIN tree', tree'[q].id = tree'[r].id
      PROVE  q = r
  <2>1. CASE q \in kept /\ r \in kept
    BY <1>1, <1>3, <1>7, <2>1 DEF NumberedTree
  <2>2. CASE q \in kept /\ r \in new
    <3>1. PICK p \in moved : r = Rebase(src, dst, p)
      BY <1>5, <2>2
    <3>2. tree[q].id = tree[p].id
      BY <1>1, <1>7, <2>2, <3>1
    <3> QED BY <1>3, <2>2, <3>2 DEF NumberedTree
  <2>3. CASE q \in new /\ r \in kept
    <3>1. PICK p \in moved : q = Rebase(src, dst, p)
      BY <1>5, <2>3
    <3>2. tree[r].id = tree[p].id
      BY <1>1, <1>7, <2>3, <3>1
    <3> QED BY <1>3, <2>3, <3>2 DEF NumberedTree
  <2>4. CASE q \in new /\ r \in new
    <3>1. PICK p \in moved, s \in moved : q = Rebase(src, dst, p) /\ r = Rebase(src, dst, s)
      BY <1>5, <2>4
    <3>2. tree[p].id = tree[s].id
      BY <1>1, <1>7, <3>1
    <3>3. p = s
      BY <1>3, <3>2 DEF NumberedTree
    <3> QED BY <3>1, <3>3
  <2> QED BY <1>1, <2>1, <2>2, <2>3, <2>4
<1> QED BY <1>2, <1>4, <1>6, <1>7 DEF NumberedTree

(* Unless the destination is above the source, nothing of it is lost. *)
LEMMA MoveDelivers ==
  ASSUME NumberedTree, NEW src \in Seq(Names) \ {<<>>}, NEW dst \in Seq(Names) \ {<<>>},
         NEW overwrite, Move(src, dst, overwrite), ~Below(dst, src)
  PROVE  /\ Present(src) /\ ~Present(src)'
         /\ Present(dst) => overwrite
         /\ \A p \in TreeAt(src) : LET at == Rebase(src, dst, p) IN
              at \in DOMAIN tree' /\ tree'[at] = tree[p]
<1> DEFINE moved == TreeAt(src) \ TreeAt(dst)
           kept == DOMAIN tree \ (TreeAt(src) \cup TreeAt(dst))
           new == {Rebase(src, dst, p) : p \in moved}
<1>1. /\ src # dst /\ ~Below(src, dst) /\ Present(src) /\ (Present(dst) => overwrite)
  BY DEF Move, CanMove
<1>2. ASSUME NEW q \in Seq(Names), q = src \/ Below(src, q), q = dst \/ Below(dst, q)
      PROVE  FALSE
  BY <1>1, <1>2, BelowSays
<1>3. \A q \in TreeAt(src) : q \in Seq(Names) /\ (q = src \/ Below(src, q))
  BY DEF TreeAt, NumberedTree, SoundTree
<1>4. \A q \in TreeAt(dst) : q = dst \/ Below(dst, q)
  BY DEF TreeAt
<1>5. moved = TreeAt(src)
  BY <1>2, <1>3, <1>4
<1>6. /\ DOMAIN tree' = kept \cup new
      /\ \A p \in moved : /\ Rebase(src, dst, p) \in new
                          /\ tree'[Rebase(src, dst, p)] = tree[p]
      /\ \A q \in new : q \in Seq(Names) /\ (q = dst \/ Below(dst, q))
  BY MoveTakes
<1>7. \A q \in kept : q # src /\ ~Below(src, q)
  BY DEF TreeAt
<1> HIDE DEF moved, kept, new
<1>8. \A q \in DOMAIN tree' : ~(q = src \/ Below(src, q))
  BY <1>2, <1>6, <1>7
<1>9. ~Present(src)'
  BY <1>8 DEF Present, TreeAt
<1> QED BY <1>1, <1>5, <1>6, <1>9

-----------------------------------------------------------------------------
(* Clients and programs: what an agent that nobody comes in the way of can count on *)

(* The step changes nothing at or below w. *)
SparesBelow(w) ==
  \A q : q = w \/ Below(w, q) =>
    /\ q \in DOMAIN tree' <=> q \in DOMAIN tree
    /\ q \in DOMAIN tree => tree'[q] = tree[q]

LEMMA SameSpares ==
  ASSUME tree' = tree, NEW w
  PROVE  SparesBelow(w)
BY DEF SparesBelow

LEMMA OthersSpare ==
  ASSUME NEW a, NEW created, Moved(a, created), NEW b \in Agents \ {a}, Active(b), b \notin raced',
         NEW w \in Watched(b)
  PROVE  SparesBelow(w) /\ b \notin raced
<1>1. b \notin raced /\ ~InTheWayOf(b)
  BY DEF Moved
<1>2. ASSUME NEW q, q = w \/ Below(w, q)
      PROVE  /\ q \in DOMAIN tree' <=> q \in DOMAIN tree
             /\ q \in DOMAIN tree => tree'[q] = tree[q]
  <2>1. q \notin Changed
    BY <1>1, <1>2 DEF InTheWayOf, Related
  <2> QED BY <2>1 DEF Changed, Differs
<1> QED BY <1>1, <1>2 DEF SparesBelow

LEMMA UnchangedStays ==
  ASSUME NEW t, NEW w, SparesBelow(w), Unchanged(t, w)
  PROVE  Unchanged(t, w)'
<1>1. \A q \in DOMAIN t : q = w \/ Below(w, q) => q \in DOMAIN tree /\ tree[q] = t[q]
  BY DEF Unchanged, Subtree
<1>2. \A q \in DOMAIN tree : q = w \/ Below(w, q) => q \in DOMAIN t
  BY DEF Unchanged, Subtree
<1> QED BY <1>1, <1>2 DEF Unchanged, Subtree, SparesBelow

LEMMA UnchangedNow ==
  ASSUME NEW w
  PROVE  Unchanged(tree, w)
BY DEF Unchanged

(* What it sees is what was there when it began. *)
LEMMA UnchangedSays ==
  ASSUME NEW t, NEW w, Unchanged(t, w)
  PROVE  /\ TreeAt(w) = Subtree(t, w)
         /\ Present(w) <=> Subtree(t, w) # {}
         /\ IsFile(w) <=> WasFile(t, w)
         /\ IsDir(w) <=> WasDirectory(t, w)
         /\ w \in DOMAIN t <=> w \in DOMAIN tree
         /\ \A q : q = w \/ Below(w, q) =>
              /\ q \in DOMAIN tree <=> q \in DOMAIN t
              /\ q \in DOMAIN tree => tree[q] = t[q]
<1>1. TreeAt(w) = Subtree(t, w)
  BY DEF TreeAt, Subtree, Unchanged
<1>2. \A q : q = w \/ Below(w, q) =>
              /\ q \in DOMAIN tree <=> q \in DOMAIN t
              /\ q \in DOMAIN tree => tree[q] = t[q]
  BY DEF Subtree, Unchanged
<1>3. IsFile(w) <=> WasFile(t, w)
  BY <1>2 DEF IsFile, WasFile
<1> QED BY <1>1, <1>2, <1>3 DEF Present, IsDir, IsDirectory, WasDirectory

(* The same for a place further down. *)
LEMMA PlaceStays ==
  ASSUME SoundTree, NEW w \in Seq(Names), SparesBelow(w), NEW q \in Seq(Names), q = w \/ Below(w, q)
  PROVE  /\ Present(q) => Present(q)'
         /\ IsFile(q) => IsFile(q)' /\ tree'[q] = tree[q]
<1>1. ASSUME NEW r \in DOMAIN tree, q = r \/ Below(q, r)
      PROVE  r \in DOMAIN tree'
  BY <1>1, BelowSays DEF SoundTree, SparesBelow
<1> QED BY <1>1 DEF SparesBelow, Present, TreeAt, IsFile

-----------------------------------------------------------------------------
(* Clients: what the looks of a handler have established of the tree that was there
   when its request came *)

Absent(t, p) == Subtree(t, p) = {}

Learned(c) ==
  LET r     == Req(c)
      t     == before[c]
      phase == web[c].phase
  IN  /\ phase = "write" =>
           /\ r.method = "PUT" /\ r.path # <<>> /\ (r.none => Absent(t, r.path))
           /\ CreatedOrReplaced(c) = IF Absent(t, r.path) THEN 201 ELSE 204
      /\ phase = "make" => r.method = "MKCOL" /\ r.path # <<>> /\ Absent(t, r.path)
      /\ phase \in {"dest", "do", "copying"} =>
           /\ r.method \in CopyMove /\ r.path # <<>> /\ r.dest # <<>> /\ r.path # r.dest
           /\ WasFile(t, r.path)
      /\ phase \in {"do", "copying"} =>
           /\ Absent(t, r.dest) \/ r.overwrite
           /\ CreatedOrReplaced(c) = IF Absent(t, r.dest) THEN 201 ELSE 204
      /\ phase = "copying" => r.method = "COPY" /\ web[c].node = t[r.path].id

QuietClient(c) == Learned(c) /\ \A w \in Watched(c) : Unchanged(before[c], w)

(* The answer tells the truth, or another call follows. *)
Honest(c) ==
  IF web'[c].phase = "done" THEN Promised(c)' ELSE tree' = tree /\ Learned(c)'

LEMMA AnswerGives ==
  ASSUME WebShape, NEW c \in Clients, IsRequest(web[c]), NEW status, Answer(c, status)
  PROVE  web'[c].phase = "done" /\ web'[c].status = status /\ Req(c)' = Req(c)
<1>1. Goes(c, "done")
  BY HandlerGoes
<1> QED BY <1>1, AnswerSays DEF Goes, Req

LEMMA NothingPromised ==
  ASSUME WebShape, NEW c \in Clients, IsRequest(web[c]), QuietClient(c), before' = before,
         NEW status, Answer(c, status), NoChange, status \notin {201, 204}
  PROVE  Honest(c)
<1>1. web'[c].phase = "done" /\ web'[c].status \notin {201, 204} /\ Req(c)' = Req(c)
  BY AnswerGives
<1>2. tree' = tree
  BY DEF NoChange, fsVars
<1>3. Watched(c)' = Watched(c)
  BY <1>1 DEF Watched
<1> DEFINE t == before[c]
<1>4. \A w \in Watched(c) : Unchanged(t, w)
  BY DEF QuietClient
<1>5. before[c]' = t
  OBVIOUS
<1> HIDE DEF t
<1>6. \A w \in Watched(c)' : Unchanged(before[c], w)'
  BY <1>2, <1>3, <1>4, <1>5 DEF Unchanged, Subtree
<1>7. Promised(c)'
  BY <1>1, <1>6 DEF Promised
<1> QED BY <1>1, <1>7 DEF Honest

LEMMA PutLearns ==
  ASSUME NumberedTree, WebShape, RequestsInv, NEW c \in Clients, IsRequest(web[c]),
         QuietClient(c), before' = before, PutLook(c) \/ PutWrite(c) \/ PutBreaksOff(c)
  PROVE  Honest(c)
<1> DEFINE path == Req(c).path
           t == before[c]
<1>1. /\ Req(c).method = "PUT" /\ path \in Watched(c) /\ Unchanged(t, path)
      /\ path \in Seq(Names) /\ web[c].phase # "none"
  <2>1. Req(c).method = "PUT" /\ web[c].phase # "none" /\ web[c] # NoRequest
    BY DEF PutLook, PutWrite, PutBreaksOff, Handles, Req, NoRequest
  <2>2. path \in Seq(Names)
    BY <2>1, WebDavAssumption DEF RequestsInv, RequestWell
  <2> QED BY <2>1, <2>2 DEF Watched, QuietClient
<1>2. (Present(path) <=> ~Absent(t, path)) /\ (IsFile(path) <=> WasFile(t, path))
  BY <1>1, UnchangedSays DEF Absent
<1>3. CASE PutBreaksOff(c)
  BY <1>3, NothingPromised DEF PutBreaksOff
<1>4. CASE PutLook(c)
  <2>1. CASE \E status \in {405, 412} : Answer(c, status)
    BY <1>4, <2>1, NothingPromised DEF PutLook
  <2>2. CASE ~\E status \in {405, 412} : Answer(c, status)
    <3>1. /\ path # <<>> /\ (Req(c).none => ~Present(path)) /\ tree' = tree
          /\ web' = [web EXCEPT ![c].phase = "write", ![c].existed = Present(path)]
      BY <1>4, <2>2 DEF PutLook, NoChange, fsVars
    <3>2. Goes(c, "write")
      BY <3>1, HandlerGoes
    <3>3. web'[c].phase = "write" /\ Req(c)' = Req(c)
      BY <3>2 DEF Goes, Req
    <3>4. web'[c].existed = Present(path)
      BY <3>1 DEF WebShape
    <3>5. CreatedOrReplaced(c)' = IF Absent(t, path) THEN 201 ELSE 204
      <4>1. CASE Present(path)
        <5>1. Existed(c)'
          BY <3>4, <4>1, Zenon DEF Existed
        <5> QED BY <1>2, <4>1, <5>1 DEF CreatedOrReplaced
      <4>2. CASE ~Present(path)
        <5>1. ~Existed(c)'
          BY <3>4, <4>2, Zenon DEF Existed
        <5> QED BY <1>2, <4>2, <5>1 DEF CreatedOrReplaced
      <4> QED BY <4>1, <4>2
    <3>6. Learned(c)'
      BY <1>1, <1>2, <3>1, <3>3, <3>5 DEF Learned, Absent, Subtree
    <3> QED BY <3>1, <3>3, <3>6 DEF Honest
  <2> QED BY <2>1, <2>2
<1>5. CASE PutWrite(c)
  <2>1. CASE NoChange /\ \E status \in {409, 413} : Answer(c, status)
    BY <2>1, NothingPromised
  <2>2. CASE ~(NoChange /\ \E status \in {409, 413} : Answer(c, status))
    <3>1. web[c].phase = "write"
      BY <1>5 DEF PutWrite, Handles
    <3>2. Answer(c, CreatedOrReplaced(c)) /\ Store(path, Req(c).data)
      BY <1>5, <2>2 DEF PutWrite
    <3>3. /\ path # <<>> /\ (Req(c).none => Absent(t, path))
          /\ CreatedOrReplaced(c) = IF Absent(t, path) THEN 201 ELSE 204
      BY <3>1 DEF QuietClient, Learned
    <3>4. /\ web'[c].phase = "done" /\ Req(c)' = Req(c)
          /\ web'[c].status = IF Absent(t, path) THEN 201 ELSE 204
      BY <3>2, <3>3, AnswerGives
    <3>5. path \in DOMAIN tree' /\ tree'[path].type = "file" /\ tree'[path].data = Req(c).data
      <4> DEFINE data == Req(c).data
      <4>1. path \in Seq(Names) \ {<<>>} /\ Store(path, data)
        BY <1>1, <3>2, <3>3
      <4> HIDE DEF path, data
      <4>2. path \in DOMAIN tree' /\ tree'[path].type = "file" /\ tree'[path].data = data
        BY <4>1, StoreNumbered
      <4> QED BY <4>2 DEF data
    <3>6. Promised(c)'
      <4> DEFINE r == Req(c)
      <4>1. /\ Req(c)' = r /\ r.method = "PUT" /\ before[c]' = t
            /\ r.path \in DOMAIN tree' /\ tree'[r.path].type = "file" /\ tree'[r.path].data = r.data
            /\ r.none => Absent(t, r.path)
            /\ web'[c].status = IF Absent(t, r.path) THEN 201 ELSE 204
        BY <1>1, <3>3, <3>4, <3>5
      <4> HIDE DEF r, t
      <4>2. r.method \notin CopyMove
        BY <4>1 DEF CopyMove
      <4>3. CASE Absent(t, r.path)
        BY <4>1, <4>2, <4>3 DEF Promised, IsFile, Absent, Subtree
      <4>4. CASE ~Absent(t, r.path)
        BY <4>1, <4>2, <4>4 DEF Promised, IsFile, Absent, Subtree
      <4> QED BY <4>3, <4>4
    <3> QED BY <3>4, <3>6 DEF Honest
  <2> QED BY <2>1, <2>2
<1> QED BY <1>3, <1>4, <1>5

LEMMA DeleteLearns ==
  ASSUME NumberedTree, WebShape, NEW c \in Clients, IsRequest(web[c]),
         QuietClient(c), before' = before, HandleDelete(c)
  PROVE  Honest(c)
<1> DEFINE r == Req(c)
           t == before[c]
<1>1. r.method = "DELETE" /\ r.path \in Watched(c) /\ Unchanged(t, r.path)
  BY DEF HandleDelete, Handles, Req, Watched, QuietClient
<1>2. Present(r.path) <=> Subtree(t, r.path) # {}
  BY <1>1, UnchangedSays
<1>3. CASE NoChange /\ \E status \in {405, 404} : Answer(c, status)
  BY <1>3, NothingPromised
<1>4. CASE ~(NoChange /\ \E status \in {405, 404} : Answer(c, status))
  <2>1. Present(r.path) /\ Answer(c, 204) /\ Delete(r.path, TRUE)
    BY <1>4 DEF HandleDelete
  <2>2. web'[c].phase = "done" /\ web'[c].status = 204 /\ Req(c)' = r
    BY <2>1, AnswerGives
  <2>3. before[c]' = t
    OBVIOUS
  <2> HIDE DEF r, t
  <2>4. DOMAIN tree' = DOMAIN tree \ TreeAt(r.path)
    BY <2>1, DeleteNumbered
  <2>5. \A q \in DOMAIN tree' : ~(q = r.path \/ Below(r.path, q))
    BY <2>4 DEF TreeAt
  <2>6. r.method \notin CopyMove
    BY <1>1 DEF CopyMove
  <2>7. Promised(c)'
    BY <1>1, <1>2, <2>1, <2>2, <2>3, <2>5, <2>6 DEF Promised, Present, TreeAt, Subtree
  <2> QED BY <2>2, <2>7 DEF Honest
<1> QED BY <1>3, <1>4

LEMMA MkcolLearns ==
  ASSUME NumberedTree, WebShape, RequestsInv, NEW c \in Clients, IsRequest(web[c]),
         QuietClient(c), before' = before, MkcolLook(c) \/ MkcolMake(c)
  PROVE  Honest(c)
<1> DEFINE r == Req(c)
           t == before[c]
<1>1. /\ r.method = "MKCOL" /\ Unchanged(t, r.path) /\ r.path \in Seq(Names)
  <2>1. r.method = "MKCOL" /\ web[c] # NoRequest
    BY DEF MkcolLook, MkcolMake, Handles, Req, NoRequest
  <2> QED BY <2>1, WebDavAssumption DEF RequestsInv, RequestWell, Watched, QuietClient
<1>2. Present(r.path) <=> ~Absent(t, r.path)
  BY <1>1, UnchangedSays DEF Absent
<1>3. r.method \notin CopyMove /\ before[c]' = t
  BY <1>1 DEF CopyMove
<1>4. CASE NoChange /\ \E status \in {405, 409, 404} : Answer(c, status)
  BY <1>4, NothingPromised
<1>5. CASE MkcolLook(c) /\ ~Answer(c, 405)
  <2>1. r.path # <<>> /\ ~Present(r.path) /\ Goto(c, "make") /\ tree' = tree
    BY <1>5 DEF MkcolLook, NoChange, fsVars
  <2>2. Goes(c, "make")
    BY <2>1, HandlerGoes
  <2>3. web'[c].phase = "make" /\ Req(c)' = r
    BY <2>2 DEF Goes, Req
  <2> HIDE DEF r, t
  <2>4. Learned(c)'
    BY <1>1, <1>2, <1>3, <2>1, <2>3 DEF Learned, Absent, Subtree
  <2> QED BY <2>1, <2>3, <2>4 DEF Honest
<1>6. CASE MkcolMake(c) /\ ~(NoChange /\ \E status \in {409, 404} : Answer(c, status))
  <2>1. Answer(c, 201) /\ CreateDirectory(r.path, Len(r.path) - 1)
    BY <1>6 DEF MkcolMake
  <2>2. r.path # <<>> /\ Absent(t, r.path)
    BY <1>6 DEF MkcolMake, Handles, QuietClient, Learned
  <2>3. web'[c].phase = "done" /\ web'[c].status = 201 /\ Req(c)' = r
    BY <2>1, AnswerGives
  <2> HIDE DEF r, t
  <2>4. r.path \in DOMAIN tree' /\ tree'[r.path].type = "directory"
    <3>1. r.path \in Seq(Names) \ {<<>>} /\ Len(r.path) - 1 \in 0..(Len(r.path) - 1)
      BY <1>1, <2>2
    <3> QED BY <2>1, <3>1, CreateDirectoryNumbered
  <2>5. /\ \E q \in DOMAIN tree' : q = r.path \/ Below(r.path, q)
        /\ ~(r.path \in DOMAIN tree' /\ tree'[r.path].type = "file")
    BY <2>4
  <2>6. \A p : p = r.path => IsDirectory(p)'
    BY <2>5 DEF IsDirectory, IsFile, Present, TreeAt
  <2>7. Promised(c)'
    BY <1>1, <1>3, <2>2, <2>3, <2>6 DEF Promised, Absent, Subtree
  <2> QED BY <2>3, <2>7 DEF Honest
<1> QED BY <1>4, <1>5, <1>6 DEF MkcolLook

LEMMA RebaseSelf ==
  ASSUME NEW src \in Seq(Names), NEW dst \in Seq(Names)
  PROVE  Rebase(src, dst, src) = dst
<1> DEFINE r == Rebase(src, dst, src)
<1>1. /\ r \in Seq(Names) /\ Len(r) = Len(dst) + Len(src) - Len(src)
      /\ \A i \in 1..Len(dst) : r[i] = dst[i]
  BY RebaseSays
<1> HIDE DEF r
<1>2. r = dst
  BY <1>1
<1> QED BY <1>2 DEF r

LEMMA LookLearns ==
  ASSUME NumberedTree, WebShape, RequestsInv, NEW c \in Clients, IsRequest(web[c]),
         QuietClient(c), before' = before, SourceLook(c) \/ DestLook(c) \/ CopyBegin(c)
  PROVE  Honest(c)
<1> DEFINE r == Req(c)
           t == before[c]
<1>1. /\ r.method \in CopyMove /\ Unchanged(t, r.path) /\ Unchanged(t, r.dest)
      /\ tree' = tree /\ NoChange
  BY DEF SourceLook, DestLook, CopyBegin, Handles, CopyMove, Req, Watched, QuietClient,
         NoChange, fsVars
<1>2. /\ Present(r.path) <=> ~Absent(t, r.path)
      /\ Present(r.dest) <=> ~Absent(t, r.dest)
      /\ IsFile(r.path) <=> WasFile(t, r.path)
      /\ r.path \in DOMAIN tree => tree[r.path] = t[r.path]
  BY <1>1, UnchangedSays DEF Absent
<1>3. before[c]' = t /\ ~(r.method \in {"PUT", "DELETE", "MKCOL"})
  BY <1>1 DEF CopyMove
<1>4. CASE \E status \in {405, 404, 409, 412} : Answer(c, status)
  BY <1>1, <1>4, NothingPromised
<1>5. CASE SourceLook(c) /\ ~\E status \in {405, 404, 409, 412} : Answer(c, status)
  <2>1. CASE r.dest = r.path
    <3>1. Answer(c, 204)
      BY <1>5, <2>1 DEF SourceLook
    <3>2. web'[c].phase = "done" /\ web'[c].status = 204 /\ Req(c)' = r
      BY <3>1, AnswerGives
    <3> HIDE DEF r, t
    <3>3. PICK u, v : u = t /\ v = r.path
      OBVIOUS
    <3>4. Subtree(u, v) = Subtree(tree', v) /\ \A q \in Subtree(u, v) : u[q] = tree'[q]
      BY <1>1, <3>3 DEF Unchanged
    <3>5. Promised(c)'
      BY <1>1, <1>3, <2>1, <3>2, <3>3, <3>4 DEF Promised, Unchanged
    <3> QED BY <3>2, <3>5 DEF Honest
  <2>2. CASE r.dest # r.path
    <3>1. r.path # <<>> /\ r.dest # <<>> /\ IsFile(r.path) /\ Goto(c, "dest")
      BY <1>5, <2>2 DEF SourceLook, IsDirectory
    <3>2. Goes(c, "dest")
      BY <3>1, HandlerGoes
    <3>3. web'[c].phase = "dest" /\ Req(c)' = r
      BY <3>2 DEF Goes, Req
    <3> HIDE DEF r, t
    <3>4. Learned(c)'
      BY <1>1, <1>2, <1>3, <2>2, <3>1, <3>3 DEF Learned
    <3> QED BY <1>1, <3>3, <3>4 DEF Honest
  <2> QED BY <2>1, <2>2
<1>6. CASE DestLook(c) /\ ~\E status \in {405, 404, 409, 412} : Answer(c, status)
  <2>1. /\ web' = [web EXCEPT ![c].phase = "do", ![c].existed = Present(r.dest)]
        /\ ~Present(r.dest) \/ r.overwrite
    BY <1>6 DEF DestLook
  <2>2. /\ r.path # <<>> /\ r.dest # <<>> /\ r.path # r.dest /\ WasFile(t, r.path)
    BY <1>6 DEF DestLook, Handles, QuietClient, Learned
  <2>3. Goes(c, "do")
    BY <2>1, HandlerGoes
  <2>4. web'[c].phase = "do" /\ Req(c)' = r
    BY <2>3 DEF Goes, Req
  <2>5. web'[c].existed = Present(r.dest)
    BY <2>1 DEF WebShape
  <2>6. CreatedOrReplaced(c)' = IF Absent(t, r.dest) THEN 201 ELSE 204
    <3>1. CASE Present(r.dest)
      <4>1. Existed(c)'
        BY <2>5, <3>1, Zenon DEF Existed
      <4> QED BY <1>2, <3>1, <4>1 DEF CreatedOrReplaced
    <3>2. CASE ~Present(r.dest)
      <4>1. ~Existed(c)'
        BY <2>5, <3>2, Zenon DEF Existed
      <4> QED BY <1>2, <3>2, <4>1 DEF CreatedOrReplaced
    <3> QED BY <3>1, <3>2
  <2> HIDE DEF r, t
  <2>7. Learned(c)'
    BY <1>1, <1>2, <1>3, <2>1, <2>2, <2>4, <2>6 DEF Learned, Absent, Subtree
  <2> QED BY <1>1, <2>4, <2>7 DEF Honest
<1>7. CASE CopyBegin(c) /\ ~\E status \in {405, 404, 409, 412} : Answer(c, status)
  <2>1. /\ web' = [web EXCEPT ![c].phase = "copying", ![c].node = tree[r.path].id]
        /\ web[c].phase = "do" /\ r.method = "COPY"
    BY <1>7 DEF CopyBegin, Handles, Req
  <2>2. /\ r.path # <<>> /\ r.dest # <<>> /\ r.path # r.dest /\ WasFile(t, r.path)
        /\ Absent(t, r.dest) \/ r.overwrite
        /\ CreatedOrReplaced(c) = IF Absent(t, r.dest) THEN 201 ELSE 204
    BY <2>1 DEF QuietClient, Learned
  <2>3. Goes(c, "copying")
    BY <2>1, HandlerGoes
  <2>4. web'[c].phase = "copying" /\ Req(c)' = r
    BY <2>3 DEF Goes, Req
  <2>5. /\ web'[c].node = tree[r.path].id
        /\ CreatedOrReplaced(c)' = CreatedOrReplaced(c)
    BY <2>1 DEF WebShape, IsRequest, CreatedOrReplaced, Existed
  <2>6. web'[c].node = t[r.path].id
    BY <1>2, <2>2, <2>5 DEF IsFile
  <2> HIDE DEF r, t
  <2>7. Learned(c)'
    BY <1>1, <1>2, <1>3, <2>1, <2>2, <2>4, <2>5, <2>6 DEF Learned, Absent, Subtree
  <2> QED BY <1>1, <2>4, <2>7 DEF Honest
<1> QED BY <1>4, <1>5, <1>6, <1>7

(* Nothing is written below a file. *)
LEMMA WriteSparesFiles ==
  ASSUME SoundTree, NEW p \in Seq(Names) \ {<<>>}, IsFile(p), NEW q \in Seq(Names), q # p,
         CanWrite(q), \A o \in DOMAIN tree \ {q} : o \in DOMAIN tree' /\ tree'[o] = tree[o],
         DOMAIN tree' \subseteq DOMAIN tree \cup {q}
  PROVE  SparesBelow(p)
<1>1. ~Below(p, q)
  BY AboveSays DEF CanWrite, Reachable
<1> QED BY <1>1 DEF SparesBelow

LEMMA WriteLearns ==
  ASSUME NumberedTree, WebShape, RequestsInv, NEW c \in Clients, IsRequest(web[c]),
         QuietClient(c), before' = before, CopyWrite(c) \/ MoveDo(c)
  PROVE  Honest(c)
<1> DEFINE r == Req(c)
           t == before[c]
<1>1. /\ r.method \in {"COPY", "MOVE"} /\ Unchanged(t, r.path) /\ Unchanged(t, r.dest)
      /\ web[c].phase \in {"do", "copying"} /\ web[c] # NoRequest
  BY DEF CopyWrite, MoveDo, Handles, CopyMove, Req, Watched, QuietClient, NoRequest
<1>2. /\ r.path # <<>> /\ r.dest # <<>> /\ r.path # r.dest /\ WasFile(t, r.path)
      /\ Absent(t, r.dest) \/ r.overwrite
      /\ CreatedOrReplaced(c) = IF Absent(t, r.dest) THEN 201 ELSE 204
      /\ web[c].phase = "copying" => web[c].node = t[r.path].id
  BY <1>1 DEF QuietClient, Learned
<1>3. r.path \in Seq(Names) \ {<<>>} /\ r.dest \in Seq(Names) \ {<<>>}
  BY <1>1, <1>2, WebDavAssumption DEF RequestsInv, RequestWell
<1>4. IsFile(r.path) /\ r.path \in DOMAIN tree /\ tree[r.path] = t[r.path]
  BY <1>1, <1>2, UnchangedSays DEF IsFile
<1>5. CASE NoChange /\ \E status \in {404, 409} : Answer(c, status)
  BY <1>5, NothingPromised
<1>6. CASE CopyWrite(c) /\ ~(NoChange /\ \E status \in {404, 409} : Answer(c, status))
  <2>1. /\ CanWrite(r.dest) /\ CopyInto(web[c].node, r.dest) /\ Answer(c, CreatedOrReplaced(c))
        /\ r.method = "COPY" /\ web[c].node = t[r.path].id
    BY <1>2, <1>6 DEF CopyWrite, Handles, Req
  <2>2. /\ web'[c].phase = "done" /\ Req(c)' = r /\ before[c]' = t
        /\ web'[c].status = IF Absent(t, r.dest) THEN 201 ELSE 204
    BY <1>2, <2>1, AnswerGives
  <2> DEFINE node == web[c].node
  <2> HIDE DEF r, t, node
  <2>3. PICK u, v, w : u = t /\ v = r.path /\ w = r.dest
    OBVIOUS
  <2>4. /\ DOMAIN tree' = DOMAIN tree \cup {w} /\ tree'[w].type = "file"
        /\ \A q \in DOMAIN tree \ {w} :
             tree'[q] = tree[q] /\ (tree[q].id = node => tree'[w].data = tree[q].data)
    BY <1>3, <2>1, <2>3, CopyIntoNumbered DEF node
  <2>5. tree'[w].data = u[v].data
    BY <1>2, <1>4, <2>1, <2>3, <2>4 DEF node
  <2>6. SparesBelow(v)
    BY <1>2, <1>3, <1>4, <2>1, <2>3, <2>4, WriteSparesFiles DEF NumberedTree
  <2>7. Unchanged(u, v)'
    BY <1>1, <2>3, <2>6, UnchangedStays
  <2>8. Subtree(u, v) = Subtree(tree', v) /\ \A q \in Subtree(u, v) : u[q] = tree'[q]
    BY <2>7 DEF Unchanged
  <2>9. w \in DOMAIN tree' /\ tree'[w].type = "file" /\ WasFile(u, v)
    BY <1>2, <2>3, <2>4
  <2>10. Promised(c)'
    <3>1. CASE Absent(u, w)
      BY <1>2, <2>1, <2>2, <2>3, <2>5, <2>8, <2>9, <3>1
         DEF Promised, Unchanged, IsFile, Absent, CopyMove
    <3>2. CASE ~Absent(u, w)
      BY <1>2, <2>1, <2>2, <2>3, <2>5, <2>8, <2>9, <3>2
         DEF Promised, Unchanged, IsFile, Absent, CopyMove
    <3> QED BY <3>1, <3>2
  <2> QED BY <2>2, <2>10 DEF Honest
<1>7. CASE MoveDo(c) /\ ~(NoChange /\ \E status \in {404, 409} : Answer(c, status))
  <2>1. /\ CanMove(r.path, r.dest, r.overwrite) /\ Move(r.path, r.dest, r.overwrite)
        /\ Answer(c, CreatedOrReplaced(c)) /\ r.method = "MOVE"
    BY <1>7 DEF MoveDo, MoveFlag, Handles, Req
  <2>2. /\ web'[c].phase = "done" /\ Req(c)' = r /\ before[c]' = t
        /\ web'[c].status = IF Absent(t, r.dest) THEN 201 ELSE 204
    BY <1>2, <2>1, AnswerGives
  <2> DEFINE flag == r.overwrite
  <2>3. Move(r.path, r.dest, flag) /\ CanMove(r.path, r.dest, flag)
    BY <2>1
  <2> HIDE DEF r, t, flag
  <2>4. PICK u, v, w : u = t /\ v = r.path /\ w = r.dest
    OBVIOUS
  <2>5. ~Below(w, v)
    <3>1. SUFFICES ASSUME Below(w, v) PROVE FALSE
      OBVIOUS
    <3>2. Present(w)
      BY <1>4, <2>4, <3>1 DEF Present, TreeAt
    <3>3. IsFile(w)
      BY <1>4, <2>3, <2>4, <3>2 DEF CanMove
    <3> QED BY <1>4, <2>4, <3>1, <3>3 DEF NumberedTree, SoundTree, IsFile
  <2>6. /\ ~Present(v)'
        /\ \A p \in TreeAt(v) : LET at == Rebase(v, w, p) IN
             at \in DOMAIN tree' /\ tree'[at] = tree[p]
    BY <1>3, <2>3, <2>4, <2>5, MoveDelivers
  <2>7. w \in DOMAIN tree' /\ tree'[w] = tree[v] /\ tree[v] = u[v]
    <3>1. v \in TreeAt(v) /\ Rebase(v, w, v) = w
      BY <1>3, <1>4, <2>4, RebaseSelf DEF TreeAt
    <3> QED BY <1>4, <2>4, <2>6, <3>1
  <2>8. tree'[w].type = "file" /\ WasFile(u, v)
    BY <1>2, <2>4, <2>7 DEF WasFile
  <2>9. \A q \in DOMAIN tree' : ~(q = v \/ Below(v, q))
    BY <2>6 DEF Present, TreeAt
  <2>10. Promised(c)'
    <3>1. CASE Absent(u, w)
      BY <1>2, <2>1, <2>2, <2>4, <2>7, <2>8, <2>9, <3>1
         DEF Promised, Present, TreeAt, IsFile, Absent, CopyMove
    <3>2. CASE ~Absent(u, w)
      BY <1>2, <2>1, <2>2, <2>4, <2>7, <2>8, <2>9, <3>2
         DEF Promised, Present, TreeAt, IsFile, Absent, CopyMove
    <3> QED BY <3>1, <3>2
  <2> QED BY <2>2, <2>10 DEF Honest
<1> QED BY <1>5, <1>6, <1>7 DEF CopyWrite, MoveDo

LEMMA HandlerLearns ==
  ASSUME NumberedTree, WebShape, RequestsInv, NEW c \in Clients,
         QuietClient(c), before' = before, WebStep(c)
  PROVE  Honest(c)
<1>1. IsRequest(web[c])
  BY WorkingHasRequest
<1> QED BY <1>1, PutLearns, DeleteLearns, MkcolLearns, LookLearns, WriteLearns DEF WebStep

LEMMA HandlerNumbers ==
  ASSUME NumberedTree, WebShape, RequestsInv, NEW c \in Clients, WebStep(c)
  PROVE  NumberedTree'
<1> DEFINE path == Req(c).path
           dest == Req(c).dest
           data == Req(c).data
           flag == Req(c).overwrite
           node == web[c].node
<1>1. Busy(c) /\ (HandlerLooks(c) \/ HandlerWrites(c))
  BY HandlerSays
<1>2. RequestWell(c) /\ path \in Seq(Names) /\ dest \in Seq(Names)
  BY <1>1, WebDavAssumption DEF RequestsInv, RequestWell, Busy, NoRequest
<1>3. CASE HandlerLooks(c)
  <2>1. tree' = tree /\ nextId' = nextId
    BY <1>3 DEF HandlerLooks, fsVars
  <2> QED BY <2>1 DEF NumberedTree, SoundTree, IsFile
<1>4. CASE HandlerWrites(c)
  <2>1. /\ web[c].phase \in {"write", "make"} => path \in Seq(Names) \ {<<>>}
        /\ web[c].phase \in {"do", "copying"} => dest \in Seq(Names) \ {<<>>}
    BY <1>2 DEF RequestWell
  <2>2. \/ web[c].phase = "write" /\ Store(path, data)
        \/ Delete(path, TRUE)
        \/ web[c].phase = "make" /\ CreateDirectory(path, Len(path) - 1)
        \/ web[c].phase = "copying" /\ CopyInto(node, dest)
        \/ web[c].phase = "do" /\ Move(path, dest, flag)
    BY <1>4 DEF HandlerWrites
  <2> HIDE DEF path, dest, data, flag, node
  <2>3. path \in Seq(Names) \ {<<>>} => Len(path) - 1 \in 0..(Len(path) - 1)
    OBVIOUS
  <2>4. CASE web[c].phase = "write" /\ Store(path, data)
    BY <2>1, <2>4, StoreNumbered
  <2>5. CASE Delete(path, TRUE)
    BY <2>5, DeleteNumbered
  <2>6. CASE web[c].phase = "make" /\ CreateDirectory(path, Len(path) - 1)
    BY <2>1, <2>3, <2>6, CreateDirectoryNumbered
  <2>7. CASE web[c].phase = "copying" /\ CopyInto(node, dest)
    BY <2>1, <2>7, CopyIntoNumbered
  <2>8. CASE web[c].phase = "do" /\ Move(path, dest, flag)
    BY <1>2, <2>1, <2>8, MoveNumbered
  <2> QED BY <2>2, <2>4, <2>5, <2>6, <2>7, <2>8
<1> QED BY <1>1, <1>3, <1>4

LEMMA MethodNumbers ==
  ASSUME NumberedTree, TasksInv, NEW p \in Programs, AdapterStep(p)
  PROVE  NumberedTree'
<1> DEFINE call == Arg(p)
           at == ItemTarget(p)
           node == task[p].node
           to == task[p].to
           src == call.src
           path == call.path
           flag == call.overwrite
           recursive == call.recursive
<1>1. Running(p) /\ TaskWell(task[p]) /\ (MethodLooks(p) \/ MethodWrites(p))
  BY MethodSays DEF NumberedTree
<1>2. CASE MethodLooks(p)
  <2>1. tree' = tree /\ nextId' = nextId
    BY <1>2 DEF MethodLooks, fsVars
  <2> QED BY <2>1 DEF NumberedTree, SoundTree, IsFile
<1>3. CASE MethodWrites(p)
  <2>1. call \in Calls /\ to \in Seq(Names)
    BY <1>1 DEF TaskWell, Arg
  <2>2. /\ call.op = "mv" => src \in Seq(Names)
        /\ call.op = "touch" => path \in Seq(Names) \ {<<>>}
    BY <2>1, CallSays
  <2>3. \/ call.op = "mv" /\ to # <<>> /\ Move(src, to, flag)
        \/ \E q \in Seq(Names) : Makedirs(q)
        \/ at \in Seq(Names) \ {<<>>} /\ CopyInto(node, at)
        \/ call.op = "touch" /\ Store(path, <<>>)
        \/ Delete(path, recursive)
    BY <1>3 DEF MethodWrites, Doing, Arg
  <2> HIDE DEF call, at, node, to, src, path, flag, recursive
  <2>4. CASE call.op = "mv" /\ to # <<>> /\ Move(src, to, flag)
    BY <2>1, <2>2, <2>4, MoveNumbered
  <2>5. CASE \E q \in Seq(Names) : Makedirs(q)
    BY <2>5, MakedirsNumbered
  <2>6. CASE at \in Seq(Names) \ {<<>>} /\ CopyInto(node, at)
    BY <2>6, CopyIntoNumbered
  <2>7. CASE call.op = "touch" /\ Store(path, <<>>)
    BY <2>2, <2>7, StoreNumbered
  <2>8. CASE Delete(path, recursive)
    BY <2>8, DeleteNumbered
  <2> QED BY <2>3, <2>4, <2>5, <2>6, <2>7, <2>8
<1> QED BY <1>1, <1>2, <1>3

-----------------------------------------------------------------------------
(* Clients: what a handler has learned stays true while others are at work *)

ClientsQuiet == \A c \in Clients \ raced : Busy(c) => QuietClient(c)

LEMMA LearnedStays ==
  ASSUME NEW c, web'[c] = web[c], before'[c] = before[c], Learned(c)
  PROVE  Learned(c)'
BY DEF Learned, Req, CreatedOrReplaced, Existed, Absent, Subtree

LEMMA AllStay ==
  ASSUME NEW b, NEW W, \A w \in W : SparesBelow(w), before'[b] = before[b],
         \A w \in W : Unchanged(before[b], w)
  PROVE  \A w \in W : Unchanged(before[b], w)'
<1> TAKE w \in W
<1>1. PICK t : t = before[b]
  OBVIOUS
<1>2. Unchanged(t, w)'
  BY <1>1, UnchangedStays
<1> QED BY <1>1, <1>2 DEF Unchanged, Subtree

LEMMA ClientLeft ==
  ASSUME ClientsQuiet, NEW a, NEW created, Moved(a, created), NEW c \in Clients \ {a},
         web'[c] = web[c], c \notin raced', Busy(c)'
  PROVE  QuietClient(c)'
<1>1. /\ Busy(c) /\ c \notin raced /\ before' = before /\ c \in Agents /\ Active(c)
      /\ Watched(c)' = Watched(c)
  BY DEF Moved, Busy, Agents, Active, Watched, Req
<1>2. QuietClient(c)
  BY <1>1 DEF ClientsQuiet
<1>3. \A w \in Watched(c) : SparesBelow(w)
  BY <1>1, OthersSpare
<1>4. \A w \in Watched(c) : Unchanged(before[c], w)'
  BY <1>1, <1>2, <1>3, AllStay DEF QuietClient
<1> QED BY <1>1, <1>2, <1>4, LearnedStays DEF QuietClient

LEMMA ClientUntouched ==
  ASSUME ClientsQuiet, NEW c \in Clients, web'[c] = web[c], tree' = tree,
         before'[c] = before[c], c \notin raced, Busy(c)'
  PROVE  QuietClient(c)'
<1>1. QuietClient(c) /\ Watched(c)' = Watched(c)
  BY DEF ClientsQuiet, Busy, Watched, Req
<1>2. \A w \in Watched(c) : Unchanged(before[c], w)'
  BY <1>1, SameSpares, AllStay DEF QuietClient
<1> QED BY <1>1, <1>2, LearnedStays DEF QuietClient

LEMMA ReceiveQuiet ==
  ASSUME WebShape, before \in [Agents -> {before[a] : a \in Agents}],
         NEW c \in Clients, NEW r, Receive(c, r), Begun(c)
  PROVE  QuietClient(c)'
<1>1. web'[c].phase = "look" /\ before'[c] = tree /\ tree' = tree
  BY DEF WebShape, Receive, Begun, Agents, fsVars
<1>2. Learned(c)'
  BY <1>1 DEF Learned
<1>3. \A w : Unchanged(before[c], w)'
  BY <1>1 DEF Unchanged, Subtree
<1> QED BY <1>2, <1>3 DEF QuietClient

(* The clients' part of a handler's own step. *)
LEMMA HandlerQuiet ==
  ASSUME NumberedTree, WebShape, RequestsInv, ClientsQuiet, NEW c \in Clients, WebStep(c),
         NEW created, Moved(c, created)
  PROVE  /\ ClientsQuiet'
         /\ \A e \in Clients : Busy(e) /\ web'[e].phase = "done" /\ e \notin raced' => Promised(e)'
<1>1. /\ Busy(c) /\ IsRequest(web[c]) /\ before' = before /\ (c \in raced' <=> c \in raced)
      /\ \A e \in Clients \ {c} : web'[e] = web[e]
      /\ Req(c)' = Req(c)
  BY HandlerSays DEF HandlerLooks, HandlerWrites, Goes, Moved, Req
<1>2. ASSUME c \notin raced
      PROVE  Honest(c)
  BY <1>1, <1>2, HandlerLearns DEF ClientsQuiet
<1>3. ASSUME c \notin raced', Busy(c)'
      PROVE  QuietClient(c)'
  <2>1. tree' = tree /\ Learned(c)' /\ Watched(c)' = Watched(c)
    BY <1>1, <1>2, <1>3 DEF Honest, Busy, Watched
  <2>2. \A w \in Watched(c) : Unchanged(before[c], w)'
    BY <1>1, <1>3, <2>1, SameSpares, AllStay DEF ClientsQuiet, QuietClient
  <2> QED BY <2>1, <2>2 DEF QuietClient
<1>4. ClientsQuiet'
  BY <1>1, <1>3, ClientLeft DEF ClientsQuiet
<1>5. ASSUME NEW e \in Clients, Busy(e), web'[e].phase = "done", e \notin raced'
      PROVE  Promised(e)'
  <2>1. e = c
    BY <1>1, <1>5 DEF Busy
  <2> QED BY <1>1, <1>2, <1>5, <2>1 DEF Honest
<1> QED BY <1>4, <1>5

-----------------------------------------------------------------------------
(* Programs: where a method puts what it moves or copies *)

LEMMA ConcatSays ==
  ASSUME NEW s \in Seq(Names) \ {<<>>}
  PROVE  /\ Parent(s) \in Seq(Names) /\ Len(Parent(s)) = Len(s) - 1 /\ Len(s) \in Nat \ {0}
         /\ Below(Parent(s), s) /\ Last(s) = s[Len(s)] /\ s[Len(s)] \in Names
<1>1. Len(s) \in Nat \ {0} /\ Len(s) - 1 \in 0..Len(s) /\ Len(s) - 1 # Len(s)
  OBVIOUS
<1>2. Parent(s) \in Seq(Names) /\ Len(Parent(s)) = Len(s) - 1 /\ Below(Parent(s), s)
  BY <1>1, UptoSays DEF Parent
<1> QED BY <1>1, <1>2 DEF Last

LEMMA IntoBelow ==
  ASSUME NEW src \in Seq(Names) \ {<<>>}, NEW dst \in Seq(Names)
  PROVE  LET place == IntoDirectory(src, dst) IN
         /\ place \in Seq(Names) \ {<<>>} /\ Below(dst, place) /\ Len(place) = Len(dst) + 1
         /\ \A i \in 1..Len(dst) : place[i] = dst[i]
         /\ place[Len(dst) + 1] = src[Len(src)]
<1> DEFINE n == src[Len(src)]
           place == IntoDirectory(src, dst)
<1>1. n \in Names /\ place = Append(dst, n)
  BY ConcatSays DEF IntoDirectory
<1> HIDE DEF n, place
<1>2. /\ place \in Seq(Names) /\ Len(place) = Len(dst) + 1 /\ place[Len(dst) + 1] = n
      /\ \A i \in 1..Len(dst) : place[i] = dst[i]
  BY <1>1, AppendProperties
<1>3. Below(dst, place) /\ place # <<>>
  BY <1>2 DEF Below
<1> QED BY <1>2, <1>3 DEF n, place

(* Behind the parent of the source, the source's own name comes first. *)
LEMMA RebaseInto ==
  ASSUME NEW src \in Seq(Names) \ {<<>>}, NEW dst \in Seq(Names), NEW q \in Seq(Names),
         q = src \/ Below(src, q)
  PROVE  Rebase(Parent(src), dst, q) = Rebase(src, IntoDirectory(src, dst), q)
<1> DEFINE up == Parent(src)
           place == IntoDirectory(src, dst)
           a == Rebase(up, dst, q)
           b == Rebase(src, place, q)
           n == Len(src)
           d == Len(dst)
           m == Len(q)
<1>1. up \in Seq(Names) /\ Len(up) = n - 1 /\ n \in Nat \ {0} /\ Below(up, src)
  BY ConcatSays
<1>2. /\ place \in Seq(Names) /\ Len(place) = d + 1 /\ place[d + 1] = src[n]
      /\ \A i \in 1..d : place[i] = dst[i]
  BY IntoBelow
<1> HIDE DEF up, place
<1>3. Below(up, q)
  BY <1>1, BelowSays
<1>4. /\ a \in Seq(Names) /\ Len(a) = d + m - (n - 1)
      /\ \A i \in 1..d : a[i] = dst[i]
      /\ \A i \in 1..(m - (n - 1)) : a[i + d] = q[i + (n - 1)]
  <2> HIDE DEF a, n, d, m
  <2>1. /\ a \in Seq(Names) /\ Len(a) = Len(dst) + Len(q) - Len(up)
        /\ \A i \in 1..Len(dst) : a[i] = dst[i]
        /\ \A i \in 1..(Len(q) - Len(up)) : a[i + Len(dst)] = q[i + Len(up)]
    <3>1. up \in Seq(Names) /\ (q = up \/ Below(up, q))
      BY <1>1, <1>3
    <3> QED BY <3>1, RebaseSays, ZenonT(60) DEF a
  <2> QED BY <1>1, <2>1 DEF d, m
<1>5. /\ b \in Seq(Names) /\ Len(b) = (d + 1) + m - n
      /\ \A i \in 1..(d + 1) : b[i] = place[i]
      /\ \A i \in 1..(m - n) : b[i + (d + 1)] = q[i + n]
  <2> HIDE DEF b, n, d, m
  <2>1. /\ b \in Seq(Names) /\ Len(b) = Len(place) + Len(q) - Len(src)
        /\ \A i \in 1..Len(place) : b[i] = place[i]
        /\ \A i \in 1..(Len(q) - Len(src)) : b[i + Len(place)] = q[i + Len(src)]
    <3>1. place \in Seq(Names) /\ src \in Seq(Names)
      BY <1>2
    <3> QED BY <3>1, RebaseSays, ZenonT(60) DEF b
  <2> QED BY <1>2, <2>1 DEF d, m, n
<1>6. n \in 1..m /\ m \in Nat /\ d \in Nat /\ q[n] = src[n]
  BY <1>1 DEF Below
<1> HIDE DEF a, b, n, d, m
<1>7. ASSUME NEW i \in 1..Len(a)
      PROVE  a[i] = b[i]
  <2>1. i \in Nat /\ i >= 1 /\ i <= d + m - (n - 1)
    BY <1>4, <1>6
  <2>2. CASE i <= d
    BY <1>2, <1>4, <1>5, <1>6, <2>1, <2>2
  <2>3. CASE i = d + 1
    <3>1. 1 \in 1..(m - (n - 1)) /\ 1 + d = d + 1 /\ 1 + (n - 1) = n /\ d + 1 \in 1..(d + 1)
      BY <1>6
    <3>2. a[d + 1] = q[n]
      BY <1>4, <3>1
    <3>3. b[d + 1] = src[n]
      BY <1>2, <1>5, <3>1
    <3> QED BY <1>6, <2>3, <3>2, <3>3
  <2>4. CASE i > d + 1
    <3> DEFINE j == i - (d + 1)
    <3>1. /\ j \in 1..(m - n) /\ j + 1 \in 1..(m - (n - 1))
          /\ j + (d + 1) = i /\ (j + 1) + d = i /\ (j + 1) + (n - 1) = j + n
      BY <1>6, <2>1, <2>4
    <3> HIDE DEF j
    <3>2. a[(j + 1) + d] = q[(j + 1) + (n - 1)] /\ b[j + (d + 1)] = q[j + n]
      BY <1>4, <1>5, <3>1
    <3> QED BY <3>1, <3>2
  <2> QED BY <1>6, <2>1, <2>2, <2>3, <2>4
<1>8. Len(a) = Len(b)
  BY <1>4, <1>5, <1>6
<1>9. a = b
  BY <1>4, <1>5, <1>7, <1>8
<1> QED BY <1>9 DEF a, b, up, place

(* A single path is its own common prefix. *)
LEMMA PrefixOfOne ==
  ASSUME NEW p \in Seq(Names)
  PROVE  CommonPrefix({p}) = p
<1> DEFINE S == {p}
           r == CHOOSE q \in S : TRUE
           common == {k \in 0..Len(r) : \A q \in S : k <= Len(q) /\ Upto(q, k) = Upto(r, k)}
           longest == CHOOSE k \in common : \A j \in common : j <= k
<1>1. r = p /\ Len(p) \in Nat
  OBVIOUS
<1>2. common = 0..Len(p)
  BY <1>1
<1>3. longest = Len(p)
  <2>1. \E k \in common : \A j \in common : j <= k
    BY <1>1, <1>2
  <2>2. longest \in common /\ \A j \in common : j <= longest
    BY <2>1
  <2>3. Len(p) \in common
    BY <1>1, <1>2
  <2> HIDE DEF longest
  <2> QED BY <1>1, <1>2, <2>2, <2>3
<1>4. CommonPrefix(S) = Upto(r, longest)
  BY DEF CommonPrefix
<1>5. Upto(p, Len(p)) = p
  BY <1>1, UptoSays
<1> HIDE DEF S, r, longest
<1> QED BY <1>1, <1>3, <1>4, <1>5 DEF S

(* Trees apart have nothing in common, and neither is above the other's parts. *)
LEMMA ApartSays ==
  ASSUME NEW src \in Seq(Names), NEW dst \in Seq(Names), ~Related(src, dst),
         NEW q \in Seq(Names), q = src \/ Below(src, q),
         NEW r \in Seq(Names), r = dst \/ Below(dst, r)
  PROVE  ~Related(q, r)
BY BelowSays DEF Related

-----------------------------------------------------------------------------
(* Programs: what a method has found out about the tree that was there when it was
   called *)

(* The paths that a recursive copy collects. *)
Gathered(t, src, found) ==
  IF WasFile(t, src) THEN found = {src}
  ELSE /\ found # {}
       /\ \A q \in found : /\ q \in Seq(Names) /\ Below(src, q)
                           /\ \E r \in Subtree(t, q) : r \in Seq(Names)
       /\ \A q \in Subtree(t, src) : q = src \/ q \in found

Searching == {"nodes", "isfile", "isdir", "empty", "mkempty"}
Copying == {"items", "mkitem", "source", "write"}

Unrelated(p) == ~Related(Arg(p).src, Arg(p).dst)
IntoDst(p) == ~Arg(p).contents /\ (Arg(p).slash \/ WasDirectory(before[p], Arg(p).dst))
Top(p) == IF IntoDst(p) THEN IntoDirectory(Arg(p).src, Arg(p).dst) ELSE Arg(p).dst
Straight(p) == WasFile(before[p], Arg(p).src) \/ CommonPrefix(task[p].found) = Arg(p).src

CopyLearned(p) ==
  LET call  == Arg(p)
      t     == before[p]
      k     == task[p]
  IN  /\ k.phase \in Searching \cup {"begin"} => k.found = {}
      /\ k.phase \in Searching => ~WasFile(t, call.src)
      /\ k.phase \in Searching \ {"nodes"} => Subtree(t, call.src) \subseteq {call.src}
      /\ k.phase = "mkempty" =>
           k.to = IF call.slash \/ WasDirectory(t, call.dst)
                  THEN IntoDirectory(call.src, call.dst) ELSE call.dst
      /\ k.phase \in Copying \cup {"target"} => Gathered(t, call.src, k.found)
      /\ k.phase \in Copying =>
           /\ k.left \subseteq k.found
           /\ Straight(p) => k.prefix = IF IntoDst(p) THEN Parent(call.src) ELSE call.src
      /\ k.phase \in Copying \ {"items"} => k.item \in k.found
      /\ k.phase = "mkitem" => ~WasFile(t, k.item)
      /\ k.phase \in {"source", "write"} => WasFile(t, k.item)
      /\ k.phase = "write" => k.node = t[k.item].id

MethodLearned(p) ==
  LET call == Arg(p)
      t    == before[p]
      k    == task[p]
  IN  /\ k.outcome = "none"
      /\ call.op = "mv" /\ k.phase = "move" => k.to = Place(t, call, FALSE)
      /\ call.op = "touch" /\ k.phase = "write" => call.truncate \/ Absent(t, call.path)
      /\ call.op = "copy" /\ Unrelated(p) => CopyLearned(p)

(* The paths below which even the method itself has changed nothing. *)
Still(p) ==
  CASE Arg(p).op # "copy" -> Watched(p)
    [] Arg(p).op = "copy" /\ Unrelated(p) /\ task[p].phase \in Copying -> {Arg(p).src}
    [] Arg(p).op = "copy" /\ Unrelated(p) /\ task[p].phase \notin Copying -> {Arg(p).src, Arg(p).dst}
    [] OTHER -> {}

(* The sources that have been copied. *)
Handled(p) ==
  task[p].found \ (task[p].left \cup IF task[p].phase = "items" THEN {} ELSE {task[p].item})

CopiesMade(p) ==
  Arg(p).op = "copy" /\ Unrelated(p) /\ task[p].phase \in Copying /\ Straight(p) =>
    \A q \in Handled(p) : CopyOf(before[p], q, Rebase(Arg(p).src, Top(p), q))

QuietMethod(p) ==
  /\ MethodLearned(p)
  /\ \A w \in Still(p) : Unchanged(before[p], w)
  /\ CopiesMade(p)

(* What a method that returns has done, or what it has learned. *)
Faithful(p) ==
  IF task'[p].phase = "over" THEN task'[p].outcome = "returned" => Delivered(p)'
  ELSE QuietMethod(p)'

-----------------------------------------------------------------------------
LEMMA TopSays ==
  ASSUME NEW p \in Programs, TaskWell(task[p]), Arg(p).op = "copy", Unrelated(p)
  PROVE  /\ Arg(p).src \in Seq(Names) \ {<<>>} /\ Arg(p).dst \in Seq(Names) \ {<<>>}
         /\ Top(p) \in Seq(Names) \ {<<>>}
         /\ Top(p) = Arg(p).dst \/ Below(Arg(p).dst, Top(p))
<1> DEFINE src == Arg(p).src
           dst == Arg(p).dst
<1>1. src \in Seq(Names) \ {<<>>} /\ dst \in Seq(Names)
  BY CallSays DEF TaskWell, Arg
<1>2. dst # <<>>
  <2>1. Below(<<>>, src)
    BY <1>1 DEF Below
  <2> QED BY <2>1 DEF Unrelated, Related
<1> QED BY <1>1, <1>2, IntoBelow DEF Top

(* Where a part of the source goes. *)
LEMMA PlacedSays ==
  ASSUME NEW p \in Programs, TaskWell(task[p]), Arg(p).op = "copy", Unrelated(p),
         NEW q \in Seq(Names), q = Arg(p).src \/ Below(Arg(p).src, q)
  PROVE  LET at == Rebase(Arg(p).src, Top(p), q) IN
         /\ at \in Seq(Names) \ {<<>>} /\ (at = Arg(p).dst \/ Below(Arg(p).dst, at))
         /\ at = Top(p) \/ Below(Top(p), at)
         /\ Rebase(Top(p), Arg(p).src, at) = q
         /\ \A r \in Seq(Names) : r = Arg(p).src \/ Below(Arg(p).src, r) => ~Related(r, at)
<1> DEFINE src == Arg(p).src
           dst == Arg(p).dst
           top == Top(p)
           at == Rebase(src, top, q)
<1>1. /\ src \in Seq(Names) \ {<<>>} /\ dst \in Seq(Names) \ {<<>>}
      /\ top \in Seq(Names) /\ (top = dst \/ Below(dst, top))
  BY TopSays
<1>2. ~Related(src, dst)
  BY DEF Unrelated
<1> HIDE DEF src, dst, top
<1>3. /\ at \in Seq(Names) /\ (at = top \/ Below(top, at)) /\ Rebase(top, src, at) = q
  BY <1>1, RebaseSays, RebaseBack DEF src
<1> HIDE DEF at
<1>4. at = dst \/ Below(dst, at)
  BY <1>1, <1>3, BelowSays
<1>5. at # <<>>
  BY <1>1, <1>4 DEF Below
<1>6. \A r \in Seq(Names) : r = src \/ Below(src, r) => ~Related(r, at)
  BY <1>1, <1>2, <1>3, <1>4, ApartSays
<1> QED BY <1>3, <1>4, <1>5, <1>6 DEF src, dst, top, at

LEMMA GatheredSays ==
  ASSUME NEW t, NEW src \in Seq(Names), NEW found, Gathered(t, src, found), NEW q \in found
  PROVE  q \in Seq(Names) /\ (q = src \/ Below(src, q))
BY DEF Gathered

(* What is copied stays so while nothing changes there. *)
LEMMA CopyStays ==
  ASSUME SoundTree, NEW t, NEW q, NEW w \in Seq(Names), SparesBelow(w),
         NEW at \in Seq(Names), at = w \/ Below(w, at), CopyOf(t, q, at)
  PROVE  CopyOf(t, q, at)'
<1>1. /\ Present(at) => Present(at)'
      /\ IsFile(at) => IsFile(at)' /\ tree'[at] = tree[at]
  BY PlaceStays
<1> QED BY <1>1 DEF CopyOf

(* Another method is left with what it has learned. *)
LEMMA MethodStays ==
  ASSUME SoundTree, NEW p \in Programs, TaskWell(task[p]), QuietMethod(p),
         task'[p] = task[p], before'[p] = before[p],
         \A w \in Watched(p) : SparesBelow(w)
  PROVE  QuietMethod(p)'
<1>1. /\ Arg(p)' = Arg(p) /\ (Unrelated(p)' <=> Unrelated(p)) /\ (IntoDst(p)' <=> IntoDst(p))
      /\ Top(p)' = Top(p) /\ (Straight(p)' <=> Straight(p)) /\ Handled(p)' = Handled(p)
      /\ Still(p)' = Still(p)
  <2>1. Arg(p)' = Arg(p) /\ (Unrelated(p)' <=> Unrelated(p)) /\ Handled(p)' = Handled(p)
    BY DEF Arg, Unrelated, Handled
  <2>2. IntoDst(p)' <=> IntoDst(p)
    BY <2>1 DEF IntoDst, WasDirectory, WasFile, Subtree
  <2>3. Top(p)' = Top(p)
    BY <2>1, <2>2 DEF Top
  <2>4. Straight(p)' <=> Straight(p)
    BY <2>1 DEF Straight, WasFile
  <2>5. Watched(p)' = Watched(p)
    BY <2>1, ClientsAssumption DEF Watched
  <2>6. Still(p)' = Still(p)
    BY <2>1, <2>5 DEF Still
  <2> QED BY <2>1, <2>2, <2>3, <2>4, <2>6
<1>2. MethodLearned(p)'
  <2>1. MethodLearned(p)
    BY DEF QuietMethod
  <2>2. CopyLearned(p)' <=> CopyLearned(p)
    BY <1>1 DEF CopyLearned, Gathered, WasDirectory, WasFile, Subtree
  <2> QED BY <1>1, <2>1, <2>2 DEF MethodLearned, Place, WasDirectory, WasFile, Subtree, Absent
<1>3. Still(p) \subseteq Watched(p)
  <2>1. CASE Arg(p).op # "copy"
    BY <2>1 DEF Still
  <2>2. CASE Arg(p).op = "copy"
    <3>1. Watched(p) = {Arg(p).src, Arg(p).dst}
      BY <2>2, ClientsAssumption DEF Watched
    <3> QED BY <2>2, <3>1 DEF Still
  <2> QED BY <2>1, <2>2
<1>4. \A w \in Still(p) : Unchanged(before[p], w)'
  BY <1>3, AllStay DEF QuietMethod
<1>5. CopiesMade(p)'
  <2>1. SUFFICES ASSUME Arg(p).op = "copy", Unrelated(p), task[p].phase \in Copying, Straight(p),
                        NEW q \in Handled(p)
                 PROVE  CopyOf(before[p], q, Rebase(Arg(p).src, Top(p), q))'
    BY <1>1 DEF CopiesMade
  <2>2. CopyOf(before[p], q, Rebase(Arg(p).src, Top(p), q))
    BY <2>1 DEF QuietMethod, CopiesMade
  <2>3. q \in Seq(Names) /\ (q = Arg(p).src \/ Below(Arg(p).src, q))
    <3>1. Gathered(before[p], Arg(p).src, task[p].found) /\ q \in task[p].found
      BY <2>1 DEF QuietMethod, MethodLearned, CopyLearned, Handled
    <3> QED BY <2>1, <3>1, TopSays, GatheredSays
  <2>4. PICK t, at, w : t = before[p] /\ at = Rebase(Arg(p).src, Top(p), q) /\ w = Arg(p).dst
    OBVIOUS
  <2>5. at \in Seq(Names) /\ (at = w \/ Below(w, at)) /\ w \in Seq(Names)
    BY <2>1, <2>3, <2>4, PlacedSays, TopSays
  <2>6. SparesBelow(w)
    BY <2>1, <2>4, ClientsAssumption DEF Watched
  <2>7. CopyOf(t, q, at)'
    BY <2>2, <2>4, <2>5, <2>6, CopyStays
  <2> QED BY <1>1, <2>4, <2>7
<1> QED BY <1>1, <1>2, <1>4, <1>5 DEF QuietMethod

-----------------------------------------------------------------------------
(* Programs: mv and touch *)

LEMMA OverGives ==
  ASSUME TasksInv, NEW p \in Programs, TaskWell(task[p]), NEW outcome, Over(p, outcome)
  PROVE  /\ task'[p].phase = "over" /\ task'[p].outcome = outcome /\ Arg(p)' = Arg(p)
BY DEF Over, TasksInv, TaskWell, IsTask, Arg

LEMMA RaiseIsFaithful ==
  ASSUME TasksInv, NEW p \in Programs, TaskWell(task[p]), Raise(p)
  PROVE  Faithful(p)
BY OverGives DEF Raise, Faithful

(* A method that only looks, and goes on. *)
LEMMA GoesOnQuietly ==
  ASSUME NEW p \in Programs, Arg(p).op # "copy", QuietMethod(p), tree' = tree,
         before' = before, Arg(p)' = Arg(p), task'[p].outcome = task[p].outcome,
         Arg(p).op = "mv" /\ task'[p].phase = "move"
           => task'[p].to = Place(before[p], Arg(p), FALSE),
         Arg(p).op = "touch" /\ task'[p].phase = "write"
           => Arg(p).truncate \/ Absent(before[p], Arg(p).path)
  PROVE  QuietMethod(p)'
<1>1. MethodLearned(p)'
  BY DEF QuietMethod, MethodLearned, Place, WasDirectory, WasFile, Absent, Subtree
<1>2. Still(p) = Watched(p) /\ Still(p)' = Watched(p)
  <2>1. Watched(p)' = Watched(p)
    BY ClientsAssumption DEF Watched
  <2> QED BY <2>1 DEF Still
<1>3. \A w \in Watched(p) : Unchanged(before[p], w)'
  BY <1>2, SameSpares, AllStay DEF QuietMethod
<1> QED BY <1>1, <1>2, <1>3 DEF QuietMethod, CopiesMade

LEMMA MvIsFaithful ==
  ASSUME NumberedTree, TasksInv, NEW p \in Programs, TaskWell(task[p]), Running(p),
         QuietMethod(p), before' = before, MvLook(p) \/ MvTarget(p) \/ MvMove(p)
  PROVE  Faithful(p)
<1> DEFINE call == Arg(p)
           t == before[p]
           src == call.src
           dst == call.dst
           place == Place(t, call, FALSE)
<1>1. /\ call.op = "mv" /\ src \in Seq(Names) \ {<<>>} /\ dst \in Seq(Names)
  <2>1. call.op = "mv" /\ call \in Calls
    BY DEF MvLook, MvTarget, MvMove, Doing, Arg, TaskWell
  <2> QED BY <2>1, CallSays
<1>2. Unchanged(t, src) /\ Unchanged(t, dst)
  <2>1. Watched(p) = {src, dst}
    BY <1>1, ClientsAssumption DEF Watched
  <2> QED BY <1>1, <2>1 DEF QuietMethod, Still
<1>3. CASE MvLook(p)
  <2>1. UNCHANGED fsVars /\ tree' = tree
    BY <1>3 DEF MvLook, Look, fsVars
  <2>2. CASE src = dst
    <3>1. Return(p)
      BY <1>3, <2>2 DEF MvLook
    <3>2. task'[p].phase = "over" /\ Arg(p)' = call
      BY <3>1, OverGives DEF Return
    <3> HIDE DEF call
    <3> QED BY <1>1, <2>2, <3>2 DEF Faithful, Delivered
  <2>3. CASE src # dst
    <3>1. PICK dir : task' = [task EXCEPT ![p].phase = "target", ![p].asDirectory = dir]
      BY <1>3, <2>3 DEF MvLook
    <3>2. task'[p].phase = "target" /\ Arg(p)' = call /\ task'[p].outcome = task[p].outcome
      BY <3>1 DEF TasksInv, TaskWell, IsTask, Arg
    <3> HIDE DEF call
    <3> QED BY <1>1, <2>1, <3>2, GoesOnQuietly DEF Faithful, call
  <2> QED BY <2>2, <2>3
<1>4. CASE MvTarget(p)
  <2> DEFINE to == IF IsDir(dst) THEN IntoDirectory(src, dst) ELSE dst
  <2>1. tree' = tree /\ task' = [task EXCEPT ![p].phase = "move", ![p].to = to]
    BY <1>4 DEF MvTarget, Look, fsVars
  <2>2. to = place
    BY <1>2, UnchangedSays DEF Place
  <2> HIDE DEF to, place
  <2>3. /\ task'[p].phase = "move" /\ Arg(p)' = call /\ task'[p].outcome = task[p].outcome
        /\ task'[p].to = place
    BY <2>1, <2>2 DEF TasksInv, TaskWell, IsTask, Arg
  <2> HIDE DEF call
  <2> QED BY <1>1, <2>1, <2>3, GoesOnQuietly DEF Faithful, call, place
<1>5. CASE MvMove(p)
  <2>1. CASE Raise(p)
    BY <2>1, RaiseIsFaithful
  <2>2. CASE Return(p) /\ ~Raise(p)
    <3>1. task'[p].phase = "over" /\ Arg(p)' = call
      BY <2>2, OverGives DEF Return
    <3>2. before[p]' = t
      OBVIOUS
    <3>3. task[p].to = place
      BY <1>1, <1>5 DEF QuietMethod, MethodLearned, MvMove, Doing
    <3>4. CASE place = src
      <4> HIDE DEF call, t
      <4> QED BY <1>1, <3>1, <3>2, <3>4 DEF Faithful, Delivered, Place, WasDirectory, WasFile, Subtree
    <3>5. CASE place # src
      <4> DEFINE to == task[p].to
                 flag == call.overwrite
      <4>1. Move(src, to, flag) /\ to \in Seq(Names) \ {<<>>}
        BY <1>5, <2>2, <3>3, <3>5 DEF MvMove, TaskWell, Doing
      <4>2. Subtree(t, src) = TreeAt(src) /\ \A q \in TreeAt(src) : tree[q] = t[q]
        BY <1>2, UnchangedSays DEF TreeAt
      <4>3. CASE Below(place, src)
        <5> HIDE DEF call, t
        <5> QED BY <1>1, <3>1, <3>2, <4>3 DEF Faithful, Delivered, Place, WasDirectory, WasFile, Subtree
      <4>4. CASE ~Below(place, src)
        <5> HIDE DEF flag, to
        <5>1. /\ Present(src) /\ ~Present(src)'
              /\ \A q \in TreeAt(src) : LET at == Rebase(src, to, q) IN
                   at \in DOMAIN tree' /\ tree'[at] = tree[q]
          <6> HIDE DEF src
          <6>1. src \in Seq(Names) \ {<<>>}
            BY <1>1 DEF src
          <6>2. PICK u, v : u = src /\ v = to
            OBVIOUS
          <6>3. /\ Present(u) /\ ~Present(u)'
                /\ \A q \in TreeAt(u) : LET at == Rebase(u, v, q) IN
                     at \in DOMAIN tree' /\ tree'[at] = tree[q]
            BY <3>3, <4>1, <4>4, <6>1, <6>2, MoveDelivers DEF to
          <6>4. src' = src
            BY <3>1 DEF src
          <6> QED BY <6>2, <6>3, <6>4 DEF Present, TreeAt
        <5>2. /\ Subtree(t, src) # {}
              /\ \A q \in DOMAIN tree' : ~(q = src \/ Below(src, q))
              /\ \A q \in Subtree(t, src) : LET at == Rebase(src, place, q) IN
                   at \in DOMAIN tree' /\ tree'[at] = t[q]
          <6> HIDE DEF place
          <6>1. src' = src
            BY <3>1 DEF src
          <6> HIDE DEF src, t
          <6> QED BY <3>3, <4>2, <5>1, <6>1 DEF Present, TreeAt, to
        <5>3. Delivered(p)'
          <6> HIDE DEF call, t
          <6> QED BY <1>1, <3>1, <3>2, <5>2
                  DEF Delivered, Present, TreeAt, Place, WasDirectory, WasFile, Subtree
        <5> QED BY <3>1, <5>3 DEF Faithful
      <4> QED BY <4>3, <4>4
    <3> QED BY <3>4, <3>5
  <2> QED BY <1>5, <2>1, <2>2 DEF MvMove
<1> QED BY <1>3, <1>4, <1>5

LEMMA TouchIsFaithful ==
  ASSUME NumberedTree, TasksInv, NEW p \in Programs, TaskWell(task[p]), Running(p),
         QuietMethod(p), before' = before, TouchLook(p) \/ TouchWrite(p)
  PROVE  Faithful(p)
<1> DEFINE call == Arg(p)
           t == before[p]
           path == call.path
<1>1. call.op = "touch" /\ path \in Seq(Names) \ {<<>>}
  <2>1. call.op = "touch" /\ call \in Calls
    BY DEF TouchLook, TouchWrite, Doing, Arg, TaskWell
  <2> QED BY <2>1, CallSays
<1>2. Unchanged(t, path)
  <2>1. Watched(p) = {path}
    BY <1>1, ClientsAssumption DEF Watched
  <2> QED BY <1>1, <2>1 DEF QuietMethod, Still
<1>3. Present(path) <=> ~Absent(t, path)
  BY <1>2, UnchangedSays DEF Absent
<1>4. before[p]' = t
  OBVIOUS
<1>5. CASE TouchLook(p)
  <2>1. tree' = tree
    BY <1>5 DEF TouchLook, Look, fsVars
  <2>2. CASE Return(p)
    <3>1. task'[p].phase = "over" /\ Arg(p)' = call
      BY <2>2, OverGives DEF Return
    <3>2. CASE ~call.truncate /\ Present(path)
      <4> HIDE DEF call, t
      <4>1. PICK u, v : u = t /\ v = path
        OBVIOUS
      <4>2. /\ Subtree(u, v) = Subtree(tree', v) /\ \A q \in Subtree(u, v) : u[q] = tree'[q]
            /\ Subtree(u, v) # {} /\ ~call.truncate
        BY <1>2, <1>3, <2>1, <3>2, <4>1 DEF Unchanged, Absent
      <4>3. Delivered(p)'
        BY <1>1, <1>4, <3>1, <4>1, <4>2 DEF Delivered, Unchanged
      <4> QED BY <3>1, <4>3 DEF Faithful
    <3>3. CASE ~(~call.truncate /\ Present(path))
      <4>1. Proceed(p, "write")
        BY <1>5, <3>3 DEF TouchLook
      <4>2. task'[p].phase = "write"
        BY <4>1 DEF Proceed, TasksInv, TaskWell, IsTask
      <4> QED BY <3>1, <4>2
    <3> QED BY <3>2, <3>3
  <2>3. CASE ~Return(p)
    <3>1. Proceed(p, "write") /\ (call.truncate \/ ~Present(path))
      BY <1>5, <2>3 DEF TouchLook
    <3>2. task'[p].phase = "write" /\ Arg(p)' = call /\ task'[p].outcome = task[p].outcome
      BY <3>1 DEF Proceed, TasksInv, TaskWell, IsTask, Arg
    <3> HIDE DEF call
    <3> QED BY <1>1, <1>3, <2>1, <3>1, <3>2, GoesOnQuietly DEF Faithful, call
  <2> QED BY <2>2, <2>3
<1>6. CASE TouchWrite(p)
  <2>1. CASE Raise(p)
    BY <2>1, RaiseIsFaithful
  <2>2. CASE ~Raise(p)
    <3>1. Return(p) /\ Store(path, <<>>)
      BY <1>6, <2>2 DEF TouchWrite
    <3>2. task'[p].phase = "over" /\ Arg(p)' = call
      BY <3>1, OverGives DEF Return
    <3>3. call.truncate \/ Absent(t, path)
      BY <1>1, <1>6 DEF QuietMethod, MethodLearned, TouchWrite, Doing
    <3>4. path \in DOMAIN tree' /\ tree'[path].type = "file" /\ tree'[path].data = <<>>
      <4> HIDE DEF path
      <4>1. path \in Seq(Names) \ {<<>>}
        BY <1>1
      <4> QED BY <3>1, <4>1, StoreNumbered
    <3>5. Delivered(p)'
      <4> HIDE DEF call, t
      <4> QED BY <1>1, <1>4, <3>2, <3>3, <3>4 DEF Delivered, IsFile, Absent, Subtree
    <3> QED BY <3>2, <3>5 DEF Faithful
  <2> QED BY <2>1, <2>2
<1> QED BY <1>5, <1>6

(* makedirs and rm are one call. *)
LEMMA OneCallIsFaithful ==
  ASSUME TasksInv, NEW p \in Programs, TaskWell(task[p]), MakedirsCall(p) \/ RmCall(p)
  PROVE  Faithful(p)
<1>1. Arg(p).op \in {"makedirs", "rm"} /\ (Return(p) \/ Raise(p))
  BY DEF MakedirsCall, RmCall, Doing, Arg
<1>2. task'[p].phase = "over" /\ Arg(p)' = Arg(p)
  BY <1>1, OverGives DEF Return, Raise
<1> QED BY <1>1, <1>2 DEF Faithful, Delivered

LEMMA BeginIsQuiet ==
  ASSUME TasksInv, before \in [Agents -> {before[a] : a \in Agents}],
         NEW p \in Programs, NEW call \in Calls, BeginTask(p, call), Begun(p)
  PROVE  QuietMethod(p)'
<1>1. /\ task'[p].phase = "begin" /\ task'[p].found = {} /\ task'[p].outcome = "none"
      /\ before'[p] = tree /\ tree' = tree
  BY DEF BeginTask, Begun, TasksInv, Agents, fsVars
<1>2. MethodLearned(p)'
  BY <1>1 DEF MethodLearned, CopyLearned, Searching, Copying
<1>3. \A w : Unchanged(before[p], w)'
  BY <1>1 DEF Unchanged, Subtree
<1>4. CopiesMade(p)'
  BY <1>1 DEF CopiesMade, Copying
<1> QED BY <1>2, <1>3, <1>4 DEF QuietMethod

-----------------------------------------------------------------------------
(* Programs: the recursive copy *)

CopyStep(p) ==
  \/ CopyFindInfo(p) \/ CopyFindNodes(p) \/ CopyIsFile(p) \/ CopyIsDir(p)
  \/ CopyEmptyTarget(p) \/ CopyMakeEmpty(p) \/ CopyTarget(p)
  \/ ItemLook(p) \/ ItemMakedirs(p) \/ ItemSource(p) \/ ItemWrite(p)

LEMMA ProceedGives ==
  ASSUME TasksInv, NEW p \in Programs, TaskWell(task[p]), NEW phase, Proceed(p, phase)
  PROVE  /\ task'[p].phase = phase /\ Arg(p)' = Arg(p) /\ task'[p].outcome = task[p].outcome
         /\ task'[p].to = task[p].to /\ task'[p].found = task[p].found
         /\ task'[p].left = task[p].left /\ task'[p].prefix = task[p].prefix
         /\ task'[p].item = task[p].item /\ task'[p].node = task[p].node
BY DEF Proceed, TasksInv, TaskWell, IsTask, Arg

LEMMA CopyStepSays ==
  ASSUME TasksInv, NEW p \in Programs, TaskWell(task[p]), CopyStep(p)
  PROVE  /\ Arg(p).op = "copy" /\ Arg(p)' = Arg(p)
         /\ task'[p].phase = "over" \/ task'[p].outcome = task[p].outcome
<1>1. Arg(p).op = "copy"
  BY DEF CopyStep, CopyFindInfo, CopyFindNodes, CopyIsFile, CopyIsDir, CopyEmptyTarget,
         CopyMakeEmpty, CopyTarget, ItemLook, ItemMakedirs, ItemSource, ItemWrite, Doing, Arg
<1> DEFINE Fine == /\ Arg(p)' = Arg(p)
                   /\ task'[p].phase = "over" \/ task'[p].outcome = task[p].outcome
<1>2. ASSUME Return(p) \/ Raise(p)
      PROVE  Fine
  BY <1>2, OverGives DEF Return, Raise
<1>3. ASSUME NEW phase, Proceed(p, phase)
      PROVE  Fine
  BY <1>3, ProceedGives
<1>4. ASSUME CopyFindInfo(p)
      PROVE  Fine
  <2>1. CASE task' = [task EXCEPT ![p].phase = "target", ![p].found = {Arg(p).src}]
    BY <2>1 DEF TasksInv, TaskWell, IsTask, Arg
  <2> QED BY <1>1, <1>3, <1>4, <2>1 DEF CopyFindInfo
<1>5. ASSUME CopyFindNodes(p)
      PROVE  Fine
  <2>1. PICK ph, found : task' = [task EXCEPT ![p].phase = ph, ![p].found = found]
    BY <1>5 DEF CopyFindNodes
  <2> QED BY <2>1 DEF TasksInv, TaskWell, IsTask, Arg
<1>6. ASSUME CopyIsFile(p)
      PROVE  Fine
  <2>1. CASE task' = [task EXCEPT ![p].phase = "target", ![p].found = {Arg(p).src}]
    BY <2>1 DEF TasksInv, TaskWell, IsTask, Arg
  <2> QED BY <1>3, <1>6, <2>1 DEF CopyIsFile
<1>7. ASSUME CopyIsDir(p)
      PROVE  Fine
  BY <1>2, <1>3, <1>7 DEF CopyIsDir
<1>8. ASSUME CopyEmptyTarget(p)
      PROVE  Fine
  <2>1. PICK to : task' = [task EXCEPT ![p].phase = "mkempty", ![p].to = to]
    BY <1>8 DEF CopyEmptyTarget
  <2> QED BY <2>1 DEF TasksInv, TaskWell, IsTask, Arg
<1>9. ASSUME CopyMakeEmpty(p)
      PROVE  Fine
  BY <1>2, <1>9 DEF CopyMakeEmpty
<1>10. ASSUME CopyTarget(p)
      PROVE  Fine
  <2>1. PICK left, prefix :
          task' = [task EXCEPT ![p].phase = "items", ![p].left = left, ![p].prefix = prefix]
    BY <1>10 DEF CopyTarget
  <2> QED BY <2>1 DEF TasksInv, TaskWell, IsTask, Arg
<1>11. ASSUME ItemLook(p)
      PROVE  Fine
  <2>1. CASE task[p].left = {}
    BY <1>2, <1>11, <2>1 DEF ItemLook
  <2>2. CASE task[p].left # {}
    <3>1. PICK q, ph :
            task' = [task EXCEPT ![p].phase = ph, ![p].item = q, ![p].left = @ \ {q}]
      BY <1>11, <2>2 DEF ItemLook
    <3> QED BY <3>1 DEF TasksInv, TaskWell, IsTask, Arg
  <2> QED BY <2>1, <2>2
<1>12. ASSUME ItemMakedirs(p)
      PROVE  Fine
  BY <1>2, <1>3, <1>12 DEF ItemMakedirs, NextItem
<1>13. ASSUME ItemSource(p)
      PROVE  Fine
  <2>1. \/ Raise(p) \/ Proceed(p, "items")
        \/ \E node : task' = [task EXCEPT ![p].phase = "write", ![p].node = node]
    BY <1>13 DEF ItemSource, NextItem
  <2>2. ASSUME NEW node, task' = [task EXCEPT ![p].phase = "write", ![p].node = node]
        PROVE  Fine
    BY <2>2 DEF TasksInv, TaskWell, IsTask, Arg
  <2> QED BY <1>2, <1>3, <2>1, <2>2
<1>14. ASSUME ItemWrite(p)
      PROVE  Fine
  BY <1>2, <1>3, <1>14 DEF ItemWrite, NextItem
<1>15. Fine
  BY <1>4, <1>5, <1>6, <1>7, <1>8, <1>9, <1>10, <1>11, <1>12, <1>13, <1>14 DEF CopyStep
<1> QED BY <1>1, <1>15

(* Nothing is said of a copy onto a part of itself or onto what it is a part of. *)
LEMMA RelatedIsFaithful ==
  ASSUME TasksInv, NEW p \in Programs, TaskWell(task[p]), QuietMethod(p), before' = before,
         CopyStep(p), ~Unrelated(p)
  PROVE  Faithful(p)
<1>1. /\ Arg(p).op = "copy" /\ Arg(p)' = Arg(p)
      /\ task'[p].phase = "over" \/ task'[p].outcome = task[p].outcome
  BY CopyStepSays
<1>2. ~Unrelated(p)'
  BY <1>1 DEF Unrelated
<1>3. Delivered(p)'
  <2> DEFINE call == Arg(p)
  <2>1. call.op = "copy" /\ ~Related(call.src, call.dst) = FALSE /\ Arg(p)' = call
    BY <1>1 DEF Unrelated
  <2> HIDE DEF call
  <2> QED BY <2>1 DEF Delivered, Related
<1>4. CASE task'[p].outcome = task[p].outcome
  <2>1. MethodLearned(p)'
    BY <1>1, <1>2, <1>4 DEF QuietMethod, MethodLearned
  <2>2. Still(p)' = {}
    BY <1>1, <1>2 DEF Still
  <2> QED BY <1>2, <1>3, <2>1, <2>2 DEF Faithful, QuietMethod, CopiesMade
<1> QED BY <1>1, <1>3, <1>4 DEF Faithful

-----------------------------------------------------------------------------
(* What a step of a recursive copy keeps. *)

LEMMA CopyIsSteady ==
  ASSUME NEW p, Arg(p)' = Arg(p), before' = before
  PROVE  /\ (Unrelated(p)' <=> Unrelated(p)) /\ (IntoDst(p)' <=> IntoDst(p)) /\ Top(p)' = Top(p)
         /\ task'[p].found = task[p].found => (Straight(p)' <=> Straight(p))
<1>1. Unrelated(p)' <=> Unrelated(p)
  BY DEF Unrelated
<1>2. IntoDst(p)' <=> IntoDst(p)
  BY DEF IntoDst, WasDirectory, WasFile, Subtree
<1>3. Top(p)' = Top(p)
  BY <1>2 DEF Top
<1>4. task'[p].found = task[p].found => (Straight(p)' <=> Straight(p))
  BY DEF Straight, WasFile
<1> QED BY <1>1, <1>2, <1>3, <1>4

LEMMA QuietCopySays ==
  ASSUME NEW p \in Programs, TaskWell(task[p]), Arg(p).op = "copy", Unrelated(p), QuietMethod(p)
  PROVE  /\ Arg(p).src \in Seq(Names) \ {<<>>} /\ Arg(p).dst \in Seq(Names) \ {<<>>}
         /\ CopyLearned(p) /\ CopiesMade(p) /\ task[p].outcome = "none"
         /\ Unchanged(before[p], Arg(p).src)
         /\ task[p].phase \notin Copying => Unchanged(before[p], Arg(p).dst)
<1>1. MethodLearned(p) /\ CopiesMade(p) /\ \A w \in Still(p) : Unchanged(before[p], w)
  BY DEF QuietMethod
<1>2. Arg(p).src \in Still(p) /\ (task[p].phase \notin Copying => Arg(p).dst \in Still(p))
  BY DEF Still
<1> QED BY <1>1, <1>2, TopSays DEF MethodLearned

LEMMA CopyGoesOn ==
  ASSUME NEW p \in Programs, Arg(p).op = "copy", Unrelated(p), QuietMethod(p),
         before' = before, Arg(p)' = Arg(p), task'[p].outcome = task[p].outcome,
         SparesBelow(Arg(p).src), task[p].phase \notin Copying => tree' = tree,
         task[p].phase \in Copying => task'[p].phase \in Copying,
         CopyLearned(p)', CopiesMade(p)'
  PROVE  QuietMethod(p)'
<1>1. MethodLearned(p)'
  BY DEF QuietMethod, MethodLearned
<1>2. Still(p)' \subseteq Still(p) /\ \A w \in Still(p)' : SparesBelow(w)
  <2>1. Unrelated(p)'
    BY CopyIsSteady
  <2>2. CASE task'[p].phase \in Copying
    <3>1. Still(p)' = {Arg(p).src} /\ Arg(p).src \in Still(p)
      BY <2>1, <2>2 DEF Still
    <3> QED BY <3>1
  <2>3. CASE task'[p].phase \notin Copying
    <3>1. Still(p)' = {Arg(p).src, Arg(p).dst} /\ Still(p) = {Arg(p).src, Arg(p).dst}
      BY <2>1, <2>3 DEF Still
    <3> QED BY <2>3, <3>1, SameSpares
  <2> QED BY <2>2, <2>3
<1>3. PICK W : W = Still(p)'
  OBVIOUS
<1>4. \A w \in W : Unchanged(before[p], w)'
  BY <1>2, <1>3, AllStay DEF QuietMethod
<1> QED BY <1>1, <1>3, <1>4 DEF QuietMethod

LEMMA CopyDelivers ==
  ASSUME NEW p \in Programs, Arg(p).op = "copy", Arg(p)' = Arg(p), before' = before,
         Unrelated(p), Unchanged(before[p], Arg(p).src)',
         \A q \in Subtree(before[p], Arg(p).src) :
           CopyOf(before[p], q, Rebase(Arg(p).src, Top(p), q))'
  PROVE  Delivered(p)'
<1> DEFINE call == Arg(p)
           t == before[p]
           top == Top(p)
<1>1. top = IF call.contents THEN call.dst ELSE Place(t, call, call.slash)
  BY DEF Top, IntoDst, Place
<1> HIDE DEF top
<1>2. Copied(p)'
  <2>1. PICK k, u, v : k = call /\ u = t /\ v = top
    OBVIOUS
  <2>2. /\ Arg(p)' = k /\ before'[p] = u /\ Top(p)' = v
        /\ v = IF k.contents THEN k.dst ELSE Place(u, k, k.slash)
    BY <1>1, <2>1, CopyIsSteady DEF top
  <2>3. \A q \in Subtree(u, k.src) : CopyOf(u, q, Rebase(k.src, v, q))'
    BY <2>1, <2>2 DEF CopyOf
  <2> HIDE DEF call, t
  <2> QED BY <2>2, <2>3 DEF Copied
<1>3. Arg(p)' = call /\ before[p]' = t /\ call.op = "copy" /\ Unchanged(t, call.src)'
  OBVIOUS
<1> HIDE DEF call, t
<1> QED BY <1>2, <1>3 DEF Delivered

-----------------------------------------------------------------------------
(* What the walk through a directory finds, while nothing has changed in it. *)

LEMMA FoundBelowGives ==
  ASSUME SoundTree, NEW src \in Seq(Names), NEW t, Unchanged(t, src), ~WasFile(t, src)
  PROVE  LET found == FoundBelow(src) IN
         /\ found # {} => Gathered(t, src, found)
         /\ \A q \in Subtree(t, src) : q = src \/ q \in found
<1> DEFINE found == FoundBelow(src)
<1>1. \A q : q = src \/ Below(src, q) => (q \in DOMAIN tree <=> q \in DOMAIN t)
  BY UnchangedSays
<1>2. ASSUME NEW q \in found
      PROVE  /\ q \in Seq(Names) /\ Below(src, q)
             /\ \E r \in Subtree(t, q) : r \in Seq(Names)
  <2>1. PICK r \in DOMAIN tree : q \in Ancestors(r) \cup {r} /\ Below(src, q)
    BY <1>2 DEF FoundBelow
  <2>2. q \in Seq(Names) /\ r \in Seq(Names)
    BY <1>2, FoundBelowSays DEF SoundTree
  <2>3. q = r \/ Below(q, r)
    <3>1. q # <<>>
      BY <2>1, <2>2 DEF Below
    <3> QED BY <2>1, <2>2, <3>1, AboveSays
  <2>4. Below(src, r)
    BY <2>1, <2>2, <2>3, BelowSays
  <2>5. r \in Subtree(t, q)
    BY <1>1, <2>3, <2>4 DEF Subtree
  <2> QED BY <2>1, <2>2, <2>5
<1>3. \A q \in Subtree(t, src) : q = src \/ q \in found
  BY <1>1 DEF Subtree, FoundBelow
<1> HIDE DEF found
<1>4. found # {} => Gathered(t, src, found)
  BY <1>2, <1>3 DEF Gathered
<1> QED BY <1>3, <1>4 DEF found

(* What was there at a part of the source. *)
LEMMA PartSays ==
  ASSUME NEW t, NEW src \in Seq(Names) \ {<<>>}, Unchanged(t, src),
         NEW q \in Seq(Names), q = src \/ Below(src, q)
  PROVE  /\ IsFile(q) <=> WasFile(t, q)
         /\ WasFile(t, q) => tree[q] = t[q]
         /\ IsDir(q) => ~WasFile(t, q)
         /\ (\E r \in Subtree(t, q) : r \in Seq(Names)) => IsDir(q) \/ WasFile(t, q)
<1>1. \A r : r = src \/ Below(src, r) =>
        (r \in DOMAIN tree <=> r \in DOMAIN t) /\ (r \in DOMAIN tree => tree[r] = t[r])
  BY UnchangedSays
<1>2. (IsFile(q) <=> WasFile(t, q)) /\ (WasFile(t, q) => tree[q] = t[q])
  BY <1>1 DEF IsFile, WasFile
<1>3. q # <<>>
  BY DEF Below
<1>4. ASSUME NEW r \in Subtree(t, q), r \in Seq(Names)
      PROVE  Present(q)
  <2>1. r = src \/ Below(src, r)
    BY <1>4, BelowSays DEF Subtree
  <2> QED BY <1>1, <1>4, <2>1 DEF Subtree, Present, TreeAt
<1> QED BY <1>2, <1>3, <1>4 DEF IsDir, IsDirectory

LEMMA PresentAbove ==
  ASSUME SoundTree, NEW p \in Seq(Names), NEW q \in Seq(Names), p = q \/ Below(p, q), Present(q)
  PROVE  Present(p)
<1>1. PICK r \in DOMAIN tree : r \in Seq(Names) /\ (r = q \/ Below(q, r))
  BY DEF Present, TreeAt, SoundTree
<1>2. r = p \/ Below(p, r)
  BY <1>1, BelowSays
<1> QED BY <1>2 DEF Present, TreeAt

-----------------------------------------------------------------------------
(* The search for what to copy. *)

LEMMA SearchIsFaithful ==
  ASSUME NumberedTree, TasksInv, NEW p \in Programs, TaskWell(task[p]), QuietMethod(p),
         before' = before, Unrelated(p), CopyFindInfo(p) \/ CopyFindNodes(p) \/ CopyIsFile(p)
  PROVE  Faithful(p)
<1> DEFINE t == before[p]
           src == Arg(p).src
           found == FoundBelow(src)
<1>1. /\ Arg(p).op = "copy" /\ Arg(p)' = Arg(p) /\ tree' = tree
      /\ task'[p].phase = "over" \/ task'[p].outcome = task[p].outcome
  <2>1. CopyStep(p) /\ tree' = tree
    BY DEF CopyStep, CopyFindInfo, CopyFindNodes, CopyIsFile, Look, fsVars
  <2> QED BY <2>1, CopyStepSays
<1>2. /\ src \in Seq(Names) \ {<<>>} /\ CopyLearned(p) /\ Unchanged(t, src)
      /\ task[p].outcome = "none"
  BY <1>1, QuietCopySays
<1>3. IsFile(src) <=> WasFile(t, src)
  BY <1>2, UnchangedSays
<1>4. SparesBelow(src)
  BY <1>1, SameSpares
<1>5. SUFFICES /\ task[p].phase \notin Copying /\ task'[p].phase \notin Copying \cup {"over"}
               /\ CopyLearned(p)'
  <2>1. ASSUME task[p].phase \notin Copying, task'[p].phase \notin Copying \cup {"over"},
               CopyLearned(p)'
        PROVE  QuietMethod(p)'
    <3>1. CopiesMade(p)'
      BY <2>1 DEF CopiesMade
    <3> QED BY <1>1, <1>4, <2>1, <3>1, CopyGoesOn
  <2> QED BY <2>1 DEF Faithful
<1>6. PICK u, s : u = t /\ s = src
  OBVIOUS
<1>7. Arg(p)'.src = s /\ before'[p] = u
  BY <1>1, <1>6
<1>8. CASE CopyFindInfo(p)
  <2>1. task[p].phase = "begin" /\ task[p].found = {}
    BY <1>2, <1>8 DEF CopyFindInfo, Doing, CopyLearned
  <2>2. CASE IsFile(src)
    <3>1. task' = [task EXCEPT ![p].phase = "target", ![p].found = {src}]
      BY <1>8, <2>2 DEF CopyFindInfo
    <3>2. task'[p].phase = "target" /\ task'[p].found = {src}
      BY <3>1 DEF TasksInv, TaskWell, IsTask
    <3>3. Gathered(u, s, {s})
      BY <1>3, <1>6, <2>2 DEF Gathered
    <3> HIDE DEF t, src
    <3>4. CopyLearned(p)'
      BY <1>6, <1>7, <3>2, <3>3 DEF CopyLearned, Searching, Copying
    <3> QED BY <2>1, <3>2, <3>4 DEF Copying
  <2>3. CASE ~IsFile(src)
    <3>1. task'[p].phase = "nodes" /\ task'[p].found = {}
      BY <1>8, <2>1, <2>3, ProceedGives DEF CopyFindInfo
    <3>2. ~WasFile(u, s)
      BY <1>3, <1>6, <2>3
    <3> HIDE DEF t, src
    <3>3. CopyLearned(p)'
      BY <1>7, <3>1, <3>2 DEF CopyLearned, Searching, Copying
    <3> QED BY <2>1, <3>1, <3>3 DEF Copying
  <2> QED BY <2>2, <2>3
<1>9. CASE CopyFindNodes(p)
  <2>1. task[p].phase = "nodes" /\ ~WasFile(u, s)
    BY <1>2, <1>6, <1>9 DEF CopyFindNodes, Doing, CopyLearned, Searching
  <2>2. /\ task' = [task EXCEPT ![p].phase = IF found = {} THEN "isfile" ELSE "target",
                                ![p].found = found]
    BY <1>9 DEF CopyFindNodes
  <2>3. /\ found # {} => Gathered(u, s, found)
        /\ \A q \in Subtree(u, s) : q = s \/ q \in found
    BY <1>2, <1>6, <2>1, FoundBelowGives DEF NumberedTree
  <2> HIDE DEF found
  <2>4. task'[p].phase = (IF found = {} THEN "isfile" ELSE "target") /\ task'[p].found = found
    BY <2>2 DEF TasksInv, TaskWell, IsTask
  <2> HIDE DEF t, src
  <2>5. CASE found = {}
    <3>1. task'[p].phase = "isfile" /\ task'[p].found = {} /\ Subtree(u, s) \subseteq {s}
      BY <2>3, <2>4, <2>5
    <3>2. CopyLearned(p)'
      BY <1>7, <2>1, <3>1 DEF CopyLearned, Searching, Copying
    <3> QED BY <2>1, <3>1, <3>2 DEF Copying
  <2>6. CASE found # {}
    <3>1. task'[p].phase = "target" /\ Gathered(u, s, task'[p].found)
      BY <2>3, <2>4, <2>6
    <3>2. CopyLearned(p)'
      BY <1>7, <3>1 DEF CopyLearned, Searching, Copying
    <3> QED BY <2>1, <3>1, <3>2 DEF Copying
  <2> QED BY <2>5, <2>6
<1>10. CASE CopyIsFile(p)
  <2>1. task[p].phase = "isfile" /\ ~WasFile(u, s) /\ task[p].found = {} /\ Subtree(u, s) \subseteq {s}
    BY <1>2, <1>6, <1>10 DEF CopyIsFile, Doing, CopyLearned, Searching
  <2>2. task'[p].phase = "isdir" /\ task'[p].found = {}
    BY <1>3, <1>6, <1>10, <2>1, ProceedGives DEF CopyIsFile
  <2> HIDE DEF t, src
  <2>3. CopyLearned(p)'
    BY <1>7, <2>1, <2>2 DEF CopyLearned, Searching, Copying
  <2> QED BY <2>1, <2>2, <2>3 DEF Copying
<1> QED BY <1>8, <1>9, <1>10

-----------------------------------------------------------------------------
(* The choice of a destination. *)

LEMMA TargetIsFaithful ==
  ASSUME NumberedTree, TasksInv, NEW p \in Programs, TaskWell(task[p]), QuietMethod(p),
         before' = before, Unrelated(p), CopyIsDir(p) \/ CopyEmptyTarget(p) \/ CopyTarget(p)
  PROVE  Faithful(p)
<1> DEFINE t == before[p]
           src == Arg(p).src
           dst == Arg(p).dst
<1>1. /\ Arg(p).op = "copy" /\ Arg(p)' = Arg(p) /\ tree' = tree
      /\ task'[p].phase = "over" \/ task'[p].outcome = task[p].outcome
  <2>1. CopyStep(p) /\ tree' = tree
    BY DEF CopyStep, CopyIsDir, CopyEmptyTarget, CopyTarget, Look, fsVars
  <2> QED BY <2>1, CopyStepSays
<1>2. /\ src \in Seq(Names) \ {<<>>} /\ dst \in Seq(Names) /\ CopyLearned(p)
      /\ Unchanged(t, src) /\ task[p].outcome = "none"
      /\ task[p].phase \notin Copying => Unchanged(t, dst)
  BY <1>1, QuietCopySays
<1>3. SparesBelow(src)
  BY <1>1, SameSpares
<1>4. ASSUME task[p].phase \notin Copying, task'[p].phase # "over",
             CopyLearned(p)', CopiesMade(p)'
      PROVE  Faithful(p)
  BY <1>1, <1>3, <1>4, CopyGoesOn DEF Faithful
<1>5. PICK u, s, d : u = t /\ s = src /\ d = dst
  OBVIOUS
<1>6. Arg(p)'.src = s /\ Arg(p)'.dst = d /\ Arg(p)'.slash = Arg(p).slash /\ before'[p] = u
  BY <1>1, <1>5
<1>7. CASE CopyIsDir(p)
  <2>1. /\ task[p].phase = "isdir" /\ ~WasFile(u, s) /\ task[p].found = {}
        /\ Subtree(u, s) \subseteq {s}
    BY <1>2, <1>5, <1>7 DEF CopyIsDir, Doing, CopyLearned, Searching
  <2>2. CASE IsDir(src)
    <3>1. task'[p].phase = "empty" /\ task'[p].found = {}
      BY <1>7, <2>1, <2>2, ProceedGives DEF CopyIsDir
    <3> HIDE DEF t, src
    <3>2. CopyLearned(p)'
      BY <1>6, <2>1, <3>1 DEF CopyLearned, Searching, Copying
    <3>3. CopiesMade(p)'
      BY <3>1 DEF CopiesMade, Copying
    <3> QED BY <1>4, <2>1, <3>1, <3>2, <3>3 DEF Copying
  <2>3. CASE Return(p) /\ ~IsDir(src)
    <3>1. task'[p].phase = "over"
      BY <2>3, OverGives DEF Return
    <3>2. Subtree(u, s) = {}
      BY <1>2, <1>5, <2>1, <2>3, UnchangedSays DEF WasDirectory
    <3>3. Unchanged(u, s)'
      BY <1>2, <1>5, <1>1 DEF Unchanged, Subtree
    <3>4. Delivered(p)'
      BY <1>1, <1>5, <3>2, <3>3, CopyDelivers
    <3> QED BY <3>1, <3>4 DEF Faithful
  <2>4. CASE Raise(p)
    BY <2>4, RaiseIsFaithful
  <2> QED BY <1>7, <2>2, <2>3, <2>4 DEF CopyIsDir
<1>8. CASE CopyEmptyTarget(p)
  <2> DEFINE to == IF Arg(p).slash \/ IsDir(dst) THEN IntoDirectory(src, dst) ELSE dst
  <2>1. /\ task[p].phase = "empty" /\ ~WasFile(u, s) /\ task[p].found = {}
        /\ Subtree(u, s) \subseteq {s}
    BY <1>2, <1>5, <1>8 DEF CopyEmptyTarget, Doing, CopyLearned, Searching
  <2>2. task' = [task EXCEPT ![p].phase = "mkempty", ![p].to = to]
    BY <1>8 DEF CopyEmptyTarget
  <2>3. IsDir(dst) <=> WasDirectory(u, d)
    BY <1>2, <1>5, <2>1, UnchangedSays DEF Copying
  <2>4. to = IF Arg(p).slash \/ WasDirectory(u, d) THEN IntoDirectory(s, d) ELSE d
    BY <1>5, <2>3
  <2> HIDE DEF to
  <2>5. task'[p].phase = "mkempty" /\ task'[p].found = {} /\ task'[p].to = to
    BY <2>1, <2>2 DEF TasksInv, TaskWell, IsTask
  <2> HIDE DEF t, src, dst
  <2>6. CopyLearned(p)'
    BY <1>6, <2>1, <2>4, <2>5 DEF CopyLearned, Searching, Copying
  <2>7. CopiesMade(p)'
    BY <2>5 DEF CopiesMade, Copying
  <2> QED BY <1>4, <2>1, <2>5, <2>6, <2>7 DEF Copying
<1>9. CASE CopyTarget(p)
  <2> DEFINE found == task[p].found
             prefix == IF IntoDst(p) THEN Parent(CommonPrefix(found)) ELSE CommonPrefix(found)
  <2>1. task[p].phase = "target" /\ Gathered(u, s, found)
    BY <1>2, <1>5, <1>9 DEF CopyTarget, Doing, CopyLearned
  <2>2. IsDir(dst) <=> WasDirectory(t, dst)
    BY <1>2, <2>1, UnchangedSays DEF Copying
  <2>3. task' = [task EXCEPT ![p].phase = "items", ![p].left = found, ![p].prefix = prefix]
    <3>1. (Arg(p).slash \/ IsDir(Arg(p).dst)) /\ ~Arg(p).contents <=> IntoDst(p)
      BY <2>2 DEF IntoDst
    <3> QED BY <1>9, <3>1 DEF CopyTarget, ReplacedPrefix
  <2> HIDE DEF prefix
  <2>4. /\ task'[p].phase = "items" /\ task'[p].found = found /\ task'[p].left = found
        /\ task'[p].prefix = prefix
    BY <2>3 DEF TasksInv, TaskWell, IsTask
  <2>5. Straight(p) => prefix = IF IntoDst(p) THEN Parent(s) ELSE s
    <3>1. Straight(p) => CommonPrefix(found) = s
      BY <1>2, <1>5, <2>1, PrefixOfOne DEF Straight, Gathered
    <3> QED BY <3>1 DEF prefix
  <2>6. (IntoDst(p)' <=> IntoDst(p)) /\ (Straight(p)' <=> Straight(p))
    BY <1>1, <2>4, CopyIsSteady
  <2> HIDE DEF t, src, dst
  <2>7. CopyLearned(p)'
    <3>1. /\ Gathered(u, s, task'[p].found) /\ task'[p].left \subseteq task'[p].found
          /\ Straight(p)' => task'[p].prefix = IF IntoDst(p)' THEN Parent(s) ELSE s
      BY <2>1, <2>4, <2>5, <2>6
    <3> HIDE DEF found
    <3> QED BY <1>6, <2>4, <3>1 DEF CopyLearned, Searching, Copying
  <2>8. Handled(p)' = {}
    BY <2>4 DEF Handled
  <2>9. CopiesMade(p)'
    BY <2>8 DEF CopiesMade
  <2> QED BY <1>4, <2>1, <2>4, <2>7, <2>9 DEF Copying
<1> QED BY <1>7, <1>8, <1>9

-----------------------------------------------------------------------------
(* All that was found has been copied: the whole source has. *)
LEMMA AllIsCopied ==
  ASSUME SoundTree, NEW p \in Programs, TaskWell(task[p]), Arg(p).op = "copy", Unrelated(p),
         Unchanged(before[p], Arg(p).src), NEW found, Gathered(before[p], Arg(p).src, found),
         \A q \in found : CopyOf(before[p], q, Rebase(Arg(p).src, Top(p), q)),
         NEW r \in Subtree(before[p], Arg(p).src)
  PROVE  CopyOf(before[p], r, Rebase(Arg(p).src, Top(p), r))
<1> DEFINE t == before[p]
           src == Arg(p).src
           top == Top(p)
<1>1. src \in Seq(Names) \ {<<>>} /\ top \in Seq(Names) \ {<<>>}
  BY TopSays
<1>2. CASE r \in found
  BY <1>2
<1>3. CASE r \notin found
  <2>1. r = src /\ ~WasFile(t, src) /\ found # {}
    <3>1. ~WasFile(t, src)
      <4>1. SUFFICES ASSUME WasFile(t, src)
                     PROVE  FALSE
        OBVIOUS
      <4>2. Below(src, r) /\ r \in DOMAIN tree
        BY <1>3, <4>1, UnchangedSays DEF Gathered, Subtree
      <4>3. IsFile(src)
        BY <4>1, UnchangedSays
      <4> QED BY <4>2, <4>3 DEF SoundTree, IsFile
    <3> QED BY <1>3, <3>1 DEF Gathered
  <2>2. PICK q \in found : q \in Seq(Names) /\ Below(src, q)
    BY <2>1 DEF Gathered
  <2> DEFINE at == Rebase(src, top, q)
  <2>3. at \in Seq(Names) /\ (at = top \/ Below(top, at))
    BY <2>2, PlacedSays
  <2>4. CopyOf(t, q, at)
    BY <2>2
  <2> HIDE DEF at, t, top
  <2>5. Present(at)
    BY <2>4 DEF CopyOf, IsFile, Present, TreeAt
  <2>6. Present(top)
    BY <1>1, <2>3, <2>5, PresentAbove
  <2>7. Rebase(src, top, r) = top
    BY <1>1, <2>1, RebaseSelf
  <2>8. CopyOf(t, r, Rebase(src, top, r))
    BY <2>1, <2>6, <2>7 DEF CopyOf
  <2> QED BY <2>8 DEF t, top
<1> QED BY <1>2, <1>3

(* The looks at a source that is to be copied. *)
LEMMA ItemLooksAreFaithful ==
  ASSUME NumberedTree, TasksInv, NEW p \in Programs, TaskWell(task[p]), QuietMethod(p),
         before' = before, Unrelated(p), ItemLook(p) \/ ItemSource(p)
  PROVE  Faithful(p)
<1> DEFINE t == before[p]
           src == Arg(p).src
           found == task[p].found
           left == task[p].left
<1>1. /\ Arg(p).op = "copy" /\ Arg(p)' = Arg(p) /\ tree' = tree
      /\ task'[p].phase = "over" \/ task'[p].outcome = task[p].outcome
  <2>1. CopyStep(p) /\ tree' = tree
    BY DEF CopyStep, ItemLook, ItemSource, Look, fsVars
  <2> QED BY <2>1, CopyStepSays
<1>2. /\ src \in Seq(Names) \ {<<>>} /\ CopyLearned(p) /\ CopiesMade(p)
      /\ Unchanged(t, src) /\ task[p].outcome = "none"
  BY <1>1, QuietCopySays
<1>3. SparesBelow(src)
  BY <1>1, SameSpares
<1>4. task[p].phase \in Copying
  BY DEF ItemLook, ItemSource, Doing, Copying
<1>5. /\ Gathered(t, src, found) /\ left \subseteq found
      /\ Straight(p) => task[p].prefix = IF IntoDst(p) THEN Parent(src) ELSE src
  BY <1>2, <1>4 DEF CopyLearned
<1>6. PICK u, s : u = t /\ s = src
  OBVIOUS
<1>7. Arg(p)'.src = s /\ before'[p] = u
  BY <1>1, <1>6
<1>8. ASSUME task'[p].phase \in Copying, task'[p].found = found, Handled(p)' = Handled(p),
             CopyLearned(p)'
      PROVE  Faithful(p)
  <2>1. CopiesMade(p)'
    <3>1. /\ (Straight(p)' <=> Straight(p)) /\ Top(p)' = Top(p) /\ (Unrelated(p)' <=> Unrelated(p))
      BY <1>1, <1>8, CopyIsSteady
    <3>2. SUFFICES ASSUME Straight(p), NEW q \in Handled(p)
                   PROVE  CopyOf(before[p], q, Rebase(Arg(p).src, Top(p), q))'
      BY <1>1, <1>8, <3>1 DEF CopiesMade
    <3>3. CopyOf(before[p], q, Rebase(Arg(p).src, Top(p), q))
      BY <1>1, <1>2, <1>4, <3>2 DEF CopiesMade
    <3> QED BY <1>1, <3>1, <3>3 DEF CopyOf, WasFile, IsFile, Present, TreeAt
  <2>2. task'[p].phase # "over"
    BY <1>8 DEF Copying
  <2> QED BY <1>1, <1>3, <1>4, <1>8, <2>1, <2>2, CopyGoesOn DEF Faithful
<1>9. ASSUME task'[p].found = found
      PROVE  (Straight(p)' <=> Straight(p)) /\ (IntoDst(p)' <=> IntoDst(p))
  BY <1>1, <1>9, CopyIsSteady
<1>10. CASE ItemLook(p) /\ left = {}
  <2>1. Return(p) /\ task[p].phase = "items"
    BY <1>10 DEF ItemLook, Doing
  <2>2. task'[p].phase = "over" /\ task'[p].found = found
    BY <2>1 DEF Return, Over, TasksInv, TaskWell, IsTask
  <2>3. CASE Straight(p)
    <3>1. \A q \in found : CopyOf(t, q, Rebase(src, Top(p), q))
      BY <1>1, <1>2, <1>4, <1>10, <2>1, <2>3 DEF CopiesMade, Handled
    <3>2. \A r \in Subtree(t, src) : CopyOf(t, r, Rebase(src, Top(p), r))
      BY <1>1, <1>2, <1>5, <3>1, AllIsCopied DEF NumberedTree
    <3>3. Top(p)' = Top(p)
      BY <1>1, CopyIsSteady
    <3>4. \A r \in Subtree(t, src) : CopyOf(t, r, Rebase(src, Top(p), r))'
      BY <1>1, <3>2, <3>3 DEF CopyOf, WasFile, IsFile, Present, TreeAt
    <3>5. Unchanged(t, src)'
      BY <1>1, <1>2 DEF Unchanged, Subtree
    <3>6. Delivered(p)'
      BY <1>1, <3>4, <3>5, CopyDelivers
    <3> QED BY <2>2, <3>6 DEF Faithful
  <2>4. CASE ~Straight(p)
    <3>1. /\ ~WasFile(u, s) /\ CommonPrefix(task'[p].found) # s /\ task'[p].found # {}
          /\ Arg(p)'.op = "copy"
      BY <1>1, <1>5, <1>6, <2>2, <2>4 DEF Straight, Gathered
    <3> HIDE DEF t, src, found
    <3>2. Delivered(p)'
      BY <1>7, <3>1 DEF Delivered
    <3> QED BY <2>2, <3>2 DEF Faithful
  <2> QED BY <2>3, <2>4
<1>11. CASE ItemLook(p) /\ left # {}
  <2> DEFINE phase(q) == IF IsDir(q) THEN "mkitem" ELSE "source"
  <2>1. PICK q \in left : task' = [task EXCEPT ![p].phase = phase(q), ![p].item = q,
                                               ![p].left = @ \ {q}]
    BY <1>11 DEF ItemLook
  <2>2. task[p].phase = "items"
    BY <1>11 DEF ItemLook, Doing
  <2>3. /\ task'[p].phase = phase(q) /\ task'[p].item = q /\ task'[p].left = left \ {q}
        /\ task'[p].found = found /\ task'[p].prefix = task[p].prefix
    BY <2>1 DEF TasksInv, TaskWell, IsTask
  <2>4. IF IsDir(q) THEN ~WasFile(u, q) ELSE WasFile(u, q)
    <3>1. q \in Seq(Names) /\ (q = src \/ Below(src, q))
      BY <1>2, <1>5, GatheredSays
    <3>2. WasFile(t, q) \/ \E r \in Subtree(t, q) : r \in Seq(Names)
      BY <1>5 DEF Gathered
    <3> QED BY <1>2, <1>6, <3>1, <3>2, PartSays
  <2>5. Handled(p)' = Handled(p)
    BY <2>2, <2>3 DEF Handled
  <2>6. CopyLearned(p)'
    <3>1. /\ Gathered(u, s, task'[p].found) /\ task'[p].left \subseteq task'[p].found
          /\ Straight(p)' => task'[p].prefix = IF IntoDst(p)' THEN Parent(s) ELSE s
          /\ task'[p].item \in task'[p].found
          /\ task'[p].phase \in {"mkitem", "source"}
          /\ task'[p].phase = "mkitem" => ~WasFile(u, task'[p].item)
          /\ task'[p].phase = "source" => WasFile(u, task'[p].item)
      BY <1>5, <1>6, <1>9, <2>3, <2>4
    <3> HIDE DEF t, src, found, left
    <3> QED BY <1>7, <3>1 DEF CopyLearned, Searching, Copying
  <2> QED BY <1>8, <2>3, <2>5, <2>6 DEF Copying
<1>12. CASE ItemSource(p)
  <2> DEFINE q == task[p].item
  <2>1. task[p].phase = "source"
    BY <1>12 DEF ItemSource, Doing
  <2>2. q \in found /\ WasFile(t, q)
    BY <1>2, <2>1 DEF CopyLearned, Copying
  <2>3. IsFile(q) /\ tree[q] = t[q]
    BY <1>2, <1>5, <2>2, GatheredSays, PartSays
  <2>4. task' = [task EXCEPT ![p].phase = "write", ![p].node = tree[q].id]
    <3>1. Present(q)
      BY <2>3 DEF IsFile, Present, TreeAt
    <3> QED BY <1>12, <2>3, <3>1 DEF ItemSource
  <2>5. /\ task'[p].phase = "write" /\ task'[p].item = q /\ task'[p].left = left
        /\ task'[p].found = found /\ task'[p].prefix = task[p].prefix
        /\ task'[p].node = tree[q].id
    BY <2>4 DEF TasksInv, TaskWell, IsTask
  <2>6. Handled(p)' = Handled(p)
    BY <2>1, <2>5 DEF Handled
  <2>7. CopyLearned(p)'
    <3>1. /\ Gathered(u, s, task'[p].found) /\ task'[p].left \subseteq task'[p].found
          /\ Straight(p)' => task'[p].prefix = IF IntoDst(p)' THEN Parent(s) ELSE s
          /\ task'[p].item \in task'[p].found /\ task'[p].phase = "write"
          /\ WasFile(u, task'[p].item) /\ task'[p].node = u[task'[p].item].id
      BY <1>5, <1>6, <1>9, <2>2, <2>3, <2>5
    <3> HIDE DEF t, src, found, left, q
    <3> QED BY <1>7, <3>1 DEF CopyLearned, Searching, Copying
  <2> QED BY <1>8, <2>5, <2>6, <2>7 DEF Copying
<1> QED BY <1>10, <1>11, <1>12

-----------------------------------------------------------------------------
(* The writes of a recursive copy. *)

LEMMA MakedirsLeaves ==
  ASSUME NumberedTree, NEW src \in Seq(Names), NEW dst \in Seq(Names), ~Related(src, dst),
         NEW q \in Seq(Names), q = dst \/ Below(dst, q), Makedirs(q)
  PROVE  SparesBelow(src)
<1>1. /\ DOMAIN tree \subseteq DOMAIN tree' /\ NumberedTree'
      /\ \A r \in DOMAIN tree : tree'[r] = tree[r]
      /\ \A r \in DOMAIN tree' \ DOMAIN tree : r = q \/ Below(r, q)
  BY MakedirsNumbered
<1>2. \A r : (r = src \/ Below(src, r)) /\ r \in DOMAIN tree' => r \in DOMAIN tree
  <2> SUFFICES ASSUME NEW r, r = src \/ Below(src, r), r \in DOMAIN tree'
               PROVE  r \in DOMAIN tree
    OBVIOUS
  <2>1. r \in Seq(Names)
    BY <1>1 DEF NumberedTree, SoundTree
  <2>2. ~Related(r, q)
    BY <2>1, ApartSays
  <2> QED BY <1>1, <2>2 DEF Related
<1> QED BY <1>1, <1>2 DEF SparesBelow

LEMMA CopyIntoLeaves ==
  ASSUME NumberedTree, NEW src \in Seq(Names), NEW dst \in Seq(Names), ~Related(src, dst),
         NEW q \in Seq(Names) \ {<<>>}, q = dst \/ Below(dst, q), NEW node, CopyInto(node, q)
  PROVE  SparesBelow(src)
<1>1. DOMAIN tree' = DOMAIN tree \cup {q} /\ \A r \in DOMAIN tree \ {q} : tree'[r] = tree[r]
  BY CopyIntoNumbered
<1>2. q # src /\ ~Below(src, q)
  <2>1. ~Related(src, q)
    BY ApartSays
  <2> QED BY <2>1 DEF Related
<1> QED BY <1>1, <1>2 DEF SparesBelow

(* Where an item goes. *)
LEMMA ItemGoes ==
  ASSUME NumberedTree, TasksInv, NEW p \in Programs, TaskWell(task[p]), Arg(p).op = "copy",
         Unrelated(p), QuietMethod(p), task[p].phase \in Copying \ {"items"}
  PROVE  LET item == task[p].item
             at == ItemTarget(p)
         IN  /\ item \in task[p].found /\ item \in Seq(Names)
             /\ item = Arg(p).src \/ Below(Arg(p).src, item)
             /\ at \in Seq(Names) \ {<<>>} /\ (at = Arg(p).dst \/ Below(Arg(p).dst, at))
             /\ Straight(p) => at = Rebase(Arg(p).src, Top(p), item)
<1> DEFINE src == Arg(p).src
           dst == Arg(p).dst
           item == task[p].item
           n == Len(task[p].prefix)
           s == SubSeq(item, n + 1, Len(item))
           at == ItemTarget(p)
<1>1. /\ src \in Seq(Names) \ {<<>>} /\ dst \in Seq(Names) \ {<<>>} /\ CopyLearned(p)
  BY QuietCopySays
<1>2. /\ Gathered(before[p], src, task[p].found) /\ item \in task[p].found
      /\ Straight(p) => task[p].prefix = IF IntoDst(p) THEN Parent(src) ELSE src
  BY <1>1 DEF CopyLearned
<1>3. item \in Seq(Names) /\ (item = src \/ Below(src, item))
  BY <1>1, <1>2, GatheredSays
<1>4. at = dst \o s /\ at \in Seq(Names)
  BY ItemPathsSay DEF ItemTarget
<1>5. n \in Nat /\ s \in Seq(Names)
  <2>1. n \in Nat
    BY DEF TaskWell
  <2> QED BY <1>3, <2>1, BehindSays
<1>6. at = dst \/ Below(dst, at)
  <2> HIDE DEF s, at
  <2>1. /\ Len(at) = Len(dst) + Len(s) /\ Len(s) \in Nat /\ Len(dst) \in Nat
        /\ \A i \in 1..Len(dst) : at[i] = dst[i]
    BY <1>1, <1>4, <1>5
  <2>2. CASE Len(s) = 0
    BY <1>1, <1>4, <2>1, <2>2
  <2>3. CASE Len(s) # 0
    BY <2>1, <2>3 DEF Below
  <2> QED BY <2>2, <2>3
<1>7. at # <<>>
  BY <1>1, <1>6 DEF Below
<1>8. ASSUME Straight(p)
      PROVE  at = Rebase(src, Top(p), item)
  <2>1. CASE IntoDst(p)
    <3>1. at = Rebase(Parent(src), dst, item)
      BY <1>2, <1>4, <1>8, <2>1 DEF Rebase
    <3>2. Top(p) = IntoDirectory(src, dst)
      BY <2>1 DEF Top
    <3> HIDE DEF src, dst, item, at
    <3> QED BY <1>1, <1>3, <3>1, <3>2, RebaseInto
  <2>2. CASE ~IntoDst(p)
    BY <1>2, <1>4, <1>8, <2>2 DEF Rebase, Top
  <2> QED BY <2>1, <2>2
<1> QED BY <1>2, <1>3, <1>4, <1>6, <1>7, <1>8

-----------------------------------------------------------------------------
(* An empty directory is made. *)
LEMMA MakeEmptyIsFaithful ==
  ASSUME NumberedTree, TasksInv, NEW p \in Programs, TaskWell(task[p]), QuietMethod(p),
         before' = before, Unrelated(p), CopyMakeEmpty(p)
  PROVE  Faithful(p)
<1> DEFINE t == before[p]
           src == Arg(p).src
           dst == Arg(p).dst
           to == task[p].to
           top == Top(p)
<1>1. Arg(p).op = "copy" /\ Arg(p)' = Arg(p) /\ task[p].phase = "mkempty"
  BY CopyStepSays DEF CopyStep, CopyMakeEmpty, Doing
<1>2. /\ src \in Seq(Names) \ {<<>>} /\ dst \in Seq(Names) \ {<<>>}
      /\ CopyLearned(p) /\ Unchanged(t, src)
      /\ top \in Seq(Names) \ {<<>>} /\ (top = dst \/ Below(dst, top))
  BY <1>1, QuietCopySays, TopSays
<1>3. /\ ~WasFile(t, src) /\ Subtree(t, src) \subseteq {src}
      /\ to = IF Arg(p).slash \/ WasDirectory(t, dst) THEN IntoDirectory(src, dst) ELSE dst
  BY <1>1, <1>2 DEF CopyLearned, Searching
<1>4. CASE Raise(p)
  BY <1>4, RaiseIsFaithful
<1>5. CASE Makedirs(to) /\ Return(p)
  <2>1. task'[p].phase = "over"
    BY <1>5, OverGives DEF Return
  <2>2. /\ to \in Seq(Names) \ {<<>>} /\ (to = dst \/ Below(dst, to))
        /\ top = to \/ Below(top, to)
    <3> DEFINE into == IntoDirectory(src, dst)
    <3>1. into \in Seq(Names) \ {<<>>} /\ Below(dst, into)
      BY <1>2, IntoBelow
    <3>2. (to = into \/ to = dst) /\ (top = into \/ top = dst) /\ (top = into => to = into)
      BY <1>3 DEF Top, IntoDst
    <3> HIDE DEF into, to, top, dst
    <3> QED BY <1>2, <3>1, <3>2
  <2>3. ~Related(src, dst)
    BY DEF Unrelated
  <2>4. PICK u, s, d, v, at : u = t /\ s = src /\ d = dst /\ v = to /\ at = top
    OBVIOUS
  <2>5. /\ s \in Seq(Names) /\ d \in Seq(Names) /\ ~Related(s, d)
        /\ v \in Seq(Names) \ {<<>>} /\ (v = d \/ Below(d, v)) /\ Makedirs(v)
        /\ at \in Seq(Names) /\ (at = v \/ Below(at, v))
    BY <1>2, <1>5, <2>2, <2>3, <2>4
  <2>6. SparesBelow(s) /\ Unchanged(u, s)'
    BY <1>2, <2>4, <2>5, MakedirsLeaves, UnchangedStays
  <2>7. NumberedTree' /\ Present(v)'
    BY <2>5, MakedirsNumbered
  <2>8. Present(at)'
    <3>1. SoundTree' /\ Present(v)'
      BY <2>7 DEF NumberedTree
    <3>2. PICK r \in DOMAIN tree' : r \in Seq(Names) /\ (r = v \/ Below(v, r))
      BY <3>1 DEF Present, TreeAt, SoundTree
    <3>3. r = at \/ Below(at, r)
      BY <2>5, <3>2, BelowSays
    <3> QED BY <3>2, <3>3 DEF Present, TreeAt
  <2>9. \A q \in Subtree(u, s) : CopyOf(u, q, Rebase(s, at, q))'
    <3> SUFFICES ASSUME NEW q \in Subtree(u, s)
                 PROVE  CopyOf(u, q, Rebase(s, at, q))'
      OBVIOUS
    <3>1. q = s /\ ~WasFile(u, s)
      BY <1>3, <2>4
    <3>2. Rebase(s, at, q) = at
      BY <2>5, <3>1, RebaseSelf
    <3> QED BY <2>8, <3>1, <3>2 DEF CopyOf
  <2>10. Delivered(p)'
    <3>1. Top(p)' = at /\ Arg(p)'.src = s /\ before'[p] = u
      BY <1>1, <2>4, CopyIsSteady
    <3>2. /\ Unchanged(before[p], Arg(p).src)'
          /\ \A q \in Subtree(before[p], Arg(p).src) :
               CopyOf(before[p], q, Rebase(Arg(p).src, Top(p), q))'
      BY <2>4, <2>6, <2>9, <3>1 DEF Unchanged, CopyOf, Subtree
    <3> QED BY <1>1, <3>2, CopyDelivers
  <2> QED BY <2>1, <2>10 DEF Faithful
<1> QED BY <1>4, <1>5 DEF CopyMakeEmpty

(* Another item has been copied. *)
LEMMA NextItemIsFaithful ==
  ASSUME NumberedTree, TasksInv, NEW p \in Programs, TaskWell(task[p]), Arg(p).op = "copy",
         Unrelated(p), QuietMethod(p), before' = before, Arg(p)' = Arg(p),
         task[p].phase \in Copying \ {"items"}, NextItem(p), SparesBelow(Arg(p).src),
         NEW u, u = before[p], NEW s, s = Arg(p).src, NEW top, top = Top(p),
         NEW item, item = task[p].item,
         Straight(p) =>
           /\ CopyOf(u, item, Rebase(s, top, item))'
           /\ \A q \in task[p].found \ {item} :
                CopyOf(u, q, Rebase(s, top, q)) => CopyOf(u, q, Rebase(s, top, q))'
  PROVE  Faithful(p)
<1> DEFINE found == task[p].found
           left == task[p].left
<1>1. CopyLearned(p) /\ CopiesMade(p) /\ task[p].outcome = "none"
  BY QuietCopySays
<1>2. /\ task'[p].phase = "items" /\ task'[p].found = found /\ task'[p].left = left
      /\ task'[p].prefix = task[p].prefix /\ task'[p].outcome = task[p].outcome
  BY ProceedGives DEF NextItem
<1>3. /\ (Straight(p)' <=> Straight(p)) /\ (IntoDst(p)' <=> IntoDst(p)) /\ Top(p)' = top
  BY <1>2, CopyIsSteady
<1>4. CopyLearned(p)'
  <2>1. /\ Gathered(u, s, found) /\ left \subseteq found
        /\ Straight(p) => task[p].prefix = IF IntoDst(p) THEN Parent(s) ELSE s
    BY <1>1 DEF CopyLearned
  <2>2. /\ Gathered(u, s, task'[p].found) /\ task'[p].left \subseteq task'[p].found
        /\ Straight(p)' => task'[p].prefix = IF IntoDst(p)' THEN Parent(s) ELSE s
        /\ Arg(p)'.src = s /\ before'[p] = u
    BY <1>2, <1>3, <2>1
  <2> HIDE DEF found, left
  <2> QED BY <1>2, <2>2 DEF CopyLearned, Searching, Copying
<1>5. CopiesMade(p)'
  <2>1. SUFFICES ASSUME Straight(p), NEW q \in Handled(p)'
                 PROVE  CopyOf(before[p], q, Rebase(Arg(p).src, Top(p), q))'
    BY <1>3 DEF CopiesMade
  <2>2. q \in found /\ q \notin left
    BY <1>2 DEF Handled
  <2>3. CASE q = item
    BY <1>3, <2>1, <2>3 DEF CopyOf
  <2>4. CASE q # item
    <3>1. q \in Handled(p)
      BY <2>2, <2>4 DEF Handled
    <3>2. CopyOf(u, q, Rebase(s, top, q))
      BY <1>1, <2>1, <3>1 DEF CopiesMade
    <3>3. CopyOf(u, q, Rebase(s, top, q))'
      BY <2>1, <2>2, <2>4, <3>2
    <3> QED BY <1>3, <3>3 DEF CopyOf
  <2> QED BY <2>3, <2>4
<1>6. task'[p].phase \in Copying /\ task'[p].phase # "over"
  BY <1>2 DEF Copying
<1> QED BY <1>2, <1>4, <1>5, <1>6, CopyGoesOn DEF Faithful

-----------------------------------------------------------------------------
LEMMA ItemMakedirsIsFaithful ==
  ASSUME NumberedTree, TasksInv, NEW p \in Programs, TaskWell(task[p]), QuietMethod(p),
         before' = before, Unrelated(p), ItemMakedirs(p)
  PROVE  Faithful(p)
<1>1. Arg(p).op = "copy" /\ task[p].phase = "mkitem"
  BY DEF ItemMakedirs, Doing, Arg
<1>2. CASE Raise(p)
  BY <1>2, RaiseIsFaithful
<1>3. CASE Makedirs(ItemTarget(p)) /\ NextItem(p)
  <2>1. PICK u, s, d, top, item, at : /\ u = before[p] /\ s = Arg(p).src /\ d = Arg(p).dst
                                      /\ top = Top(p) /\ item = task[p].item /\ at = ItemTarget(p)
    OBVIOUS
  <2>2. task[p].phase \in Copying \ {"items"}
    BY <1>1 DEF Copying
  <2>3. /\ item \in Seq(Names) /\ at \in Seq(Names) \ {<<>>} /\ (at = d \/ Below(d, at))
        /\ Straight(p) => at = Rebase(s, top, item)
    BY <1>1, <2>1, <2>2, ItemGoes
  <2>4. /\ s \in Seq(Names) /\ d \in Seq(Names) /\ ~Related(s, d) /\ Makedirs(at)
        /\ ~WasFile(u, item)
    BY <1>1, <1>3, <2>1, <2>2, QuietCopySays DEF Unrelated, CopyLearned
  <2>5. /\ NumberedTree' /\ DOMAIN tree \subseteq DOMAIN tree' /\ Present(at)'
        /\ \A q \in DOMAIN tree : tree'[q] = tree[q]
    BY <2>3, <2>4, MakedirsNumbered
  <2>6. SparesBelow(s)
    BY <2>3, <2>4, MakedirsLeaves
  <2>7. CopyOf(u, item, at)'
    BY <2>4, <2>5 DEF CopyOf
  <2>8. \A q, r : CopyOf(u, q, r) => CopyOf(u, q, r)'
    BY <2>5 DEF CopyOf, IsFile, Present, TreeAt
  <2>9. Arg(p)' = Arg(p)
    BY <1>3, ProceedGives DEF NextItem
  <2>10. Straight(p) => CopyOf(u, item, Rebase(s, top, item))'
    BY <2>3, <2>7
  <2> QED BY <1>1, <1>3, <2>1, <2>2, <2>6, <2>8, <2>9, <2>10, NextItemIsFaithful
<1> QED BY <1>2, <1>3 DEF ItemMakedirs

LEMMA ItemWriteIsFaithful ==
  ASSUME NumberedTree, TasksInv, NEW p \in Programs, TaskWell(task[p]), QuietMethod(p),
         before' = before, Unrelated(p), ItemWrite(p)
  PROVE  Faithful(p)
<1>1. Arg(p).op = "copy" /\ task[p].phase = "write"
  BY DEF ItemWrite, Doing, Arg
<1>2. CASE Raise(p)
  BY <1>2, RaiseIsFaithful
<1>3. CASE CopyInto(task[p].node, ItemTarget(p)) /\ NextItem(p)
  <2>1. PICK u, s, d, top, item, at, node :
          /\ u = before[p] /\ s = Arg(p).src /\ d = Arg(p).dst /\ top = Top(p)
          /\ item = task[p].item /\ at = ItemTarget(p) /\ node = task[p].node
    OBVIOUS
  <2>2. task[p].phase \in Copying \ {"items"}
    BY <1>1 DEF Copying
  <2>3. /\ item \in Seq(Names) /\ at \in Seq(Names) \ {<<>>} /\ (at = d \/ Below(d, at))
        /\ item = s \/ Below(s, item)
        /\ Straight(p) => at = Rebase(s, top, item)
    BY <1>1, <2>1, <2>2, ItemGoes
  <2>4. /\ s \in Seq(Names) \ {<<>>} /\ d \in Seq(Names) /\ ~Related(s, d) /\ CopyInto(node, at)
        /\ CopyLearned(p) /\ Unchanged(u, s)
    BY <1>1, <1>3, <2>1, QuietCopySays DEF Unrelated
  <2>5. WasFile(u, item) /\ node = u[item].id /\ Gathered(u, s, task[p].found)
    BY <1>1, <2>1, <2>2, <2>4 DEF CopyLearned
  <2>6. IsFile(item) /\ tree[item] = u[item]
    BY <2>3, <2>4, <2>5, PartSays
  <2>7. /\ DOMAIN tree' = DOMAIN tree \cup {at} /\ tree'[at].type = "file"
        /\ \A q \in DOMAIN tree \ {at} :
             tree'[q] = tree[q] /\ (tree[q].id = node => tree'[at].data = tree[q].data)
    BY <2>3, <2>4, CopyIntoNumbered
  <2>8. SparesBelow(s)
    BY <2>3, <2>4, CopyIntoLeaves
  <2>9. item # at
    <3>1. ~Related(item, at)
      BY <2>3, <2>4, ApartSays
    <3> QED BY <3>1 DEF Related
  <2>10. CopyOf(u, item, at)'
    BY <2>5, <2>6, <2>7, <2>9 DEF CopyOf, IsFile
  <2>11. \A q, r : r # at /\ CopyOf(u, q, r) => CopyOf(u, q, r)'
    BY <2>7 DEF CopyOf, IsFile, Present, TreeAt
  <2>12. ASSUME Straight(p), NEW q \in task[p].found \ {item}
         PROVE  Rebase(s, top, q) # at
    <3>1. q \in Seq(Names) /\ (q = s \/ Below(s, q))
      BY <2>4, <2>5, <2>12, GatheredSays
    <3>2. Rebase(top, s, Rebase(s, top, q)) = q /\ Rebase(top, s, Rebase(s, top, item)) = item
      BY <1>1, <2>1, <2>3, <3>1, PlacedSays
    <3> QED BY <2>3, <2>12, <3>2
  <2>13. Arg(p)' = Arg(p)
    BY <1>3, ProceedGives DEF NextItem
  <2>14. Straight(p) =>
           /\ CopyOf(u, item, Rebase(s, top, item))'
           /\ \A q \in task[p].found \ {item} :
                CopyOf(u, q, Rebase(s, top, q)) => CopyOf(u, q, Rebase(s, top, q))'
    BY <2>3, <2>10, <2>11, <2>12
  <2> QED BY <1>1, <1>3, <2>1, <2>2, <2>8, <2>13, <2>14, NextItemIsFaithful
<1> QED BY <1>2, <1>3 DEF ItemWrite

LEMMA CopyIsFaithful ==
  ASSUME NumberedTree, TasksInv, NEW p \in Programs, TaskWell(task[p]), QuietMethod(p),
         before' = before, CopyStep(p)
  PROVE  Faithful(p)
<1>1. CASE ~Unrelated(p)
  BY <1>1, RelatedIsFaithful
<1>2. CASE Unrelated(p)
  BY <1>2, SearchIsFaithful, TargetIsFaithful, MakeEmptyIsFaithful, ItemLooksAreFaithful,
     ItemMakedirsIsFaithful, ItemWriteIsFaithful DEF CopyStep
<1> QED BY <1>1, <1>2

(* Every call of a method that nobody has come in the way of. *)
LEMMA MethodIsFaithful ==
  ASSUME NumberedTree, TasksInv, NEW p \in Programs, QuietMethod(p), before' = before,
         AdapterStep(p)
  PROVE  Faithful(p)
<1>1. Running(p) /\ TaskWell(task[p])
  BY MethodSays DEF NumberedTree
<1> QED BY <1>1, MvIsFaithful, CopyIsFaithful, TouchIsFaithful, OneCallIsFaithful
        DEF AdapterStep, CopyStep

-----------------------------------------------------------------------------
(* Everybody at once *)

MethodsQuiet == \A p \in Programs \ raced : Running(p) => QuietMethod(p)

(* What agents that nobody has come in the way of know is true of the tree that was
   there when they began, and that tree is still there where they look. *)
QuietInv ==
  /\ LossInv /\ NumberedTree
  /\ before \in [Agents -> {before[a] : a \in Agents}]
  /\ ClientsQuiet /\ MethodsQuiet

ClientsRight ==
  \A c \in Clients : Busy(c) /\ web'[c].phase = "done" /\ c \notin raced' => Promised(c)'
ProgramsRight ==
  \A p \in Programs :
    Running(p) /\ task'[p].outcome = "returned" /\ p \notin raced' => Delivered(p)'

LEMMA RunningHasTask ==
  ASSUME TasksInv, NEW p \in Programs, Running(p)
  PROVE  TaskWell(task[p])
<1>1. task[p] # NoCall
  BY DEF Running, NoCall
<1> QED BY <1>1 DEF TasksInv

(* The programs' part of what other agents do. *)
LEMMA MethodsLeft ==
  ASSUME SoundTree, TasksInv, MethodsQuiet, NEW p \in Programs, task'[p] = task[p],
         before'[p] = before[p], p \notin raced', Running(p),
         \/ tree' = tree /\ p \notin raced
         \/ \E a, created : Moved(a, created) /\ p # a
  PROVE  QuietMethod(p)' /\ task'[p].outcome # "returned"
<1>1. TaskWell(task[p])
  BY RunningHasTask
<1>2. p \notin raced /\ \A w \in Watched(p) : SparesBelow(w)
  <2>1. CASE tree' = tree /\ p \notin raced
    BY <2>1, SameSpares
  <2>2. CASE \E a, created : Moved(a, created) /\ p # a
    <3>1. PICK a, created : Moved(a, created) /\ p # a
      BY <2>2
    <3>2. p \in Agents \ {a} /\ Active(p)
      BY <3>1, ClientsAssumption DEF Agents, Active
    <3>3. p \notin raced
      BY <3>1 DEF Moved
    <3> QED BY <3>1, <3>2, <3>3, OthersSpare
  <2> QED BY <2>1, <2>2
<1>3. QuietMethod(p)
  BY <1>2 DEF MethodsQuiet
<1>4. task'[p].outcome # "returned"
  BY <1>3 DEF QuietMethod, MethodLearned
<1> QED BY <1>1, <1>2, <1>3, <1>4, MethodStays

(* A method's own step. *)
LEMMA MethodQuiet ==
  ASSUME NumberedTree, TasksInv, MethodsQuiet, NEW p \in Programs, AdapterStep(p), Moved(p, {})
  PROVE  MethodsQuiet' /\ ProgramsRight
<1>1. /\ Running(p) /\ before' = before /\ (p \in raced' <=> p \in raced) /\ SoundTree
      /\ \A o \in Programs \ {p} : task'[o] = task[o]
  BY MethodSays DEF MethodLooks, MethodWrites, Moved, NumberedTree
<1>2. ASSUME p \notin raced
      PROVE  Faithful(p)
  BY <1>1, <1>2, MethodIsFaithful DEF MethodsQuiet
<1>3. ASSUME NEW o \in Programs \ {p}, o \notin raced', Running(o)
      PROVE  QuietMethod(o)' /\ task'[o].outcome # "returned"
  BY <1>1, <1>3, MethodsLeft
<1>4. ASSUME NEW o \in Programs, o \notin raced', Running(o)'
      PROVE  QuietMethod(o)'
  <2>1. CASE o = p
    BY <1>1, <1>2, <1>4, <2>1 DEF Faithful, Running
  <2>2. CASE o # p
    BY <1>1, <1>3, <1>4, <2>2 DEF Running
  <2> QED BY <2>1, <2>2
<1>5. ASSUME NEW o \in Programs, Running(o), task'[o].outcome = "returned", o \notin raced'
      PROVE  Delivered(o)'
  <2>1. o = p
    BY <1>3, <1>5
  <2>2. Faithful(p)
    BY <1>1, <1>2, <1>5, <2>1
  <2>3. task'[p].phase = "over"
    BY <1>5, <2>1, <2>2 DEF Faithful, QuietMethod, MethodLearned
  <2> QED BY <1>5, <2>1, <2>2, <2>3 DEF Faithful
<1> QED BY <1>4, <1>5 DEF MethodsQuiet, ProgramsRight

LEMMA QuietInit ==
  ASSUME Init
  PROVE  QuietInv
<1>1. before \in [Agents -> {before[a] : a \in Agents}]
  BY DEF Init
<1>2. ClientsQuiet /\ MethodsQuiet
  BY DEF Init, WebInit, AdapterInit, ClientsQuiet, MethodsQuiet, Busy, NoRequest, Running, NoCall
<1> QED BY <1>1, <1>2, LossInvInit, NumberedInit DEF QuietInv

LEMMA QuietStep ==
  ASSUME QuietInv, Next
  PROVE  QuietInv' /\ ClientsRight /\ ProgramsRight
<1>1. /\ LossInv' /\ LossInv /\ NumberedTree /\ SoundTree /\ WebShape /\ RequestsInv /\ TasksInv
      /\ ClientsQuiet /\ MethodsQuiet /\ before \in [Agents -> {before[a] : a \in Agents}]
  BY LossStep DEF QuietInv, LossInv, HandlersInv, MethodsInv
<1>2. ASSUME NEW a \in Agents, Begun(a)
      PROVE  /\ before' \in [Agents -> {before'[b] : b \in Agents}]
             /\ before'[a] = tree /\ \A b \in Agents \ {a} : before'[b] = before[b]
             /\ raced' = raced \ {a}
  BY <1>1, <1>2 DEF Begun
<1>3. ASSUME NEW a, NEW created, Moved(a, created)
      PROVE  before' = before
  BY <1>3 DEF Moved
<1>4. ASSUME tree' = tree, nextId' = nextId
      PROVE  NumberedTree'
  BY <1>1, <1>4 DEF NumberedTree, SoundTree, IsFile
<1>5. ASSUME NEW c \in Clients, ClientStep(c)
      PROVE  QuietInv' /\ ClientsRight /\ ProgramsRight
  <2>1. task' = task /\ c \in Agents /\ c \notin Programs
    BY <1>5, ClientsAssumption DEF ClientStep, Agents
  <2>2. ASSUME NEW r \in Requests, Receive(c, r), Begun(c)
        PROVE  QuietInv' /\ ClientsRight /\ ProgramsRight
    <3>1. /\ tree' = tree /\ nextId' = nextId /\ raced' = raced \ {c}
          /\ \A e \in Clients \ {c} : web'[e] = web[e] /\ before'[e] = before[e]
          /\ \A p \in Programs : before'[p] = before[p] /\ p \notin raced' => p \notin raced
      BY <1>1, <1>2, <2>1, <2>2 DEF Receive, fsVars, WebShape, Agents
    <3>2. web'[c].phase = "look"
      BY <1>1, <2>2 DEF Receive, WebShape
    <3>3. QuietClient(c)'
      BY <1>1, <2>2, ReceiveQuiet
    <3>4. ClientsQuiet'
      BY <1>1, <3>1, <3>3, ClientUntouched DEF ClientsQuiet
    <3>5. ClientsRight
      BY <3>1, <3>2 DEF ClientsRight, Busy
    <3>6. ASSUME NEW p \in Programs, p \notin raced', Running(p)
          PROVE  QuietMethod(p)' /\ task'[p].outcome # "returned"
      <4>1. p # c /\ p \in Agents /\ p \notin raced
        BY <2>1, <3>1, <3>6 DEF Agents
      <4>2. before'[p] = before[p]
        BY <1>2, <2>1, <2>2, <4>1
      <4> QED BY <1>1, <2>1, <3>1, <3>6, <4>1, <4>2, MethodsLeft
    <3>7. MethodsQuiet' /\ ProgramsRight
      BY <2>1, <3>6 DEF MethodsQuiet, ProgramsRight, Running
    <3> QED BY <1>1, <1>2, <1>4, <2>1, <2>2, <3>1, <3>4, <3>5, <3>7 DEF QuietInv
  <2>3. ASSUME WebStep(c), Moved(c, Exclusive(c))
        PROVE  QuietInv' /\ ClientsRight /\ ProgramsRight
    <3>1. ClientsQuiet' /\ ClientsRight
      BY <1>1, <2>3, HandlerQuiet DEF ClientsRight
    <3>2. ASSUME NEW p \in Programs, p \notin raced', Running(p)
          PROVE  QuietMethod(p)' /\ task'[p].outcome # "returned"
      <4>1. p # c /\ before' = before
        BY <1>3, <2>1, <2>3
      <4> QED BY <1>1, <2>1, <2>3, <3>2, <4>1, MethodsLeft
    <3>3. MethodsQuiet' /\ ProgramsRight
      BY <2>1, <3>2 DEF MethodsQuiet, ProgramsRight, Running
    <3>4. NumberedTree'
      BY <1>1, <2>3, HandlerNumbers
    <3> QED BY <1>1, <1>3, <2>3, <3>1, <3>3, <3>4 DEF QuietInv
  <2> QED BY <1>5, <2>2, <2>3 DEF ClientStep
<1>6. ASSUME NEW q \in Programs, ProgramStep(q)
      PROVE  QuietInv' /\ ClientsRight /\ ProgramsRight
  <2>1. web' = web /\ q \in Agents /\ q \notin Clients
    BY <1>6, ClientsAssumption DEF ProgramStep, Agents
  <2>2. ClientsRight
    BY <2>1 DEF ClientsRight, Busy
  <2>3. ASSUME NEW call \in Calls, BeginTask(q, call), Begun(q)
        PROVE  QuietInv' /\ ClientsRight /\ ProgramsRight
    <3>1. /\ tree' = tree /\ nextId' = nextId /\ raced' = raced \ {q} /\ ~Running(q)
          /\ \A o \in Programs \ {q} : task'[o] = task[o]
      BY <1>1, <1>2, <2>1, <2>3 DEF BeginTask, fsVars, TasksInv
    <3>2. \A b \in Agents \ {q} : before'[b] = before[b]
      BY <1>2, <2>1, <2>3
    <3>3. ASSUME NEW c \in Clients, c \notin raced', Busy(c)'
          PROVE  QuietClient(c)'
      <4>1. c # q /\ c \in Agents /\ c \notin raced
        BY <2>1, <3>1, <3>3 DEF Agents
      <4> QED BY <1>1, <2>1, <3>1, <3>2, <3>3, <4>1, ClientUntouched
    <3>4. ClientsQuiet'
      BY <3>3 DEF ClientsQuiet
    <3>5. QuietMethod(q)'
      BY <1>1, <2>3, BeginIsQuiet
    <3>6. ASSUME NEW p \in Programs \ {q}, p \notin raced', Running(p)
          PROVE  QuietMethod(p)' /\ task'[p].outcome # "returned"
      <4>1. p \in Agents \ {q} /\ p \notin raced
        BY <3>1, <3>6 DEF Agents
      <4> QED BY <1>1, <3>1, <3>2, <3>6, <4>1, MethodsLeft
    <3>7. MethodsQuiet' /\ ProgramsRight
      BY <3>1, <3>5, <3>6 DEF MethodsQuiet, ProgramsRight, Running
    <3> QED BY <1>1, <1>2, <1>4, <2>1, <2>2, <2>3, <3>1, <3>4, <3>7 DEF QuietInv
  <2>4. ASSUME AdapterStep(q), Moved(q, {})
        PROVE  QuietInv' /\ ClientsRight /\ ProgramsRight
    <3>1. ASSUME NEW c \in Clients, c \notin raced', Busy(c)'
          PROVE  QuietClient(c)'
      <4>1. c # q
        BY <2>1
      <4> QED BY <1>1, <2>1, <2>4, <3>1, <4>1, ClientLeft
    <3>2. ClientsQuiet'
      BY <3>1 DEF ClientsQuiet
    <3>3. MethodsQuiet' /\ ProgramsRight
      BY <1>1, <2>4, MethodQuiet
    <3>4. NumberedTree'
      BY <1>1, <2>4, MethodNumbers
    <3> QED BY <1>1, <1>3, <2>2, <2>4, <3>2, <3>3, <3>4 DEF QuietInv
  <2> QED BY <1>6, <2>3, <2>4 DEF ProgramStep
<1> QED BY <1>5, <1>6 DEF Next

LEMMA QuietStutters ==
  ASSUME QuietInv, UNCHANGED vars
  PROVE  QuietInv'
<1> USE DEF vars, fsVars
<1>1. LossInv' /\ LossInv
  BY LossStutters DEF QuietInv
<1>2. NumberedTree'
  BY DEF QuietInv, NumberedTree, SoundTree, IsFile
<1>3. ClientsQuiet'
  BY ClientUntouched DEF QuietInv, ClientsQuiet
<1>4. ASSUME NEW p \in Programs, p \notin raced', Running(p)'
      PROVE  QuietMethod(p)'
  <2>1. Running(p) /\ p \notin raced /\ tree' = tree /\ task'[p] = task[p] /\ before'[p] = before[p]
    BY <1>4 DEF Running
  <2>2. SoundTree /\ TasksInv /\ MethodsQuiet
    BY <1>1 DEF QuietInv, LossInv, MethodsInv
  <2> QED BY <1>4, <2>1, <2>2, MethodsLeft
<1>5. before' \in [Agents -> {before'[a] : a \in Agents}]
  BY DEF QuietInv
<1> QED BY <1>1, <1>2, <1>3, <1>4, <1>5 DEF QuietInv, MethodsQuiet

(* However many calls of clients and programs come in between elsewhere: an agent
   whose paths nobody has touched between its first call and its last is told the
   truth, and has done what it was asked to do. *)
THEOREM OutcomesAreTrue == Spec => QuietOutcomesAreTrue
<1>1. Init => QuietInv
  BY QuietInit
<1>2. QuietInv /\ [Next]_vars => QuietInv'
  BY QuietStep, QuietStutters
<1>3. QuietInv /\ [Next]_vars => [ClientsRight /\ ProgramsRight]_vars
  BY QuietStep
<1> QED BY <1>1, <1>2, <1>3, PTL DEF Spec, QuietOutcomesAreTrue, ClientsRight, ProgramsRight
=============================================================================
