---------------------------- MODULE HandleProofs ----------------------------
(***************************************************************************)
(* Write handles and fs.transaction, for any number of threads and handles *)
(* and on every backend.                                                   *)
(*                                                                         *)
(* First StackBalanced, whatever the habits of the program: the atomic     *)
(* blocks of a connection are those of the started writers and of the      *)
(* fs.transaction of its thread.  Then, for programs without habits,       *)
(* CommittedOK and AllOrNothing: what is committed is a sound tree of      *)
(* finished files, and a transaction that completes delivers all of its    *)
(* own.                                                                    *)
(***************************************************************************)
EXTENDS Handles, TableProofs

(* The shapes that the stack's count depends on. *)
ConnectionShape(c) ==
  /\ DOMAIN c = {"stack", "broken", "locked", "work"}
  /\ \E S : c.stack \in Seq(S)
  /\ c.stack = <<>> => c = Idle

HandleShape(f) ==
  \/ f = Unused
  \/ /\ DOMAIN f = {"stage", "by", "mode", "path", "bs", "auto", "buf", "w", "failed"}
     /\ f.stage \in {"open", "closed"}
     /\ f.by \in Threads
     /\ f.w # NoWriter => "size" \in DOMAIN f.w

Phase(t) == IF tx[t].phase = "none" THEN 0 ELSE 1

(* The queue of a transaction holds handles of its own thread. *)
QueueShape(t) ==
  /\ tx[t].files \in Seq(Handles)
  /\ \A i \in 1..Len(tx[t].files) :
       handle[tx[t].files[i]] # Unused /\ handle[tx[t].files[i]].by = t

Shapes ==
  /\ conn = [t \in Threads |-> conn[t]]
  /\ DOMAIN conn = Threads /\ DOMAIN handle = Handles /\ DOMAIN tx = Threads
  /\ \A t \in Threads : /\ ConnectionShape(conn[t])
                        /\ DOMAIN tx[t] = {"phase", "files", "raised", "done"}
                        /\ QueueShape(t)
  /\ \A h \in Handles : HandleShape(handle[h])

Counted ==
  \A t \in Threads : Len(conn[t].stack) = Cardinality(WritersOf(t)) + Phase(t)

StackInv == Shapes /\ Counted

-----------------------------------------------------------------------------
(* Connections *)

LEMMA EnterShape ==
  ASSUME NEW c, ConnectionShape(c)
  PROVE  /\ ConnectionShape(Enter(c))
         /\ Len(Enter(c).stack) = Len(c.stack) + 1
         /\ Enter(c).stack # <<>>
  <1> DEFINE s == [sid |-> ~c.broken, locked |-> c.locked, work |-> c.work]
             e == Enter(c)
  <1>1. PICK S : c.stack \in Seq(S)
    BY DEF ConnectionShape
  <1>2. DOMAIN e = DOMAIN c /\ e.stack = Append(c.stack, s)
    BY DEF Enter, ConnectionShape
  <1> HIDE DEF s, e
  <1>3. /\ Append(c.stack, s) \in Seq(S \cup {s})
        /\ Len(Append(c.stack, s)) = Len(c.stack) + 1
        /\ Append(c.stack, s) # <<>>
    <2> DEFINE q == c.stack
               T == S \cup {s}
    <2>1. q \in Seq(S) /\ S \subseteq T /\ s \in T
      BY <1>1
    <2> HIDE DEF q, T
    <2>2. q \in Seq(T)
      BY <2>1, SeqMonotonic
    <2>3. /\ Append(q, s) \in Seq(T) /\ Append(q, s) # <<>>
          /\ Len(Append(q, s)) = Len(q) + 1
      BY <2>1, <2>2, AppendProperties
    <2> QED
      BY <2>3 DEF q, T
  <1>4. e.stack \in Seq(S \cup {s})
    BY <1>2, <1>3
  <1> QED
    BY <1>2, <1>3, <1>4 DEF ConnectionShape, e

LEMMA FrontShape ==
  ASSUME NEW S, NEW s \in Seq(S), s # <<>>
  PROVE  /\ Front(s) \in Seq(S) /\ Len(Front(s)) = Len(s) - 1
         /\ Front(s) = <<>> <=> Len(s) = 1
  <1> DEFINE n == Len(s) - 1
  <1>1. Len(s) \in Nat \ {0} /\ n \in Int /\ \A i \in 1..n : s[i] \in S
    BY LenProperties, EmptySeq
  <1>2. /\ SubSeq(s, 1, n) \in Seq(S)
        /\ Len(SubSeq(s, 1, n)) = IF 1 <= n THEN n - 1 + 1 ELSE 0
    <2> HIDE DEF n
    <2> QED
      BY <1>1, SubSeqProperties
  <1>3. Front(s) = SubSeq(s, 1, n)
    BY DEF Front
  <1>4. Front(s) \in Seq(S) /\ Len(Front(s)) = n
    <2>1. n \in Nat
      BY <1>1
    <2> HIDE DEF n
    <2>2. Len(SubSeq(s, 1, n)) = n
      BY <1>2, <2>1
    <2> QED
      BY <1>2, <1>3, <2>2
  <1> QED
    BY <1>1, <1>4, EmptySeq

(* Leaving a block takes exactly one off the stack, whichever way. *)
LEMMA ExitShape ==
  ASSUME NEW c, ConnectionShape(c), c.stack # <<>>, NEW ok \in BOOLEAN
  PROVE  ConnectionShape(Exit(c, ok)) /\ Len(Exit(c, ok).stack) = Len(c.stack) - 1
  <1>1. PICK S : c.stack \in Seq(S)
    BY DEF ConnectionShape
  <1>2. /\ Front(c.stack) \in Seq(S) /\ Len(Front(c.stack)) = Len(c.stack) - 1
        /\ Front(c.stack) = <<>> <=> Len(c.stack) = 1
    BY <1>1, FrontShape
  <1>3. CASE Len(c.stack) = 1
    <2>1. Exit(c, ok) = Idle
      BY <1>3 DEF Exit
    <2>2. ConnectionShape(Idle) /\ Len(Idle.stack) = 0
      <3>1. <<>> \in Seq({})
        OBVIOUS
      <3> QED
        BY <3>1 DEF Idle, ConnectionShape
    <2> QED
      BY <1>3, <2>1, <2>2
  <1>4. CASE Len(c.stack) # 1
    <2> DEFINE e == Exit(c, ok)
    <2>1. DOMAIN e = {"stack", "broken", "locked", "work"} /\ e.stack = Front(c.stack)
      <3>1. CASE e = [c EXCEPT !.stack = Front(@)]
        BY <3>1 DEF ConnectionShape
      <3>2. CASE e = RolledBack(c)
        BY <3>2 DEF RolledBack, ConnectionShape
      <3> QED
        BY <1>4, <3>1, <3>2 DEF Exit
    <2> HIDE DEF e
    <2> QED
      BY <1>2, <1>4, <2>1 DEF ConnectionShape, e
  <1> QED
    BY <1>3, <1>4

(* Marking for rollback, locking and changing rows leave the stack alone. *)
LEMMA SameStack ==
  ASSUME NEW c, ConnectionShape(c), c.stack # <<>>, NEW d
  PROVE  /\ ConnectionShape(SetRollback(c)) /\ SetRollback(c).stack = c.stack
         /\ ConnectionShape(Lock(c)) /\ Lock(c).stack = c.stack
         /\ ConnectionShape([c EXCEPT !.work = d]) /\ [c EXCEPT !.work = d].stack = c.stack
  <1>1. /\ DOMAIN SetRollback(c) = DOMAIN c /\ SetRollback(c).stack = c.stack
        /\ DOMAIN Lock(c) = DOMAIN c /\ Lock(c).stack = c.stack
        /\ DOMAIN [c EXCEPT !.work = d] = DOMAIN c /\ [c EXCEPT !.work = d].stack = c.stack
    BY DEF SetRollback, Lock, ConnectionShape
  <1> QED
    BY <1>1 DEF ConnectionShape

-----------------------------------------------------------------------------
(* Steps of one handle and steps of one transaction *)

LEMMA WritersFinite ==
  ASSUME NEW t \in Threads
  PROVE  IsFiniteSet(WritersOf(t)) /\ Cardinality(WritersOf(t)) \in Nat
  <1>1. WritersOf(t) \subseteq Handles
    BY DEF WritersOf
  <1> QED
    BY <1>1, HandlesAssumption, FS_Subset, FS_CardinalityType

LEMMA StackLen ==
  ASSUME NEW c, ConnectionShape(c)
  PROVE  Len(c.stack) \in Nat /\ (c.stack = <<>> <=> Len(c.stack) = 0)
  <1>1. PICK S : c.stack \in Seq(S)
    BY DEF ConnectionShape
  <1> QED
    BY <1>1, LenProperties, EmptySeq

(* A connection with a writer or a transaction has a block to leave. *)
LEMMA BlockToLeave ==
  ASSUME StackInv, NEW t \in Threads, Phase(t) = 1 \/ \E h \in Handles : h \in WritersOf(t)
  PROVE  conn[t].stack # <<>>
  <1>1. Cardinality(WritersOf(t)) \in Nat /\ (Cardinality(WritersOf(t)) = 0 <=> WritersOf(t) = {})
    BY WritersFinite, FS_EmptySet
  <1>2. Phase(t) \in 0..1
    BY DEF Phase
  <1>3. Len(conn[t].stack) # 0
    BY <1>1, <1>2 DEF StackInv, Counted
  <1> QED
    BY <1>3, StackLen DEF StackInv, Shapes

(* tx' keeps the phases of the threads and takes at most the head of a queue. *)
KeepsQueues ==
  /\ DOMAIN tx' = Threads
  /\ \A t \in Threads :
       /\ DOMAIN tx'[t] = {"phase", "files", "raised", "done"}
       /\ tx'[t].phase = "none" <=> tx[t].phase = "none"
       /\ \/ tx'[t].files = tx[t].files
          \/ tx[t].files # <<>> /\ tx'[t].files = Tail(tx[t].files)

LEMMA QueueStep ==
  ASSUME StackInv, KeepsQueues, NEW t \in Threads
  PROVE  /\ tx'[t].files \in Seq(Handles)
         /\ \A i \in 1..Len(tx'[t].files) : \E j \in 1..Len(tx[t].files) :
              tx'[t].files[i] = tx[t].files[j]
  <1> DEFINE q == tx[t].files
  <1>1. q \in Seq(Handles)
    BY DEF StackInv, Shapes, QueueShape
  <1>2. CASE tx'[t].files = q
    BY <1>1, <1>2
  <1>3. CASE q # <<>> /\ tx'[t].files = Tail(q)
    <2> HIDE DEF q
    <2>1. /\ Tail(q) \in Seq(Handles) /\ Len(Tail(q)) = Len(q) - 1
          /\ \A i \in 1..Len(Tail(q)) : Tail(q)[i] = q[i + 1]
      BY <1>1, <1>3, HeadTailProperties
    <2>2. Len(q) \in Nat
      BY <1>1, LenProperties
    <2>3. \A i \in 1..Len(Tail(q)) : i + 1 \in 1..Len(q)
      BY <2>1, <2>2
    <2> QED
      BY <1>3, <2>1, <2>3 DEF q
  <1> QED
    BY <1>2, <1>3 DEF KeepsQueues

(* A step of handle h: its thread's stack grows by the writer it gains and
   shrinks by the one it gives up. *)
LEMMA HandleStep ==
  ASSUME StackInv, KeepsQueues, NEW h \in Handles, handle[h] # Unused,
         NEW f, HandleShape(f), f # Unused, f.by = handle[h].by,
         handle' = [handle EXCEPT ![h] = f],
         NEW c, ConnectionShape(c),
         conn' = [conn EXCEPT ![handle[h].by] = c],
         Len(c.stack) + (IF handle[h].w # NoWriter THEN 1 ELSE 0)
           = Len(conn[handle[h].by].stack) + (IF f.w # NoWriter THEN 1 ELSE 0)
  PROVE  StackInv'
  <1> DEFINE t == handle[h].by
  <1>1. /\ t \in Threads
        /\ handle[h].stage \in {"open", "closed"} /\ f.stage \in {"open", "closed"}
        /\ \A g \in Handles : handle'[g] = IF g = h THEN f ELSE handle[g]
        /\ \A u \in Threads : conn'[u] = IF u = t THEN c ELSE conn[u]
        /\ DOMAIN handle' = Handles /\ DOMAIN conn' = Threads
        /\ conn' = [u \in Threads |-> conn'[u]]
    <2>1. HandleShape(handle[h])
      BY DEF StackInv, Shapes
    <2> QED
      BY <2>1 DEF StackInv, Shapes, HandleShape, Unused
  <1>2. ASSUME NEW u \in Threads PROVE QueueShape(u)'
    <2>1. /\ tx'[u].files \in Seq(Handles)
          /\ \A i \in 1..Len(tx'[u].files) : \E j \in 1..Len(tx[u].files) :
               tx'[u].files[i] = tx[u].files[j]
      BY QueueStep
    <2>2. ASSUME NEW j \in 1..Len(tx[u].files)
          PROVE  /\ tx[u].files[j] \in Handles
                 /\ handle[tx[u].files[j]] # Unused /\ handle[tx[u].files[j]].by = u
      BY DEF StackInv, Shapes, QueueShape
    <2>3. ASSUME NEW i \in 1..Len(tx'[u].files)
          PROVE  handle'[tx'[u].files[i]] # Unused /\ handle'[tx'[u].files[i]].by = u
      <3>1. PICK j \in 1..Len(tx[u].files) : tx'[u].files[i] = tx[u].files[j]
        BY <2>1
      <3> QED
        BY <1>1, <2>2, <3>1
    <2> QED
      BY <2>1, <2>3 DEF QueueShape
  <1>3. Shapes'
    <2>1. \A u \in Threads : ConnectionShape(conn'[u])
      BY <1>1 DEF StackInv, Shapes
    <2>2. \A g \in Handles : HandleShape(handle'[g])
      BY <1>1 DEF StackInv, Shapes
    <2> QED
      BY <1>1, <1>2, <2>1, <2>2 DEF Shapes, KeepsQueues
  <1>4. /\ \A u \in Threads \ {t} : WritersOf(u)' = WritersOf(u)
        /\ WritersOf(t)' = IF f.w # NoWriter THEN WritersOf(t) \cup {h} ELSE WritersOf(t) \ {h}
        /\ h \in WritersOf(t) <=> handle[h].w # NoWriter
    BY <1>1 DEF WritersOf, HasWriter
  <1>5. /\ IsFiniteSet(WritersOf(t)) /\ Cardinality(WritersOf(t)) \in Nat
        /\ Cardinality(WritersOf(t) \cup {h})
             = Cardinality(WritersOf(t)) + IF h \in WritersOf(t) THEN 0 ELSE 1
        /\ Cardinality(WritersOf(t) \ {h})
             = Cardinality(WritersOf(t)) - IF h \in WritersOf(t) THEN 1 ELSE 0
    <2>1. IsFiniteSet(WritersOf(t)) /\ Cardinality(WritersOf(t)) \in Nat
      BY <1>1, WritersFinite
    <2> DEFINE W == WritersOf(t)
    <2> HIDE DEF W
    <2>2. IsFiniteSet(W) => /\ Cardinality(W \cup {h})
                                 = IF h \in W THEN Cardinality(W) ELSE Cardinality(W) + 1
                            /\ Cardinality(W \ {h})
                                 = IF h \in W THEN Cardinality(W) - 1 ELSE Cardinality(W)
      BY FS_AddElement, FS_RemoveElement
    <2> QED
      BY <2>1, <2>2 DEF W
  <1>6. \A u \in Threads : Phase(u)' = Phase(u) /\ Phase(u) \in Nat
    BY DEF KeepsQueues, Phase
  <1>7. Len(c.stack) \in Nat /\ Len(conn[t].stack) \in Nat
    BY <1>1, StackLen DEF StackInv, Shapes
  <1>8. Len(conn[t].stack) = Cardinality(WritersOf(t)) + Phase(t)
    BY <1>1 DEF StackInv, Counted
  <1>9. Len(c.stack) = Cardinality(WritersOf(t)') + Phase(t)'
    <2> DEFINE k == Cardinality(WritersOf(t))
               n == Len(c.stack)
               o == Len(conn[t].stack)
    <2>1. Cardinality(WritersOf(t)') = IF f.w # NoWriter
            THEN k + (IF handle[h].w # NoWriter THEN 0 ELSE 1)
            ELSE k - (IF handle[h].w # NoWriter THEN 1 ELSE 0)
      BY <1>4, <1>5
    <2>2. n + (IF handle[h].w # NoWriter THEN 1 ELSE 0) = o + (IF f.w # NoWriter THEN 1 ELSE 0)
      OBVIOUS
    <2>3. n \in Nat /\ o \in Nat /\ k \in Nat /\ o = k + Phase(t) /\ Phase(t)' = Phase(t)
          /\ Phase(t) \in Nat
      BY <1>1, <1>5, <1>6, <1>7, <1>8
    <2> HIDE DEF k, n, o
    <2>4. n = Cardinality(WritersOf(t)') + Phase(t)
      BY <2>1, <2>2, <2>3
    <2> QED
      BY <2>3, <2>4 DEF n
  <1>10. Counted'
    <2> SUFFICES ASSUME NEW u \in Threads
                 PROVE  Len(conn'[u].stack) = Cardinality(WritersOf(u)') + Phase(u)'
      BY DEF Counted
    <2>1. CASE u = t
      BY <1>1, <1>9, <2>1
    <2>2. CASE u # t
      BY <1>1, <1>4, <1>6, <2>2 DEF StackInv, Counted
    <2> QED
      BY <2>1, <2>2
  <1> QED
    BY <1>3, <1>10 DEF StackInv

(* A step of thread t's transaction: one block is entered with a phase and
   left with it. *)
LEMMA ThreadStep ==
  ASSUME StackInv, NEW t \in Threads, handle' = handle,
         NEW c, ConnectionShape(c), conn' = [conn EXCEPT ![t] = c],
         NEW x, tx' = [tx EXCEPT ![t] = x],
         DOMAIN x = {"phase", "files", "raised", "done"},
         x.files = tx[t].files \/ x.files = <<>>,
         Len(c.stack) + Phase(t) = Len(conn[t].stack) + IF x.phase = "none" THEN 0 ELSE 1
  PROVE  StackInv'
  <1>1. /\ \A u \in Threads : conn'[u] = IF u = t THEN c ELSE conn[u]
        /\ \A u \in Threads : tx'[u] = IF u = t THEN x ELSE tx[u]
        /\ DOMAIN conn' = Threads /\ DOMAIN tx' = Threads
        /\ conn' = [u \in Threads |-> conn'[u]]
    BY DEF StackInv, Shapes
  <1>2. ASSUME NEW u \in Threads PROVE QueueShape(u)'
    <2>1. CASE tx'[u].files = tx[u].files
      BY <2>1 DEF StackInv, Shapes, QueueShape
    <2>2. CASE tx'[u].files = <<>>
      <3> DEFINE q == tx'[u].files
      <3>1. q \in Seq(Handles) /\ Len(q) = 0
        BY <2>2, EmptySeq
      <3>2. 1..Len(q) = {}
        BY <3>1
      <3> QED
        BY <3>1, <3>2 DEF QueueShape
    <2> QED
      BY <1>1, <2>1, <2>2
  <1>3. Shapes'
    <2>1. \A u \in Threads : /\ ConnectionShape(conn'[u])
                             /\ DOMAIN tx'[u] = {"phase", "files", "raised", "done"}
      BY <1>1 DEF StackInv, Shapes
    <2> QED
      BY <1>1, <1>2, <2>1 DEF StackInv, Shapes
  <1>4. \A u \in Threads : WritersOf(u)' = WritersOf(u)
    BY DEF WritersOf, HasWriter
  <1>5. ASSUME NEW u \in Threads
        PROVE  Len(conn'[u].stack) = Cardinality(WritersOf(u)') + Phase(u)'
    <2>1. CASE u # t
      BY <1>1, <1>4, <2>1 DEF StackInv, Counted, Phase
    <2>2. CASE u = t
      <3> DEFINE k == Cardinality(WritersOf(t))
                 n == Len(c.stack)
                 o == Len(conn[t].stack)
      <3>1. n \in Nat /\ o \in Nat /\ k \in Nat
        BY StackLen, WritersFinite DEF StackInv, Shapes
      <3>2. o = k + Phase(t) /\ Phase(t) \in Nat
        BY DEF StackInv, Counted, Phase
      <3>3. n + Phase(t) = o + Phase(t)'
        BY <1>1 DEF Phase
      <3>4. Phase(t)' \in Nat
        BY DEF Phase
      <3> HIDE DEF k, n, o
      <3>5. n = k + Phase(t)'
        BY <3>1, <3>2, <3>3, <3>4
      <3> QED
        BY <1>1, <1>4, <2>2, <3>5 DEF k, n
    <2> QED
      BY <2>1, <2>2
  <1> QED
    BY <1>3, <1>5 DEF StackInv, Counted

-----------------------------------------------------------------------------
(* Uploads *)

(* Upload u of handle h has the blocks of the thread, and the writer's own. *)
UploadShape(h, u) ==
  /\ DOMAIN u = {"c", "w"}
  /\ ConnectionShape(u.c) /\ u.c.stack # <<>>
  /\ "size" \in DOMAIN u.w
  /\ Len(u.c.stack) = Len(conn[handle[h].by].stack) + IF HasWriter(h) THEN 0 ELSE 1

LEMMA HandleKnown ==
  ASSUME StackInv, NEW h \in Handles, IsOpen(h)
  PROVE  /\ handle[h] # Unused /\ handle[h].by \in Threads /\ handle[h].stage = "open"
         /\ DOMAIN handle[h] = {"stage", "by", "mode", "path", "bs", "auto", "buf", "w", "failed"}
         /\ HasWriter(h) <=> handle[h].w # NoWriter
         /\ HasWriter(h) => "size" \in DOMAIN handle[h].w
         /\ HasWriter(h) => h \in WritersOf(handle[h].by)
         /\ ConnectionShape(conn[handle[h].by])
  <1>1. HandleShape(handle[h]) /\ handle[h].stage = "open"
    BY DEF StackInv, Shapes, IsOpen
  <1>2. handle[h] # Unused
    BY <1>1 DEF Unused
  <1> QED
    BY <1>1, <1>2 DEF StackInv, Shapes, HandleShape, HasWriter, WritersOf

LEMMA InitiatedShape ==
  ASSUME StackInv, NEW h \in Handles, IsOpen(h)
  PROVE  UploadShape(h, Initiated(h))
  <1> DEFINE t == handle[h].by
             f == handle[h]
  <1>1. t \in Threads /\ ConnectionShape(conn[t])
    BY HandleKnown
  <1>2. CASE HasWriter(h)
    <2>1. conn[t].stack # <<>> /\ "size" \in DOMAIN f.w
      BY <1>1, <1>2, HandleKnown, BlockToLeave
    <2>2. ConnectionShape(Lock(conn[t])) /\ Lock(conn[t]).stack = conn[t].stack
      BY <1>1, <2>1, SameStack
    <2>3. Initiated(h) = [c |-> Lock(conn[t]), w |-> f.w]
      BY <1>2 DEF Initiated
    <2>4. Len(conn[t].stack) \in Nat
      BY <1>1, StackLen
    <2> QED
      BY <1>2, <2>1, <2>2, <2>3, <2>4 DEF UploadShape
  <1>3. CASE ~HasWriter(h)
    <2> DEFINE e == Enter(conn[t])
               l == Lock(e)
               d == StartDb(l.work, f.mode, f.path, f.bs)
               s == StartWriter(d, f.mode, f.path, f.bs)
    <2>1. ConnectionShape(e) /\ Len(e.stack) = Len(conn[t].stack) + 1 /\ e.stack # <<>>
      BY <1>1, EnterShape
    <2>2. Initiated(h) = [c |-> [l EXCEPT !.work = d], w |-> s]
      BY <1>3 DEF Initiated
    <2>3. "size" \in DOMAIN s
      BY DEF StartWriter
    <2> HIDE DEF e, d, s
    <2>4. ConnectionShape(l) /\ l.stack = e.stack
      BY <2>1, SameStack
    <2> HIDE DEF l
    <2>5. ConnectionShape([l EXCEPT !.work = d]) /\ [l EXCEPT !.work = d].stack = l.stack
      BY <2>1, <2>4, SameStack
    <2>6. /\ DOMAIN Initiated(h) = {"c", "w"}
          /\ Initiated(h).c = [l EXCEPT !.work = d] /\ Initiated(h).w = s
      BY <2>2
    <2>7. /\ ConnectionShape(Initiated(h).c) /\ Initiated(h).c.stack = e.stack
          /\ "size" \in DOMAIN Initiated(h).w
      BY <2>3, <2>4, <2>5, <2>6
    <2> QED
      BY <1>3, <2>1, <2>6, <2>7 DEF UploadShape
  <1> QED
    BY <1>2, <1>3

LEMMA WrittenShape ==
  ASSUME NEW h \in Handles, NEW u, UploadShape(h, u), NEW chunk
  PROVE  UploadShape(h, Written(u, chunk)) /\ UploadShape(h, Refused(u, chunk))
  <1> DEFINE d == WriteChunkDb(u.c.work, u.w, chunk)
             w == WriteChunk(u.w, chunk)
  <1>1. Written(u, chunk) = [c |-> [u.c EXCEPT !.work = d], w |-> w]
    BY DEF Written
  <1>2. "size" \in DOMAIN w
    BY DEF WriteChunk, UploadShape
  <1> HIDE DEF d, w
  <1>3. /\ ConnectionShape([u.c EXCEPT !.work = d]) /\ [u.c EXCEPT !.work = d].stack = u.c.stack
        /\ ConnectionShape(SetRollback(u.c)) /\ SetRollback(u.c).stack = u.c.stack
    BY SameStack DEF UploadShape
  <1>4. UploadShape(h, Written(u, chunk))
    <2>1. /\ DOMAIN Written(u, chunk) = {"c", "w"}
          /\ Written(u, chunk).c = [u.c EXCEPT !.work = d] /\ Written(u, chunk).w = w
      BY <1>1
    <2>2. /\ ConnectionShape(Written(u, chunk).c) /\ Written(u, chunk).c.stack = u.c.stack
          /\ "size" \in DOMAIN Written(u, chunk).w
      BY <1>2, <1>3, <2>1
    <2> QED
      BY <2>1, <2>2 DEF UploadShape
  <1>5. UploadShape(h, Refused(u, chunk))
    <2>1. CASE Refused(u, chunk) = u
      BY <2>1
    <2>2. CASE Refused(u, chunk) = [u EXCEPT !.c = SetRollback(@)]
      <3>1. /\ DOMAIN Refused(u, chunk) = {"c", "w"}
            /\ Refused(u, chunk).c = SetRollback(u.c) /\ Refused(u, chunk).w = u.w
        BY <2>2 DEF UploadShape
      <3> QED
        BY <1>3, <3>1 DEF UploadShape
    <2> QED
      BY <2>1, <2>2 DEF Refused
  <1> QED
    BY <1>4, <1>5

LEMMA FinalizedShape ==
  ASSUME NEW h \in Handles, NEW u, UploadShape(h, u)
  PROVE  UploadShape(h, Finalized(u))
  <1> DEFINE d == FinalizeDb(u.c.work, u.w)
  <1>1. Finalized(u) = [u EXCEPT !.c = [u.c EXCEPT !.work = d]]
    BY DEF Finalized, UploadShape
  <1> HIDE DEF d
  <1>2. /\ DOMAIN Finalized(u) = {"c", "w"}
        /\ Finalized(u).c = [u.c EXCEPT !.work = d] /\ Finalized(u).w = u.w
    BY <1>1 DEF UploadShape
  <1>3. ConnectionShape([u.c EXCEPT !.work = d]) /\ [u.c EXCEPT !.work = d].stack = u.c.stack
    BY SameStack DEF UploadShape
  <1> QED
    BY <1>2, <1>3 DEF UploadShape

-----------------------------------------------------------------------------
(* The actions of a handle *)

LEMMA SameTransactions ==
  ASSUME StackInv, NEW t \in Threads, tx' = tx \/ tx' = Raise(t)
  PROVE  KeepsQueues
  <1>1. \A u \in Threads : DOMAIN tx[u] = {"phase", "files", "raised", "done"}
    BY DEF StackInv, Shapes
  <1>2. CASE tx' = tx
    BY <1>1, <1>2 DEF StackInv, Shapes, KeepsQueues
  <1>3. CASE tx' = Raise(t)
    <2>1. tx' = [tx EXCEPT ![t] = [tx[t] EXCEPT !.raised = tx[t].raised \/ tx[t].phase # "none"]]
      BY <1>3 DEF Raise
    <2> QED
      BY <1>1, <2>1 DEF StackInv, Shapes, KeepsQueues
  <1> QED
    BY <1>2, <1>3

(* An upload u of h, after which the handle holds u's writer and the
   connection the blocks of u. *)
LEMMA UploadStep ==
  ASSUME StackInv, NEW h \in Handles, IsOpen(h), NEW u, UploadShape(h, u),
         NEW f, handle' = [handle EXCEPT ![h] = f],
         DOMAIN f = DOMAIN handle[h], f.stage \in {"open", "closed"},
         f.by = handle[h].by, f.w = u.w,
         conn' = [conn EXCEPT ![handle[h].by] = u.c],
         KeepsQueues
  PROVE  StackInv'
  <1> DEFINE t == handle[h].by
  <1>1. f.w # NoWriter
    BY DEF UploadShape, NoWriter
  <1>2. f # Unused /\ HandleShape(f)
    BY HandleKnown DEF UploadShape, HandleShape, Unused
  <1>3. Len(u.c.stack) \in Nat /\ Len(conn[t].stack) \in Nat
    BY HandleKnown, StackLen DEF UploadShape
  <1>4. Len(u.c.stack) = Len(conn[t].stack) + IF HasWriter(h) THEN 0 ELSE 1
    BY DEF UploadShape
  <1>5. Len(u.c.stack) + (IF handle[h].w # NoWriter THEN 1 ELSE 0)
          = Len(conn[t].stack) + (IF f.w # NoWriter THEN 1 ELSE 0)
    <2> DEFINE n == Len(u.c.stack)
               o == Len(conn[t].stack)
    <2>1. n \in Nat /\ o \in Nat /\ n = o + IF HasWriter(h) THEN 0 ELSE 1
      BY <1>3, <1>4
    <2>2. HasWriter(h) <=> handle[h].w # NoWriter
      BY HandleKnown
    <2> HIDE DEF n, o
    <2>3. n + (IF handle[h].w # NoWriter THEN 1 ELSE 0) = o + (IF f.w # NoWriter THEN 1 ELSE 0)
      BY <1>1, <2>1, <2>2
    <2> QED
      BY <2>3 DEF n, o
  <1> QED
    BY <1>2, <1>5, HandleKnown, HandleStep DEF UploadShape

LEMMA WriteStep ==
  ASSUME StackInv, NEW h \in Handles, NEW data,
         WriteBuffers(h, data) \/ WriteUploads(h, data) \/ WriteRaises(h, data)
  PROVE  StackInv'
  <1> DEFINE t == handle[h].by
             chunk == handle[h].buf \o data
  <1>1. IsOpen(h) /\ t \in Threads
    <2>1. IsOpen(h)
      BY DEF WriteBuffers, WriteUploads, WriteRaises, Writes
    <2> QED
      BY <2>1, HandleKnown
  <1>2. CASE WriteBuffers(h, data)
    <2> DEFINE f == [handle[h] EXCEPT !.buf = chunk]
    <2>1. /\ handle' = [handle EXCEPT ![h] = f] /\ tx' = tx
          /\ conn' = [conn EXCEPT ![t] = conn[t]]
      <3>1. handle' = [handle EXCEPT ![h].buf = handle[h].buf \o data] /\ tx' = tx /\ conn' = conn
        BY <1>2 DEF WriteBuffers
      <3>2. conn = [conn EXCEPT ![t] = conn[t]]
        BY <1>1 DEF StackInv, Shapes
      <3>3. handle' = [handle EXCEPT ![h] = f]
        BY <3>1
      <3> QED
        BY <3>1, <3>2, <3>3
    <2>2. f.w = handle[h].w /\ f.by = t /\ f # Unused /\ HandleShape(f)
      BY <1>1, HandleKnown DEF HandleShape, Unused
    <2> HIDE DEF f
    <2> QED
      BY <1>1, <2>1, <2>2, HandleKnown, SameTransactions, HandleStep
  <1>3. CASE WriteUploads(h, data)
    <2> DEFINE u == Written(Initiated(h), chunk)
               f == [handle[h] EXCEPT !.w = u.w, !.buf = <<>>]
    <2>1. UploadShape(h, u)
      BY <1>1, InitiatedShape, WrittenShape
    <2>2. conn' = [conn EXCEPT ![t] = u.c] /\ handle' = [handle EXCEPT ![h] = f] /\ tx' = tx
      BY <1>1, <1>3, HandleKnown DEF WriteUploads, Uploaded, StackInv, Shapes
    <2>3. DOMAIN f = DOMAIN handle[h] /\ f.stage = "open" /\ f.by = t /\ f.w = u.w
      BY <1>1, HandleKnown
    <2> HIDE DEF u, f
    <2> QED
      BY <1>1, <2>1, <2>2, <2>3, SameTransactions, UploadStep
  <1>4. CASE WriteRaises(h, data)
    <2> DEFINE u == Refused(Initiated(h), chunk)
               f == [handle[h] EXCEPT !.w = u.w, !.buf = <<>>, !.failed = TRUE]
    <2>1. UploadShape(h, u)
      BY <1>1, InitiatedShape, WrittenShape
    <2>2. /\ conn' = [conn EXCEPT ![t] = u.c] /\ handle' = [handle EXCEPT ![h] = f]
          /\ tx' = Raise(t)
      BY <1>1, <1>4, HandleKnown DEF WriteRaises, StackInv, Shapes
    <2>3. DOMAIN f = DOMAIN handle[h] /\ f.stage = "open" /\ f.by = t /\ f.w = u.w
      BY <1>1, HandleKnown
    <2> HIDE DEF u, f
    <2> QED
      BY <1>1, <2>1, <2>2, <2>3, SameTransactions, UploadStep
  <1> QED
    BY <1>2, <1>3, <1>4

LEMMA StartRaisesStep ==
  ASSUME StackInv, NEW h \in Handles, LockTimeout(h) \/ StartRefused(h)
  PROVE  StackInv'
  <1> DEFINE t == handle[h].by
             e == Enter(conn[t])
             f == [handle[h] EXCEPT !.stage = "closed", !.failed = TRUE]
  <1>1. IsOpen(h) /\ t \in Threads /\ ConnectionShape(conn[t]) /\ ~HasWriter(h)
    <2>1. IsOpen(h) /\ ~HasWriter(h)
      BY DEF LockTimeout, StartRefused, StartRaises
    <2> QED
      BY <2>1, HandleKnown
  <1>2. ConnectionShape(e) /\ Len(e.stack) = Len(conn[t].stack) + 1 /\ e.stack # <<>>
    BY <1>1, EnterShape
  <1>3. PICK c \in {e, Lock(e)} : StartRaises(h, c)
    BY DEF LockTimeout, StartRefused
  <1> HIDE DEF e
  <1>4. ConnectionShape(c) /\ c.stack = e.stack
    BY <1>2, SameStack
  <1> DEFINE x == Exit(c, FALSE)
  <1>5. ConnectionShape(x) /\ Len(x.stack) = Len(c.stack) - 1
    BY <1>2, <1>4, ExitShape
  <1>6. /\ handle' = [handle EXCEPT ![h] = f] /\ tx' = Raise(t)
        /\ conn' = [conn EXCEPT ![t] = x]
    BY <1>1, <1>3, HandleKnown DEF StartRaises, StackInv, Shapes
  <1>7. f.w = handle[h].w /\ f.by = t /\ f # Unused /\ HandleShape(f)
    BY <1>1, HandleKnown DEF HandleShape, Unused
  <1> HIDE DEF x, f
  <1>8. Len(conn[t].stack) \in Nat /\ Len(x.stack) = Len(conn[t].stack)
    <2>1. Len(conn[t].stack) \in Nat
      BY <1>1, StackLen
    <2> QED
      BY <2>1, <1>2, <1>4, <1>5
  <1> QED
    BY <1>1, <1>5, <1>6, <1>7, <1>8, HandleKnown, SameTransactions, HandleStep

LEMMA CloseStep ==
  ASSUME StackInv, NEW h \in Handles, Close(h)
  PROVE  StackInv'
  <1> DEFINE t == handle[h].by
             i == Initiated(h)
             buf == handle[h].buf
  <1>1. IsOpen(h) /\ t \in Threads
    <2>1. IsOpen(h)
      BY DEF Close, CloseSucceeds, CloseRaises, Closes
    <2> QED
      BY <2>1, HandleKnown
  <1>2. UploadShape(h, i)
    BY <1>1, InitiatedShape
  <1>3. CASE CloseSucceeds(h)
    <2> DEFINE u == Finalized(Written(i, buf))
               x == Exit(u.c, TRUE)
               c == IF handle[h].auto THEN x ELSE u.c
               f == [handle[h] EXCEPT !.stage = "closed", !.buf = <<>>,
                                      !.w = IF handle[h].auto THEN NoWriter ELSE u.w]
    <2>1. UploadShape(h, u)
      BY <1>2, WrittenShape, FinalizedShape
    <2>2. conn' = [conn EXCEPT ![t] = c] /\ handle' = [handle EXCEPT ![h] = f] /\ tx' = tx
      BY <1>1, <1>3, HandleKnown DEF CloseSucceeds, StackInv, Shapes
    <2>3. /\ DOMAIN f = DOMAIN handle[h] /\ f.stage = "closed" /\ f.by = t
          /\ f.w = IF handle[h].auto THEN NoWriter ELSE u.w
      BY <1>1, HandleKnown
    <2>4. ConnectionShape(x) /\ Len(x.stack) = Len(u.c.stack) - 1
      BY <2>1, ExitShape DEF UploadShape
    <2> HIDE DEF u, f, x, i
    <2>5. CASE ~handle[h].auto
      BY <1>1, <2>1, <2>2, <2>3, <2>5, SameTransactions, UploadStep
    <2>6. CASE handle[h].auto
      <3>1. f # Unused /\ HandleShape(f) /\ f.w = NoWriter
        BY <1>1, <2>3, <2>6, HandleKnown DEF HandleShape, Unused
      <3>2. Len(x.stack) + (IF handle[h].w # NoWriter THEN 1 ELSE 0) = Len(conn[t].stack)
        <4> DEFINE n == Len(u.c.stack)
                   o == Len(conn[t].stack)
                   m == Len(x.stack)
        <4>1. n \in Nat /\ o \in Nat /\ n = o + (IF HasWriter(h) THEN 0 ELSE 1) /\ m = n - 1
          BY <1>1, <2>1, <2>4, HandleKnown, StackLen DEF UploadShape
        <4>2. HasWriter(h) <=> handle[h].w # NoWriter
          BY <1>1, HandleKnown
        <4> HIDE DEF n, o, m
        <4>3. m + (IF handle[h].w # NoWriter THEN 1 ELSE 0) = o
          BY <4>1, <4>2
        <4> QED
          BY <4>3 DEF m, o
      <3>3. conn' = [conn EXCEPT ![t] = x]
        BY <2>2, <2>6
      <3>4. Len(conn[t].stack) \in Nat
        BY <1>1, HandleKnown, StackLen
      <3>5. Len(x.stack) + (IF handle[h].w # NoWriter THEN 1 ELSE 0)
              = Len(conn[t].stack) + (IF f.w # NoWriter THEN 1 ELSE 0)
        <4>1. (IF f.w # NoWriter THEN 1 ELSE 0) = 0
          BY <3>1
        <4>2. Len(conn[t].stack) + 0 = Len(conn[t].stack)
          BY <3>4
        <4> QED
          BY <3>2, <4>1, <4>2
      <3> QED
        BY <1>1, <2>2, <2>3, <2>4, <3>1, <3>3, <3>5, HandleKnown, SameTransactions, HandleStep
    <2> QED
      BY <2>5, <2>6
  <1>4. CASE CloseRaises(h)
    <2> DEFINE u == AfterRefusal(i, buf)
               f == [handle[h] EXCEPT !.stage = "closed", !.buf = <<>>, !.w = u.w, !.failed = TRUE]
    <2>1. UploadShape(h, u)
      BY <1>2, WrittenShape DEF AfterRefusal
    <2>2. /\ conn' = [conn EXCEPT ![t] = u.c] /\ handle' = [handle EXCEPT ![h] = f]
          /\ tx' = Raise(t)
      BY <1>1, <1>4, HandleKnown DEF CloseRaises, StackInv, Shapes
    <2>3. DOMAIN f = DOMAIN handle[h] /\ f.stage = "closed" /\ f.by = t /\ f.w = u.w
      BY <1>1, HandleKnown
    <2> HIDE DEF u, f, i
    <2> QED
      BY <1>1, <2>1, <2>2, <2>3, SameTransactions, UploadStep
  <1> QED
    BY <1>3, <1>4 DEF Close

LEMMA OpenStep ==
  ASSUME StackInv, NEW t \in Threads, NEW h \in Handles, NEW mode, NEW p, NEW bs,
         Open(t, h, mode, p, bs)
  PROVE  StackInv'
  <1> DEFINE f == NewHandle(t, mode, p, bs, tx[t].phase = "none")
  <1>1. /\ handle[h] = Unused /\ handle' = [handle EXCEPT ![h] = f] /\ conn' = conn
        /\ tx' = tx \/ tx' = [tx EXCEPT ![t].files = Append(@, h)]
    BY DEF Open
  <1>2. HandleShape(f) /\ f # Unused /\ f.w = NoWriter /\ f.by = t
    BY DEF NewHandle, HandleShape, Unused
  <1> HIDE DEF f
  <1>3. /\ DOMAIN handle' = Handles /\ DOMAIN tx' = Threads
        /\ \A g \in Handles : handle'[g] = IF g = h THEN f ELSE handle[g]
        /\ \A u \in Threads : /\ DOMAIN tx'[u] = {"phase", "files", "raised", "done"}
                              /\ tx'[u].phase = tx[u].phase
                              /\ \/ tx'[u].files = tx[u].files
                                 \/ u = t /\ tx'[u].files = Append(tx[u].files, h)
    BY <1>1 DEF StackInv, Shapes
  <1>4. ASSUME NEW u \in Threads PROVE QueueShape(u)'
    <2> DEFINE q == tx[u].files
    <2>1. /\ q \in Seq(Handles)
          /\ \A i \in 1..Len(q) : handle'[q[i]] # Unused /\ handle'[q[i]].by = u
      <3>1. q \in Seq(Handles)
        BY DEF StackInv, Shapes, QueueShape
      <3>2. ASSUME NEW i \in 1..Len(q)
            PROVE  handle'[q[i]] # Unused /\ handle'[q[i]].by = u
        <4>1. q[i] \in Handles /\ handle[q[i]] # Unused /\ handle[q[i]].by = u
          BY <3>1, ElementOfSeq DEF StackInv, Shapes, QueueShape
        <4> QED
          BY <1>1, <1>3, <4>1
      <3> QED
        BY <3>1, <3>2
    <2>2. CASE tx'[u].files = q
      BY <2>1, <2>2 DEF QueueShape
    <2>3. CASE u = t /\ tx'[u].files = Append(q, h)
      <3> HIDE DEF q
      <3>1. /\ Append(q, h) \in Seq(Handles) /\ Len(Append(q, h)) = Len(q) + 1
            /\ \A i \in 1..Len(q) : Append(q, h)[i] = q[i]
            /\ Append(q, h)[Len(q) + 1] = h
        BY <2>1, AppendProperties
      <3>2. Len(q) \in Nat
        BY <2>1, LenProperties
      <3>3. ASSUME NEW i \in 1..(Len(q) + 1)
            PROVE  handle'[Append(q, h)[i]] # Unused /\ handle'[Append(q, h)[i]].by = u
        <4>1. CASE i = Len(q) + 1
          BY <1>2, <1>3, <2>3, <3>1, <4>1
        <4>2. CASE i \in 1..Len(q)
          BY <2>1, <3>1, <4>2
        <4> QED
          BY <3>2, <4>1, <4>2
      <3> QED
        BY <2>3, <3>1, <3>3 DEF QueueShape
    <2> QED
      BY <1>3, <2>2, <2>3
  <1>5. Shapes'
    BY <1>1, <1>2, <1>3, <1>4 DEF StackInv, Shapes
  <1>6. \A u \in Threads : WritersOf(u)' = WritersOf(u) /\ Phase(u)' = Phase(u)
    BY <1>1, <1>2, <1>3 DEF WritersOf, HasWriter, Phase, Unused
  <1> QED
    BY <1>1, <1>5, <1>6 DEF StackInv, Counted

-----------------------------------------------------------------------------
(* The actions of a transaction *)

LEMMA QueueHead ==
  ASSUME StackInv, NEW t \in Threads, tx[t].files # <<>>
  PROVE  /\ Head(tx[t].files) \in Handles
         /\ handle[Head(tx[t].files)] # Unused
         /\ handle[Head(tx[t].files)].by = t
  <1> DEFINE q == tx[t].files
  <1>1. q \in Seq(Handles) /\ \A i \in 1..Len(q) : handle[q[i]] # Unused /\ handle[q[i]].by = t
    BY DEF StackInv, Shapes, QueueShape
  <1> HIDE DEF q
  <1>2. q # <<>> => Head(q) \in Handles /\ Head(q) = q[1] /\ 1 \in 1..Len(q)
    BY <1>1
  <1> QED
    BY <1>1, <1>2 DEF q

(* complete() is done with the file at the head: its writer's block, if it has
   one, is left, committed or rolled back. *)
LEMMA CompleteFileStep ==
  ASSUME StackInv, NEW t \in Threads,
         CompleteCommitFile(t) \/ CompleteDiscardFile(t)
  PROVE  StackInv'
  <1> DEFINE h == Head(tx[t].files)
  <1>1. /\ h \in Handles /\ handle[h] # Unused /\ handle[h].by = t /\ HandleShape(handle[h])
        /\ ConnectionShape(conn[t]) /\ tx[t].files # <<>>
    BY QueueHead DEF CompleteCommitFile, CompleteDiscardFile, StackInv, Shapes
  <1>2. HasWriter(h) <=> handle[h].w # NoWriter
    BY <1>1 DEF HasWriter, HandleShape
  <1>3. PICK d \in {conn[t], SetRollback(conn[t])} :
          conn' = [conn EXCEPT ![t] = IF HasWriter(h) THEN Exit(d, TRUE) ELSE conn[t]]
    BY DEF CompleteCommitFile, CompleteDiscardFile
  <1> DEFINE x == Exit(d, TRUE)
             c == IF HasWriter(h) THEN x ELSE conn[t]
  <1>4. HasWriter(h) => ConnectionShape(x) /\ Len(x.stack) = Len(conn[t].stack) - 1
    <2> HAVE HasWriter(h)
    <2>1. conn[t].stack # <<>>
      BY <1>1, BlockToLeave DEF WritersOf
    <2>2. ConnectionShape(d) /\ d.stack = conn[t].stack
      BY <1>1, <2>1, SameStack
    <2> QED
      BY <2>1, <2>2, ExitShape
  <1>5. Len(conn[t].stack) \in Nat
    BY <1>1, StackLen
  <1>6. PICK f : /\ handle' = [handle EXCEPT ![h] = f]
                 /\ f.by = t /\ f.w = NoWriter /\ f # Unused /\ HandleShape(f)
    <2>1. CASE CompleteCommitFile(t)
      <3> DEFINE f == [handle[h] EXCEPT !.w = NoWriter]
      <3>1. handle' = [handle EXCEPT ![h] = f]
        BY <1>1, <2>1 DEF CompleteCommitFile, StackInv, Shapes
      <3>2. f.by = t /\ f.w = NoWriter /\ f # Unused /\ HandleShape(f)
        BY <1>1 DEF HandleShape, Unused
      <3> QED
        BY <3>1, <3>2
    <2>2. CASE CompleteDiscardFile(t)
      <3> DEFINE f == [handle[h] EXCEPT !.stage = "closed", !.buf = <<>>, !.w = NoWriter]
      <3>1. handle' = [handle EXCEPT ![h] = f]
        BY <1>1, <2>2 DEF CompleteDiscardFile, StackInv, Shapes
      <3>2. f.by = t /\ f.w = NoWriter /\ f # Unused /\ HandleShape(f)
        BY <1>1 DEF HandleShape, Unused
      <3> QED
        BY <3>1, <3>2
    <2> QED
      BY <2>1, <2>2
  <1>7. KeepsQueues
    <2>1. \A u \in Threads : DOMAIN tx[u] = {"phase", "files", "raised", "done"}
      BY DEF StackInv, Shapes
    <2>2. CASE CompleteDiscardFile(t)
      BY <1>1, <2>1, <2>2 DEF CompleteDiscardFile, StackInv, Shapes, KeepsQueues
    <2>3. CASE CompleteCommitFile(t)
      <3>1. PICK done : tx' = [tx EXCEPT ![t].files = Tail(@), ![t].done = done]
        BY <2>3 DEF CompleteCommitFile
      <3> QED
        BY <1>1, <2>1, <3>1 DEF StackInv, Shapes, KeepsQueues
    <2> QED
      BY <2>2, <2>3
  <1> HIDE DEF x
  <1>8. /\ ConnectionShape(c) /\ conn' = [conn EXCEPT ![t] = c]
        /\ Len(c.stack) + (IF handle[h].w # NoWriter THEN 1 ELSE 0)
             = Len(conn[t].stack) + (IF f.w # NoWriter THEN 1 ELSE 0)
    <2>1. CASE HasWriter(h)
      <3>1. c = x /\ handle[h].w # NoWriter /\ f.w = NoWriter
        BY <1>2, <1>6, <2>1
      <3>2. conn' = [conn EXCEPT ![t] = x]
        BY <1>3, <2>1 DEF x
      <3>3. Len(x.stack) + 1 = Len(conn[t].stack) /\ Len(conn[t].stack) + 0 = Len(conn[t].stack)
        BY <1>4, <1>5, <2>1
      <3>4. /\ (IF handle[h].w # NoWriter THEN 1 ELSE 0) = 1
            /\ (IF f.w # NoWriter THEN 1 ELSE 0) = 0
        BY <3>1
      <3> QED
        BY <1>4, <2>1, <3>1, <3>2, <3>3, <3>4
    <2>2. CASE ~HasWriter(h)
      <3>1. c = conn[t] /\ handle[h].w = NoWriter /\ f.w = NoWriter
        BY <1>2, <1>6, <2>2
      <3> QED
        BY <1>1, <1>3, <1>5, <3>1, <2>2
    <2> QED
      BY <2>1, <2>2
  <1> HIDE DEF h, c
  <1> QED
    BY <1>1, <1>6, <1>7, <1>8, HandleStep

LEMMA CompleteEndStep ==
  ASSUME StackInv, NEW t \in Threads,
         CompleteCommit(t) \/ CompleteFails(t) \/ CompleteDiscard(t)
  PROVE  StackInv'
  <1>1. /\ Phase(t) = 1 /\ handle' = handle /\ tx' = [tx EXCEPT ![t] = NoTransaction]
        /\ \E d \in {conn[t], SetRollback(conn[t])}, ok \in BOOLEAN :
             conn' = [conn EXCEPT ![t] = Exit(d, ok)]
    BY DEF CompleteCommit, CompleteFails, CompleteDiscard, Phase
  <1>2. PICK d \in {conn[t], SetRollback(conn[t])}, ok \in BOOLEAN :
          conn' = [conn EXCEPT ![t] = Exit(d, ok)]
    BY <1>1
  <1>3. conn[t].stack # <<>> /\ ConnectionShape(conn[t])
    BY <1>1, BlockToLeave DEF StackInv, Shapes
  <1>4. ConnectionShape(d) /\ d.stack = conn[t].stack
    BY <1>3, SameStack
  <1> DEFINE x == Exit(d, ok)
  <1>5. ConnectionShape(x) /\ Len(x.stack) = Len(conn[t].stack) - 1
    BY <1>3, <1>4, ExitShape
  <1>6. Len(conn[t].stack) \in Nat
    BY <1>3, StackLen
  <1> DEFINE n == NoTransaction
  <1>7. DOMAIN n = {"phase", "files", "raised", "done"} /\ n.files = <<>> /\ n.phase = "none"
    BY DEF NoTransaction
  <1> HIDE DEF x, n
  <1>8. Len(x.stack) + Phase(t) = Len(conn[t].stack) + IF n.phase = "none" THEN 0 ELSE 1
    BY <1>1, <1>5, <1>6, <1>7
  <1> QED
    BY <1>1, <1>2, <1>5, <1>7, <1>8, ThreadStep DEF x, n

LEMMA TransactionBeginStep ==
  ASSUME StackInv, NEW t \in Threads,
         TransactionStart(t) \/ \E commit \in BOOLEAN : TransactionExit(t, commit)
  PROVE  StackInv'
  <1>1. ConnectionShape(conn[t]) /\ DOMAIN tx[t] = {"phase", "files", "raised", "done"}
    BY DEF StackInv, Shapes
  <1>2. Len(conn[t].stack) \in Nat
    BY <1>1, StackLen
  <1>3. CASE TransactionStart(t)
    <2> DEFINE x == [tx[t] EXCEPT !.phase = "body"]
               c == Enter(conn[t])
    <2>1. /\ tx[t].phase = "none" /\ handle' = handle
          /\ conn' = [conn EXCEPT ![t] = c] /\ tx' = [tx EXCEPT ![t] = x]
      BY <1>3 DEF TransactionStart
    <2>2. /\ DOMAIN x = {"phase", "files", "raised", "done"}
          /\ x.files = tx[t].files /\ x.phase = "body"
      BY <1>1
    <2>3. ConnectionShape(c) /\ Len(c.stack) = Len(conn[t].stack) + 1
      BY <1>1, EnterShape
    <2> HIDE DEF x, c
    <2>4. Len(c.stack) + Phase(t) = Len(conn[t].stack) + IF x.phase = "none" THEN 0 ELSE 1
      BY <1>2, <2>1, <2>2, <2>3 DEF Phase
    <2> QED
      BY <2>1, <2>2, <2>3, <2>4, ThreadStep
  <1>4. CASE \E commit \in BOOLEAN : TransactionExit(t, commit)
    <2> PICK commit \in BOOLEAN : TransactionExit(t, commit)
      BY <1>4
    <2> DEFINE x == [tx[t] EXCEPT !.phase = IF commit THEN "commit" ELSE "discard",
                                  !.raised = FALSE]
    <2>1. /\ tx[t].phase = "body" /\ handle' = handle /\ conn' = conn
          /\ tx' = [tx EXCEPT ![t] = x]
      BY DEF TransactionExit
    <2>2. /\ DOMAIN x = {"phase", "files", "raised", "done"}
          /\ x.files = tx[t].files /\ x.phase # "none"
      BY <1>1
    <2>3. conn' = [conn EXCEPT ![t] = conn[t]]
      BY <2>1 DEF StackInv, Shapes
    <2> HIDE DEF x
    <2>4. Len(conn[t].stack) + Phase(t) = Len(conn[t].stack) + IF x.phase = "none" THEN 0 ELSE 1
      BY <1>2, <2>1, <2>2 DEF Phase
    <2> QED
      BY <1>1, <2>1, <2>2, <2>3, <2>4, ThreadStep
  <1> QED
    BY <1>3, <1>4

LEMMA CrashStep ==
  ASSUME StackInv, NEW t \in Threads, Crash(t)
  PROVE  StackInv'
  <1> DEFINE Dead(h) == handle[h].stage # "unused" /\ handle[h].by = t
             Left(h) == [handle[h] EXCEPT !.stage = "closed", !.w = NoWriter, !.buf = <<>>]
  <1>1. /\ conn' = [conn EXCEPT ![t] = Idle] /\ tx' = [tx EXCEPT ![t] = NoTransaction]
        /\ handle' = [h \in Handles |-> IF Dead(h) THEN Left(h) ELSE handle[h]]
    BY DEF Crash
  <1>2. ASSUME NEW h \in Handles
        PROVE  /\ HandleShape(handle'[h])
               /\ handle[h] # Unused => handle'[h] # Unused /\ handle'[h].by = handle[h].by
               /\ ~Dead(h) => handle'[h] = handle[h]
               /\ Dead(h) => handle'[h].w = NoWriter
    <2>1. HandleShape(handle[h])
      BY DEF StackInv, Shapes
    <2>2. CASE ~Dead(h)
      BY <1>1, <2>1, <2>2
    <2>3. CASE Dead(h)
      <3>1. handle'[h] = Left(h)
        BY <1>1, <2>3
      <3>2. handle[h] # Unused
        BY <2>3 DEF Unused
      <3>3. /\ DOMAIN Left(h) = DOMAIN handle[h] /\ Left(h).stage = "closed"
            /\ Left(h).by = t /\ Left(h).w = NoWriter
        BY <2>1, <2>3, <3>2 DEF HandleShape
      <3>4. HandleShape(Left(h)) /\ Left(h) # Unused
        BY <2>1, <3>2, <3>3 DEF HandleShape, Unused
      <3> QED
        BY <2>3, <3>1, <3>3, <3>4
    <2> QED
      BY <2>2, <2>3
  <1> HIDE DEF Left
  <1>3. /\ WritersOf(t)' = {}
        /\ \A u \in Threads \ {t} : WritersOf(u)' = WritersOf(u)
    <2>1. ASSUME NEW h \in Handles
          PROVE  h \in WritersOf(t)' => FALSE
      <3>1. HandleShape(handle[h])
        BY DEF StackInv, Shapes
      <3> QED
        BY <1>2, <3>1 DEF WritersOf, HasWriter, Unused, HandleShape
    <2>2. ASSUME NEW u \in Threads \ {t}, NEW h \in Handles
          PROVE  h \in WritersOf(u)' <=> h \in WritersOf(u)
      <3>1. HandleShape(handle[h])
        BY DEF StackInv, Shapes
      <3> QED
        BY <1>2, <3>1 DEF WritersOf, HasWriter, Unused, HandleShape
    <2>3. \A u \in Threads : WritersOf(u) \subseteq Handles /\ WritersOf(u)' \subseteq Handles
      BY DEF WritersOf
    <2> QED
      BY <2>1, <2>2, <2>3
  <1>4. /\ \A u \in Threads : conn'[u] = IF u = t THEN Idle ELSE conn[u]
        /\ \A u \in Threads : tx'[u] = IF u = t THEN NoTransaction ELSE tx[u]
        /\ DOMAIN conn' = Threads /\ DOMAIN tx' = Threads /\ DOMAIN handle' = Handles
        /\ conn' = [u \in Threads |-> conn'[u]]
    BY <1>1 DEF StackInv, Shapes
  <1>5. ConnectionShape(Idle) /\ Len(Idle.stack) = 0
    <2>1. <<>> \in Seq({})
      BY EmptySeq
    <2> QED
      BY <2>1 DEF ConnectionShape, Idle
  <1>6. /\ DOMAIN NoTransaction = {"phase", "files", "raised", "done"}
        /\ NoTransaction.files = <<>> /\ NoTransaction.phase = "none"
    BY DEF NoTransaction
  <1>7. ASSUME NEW u \in Threads PROVE QueueShape(u)'
    <2>1. CASE u = t
      <3> DEFINE q == tx'[u].files
      <3>1. q \in Seq(Handles) /\ Len(q) = 0
        BY <1>4, <1>6, <2>1, EmptySeq
      <3>2. 1..Len(q) = {}
        BY <3>1
      <3> QED
        BY <3>1, <3>2 DEF QueueShape
    <2>2. CASE u # t
      <3> DEFINE q == tx[u].files
      <3>1. q \in Seq(Handles) /\ \A i \in 1..Len(q) : handle[q[i]] # Unused /\ handle[q[i]].by = u
        BY DEF StackInv, Shapes, QueueShape
      <3>2. \A i \in 1..Len(q) : q[i] \in Handles
        BY <3>1, ElementOfSeq
      <3>3. \A i \in 1..Len(q) : handle'[q[i]] # Unused /\ handle'[q[i]].by = u
        BY <1>2, <3>1, <3>2
      <3> QED
        BY <1>4, <2>2, <3>1, <3>3 DEF QueueShape
    <2> QED
      BY <2>1, <2>2
  <1>8. Shapes'
    <2>1. \A u \in Threads : /\ ConnectionShape(conn'[u])
                             /\ DOMAIN tx'[u] = {"phase", "files", "raised", "done"}
      BY <1>4, <1>5, <1>6 DEF StackInv, Shapes
    <2> QED
      BY <1>2, <1>4, <1>7, <2>1 DEF Shapes
  <1>9. Cardinality({}) = 0
    BY FS_EmptySet
  <1>10. ASSUME NEW u \in Threads
         PROVE  Len(conn'[u].stack) = Cardinality(WritersOf(u)') + Phase(u)'
    <2>1. CASE u = t
      <3>1. Cardinality(WritersOf(t)') = 0 /\ Len(conn'[t].stack) = 0
        BY <1>3, <1>4, <1>5, <1>9
      <3>2. Phase(t)' = 0
        BY <1>4, <1>6 DEF Phase
      <3> QED
        BY <2>1, <3>1, <3>2
    <2>2. CASE u # t
      BY <1>3, <1>4, <2>2 DEF StackInv, Counted, Phase
    <2> QED
      BY <2>1, <2>2
  <1> QED
    BY <1>8, <1>10 DEF StackInv, Counted

-----------------------------------------------------------------------------
LEMMA StackInit ==
  Init => StackInv
  <1> SUFFICES ASSUME Init PROVE StackInv
    OBVIOUS
  <1>1. /\ conn = [t \in Threads |-> conn[t]]
        /\ DOMAIN conn = Threads /\ DOMAIN handle = Handles /\ DOMAIN tx = Threads
        /\ \A t \in Threads : conn[t] = Idle /\ tx[t] = NoTransaction
        /\ \A h \in Handles : handle[h] = Unused
    BY DEF Init
  <1>2. ConnectionShape(Idle) /\ Len(Idle.stack) = 0
    <2>1. <<>> \in Seq({})
      BY EmptySeq
    <2> QED
      BY <2>1 DEF ConnectionShape, Idle
  <1>3. /\ DOMAIN NoTransaction = {"phase", "files", "raised", "done"}
        /\ NoTransaction.files = <<>> /\ NoTransaction.phase = "none"
    BY DEF NoTransaction
  <1>4. ASSUME NEW t \in Threads PROVE QueueShape(t)
    <2> DEFINE q == tx[t].files
    <2>1. q \in Seq(Handles) /\ Len(q) = 0
      BY <1>1, <1>3, EmptySeq
    <2>2. 1..Len(q) = {}
      BY <2>1
    <2> QED
      BY <2>1, <2>2 DEF QueueShape
  <1>5. Shapes
    BY <1>1, <1>2, <1>3, <1>4 DEF Shapes, HandleShape
  <1>6. \A t \in Threads : WritersOf(t) = {} /\ Phase(t) = 0
    BY <1>1, <1>3 DEF WritersOf, HasWriter, Unused, Phase
  <1> QED
    BY <1>1, <1>2, <1>5, <1>6, FS_EmptySet DEF StackInv, Counted

LEMMA StackStep ==
  StackInv /\ [Next]_vars => StackInv'
  <1> SUFFICES ASSUME StackInv, [Next]_vars PROVE StackInv'
    OBVIOUS
  <1>1. CASE Next
    BY <1>1, OpenStep, WriteStep, StartRaisesStep, CloseStep, TransactionBeginStep,
       CompleteFileStep, CompleteEndStep, CrashStep DEF Next, Complete
  <1>2. CASE UNCHANGED vars
    <2>1. disk' = disk /\ conn' = conn /\ handle' = handle /\ tx' = tx
      BY <1>2 DEF vars
    <2> QED
      BY <2>1 DEF StackInv, Shapes, Counted, QueueShape, WritersOf, HasWriter, Phase
  <1> QED
    BY <1>1, <1>2

LEMMA StackBalancedByInv ==
  StackInv => StackBalanced
  <1> SUFFICES ASSUME StackInv, NEW t \in Threads
               PROVE  /\ Len(conn[t].stack) = Cardinality(WritersOf(t)) + Phase(t)
                      /\ conn[t].stack = <<>> => conn[t] = Idle
    BY DEF StackBalanced, Phase
  <1> QED
    BY DEF StackInv, Shapes, Counted, ConnectionShape

(* Exits of atomic blocks never take one too many or too few: at any time the
   blocks of a connection are those of the started writers of its thread
   (StreamingFileWriter.start) and of its fs.transaction, and a connection
   without a block holds no lock and no uncommitted rows. *)
THEOREM StackCorrect == Spec => []StackBalanced
  <1>1. Spec => []StackInv
    BY StackInit, StackStep, PTL DEF Spec
  <1> QED
    BY <1>1, StackBalancedByInv, PTL

-----------------------------------------------------------------------------
(* What is committed.  The habits of a program decide whether its threads may
   leave each other's atomic blocks and finish each other's files; the rest is
   about programs with none: an exception leaves the fs.transaction it is
   raised in, no thread has two handles open on a path, and no fs.transaction
   starts while a handle of the thread is open. *)

PlainUse == Habits = {}

Queued(t) == {tx[t].files[i] : i \in 1..Len(tx[t].files)}

(* A writer that nobody will finish: its close() has failed, or its
   transaction is over.  Its atomic block stays on the connection for good. *)
Abandoned(h) ==
  HasWriter(h) /\ IF handle[h].auto THEN ~IsOpen(h) ELSE h \notin Queued(handle[h].by)

(* What thread t has changed may still be committed. *)
Sane(t) ==
  /\ ~conn[t].broken
  /\ tx[t].phase # "discard" /\ ~tx[t].raised
  /\ \A h \in WritersOf(t) : ~Abandoned(h)

OpenWriters(t) == {h \in WritersOf(t) : IsOpen(h)}

(* The finalized files of the transaction of t, committed or not. *)
Reports(t) == tx[t].done \cup {Report(h) : h \in WritersOf(t) \ OpenWriters(t)}

FilesOf(W, hs) == {hs[h].w.node : h \in W}

(* The rows d are those of a sound tree of finished files, but for the files
   that the writers of the handles W are at work on, and have every file
   reported in R, with the checksum of a report unless a writer is at work. *)
WorkOk(d, W, hs, R) ==
  /\ Sound(d) /\ TreeSound(d) /\ RowsMatchBut(d, FilesOf(W, hs))
  /\ \A h \in W : /\ WritesSoundly(d, hs[h].w) /\ WriterKnows(d, hs[h].w)
                  /\ d.nodes[hs[h].w.node].path = hs[h].path
  /\ \A r \in R : /\ r.node \in NodeIds(d)
                  /\ \/ r.node \in FilesOf(W, hs)
                     \/ \E q \in R : q.node = r.node /\ d.nodes[r.node].sum = q.sum

HandleTyped(f) ==
  f # Unused => /\ f.mode \in Modes /\ f.path \in Paths /\ f.bs \in BlockSizes
                /\ f.auto \in BOOLEAN /\ f.buf \in Seq(Bytes)

(* The queue holds deferred handles, among them every open one, and only an exception on its
   way out leaves a connection that is broken and has no abandoned writer. *)
ThreadShape(t) ==
  /\ tx[t].phase \in {"none", "body", "commit", "discard"}
  /\ tx[t].raised \in BOOLEAN
  /\ tx[t].phase = "none" => tx[t] = NoTransaction
  /\ \A h \in Queued(t) : ~handle[h].auto
  /\ tx[t].phase # "none" =>
       \A h \in Handles : IsOpen(h) /\ handle[h].by = t => ~handle[h].auto /\ h \in Queued(t)
  /\ tx[t].phase \in {"body", "commit"} /\ conn[t].broken
       /\ (\A h \in WritersOf(t) : ~Abandoned(h)) => tx[t].raised
  /\ \A g, h \in Handles : IsOpen(g) /\ IsOpen(h) /\ handle[g].by = t /\ handle[h].by = t
                             /\ handle[g].path = handle[h].path => g = h

ThreadSound(t) ==
  Sane(t) =>
    /\ ~conn[t].locked => WritersOf(t) = {} /\ tx[t].done = {}
    /\ WorkOk(View(t), OpenWriters(t), handle, Reports(t))

DiskSound == Sound(disk) /\ TreeSound(disk) /\ RowsMatchContent(disk)

OneLock ==
  \A t, u \in Threads : t # u /\ Sane(t) /\ Sane(u) => ~(conn[t].locked /\ conn[u].locked)

CommitInv ==
  /\ DiskSound
  /\ \A h \in Handles : HandleTyped(handle[h])
  /\ \A t \in Threads : ThreadShape(t) /\ ThreadSound(t)
  /\ OneLock

-----------------------------------------------------------------------------
(* The rows of a connection while its writers are at work *)

LEMMA StartWork ==
  ASSUME NEW d, NEW W, NEW hs, NEW R, WorkOk(d, W, hs, R),
         NEW mode \in Modes, NEW p \in Paths, NEW bs \in BlockSizes, CanStart(d, mode, p),
         \A g \in W : hs[g].path # p,
         NEW h, h \notin W, NEW ks, \A g \in W : ks[g] = hs[g],
         ks[h].w = StartWriter(StartDb(d, mode, p, bs), mode, p, bs), ks[h].path = p
  PROVE  WorkOk(StartDb(d, mode, p, bs), W \cup {h}, ks, R)
  <1> DEFINE e == StartDb(d, mode, p, bs)
             w == ks[h].w
             N == FilesOf(W, hs)
  <1>1. Sound(d) /\ TreeSound(d) /\ RowsMatchBut(d, N)
    BY DEF WorkOk
  <1>2. /\ Sound(e) /\ NodeIds(d) \subseteq NodeIds(e)
        /\ \A n \in NodeIds(d) : e.nodes[n].path = d.nodes[n].path
        /\ HasNode(e, p) /\ \A n \in NodesAt(e, p) : e.nodes[n].type = "file"
    BY <1>1, StartDbSound
  <1>3. TreeSound(e)
    BY <1>1, StartTree
  <1>4. WritesSoundly(e, w)
    BY <1>2, StartWriterSound
  <1>5. Started(d, mode, p, e, w)
    BY <1>1, StartShape
  <1> HIDE DEF e, w
  <1>6. w.node \in NodeIds(e) /\ e.nodes[w.node].path = p /\ e.nodes[w.node].type = "file"
    BY <1>4, <1>5 DEF Started, WritesSoundly
  <1>7. ASSUME NEW g \in W
        PROVE  hs[g].w.node \in NodeIds(d) /\ hs[g].w.node # w.node
    <2>1. hs[g].w.node \in NodeIds(d) /\ d.nodes[hs[g].w.node].path = hs[g].path
      BY DEF WorkOk, WritesSoundly, CanFinalize
    <2> QED
      BY <1>2, <1>6, <2>1
  <1>8. w.node \notin N
    BY <1>7 DEF FilesOf
  <1>9. /\ RowsMatchBut(e, N \cup {w.node}) /\ WriterKnows(e, w)
        /\ \A n \in NodeIds(d) \ {w.node} : FileKept(d, e, n)
    <2> HIDE DEF N
    <2> QED
      BY <1>1, <1>5, <1>6, <1>8, StartKnows
  <1>10. FilesOf(W \cup {h}, ks) = N \cup {w.node}
    BY DEF FilesOf, w
  <1>11. ASSUME NEW g \in W
         PROVE  /\ WritesSoundly(e, ks[g].w) /\ WriterKnows(e, ks[g].w)
                /\ e.nodes[ks[g].w.node].path = ks[g].path
    <2>1. /\ WritesSoundly(d, hs[g].w) /\ WriterKnows(d, hs[g].w)
          /\ d.nodes[hs[g].w.node].path = hs[g].path
      BY DEF WorkOk
    <2>2. FileKept(d, e, hs[g].w.node)
      BY <1>7, <1>9
    <2>3. WritesSoundly(e, hs[g].w) /\ WriterKnows(e, hs[g].w)
      BY <1>2, <2>1, <2>2, OtherWriterKept
    <2>4. ks[g] = hs[g]
      OBVIOUS
    <2> QED
      BY <2>1, <2>2, <2>3, <2>4 DEF FileKept
  <1>12. ASSUME NEW r \in R
         PROVE  /\ r.node \in NodeIds(e)
                /\ \/ r.node \in N \cup {w.node}
                   \/ \E q \in R : q.node = r.node /\ e.nodes[r.node].sum = q.sum
    <2>1. /\ r.node \in NodeIds(d)
          /\ \/ r.node \in N
             \/ \E q \in R : q.node = r.node /\ d.nodes[r.node].sum = q.sum
      BY DEF WorkOk
    <2>2. r.node # w.node => e.nodes[r.node] = d.nodes[r.node]
      BY <1>9, <2>1 DEF FileKept
    <2> QED
      BY <1>2, <2>1, <2>2
  <1>13. \A g \in W \cup {h} : /\ WritesSoundly(e, ks[g].w) /\ WriterKnows(e, ks[g].w)
                               /\ e.nodes[ks[g].w.node].path = ks[g].path
    BY <1>4, <1>6, <1>9, <1>11 DEF w
  <1> HIDE DEF N
  <1>14. WorkOk(e, W \cup {h}, ks, R)
    BY <1>2, <1>3, <1>9, <1>10, <1>12, <1>13 DEF WorkOk
  <1> QED
    BY <1>14 DEF e

(* The writers of W work on different files. *)
LEMMA OtherFile ==
  ASSUME NEW d, NEW W, NEW hs, NEW R, WorkOk(d, W, hs, R), NEW h \in W, NEW g \in W,
         hs[g].path # hs[h].path
  PROVE  hs[g].w.node \in NodeIds(d) \ {hs[h].w.node}
  BY DEF WorkOk, WritesSoundly, CanFinalize

LEMMA ChunkWork ==
  ASSUME NEW d, NEW W, NEW hs, NEW R, WorkOk(d, W, hs, R), NEW h \in W,
         \A g \in W \ {h} : hs[g].path # hs[h].path,
         NEW chunk \in Seq(Bytes), NEW ks, \A g \in W \ {h} : ks[g] = hs[g],
         ks[h].w = WriteChunk(hs[h].w, chunk), ks[h].path = hs[h].path
  PROVE  WorkOk(WriteChunkDb(d, hs[h].w, chunk), W, ks, R)
  <1> DEFINE w == hs[h].w
             v == WriteChunk(w, chunk)
             e == WriteChunkDb(d, w, chunk)
             N == FilesOf(W, hs)
  <1>1. /\ Sound(d) /\ TreeSound(d) /\ RowsMatchBut(d, N)
        /\ WritesSoundly(d, w) /\ WriterKnows(d, w) /\ d.nodes[w.node].path = hs[h].path
    BY DEF WorkOk
  <1>2. w.node \in N
    BY DEF FilesOf
  <1>3. WritesSoundly(e, v) /\ e.nodes = d.nodes
    BY <1>1, WriteChunkSound
  <1>4. /\ RowsMatchBut(e, N) /\ WriterKnows(e, v)
        /\ \A n \in NodeIds(d) \ {w.node} : FileKept(d, e, n)
    <2> HIDE DEF N
    <2> QED
      BY <1>1, <1>2, ChunkKnows
  <1>5. v.node = w.node
    BY <1>1 DEF WriteChunk, WritesSoundly, WriterSound
  <1>6. NodeIds(e) = NodeIds(d)
    BY <1>3 DEF NodeIds
  <1> HIDE DEF e, v
  <1>7. TreeSound(e)
    BY <1>1, <1>3, <1>6, TreeSame
  <1>8. FilesOf(W, ks) = N
    <2>1. \A g \in W : ks[g].w.node = hs[g].w.node
      BY <1>5 DEF v
    <2> QED
      BY <2>1 DEF FilesOf
  <1>9. ASSUME NEW g \in W \ {h}
        PROVE  /\ WritesSoundly(e, ks[g].w) /\ WriterKnows(e, ks[g].w)
               /\ e.nodes[ks[g].w.node].path = ks[g].path
    <2>1. /\ WritesSoundly(d, hs[g].w) /\ WriterKnows(d, hs[g].w)
          /\ d.nodes[hs[g].w.node].path = hs[g].path
      BY DEF WorkOk
    <2>2. FileKept(d, e, hs[g].w.node)
      BY <1>4, OtherFile
    <2>3. WritesSoundly(e, hs[g].w) /\ WriterKnows(e, hs[g].w)
      BY <1>3, <2>1, <2>2, OtherWriterKept DEF WritesSoundly
    <2>4. ks[g] = hs[g]
      OBVIOUS
    <2> QED
      BY <1>3, <2>1, <2>3, <2>4
  <1>10. \A g \in W : /\ WritesSoundly(e, ks[g].w) /\ WriterKnows(e, ks[g].w)
                      /\ e.nodes[ks[g].w.node].path = ks[g].path
    <2>1. ks[h].w = v
      BY DEF v
    <2> QED
      BY <1>1, <1>3, <1>4, <1>5, <1>9, <2>1
  <1>11. \A r \in R : /\ r.node \in NodeIds(e)
                      /\ \/ r.node \in N
                         \/ \E q \in R : q.node = r.node /\ e.nodes[r.node].sum = q.sum
    BY <1>3, <1>6 DEF WorkOk
  <1> HIDE DEF N
  <1>12. WorkOk(e, W, ks, R)
    BY <1>3, <1>4, <1>7, <1>8, <1>10, <1>11 DEF WorkOk, WritesSoundly
  <1> QED
    BY <1>12 DEF e

LEMMA FinalizeWork ==
  ASSUME NEW d, NEW W, NEW hs, NEW R, WorkOk(d, W, hs, R), NEW h \in W,
         \A g \in W \ {h} : hs[g].path # hs[h].path,
         NEW ks, \A g \in W \ {h} : ks[g] = hs[g]
  PROVE  WorkOk(FinalizeDb(d, hs[h].w), W \ {h}, ks,
                R \cup {[node |-> hs[h].w.node, sum |-> Hash(hs[h].w.hashed)]})
  <1> DEFINE w == hs[h].w
             e == FinalizeDb(d, w)
             N == FilesOf(W, hs)
             new == [node |-> w.node, sum |-> Hash(w.hashed)]
             S == R \cup {new}
  <1>1. /\ Sound(d) /\ TreeSound(d) /\ RowsMatchBut(d, N)
        /\ WritesSoundly(d, w) /\ WriterKnows(d, w)
        /\ TypeSound(d) /\ CanFinalize(d, w)
    BY DEF WorkOk, WritesSoundly, Sound
  <1>2. /\ Sound(e) /\ NodeIds(e) = NodeIds(d)
        /\ \A n \in NodeIds(d) : /\ e.nodes[n].path = d.nodes[n].path
                                 /\ e.nodes[n].type = d.nodes[n].type
    BY <1>1, FinalizeSound
  <1>3. w.node \in NodeIds(d) /\ e.nodes[w.node].sum = Hash(w.hashed)
    BY <1>1, FinalizeShape
  <1>4. /\ RowsMatchBut(e, N \ {w.node})
        /\ \A n \in NodeIds(d) \ {w.node} : FileKept(d, e, n)
    <2> HIDE DEF N
    <2> QED
      BY <1>1, FinalizeKnows
  <1> HIDE DEF e, w
  <1>5. TreeSound(e)
    BY <1>1, <1>2, TreeSame
  <1>6. \A g \in W \ {h} : hs[g].w.node \in NodeIds(d) \ {w.node}
    BY OtherFile DEF w
  <1>7. FilesOf(W \ {h}, ks) = N \ {w.node}
    <2>1. \A g \in W \ {h} : ks[g].w.node = hs[g].w.node /\ hs[g].w.node # w.node
      BY <1>6
    <2>2. w.node = hs[h].w.node
      BY DEF w
    <2> QED
      BY <2>1, <2>2 DEF FilesOf
  <1>8. ASSUME NEW g \in W \ {h}
        PROVE  /\ WritesSoundly(e, ks[g].w) /\ WriterKnows(e, ks[g].w)
               /\ e.nodes[ks[g].w.node].path = ks[g].path
    <2>1. /\ WritesSoundly(d, hs[g].w) /\ WriterKnows(d, hs[g].w)
          /\ d.nodes[hs[g].w.node].path = hs[g].path
      BY DEF WorkOk
    <2>2. FileKept(d, e, hs[g].w.node)
      BY <1>4, <1>6
    <2>3. WritesSoundly(e, hs[g].w) /\ WriterKnows(e, hs[g].w)
      BY <1>2, <2>1, <2>2, OtherWriterKept
    <2>4. ks[g] = hs[g]
      OBVIOUS
    <2> QED
      BY <2>1, <2>2, <2>3, <2>4 DEF FileKept
  <1>9. ASSUME NEW r \in S
        PROVE  /\ r.node \in NodeIds(e)
               /\ \/ r.node \in N \ {w.node}
                  \/ \E q \in S : q.node = r.node /\ e.nodes[r.node].sum = q.sum
    <2>1. CASE r.node = w.node
      <3>1. new \in S /\ new.node = r.node /\ e.nodes[r.node].sum = new.sum
        BY <1>3, <2>1
      <3> QED
        BY <1>2, <1>3, <2>1, <3>1
    <2>2. CASE r.node # w.node
      <3>1. r \in R
        BY <2>2
      <3>2. /\ r.node \in NodeIds(d)
            /\ \/ r.node \in N
               \/ \E q \in R : q.node = r.node /\ d.nodes[r.node].sum = q.sum
        BY <3>1 DEF WorkOk
      <3>3. e.nodes[r.node] = d.nodes[r.node]
        BY <1>4, <2>2, <3>2 DEF FileKept
      <3> QED
        BY <1>2, <2>2, <3>2, <3>3
    <2> QED
      BY <2>1, <2>2
  <1> HIDE DEF N, S
  <1>10. WorkOk(e, W \ {h}, ks, S)
    BY <1>2, <1>4, <1>5, <1>7, <1>8, <1>9 DEF WorkOk
  <1> QED
    BY <1>10 DEF e, w, S

(* Of a writer's handle the rows concern its writer and its path. *)
LEMMA WorkSame ==
  ASSUME NEW d, NEW W, NEW hs, NEW R, WorkOk(d, W, hs, R),
         NEW ks, \A g \in W : ks[g].w = hs[g].w /\ ks[g].path = hs[g].path
  PROVE  WorkOk(d, W, ks, R)
  <1>1. FilesOf(W, ks) = FilesOf(W, hs)
    BY DEF FilesOf
  <1> QED
    BY <1>1 DEF WorkOk

(* Without a writer at work, the rows are committable, and hold the reports. *)
LEMMA WorkDone ==
  ASSUME NEW d, NEW hs, NEW R, WorkOk(d, {}, hs, R)
  PROVE  /\ Sound(d) /\ TreeSound(d) /\ RowsMatchContent(d)
         /\ \A r \in R : /\ r.node \in NodeIds(d)
                         /\ \E q \in R : q.node = r.node /\ d.nodes[r.node].sum = q.sum
  <1>1. FilesOf({}, hs) = {}
    BY DEF FilesOf
  <1>2. RowsMatchContent(d)
    BY <1>1, MatchParts DEF WorkOk, RowsMatchBut
  <1> QED
    BY <1>1, <1>2 DEF WorkOk

LEMMA DoneWork ==
  ASSUME NEW d, Sound(d), TreeSound(d), RowsMatchContent(d), NEW hs
  PROVE  WorkOk(d, {}, hs, {})
  <1>1. FilesOf({}, hs) = {}
    BY DEF FilesOf
  <1> QED
    BY <1>1, MatchParts DEF WorkOk, RowsMatchBut

-----------------------------------------------------------------------------
(* The other threads *)

Mine(t) == {g \in Handles : handle[g] # Unused /\ handle[g].by = t}

(* A step of thread t leaves the others their connections, their transactions
   and their handles. *)
Others(t) ==
  \A u \in Threads \ {t} :
    /\ conn'[u] = conn[u] /\ tx'[u] = tx[u]
    /\ Mine(u)' = Mine(u) /\ \A g \in Mine(u) : handle'[g] = handle[g]

LEMMA HandleOthers ==
  ASSUME NEW t \in Threads, NEW h \in Handles, handle[h] = Unused \/ handle[h].by = t,
         NEW f, f # Unused, f.by = t,
         \A g \in Handles : handle'[g] = IF g = h THEN f ELSE handle[g],
         \A u \in Threads \ {t} : conn'[u] = conn[u] /\ tx'[u] = tx[u]
  PROVE  Others(t)
  <1>1. \A u \in Threads \ {t} : Mine(u)' = Mine(u) /\ \A g \in Mine(u) : handle'[g] = handle[g]
    BY DEF Mine
  <1> QED
    BY <1>1 DEF Others

LEMMA ThreadOthers ==
  ASSUME NEW t \in Threads, handle' = handle,
         \A u \in Threads \ {t} : conn'[u] = conn[u] /\ tx'[u] = tx[u]
  PROVE  Others(t)
  BY DEF Others, Mine

(* Thread t holds the lock, or nobody else does. *)
Owns(t) == (Sane(t) /\ conn[t].locked) \/ ~LockedElsewhere(t)

LEMMA OwnsAlone ==
  ASSUME OneLock, NEW t \in Threads, Owns(t), NEW u \in Threads \ {t}, Sane(u)
  PROVE  ~conn[u].locked
  BY DEF OneLock, Owns, LockedElsewhere

LEMMA QueuedMine ==
  ASSUME StackInv, NEW t \in Threads
  PROVE  Queued(t) \subseteq Mine(t)
  <1>1. tx[t].files \in Seq(Handles)
    BY DEF StackInv, Shapes, QueueShape
  <1>2. \A i \in 1..Len(tx[t].files) : tx[t].files[i] \in Handles
    BY <1>1, ElementOfSeq
  <1> QED
    BY <1>2 DEF Queued, Mine, StackInv, Shapes, QueueShape

LEMMA OthersKept ==
  ASSUME StackInv, CommitInv, NEW t \in Threads, Others(t), NEW u \in Threads \ {t},
         disk' = disk \/ (DiskSound' /\ (Sane(u) => ~conn[u].locked))
  PROVE  (Sane(u)' <=> Sane(u)) /\ ThreadShape(u)' /\ ThreadSound(u)'
  <1>1. /\ conn'[u] = conn[u] /\ tx'[u] = tx[u] /\ Mine(u)' = Mine(u)
        /\ \A g \in Mine(u) : handle'[g] = handle[g]
    BY DEF Others
  <1>2. Queued(u)' = Queued(u) /\ Queued(u) \subseteq Mine(u)
    BY <1>1, QueuedMine DEF Queued
  <1>3. ASSUME NEW g \in Handles
        PROVE  /\ IsOpen(g) /\ handle[g].by = u => g \in Mine(u)
               /\ (IsOpen(g) /\ handle[g].by = u)' => g \in Mine(u)
               /\ g \in WritersOf(u) => g \in Mine(u)
               /\ g \in WritersOf(u)' => g \in Mine(u)
    BY <1>1 DEF IsOpen, WritersOf, HasWriter, Mine, Unused
  <1>4. ASSUME NEW g \in Mine(u)
        PROVE  /\ handle'[g] = handle[g] /\ handle[g].by = u
               /\ IsOpen(g)' <=> IsOpen(g)
               /\ HasWriter(g)' <=> HasWriter(g)
               /\ Abandoned(g)' <=> Abandoned(g)
               /\ Report(g)' = Report(g)
    <2>1. handle'[g] = handle[g] /\ handle[g].by = u
      BY <1>1 DEF Mine
    <2> QED
      BY <1>2, <2>1 DEF IsOpen, HasWriter, Abandoned, Report
  <1>5. WritersOf(u)' = WritersOf(u) /\ WritersOf(u) \subseteq Mine(u)
    <2>1. WritersOf(u) \subseteq Handles /\ WritersOf(u)' \subseteq Handles
      BY DEF WritersOf
    <2>2. \A g \in Mine(u) : g \in WritersOf(u)' <=> g \in WritersOf(u)
      BY <1>4 DEF WritersOf
    <2> QED
      BY <1>3, <2>1, <2>2
  <1>6. OpenWriters(u)' = OpenWriters(u) /\ Reports(u)' = Reports(u)
    <2>1. OpenWriters(u)' = OpenWriters(u)
      BY <1>4, <1>5 DEF OpenWriters
    <2>2. {Report(g)' : g \in WritersOf(u) \ OpenWriters(u)}
            = {Report(g) : g \in WritersOf(u) \ OpenWriters(u)}
      BY <1>4, <1>5
    <2> QED
      BY <1>1, <1>5, <2>1, <2>2 DEF Reports
  <1>7. Sane(u)' <=> Sane(u)
    BY <1>1, <1>4, <1>5 DEF Sane
  <1>8. ThreadShape(u)'
    <2>1. ThreadShape(u)
      BY DEF CommitInv
    <2>2. \A g \in Handles : (IsOpen(g) /\ handle[g].by = u)' =>
            /\ g \in Mine(u) /\ handle'[g] = handle[g] /\ IsOpen(g) /\ handle[g].by = u
      BY <1>3, <1>4
    <2>3. \A g \in Queued(u)' : ~handle'[g].auto
      BY <1>1, <1>2, <2>1 DEF ThreadShape
    <2>4. tx'[u].phase # "none" => \A g \in Handles : (IsOpen(g) /\ handle[g].by = u)' =>
            ~handle'[g].auto /\ g \in Queued(u)'
      BY <1>1, <1>2, <2>1, <2>2 DEF ThreadShape
    <2>5. tx'[u].phase \in {"body", "commit"} /\ conn'[u].broken
            /\ (\A g \in WritersOf(u)' : ~Abandoned(g)') => tx'[u].raised
      BY <1>1, <1>4, <1>5, <2>1 DEF ThreadShape
    <2>6. \A g, h \in Handles : (IsOpen(g) /\ handle[g].by = u)' /\ (IsOpen(h) /\ handle[h].by = u)'
            /\ handle'[g].path = handle'[h].path => g = h
      BY <2>1, <2>2 DEF ThreadShape
    <2> QED
      BY <1>1, <2>1, <2>3, <2>4, <2>5, <2>6 DEF ThreadShape
  <1>9. ASSUME Sane(u)
        PROVE  /\ ~conn'[u].locked => WritersOf(u)' = {} /\ tx'[u].done = {}
               /\ WorkOk(View(u)', OpenWriters(u)', handle', Reports(u)')
    <2>1. /\ ~conn[u].locked => WritersOf(u) = {} /\ tx[u].done = {}
          /\ WorkOk(View(u), OpenWriters(u), handle, Reports(u))
      BY <1>9 DEF CommitInv, ThreadSound
    <2>2. CASE View(u)' = View(u)
      <3>1. \A g \in OpenWriters(u) : handle'[g] = handle[g]
        BY <1>4, <1>5 DEF OpenWriters
      <3>2. WorkOk(View(u), OpenWriters(u), handle', Reports(u))
        BY <2>1, <3>1, WorkSame
      <3> QED
        BY <1>1, <1>5, <1>6, <2>1, <2>2, <3>2
    <2>3. CASE ~conn[u].locked /\ DiskSound'
      <3>1. View(u)' = disk' /\ WritersOf(u) = {} /\ tx[u].done = {}
        BY <1>1, <2>1, <2>3 DEF View
      <3>2. OpenWriters(u) = {} /\ Reports(u) = {}
        BY <3>1 DEF OpenWriters, Reports
      <3>3. WorkOk(disk', {}, handle', {})
        BY <2>3, DoneWork DEF DiskSound
      <3> QED
        BY <1>1, <1>5, <1>6, <3>1, <3>2, <3>3
    <2>4. disk' = disk => View(u)' = View(u)
      BY <1>1 DEF View
    <2> QED
      BY <1>9, <2>2, <2>3, <2>4
  <1> QED
    BY <1>7, <1>8, <1>9 DEF ThreadSound

(* What a step of thread t has to show of t alone. *)
LEMMA CommitStep ==
  ASSUME StackInv, CommitInv, NEW t \in Threads, Others(t),
         \A g \in Handles : HandleTyped(handle'[g]),
         ThreadShape(t)', ThreadSound(t)',
         disk' = disk \/ (DiskSound' /\ Owns(t)),
         Sane(t)' /\ conn'[t].locked => Owns(t)
  PROVE  CommitInv'
  <1>1. OneLock /\ DiskSound
    BY DEF CommitInv
  <1>2. ASSUME NEW u \in Threads \ {t}
        PROVE  (Sane(u)' <=> Sane(u)) /\ ThreadShape(u)' /\ ThreadSound(u)'
    <2>1. disk' = disk \/ (DiskSound' /\ (Sane(u) => ~conn[u].locked))
      BY <1>1, OwnsAlone
    <2> QED
      BY <2>1, OthersKept
  <1>3. DiskSound'
    BY <1>1 DEF DiskSound
  <1>4. \A u \in Threads : ThreadShape(u)' /\ ThreadSound(u)'
    BY <1>2
  <1>5. ASSUME NEW u \in Threads, NEW v \in Threads, u # v, Sane(u)', Sane(v)'
        PROVE  ~(conn'[u].locked /\ conn'[v].locked)
    <2>1. \A a \in Threads \ {t} : conn'[a] = conn[a]
      BY DEF Others
    <2>2. CASE u # t /\ v # t
      BY <1>1, <1>2, <1>5, <2>1, <2>2 DEF OneLock
    <2>3. ASSUME NEW a \in Threads \ {t}, Sane(a)', Sane(t)', conn'[t].locked
          PROVE  ~conn'[a].locked
      BY <1>1, <1>2, <2>1, <2>3, OwnsAlone
    <2> QED
      BY <1>5, <2>2, <2>3
  <1>6. OneLock'
    BY <1>5 DEF OneLock
  <1> QED
    BY <1>3, <1>4, <1>6 DEF CommitInv


-----------------------------------------------------------------------------
(* A step of one open handle *)

(* What the next state f of handle h changes of thread t's view of itself. *)
LEMMA HandleChange ==
  ASSUME NEW t \in Threads, NEW h \in Handles, NEW f,
         f.stage \in {"open", "closed"}, f.by = t,
         \A g \in Handles : handle'[g] = IF g = h THEN f ELSE handle[g],
         handle[h] = Unused \/ handle[h].by = t
  PROVE  /\ WritersOf(t)' = IF f.w # NoWriter THEN WritersOf(t) \cup {h} ELSE WritersOf(t) \ {h}
         /\ OpenWriters(t)' = IF f.w # NoWriter /\ f.stage = "open"
                              THEN OpenWriters(t) \cup {h} ELSE OpenWriters(t) \ {h}
         /\ \A g \in Handles \ {h} : /\ handle'[g] = handle[g]
                                     /\ IsOpen(g)' <=> IsOpen(g)
                                     /\ HasWriter(g)' <=> HasWriter(g)
                                     /\ Report(g)' = Report(g)
         /\ handle'[h] = f /\ (IsOpen(h)' <=> f.stage = "open")
         /\ HasWriter(h)' <=> f.w # NoWriter
         /\ Abandoned(h)' <=> f.w # NoWriter /\ IF f.auto THEN f.stage # "open"
                                                ELSE h \notin Queued(t)'
         /\ \A g \in Handles \ {h} : handle[g].by = t =>
              (Abandoned(g)' <=> HasWriter(g) /\ IF handle[g].auto THEN ~IsOpen(g)
                                                 ELSE g \notin Queued(t)')
  <1>1. \A g \in Handles \ {h} : /\ handle'[g] = handle[g]
                                 /\ IsOpen(g)' <=> IsOpen(g)
                                 /\ HasWriter(g)' <=> HasWriter(g)
                                 /\ Report(g)' = Report(g)
    BY DEF IsOpen, HasWriter, Report
  <1>2. handle'[h] = f /\ (IsOpen(h)' <=> f.stage = "open") /\ (HasWriter(h)' <=> f.w # NoWriter)
    BY DEF IsOpen, HasWriter
  <1>3. ASSUME NEW g \in Handles
        PROVE  g \in WritersOf(t)' <=> IF g = h THEN f.w # NoWriter ELSE g \in WritersOf(t)
    BY <1>1, <1>2 DEF WritersOf
  <1>4. WritersOf(t) \subseteq Handles /\ WritersOf(t)' \subseteq Handles
    BY DEF WritersOf
  <1>5. WritersOf(t)' = IF f.w # NoWriter THEN WritersOf(t) \cup {h} ELSE WritersOf(t) \ {h}
    BY <1>3, <1>4
  <1>6. ASSUME NEW g \in Handles
        PROVE  g \in OpenWriters(t)' <=> IF g = h THEN f.w # NoWriter /\ f.stage = "open"
                                         ELSE g \in OpenWriters(t)
    BY <1>1, <1>2, <1>3 DEF OpenWriters
  <1>7. OpenWriters(t) \subseteq Handles /\ OpenWriters(t)' \subseteq Handles
    BY <1>4 DEF OpenWriters
  <1>8. OpenWriters(t)' = IF f.w # NoWriter /\ f.stage = "open"
                          THEN OpenWriters(t) \cup {h} ELSE OpenWriters(t) \ {h}
    BY <1>6, <1>7
  <1>9. Abandoned(h)' <=> f.w # NoWriter /\ IF f.auto THEN f.stage # "open" ELSE h \notin Queued(t)'
    BY <1>2 DEF Abandoned
  <1>10. ASSUME NEW g \in Handles \ {h}, handle[g].by = t
         PROVE  Abandoned(g)' <=> HasWriter(g) /\ IF handle[g].auto THEN ~IsOpen(g)
                                                  ELSE g \notin Queued(t)'
    BY <1>1, <1>10 DEF Abandoned
  <1> QED
    BY <1>1, <1>2, <1>5, <1>8, <1>9, <1>10

(* The reports, when no other handle changes. *)
LEMMA ReportsChange ==
  ASSUME NEW t \in Threads, NEW h \in Handles, NEW S, S \subseteq Handles, h \notin S,
         \A g \in Handles \ {h} : Report(g)' = Report(g)
  PROVE  {Report(g)' : g \in S} = {Report(g) : g \in S}
  BY Zenon

(* f is a next state of the open handle h that stays as it was opened. *)
SameHandle(h, f) ==
  /\ f.stage \in {"open", "closed"} /\ f.by = handle[h].by
  /\ f.mode = handle[h].mode /\ f.path = handle[h].path /\ f.bs = handle[h].bs
  /\ f.auto = handle[h].auto /\ f.buf \in Seq(Bytes)

LEMMA SameHandleTyped ==
  ASSUME StackInv, CommitInv, NEW h \in Handles, IsOpen(h), NEW f, SameHandle(h, f),
         \A g \in Handles : handle'[g] = IF g = h THEN f ELSE handle[g]
  PROVE  \A g \in Handles : HandleTyped(handle'[g])
  <1>1. HandleTyped(handle[h]) /\ handle[h] # Unused
    BY HandleKnown DEF CommitInv
  <1>2. HandleTyped(f)
    BY <1>1 DEF HandleTyped, SameHandle
  <1> QED
    BY <1>2 DEF CommitInv

(* Thread t keeps its queue and its phase, an exception at most is on its way. *)
SameTx(t) ==
  /\ tx'[t].phase = tx[t].phase /\ tx'[t].files = tx[t].files /\ tx'[t].done = tx[t].done
  /\ tx'[t].raised \in BOOLEAN /\ (tx[t].raised => tx'[t].raised)
  /\ tx[t].phase = "none" => tx'[t] = tx[t]

LEMMA NoPhase ==
  ASSUME CommitInv, NEW t \in Threads, tx[t].phase = "none"
  PROVE  tx[t] = NoTransaction /\ Queued(t) = {} /\ ~tx[t].raised /\ tx[t].done = {}
  <1>1. tx[t] = NoTransaction
    BY DEF CommitInv, ThreadShape
  <1>2. tx[t].files = <<>> /\ ~tx[t].raised /\ tx[t].done = {}
    BY <1>1 DEF NoTransaction
  <1>3. 1..Len(<<>>) = {}
    OBVIOUS
  <1>4. Queued(t) = {}
    BY <1>2, <1>3 DEF Queued
  <1> QED
    BY <1>1, <1>2, <1>4

LEMMA HandleShapeStep ==
  ASSUME StackInv, CommitInv, NEW h \in Handles, IsOpen(h), NEW t \in Threads, handle[h].by = t,
         NEW f, SameHandle(h, f),
         \A g \in Handles : handle'[g] = IF g = h THEN f ELSE handle[g],
         handle[h].w # NoWriter => f.w # NoWriter \/ handle[h].auto,
         SameTx(t),
         tx[t].phase # "none" =>
           \/ tx'[t].raised
           \/ conn'[t].broken => conn[t].broken
  PROVE  ThreadShape(t)'
  <1>1. t \in Threads /\ handle[h].stage = "open" /\ ThreadShape(t)
    BY HandleKnown DEF CommitInv
  <1>2. Queued(t)' = Queued(t)
    BY DEF Queued, SameTx
  <1>3. \A g \in Handles : /\ (IsOpen(g) /\ handle[g].by = t)' => IsOpen(g) /\ handle[g].by = t
                           /\ handle[g].by = t =>
                                handle'[g].auto = handle[g].auto /\ handle'[g].path = handle[g].path
    BY DEF IsOpen, SameHandle
  <1>4. \A g \in Queued(t)' : ~handle'[g].auto
    <2>1. \A g \in Queued(t) : g \in Handles /\ handle[g].by = t
      BY <1>1, QueuedMine DEF Mine
    <2> QED
      BY <1>1, <1>2, <1>3, <2>1 DEF ThreadShape
  <1>5. tx'[t].phase # "none" => \A g \in Handles : (IsOpen(g) /\ handle[g].by = t)' =>
          ~handle'[g].auto /\ g \in Queued(t)'
    BY <1>1, <1>2, <1>3 DEF ThreadShape, SameTx
  <1>6. ASSUME tx'[t].phase \in {"body", "commit"}, conn'[t].broken,
               \A g \in WritersOf(t)' : ~Abandoned(g)'
        PROVE  tx'[t].raised
    <2>1. CASE tx'[t].raised
      BY <2>1
    <2>2. CASE ~tx'[t].raised
      <3>1. conn[t].broken /\ tx[t].phase \in {"body", "commit"} /\ ~tx[t].raised
        BY <1>6, <2>2 DEF SameTx
      <3>2. PICK g \in WritersOf(t) : Abandoned(g)
        BY <1>1, <3>1 DEF ThreadShape
      <3>3. g \in Handles /\ HasWriter(g) /\ handle[g].by = t
        BY <3>2 DEF WritersOf
      <3>4. g # h
        BY <1>1, <3>1, <3>2 DEF ThreadShape, Abandoned
      <3>5. Abandoned(g)' /\ g \in WritersOf(t)'
        BY <1>2, <3>2, <3>3, <3>4 DEF Abandoned, WritersOf, HasWriter, IsOpen
      <3> QED
        BY <1>6, <3>5
    <2> QED
      BY <2>1, <2>2
  <1>7. \A g, k \in Handles : (IsOpen(g) /\ handle[g].by = t)' /\ (IsOpen(k) /\ handle[k].by = t)'
          /\ handle'[g].path = handle'[k].path => g = k
    BY <1>1, <1>3 DEF ThreadShape
  <1>8. ThreadShape(t)'
    <2>1. handle'[h].by = t
      BY DEF SameHandle
    <2> QED
      BY <1>1, <1>4, <1>5, <1>6, <1>7 DEF ThreadShape, SameTx
  <1> QED
    BY <1>8

(* A thread that a step of its open handle h leaves sane was sane. *)
LEMMA SaneBefore ==
  ASSUME StackInv, CommitInv, NEW h \in Handles, IsOpen(h), NEW t \in Threads, handle[h].by = t,
         NEW f, SameHandle(h, f),
         \A g \in Handles : handle'[g] = IF g = h THEN f ELSE handle[g],
         handle[h].w # NoWriter => f.w # NoWriter \/ handle[h].auto,
         SameTx(t),
         conn[t].broken => conn'[t].broken,
         Sane(t)'
  PROVE  Sane(t)
  <1>1. /\ ~conn'[t].broken /\ tx'[t].phase # "discard" /\ ~tx'[t].raised
        /\ \A g \in WritersOf(t)' : ~Abandoned(g)'
    BY DEF Sane
  <1>2. Queued(t)' = Queued(t)
    BY DEF Queued, SameTx
  <1>3. ASSUME NEW g \in WritersOf(t), Abandoned(g)
        PROVE  FALSE
    <2>1. g \in Handles /\ HasWriter(g) /\ handle[g].by = t
      BY DEF WritersOf
    <2>2. CASE g # h
      <3>1. Abandoned(g)' /\ g \in WritersOf(t)'
        BY <1>2, <1>3, <2>1, <2>2 DEF Abandoned, WritersOf, HasWriter, IsOpen
      <3> QED
        BY <1>1, <3>1
    <2>3. CASE g = h
      <3>1. ~handle[h].auto /\ h \notin Queued(t) /\ handle[h].w # NoWriter
        BY <1>3, <2>1, <2>3 DEF Abandoned, HasWriter
      <3>2. handle'[h] = f /\ f.w # NoWriter /\ ~f.auto /\ f.by = t /\ f.stage \in {"open", "closed"}
        BY <3>1 DEF SameHandle
      <3>3. Abandoned(h)' /\ h \in WritersOf(t)'
        BY <1>2, <3>1, <3>2 DEF Abandoned, WritersOf, HasWriter
      <3> QED
        BY <1>1, <3>3
    <2> QED
      BY <2>2, <2>3
  <1> QED
    BY <1>1, <1>3 DEF Sane, SameTx


-----------------------------------------------------------------------------
(* What uploads make of the rows *)

(* The handles, with writer w for h. *)
With(h, w) == [handle EXCEPT ![h].w = w]

(* Upload u of handle h keeps the rows good, but for the files at work. *)
UploadOk(t, h, u) ==
  /\ u.c.locked /\ ~u.c.broken
  /\ WorkOk(u.c.work, OpenWriters(t) \cup {h}, With(h, u.w), Reports(t))

LEMMA OpenPaths ==
  ASSUME CommitInv, NEW t \in Threads, NEW h \in Handles, IsOpen(h), handle[h].by = t
  PROVE  \A g \in OpenWriters(t) \ {h} : g \in Handles /\ handle[g].path # handle[h].path
  BY DEF CommitInv, ThreadShape, OpenWriters, WritersOf

LEMMA EnterLock ==
  ASSUME NEW c, ConnectionShape(c)
  PROVE  /\ DOMAIN Enter(c) = DOMAIN c /\ DOMAIN Lock(Enter(c)) = DOMAIN c
         /\ Enter(c).broken = c.broken /\ Enter(c).locked = c.locked /\ Enter(c).work = c.work
         /\ Lock(Enter(c)).broken = c.broken /\ Lock(Enter(c)).locked
         /\ Lock(Enter(c)).work = IF c.locked THEN c.work ELSE disk
         /\ Lock(Enter(c)).stack = Enter(c).stack
         /\ Lock(c).broken = c.broken
  <1> DEFINE e == Enter(c)
  <1>1. DOMAIN e = DOMAIN c /\ e.broken = c.broken /\ e.locked = c.locked /\ e.work = c.work
    BY DEF Enter, ConnectionShape
  <1> HIDE DEF e
  <1>2. /\ DOMAIN Lock(e) = DOMAIN e /\ Lock(e).broken = e.broken /\ Lock(e).locked
        /\ Lock(e).work = IF e.locked THEN e.work ELSE disk
        /\ Lock(e).stack = e.stack
    BY <1>1 DEF Lock, ConnectionShape
  <1>3. Lock(c).broken = c.broken
    BY DEF Lock, ConnectionShape
  <1> QED
    BY <1>1, <1>2, <1>3 DEF e

LEMMA InitiatedKeeps ==
  ASSUME StackInv, NEW h \in Handles, IsOpen(h), NEW t \in Threads, handle[h].by = t
  PROVE  Initiated(h).c.broken = conn[t].broken
  <1>1. ConnectionShape(conn[t])
    BY HandleKnown
  <1>2. CASE HasWriter(h)
    <2>1. Initiated(h).c = Lock(conn[t])
      BY <1>2 DEF Initiated
    <2> QED
      BY <1>1, <2>1, EnterLock
  <1>3. CASE ~HasWriter(h)
    <2> DEFINE l == Lock(Enter(conn[t]))
               d == StartDb(l.work, handle[h].mode, handle[h].path, handle[h].bs)
    <2>1. Initiated(h).c = [l EXCEPT !.work = d]
      BY <1>3 DEF Initiated
    <2>2. DOMAIN l = {"stack", "broken", "locked", "work"} /\ l.broken = conn[t].broken
      BY <1>1, EnterLock DEF ConnectionShape
    <2> HIDE DEF l, d
    <2> QED
      BY <2>1, <2>2
  <1> QED
    BY <1>2, <1>3

LEMMA WrittenKeeps ==
  ASSUME NEW h \in Handles, NEW u, UploadShape(h, u), NEW chunk
  PROVE  /\ Written(u, chunk).w = WriteChunk(u.w, chunk)
         /\ Written(u, chunk).c.work = WriteChunkDb(u.c.work, u.w, chunk)
         /\ Written(u, chunk).c.broken = u.c.broken
         /\ Written(u, chunk).c.locked = u.c.locked
         /\ Finalized(u).c.work = FinalizeDb(u.c.work, u.w) /\ Finalized(u).w = u.w
         /\ Finalized(u).c.broken = u.c.broken /\ Finalized(u).c.locked = u.c.locked
         /\ Finalized(u).c.stack = u.c.stack
         /\ Refused(u, chunk) = u \/ Refused(u, chunk).c.broken
         /\ u.c.broken => Refused(u, chunk).c.broken
         /\ Refused(u, chunk).w = u.w
  <1>1. DOMAIN u = {"c", "w"} /\ DOMAIN u.c = {"stack", "broken", "locked", "work"}
    BY DEF UploadShape, ConnectionShape
  <1>2. /\ Written(u, chunk).c = [u.c EXCEPT !.work = WriteChunkDb(u.c.work, u.w, chunk)]
        /\ Written(u, chunk).w = WriteChunk(u.w, chunk)
    BY DEF Written
  <1> DEFINE d == WriteChunkDb(u.c.work, u.w, chunk)
             e == FinalizeDb(u.c.work, u.w)
             c == u.c
  <1>3. Finalized(u) = [u EXCEPT !.c = [c EXCEPT !.work = e]]
    BY <1>1 DEF Finalized
  <1> HIDE DEF d, e
  <1>4. Finalized(u).c = [c EXCEPT !.work = e] /\ Finalized(u).w = u.w
    BY <1>1, <1>3
  <1>5. Refused(u, chunk) = u \/ Refused(u, chunk) = [u EXCEPT !.c = [c EXCEPT !.broken = TRUE]]
    BY DEF Refused, SetRollback
  <1>6. /\ Refused(u, chunk) = u \/ Refused(u, chunk).c.broken
        /\ Refused(u, chunk).w = u.w
    BY <1>1, <1>5
  <1> HIDE DEF c
  <1>7. /\ [c EXCEPT !.work = d].work = d /\ [c EXCEPT !.work = d].broken = c.broken
        /\ [c EXCEPT !.work = d].locked = c.locked
        /\ [c EXCEPT !.work = e].work = e /\ [c EXCEPT !.work = e].broken = c.broken
        /\ [c EXCEPT !.work = e].locked = c.locked /\ [c EXCEPT !.work = e].stack = c.stack
    BY <1>1 DEF c
  <1> QED
    BY <1>2, <1>4, <1>6, <1>7 DEF c, d, e

LEMMA WithWriter ==
  ASSUME StackInv, NEW h \in Handles, IsOpen(h), NEW w
  PROVE  /\ With(h, w)[h].w = w /\ With(h, w)[h].path = handle[h].path
         /\ \A g : g # h => With(h, w)[g] = handle[g]
  <1>1. /\ DOMAIN handle = Handles
        /\ DOMAIN handle[h] = {"stage", "by", "mode", "path", "bs", "auto", "buf", "w", "failed"}
    BY HandleKnown DEF StackInv, Shapes
  <1>2. With(h, w) = [handle EXCEPT ![h] = [handle[h] EXCEPT !.w = w]]
    BY DEF With
  <1>3. \A g : g # h => With(h, w)[g] = handle[g]
    BY <1>1, <1>2
  <1> QED
    BY <1>1, <1>2, <1>3

LEMMA InitiatedOk ==
  ASSUME StackInv, CommitInv, NEW h \in Handles, IsOpen(h), NEW t \in Threads,
         handle[h].by = t, Sane(t), CanInitiate(h)
  PROVE  UploadOk(t, h, Initiated(h)) /\ Owns(t)
  <1> DEFINE f == handle[h]
             W == OpenWriters(t)
             R == Reports(t)
  <1>1. /\ ConnectionShape(conn[t]) /\ f # Unused /\ HandleTyped(f)
        /\ f.mode \in Modes /\ f.path \in Paths /\ f.bs \in BlockSizes
    BY HandleKnown DEF CommitInv, HandleTyped
  <1>2. /\ ~conn[t].broken
        /\ ~conn[t].locked => WritersOf(t) = {}
        /\ WorkOk(View(t), W, handle, R)
    BY DEF CommitInv, ThreadSound, Sane
  <1>3. \A g \in W \ {h} : g \in Handles /\ handle[g].path # f.path
    BY OpenPaths
  <1>4. CASE HasWriter(h)
    <2>1. h \in WritersOf(t) /\ h \in W
      BY <1>4, HandleKnown DEF OpenWriters
    <2>2. conn[t].locked
      BY <1>2, <2>1
    <2>3. Initiated(h) = [c |-> conn[t], w |-> f.w]
      BY <1>4, <2>2 DEF Initiated, Lock
    <2>4. WorkOk(conn[t].work, W \cup {h}, handle, R)
      BY <1>2, <2>1, <2>2 DEF View
    <2>5. WorkOk(conn[t].work, W \cup {h}, With(h, f.w), R)
      <3> DEFINE ks == With(h, f.w)
                 V == W \cup {h}
      <3>1. \A g \in V : ks[g].w = handle[g].w /\ ks[g].path = handle[g].path
        BY <2>1, WithWriter
      <3> HIDE DEF ks, V
      <3>2. WorkOk(conn[t].work, V, handle, R) => WorkOk(conn[t].work, V, ks, R)
        BY <3>1, WorkSame
      <3> QED
        BY <2>4, <3>2 DEF ks, V
    <2>6. Initiated(h).c = conn[t] /\ Initiated(h).w = f.w
      BY <2>3
    <2> QED
      BY <1>2, <2>2, <2>5, <2>6 DEF UploadOk, Owns
  <1>5. CASE ~HasWriter(h)
    <2> DEFINE l == Lock(Enter(conn[t]))
               d == StartDb(View(t), f.mode, f.path, f.bs)
               w == StartWriter(d, f.mode, f.path, f.bs)
               ks == With(h, w)
    <2>1. CanStart(View(t), f.mode, f.path) /\ ~LockedElsewhere(t)
      BY <1>5 DEF CanInitiate
    <2>2. /\ DOMAIN l = {"stack", "broken", "locked", "work"} /\ l.locked
          /\ l.broken = conn[t].broken /\ l.work = View(t)
      BY <1>1, EnterLock DEF ConnectionShape, View
    <2>3. h \notin W
      BY <1>5 DEF OpenWriters, WritersOf
    <2>4. Initiated(h) = [c |-> [l EXCEPT !.work = d], w |-> w]
      BY <1>5, <2>2 DEF Initiated
    <2>5. ks[h].w = w /\ ks[h].path = f.path /\ \A g \in W : ks[g] = handle[g]
      BY <2>3, WithWriter
    <2>6. WorkOk(d, W \cup {h}, ks, R)
      <3> HIDE DEF ks
      <3> QED
        BY <1>1, <1>2, <1>3, <2>1, <2>3, <2>5, StartWork
    <2> HIDE DEF l, d, w
    <2>7. /\ Initiated(h).c.work = d /\ Initiated(h).c.locked
          /\ Initiated(h).c.broken = conn[t].broken /\ Initiated(h).w = w
      BY <2>2, <2>4
    <2> QED
      BY <1>2, <2>1, <2>6, <2>7 DEF UploadOk, Owns
  <1> QED
    BY <1>4, <1>5

LEMMA WrittenOk ==
  ASSUME StackInv, CommitInv, NEW h \in Handles, IsOpen(h), NEW t \in Threads,
         handle[h].by = t, NEW u, UploadShape(h, u), UploadOk(t, h, u),
         NEW chunk \in Seq(Bytes)
  PROVE  UploadOk(t, h, Written(u, chunk))
  <1> DEFINE v == WriteChunk(u.w, chunk)
             e == WriteChunkDb(u.c.work, u.w, chunk)
             hs == With(h, u.w)
             ks == With(h, v)
             V == OpenWriters(t) \cup {h}
  <1>1. /\ Written(u, chunk).w = WriteChunk(u.w, chunk)
        /\ Written(u, chunk).c.work = WriteChunkDb(u.c.work, u.w, chunk)
        /\ Written(u, chunk).c.broken = u.c.broken /\ Written(u, chunk).c.locked = u.c.locked
    <2> HIDE DEF v, e, hs, ks, V
    <2> QED
      BY WrittenKeeps
  <1>2. /\ hs[h].w = u.w /\ hs[h].path = handle[h].path
        /\ ks[h].w = v /\ ks[h].path = handle[h].path
        /\ \A g : g # h => hs[g] = handle[g] /\ ks[g] = handle[g]
    BY WithWriter
  <1>3. \A g \in V \ {h} : handle[g].path # handle[h].path
    BY OpenPaths
  <1>4. WorkOk(u.c.work, V, hs, Reports(t)) /\ h \in V
    BY DEF UploadOk
  <1> HIDE DEF hs, ks, V
  <1>5. WorkOk(WriteChunkDb(u.c.work, hs[h].w, chunk), V, ks, Reports(t))
    BY <1>2, <1>3, <1>4, ChunkWork
  <1> QED
    BY <1>1, <1>2, <1>5 DEF UploadOk, V, ks

LEMMA FinalizedOk ==
  ASSUME StackInv, CommitInv, NEW h \in Handles, IsOpen(h), NEW t \in Threads,
         handle[h].by = t, NEW u, UploadShape(h, u), UploadOk(t, h, u),
         NEW ks, \A g \in OpenWriters(t) \ {h} : ks[g] = handle[g]
  PROVE  WorkOk(FinalizeDb(u.c.work, u.w), OpenWriters(t) \ {h}, ks,
                Reports(t) \cup {[node |-> u.w.node, sum |-> Hash(u.w.hashed)]})
  <1> DEFINE hs == With(h, u.w)
             V == OpenWriters(t) \cup {h}
  <1>1. /\ hs[h].w = u.w /\ hs[h].path = handle[h].path
        /\ \A g : g # h => hs[g] = handle[g]
    BY WithWriter
  <1>2. \A g \in V \ {h} : handle[g].path # handle[h].path
    BY OpenPaths
  <1>3. WorkOk(u.c.work, V, hs, Reports(t)) /\ h \in V /\ V \ {h} = OpenWriters(t) \ {h}
    BY DEF UploadOk
  <1>5. \A g \in V \ {h} : ks[g] = hs[g]
    BY <1>1, <1>3
  <1> HIDE DEF hs, V
  <1>4. WorkOk(FinalizeDb(u.c.work, hs[h].w), V \ {h}, ks,
               Reports(t) \cup {[node |-> hs[h].w.node, sum |-> Hash(hs[h].w.hashed)]})
    <2> DEFINE d == u.c.work
               R == Reports(t)
    <2>1. /\ WorkOk(d, V, hs, R) /\ h \in V
          /\ \A g \in V \ {h} : hs[g].path # hs[h].path
          /\ \A g \in V \ {h} : ks[g] = hs[g]
      BY <1>1, <1>2, <1>3, <1>5
    <2> HIDE DEF d, R
    <2>2. WorkOk(FinalizeDb(d, hs[h].w), V \ {h}, ks,
                 R \cup {[node |-> hs[h].w.node, sum |-> Hash(hs[h].w.hashed)]})
      BY <2>1, FinalizeWork
    <2> QED
      BY <2>2 DEF d, R
  <1> QED
    BY <1>1, <1>3, <1>4


-----------------------------------------------------------------------------
(* The actions of a handle keep what is committed sound *)

LEMMA TxKept ==
  ASSUME StackInv, CommitInv, NEW t \in Threads, tx' = tx \/ tx' = Raise(t)
  PROVE  /\ \A v \in Threads \ {t} : tx'[v] = tx[v]
         /\ SameTx(t)
         /\ tx' = Raise(t) /\ tx[t].phase # "none" => tx'[t].raised
  <1>1. /\ DOMAIN tx = Threads /\ DOMAIN tx[t] = {"phase", "files", "raised", "done"}
        /\ tx[t].raised \in BOOLEAN
    BY DEF StackInv, Shapes, CommitInv, ThreadShape
  <1> DEFINE x == [tx[t] EXCEPT !.raised = tx[t].raised \/ tx[t].phase # "none"]
             r == Raise(t)
  <1>2. r[t] = x /\ \A v \in Threads \ {t} : r[v] = tx[v]
    BY <1>1 DEF Raise
  <1>3. /\ x.phase = tx[t].phase /\ x.files = tx[t].files /\ x.done = tx[t].done
        /\ x.raised = (tx[t].raised \/ tx[t].phase # "none")
    BY <1>1
  <1>4. tx[t].phase = "none" => x = tx[t]
    <2> HAVE tx[t].phase = "none"
    <2>1. tx[t] = NoTransaction /\ tx[t].phase = "none"
      BY NoPhase
    <2>2. x = [NoTransaction EXCEPT !.raised = NoTransaction.raised \/ NoTransaction.phase # "none"]
      BY <2>1
    <2>3. (NoTransaction.raised \/ NoTransaction.phase # "none") = FALSE
      BY DEF NoTransaction
    <2>4. [NoTransaction EXCEPT !.raised = FALSE] = NoTransaction
      <3> DEFINE n == NoTransaction
      <3>1. /\ n \in [phase : {"none"}, files : {<<>>}, raised : BOOLEAN, done : {{}}]
            /\ n.raised = FALSE
        BY DEF NoTransaction
      <3> HIDE DEF n
      <3>2. [n EXCEPT !.raised = FALSE] = n
        BY <3>1
      <3> QED
        BY <3>2 DEF n
    <2> HIDE DEF x
    <2> QED
      BY <2>1, <2>2, <2>3, <2>4
  <1> HIDE DEF x, r
  <1>5. x.raised \in BOOLEAN /\ (tx[t].raised => x.raised) /\ (tx[t].phase # "none" => x.raised)
    BY <1>1, <1>3
  <1>6. CASE tx' = tx /\ tx' # r
    BY <1>1, <1>6 DEF SameTx, r
  <1>7. CASE tx' = r
    BY <1>2, <1>3, <1>4, <1>5, <1>7 DEF SameTx
  <1> QED
    BY <1>6, <1>7 DEF r

(* The handle stays open, with the writer of upload u. *)
LEMMA StillOpen ==
  ASSUME StackInv, CommitInv, NEW h \in Handles, IsOpen(h), NEW t \in Threads,
         handle[h].by = t, CanInitiate(h), NEW u, UploadShape(h, u),
         NEW f, SameHandle(h, f), f.stage = "open", f.w = u.w,
         handle' = [handle EXCEPT ![h] = f], conn' = [conn EXCEPT ![t] = u.c], disk' = disk,
         tx' = tx \/ tx' = Raise(t),
         conn[t].broken => u.c.broken,
         tx[t].phase # "none" => tx' = Raise(t) \/ (u.c.broken => conn[t].broken),
         Sane(t) /\ ~u.c.broken => UploadOk(t, h, u)
  PROVE  CommitInv'
  <1>1. /\ SameTx(t) /\ \A v \in Threads \ {t} : tx'[v] = tx[v]
        /\ tx' = Raise(t) /\ tx[t].phase # "none" => tx'[t].raised
    BY TxKept
  <1>2. /\ f # Unused /\ f.by = t /\ f.stage \in {"open", "closed"}
        /\ handle[h] # Unused /\ f.w # NoWriter
    BY HandleKnown DEF SameHandle, Unused, UploadShape, NoWriter
  <1>3. /\ Others(t) /\ conn'[t] = u.c
        /\ \A g \in Handles : handle'[g] = IF g = h THEN f ELSE handle[g]
    <2>1. /\ \A v \in Threads : conn'[v] = IF v = t THEN u.c ELSE conn[v]
          /\ \A g \in Handles : handle'[g] = IF g = h THEN f ELSE handle[g]
      BY DEF StackInv, Shapes
    <2>2. Others(t)
      BY <1>1, <1>2, <2>1, HandleOthers
    <2> QED
      BY <2>1, <2>2
  <1>4. \A g \in Handles : HandleTyped(handle'[g])
    BY <1>3, SameHandleTyped
  <1>5. ThreadShape(t)'
    BY <1>1, <1>2, <1>3, HandleShapeStep
  <1>6. ASSUME Sane(t)'
        PROVE  Sane(t) /\ UploadOk(t, h, u) /\ Owns(t)
    <2>1. Sane(t)
      BY <1>1, <1>2, <1>3, <1>6, SaneBefore
    <2>2. ~u.c.broken
      BY <1>3, <1>6 DEF Sane
    <2>3. Owns(t)
      BY <2>1, InitiatedOk
    <2> QED
      BY <2>1, <2>2, <2>3
  <1>7. /\ WritersOf(t)' = WritersOf(t) \cup {h}
        /\ OpenWriters(t)' = OpenWriters(t) \cup {h}
        /\ \A g \in Handles \ {h} : Report(g)' = Report(g) /\ handle'[g] = handle[g]
        /\ handle'[h] = f
    BY <1>2, <1>3, HandleChange
  <1>8. ASSUME UploadOk(t, h, u)
        PROVE  conn'[t].locked /\ WorkOk(View(t)', OpenWriters(t)', handle', Reports(t)')
    <2>1. View(t)' = u.c.work /\ conn'[t].locked
      BY <1>3, <1>8 DEF View, UploadOk
    <2> DEFINE S == WritersOf(t) \ OpenWriters(t)
    <2>2. WritersOf(t)' \ OpenWriters(t)' = S /\ S \subseteq Handles /\ h \notin S
      BY <1>7 DEF WritersOf, OpenWriters
    <2>3. {Report(g)' : g \in S} = {Report(g) : g \in S}
      <3> HIDE DEF S
      <3> QED
        BY <1>7, <2>2, ReportsChange
    <2>4. Reports(t)' = Reports(t)
      BY <1>1, <2>2, <2>3 DEF Reports, SameTx
    <2> DEFINE V == OpenWriters(t) \cup {h}
    <2>5. V \subseteq Handles
      BY DEF OpenWriters, WritersOf
    <2>6. WorkOk(u.c.work, V, With(h, u.w), Reports(t))
      BY <1>8 DEF UploadOk
    <2>7. \A g \in V : handle'[g].w = With(h, u.w)[g].w /\ handle'[g].path = With(h, u.w)[g].path
      <3>1. With(h, u.w)[h].w = u.w /\ With(h, u.w)[h].path = handle[h].path
        BY WithWriter
      <3>2. \A g : g # h => With(h, u.w)[g] = handle[g]
        BY WithWriter
      <3> QED
        BY <1>7, <2>5, <3>1, <3>2 DEF SameHandle
    <2> HIDE DEF V
    <2>8. WorkOk(u.c.work, V, handle', Reports(t))
      BY <2>6, <2>7, WorkSame
    <2> QED
      BY <1>7, <2>1, <2>4, <2>8 DEF V
  <1>9. ThreadSound(t)'
    BY <1>6, <1>8 DEF ThreadSound
  <1> QED
    BY <1>3, <1>4, <1>5, <1>6, <1>9, CommitStep

LEMMA WriteCommits ==
  ASSUME StackInv, CommitInv, PlainUse, NEW h \in Handles, NEW data \in Payloads,
         WriteBuffers(h, data) \/ WriteUploads(h, data) \/ WriteRaises(h, data)
  PROVE  CommitInv'
  <1>1. IsOpen(h)
    BY DEF WriteBuffers, WriteUploads, WriteRaises, Writes
  <1>2. PICK t \in Threads : handle[h].by = t
    BY <1>1, HandleKnown
  <1> DEFINE chunk == handle[h].buf \o data
             i == Initiated(h)
  <1>3. /\ handle[h] # Unused /\ handle[h].stage = "open"
        /\ DOMAIN handle[h] = {"stage", "by", "mode", "path", "bs", "auto", "buf", "w", "failed"}
        /\ DOMAIN handle = Handles /\ DOMAIN conn = Threads
    BY <1>1, HandleKnown DEF StackInv, Shapes
  <1>4. chunk \in Seq(Bytes)
    <2>1. handle[h].buf \in Seq(Bytes) /\ data \in Seq(Bytes)
      BY <1>3, HandlesAssumption DEF CommitInv, HandleTyped
    <2> QED
      BY <2>1
  <1>5. UploadShape(h, i) /\ i.c.broken = conn[t].broken
    BY <1>1, <1>2, InitiatedShape, InitiatedKeeps
  <1>6. <<>> \in Seq(Bytes)
    OBVIOUS
  <1> HIDE DEF chunk, i
  <1>7. CASE WriteBuffers(h, data)
    <2> DEFINE f == [handle[h] EXCEPT !.buf = chunk]
    <2>1. /\ \A g \in Handles : handle'[g] = IF g = h THEN f ELSE handle[g]
          /\ disk' = disk /\ tx' = tx /\ conn' = conn
      <3>1. /\ handle' = [handle EXCEPT ![h].buf = handle[h].buf \o data]
            /\ disk' = disk /\ tx' = tx /\ conn' = conn
        BY <1>7 DEF WriteBuffers
      <3>2. handle' = [handle EXCEPT ![h] = f]
        BY <3>1 DEF chunk
      <3> QED
        BY <1>3, <3>1, <3>2
    <2>2. SameHandle(h, f) /\ f.stage = "open" /\ f.w = handle[h].w /\ f # Unused
      BY <1>2, <1>3, <1>4 DEF SameHandle, Unused
    <2> HIDE DEF f
    <2>3. SameTx(t)
      BY <2>1, TxKept
    <2>4. /\ Others(t) /\ conn'[t] = conn[t]
          /\ \A g \in Handles : handle'[g] = IF g = h THEN f ELSE handle[g]
      BY <1>2, <2>1, <2>2, HandleOthers DEF SameHandle
    <2>5. \A g \in Handles : HandleTyped(handle'[g])
      BY <1>1, <2>2, <2>4, SameHandleTyped
    <2>6. ThreadShape(t)'
      BY <1>1, <1>2, <2>2, <2>3, <2>4, HandleShapeStep
    <2>7. Sane(t)' => Sane(t)
      BY <1>1, <1>2, <2>2, <2>3, <2>4, SaneBefore
    <2>8. /\ WritersOf(t)' = IF f.w # NoWriter THEN WritersOf(t) \cup {h} ELSE WritersOf(t) \ {h}
          /\ OpenWriters(t)' = IF f.w # NoWriter THEN OpenWriters(t) \cup {h}
                                                 ELSE OpenWriters(t) \ {h}
          /\ \A g \in Handles \ {h} : Report(g)' = Report(g)
      BY <1>2, <2>2, <2>4, HandleChange DEF SameHandle
    <2>9. f.w # NoWriter <=> h \in WritersOf(t)
      BY <1>1, <1>2, <2>2, HandleKnown DEF WritersOf
    <2>10. WritersOf(t)' = WritersOf(t) /\ OpenWriters(t)' = OpenWriters(t)
      BY <1>1, <2>8, <2>9 DEF OpenWriters
    <2>11. Reports(t)' = Reports(t)
      <3> DEFINE S == WritersOf(t) \ OpenWriters(t)
      <3>1. S \subseteq Handles /\ h \notin S
        BY <1>1 DEF WritersOf, OpenWriters
      <3>2. {Report(g)' : g \in S} = {Report(g) : g \in S}
        <4> HIDE DEF S
        <4> QED
          BY <2>8, <3>1, ReportsChange
      <3> QED
        BY <2>3, <2>10, <3>2 DEF Reports, SameTx
    <2>12. View(t)' = View(t)
      BY <2>1, <2>4 DEF View
    <2>13. ASSUME Sane(t)
           PROVE  /\ ~conn'[t].locked => WritersOf(t)' = {} /\ tx'[t].done = {}
                  /\ WorkOk(View(t)', OpenWriters(t)', handle', Reports(t)')
      <3>1. /\ ~conn[t].locked => WritersOf(t) = {} /\ tx[t].done = {}
            /\ WorkOk(View(t), OpenWriters(t), handle, Reports(t))
        BY <2>13 DEF CommitInv, ThreadSound
      <3>2. \A g \in OpenWriters(t) : handle'[g].w = handle[g].w /\ handle'[g].path = handle[g].path
        BY <2>2, <2>4 DEF OpenWriters, WritersOf, SameHandle
      <3>3. WorkOk(View(t), OpenWriters(t), handle', Reports(t))
        BY <3>1, <3>2, WorkSame
      <3> QED
        BY <2>3, <2>4, <2>10, <2>11, <2>12, <3>1, <3>3 DEF SameTx
    <2>14. ThreadSound(t)'
      BY <2>7, <2>13 DEF ThreadSound
    <2>15. Sane(t)' /\ conn'[t].locked => Owns(t)
      BY <2>4, <2>7 DEF Owns
    <2> QED
      BY <2>1, <2>4, <2>5, <2>6, <2>14, <2>15, CommitStep
  <1>8. CASE WriteUploads(h, data)
    <2> DEFINE u == Written(i, chunk)
               f == [handle[h] EXCEPT !.w = u.w, !.buf = <<>>]
    <2>1. /\ conn' = [conn EXCEPT ![t] = u.c] /\ handle' = [handle EXCEPT ![h] = f] /\ tx' = tx
          /\ disk' = disk /\ CanInitiate(h)
      BY <1>2, <1>3, <1>8 DEF WriteUploads, Uploaded, i, chunk
    <2>2. SameHandle(h, f) /\ f.stage = "open" /\ f.w = u.w
      BY <1>2, <1>3, <1>6 DEF SameHandle
    <2>3. UploadShape(h, u) /\ u.c.broken = i.c.broken
      BY <1>5, WrittenShape, WrittenKeeps
    <2>4. Sane(t) => UploadOk(t, h, u)
      BY <1>1, <1>2, <1>4, <1>5, <2>1, InitiatedOk, WrittenOk DEF i
    <2> HIDE DEF u, f
    <2> QED
      BY <1>1, <1>2, <1>5, <2>1, <2>2, <2>3, <2>4, StillOpen
  <1>9. CASE WriteRaises(h, data)
    <2> DEFINE u == Refused(i, chunk)
               f == [handle[h] EXCEPT !.w = u.w, !.buf = <<>>, !.failed = TRUE]
    <2>1. /\ conn' = [conn EXCEPT ![t] = u.c] /\ handle' = [handle EXCEPT ![h] = f]
          /\ tx' = Raise(t) /\ disk' = disk /\ CanInitiate(h)
      BY <1>2, <1>3, <1>9 DEF WriteRaises, i, chunk
    <2>2. SameHandle(h, f) /\ f.stage = "open" /\ f.w = u.w
      BY <1>2, <1>3, <1>6 DEF SameHandle
    <2>3. /\ UploadShape(h, u) /\ (i.c.broken => u.c.broken)
          /\ u = i \/ u.c.broken
      BY <1>5, WrittenShape, WrittenKeeps
    <2>4. Sane(t) /\ ~u.c.broken => UploadOk(t, h, u)
      BY <1>1, <1>2, <2>1, <2>3, InitiatedOk DEF i
    <2> HIDE DEF u, f
    <2> QED
      BY <1>1, <1>2, <1>5, <2>1, <2>2, <2>3, <2>4, StillOpen
  <1> QED
    BY <1>7, <1>8, <1>9

LEMMA CloseFails ==
  ASSUME StackInv, CommitInv, NEW h \in Handles, CloseRaises(h)
  PROVE  CommitInv'
  <1>1. IsOpen(h)
    BY DEF CloseRaises, Closes
  <1>2. PICK t \in Threads : handle[h].by = t
    BY <1>1, HandleKnown
  <1> DEFINE i == Initiated(h)
             u == AfterRefusal(i, handle[h].buf)
             f == [handle[h] EXCEPT !.stage = "closed", !.buf = <<>>, !.w = u.w, !.failed = TRUE]
  <1>3. /\ DOMAIN handle[h] = {"stage", "by", "mode", "path", "bs", "auto", "buf", "w", "failed"}
        /\ DOMAIN handle = Handles /\ DOMAIN conn = Threads
    BY <1>1, HandleKnown DEF StackInv, Shapes
  <1>4. /\ conn' = [conn EXCEPT ![t] = u.c] /\ handle' = [handle EXCEPT ![h] = f]
        /\ tx' = Raise(t) /\ disk' = disk
    BY <1>2, <1>3 DEF CloseRaises
  <1>5. u.w # NoWriter
    <2>1. UploadShape(h, i)
      BY <1>1, InitiatedShape
    <2> HIDE DEF i
    <2>2. UploadShape(h, u)
      BY <2>1, WrittenShape DEF AfterRefusal
    <2> HIDE DEF u
    <2> QED
      BY <2>2 DEF UploadShape, NoWriter
  <1>6. <<>> \in Seq(Bytes)
    OBVIOUS
  <1> HIDE DEF u
  <1>7. /\ SameHandle(h, f) /\ f.stage = "closed" /\ f.w = u.w /\ f # Unused
        /\ f.auto = handle[h].auto /\ f.by = t
    BY <1>2, <1>3, <1>6 DEF SameHandle, Unused
  <1> HIDE DEF f
  <1>8. /\ \A v \in Threads \ {t} : conn'[v] = conn[v]
        /\ \A g \in Handles : handle'[g] = IF g = h THEN f ELSE handle[g]
    BY <1>3, <1>4
  <1>9. /\ \A v \in Threads \ {t} : tx'[v] = tx[v]
        /\ SameTx(t) /\ (tx[t].phase # "none" => tx'[t].raised)
    BY <1>4, TxKept
  <1>10. Others(t)
    BY <1>2, <1>7, <1>8, <1>9, HandleOthers
  <1>11. \A g \in Handles : HandleTyped(handle'[g])
    BY <1>1, <1>7, <1>8, SameHandleTyped
  <1>12. ThreadShape(t)'
    BY <1>1, <1>2, <1>5, <1>7, <1>8, <1>9, HandleShapeStep
  <1>13. ~Sane(t)'
    <2>1. CASE tx[t].phase # "none"
      BY <1>9, <2>1 DEF Sane
    <2>2. CASE tx[t].phase = "none"
      <3>1. Queued(t)' = {}
        <4>1. Queued(t)' = Queued(t)
          BY <1>9, <2>2 DEF Queued, SameTx
        <4> QED
          BY <2>2, <4>1, NoPhase
      <3>2. h \in WritersOf(t)' /\ Abandoned(h)'
        BY <1>2, <1>5, <1>7, <1>8, <3>1, HandleChange
      <3> QED
        BY <3>2 DEF Sane
    <2> QED
      BY <2>1, <2>2
  <1>14. ThreadSound(t)'
    BY <1>13 DEF ThreadSound
  <1> QED
    BY <1>4, <1>10, <1>11, <1>12, <1>13, <1>14, CommitStep

(* A thread that only has to leave one block has no writer but h. *)
LEMMA OnlyWriter ==
  ASSUME StackInv, NEW h \in Handles, IsOpen(h), NEW t \in Threads, handle[h].by = t,
         NEW u, UploadShape(h, u), Len(u.c.stack) = 1
  PROVE  WritersOf(t) \subseteq {h}
  <1> DEFINE W == WritersOf(t)
             o == Len(conn[t].stack)
             n == Len(u.c.stack)
  <1>1. IsFiniteSet(W) /\ Cardinality(W) \in Nat
    BY WritersFinite
  <1>2. o = Cardinality(W) + Phase(t) /\ Phase(t) \in {0, 1}
    BY DEF StackInv, Counted, Phase
  <1>3. n = o + (IF HasWriter(h) THEN 0 ELSE 1) /\ n = 1
    BY DEF UploadShape
  <1>4. h \in W <=> HasWriter(h)
    BY DEF WritersOf
  <1> HIDE DEF W, o, n
  <1>5. Cardinality(W) <= IF h \in W THEN 1 ELSE 0
    BY <1>1, <1>2, <1>3, <1>4
  <1>6. CASE h \in W
    <2>1. IsFiniteSet(W \ {h}) /\ Cardinality(W \ {h}) = Cardinality(W) - 1
      BY <1>1, <1>6, FS_RemoveElement
    <2>2. Cardinality(W \ {h}) \in Nat
      BY <2>1, FS_CardinalityType
    <2>3. Cardinality(W \ {h}) = 0
      BY <1>1, <1>5, <1>6, <2>1, <2>2
    <2>4. W \ {h} = {}
      BY <2>1, <2>3, FS_EmptySet
    <2> QED
      BY <2>4 DEF W
  <1>7. CASE h \notin W
    <2>1. Cardinality(W) = 0
      BY <1>1, <1>5, <1>7
    <2>2. W = {}
      BY <1>1, <2>1, FS_EmptySet
    <2> QED
      BY <2>2 DEF W
  <1> QED
    BY <1>6, <1>7

(* A sane thread outside fs.transaction reports nothing: its handles commit
   their own files. *)
LEMMA NoReports ==
  ASSUME CommitInv, NEW t \in Threads, Sane(t), tx[t].phase = "none"
  PROVE  Reports(t) = {} /\ WritersOf(t) = OpenWriters(t)
  <1>1. Queued(t) = {} /\ tx[t].done = {}
    BY NoPhase
  <1>2. \A g \in WritersOf(t) : IsOpen(g)
    BY <1>1 DEF Sane, Abandoned, WritersOf
  <1>3. WritersOf(t) = OpenWriters(t)
    BY <1>2 DEF OpenWriters
  <1> QED
    BY <1>1, <1>3 DEF Reports

(* A deferred handle: its file is finished, but not committed. *)
LEMMA CloseDeferred ==
  ASSUME StackInv, CommitInv, NEW h \in Handles, IsOpen(h), NEW t \in Threads,
         handle[h].by = t, CanInitiate(h), NEW u, UploadShape(h, u),
         Sane(t) => UploadOk(t, h, u), u.c.broken = conn[t].broken,
         NEW f, SameHandle(h, f), f.stage = "closed", f.w = u.w,
         \A g \in Handles : handle'[g] = IF g = h THEN f ELSE handle[g],
         \A v \in Threads : conn'[v] = IF v = t THEN Finalized(u).c ELSE conn[v],
         disk' = disk, tx' = tx
  PROVE  CommitInv'
  <1>1. /\ f # Unused /\ f.by = t /\ f.w # NoWriter /\ handle[h] # Unused
    BY HandleKnown DEF SameHandle, Unused, UploadShape, NoWriter
  <1>2. SameTx(t)
    BY TxKept
  <1>3. /\ conn'[t].broken = conn[t].broken /\ conn'[t].locked = u.c.locked
        /\ conn'[t].work = FinalizeDb(u.c.work, u.w)
    BY WrittenKeeps
  <1>4. Others(t)
    BY <1>1, HandleOthers
  <1>5. \A g \in Handles : HandleTyped(handle'[g])
    BY SameHandleTyped
  <1>6. ThreadShape(t)'
    BY <1>1, <1>2, <1>3, HandleShapeStep
  <1>7. Sane(t)' => Sane(t)
    BY <1>1, <1>2, <1>3, SaneBefore
  <1>8. /\ WritersOf(t)' = WritersOf(t) \cup {h}
        /\ OpenWriters(t)' = OpenWriters(t) \ {h}
        /\ \A g \in Handles \ {h} : Report(g)' = Report(g) /\ handle'[g] = handle[g]
        /\ handle'[h] = f
    BY <1>1, HandleChange
  <1>9. ASSUME Sane(t)
        PROVE  conn'[t].locked /\ WorkOk(View(t)', OpenWriters(t)', handle', Reports(t)')
    <2> DEFINE S == WritersOf(t) \ OpenWriters(t)
               new == [node |-> u.w.node, sum |-> Hash(u.w.hashed)]
    <2>1. View(t)' = FinalizeDb(u.c.work, u.w) /\ conn'[t].locked
      BY <1>3, <1>9 DEF View, UploadOk
    <2>2. WritersOf(t)' \ OpenWriters(t)' = S \cup {h} /\ S \subseteq Handles /\ h \notin S
      BY <1>8 DEF WritersOf, OpenWriters
    <2>3. {Report(g)' : g \in S} = {Report(g) : g \in S}
      <3> HIDE DEF S
      <3> QED
        BY <1>8, <2>2, ReportsChange
    <2>4. Report(h)' = new
      BY <1>8 DEF Report
    <2>5. Reports(t)' = Reports(t) \cup {new}
      <3>1. Reports(t)' = tx[t].done \cup {Report(g)' : g \in S \cup {h}}
        BY <1>2, <2>2 DEF Reports, SameTx
      <3>2. {Report(g)' : g \in S \cup {h}} = {Report(g)' : g \in S} \cup {Report(h)'}
        OBVIOUS
      <3> HIDE DEF new
      <3> QED
        BY <2>3, <2>4, <3>1, <3>2 DEF Reports
    <2>6. \A g \in OpenWriters(t) \ {h} : handle'[g] = handle[g]
      BY <1>8 DEF OpenWriters, WritersOf
    <2>7. WorkOk(FinalizeDb(u.c.work, u.w), OpenWriters(t) \ {h}, handle', Reports(t) \cup {new})
      BY <1>9, <2>6, FinalizedOk
    <2> HIDE DEF new
    <2> QED
      BY <1>8, <2>1, <2>5, <2>7
  <1>10. ThreadSound(t)'
    BY <1>7, <1>9 DEF ThreadSound
  <1>11. Sane(t)' => Owns(t)
    BY <1>7, InitiatedOk
  <1> QED
    BY <1>4, <1>5, <1>6, <1>10, <1>11, CommitStep

Left(c) == Exit(c, TRUE)

LeftDisk(c) == ExitDisk(c, TRUE)

(* A handle of its own: leaving its block commits the file, unless the block
   is inside another. *)
LEMMA CloseCommits ==
  ASSUME StackInv, CommitInv, NEW h \in Handles, IsOpen(h), NEW t \in Threads,
         handle[h].by = t, handle[h].auto, CanInitiate(h), NEW u, UploadShape(h, u),
         Sane(t) => UploadOk(t, h, u), u.c.broken = conn[t].broken, ~u.c.broken,
         NEW f, SameHandle(h, f), f.stage = "closed", f.w = NoWriter,
         \A g \in Handles : handle'[g] = IF g = h THEN f ELSE handle[g],
         NEW x, x = Left(Finalized(u).c),
         \A v \in Threads : conn'[v] = IF v = t THEN x ELSE conn[v],
         NEW e, e = LeftDisk(Finalized(u).c), disk' = e, tx' = tx
  PROVE  CommitInv'
  <1> DEFINE d == FinalizeDb(u.c.work, u.w)
             c == Finalized(u).c
  <1>1. f # Unused /\ f.by = t /\ handle[h] # Unused
    BY HandleKnown DEF SameHandle, Unused
  <1>2. SameTx(t)
    BY TxKept
  <1>3. /\ c.stack = u.c.stack /\ ~c.broken /\ c.locked = u.c.locked /\ c.work = d
        /\ DOMAIN c = {"stack", "broken", "locked", "work"}
    <2>1. /\ Finalized(u).c.stack = u.c.stack /\ Finalized(u).c.broken = u.c.broken
          /\ Finalized(u).c.locked = u.c.locked
          /\ Finalized(u).c.work = FinalizeDb(u.c.work, u.w)
      BY WrittenKeeps
    <2>2. ConnectionShape(Finalized(u).c)
      BY FinalizedShape DEF UploadShape
    <2> QED
      BY <2>1, <2>2 DEF ConnectionShape
  <1> HIDE DEF c, d
  <1>4. Others(t)
    BY <1>1, HandleOthers
  <1>5. \A g \in Handles : HandleTyped(handle'[g])
    BY SameHandleTyped
  <1>6. /\ tx[t].phase = "none" /\ tx[t] = NoTransaction /\ ~tx[t].raised /\ tx[t].done = {}
        /\ tx'[t] = tx[t]
    <2>1. tx[t].phase = "none"
      BY DEF CommitInv, ThreadShape
    <2> QED
      BY <2>1, NoPhase
  <1>7. ThreadShape(t)'
    BY <1>1, <1>2, <1>6, HandleShapeStep
  <1>8. Sane(t)' => Sane(t)
    BY <1>1, <1>2, SaneBefore
  <1>9. /\ WritersOf(t)' = WritersOf(t) \ {h}
        /\ OpenWriters(t)' = OpenWriters(t) \ {h}
        /\ \A g \in Handles \ {h} : Report(g)' = Report(g) /\ handle'[g] = handle[g]
    BY <1>1, HandleChange
  <1>10. \A g \in OpenWriters(t) \ {h} : handle'[g] = handle[g]
    BY <1>9 DEF OpenWriters, WritersOf
  <1>11. Sane(t) => /\ u.c.locked /\ Owns(t)
                    /\ WorkOk(d, OpenWriters(t) \ {h}, handle',
                              Reports(t) \cup {[node |-> u.w.node, sum |-> Hash(u.w.hashed)]})
    <2> HAVE Sane(t)
    <2>1. Owns(t)
      BY InitiatedOk
    <2> QED
      BY <1>10, <2>1, FinalizedOk DEF UploadOk, d
  <1>12. CASE Len(u.c.stack) = 1
    <2>1. WritersOf(t) \subseteq {h}
      BY <1>12, OnlyWriter
    <2>2. Sane(t)
      BY <1>6, <2>1 DEF Sane, Abandoned
    <2>3. conn'[t] = Idle /\ disk' = d
      BY <1>3, <1>11, <1>12, <2>2 DEF Left, LeftDisk, Exit, ExitDisk, c
    <2>4. OpenWriters(t) \ {h} = {} /\ WritersOf(t)' = {} /\ OpenWriters(t)' = {}
      BY <1>9, <2>1 DEF OpenWriters
    <2>5. DiskSound'
      <3> DEFINE R == Reports(t) \cup {[node |-> u.w.node, sum |-> Hash(u.w.hashed)]}
      <3>1. WorkOk(d, {}, handle', R)
        BY <1>11, <2>2, <2>4
      <3> HIDE DEF R
      <3>2. Sound(d) /\ TreeSound(d) /\ RowsMatchContent(d)
        BY <3>1, WorkDone
      <3> QED
        BY <2>3, <3>2 DEF DiskSound
    <2>6. View(t)' = disk' /\ tx'[t].done = {} /\ Reports(t)' = {}
      BY <1>6, <2>3, <2>4 DEF View, Idle, Reports
    <2>7. ThreadSound(t)'
      <3>1. WorkOk(disk', {}, handle', {})
        BY <2>5, DoneWork DEF DiskSound
      <3> QED
        BY <2>4, <2>6, <3>1 DEF ThreadSound
    <2> QED
      BY <1>4, <1>5, <1>7, <1>11, <2>2, <2>5, <2>7, CommitStep
  <1>13. CASE Len(u.c.stack) # 1
    <2>1. conn'[t] = [c EXCEPT !.stack = Front(@)] /\ disk' = disk
      BY <1>3, <1>13 DEF Left, LeftDisk, Exit, ExitDisk, c
    <2>2. conn'[t].locked = u.c.locked /\ conn'[t].work = d
      BY <1>3, <2>1
    <2>3. ASSUME Sane(t)
          PROVE  conn'[t].locked /\ WorkOk(View(t)', OpenWriters(t)', handle', Reports(t)')
      <3>1. Reports(t) = {} /\ WritersOf(t) = OpenWriters(t)
        BY <1>6, <2>3, NoReports
      <3>2. Reports(t)' = {}
        BY <1>6, <1>9, <3>1 DEF Reports
      <3>3. View(t)' = d /\ conn'[t].locked
        BY <1>11, <2>2, <2>3 DEF View
      <3>4. WorkOk(d, OpenWriters(t) \ {h}, handle', {})
        BY <1>11, <2>3 DEF WorkOk
      <3> QED
        BY <1>9, <3>2, <3>3, <3>4
    <2>4. ThreadSound(t)'
      BY <1>8, <2>3 DEF ThreadSound
    <2> QED
      BY <1>4, <1>5, <1>7, <1>8, <1>11, <2>1, <2>4, CommitStep
  <1> QED
    BY <1>12, <1>13

LEMMA CloseDelivers ==
  ASSUME StackInv, CommitInv, NEW h \in Handles, CloseSucceeds(h)
  PROVE  CommitInv'
  <1>1. IsOpen(h) /\ CanInitiate(h)
    BY DEF CloseSucceeds, Closes
  <1>2. PICK t \in Threads : handle[h].by = t
    BY <1>1, HandleKnown
  <1> DEFINE i == Initiated(h)
             buf == handle[h].buf
             u == Written(i, buf)
             v == Finalized(u)
             f == [handle[h] EXCEPT !.stage = "closed", !.buf = <<>>,
                                    !.w = IF handle[h].auto THEN NoWriter ELSE v.w]
  <1>3. /\ DOMAIN handle[h] = {"stage", "by", "mode", "path", "bs", "auto", "buf", "w", "failed"}
        /\ DOMAIN handle = Handles /\ DOMAIN conn = Threads
        /\ handle[h] # Unused
    BY <1>1, HandleKnown DEF StackInv, Shapes
  <1>4. /\ conn' = [conn EXCEPT ![t] = IF handle[h].auto THEN Exit(v.c, TRUE) ELSE v.c]
        /\ disk' = IF handle[h].auto THEN ExitDisk(v.c, TRUE) ELSE disk
        /\ handle' = [handle EXCEPT ![h] = f] /\ tx' = tx
        /\ ~u.c.broken
    BY <1>2, <1>3 DEF CloseSucceeds, Finalizes
  <1>5. buf \in Seq(Bytes) /\ <<>> \in Seq(Bytes)
    BY <1>3 DEF CommitInv, HandleTyped
  <1>6. UploadShape(h, i) /\ i.c.broken = conn[t].broken
    BY <1>1, <1>2, InitiatedShape, InitiatedKeeps
  <1>7. Sane(t) => UploadOk(t, h, i)
    BY <1>1, <1>2, InitiatedOk
  <1> HIDE DEF i, buf
  <1>8. UploadShape(h, u) /\ u.c.broken = conn[t].broken
    BY <1>6, WrittenShape, WrittenKeeps
  <1>9. Sane(t) => UploadOk(t, h, u)
    BY <1>1, <1>2, <1>5, <1>6, <1>7, WrittenOk
  <1> HIDE DEF u
  <1>10. v.w = u.w
    BY <1>8, WrittenKeeps
  <1> HIDE DEF v
  <1>11. /\ SameHandle(h, f) /\ f.stage = "closed"
         /\ f.w = IF handle[h].auto THEN NoWriter ELSE u.w
    BY <1>2, <1>3, <1>5, <1>10 DEF SameHandle
  <1> HIDE DEF f
  <1>12. \A g \in Handles : handle'[g] = IF g = h THEN f ELSE handle[g]
    BY <1>3, <1>4
  <1>13. CASE handle[h].auto
    <2> DEFINE x == Left(Finalized(u).c)
               e == LeftDisk(Finalized(u).c)
    <2>1. /\ f.w = NoWriter /\ disk' = e
          /\ \A k \in Threads : conn'[k] = IF k = t THEN x ELSE conn[k]
      BY <1>3, <1>4, <1>11, <1>13 DEF v, Left, LeftDisk
    <2> QED
      <3>1. /\ IsOpen(h) /\ handle[h].by = t /\ handle[h].auto /\ CanInitiate(h)
            /\ UploadShape(h, u) /\ (Sane(t) => UploadOk(t, h, u))
            /\ u.c.broken = conn[t].broken /\ ~u.c.broken
            /\ SameHandle(h, f) /\ f.stage = "closed" /\ tx' = tx
        BY <1>1, <1>2, <1>4, <1>8, <1>9, <1>11, <1>13
      <3>2. x = Left(Finalized(u).c) /\ e = LeftDisk(Finalized(u).c)
        OBVIOUS
      <3> HIDE DEF x, e
      <3> QED
        BY <1>12, <2>1, <3>1, <3>2, CloseCommits
  <1>14. CASE ~handle[h].auto
    <2>1. /\ f.w = u.w /\ disk' = disk
          /\ \A k \in Threads : conn'[k] = IF k = t THEN Finalized(u).c ELSE conn[k]
      BY <1>3, <1>4, <1>11, <1>14 DEF v
    <2> QED
      <3>1. /\ IsOpen(h) /\ handle[h].by = t /\ CanInitiate(h)
            /\ UploadShape(h, u) /\ (Sane(t) => UploadOk(t, h, u))
            /\ u.c.broken = conn[t].broken
            /\ SameHandle(h, f) /\ f.stage = "closed" /\ tx' = tx
        BY <1>1, <1>2, <1>4, <1>8, <1>9, <1>11
      <3> QED
        BY <1>12, <2>1, <3>1, CloseDeferred
  <1> QED
    BY <1>13, <1>14

-----------------------------------------------------------------------------
(* start() raises *)

SameRows(d, e) ==
  /\ DOMAIN e = DOMAIN d
  /\ e.nodes = d.nodes /\ e.blocks = d.blocks /\ e.maps = d.maps
  /\ e.nodeSeq = d.nodeSeq /\ e.blockSeq = d.blockSeq

LEMMA RowsWork ==
  ASSUME NEW d, NEW e, SameRows(d, e), NEW W, NEW hs, NEW R, WorkOk(d, W, hs, R)
  PROVE  WorkOk(e, W, hs, R)
  <1>1. Sound(d) /\ TreeSound(d) /\ RowsMatchBut(d, FilesOf(W, hs))
    BY DEF WorkOk
  <1>2. /\ e.nodes = d.nodes /\ e.blocks = d.blocks /\ e.maps = d.maps
        /\ NodeIds(e) = NodeIds(d)
    BY DEF SameRows, NodeIds
  <1>3. \A n : MapsOf(e, n) = MapsOf(d, n)
    BY <1>2 DEF MapsOf
  <1>4. Sound(e)
    <2>1. TypeSound(e)
      BY <1>1, <1>2 DEF Sound, TypeSound, SameRows
    <2>2. GraphSound(e)
      BY <1>1, <1>2, <1>3 DEF Sound, GraphSound, SequencesOf, SameRows
    <2> QED
      BY <2>1, <2>2 DEF Sound
  <1>5. TreeSound(e)
    BY <1>1, <1>2, TreeSame
  <1>6. ASSUME NEW n \in NodeIds(d) PROVE FileKept(d, e, n)
    <2>1. TypeSound(d) /\ MapsSound(d)
      BY <1>1, GraphParts DEF Sound
    <2>2. Content(e, n) = Content(d, n)
      BY <1>2, <1>3, <2>1, SameFile
    <2> QED
      BY <1>2, <1>3, <2>2 DEF FileKept
  <1>7. RowsMatchBut(e, FilesOf(W, hs))
    BY <1>1, <1>2, <1>6, FileKeptMatches DEF RowsMatchBut, BlocksMatch
  <1>8. ASSUME NEW g \in W
        PROVE  /\ WritesSoundly(e, hs[g].w) /\ WriterKnows(e, hs[g].w)
               /\ e.nodes[hs[g].w.node].path = hs[g].path
    <2>1. /\ WritesSoundly(d, hs[g].w) /\ WriterKnows(d, hs[g].w)
          /\ d.nodes[hs[g].w.node].path = hs[g].path
      BY DEF WorkOk
    <2>2. FileKept(d, e, hs[g].w.node)
      BY <1>6, <2>1 DEF WritesSoundly, CanFinalize
    <2> QED
      BY <1>2, <1>4, <2>1, <2>2, OtherWriterKept
  <1>9. \A r \in R : /\ r.node \in NodeIds(e)
                     /\ \/ r.node \in FilesOf(W, hs)
                        \/ \E q \in R : q.node = r.node /\ e.nodes[r.node].sum = q.sum
    BY <1>2 DEF WorkOk
  <1> QED
    BY <1>4, <1>5, <1>7, <1>8, <1>9 DEF WorkOk

ViewOf(c) == IF c.locked THEN c.work ELSE disk

(* The rows old, with the id counters of d. *)
WithIds(old, d) == [old EXCEPT !.nodeSeq = d.nodeSeq, !.blockSeq = d.blockSeq]

LEMMA WithOwnIds ==
  ASSUME NEW d
  PROVE  SameRows(d, WithIds(d, d)) \/ DOMAIN d # {"nodes", "blocks", "maps", "nodeSeq", "blockSeq"}
  BY DEF SameRows, WithIds

(* A rollback to a savepoint, with what is kept of the locks and the ids. *)
LEMMA RolledBackFields ==
  ASSUME NEW c, Last(c.stack).sid
  PROVE  LET s    == Last(c.stack)
             kept == KeepsLocks /\ c.locked /\ ~s.locked
             old  == IF kept THEN disk ELSE s.work
             x    == RolledBack(c)
         IN  /\ ~x.broken /\ (x.locked <=> s.locked \/ kept)
             /\ x.work = IF ReusesIds \/ ~(s.locked \/ kept) THEN old ELSE WithIds(old, c.work)
  BY DEF RolledBack, WithIds

(* The innermost block was entered by Enter. *)
LEMMA LastEntered ==
  ASSUME NEW k, ConnectionShape(k)
  PROVE  Last(Enter(k).stack) = [sid |-> ~k.broken, locked |-> k.locked, work |-> k.work]
  <1> DEFINE s == [sid |-> ~k.broken, locked |-> k.locked, work |-> k.work]
             q == k.stack
  <1>1. PICK S : q \in Seq(S)
    BY DEF ConnectionShape
  <1>2. Enter(k).stack = Append(q, s)
    BY DEF Enter, ConnectionShape
  <1> HIDE DEF s, q
  <1>3. Last(Append(q, s)) = s
    <2>1. q \in Seq(S \cup {s})
      BY <1>1, SeqMonotonic
    <2>2. Len(Append(q, s)) = Len(q) + 1 /\ Append(q, s)[Len(q) + 1] = s
      BY <2>1, AppendProperties
    <2> QED
      BY <2>2 DEF Last
  <1> QED
    BY <1>2, <1>3 DEF s

(* A block entered and left with an exception: the connection is as broken as
   it was, and sees the same rows; a lock may be left. *)
LEMMA BackAgain ==
  ASSUME NEW k, ConnectionShape(k), NEW c,
         c = Enter(k) \/ (c = Lock(Enter(k)) /\ ~k.broken),
         NEW x, x = Exit(c, FALSE)
  PROVE  /\ x.broken <=> k.broken
         /\ k.locked => x.locked
         /\ c = Enter(k) => (x.locked => k.locked)
         /\ ~k.broken /\ DOMAIN ViewOf(k) = {"nodes", "blocks", "maps", "nodeSeq", "blockSeq"}
              => SameRows(ViewOf(k), ViewOf(x))
  <1> DEFINE e == Enter(k)
             top == [sid |-> ~k.broken, locked |-> k.locked, work |-> k.work]
  <1>1. /\ ConnectionShape(e) /\ Len(e.stack) = Len(k.stack) + 1 /\ e.stack # <<>>
        /\ Last(e.stack) = top
        /\ e.broken = k.broken /\ e.locked = k.locked /\ e.work = k.work
    BY EnterShape, LastEntered, EnterLock
  <1>2. /\ Lock(e).stack = e.stack /\ Lock(e).locked
        /\ Lock(e).work = ViewOf(k) /\ Lock(e).broken = k.broken
    BY EnterLock DEF ViewOf
  <1>3. Len(k.stack) \in Nat /\ (k.stack = <<>> <=> Len(k.stack) = 0)
    BY StackLen
  <1> HIDE DEF e
  <1>4. /\ c.stack = e.stack /\ c.broken = k.broken
        /\ c = e => c.locked = k.locked /\ c.work = k.work
        /\ c # e => ~k.broken /\ c.locked /\ c.work = ViewOf(k)
        /\ DOMAIN c = {"stack", "broken", "locked", "work"}
    <2>1. ConnectionShape(Lock(e)) /\ ConnectionShape(e)
      BY <1>1, SameStack
    <2>2. c = e \/ (c = Lock(e) /\ ~k.broken)
      BY DEF e
    <2> QED
      BY <1>1, <1>2, <2>1, <2>2 DEF ConnectionShape
  <1>5. CASE k.stack = <<>>
    <2>1. k = Idle /\ x = Idle
      <3>1. k = Idle
        BY <1>5 DEF ConnectionShape
      <3>2. Len(c.stack) = 1
        BY <1>1, <1>3, <1>4, <1>5
      <3>3. x = Idle
        BY <3>2 DEF Exit
      <3> QED
        BY <3>1, <3>3
    <2> QED
      BY <2>1 DEF Idle, SameRows
  <1>6. CASE k.stack # <<>>
    <2> DEFINE s == Last(c.stack)
               kept == KeepsLocks /\ c.locked /\ ~s.locked
               old == IF kept THEN disk ELSE s.work
    <2>1. x = RolledBack(c)
      <3>1. Len(c.stack) = Len(k.stack) + 1 /\ Len(k.stack) # 0 /\ Len(k.stack) \in Nat
        <4>1. Len(c.stack) = Len(e.stack)
          BY <1>4
        <4> QED
          BY <1>1, <1>3, <1>6, <4>1
      <3>2. Len(c.stack) # 1
        BY <3>1
      <3> QED
        BY <3>2 DEF Exit
    <2>2. (s.sid <=> ~k.broken) /\ s.locked = k.locked /\ s.work = k.work
      <3>1. s = top
        BY <1>1, <1>4
      <3> HIDE DEF s
      <3> QED
        BY <3>1
    <2> HIDE DEF top
    <2>3. CASE k.broken
      <3>1. x = [c EXCEPT !.stack = Front(@), !.broken = TRUE]
        BY <2>1, <2>2, <2>3 DEF RolledBack
      <3>2. c = e
        BY <1>4, <2>3
      <3>3. x.broken /\ x.locked = c.locked
        BY <1>4, <3>1
      <3> QED
        BY <1>4, <2>3, <3>2, <3>3
    <2>4. CASE ~k.broken
      <3>1. /\ ~x.broken /\ (x.locked <=> s.locked \/ kept)
            /\ x.work = IF ReusesIds \/ ~(s.locked \/ kept) THEN old ELSE WithIds(old, c.work)
        BY <2>1, <2>2, <2>4, RolledBackFields
      <3>2. /\ ~x.broken /\ (x.locked <=> k.locked \/ kept)
            /\ x.work = IF ReusesIds \/ ~(k.locked \/ kept) THEN old ELSE WithIds(old, c.work)
        <4> HIDE DEF old, kept, s
        <4> QED
          BY <2>2, <3>1
      <3> HIDE DEF old, s
      <3>3. k.locked \/ kept => old = ViewOf(k) /\ c.work = ViewOf(k)
        BY <1>4, <2>2 DEF old, ViewOf
      <3>6. kept => ~(c = e) \/ k.locked
        BY <1>4, <2>2
      <3>7. c = Enter(k) <=> c = e
        BY DEF e
      <3> HIDE DEF kept
      <3>4. CASE k.locked \/ kept
        <4>1. ViewOf(x) = ViewOf(k) \/ ViewOf(x) = WithIds(ViewOf(k), ViewOf(k))
          BY <3>2, <3>3, <3>4 DEF ViewOf
        <4>2. DOMAIN ViewOf(k) = {"nodes", "blocks", "maps", "nodeSeq", "blockSeq"}
                => SameRows(ViewOf(k), ViewOf(x))
          BY <4>1, WithOwnIds DEF SameRows
        <4> QED
          BY <2>4, <3>2, <3>6, <3>7, <4>2
      <3>5. CASE ~(k.locked \/ kept)
        <4>1. ViewOf(x) = disk /\ ViewOf(k) = disk
          BY <3>2, <3>5 DEF ViewOf
        <4>2. SameRows(ViewOf(k), ViewOf(x))
          BY <4>1 DEF SameRows
        <4> QED
          BY <2>4, <3>2, <3>5, <4>2
      <3> QED
        BY <3>4, <3>5
    <2> QED
      BY <2>3, <2>4
  <1> QED
    BY <1>5, <1>6

LEMMA StartRaisesCommits ==
  ASSUME StackInv, CommitInv, NEW h \in Handles, LockTimeout(h) \/ StartRefused(h)
  PROVE  CommitInv'
  <1>1. IsOpen(h) /\ ~HasWriter(h)
    BY DEF LockTimeout, StartRefused, StartRaises
  <1>2. PICK t \in Threads : handle[h].by = t
    BY <1>1, HandleKnown
  <1> DEFINE k == conn[t]
             e == Enter(k)
             f == [handle[h] EXCEPT !.stage = "closed", !.failed = TRUE]
  <1>3. PICK c : /\ c = e \/ (c = Lock(e) /\ ~k.broken)
                 /\ c = e \/ ~LockedElsewhere(t)
                 /\ StartRaises(h, c)
    BY <1>2 DEF LockTimeout, StartRefused
  <1> DEFINE x == Exit(c, FALSE)
  <1>4. /\ DOMAIN handle[h] = {"stage", "by", "mode", "path", "bs", "auto", "buf", "w", "failed"}
        /\ DOMAIN handle = Handles /\ DOMAIN conn = Threads
        /\ handle[h] # Unused /\ handle[h].w = NoWriter /\ ConnectionShape(k)
    BY <1>1, <1>2, HandleKnown DEF StackInv, Shapes
  <1>5. /\ handle' = [handle EXCEPT ![h] = f] /\ tx' = Raise(t)
        /\ conn' = [conn EXCEPT ![t] = x] /\ disk' = disk
    BY <1>2, <1>3, <1>4 DEF StartRaises
  <1>6. handle[h].buf \in Seq(Bytes)
    BY <1>4 DEF CommitInv, HandleTyped
  <1>7. SameHandle(h, f) /\ f.stage = "closed" /\ f.w = NoWriter /\ f # Unused /\ f.by = t
    BY <1>2, <1>4, <1>6 DEF SameHandle, Unused
  <1> HIDE DEF f
  <1>8. /\ x.broken <=> k.broken
        /\ k.locked => x.locked
        /\ c = e => (x.locked => k.locked)
        /\ ~k.broken /\ DOMAIN ViewOf(k) = {"nodes", "blocks", "maps", "nodeSeq", "blockSeq"}
             => SameRows(ViewOf(k), ViewOf(x))
    <2> HIDE DEF k
    <2> QED
      BY <1>3, <1>4, BackAgain
  <1> HIDE DEF x
  <1>9. /\ \A v \in Threads : conn'[v] = IF v = t THEN x ELSE conn[v]
        /\ \A g \in Handles : handle'[g] = IF g = h THEN f ELSE handle[g]
    BY <1>4, <1>5
  <1>10. /\ \A v \in Threads \ {t} : tx'[v] = tx[v]
         /\ SameTx(t) /\ (tx[t].phase # "none" => tx'[t].raised)
    BY <1>5, TxKept
  <1>11. Others(t)
    BY <1>2, <1>7, <1>9, <1>10, HandleOthers
  <1>12. \A g \in Handles : HandleTyped(handle'[g])
    BY <1>1, <1>7, <1>9, SameHandleTyped
  <1>13. ThreadShape(t)'
    BY <1>1, <1>2, <1>4, <1>7, <1>9, <1>10, HandleShapeStep
  <1>14. Sane(t)' => Sane(t)
    BY <1>1, <1>2, <1>4, <1>7, <1>8, <1>9, <1>10, SaneBefore
  <1>15. h \notin WritersOf(t) /\ h \notin OpenWriters(t)
    BY <1>1 DEF WritersOf, OpenWriters
  <1>16. /\ WritersOf(t)' = WritersOf(t) /\ OpenWriters(t)' = OpenWriters(t)
         /\ \A g \in Handles \ {h} : Report(g)' = Report(g) /\ handle'[g] = handle[g]
    <2>1. /\ WritersOf(t)' = WritersOf(t) \ {h} /\ OpenWriters(t)' = OpenWriters(t) \ {h}
          /\ \A g \in Handles \ {h} : Report(g)' = Report(g) /\ handle'[g] = handle[g]
      BY <1>2, <1>7, <1>9, HandleChange
    <2> QED
      BY <1>15, <2>1
  <1>17. Reports(t)' = Reports(t)
    <2> DEFINE S == WritersOf(t) \ OpenWriters(t)
    <2>1. S \subseteq Handles /\ h \notin S
      BY <1>15 DEF WritersOf
    <2>2. {Report(g)' : g \in S} = {Report(g) : g \in S}
      <3> HIDE DEF S
      <3> QED
        BY <1>16, <2>1, ReportsChange
    <2> QED
      BY <1>10, <1>16, <2>2 DEF Reports, SameTx
  <1>18. ASSUME Sane(t)
         PROVE  /\ ~conn'[t].locked => WritersOf(t)' = {} /\ tx'[t].done = {}
                /\ WorkOk(View(t)', OpenWriters(t)', handle', Reports(t)')
    <2>1. /\ ~k.locked => WritersOf(t) = {} /\ tx[t].done = {}
          /\ WorkOk(View(t), OpenWriters(t), handle, Reports(t))
      BY <1>18 DEF CommitInv, ThreadSound
    <2>2. View(t) = ViewOf(k) /\ View(t)' = ViewOf(x)
      <3>1. conn'[t] = x
        BY <1>9
      <3> QED
        BY <1>5, <3>1 DEF View, ViewOf
    <2>3. SameRows(View(t), View(t)')
      BY <1>8, <1>18, <2>1, <2>2 DEF WorkOk, Sound, TypeSound, Sane
    <2>4. WorkOk(View(t)', OpenWriters(t), handle, Reports(t))
      BY <2>1, <2>3, RowsWork
    <2>5. \A g \in OpenWriters(t) : handle'[g].w = handle[g].w /\ handle'[g].path = handle[g].path
      BY <1>15, <1>16 DEF OpenWriters, WritersOf
    <2>6. WorkOk(View(t)', OpenWriters(t), handle', Reports(t))
      BY <2>4, <2>5, WorkSame
    <2> QED
      BY <1>8, <1>9, <1>10, <1>16, <1>17, <2>1, <2>6 DEF SameTx
  <1>19. ThreadSound(t)'
    BY <1>14, <1>18 DEF ThreadSound
  <1>20. Sane(t)' /\ conn'[t].locked => Owns(t)
    BY <1>3, <1>8, <1>9, <1>14 DEF Owns
  <1> QED
    BY <1>5, <1>11, <1>12, <1>13, <1>19, <1>20, CommitStep

-----------------------------------------------------------------------------
(* fs.open *)

LEMMA QueuedAppend ==
  ASSUME NEW q \in Seq(Handles), NEW h \in Handles
  PROVE  {Append(q, h)[i] : i \in 1..Len(Append(q, h))} = {q[i] : i \in 1..Len(q)} \cup {h}
  <1> DEFINE a == Append(q, h)
  <1>1. /\ Len(a) = Len(q) + 1 /\ Len(q) \in Nat
        /\ \A i \in 1..Len(q) : a[i] = q[i]
        /\ a[Len(q) + 1] = h
    BY AppendProperties, LenProperties
  <1> HIDE DEF a
  <1>2. 1..Len(a) = (1..Len(q)) \cup {Len(q) + 1}
    BY <1>1
  <1>3. {a[i] : i \in 1..Len(a)} = {a[i] : i \in 1..Len(q)} \cup {a[Len(q) + 1]}
    BY <1>2
  <1>4. {a[i] : i \in 1..Len(q)} = {q[i] : i \in 1..Len(q)}
    BY <1>1
  <1> QED
    BY <1>1, <1>3, <1>4 DEF a

LEMMA OpenCommits ==
  ASSUME StackInv, CommitInv, PlainUse, NEW t \in Threads, NEW h \in Handles,
         NEW mode \in Modes, NEW p \in Paths, NEW bs \in BlockSizes, Open(t, h, mode, p, bs)
  PROVE  CommitInv'
  <1> DEFINE auto == tx[t].phase = "none"
             f == NewHandle(t, mode, p, bs, auto)
             x == [tx[t] EXCEPT !.files = Append(@, h)]
  <1>1. /\ handle[h] = Unused /\ handle' = [handle EXCEPT ![h] = f]
        /\ conn' = conn /\ disk' = disk
        /\ \A g \in Handles : IsOpen(g) /\ handle[g].by = t => handle[g].path # p
        /\ tx' = IF tx[t].phase = "none" THEN tx ELSE [tx EXCEPT ![t] = x]
    BY DEF Open, PlainUse, Overlapping, StackInv, Shapes
  <1>2. /\ f # Unused /\ f.w = NoWriter /\ f.by = t /\ f.stage = "open" /\ f.path = p
        /\ f.auto \in BOOLEAN /\ (f.auto <=> tx[t].phase = "none") /\ HandleTyped(f)
    <2>1. <<>> \in Seq(Bytes)
      OBVIOUS
    <2> QED
      BY <2>1 DEF NewHandle, Unused, HandleTyped
  <1> HIDE DEF f
  <1>3. \A g \in Handles : handle'[g] = IF g = h THEN f ELSE handle[g]
    BY <1>1 DEF StackInv, Shapes
  <1>4. /\ \A v \in Threads \ {t} : conn'[v] = conn[v] /\ tx'[v] = tx[v]
        /\ conn'[t] = conn[t]
        /\ tx'[t].phase = tx[t].phase /\ tx'[t].raised = tx[t].raised
        /\ tx'[t].done = tx[t].done
        /\ tx[t].phase = "none" => tx'[t] = tx[t]
        /\ tx'[t].files = IF tx[t].phase = "none" THEN tx[t].files ELSE Append(tx[t].files, h)
    BY <1>1 DEF StackInv, Shapes
  <1>5. Queued(t)' = IF tx[t].phase = "none" THEN Queued(t) ELSE Queued(t) \cup {h}
    <2>1. tx[t].files \in Seq(Handles)
      BY DEF StackInv, Shapes, QueueShape
    <2> DEFINE q == tx[t].files
               r == tx'[t].files
    <2>2. Queued(t) = {q[i] : i \in 1..Len(q)} /\ Queued(t)' = {r[i] : i \in 1..Len(r)}
      BY DEF Queued
    <2>3. q \in Seq(Handles) /\ r = IF tx[t].phase = "none" THEN q ELSE Append(q, h)
      BY <1>4, <2>1
    <2> HIDE DEF q, r
    <2>4. CASE tx[t].phase = "none"
      BY <2>2, <2>3, <2>4
    <2>5. CASE tx[t].phase # "none"
      <3>1. {Append(q, h)[i] : i \in 1..Len(Append(q, h))} = {q[i] : i \in 1..Len(q)} \cup {h}
        BY <2>3, QueuedAppend
      <3> QED
        BY <2>2, <2>3, <2>5, <3>1
    <2> QED
      BY <2>4, <2>5
  <1>6. h \notin WritersOf(t) /\ h \notin OpenWriters(t) /\ ~IsOpen(h) /\ ~HasWriter(h)
    BY <1>1 DEF WritersOf, OpenWriters, HasWriter, IsOpen, Unused
  <1>7. /\ WritersOf(t)' = WritersOf(t) \ {h} /\ OpenWriters(t)' = OpenWriters(t) \ {h}
        /\ \A g \in Handles \ {h} : /\ handle'[g] = handle[g] /\ (IsOpen(g)' <=> IsOpen(g))
                                    /\ Report(g)' = Report(g)
        /\ handle'[h] = f
        /\ \A g \in Handles \ {h} : handle[g].by = t =>
             (Abandoned(g)' <=> HasWriter(g) /\ IF handle[g].auto THEN ~IsOpen(g)
                                                ELSE g \notin Queued(t)')
    BY <1>1, <1>2, <1>3, HandleChange
  <1>8. WritersOf(t)' = WritersOf(t) /\ OpenWriters(t)' = OpenWriters(t)
    BY <1>6, <1>7
  <1>9. \A g \in WritersOf(t) : Abandoned(g)' <=> Abandoned(g)
    BY <1>5, <1>6, <1>7 DEF WritersOf, Abandoned
  <1>10. Others(t)
    BY <1>1, <1>2, <1>3, <1>4, HandleOthers
  <1>11. \A g \in Handles : HandleTyped(handle'[g])
    BY <1>2, <1>3 DEF CommitInv
  <1>12. ThreadShape(t)'
    <2>1. ThreadShape(t)
      BY DEF CommitInv
    <2>2. \A g \in Handles : (IsOpen(g) /\ handle[g].by = t)' =>
            g = h \/ (g \in Handles \ {h} /\ IsOpen(g) /\ handle[g].by = t)
      BY <1>7
    <2>3. \A g \in Queued(t)' : ~handle'[g].auto
      <3>1. \A g \in Queued(t) : g # h /\ g \in Handles
        BY <1>1, QueuedMine DEF Mine
      <3>2. \A g \in Queued(t) : ~handle'[g].auto
        BY <1>7, <2>1, <3>1 DEF ThreadShape
      <3>3. tx[t].phase # "none" => ~handle'[h].auto
        BY <1>2, <1>7
      <3> QED
        BY <1>5, <3>2, <3>3
    <2>4. tx'[t].phase # "none" => \A g \in Handles : (IsOpen(g) /\ handle[g].by = t)' =>
            ~handle'[g].auto /\ g \in Queued(t)'
      BY <1>2, <1>4, <1>5, <1>7, <2>1, <2>2 DEF ThreadShape
    <2>5. tx'[t].phase \in {"body", "commit"} /\ conn'[t].broken
            /\ (\A g \in WritersOf(t)' : ~Abandoned(g)') => tx'[t].raised
      BY <1>4, <1>8, <1>9, <2>1 DEF ThreadShape
    <2>6. \A g, k \in Handles : (IsOpen(g) /\ handle[g].by = t)' /\ (IsOpen(k) /\ handle[k].by = t)'
            /\ handle'[g].path = handle'[k].path => g = k
      BY <1>1, <1>2, <1>7, <2>1, <2>2 DEF ThreadShape
    <2> QED
      BY <1>4, <2>1, <2>3, <2>4, <2>5, <2>6 DEF ThreadShape
  <1>13. Sane(t)' <=> Sane(t)
    BY <1>4, <1>8, <1>9 DEF Sane
  <1>14. Reports(t)' = Reports(t)
    <2> DEFINE S == WritersOf(t) \ OpenWriters(t)
    <2>1. S \subseteq Handles /\ h \notin S
      BY <1>6 DEF WritersOf
    <2>2. {Report(g)' : g \in S} = {Report(g) : g \in S}
      <3> HIDE DEF S
      <3> QED
        BY <1>7, <2>1, ReportsChange
    <2> QED
      BY <1>4, <1>8, <2>2 DEF Reports
  <1>15. ASSUME Sane(t)
         PROVE  /\ ~conn'[t].locked => WritersOf(t)' = {} /\ tx'[t].done = {}
                /\ WorkOk(View(t)', OpenWriters(t)', handle', Reports(t)')
    <2>1. /\ ~conn[t].locked => WritersOf(t) = {} /\ tx[t].done = {}
          /\ WorkOk(View(t), OpenWriters(t), handle, Reports(t))
      BY <1>15 DEF CommitInv, ThreadSound
    <2>2. View(t)' = View(t)
      BY <1>1, <1>4 DEF View
    <2>3. \A g \in OpenWriters(t) : handle'[g].w = handle[g].w /\ handle'[g].path = handle[g].path
      BY <1>6, <1>7 DEF OpenWriters, WritersOf
    <2>4. WorkOk(View(t), OpenWriters(t), handle', Reports(t))
      BY <2>1, <2>3, WorkSame
    <2> QED
      BY <1>4, <1>8, <1>14, <2>1, <2>2, <2>4
  <1>16. ThreadSound(t)'
    BY <1>13, <1>15 DEF ThreadSound
  <1>17. Sane(t)' /\ conn'[t].locked => Owns(t)
    BY <1>4, <1>13 DEF Owns
  <1> QED
    BY <1>1, <1>10, <1>11, <1>12, <1>16, <1>17, CommitStep

-----------------------------------------------------------------------------
(* The actions of fs.transaction keep what is committed sound *)

(* A step of the transaction of t that leaves every handle as it is. *)
LEMMA ThreadKeeps ==
  ASSUME StackInv, CommitInv, NEW t \in Threads, handle' = handle, disk' = disk,
         \A v \in Threads \ {t} : conn'[v] = conn[v] /\ tx'[v] = tx[v],
         conn'[t].broken = conn[t].broken, conn'[t].locked = conn[t].locked,
         conn'[t].work = conn[t].work,
         tx'[t].files = tx[t].files, tx'[t].done = tx[t].done,
         tx'[t].phase \in {"body", "commit", "discard"}, tx'[t].raised \in BOOLEAN,
         tx[t].phase = "discard" \/ tx[t].raised => tx'[t].phase = "discard",
         \A h \in Handles : IsOpen(h) /\ handle[h].by = t => ~handle[h].auto /\ h \in Queued(t),
         tx'[t].phase # "discard" /\ conn[t].broken
           /\ (\A h \in WritersOf(t) : ~Abandoned(h)) => tx'[t].raised
  PROVE  CommitInv'
  <1>1. /\ WritersOf(t)' = WritersOf(t) /\ OpenWriters(t)' = OpenWriters(t)
        /\ Queued(t)' = Queued(t) /\ View(t)' = View(t)
    BY DEF WritersOf, OpenWriters, HasWriter, IsOpen, Queued, View
  <1>2. \A g \in WritersOf(t) : Abandoned(g)' <=> Abandoned(g)
    BY <1>1 DEF WritersOf, Abandoned, HasWriter, IsOpen
  <1>3. Reports(t)' = Reports(t)
    <2>1. \A g \in Handles : Report(g)' = Report(g)
      BY DEF Report
    <2> DEFINE S == WritersOf(t) \ OpenWriters(t)
    <2>2. S \subseteq Handles
      BY DEF WritersOf
    <2>3. {Report(g)' : g \in S} = {Report(g) : g \in S}
      <3> HIDE DEF S
      <3> QED
        BY <2>1, <2>2
    <2> QED
      BY <1>1, <2>3 DEF Reports
  <1>4. Others(t)
    BY ThreadOthers
  <1>5. \A g \in Handles : HandleTyped(handle'[g])
    BY DEF CommitInv
  <1>6. ThreadShape(t)'
    <2>1. ThreadShape(t)
      BY DEF CommitInv
    <2>2. /\ \A g \in Queued(t)' : ~handle'[g].auto
          /\ \A g \in Handles : (IsOpen(g) /\ handle[g].by = t)' => ~handle'[g].auto /\ g \in Queued(t)'
      BY <1>1, <2>1 DEF ThreadShape, IsOpen
    <2>3. tx'[t].phase \in {"body", "commit"} /\ conn'[t].broken
            /\ (\A g \in WritersOf(t)' : ~Abandoned(g)') => tx'[t].raised
      BY <1>1, <1>2
    <2>4. \A g, k \in Handles : (IsOpen(g) /\ handle[g].by = t)' /\ (IsOpen(k) /\ handle[k].by = t)'
            /\ handle'[g].path = handle'[k].path => g = k
      BY <2>1 DEF ThreadShape, IsOpen
    <2> QED
      BY <2>2, <2>3, <2>4 DEF ThreadShape
  <1>7. Sane(t)' => Sane(t)
    BY <1>1, <1>2 DEF Sane
  <1>8. ThreadSound(t)'
    <2>1. ThreadSound(t)
      BY DEF CommitInv
    <2> QED
      BY <1>1, <1>3, <1>7, <2>1 DEF ThreadSound
  <1>9. Sane(t)' /\ conn'[t].locked => Owns(t)
    BY <1>7 DEF Owns
  <1> QED
    BY <1>4, <1>5, <1>6, <1>8, <1>9, CommitStep

(* The transaction of t is over: a writer that it leaves will never be finished. *)
LEMMA ThreadEnds ==
  ASSUME StackInv, CommitInv, NEW t \in Threads, tx[t].phase # "none", handle' = handle,
         \A v \in Threads \ {t} : conn'[v] = conn[v] /\ tx'[v] = tx[v],
         tx'[t] = NoTransaction,
         WritersOf(t) = {} => conn'[t] = Idle,
         disk' = disk \/ (DiskSound' /\ Owns(t))
  PROVE  CommitInv'
  <1>1. /\ tx'[t].phase = "none" /\ ~tx'[t].raised /\ tx'[t].raised \in BOOLEAN
        /\ tx'[t].done = {} /\ tx'[t].files = <<>>
    BY DEF NoTransaction
  <1>2. Queued(t)' = {}
    <2>1. 1..Len(<<>>) = {}
      OBVIOUS
    <2> QED
      BY <1>1, <2>1 DEF Queued
  <1>3. WritersOf(t)' = WritersOf(t) /\ ThreadShape(t)
    BY DEF WritersOf, HasWriter, CommitInv
  <1>4. \A g \in WritersOf(t)' : Abandoned(g)'
    <2>1. ASSUME NEW g \in WritersOf(t)
          PROVE  Abandoned(g)'
      <3>1. g \in Handles /\ handle[g].by = t /\ HasWriter(g)
        BY DEF WritersOf
      <3>2. IsOpen(g) => ~handle[g].auto
        BY <1>3, <3>1 DEF ThreadShape
      <3>3. HasWriter(g)' /\ handle'[g] = handle[g] /\ (IsOpen(g)' <=> IsOpen(g))
        BY <3>1 DEF HasWriter, IsOpen
      <3> QED
        BY <1>2, <3>1, <3>2, <3>3 DEF Abandoned
    <2> QED
      BY <1>3, <2>1
  <1>5. Others(t)
    BY ThreadOthers
  <1>6. \A g \in Handles : HandleTyped(handle'[g])
    BY DEF CommitInv
  <1>7. ThreadShape(t)'
    <2>1. \A g, k \in Handles : (IsOpen(g) /\ handle[g].by = t)' /\ (IsOpen(k) /\ handle[k].by = t)'
            /\ handle'[g].path = handle'[k].path => g = k
      BY <1>3 DEF ThreadShape, IsOpen
    <2> QED
      BY <1>1, <1>2, <2>1 DEF ThreadShape
  <1>8. Sane(t)' => WritersOf(t)' = {} /\ conn'[t] = Idle
    BY <1>3, <1>4 DEF Sane
  <1>9. ~Idle.locked
    BY DEF Idle
  <1>10. DiskSound'
    BY DEF CommitInv, DiskSound
  <1>11. ThreadSound(t)'
    <2>1. ASSUME Sane(t)'
          PROVE  WorkOk(View(t)', OpenWriters(t)', handle', Reports(t)')
      <3>1. /\ View(t)' = disk' /\ WritersOf(t)' = {} /\ OpenWriters(t)' = {}
            /\ Reports(t)' = {}
        BY <1>1, <1>8, <1>9, <2>1 DEF View, OpenWriters, Reports
      <3>2. WorkOk(disk', {}, handle', {})
        BY <1>10, DoneWork DEF DiskSound
      <3> QED
        BY <3>1, <3>2
    <2> QED
      BY <1>1, <1>8, <2>1 DEF ThreadSound
  <1> QED
    BY <1>5, <1>6, <1>7, <1>8, <1>9, <1>11, CommitStep

(* How many blocks there are to leave. *)
LEMMA LastBlock ==
  ASSUME StackInv, NEW t \in Threads
  PROVE  /\ tx[t].phase = "none" /\ WritersOf(t) = {} => conn[t] = Idle
         /\ tx[t].phase # "none" => (Len(conn[t].stack) = 1 <=> WritersOf(t) = {})
  <1> DEFINE W == WritersOf(t)
             n == Len(conn[t].stack)
  <1>1. Cardinality(W) \in Nat /\ (Cardinality(W) = 0 <=> W = {})
    BY WritersFinite, FS_EmptySet
  <1>2. n = Cardinality(W) + Phase(t)
    BY DEF StackInv, Counted
  <1>3. /\ tx[t].phase = "none" => Phase(t) = 0
        /\ tx[t].phase # "none" => Phase(t) = 1
    BY DEF Phase
  <1>4. ConnectionShape(conn[t]) /\ (n = 0 => conn[t].stack = <<>>)
    BY StackLen DEF StackInv, Shapes
  <1>5. n = 0 => conn[t] = Idle
    BY <1>4 DEF ConnectionShape
  <1> HIDE DEF n, W
  <1>6. tx[t].phase = "none" /\ W = {} => n = 0
    BY <1>1, <1>2, <1>3
  <1>7. tx[t].phase # "none" => (n = 1 <=> W = {})
    BY <1>1, <1>2, <1>3
  <1> QED
    BY <1>5, <1>6, <1>7 DEF n, W

LEMMA BeginCommits ==
  ASSUME StackInv, CommitInv, PlainUse, NEW t \in Threads, TransactionStart(t)
  PROVE  CommitInv'
  <1> DEFINE x == [tx[t] EXCEPT !.phase = "body"]
             c == Enter(conn[t])
  <1>1. /\ tx[t].phase = "none" /\ handle' = handle /\ disk' = disk
        /\ conn' = [conn EXCEPT ![t] = c] /\ tx' = [tx EXCEPT ![t] = x]
        /\ \A h \in Handles : IsOpen(h) => handle[h].by # t
    BY DEF TransactionStart, PlainUse, Mixing
  <1>2. ConnectionShape(conn[t])
    BY DEF StackInv, Shapes
  <1>3. c.broken = conn[t].broken /\ c.locked = conn[t].locked /\ c.work = conn[t].work
    BY <1>2, EnterLock
  <1>4. Queued(t) = {} /\ ~tx[t].raised /\ tx[t].raised \in BOOLEAN
    BY <1>1, NoPhase DEF CommitInv, ThreadShape
  <1>5. /\ x.phase = "body" /\ x.files = tx[t].files /\ x.done = tx[t].done
        /\ x.raised = tx[t].raised
    BY DEF StackInv, Shapes
  <1> HIDE DEF x, c
  <1>6. \A v \in Threads : /\ conn'[v] = IF v = t THEN c ELSE conn[v]
                           /\ tx'[v] = IF v = t THEN x ELSE tx[v]
    BY <1>1 DEF StackInv, Shapes
  <1>7. conn[t].broken => \E h \in WritersOf(t) : Abandoned(h)
    <2> HAVE conn[t].broken
    <2>1. WritersOf(t) # {}
      BY <1>1, LastBlock DEF Idle
    <2>2. PICK h \in WritersOf(t) : TRUE
      BY <2>1
    <2>3. h \in Handles /\ HasWriter(h) /\ handle[h].by = t
      BY DEF WritersOf
    <2>4. Abandoned(h)
      BY <1>1, <1>4, <2>3 DEF Abandoned
    <2> QED
      BY <2>4
  <1> QED
    BY <1>1, <1>3, <1>4, <1>5, <1>6, <1>7, ThreadKeeps

LEMMA LeaveCommits ==
  ASSUME StackInv, CommitInv, PlainUse, NEW t \in Threads, NEW commit \in BOOLEAN,
         TransactionExit(t, commit)
  PROVE  CommitInv'
  <1> DEFINE p == IF commit THEN "commit" ELSE "discard"
             x == [tx[t] EXCEPT !.phase = p, !.raised = FALSE]
  <1>1. /\ tx[t].phase = "body" /\ handle' = handle /\ disk' = disk /\ conn' = conn
        /\ tx' = [tx EXCEPT ![t] = x]
        /\ commit => ~tx[t].raised
    BY DEF TransactionExit, PlainUse, Catching
  <1>2. p \in {"commit", "discard"} /\ (~commit => p = "discard")
    OBVIOUS
  <1>3. /\ x.phase = p /\ x.files = tx[t].files /\ x.done = tx[t].done
        /\ x.raised = FALSE
    <2> HIDE DEF p
    <2> QED
      BY DEF StackInv, Shapes
  <1>4. commit => p = "commit"
    OBVIOUS
  <1> HIDE DEF x, p
  <1>5. \A v \in Threads : tx'[v] = IF v = t THEN x ELSE tx[v]
    BY <1>1 DEF StackInv, Shapes
  <1>6. /\ \A h \in Handles : IsOpen(h) /\ handle[h].by = t => ~handle[h].auto /\ h \in Queued(t)
        /\ conn[t].broken /\ (\A h \in WritersOf(t) : ~Abandoned(h)) => tx[t].raised
    BY <1>1 DEF CommitInv, ThreadShape
  <1>7. /\ tx'[t].phase \in {"body", "commit", "discard"} /\ tx'[t].raised \in BOOLEAN
        /\ tx'[t].files = tx[t].files /\ tx'[t].done = tx[t].done
        /\ \A v \in Threads \ {t} : conn'[v] = conn[v] /\ tx'[v] = tx[v]
    BY <1>1, <1>2, <1>3, <1>5
  <1>8. /\ tx[t].phase = "discard" \/ tx[t].raised => tx'[t].phase = "discard"
        /\ tx'[t].phase # "discard" /\ conn[t].broken
             /\ (\A h \in WritersOf(t) : ~Abandoned(h)) => tx'[t].raised
    BY <1>1, <1>2, <1>3, <1>5, <1>6
  <1> QED
    BY <1>1, <1>6, <1>7, <1>8, ThreadKeeps

LEMMA EndCommits ==
  ASSUME StackInv, CommitInv, NEW t \in Threads,
         CompleteCommit(t) \/ CompleteFails(t) \/ CompleteDiscard(t)
  PROVE  CommitInv'
  <1> DEFINE c == conn[t]
             r == SetRollback(c)
  <1>1. ConnectionShape(c) /\ r.stack = c.stack /\ r.broken
    BY DEF StackInv, Shapes, ConnectionShape, SetRollback
  <1>2. /\ tx[t].phase # "none" /\ handle' = handle /\ tx' = [tx EXCEPT ![t] = NoTransaction]
        /\ \E ok \in BOOLEAN, d \in {c, r} : conn' = [conn EXCEPT ![t] = Exit(d, ok)]
    BY DEF CompleteCommit, CompleteFails, CompleteDiscard
  <1>3. WritersOf(t) = {} <=> Len(c.stack) = 1
    BY <1>2, LastBlock
  <1>4. PICK ok \in BOOLEAN, d \in {c, r} : conn' = [conn EXCEPT ![t] = Exit(d, ok)]
    BY <1>2
  <1>5. WritersOf(t) = {} => Exit(d, ok) = Idle
    <2>1. Len(d.stack) = Len(c.stack)
      BY <1>1
    <2> QED
      BY <1>3, <2>1 DEF Exit
  <1> DEFINE y == Exit(d, ok)
  <1> HIDE DEF y
  <1>6. conn' = [conn EXCEPT ![t] = y]
    BY <1>4 DEF y
  <1>7. /\ \A v \in Threads \ {t} : conn'[v] = conn[v] /\ tx'[v] = tx[v]
        /\ conn'[t] = y /\ tx'[t] = NoTransaction
    BY <1>2, <1>6 DEF StackInv, Shapes
  <1>8. WritersOf(t) = {} => conn'[t] = Idle
    BY <1>5, <1>7 DEF y
  <1>9. disk' = disk \/ (DiskSound' /\ Owns(t))
    <2>1. CASE CompleteFails(t) \/ CompleteDiscard(t)
      <3>1. disk' = ExitDisk(r, TRUE) \/ disk' = ExitDisk(r, FALSE)
        BY <2>1 DEF CompleteFails, CompleteDiscard
      <3> QED
        BY <1>1, <3>1 DEF ExitDisk
    <2>2. CASE CompleteCommit(t)
      <3>1. disk' = ExitDisk(c, TRUE) /\ tx[t].phase = "commit" /\ ~tx[t].raised
        BY <2>2 DEF CompleteCommit
      <3>2. CASE Len(c.stack) = 1 /\ c.locked /\ ~c.broken
        <4>1. Sane(t) /\ WritersOf(t) = {} /\ OpenWriters(t) = {}
          BY <1>3, <3>1, <3>2 DEF Sane, OpenWriters
        <4>2. disk' = c.work /\ View(t) = c.work
          BY <3>1, <3>2 DEF ExitDisk, View
        <4>3. WorkOk(c.work, {}, handle, Reports(t))
          BY <4>1, <4>2 DEF CommitInv, ThreadSound
        <4>4. Sound(c.work) /\ TreeSound(c.work) /\ RowsMatchContent(c.work)
          BY <4>3, WorkDone
        <4> QED
          BY <3>2, <4>1, <4>2, <4>4 DEF DiskSound, Owns
      <3>3. CASE ~(Len(c.stack) = 1 /\ c.locked /\ ~c.broken)
        BY <3>1, <3>3 DEF ExitDisk
      <3> QED
        BY <3>2, <3>3
    <2> QED
      BY <2>1, <2>2
  <1> QED
    BY <1>2, <1>7, <1>8, <1>9, ThreadEnds

LEMMA QueuedTail ==
  ASSUME NEW q \in Seq(Handles), q # <<>>
  PROVE  {q[i] : i \in 1..Len(q)} = {Tail(q)[i] : i \in 1..Len(Tail(q))} \cup {Head(q)}
  <1> DEFINE r == Tail(q)
  <1>1. /\ Len(r) = Len(q) - 1 /\ Head(q) = q[1]
        /\ \A i \in 1..Len(r) : r[i] = q[i + 1]
    BY HeadTailProperties
  <1>2. Len(q) \in Nat \ {0}
    BY LenProperties, EmptySeq
  <1> HIDE DEF r
  <1>3. ASSUME NEW i \in 1..Len(q)
        PROVE  q[i] \in {r[j] : j \in 1..Len(r)} \cup {q[1]}
    <2>1. CASE i = 1
      BY <2>1
    <2>2. CASE i # 1
      <3>1. i - 1 \in 1..Len(r)
        BY <1>1, <1>2, <2>2
      <3>2. r[i - 1] = q[(i - 1) + 1] /\ (i - 1) + 1 = i
        BY <1>1, <3>1
      <3> QED
        BY <3>1, <3>2
    <2> QED
      BY <2>1, <2>2
  <1>4. ASSUME NEW j \in 1..Len(r)
        PROVE  r[j] \in {q[i] : i \in 1..Len(q)}
    <2>1. j + 1 \in 1..Len(q)
      BY <1>1, <1>2
    <2> QED
      BY <1>1, <2>1
  <1>5. q[1] \in {q[i] : i \in 1..Len(q)}
    BY <1>2
  <1> QED
    BY <1>1, <1>3, <1>4, <1>5 DEF r

(* complete() is done with the file of h, the head of the queue. *)
LEMMA HeadDone ==
  ASSUME StackInv, CommitInv, NEW t \in Threads, tx[t].files # <<>>, tx[t].phase # "none",
         NEW h, h = Head(tx[t].files),
         NEW f, f.stage = "closed", f.by = t, f.w = NoWriter,
         f.auto = handle[h].auto, f.path = handle[h].path,
         \A g \in Handles : handle'[g] = IF g = h THEN f ELSE handle[g],
         tx'[t].files = Tail(tx[t].files),
         tx'[t].phase = tx[t].phase, tx'[t].raised = tx[t].raised,
         tx[t].phase = "discard" \/ (conn'[t].broken => conn[t].broken)
  PROVE  /\ ThreadShape(t)'
         /\ \A g \in WritersOf(t) \ {h} : Abandoned(g)' <=> Abandoned(g)
         /\ ~Abandoned(h)
         /\ WritersOf(t)' = WritersOf(t) \ {h} /\ OpenWriters(t)' = OpenWriters(t) \ {h}
         /\ \A g \in Handles \ {h} : handle'[g] = handle[g] /\ Report(g)' = Report(g)
  <1>1. h \in Handles /\ handle[h] # Unused /\ handle[h].by = t
    BY QueueHead
  <1>2. Queued(t) = Queued(t)' \cup {h}
    <2> DEFINE q == tx[t].files
    <2>1. q \in Seq(Handles) /\ q # <<>> /\ h = Head(q) /\ tx'[t].files = Tail(q)
      BY DEF StackInv, Shapes, QueueShape
    <2>2. Queued(t) = {q[i] : i \in 1..Len(q)}
      BY DEF Queued
    <2> HIDE DEF q
    <2>3. Queued(t)' = {Tail(q)[i] : i \in 1..Len(Tail(q))}
      <3> DEFINE r == Tail(q)
                 p == tx'[t].files
      <3>1. p = r /\ Queued(t)' = {p[i] : i \in 1..Len(p)}
        BY <2>1 DEF Queued
      <3> HIDE DEF p, r
      <3>2. {p[i] : i \in 1..Len(p)} = {r[i] : i \in 1..Len(r)}
        BY <3>1
      <3> QED
        BY <3>1, <3>2 DEF r
    <2>4. {q[i] : i \in 1..Len(q)} = {Tail(q)[i] : i \in 1..Len(Tail(q))} \cup {Head(q)}
      BY <2>1, QueuedTail
    <2> QED
      BY <2>1, <2>2, <2>3, <2>4
  <1>3. ThreadShape(t) /\ ~handle[h].auto
    BY <1>2 DEF CommitInv, ThreadShape
  <1>4. ~Abandoned(h)
    BY <1>1, <1>2, <1>3 DEF Abandoned
  <1>5. /\ WritersOf(t)' = WritersOf(t) \ {h} /\ OpenWriters(t)' = OpenWriters(t) \ {h}
        /\ \A g \in Handles \ {h} : /\ handle'[g] = handle[g] /\ (IsOpen(g)' <=> IsOpen(g))
                                    /\ Report(g)' = Report(g)
        /\ handle'[h] = f /\ ~IsOpen(h)'
        /\ \A g \in Handles \ {h} : handle[g].by = t =>
             (Abandoned(g)' <=> HasWriter(g) /\ IF handle[g].auto THEN ~IsOpen(g)
                                                ELSE g \notin Queued(t)')
    BY <1>1, HandleChange
  <1>6. \A g \in WritersOf(t) \ {h} : Abandoned(g)' <=> Abandoned(g)
    BY <1>2, <1>5 DEF WritersOf, Abandoned
  <1>7. ThreadShape(t)'
    <2>1. \A g \in Handles : (IsOpen(g) /\ handle[g].by = t)' =>
            g \in Handles \ {h} /\ IsOpen(g) /\ handle[g].by = t
      BY <1>5
    <2>2. \A g \in Queued(t)' : ~handle'[g].auto
      <3>1. Queued(t) \subseteq Handles
        BY QueuedMine DEF Mine
      <3> QED
        BY <1>2, <1>3, <3>1 DEF ThreadShape
    <2>3. \A g \in Handles : (IsOpen(g) /\ handle[g].by = t)' => ~handle'[g].auto /\ g \in Queued(t)'
      BY <1>2, <1>3, <1>5, <2>1 DEF ThreadShape
    <2>4. tx'[t].phase \in {"body", "commit"} /\ conn'[t].broken
            /\ (\A g \in WritersOf(t)' : ~Abandoned(g)') => tx'[t].raised
      <3> HAVE tx'[t].phase \in {"body", "commit"} /\ conn'[t].broken
                 /\ (\A g \in WritersOf(t)' : ~Abandoned(g)')
      <3>1. \A g \in WritersOf(t) : ~Abandoned(g)
        BY <1>4, <1>5, <1>6
      <3> QED
        BY <1>3, <3>1 DEF ThreadShape
    <2>5. \A g, k \in Handles : (IsOpen(g) /\ handle[g].by = t)' /\ (IsOpen(k) /\ handle[k].by = t)'
            /\ handle'[g].path = handle'[k].path => g = k
      BY <1>3, <1>5, <2>1 DEF ThreadShape
    <2> QED
      BY <1>3, <2>2, <2>3, <2>4, <2>5 DEF ThreadShape
  <1> QED
    BY <1>4, <1>5, <1>6, <1>7

LEMMA CommitFileCommits ==
  ASSUME StackInv, CommitInv, NEW t \in Threads, CompleteCommitFile(t)
  PROVE  CommitInv'
  <1> DEFINE h == Head(tx[t].files)
             k == conn[t]
             f == [handle[h] EXCEPT !.w = NoWriter]
             c == IF HasWriter(h) THEN Exit(k, TRUE) ELSE k
             R == {Report(g) : g \in {h} \cap WritersOf(t)}
             x == [tx[t] EXCEPT !.files = Tail(@), !.done = @ \cup R]
  <1>1. /\ h \in Handles /\ handle[h] # Unused /\ handle[h].by = t
        /\ HandleShape(handle[h]) /\ ConnectionShape(k)
        /\ tx[t].phase = "commit" /\ ~tx[t].raised /\ tx[t].files # <<>> /\ ~IsOpen(h)
    BY QueueHead DEF CompleteCommitFile, StackInv, Shapes
  <1>2. /\ DOMAIN handle[h] = {"stage", "by", "mode", "path", "bs", "auto", "buf", "w", "failed"}
        /\ handle[h].stage = "closed"
    BY <1>1 DEF HandleShape, IsOpen
  <1>3. /\ conn' = [conn EXCEPT ![t] = c]
        /\ disk' = IF HasWriter(h) THEN ExitDisk(k, TRUE) ELSE disk
        /\ handle' = [handle EXCEPT ![h] = f]
        /\ tx' = [tx EXCEPT ![t] = x]
    BY DEF CompleteCommitFile, StackInv, Shapes
  <1>4. /\ x.files = Tail(tx[t].files) /\ x.done = tx[t].done \cup R
        /\ x.phase = tx[t].phase /\ x.raised = tx[t].raised
    <2> HIDE DEF R
    <2> QED
      BY DEF StackInv, Shapes
  <1>5. /\ f.stage = "closed" /\ f.by = t /\ f.w = NoWriter /\ f # Unused
        /\ f.mode = handle[h].mode /\ f.path = handle[h].path /\ f.bs = handle[h].bs
        /\ f.auto = handle[h].auto /\ f.buf = handle[h].buf
    BY <1>1, <1>2 DEF Unused
  <1>6. HasWriter(h) <=> h \in WritersOf(t)
    BY <1>1 DEF WritersOf
  <1>7. /\ disk' = disk /\ (c.broken => k.broken)
        /\ ~k.broken => c.locked = k.locked /\ c.work = k.work
    <2>1. CASE ~HasWriter(h)
      BY <1>3, <2>1
    <2>2. CASE HasWriter(h)
      <3>1. Len(k.stack) # 1
        BY <1>1, <1>6, <2>2, LastBlock
      <3>2. disk' = disk
        BY <1>3, <2>2, <3>1 DEF ExitDisk
      <3>3. ~k.broken => c = [k EXCEPT !.stack = Front(@)]
        BY <2>2, <3>1 DEF Exit
      <3>4. ~k.broken => c.broken = k.broken /\ c.locked = k.locked /\ c.work = k.work
        <4> HIDE DEF c
        <4> QED
          BY <1>1, <3>3 DEF ConnectionShape
      <3> QED
        BY <3>2, <3>4
    <2> QED
      BY <2>1, <2>2
  <1> HIDE DEF f, c, x
  <1>8. /\ \A g \in Handles : handle'[g] = IF g = h THEN f ELSE handle[g]
        /\ \A v \in Threads : /\ conn'[v] = IF v = t THEN c ELSE conn[v]
                              /\ tx'[v] = IF v = t THEN x ELSE tx[v]
    BY <1>3 DEF StackInv, Shapes
  <1>9. Others(t)
    BY <1>1, <1>5, <1>8, HandleOthers
  <1>10. \A g \in Handles : HandleTyped(handle'[g])
    <2>1. HandleTyped(handle[h])
      BY <1>1 DEF CommitInv
    <2>2. HandleTyped(f)
      BY <1>1, <1>5, <2>1 DEF HandleTyped
    <2> QED
      BY <1>8, <2>2 DEF CommitInv
  <1>11. /\ ThreadShape(t)'
         /\ \A g \in WritersOf(t) \ {h} : Abandoned(g)' <=> Abandoned(g)
         /\ ~Abandoned(h)
         /\ WritersOf(t)' = WritersOf(t) \ {h} /\ OpenWriters(t)' = OpenWriters(t) \ {h}
         /\ \A g \in Handles \ {h} : handle'[g] = handle[g] /\ Report(g)' = Report(g)
    <2>1. /\ tx'[t].files = Tail(tx[t].files) /\ tx'[t].phase = tx[t].phase
          /\ tx'[t].raised = tx[t].raised /\ (conn'[t].broken => conn[t].broken)
          /\ tx[t].phase # "none"
      BY <1>1, <1>4, <1>7, <1>8
    <2> HIDE DEF k
    <2> QED
      BY <1>1, <1>5, <1>8, <2>1, HeadDone
  <1>12. Sane(t)' => Sane(t)
    <2> HAVE Sane(t)'
    <2>1. /\ \A g \in WritersOf(t) : ~Abandoned(g)
      BY <1>11 DEF Sane
    <2>2. ~k.broken
      BY <1>1, <2>1 DEF CommitInv, ThreadShape
    <2> QED
      BY <1>1, <2>1, <2>2 DEF Sane
  <1>13. h \notin OpenWriters(t) /\ OpenWriters(t)' = OpenWriters(t)
    BY <1>1, <1>11 DEF OpenWriters
  <1>14. Reports(t)' = Reports(t)
    <2> DEFINE S == (WritersOf(t) \ OpenWriters(t)) \ {h}
    <2>1. S \subseteq Handles /\ h \notin S /\ WritersOf(t)' \ OpenWriters(t)' = S
      BY <1>11, <1>13 DEF WritersOf
    <2>2. {Report(g)' : g \in S} = {Report(g) : g \in S}
      <3> HIDE DEF S
      <3> QED
        BY <1>1, <1>11, <2>1, ReportsChange
    <2>3. WritersOf(t) \ OpenWriters(t) = S \cup ({h} \cap WritersOf(t))
      BY <1>13
    <2>4. {Report(g) : g \in S \cup ({h} \cap WritersOf(t))} = {Report(g) : g \in S} \cup R
      OBVIOUS
    <2>5. tx'[t].done = tx[t].done \cup R
      BY <1>4, <1>8
    <2> HIDE DEF S, R
    <2> QED
      BY <2>1, <2>2, <2>3, <2>4, <2>5 DEF Reports
  <1>15. ASSUME Sane(t)
         PROVE  /\ ~conn'[t].locked => WritersOf(t)' = {} /\ tx'[t].done = {}
                /\ WorkOk(View(t)', OpenWriters(t)', handle', Reports(t)')
    <2>1. /\ ~k.locked => WritersOf(t) = {} /\ tx[t].done = {}
          /\ WorkOk(View(t), OpenWriters(t), handle, Reports(t))
      BY <1>15 DEF CommitInv, ThreadSound
    <2>2. conn'[t].locked = k.locked /\ View(t)' = View(t)
      BY <1>7, <1>8, <1>15 DEF View, Sane
    <2>3. \A g \in OpenWriters(t) : handle'[g].w = handle[g].w /\ handle'[g].path = handle[g].path
      BY <1>11, <1>13 DEF OpenWriters, WritersOf
    <2>4. WorkOk(View(t), OpenWriters(t), handle', Reports(t))
      BY <2>1, <2>3, WorkSame
    <2>5. ~k.locked => WritersOf(t)' = {} /\ tx'[t].done = {}
      <3>1. WritersOf(t) = {} => R = {}
        OBVIOUS
      <3> QED
        BY <1>4, <1>8, <1>11, <2>1, <3>1
    <2> QED
      BY <1>13, <1>14, <2>2, <2>4, <2>5
  <1>16. ThreadSound(t)'
    BY <1>12, <1>15 DEF ThreadSound
  <1>17. Sane(t)' /\ conn'[t].locked => Owns(t)
    BY <1>7, <1>8, <1>12 DEF Owns, Sane
  <1> QED
    BY <1>7, <1>9, <1>10, <1>11, <1>16, <1>17, CommitStep

LEMMA DiscardFileCommits ==
  ASSUME StackInv, CommitInv, NEW t \in Threads, CompleteDiscardFile(t)
  PROVE  CommitInv'
  <1> DEFINE h == Head(tx[t].files)
             r == SetRollback(conn[t])
             f == [handle[h] EXCEPT !.stage = "closed", !.buf = <<>>, !.w = NoWriter]
             c == IF HasWriter(h) THEN Exit(r, TRUE) ELSE conn[t]
             x == [tx[t] EXCEPT !.files = Tail(@)]
  <1>1. /\ h \in Handles /\ handle[h] # Unused /\ handle[h].by = t
        /\ HandleShape(handle[h]) /\ ConnectionShape(conn[t])
        /\ tx[t].phase = "discard" /\ tx[t].files # <<>>
    BY QueueHead DEF CompleteDiscardFile, StackInv, Shapes
  <1>2. DOMAIN handle[h] = {"stage", "by", "mode", "path", "bs", "auto", "buf", "w", "failed"}
    BY <1>1 DEF HandleShape
  <1>3. /\ conn' = [conn EXCEPT ![t] = c]
        /\ disk' = IF HasWriter(h) THEN ExitDisk(r, TRUE) ELSE disk
        /\ handle' = [handle EXCEPT ![h] = f]
        /\ tx' = [tx EXCEPT ![t] = x]
    BY DEF CompleteDiscardFile, StackInv, Shapes
  <1>4. x.files = Tail(tx[t].files) /\ x.phase = tx[t].phase /\ x.raised = tx[t].raised
    BY DEF StackInv, Shapes
  <1>5. /\ f.stage = "closed" /\ f.by = t /\ f.w = NoWriter /\ f # Unused
        /\ f.mode = handle[h].mode /\ f.path = handle[h].path /\ f.bs = handle[h].bs
        /\ f.auto = handle[h].auto /\ f.buf = <<>>
    BY <1>1, <1>2 DEF Unused
  <1>6. disk' = disk
    <2>1. r.broken
      BY <1>1 DEF SetRollback, ConnectionShape
    <2> QED
      BY <1>3, <2>1 DEF ExitDisk
  <1> HIDE DEF f, c, x
  <1>7. /\ \A g \in Handles : handle'[g] = IF g = h THEN f ELSE handle[g]
        /\ \A v \in Threads : /\ conn'[v] = IF v = t THEN c ELSE conn[v]
                              /\ tx'[v] = IF v = t THEN x ELSE tx[v]
    BY <1>3 DEF StackInv, Shapes
  <1>8. Others(t)
    BY <1>1, <1>5, <1>7, HandleOthers
  <1>9. \A g \in Handles : HandleTyped(handle'[g])
    <2>1. HandleTyped(handle[h]) /\ <<>> \in Seq(Bytes)
      BY <1>1 DEF CommitInv
    <2>2. HandleTyped(f)
      BY <1>1, <1>5, <2>1 DEF HandleTyped
    <2> QED
      BY <1>7, <2>2 DEF CommitInv
  <1>10. ThreadShape(t)'
    <2>1. /\ tx'[t].files = Tail(tx[t].files) /\ tx'[t].phase = tx[t].phase
          /\ tx'[t].raised = tx[t].raised /\ tx[t].phase # "none"
      BY <1>1, <1>4, <1>7
    <2> QED
      BY <1>1, <1>5, <1>7, <2>1, HeadDone
  <1>11. ~Sane(t)'
    BY <1>1, <1>4, <1>7 DEF Sane
  <1> QED
    BY <1>6, <1>8, <1>9, <1>10, <1>11, CommitStep DEF ThreadSound

-----------------------------------------------------------------------------
(* The process of a thread dies *)

LEMMA CrashCommits ==
  ASSUME StackInv, CommitInv, NEW t \in Threads, Crash(t)
  PROVE  CommitInv'
  <1> DEFINE Dead(h) == handle[h].stage # "unused" /\ handle[h].by = t
             Gone(h) == [handle[h] EXCEPT !.stage = "closed", !.w = NoWriter, !.buf = <<>>]
  <1>1. /\ conn' = [conn EXCEPT ![t] = Idle] /\ tx' = [tx EXCEPT ![t] = NoTransaction]
        /\ handle' = [h \in Handles |-> IF Dead(h) THEN Gone(h) ELSE handle[h]]
        /\ disk' = disk
    BY DEF Crash
  <1>2. ASSUME NEW h \in Handles
        PROVE  /\ ~Dead(h) => handle'[h] = handle[h]
               /\ Dead(h) => /\ handle'[h].stage = "closed" /\ handle'[h].w = NoWriter
                             /\ handle'[h].by = t /\ handle'[h] # Unused /\ handle[h] # Unused
               /\ HandleTyped(handle'[h])
               /\ handle[h] # Unused /\ handle[h].by = t => Dead(h)
    <2>1. HandleShape(handle[h]) /\ HandleTyped(handle[h]) /\ <<>> \in Seq(Bytes)
      BY DEF StackInv, Shapes, CommitInv
    <2>2. handle[h] # Unused /\ handle[h].by = t => Dead(h)
      BY <2>1 DEF HandleShape
    <2>3. CASE ~Dead(h)
      BY <1>1, <2>1, <2>2, <2>3
    <2>4. CASE Dead(h)
      <3>1. handle'[h] = Gone(h) /\ handle[h] # Unused
        <4>1. Unused.stage = "unused"
          BY DEF Unused
        <4>2. handle[h] # Unused
          BY <2>4, <4>1
        <4> QED
          BY <1>1, <2>4, <4>2
      <3>2. DOMAIN handle[h] = {"stage", "by", "mode", "path", "bs", "auto", "buf", "w", "failed"}
        BY <2>1, <3>1 DEF HandleShape
      <3> DEFINE f == Gone(h)
      <3>3. /\ f.stage = "closed" /\ f.w = NoWriter /\ f.by = t /\ f.buf = <<>>
            /\ f.mode = handle[h].mode /\ f.path = handle[h].path /\ f.bs = handle[h].bs
            /\ f.auto = handle[h].auto
        BY <2>4, <3>2
      <3>4. f # Unused
        BY <3>3 DEF Unused
      <3>5. HandleTyped(f)
        <4> HIDE DEF f
        <4> QED
          BY <2>1, <3>1, <3>3 DEF HandleTyped
      <3> QED
        BY <2>2, <2>4, <3>1, <3>3, <3>4, <3>5
    <2> QED
      BY <2>3, <2>4
  <1> HIDE DEF Gone
  <1>3. \A u \in Threads : /\ conn'[u] = IF u = t THEN Idle ELSE conn[u]
                           /\ tx'[u] = IF u = t THEN NoTransaction ELSE tx[u]
    BY <1>1 DEF StackInv, Shapes
  <1>4. Others(t)
    <2>1. ASSUME NEW u \in Threads \ {t}
          PROVE  Mine(u)' = Mine(u) /\ \A g \in Mine(u) : handle'[g] = handle[g]
      BY <1>2 DEF Mine
    <2> QED
      BY <1>3, <2>1 DEF Others
  <1>5. ASSUME NEW h \in Handles
        PROVE  ~(IsOpen(h) /\ handle[h].by = t)' /\ ~(HasWriter(h) /\ handle[h].by = t)'
    <2>1. handle[h] = Unused => handle[h].stage = "unused"
      BY DEF Unused
    <2>2. Dead(h) \/ handle[h].stage = "unused" \/ handle[h].by # t
      OBVIOUS
    <2> QED
      BY <1>2, <2>1, <2>2 DEF IsOpen, HasWriter
  <1>6. WritersOf(t)' = {} /\ OpenWriters(t)' = {}
    BY <1>5 DEF WritersOf, OpenWriters
  <1>7. /\ tx'[t] = NoTransaction /\ tx'[t].phase = "none" /\ ~tx'[t].raised
        /\ tx'[t].raised \in BOOLEAN /\ tx'[t].done = {} /\ tx'[t].files = <<>>
        /\ ~conn'[t].locked
    <2>1. tx'[t] = NoTransaction /\ conn'[t] = Idle
      BY <1>3
    <2>2. ~Idle.locked
      BY DEF Idle
    <2> QED
      BY <2>1, <2>2 DEF NoTransaction
  <1>8. Queued(t)' = {}
    <2>1. 1..Len(<<>>) = {}
      OBVIOUS
    <2> QED
      BY <1>7, <2>1 DEF Queued
  <1>9. ThreadShape(t)'
    BY <1>5, <1>7, <1>8 DEF ThreadShape
  <1>10. ThreadSound(t)'
    <2>1. View(t)' = disk' /\ Reports(t)' = {}
      BY <1>6, <1>7 DEF View, Reports
    <2>2. WorkOk(disk', {}, handle', {})
      BY <1>1, DoneWork DEF CommitInv, DiskSound
    <2> QED
      BY <1>6, <1>7, <2>1, <2>2 DEF ThreadSound
  <1>11. \A h \in Handles : HandleTyped(handle'[h])
    BY <1>2
  <1> QED
    BY <1>1, <1>4, <1>7, <1>9, <1>10, <1>11, CommitStep

-----------------------------------------------------------------------------
LEMMA CommitInit ==
  Init => CommitInv
  <1> SUFFICES ASSUME Init PROVE CommitInv
    OBVIOUS
  <1>1. /\ disk = EmptyDb
        /\ \A t \in Threads : conn[t] = Idle /\ tx[t] = NoTransaction
        /\ \A h \in Handles : handle[h] = Unused
    BY DEF Init
  <1>2. DiskSound
    <2>1. TypeSound(EmptyDb)
      BY DEF TypeSound, EmptyDb, NodeIds
    <2>2. GraphSound(EmptyDb)
      BY DEF GraphSound, EmptyDb, NodeIds
    <2>3. TreeSound(EmptyDb)
      BY DEF EmptyDb, TreeSound, NodeIds
    <2>4. RowsMatchContent(EmptyDb)
      BY DEF EmptyDb, RowsMatchContent, NodeIds
    <2> QED
      BY <1>1, <2>1, <2>2, <2>3, <2>4 DEF DiskSound, Sound
  <1>3. /\ NoTransaction.phase = "none" /\ ~NoTransaction.raised /\ NoTransaction.raised \in BOOLEAN
        /\ NoTransaction.files = <<>> /\ NoTransaction.done = {}
        /\ ~Idle.locked
    BY DEF NoTransaction, Idle
  <1>4. \A h \in Handles : ~IsOpen(h) /\ ~HasWriter(h)
    BY <1>1 DEF IsOpen, HasWriter, Unused
  <1>5. ASSUME NEW t \in Threads
        PROVE  ThreadShape(t) /\ ThreadSound(t)
    <2>1. Queued(t) = {}
      <3>1. 1..Len(<<>>) = {}
        OBVIOUS
      <3> QED
        BY <1>1, <1>3, <3>1 DEF Queued
    <2>2. WritersOf(t) = {} /\ OpenWriters(t) = {}
      BY <1>4 DEF WritersOf, OpenWriters
    <2>3. View(t) = disk /\ Reports(t) = {}
      BY <1>1, <1>3, <2>2 DEF View, Reports
    <2>4. WorkOk(disk, {}, handle, {})
      BY <1>2, DoneWork DEF DiskSound
    <2>5. ThreadShape(t)
      BY <1>1, <1>3, <1>4, <2>1 DEF ThreadShape
    <2> QED
      BY <1>1, <1>3, <2>2, <2>3, <2>4, <2>5 DEF ThreadSound
  <1>6. \A h \in Handles : HandleTyped(handle[h])
    BY <1>1 DEF HandleTyped
  <1>7. OneLock
    BY <1>1, <1>3 DEF OneLock
  <1> QED
    BY <1>2, <1>5, <1>6, <1>7 DEF CommitInv

LEMMA CommitStutters ==
  ASSUME CommitInv, UNCHANGED vars
  PROVE  CommitInv'
  <1>1. disk' = disk /\ conn' = conn /\ handle' = handle /\ tx' = tx
    BY DEF vars
  <1>2. \A h \in Handles : /\ IsOpen(h)' <=> IsOpen(h)
                           /\ HasWriter(h)' <=> HasWriter(h)
                           /\ Report(h)' = Report(h)
    BY <1>1 DEF IsOpen, HasWriter, Report
  <1>3. \A t \in Threads : /\ WritersOf(t)' = WritersOf(t) /\ Queued(t)' = Queued(t)
                           /\ View(t)' = View(t)
    BY <1>1 DEF WritersOf, HasWriter, Queued, View
  <1>4. \A t \in Threads : OpenWriters(t)' = OpenWriters(t) /\ Reports(t)' = Reports(t)
    BY <1>1 DEF OpenWriters, WritersOf, HasWriter, IsOpen, Reports, Report
  <1>5. \A h \in Handles : Abandoned(h)' <=> Abandoned(h)
    BY <1>1 DEF Abandoned, HasWriter, IsOpen, Queued
  <1>6. ASSUME NEW t \in Threads
        PROVE  (Sane(t)' <=> Sane(t)) /\ ThreadShape(t)' /\ ThreadSound(t)'
    <2>1. WritersOf(t) \subseteq Handles /\ ThreadShape(t) /\ ThreadSound(t)
      BY DEF WritersOf, CommitInv
    <2>2. Sane(t)' <=> Sane(t)
      BY <1>1, <1>3, <1>5, <2>1 DEF Sane
    <2>3. ThreadShape(t)'
      BY <1>1, <1>2, <1>3, <1>5, <2>1 DEF ThreadShape
    <2>4. ThreadSound(t)'
      BY <1>1, <1>3, <1>4, <2>1, <2>2 DEF ThreadSound
    <2> QED
      BY <2>2, <2>3, <2>4
  <1> QED
    BY <1>1, <1>6 DEF CommitInv, DiskSound, OneLock

LEMMA CommitNext ==
  ASSUME PlainUse, StackInv, CommitInv, [Next]_vars
  PROVE  CommitInv'
  <1>1. CASE Next
    BY <1>1, OpenCommits, WriteCommits, StartRaisesCommits, CloseDelivers, CloseFails,
       BeginCommits, LeaveCommits, CommitFileCommits, EndCommits, DiscardFileCommits, CrashCommits
       DEF Next, Complete, Close
  <1> QED
    BY <1>1, CommitStutters

LEMMA CommittedByInv ==
  CommitInv => CommittedOK
  BY DEF CommitInv, DiskSound, Sound, CommittedOK, CommittedContentOK

(* The commit of a transaction without another writer delivers its files. *)
LEMMA CommitDelivers ==
  ASSUME StackInv, CommitInv, NEW t \in Threads, CompleteCommit(t), WritersOf(t) = {}
  PROVE  /\ conn'[t] = Idle
         /\ \A r \in tx[t].done :
              /\ r.node \in NodeIds(disk')
              /\ \E q \in tx[t].done : q.node = r.node /\ disk'.nodes[r.node].sum = q.sum
  <1> DEFINE c == conn[t]
  <1>1. /\ tx[t].phase = "commit" /\ ~tx[t].raised
        /\ conn' = [conn EXCEPT ![t] = Exit(c, TRUE)] /\ disk' = ExitDisk(c, TRUE)
    BY DEF CompleteCommit
  <1>2. Len(c.stack) = 1
    BY <1>1, LastBlock
  <1>3. conn'[t] = Idle
    BY <1>1, <1>2 DEF Exit, StackInv, Shapes
  <1>4. Sane(t)
    <2>1. ~c.broken
      BY <1>1 DEF CommitInv, ThreadShape
    <2> QED
      BY <1>1, <2>1 DEF Sane
  <1>5. OpenWriters(t) = {} /\ Reports(t) = tx[t].done
    BY DEF OpenWriters, Reports
  <1>6. disk' = View(t)
    BY <1>1, <1>2, <1>4 DEF ExitDisk, View, Sane
  <1>7. WorkOk(disk', {}, handle, tx[t].done)
    BY <1>4, <1>5, <1>6 DEF CommitInv, ThreadSound
  <1> QED
    BY <1>3, <1>7, WorkDone

(* What close() and fs.transaction commit is a sound tree of finished files
   with sound block graphs, for any number of threads and handles and on every
   backend: no failed write, refused finalize, rollback to a savepoint, lock
   timeout or crash leaves a half-written file to other connections. *)
THEOREM CommitsCorrect ==
  ASSUME PlainUse
  PROVE  Spec => []CommittedOK
  <1>1. Init => StackInv /\ CommitInv
    BY StackInit, CommitInit
  <1>2. StackInv /\ CommitInv /\ [Next]_vars => StackInv' /\ CommitInv'
    BY StackStep, CommitNext
  <1> QED
    BY <1>1, <1>2, CommittedByInv, PTL DEF Spec

(* When DjangoTransaction.complete returns normally, and no handle of the
   thread from outside its fs.transaction is being written, every file of the
   transaction is committed as one of its handles has finalized it. *)
THEOREM TransactionsDeliver ==
  ASSUME PlainUse
  PROVE  Spec => AllOrNothing
  <1>1. Init => StackInv /\ CommitInv
    BY StackInit, CommitInit
  <1>2. StackInv /\ CommitInv /\ [Next]_vars => StackInv' /\ CommitInv'
    BY StackStep, CommitNext
  <1>3. ASSUME StackInv, CommitInv, Next
        PROVE  \A t \in Threads : CompleteCommit(t) /\ WritersOf(t) = {} =>
                 /\ conn'[t] = Idle
                 /\ \A r \in tx[t].done :
                      /\ r.node \in NodeIds(disk')
                      /\ \E q \in tx[t].done : q.node = r.node /\ disk'.nodes[r.node].sum = q.sum
    BY <1>3, CommitDelivers
  <1> QED
    BY <1>1, <1>2, <1>3, PTL DEF Spec, AllOrNothing
=============================================================================
