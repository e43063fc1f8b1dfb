------------------------------- MODULE Handles -------------------------------
(***************************************************************************)
(* Write handles and fs.transaction over Django's atomic blocks.           *)
(*                                                                         *)
(* A DjangoFile buffers bytes, starts a StreamingFileWriter at its first   *)
(* flush and finishes it in close(), or, when it was opened inside         *)
(* fs.transaction, when the transaction completes.  Every started writer   *)
(* and every fs.transaction has entered an atomic block of its thread's    *)
(* connection.  Those blocks form one stack: leaving a block takes the     *)
(* innermost one, whoever entered it.                                      *)
(*                                                                         *)
(* The rows are those of Tables: disk is what is committed, conn[t].work   *)
(* what thread t has made of it since it got the namespace lock.  fs.pipe, *)
(* fs.touch and fs.put are an open, its writes and a close.                *)
(***************************************************************************)
EXTENDS Tables

CONSTANTS
  Threads,      \* threads of the program, each with its own connection
  Handles,      \* the handles opened over time
  Payloads,     \* what a call of write() is given
  KeepsLocks,   \* a rollback to a savepoint keeps the locks taken since
  ReusesIds,    \* a rollback to a savepoint takes the id counters back, too
  Habits        \* what the program does beyond plain use, see below

(* The code leaves three things to its callers.  A program that "catches" goes
   on after an exception instead of leaving the with blocks it is raised in;
   one that "overlaps" opens a path on which the same thread has a handle open;
   one that "mixes" starts fs.transaction with a handle open. *)
Catching    == "catches" \in Habits
Overlapping == "overlaps" \in Habits
Mixing      == "mixes" \in Habits

ASSUME HandlesAssumption ==
  /\ Payloads \subseteq Seq(Bytes)
  /\ KeepsLocks \in BOOLEAN /\ ReusesIds \in BOOLEAN
  /\ IsFiniteSet(Handles)

VARIABLES
  disk,     \* the committed database value
  conn,     \* the connection of each thread
  handle,   \* the DjangoFile objects
  tx        \* the DjangoTransaction of each thread

vars == <<disk, conn, handle, tx>>

Unused == [stage |-> "unused"]

NoWriter == [node |-> 0]

(* failed records that a call on the handle has raised. *)
NewHandle(t, mode, p, bs, auto) ==
  [stage |-> "open", by |-> t, mode |-> mode, path |-> p, bs |-> bs, auto |-> auto,
   buf |-> <<>>, w |-> NoWriter, failed |-> FALSE]

(* raised records that an exception is on its way out of the block; done is a
   history variable, the rows of the files whose commit() has returned. *)
NoTransaction == [phase |-> "none", files |-> <<>>, raised |-> FALSE, done |-> {}]

-----------------------------------------------------------------------------
(* Django's connection: the stack of atomic blocks, with what each would roll
   back to (sid is FALSE for a block entered while a rollback was due, which
   has no savepoint); needs_rollback; the namespace lock; the rows. *)

Idle == [stack |-> <<>>, broken |-> FALSE, locked |-> FALSE, work |-> EmptyDb]

View(t) == IF conn[t].locked THEN conn[t].work ELSE disk

(* Atomic.__enter__: BEGIN for the outermost block, otherwise a savepoint. *)
Enter(c) ==
  [c EXCEPT !.stack = Append(@, [sid |-> ~c.broken, locked |-> c.locked, work |-> c.work])]

(* _lock_namespace_for_write *)
Lock(c) == IF c.locked THEN c ELSE [c EXCEPT !.locked = TRUE, !.work = disk]

LockedElsewhere(t) == \E u \in Threads \ {t} : conn[u].locked

(* Back to the innermost savepoint.  A backend that keeps the locks leaves the
   connection with the committed rows if it had none locked before. *)
RolledBack(c) ==
  LET top  == Last(c.stack)
      kept == KeepsLocks /\ c.locked /\ ~top.locked
      old  == IF kept THEN disk ELSE top.work
  IN  IF top.sid
      THEN [stack |-> Front(c.stack), broken |-> FALSE, locked |-> top.locked \/ kept,
            work |-> IF ReusesIds \/ ~(top.locked \/ kept) THEN old
                     ELSE [old EXCEPT !.nodeSeq = c.work.nodeSeq, !.blockSeq = c.work.blockSeq]]
      ELSE [c EXCEPT !.stack = Front(@), !.broken = TRUE]

(* Mutant of Exit: a block that raises is not left. *)
ExitUnlessRaised(c, ok) ==
  IF ~ok THEN c
  ELSE IF Len(c.stack) = 1 THEN Idle
  ELSE IF ~c.broken THEN [c EXCEPT !.stack = Front(@)]
  ELSE RolledBack(c)

(* Atomic.__exit__: ok is that no exception is passed. *)
Exit(c, ok) ==
  IF Len(c.stack) = 1 THEN Idle
  ELSE IF ok /\ ~c.broken THEN [c EXCEPT !.stack = Front(@)]
  ELSE RolledBack(c)

(* What leaving the block makes of the committed rows. *)
ExitDisk(c, ok) ==
  IF Len(c.stack) = 1 /\ ok /\ ~c.broken /\ c.locked THEN c.work ELSE disk

(* Mutant of SetRollback: the block will commit. *)
NoRollback(c) == c

(* transaction.set_rollback(True) *)
SetRollback(c) == [c EXCEPT !.broken = TRUE]

-----------------------------------------------------------------------------
(* Who may act: the program, unless it is inside complete(); complete()
   itself closes the file at the head of its queue. *)

Running(t) == tx[t].phase \in {"none", "body"}

Committing(t, h) ==
  tx[t].phase = "commit" /\ ~tx[t].raised /\ tx[t].files # <<>> /\ Head(tx[t].files) = h

(* The program carries on, and is not on its way out with an exception. *)
Willing(t) == Running(t) /\ (tx[t].raised => Catching)

Raise(t) == [tx EXCEPT ![t].raised = (@ \/ tx[t].phase # "none")]

IsOpen(h) == handle[h].stage = "open"

HasWriter(h) == handle[h].stage # "unused" /\ handle[h].w # NoWriter

WritersOf(t) == {h \in Handles : HasWriter(h) /\ handle[h].by = t}

(* The row that the writer of h has finalized. *)
Report(h) == [node |-> handle[h].w.node, sum |-> Hash(handle[h].w.hashed)]

(* fs.open for writing.  In a transaction of this thread the handle is
   deferred and queued. *)
Open(t, h, mode, p, bs) ==
  /\ Willing(t)
  /\ handle[h] = Unused
  /\ Overlapping \/ \A g \in Handles : IsOpen(g) /\ handle[g].by = t => handle[g].path # p
  /\ mode = "xb" => ~conn[t].broken /\ ~Exists(View(t), p)
  /\ handle' = [handle EXCEPT ![h] = NewHandle(t, mode, p, bs, tx[t].phase = "none")]
  /\ tx' = IF tx[t].phase = "none" THEN tx ELSE [tx EXCEPT ![t].files = Append(@, h)]
  /\ UNCHANGED <<disk, conn>>

-----------------------------------------------------------------------------
(* Uploads: the first one starts the writer.  An upload is described by the
   connection c and the writer w after each of its steps.  A writer has the
   namespace lock, unless a block that it did not enter was rolled back below
   it and the backend dropped the lock: it then changes rows without it, in
   the model only while no other connection has it. *)

CanInitiate(h) ==
  LET t == handle[h].by
  IN  IF HasWriter(h) THEN conn[t].locked \/ ~LockedElsewhere(t)
      ELSE /\ ~conn[t].broken /\ ~LockedElsewhere(t)
           /\ CanStart(View(t), handle[h].mode, handle[h].path)

Initiated(h) ==
  LET f == handle[h]
      l == Lock(Enter(conn[f.by]))
      d == StartDb(l.work, f.mode, f.path, f.bs)
  IN  IF HasWriter(h) THEN [c |-> Lock(conn[f.by]), w |-> f.w]
      ELSE [c |-> [l EXCEPT !.work = d], w |-> StartWriter(d, f.mode, f.path, f.bs)]

(* The rows of write_chunk are inserted: no query is refused, the file is
   there and has no block yet at one of the sequences. *)
CanInsert(u, chunk) ==
  /\ ~u.c.broken
  /\ u.w.node \in NodeIds(u.c.work)
  /\ SequencesOf(u.c.work, u.w.node)
       \cap {u.w.seq + i - 1 : i \in 1..Len(Chunks(chunk, u.w.bsize))} = {}

CanWrite(u, chunk) == chunk = <<>> \/ (FitsLimit(u.w, chunk) /\ CanInsert(u, chunk))

Written(u, chunk) ==
  [c |-> [u.c EXCEPT !.work = WriteChunkDb(@, u.w, chunk)], w |-> WriteChunk(u.w, chunk)]

(* After write_chunk raised: an error of the database marks the connection for
   rollback, FileTooLargeError does not. *)
Refused(u, chunk) ==
  IF FitsLimit(u.w, chunk) THEN [u EXCEPT !.c = SetRollback(@)] ELSE u

Finalizes(u) == ~u.c.broken /\ CanFinalize(u.c.work, u.w)

Finalized(u) == [u EXCEPT !.c.work = FinalizeDb(@, u.w)]

(* The next states of the handle and its connection after upload u. *)
Uploaded(h, u) ==
  /\ conn' = [conn EXCEPT ![handle[h].by] = u.c]
  /\ handle' = [handle EXCEPT ![h].w = u.w, ![h].buf = <<>>]

-----------------------------------------------------------------------------
(* write(): the buffer is uploaded once it holds a block. *)

Writes(h) ==
  IsOpen(h) /\ Willing(handle[h].by) /\ (handle[h].failed => Catching)

WriteBuffers(h, data) ==
  /\ Writes(h)
  /\ Len(handle[h].buf \o data) < handle[h].bs
  /\ handle' = [handle EXCEPT ![h].buf = @ \o data]
  /\ UNCHANGED <<disk, conn, tx>>

WriteUploads(h, data) ==
  LET chunk == handle[h].buf \o data
  IN  /\ Writes(h)
      /\ Len(chunk) >= handle[h].bs
      /\ CanInitiate(h)
      /\ CanWrite(Initiated(h), chunk)
      /\ Uploaded(h, Written(Initiated(h), chunk))
      /\ UNCHANGED <<disk, tx>>

(* write_chunk raises: the buffer is empty already, the handle stays open. *)
WriteRaises(h, data) ==
  LET chunk == handle[h].buf \o data
      u     == Refused(Initiated(h), chunk)
  IN  /\ Writes(h)
      /\ Len(chunk) >= handle[h].bs
      /\ CanInitiate(h)
      /\ ~CanWrite(Initiated(h), chunk)
      /\ conn' = [conn EXCEPT ![handle[h].by] = u.c]
      /\ handle' = [handle EXCEPT ![h].w = u.w, ![h].buf = <<>>, ![h].failed = TRUE]
      /\ tx' = Raise(handle[h].by)
      /\ UNCHANGED disk

(* start() raises, in a write that fills the buffer or in close(): it leaves
   its own atomic block and the handle is closed. *)
StartRaises(h, c) ==
  LET t == handle[h].by
  IN  /\ IsOpen(h) /\ ~HasWriter(h)
      /\ Running(t) \/ Committing(t, h)
      /\ conn' = [conn EXCEPT ![t] = Exit(c, FALSE)]
      /\ handle' = [handle EXCEPT ![h].stage = "closed", ![h].failed = TRUE]
      /\ tx' = Raise(t)
      /\ UNCHANGED disk

(* The lock is not granted in time. *)
LockTimeout(h) ==
  /\ IsOpen(h) /\ LockedElsewhere(handle[h].by)
  /\ StartRaises(h, Enter(conn[handle[h].by]))

(* The connection takes no queries, or the target turns out, under the lock,
   not to be free. *)
StartRefused(h) ==
  /\ IsOpen(h) /\ ~LockedElsewhere(handle[h].by) /\ ~CanInitiate(h)
  /\ LET c == conn[handle[h].by]
     IN  StartRaises(h, IF c.broken THEN Enter(c) ELSE Lock(Enter(c)))

(* close(): the last upload, with _finalize; a handle of its own commits.  (A
   bound variable over one value has TLC compute the upload once.) *)
Closes(h) ==
  /\ IsOpen(h)
  /\ Running(handle[h].by) \/ Committing(handle[h].by, h)
  /\ CanInitiate(h)

CloseSucceeds(h) ==
  /\ Closes(h)
  /\ \E i \in {Initiated(h)} :
       /\ CanWrite(i, handle[h].buf)
       /\ Finalizes(Written(i, handle[h].buf))
       /\ \E u \in {Finalized(Written(i, handle[h].buf))} :
            /\ conn' = [conn EXCEPT ![handle[h].by] = IF handle[h].auto THEN Exit(u.c, TRUE) ELSE u.c]
            /\ disk' = IF handle[h].auto THEN ExitDisk(u.c, TRUE) ELSE disk
            /\ handle' = [handle EXCEPT ![h].stage = "closed", ![h].buf = <<>>,
                                        ![h].w = IF handle[h].auto THEN NoWriter ELSE u.w]
  /\ UNCHANGED tx

(* The last chunk is refused, or _finalize finds another version: the handle
   is closed, its writer stays as it is. *)
AfterRefusal(i, chunk) == IF CanWrite(i, chunk) THEN Written(i, chunk) ELSE Refused(i, chunk)

CloseRaises(h) ==
  /\ Closes(h)
  /\ \E i \in {Initiated(h)} :
       /\ CanWrite(i, handle[h].buf) => ~Finalizes(Written(i, handle[h].buf))
       /\ \E u \in {AfterRefusal(i, handle[h].buf)} :
            /\ conn' = [conn EXCEPT ![handle[h].by] = u.c]
            /\ handle' = [handle EXCEPT ![h].stage = "closed", ![h].buf = <<>>, ![h].w = u.w,
                                        ![h].failed = TRUE]
  /\ tx' = Raise(handle[h].by)
  /\ UNCHANGED disk

-----------------------------------------------------------------------------
(* fs.transaction *)

TransactionStart(t) ==
  /\ tx[t].phase = "none"
  /\ Mixing \/ \A h \in Handles : IsOpen(h) => handle[h].by # t
  /\ conn' = [conn EXCEPT ![t] = Enter(@)]
  /\ tx' = [tx EXCEPT ![t].phase = "body"]
  /\ UNCHANGED <<disk, handle>>

(* The block ends: normally, or by an exception of the program's own or of
   one of the calls. *)
TransactionExit(t, commit) ==
  /\ tx[t].phase = "body"
  /\ commit /\ tx[t].raised => Catching
  /\ tx' = [tx EXCEPT ![t].phase = IF commit THEN "commit" ELSE "discard", ![t].raised = FALSE]
  /\ UNCHANGED <<disk, conn, handle>>

(* complete(commit=True) takes the files in the order they were opened; a
   file that is still open is closed first (CloseSucceeds, CloseRaises). *)
CompleteCommitFile(t) ==
  /\ tx[t].phase = "commit" /\ ~tx[t].raised
  /\ tx[t].files # <<>>
  /\ LET h == Head(tx[t].files)
     IN  /\ ~IsOpen(h)
         /\ conn' = [conn EXCEPT ![t] = IF HasWriter(h) THEN Exit(@, TRUE) ELSE @]
         /\ disk' = IF HasWriter(h) THEN ExitDisk(conn[t], TRUE) ELSE disk
         /\ handle' = [handle EXCEPT ![h].w = NoWriter]
         /\ tx' = [tx EXCEPT ![t].files = Tail(@),
                             ![t].done = @ \cup {Report(g) : g \in {h} \cap WritersOf(t)}]

(* Mutant of CompleteCommit: it leaves the block as complete(commit=False). *)
CompleteCommitDiscards(t) ==
  /\ tx[t].phase = "commit" /\ ~tx[t].raised
  /\ tx[t].files = <<>>
  /\ conn' = [conn EXCEPT ![t] = Exit(SetRollback(@), TRUE)]
  /\ disk' = ExitDisk(SetRollback(conn[t]), TRUE)
  /\ tx' = [tx EXCEPT ![t] = NoTransaction]
  /\ UNCHANGED handle

CompleteCommit(t) ==
  /\ tx[t].phase = "commit" /\ ~tx[t].raised
  /\ tx[t].files = <<>>
  /\ conn' = [conn EXCEPT ![t] = Exit(@, TRUE)]
  /\ disk' = ExitDisk(conn[t], TRUE)
  /\ tx' = [tx EXCEPT ![t] = NoTransaction]
  /\ UNCHANGED handle

(* A file's commit raised: one block is left with the exception. *)
CompleteFails(t) ==
  /\ tx[t].phase = "commit" /\ tx[t].raised
  /\ conn' = [conn EXCEPT ![t] = Exit(SetRollback(@), FALSE)]
  /\ disk' = ExitDisk(SetRollback(conn[t]), FALSE)
  /\ tx' = [tx EXCEPT ![t] = NoTransaction]
  /\ UNCHANGED handle

CompleteDiscardFile(t) ==
  /\ tx[t].phase = "discard"
  /\ tx[t].files # <<>>
  /\ LET h == Head(tx[t].files)
     IN  /\ conn' = [conn EXCEPT ![t] = IF HasWriter(h) THEN Exit(SetRollback(@), TRUE) ELSE @]
         /\ disk' = IF HasWriter(h) THEN ExitDisk(SetRollback(conn[t]), TRUE) ELSE disk
         /\ handle' = [handle EXCEPT ![h].stage = "closed", ![h].buf = <<>>, ![h].w = NoWriter]
  /\ tx' = [tx EXCEPT ![t].files = Tail(@)]

(* Mutant of CompleteDiscard: the block of fs.transaction itself is not left. *)
CompleteDiscardStays(t) ==
  /\ tx[t].phase = "discard"
  /\ tx[t].files = <<>>
  /\ tx' = [tx EXCEPT ![t] = NoTransaction]
  /\ UNCHANGED <<disk, conn, handle>>

CompleteDiscard(t) ==
  /\ tx[t].phase = "discard"
  /\ tx[t].files = <<>>
  /\ conn' = [conn EXCEPT ![t] = Exit(SetRollback(@), TRUE)]
  /\ disk' = ExitDisk(SetRollback(conn[t]), TRUE)
  /\ tx' = [tx EXCEPT ![t] = NoTransaction]
  /\ UNCHANGED handle

(* The thread's process dies: its objects are gone, the database rolls back. *)
Crash(t) ==
  /\ conn[t] # Idle \/ tx[t] # NoTransaction
  /\ conn' = [conn EXCEPT ![t] = Idle]
  /\ tx' = [tx EXCEPT ![t] = NoTransaction]
  /\ handle' = [h \in Handles |->
       IF handle[h].stage # "unused" /\ handle[h].by = t
       THEN [handle[h] EXCEPT !.stage = "closed", !.w = NoWriter, !.buf = <<>>]
       ELSE handle[h]]
  /\ UNCHANGED disk

Init ==
  /\ disk = EmptyDb
  /\ conn = [t \in Threads |-> Idle]
  /\ handle = [h \in Handles |-> Unused]
  /\ tx = [t \in Threads |-> NoTransaction]

Complete(t) ==
  \/ CompleteCommitFile(t) \/ CompleteCommit(t) \/ CompleteFails(t)
  \/ CompleteDiscardFile(t) \/ CompleteDiscard(t)

Close(h) == CloseSucceeds(h) \/ CloseRaises(h)

Next ==
  \/ \E t \in Threads, h \in Handles, mode \in Modes, p \in Paths, bs \in BlockSizes :
       Open(t, h, mode, p, bs)
  \/ \E h \in Handles, data \in Payloads :
       WriteBuffers(h, data) \/ WriteUploads(h, data) \/ WriteRaises(h, data)
  \/ \E h \in Handles : LockTimeout(h) \/ StartRefused(h) \/ Close(h)
  \/ \E t \in Threads : TransactionStart(t)
  \/ \E t \in Threads, commit \in BOOLEAN : TransactionExit(t, commit)
  \/ \E t \in Threads : Complete(t)
  \/ \E t \in Threads : Crash(t)

Spec == Init /\ [][Next]_vars

(* The fairness of a program that gets on with its calls: close() is called
   some time, a transaction's block ends, and the database grants a lock that
   is free again and again.  Nothing relies on a lock timing out. *)
FairSpec ==
  /\ Spec
  /\ \A h \in Handles : SF_vars(Close(h) \/ StartRefused(h))
  /\ \A t \in Threads :
       /\ WF_vars(TransactionExit(t, TRUE) \/ TransactionExit(t, FALSE))
       /\ WF_vars(Complete(t))

-----------------------------------------------------------------------------
(* A connection has one atomic block for every started writer of its thread
   and one for its fs.transaction, through every failure: exits never take a
   block too many or too few, so a thread without a writer and a transaction
   holds no lock and has nothing uncommitted. *)
StackBalanced ==
  \A t \in Threads :
    /\ Len(conn[t].stack) =
         Cardinality(WritersOf(t)) + IF tx[t].phase = "none" THEN 0 ELSE 1
    /\ conn[t].stack = <<>> => conn[t] = Idle

(* All committed files are finished: their size and checksum are those of their
   blocks.  It takes three things of the program, Habits = {}: an exception
   leaves the fs.transaction it is raised in, no thread has two handles open on
   one path, and none starts fs.transaction with a handle open. *)
CommittedContentOK == RowsMatchContent(disk)

(* What other connections and readers see is always a sound tree of finished
   files with sound block graphs, whatever fails and however the handles of a
   thread are interleaved. *)
CommittedOK == TreeSound(disk) /\ GraphSound(disk) /\ CommittedContentOK

(* fs.transaction delivers all its files: when complete() returns normally and
   no other handle of the thread is being written, the connection is free and
   every file of the queue is committed, as finalized by a handle of the same
   transaction. *)
AllOrNothing ==
  [][\A t \in Threads : CompleteCommit(t) /\ WritersOf(t) = {} =>
       /\ conn'[t] = Idle
       /\ \A r \in tx[t].done :
            /\ r.node \in NodeIds(disk')
            /\ \E q \in tx[t].done : q.node = r.node /\ disk'.nodes[r.node].sum = q.sum]_vars

(* A handle is done with, and the atomic block of its writer will not be left any
   more: its close() raised outside fs.transaction, or complete() stopped at a file
   before it. *)
Stranded(h) ==
  ~IsOpen(h) /\ HasWriter(h) /\ h \notin Range(tx[handle[h].by].files)

(* Every handle gets closed: nobody waits forever for the namespace lock, unless
   another thread lives on with such a block, and the lock with it. *)
EveryHandleCloses ==
  \A h \in Handles :
    IsOpen(h) ~> \/ ~IsOpen(h)
                 \/ [](\E g \in Handles : Stranded(g) /\ handle[g].by # handle[h].by)
=============================================================================
