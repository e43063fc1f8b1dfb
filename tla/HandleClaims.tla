---------------------------- MODULE HandleClaims ----------------------------
(***************************************************************************)
(* What the documents, docstrings and tests say of write handles and of    *)
(* fs.transaction, and the model of the code refutes.                      *)
(***************************************************************************)
EXTENDS Handles

(* operations.py:211: a writer opens its atomic block in start() and commits
   it or rolls it back in commit() or discard().  So a handle of its own that
   is closed has ended its writer. *)
EveryWriterEnds ==
  \A h \in Handles :
    handle[h] # Unused /\ handle[h].auto /\ ~IsOpen(h) => ~HasWriter(h)

(* operations.py:360 raises FileTooLargeError before anything is stored and
   test_operations_streaming.py:90 expects the write to be rolled back: closing
   a handle whose write() has raised commits nothing. *)
FailedWriteRollsBack ==
  [][\A h \in Handles :
       IsOpen(h) /\ handle[h].failed /\ handle'[h].stage = "closed" => disk' = disk]_vars

(* test_fs.py:642: a file whose commit fails rolls back what fs.transaction
   wrote before; the connection is out of the transaction afterwards. *)
FailedCommitRollsBack ==
  [][\A t \in Threads : CompleteFails(t) => conn'[t] = Idle]_vars

(* usage.md:195: outside fs.transaction each call commits independently: a
   handle that is closed without an exception, while no other one of its thread
   is open, has changed what others see. *)
CommitsIndependently ==
  [][\A h \in Handles :
       /\ IsOpen(h) /\ handle[h].auto /\ tx[handle[h].by].phase = "none"
       /\ \A g \in Handles \ {h} : IsOpen(g) => handle[g].by # handle[h].by
       /\ CloseSucceeds(h)
       => disk' # disk]_vars
=============================================================================
