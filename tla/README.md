# django-fsspec in TLA+

django-fsspec stores files in relational tables and offers them through
fsspec, through plain functions and through WebDAV.  This directory holds TLA+
modules of its behaviour, the TLC instances that check them and the TLAPS
proofs about them.  Paths of code below are relative to the repository; when
nothing else is said they are in `django_fsspec/`.

Contents: 1 the system, 2 the modules, 3 what the runs show, 4 what is proved,
5 disagreements with the documents, 6 assumptions and limits, 7 plan.

## 1. The system

| Part | Code | State | Operations |
| --- | --- | --- | --- |
| Tables | `models.py` | `FileNode` (path, type, size, checksum, block size, version), `StorageBlock` (data, size, checksum, free), `FileBlock` (file, block, sequence), `Namespace` | rows inserted, updated, deleted; `(namespace, path)` and `(file, sequence)` unique; deleting a file cascades to its mappings, a mapped block is protected |
| Namespace operations | `operations.py` | none of their own | write, append, exclusive create, mkdir, rmdir, delete, copy, move of files and of directories, lookups, listings, reads |
| Streaming writer | `operations.py: StreamingFileWriter` | an open `transaction.atomic()`, the node, the version it started from, running size, digest and sequence | `start`, `write_chunk`, `commit`, `discard` |
| File handle | `buffer.py: DjangoFile` | fsspec's buffer, a writer, or the `(file id, version)` of a read handle | `_fetch_range`, `_initiate_upload`, `_upload_chunk`, `commit`, `discard` |
| Filesystem | `fs.py: DjangoFileSystem`, `DjangoTransaction` | thread-local `_intrans`, the queue of deferred handles, the outer atomic block | fsspec's API; `start`, `complete` of a transaction |
| Maintenance | `management/commands/` | a manifest file (migrate) | gc, rechunk, fsck, repair, migrate, namespace, stats |
| WebDAV | `webdav/` | none | PROPFIND, GET, HEAD, PUT, DELETE, MKCOL, COPY, MOVE; permissions; Basic authentication |

The parts interact through the tables.  Operations that change rows open a
transaction and lock the row of the namespace (`SELECT ... FOR UPDATE`), so they
are serialized per namespace; a streaming writer holds that lock from `start()`
to `commit()`.  Readers take no lock and see, query by query, what is
committed.  Of the commands, rechunk locks the row of its file, gc and repair
lock nothing.  WebDAV handlers and the fsspec methods look at the tables and
then call an operation, which looks again under the lock, or does not.

What is hard about it, and where it is treated:

| Behaviour | Part | Module |
| --- | --- | --- |
| lookups before the lock and their use after it | copy, rmdir | `NamespaceDb` |
| a file never above another row, although each operation looks only up or only down | namespace operations | `NamespaceDb`, `NamespaceDbProofs` |
| ownership of blocks through overwrites, deletes, moves | namespace operations | `NamespaceDb`, `NamespaceDbProofs` |
| sizes, checksums and a version that tell every change of bytes | namespace operations | `NamespaceDb`, `NamespaceDbProofs` |
| operations of many statements that promise to be one step | namespace operations | `NamespaceRefinement`, `NamespaceDbProofs` |
| exceptions and crashes between the atomic blocks of handles and transactions | handles | `Handles`, `HandleProofs` |
| several queries per read, no snapshot | reads | `Reads`, `ReadProofs` |
| ranges over blocks of unequal sizes | reads | `Ranges`, `ReadProofs` |
| commands that do not take the namespace lock | rechunk, gc | `Maintenance`, `MaintenanceProofs` |
| phases of a repair that depend on each other, rows damaged in combination | repair, fsck | `Repair`, `RepairProofs` |
| handlers and methods that look before the operation does | WebDAV, `fs.py` | `WebDav`, `Adapter`, `Clients`, `CallerProofs` |
| listings that look child by child | `list_directory_detail`, PROPFIND | `Listings`, `CallerProofs` |
| rows found long before they are used | `fsspec_namespace`, the permission check | `Namespaces`, `CallerProofs` |
| kills, failing reads, resume with a manifest, other writers on the target | migrate | `Migrate`, `MigrateProofs` |

What makes each component correct: the tables stay a tree with one owner per
used block; an operation is all or nothing and leaves rows that describe their
bytes; a version tells every change a reader could notice; a handle or a
transaction that fails leaves nothing behind and nothing open; a read returns
bytes of one version or an error; a command that reorganizes blocks changes no
content and frees nothing that is in use; a repair leaves what fsck passes.
A migration that exits 0 has migrated everything and destroyed nothing of others;
a handler that answers, or a method that returns, has done what that says.
`PROJECT.json` lists the hazards one by one with the properties that watch them.

## 2. The modules

`Paths` <- `Tables` <- { `NamespaceDb`, `Handles`, `Reads` (with `Ranges`),
`Maintenance`, `Repair` }: the first two are pure operators, the others state
machines over the same rows.  `Paths` <- `FileSystem` <- { `Migrate`, `Listings`,
`WebDav`, `Adapter` }, and `Clients` composes the last two: what `NamespaceDb` is
shown to implement is the ground on which its callers are modelled.  `Namespaces`
stands alone.

**Paths** (`validators.py`, path helpers of `operations.py`).  A path is its
sequence of segments, the root is `<<>>`.  Exact comparison and the `LIKE` of
`path__startswith` are kept apart: `LikeClass` says which names a backend's
`LIKE` confuses (on SQLite those that differ in case).

**Tables** (`models.py` and the helpers and the writer of `operations.py`).
Operators on a database value `[nodes, blocks, maps, nodeSeq, blockSeq]`:
lookups, row changes with cascades, `ReleaseFileBlocks`, `AttachBlocks`, and
the writer's `StartDb`, `WriteChunkDb`, `FinalizeDb` as functions from one value
to the next.  `NodeRowSound`, `TreeSound`, `GraphSound`, `RowsMatchContent` say
what the rows should be.

**NamespaceDb** (`operations.py`).  `db` is what is committed, `tx` the open
transaction of the one streaming writer that has the lock, `inflight` the calls
of `copy_file` and `remove_directory` between their unlocked lookup and their
locked part.  One action per operation: an operation that runs in a single call
under the lock is one action.  **FileSystem** is the abstract promise, a
partial function from paths to a directory or a file with its bytes and one
atomic step per call; **NamespaceRefinement** maps the rows to it.
**NamespaceClaims** holds what the documents say and the code does not do.

**Handles** (`buffer.py`, `fs.py: DjangoTransaction`, the atomic blocks of the
writer, Django's `atomic` as external code).  Each thread has a connection with
a stack of atomic blocks, `disk` is committed.  A handle buffers, starts its
writer at the first flush and finishes it in `close()` or when the
`fs.transaction` completes.  `Habits` names what the code leaves to its callers:
going on after an exception, two handles on a path, a transaction started with
a handle open.  `KeepsLocks` and `ReusesIds` are the two ways databases roll
back to a savepoint.  **HandleClaims**: the disagreements.

**Ranges** (`read_file_range`, `_read_file_range_with_integrity`,
`read_file_streaming_range`): the range algorithms over a list of blocks, the loop
of the streaming and the checked one as a recursive function, the unchecked one as
a search for the first and the last block.  **Reads** (the read functions, read handles, WebDAV GET):
every query of a read is a step, and whole operations are committed between
any two.

**Maintenance** (`fsspec_rechunk.py`, `fsspec_gc.py`, and the writers as far as
they meet them): statements of concurrent transactions under READ COMMITTED with
row locks.  `tx[t].change` is what transaction `t` has changed, a statement
waits for the rows it changes, and any transaction can be rolled back at any
step: by an error, a crash or a deadlock that the database resolves.

**Migrate** (`fsspec_migrate.py`): `tree` is the target, a `FileSystem`; `source`
is the other one, `manifest` the lines written so far, `job` the run of the
command.  A run goes through its entries one after another, each a step per call
of the target or the source: look, conflict policy, makedirs, stream (read by
read, with an end that the source may refuse), move of the temporary file,
clean-up, verification, line of the manifest.  A source can be larger than a file of
the target may be: then `write()` raises, and the entry is an error (`WriteRaises`),
or `close()` does (`CloseRaises`), and the writer's transaction stays open.  The rest of
such a run writes lines for rows that are never committed; it is kept down to these
lines (`ProcessUnsaved`), and `lost` are the successes among them.  A run can be killed
before every step and is started again with `--resume`; others store, delete and create
directories at the targets and change the source between any two steps.

**WebDav** (`webdav/views.py`) and **Adapter** (`fs.py`): each handler, and each
method that takes several calls, is a program counter over steps of
`FileSystem`: what `put`, `mkcol`, `copy` and `move` look at and then do, `mv`,
`copy`, `touch`, `makedirs` and `rm` of a `DjangoFileSystem`.  **Clients** interleaves
any number of both on one tree and keeps three histories: the tree at the
beginning of a request (`before`), who was disturbed since (`raced`), and how
often a path was created exclusively (`wins`).  **Listings** takes `ls`, the tolerant
one too, and PROPFIND query by query while others change the tree.
**ClientClaims**: the disagreements of these.

**Namespaces** (`fsspec_namespace.py`, `webdav/permissions.py`, `dispatch`): the
rows of `Namespace`; commands look, and change in a transaction of their own, an
update by reading the groups of a row and then changing what differs;
requests find their namespace, ask for the rights of their user in up to five
queries, and reach the operation, which locks the row if it writes.

**Repair** (`fsspec_repair.py`, `fsspec_fsck.py`): rows of several namespaces, a
damager that changes any column by hand, writes, and repairs with and without
`--namespace` and `--recover-path-conflicts`.  `Repaired` is the composition of
the phases in the order of `handle`, `Findings` the codes that fsck would print
with the same scope, `PreviewOutcome` the dry run.  **RepairClaims**: the
disagreements.

The `MC*` modules give TLC the constants; an operator commented as "Mutant of"
stands before the definition whose plausible bug it is, and is used by nothing
else.  `PROJECT.json` maps each definition to its lines of code.

## 3. What the runs show

Passing runs (state counts in distinct states):

| Run | Instance | Shows |
| --- | --- | --- |
| `blocks` | two paths, two nodes, four blocks of two bytes, files of up to three, one call in flight (150,408) | `BlockGraphOK`, `ContentOK`: one owner per used block, gapless sequences, sizes and checksums of what is stored; `TransactionOK`: an open writer will not conflict; `VersionGuardsContent`: content never changes under a version; `FreeBlocksStayFree`: what gc relies on; `ImplementsFileSystem` with files of several blocks and calls that start from a stale lookup |
| `implements` | two names, directories to depth two, three nodes (22,684) | `TypeOK`; `TreeOK`: one row per path, no file above a row, under every mix of writes, mkdir, rm, mv, mv of directories; `ImplementsFileSystem`: every operation of `NamespaceDb` is one step of `FileSystem` or none |
| `handles` | two threads, two handles, two paths, crashes, lock timeouts (766,974) | what is committed is always a sound tree of finished files (`CommittedOK`); a transaction that completes has committed each of its files as finalized (`AllOrNothing`); one atomic block per writer and per transaction (`StackBalanced`) |
| `handles_liveness` | two threads that compete for the lock, blocks of two bytes written one by one, so that `close()` has something to store and may fail (248,920) | every handle gets closed, unless another thread lives on with the block of a `close()` that failed |
| `reads` | one reader, overwrites, appends, deletes, rechunks between queries; every cut of up to 7 bytes into blocks, every range to beyond the end (236,929) | a read returns a slice of something committed, a checked read bytes that match the row it saw, a read that nothing disturbs succeeds, a stale handle raises; all three range algorithms return the slice, the checked one verifies just the blocks it needs (`RangesAreSlices`) |
| `maintenance` | two rechunks, a gc and a writer on two paths (1.77 million) | rows describe their content, every change of layout has a version of its own, rechunk keeps content, gc deletes only garbage; no commit but that of a move over a directory leaks a block (`OnlyMovesLeak`) |
| `repair` | two files in two namespaces, every two damaged fields; three files, paths damaged into nests and invalid paths (79,557) | see below |
| `migrate` | a directory and files, a single file, or a file larger than the limit beside an empty one; two runs, every policy, with and without temporary files, one kill or failing read and one change by others (6.0 million) | see below |
| `migrate_liveness` | up to three runs, two kills or failing reads, files within the limit (195,775) | `Converges`: the command, run again until it exits 0, does so under `overwrite` and `checksum` |
| `clients` | two WebDAV clients and a program, three requests or calls of some thirty; a listing with two changes by others; one visitor and two operators on three namespaces (2.3 million) | see below |

Repair: a run that exits 0 leaves nothing for fsck of the same scope
(nested conflicts and unknown node types excepted, see 5); whatever remains,
every file of the scope then reads under the `checksum` policy, and a second run
changes nothing (`RepairSettles`, with the three as conjuncts); content is kept; the version grows exactly when something a reader relies on was changed; no
block of a file is handed to gc, by a repair or by an overwrite of a file that
shares it; `--namespace` touches nothing else; the dry run warns of what would
remain.

Migrate: an exit with 0 means that every entry is at its target with the bytes of
the source, or has been changed by somebody since, and that nothing temporary of
the run is left (`ExitOkMeansMigrated`), but for the entries that a resumed manifest
has from a run whose writer was not left (see 5); with temporary files no target ever
has a part of a file (`TargetNeverPartial`); after any faults, an undisturbed run that
no read fails and whose files all fit the limit succeeds under `overwrite`, and under
`checksum` if files were only moved into place, unless an entry of the other type is at
a target or a file above one (`RetriesSucceed`, `Clash`, `Oversized`); an entry of others
outlives every step, but for direct writes and for a file that `overwrite` is to
replace (`ForeignEntriesKept`).

Clients: of all who are told that they created a path by MKCOL or by MOVE with
`Overwrite: F` one is (`ExclusiveCreates`); an answer, or a return, in whose way
nobody came is true of the tree (`QuietOutcomesAreTrue`);
whoever comes in between, no file is destroyed but by somebody who may replace or
delete it, where a conditional PUT or COPY or a `touch` without truncation may
only if it was raced (`LossesAreAsked`).  A listing has every child that nobody
touched, as it is, and nothing that was not there at some time
(`ListingsAreTrue`).  No interleaving of deletes and requests leaves files without a
namespace, creates keep names unique (`NamespaceRowsOK`), and a permission decision that nobody disturbed is the
documented one (`SteadyDecisionsAreRight`).  The three parts of this run are
disjoint behaviours of one instance.

Bounds.  Two names and depth three give siblings, ancestors and cousins, which
is all that the path predicates compare.  Three nodes allow source, destination
and a bystander (two where blocks are the question); ids are handed out once, so deletes and re-creations are within
the bound.  Two-byte blocks with files of up to three bytes have partial blocks,
block boundaries and a last block that an append leaves short.  In `Maintenance`
a third rechunk would only repeat the second: they meet at one row lock.  Two
damaged fields make every pair of phases of a repair meet; three rows make the
smallest nest of conflicts.  Versions, ids, damages and recoveries are bounded
in guards by the constants `Max...` and by `Stamps`; the lock-free calls by
`MaxInflight`.  `CHECK_DEADLOCK FALSE` everywhere: under the bounds the system
ends, as a program without further calls does.

In `migrate` two runs, a fault and a change by others let every step of the second
meet what the first has left; a third run would start from a state that a second one
can leave as well, and `migrate_liveness` has three.  The file that is too large has
one byte more than the limit of two, so that a prefix of each length can be committed.  In `clients` two clients can
race in each handler, a program beside them in each method, and the third
request comes after both; the trees have an implicit and an explicit directory,
an empty one and a file beside them.  Two changes by others are what a look at a
row and at the rows below it can fall between.  Four events of `Namespaces` are
what it takes to make a namespace, put its user into a group, send a PUT and
delete it.

Fairness is used in two runs.  `FairMigrateSpec` assumes that a run that is not
killed goes on and that the operator runs the command again until it exits 0:
weak fairness of both, with kills and failing reads bounded by `MaxFaults`.
`Handles!FairSpec` assumes that the program closes
its handles and leaves its `with fs.transaction` blocks (weak fairness of exit
and completion) and strong fairness of `close()`: `close()` may have to start a
writer, which waits for the namespace lock, which is free again and again
because other threads close theirs; a database grants a waiting `FOR UPDATE`
some time.  It is not when a `close()` has raised outside `fs.transaction`: as long as
its thread lives and does not end the block, the others wait, and `EveryHandleCloses`
says no more than that nothing else makes them wait (`Stranded`).  Nothing relies on a
lock timeout or on the absence of crashes.

## 4. What is proved

For every value of the constants (any names, depths, block sizes, bounds,
threads, handles, `LIKE` classes unless said otherwise):

| Theorem | Module | States |
| --- | --- | --- |
| `TypeCorrect` | `NamespaceDbProofs` | `Spec => []TypeOK` |
| `BlockGraphCorrect` | `NamespaceDbProofs` | `Spec => []BlockGraphOK` |
| `FreedForGood` | `NamespaceDbProofs` | `Spec => FreeBlocksStayFree` |
| `VersionsTell` | `NamespaceDbProofs` | `Spec => VersionGuardsContent` |
| `ContentCorrect` | `NamespaceDbProofs` | `Spec => []ContentOK` |
| `TreeCorrect` | `NamespaceDbProofs` | `CaseSensitiveLike` implies `Spec => []TreeOK` |
| `TransactionCorrect` | `NamespaceDbProofs` | `CaseSensitiveLike` implies `Spec => []TransactionOK` |
| `RefinementCorrect` | `NamespaceDbProofs` | `CaseSensitiveLike` implies `Spec => ImplementsFileSystem` |
| `RowsCorrect` | `MaintenanceProofs` | `Spec => []RowsDescribeContent` |
| `GarbageCorrect` | `MaintenanceProofs` | `Spec => []GcListsGarbage` |
| `LayoutsCorrect` | `MaintenanceProofs` | `Spec => LayoutBumpsVersion` |
| `LeaksCorrect` | `MaintenanceProofs` | `Spec => OnlyMovesLeak` |
| `RechunksCorrect` | `MaintenanceProofs` | `Spec => RechunkKeepsContent` |
| `RangesCorrect` | `ReadProofs` | `RangeSpec => []RangesAreSlices` |
| `ReadsCorrect` | `ReadProofs` | `Spec => []ReadsAreSlices` |
| `ChecksumsCorrect` | `ReadProofs` | `Spec => []ChecksumReadsRow` |
| `StaleHandlesCorrect` | `ReadProofs` | `Spec => StaleHandlesRaise` |
| `CalmReadsCorrect` | `ReadProofs` | `CaseSensitiveLike` implies `Spec => []CalmReadsSucceed` |
| `StackCorrect` | `HandleProofs` | `Spec => []StackBalanced` |
| `CommitsCorrect` | `HandleProofs` | `PlainUse` implies `Spec => []CommittedOK` |
| `TransactionsDeliver` | `HandleProofs` | `PlainUse` implies `Spec => AllOrNothing` |
| `CreationsAreExclusive` | `CallerProofs` | `Spec => []ExclusiveCreates` |
| `OnlyAskedLosses` | `CallerProofs` | `Spec => LossesAreAsked` |
| `OutcomesAreTrue` | `CallerProofs` | `Spec => QuietOutcomesAreTrue` |
| `NamespaceRowsCorrect` | `CallerProofs` | `NamespacesSpec => []NamespaceRowsOK` |
| `DecisionsAreRight` | `CallerProofs` | `NamespacesSpec => SteadyDecisionsAreRight` |
| `ListingsCorrect` | `CallerProofs` | `ListingSpec => []ListingsAreTrue` |
| `MigrationsSpareOthers` | `MigrateProofs` | `TempNameIsReserved` implies `MigrateSpec => ForeignEntriesKept` |
| `MigratedFilesAreWhole` | `MigrateProofs` | `TempPathsArePrivate` implies `MigrateSpec => []TargetNeverPartial` |
| `ExitOkIsTheTruth` | `MigrateProofs` | `NamesAreNew` implies `MigrateSpec => []ExitOkMeansMigrated` |
| `CleanRunsSucceed` | `MigrateProofs` | `NamesAreNew` implies `MigrateSpec => []RetriesSucceed` |
| `RowsStayStorable` | `RepairProofs` | `Spec => []Stored` |
| `OneRepairIsEnough` | `RepairProofs` | `Spec => []RepairSettles` |
| `RepairKeepsBytes` | `RepairProofs` | `Spec => RepairKeepsContent` |
| `RepairCountsVersions` | `RepairProofs` | `Spec => RepairBumpsVersion` |
| `BlocksOfFilesStayLive` | `RepairProofs` | `Spec => LiveBlocksStayLive` |
| `RepairLeavesOthers` | `RepairProofs` | `Spec => RepairStaysInScope` |
| `DryRunWarns` | `RepairProofs` | `Spec => PreviewWarns` |

*Blocks.*  `BlockGraphOK` speaks of the committed rows only and is not
inductive: a commit publishes what a writer made.  `GraphInv` adds that the
transaction of an open writer is sound in its own right, that its row is there
in the version and with the sequences it counts on, and that the blocks a copy
has still to read exist.  The lemmas before it say what `ReleaseFileBlocks`,
`AttachBlocks`, `InsertNode` and `DeleteNodes` do to a sound graph, each once;
the step theorem has one lemma per action.

*Versions.*  A commit changes many rows at once, so what holds from one
committed state to the next is carried through the transaction: `VersionInv`
compares what is committed with what the open writer has made of it.  Blocks are
kept, new ids are new, and every file that is there in both has the mappings it had
or a higher version, except the one that an append has yet to raise.
`SameContent` turns this into bytes: the same mappings to kept blocks give equal
arguments to the fold, so equal content, once `OrderedMapsAre` has shown by
counting that the ordered mappings of a sound file are its own.

*Content.*  `ContentInv` is `RowsMatchContent` of what is committed and, of an open
transaction, that every other file and every block match their bytes, that what
the writer has hashed is what is stored of its file, and that it has counted as
many bytes: its own row says nothing until it is finalized.  What `Content` is,
a fold over the ordered mappings, is settled in `TableProofs` for every length:
`NumbersInductively` is induction over a set of numbers, and a lemma by induction takes for
it the set of the lengths at which its claim holds, since a claim cannot be handed over
as an operator.  From there on `FlattenAppend`, `FlattenConcat` and
`FlattenPieces` say what is joined when blocks are added at the end.

*Tree.*  `TreeInv` adds to `GraphInv` that both the committed and the open rows
form a tree.  It needs `CaseSensitiveLike`: the guards look below with `LIKE`
and above with `=`, and with a `LIKE` that confuses names the moves and mkdir do
break the tree (`MCClaimSqlite.cfg`).

*Refinement.*  `LinkInv` is `TreeInv`, `ContentInv`, and what a call under way must
know for its commit to be the step that `FileSystem` promises.  `SizesFit`: no
committed file exceeds the limit that both levels test.  `WriterInv`: against what
is committed, the transaction differs in the writer's file only; that file is new,
or the one at the path the writer may start on, and in an append it has the
committed bytes in front.  `CallInv`: the source of a copy that has looked it up is
still that file or gone for good, and the blocks copied so far are the first of it.
Each operation then has a lemma that its step performs an abstract one or
stutters.  `CaseSensitiveLike` is needed as for the tree.

*Maintenance.*  Here nothing is serialized but rows, and a commit publishes what a
transaction has decided from earlier reads.  `MaintenanceInv` therefore says, beside
`RowsMatchContent` of what is committed, what each open transaction knows, step
by step (`RechunkOk`, `OverwriteOk`, `AppendOk`, `RemoveOk`), what it has changed
(`ChangeOk`: it maps only blocks it has made, and frees only blocks whose mappings
it has removed), and what the collectors have listed (`ListOk`).  `Apart` keeps the
locks of two transactions disjoint.  The proof is rely and guarantee: `RowsLet`
is what a step of somebody else leaves alone given those locks and the version
test of the writer, and what a transaction knows survives it.  `StepOk` has three conclusions
for every action: the invariant, `LaysOut` (a new layout has a later version), and
`BlocksOwned`, which only a move over a directory may break.  The five theorems
follow; `RechunkEnds` shows that a rechunk that ends with a change of the disk ends by its
own last statement.

*Ranges.*  The bytes of blocks joined up to the i-th (`UpTo`) are what the loops are
measured by.  `Walking` is the loop's invariant: what was emitted is the slice of
what was passed, the blocks seen are those that reach into the range, and the
offset is the length passed unless the loop was left, which it is only when the
range is full.  `Meet` holds the arithmetic of one block on its own, away from
sequences, and `SliceGoesOn` says that cutting and joining commute.  The search of the
unchecked read needs `IndexedIs`: all blocks before the first end at or before the
range, the last reaches its end or there is no further.  `WalkGives` and
`IndexedGives` state the results for every sequence of blocks, empty ones too, and for ranges
beyond the end; `RangesCorrect` puts them together for the instances that the run
`reads` enumerates, now for every `MaxLen`.

*Reads.*  `ReadsInv` has three parts.  What is committed is sound (`Good`), so the
query for the blocks gives rows that pass every check and join to the content
(`BlockRowsAre`).  A commit `Evolves` what is stored: ids are not reused, versions do
not fall, and where the version is the same so are the bytes; shown for a write, a
delete, and a rechunk, which is an append of the whole content to the emptied
file (`RechunkAppends`).  And every reader knows what `ReaderRight` says: a handle,
the content that belongs to its version (`HandleKnows`); a whole read that has its
blocks, that they pass the checks, and that they are what the row describes if the
row was the same at that time (`LoadedRight`).  That a checked whole read returns
what its row describes holds without that: it needs only that the row it saw was one of a
finished file, with a checksum (`RowFinished`).  That a calm read succeeds needs
`CaseSensitiveLike`: where `LIKE` confuses names, the query for rows below the
file may find those of another.

*Stack.*  `StackInv` says what shape a connection, a handle and a transaction
can have, and counts: the atomic blocks on a connection are as many as the
started writers of its thread plus one for its `fs.transaction`.  Exceptions,
timeouts and crashes are actions like others.  The theorem holds for every
`Habits`: blocks are never lost, they are only left by the wrong owner.

*Commits.*  What is committed is what a connection has made of its rows by the time
its last block is left, so `CommitInv` says of every thread what its uncommitted
rows are worth (`WorkOk`): a sound tree in which every row describes its bytes,
but for the files that a writer is at work on, which hash and count what is
stored of them so far; and every file that the transaction has finished is there, as
one of its handles finalized it or with a writer at it again.  That is not so of
every thread, and need not be: only of one that can still commit (`Sane`).  A thread
is not sane while its connection is marked for rollback, while an exception
or a discard is on its way, or while it has an abandoned writer, one whose
`close()` has failed or whose transaction is over: the block of such a writer is
never left, so the outermost block is not either, and nothing that the thread does
from then on is committed (that is the disagreement `CommitsIndependently` of 5).
The heart of the proof is that a step leaves a thread sane and with the lock only
if it was so before or nobody else has the lock.  Two sane threads never have it
at the same time (`OneLock`), although on a backend that drops locks at a savepoint
others get it while a thread still writes.
`PlainUse` is `Habits = {}`, which the guards of the model ask of the program: that an
exception leaves the `fs.transaction` it is raised in, that a thread has one
handle open per path, and that it starts `fs.transaction` with none open.
`MCClaimHabits.cfg` shows that `CommittedOK` is false without any of the three.
The runs check the properties with the same `Habits`.

*Clients.*  `ExclusiveCreates` counts; `WinsInv` adds that who has won is still
there.  `CreatesWhereNothingIs` goes through the handlers: an answer that counts
comes from an operation that found nothing at the path, whatever the look before
it has seen.

For `LossesAreAsked`, each operation of `FileSystem` has a lemma that names the rows
it does not spare (`Spares`): those at the path it writes to or removes and, for a move
and a delete, below it.  `LossInv` says what a step has seen when it uses it: a conditional
PUT, a COPY without overwrite and a `touch` that keeps what is there have found nothing at
the path, which is still so unless somebody came in between (`LookedFirst`,
`TouchesNothing`); the operation of a MOVE looks again under the lock.

`QuietOutcomesAreTrue` compares the tree at the last call with that at the first.
`QuietInv` therefore follows every agent that nobody has come in the way of: the rows below
its paths are those of the old tree (`Unchanged`), and what its looks have found is true
of that tree (`Learned` for handlers, `MethodLearned` for methods).  Others keep both:
`Moved` puts whoever they disturb into `raced`.  A recursive copy disturbs itself,
so of it only the source is unchanged once it writes (`Still`), and the invariant says
what it has to do (`Gathered`: the source, or at least every row below it) and what is
done (`CopiesMade`).  An item does not undo an earlier one because two items of a
source have different targets (`RebaseBack`), none of which is in the source
(`ApartSays`).  `NumberedTree` adds that ids are unique, which is what a copy and a PUT
rely on that address a file by its id.  `OutcomesAreTrue` is put together from one
lemma for each kind of handler and method; a path is a sequence of any length, a directory
of any depth and size.

The proofs about clients rest on `ClientsAssumption` (no thread is both a client and a
program), `WebDavAssumption` and `AdapterAssumption` (paths are sequences of names, and a
program does not move, copy or touch `/` itself) and `TreesAssumption` (the trees to begin
with are ones that the operations make: nothing below a file, distinct ids).

*Namespaces.*  `RowsInv` adds that a delete past its checks has not found the
default namespace.  `SteadyInv` says what a request knows at each query as long
as nobody comes in its way (`Knows`): the decision follows from it, and a change
that does not disturb the request keeps it.

*Listings.*  `ListingInv` says what a listing knows between two queries: the history
has whatever is, or was asked about, at its present kind (`HistoryInv`); the names
listed are children, of which those that nobody touched are still there
(`ChildrenInv`); a lookup whose first query found no row, and the second look of the
tolerant listing, are right about such a child (`LookInv`, `TolerantInv`); and of these
children exactly those are reported, once, that are no longer to be looked up
(`ReportsInv`).  `StableKept` carries this over the changes of others; `ParentSays`
is why a directory with such a child never ends in an early error.
`ListingSpec` starts in any tree with nothing below a file (`SoundTree`), and the
proof shows for each operation of `FileSystem` that others use that it leaves such a
tree: paths are sequences of any length, so there are lemmas on prefixes, on
`Rebase` and on what lies below what.  The run `clients` starts in such trees.
What `ListingsAreTrue` concedes is what the code does: a plain `ls` may show a child
that is gone as a directory, and a tolerant one may end in an error when a file turns
into a directory under it.

*Migrations.*  A run is a long sequence of calls, and others work on the target between
any two of them.  `MigrateInv` says what the run can count on all the same: the tree is
one (`HeldTree`), its entries were found in the source once (`Placed`), and the
temporary file is as it was written or gone (`TempIsFile`).  `TargetChange` lists the five
ways in which a step can change the target; each way has a lemma of `FileSystem` that
says which rows stay.  For `ForeignEntriesKept`, everything stored under the reserved
name is the command's own (`TempsMine`), so that what it overwrites, moves and removes
there is nobody else's.  For `TargetNeverPartial`, `CopyInv` follows the bytes: what has
been read is a prefix of the source, the temporary file at the time of the move all of it.
`PlacesInv` is stronger than the property: it speaks of every place where any run may have
put a file, since a later run can have other entries.  That a move into a directory that
has appeared in the way does not hit the target of another entry is `SamePlace`: there would
have to be an entry below a file.

For `ExitOkMeansMigrated` the invariant must follow an entry from the step that puts it
in its place to the exit of a later run, which takes it from the manifest.  `RunsInv` has
one part for each reason why the word of a run can be believed.  `PlanInv`: what a run
has passed without trouble is claimed, by its own lines or by those it resumes from
(`Claims`), and no entry is claimed while it is worked on.  `LooksInv`: what a lookup has
seen is still so when it is used, or somebody else has touched the path (`Calm`).
`ArrivalInv`: what is claimed, or stands before its line (`Pending`), is at its target.
It survives the work on other entries because no two have the same target and no step
removes what is outside the temporary paths (`RowsKept`).  `ImplicitInv`: a directory
without an entry of its own is held by something that is not temporary, and so does not
go with the temporary paths.  `TempsInv`: paths with the uuid4 of the run are there only
in the phases that use them, unless there is trouble to report.  TLC has checked each part
on the instances of `migrate`.  A file that is too large ends its entry in an error, so
the run does not exit with 0; but if its `close()` raised, the lines that follow are
successes of rows that roll back.  `Claims` are therefore the lines without those
(`lost`), until a later run without `--resume` begins a new manifest or an entry is
taken up again.

`RetriesSucceed` is the converse: a run with nobody at work beside it (`Alone`) does exit
with 0.  `FailsForAReason` goes through every step that can end an entry without success
and finds what is in the way (`Reason`): an entry of the other type at a target, a file
above one, a file that is too large, or, under `checksum`, a file that no run has moved
there.  Each part of the
invariant closes one way of failing without a reason.  `ReadyInv`: the file that was
seen is still there when it is compared, a file at a target to be moved to was seen by
the entry's own lookup, which under `overwrite` is what lets the move replace it, the
temporary file waits for its move, and what is verified is what was read.
`FilesEndPlain`: what killed runs leave behind never makes a file of a temporary
directory; `TempsInv`: nor is anything at the new temporary path.  `ReasonStays`: no step
of a run clears what was in its way, so at the exit the reason is still to be seen.  The proof
showed that `Clash` had to count a file above the target of the command line, in whose
way every entry is and which no instance had.

The theorems have hypotheses, on constants, which `MCMigrate` asserts for its instances:
`TempPathsArePrivate` (nobody else writes below `.django-fsspec-migrate-tmp/<run id>`, and
nothing is migrated to there; the id is a new `uuid4`), `TempNameIsReserved` (nobody
else uses the name of the outer directory), and `NamesAreNew`, which implies the two (the
runs have different ids, and neither the source nor what others write nor what was at
the target before uses one, or that name).

*Repair.*  A damaged database is anything its columns and constraints take, so the
invariant is just that (`Stored`): rows with values of the columns' types, mappings
between rows that are there, no two of a file with one sequence (`Storable`).  It is what
an operator cannot break and what every phase may count on; `RowsStayStorable` also
says that no phase breaks it.  The rest is about the phases.  Sequences after damage
have gaps and may be negative, so the proofs speak of ranks: `Rank` counts how many
mappings of the file come before one, `Renumbered` is the set with its ranks for
sequences, and the content of a file is the same for a set of mappings and its
renumbering, whatever the gaps.  Each phase has a lemma of what it leaves of the rows;
`RepairedShape` puts them together in the order of `handle`, `RowsRepaired` is what
the action properties need of it, for any scope.  `Settled` says that no phase would find
anything to do: `Repaired` reaches it in one go because no phase undoes what an
earlier one has done, and from it follow both that fsck is content and that a second
repair is a no-op.  Recovery changes only paths (`Recovered`), hence neither conflicts of
another kind nor contents.  For the dry run: paths are not among what the phases change,
so it sees the conflicts and the moves of the repair.

Every invariant and every action property that the runs check is stated by a theorem.
Only model-checked: liveness (`EveryHandleCloses`, `Converges`), since fairness and
`ENABLED` are out of the prover's reach.

## 5. Disagreements with the documents

Each configuration below makes TLC find a statement of the documents, a
docstring or a test violated.  The first two are runs of `PROJECT.json`, with a
finding that quotes the line; the others are run by hand, for instance with
`tlc -config MCClaimNamespace.cfg MCNamespaceClaims`.  A configuration with
several properties has one of them active and the others as comments, to be taken
one at a time.  The last column is what is violated.

| Configuration: property | Module | What happens | Against |
| --- | --- | --- | --- |
| `MCClaimIndependent` (run `claim_independent`): `CommitsIndependently` | `MCHandleClaims` | after a handle whose `close()` raised, another handle of the thread that is opened, written and closed on its own commits nothing | `docs/en/usage.md:195` |
| `MCClaimHandleReads` (run `claim_handle_reads`): `HandleReadsOneVersion` | `MCReads` | a range read of an overwritten file passes the check of its version in one query and returns bytes of the new version from the next | `docs/en/usage.md:226-228` |
| `MCClaimNamespace`: `CopyCopies` | `MCNamespaceClaims` | a copy onto a path that by then is its own source commits an empty file | `operations.py:1052` |
| `MCClaimNamespace`: `MoveKeepsSource` | `MCNamespaceClaims` | `move_directory` with overwrite onto a directory above the source deletes the source | `docs/en/usage.md:94-96` |
| `MCClaimNamespace`: `RmdirKeepsFiles` | `MCNamespaceClaims` | `remove_directory` deletes a file put in place of the directory after its check | `operations.py:896`, `docs/en/usage.md:46` |
| `MCClaimSqlite`: `DeleteStaysBelow`, `NoFileAboveAnother` | `MCNamespaceClaims` | SQLite's `LIKE` ignores case: a recursive delete takes a sibling directory, mkdir goes below a file | `docs/en/usage.md:68`, `specs/data-integrity-hardening/design.md:64` |
| `MCClaimHandles`: `EveryWriterEnds` | `MCHandleClaims` | a handle whose `close()` fails leaves its atomic block entered | `operations.py:211-213` |
| `MCClaimHandles`: `FailedWriteRollsBack` | `MCHandleClaims` | `close()` after a failed `write()` commits the file without it | `tests/test_operations_streaming.py:89` |
| `MCClaimHandles`: `FailedCommitRollsBack` | `MCHandleClaims` | a failed `complete()` leaves atomic blocks entered | `tests/test_fs.py:642` |
| `MCClaimHabits`: `CommittedContentOK` | `MCHandleClaims` | overlapping handles, a transaction started with a handle open, or one that goes on after an exception, commit files that are not finished | `docs/en/architecture.md:105-113`, `docs/en/usage.md:183` |
| `MCClaimMaintenance`: `NothingLeaks` | `MCMaintenance` | a rechunk inside `move_directory`'s overwrite leaks a block | `docs/en/architecture.md:99` |
| `MCClaimMaintenance`: `GcKeeps` | `MCMaintenance` | two gc commands delete more than `--keep` allows | `fsspec_gc.py:14` |
| `MCClaimRepair`: `RecoveryEndsConflicts` | `MCRepair` | recovery of nested path conflicts exits 0 with one left | `docs/en/management-commands.md:33`, `tests/test_integrity_adversarial.py:540` |
| `MCClaimRepair`: `OnlyDescendantsMove` | `MCRepair` | a global recovery moves healthy rows of another namespace | `docs/en/management-commands.md:187`, `tests/test_commands.py:566` |
| `MCClaimRepair`: `NoCriticalAfterRepair` | `MCRepair` | repair exits 0 over a node of unknown type | `docs/en/management-commands.md:33` |
| `MCClaimClients`: `RecursiveCopyKeepsPaths` | `MCClients` | a recursive copy of a directory whose only entry is a file makes the destination that file | `tests/test_fs.py:183` |
| `MCClaimClients`: `PropfindAnswers` | `MCClients` | PROPFIND with depth 1 of a file is a 409 | `webdav/responses.py:35` |
| `MCClaimClients`: `HealthyStayVisible` | `MCClients` | a tolerant listing raises when a child becomes a directory between two queries | `docs/en/usage.md:59` |
| `MCClaimClients`: `ConditionalWritesKeep` | `MCClients` | a PUT with `If-None-Match: *` or a COPY with `Overwrite: F` replaces a file stored after its look | `tests/test_webdav.py:229`, `:314` |
| `MCClaimRetry`: `FailedEntriesAreRetried` | `MCMigrate` | with `--no-temp` and `skip`, a file that failed halfway is skipped by the next run | `docs/en/management-commands.md:87-88` |
| `MCClaimRetry`: `ResumeSkipsSuccesses` | `MCMigrate` | after a file too large for the target has failed in `close()`, later entries are recorded as copied in a transaction that rolls back, and `--resume` exits 0 without them | `docs/en/management-commands.md:87-88` |

`fsspec_fsck --namespace` counts the owners of a block
within the namespace, `fsspec_repair --namespace` all of them: the second can
exit 1 where the first passes.  `docs/en/usage.md:208` and
`docs/en/architecture.md:72-90` describe earlier versions of the read path and of
the writer.

## 6. Assumptions and limits

- SHA-256 is injective; a blank checksum is a value of its own.
- `=` on paths is exact (a MySQL collation that ignores case is not modelled).
- The temporary prefix of `move_directory` fits the column and collides with
  nothing.
- Constraints of the database refuse a statement; the operation then raises.
- In `NamespaceDb`, `Handles`, `Reads` and `Repair` an operation under the lock is
  atomic for everybody but its own transaction.  `Maintenance` drops this for
  the operations that meet rechunk and gc.
- A statement is atomic once its locks are granted.
- Timestamps, content types and messages are left out.
- In `Repair` nothing runs next to a repair.  The temporary sequences of its
  renumbering are left out.  The timestamp in the path of a recovered file is a valid
  segment (it has digits only).
- The models over `FileSystem` (`Migrate`, `Clients`, `Listings`) assume a `LIKE` that
  tells names apart, and that a writer from `start()` to `commit()` is one step for
  others, which `NamespaceRefinement` shows.
- `Migrate`: `_safe_rmdir`, which asks and removes, is one step; a failing read
  commits what was streamed, as the `with` block of the target does.  A move of a
  temporary file to a path where a directory has appeared goes into it, and under
  `overwrite` replaces a file of the same name there.  Under `skip` a file moved by a run
  that was killed before its line is reported as existing by every later run.
  Temporary directories of killed runs stay.  Each run is a process of its own, which
  rolls back what it leaves open; what a run finds inside a transaction that it cannot
  commit any more is left open, every outcome of an entry is possible there.  How much
  of a file that is too large has been stored when `write()` raises depends on the
  sizes of blocks and chunks: any part within the limit.  Left out: `--dry-run`, summaries and
  JSON, torn lines of the manifest, a target whose `mv` does not know `overwrite`.
- `Clients`: the order of siblings in a recursive copy is open, and a copy of a
  directory into a relative of itself has no promise, nor has a move onto a directory
  above the source (`MoveKeepsSource` of 5).  `makedirs(exist_ok=True)` accepts a
  file.  XML, headers and ranges are left out.
- `Listings`: a plain `ls` shows a child that has vanished as a directory, which a
  test of the repository expects.
- `Namespaces`: a namespace has one file or none; descriptions, unknown groups and
  argument checks are left out, the users' global rights do not change.  What an
  update removes and adds is seen at its commit.
- Not modelled: `find` beyond what a recursive copy asks, glob, the read-ahead cache
  of fsspec, the candidates and `--dry-run` of rechunk; the parsing of Basic
  credentials; admin, checks, stats, benchmarks and demo, which have no state of
  their own or only read.

## 7. Plan

Done: Paths, Tables, NamespaceDb with its refinement and proofs, Handles with its
proofs, Ranges and Reads with their proofs, Maintenance with its proofs, Repair with its proofs, Migrate with proofs, WebDav,
Adapter and Clients with their proofs, Listings and Namespaces with their proofs.

What would come next, in this order:

1. Repair as statements next to writers, in the manner of `Maintenance`.
2. The candidates of rechunk, and GET with its range in `Clients`.
