------------------------------- MODULE Migrate -------------------------------
(***************************************************************************)
(* fsspec_migrate: copies a source, a file or a directory tree, into a     *)
(* namespace.  The target is the file system of FileSystem, so every       *)
(* operation on it is one step; between any two of them the command can    *)
(* fail or be killed, and other clients can change the target and the      *)
(* source.  What survives is the target and the manifest, from which a     *)
(* later run resumes.                                                      *)
(*                                                                         *)
(* Source paths are relative to the source; the empty one is the source    *)
(* itself.  A path of the target may also be <<>>, which is "/".           *)
(***************************************************************************)
EXTENDS FileSystem, SequencesExt

CONSTANTS
  Root,          \* the target path of the command line
  SlashHint,     \* whether the target URI ends in "/"
  SourceName,    \* the last segment of the source path
  TempName,      \* ".django-fsspec-migrate-tmp"
  RunIds,        \* the run ids of successive runs, a sequence of names
  Options,       \* the option records a run may be started with
  Sources,       \* the sources to begin with
  Targets,       \* the trees to begin with
  ForeignPaths,  \* the target paths others touch
  ForeignData,   \* what others write
  MaxFaults,     \* bound on kills and failing reads
  MaxForeign,    \* bound on changes by others
  MaxEvents      \* bound on both together

Conflicts == {"skip", "fail", "overwrite", "checksum"}
Verifications == {"checksum", "size", "off"}

SourceFile(data) == [type |-> "file", data |-> data]
SourceDirectory == [type |-> "directory"]

(* A file tree: below a file there is nothing. *)
IsSource(s) ==
  /\ IsFiniteSet(DOMAIN s) /\ DOMAIN s \subseteq Seq(Names) /\ <<>> \in DOMAIN s
  /\ \A p \in DOMAIN s :
       IF s[p].type = "file"
       THEN /\ s[p] = SourceFile(s[p].data) /\ s[p].data \in Seq(Bytes)
            /\ \A q \in DOMAIN s : ~Below(p, q)
       ELSE s[p] = SourceDirectory

IsTarget(t) ==
  /\ IsFiniteSet(DOMAIN t) /\ DOMAIN t \subseteq Seq(Names) \ {<<>>}
  /\ \A p \in DOMAIN t :
       /\ t[p].id \in 1..Cardinality(DOMAIN t)
       /\ IF t[p].type = "file"
          THEN /\ t[p] = File(t[p].id, t[p].ver, t[p].data) /\ t[p].data \in Seq(Bytes)
               /\ \A q \in DOMAIN t : ~Below(p, q)
          ELSE t[p] = Directory(t[p].id)

ASSUME MigrateAssumption ==
  /\ TempName \in Names /\ SourceName \in Names /\ SlashHint \in BOOLEAN
  /\ Root \in Seq(Names) /\ RunIds \in Seq(Names)
  /\ Options \subseteq [conflict : Conflicts, verify : Verifications, temp : BOOLEAN,
                        abort : BOOLEAN, limit : Nat]
  /\ \A s \in Sources : IsSource(s)
  /\ \A t \in Targets : IsTarget(t)
  /\ ForeignPaths \subseteq Seq(Names) \ {<<>>} /\ ForeignData \subseteq Seq(Bytes)
  /\ MaxFileSize \in Nat
  /\ MaxFaults \in Nat /\ MaxForeign \in Nat /\ MaxEvents \in Nat

VARIABLES
  source,    \* relative path -> file or directory
  job,       \* the run of the command
  runs,      \* runs so far
  manifest,  \* the entry lines of the manifest in use
  lost,      \* history: what it wrongly lists as done
  faults,    \* kills and failing reads so far
  foreign,   \* changes by others so far
  mine,      \* history: the ids of the entries the command created
  direct,    \* history: the targets a run wrote without a temporary path
  touched,   \* history: the target paths others changed
  edited     \* history: the source paths that changed

migrateVars == <<fsVars, source, job, runs, manifest, lost, faults, foreign, mine, direct,
                 touched, edited>>

NotStarted == [phase |-> "over", exit |-> "none", run |-> 0, completed |-> {}]

MigrateInit ==
  /\ tree \in Targets /\ nextId = Cardinality(DOMAIN tree) + 1 /\ calls = {}
  /\ source \in Sources
  /\ job = NotStarted /\ runs = 0 /\ manifest = {} /\ lost = {}
  /\ faults = 0 /\ foreign = 0
  /\ mine = {} /\ direct = {} /\ touched = {} /\ edited = {}

-----------------------------------------------------------------------------
(* The entries of a run *)

(* Parents before children, directories before files; otherwise in an order that
   is the same for every run. *)
Before(e, f) ==
  \/ Len(e.source) < Len(f.source)
  \/ Len(e.source) = Len(f.source) /\ e.type = "directory" /\ f.type = "file"

SingleFileTarget ==
  IF SlashHint \/ Root = <<>> \/ IsDirectory(Root) THEN Append(Root, SourceName) ELSE Root

TargetOf(p) == IF source[<<>>].type = "file" THEN SingleFileTarget ELSE Root \o p

Entries ==
  LET found == {[source |-> p, target |-> TargetOf(p), type |-> source[p].type] :
                  p \in DOMAIN source}
  IN  CHOOSE order \in SetToSeqs(found) :
        \A i, j \in DOMAIN order : i < j => ~Before(order[j], order[i])

(* The limit 0 stands for none. *)
Limited(entries, limit) == IF limit = 0 \/ limit > Len(entries) THEN entries ELSE Upto(entries, limit)

(* Mutant of Succeeded: a file that was there counts as migrated. *)
SucceededOrSkipped ==
  {"copied", "created_dir", "dir_exists", "skipped_same_checksum", "skipped_exists"}

Succeeded == {"copied", "created_dir", "dir_exists", "skipped_same_checksum"}

Key(e) == [source |-> e.source, target |-> e.target]

Completed == {Key(line) : line \in {l \in manifest : l.status \in Succeeded}}

Entry == job.todo[job.at]

-----------------------------------------------------------------------------
(* Operations on the target *)

TempDirectory(e) == Parent(e.target) \o <<TempName>>
RunDirectory(e) == Append(TempDirectory(e), RunIds[job.run])
TempPath(e) == Append(RunDirectory(e), e.target[Len(e.target)])

-----------------------------------------------------------------------------
(* Steps of a run *)

GoOn(phase) == job' = [job EXCEPT !.phase = phase]

(* The entry is done with this status; its line of the manifest is next. *)
Settle(status) == job' = [job EXCEPT !.phase = "record", !.status = status]

Queries == UNCHANGED <<fsVars, direct, manifest, lost, runs>>
Changes == UNCHANGED <<direct, manifest, lost, runs>>

(* A resumed run appends to its manifest unless another one is named. *)
Start(opt, resume, append, entries) ==
  /\ job.phase = "over" /\ job.exit # "ok"
  /\ runs < Len(RunIds)
  /\ resume => runs > 0
  /\ append => resume
  /\ runs' = runs + 1
  /\ manifest' = IF append THEN manifest ELSE {}
  /\ lost' = IF resume THEN lost ELSE {}
  /\ job' = [phase |-> "entry", run |-> runs + 1, opt |-> opt,
             todo |-> Limited(entries, opt.limit), at |-> 1,
             completed |-> IF resume THEN Completed ELSE {},
             status |-> "none", existed |-> FALSE, straight |-> FALSE,
             data |-> <<>>, to |-> <<>>, attention |-> FALSE, hit |-> FALSE, exit |-> "none"]
  /\ UNCHANGED <<fsVars, direct>>

At(phase) == job.phase = phase

(* The writer of an entry was not left: the rest of the run is in the transaction that
   is still open. *)
Unsaved == job.phase \in {"unsaved", "onward"}

(* The run turns to an entry, or has gone through all. *)
Between == job.phase \in {"entry", "onward"}

AtEntry(type) ==
  At("entry") /\ job.at <= Len(job.todo) /\ Key(Entry) \notin job.completed /\ Entry.type = type

SkipCompleted ==
  /\ Between /\ job.at <= Len(job.todo) /\ Key(Entry) \in job.completed
  /\ job' = [job EXCEPT !.at = @ + 1]
  /\ Queries

LookAtDirectory ==
  /\ AtEntry("directory")
  /\ CASE IsFile(Entry.target) -> Settle("conflict")
       [] Entry.target = <<>> \/ IsDirectory(Entry.target) -> Settle("dir_exists")
       [] OTHER -> GoOn("mkdir")
  /\ Queries

MakeDirectory ==
  /\ At("mkdir")
  /\ IF CanMakedirs(Entry.target)
     THEN Makedirs(Entry.target) /\ Settle("created_dir")
     ELSE UNCHANGED fsVars /\ Settle("error")
  /\ Changes

(* existed decides much later whether the move may replace the target. *)
LookAtFile ==
  /\ AtEntry("file")
  /\ LET exists == IsFile(Entry.target)
         copy == job' = [job EXCEPT !.phase = "parent", !.existed = exists, !.data = <<>>,
                                    !.straight = ~job.opt.temp]
     IN  CASE IsDirectory(Entry.target) -> Settle("conflict")
           [] exists /\ job.opt.conflict = "skip" -> Settle("skipped_exists")
           [] exists /\ job.opt.conflict = "fail" -> Settle("conflict")
           [] exists /\ job.opt.conflict = "checksum" -> GoOn("hash")
           [] OTHER -> copy
  /\ Queries

HasSource == Entry.source \in DOMAIN source /\ source[Entry.source].type = "file"

HashSource ==
  /\ At("hash")
  /\ IF HasSource THEN job' = [job EXCEPT !.phase = "compare", !.data = source[Entry.source].data]
     ELSE Settle("error")
  /\ Queries

(* A directory opens as an empty file. *)
ReadsAs(p, data) ==
  (IsFile(p) /\ tree[p].data = data) \/ (IsDirectory(p) /\ data = <<>>)

CompareWithTarget ==
  /\ At("compare")
  /\ CASE ~Present(Entry.target) -> Settle("error")
       [] ReadsAs(Entry.target, job.data) -> Settle("skipped_same_checksum")
       [] OTHER -> Settle("conflict")
  /\ Queries

MakeParent ==
  /\ At("parent")
  /\ LET parent == Parent(Entry.target)
     IN  IF CanMakedirs(parent)
         THEN Makedirs(parent) /\ GoOn(IF job.straight THEN "stream" ELSE "tempdir")
         ELSE UNCHANGED fsVars /\ Settle("error")
  /\ Changes

MakeTempDirectory ==
  /\ At("tempdir")
  /\ IF CanMakedirs(RunDirectory(Entry))
     THEN Makedirs(RunDirectory(Entry)) /\ GoOn("stream")
     ELSE UNCHANGED fsVars /\ Settle("error")
  /\ Changes

(* One chunk, of one byte here, read and given to the writer. *)
StreamChunk ==
  /\ At("stream")
  /\ HasSource /\ Len(job.data) < Len(source[Entry.source].data)
  /\ job' = [job EXCEPT !.data = Append(@, source[Entry.source].data[Len(@) + 1])]
  /\ Queries

Destination == IF job.straight THEN Entry.target ELSE TempPath(Entry)

(* Leaving the with block closes the handle, which commits what it got. *)
CloseAfter(data) ==
  /\ direct' = IF job.straight THEN direct \cup {Entry.target} ELSE direct
  /\ IF CanWrite(Destination) THEN Store(Destination, data) ELSE UNCHANGED fsVars
  /\ UNCHANGED <<manifest, lost, runs>>

CloseDestination == CloseAfter(job.data)

(* The last bytes that were read go beyond the limit.  Whether the write() that fills a
   buffer with them raises or close() depends on the sizes of blocks and chunks. *)
TooLarge == Len(job.data) > MaxFileSize /\ CanWrite(Destination)

(* write() raises: the bytes before are committed, as its with block is left. *)
WriteRaises ==
  /\ At("stream") /\ TooLarge
  /\ \E n \in 0..MaxFileSize : CloseAfter(Upto(job.data, n))
  /\ Settle("error")

(* Nothing that the run does from now on is ever committed. *)
LoseWriter(hit) ==
  job' = [job EXCEPT !.phase = "unsaved", !.status = "error", !.hit = @ \/ hit]

(* close() raises: the atomic block of the writer is never left, the transaction stays
   open until the process ends, and then rolls back. *)
CloseRaises ==
  /\ At("stream") /\ TooLarge
  /\ HasSource => Len(job.data) >= Len(source[Entry.source].data)
  /\ LoseWriter(FALSE)
  /\ Queries

(* The source cannot be opened, or is gone when more of it is read; then the part
   that was streamed is committed. *)
SourceGone ==
  /\ At("stream") /\ ~HasSource
  /\ CloseDestination \/ (job.data = <<>> /\ Queries)
  /\ Settle("error")

EndOfStream ==
  /\ At("stream")
  /\ HasSource /\ Len(job.data) >= Len(source[Entry.source].data)
  /\ CloseDestination
  /\ CASE ~CanWrite(Destination) -> Settle("error")
       [] CanWrite(Destination) /\ job.straight -> GoOn("verify")
       [] OTHER -> GoOn("look")

(* DjangoFileSystem.mv moves into a directory that is in the way. *)
LookBeforeMove ==
  /\ At("look")
  /\ job' = [job EXCEPT !.phase = "move", !.to =
               IF IsDirectory(Entry.target)
               THEN Append(Entry.target, Entry.target[Len(Entry.target)]) ELSE Entry.target]
  /\ Queries

(* Mutant of MayReplace: what the lookup has seen does not matter. *)
PolicyReplaces == job.opt.conflict = "overwrite"

(* Mutant of MayReplace: the move gets no overwrite flag. *)
NeverReplaces == FALSE

MayReplace == job.existed /\ job.opt.conflict = "overwrite"

MoveTemp ==
  /\ At("move")
  /\ IF CanMove(TempPath(Entry), job.to, MayReplace)
     THEN Move(TempPath(Entry), job.to, MayReplace) /\ GoOn("rmrun")
     ELSE UNCHANGED fsVars /\ Settle("error")
  /\ Changes

(* Other target file systems raise NotImplementedError: the temporary file is
   removed and the target is written again from the start, as it is now. *)
MoveUnsupported ==
  /\ At("look")
  /\ IF Present(TempPath(Entry)) THEN Delete(TempPath(Entry), FALSE) ELSE UNCHANGED fsVars
  /\ job' = [job EXCEPT !.phase = "rmrun", !.straight = TRUE, !.data = <<>>]
  /\ Changes

RmdirIfEmpty(p) == IF CanErase(p, FALSE) THEN Delete(p, FALSE) ELSE UNCHANGED fsVars

(* Mutant of RemoveRunDirectory: the outer directory goes first. *)
RemoveOuterDirectory ==
  /\ At("rmrun") /\ RmdirIfEmpty(TempDirectory(Entry)) /\ GoOn("rmtemp")
  /\ Changes

RemoveRunDirectory ==
  /\ At("rmrun") /\ RmdirIfEmpty(RunDirectory(Entry)) /\ GoOn("rmtemp")
  /\ Changes

RemoveTempDirectory ==
  /\ At("rmtemp") /\ RmdirIfEmpty(TempDirectory(Entry))
  /\ GoOn(IF job.straight THEN "stream" ELSE "verify")
  /\ Changes

(* What is at the target by now. *)
Verified(t, data) ==
  CASE job.opt.verify = "off" -> TRUE
    [] job.opt.verify = "size" ->
         \/ IsFile(t) /\ Len(tree[t].data) = Len(data)
         \/ IsDirectory(t) /\ data = <<>>
    [] OTHER -> ReadsAs(t, data)

VerifyTarget ==
  /\ At("verify")
  /\ Settle(IF Verified(Entry.target, job.data) THEN "copied" ELSE "error")
  /\ Queries

Attention == {"skipped_exists", "conflict", "error"}

Exit(code) == [job EXCEPT !.phase = "over", !.exit = code]

Record ==
  /\ At("record") \/ At("unsaved")
  /\ manifest' = manifest \cup {[source |-> Entry.source, target |-> Entry.target,
                                 status |-> job.status]}
  /\ lost' = IF Unsaved /\ job.status \in Succeeded THEN lost \cup {Key(Entry)}
             ELSE lost \ {Key(Entry)}
  /\ job' = CASE job.status = "conflict" /\ job.opt.conflict = "fail" -> Exit("attention")
              [] job.status = "error" /\ job.opt.abort -> Exit("failure")
              [] OTHER -> [job EXCEPT !.phase = IF Unsaved THEN "onward" ELSE "entry",
                                      !.at = @ + 1,
                                      !.attention = @ \/ job.status \in Attention]
  /\ UNCHANGED <<fsVars, direct, runs>>

Finish ==
  /\ Between /\ job.at > Len(job.todo)
  /\ job' = Exit(IF job.attention THEN "attention" ELSE "ok")
  /\ Queries

-----------------------------------------------------------------------------
(* The rest of a run whose writer was not left.  What it finds are rows that nobody
   will see, so any outcome of an entry is possible; the lines of the manifest stay. *)

Outcomes(type) ==
  {"conflict", "error"} \cup
    CASE type = "directory" -> {"dir_exists", "created_dir"}
      [] job.opt.conflict = "skip" -> {"copied", "skipped_exists"}
      [] job.opt.conflict = "checksum" -> {"copied", "skipped_same_checksum"}
      [] OTHER -> {"copied"}

ProcessUnsaved ==
  /\ At("onward") /\ job.at <= Len(job.todo) /\ Key(Entry) \notin job.completed
  /\ \E status \in Outcomes(Entry.type) :
       job' = [job EXCEPT !.phase = "unsaved", !.status = status]
  /\ Queries

-----------------------------------------------------------------------------
(* Faults and other clients *)

(* Mutant of ReadFails: what the temporary file got is moved all the same. *)
ReadFailsAndMoves ==
  /\ At("stream") /\ CloseDestination
  /\ job' = [job EXCEPT !.phase = IF job.straight THEN "record" ELSE "look",
                        !.status = "error", !.hit = TRUE]

(* A read of the source raises: what was streamed so far is committed all the
   same, the temporary file stays. *)
ReadFails ==
  /\ At("stream")
  /\ \/ /\ CloseDestination
        /\ job' = [job EXCEPT !.phase = "record", !.status = "error", !.hit = TRUE]
     \/ TooLarge /\ LoseWriter(TRUE) /\ Queries

(* The process is killed; the open writer of the target commits nothing. *)
Kill ==
  /\ ~At("over") /\ job' = Exit("killed")
  /\ Queries

(* An open transaction of the run has the lock of the namespace. *)
ForeignTarget ==
  /\ ~Unsaved
  /\ \E p \in ForeignPaths :
       /\ touched' = touched \cup {p}
       /\ \/ \E data \in ForeignData : Overwrite(p, data)
          \/ Delete(p, TRUE)
          \/ \E base \in 0..(Len(p) - 1) : CreateDirectory(p, base)
  /\ UNCHANGED <<source, edited>>

ForeignSource ==
  /\ \E p \in {q \in DOMAIN source : source[q].type = "file"} :
       /\ edited' = edited \cup {p}
       /\ \/ \E data \in ForeignData : source' = [source EXCEPT ![p] = SourceFile(data)]
          \/ p # <<>> /\ source' = Without(source, {p})
  /\ UNCHANGED <<fsVars, touched>>

Step ==
  \/ SkipCompleted \/ LookAtDirectory \/ MakeDirectory
  \/ LookAtFile \/ HashSource \/ CompareWithTarget
  \/ MakeParent \/ MakeTempDirectory \/ StreamChunk \/ SourceGone \/ EndOfStream
  \/ WriteRaises \/ CloseRaises
  \/ LookBeforeMove \/ MoveTemp \/ MoveUnsupported
  \/ RemoveRunDirectory \/ RemoveTempDirectory
  \/ VerifyTarget \/ Record \/ Finish \/ ProcessUnsaved

Others == UNCHANGED <<source, foreign, touched, edited>>
Creates == mine' = mine \cup nextId..(nextId' - 1)

RunStep == Step /\ Creates /\ Others /\ UNCHANGED faults

Rerun ==
  /\ LET entries == Entries
     IN  \E opt \in Options, resume, append \in BOOLEAN : Start(opt, resume, append, entries)
  /\ Others /\ UNCHANGED <<faults, mine>>

Fault ==
  /\ faults < MaxFaults /\ faults + foreign < MaxEvents /\ faults' = faults + 1
  /\ ReadFails \/ Kill
  /\ Creates /\ Others

Foreign ==
  /\ foreign < MaxForeign /\ faults + foreign < MaxEvents /\ foreign' = foreign + 1
  /\ ForeignTarget \/ ForeignSource
  /\ UNCHANGED <<job, runs, manifest, lost, faults, mine, direct>>

MigrateNext == RunStep \/ Rerun \/ Fault \/ Foreign

MigrateSpec == MigrateInit /\ [][MigrateNext]_migrateVars

(* The command keeps going, and is run again until it exits with 0. *)
FairMigrateSpec == MigrateSpec /\ WF_migrateVars(RunStep) /\ WF_migrateVars(Rerun)
-----------------------------------------------------------------------------
(* Hypotheses of the theorems about runs *)

(* A path through the temporary directory of a run. *)
Temporary(p) == TempName \in Range(p) /\ Range(p) \cap Range(RunIds) # {}

(* Nobody else writes under the directory of a run, whose name is a new uuid4, and no
   entry has a target there. *)
TempPathsArePrivate ==
  /\ \A p \in ForeignPaths : ~Temporary(p)
  /\ \A s \in Sources : \A p \in DOMAIN s : ~Temporary(Root \o p)
  /\ ~Temporary(Append(Root, SourceName))

(* Nobody else uses the name .django-fsspec-migrate-tmp. *)
TempNameIsReserved ==
  \A p \in ForeignPaths \cup UNION {DOMAIN t : t \in Targets} : TempName \notin Range(p)

(* A path without that name and without the uuid4 of a run. *)
Plain(p) == TempName \notin Range(p) /\ Range(p) \cap Range(RunIds) = {}

(* The runs have different names, and no path but their own uses one or the name
   .django-fsspec-migrate-tmp. *)
NamesAreNew ==
  /\ TempName \notin Range(RunIds)
  /\ \A i, j \in DOMAIN RunIds : RunIds[i] = RunIds[j] => i = j
  /\ SourceName # TempName /\ SourceName \notin Range(RunIds)
  /\ Plain(Root) /\ \A p \in ForeignPaths : Plain(p)
  /\ \A s \in Sources : \A p \in DOMAIN s : Plain(p)
  /\ \A t \in Targets : \A p \in DOMAIN t : Plain(p)
-----------------------------------------------------------------------------
(* Properties *)

(* Nobody else has changed what entry e is copied from or to.  A directory
   without an entry of its own also goes with the last entry below it. *)
Undisturbed(e) ==
  /\ e.source \notin edited
  /\ \A p \in touched :
       /\ p # e.target /\ ~Below(p, e.target)
       /\ (e.type = "file" \/ e.target \notin DOMAIN tree => ~Below(e.target, p))

Migrated(e) ==
  CASE e.type = "directory" -> e.target = <<>> \/ IsDirectory(e.target)
    [] OTHER -> IsFile(e.target) /\ tree[e.target].data = source[e.source].data

Selected == IF runs = 0 THEN {} ELSE Range(job.todo)

(* When the command exits with 0, everything it was asked to migrate is there,
   byte for byte, whether this run copied it, found it, or took the word of a
   manifest that runs under other options have written and a kill has cut
   short; and its temporary files and directories are gone.  All but the entries
   that a resumed manifest has from a run whose writer was not left. *)
ExitOkMeansMigrated ==
  job.exit = "ok" =>
    /\ \A e \in Selected : Undisturbed(e) /\ Key(e) \notin lost => Migrated(e)
    /\ \A p \in DOMAIN tree : RunIds[job.run] \notin Range(p)

(* A file that the command put at a target by moving it there is complete: no
   kill and no failing read shows a part of a file under its final name. *)
TargetNeverPartial ==
  \A e \in {f \in Selected : f.type = "file"} :
    (/\ Undisturbed(e)
     /\ IsFile(e.target) /\ tree[e.target].id \in mine /\ e.target \notin direct)
    => tree[e.target].data = source[e.source].data

(* A step of the command leaves what is not its own. *)
ForeignKept ==
  foreign' = foreign =>
    \A p \in {q \in DOMAIN tree : tree[q].id \notin mine} :
      \/ p \in DOMAIN tree' /\ tree'[p] = tree[p]
      \/ p = Entry.target /\ job.straight
      \/ p = job.to /\ job.existed /\ job.opt.conflict = "overwrite"

(* What others have stored at the target outlives every step of the command,
   except what --no-temp, or a target without a move, overwrites without looking
   again, and a file where --conflict overwrite is to replace one that the
   entry's lookup had found.  (If a directory has taken the place of that file,
   the move goes into it and replaces the file of the same name there.) *)
ForeignEntriesKept == [][ForeignKept]_migrateVars

Exits0 == job.exit = "ok"
Disturbed == touched \cup edited # {}
OthersAtTargets == \E e \in Selected : IsFile(e.target) /\ tree[e.target].id \notin mine
(* Something else is where an entry must go, or a file is above it. *)
Clash ==
  \E e \in Selected :
    \/ IF e.type = "file" THEN IsDirectory(e.target) ELSE IsFile(e.target)
    \/ ~Reachable(e.target)

(* A file that is larger than a file of the target may be. *)
Oversized ==
  \E e \in Selected : e.type = "file" /\ e.source \in DOMAIN source
                       /\ Len(source[e.source].data) > MaxFileSize

(* A run that no failing read hits, with nobody else at work and no file too large,
   exits with 0 whatever earlier runs have left behind: always under the policy overwrite,
   and under checksum if every file reached its target by a move.  (Under skip,
   the default, a copy that was cut short before its line in the manifest is an
   existing target, reported for ever.) *)
RetriesSucceed ==
  job.exit \in {"attention", "failure"} /\ ~job.hit /\ ~Disturbed /\ ~Clash /\ ~Oversized
  => /\ job.opt.conflict # "overwrite"
     /\ job.opt.conflict = "checksum" => OthersAtTargets \/ direct # {}

Always(policy) == [](runs > 0 => job.opt.conflict = policy)

(* Run again until it exits with 0, the command does so in the end, after any
   kills and failing reads, if no file is too large. *)
Converges ==
  /\ Always("overwrite") => <>(Exits0 \/ Disturbed \/ Clash \/ Oversized)
  /\ Always("checksum") =>
       <>(Exits0 \/ Disturbed \/ Clash \/ Oversized \/ direct # {} \/ OthersAtTargets)

(* docs/en/management-commands.md: --resume retries failed entries. *)
FailedEntriesAreRetried ==
  At("record") /\ job.status = "skipped_exists" =>
    ~\E line \in manifest : Key(line) = Key(Entry) /\ line.status = "error"

(* docs/en/management-commands.md: --resume skips successful entries from a
   previous run.  So what a run that exits with 0 was asked for is there. *)
ResumeSkipsSuccesses ==
  job.exit = "ok" => \A e \in Selected : Undisturbed(e) => Migrated(e)
=============================================================================
