------------------------------ MODULE MCMigrate ------------------------------
(* Small instances of Migrate. *)
EXTENDS Migrate, TLC

CONSTANTS d, f, t, temp, r1, r2, r3, x, y

ExactLike == [n \in Names |-> n]
Runs == <<r1, r2>>
ThreeRuns == <<r1, r2, r3>>
TargetRoot == <<t>>

(* A tree with a file at both levels, and a single file of two chunks. *)
SourceTree ==
  (<<>> :> SourceDirectory) @@ (<<d>> :> SourceDirectory)
    @@ (<<f>> :> SourceFile(<<x, y>>)) @@ (<<d, f>> :> SourceFile(<<y>>))
SingleFile == <<>> :> SourceFile(<<x, y>>)

(* A file that is larger than the limit, beside an empty one. *)
LargeTree ==
  (<<>> :> SourceDirectory) @@ (<<d>> :> SourceFile(<<x, y, x>>)) @@ (<<f>> :> SourceFile(<<>>))
AllSources == {SourceTree, SingleFile, LargeTree}

Nothing == [p \in {} |-> {}]

(* An empty namespace; one with another file at a target; one with a file where
   a directory must go; one with the target directory and one of the files. *)
SomeTargets ==
  {Nothing,
   <<t, f>> :> File(1, 1, <<y>>),
   <<t, d>> :> File(1, 1, <<x>>),
   (<<t>> :> Directory(1)) @@ (<<t, f>> :> File(2, 1, <<x, y>>))}

Option(conflict, verify, useTemp, abort, limit) ==
  [conflict |-> conflict, verify |-> verify, temp |-> useTemp, abort |-> abort, limit |-> limit]

SomeOptions ==
  {Option("skip", "checksum", TRUE, FALSE, 0),
   Option("overwrite", "size", TRUE, FALSE, 0),
   Option("overwrite", "off", FALSE, TRUE, 3),
   Option("checksum", "checksum", TRUE, FALSE, 0),
   Option("fail", "checksum", TRUE, FALSE, 0)}

(* The defaults but for --no-temp, into an empty namespace. *)
DirectOptions == {Option("skip", "checksum", FALSE, FALSE, 0)}
EmptyTarget == {Nothing}

(* For liveness: the policies that converge, and a tree of one file. *)
RetryOptions ==
  {Option("overwrite", "off", FALSE, TRUE, 0), Option("overwrite", "checksum", TRUE, FALSE, 0),
   Option("checksum", "checksum", TRUE, FALSE, 0)}
OneTree == {(<<>> :> SourceDirectory) @@ (<<f>> :> SourceFile(<<x, y>>))}

(* As long as the source, and different. *)
SomeForeignData == {<<x, x>>}

(* A file of the tree, a path that makes it a directory, and the directory
   above the other file. *)
SomeForeignPaths == {<<t, f>>, <<t, f, f>>, <<t, d>>}

(* The hypotheses of the theorems. *)
ASSUME PrivateAndNew == TempPathsArePrivate /\ TempNameIsReserved /\ NamesAreNew
=============================================================================
