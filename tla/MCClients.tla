----------------------------- MODULE MCClients ------------------------------
(***************************************************************************)
(* Small instances of Clients, and beside them, as behaviors of their own  *)
(* that no client or program takes part in, the listings of Listings, and  *)
(* the requests and commands of Namespaces, for which the tree is one of   *)
(* many files.                                                             *)
(***************************************************************************)
EXTENDS ClientClaims, Namespaces

CONSTANTS sub, leaf, x, y

ExactLike == [n \in Names |-> n]

(* A file below an implicit directory; another one beside it; two directories,
   one with a file and a directory with a file in it, the other empty. *)
SmallTree == <<sub, leaf>> :> File(1, 1, <<x>>)
SomeTrees ==
  {SmallTree,
   SmallTree @@ (<<leaf>> :> File(2, 1, <<y>>)),
   (<<sub>> :> Directory(1)) @@ (<<sub, leaf>> :> File(2, 1, <<x>>))
     @@ (<<sub, sub, leaf>> :> File(3, 1, <<x, y>>)) @@ (<<leaf>> :> Directory(4))}

Request(method, path) ==
  [method |-> method, path |-> path, dest |-> <<>>, data |-> <<>>, none |-> FALSE,
   overwrite |-> TRUE]

Put(path, none) == [Request("PUT", path) EXCEPT !.data = <<y, y>>, !.none = none]
To(method, path, dest, overwrite) ==
  [Request(method, path) EXCEPT !.dest = dest, !.overwrite = overwrite]

SomeRequests ==
  {Put(<<leaf>>, TRUE), Put(<<sub, leaf>>, FALSE),
   [Put(<<leaf>>, FALSE) EXCEPT !.data = <<y, y, y, y>>],
   Request("DELETE", <<sub>>), Request("DELETE", <<leaf>>),
   Request("MKCOL", <<leaf>>), Request("MKCOL", <<leaf, sub>>)}
  \cup {To(m, <<sub, leaf>>, <<leaf>>, ow) : m \in CopyMove, ow \in BOOLEAN}
  \cup {To(m, <<leaf>>, <<leaf, leaf>>, FALSE) : m \in CopyMove}
  \cup {To("MOVE", <<leaf>>, <<leaf>>, FALSE)}

Mv(src, dst, recursive, overwrite) ==
  [op |-> "mv", src |-> src, dst |-> dst, recursive |-> recursive, overwrite |-> overwrite]
Cp(src, dst, slash, contents, ignore) ==
  [op |-> "copy", src |-> src, dst |-> dst, slash |-> slash, contents |-> contents,
   ignore |-> ignore]
Touch(path, truncate) == [op |-> "touch", path |-> path, truncate |-> truncate]

SomeCalls ==
  {Mv(<<sub, leaf>>, <<leaf>>, FALSE, ow) : ow \in BOOLEAN}
  \cup {Mv(<<sub>>, <<leaf>>, TRUE, ow) : ow \in BOOLEAN}
  \cup {Mv(<<sub, leaf>>, <<>>, FALSE, FALSE), Mv(<<leaf>>, <<sub>>, FALSE, TRUE),
        Mv(<<leaf>>, <<leaf>>, FALSE, FALSE)}
  \cup {Cp(<<sub>>, <<leaf>>, FALSE, FALSE, TRUE), Cp(<<sub>>, <<leaf>>, FALSE, TRUE, FALSE),
        Cp(<<leaf>>, <<sub>>, TRUE, FALSE, FALSE)}
  \cup {Touch(<<leaf>>, FALSE), Touch(<<sub, leaf>>, TRUE)}
  \cup {[op |-> "makedirs", path |-> <<leaf, leaf>>, existOk |-> FALSE],
        [op |-> "rm", path |-> <<sub>>, recursive |-> TRUE],
        [op |-> "rm", path |-> <<leaf>>, recursive |-> FALSE]}

Ls(path, tolerant) == [op |-> "ls", path |-> path, tolerant |-> tolerant]
Propfind(path, depth) == [op |-> "propfind", path |-> path, depth |-> depth]

SomeListings ==
  {Ls(<<sub>>, FALSE), Ls(<<sub>>, TRUE), Ls(<<>>, FALSE), Ls(<<sub, leaf>>, FALSE),
   Propfind(<<sub>>, 1), Propfind(<<>>, 1), Propfind(<<sub, leaf>>, 0), Propfind(<<sub, leaf>>, 1)}

PathsBelow == {<<sub>>, <<sub, leaf>>, <<sub, sub>>, <<sub, sub, leaf>>}
OtherData == {<<y>>}

CONSTANTS ns1, ns2, g1, member, reader

SomeCommands ==
  {[op |-> "create", name |-> ns2, fields |-> {"readers", "writers"}, readers |-> {},
    writers |-> {g1}],
   [op |-> "update", name |-> ns2, fields |-> {"readers", "writers"}, readers |-> {g1},
    writers |-> {}],
   [op |-> "update", name |-> ns1, fields |-> {"writers"}, readers |-> {}, writers |-> {g1}]}
  \cup {[op |-> "delete", name |-> name, fields |-> {}, readers |-> {}, writers |-> {}] :
          name \in {ns1, ns2}}

clientVars == <<web, task, requests, before, raced, wins>>
NoClients == requests = 0 /\ UNCHANGED clientVars
NoListings == listing = NoListing /\ UNCHANGED listingVars
NoVisits == visits = 0 /\ UNCHANGED namespaceVars

InitAll == Init /\ ListingInit /\ NamespacesInit

AllParts ==
  /\ InitAll
  /\ [][\/ NoListings /\ NoVisits /\ Next
        \/ NoClients /\ NoVisits /\ ListingNext
        \/ NoClients /\ NoListings /\ tree = SmallTree /\ UNCHANGED fsVars /\ NamespacesNext
       ]_<<vars, listingVars, namespaceVars>>

Symmetry == Permutations(Clients)
=============================================================================
