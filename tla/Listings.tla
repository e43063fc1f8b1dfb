------------------------------ MODULE Listings ------------------------------
(***************************************************************************)
(* Listings are many queries with no lock and no transaction around them:  *)
(* the names below the path are one query, every child is looked up with   *)
(* queries of its own, and a lookup is two of them, one for the row at the *)
(* path and one for rows below it.  ls is DjangoFileSystem.ls with         *)
(* details, propfind the PROPFIND handler of the WebDAV view.  The path    *)
(* <<>> is "/".                                                            *)
(***************************************************************************)
EXTENDS FileSystem

CONSTANTS
  ListingCalls,  \* the calls: [op |-> "ls", path, tolerant], [op |-> "propfind", path, depth]
  ChangedPaths,  \* the paths others change meanwhile
  ChangedData,   \* what they write
  MaxChanges     \* bound on their changes

ASSUME ListingsAssumption ==
  /\ MaxChanges \in Nat
  /\ \A call \in ListingCalls : call.path \in Seq(Names)
  /\ ChangedPaths \subseteq Paths

VARIABLES
  listing,    \* the call and how far it is
  changes,    \* changes by others so far
  was,        \* history: what has been at the paths since the call began
  disturbed   \* history: the paths that changed since

listingVars == <<listing, changes, was, disturbed>>

NoListing == [phase |-> "none"]

ListingInit == listing = NoListing /\ changes = 0 /\ was = {} /\ disturbed = {}

KindOf(p) == IF IsFile(p) THEN "file" ELSE IF Present(p) THEN "directory" ELSE "none"

(* The paths that something is at. *)
Places == {<<>>} \cup DOMAIN tree \cup UNION {Ancestors(q) : q \in DOMAIN tree}

(* Root collections are listed without a lookup. *)
BeginListing(call) ==
  /\ listing = NoListing
  /\ listing' = [phase |-> IF call.op = "ls" /\ call.path = <<>> THEN "names" ELSE "info",
                 query |-> "row", call |-> call, item |-> <<>>, left |-> {}, found |-> {},
                 node |-> NoListing, outcome |-> "none"]
  /\ was' = {[path |-> p, type |-> KindOf(p)] : p \in Places}
  /\ UNCHANGED <<fsVars, changes, disturbed>>

Listing == listing.phase \notin {"none", "done"}
Called(op) == listing.call.op = op

-----------------------------------------------------------------------------
(* get_file_info *)

LookedUp == IF listing.phase = "child" THEN listing.item ELSE listing.call.path

RowMissing ==
  /\ listing.phase \in {"info", "self", "check", "recheck", "child"}
  /\ listing.query = "row" /\ LookedUp \notin DOMAIN tree
  /\ listing' = [listing EXCEPT !.query = "below"]

(* Mutant of Info: without a row it must be an implicit directory. *)
InfoWithoutLook == IF LookedUp \in DOMAIN tree THEN tree[LookedUp].type ELSE "directory"

(* A row of the first query, or what the second query says. *)
Info ==
  CASE listing.query = "row" /\ LookedUp \in DOMAIN tree -> tree[LookedUp].type
    [] listing.query = "below" /\ \E q \in DOMAIN tree : Below(LookedUp, q) -> "directory"
    [] OTHER -> "none"

Informed(phase) ==
  /\ listing.phase = phase
  /\ listing.query = "row" => LookedUp \in DOMAIN tree

Then(phase) == [listing EXCEPT !.phase = phase, !.query = "row"]
Ends(outcome) == listing' = [listing EXCEPT !.phase = "done", !.outcome = outcome]

Reported(p, type) == listing.found \cup {[path |-> p, type |-> type]}
ReportChild(type) == listing' = [Then("children") EXCEPT !.found = Reported(listing.item, type)]

-----------------------------------------------------------------------------
(* Names and children *)

(* Mutant of Children: only rows have names. *)
ChildRows(p) == {q \in DOMAIN tree : Below(p, q) /\ Len(q) = Len(p) + 1}

Children(p) == {Upto(q, Len(p) + 1) : q \in {r \in DOMAIN tree : Below(p, r)}}

(* list_directory looks before it lists; ls calls it once for nothing. *)
Check ==
  \/ /\ Informed("check") /\ Info = "directory"
     /\ listing' = Then(IF Called("ls") THEN "recheck" ELSE "names")
  \/ Informed("recheck") /\ Info = "directory" /\ listing' = Then("names")
  \/ (Informed("check") \/ Informed("recheck")) /\ Info = "file" /\ Ends("raised")
  \/ /\ (Informed("check") \/ Informed("recheck")) /\ Info = "none"
     /\ Ends(IF Called("ls") THEN "raised" ELSE "returned")

ListNames ==
  /\ listing.phase = "names"
  /\ listing' = [Then("children") EXCEPT !.left = Children(listing.call.path)]

NextChild ==
  /\ listing.phase = "children"
  /\ IF listing.left = {} THEN Ends("returned")
     ELSE \E q \in listing.left :
            listing' = [Then("child") EXCEPT !.item = q, !.left = @ \ {q}]

-----------------------------------------------------------------------------
(* ls *)

LsInfo ==
  /\ Called("ls") /\ Informed("info")
  /\ IF Info = "file"
     THEN listing' = [listing EXCEPT !.phase = "done", !.outcome = "returned",
                                     !.found = Reported(listing.call.path, "file")]
     ELSE listing' = Then("check")

LsChild ==
  /\ Called("ls") /\ Informed("child")
  /\ CASE Info = "file" /\ listing.call.tolerant -> listing' = Then("node")
       [] Info = "none" /\ listing.call.tolerant -> ReportChild("corrupt")
       [] Info = "none" /\ ~listing.call.tolerant -> ReportChild("directory")
       [] OTHER -> ReportChild(Info)

(* A tolerant listing takes the row once more; a directory there by now raises
   an error that nothing catches, ... *)
LsNode ==
  /\ listing.phase = "node"
  /\ CASE KindOf(listing.item) = "file" ->
            listing' = [Then("load") EXCEPT !.node = tree[listing.item]]
       [] listing.item \in DOMAIN tree /\ KindOf(listing.item) = "directory" -> Ends("raised")
       [] OTHER -> ReportChild("corrupt")

(* ... then its blocks, which are compared with it. *)
LsLoad ==
  /\ listing.phase = "load"
  /\ \/ ReportChild("file")
     \/ (listing.item \in DOMAIN tree => tree[listing.item] # listing.node) /\ ReportChild("corrupt")

-----------------------------------------------------------------------------
(* propfind: the path, then what is left of its children at a second look.  What
   list_directory_detail has found out about each child is not used. *)

PropfindInfo ==
  /\ Called("propfind") /\ Informed("info")
  /\ IF Info = "none" THEN Ends("missing") ELSE listing' = Then("self")

PropfindSelf ==
  /\ Informed("self")
  /\ LET path  == listing.call.path
         found == IF Info = "none" THEN {} ELSE Reported(path, Info)
         next  == CASE listing.call.depth = 0 -> "done"
                    [] listing.call.depth = 1 /\ path = <<>> -> "names"
                    [] OTHER -> "check"
     IN  listing' = [Then(next) EXCEPT !.found = found,
                                     !.outcome = IF next = "done" THEN "returned" ELSE @]

PropfindChild ==
  /\ Called("propfind") /\ Informed("child")
  /\ IF Info = "none" THEN listing' = Then("children") ELSE ReportChild(Info)

-----------------------------------------------------------------------------
ListingStep ==
  /\ Listing
  /\ \/ RowMissing \/ Check \/ ListNames \/ NextChild
     \/ LsInfo \/ LsChild \/ LsNode \/ LsLoad
     \/ PropfindInfo \/ PropfindSelf \/ PropfindChild
  /\ UNCHANGED <<fsVars, changes, was, disturbed>>

OtherChange ==
  /\ Listing /\ changes < MaxChanges /\ changes' = changes + 1
  /\ \E p \in ChangedPaths :
       \/ \E data \in ChangedData : Overwrite(p, data)
       \/ Delete(p, TRUE)
       \/ \E base \in 0..(Len(p) - 1) : CreateDirectory(p, base)
       \/ \E q \in ChangedPaths : Move(p, q, TRUE)
  /\ was' = was \cup {[path |-> p, type |-> KindOf(p)'] : p \in {i.path : i \in was} \cup Places'}
  /\ disturbed' = disturbed \cup Changed
  /\ UNCHANGED listing

ListingNext == (\E call \in ListingCalls : BeginListing(call)) \/ ListingStep \/ OtherChange

(* What the operations make of a tree: paths of directories and files, and
   nothing below a file. *)
SoundTree ==
  /\ DOMAIN tree \subseteq Seq(Names) \ {<<>>}
  /\ \A p \in DOMAIN tree : tree[p].type \in {"file", "directory"}
  /\ \A p, q \in DOMAIN tree : IsFile(p) => ~Below(p, q)

(* One listing of any tree. *)
ListingSpec == SoundTree /\ ListingInit /\ [][ListingNext]_<<fsVars, listingVars>>

-----------------------------------------------------------------------------
(* Properties *)

Stable(p) == \A q \in disturbed : q # p /\ ~Below(p, q)

StableChildren ==
  {q \in Places : Below(listing.call.path, q) /\ Len(q) = Len(listing.call.path) + 1 /\ Stable(q)}

ListsChildren == Called("ls") \/ listing.call.depth = 1

(* What nobody has touched during a listing is in it, once and as what it is,
   whatever happened to its siblings and to the directory's own row meanwhile
   (operations.py: list_directory, list_directory_detail, get_file_info;
   responses.py: propfind_response); nor does the call end in an error then,
   unless it is the tolerant one, see HealthyStayVisible. *)
StableChildrenListed ==
  listing.phase = "done" /\ ListsChildren /\ StableChildren # {} =>
    /\ listing.outcome = "returned" \/ (Called("ls") /\ listing.call.tolerant)
    /\ listing.outcome = "returned" =>
         \A q \in StableChildren :
           {i \in listing.found : i.path = q} = {[path |-> q, type |-> KindOf(q)]}

(* A listing, which is of no single moment, lists nothing that was not there at
   one: every item has been at its path as what it is listed since the call
   began.  Only a plain ls gives a child that has gone as a directory
   (tests/test_integrity_adversarial.py:
   test_listing_handles_file_not_found_after_enumeration), and a tolerant one
   marks what has changed as corrupt. *)
ListedWereThere ==
  Listing \/ listing.phase = "done" =>
    \A i \in listing.found :
      \/ [path |-> i.path, type |-> i.type] \in was
      \/ /\ Called("ls") /\ [path |-> i.path, type |-> "none"] \in was
         /\ i.type = "directory" /\ ~listing.call.tolerant
      \/ Called("ls") /\ i.type = "corrupt" /\ ~Stable(i.path)

(* Every listing, taken query by query while others change the tree, has what
   nobody touched and nothing that was never there: the two statements above. *)
ListingsAreTrue == StableChildrenListed /\ ListedWereThere
=============================================================================
