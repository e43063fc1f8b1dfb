---------------------------- MODULE ClientClaims ----------------------------
(***************************************************************************)
(* What the documents and tests say of the WebDAV handlers and the fsspec  *)
(* methods and the code does not do in every case.                         *)
(***************************************************************************)
EXTENDS Clients, Listings

(* "test_copy_recursive_directory_preserves_relative_paths" (test_fs.py): what is
   at a path below the source is at the same path below the destination, when
   nobody came in the way.  fs.py: copy gives other_paths what find has found,
   which leaves out the source itself: with a single child the common prefix is
   that child. *)
RecursiveCopyKeepsPaths ==
  [][\A p \in Programs :
       /\ Running(p) /\ Arg(p).op = "copy" /\ ~Related(Arg(p).src, Arg(p).dst)
       /\ ~WasFile(before[p], Arg(p).dst)
       /\ task'[p].outcome = "returned" /\ p \notin raced'
       => Copied(p)']_vars

(* "Return a 207 multistatus XML response for PROPFIND." (responses.py): what is
   there all the time has properties.  list_directory_detail raises for a file,
   and the root of an empty namespace is not found. *)
PropfindAnswers ==
  listing.phase = "done" /\ Called("propfind") /\ disturbed = {} =>
    (listing.outcome = "returned" <=> KindOf(listing.call.path) # "none" \/ listing.call.path = <<>>)

(* "keep healthy entries visible" (docs/en/usage.md): a tolerant listing returns
   what nobody has touched.  A file that makes room for a directory between the
   two looks at it ends the whole listing. *)
HealthyStayVisible ==
  listing.phase = "done" /\ Called("ls") /\ listing.call.tolerant /\ StableChildren # {} =>
    listing.outcome = "returned"

(* "test_put_if_none_match_star_prevents_overwrite" and
   "test_copy_overwrite_false_returns_412" (test_webdav.py): a conditional PUT or
   COPY replaces nothing, whoever else is at work. *)
ConditionalWritesKeep ==
  [][\A c \in Clients, p \in DOMAIN tree :
       /\ web[c] # web'[c] /\ Busy(c)
       /\ \/ Req(c).method = "PUT" /\ Req(c).none
          \/ Req(c).method = "COPY" /\ ~Req(c).overwrite
       => ~Lost(p)]_vars
=============================================================================
