------------------------------- MODULE Paths -------------------------------
(***************************************************************************)
(* Paths of one namespace.  validate_path accepts only absolute paths      *)
(* without empty, "." or ".." segments, so a path is modelled as its       *)
(* non-empty sequence of segment names; the root "/" is <<>> and never has *)
(* a row.  MaxDepth stands for the 700 characters of FileNode.path.        *)
(*                                                                         *)
(* Two comparisons of the code differ and are kept apart: path = and       *)
(* path__in compare names exactly, path__startswith is a LIKE, which       *)
(* compares the classes that LikeClass gives the names.  On a backend with *)
(* a case-sensitive LIKE every name is its own class; SQLite's LIKE puts   *)
(* "a" and "A" in one class.                                               *)
(***************************************************************************)
EXTENDS Naturals, Sequences

CONSTANTS
  Names,       \* the segment names in use
  MaxDepth,    \* the longest path, in segments
  LikeClass    \* the class of each name under the backend's LIKE

ASSUME PathsAssumption ==
  /\ MaxDepth \in Nat \ {0}
  /\ LikeClass \in [Names -> Names]

Paths == UNION {[1..n -> Names] : n \in 1..MaxDepth}

(* The first k segments of p. *)
Upto(p, k) == SubSeq(p, 1, k)

(* The last segment of a path and the directory that holds it. *)
Parent(p) == Upto(p, Len(p) - 1)

Ancestors(p) == {Upto(p, k) : k \in 1..(Len(p) - 1)}

(* q is strictly below p in the tree of directories. *)
Below(p, q) ==
  /\ Len(p) < Len(q)
  /\ \A i \in 1..Len(p) : q[i] = p[i]

(* q matches the pattern p + "/%" of path__startswith. *)
LikeBelow(p, q) ==
  /\ Len(p) < Len(q)
  /\ \A i \in 1..Len(p) : LikeClass[q[i]] = LikeClass[p[i]]

(* Prefix rewriting: dst + path[len(src):]. *)
Rebase(src, dst, p) == dst \o SubSeq(p, Len(src) + 1, Len(p))

(* The backends whose LIKE tells every two names apart. *)
CaseSensitiveLike == \A n \in Names : LikeClass[n] = n
=============================================================================
