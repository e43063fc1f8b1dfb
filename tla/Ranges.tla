------------------------------- MODULE Ranges -------------------------------
(***************************************************************************)
(* How the three read paths of operations.py cut the bytes [s, e) out of   *)
(* the blocks of a file: blocks is the sequence of their data, in sequence *)
(* order.  Blocks differ in length, an append can be chunked otherwise     *)
(* than the file was.  Positions count from 0, as in the code.             *)
(***************************************************************************)
EXTENDS Integers, SequencesExt

Smaller(i, j) == IF i < j THEN i ELSE j
Larger(i, j) == IF i > j THEN i ELSE j

(* What is expected of all of them. *)
Slice(data, s, e) ==
  IF s < 0 \/ e <= s THEN <<>> ELSE SubSeq(data, s + 1, Smaller(e, Len(data)))

-----------------------------------------------------------------------------
(* Mutant of Visit: a block is skipped only when it ends before the range. *)
VisitFromEarlier(s, e, w, b) ==
  LET from == Larger(0, s - w.offset)
      upto == Smaller(Len(b), e - w.offset)
  IN  IF w.done THEN w
      ELSE IF w.offset + Len(b) < s THEN [w EXCEPT !.offset = @ + Len(b), !.at = @ + 1]
      ELSE IF w.offset >= e THEN [w EXCEPT !.done = TRUE]
      ELSE [w EXCEPT !.out = @ \o SubSeq(b, from + 1, upto), !.seen = @ \cup {w.at + 1},
                     !.done = Len(w.out) + upto - from >= e - s,
                     !.offset = @ + Len(b), !.at = @ + 1]

(* Mutant of Visit: the last block is not cut. *)
VisitToBlockEnd(s, e, w, b) ==
  LET from == Larger(0, s - w.offset)
  IN  IF w.done THEN w
      ELSE IF w.offset + Len(b) <= s THEN [w EXCEPT !.offset = @ + Len(b), !.at = @ + 1]
      ELSE [w EXCEPT !.out = @ \o SubSeq(b, from + 1, Len(b)), !.seen = @ \cup {w.at + 1},
                     !.done = Len(w.out) + Len(b) - from >= e - s,
                     !.offset = @ + Len(b), !.at = @ + 1]

(* One round of the loop over the blocks: w has the offset of block b, the
   bytes emitted so far, the numbers of the blocks they are from, and whether
   the loop was left. *)
Visit(s, e, w, b) ==
  LET from == Larger(0, s - w.offset)
      upto == Smaller(Len(b), e - w.offset)
  IN  IF w.done THEN w
      ELSE IF w.offset + Len(b) <= s THEN [w EXCEPT !.offset = @ + Len(b), !.at = @ + 1]
      ELSE IF w.offset >= e THEN [w EXCEPT !.done = TRUE]
      ELSE [w EXCEPT !.out = @ \o SubSeq(b, from + 1, upto), !.seen = @ \cup {w.at + 1},
                     !.done = Len(w.out) + upto - from >= e - s,
                     !.offset = @ + Len(b), !.at = @ + 1]

Walk(blocks, s, e) ==
  LET start == [offset |-> 0, at |-> 0, out |-> <<>>, seen |-> {}, done |-> s < 0 \/ e <= s]
      after[i \in 0..Len(blocks)] ==
        IF i = 0 THEN start ELSE Visit(s, e, after[i - 1], blocks[i])
  IN  after[Len(blocks)]

(* read_file_streaming_range, and _read_file_range_with_integrity as long as
   no check fails; the latter verifies the blocks that Walked names. *)
WalkedRange(blocks, s, e) == Walk(blocks, s, e).out

Walked(blocks, s, e) == Walk(blocks, s, e).seen

-----------------------------------------------------------------------------
(* Where block i starts. *)
OffsetOf(blocks, i) == Len(FlattenSeq(SubSeq(blocks, 1, i - 1)))

(* Python's data[i:j]. *)
PySlice(data, i, j) ==
  LET Place(k) == IF k < 0 THEN Larger(0, k + Len(data)) ELSE Smaller(k, Len(data))
  IN  SubSeq(data, Place(i) + 1, Place(j))

(* Mutant of IndexedRange: the offset in the first block is not subtracted. *)
IndexedRangeFromStart(blocks, s, e) ==
  LET ends   == {i \in 1..Len(blocks) : OffsetOf(blocks, i) + Len(blocks[i]) >= e}
      last   == IF ends = {} THEN Len(blocks) ELSE Min(ends)
      starts == {i \in 1..last : OffsetOf(blocks, i) + Len(blocks[i]) > s}
      first  == Min(starts)
  IN  IF starts = {} THEN <<>>
      ELSE PySlice(FlattenSeq(SubSeq(blocks, first, last)), s, e)

(* read_file_range with the policy "off": the first block that reaches beyond
   s and the first that reaches e, the search ending at the latter. *)
IndexedRange(blocks, s, e) ==
  LET ends   == {i \in 1..Len(blocks) : OffsetOf(blocks, i) + Len(blocks[i]) >= e}
      last   == IF ends = {} THEN Len(blocks) ELSE Min(ends)
      starts == {i \in 1..last : OffsetOf(blocks, i) + Len(blocks[i]) > s}
      first  == Min(starts)
      from   == s - OffsetOf(blocks, first)
  IN  IF starts = {} THEN <<>>
      ELSE PySlice(FlattenSeq(SubSeq(blocks, first, last)), from, from + e - s)
=============================================================================
