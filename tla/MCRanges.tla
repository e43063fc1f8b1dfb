------------------------------ MODULE MCRanges ------------------------------
(***************************************************************************)
(* The read paths of Ranges over every layout of a small file and every    *)
(* range of it: a file of up to MaxLen bytes, each byte its own position,  *)
(* grown block by block.                                                   *)
(***************************************************************************)
EXTENDS Ranges

CONSTANT MaxLen     \* bound on the bytes of a file

ASSUME RangesAssumption == MaxLen \in Nat

VARIABLES blocks, range

rangeVars == <<blocks, range>>

Data == FlattenSeq(blocks)

NoExample == blocks = <<>> /\ range = <<0, 0>>

Grow(n) ==
  /\ Len(Data) + n <= MaxLen
  /\ blocks' = Append(blocks, [i \in 1..n |-> Len(Data) + i - 1])
  /\ UNCHANGED range

Ask(s, e) ==
  /\ range' = <<s, e>>
  /\ UNCHANGED blocks

NextExample ==
  \/ \E n \in 1..MaxLen : Grow(n)
  \/ \E s, e \in 0..(MaxLen + 1) : Ask(s, e)

RangeSpec == NoExample /\ [][NextExample]_rangeVars

WalkIsSlice == WalkedRange(blocks, range[1], range[2]) = Slice(Data, range[1], range[2])

WalkSeesItsBlocks ==
  Walked(blocks, range[1], range[2]) =
    {i \in 1..Len(blocks) :
       \E p \in 1..Len(blocks[i]) : blocks[i][p] >= range[1] /\ blocks[i][p] < range[2]}

IndexedIsSlice == IndexedRange(blocks, range[1], range[2]) = Slice(Data, range[1], range[2])

(* Streaming, checked and unchecked range reads return the bytes of the range,
   whatever the sizes of the blocks: nothing is lost or doubled where blocks
   meet, and a range beyond the end of the file is cut short.  Checked reads
   verify exactly the blocks that they take bytes from. *)
RangesAreSlices == WalkIsSlice /\ WalkSeesItsBlocks /\ IndexedIsSlice
=============================================================================
