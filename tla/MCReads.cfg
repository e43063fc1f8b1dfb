CONSTANTS
  Names = {a}
  MaxDepth = 2
  LikeClass <- ExactLike
  Bytes = {x, y}
  BlockSizes = {1, 2}
  BlockSize = 2
  MaxFileSize = 3
  Readers = {r1}
  Policies = {"off", "metadata", "checksum"}
  Payloads <- SomePayloads
  MaxNodes = 2
  MaxBlocks = 3
  MaxVersion = 2
  MaxLen = 7
SPECIFICATION ReadsOrRanges
SYMMETRY Symmetry
INVARIANTS RangesAreSlices ReadsAreSlices CalmReadsSucceed ChecksumReadsRow
PROPERTY StaleHandlesRaise
CHECK_DEADLOCK FALSE
