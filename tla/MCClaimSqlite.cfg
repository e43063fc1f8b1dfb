CONSTANTS
  Names = {a, b}
  MaxDepth = 3
  LikeClass <- FoldedLike
  Bytes = {x}
  BlockSizes = {1}
  BlockSize = 1
  MaxFileSize = 1
  Payloads <- TinyPayloads
  MaxNodes = 3
  MaxBlocks = 0
  MaxVersion = 2
  MaxInflight = 0
SPECIFICATION Spec
\* Each is violated: TLC is run with one of these lines at a time.
INVARIANT NoFileAboveAnother
\* PROPERTY DeleteStaysBelow
CHECK_DEADLOCK FALSE
