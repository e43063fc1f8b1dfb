CONSTANTS
  Names = {a, b}
  MaxDepth = 2
  LikeClass <- ExactLike
  Bytes = {x}
  BlockSizes = {1}
  BlockSize = 1
  MaxFileSize = 1
  Payloads <- TinyPayloads
  MaxNodes = 3
  MaxBlocks = 2
  MaxVersion = 2
  MaxInflight = 1
SPECIFICATION Spec
\* Each is violated: TLC is run with one of these lines at a time.
PROPERTY CopyCopies
\* PROPERTY RmdirKeepsFiles
\* PROPERTY MoveKeepsSource
CHECK_DEADLOCK FALSE
