CONSTANTS
  Names = {a, b}
  MaxDepth = 2
  LikeClass <- ExactLike
  Bytes = {x}
  BlockSizes = {1}
  BlockSize = 1
  MaxFileSize = 1
  Payloads <- TinyPayloads
  MaxNodes = 3
  MaxBlocks = 1
  MaxVersion = 2
  MaxInflight = 0
SPECIFICATION Spec
SYMMETRY Symmetry
INVARIANTS TypeOK TreeOK
PROPERTIES ImplementsFileSystem
CHECK_DEADLOCK FALSE
