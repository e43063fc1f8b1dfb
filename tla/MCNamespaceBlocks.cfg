CONSTANTS
  Names = {a, b}
  MaxDepth = 1
  LikeClass <- ExactLike
  Bytes = {x, y}
  BlockSizes = {2}
  BlockSize = 2
  MaxFileSize = 3
  Payloads <- BlockPayloads
  MaxNodes = 2
  MaxBlocks = 4
  MaxVersion = 2
  MaxInflight = 1
SPECIFICATION Spec
SYMMETRY Symmetry
INVARIANTS BlockGraphOK ContentOK TransactionOK
PROPERTIES VersionGuardsContent FreeBlocksStayFree ImplementsFileSystem
CHECK_DEADLOCK FALSE
