CONSTANTS
  Names = {a, b}
  MaxDepth = 1
  LikeClass <- ExactLike
  Bytes = {0, 1}
  BlockSizes = {1, 2}
  BlockSize = 2
  MaxFileSize = 4
  Rechunkers = {r1, r2}
  Collectors = {g1}
  Operations = {"overwrite", "append", "delete", "move"}
  Payloads <- TwoBytes
  Keep = 1
  MaxNodes = 2
  MaxBlocks = 5
  MaxVersion = 3
SPECIFICATION Spec
SYMMETRY Symmetry
INVARIANTS RowsDescribeContent GcListsGarbage
PROPERTIES OnlyMovesLeak LayoutBumpsVersion RechunkKeepsContent
CHECK_DEADLOCK FALSE
