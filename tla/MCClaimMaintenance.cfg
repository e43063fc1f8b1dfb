CONSTANTS
  Names = {a, b}
  MaxDepth = 1
  LikeClass <- ExactLike
  Bytes = {0, 1}
  BlockSizes = {1, 2}
  BlockSize = 2
  MaxFileSize = 4
  Rechunkers = {r1}
  Collectors = {g1, g2}
  Operations = {"overwrite", "append", "delete", "move"}
  Payloads <- TwoBytes
  Keep = 1
  MaxNodes = 2
  MaxBlocks = 4
  MaxVersion = 3
SPECIFICATION Spec
SYMMETRY Symmetry
\* Each is violated: TLC is run with one of these lines at a time.
PROPERTY GcKeeps
\* INVARIANT NothingLeaks
CHECK_DEADLOCK FALSE
