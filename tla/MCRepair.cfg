CONSTANTS
  a = a
  b = b
  dots = dots
  n1 = n1
  n2 = n2
  t1 = t1
  t2 = t2
  Names = {a, b, dots, n1, n2, t1, t2}
  MaxDepth = 5
  LikeClass <- ExactLike
  Bytes = {0, 1}
  BlockSizes = {1}
  BlockSize = 1
  MaxFileSize = 2
  Namespaces = {n1, n2}
  Stamps <- TwoStamps
  InvalidNames = {dots}
  Scenarios <- AllScenarios
  MaxDamage = 2
  MaxBlocks = 3
  MaxSequence = 2
SPECIFICATION Spec
SYMMETRY Symmetry
INVARIANT RepairSettles
PROPERTIES RepairKeepsContent RepairBumpsVersion LiveBlocksStayLive RepairStaysInScope PreviewWarns
CHECK_DEADLOCK FALSE
