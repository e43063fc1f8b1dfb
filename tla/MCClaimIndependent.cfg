CONSTANTS
  Names = {a, b}
  MaxDepth = 1
  LikeClass <- MCIdentity
  Bytes = {1, 2}
  BlockSizes = {2}
  BlockSize = 2
  MaxFileSize = 2
  Threads = {t1}
  Handles = {h1, h2}
  Payloads <- TwoPayloads
  KeepsLocks = TRUE
  ReusesIds = TRUE
  Habits = {}
SYMMETRY Symmetry
SPECIFICATION Spec

PROPERTY CommitsIndependently
CHECK_DEADLOCK FALSE
