CONSTANTS
  Names = {a, b}
  MaxDepth = 1
  LikeClass <- MCIdentity
  Bytes = {1, 2}
  BlockSizes = {2}
  BlockSize = 2
  MaxFileSize = 2
  Threads = {t1, t2}
  Handles = {h1, h2}
  Payloads <- TwoPayloads
  KeepsLocks = FALSE
  ReusesIds = FALSE
  Habits = {}
SYMMETRY Symmetry
SPECIFICATION Spec
INVARIANTS StackBalanced CommittedOK
PROPERTY AllOrNothing
CHECK_DEADLOCK FALSE
