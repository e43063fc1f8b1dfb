CONSTANTS
  Names = {a}
  MaxDepth = 1
  LikeClass <- MCIdentity
  Bytes = {1, 2}
  BlockSizes = {2}
  BlockSize = 2
  MaxFileSize = 2
  Threads = {t1, t2}
  Handles = {h1, h2}
  Payloads <- BytePayloads
  KeepsLocks = TRUE
  ReusesIds = TRUE
  Habits = {}
SPECIFICATION FairSpec

PROPERTY EveryHandleCloses
CHECK_DEADLOCK FALSE
