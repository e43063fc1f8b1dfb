CONSTANTS
  Names = {a}
  MaxDepth = 1
  LikeClass <- MCIdentity
  Bytes = {1, 2}
  BlockSizes = {2}
  BlockSize = 2
  MaxFileSize = 4
  Threads = {t1}
  Handles = {h1, h2}
  Payloads <- TwoPayloads
  KeepsLocks = FALSE
  ReusesIds = FALSE
  \* Two handles of a thread on one path; {"mixes"} for fs.transaction started
  \* with a handle open, {"catches"} for a program that goes on after an
  \* exception. It is violated under each of the three.
  Habits = {"overlaps"}
SYMMETRY Symmetry
SPECIFICATION Spec
INVARIANT CommittedContentOK
CHECK_DEADLOCK FALSE
