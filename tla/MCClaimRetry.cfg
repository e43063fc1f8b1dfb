CONSTANTS
  d = "d"
  f = "f"
  t = "t"
  temp = "temp"
  r1 = "r1"
  r2 = "r2"
  r3 = "r3"
  x = x
  y = y
  Names = {"d", "f", "t", "temp", "r1", "r2"}
  MaxDepth = 5
  LikeClass <- ExactLike
  Bytes = {x, y}
  MaxFileSize = 2
  Root <- TargetRoot
  SlashHint = FALSE
  SourceName = "f"
  TempName = "temp"
  RunIds <- Runs
  Options <- DirectOptions
  Sources <- AllSources
  Targets <- EmptyTarget
  ForeignPaths = {}
  ForeignData <- SomeForeignData
  MaxFaults = 1
  MaxForeign = 1
  MaxEvents = 1
SPECIFICATION MigrateSpec
\* Each is violated: TLC is run with one of these lines at a time.
INVARIANT FailedEntriesAreRetried
\* INVARIANT ResumeSkipsSuccesses
CHECK_DEADLOCK FALSE
